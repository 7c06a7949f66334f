-------------------------- MODULE MCRepublisher --------------------------
(***************************************************************************)
(* Bounds for Republisher.tla and the properties TLC checks on it.         *)
(***************************************************************************)
EXTENDS Republisher

CONSTANTS
    MaxRequests,  \* bound on the calls of publish
    MaxFired      \* bound on the timer handlers that are queued at once

MCNext ==
    \/ requested < MaxRequests /\ Publish
    \/ fired < MaxFired /\ TimerExpires
    \/ Destroy \/ TimerHandler \/ Progress

\* The io_service runs its handlers, the backend answers and the timer expires;
\* nothing makes the program call publish or the destructor.
Fairness ==
    /\ WF_vars(Progress)
    /\ WF_vars(TimerHandler)
    /\ WF_vars(fired < MaxFired /\ TimerExpires)

MCSpec == Init /\ [][MCNext]_vars /\ Fairness

--------------------------------------------------------------------------
\* Every request is answered, once: the promise of an asynchronous call, also
\* with the publications that fail and with the destructor at any moment.
AnswersRequests == Req!ReqSpec

\* The last value is published again and again until the republisher is
\* destroyed, whether the publications succeed or not.
PublishesAgain ==
    (requested > 0 /\ inflight = <<>>) ~> (inflight # <<>> \/ destroyed)
==========================================================================
