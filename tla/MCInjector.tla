--------------------------- MODULE MCInjector ---------------------------
(***************************************************************************)
(* Bounds for Injector.tla and the properties TLC checks on it.            *)
(***************************************************************************)
EXTENDS Injector

CONSTANTS
    MaxAsked,   \* bound on the calls of insert_content
    MaxFired    \* bound on the timer handlers that are queued at once

MCRepublish ==
    /\ \/ fired < MaxFired /\ Rep!TimerExpires
       \/ Rep!TimerHandler \/ Rep!FinishRound \/ Rep!AbandonRound
    /\ UNCHANGED own

MCNext ==
    /\ ~thrown
    /\ \/ asked < MaxAsked /\ InsertContent
       \/ Destroy \/ MCRepublish \/ Write \/ Notify
       \/ \E n \in 1..asked : Work(n)

\* The io_service runs its handlers in the order in which they became ready, so
\* one that must wait for a round of the republisher again and again is still
\* run; IPFS answers every call and the timer expires.  Nothing makes the
\* program call insert_content or the destructor.
Fairness ==
    /\ WF_vars(~thrown /\ MCRepublish) /\ WF_vars(~thrown /\ Notify)
    /\ SF_vars(~thrown /\ Write)
    /\ \A n \in 1..MaxAsked : SF_vars(~thrown /\ n \in 1..asked /\ Work(n))

MCSpec == Init /\ [][MCNext]_vars /\ Fairness

--------------------------------------------------------------------------
Answered(n) == \E a \in answers : a.request = n
Succeeded(n) == [request |-> n, result |-> "ok"] \in answers

\* Every request is answered, whatever fails and however many are queued, unless
\* the injector is destroyed or the store of a child fails (btree.cpp 415).
AnswersRequests ==
    \A n \in 1..MaxAsked : (asked >= n) ~> (Answered(n) \/ destroyed \/ thrown)

\* A success that came early, while the request was only buffered, is made good:
\* the request reaches the saved root unless a store fails.
SuccessReachesFile ==
    \A n \in 1..MaxAsked : Succeeded(n) ~> (n \in file \/ storeFailed \/ destroyed)

\* README.md 167, "When this command succeeds, we can have a look at the
\* database": a request that was told success is in the database that the IPNS
\* name leads to.
SuccessMeansPublished ==
    \A n \in Requests : Succeeded(n) => n \in published
==========================================================================
