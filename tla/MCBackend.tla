---------------------------- MODULE MCBackend ----------------------------
(***************************************************************************)
(* Bounds for Backend.tla and the properties TLC checks on it.             *)
(***************************************************************************)
EXTENDS Backend

CONSTANT MaxCalls   \* bound on the calls

MCNext ==
    /\ ~broken
    /\ \/ made < MaxCalls /\ BeginCall
       \/ EndCall \/ RunHandler \/ Destroy
       \/ \E n \in running, result \in Results : GoCalls(n, result)

\* Go ends its operations and the io_service runs what is queued.
Fairness ==
    /\ WF_vars(~broken /\ EndCall) /\ WF_vars(~broken /\ RunHandler)
    /\ \A n \in 1..MaxCalls :
          WF_vars(~broken /\ \E result \in Results : n \in running /\ GoCalls(n, result))

MCSpec == Init /\ [][MCNext]_vars /\ Fairness

--------------------------------------------------------------------------
\* No handle leaks: when all calls are over every handle was deleted, also the
\* ones whose handler was taken by cancel before Go called, and also the ones
\* the list has lost, unless their hooks broke the memory first.
HandlesFreed == \A n \in 1..MaxCalls : (n \in alive) ~> (n \notin alive \/ broken)
==========================================================================
