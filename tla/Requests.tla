----------------------------- MODULE Requests -----------------------------
(***************************************************************************)
(* What every asynchronous call of the library promises its caller: the    *)
(* callback of each request is called, and called once.  Requests are      *)
(* numbered in the order they are made.                                    *)
(***************************************************************************)
EXTENDS Naturals

VARIABLES
    made,      \* how many requests were made
    answered,  \* the requests whose callback was called
    halted     \* an exception has left io_service::run

reqVars == <<made, answered, halted>>

ReqInit == made = 0 /\ answered = {} /\ halted = FALSE

Make ==
    /\ ~halted
    /\ made' = made + 1
    /\ UNCHANGED <<answered, halted>>

Answer(n) ==
    /\ ~halted
    /\ n \in 1..made /\ n \notin answered
    /\ answered' = answered \cup {n}
    /\ UNCHANGED <<made, halted>>

Halt ==
    /\ halted' = TRUE
    /\ UNCHANGED <<made, answered>>

ReqNext == Make \/ Halt \/ \E n \in 1..made : Answer(n)

ReqSafe == ReqInit /\ [][ReqNext]_reqVars

\* Somebody is answered as long as somebody waits.
ReqSpec == ReqSafe /\ WF_reqVars(\E n \in 1..made : Answer(n))
==========================================================================
