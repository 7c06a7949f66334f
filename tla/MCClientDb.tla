---------------------------- MODULE MCClientDb ----------------------------
(***************************************************************************)
(* Two databases, bounds for ClientDb.tla and the properties TLC checks.   *)
(***************************************************************************)
EXTENDS ClientDb

CONSTANTS
    MaxRoots,   \* bound on the roots that one ClientDb makes
    MaxWaits    \* bound on the calls of wait_for_db_update

\* Two databases: "A" has a root and a node after its last key, "B" is a single
\* node in which the same keys have another value.
Pointer(value, child) == [value |-> value, child |-> child]
MCText == [h \in {"A", "A2", "B"} |->
    CASE h = "A"  -> [i \in {1, Inf} |->
                        IF i = 1 THEN Pointer("x", NoHash) ELSE Pointer(NoValue, "A2")]
      [] h = "A2" -> [i \in {2} |-> Pointer("x", NoHash)]
      [] h = "B"  -> [i \in {1, 2} |-> Pointer("y", NoHash)]]

\* The second name leads to one of them only.
MCRootsOf == [n \in Names |-> IF n = "n1" THEN {"A", "B"} ELSE {"B"}]

MCNext ==
    /\ Next
    /\ Len(roots') <= MaxRoots
    /\ waits' <= MaxWaits

\* IPFS answers every cat, and the io_service runs its handlers in the order in
\* which they became ready: others run in between, but not for ever.
Fairness == WF_vars(Saved) /\ \A f \in Finders : SF_vars(Get(f))

MCSpec == Init /\ [][MCNext]_vars /\ Fairness

--------------------------------------------------------------------------
\* get_content ends, however often another database is loaded meanwhile.
GetsEnd ==
    \A f \in Finders :
        finder[f].pc \in {"walking", "fetching", "found"}
            ~> finder[f].pc \in {"rest", "not_found", "error"}

\* client.h 43, "Find the content previously stored by the injector under
\* `url`": a find does not deny a key that the database holds.
HeldIsFound ==
    [][\A f \in Finders : AnswersNow(f, "not_found") =>
        ~Held(finder[f].key, roots[finder[f].root].hash)]_vars
==========================================================================
