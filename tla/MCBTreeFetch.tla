--------------------------- MODULE MCBTreeFetch ---------------------------
(***************************************************************************)
(* A stored tree of three levels, bounds for BTreeFetch.tla and the        *)
(* properties TLC checks on it.                                            *)
(***************************************************************************)
EXTENDS BTreeFetch, TLC

CONSTANTS
    FreeKeys,   \* the keys that are inserted
    LateKeys,   \* those that come after MaxCalls inserts, if the root is still empty
    Sought,     \* the keys that are looked for
    MaxCalls    \* bound on the inserts of FreeKeys

\* The texts an earlier run stored: leaves with one key each, an inner node that is
\* full and one that is not, and the root over both.
Leaf(k) == [i \in {k} |-> [value |-> 0, child |-> NoHash]]

\* children gives the text before each key and the one after them all.
Inner(children) ==
    [i \in DOMAIN children |->
        [value |-> IF i = Inf THEN NoValue ELSE 0, child |-> children[i]]]

StoredLeft  == Inner(4 :> Leaf(1) @@ 6 :> Leaf(5) @@ Inf :> Leaf(7))
StoredRight == Inner(10 :> Leaf(9) @@ Inf :> Leaf(11))
StoredRoot  == Inner(8 :> StoredLeft @@ Inf :> StoredRight)

StoredTexts == {StoredRoot, StoredLeft, StoredRight} \cup {Leaf(k) : k \in {1, 5, 7, 9, 11}}

FetchesRoot == \E f \in Finders : finder[f].pc = "fetching" /\ finder[f].slot = RootSlot

\* Coroutines are alike: the first that is ready makes the next call.  Keys come
\* in ascending order, each once.  Only inserts that overtake the fetch of the root
\* go on for long enough to split a child of it, once it is stored.
FreeCall(k) ==
    LET v == Cardinality(offered) + 1   \* a value of its own
        c == CHOOSE d \in Coroutines : pc[d] = "ready"
    IN  /\ IF k \in FreeKeys THEN v <= MaxCalls
           ELSE /\ v > MaxCalls /\ FetchesRoot /\ ~gone
                /\ isInserting => v > MaxCalls + 1
        /\ \A p \in offered : p[1] < k
        /\ CallInsert(c, k, v)

Work(c) == ~broken /\ (Insert(c) \/ InsertAstray(c))

Seek(f) == ~broken /\ (Search(f) \/ Restored(f) \/ RestoreFailed(f))

MCNext ==
    \/ \E k \in FreeKeys \cup LateKeys : ~broken /\ FreeCall(k)
    \/ \E c \in Coroutines : Work(c)
    \/ \E f \in Finders : Seek(f)
    \/ /\ ~broken
       /\ \/ Destroy
          \/ \E c \in Coroutines : InsertAborted(c)
          \/ \E f \in Finders, k \in Sought : Find(f, k)

mcVars == <<vars, fetchVars>>

\* Storage answers and the io_service runs what is ready.
Fairness ==
    /\ \A c \in Coroutines : WF_mcVars(Work(c))
    /\ \A f \in Finders : SF_mcVars(Seek(f))

MCSpec == FetchInit /\ [][MCNext]_mcVars /\ Fairness

--------------------------------------------------------------------------
\* A find that fetches ends, although inserts go on and the tree may go away.
FindsEnd ==
    \A f \in Finders :
        finder[f].pc \in {"walking", "fetching"}
            ~> finder[f].pc \notin {"walking", "fetching"} \/ broken

\* btree.cpp 591, "to handle the case where `this` get's destroyed while the
\* store operation is running": an insert does not use the tree any more.
InsertLeavesGoneTree == ~touched
==========================================================================
