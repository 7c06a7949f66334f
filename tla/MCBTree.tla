----------------------------- MODULE MCBTree -----------------------------
(***************************************************************************)
(* Bounds for BTree.tla.  The first inserts follow one of the sequences in *)
(* Preloads, one after the other and without failures, so that the free    *)
(* ones that follow meet trees of every shape; those may come at any wait  *)
(* of another insert and with any of FreeKeys.                             *)
(***************************************************************************)
EXTENDS BTreeProps

CONSTANTS
    Preloads,     \* the sequences of keys a behaviour may start with
    FreeKeys,     \* the keys of the inserts that follow
    MaxCalls,     \* bound on the inserts that follow, by what came first
    MaxFaults     \* bound on failing storage operations

VARIABLES
    preload,      \* the keys still to be inserted first
    left,         \* free inserts still to come
    faults,       \* failures so far
    settled       \* the keys in the tree when an insert last returned

hist   == <<preload, left, faults, settled>>
mcVars == <<vars, hist>>

MCInit ==
    /\ Init
    /\ preload \in Preloads
    /\ left = MaxCalls[preload]
    /\ faults = 0
    /\ settled = {}

\* Coroutines are alike: the first that is ready makes the next call.
NextCaller == CHOOSE c \in Coroutines : pc[c] = "ready"

PreloadCall ==
    /\ preload # <<>> /\ ~isInserting
    /\ StartInsert(NextCaller, Head(preload), 0)
    /\ preload' = Tail(preload)
    /\ UNCHANGED <<left, faults, settled>>

\* Every call has a value of its own.
FreeCall(k) ==
    /\ preload = <<>> /\ left > 0
    /\ Call(NextCaller, k, left)
    /\ left' = left - 1
    /\ UNCHANGED <<preload, faults, settled>>

Work(c) ==
    /\ Step(c)
    /\ settled' = IF pc[c] = "loop" /\ pc'[c] = "ready"
                  THEN DOMAIN Contents ELSE settled
    /\ UNCHANGED <<preload, left, faults>>

Answered(c) == (Added(c) \/ Pinned(c) \/ Removed(c)) /\ UNCHANGED hist

Fault(c) ==
    /\ preload = <<>> /\ faults < MaxFaults
    /\ faults' = faults + 1
    /\ RemoveFailed(c) \/ StoreFailed(c)
    /\ UNCHANGED <<preload, left, settled>>

MCNext ==
    \/ PreloadCall
    \/ \E k \in FreeKeys : FreeCall(k)
    \/ \E c \in Coroutines : Work(c) \/ Answered(c) \/ Fault(c)

MCSpec == MCInit /\ [][MCNext]_mcVars

\* The io_service runs what is ready and storage answers in the end.
Fairness == \A c \in Coroutines : WF_mcVars(Work(c) \/ Answered(c))

FairSpec == MCSpec /\ Fairness

--------------------------------------------------------------------------
\* Values for Preloads and MaxCalls.  With two keys to a node, eight keys in
\* order make a tree of three levels; one key more splits a leaf, three more an
\* inner node.
SmallToGrown == [p \in {<<>>, <<1, 2, 3, 4, 5, 6, 7, 8>>, <<1, 2, 3, 4, 5, 6, 7, 8, 10, 11>>}
                    |-> IF p = <<>> THEN 3 ELSE 2]
GrowingTrees == DOMAIN SmallToGrown

\* Two levels and a full leaf: the next key in it splits it below a parent.
OneFullLeaf == [p \in {<<1, 2, 3, 4>>} |-> 2]
FullLeaf == DOMAIN OneFullLeaf

\* From the start
FourOnEmpty == [p \in {<<>>} |-> 4]
Empty == DOMAIN FourOnEmpty

\* The text an earlier run of the injector stored as its root
EarlierRoot == [k \in {1, 2} |-> [value |-> 0, child |-> NoHash]]

--------------------------------------------------------------------------
\* An insert ends, whatever fails while it runs.
InsertsEnd == isInserting ~> ~isInserting

--------------------------------------------------------------------------
\* What the interface promises and the code does not keep

\* injector.h 57, "Find the content previously stored by the injector under
\* `url`", at every wait of an insert: Injector::get_content may be called
\* while another insert waits, in the parent of a node it has split, for the
\* removal of the node's old hash (btree.cpp 241).  What the split took out of
\* the node is then in a local variable of the parent's frame.
FindDuringInsert == Quiet => \A k \in settled : FindFetching(k) # NotFound

\* injector.h 43, "store its IPFS ID under the `url` in the database", for a url
\* that is inserted again: after an insert that ended well a find gives the value
\* it was given last.
InsertStores ==
    (~isInserting /\ item.key \in Keys) => FindFetching(item.key) = item.value

\* injector.h 57 across a restart: what an earlier run stored, and load_db gave
\* to BTree::load, is still found once this run has inserted something.
LoadedKept ==
    (~isInserting /\ LoadedRoot # NoHash) =>
        \A k \in DOMAIN LoadedRoot \ {Inf} : FindFetching(k) # NotFound
==========================================================================
