---------------------------- MODULE Dictionary ----------------------------
(***************************************************************************)
(* What BTree gives to whoever calls insert: a map from keys to values in  *)
(* which every key that is once there stays, and which changes only by     *)
(* taking in a pair that was offered.                                      *)
(*                                                                         *)
(* A pair for a new key is stored.  One for a key that is there is stored  *)
(* or dropped, by where in the tree the key happens to be; injector.h 43   *)
(* promises the first of the two only.  The second is what the code does   *)
(* (btree.cpp 251, and 562 for the buffer), not what it should do, and is  *)
(* an action of its own here: InsertStores, which does not allow it, is    *)
(* found violated by MCBTree.                                              *)
(***************************************************************************)
EXTENDS BTreeNode

VARIABLES
    contents,   \* the pairs a search of the settled tree would find
    offered     \* the pairs that were accepted and are not yet in the tree

\* The call is accepted.  One whose key waits in the buffer already changes
\* nothing, though it too is told that all is well.
Offer(k, v) ==
    /\ offered' = offered \cup {<<k, v>>}
    /\ contents' = contents

\* A pair leaves the buffers unless the same one is offered once more.
Taken(k, v) ==
    /\ <<k, v>> \in offered
    /\ offered' \in {offered, offered \ {<<k, v>>}}

Put(k, v) ==
    /\ Taken(k, v)
    /\ contents' = With(contents, k, v)

\* The key keeps the value it has.
Drop(k, v) ==
    /\ Taken(k, v)
    /\ k \in DOMAIN contents
    /\ contents' = contents

DictInit == contents = EmptyMap /\ offered = {}

DictNext == \E k \in Keys, v \in Values : Offer(k, v) \/ Put(k, v) \/ Drop(k, v)

DictSpec == DictInit /\ [][DictNext]_<<contents, offered>>
==========================================================================
