---------------------------- MODULE BTreeProps ----------------------------
(***************************************************************************)
(* What is stored of the B-tree of BTree.tla, and the protocol it follows. *)
(***************************************************************************)
EXTENDS BTreeForm

--------------------------------------------------------------------------
\* What the hash of a node leads to: its text, the texts of the children it
\* names, and so on down.
Level(text) ==
    LET level[n \in Nat] ==
            IF n = 0 THEN {text}
            ELSE (UNION {{t[i].child : i \in DOMAIN t} : t \in level[n - 1]}) \ {NoHash}
    IN  level

\* A node on every level was in memory when the root was stored, so there are
\* no more levels than nodes.
StoredNodes(text) == UNION {Level(text)[n] : n \in 0..Len(heap)}

StoredKeys(text) == (UNION {DOMAIN t : t \in StoredNodes(text)}) \ {Inf}

\* Node::find on what is stored under a hash
FindStored(text, k) ==
    LET find[t \in StoredNodes(text)] ==
            LET i == LowerBound(t, k)
            IN  IF AtOrAfter(t, k) = {} THEN NotFound
                ELSE IF i = k THEN t[i].value
                ELSE IF t[i].child = NoHash THEN NotFound
                ELSE find[t[i].child]
    IN  find[text]

\* BTree::find, the nodes that it fetches included
FindFetching(k) ==
    LET found == FindInMemory(k)
    IN  IF found.fetch = NoHash THEN found.value ELSE FindStored(found.fetch, k)

\* When nobody is inserting and there is a root hash, as there is unless a store
\* has failed, nothing waits in the buffer and the root hash leads, through
\* pinned nodes only, to every key of every call that returned, those that were
\* only buffered included, and to no other.
IdleMeansStored ==
    (~isInserting /\ rootHash # NoHash /\ rootNode # Null) =>
        /\ DOMAIN buffer = {}
        /\ StoredNodes(rootHash) \subseteq pinned
        /\ \A k \in Keys :
            FindStored(rootHash, k) = IF k \in DOMAIN Contents THEN Contents[k] ELSE NotFound

--------------------------------------------------------------------------
\* The protocol of insert

\* Between `while` and the move of the buffer nothing else runs: what is in the
\* buffer then is taken, and without anything there the insert is over.
Looping == \E c \in Coroutines : pc[c] = "loop"

Writer == INSTANCE TreeWriter WITH
    inserting <- isInserting /\ (Looping => DOMAIN buffer # {}),
    storing   <- \E c \in Coroutines : Bound(c, "store") \/ pc[c] \in {"adding", "pinning"},
    buffer    <- IF Looping THEN {} ELSE DOMAIN buffer,
    batch     <- IF Looping THEN DOMAIN buffer
                 ELSE DOMAIN batch \cup
                      {item.key : c \in {d \in Coroutines : pc[d] = "descend"}},
    memory    <- {k \in Keys : Holders(k) # {}},
    root      <- IF rootHash = NoHash THEN {} ELSE StoredKeys(rootHash)

\* The tree follows the protocol the injector relies on: a root hash leads to
\* exactly the keys that are in memory, a batch is all in the tree before the
\* old hash goes, and a buffered pair stays until it is in a batch.
ImplementsWriter == Writer!Init /\ [][Writer!Next(Keys)]_(Writer!vars)
==========================================================================
