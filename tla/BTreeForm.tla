---------------------------- MODULE BTreeForm ----------------------------
(***************************************************************************)
(* What the B-tree of BTree.tla is at every wait: a balanced search tree,  *)
(* a map, and as far as it has hashes a copy of what storage has pinned.   *)
(***************************************************************************)
EXTENDS BTree

Children(a) == {heap[a][i].child : i \in DOMAIN heap[a]} \ {Null}

--------------------------------------------------------------------------
\* Node::check_invariants

\* min_max_depth: all the depths at which the subtree of a node has a leaf
Depths[a \in Addresses] ==
    IF Children(a) = {} THEN {1}
    ELSE {d + 1 : d \in UNION {Depths[c] : c \in Children(a)}}

KeysUnder[a \in Addresses] ==
    (DOMAIN heap[a] \ {Inf}) \cup UNION {KeysUnder[c] : c \in Children(a)}

\* assert(_root->node->check_invariants()) at the end of raw_insert, btree.cpp
\* line 556: no node too big, all leaves at the same depth, keys in order.  The
\* code compares a node's keys with the id before which it hangs; here all
\* keys below an entry lie between that id and the one in front of it.
CheckInvariants ==
    (rootNode # Null /\ \E c \in Coroutines : pc[c] \in {"pick", "loop", "store"}) =>
        /\ Cardinality(Depths[rootNode]) = 1
        /\ \A a \in Addresses :
            /\ Size(heap[a]) <= MaxNodeSize
            /\ \A i \in DOMAIN heap[a] : heap[a][i].child # Null =>
                \A k \in KeysUnder[heap[a][i].child] :
                    Before(k, i) /\ \A j \in DOMAIN heap[a] : Before(j, i) => Before(j, k)

\* insert_node relies on the entry after the median being the one whose child
\* was split, and on that child having been emptied (btree.cpp 211-216).
AttachSlot ==
    \A c \in Coroutines :
        (pc[c] = "attach" /\ carry # NoSplit) =>
            LET up == Top(stack)
            IN  /\ carry.id \notin DOMAIN heap[up.node]
                /\ First(Successors(heap[up.node], carry.id)) = up.id
                /\ heap[up.node][up.id].child = at
                /\ heap[at] = EmptyMap

--------------------------------------------------------------------------
\* What the tree holds: the key entries of all its nodes, those on the way up
\* from a split included.
Holders(k) ==
    {<<"heap", a>> : a \in {b \in Addresses : k \in DOMAIN heap[b]}}
    \cup (IF carry # NoSplit /\ carry.id = k THEN {<<"median", 0>>} ELSE {})
    \cup (IF carry # NoSplit /\ k \in DOMAIN carry.right THEN {<<"right", 0>>} ELSE {})

\* Moving entries between nodes over several waits, and inserting a key that is
\* already somewhere, never leaves a key in two nodes.
OneCopy == \A k \in Keys : Cardinality(Holders(k)) <= 1

HeldEntry(k) ==
    LET h == CHOOSE x \in Holders(k) : TRUE
    IN  IF h[1] = "heap" THEN heap[h[2]][k]
        ELSE IF h[1] = "median" THEN carry.entry ELSE carry.right[k]

Contents ==
    [k \in {j \in Keys : Holders(j) # {}} |-> HeldEntry(k).value]

Pairs(m) == {<<k, m[k]>> : k \in DOMAIN m}

Offered ==
    Pairs(buffer) \cup Pairs(batch)
    \cup (IF \E c \in Coroutines : pc[c] = "descend"
          THEN {<<item.key, item.value>>} ELSE {})

\* The tree implements the map: no split, store or failure loses a key that
\* was inserted or gives it a value nobody inserted for it, and a pair leaves the
\* buffers only when its key is in the tree, with its value or with an older one.
Dict == INSTANCE Dictionary WITH contents <- Contents, offered <- Offered
ImplementsDictionary == Dict!DictSpec

--------------------------------------------------------------------------
\* What a find sees

NotFound == NoValue

\* A find ends with a value, or has to fetch the node of a hash first.
Ends(value) == [value |-> value, fetch |-> NoHash]
Fetches(hash) == [value |-> NotFound, fetch |-> hash]

\* Node::find as far as it gets in memory, by node and by key
FindInNode[a \in Addresses] ==
    [k \in Keys |->
        LET i == LowerBound(heap[a], k)
            e == heap[a][i]
        IN  IF AtOrAfter(heap[a], k) = {} THEN Ends(NotFound)
            ELSE IF i = k THEN Ends(e.value)
            ELSE IF e.child # Null THEN FindInNode[e.child][k]
            ELSE IF e.hash # NoHash THEN Fetches(e.hash)
            ELSE Ends(NotFound)]

\* BTree::find
FindInMemory(k) ==
    IF k \in DOMAIN buffer THEN Ends(buffer[k])
    ELSE IF rootNode # Null THEN FindInNode[rootNode][k]
    ELSE IF rootHash # NoHash THEN Fetches(rootHash)
    ELSE Ends(NotFound)

\* Whenever another coroutine may run and no split is on its way up, a find
\* that comes then answers as the map would, from memory alone: what is
\* buffered, else what the tree holds, and that it holds nothing if so.
FoundUnlessSplit ==
    (Quiet /\ carry = NoSplit /\ rootNode # Null) =>
        \A k \in Keys :
            FindInMemory(k) = Ends(IF k \in DOMAIN buffer THEN buffer[k]
                                   ELSE IF k \in DOMAIN Contents THEN Contents[k]
                                   ELSE NotFound)

--------------------------------------------------------------------------
\* Hashes

HashesOf(node) == {node[i].hash : i \in DOMAIN node}

HashesOnTheWay ==
    IF carry = NoSplit THEN {} ELSE {carry.entry.hash} \cup HashesOf(carry.right)

HashesInNodes == UNION {HashesOf(heap[a]) : a \in Addresses}

HashesInMemory == ({rootHash} \cup HashesInNodes \cup HashesOnTheWay) \ {NoHash}

\* Node::store trusts a child_hash it finds (btree.cpp 406): once a batch is in
\* the tree, a hash that is kept is the hash of what the child holds now.
\* Between batches, and after a failed store, the same holds of _root->hash.
HashesFresh ==
    (\A c \in Coroutines : pc[c] \in {"ready", "loop", "store", "adding", "pinning"}) =>
        /\ \A a \in Addresses : \A i \in DOMAIN heap[a] :
            LET e == heap[a][i]
            IN  (e.hash # NoHash /\ e.child # Null) => e.hash = Serialise(heap[e.child])
        /\ (rootHash # NoHash /\ rootNode # Null) => rootHash = Serialise(heap[rootNode])

\* A hash the tree would still hand out, to storage in a parent's text or to the
\* republisher as the root, is pinned: nothing is unpinned before it is
\* forgotten.
HashesPinned == HashesInMemory \subseteq pinned

\* test_btree.cpp 221, for every wait and with failures: what storage has pinned
\* and neither the tree refers to nor is just being removed.
BeingRemoved == {job.hash : c \in {d \in Coroutines : pc[d] = "removing"}}
Garbage == pinned \ (HashesInMemory \cup BeingRemoved \cup {NoHash})

\* Nothing is forgotten without a removal: the only new garbage is what storage
\* could not remove when it was asked to.
NothingLeaks ==
    [][\A h \in Garbage' \ Garbage :
          \E c \in Coroutines : RemoveFailed(c) /\ h = job.hash]_vars
==========================================================================
