-------------------------- MODULE BTreeHashProofs --------------------------
(***************************************************************************)
(* The hashes of the tree, for every set of keys and of coroutines and     *)
(* every node size: what is kept in memory is pinned and says what the     *)
(* nodes hold, what is removed is forgotten before, and what is forgotten  *)
(* is removed.  So the hash of a tree that is stored leads to all of it,   *)
(* and the tree follows the protocol of TreeWriter.tla.                    *)
(***************************************************************************)
EXTENDS BTreeProofs, BTreeProps

\* A hash is that of one child, which is in memory.
OneChild(F, n) ==
    \A a, b \in 1..n : \A i \in DOMAIN F[a], j \in DOMAIN F[b] :
        (F[a][i].hash = F[b][j].hash /\ F[a][i].hash # NoHash) =>
            F[a][i].child = F[b][j].child /\ F[a][i].child # Null

\* The hash h is that of the node, whose children had been stored before it.
HashOf(h, node) == h = Serialise(node) /\ ToStore(node) = {}

OnPath(st, a, i) == \E j \in 1..Len(st) : st[j].node = a /\ st[j].id = i

\* Below the frames st a hash is that of what the child holds; the frames' own
\* entries are out of date as soon as the insert has changed something.
Fresh(F, n, st) ==
    \A a \in 1..n : \A i \in DOMAIN F[a] :
        (F[a][i].hash # NoHash /\ ~OnPath(st, a, i)) =>
            HashOf(F[a][i].hash, F[F[a][i].child])

Frames == IF Walking THEN stack ELSE <<>>

\* No entry has the hash h, and neither has the root.
Absent(h) ==
    /\ rootHash # h
    /\ \A a \in Addresses : \A i \in DOMAIN Full[a] : Full[a][i].hash # h

RootApart ==
    rootHash # NoHash =>
        \A a \in Addresses : \A i \in DOMAIN Full[a] : Full[a][i].hash # rootHash

Backed ==
    /\ rootHash # NoHash => rootHash \in pinned
    /\ \A a \in Addresses : \A i \in DOMAIN Full[a] :
        Full[a][i].hash # NoHash => Full[a][i].hash \in pinned

\* What is removed was forgotten before.
Forgotten == \A c \in Coroutines : pc[c] = "removing" => Absent(job.hash)

NoHashOnPath ==
    /\ rootHash = NoHash
    /\ \A j \in 1..Len(stack) : heap[stack[j].node][stack[j].id].hash = NoHash

Storing(c) == Bound(c, "store") \/ pc[c] \in {"adding", "pinning"}

StorePath == \A c \in Coroutines : Storing(c) => NoHashOnPath

StoresNode ==
    \A c \in Coroutines : pc[c] \in {"adding", "pinning"} => HashOf(job.hash, heap[at])

RootIsFresh ==
    (rootHash # NoHash /\ rootNode # Null) => HashOf(rootHash, heap[rootNode])

RestFresh == (\A c \in Coroutines : pc[c] \in {"ready", "loop"}) => RootIsFresh

SlotCleared == heap[Top(stack).node][Top(stack).id].hash = NoHash

Cleared == \A c \in Coroutines : Bound(c, "attach") => SlotCleared

HashTree ==
    /\ OneChild(Full, Len(heap)) /\ Fresh(Full, Len(heap), Frames)
    /\ RootApart /\ Backed

HashControl == Forgotten /\ StorePath /\ StoresNode /\ RestFresh /\ Cleared

HashInv == HashTree /\ HashControl

--------------------------------------------------------------------------
\* Texts

Alike(f, g) == DOMAIN f = DOMAIN g /\ \A i \in DOMAIN f : f[i] = g[i]

LEMMA SameText ==
    ASSUME NEW f, NEW g, Alike(f, g)
    PROVE  Serialise(f) = Serialise(g) /\ ToStore(f) = ToStore(g)
BY DEF Alike, Serialise, ToStore

\* Two texts that are the same have the same keys.
LEMMA TextKeys ==
    ASSUME NEW f, NEW g, Serialise(f) = Serialise(g)
    PROVE  KeysOf(f) = KeysOf(g)
<1>1. DOMAIN Serialise(f) = DOMAIN Serialise(g)
    OBVIOUS
<1>2. /\ DOMAIN Serialise(f) = {i \in DOMAIN f : i # Inf \/ f[i].hash # NoHash}
      /\ DOMAIN Serialise(g) = {i \in DOMAIN g : i # Inf \/ g[i].hash # NoHash}
    BY DEF Serialise
<1> HIDE DEF Serialise
<1> QED
    BY <1>1, <1>2 DEF KeysOf

\* Nodes with the same text are the same, if one is not the root.
LEMMA OneText ==
    ASSUME NEW F, NEW n, NEW root, NEW span, NEW lvl, NEW x, NEW m,
           Tree(F, n, root, span, lvl, x, m),
           NEW a \in 1..n, NEW b \in 1..n, a # root, Serialise(F[a]) = Serialise(F[b])
    PROVE  a = b
<1>1. PICK k : k \in KeysOf(F[a])
    BY DEF Tree, NonEmpty
<1>2. k \in KeysOf(F[b])
    BY <1>1, TextKeys
<1> QED
    BY <1>1, <1>2, OneNode

--------------------------------------------------------------------------
\* The frames lead to the only entry that has the node.

LEMMA PathAbove ==
    ASSUME NEW F, NEW n, NEW root, NEW lvl, NEW st, NEW a,
           Walk(F, n, root, lvl, st, a), lvl[a] \in Nat, Len(st) \in Nat,
           NEW b, NEW i, OnPath(st, b, i)
    PROVE  b \in 1..n /\ lvl[b] > lvl[a] /\ b # a /\ i \in DOMAIN F[b]
<1>1. PICK j \in 1..Len(st) : st[j].node = b /\ st[j].id = i
    BY DEF OnPath
<1>2. b \in 1..n /\ i \in DOMAIN F[b] /\ lvl[b] = lvl[a] + (Len(st) + 1 - j)
    BY <1>1 DEF Walk
<1> QED
    BY <1>1, <1>2

LEMMA OnlyFromAbove ==
    ASSUME NEW F, NEW n, NEW root, NEW span, NEW lvl, NEW x, NEW m, NEW st, NEW a \in 1..n,
           Tree(F, n, root, span, lvl, x, m), Walk(F, n, root, lvl, st, a),
           NEW S, st \in Seq(S), x # Null => a # F[x][m].child,
           NEW b \in 1..n, NEW i \in DOMAIN F[b], F[b][i].child = a
    PROVE  st # <<>> /\ b = Top(st).node /\ i = Top(st).id /\ OnPath(st, b, i)
<1>1. lvl[a] \in Nat /\ a # Null /\ ~(b = x /\ i = m)
    <2>1. x \in 1..n => x # Null
        BY DEF Null
    <2> QED
        BY <2>1 DEF Tree, Ghosts, Null
<1>2. st # <<>>
    <2>1. lvl[a] + 1 = lvl[b] /\ lvl[b] <= lvl[root] /\ lvl[b] \in Nat
        BY <1>1 DEF Tree, Levels, Ghosts
    <2>2. a # root
        BY <1>1, <2>1
    <2> QED
        BY <2>2 DEF Walk
<1>3. /\ Top(st).node \in 1..n /\ Top(st).id \in DOMAIN F[Top(st).node]
      /\ F[Top(st).node][Top(st).id].child = a
    BY ONLY <1>1, <1>2, st \in Seq(S), Walk(F, n, root, lvl, st, a), WalkUp
<1>4. b = Top(st).node /\ i = Top(st).id
    BY <1>1, <1>3, OneSlot
<1>5. Len(st) \in 1..Len(st)
    BY <1>2, EmptySeq
<1> QED
    BY <1>2, <1>4, <1>5 DEF OnPath, Top

--------------------------------------------------------------------------
\* Hashes that stay: an entry has its hash from an entry for the same child,
\* which holds what it held.

Carried(F, n, st, G, m, su) ==
    \A b \in 1..m : \A j \in DOMAIN G[b] : G[b][j].hash # NoHash =>
        \E a \in 1..n : \E i \in DOMAIN F[a] :
            /\ F[a][i].hash = G[b][j].hash /\ F[a][i].child = G[b][j].child
            /\ ~OnPath(su, b, j) =>
                /\ ~OnPath(st, a, i)
                /\ Alike(G[F[a][i].child], F[F[a][i].child])

LEMMA CarriedKeeps ==
    ASSUME NEW F, NEW n, NEW st, NEW G, NEW m, NEW su,
           Carried(F, n, st, G, m, su), OneChild(F, n), Fresh(F, n, st)
    PROVE  OneChild(G, m) /\ Fresh(G, m, su)
<1>1. OneChild(G, m)
    <2> SUFFICES ASSUME NEW b \in 1..m, NEW d \in 1..m, NEW j \in DOMAIN G[b], NEW k \in DOMAIN G[d],
                        G[b][j].hash = G[d][k].hash, G[b][j].hash # NoHash
                 PROVE  G[b][j].child = G[d][k].child /\ G[b][j].child # Null
        BY DEF OneChild
    <2>1. PICK a \in 1..n : \E i \in DOMAIN F[a] :
              F[a][i].hash = G[b][j].hash /\ F[a][i].child = G[b][j].child
        BY DEF Carried
    <2>2. PICK e \in 1..n : \E i \in DOMAIN F[e] :
              F[e][i].hash = G[d][k].hash /\ F[e][i].child = G[d][k].child
        BY DEF Carried
    <2> QED
        BY <2>1, <2>2 DEF OneChild
<1>2. Fresh(G, m, su)
    <2> SUFFICES ASSUME NEW b \in 1..m, NEW j \in DOMAIN G[b],
                        G[b][j].hash # NoHash, ~OnPath(su, b, j)
                 PROVE  HashOf(G[b][j].hash, G[G[b][j].child])
        BY DEF Fresh
    <2>1. PICK a \in 1..n : \E i \in DOMAIN F[a] :
              /\ F[a][i].hash = G[b][j].hash /\ F[a][i].child = G[b][j].child
              /\ ~OnPath(st, a, i) /\ Alike(G[F[a][i].child], F[F[a][i].child])
        BY DEF Carried
    <2>2. PICK i \in DOMAIN F[a] :
              /\ F[a][i].hash = G[b][j].hash /\ F[a][i].child = G[b][j].child
              /\ ~OnPath(st, a, i) /\ Alike(G[F[a][i].child], F[F[a][i].child])
        BY <2>1
    <2>3. HashOf(F[a][i].hash, F[F[a][i].child])
        BY <2>2 DEF Fresh
    <2> QED
        BY <2>2, <2>3, SameText DEF HashOf
<1> QED
    BY <1>1, <1>2

LEMMA CarriedSame ==
    ASSUME NEW F, NEW n, NEW st, NEW G, NEW su,
           \A a \in 1..n : DOMAIN G[a] = DOMAIN F[a] /\ \A i \in DOMAIN F[a] : G[a][i] = F[a][i],
           \A a \in 1..n : \A i \in DOMAIN F[a] :
               F[a][i].hash # NoHash => F[a][i].child \in 1..n,
           \A a \in 1..n : \A i \in DOMAIN F[a] :
               (OnPath(st, a, i) /\ F[a][i].hash # NoHash) => OnPath(su, a, i)
    PROVE  Carried(F, n, st, G, n, su)
<1>1. \A a \in 1..n : Alike(G[a], F[a])
    BY DEF Alike
<1> QED
    BY <1>1 DEF Carried

\* Nothing but the hash `gone` disappears from the entries.
Survives(F, n, G, m, gone) ==
    \A a \in 1..n : \A i \in DOMAIN F[a] : F[a][i].hash \notin {NoHash, gone} =>
        \E b \in 1..m : \E j \in DOMAIN G[b] : G[b][j].hash = F[a][i].hash

\* What a step of c forgets it removes.
NoneLost(c) ==
    \A h : (h # NoHash /\ ~Absent(h) /\ Absent(h)') => pc'[c] = "removing" /\ job'.hash = h

Gone(c, h) == h = NoHash \/ (pc'[c] = "removing" /\ job'.hash = h)

LEMMA LostIsGone ==
    ASSUME NEW c, NEW gone, Survives(Full, Len(heap), Full', Len(heap'), gone),
           rootHash \in {rootHash', NoHash, gone}, Gone(c, gone)
    PROVE  NoneLost(c)
<1> SUFFICES ASSUME NEW h, h # NoHash, Absent(h)', h # gone PROVE Absent(h)
    BY DEF NoneLost, Gone
<1>1. rootHash' # h /\ \A b \in 1..Len(heap') : \A j \in DOMAIN Full'[b] : Full'[b][j].hash # h
    BY DEF Absent, Addresses
<1>2. rootHash # h
    BY <1>1
<1>3. ASSUME NEW a \in 1..Len(heap), NEW i \in DOMAIN Full[a], Full[a][i].hash = h PROVE FALSE
    BY <1>1, <1>3 DEF Survives
<1> QED
    BY <1>2, <1>3 DEF Absent, Addresses

LEMMA HashesCarried ==
    ASSUME HashTree, Carried(Full, Len(heap), Frames, Full', Len(heap'), Frames'),
           rootHash' \in {rootHash, NoHash}, pinned' = pinned
    PROVE  HashTree'
<1>1. OneChild(Full', Len(heap')) /\ Fresh(Full', Len(heap'), Frames')
    BY CarriedKeeps DEF HashTree
<1>2. \A b \in 1..Len(heap') : \A j \in DOMAIN Full'[b] : Full'[b][j].hash # NoHash =>
          \E a \in 1..Len(heap) : \E i \in DOMAIN Full[a] : Full[a][i].hash = Full'[b][j].hash
    BY DEF Carried
<1>3. RootApart'
    BY <1>2 DEF RootApart, HashTree, Addresses
<1>4. Backed'
    BY <1>2 DEF Backed, HashTree, Addresses
<1> QED
    BY <1>1, <1>3, <1>4 DEF HashTree

\* The nodes and their hashes stay as they are, and so do the frames whose
\* entries have one.
LEMMA HashesStay ==
    ASSUME HashTree, NEW c, Len(heap') = Len(heap),
           \A a \in 1..Len(heap) :
               DOMAIN Full'[a] = DOMAIN Full[a] /\ \A i \in DOMAIN Full[a] : Full'[a][i] = Full[a][i],
           \A a \in 1..Len(heap) : \A i \in DOMAIN Full[a] :
               (OnPath(Frames, a, i) /\ Full[a][i].hash # NoHash) => OnPath(Frames', a, i),
           \A a \in 1..Len(heap) : \A i \in DOMAIN Full[a] :
               Full[a][i].hash # NoHash => Full[a][i].child \in 1..Len(heap),
           rootHash' = rootHash, pinned' = pinned
    PROVE  HashTree' /\ NoneLost(c)
<1>1. Carried(Full, Len(heap), Frames, Full', Len(heap'), Frames')
    <2>1. Carried(Full, Len(heap), Frames, Full', Len(heap), Frames')
        BY CarriedSame
    <2> QED
        BY <2>1
<1>2. HashTree'
    BY <1>1, HashesCarried
<1>3. Survives(Full, Len(heap), Full', Len(heap'), NoHash)
    BY DEF Survives
<1>4. NoneLost(c)
    BY <1>3, LostIsGone DEF Gone
<1> QED
    BY <1>2, <1>4

\* A hash leads to a node.
LEMMA HashLeads ==
    ASSUME InvS, HashTree, rootNode # Null
    PROVE  \A a \in 1..Len(heap) : \A i \in DOMAIN Full[a] :
               Full[a][i].hash # NoHash => Full[a][i].child \in 1..Len(heap)
<1>1. PICK span, lvl : Shaped(span, lvl)
    BY DEF InvS, Shape
<1>2. \A a \in 1..Len(heap) : \A i \in DOMAIN Full[a] :
          Full[a][i].hash # NoHash => Full[a][i].child # Null
    BY DEF HashTree, OneChild
<1> QED
    BY <1>1, <1>2 DEF Shaped, Tree, Levels, Halves, Null

\* Two entries with the same hash are the same entry, unless they lead to the
\* left half of a node that is being split.
LEMMA HashIsUnique ==
    ASSUME NEW F, NEW n, NEW root, NEW span, NEW lvl, NEW x, NEW m,
           Tree(F, n, root, span, lvl, x, m), OneChild(F, n),
           NEW a \in 1..n, NEW i \in DOMAIN F[a], NEW b \in 1..n, NEW j \in DOMAIN F[b],
           F[a][i].hash = F[b][j].hash, F[a][i].hash # NoHash,
           x # Null => F[a][i].child # F[x][m].child
    PROVE  a = b /\ i = j
<1>1. F[b][j].child = F[a][i].child /\ F[a][i].child # Null
    BY DEF OneChild
<1> QED
    BY <1>1, OneSlot

\* What a writer that has gone to l must know
LEMMA ControlFrom ==
    ASSUME IInv, NEW c \in Coroutines, pc[c] # "ready", NEW l, Goto(c, l),
           l = "removing" => Absent(job.hash)',
           (l \in {"store", "adding", "pinning"} \/ (l = "removing" /\ job'.next = "store"))
               => NoHashOnPath',
           l \in {"adding", "pinning"} => HashOf(job'.hash, heap'[at']),
           l \in {"ready", "loop"} => RootIsFresh',
           (l = "attach" \/ (l = "removing" /\ job'.next = "attach")) => SlotCleared'
    PROVE  HashControl'
<1>1. pc'[c] = l /\ \A d \in Coroutines : d # c => pc'[d] = "ready"
    BY WriterGoes
<1>2. Forgotten' /\ StoresNode' /\ RestFresh'
    BY <1>1 DEF Forgotten, StoresNode, RestFresh
<1>3. StorePath'
    BY <1>1 DEF StorePath, Storing, Bound
<1>4. Cleared'
    BY <1>1 DEF Cleared, Bound
<1> QED
    BY <1>2, <1>3, <1>4 DEF HashControl

LEMMA ControlIdle ==
    ASSUME IInv, NEW c \in Coroutines, pc[c] # "ready",
           NEW l \in {"pick", "descend", "split", "splitRest", "return"}, Goto(c, l)
    PROVE  HashControl'
BY ControlFrom

--------------------------------------------------------------------------
\* One lemma per group of actions.

LEMMA HashCall ==
    ASSUME IInv, HashInv, NEW c \in Coroutines, NEW k \in Keys, NEW v \in Values,
           Call(c, k, v)
    PROVE  HashInv' /\ NoneLost(c)
<1>1. UNCHANGED <<tree, rootHash, frame, job, pinned>>
    BY DEF Call, BufferInsert, StartInsert
<1>2. Full' = Full /\ Len(heap') = Len(heap) /\ Addresses' = Addresses
    BY <1>1 DEF Full, tree, frame, Addresses
<1>3. \A h : Absent(h)' <=> Absent(h)
    BY <1>1, <1>2 DEF Absent
<1>4. CASE BufferInsert(c, k, v)
    <2>1. pc' = pc
        BY <1>4 DEF BufferInsert
    <2>2. Frames' = Frames
        BY <1>1, <2>1 DEF Frames, Walking, frame
    <2>3. HashTree'
        BY <1>1, <1>2, <2>2 DEF HashInv, HashTree, RootApart, Backed
    <2>4. Forgotten' /\ StorePath'
        BY <1>1, <1>3, <2>1 DEF HashInv, HashControl, Forgotten, StorePath, Storing, Bound,
                                NoHashOnPath, tree, frame
    <2>5. StoresNode' /\ RestFresh' /\ Cleared'
        BY <1>1, <2>1 DEF HashInv, HashControl, StoresNode, RestFresh, RootIsFresh, Cleared, Bound,
                          SlotCleared, tree, frame
    <2> QED
        BY <1>3, <2>3, <2>4, <2>5 DEF HashInv, HashControl, NoneLost
<1>5. CASE StartInsert(c, k, v)
    <2>1. \A d \in Coroutines : pc[d] = "ready"
        BY <1>5 DEF MayStart, StartInsert, IInv, SingleWriter
    <2>2. \A d \in Coroutines : pc'[d] \in {"ready", "loop"}
        BY <1>5, <2>1 DEF StartInsert, Goto, IInv, TypeOK
    <2>3. Frames' = Frames
        BY <2>1, <2>2 DEF Frames, Walking
    <2>4. HashTree'
        BY <1>1, <1>2, <2>3 DEF HashInv, HashTree, RootApart, Backed
    <2>5. Forgotten' /\ StorePath' /\ StoresNode' /\ Cleared'
        BY <2>2 DEF Forgotten, StorePath, Storing, StoresNode, Cleared, Bound
    <2>6. RestFresh'
        BY <1>1, <2>1 DEF HashInv, HashControl, RestFresh, RootIsFresh, tree
    <2> QED
        BY <1>3, <2>4, <2>5, <2>6 DEF HashInv, HashControl, NoneLost
<1> QED
    BY <1>4, <1>5 DEF Call

\* The heap, the root hash and the pins are left alone; the frames as well, or the
\* entries they lose have no hash.
LEMMA HeapStays ==
    ASSUME InvS, HashTree, NEW c, heap' = heap, carry' = carry, carry # NoSplit => at' = at,
           UNCHANGED <<rootHash, pinned>>, rootNode # Null \/ heap = <<>>,
           \A a \in 1..Len(heap) : \A i \in DOMAIN Full[a] :
               (OnPath(Frames, a, i) /\ Full[a][i].hash # NoHash) => OnPath(Frames', a, i)
    PROVE  HashTree' /\ NoneLost(c)
<1>1. Full' = Full /\ Len(heap') = Len(heap)
    BY DEF Full
<1>2. \A a \in 1..Len(heap) : \A i \in DOMAIN Full[a] :
          Full[a][i].hash # NoHash => Full[a][i].child \in 1..Len(heap)
    <2>1. CASE rootNode # Null
        BY <2>1, HashLeads
    <2>2. CASE heap = <<>>
        <3>1. 1..Len(heap) = {}
            BY <2>2
        <3> QED
            BY <3>1
    <2> QED
        BY <2>1, <2>2
<1> QED
    BY <1>1, <1>2, HashesStay

LEMMA RootOrEmpty ==
    ASSUME InvS
    PROVE  rootNode # Null \/ heap = <<>>
BY DEF InvS, Shape

LEMMA NotWalking ==
    ASSUME IInv, NEW c \in Coroutines, pc[c] \in {"loop", "pick"}
    PROVE  ~Walking /\ Frames = <<>> /\ (CarryOut => carry = NoSplit)
<1>1. \A d \in Coroutines : d # c => pc[d] = "ready"
    BY DEF IInv, SingleWriter
<1> QED
    BY <1>1 DEF Walking, Frames, CarryOut, Bound

LEMMA EmptyPath == \A a, i : ~OnPath(<<>>, a, i)
BY DEF OnPath

LEMMA HashLoop ==
    ASSUME InvS, HashInv, NEW c \in Coroutines, TakeBuffer(c) \/ InsertDone(c)
    PROVE  HashInv' /\ NoneLost(c)
<1>1. /\ UNCHANGED <<tree, rootHash, frame, job, pinned>>
      /\ pc[c] = "loop" /\ IInv /\ Shape
      /\ HashTree /\ HashControl
    BY DEF TakeBuffer, InsertDone, InvS, HashInv
<1>2. PICK l \in {"pick", "ready"} : Goto(c, l)
    BY DEF TakeBuffer, InsertDone
<1>3. HashTree' /\ NoneLost(c)
    <2>1. Frames = <<>>
        BY <1>1, NotWalking
    <2> QED
        BY <1>1, <2>1, RootOrEmpty, EmptyPath, HeapStays DEF tree, frame
<1>4. HashControl'
    <2>1. RootIsFresh
        <3>1. \A d \in Coroutines : pc[d] \in {"ready", "loop"}
            BY <1>1 DEF IInv, SingleWriter
        <3> QED
            BY <1>1, <3>1 DEF HashControl, RestFresh
    <2>2. RootIsFresh'
        BY <1>1, <2>1 DEF RootIsFresh, tree
    <2> QED
        BY <1>1, <1>2, <2>2, ControlFrom
<1> QED
    BY <1>3, <1>4 DEF HashInv

LEMMA HashPick ==
    ASSUME InvS, InvS', HashInv, NEW c \in Coroutines, Pick(c)
    PROVE  HashInv' /\ NoneLost(c)
<1>1. /\ UNCHANGED <<rootHash, job, pinned>> /\ stack' = <<>> /\ carry' = NoSplit
      /\ pc[c] = "pick" /\ Goto(c, "descend") /\ pc[c] # "ready"
      /\ IInv /\ Shape /\ HashTree /\ HashControl
    BY DEF Pick, InvS, HashInv
<1>2. Frames = <<>> /\ carry = NoSplit /\ Frames' = <<>>
    BY <1>1, NotWalking DEF Shape, Frames
<1>3. HashTree' /\ NoneLost(c)
    <2>1. CASE rootNode # Null
        BY <1>1, <1>2, <2>1, EmptyPath, HeapStays DEF Pick, NoRootNode
    <2>2. CASE rootNode = Null
        <3>1. heap = <<>> /\ Len(heap) = 0
            BY <1>1, <2>2 DEF Shape
        <3>2. heap' = Append(<<>>, EmptyMap)
            BY <2>2, <3>1 DEF Pick, NoRootNode, Alloc
        <3>3. Full' = heap' /\ Len(heap') = 1 /\ heap'[1] = EmptyMap
            BY <1>1, <3>2 DEF Full
        <3>4. \A a \in 1..Len(heap') : DOMAIN Full'[a] = {}
            BY <3>3 DEF EmptyMap
        <3>5. OneChild(Full', Len(heap')) /\ Fresh(Full', Len(heap'), Frames')
            BY <3>4 DEF OneChild, Fresh
        <3>6. RootApart' /\ Backed'
            BY <1>1, <3>4 DEF RootApart, Backed, HashTree, Addresses
        <3>7. Survives(Full, Len(heap), Full', Len(heap'), NoHash)
            BY <3>1 DEF Survives
        <3>8. NoneLost(c)
            BY <1>1, <3>7, LostIsGone DEF Gone
        <3> QED
            BY <3>5, <3>6, <3>8 DEF HashTree
    <2> QED
        BY <2>1, <2>2
<1> QED
    BY <1>1, <1>3, ControlIdle DEF HashInv

\* The old root hash was forgotten before it is removed.
LEMMA HashFlush ==
    ASSUME InvS, HashInv, NEW c \in Coroutines, Flush(c)
    PROVE  HashInv' /\ NoneLost(c)
<1>1. /\ UNCHANGED <<tree, pinned>> /\ stack' = <<>> /\ carry' = NoSplit
      /\ rootHash' = NoHash /\ pc[c] = "pick" /\ pc[c] # "ready"
      /\ IInv /\ Shape /\ HashTree /\ HashControl
    BY DEF Flush, InvS, HashInv
<1>2. Frames = <<>> /\ carry = NoSplit /\ Frames' = <<>>
    BY <1>1, NotWalking DEF Shape, Frames
<1>3. Full' = Full /\ heap' = heap /\ Addresses' = Addresses
    BY <1>1, <1>2 DEF Full, tree, Addresses
<1>4. HashTree'
    BY <1>1, <1>2, <1>3 DEF HashTree, RootApart, Backed
<1>5. PICK l \in {"store", "removing"} :
          /\ Goto(c, l) /\ (l = "removing" <=> rootHash # NoHash)
          /\ l = "removing" => job'.hash = rootHash /\ job'.next = "store"
    BY DEF Flush, TryRemove
<1>6. Gone(c, rootHash)
    <2>1. pc'[c] = l
        BY <1>1, <1>5, WriterGoes
    <2> QED
        BY <1>5, <2>1 DEF Gone
<1>7. NoneLost(c)
    <2>1. Survives(Full, Len(heap), Full', Len(heap'), rootHash)
        BY <1>3 DEF Survives
    <2> QED
        BY <1>6, <2>1, LostIsGone
<1>8. l = "removing" => Absent(job.hash)'
    BY <1>1, <1>3, <1>5 DEF Absent, HashTree, RootApart
<1>9. NoHashOnPath'
    BY <1>1 DEF NoHashOnPath
<1>10. HashControl'
    BY <1>1, <1>5, <1>8, <1>9, ControlFrom
<1> QED
    BY <1>4, <1>7, <1>10 DEF HashInv

--------------------------------------------------------------------------
\* The node in work and the frames

LEMMA Position ==
    ASSUME InvS, NEW c \in Coroutines, pc[c] \notin {"ready", "loop", "pick"}
    PROVE  /\ pc[c] # "ready" /\ Walking /\ Frames = stack
           /\ at \in 1..Len(heap) /\ Len(heap) \in Nat /\ rootNode # Null
           /\ IsHeap(heap, Len(heap)) /\ IInv /\ Shape
           /\ stack \in Seq([node : Addresses, id : Ids]) /\ Len(stack) \in Nat
           /\ SplitNode \in {at, Null}
           /\ \E span, lvl :
                 /\ Shaped(span, lvl) /\ lvl[at] \in Nat
                 /\ Tree(Full, Len(heap), rootNode, span, lvl, SplitNode, MidKey)
                 /\ Walk(Full, Len(heap), rootNode, lvl, stack, at)
<1>1. IInv /\ Shape /\ pc[c] # "ready" /\ Walking /\ Frames = stack
    BY DEF InvS, Walking, Frames
<1>2. /\ at \in 1..Len(heap) /\ Len(heap) \in Nat /\ rootNode # Null
      /\ IsHeap(heap, Len(heap))
      /\ stack \in Seq([node : Addresses, id : Ids]) /\ Len(stack) \in Nat
    <2>1. /\ IsHeap(heap, Len(heap)) /\ at \in Addresses /\ rootNode # Null
          /\ stack \in Seq([node : Addresses, id : Ids])
        BY <1>1 DEF IInv, TypeOK, WriterResumes
    <2> QED
        BY <2>1 DEF Addresses, IsHeap
<1>3. PICK span, lvl : Shaped(span, lvl)
    BY <1>1, <1>2 DEF Shape
<1>4. /\ Tree(Full, Len(heap), rootNode, span, lvl, SplitNode, MidKey)
      /\ Walk(Full, Len(heap), rootNode, lvl, stack, at)
    BY <1>1, <1>3 DEF Shaped
<1>5. lvl[at] \in Nat
    BY <1>2, <1>4 DEF Tree, Ghosts
<1>6. SplitNode \in {at, Null}
    BY DEF SplitNode
<1> QED
    BY <1>1, <1>2, <1>3, <1>4, <1>5, <1>6

\* The frames are above the node, and only the last one leads to it.
LEMMA AtSlots ==
    ASSUME InvS, NEW c \in Coroutines, pc[c] \notin {"ready", "loop", "pick"}
    PROVE  /\ \A b, i : OnPath(stack, b, i) => b # at /\ b \in 1..Len(heap)
           /\ \A b \in 1..Len(heap) : \A i \in DOMAIN Full[b] : Full[b][i].child = at =>
                 /\ stack # <<>> /\ b = Top(stack).node /\ i = Top(stack).id
                 /\ OnPath(stack, b, i)
           /\ \A i \in DOMAIN Full[at] : Full[at][i].child # at
<1> DEFINE n == Len(heap)
           S == [node : Addresses, id : Ids]
<1>1. /\ at \in 1..n /\ n \in Nat /\ stack \in Seq(S) /\ Len(stack) \in Nat
      /\ SplitNode \in {at, Null}
    BY Position
<1>2. PICK span, lvl : /\ lvl[at] \in Nat
                       /\ Tree(Full, n, rootNode, span, lvl, SplitNode, MidKey)
                       /\ Walk(Full, n, rootNode, lvl, stack, at)
    BY Position
<1> HIDE DEF n, S
<1>3. ASSUME NEW b, NEW i, OnPath(stack, b, i) PROVE b # at /\ b \in 1..n
    BY ONLY <1>1, <1>2, <1>3, PathAbove
<1>4. SplitNode # Null => at # Full[SplitNode][MidKey].child
    BY <1>1, <1>2 DEF Tree, Halves
<1>5. ASSUME NEW b \in 1..n, NEW i \in DOMAIN Full[b], Full[b][i].child = at
      PROVE  stack # <<>> /\ b = Top(stack).node /\ i = Top(stack).id /\ OnPath(stack, b, i)
    BY ONLY <1>1, <1>2, <1>4, <1>5, OnlyFromAbove
<1>6. ASSUME NEW i \in DOMAIN Full[at], Full[at][i].child = at PROVE FALSE
    BY <1>1, <1>3, <1>5, <1>6
<1> QED
    BY <1>3, <1>5, <1>6 DEF n

\* The same for the node of the last frame
LEMMA UpSlots ==
    ASSUME InvS, NEW c \in Coroutines, pc[c] \notin {"ready", "loop", "pick"}, stack # <<>>
    PROVE  LET p == Top(stack).node
               i == Top(stack).id
           IN  /\ p \in 1..Len(heap) /\ p # at /\ Full[p] = heap[p]
               /\ i \in DOMAIN heap[p] /\ heap[p][i].child = at
               /\ \A b, j : OnPath(Pop(stack), b, j) => b # p
               /\ \A b, j : OnPath(stack, b, j) <=> (OnPath(Pop(stack), b, j) \/ (b = p /\ j = i))
               /\ \A b \in 1..Len(heap) : \A j \in DOMAIN Full[b] :
                     Full[b][j].child = p => OnPath(Pop(stack), b, j)
<1> DEFINE n == Len(heap)
           S == [node : Addresses, id : Ids]
           p == Top(stack).node
           i == Top(stack).id
           st == Pop(stack)
<1>1. /\ at \in 1..n /\ n \in Nat /\ stack \in Seq(S) /\ Len(stack) \in Nat
      /\ SplitNode \in {at, Null} /\ IInv /\ Shape
    BY Position
<1>2. PICK span, lvl : /\ Shaped(span, lvl) /\ lvl[at] \in Nat
                       /\ Tree(Full, n, rootNode, span, lvl, SplitNode, MidKey)
    BY Position
<1>3. /\ p \in 1..n /\ p # at /\ Full[p] = heap[p]
      /\ i \in DOMAIN heap[p] /\ heap[p][i].child = at
      /\ Len(st) \in Nat
      /\ lvl[p] = lvl[at] + 1 /\ Walk(Full, n, rootNode, lvl, st, p)
    BY <1>1, <1>2, UpFrame
<1>4. st \in Seq(S) /\ Len(st) = Len(stack) - 1 /\ \A j \in 1..Len(st) : st[j] = stack[j]
    <2>1. stack \in Seq(S) /\ stack # <<>>
        BY <1>1
    <2> HIDE DEF S
    <2>2. Len(st) = Len(stack) - 1 /\ \A j \in 1..(Len(stack) - 1) : st[j] = stack[j]
        BY <2>1, PopKeeps
    <2>3. st \in Seq(S)
        BY <2>1, TopAndPop
    <2> QED
        BY <2>2, <2>3
<1>5. \A b, j : OnPath(stack, b, j) <=> (OnPath(st, b, j) \/ (b = p /\ j = i))
    <2>1. \A k : k \in 1..Len(stack) <=> (k \in 1..Len(st) \/ k = Len(stack))
        <3>1. Len(stack) >= 1
            BY <1>1, <1>4, <1>3
        <3> HIDE DEF st
        <3> QED
            BY <1>1, <1>4, <3>1
    <2>2. p = stack[Len(stack)].node /\ i = stack[Len(stack)].id
        BY DEF Top
    <2> HIDE DEF st, p, i
    <2> QED
        BY <1>4, <2>1, <2>2 DEF OnPath
<1> HIDE DEF n, S, p, i, st
<1>6. lvl[p] \in Nat
    BY <1>2, <1>3
<1>7. ASSUME NEW b, NEW j, OnPath(st, b, j) PROVE b # p
    BY ONLY <1>3, <1>6, <1>7, PathAbove
<1>8. SplitNode # Null => p # Full[SplitNode][MidKey].child
    <2>1. SplitNode # Null => lvl[Full[SplitNode][MidKey].child] = lvl[at]
        BY <1>1, <1>2 DEF Tree, Halves
    <2> QED
        BY <1>2, <1>3, <2>1
<1>9. ASSUME NEW b \in 1..n, NEW j \in DOMAIN Full[b], Full[b][j].child = p
      PROVE  OnPath(st, b, j)
    BY ONLY <1>2, <1>3, <1>4, <1>8, <1>9, OnlyFromAbove
<1> QED
    BY <1>3, <1>5, <1>7, <1>9 DEF n, p, i, st

--------------------------------------------------------------------------
\* Down and through the split

\* The step changes nothing of the hashes and of the frames, or adds a frame.
LEMMA FramesStay ==
    ASSUME InvS, HashTree, NEW c \in Coroutines, pc[c] \notin {"ready", "loop", "pick"},
           NEW l, Goto(c, l), l \notin {"ready", "loop", "pick"},
           Len(heap') = Len(heap),
           \A a \in 1..Len(heap) :
               DOMAIN Full'[a] = DOMAIN Full[a] /\ \A i \in DOMAIN Full[a] : Full'[a][i] = Full[a][i],
           stack' = stack \/ (\E s : stack' = Append(stack, s)),
           rootHash' = rootHash, pinned' = pinned
    PROVE  HashTree' /\ NoneLost(c)
<1>1. /\ rootNode # Null /\ Frames = stack /\ IInv /\ pc[c] # "ready"
      /\ stack \in Seq([node : Addresses, id : Ids])
    BY Position
<1>2. Frames' = stack'
    <2>1. pc'[c] = l
        BY <1>1, WriterGoes
    <2> QED
        BY <2>1 DEF Frames, Walking
<1>3. \A a, i : OnPath(stack, a, i) => OnPath(stack', a, i)
    <2>1. CASE stack' = stack
        BY <2>1
    <2>2. ASSUME NEW s, stack' = Append(stack, s)
          PROVE  \A a, i : OnPath(stack, a, i) => OnPath(stack', a, i)
        <3>1. /\ \A j \in 1..Len(stack) : stack'[j] = stack[j]
              /\ \A j \in 1..Len(stack) : j \in 1..Len(stack')
            BY <1>1, <2>2
        <3> QED
            BY <3>1 DEF OnPath
    <2> QED
        BY <2>1, <2>2
<1>4. \A a \in 1..Len(heap) : \A i \in DOMAIN Full[a] :
          Full[a][i].hash # NoHash => Full[a][i].child \in 1..Len(heap)
    BY <1>1, HashLeads
<1> QED
    BY <1>1, <1>2, <1>3, <1>4, HashesStay

\* The step changes the node in work; hashes there stay with their children.
LEMMA NodeChanges ==
    ASSUME InvS, HashTree, NEW c \in Coroutines, pc[c] \notin {"ready", "loop", "pick"},
           NEW l, Goto(c, l), l \notin {"ready", "loop", "pick"},
           carry = NoSplit, carry' = NoSplit, stack' = stack, Len(heap') = Len(heap),
           \A a \in 1..Len(heap) : a # at => heap'[a] = heap[a],
           \A i \in DOMAIN heap'[at] : heap'[at][i].hash # NoHash =>
               /\ i \in DOMAIN heap[at] /\ heap'[at][i].hash = heap[at][i].hash
               /\ heap'[at][i].child = heap[at][i].child,
           \A i \in DOMAIN heap[at] :
               i \in DOMAIN heap'[at] /\ heap'[at][i].hash = heap[at][i].hash,
           rootHash' = rootHash, pinned' = pinned
    PROVE  HashTree' /\ NoneLost(c)
<1>1. /\ rootNode # Null /\ Frames = stack /\ IInv /\ pc[c] # "ready" /\ at \in 1..Len(heap)
    BY Position
<1>2. Frames' = stack /\ Full = heap /\ Full' = heap'
    <2>1. pc'[c] = l
        BY <1>1, WriterGoes
    <2> QED
        BY <2>1 DEF Frames, Walking, Full
<1>3. \A a \in 1..Len(heap) : \A i \in DOMAIN heap[a] :
          heap[a][i].hash # NoHash => heap[a][i].child \in 1..Len(heap)
    BY <1>1, <1>2, HashLeads
<1>4. \A b \in 1..Len(heap) : \A i \in DOMAIN heap[b] :
          heap[b][i].child = at => OnPath(stack, b, i)
    BY <1>2, AtSlots
<1>5. \A b \in 1..Len(heap) : \A i \in DOMAIN heap'[b] : heap'[b][i].hash # NoHash =>
          /\ i \in DOMAIN heap[b] /\ heap'[b][i].hash = heap[b][i].hash
          /\ heap'[b][i].child = heap[b][i].child
    BY <1>1
<1>6. ASSUME NEW b \in 1..Len(heap), NEW i \in DOMAIN heap[b],
             heap[b][i].hash # NoHash, ~OnPath(stack, b, i)
      PROVE  Alike(heap'[heap[b][i].child], heap[heap[b][i].child])
    <2>1. heap[b][i].child \in 1..Len(heap) /\ heap[b][i].child # at
        BY <1>3, <1>4, <1>6
    <2> QED
        BY <2>1 DEF Alike
<1>7. Carried(heap, Len(heap), stack, heap', Len(heap), stack)
    BY <1>5, <1>6 DEF Carried
<1>8. HashTree'
    BY <1>1, <1>2, <1>7, HashesCarried
<1>9. Survives(heap, Len(heap), heap', Len(heap), NoHash)
    BY <1>1 DEF Survives
<1> QED
    BY <1>2, <1>8, <1>9, LostIsGone DEF Gone

LEMMA HashLeaf ==
    ASSUME InvS, HashInv, NEW c \in Coroutines, InsertAtLeaf(c) \/ OverwriteValue(c)
    PROVE  HashInv' /\ NoneLost(c)
<1>1. /\ pc[c] = "descend" /\ IInv /\ Shape /\ HashTree
      /\ UNCHANGED <<rootHash, stack, carry, pinned>>
    BY DEF InsertAtLeaf, OverwriteValue, InvS, HashInv, frame
<1>2. PICK l \in {"split", "return"} : Goto(c, l)
    BY DEF InsertAtLeaf, OverwriteValue
<1>3. carry = NoSplit /\ at \in 1..Len(heap) /\ IsHeap(heap, Len(heap)) /\ IsNode(heap[at], Len(heap))
    BY <1>1, Descending
<1>4. ASSUME NEW node, heap' = [heap EXCEPT ![at] = node]
      PROVE  /\ Len(heap') = Len(heap) /\ heap'[at] = node
             /\ \A a \in 1..Len(heap) : a # at => heap'[a] = heap[a]
    BY <1>3, <1>4, Replaced
<1>5. /\ Len(heap') = Len(heap)
      /\ \A a \in 1..Len(heap) : a # at => heap'[a] = heap[a]
      /\ \A i \in DOMAIN heap'[at] : heap'[at][i].hash # NoHash =>
             /\ i \in DOMAIN heap[at] /\ heap'[at][i].hash = heap[at][i].hash
             /\ heap'[at][i].child = heap[at][i].child
      /\ \A i \in DOMAIN heap[at] : i \in DOMAIN heap'[at] /\ heap'[at][i].hash = heap[at][i].hash
    <2>1. CASE InsertAtLeaf(c)
        <3> DEFINE e == Entry(item.value, Null, NoHash)
                   node == WithNew(heap[at], item.key, e)
        <3>1. heap' = [heap EXCEPT ![at] = node]
            BY <2>1 DEF InsertAtLeaf
        <3>2. e.hash = NoHash
            BY DEF Entry
        <3>3. /\ DOMAIN node = DOMAIN heap[at] \cup {item.key}
              /\ \A i \in DOMAIN node : node[i] = IF i \in DOMAIN heap[at] THEN heap[at][i] ELSE e
            BY DEF WithNew
        <3> HIDE DEF node, e
        <3> QED
            BY <1>4, <3>1, <3>2, <3>3
    <2>2. CASE OverwriteValue(c)
        <3> DEFINE node == [heap[at] EXCEPT ![item.key].value = item.value]
        <3>1. heap' = [heap EXCEPT ![at] = node]
            BY <2>2 DEF OverwriteValue
        <3>2. DOMAIN node = DOMAIN heap[at]
              /\ \A i \in DOMAIN node : node[i].hash = heap[at][i].hash /\ node[i].child = heap[at][i].child
            BY <1>3 DEF IsNode, IsEntry
        <3> HIDE DEF node
        <3> QED
            BY <1>4, <3>1, <3>2
    <2> QED
        BY <2>1, <2>2
<1>6. HashTree' /\ NoneLost(c)
    BY <1>1, <1>2, <1>3, <1>5, NodeChanges
<1> QED
    BY <1>1, <1>2, <1>6, ControlIdle DEF HashInv

LEMMA HashGoDown ==
    ASSUME InvS, HashInv, NEW c \in Coroutines, GoDown(c)
    PROVE  HashInv' /\ NoneLost(c)
<1>1. /\ pc[c] = "descend" /\ pc' = pc /\ IInv /\ Shape /\ HashTree
      /\ UNCHANGED <<rootHash, carry, pinned>>
      /\ \E s : stack' = Append(stack, s)
    BY DEF GoDown, InvS, HashInv
<1>2. Goto(c, "descend")
    BY <1>1 DEF Goto, IInv, TypeOK
<1>3. /\ Len(heap') = Len(heap)
      /\ \A a \in 1..Len(heap) :
             DOMAIN Full'[a] = DOMAIN Full[a] /\ \A i \in DOMAIN Full[a] : Full'[a][i] = Full[a][i]
    BY <1>1, DownKeeps
<1>4. HashTree' /\ NoneLost(c)
    BY <1>1, <1>2, <1>3, FramesStay
<1> QED
    BY <1>1, <1>2, <1>4, ControlIdle DEF HashInv

\* What was kept of the hashes has been somewhere else than at the median, whose
\* hash goes.
SplitKeeps(F, G, n, p, m) ==
    /\ \A b \in 1..(n + 1) : \A j \in DOMAIN G[b] : G[b][j].hash # NoHash =>
          \E a \in 1..n : \E i \in DOMAIN F[a] :
              /\ F[a][i].hash = G[b][j].hash /\ F[a][i].child = G[b][j].child
              /\ ~(a = p /\ i = m)
              /\ a = p \/ (a = b /\ i = j)
    /\ \A a \in 1..n : \A i \in DOMAIN F[a] : ~(a = p /\ i = m) =>
          \E b \in 1..(n + 1) : \E j \in DOMAIN G[b] : F[a][i].hash \in {G[b][j].hash, NoHash}

LEMMA SplitOrigin ==
    ASSUME NEW F, NEW G, NEW n \in Nat, NEW p \in 1..n, NEW m \in Keys, SplitOff(F, G, n, p, m)
    PROVE  SplitKeeps(F, G, n, p, m)
<1>1. /\ \A a \in 1..n : a # p => G[a] = F[a]
      /\ \A j : j \in DOMAIN G[p] <=> (j \in DOMAIN F[p] /\ ~Before(j, m))
      /\ \A j \in DOMAIN G[p] : j # m => G[p][j] = F[p][j]
      /\ G[p][m].hash = NoHash
      /\ \A j : j \in DOMAIN G[n + 1] <=> ((j \in DOMAIN F[p] /\ Before(j, m)) \/ j = Inf)
      /\ \A j \in DOMAIN G[n + 1] : j # Inf => G[n + 1][j] = F[p][j]
      /\ G[n + 1][Inf].hash = NoHash
      /\ ~Before(Inf, m) /\ ~Before(m, m)
    BY KeysAssumption DEF SplitOff, Entry, Before
<1>2. ASSUME NEW b \in 1..(n + 1), NEW j \in DOMAIN G[b], G[b][j].hash # NoHash
      PROVE  \E a \in 1..n : \E i \in DOMAIN F[a] :
                 /\ F[a][i].hash = G[b][j].hash /\ F[a][i].child = G[b][j].child
                 /\ ~(a = p /\ i = m)
                 /\ a = p \/ (a = b /\ i = j)
    <2>1. CASE b = n + 1
        <3>1. j \in DOMAIN F[p] /\ G[b][j] = F[p][j] /\ j # m
            BY <1>1, <1>2, <2>1 DEF Before
        <3> QED
            BY <3>1
    <2>2. CASE b = p
        BY <1>1, <1>2, <2>2
    <2>3. CASE b \in 1..n /\ b # p
        BY <1>1, <1>2, <2>3
    <2> QED
        BY <2>1, <2>2, <2>3
<1>3. ASSUME NEW a \in 1..n, NEW i \in DOMAIN F[a], ~(a = p /\ i = m)
      PROVE  \E b \in 1..(n + 1) : \E j \in DOMAIN G[b] : F[a][i].hash \in {G[b][j].hash, NoHash}
    <2>1. CASE a # p
        BY <1>1, <1>3, <2>1
    <2>2. CASE a = p /\ Before(i, m)
        <3>1. i \in DOMAIN G[n + 1] /\ i # Inf
            BY <1>1, <1>3, <2>2
        <3> QED
            BY <1>1, <2>2, <3>1
    <2>3. CASE a = p /\ ~Before(i, m)
        BY <1>1, <1>3, <2>3
    <2> QED
        BY <2>1, <2>2, <2>3
<1> QED
    BY <1>2, <1>3 DEF SplitKeeps

LEMMA HashSplitStart ==
    ASSUME InvS, HashInv, NEW c \in Coroutines, SplitStart(c)
    PROVE  HashInv' /\ NoneLost(c)
<1> DEFINE n == Len(heap)
           m == Median(heap[at])
           gone == heap[at][m].hash
<1>1. /\ pc[c] = "split" /\ IInv /\ Shape /\ HashTree /\ pc[c] # "ready"
      /\ UNCHANGED <<rootHash, stack, carry, pinned>>
    BY DEF SplitStart, InvS, HashInv, frame
<1>2. PICK l \in {"splitRest", "removing"} :
          /\ Goto(c, l) /\ (l = "removing" <=> gone # NoHash)
          /\ l = "removing" => job'.hash = gone /\ job'.next = "splitRest"
    BY DEF SplitStart, TryRemove
<1>3. /\ Full = heap /\ at \in 1..n /\ n \in Nat /\ SplitNode = Null /\ carry = NoSplit
      /\ Frames = stack /\ rootNode # Null
    BY <1>1, Descending, Position
<1>4. Len(heap') = n + 1 /\ Full' = heap' /\ SplitOff(heap, heap', n, at, m)
    BY <1>1, SplitStartIs
<1>5. m \in DOMAIN heap[at] /\ m \in Keys
    <2>1. DOMAIN heap[at] \subseteq Ids
        BY <1>1, Descending DEF IsNode
    <2> QED
        BY <1>4, <2>1 DEF SplitOff, KeysOf, Ids
<1>6. pc'[c] = l /\ Frames' = stack
    <2>1. pc'[c] = l
        BY <1>1, <1>2, WriterGoes
    <2> QED
        BY <1>1, <2>1 DEF Frames, Walking
<1> HIDE DEF m
<1>7. SplitKeeps(heap, heap', n, at, m)
    BY <1>3, <1>4, <1>5, SplitOrigin
<1>8. /\ \A i : ~OnPath(stack, at, i)
      /\ \A b \in 1..n : \A i \in DOMAIN heap[b] : heap[b][i].child = at => OnPath(stack, b, i)
    BY <1>1, <1>3, AtSlots
<1>9. ASSUME NEW a \in 1..n, NEW i \in DOMAIN heap[a], heap[a][i].hash # NoHash,
             ~OnPath(stack, a, i)
      PROVE  Alike(heap'[heap[a][i].child], heap[heap[a][i].child])
    <2>1. heap[a][i].child \in 1..n /\ heap[a][i].child # at
        BY <1>1, <1>3, <1>8, <1>9, HashLeads
    <2> QED
        BY <1>4, <2>1 DEF SplitOff, Alike
<1>10. Carried(heap, n, stack, heap', n + 1, stack)
    <2> SUFFICES ASSUME NEW b \in 1..(n + 1), NEW j \in DOMAIN heap'[b], heap'[b][j].hash # NoHash
                 PROVE  \E a \in 1..n : \E i \in DOMAIN heap[a] :
                            /\ heap[a][i].hash = heap'[b][j].hash /\ heap[a][i].child = heap'[b][j].child
                            /\ ~OnPath(stack, b, j) =>
                                /\ ~OnPath(stack, a, i)
                                /\ Alike(heap'[heap[a][i].child], heap[heap[a][i].child])
        BY DEF Carried
    <2>1. PICK a \in 1..n : \E i \in DOMAIN heap[a] :
              /\ heap[a][i].hash = heap'[b][j].hash /\ heap[a][i].child = heap'[b][j].child
              /\ a = at \/ (a = b /\ i = j)
        BY <1>7 DEF SplitKeeps
    <2>2. PICK i \in DOMAIN heap[a] :
              /\ heap[a][i].hash = heap'[b][j].hash /\ heap[a][i].child = heap'[b][j].child
              /\ a = at \/ (a = b /\ i = j)
        BY <2>1
    <2>3. ~OnPath(stack, b, j) => ~OnPath(stack, a, i)
        BY <1>8, <2>2
    <2> QED
        BY <1>9, <2>2, <2>3
<1>11. HashTree'
    BY <1>1, <1>3, <1>4, <1>6, <1>10, HashesCarried
<1>12. NoneLost(c)
    <2>1. Survives(heap, n, heap', n + 1, gone)
        <3> SUFFICES ASSUME NEW a \in 1..n, NEW i \in DOMAIN heap[a], heap[a][i].hash \notin {NoHash, gone}
                     PROVE  \E b \in 1..(n + 1) : \E j \in DOMAIN heap'[b] :
                                heap'[b][j].hash = heap[a][i].hash
            BY DEF Survives
        <3>1. ~(a = at /\ i = m)
            OBVIOUS
        <3> HIDE DEF gone
        <3> QED
            BY <1>7, <3>1 DEF SplitKeeps
    <2>2. Gone(c, gone)
        BY <1>2, <1>6 DEF Gone
    <2> HIDE DEF gone
    <2>3. rootHash \in {rootHash', NoHash, gone}
        BY <1>1
    <2> QED
        BY <1>3, <1>4, <2>1, <2>2, <2>3, LostIsGone
<1>13. l = "removing" => Absent(job.hash)'
    <2> SUFFICES ASSUME l = "removing" PROVE Absent(job.hash)'
        OBVIOUS
    <2>1. gone # NoHash /\ job'.hash = gone
        BY <1>2
    <2>2. rootHash' # gone
        BY <1>1, <1>3, <1>5, <2>1 DEF HashTree, RootApart, Addresses
    <2>3. PICK span, lvl : Tree(heap, n, rootNode, span, lvl, Null, MidKey)
        BY <1>1, <1>3, Position
    <2>4. ASSUME NEW b \in 1..(n + 1), NEW j \in DOMAIN heap'[b], heap'[b][j].hash = gone
          PROVE  FALSE
        <3>1. PICK a \in 1..n : \E i \in DOMAIN heap[a] :
                  heap[a][i].hash = heap[at][m].hash /\ ~(a = at /\ i = m)
            BY <1>7, <2>1, <2>4 DEF SplitKeeps
        <3>2. PICK i \in DOMAIN heap[a] :
                  heap[a][i].hash = heap[at][m].hash /\ ~(a = at /\ i = m)
            BY <3>1
        <3>3. OneChild(heap, n) /\ heap[a][i].hash # NoHash
            BY <1>1, <1>3, <2>1, <3>2 DEF HashTree
        <3> QED
            BY <1>3, <1>5, <2>3, <3>2, <3>3, HashIsUnique
    <2> QED
        BY <1>4, <2>1, <2>2, <2>4 DEF Absent, Addresses
<1>14. HashControl'
    BY <1>1, <1>2, <1>13, ControlFrom
<1> QED
    BY <1>11, <1>12, <1>14 DEF HashInv

LEMMA HashSplitDone ==
    ASSUME InvS, HashInv, NEW c \in Coroutines, SplitRest(c) \/ NoNeedToSplit(c)
    PROVE  HashInv' /\ NoneLost(c)
<1>1. /\ pc[c] \in {"split", "splitRest"} /\ IInv /\ Shape /\ HashTree /\ Goto(c, "return")
      /\ UNCHANGED <<rootHash, stack, pinned>>
    BY DEF SplitRest, NoNeedToSplit, InvS, HashInv
<1>2. carry = NoSplit /\ Full = heap
    BY <1>1, Descending
<1>3. /\ Len(heap') = Len(heap)
      /\ \A a \in 1..Len(heap) :
             DOMAIN Full'[a] = DOMAIN Full[a] /\ \A i \in DOMAIN Full[a] : Full'[a][i] = Full[a][i]
    <2>1. CASE SplitRest(c)
        BY <1>1, <1>2, <2>1, SplitRestIs
    <2>2. CASE NoNeedToSplit(c)
        BY <1>2, <2>2 DEF NoNeedToSplit, Full, tree
    <2> QED
        BY <2>1, <2>2
<1>4. HashTree' /\ NoneLost(c)
    BY <1>1, <1>3, FramesStay
<1> QED
    BY <1>1, <1>4, ControlIdle DEF HashInv

--------------------------------------------------------------------------
\* The way back up

\* The entry for the node that changed loses its hash; nobody else had it.
LEMMA HashReturn ==
    ASSUME InvS, InvS', HashInv, NEW c \in Coroutines, ReturnToParent(c)
    PROVE  HashInv' /\ NoneLost(c)
<1> DEFINE n == Len(heap)
           p == Top(stack).node
           i == Top(stack).id
           gone == heap[p][i].hash
<1>1. /\ pc[c] = "return" /\ IInv /\ IInv' /\ Shape /\ HashTree /\ pc[c] # "ready" /\ stack # <<>>
      /\ UNCHANGED <<rootHash, stack, carry, at, pinned>>
      /\ heap' = [heap EXCEPT ![p][i].hash = NoHash]
    BY DEF ReturnToParent, InvS, HashInv, frame
<1>2. PICK l \in {"attach", "removing"} :
          /\ Goto(c, l) /\ (l = "removing" <=> gone # NoHash)
          /\ l = "removing" => job'.hash = gone /\ job'.next = "attach"
    BY DEF ReturnToParent, TryRemove
<1>3. /\ at \in 1..n /\ n \in Nat /\ Frames = stack /\ rootNode # Null /\ IsHeap(heap, n)
    BY <1>1, Position
<1>4. /\ p \in 1..n /\ p # at /\ Full[p] = heap[p]
      /\ i \in DOMAIN heap[p] /\ heap[p][i].child = at
      /\ \A b, j : OnPath(stack, b, j) <=> (OnPath(Pop(stack), b, j) \/ (b = p /\ j = i))
      /\ \A b \in 1..n : \A j \in DOMAIN Full[b] : Full[b][j].child = p => OnPath(Pop(stack), b, j)
    BY <1>1, UpSlots
<1>5. pc'[c] = l /\ Frames' = stack
    <2>1. pc'[c] = l
        BY <1>1, <1>2, WriterGoes
    <2> QED
        BY <1>1, <2>1 DEF Frames, Walking
<1> HIDE DEF p, i
<1>7. Len(heap') = n /\ HashSet(heap, heap', n, p, i, NoHash) /\ HashSet(Full, Full', n, p, i, NoHash)
    BY <1>1, <1>3, <1>4, HashOnly
<1>8. /\ \A a \in 1..n : a # p => Full'[a] = Full[a]
      /\ DOMAIN Full'[p] = DOMAIN Full[p] /\ Full'[p][i].hash = NoHash
      /\ \A j \in DOMAIN Full[p] : j # i => Full'[p][j] = Full[p][j]
    BY <1>4, <1>7 DEF HashSet
<1>9. \A b \in 1..n : \A j \in DOMAIN Full'[b] : Full'[b][j].hash # NoHash =>
          j \in DOMAIN Full[b] /\ Full'[b][j] = Full[b][j] /\ ~(b = p /\ j = i)
    BY <1>8
<1>10. Carried(Full, n, stack, Full', n, stack)
    <2>1. ASSUME NEW b \in 1..n, NEW j \in DOMAIN Full[b], Full[b][j].hash # NoHash,
                 ~OnPath(stack, b, j)
          PROVE  Alike(Full'[Full[b][j].child], Full[Full[b][j].child])
        <3>1. Full[b][j].child \in 1..n /\ Full[b][j].child # p
            BY <1>1, <1>3, <1>4, <2>1, HashLeads
        <3> QED
            BY <1>8, <3>1 DEF Alike
    <2> QED
        BY <1>9, <2>1 DEF Carried
<1>11. HashTree'
    BY <1>1, <1>3, <1>5, <1>7, <1>10, HashesCarried
<1>12. NoneLost(c)
    <2>1. Survives(Full, n, Full', n, gone)
        BY <1>4, <1>8 DEF Survives
    <2>2. Gone(c, gone)
        BY <1>2, <1>5 DEF Gone
    <2> HIDE DEF gone
    <2> QED
        BY <1>1, <1>7, <2>1, <2>2, LostIsGone
<1>13. l = "removing" => Absent(job.hash)'
    <2> SUFFICES ASSUME l = "removing" PROVE Absent(job.hash)'
        OBVIOUS
    <2>1. gone # NoHash /\ job'.hash = gone
        BY <1>2
    <2>2. rootHash' # gone
        BY <1>1, <1>4, <2>1 DEF HashTree, RootApart, Addresses
    <2>3. PICK span, lvl : Tree(Full, n, rootNode, span, lvl, SplitNode, MidKey)
        BY <1>1, Position
    <2>4. SplitNode # Null => Full[p][i].child # Full[SplitNode][MidKey].child
        <3>1. SplitNode \in {at, Null}
            BY <1>1, Position
        <3> QED
            BY <1>4, <2>3, <3>1 DEF Tree, Halves
    <2>5. ASSUME NEW b \in 1..n, NEW j \in DOMAIN Full'[b], Full'[b][j].hash = gone
          PROVE  FALSE
        <3>1. j \in DOMAIN Full[b] /\ Full[b][j].hash = Full[p][i].hash /\ ~(b = p /\ j = i)
            BY <1>4, <1>9, <2>1, <2>5
        <3>2. OneChild(Full, n) /\ Full[p][i].hash # NoHash /\ i \in DOMAIN Full[p]
            BY <1>1, <1>4, <2>1 DEF HashTree
        <3> QED
            BY <1>4, <2>3, <2>4, <3>1, <3>2, HashIsUnique
    <2> QED
        BY <1>7, <2>1, <2>2, <2>5 DEF Absent, Addresses
<1>14. SlotCleared'
    <2>1. heap'[p][i].hash = NoHash
        BY <1>4, <1>7 DEF HashSet
    <2> QED
        BY <1>1, <2>1 DEF SlotCleared, p, i
<1>15. HashControl'
    BY <1>1, <1>2, <1>13, <1>14, ControlFrom
<1> QED
    BY <1>11, <1>12, <1>15 DEF HashInv

\* Back in raw_insert with a root that was not split, or in a parent that gets no
\* median
LEMMA HashBack ==
    ASSUME InvS, HashInv, NEW c \in Coroutines, ReturnToRoot(c) \/ Attach(c), carry = NoSplit
    PROVE  HashInv' /\ NoneLost(c)
<1>1. /\ pc[c] \in {"return", "attach"} /\ IInv /\ Shape /\ HashTree /\ HashControl
      /\ pc[c] # "ready"
      /\ UNCHANGED <<rootHash, heap, carry, pinned>>
    BY DEF ReturnToRoot, Attach, InvS, HashInv
<1>2. PICK l \in {"pick", "split"} : Goto(c, l) /\ (l = "split" <=> Attach(c))
    BY DEF ReturnToRoot, Attach, Goto, IInv, TypeOK
<1>3. Frames = stack /\ rootNode # Null /\ Full = heap
    BY <1>1, Position DEF Full
<1>4. pc'[c] = l /\ \A d \in Coroutines : d # c => pc'[d] = "ready"
    BY <1>1, <1>2, WriterGoes
<1>5. \A a \in 1..Len(heap) : \A i \in DOMAIN Full[a] :
          (OnPath(Frames, a, i) /\ Full[a][i].hash # NoHash) => OnPath(Frames', a, i)
    <2>1. CASE l = "pick"
        <3>1. stack = <<>>
            BY <1>2, <2>1 DEF ReturnToRoot
        <3> QED
            BY <1>3, <3>1, EmptyPath
    <2>2. CASE l = "split"
        <3>1. pc[c] = "attach" /\ stack # <<>> /\ stack' = Pop(stack)
            BY <1>1, <1>2, <2>2 DEF Attach, IInv, WriterResumes, Bound
        <3>2. Frames' = Pop(stack)
            BY <1>4, <2>2, <3>1 DEF Frames, Walking
        <3>3. heap[Top(stack).node][Top(stack).id].hash = NoHash
            BY <1>1, <3>1 DEF HashControl, Cleared, Bound, SlotCleared
        <3>4. \A b, j : OnPath(stack, b, j) <=>
                  (OnPath(Pop(stack), b, j) \/ (b = Top(stack).node /\ j = Top(stack).id))
            BY <3>1, UpSlots
        <3> QED
            BY <1>3, <3>2, <3>3, <3>4
    <2> QED
        BY <2>1, <2>2
<1>6. HashTree' /\ NoneLost(c)
    BY <1>1, <1>3, <1>5, HeapStays
<1> QED
    BY <1>1, <1>2, <1>6, ControlIdle DEF HashInv

\* The median and the right part take their hashes with them.
LEMMA HashAttach ==
    ASSUME InvS, HashInv, NEW c \in Coroutines, Attach(c), carry # NoSplit
    PROVE  HashInv' /\ NoneLost(c)
<1> DEFINE n == Len(heap)
           p == Top(stack).node
           i == Top(stack).id
           m == carry.id
           st == Pop(stack)
<1>1. /\ pc[c] = "attach" /\ IInv /\ Shape /\ HashTree /\ HashControl /\ pc[c] # "ready"
      /\ UNCHANGED <<rootHash, pinned>> /\ stack' = st /\ Goto(c, "split")
    BY DEF Attach, InvS, HashInv
<1>2. stack # <<>>
    BY <1>1 DEF IInv, WriterResumes, Bound
<1>3. /\ at \in 1..n /\ n \in Nat /\ Frames = stack /\ rootNode # Null
    BY <1>1, Position
<1>4. /\ p \in 1..n /\ p # at
      /\ i \in DOMAIN Full[p] /\ Full[p] = heap[p]
      /\ \A b, j : OnPath(st, b, j) => b # p
      /\ \A b, j : OnPath(stack, b, j) <=> (OnPath(st, b, j) \/ (b = p /\ j = i))
      /\ \A b \in 1..n : \A j \in DOMAIN Full[b] : Full[b][j].child = p => OnPath(st, b, j)
    BY <1>1, <1>2, UpSlots
<1>5. /\ \A b, j : OnPath(stack, b, j) => b # at
      /\ \A b \in 1..n : \A j \in DOMAIN Full[b] : Full[b][j].child = at => b = p /\ j = i
    BY <1>1, AtSlots
<1>6. Frames' = st
    <2>1. pc'[c] = "split"
        BY <1>1, WriterGoes
    <2> QED
        BY <1>1, <2>1 DEF Frames, Walking
<1>7. Len(heap') = n /\ Full' = heap' /\ AttachedIn(Full, heap', n, at, m, p)
    BY <1>1, AttachIs
<1>8. Full[p][i].hash = NoHash
    BY <1>1, <1>4 DEF HashControl, Cleared, Bound, SlotCleared
<1>9. m \in DOMAIN Full[at] /\ m \notin DOMAIN Full[p]
    <2>1. PICK span, lvl : Shaped(span, lvl)
        BY <1>1, Position
    <2>2. m \notin DOMAIN heap[p]
        BY <1>1, <2>1, MedianBelongs
    <2>3. Full[at] = With(carry.right, carry.id, carry.entry)
        BY <1>1, <1>3, FullAt DEF Addresses
    <2> QED
        BY <1>4, <2>2, <2>3 DEF With
<1>10. /\ \A a \in 1..n : a # p /\ a # at => heap'[a] = Full[a]
       /\ \A j : j \in DOMAIN heap'[at] <=> j \in DOMAIN Full[at] /\ j # m
       /\ \A j \in DOMAIN heap'[at] : heap'[at][j] = Full[at][j]
       /\ \A j : j \in DOMAIN heap'[p] <=> j \in DOMAIN Full[p] \/ j = m
       /\ \A j \in DOMAIN heap'[p] : heap'[p][j] = IF j = m THEN Full[at][m] ELSE Full[p][j]
    BY <1>7 DEF AttachedIn
<1> HIDE DEF n, p, i, m, st
<1>11. ASSUME NEW a \in 1..n, NEW j \in DOMAIN Full[a], Full[a][j].hash # NoHash,
              ~OnPath(st, a, j)
       PROVE  Alike(heap'[Full[a][j].child], Full[Full[a][j].child])
    <2>1. Full[a][j].child \in 1..n /\ Full[a][j].child # p /\ Full[a][j].child # at
        BY <1>1, <1>3, <1>4, <1>5, <1>8, <1>11, HashLeads DEF n
    <2> QED
        BY <1>10, <2>1 DEF Alike
<1>12. ASSUME NEW a \in 1..n, NEW j \in DOMAIN Full[a], Full[a][j].hash # NoHash
       PROVE  OnPath(stack, a, j) => OnPath(st, a, j)
    BY <1>4, <1>8, <1>12
<1>13. ASSUME NEW b \in 1..n, NEW j \in DOMAIN heap'[b], heap'[b][j].hash # NoHash
       PROVE  \E a \in 1..n : /\ j \in DOMAIN Full[a] /\ Full[a][j] = heap'[b][j]
                              /\ OnPath(st, a, j) => OnPath(st, b, j)
    <2>1. CASE b # p
        BY <1>10, <1>13, <2>1
    <2>2. CASE b = p /\ j # m
        BY <1>10, <1>13, <2>2
    <2>3. CASE b = p /\ j = m
        <3>1. ~OnPath(st, at, m)
            BY <1>4, <1>5
        <3> QED
            BY <1>3, <1>9, <1>10, <2>3, <3>1
    <2> QED
        BY <2>1, <2>2, <2>3
<1>14. Carried(Full, n, stack, heap', n, st)
    <2> SUFFICES ASSUME NEW b \in 1..n, NEW j \in DOMAIN heap'[b], heap'[b][j].hash # NoHash
                 PROVE  \E a \in 1..n : \E k \in DOMAIN Full[a] :
                            /\ Full[a][k].hash = heap'[b][j].hash /\ Full[a][k].child = heap'[b][j].child
                            /\ ~OnPath(st, b, j) =>
                                /\ ~OnPath(stack, a, k)
                                /\ Alike(heap'[Full[a][k].child], Full[Full[a][k].child])
        BY DEF Carried
    <2>1. PICK a \in 1..n : /\ j \in DOMAIN Full[a] /\ Full[a][j] = heap'[b][j]
                            /\ OnPath(st, a, j) => OnPath(st, b, j)
        BY <1>13
    <2> QED
        BY <1>11, <1>12, <2>1
<1>15. HashTree'
    BY <1>1, <1>3, <1>6, <1>7, <1>14, HashesCarried DEF n
<1>16. Survives(Full, n, heap', n, NoHash)
    <2> SUFFICES ASSUME NEW a \in 1..n, NEW j \in DOMAIN Full[a]
                 PROVE  \E b \in 1..n : \E k \in DOMAIN heap'[b] : heap'[b][k].hash = Full[a][j].hash
        BY DEF Survives
    <2>1. CASE a = at /\ j = m
        BY <1>4, <1>9, <1>10, <2>1
    <2>2. CASE a = at /\ j # m
        BY <1>10, <2>2
    <2>3. CASE a = p
        BY <1>9, <1>10, <2>3
    <2>4. CASE a # at /\ a # p
        BY <1>10, <2>4
    <2> QED
        BY <2>1, <2>2, <2>3, <2>4
<1>17. NoneLost(c)
    BY <1>1, <1>7, <1>16, LostIsGone DEF n, Gone
<1> QED
    BY <1>1, <1>15, <1>17, ControlIdle DEF HashInv

LEMMA HashNewRoot ==
    ASSUME InvS, HashInv, NEW c \in Coroutines, ReturnToRoot(c), carry # NoSplit
    PROVE  HashInv' /\ NoneLost(c)
<1> DEFINE n == Len(heap)
           m == carry.id
<1>1. /\ pc[c] = "return" /\ IInv /\ Shape /\ HashTree /\ HashControl /\ pc[c] # "ready"
      /\ UNCHANGED <<rootHash, pinned>> /\ stack = <<>> /\ Goto(c, "pick")
    BY DEF ReturnToRoot, InvS, HashInv
<1>2. /\ at \in 1..n /\ n \in Nat /\ Frames = <<>> /\ rootNode # Null
    BY <1>1, Position
<1>3. /\ Len(heap') = n + 1 /\ Full' = heap' /\ at = rootNode
      /\ RootGrown(Full, heap', n, at, m)
    BY <1>1, RootIs
<1>4. Frames' = <<>>
    BY <1>1 DEF ReturnToRoot, Frames
<1>5. \A b \in 1..n : \A j \in DOMAIN Full[b] : Full[b][j].child # at
    BY <1>1, AtSlots
<1>6. m \in DOMAIN Full[at]
    <2>1. Full[at] = With(carry.right, carry.id, carry.entry)
        BY <1>1, <1>2, FullAt DEF Addresses
    <2> QED
        BY <2>1 DEF With
<1>7. /\ \A a \in 1..n : a # at => heap'[a] = Full[a]
      /\ \A j : j \in DOMAIN heap'[at] <=> j = m \/ j = Inf
      /\ heap'[at][m] = Full[at][m] /\ heap'[at][Inf].hash = NoHash
      /\ \A j : j \in DOMAIN heap'[n + 1] <=> j \in DOMAIN Full[at] /\ j # m
      /\ \A j \in DOMAIN heap'[n + 1] : heap'[n + 1][j] = Full[at][j]
    BY <1>3 DEF RootGrown, Entry
<1> HIDE DEF n, m
<1>8. ASSUME NEW a \in 1..n, NEW j \in DOMAIN Full[a], Full[a][j].hash # NoHash
      PROVE  Alike(heap'[Full[a][j].child], Full[Full[a][j].child])
    <2>1. Full[a][j].child \in 1..n /\ Full[a][j].child # at
        BY <1>1, <1>2, <1>5, <1>8, HashLeads DEF n
    <2> QED
        BY <1>7, <2>1 DEF Alike
<1>9. ASSUME NEW b \in 1..(n + 1), NEW j \in DOMAIN heap'[b], heap'[b][j].hash # NoHash
      PROVE  \E a \in 1..n : j \in DOMAIN Full[a] /\ Full[a][j] = heap'[b][j]
    <2>1. CASE b = n + 1
        BY <1>2, <1>7, <1>9, <2>1
    <2>2. CASE b = at
        BY <1>2, <1>6, <1>7, <1>9, <2>2
    <2>3. CASE b \in 1..n /\ b # at
        BY <1>7, <1>9, <2>3
    <2> QED
        BY <1>2, <2>1, <2>2, <2>3
<1>10. Carried(Full, n, <<>>, heap', n + 1, <<>>)
    BY <1>8, <1>9, EmptyPath DEF Carried
<1>11. HashTree'
    BY <1>1, <1>2, <1>3, <1>4, <1>10, HashesCarried DEF n
<1>12. Survives(Full, n, heap', n + 1, NoHash)
    <2> SUFFICES ASSUME NEW a \in 1..n, NEW j \in DOMAIN Full[a]
                 PROVE  \E b \in 1..(n + 1) : \E k \in DOMAIN heap'[b] : heap'[b][k].hash = Full[a][j].hash
        BY DEF Survives
    <2>1. a \in 1..(n + 1) /\ n + 1 \in 1..(n + 1)
        BY <1>2
    <2>2. CASE a = at /\ j = m
        BY <1>7, <2>1, <2>2
    <2>3. CASE a = at /\ j # m
        BY <1>7, <2>1, <2>3
    <2>4. CASE a # at
        BY <1>7, <2>1, <2>4
    <2> QED
        BY <2>2, <2>3, <2>4
<1>13. NoneLost(c)
    BY <1>1, <1>3, <1>12, LostIsGone DEF n, Gone
<1> QED
    BY <1>1, <1>11, <1>13, ControlIdle DEF HashInv

--------------------------------------------------------------------------
\* Storing

\* While nodes are stored the entries on the way have no hash.
LEMMA StoreKnows ==
    ASSUME IInv, HashControl, NEW c \in Coroutines, pc[c] \in {"store", "adding", "pinning"}
    PROVE  /\ rootHash = NoHash
           /\ \A b, j : OnPath(stack, b, j) => heap[b][j].hash = NoHash
           /\ pc[c] # "store" => HashOf(job.hash, heap[at])
<1>1. NoHashOnPath
    BY DEF HashControl, StorePath, Storing, Bound
<1> QED
    BY <1>1 DEF NoHashOnPath, OnPath, HashControl, StoresNode

LEMMA NotSplit ==
    ASSUME IInv, Shape, NEW c \in Coroutines, pc[c] \in {"store", "adding", "pinning"}
    PROVE  carry = NoSplit /\ Full = heap /\ SplitNode = Null
<1>1. carry = NoSplit
    BY WriterIs DEF Shape, Bound
<1> QED
    BY <1>1, WriterIs DEF Full, Bound

LEMMA HashStoreChild ==
    ASSUME InvS, HashInv, NEW c \in Coroutines, StoreChild(c)
    PROVE  HashInv' /\ NoneLost(c)
<1> DEFINE i == First(ToStore(heap[at]))
<1>1. /\ pc[c] = "store" /\ pc' = pc /\ IInv /\ Shape /\ HashTree /\ HashControl
      /\ pc[c] # "ready"
      /\ UNCHANGED <<rootHash, heap, carry, pinned>>
      /\ stack' = Append(stack, [node |-> at, id |-> i])
    BY DEF StoreChild, InvS, HashInv, tree
<1>2. Goto(c, "store")
    BY <1>1 DEF Goto, IInv, TypeOK
<1>3. carry = NoSplit /\ Full = heap /\ Full' = heap'
    BY <1>1, NotSplit DEF Full
<1>4. /\ at \in 1..Len(heap) /\ IsHeap(heap, Len(heap))
      /\ stack \in Seq([node : Addresses, id : Ids]) /\ Len(stack) \in Nat
    BY <1>1, Position
<1>5. i \in DOMAIN heap[at] /\ heap[at][i].hash = NoHash
    <2>1. DOMAIN heap[at] \subseteq Ids /\ IsFiniteSet(DOMAIN heap[at])
        BY <1>4 DEF IsHeap, IsNode
    <2>2. ToStore(heap[at]) \subseteq DOMAIN heap[at] /\ ToStore(heap[at]) # {}
        BY DEF ToStore, StoreChild
    <2>3. i \in ToStore(heap[at])
        BY <2>1, <2>2, FirstIsFirst, FS_Subset
    <2> QED
        BY <2>3 DEF ToStore
<1> HIDE DEF i
<1>6. HashTree' /\ NoneLost(c)
    BY <1>1, <1>2, <1>3, FramesStay
<1>7. NoHashOnPath'
    <2>1. NoHashOnPath
        BY <1>1 DEF HashControl, StorePath, Storing, Bound
    <2>2. /\ Len(stack') = Len(stack) + 1
          /\ \A j \in 1..Len(stack) : stack'[j] = stack[j]
          /\ stack'[Len(stack) + 1] = [node |-> at, id |-> i]
        BY <1>1, <1>4
    <2>3. \A j \in 1..Len(stack') : j \in 1..Len(stack) \/ j = Len(stack) + 1
        BY <1>4, <2>2
    <2>4. ASSUME NEW j \in 1..Len(stack') PROVE heap'[stack'[j].node][stack'[j].id].hash = NoHash
        <3>1. CASE j \in 1..Len(stack)
            BY <1>1, <2>1, <2>2, <3>1 DEF NoHashOnPath
        <3>2. CASE j = Len(stack) + 1
            BY <1>1, <1>5, <2>2, <3>2
        <3> QED
            BY <2>3, <3>1, <3>2
    <2> QED
        BY <1>1, <2>1, <2>4 DEF NoHashOnPath
<1>8. HashControl'
    BY <1>1, <1>2, <1>7, ControlFrom
<1> QED
    BY <1>6, <1>8 DEF HashInv

\* Nothing changes but the label, and perhaps the hash in job.
LEMMA HashStoreNode ==
    ASSUME InvS, HashInv, NEW c \in Coroutines, StoreNode(c) \/ Added(c)
    PROVE  HashInv' /\ NoneLost(c)
<1>1. /\ pc[c] \in {"store", "adding"} /\ IInv /\ Shape /\ HashTree /\ HashControl
      /\ pc[c] # "ready"
      /\ UNCHANGED <<rootHash, heap, carry, pinned, stack, at>>
    BY DEF StoreNode, Added, InvS, HashInv, tree, frame
<1>2. PICK l \in {"adding", "pinning"} : Goto(c, l)
    BY DEF StoreNode, Added
<1>3. Full' = Full
    BY <1>1 DEF Full
<1>4. HashTree' /\ NoneLost(c)
    BY <1>1, <1>2, <1>3, FramesStay
<1>5. NoHashOnPath'
    <2>1. NoHashOnPath
        BY <1>1 DEF HashControl, StorePath, Storing, Bound
    <2> QED
        BY <1>1, <2>1 DEF NoHashOnPath
<1>6. HashOf(job'.hash, heap'[at'])
    BY <1>1 DEF StoreNode, Added, HashControl, StoresNode, HashOf
<1>7. HashControl'
    BY <1>1, <1>2, <1>5, <1>6, ControlFrom
<1> QED
    BY <1>4, <1>7 DEF HashInv

LEMMA HashStoreFailed ==
    ASSUME InvS, HashInv, NEW c \in Coroutines, StoreFailed(c)
    PROVE  HashInv' /\ NoneLost(c)
<1>1. /\ pc[c] \in {"adding", "pinning"} /\ IInv /\ Shape /\ HashTree /\ HashControl
      /\ pc[c] # "ready" /\ Goto(c, "ready")
      /\ UNCHANGED <<rootHash, heap, carry, pinned>>
    BY DEF StoreFailed, InvS, HashInv, tree
<1>2. carry = NoSplit /\ Full = heap
    BY <1>1, NotSplit
<1>3. rootHash = NoHash /\ \A b, j : OnPath(stack, b, j) => heap[b][j].hash = NoHash
    BY <1>1, StoreKnows
<1>4. Frames = stack /\ rootNode # Null
    BY <1>1, Position
<1>5. HashTree' /\ NoneLost(c)
    BY <1>1, <1>2, <1>3, <1>4, HeapStays
<1>6. RootIsFresh'
    BY <1>1, <1>3 DEF RootIsFresh
<1>7. HashControl'
    BY <1>1, <1>6, ControlFrom
<1> QED
    BY <1>5, <1>7 DEF HashInv

LEMMA HashRemoved ==
    ASSUME InvS, HashInv, NEW c \in Coroutines, Removed(c) \/ RemoveFailed(c)
    PROVE  HashInv' /\ NoneLost(c)
<1>1. /\ pc[c] = "removing" /\ IInv /\ Shape /\ HashTree /\ HashControl
      /\ pc[c] # "ready" /\ Goto(c, job.next)
      /\ UNCHANGED <<rootHash, heap, carry, stack, at>>
      /\ pinned' \in {pinned, pinned \ {job.hash}}
    BY DEF Removed, RemoveFailed, Unpin, InvS, HashInv, tree, frame
<1>2. job.next \in {"store", "splitRest", "attach"}
    BY <1>1 DEF IInv, WriterResumes
<1>3. Full' = Full /\ Frames' = Frames /\ Addresses' = Addresses
    <2>1. pc'[c] = job.next /\ Frames = stack
        BY <1>1, WriterGoes, Position
    <2>2. Frames' = stack'
        BY <1>2, <2>1 DEF Frames, Walking
    <2> QED
        BY <1>1, <2>1, <2>2 DEF Full, Addresses
<1>4. Absent(job.hash)
    BY <1>1 DEF HashControl, Forgotten
<1>5. Backed'
    BY <1>1, <1>3, <1>4 DEF HashTree, Backed, Absent
<1>6. HashTree'
    BY <1>1, <1>3, <1>5 DEF HashTree, RootApart
<1>7. NoneLost(c)
    BY <1>1, <1>3 DEF NoneLost, Absent
<1>8. job.next = "store" => NoHashOnPath'
    BY <1>1 DEF HashControl, StorePath, Storing, Bound, NoHashOnPath
<1>9. job.next = "attach" => SlotCleared'
    BY <1>1 DEF HashControl, Cleared, Bound, SlotCleared
<1>10. HashControl'
    BY <1>1, <1>2, <1>8, <1>9, ControlFrom
<1> QED
    BY <1>6, <1>7, <1>10 DEF HashInv

\* The node that was stored is the only one with its text.
LEMMA OnlyThisText ==
    ASSUME InvS, HashInv, NEW c \in Coroutines, pc[c] = "pinning",
           NEW a \in 1..Len(heap), NEW i \in DOMAIN heap[a],
           heap[a][i].hash = job.hash, job.hash # NoHash
    PROVE  heap[a][i].child = at /\ stack # <<>>
<1> DEFINE n == Len(heap)
           d == heap[a][i].child
<1>1. /\ IInv /\ Shape /\ HashTree /\ HashControl
      /\ Frames = stack /\ Full = heap /\ at \in 1..n /\ rootNode # Null /\ SplitNode = Null
    BY Position, NotSplit DEF InvS, HashInv
<1>2. PICK span, lvl : Tree(heap, n, rootNode, span, lvl, Null, MidKey)
    BY <1>1, Position
<1>3. /\ HashOf(job.hash, heap[at])
      /\ ~OnPath(stack, a, i)
    BY <1>1, StoreKnows
<1>4. Serialise(heap[d]) = Serialise(heap[at])
    BY <1>1, <1>3 DEF HashTree, Fresh, HashOf
<1>5. d \in 1..n /\ d # rootNode
    <2>1. d \in 1..n /\ d # Null
        BY <1>1, HashLeads DEF Null
    <2>2. /\ lvl[d] + 1 = lvl[a] /\ lvl[a] <= lvl[rootNode] /\ lvl[d] \in Nat
        BY <1>2, <2>1 DEF Tree, Levels, Ghosts, Null
    <2> QED
        BY <2>1, <2>2
<1> HIDE DEF d, n
<1>6. d = at
    BY ONLY <1>1, <1>2, <1>4, <1>5, OneText
<1>7. stack # <<>>
    BY <1>1, <1>6, AtSlots DEF d, n
<1> QED
    BY <1>6, <1>7 DEF d

\* The root hash comes back.
LEMMA HashRootPinned ==
    ASSUME InvS, HashInv, NEW c \in Coroutines, Pinned(c), stack = <<>>
    PROVE  HashInv' /\ NoneLost(c)
<1>1. /\ pc[c] = "pinning" /\ IInv /\ Shape /\ HashTree /\ HashControl
      /\ pc[c] # "ready" /\ Goto(c, "loop")
      /\ UNCHANGED <<rootNode, heap, carry, stack>>
      /\ rootHash' = job.hash /\ pinned' = pinned \cup {job.hash}
    BY DEF Pinned, Pin, InvS, HashInv
<1>2. carry = NoSplit /\ Full = heap /\ Full' = heap' /\ Addresses' = Addresses
    BY <1>1, NotSplit DEF Full, Addresses
<1>3. Frames = <<>> /\ rootNode # Null /\ at = rootNode
    BY <1>1, Position DEF Walk
<1>4. Frames' = <<>>
    BY <1>1 DEF Frames
<1>5. rootHash = NoHash /\ HashOf(job.hash, heap[at])
    BY <1>1, StoreKnows
<1>6. RootApart'
    BY <1>1, <1>2, OnlyThisText DEF RootApart, Addresses
<1>7. Backed'
    BY <1>1, <1>2 DEF HashTree, Backed
<1>8. HashTree'
    BY <1>1, <1>2, <1>3, <1>4, <1>6, <1>7 DEF HashTree
<1>9. NoneLost(c)
    <2>1. Survives(Full, Len(heap), Full', Len(heap'), NoHash)
        BY <1>1, <1>2 DEF Survives
    <2> QED
        BY <1>5, <2>1, LostIsGone DEF Gone
<1>10. RootIsFresh'
    BY <1>1, <1>3, <1>5 DEF RootIsFresh
<1>11. HashControl'
    BY <1>1, <1>10, ControlFrom
<1> QED
    BY <1>8, <1>9, <1>11 DEF HashInv

\* The hash of a child comes back to its parent's entry.
LEMMA HashChildPinned ==
    ASSUME InvS, InvS', HashInv, NEW c \in Coroutines, Pinned(c), stack # <<>>
    PROVE  HashInv' /\ NoneLost(c)
<1> DEFINE n == Len(heap)
           p == Top(stack).node
           i == Top(stack).id
           st == Pop(stack)
           h == job.hash
<1>1. /\ pc[c] = "pinning" /\ IInv /\ IInv' /\ Shape /\ HashTree /\ HashControl
      /\ pc[c] # "ready" /\ Goto(c, "store")
      /\ UNCHANGED <<rootNode, rootHash, carry>> /\ stack' = st
      /\ heap' = [heap EXCEPT ![p][i].hash = h] /\ pinned' = pinned \cup {h}
    BY DEF Pinned, Pin, Stored, InvS, HashInv
<1>2. carry = NoSplit /\ Full = heap /\ Full' = heap'
    BY <1>1, NotSplit DEF Full
<1>3. Frames = stack /\ rootNode # Null /\ at \in 1..n /\ n \in Nat
    BY <1>1, Position
<1>4. Frames' = st
    <2>1. pc'[c] = "store"
        BY <1>1, WriterGoes
    <2> QED
        BY <1>1, <2>1 DEF Frames, Walking
<1>5. /\ rootHash = NoHash /\ HashOf(h, heap[at])
      /\ \A b, j : OnPath(stack, b, j) => heap[b][j].hash = NoHash
    BY <1>1, StoreKnows
<1>6. /\ p \in 1..n /\ p # at
      /\ i \in DOMAIN heap[p] /\ heap[p][i].child = at
      /\ \A b, j : OnPath(st, b, j) => b # p
      /\ \A b, j : OnPath(stack, b, j) <=> (OnPath(st, b, j) \/ (b = p /\ j = i))
      /\ \A b \in 1..n : \A j \in DOMAIN heap[b] : heap[b][j].child = p => OnPath(st, b, j)
    BY <1>1, <1>2, UpSlots
<1>7. ASSUME h # NoHash, NEW a \in 1..n, NEW j \in DOMAIN heap[a], heap[a][j].hash = h
      PROVE  heap[a][j].child = at
    BY <1>1, <1>7, OnlyThisText
<1> HIDE DEF p, i, st, h
<1>8. Len(heap') = n /\ HashSet(heap, heap', n, p, i, h)
    BY <1>1, <1>2, <1>3, <1>6, HashOnly
<1>9. /\ \A a \in 1..n : a # p => heap'[a] = heap[a]
      /\ DOMAIN heap'[p] = DOMAIN heap[p]
      /\ \A j \in DOMAIN heap[p] : j # i => heap'[p][j] = heap[p][j]
      /\ heap'[p][i].hash = h /\ heap'[p][i].child = at
    BY <1>6, <1>8 DEF HashSet
<1>10. \A b \in 1..n : \A j \in DOMAIN heap'[b] :
           /\ j \in DOMAIN heap[b]
           /\ heap'[b][j] = heap[b][j] \/ (b = p /\ j = i)
    BY <1>9
<1>11. at # Null
    BY <1>3 DEF Null
<1>12. OneChild(heap', n)
    <2> SUFFICES ASSUME NEW a \in 1..n, NEW b \in 1..n,
                        NEW j \in DOMAIN heap'[a], NEW k \in DOMAIN heap'[b],
                        heap'[a][j].hash = heap'[b][k].hash, heap'[a][j].hash # NoHash
                 PROVE  heap'[a][j].child = heap'[b][k].child /\ heap'[a][j].child # Null
        BY DEF OneChild
    <2>1. CASE a = p /\ j = i /\ b = p /\ k = i
        BY <1>9, <1>11, <2>1
    <2>2. CASE a = p /\ j = i /\ ~(b = p /\ k = i)
        <3>1. heap'[b][k] = heap[b][k] /\ k \in DOMAIN heap[b] /\ heap'[a][j].hash = h
            BY <1>9, <1>10, <2>2
        <3> QED
            BY <1>7, <1>9, <1>11, <2>2, <3>1
    <2>3. CASE ~(a = p /\ j = i) /\ b = p /\ k = i
        <3>1. heap'[a][j] = heap[a][j] /\ j \in DOMAIN heap[a] /\ heap'[b][k].hash = h
            BY <1>9, <1>10, <2>3
        <3> QED
            BY <1>7, <1>9, <1>11, <2>3, <3>1
    <2>4. CASE ~(a = p /\ j = i) /\ ~(b = p /\ k = i)
        <3>1. /\ heap'[a][j] = heap[a][j] /\ j \in DOMAIN heap[a]
              /\ heap'[b][k] = heap[b][k] /\ k \in DOMAIN heap[b]
            BY <1>10, <2>4
        <3>2. OneChild(heap, n)
            BY <1>1, <1>2 DEF HashTree, n
        <3>3. heap[a][j].hash = heap[b][k].hash /\ heap[a][j].hash # NoHash
            BY <3>1
        <3>4. heap[a][j].child = heap[b][k].child /\ heap[a][j].child # Null
            BY <3>1, <3>2, <3>3 DEF OneChild
        <3> QED
            BY <3>1, <3>4
    <2> QED
        BY <2>1, <2>2, <2>3, <2>4
<1>13. Fresh(heap', n, st)
    <2> SUFFICES ASSUME NEW b \in 1..n, NEW j \in DOMAIN heap'[b],
                        heap'[b][j].hash # NoHash, ~OnPath(st, b, j)
                 PROVE  HashOf(heap'[b][j].hash, heap'[heap'[b][j].child])
        BY DEF Fresh
    <2>1. CASE b = p /\ j = i
        <3>1. heap'[at] = heap[at]
            BY <1>3, <1>6, <1>9
        <3> QED
            BY <1>5, <1>9, <2>1, <3>1
    <2>2. CASE ~(b = p /\ j = i)
        <3>1. heap'[b][j] = heap[b][j] /\ j \in DOMAIN heap[b]
            BY <1>10, <2>2
        <3>2. ~OnPath(stack, b, j)
            BY <1>6, <2>2
        <3>3. HashOf(heap[b][j].hash, heap[heap[b][j].child])
            BY <1>1, <1>2, <1>3, <3>1, <3>2 DEF HashTree, Fresh, n
        <3>4. heap[b][j].child \in 1..n /\ heap[b][j].child # p
            BY <1>1, <1>2, <1>3, <1>6, <3>1, HashLeads DEF n
        <3>5. heap'[heap[b][j].child] = heap[heap[b][j].child]
            BY <1>9, <3>4
        <3> QED
            BY <3>1, <3>3, <3>5
    <2> QED
        BY <2>1, <2>2
<1>14. RootApart' /\ Backed'
    <2>1. RootApart'
        BY <1>1, <1>5 DEF RootApart
    <2>2. \A b \in 1..n : \A j \in DOMAIN heap'[b] :
              heap'[b][j].hash # NoHash => heap'[b][j].hash \in pinned'
        BY <1>1, <1>2, <1>9, <1>10 DEF HashTree, Backed, Addresses, n
    <2> QED
        BY <1>1, <1>2, <1>5, <1>8, <2>1, <2>2 DEF Backed, Addresses
<1>15. HashTree'
    BY <1>2, <1>4, <1>8, <1>12, <1>13, <1>14 DEF HashTree
<1>16. NoneLost(c)
    <2>1. heap[p][i].hash = NoHash
        BY <1>5, <1>6
    <2>2. Survives(heap, n, heap', n, NoHash)
        BY <1>9, <2>1 DEF Survives
    <2> QED
        BY <1>1, <1>2, <1>8, <2>2, LostIsGone DEF Gone, n
<1>17. NoHashOnPath'
    <2>1. ASSUME NEW j \in 1..Len(st) PROVE heap'[st[j].node][st[j].id].hash = NoHash
        <3>1. OnPath(st, st[j].node, st[j].id)
            BY DEF OnPath
        <3>2. st[j].node # p /\ OnPath(stack, st[j].node, st[j].id)
            BY <1>6, <3>1
        <3>3. st[j].node \in 1..n
            BY <1>1, <3>2, AtSlots DEF n
        <3> QED
            BY <1>5, <1>9, <3>2, <3>3
    <2> QED
        BY <1>1, <1>5, <2>1 DEF NoHashOnPath
<1>18. HashControl'
    BY <1>1, <1>17, ControlFrom
<1> QED
    BY <1>15, <1>16, <1>18 DEF HashInv

--------------------------------------------------------------------------
\* The inductive invariant: with the shape of the tree, since a hash that is
\* forgotten in one entry is gone from the tree only because no other entry leads to
\* the same node, nor to one with the same text.
InvH == InvS /\ HashInv

LEMMA InitHash == Init => InvH
<1> SUFFICES ASSUME Init PROVE InvH
    OBVIOUS
<1>1. InvS
    BY InitShape
<1>2. /\ heap = <<>> /\ Len(heap) = 0 /\ carry = NoSplit /\ stack = <<>> /\ rootNode = Null
      /\ rootHash = LoadedRoot /\ pinned = {LoadedRoot} \ {NoHash}
      /\ \A c \in Coroutines : pc[c] = "ready"
    BY DEF Init
<1>3. HashTree
    BY <1>2 DEF HashTree, OneChild, Fresh, RootApart, Backed, Addresses
<1>4. HashControl
    BY <1>2 DEF HashControl, Forgotten, StorePath, Storing, StoresNode, RestFresh, RootIsFresh,
                Cleared, Bound
<1> QED
    BY <1>1, <1>3, <1>4 DEF InvH, HashInv

LEMMA StepHash ==
    ASSUME InvS, InvS', HashInv, NEW c \in Coroutines, Step(c)
    PROVE  HashInv' /\ NoneLost(c)
BY HashLoop, HashPick, HashFlush, HashLeaf, HashGoDown, HashSplitStart, HashSplitDone,
   HashReturn, HashBack, HashAttach, HashNewRoot, HashStoreChild, HashStoreNode DEF Step

LEMMA AnswerHash ==
    ASSUME InvS, InvS', HashInv, NEW c \in Coroutines, Answer(c)
    PROVE  HashInv' /\ NoneLost(c)
BY HashStoreNode, HashRootPinned, HashChildPinned, HashStoreFailed, HashRemoved DEF Answer

LEMMA StutterHash ==
    ASSUME HashInv, UNCHANGED vars
    PROVE  HashInv'
<1>1. Full' = Full /\ Frames' = Frames /\ Addresses' = Addresses
    BY DEF vars, Full, Frames, Walking, Addresses
<1>2. HashTree'
    BY <1>1 DEF HashInv, HashTree, RootApart, Backed, vars
<1>3. Forgotten' /\ StorePath' /\ StoresNode'
    BY <1>1 DEF HashInv, HashControl, Forgotten, Absent, StorePath, Storing, Bound, NoHashOnPath,
                StoresNode, vars
<1>4. RestFresh' /\ Cleared'
    BY DEF HashInv, HashControl, RestFresh, RootIsFresh, Cleared, Bound, SlotCleared, vars
<1> QED
    BY <1>2, <1>3, <1>4 DEF HashInv, HashControl

LEMMA NextHash == InvH /\ [Next]_vars => InvH'
<1> SUFFICES ASSUME InvH, [Next]_vars PROVE InvH'
    OBVIOUS
<1>1. InvS /\ HashInv /\ InvS' /\ IInv
    BY NextShape DEF InvH, InvS
<1>2. CASE UNCHANGED vars
    BY <1>1, <1>2, StutterHash DEF InvH
<1>3. ASSUME NEW c \in Coroutines, Step(c) PROVE InvH'
    BY <1>1, <1>3, StepHash DEF InvH
<1>4. ASSUME NEW c \in Coroutines, Answer(c) PROVE InvH'
    BY <1>1, <1>4, AnswerHash DEF InvH
<1>5. ASSUME NEW c \in Coroutines, NEW k \in Keys, NEW v \in Values, Call(c, k, v)
      PROVE  InvH'
    BY <1>1, <1>5, HashCall DEF InvH
<1> QED
    BY <1>2, <1>3, <1>4, <1>5 DEF Next

\* The hashes in memory are those of the nodes with the parts of a split put back.
HashesOK == \A h : h \in HashesInMemory <=> (h # NoHash /\ ~Absent(h))

LEMMA HashesAre == InvS => HashesOK
<1> SUFFICES ASSUME InvS, NEW h, h # NoHash PROVE h \in HashesInMemory <=> ~Absent(h)
    BY DEF HashesInMemory, HashesOK
<1>1. IInv /\ Shape
    BY DEF InvS
<1>2. CASE carry = NoSplit
    <2>1. h \in HashesInMemory <=> rootHash = h \/ h \in HashesInNodes
        BY <1>2 DEF HashesInMemory, HashesOnTheWay
    <2>2. h \in HashesInNodes <=> \E a \in Addresses : h \in HashesOf(heap[a])
        BY DEF HashesInNodes
    <2> QED
        BY <1>2, <2>1, <2>2 DEF HashesOf, Absent, Full
<1>3. CASE carry # NoSplit
    <2>1. PICK c \in Coroutines : pc[c] = "return" \/ Bound(c, "attach")
        BY <1>1, <1>3 DEF Shape, CarryOut
    <2>2. pc[c] \notin {"ready", "loop", "pick"}
        BY <2>1 DEF Bound
    <2>3. at \in Addresses
        BY <1>1, <2>2 DEF IInv, TypeOK
    <2>4. DOMAIN heap[at] = {}
        BY <1>1, <1>3 DEF Shape, CarryOut, EmptyMap
    <2>5. \A a \in Addresses : Full[a] = IF a = at THEN With(carry.right, carry.id, carry.entry)
                                         ELSE heap[a]
        BY <1>1, <1>3, <2>3, FullAt
    <2>6. carry.id \notin DOMAIN carry.right
        <3>1. carry.id \in Ids
            BY <1>1, <1>3 DEF IInv, TypeOK, IsCarry, Ids
        <3> QED
            BY <1>1, <1>3, <3>1, BeforeIsOrder DEF Shape, CarryOut
    <2>7. /\ DOMAIN Full[at] = DOMAIN carry.right \cup {carry.id}
          /\ Full[at][carry.id] = carry.entry
          /\ \A j \in DOMAIN carry.right : Full[at][j] = carry.right[j]
        BY <2>3, <2>5, <2>6 DEF With
    <2>8. h \in HashesInMemory <=>
              \/ rootHash = h
              \/ \E a \in Addresses : \E i \in DOMAIN heap[a] : heap[a][i].hash = h
              \/ carry.entry.hash = h
              \/ \E i \in DOMAIN carry.right : carry.right[i].hash = h
        <3>1. HashesOnTheWay = {carry.entry.hash} \cup HashesOf(carry.right)
            BY <1>3 DEF HashesOnTheWay
        <3>2. h \in HashesInMemory <=>
                  \/ rootHash = h
                  \/ \E a \in Addresses : h \in HashesOf(heap[a])
                  \/ h \in HashesOnTheWay
            <4>1. h \in HashesInNodes <=> \E a \in Addresses : h \in HashesOf(heap[a])
                BY DEF HashesInNodes
            <4> QED
                BY <4>1 DEF HashesInMemory
        <3> QED
            BY <3>1, <3>2 DEF HashesOf
    <2>9. ASSUME ~Absent(h) PROVE h \in HashesInMemory
        <3>1. CASE rootHash = h
            BY <2>8, <3>1
        <3>2. CASE rootHash # h
            <4>1. PICK a \in Addresses : \E i \in DOMAIN Full[a] : Full[a][i].hash = h
                BY <2>9, <3>2 DEF Absent
            <4>2. CASE a = at
                BY <2>7, <2>8, <4>1, <4>2
            <4>3. CASE a # at
                BY <2>5, <2>8, <4>1, <4>3
            <4> QED
                BY <4>2, <4>3
        <3> QED
            BY <3>1, <3>2
    <2>10. ASSUME Absent(h), h \in HashesInMemory PROVE FALSE
        <3>1. CASE rootHash = h
            BY <2>10, <3>1 DEF Absent
        <3>2. ASSUME NEW a \in Addresses, NEW i \in DOMAIN heap[a], heap[a][i].hash = h PROVE FALSE
            <4>1. a # at
                BY <2>4, <3>2
            <4> QED
                BY <2>5, <2>10, <3>2, <4>1 DEF Absent
        <3>3. CASE carry.entry.hash = h
            BY <2>3, <2>7, <2>10, <3>3 DEF Absent
        <3>4. ASSUME NEW i \in DOMAIN carry.right, carry.right[i].hash = h PROVE FALSE
            BY <2>3, <2>7, <2>10, <3>4 DEF Absent
        <3> QED
            BY <2>8, <2>10, <3>1, <3>2, <3>3, <3>4
    <2> QED
        BY <2>9, <2>10
<1> QED
    BY <1>2, <1>3

--------------------------------------------------------------------------
\* Node::store trusts the child_hash it finds and BTree::insert the root hash it
\* keeps (btree.cpp 406): at every wait of a store and between batches a hash that
\* is kept is that of what the node under it holds.
THEOREM HashesAreFresh == Spec => []HashesFresh
<1>1. InvH => HashesFresh
    <2> SUFFICES ASSUME InvH,
                        \A c \in Coroutines : pc[c] \in {"ready", "loop", "store", "adding", "pinning"}
                 PROVE  /\ \A a \in Addresses : \A i \in DOMAIN heap[a] :
                            (heap[a][i].hash # NoHash /\ heap[a][i].child # Null) =>
                                heap[a][i].hash = Serialise(heap[heap[a][i].child])
                        /\ (rootHash # NoHash /\ rootNode # Null) => rootHash = Serialise(heap[rootNode])
        BY DEF HashesFresh
    <2>1. InvS /\ IInv /\ Shape /\ HashTree /\ HashControl
        BY DEF InvH, InvS, HashInv
    <2>2. carry = NoSplit
        BY <2>1 DEF Shape, CarryOut, Bound
    <2>3. Full = heap
        BY <2>2 DEF Full
    <2>4. CASE \A c \in Coroutines : pc[c] \in {"ready", "loop"}
        <3>1. Frames = <<>>
            BY <2>4 DEF Frames, Walking
        <3>2. RootIsFresh
            BY <2>1, <2>4 DEF HashControl, RestFresh
        <3> QED
            BY <2>1, <2>3, <3>1, <3>2, EmptyPath DEF HashTree, Fresh, RootIsFresh, HashOf, Addresses
    <2>5. ASSUME NEW c \in Coroutines, pc[c] \notin {"ready", "loop"}
          PROVE  /\ \A a \in Addresses : \A i \in DOMAIN heap[a] :
                     (heap[a][i].hash # NoHash /\ heap[a][i].child # Null) =>
                         heap[a][i].hash = Serialise(heap[heap[a][i].child])
                 /\ rootHash = NoHash
        <3>1. pc[c] \in {"store", "adding", "pinning"} /\ Frames = stack
            BY <2>1, <2>5, Position
        <3>2. rootHash = NoHash /\ \A b, j : OnPath(stack, b, j) => heap[b][j].hash = NoHash
            BY <2>1, <3>1, StoreKnows
        <3> QED
            BY <2>1, <2>3, <3>1, <3>2 DEF HashTree, Fresh, HashOf, Addresses
    <2> QED
        BY <2>4, <2>5
<1> QED
    BY <1>1, InitHash, NextHash, PTL DEF Spec

\* A hash is forgotten before storage is asked to unpin it, by whichever of split,
\* insert and flush, and no other entry leads to it: what the tree would still hand
\* out is pinned.
THEOREM HashesArePinned == Spec => []HashesPinned
<1>1. InvH => HashesPinned
    BY HashesAre DEF HashesOK, InvH, HashInv, HashTree, HashesPinned, Backed, Absent
<1> QED
    BY <1>1, InitHash, NextHash, PTL DEF Spec

\* try_remove is asked for every hash that the tree forgets, on every way through
\* split, insert, store and a failure: new garbage is only what storage failed to
\* remove.
THEOREM NothingIsLeaked == Spec => NothingLeaks
<1>1. InvH /\ [Next]_vars => [\A h \in Garbage' \ Garbage :
                                  \E c \in Coroutines : RemoveFailed(c) /\ h = job.hash]_vars
    <2> SUFFICES ASSUME InvH, Next, NEW h, h \in Garbage', h \notin Garbage
                 PROVE  \E c \in Coroutines : RemoveFailed(c) /\ h = job.hash
        OBVIOUS
    <2>1. InvS /\ InvS' /\ HashInv /\ IInv
        BY NextHash DEF InvH, InvS
    <2>2. /\ h \in pinned' /\ h # NoHash /\ h \notin BeingRemoved' /\ Absent(h)'
        <3>1. InvS' => HashesOK'
            BY HashesAre, PTL
        <3> QED
            BY <2>1, <3>1 DEF Garbage, HashesOK
    <2>3. h \notin pinned \/ ~Absent(h) \/ h \in BeingRemoved
        BY <2>1, <2>2, HashesAre DEF Garbage, HashesOK
    <2>4. ASSUME NEW c \in Coroutines, NoneLost(c) PROVE Absent(h)
        <3>1. CASE pc'[c] = "removing" /\ job'.hash = h
            BY <2>2, <3>1 DEF BeingRemoved
        <3> QED
            BY <2>2, <2>4, <3>1 DEF NoneLost
    <2>5. ASSUME NEW c \in Coroutines, pc[c] # "ready", h \in BeingRemoved
          PROVE  pc[c] = "removing" /\ job.hash = h
        BY <2>1, <2>5 DEF BeingRemoved, IInv, SingleWriter
    <2>6. ASSUME NEW c \in Coroutines, Step(c) PROVE FALSE
        <3>1. /\ pc[c] \notin {"ready", "removing"} /\ pinned' = pinned
            BY <2>6 DEF Step, TakeBuffer, InsertDone, Pick, Flush, InsertAtLeaf, OverwriteValue, GoDown,
                        SplitStart, SplitRest, NoNeedToSplit, ReturnToParent, ReturnToRoot, Attach,
                        StoreChild, StoreNode
        <3>2. NoneLost(c)
            BY <2>1, <2>6, StepHash
        <3> QED
            BY <2>2, <2>3, <2>4, <2>5, <3>1, <3>2
    <2>7. ASSUME NEW c \in Coroutines, NEW k \in Keys, NEW v \in Values, Call(c, k, v) PROVE FALSE
        <3>1. pinned' = pinned /\ job' = job
            BY <2>7 DEF Call, BufferInsert, StartInsert
        <3>2. NoneLost(c)
            BY <2>1, <2>7, HashCall
        <3>3. h \notin BeingRemoved
            <4>1. CASE BufferInsert(c, k, v)
                BY <2>2, <3>1, <4>1 DEF BufferInsert, BeingRemoved
            <4>2. CASE StartInsert(c, k, v)
                BY <2>1, <4>2 DEF StartInsert, MayStart, BeingRemoved, IInv, SingleWriter
            <4> QED
                BY <2>7, <4>1, <4>2 DEF Call
        <3> QED
            BY <2>2, <2>3, <2>4, <3>1, <3>2, <3>3
    <2>8. ASSUME NEW c \in Coroutines, Answer(c) PROVE RemoveFailed(c) /\ h = job.hash
        <3>1. NoneLost(c) /\ pc[c] # "ready"
            BY <2>1, <2>8, AnswerHash DEF Answer, Added, Pinned, StoreFailed, Removed, RemoveFailed
        <3>2. CASE Added(c) \/ StoreFailed(c)
            <4>1. pinned' = pinned /\ pc[c] # "removing"
                BY <3>2 DEF Added, StoreFailed
            <4> QED
                BY <2>2, <2>3, <2>4, <2>5, <3>1, <4>1
        <3>3. CASE Pinned(c)
            <4>1. pinned' = pinned \cup {job.hash} /\ pc[c] # "removing"
                BY <3>3 DEF Pinned, Pin
            <4>2. h = job.hash
                BY <2>2, <2>3, <2>4, <2>5, <3>1, <4>1
            <4>3. ~Absent(h)'
                <5>1. CASE stack = <<>>
                    BY <3>3, <4>2, <5>1 DEF Pinned, Absent
                <5>2. CASE stack # <<>>
                    <6> DEFINE p == Top(stack).node
                               i == Top(stack).id
                    <6>1. /\ pc[c] = "pinning" /\ carry' = carry
                          /\ heap' = [heap EXCEPT ![p][i].hash = job.hash]
                        BY <3>3, <5>2 DEF Pinned, Stored
                    <6>2. /\ carry = NoSplit /\ p \in 1..Len(heap) /\ i \in DOMAIN heap[p]
                          /\ IInv' /\ Full' = heap'
                        BY <2>1, <5>2, <6>1, NotSplit, UpSlots DEF InvS, Full
                    <6> HIDE DEF p, i
                    <6>3. Len(heap') = Len(heap) /\ HashSet(heap, heap', Len(heap), p, i, job.hash)
                        BY <2>1, <6>1, <6>2, HashOnly
                    <6>4. i \in DOMAIN heap'[p] /\ heap'[p][i].hash = job.hash
                        BY <6>2, <6>3 DEF HashSet
                    <6> QED
                        BY <4>2, <6>2, <6>3, <6>4 DEF Absent, Addresses
                <5> QED
                    BY <5>1, <5>2
            <4> QED
                BY <2>2, <4>3
        <3>4. CASE Removed(c)
            <4>1. pinned' = pinned \ {job.hash}
                BY <3>4 DEF Removed, Unpin
            <4> QED
                BY <2>2, <2>3, <2>4, <2>5, <3>1, <4>1
        <3>5. CASE RemoveFailed(c)
            <4>1. pinned' = pinned
                BY <3>5 DEF RemoveFailed
            <4> QED
                BY <2>2, <2>3, <2>4, <2>5, <3>1, <3>5, <4>1
        <3> QED
            BY <2>8, <3>2, <3>3, <3>4, <3>5 DEF Answer
    <2> QED
        BY <2>6, <2>7, <2>8 DEF Next
<1> QED
    BY <1>1, InitHash, NextHash, PTL DEF Spec, NothingLeaks

--------------------------------------------------------------------------
\* A tree that was not loaded has no root hash before it has a root.
RootInMemory == LoadedRoot = NoHash => (rootHash # NoHash => rootNode # Null)

LEMMA NextRootInMemory ==
    ASSUME IInv, RootInMemory, [Next]_vars
    PROVE  RootInMemory'
<1> SUFFICES ASSUME rootHash' # NoHash, LoadedRoot = NoHash PROVE rootNode' # Null
    BY DEF RootInMemory
<1>1. ASSUME NEW c \in Coroutines, Pick(c) PROVE rootNode' # Null
    <2>1. CASE rootNode = Null
        <3>1. rootNode' = Len(heap) + 1 /\ Len(heap) \in Nat
            BY <1>1, <2>1 DEF Pick, NoRootNode, NewAddress, IInv, TypeOK, IsHeap
        <3> QED
            BY <3>1 DEF Null
    <2>2. CASE rootNode # Null
        BY <1>1, <2>2 DEF Pick, NoRootNode
    <2> QED
        BY <2>1, <2>2
<1>2. ASSUME NEW c \in Coroutines, Pinned(c) PROVE rootNode' # Null
    BY <1>2 DEF Pinned, IInv, WriterResumes
<1>3. ASSUME UNCHANGED <<rootNode, rootHash>> PROVE rootNode' # Null
    BY <1>3 DEF RootInMemory
<1>4. ASSUME NEW c \in Coroutines, Step(c) PROVE rootNode' # Null
    <2>1. CASE Pick(c)
        BY <1>1, <2>1
    <2>2. ~Flush(c)
        BY DEF Flush
    <2>3. CASE ~Pick(c)
        <3>1. UNCHANGED <<rootNode, rootHash>>
            BY <1>4, <2>2, <2>3
               DEF Step, TakeBuffer, InsertDone, InsertAtLeaf, OverwriteValue, GoDown, SplitStart,
                   SplitRest, NoNeedToSplit, ReturnToParent, ReturnToRoot, Attach, StoreChild,
                   StoreNode, tree
        <3> QED
            BY <1>3, <3>1
    <2> QED
        BY <2>1, <2>3
<1>5. ASSUME NEW c \in Coroutines, Answer(c) PROVE rootNode' # Null
    <2>1. CASE Pinned(c)
        BY <1>2, <2>1
    <2>2. CASE ~Pinned(c)
        <3>1. UNCHANGED <<rootNode, rootHash>>
            BY <1>5, <2>2 DEF Answer, Added, StoreFailed, Removed, RemoveFailed, tree
        <3> QED
            BY <1>3, <3>1
    <2> QED
        BY <2>1, <2>2
<1>6. ASSUME NEW c \in Coroutines, NEW k, NEW v, Call(c, k, v) PROVE rootNode' # Null
    BY <1>3, <1>6 DEF Call, BufferInsert, StartInsert, tree
<1>7. CASE UNCHANGED vars
    BY <1>3, <1>7 DEF vars
<1> QED
    BY <1>4, <1>5, <1>6, <1>7 DEF Next

LEMMA AllInMemory ==
    ASSUME InvH, RootInMemory
    PROVE  WholeInMemory
<1> SUFFICES ASSUME LoadedRoot = NoHash, NEW a \in Addresses, NEW i \in DOMAIN heap[a],
                    heap[a][i].hash # NoHash
             PROVE  heap[a][i].child # Null
    BY DEF WholeInMemory, RootInMemory
<1>1. IInv /\ Shape /\ OneChild(Full, Len(heap))
    BY DEF InvH, InvS, HashInv, HashTree
<1>2. Full[a] = heap[a]
    <2>1. CASE carry = NoSplit
        BY <1>1, <2>1, FullAt
    <2>2. CASE carry # NoSplit
        <3>1. PICK c \in Coroutines : pc[c] = "return" \/ Bound(c, "attach")
            BY <1>1, <2>2 DEF Shape, CarryOut
        <3>2. at \in Addresses
            BY <1>1, <3>1 DEF Bound, IInv, TypeOK
        <3>3. a # at
            BY <1>1, <2>2 DEF Shape, CarryOut, EmptyMap
        <3> QED
            BY <1>1, <2>2, <3>2, <3>3, FullAt
    <2> QED
        BY <2>1, <2>2
<1> QED
    BY <1>1, <1>2 DEF OneChild, Addresses

\* A tree that was not loaded is in memory as a whole: wherever insert, split and
\* store leave a hash there is also the node, so nobody fetches one while an
\* insert waits and no node is replaced under it.
THEOREM WholeTreeInMemory == Spec => []WholeInMemory
<1> DEFINE Inv == InvH /\ RootInMemory
<1>1. Init => Inv
    BY InitHash DEF Init, RootInMemory
<1>2. Inv /\ [Next]_vars => Inv'
    BY NextHash, NextRootInMemory DEF InvH, InvS
<1>3. Inv => WholeInMemory
    BY AllInMemory
<1> QED
    BY <1>1, <1>2, <1>3, PTL DEF Spec

--------------------------------------------------------------------------
\* Finding in a tree.  A split may be waiting in it: the node x still leads to its
\* left half under its smallest key m.

\* Where the way down goes on
LEMMA ChildIsLower ==
    ASSUME NEW F, NEW n, NEW root, NEW span, NEW lvl, NEW x, NEW m,
           Tree(F, n, root, span, lvl, x, m),
           NEW a \in 1..n, NEW i \in DOMAIN F[a], F[a][i].child # Null
    PROVE  LET c == F[a][i].child
           IN  /\ c \in 1..n
               /\ lvl[c] + 1 = lvl[a] \/ (a = x /\ c # x /\ lvl[c] = lvl[a])
<1>1. CASE a = x /\ i = m
    BY <1>1 DEF Tree, Halves, Null
<1>2. CASE ~(a = x /\ i = m)
    BY <1>2 DEF Tree, Levels
<1> QED
    BY <1>1, <1>2

\* A way down that ends at a leaf without the key has not missed it.
LEMMA NotMissed ==
    ASSUME NEW F, NEW n, NEW root, NEW span, NEW lvl, NEW x, NEW m,
           Tree(F, n, root, span, lvl, x, m),
           NEW a \in 1..n, IsFiniteSet(DOMAIN F[a]), NEW k \in span[a], k \notin DOMAIN F[a],
           AtOrAfter(F[a], k) # {} => F[a][LowerBound(F[a], k)].child = Null,
           NEW b \in 1..n
    PROVE  k \notin KeysOf(F[b])
<1> SUFFICES ASSUME k \in KeysOf(F[b]) PROVE FALSE
    OBVIOUS
<1> DEFINE i == LowerBound(F[a], k)
<1>1. /\ k \in Keys /\ k \in span[b] /\ lvl[a] \in Nat /\ lvl[b] \in Nat
      /\ DOMAIN F[a] \subseteq Ids /\ k \in Ids /\ k # Inf /\ a # b
    BY KeysAssumption DEF Tree, KeysInSpan, Ghosts, Ids, KeysOf
<1>2. AtOrAfter(F[a], k) # {} => i \in DOMAIN F[a] /\ Between(F[a], i, k)
    BY <1>1, LowerBoundFinds
<1> HIDE DEF i
<1>3. x # Null => /\ x \in 1..n /\ m \in DOMAIN F[x] /\ m \in Ids /\ F[x][m].child \in 1..n
                  /\ F[x][m].child # Null
                  /\ \A j \in DOMAIN F[x] : j # m => Before(m, j)
    BY DEF Tree, Halves, KeysOf, KeysInSpan, Null
<1>4. x # Null /\ k \in span[F[x][m].child] => Before(k, m)
    BY <1>1, <1>3 DEF Tree, SlotSpans, Between
<1>5. lvl[a] = 0
    <2>1. CASE AtOrAfter(F[a], k) = {}
        <3>1. Inf \notin DOMAIN F[a]
            BY <2>1 DEF AtOrAfter, Before
        <3> QED
            BY <3>1 DEF Tree, Levels
    <2>2. CASE AtOrAfter(F[a], k) # {}
        <3>1. i \in DOMAIN F[a] /\ F[a][i].child = Null
            BY <1>2, <2>2 DEF i
        <3>2. ~(a = x /\ i = m)
            <4>1. x = a => x # Null
                BY DEF Null
            <4> QED
                BY <1>3, <3>1, <4>1
        <3> QED
            BY <3>1, <3>2 DEF Tree, Levels
    <2> QED
        BY <2>1, <2>2
<1>6. lvl[b] = 0
    BY <1>1, <1>5 DEF Tree, KeysAbove
<1>7. x # Null /\ ((a = x /\ b = F[x][m].child) \/ (b = x /\ a = F[x][m].child))
    BY <1>1, <1>5, <1>6 DEF Tree, Apart
<1>8. Before(k, m)
    BY <1>1, <1>4, <1>7
<1>9. CASE b = x
    BY <1>1, <1>3, <1>7, <1>8, <1>9, BeforeIsOrder DEF KeysOf
<1>10. CASE a = x
    <2>1. m \in AtOrAfter(F[a], k)
        BY <1>1, <1>3, <1>7, <1>8, <1>10, BeforeIsOrder DEF AtOrAfter
    <2>2. i \in DOMAIN F[a] /\ Between(F[a], i, k) /\ F[a][i].child = Null
        BY <1>2, <2>1 DEF i
    <2>3. i # m
        BY <1>3, <1>7, <1>10, <2>2
    <2>4. Before(m, k)
        BY <1>3, <1>7, <1>10, <2>2, <2>3 DEF Between
    <2> QED
        BY <1>1, <1>3, <1>7, <1>8, <2>4, BeforeIsOrder
<1> QED
    BY <1>7, <1>9, <1>10

\* One step of Node::find in the node a for the key k, where f says what it answers
\* in the nodes below
FindStep(f, a, k) ==
    LET i == LowerBound(heap[a], k)
        e == heap[a][i]
    IN  IF AtOrAfter(heap[a], k) = {} THEN Ends(NotFound)
        ELSE IF i = k THEN Ends(e.value)
        ELSE IF e.child # Null THEN f[e.child][k]
        ELSE IF e.hash # NoHash THEN Fetches(e.hash)
        ELSE Ends(NotFound)

\* What the tree holds under k, for the nodes on its way
Held(span, a, k) ==
    Ends(IF k \in span[a] /\ k \in DOMAIN Contents THEN Contents[k] ELSE NotFound)

LEMMA FindsHeld ==
    ASSUME InvH, carry = NoSplit, NEW span, NEW lvl, NEW x, NEW m,
           Tree(heap, Len(heap), rootNode, span, lvl, x, m),
           NEW f, \A a \in Addresses : \A k \in Keys : f[a][k] = Held(span, a, k),
           NEW a \in Addresses, NEW k \in Keys
    PROVE  FindStep(f, a, k) = Held(span, a, k)
<1> DEFINE node == heap[a]
           i == LowerBound(node, k)
           e == node[i]
<1>1. /\ Full = heap /\ OneChild(heap, Len(heap))
      /\ DOMAIN node \subseteq Ids /\ IsFiniteSet(DOMAIN node)
      /\ k # Inf
    BY NodesFinite, KeysAssumption
       DEF InvH, InvS, HashInv, HashTree, Full, IsNode
<1>2. \A b \in Addresses : k \in DOMAIN heap[b] => k \in DOMAIN Contents /\ Contents[k] = heap[b][k].value
    BY <1>1, ContentsAre DEF InvH, ContentsOK
<1>3. k \in DOMAIN Contents => \E b \in Addresses : k \in DOMAIN heap[b]
    BY <1>1, ContentsAre DEF InvH, ContentsOK
<1>4. AtOrAfter(node, k) # {} =>
        /\ i \in DOMAIN node
        /\ k \in DOMAIN node => i = k
        /\ k \notin DOMAIN node => i # k /\ Between(node, i, k)
    BY <1>1, LowerBoundFinds
<1>5. k \in DOMAIN node => AtOrAfter(node, k) # {} /\ k \in span[a]
    <2>1. ~Before(k, k)
        BY BeforeIsOrder DEF Ids
    <2>2. KeysOf(node) \subseteq span[a]
        BY DEF Tree, KeysInSpan, Addresses
    <2> QED
        BY <1>1, <2>1, <2>2 DEF AtOrAfter, KeysOf
<1> HIDE DEF i
<1>6. CASE k \in DOMAIN node
    <2>1. FindStep(f, a, k) = Ends(node[k].value)
        BY <1>4, <1>5, <1>6 DEF FindStep, i
    <2> QED
        BY <1>2, <1>5, <1>6, <2>1 DEF Held
<1>7. CASE k \notin DOMAIN node /\ AtOrAfter(node, k) # {} /\ e.child # Null
    <2>1. i \in DOMAIN node /\ i # k /\ Between(node, i, k)
        BY <1>4, <1>7
    <2>2. FindStep(f, a, k) = f[e.child][k]
        BY <1>7, <2>1 DEF FindStep, i
    <2>3. e.child \in Addresses
        BY <1>7, <2>1, ChildIsLower DEF Addresses
    <2>4. k \in span[e.child] <=> k \in span[a]
        BY <1>7, <2>1 DEF Tree, SlotSpans, Addresses
    <2> QED
        BY <2>2, <2>3, <2>4 DEF Held
<1>8. CASE k \notin DOMAIN node /\ (AtOrAfter(node, k) # {} => e.child = Null)
    <2>1. FindStep(f, a, k) = Ends(NotFound)
        <3>1. CASE AtOrAfter(node, k) = {}
            BY <3>1 DEF FindStep
        <3>2. CASE AtOrAfter(node, k) # {}
            <4>1. i \in DOMAIN node /\ i # k /\ e.child = Null
                BY <1>4, <1>8, <3>2
            <4>2. e.hash = NoHash
                BY <1>1, <4>1 DEF OneChild, Addresses
            <4> QED
                BY <3>2, <4>1, <4>2 DEF FindStep, i
        <3> QED
            BY <3>1, <3>2
    <2>2. k \in span[a] => k \notin DOMAIN Contents
        <3> SUFFICES ASSUME k \in span[a], NEW b \in Addresses PROVE k \notin DOMAIN heap[b]
            BY <1>3
        <3>1. k \notin KeysOf(heap[b])
            BY <1>1, <1>8, NotMissed DEF Addresses, i
        <3> QED
            BY <1>1, <3>1 DEF KeysOf
    <2> QED
        BY <2>1, <2>2 DEF Held
<1> QED
    BY <1>6, <1>7, <1>8

LEMMA FindIs ==
    ASSUME InvH, carry = NoSplit, NEW span, NEW lvl, NEW x, NEW m,
           Tree(heap, Len(heap), rootNode, span, lvl, x, m)
    PROVE  \A a \in Addresses : \A k \in Keys : FindInNode[a][k] = Held(span, a, k)
<1> DEFINE D(f) == [a \in Addresses |-> [k \in Keys |-> FindStep(f, a, k)]]
           g == [a \in Addresses |-> [k \in Keys |-> Held(span, a, k)]]
<1>1. \A a \in Addresses : \A k \in Keys : g[a][k] = Held(span, a, k)
    OBVIOUS
<1>2. g = D(g)
    <2> HIDE DEF g
    <2>1. \A a \in Addresses : \A k \in Keys : FindStep(g, a, k) = Held(span, a, k)
        BY <1>1, FindsHeld
    <2> QED
        BY <2>1 DEF g
<1>3. FindInNode = CHOOSE f : f = D(f)
    BY DEF FindInNode, FindStep
<1> HIDE DEF g
<1>4. FindInNode = D(FindInNode)
    <2> HIDE DEF D
    <2> QED
        BY <1>2, <1>3
<1>5. \A a \in Addresses : \A k \in Keys : FindInNode[a][k] = FindStep(FindInNode, a, k)
    BY <1>4
<1>6. \A a \in Addresses : \A k \in Keys : Held(span, a, k) = FindStep(g, a, k)
    BY <1>1, FindsHeld
<1> HIDE DEF D
<1> DEFINE W == {a \in Addresses : \E k \in Keys : FindInNode[a][k] # Held(span, a, k)}
           height == [a \in Addresses |-> 2 * lvl[a] + (IF a = x THEN 1 ELSE 0)]
<1>7. \A a \in Addresses : lvl[a] \in Nat /\ height[a] = 2 * lvl[a] + (IF a = x THEN 1 ELSE 0)
    BY DEF Tree, Ghosts, Addresses
<1>8. \A a \in Addresses : height[a] \in Nat
    BY <1>7
<1> HIDE DEF height
<1>9. ASSUME W # {} PROVE FALSE
    <2>1. PICK a \in W : \A b \in W : ~(height[b] < height[a])
        <3>1. \A b \in W : height[b] \in Nat
            BY <1>8
        <3> HIDE DEF W
        <3> QED
            BY <1>9, <3>1, LowestNode
    <2>2. PICK k \in Keys : FindInNode[a][k] # Held(span, a, k)
        OBVIOUS
    <2> DEFINE i == LowerBound(heap[a], k)
               c == heap[a][i].child
    <2>3. FindStep(FindInNode, a, k) # FindStep(g, a, k)
        BY <1>5, <1>6, <2>2
    <2>4. AtOrAfter(heap[a], k) # {} /\ c # Null /\ FindInNode[c][k] # g[c][k]
        BY <2>3 DEF FindStep
    <2>5. i \in DOMAIN heap[a]
        BY <2>4, NodesFinite, LowerBoundFinds DEF InvH, InvS, IsNode
    <2> HIDE DEF i
    <2>6. /\ c \in Addresses
          /\ lvl[c] + 1 = lvl[a] \/ (a = x /\ c # x /\ lvl[c] = lvl[a])
        BY <2>4, <2>5, ChildIsLower DEF Addresses
    <2> HIDE DEF c
    <2>7. height[c] < height[a]
        BY <1>7, <2>6
    <2>8. FindInNode[c][k] # Held(span, c, k)
        BY <1>1, <2>4, <2>6
    <2> QED
        BY <2>1, <2>6, <2>7, <2>8
<1> QED
    BY <1>9

\* Whatever insert, split and store have done so far, and however many nodes were
\* stored, removed or failed to be: unless the parts of a split are on their way up,
\* a find of another coroutine answers for every key as the map would, and goes
\* through nodes in memory only.
THEOREM FindsEveryKey == Spec => []FoundUnlessSplit
<1>1. InvH => FoundUnlessSplit
    <2> SUFFICES ASSUME InvH, carry = NoSplit, rootNode # Null, NEW k \in Keys
                 PROVE  FindInMemory(k) = Ends(IF k \in DOMAIN buffer THEN buffer[k]
                                               ELSE IF k \in DOMAIN Contents THEN Contents[k]
                                               ELSE NotFound)
        BY DEF FoundUnlessSplit
    <2>1. PICK span, lvl : Shaped(span, lvl)
        BY DEF InvH, InvS, Shape
    <2>2. Tree(heap, Len(heap), rootNode, span, lvl, SplitNode, MidKey)
        BY <2>1 DEF Shaped, Full
    <2>3. rootNode \in Addresses /\ span[rootNode] = Keys
        BY <2>2 DEF Tree, Ghosts, Addresses
    <2>4. FindInNode[rootNode][k] = Held(span, rootNode, k)
        BY <2>2, <2>3, FindIs
    <2> QED
        BY <2>3, <2>4 DEF FindInMemory, Held
<1> QED
    BY <1>1, InitHash, NextHash, PTL DEF Spec

--------------------------------------------------------------------------
\* What storage holds of the tree

\* On every level above a node there is one whose keys it is among.
LEMMA SpanAbove ==
    ASSUME NEW F, NEW n, NEW root, NEW span, NEW lvl, NEW m,
           Tree(F, n, root, span, lvl, Null, m),
           \A a \in 1..n : IsFiniteSet(DOMAIN F[a]),
           NEW c \in 1..n, NEW k \in span[c], NEW l \in Nat, lvl[c] <= l, l <= lvl[root]
    PROVE  \E p \in 1..n : lvl[p] = l /\ k \in span[p]
<1> DEFINE On(j) == \E p \in 1..n : lvl[p] = j /\ k \in span[p]
           S == {j \in lvl[c]..lvl[root] : ~On(j)}
           height == [j \in S |-> lvl[root] - j]
<1>1. /\ n \in Nat /\ root \in 1..n /\ span[root] = Keys /\ k \in Keys
      /\ \A a \in 1..n : lvl[a] \in Nat /\ lvl[a] <= lvl[root]
    BY DEF Tree, Ghosts
<1>2. ASSUME S # {} PROVE FALSE
    <2>1. \A j \in S : height[j] \in Nat
        BY <1>1
    <2>2. PICK j \in S : \A i \in S : ~(height[i] < height[j])
        BY <1>2, <2>1, LowestNode
    <2>3. On(lvl[root])
        BY <1>1
    <2>4. j \in Nat /\ j + 1 \in Nat /\ lvl[c] <= j /\ j + 1 <= lvl[root]
        BY <1>1, <2>3
    <2>5. j + 1 \notin S
        <3> SUFFICES ASSUME j + 1 \in S PROVE FALSE
            OBVIOUS
        <3>1. height[j + 1] = lvl[root] - (j + 1) /\ height[j] = lvl[root] - j
            OBVIOUS
        <3>2. lvl[root] \in Nat
            BY <1>1
        <3> HIDE DEF S, height
        <3>3. height[j + 1] < height[j]
            BY <2>4, <3>1, <3>2
        <3> QED
            BY <2>2, <3>3
    <2>6. On(j + 1)
        BY <1>1, <2>4, <2>5
    <2>7. PICK p \in 1..n : lvl[p] = j + 1 /\ k \in span[p]
        BY <2>6
    <2>8. k \notin DOMAIN F[p]
        <3>1. k \notin KeysOf(F[p])
            BY <1>1, <2>4, <2>7 DEF Tree, KeysAbove
        <3> QED
            BY <1>1, <3>1, KeysAssumption DEF KeysOf
    <2> DEFINE q == F[p][LowerBound(F[p], k)].child
    <2>9. q \in 1..n /\ lvl[q] + 1 = lvl[p] /\ k \in span[q]
        <3>1. lvl[p] # 0
            BY <2>4, <2>7
        <3> QED
            BY <1>1, <2>7, <2>8, <3>1, GoesDown
    <2> HIDE DEF q
    <2>10. lvl[q] = j
        BY <1>1, <2>4, <2>7, <2>9
    <2>11. On(j)
        BY <2>9, <2>10
    <2> QED
        BY <2>11
<1>3. l \notin S
    BY <1>2
<1> QED
    BY <1>1, <1>3

\* Every node but the root hangs below an entry.
LEMMA HasParent ==
    ASSUME NEW F, NEW n, NEW root, NEW span, NEW lvl, NEW m,
           Tree(F, n, root, span, lvl, Null, m),
           \A a \in 1..n : IsFiniteSet(DOMAIN F[a]),
           NEW c \in 1..n, c # root
    PROVE  /\ lvl[c] < lvl[root]
           /\ \E a \in 1..n : \E i \in DOMAIN F[a] :
                F[a][i].child = c /\ lvl[a] = lvl[c] + 1
<1>1. /\ n \in Nat /\ root \in 1..n /\ span[root] = Keys
      /\ \A a \in 1..n : lvl[a] \in Nat /\ lvl[a] <= lvl[root] /\ span[a] \subseteq Keys
    BY DEF Tree, Ghosts
<1>2. PICK k \in KeysOf(F[c]) : TRUE
    BY DEF Tree, NonEmpty
<1>3. k \in span[c] /\ k \in Keys
    BY <1>1, <1>2 DEF Tree, KeysInSpan
<1>4. \A b \in 1..n : lvl[b] = lvl[c] /\ k \in span[b] => b = c
    BY <1>3 DEF Tree, Apart
<1>5. lvl[c] < lvl[root]
    BY <1>1, <1>3, <1>4
<1>6. PICK a \in 1..n : lvl[a] = lvl[c] + 1 /\ k \in span[a]
    <2>1. lvl[c] + 1 \in Nat /\ lvl[c] <= lvl[c] + 1 /\ lvl[c] + 1 <= lvl[root]
        BY <1>1, <1>5
    <2> QED
        BY <1>3, <2>1, SpanAbove
<1>7. k \notin DOMAIN F[a]
    <2>1. k \notin KeysOf(F[a])
        BY <1>1, <1>3, <1>6 DEF Tree, KeysAbove
    <2> QED
        BY <1>3, <2>1, KeysAssumption DEF KeysOf
<1> DEFINE i == LowerBound(F[a], k)
           q == F[a][i].child
<1>8. i \in DOMAIN F[a] /\ q \in 1..n /\ lvl[q] + 1 = lvl[a] /\ k \in span[q]
    <2>1. lvl[a] # 0
        BY <1>1, <1>6
    <2> QED
        BY <1>3, <1>6, <1>7, <2>1, GoesDown
<1> HIDE DEF i
<1>9. q = c
    BY <1>1, <1>4, <1>6, <1>8
<1> QED
    BY <1>5, <1>6, <1>8, <1>9

--------------------------------------------------------------------------
\* What is stored of a tree whose nodes all have been stored

LEMMA TextIs ==
    ASSUME NEW node
    PROVE  LET t == Serialise(node)
           IN  /\ \A i : i \in DOMAIN t <=> (i \in DOMAIN node /\ (i # Inf \/ node[i].hash # NoHash))
               /\ \A i \in DOMAIN t : t[i].value = node[i].value /\ t[i].child = node[i].hash
BY DEF Serialise

\* The hash h is that of the root, and every node below it has the hash it should.
Written(h, span, lvl) ==
    /\ Tree(heap, Len(heap), rootNode, span, lvl, Null, MidKey)
    /\ Fresh(heap, Len(heap), <<>>)
    /\ OneChild(heap, Len(heap))
    /\ h # NoHash /\ HashOf(h, heap[rootNode])

\* An entry has a hash if it has a child, and it is that of the child's text.
Linked(lvl, a) ==
    \A i \in DOMAIN heap[a] :
        LET e == heap[a][i]
        IN  /\ (e.child = Null) <=> (e.hash = NoHash)
            /\ e.child # Null => e.child \in Addresses /\ lvl[e.child] + 1 = lvl[a]
                                 /\ e.hash = Serialise(heap[e.child])

LEMMA AllLinked ==
    ASSUME IInv, NEW h, NEW span, NEW lvl, Written(h, span, lvl)
    PROVE  \A a \in Addresses : Linked(lvl, a)
<1> DEFINE n == Len(heap)
           S == {a \in Addresses : ToStore(heap[a]) # {}}
           height == [a \in S |-> lvl[rootNode] - lvl[a]]
<1>1. /\ Tree(heap, n, rootNode, span, lvl, Null, MidKey)
      /\ rootNode \in Addresses /\ Addresses = 1..n
      /\ \A a \in Addresses : lvl[a] \in Nat /\ lvl[a] <= lvl[rootNode]
      /\ \A a \in Addresses : IsFiniteSet(DOMAIN heap[a])
    BY NodesFinite DEF Written, Tree, Ghosts, Addresses, IsNode
<1>2. \A a \in Addresses : \A i \in DOMAIN heap[a] :
        /\ heap[a][i].child # Null =>
              heap[a][i].child \in Addresses /\ lvl[heap[a][i].child] + 1 = lvl[a]
        /\ heap[a][i].hash # NoHash =>
              heap[a][i].child # Null /\ HashOf(heap[a][i].hash, heap[heap[a][i].child])
    <2>1. \A a \in Addresses : a # Null
        BY DEF Addresses, Null
    <2> QED
        BY <1>1, <2>1, EmptyPath DEF Written, Tree, Levels, OneChild, Fresh
<1>3. ASSUME S # {} PROVE FALSE
    <2>1. \A a \in S : height[a] \in Nat
        BY <1>1
    <2>2. PICK a \in S : \A b \in S : ~(height[b] < height[a])
        BY <1>3, <2>1, LowestNode
    <2>3. a \in Addresses /\ ToStore(heap[a]) # {}
        OBVIOUS
    <2>4. a # rootNode
        BY <2>3 DEF Written, HashOf
    <2>5. PICK b \in Addresses : \E i \in DOMAIN heap[b] :
              heap[b][i].child = a /\ lvl[b] = lvl[a] + 1
        <3> HIDE DEF S, height
        <3> QED
            BY <1>1, <2>3, <2>4, HasParent
    <2>6. PICK i \in DOMAIN heap[b] : heap[b][i].child = a /\ lvl[b] = lvl[a] + 1
        BY <2>5
    <2>7. heap[b][i].hash = NoHash
        BY <1>2, <2>3, <2>6 DEF HashOf
    <2>8. b \in S
        <3>1. a # Null
            BY <2>3 DEF Addresses, Null
        <3> QED
            BY <2>6, <2>7, <3>1 DEF ToStore
    <2>9. height[b] < height[a]
        <3>1. height[b] = lvl[rootNode] - lvl[b] /\ height[a] = lvl[rootNode] - lvl[a]
            BY <2>8
        <3> QED
            BY <1>1, <2>3, <2>6, <3>1
    <2> QED
        BY <2>2, <2>8, <2>9
<1>4. \A a \in Addresses : ToStore(heap[a]) = {}
    BY <1>3
<1>5. \A a \in Addresses : \A i \in DOMAIN heap[a] :
        heap[a][i].child # Null => heap[a][i].hash # NoHash
    BY <1>4 DEF ToStore
<1> QED
    BY <1>2, <1>5 DEF Linked, HashOf

LEMMA LevelIs ==
    ASSUME IInv, NEW h, NEW span, NEW lvl, Written(h, span, lvl)
    PROVE  \A n \in Nat :
             Level(h)[n] = {Serialise(heap[a]) : a \in {b \in Addresses : lvl[b] + n = lvl[rootNode]}}
<1> DEFINE At(n) == {b \in Addresses : lvl[b] + n = lvl[rootNode]}
           Under(T) == (UNION {{t[i].child : i \in DOMAIN t} : t \in T}) \ {NoHash}
           g == [n \in Nat |-> {Serialise(heap[a]) : a \in At(n)}]
           D(f) == [n \in Nat |-> IF n = 0 THEN {h} ELSE Under(f[n - 1])]
<1>1. /\ Tree(heap, Len(heap), rootNode, span, lvl, Null, MidKey)
      /\ rootNode \in Addresses /\ Addresses = 1..Len(heap)
      /\ \A a \in Addresses : lvl[a] \in Nat /\ lvl[a] <= lvl[rootNode]
      /\ \A a \in Addresses : IsFiniteSet(DOMAIN heap[a])
      /\ h = Serialise(heap[rootNode])
    BY NodesFinite DEF Written, Tree, Ghosts, Addresses, IsNode, HashOf
<1>2. \A a \in Addresses : Linked(lvl, a)
    BY AllLinked
<1>3. At(0) = {rootNode}
    BY <1>1, HasParent
<1>4. \A T : \A x : x \in Under(T) <=> (x # NoHash /\ \E t \in T : \E i \in DOMAIN t : t[i].child = x)
    OBVIOUS
<1>5. ASSUME NEW n \in Nat, n # 0
      PROVE  \A x : x \in Under(g[n - 1]) <=> x \in g[n]
    <2> HIDE DEF Under, At
    <2>1. n - 1 \in Nat
        BY <1>5
    <2>2. /\ g[n] = {Serialise(heap[a]) : a \in At(n)}
          /\ g[n - 1] = {Serialise(heap[a]) : a \in At(n - 1)}
        BY <2>1
    <2> HIDE DEF g
    <2>3. ASSUME NEW x \in Under(g[n - 1]) PROVE x \in g[n]
        <3>1. x # NoHash /\ \E t \in g[n - 1] : \E i \in DOMAIN t : t[i].child = x
            BY <1>4
        <3>2. PICK a \in At(n - 1) : \E i \in DOMAIN Serialise(heap[a]) : Serialise(heap[a])[i].child = x
            BY <2>2, <3>1
        <3>3. PICK i \in DOMAIN Serialise(heap[a]) : Serialise(heap[a])[i].child = x
            BY <3>2
        <3>4. i \in DOMAIN heap[a] /\ heap[a][i].hash = x
            BY <3>3, TextIs
        <3>5. a \in Addresses /\ lvl[a] + (n - 1) = lvl[rootNode]
            BY DEF At
        <3> DEFINE c == heap[a][i].child
        <3>6. c \in Addresses /\ lvl[c] + 1 = lvl[a] /\ x = Serialise(heap[c])
            BY <1>2, <3>1, <3>4, <3>5 DEF Linked
        <3> HIDE DEF c
        <3>7. lvl[c] + n = lvl[rootNode]
            BY <1>1, <3>5, <3>6
        <3> QED
            BY <2>2, <3>6, <3>7 DEF At
    <2>4. ASSUME NEW x \in g[n] PROVE x \in Under(g[n - 1])
        <3>1. PICK c \in At(n) : x = Serialise(heap[c])
            BY <2>2
        <3>2. c \in Addresses /\ lvl[c] + n = lvl[rootNode]
            BY DEF At
        <3>3. c # rootNode
            BY <1>1, <1>5, <3>2
        <3>4. \E a \in Addresses : \E i \in DOMAIN heap[a] :
                  heap[a][i].child = c /\ lvl[a] = lvl[c] + 1
            <4>1. /\ Tree(heap, Len(heap), rootNode, span, lvl, Null, MidKey)
                  /\ \A b \in 1..Len(heap) : IsFiniteSet(DOMAIN heap[b])
                  /\ c \in 1..Len(heap) /\ c # rootNode
                BY <1>1, <3>2, <3>3
            <4>2. \E a \in 1..Len(heap) : \E i \in DOMAIN heap[a] :
                      heap[a][i].child = c /\ lvl[a] = lvl[c] + 1
                BY ONLY <4>1, HasParent
            <4> QED
                BY <1>1, <4>2
        <3>5. PICK a \in Addresses : \E i \in DOMAIN heap[a] :
                  heap[a][i].child = c /\ lvl[a] = lvl[c] + 1
            BY <3>4
        <3>6. PICK i \in DOMAIN heap[a] : heap[a][i].child = c /\ lvl[a] = lvl[c] + 1
            BY <3>5
        <3>7. c # Null
            BY <3>2 DEF Addresses, Null
        <3>8. heap[a][i].hash = x /\ x # NoHash
            BY <1>2, <3>1, <3>6, <3>7 DEF Linked
        <3>9. i \in DOMAIN Serialise(heap[a]) /\ Serialise(heap[a])[i].child = x
            BY <3>6, <3>8, TextIs
        <3>10. lvl[a] + (n - 1) = lvl[rootNode]
            BY <1>1, <3>2, <3>6
        <3>11. Serialise(heap[a]) \in g[n - 1]
            BY <2>2, <3>10 DEF At
        <3> QED
            BY <1>4, <3>8, <3>9, <3>11
    <2> QED
        BY <2>3, <2>4
<1>6. \A n \in Nat : g[n] = IF n = 0 THEN {h} ELSE Under(g[n - 1])
    <2> HIDE DEF Under
    <2>1. g[0] = {h}
        <3> HIDE DEF At
        <3> QED
            BY <1>1, <1>3
    <2> HIDE DEF g
    <2> QED
        BY <1>5, <2>1
<1>7. g = D(g)
    <2>1. \A n \in Nat : g[n] = D(g)[n]
        <3> HIDE DEF Under, g
        <3> QED
            BY <1>6
    <2>2. g = [n \in Nat |-> g[n]] /\ D(g) = [n \in Nat |-> D(g)[n]]
        OBVIOUS
    <2> HIDE DEF D, g
    <2> QED
        BY <2>1, <2>2
<1>8. Level(h) = CHOOSE f : f = D(f)
    BY DEF Level
<1> HIDE DEF g
<1>9. Level(h) = D(Level(h))
    <2> HIDE DEF D
    <2> QED
        BY <1>7, <1>8
<1>10. \A n \in Nat : Level(h)[n] = IF n = 0 THEN {h} ELSE Under(Level(h)[n - 1])
    <2> HIDE DEF Under
    <2> QED
        BY <1>9
<1> HIDE DEF D, Under
<1> DEFINE W == {n \in Nat : Level(h)[n] # g[n]}
           id == [n \in W |-> n]
<1>11. ASSUME W # {} PROVE FALSE
    <2>1. \A n \in W : id[n] \in Nat
        OBVIOUS
    <2>2. PICK n \in W : \A j \in W : ~(id[j] < id[n])
        BY <1>11, <2>1, LowestNode
    <2>3. \A j \in W : ~(j < n)
        BY <2>2
    <2>4. n # 0
        BY <1>6, <1>10
    <2>5. n - 1 \in Nat /\ n - 1 < n
        BY <2>4
    <2>6. Level(h)[n - 1] = g[n - 1]
        BY <2>3, <2>5
    <2>7. Level(h)[n] = g[n]
        BY <1>6, <1>10, <2>4, <2>6
    <2> QED
        BY <2>7
<1> QED
    BY <1>11 DEF g

\* There are no more levels than nodes.
LEMMA FewLevels ==
    ASSUME NEW F, NEW n, NEW root, NEW span, NEW lvl, NEW m,
           Tree(F, n, root, span, lvl, Null, m)
    PROVE  lvl[root] < n
<1> DEFINE L == lvl[root]
           S == {j \in 0..L : \A a \in 1..n : lvl[a] # j}
           height == [j \in S |-> L - j]
<1>1. n \in Nat /\ root \in 1..n /\ L \in Nat /\ \A a \in 1..n : lvl[a] \in Nat /\ a # Null
    BY DEF Tree, Ghosts, Null
<1>2. ASSUME S # {} PROVE FALSE
    <2>1. \A j \in S : height[j] \in Nat
        BY <1>1
    <2>2. PICK j \in S : \A i \in S : ~(height[i] < height[j])
        BY <1>2, <2>1, LowestNode
    <2>3. j \in Nat /\ j + 1 \in Nat /\ j + 1 <= L
        BY <1>1
    <2>4. j + 1 \notin S
        <3> SUFFICES ASSUME j + 1 \in S PROVE FALSE
            OBVIOUS
        <3>1. height[j + 1] = L - (j + 1) /\ height[j] = L - j
            OBVIOUS
        <3> HIDE DEF S, height
        <3>2. height[j + 1] < height[j]
            BY <1>1, <2>3, <3>1
        <3> QED
            BY <2>2, <3>2
    <2>5. PICK p \in 1..n : lvl[p] = j + 1
        BY <1>1, <2>3, <2>4
    <2> DEFINE q == F[p][Inf].child
    <2>6. q \in 1..n /\ lvl[q] + 1 = lvl[p]
        <3>1. lvl[p] # 0
            BY <2>3, <2>5
        <3> QED
            BY <1>1, <3>1 DEF Tree, Levels
    <2> HIDE DEF q
    <2>7. lvl[q] = j
        BY <1>1, <2>3, <2>5, <2>6
    <2> QED
        BY <2>6, <2>7
<1>3. \A j \in 0..L : \E a \in 1..n : lvl[a] = j
    BY <1>2
<1> DEFINE f == [j \in 0..L |-> CHOOSE a \in 1..n : lvl[a] = j]
<1>4. \A j \in 0..L : f[j] \in 1..n /\ lvl[f[j]] = j
    BY <1>3
<1>5. f \in Injection(0..L, 1..n)
    <2>1. f \in [0..L -> 1..n]
        BY <1>4
    <2> HIDE DEF f
    <2>2. \A i, j \in 0..L : f[i] = f[j] => i = j
        BY <1>4
    <2> QED
        BY <2>1, <2>2 DEF Injection, IsInjective
<1> HIDE DEF f
<1>6. Cardinality(0..L) = L + 1 /\ Cardinality(1..n) = n /\ IsFiniteSet(1..n)
    <2> HIDE DEF L
    <2>1. Cardinality(0..L) = L + 1
        BY <1>1, FS_Interval
    <2>2. Cardinality(1..n) = n
        BY <1>1, FS_Interval
    <2>3. IsFiniteSet(1..n)
        BY <1>1, FS_Interval
    <2> QED
        BY <2>1, <2>2, <2>3
<1>7. Cardinality(0..L) <= Cardinality(1..n)
    BY <1>5, <1>6, FS_Injection
<1> QED
    BY <1>1, <1>6, <1>7

\* The root hash leads to the text of every node, and to nothing below the levels
\* there are now.
LEMMA StoredIs ==
    ASSUME IInv, NEW h, NEW span, NEW lvl, Written(h, span, lvl)
    PROVE  /\ StoredNodes(h) = {Serialise(heap[a]) : a \in Addresses}
           /\ \A n \in Nat : n >= Len(heap) => Level(h)[n] = {}
<1> DEFINE At(n) == {b \in Addresses : lvl[b] + n = lvl[rootNode]}
           T(n) == {Serialise(heap[a]) : a \in At(n)}
           L == lvl[rootNode]
<1>1. /\ Len(heap) \in Nat /\ L \in Nat /\ L < Len(heap)
      /\ \A a \in Addresses : lvl[a] \in Nat /\ lvl[a] <= L
    BY FewLevels DEF Written, Tree, Ghosts, Addresses
<1>2. \A n \in Nat : Level(h)[n] = T(n)
    BY LevelIs
<1>3. ASSUME NEW n \in Nat, n >= Len(heap) PROVE Level(h)[n] = {}
    <2>1. At(n) = {}
        BY <1>1, <1>3
    <2> HIDE DEF At
    <2> QED
        BY <1>2, <2>1
<1>4. ASSUME NEW t PROVE t \in StoredNodes(h) <=> \E a \in Addresses : t = Serialise(heap[a])
    <2>1. t \in StoredNodes(h) <=> \E n \in 0..Len(heap) : t \in Level(h)[n]
        BY DEF StoredNodes
    <2>2. \A n \in 0..Len(heap) : t \in Level(h)[n] <=> \E a \in At(n) : t = Serialise(heap[a])
        BY <1>1, <1>2
    <2>3. \A a \in Addresses : L - lvl[a] \in 0..Len(heap) /\ a \in At(L - lvl[a])
        BY <1>1
    <2>4. \A n : At(n) \subseteq Addresses
        OBVIOUS
    <2> HIDE DEF At, T, L
    <2> QED
        BY <2>1, <2>2, <2>3, <2>4
<1> HIDE DEF At, T, L
<1> QED
    BY <1>3, <1>4

LEMMA StoredKeysAre ==
    ASSUME InvS, carry = NoSplit, NEW h, NEW span, NEW lvl, Written(h, span, lvl)
    PROVE  StoredKeys(h) = DOMAIN Contents
<1>1. IInv /\ Full = heap /\ \A a \in Addresses : DOMAIN heap[a] \subseteq Ids
    BY NodesFinite DEF InvS, Full, IsNode
<1>2. \A k : k \in DOMAIN Contents <=> (k \in Keys /\ \E a \in Addresses : k \in DOMAIN heap[a])
    BY <1>1, ContentsAre DEF ContentsOK
<1>3. StoredNodes(h) = {Serialise(heap[a]) : a \in Addresses}
    BY <1>1, StoredIs
<1>4. \A k : k \in StoredKeys(h) <=> (k # Inf /\ \E t \in StoredNodes(h) : k \in DOMAIN t)
    BY DEF StoredKeys
<1>5. \A k : k \in StoredKeys(h) <=> (k # Inf /\ \E a \in Addresses : k \in DOMAIN Serialise(heap[a]))
    BY <1>3, <1>4
<1>6. \A k, a : k # Inf => (k \in DOMAIN Serialise(heap[a]) <=> k \in DOMAIN heap[a])
    BY TextIs
<1>7. \A k \in StoredKeys(h) : k \in DOMAIN Contents
    BY <1>1, <1>2, <1>5, <1>6 DEF Ids
<1>8. \A k \in DOMAIN Contents : k \in StoredKeys(h)
    BY <1>2, <1>5, <1>6, KeysAssumption
<1> QED
    BY <1>7, <1>8

\* One step of Node::find in the text t, where f says what it finds below
TextStep(f, t, k) ==
    LET i == LowerBound(t, k)
    IN  IF AtOrAfter(t, k) = {} THEN NotFound
        ELSE IF i = k THEN t[i].value
        ELSE IF t[i].child = NoHash THEN NotFound
        ELSE f[t[i].child]

ValueBelow(span, a, k) ==
    IF k \in span[a] /\ k \in DOMAIN Contents THEN Contents[k] ELSE NotFound

LEMMA TextFinds ==
    ASSUME InvS, carry = NoSplit, NEW h, NEW span, NEW lvl, Written(h, span, lvl),
           NEW k \in Keys, NEW f,
           \A b \in Addresses : f[Serialise(heap[b])] = ValueBelow(span, b, k),
           NEW a \in Addresses
    PROVE  TextStep(f, Serialise(heap[a]), k) = ValueBelow(span, a, k)
<1> DEFINE node == heap[a]
           t == Serialise(node)
           i == LowerBound(t, k)
<1>1. /\ IInv /\ Full = heap /\ Tree(heap, Len(heap), rootNode, span, lvl, Null, MidKey)
      /\ DOMAIN node \subseteq Ids /\ IsFiniteSet(DOMAIN node)
      /\ k # Inf /\ a # Null /\ lvl[a] \in Nat
    BY NodesFinite, KeysAssumption
       DEF InvS, Full, IsNode, Written, Addresses, Null, Tree, Ghosts
<1>2. \A b \in Addresses : k \in DOMAIN heap[b] => k \in DOMAIN Contents /\ Contents[k] = heap[b][k].value
    BY <1>1, ContentsAre DEF ContentsOK
<1>3. k \in DOMAIN Contents => \E b \in Addresses : k \in DOMAIN heap[b]
    BY <1>1, ContentsAre DEF ContentsOK
<1>4. /\ \A j : j \in DOMAIN t <=> (j \in DOMAIN node /\ (j # Inf \/ node[j].hash # NoHash))
      /\ \A j \in DOMAIN t : t[j].value = node[j].value /\ t[j].child = node[j].hash
    BY TextIs
<1>5. Linked(lvl, a)
    BY <1>1, AllLinked
<1>6. AtOrAfter(t, k) # {} =>
        /\ i \in DOMAIN t
        /\ k \in DOMAIN t => i = k
        /\ k \notin DOMAIN t => i # k /\ Between(t, i, k)
    <2>1. DOMAIN t \subseteq DOMAIN node
        BY <1>4
    <2>2. DOMAIN t \subseteq Ids /\ IsFiniteSet(DOMAIN t)
        BY <1>1, <2>1, FS_Subset
    <2> HIDE DEF t
    <2> QED
        BY <2>2, LowerBoundFinds
<1>7. TextStep(f, t, k) = IF AtOrAfter(t, k) = {} THEN NotFound
                          ELSE IF i = k THEN t[i].value
                          ELSE IF t[i].child = NoHash THEN NotFound
                          ELSE f[t[i].child]
    BY DEF TextStep
<1> HIDE DEF i, t
<1>8. CASE k \in DOMAIN node
    <2>1. k \in DOMAIN t /\ k \in span[a]
        BY <1>1, <1>4, <1>8 DEF Tree, KeysInSpan, KeysOf, Addresses
    <2>2. ~Before(k, k)
        BY <1>1, BeforeIsOrder DEF Ids
    <2>3. AtOrAfter(t, k) # {} /\ i = k
        BY <1>6, <2>1, <2>2 DEF AtOrAfter
    <2>4. TextStep(f, t, k) = node[k].value
        BY <1>4, <1>7, <2>1, <2>3
    <2> QED
        BY <1>2, <1>8, <2>1, <2>4 DEF ValueBelow, t
<1>9. CASE k \notin DOMAIN node /\ lvl[a] = 0
    <2>1. \A j \in DOMAIN node : node[j].hash = NoHash
        BY <1>1, <1>5, <1>9 DEF Tree, Levels, Linked, Addresses
    <2>2. TextStep(f, t, k) = NotFound
        <3>1. CASE AtOrAfter(t, k) = {}
            BY <1>7, <3>1
        <3>2. CASE AtOrAfter(t, k) # {}
            <4>1. k \notin DOMAIN t /\ i \in DOMAIN t /\ i # k
                BY <1>4, <1>6, <1>9, <3>2
            <4>2. t[i].child = NoHash
                BY <1>4, <2>1, <4>1
            <4> QED
                BY <1>7, <3>2, <4>1, <4>2
        <3> QED
            BY <3>1, <3>2
    <2>3. k \in span[a] => k \notin DOMAIN Contents
        <3> SUFFICES ASSUME k \in span[a], NEW b \in Addresses, k \in DOMAIN heap[b] PROVE FALSE
            BY <1>3
        <3>1. k \in KeysOf(heap[b])
            BY <1>1 DEF KeysOf
        <3>2. b = a
            BY <1>1, <1>9, <3>1, NowhereElse DEF Addresses
        <3> QED
            BY <1>9, <3>2
    <2> QED
        BY <2>2, <2>3 DEF ValueBelow, t
<1>10. CASE k \notin DOMAIN node /\ lvl[a] # 0
    <2>1. \A j \in DOMAIN node : node[j].child # Null /\ node[j].hash # NoHash
        BY <1>1, <1>5, <1>10 DEF Tree, Levels, Linked, Addresses
    <2>2. Inf \in DOMAIN node
        BY <1>1, <1>10 DEF Tree, Levels, Addresses
    <2>3. \A j : j \in DOMAIN t <=> j \in DOMAIN node
        BY <1>4, <2>1
    <2>4. AtOrAfter(t, k) # {}
        BY <2>2, <2>3 DEF AtOrAfter, Before
    <2>5. i \in DOMAIN node /\ i # k /\ Between(node, i, k)
        BY <1>6, <1>10, <2>3, <2>4 DEF Between
    <2> DEFINE c == node[i].child
    <2>6. c \in Addresses /\ node[i].hash = Serialise(heap[c]) /\ c # Null
        BY <1>5, <2>1, <2>5 DEF Linked
    <2>7. k \in span[c] <=> k \in span[a]
        BY <1>1, <2>5, <2>6 DEF Tree, SlotSpans, Addresses
    <2> HIDE DEF c
    <2>8. t[i].child = Serialise(heap[c]) /\ t[i].child # NoHash
        BY <1>4, <2>1, <2>3, <2>5, <2>6
    <2>9. TextStep(f, t, k) = f[Serialise(heap[c])]
        BY <1>7, <2>4, <2>5, <2>8
    <2> QED
        BY <2>6, <2>7, <2>9 DEF ValueBelow, t
<1> QED
    BY <1>8, <1>9, <1>10

LEMMA FindStoredIs ==
    ASSUME InvS, carry = NoSplit, NEW h, NEW span, NEW lvl, Written(h, span, lvl),
           NEW k \in Keys
    PROVE  FindStored(h, k) = IF k \in DOMAIN Contents THEN Contents[k] ELSE NotFound
<1> DEFINE Texts == StoredNodes(h)
           D(f) == [t \in Texts |-> TextStep(f, t, k)]
           NodeOf(t) == CHOOSE a \in Addresses : t = Serialise(heap[a])
           g == [t \in Texts |-> ValueBelow(span, NodeOf(t), k)]
<1>1. /\ IInv /\ Tree(heap, Len(heap), rootNode, span, lvl, Null, MidKey)
      /\ rootNode \in Addresses /\ span[rootNode] = Keys /\ h = Serialise(heap[rootNode])
    BY DEF InvS, Written, HashOf, Tree, Ghosts, Addresses
<1>2. Texts = {Serialise(heap[a]) : a \in Addresses}
    BY <1>1, StoredIs
<1>3. \A a \in Addresses : NodeOf(Serialise(heap[a])) = a
    <2> SUFFICES ASSUME NEW a \in Addresses, NEW b \in Addresses,
                        Serialise(heap[a]) = Serialise(heap[b])
                 PROVE  a = b
        OBVIOUS
    <2>1. a \in 1..Len(heap) /\ b \in 1..Len(heap)
        BY DEF Addresses
    <2>2. CASE a # rootNode
        BY <1>1, <2>1, <2>2, OneText
    <2>3. CASE b # rootNode
        BY <1>1, <2>1, <2>3, OneText
    <2> QED
        BY <2>2, <2>3
<1> HIDE DEF Texts, NodeOf
<1>4. \A a \in Addresses : g[Serialise(heap[a])] = ValueBelow(span, a, k)
    BY <1>2, <1>3
<1> HIDE DEF g
<1>5. \A a \in Addresses : TextStep(g, Serialise(heap[a]), k) = ValueBelow(span, a, k)
    BY <1>4, TextFinds
<1>6. g = D(g)
    <2>1. \A t \in Texts : g[t] = TextStep(g, t, k)
        BY <1>2, <1>4, <1>5
    <2>2. g = [t \in Texts |-> g[t]]
        BY DEF g
    <2> QED
        BY <2>1, <2>2
<1> DEFINE find == CHOOSE f : f = D(f)
<1>7. FindStored(h, k) = find[h]
    BY DEF FindStored, TextStep, Texts
<1>8. find = D(find)
    <2> HIDE DEF D
    <2> QED
        BY <1>6
<1> HIDE DEF find
<1>9. \A a \in Addresses : find[Serialise(heap[a])] = TextStep(find, Serialise(heap[a]), k)
    BY <1>2, <1>8
<1> HIDE DEF D
<1> DEFINE W == {a \in Addresses : find[Serialise(heap[a])] # g[Serialise(heap[a])]}
<1>10. \A a \in Addresses : lvl[a] \in Nat
    BY <1>1 DEF Tree, Ghosts, Addresses
<1>11. ASSUME W # {} PROVE FALSE
    <2>1. PICK a \in W : \A b \in W : ~(lvl[b] < lvl[a])
        BY <1>10, <1>11, LowestNode
    <2> DEFINE t == Serialise(heap[a])
               i == LowerBound(t, k)
    <2>2. TextStep(find, t, k) # TextStep(g, t, k)
        BY <1>4, <1>5, <1>9
    <2>3. AtOrAfter(t, k) # {} /\ t[i].child # NoHash /\ find[t[i].child] # g[t[i].child]
        BY <2>2 DEF TextStep
    <2>4. i \in DOMAIN t
        <3>1. DOMAIN t \subseteq DOMAIN heap[a] /\ DOMAIN heap[a] \subseteq Ids /\ IsFiniteSet(DOMAIN heap[a])
            BY <1>1, TextIs, NodesFinite DEF IsNode
        <3>2. DOMAIN t \subseteq Ids /\ IsFiniteSet(DOMAIN t)
            BY <3>1, FS_Subset
        <3> HIDE DEF t
        <3> QED
            BY <2>3, <3>2, LowerBoundFinds
    <2> HIDE DEF i
    <2> DEFINE c == heap[a][i].child
    <2>5. i \in DOMAIN heap[a] /\ t[i].child = heap[a][i].hash
        BY <2>4, TextIs
    <2>6. Linked(lvl, a)
        BY <1>1, AllLinked
    <2>7. c \in Addresses /\ lvl[c] + 1 = lvl[a] /\ t[i].child = Serialise(heap[c])
        BY <2>3, <2>5, <2>6 DEF Linked
    <2> HIDE DEF c, t
    <2>8. c \in W
        BY <2>3, <2>7
    <2>9. lvl[c] < lvl[a]
        BY <1>10, <2>7
    <2> QED
        BY <2>1, <2>8, <2>9
<1>12. find[h] = ValueBelow(span, rootNode, k)
    BY <1>1, <1>4, <1>11
<1> QED
    BY <1>1, <1>7, <1>12 DEF ValueBelow

--------------------------------------------------------------------------
\* At rest

\* An insert that ends with a root hash has emptied the buffer.
RestEmpty == (~isInserting /\ rootHash # NoHash) => DOMAIN buffer = {}

\* The pair in hand is out of the batch.
ItemApart == \A c \in Coroutines : pc[c] = "descend" => item.key \notin DOMAIN batch

InvR == InvH /\ RestEmpty /\ ItemApart

LEMMA RestStep ==
    ASSUME InvH, RestEmpty, ItemApart, NEW c \in Coroutines, Step(c) \/ Answer(c)
    PROVE  RestEmpty' /\ ItemApart'
<1>1. IInv /\ HashControl /\ isInserting /\ pc[c] # "ready"
    BY DEF InvH, InvS, HashInv, IInv, SingleWriter, Step, Answer, TakeBuffer, InsertDone, Pick,
           Flush, InsertAtLeaf, OverwriteValue, GoDown, SplitStart, SplitRest, NoNeedToSplit,
           ReturnToParent, ReturnToRoot, Attach, StoreChild, StoreNode, Added, Pinned,
           StoreFailed, Removed, RemoveFailed
<1>2. RestEmpty'
    <2>1. CASE InsertDone(c)
        BY <2>1 DEF InsertDone, MoreBuffered, RestEmpty
    <2>2. CASE StoreFailed(c)
        <3>1. rootHash = NoHash
            BY <1>1, <2>2, StoreKnows DEF StoreFailed
        <3> QED
            BY <2>2, <3>1 DEF StoreFailed, RestEmpty
    <2>3. CASE ~InsertDone(c) /\ ~StoreFailed(c)
        <3>1. isInserting' = isInserting
            BY <2>3 DEF Step, Answer, TakeBuffer, Pick, Flush, InsertAtLeaf, OverwriteValue,
                        GoDown, SplitStart, SplitRest, NoNeedToSplit, ReturnToParent,
                        ReturnToRoot, Attach, StoreChild, StoreNode, Added, Pinned, Removed,
                        RemoveFailed, queue
        <3> QED
            BY <1>1, <3>1 DEF RestEmpty
    <2> QED
        BY <2>1, <2>2, <2>3
<1>3. ItemApart'
    <2>1. CASE Pick(c)
        <3>1. /\ item'.key = First(DOMAIN batch)
              /\ batch' = Only(batch, DOMAIN batch \ {First(DOMAIN batch)})
            BY <2>1 DEF Pick
        <3> QED
            BY <3>1 DEF ItemApart, Only
    <2>2. CASE GoDown(c)
        BY <2>2 DEF GoDown, queue, ItemApart
    <2>3. CASE ~Pick(c) /\ ~GoDown(c)
        <3>1. \E l : Goto(c, l) /\ l # "descend"
            <4>1. CASE Flush(c) \/ SplitStart(c) \/ ReturnToParent(c)
                <5>1. \E l \in {"removing", "store", "splitRest", "attach"} : Goto(c, l)
                    BY <4>1, TryRemoveGoes DEF Flush, SplitStart, ReturnToParent
                <5> QED
                    BY <5>1
            <4>2. CASE StoreChild(c)
                BY <1>1, <4>2 DEF StoreChild, Goto, IInv, TypeOK
            <4>3. CASE Removed(c) \/ RemoveFailed(c)
                BY <1>1, <4>3 DEF Removed, RemoveFailed, IInv, WriterResumes
            <4>4. CASE ~(Flush(c) \/ SplitStart(c) \/ ReturnToParent(c) \/ StoreChild(c)
                         \/ Removed(c) \/ RemoveFailed(c))
                <5>1. \E l \in {"pick", "ready", "split", "return", "adding", "pinning", "loop", "store"} :
                          Goto(c, l)
                    BY <2>3, <4>4 DEF Step, Answer, TakeBuffer, InsertDone, InsertAtLeaf,
                        OverwriteValue, SplitRest, NoNeedToSplit, ReturnToRoot, Attach, StoreNode,
                        Added, Pinned, StoreFailed
                <5> QED
                    BY <5>1
            <4> QED
                BY <4>1, <4>2, <4>3, <4>4
        <3>2. PICK l : Goto(c, l) /\ l # "descend"
            BY <3>1
        <3>3. \A d \in Coroutines : pc'[d] # "descend"
            BY <1>1, <3>2, WriterGoes
        <3> QED
            BY <3>3 DEF ItemApart
    <2> QED
        BY <2>1, <2>2, <2>3
<1> QED
    BY <1>2, <1>3

LEMMA InitRest == Init => InvR
<1> SUFFICES ASSUME Init PROVE InvR
    OBVIOUS
<1>1. DOMAIN buffer = {} /\ \A c \in Coroutines : pc[c] # "descend"
    BY DEF Init, EmptyMap
<1> QED
    BY <1>1, InitHash DEF InvR, RestEmpty, ItemApart

LEMMA NextRest == InvR /\ [Next]_vars => InvR'
<1> SUFFICES ASSUME InvR, [Next]_vars PROVE InvR'
    OBVIOUS
<1>1. InvH /\ RestEmpty /\ ItemApart /\ InvH'
    BY NextHash DEF InvR
<1>2. CASE UNCHANGED vars
    BY <1>1, <1>2 DEF vars, InvR, RestEmpty, ItemApart
<1>3. ASSUME NEW c \in Coroutines, Step(c) \/ Answer(c) PROVE InvR'
    BY <1>1, <1>3, RestStep DEF InvR
<1>4. ASSUME NEW c \in Coroutines, NEW k \in Keys, NEW v \in Values, Call(c, k, v)
      PROVE  InvR'
    <2>1. isInserting'
        BY <1>1, <1>4 DEF Call, BufferInsert, StartInsert
    <2>2. UNCHANGED <<batch, item>> /\ \A d \in Coroutines : pc'[d] = "descend" => pc[d] = "descend"
        BY <1>1, <1>4 DEF Call, BufferInsert, StartInsert, Goto, InvH, InvS, IInv, TypeOK
    <2> QED
        BY <1>1, <2>1, <2>2 DEF InvR, RestEmpty, ItemApart
<1> QED
    BY <1>2, <1>3, <1>4 DEF Next

LEMMA WrittenAtRest ==
    ASSUME InvH, ~isInserting, rootHash # NoHash, rootNode # Null
    PROVE  carry = NoSplit /\ \E span, lvl : Written(rootHash, span, lvl)
<1>1. IInv /\ Shape /\ HashTree /\ HashControl /\ \A c \in Coroutines : pc[c] = "ready"
    BY DEF InvH, InvS, HashInv, IInv, SingleWriter
<1>2. carry = NoSplit /\ SplitNode = Null /\ Frames = <<>> /\ Full = heap
    BY <1>1 DEF Shape, CarryOut, Bound, SplitNode, Frames, Walking, Full
<1>3. PICK span, lvl : Shaped(span, lvl)
    BY <1>1 DEF Shape
<1>4. RootIsFresh
    BY <1>1 DEF HashControl, RestFresh
<1>5. Written(rootHash, span, lvl)
    BY <1>1, <1>2, <1>3, <1>4 DEF Written, Shaped, HashTree, RootIsFresh
<1> QED
    BY <1>2, <1>5

\* What InjectorDb::upload_database saves and publishes, the root hash (db.cpp 166):
\* when nobody is inserting it leads, through pinned nodes only, to each pair of the
\* map and to no other, and nothing has been left behind in the buffer.
THEOREM RestIsStored == Spec => []IdleMeansStored
<1>1. InvR => IdleMeansStored
    <2> SUFFICES ASSUME InvR, ~isInserting, rootHash # NoHash, rootNode # Null
                 PROVE  /\ DOMAIN buffer = {}
                        /\ StoredNodes(rootHash) \subseteq pinned
                        /\ \A k \in Keys : FindStored(rootHash, k) =
                                IF k \in DOMAIN Contents THEN Contents[k] ELSE NotFound
        BY DEF IdleMeansStored
    <2>1. InvH /\ InvS /\ IInv /\ HashTree /\ RestEmpty
        BY DEF InvR, InvH, InvS, HashInv
    <2>2. carry = NoSplit /\ \E span, lvl : Written(rootHash, span, lvl)
        BY <2>1, WrittenAtRest
    <2>3. PICK span, lvl : Written(rootHash, span, lvl)
        BY <2>2
    <2>4. StoredNodes(rootHash) = {Serialise(heap[a]) : a \in Addresses}
        BY <2>1, <2>3, StoredIs
    <2>5. ASSUME NEW a \in Addresses PROVE Serialise(heap[a]) \in pinned
        <3>1. CASE a = rootNode
            BY <2>1, <2>3, <3>1 DEF HashTree, Backed, Written, HashOf
        <3>2. CASE a # rootNode
            <4>1. /\ Tree(heap, Len(heap), rootNode, span, lvl, Null, MidKey)
                  /\ \A b \in 1..Len(heap) : IsFiniteSet(DOMAIN heap[b])
                  /\ a \in 1..Len(heap)
                BY <2>1, <2>3, NodesFinite DEF Written, IsNode, Addresses
            <4>2. PICK b \in 1..Len(heap) : \E i \in DOMAIN heap[b] :
                      heap[b][i].child = a /\ lvl[b] = lvl[a] + 1
                BY <3>2, <4>1, HasParent
            <4>3. PICK i \in DOMAIN heap[b] : heap[b][i].child = a /\ lvl[b] = lvl[a] + 1
                BY <4>2
            <4>4. Linked(lvl, b) /\ a # Null /\ b \in Addresses
                BY <2>1, <2>3, AllLinked DEF Addresses, Null
            <4>5. heap[b][i].hash = Serialise(heap[a]) /\ heap[b][i].hash # NoHash
                BY <4>3, <4>4 DEF Linked
            <4>6. Full = heap
                BY <2>2 DEF Full
            <4> QED
                BY <2>1, <4>4, <4>5, <4>6 DEF HashTree, Backed
        <3> QED
            BY <3>1, <3>2
    <2>6. ASSUME NEW k \in Keys
          PROVE  FindStored(rootHash, k) = IF k \in DOMAIN Contents THEN Contents[k] ELSE NotFound
        BY <2>1, <2>2, <2>3, FindStoredIs
    <2> QED
        BY <2>1, <2>4, <2>5, <2>6 DEF RestEmpty
<1> QED
    BY <1>1, InitRest, NextRest, PTL DEF Spec

--------------------------------------------------------------------------
\* The protocol of insert

\* What the tree shows of itself to the protocol
Inserts == isInserting /\ (Looping => DOMAIN buffer # {})
Stores  == \E c \in Coroutines : Bound(c, "store") \/ pc[c] \in {"adding", "pinning"}
Waiting == IF Looping THEN {} ELSE DOMAIN buffer
InHand  == IF Looping THEN DOMAIN buffer
           ELSE DOMAIN batch \cup {item.key : c \in {d \in Coroutines : pc[d] = "descend"}}
InTree  == {k \in Keys : Holders(k) # {}}
Shown   == IF rootHash = NoHash THEN {} ELSE StoredKeys(rootHash)

Same == UNCHANGED <<Inserts, Stores, Waiting, InHand, InTree, Shown>>

\* The same, by where the writer is
ViewOK ==
    /\ \A c \in Coroutines : pc[c] # "ready" =>
        /\ Inserts <=> (pc[c] = "loop" => DOMAIN buffer # {})
        /\ Stores <=> Storing(c)
        /\ Waiting = IF pc[c] = "loop" THEN {} ELSE DOMAIN buffer
        /\ InHand = IF pc[c] = "loop" THEN DOMAIN buffer
                    ELSE DOMAIN batch \cup (IF pc[c] = "descend" THEN {item.key} ELSE {})
    /\ (\A c \in Coroutines : pc[c] = "ready") =>
        ~Inserts /\ ~Stores /\ Waiting = DOMAIN buffer /\ InHand = DOMAIN batch

LEMMA ViewIs == IInv => ViewOK
<1> SUFFICES ASSUME IInv PROVE ViewOK
    OBVIOUS
<1>1. ASSUME NEW c \in Coroutines, pc[c] # "ready"
      PROVE  /\ Inserts <=> (pc[c] = "loop" => DOMAIN buffer # {})
             /\ Stores <=> Storing(c)
             /\ Waiting = IF pc[c] = "loop" THEN {} ELSE DOMAIN buffer
             /\ InHand = IF pc[c] = "loop" THEN DOMAIN buffer
                         ELSE DOMAIN batch \cup (IF pc[c] = "descend" THEN {item.key} ELSE {})
    <2>1. isInserting /\ \A d \in Coroutines : d # c => pc[d] = "ready"
        BY <1>1 DEF IInv, SingleWriter
    <2>2. Looping <=> pc[c] = "loop"
        BY <2>1 DEF Looping
    <2>3. Stores <=> Storing(c)
        BY <2>1 DEF Stores, Storing, Bound
    <2>4. {item.key : d \in {e \in Coroutines : pc[e] = "descend"}} =
              IF pc[c] = "descend" THEN {item.key} ELSE {}
        BY <2>1
    <2> QED
        BY <2>1, <2>2, <2>3, <2>4 DEF Inserts, Waiting, InHand
<1>2. ASSUME \A c \in Coroutines : pc[c] = "ready"
      PROVE  ~Inserts /\ ~Stores /\ Waiting = DOMAIN buffer /\ InHand = DOMAIN batch
    BY <1>2 DEF Inserts, Stores, Waiting, InHand, Looping, Bound, IInv, SingleWriter
<1> QED
    BY <1>1, <1>2 DEF ViewOK

\* Below the levels of the stored tree there is nothing.
Shallow == rootHash # NoHash => \A n \in Nat : n >= Len(heap) => Level(rootHash)[n] = {}

LEMMA ShownStays ==
    ASSUME Shallow, rootHash' = rootHash,
           Len(heap) \in Nat, Len(heap') \in Nat, Len(heap) <= Len(heap')
    PROVE  Shown' = Shown /\ Shallow'
<1>1. ASSUME rootHash # NoHash PROVE StoredNodes(rootHash)' = StoredNodes(rootHash)
    <2>1. \A n \in 0..Len(heap') : n \notin 0..Len(heap) => Level(rootHash)[n] = {}
        BY <1>1 DEF Shallow
    <2>2. 0..Len(heap) \subseteq 0..Len(heap')
        OBVIOUS
    <2>3. ASSUME NEW t
          PROVE  (\E n \in 0..Len(heap') : t \in Level(rootHash)[n])
                 <=> (\E n \in 0..Len(heap) : t \in Level(rootHash)[n])
        BY <2>1, <2>2
    <2>4. /\ \A t : t \in StoredNodes(rootHash) <=> \E n \in 0..Len(heap) : t \in Level(rootHash)[n]
          /\ \A t : t \in StoredNodes(rootHash)' <=> \E n \in 0..Len(heap') : t \in Level(rootHash)[n]
        BY DEF StoredNodes
    <2> QED
        BY <2>3, <2>4
<1>2. rootHash # NoHash => StoredKeys(rootHash)' = StoredKeys(rootHash)
    BY <1>1 DEF StoredKeys
<1>3. Shallow'
    BY DEF Shallow
<1> QED
    BY <1>2, <1>3 DEF Shown

\* The steps of the protocol in terms of what the tree shows

LEMMA ShowsSame ==
    ASSUME Same
    PROVE  UNCHANGED Writer!vars
BY DEF Same, Writer!vars, Inserts, Stores, Waiting, InHand, InTree, Shown

LEMMA ShowsBuffered ==
    ASSUME NEW k \in Keys, Inserts, Waiting' = Waiting \cup {k},
           UNCHANGED <<Inserts, Stores, InHand, InTree, Shown>>
    PROVE  Writer!Buffered(k)
BY DEF Writer!Buffered, Inserts, Stores, Waiting, InHand, InTree, Shown

LEMMA ShowsStart ==
    ASSUME NEW k \in Keys, ~Inserts, Inserts', InHand' = Waiting \cup {k}, Waiting' = {},
           UNCHANGED <<Stores, InTree, Shown>>
    PROVE  Writer!Starts(k)
BY DEF Writer!Starts, Inserts, Stores, Waiting, InHand, InTree, Shown

LEMMA ShowsAbsorbed ==
    ASSUME NEW k, Inserts, ~Stores, InHand' = InHand \ {k}, InTree' = InTree \cup {k},
           UNCHANGED <<Inserts, Stores, Waiting, Shown>>
    PROVE  Writer!Absorbs({k})
BY DEF Writer!Absorbs, Writer!Joined, Inserts, Stores, Waiting, InHand, InTree, Shown

LEMMA ShowsFlush ==
    ASSUME Inserts, ~Stores, Stores', InHand = {}, InHand' = {}, Shown' = {},
           UNCHANGED <<Inserts, Waiting, InTree>>
    PROVE  Writer!Flushes
<1>1. Writer!Flushes <=>
          /\ Inserts /\ ~Stores /\ InTree' = InTree \cup InHand /\ InHand' = {} /\ Shown' = {}
          /\ Stores' /\ UNCHANGED <<Inserts, Waiting>>
    BY DEF Writer!Flushes, Writer!Joined, Inserts, Stores, Waiting, InHand, InTree, Shown
<1> QED
    BY <1>1

LEMMA ShowsStored ==
    ASSUME Stores, ~Stores', Shown' = InTree, Inserts' <=> Waiting # {},
           Waiting # {} => InHand' = Waiting /\ Waiting' = {},
           Waiting = {} => UNCHANGED <<InHand, Waiting>>,
           UNCHANGED InTree
    PROVE  Writer!Stores
<1>1. Writer!Stores <=>
          /\ Stores /\ ~Stores' /\ Shown' = InTree /\ (Inserts' <=> Waiting # {})
          /\ IF Waiting # {} THEN InHand' = Waiting /\ Waiting' = {}
             ELSE UNCHANGED <<InHand, Waiting>>
          /\ UNCHANGED InTree
    BY DEF Writer!Stores, Writer!AnotherBatch, Inserts, Stores, Waiting, InHand, InTree, Shown
<1> QED
    BY <1>1

LEMMA ShowsFailure ==
    ASSUME Stores, ~Stores', ~Inserts', UNCHANGED <<Waiting, InHand, InTree, Shown>>
    PROVE  Writer!Fails
BY DEF Writer!Fails, Inserts, Stores, Waiting, InHand, InTree, Shown

\* The steps of the tree and what they are to the protocol

\* An add that succeeds answers with the id of what it added, never with the empty
\* string, which stands for no hash.
HashGiven == \A node : Serialise(node) # NoHash

\* The invariant under which every step of the tree is one of the protocol, and what
\* is then shown of a step
InvW == LoadedRoot = NoHash /\ HashGiven /\ InvR /\ Taken /\ Shallow

Follows == [Writer!Next(Keys)]_(Writer!vars) /\ Shallow'

LEMMA InTreeIs == InTree = DOMAIN Contents /\ InTree' = DOMAIN Contents'
BY DEF InTree, Contents

\* A call of another insert leaves its pair in the buffer, the first one takes all.
LEMMA CallFollows ==
    ASSUME InvW, IInv', NEW c \in Coroutines, NEW k \in Keys, NEW v \in Values,
           Call(c, k, v)
    PROVE  Follows
<1>1. /\ IInv /\ IInv' /\ Taken /\ Shallow
      /\ buffer' = WithNew(buffer, k, v) /\ UNCHANGED <<heap, rootHash, carry, batch, item>>
    BY DEF InvW, InvR, InvH, InvS, Call, BufferInsert, StartInsert, tree, frame
<1>2. Shown' = Shown /\ Shallow'
    BY <1>1, ShownStays DEF IInv, TypeOK, IsHeap
<1>3. InTree' = InTree
    BY <1>1, InTreeIs, ContentsStay
<1>4. DOMAIN buffer' = DOMAIN buffer \cup {k}
    BY <1>1 DEF WithNew
<1>5. CASE BufferInsert(c, k, v)
    <2>1. isInserting /\ isInserting' = isInserting /\ pc' = pc /\ ~Looping
        BY <1>5 DEF BufferInsert, Quiet, Suspended, Looping
    <2>2. Looping' = Looping /\ Stores' = Stores /\ Inserts /\ Inserts' = Inserts
        BY <1>5, <2>1 DEF Looping, Stores, Bound, Inserts, BufferInsert
    <2>3. Waiting' = Waiting \cup {k} /\ InHand' = InHand
        BY <1>1, <1>4, <2>1, <2>2 DEF Waiting, InHand
    <2> QED
        BY <1>2, <1>3, <2>2, <2>3, ShowsBuffered DEF Follows, Writer!Next
<1>6. CASE StartInsert(c, k, v)
    <2>1. /\ \A d \in Coroutines : pc[d] = "ready"
          /\ pc'[c] = "loop"
        BY <1>1, <1>6 DEF StartInsert, MayStart, Goto, IInv, TypeOK, SingleWriter
    <2>2. ViewOK /\ ViewOK'
        BY <1>1, ViewIs, PTL
    <2>3. ~Inserts /\ ~Stores /\ Waiting = DOMAIN buffer
        BY <2>1, <2>2 DEF ViewOK
    <2>4. Inserts' /\ ~Stores' /\ Waiting' = {} /\ InHand' = DOMAIN buffer'
        BY <1>4, <2>1, <2>2 DEF ViewOK, Storing, Bound
    <2>5. Stores' = Stores
        BY <2>3, <2>4 DEF Stores
    <2>6. Writer!Starts(k)
        BY <1>2, <1>3, <1>4, <2>3, <2>4, <2>5, ShowsStart
    <2> QED
        BY <1>2, <2>6 DEF Follows, Writer!Next
<1> QED
    BY <1>5, <1>6 DEF Call

\* A step of the writer that changes none of what it shows
LEMMA StepSame ==
    ASSUME InvW, IInv', NEW c \in Coroutines, Step(c) \/ Answer(c),
           NEW l, l \notin {"ready", "loop"}, Goto(c, l), pc[c] # "loop",
           UNCHANGED <<buffer, rootHash>>, InTree' = InTree,
           Storing(c)' <=> Storing(c),
           DOMAIN batch' \cup (IF l = "descend" THEN {item'.key} ELSE {}) =
               DOMAIN batch \cup (IF pc[c] = "descend" THEN {item.key} ELSE {})
    PROVE  Follows
<1>1. IInv /\ Shallow /\ pc[c] # "ready"
    BY DEF InvW, InvR, InvH, InvS, Step, Answer, TakeBuffer, InsertDone, Pick,
           Flush, InsertAtLeaf, OverwriteValue, GoDown, SplitStart, SplitRest, NoNeedToSplit,
           ReturnToParent, ReturnToRoot, Attach, StoreChild, StoreNode, Added, Pinned,
           StoreFailed, Removed, RemoveFailed
<1>2. pc'[c] = l
    BY <1>1, WriterGoes
<1>3. ViewOK /\ ViewOK'
    BY <1>1, ViewIs, PTL
<1>4. Shown' = Shown /\ Shallow'
    BY <1>1, HeapGrows, ShownStays
<1>5. /\ Inserts /\ (Stores <=> Storing(c)) /\ Waiting = DOMAIN buffer
      /\ InHand = DOMAIN batch \cup (IF pc[c] = "descend" THEN {item.key} ELSE {})
    BY <1>1, <1>3 DEF ViewOK
<1>6. /\ Inserts' /\ (Stores' <=> Storing(c)') /\ Waiting' = DOMAIN buffer'
      /\ InHand' = DOMAIN batch' \cup (IF l = "descend" THEN {item'.key} ELSE {})
    BY <1>2, <1>3 DEF ViewOK
<1>7. (Inserts' <=> Inserts) /\ (Stores' <=> Stores) /\ Waiting' = Waiting /\ InHand' = InHand
    BY <1>5, <1>6
<1>8. Inserts' = Inserts /\ Stores' = Stores
    BY <1>7 DEF Inserts, Stores
<1>9. Same
    BY <1>4, <1>7, <1>8 DEF Same
<1> QED
    BY <1>4, <1>9, ShowsSame DEF Follows

\* What goes on between two nodes of a walk, or while storage is waited for, is
\* nothing to the protocol.
LEMMA WalkFollows ==
    ASSUME InvW, InvD', NEW c \in Coroutines,
           \/ Pick(c) \/ GoDown(c) \/ SplitStart(c) \/ SplitRest(c) \/ NoNeedToSplit(c)
           \/ ReturnToParent(c) \/ ReturnToRoot(c) \/ Attach(c)
    PROVE  Follows
<1>1. /\ InvD /\ InvD' /\ IInv /\ IInv' /\ Step(c)
    BY DEF InvW, InvR, InvH, InvS, InvD, Step
<1>2. Contents' = Contents
    BY <1>1, DictLoop, DictDescend, DictSplit, DictReturn
<1>3. InTree' = InTree
    BY <1>2, InTreeIs
<1>4. ASSUME pc[c] # "loop", UNCHANGED <<buffer, rootHash, batch, item>>,
             NEW l \in {"split", "splitRest", "return", "attach", "pick", "removing"}, Goto(c, l),
             l = "removing" => job'.next \in {"splitRest", "attach"},
             pc[c] \in {"split", "splitRest", "return", "attach"}
      PROVE  Follows
    <2>1. pc'[c] = l
        BY <1>1, <1>4, WriterGoes
    <2>2. Storing(c)' <=> Storing(c)
        BY <1>4, <2>1 DEF Storing, Bound
    <2>3. DOMAIN batch' \cup (IF l = "descend" THEN {item'.key} ELSE {}) =
              DOMAIN batch \cup (IF pc[c] = "descend" THEN {item.key} ELSE {})
        BY <1>4
    <2>4. l \notin {"ready", "loop"}
        BY <1>4
    <2> QED
        BY <1>1, <1>3, <1>4, <2>2, <2>3, <2>4, StepSame
<1>5. CASE Pick(c)
    <2>1. /\ pc[c] = "pick" /\ DOMAIN batch # {} /\ Goto(c, "descend")
          /\ item'.key = First(DOMAIN batch)
          /\ batch' = Only(batch, DOMAIN batch \ {First(DOMAIN batch)})
          /\ UNCHANGED <<buffer, rootHash>>
        BY <1>5 DEF Pick
    <2>2. First(DOMAIN batch) \in DOMAIN batch
        BY <1>1, <2>1, FirstIsFirst DEF IInv, TypeOK, IsMap, Ids
    <2>3. DOMAIN batch' \cup {item'.key} = DOMAIN batch
        BY <2>1, <2>2 DEF Only
    <2>4. Storing(c)' <=> Storing(c)
        BY <1>1, <2>1, WriterGoes DEF Storing, Bound
    <2>5. \E l : l \notin {"ready", "loop"} /\ l = "descend"
        OBVIOUS
    <2> QED
        BY <1>1, <1>3, <2>1, <2>3, <2>4, <2>5, StepSame
<1>6. CASE GoDown(c)
    <2>1. pc[c] = "descend" /\ Goto(c, "descend")
          /\ UNCHANGED <<buffer, rootHash, batch, item>>
        BY <1>1, <1>6 DEF GoDown, Goto, queue, IInv, TypeOK
    <2>2. Storing(c)' <=> Storing(c)
        BY <1>1, <2>1, WriterGoes DEF Storing, Bound
    <2>3. \E l : l \notin {"ready", "loop"} /\ l = "descend"
        OBVIOUS
    <2> QED
        BY <1>1, <1>3, <2>1, <2>2, <2>3, StepSame
<1>7. CASE SplitStart(c)
    BY <1>4, <1>7, TryRemoveGoes DEF SplitStart, queue
<1>8. CASE SplitRest(c)
    BY <1>4, <1>8 DEF SplitRest, queue
<1>9. CASE NoNeedToSplit(c)
    BY <1>4, <1>9 DEF NoNeedToSplit, queue
<1>10. CASE ReturnToParent(c)
    BY <1>4, <1>10, TryRemoveGoes DEF ReturnToParent, queue
<1>11. CASE ReturnToRoot(c)
    BY <1>4, <1>11 DEF ReturnToRoot, queue
<1>12. CASE Attach(c)
    BY <1>4, <1>12 DEF Attach, queue
<1> QED
    BY <1>5, <1>6, <1>7, <1>8, <1>9, <1>10, <1>11, <1>12

LEMMA WaitFollows ==
    ASSUME InvW, InvD', NEW c \in Coroutines,
           \/ StoreChild(c) \/ StoreNode(c) \/ Added(c) \/ Removed(c) \/ RemoveFailed(c)
           \/ Pinned(c) /\ stack # <<>>
    PROVE  Follows
<1>1. /\ InvD /\ InvD' /\ IInv /\ IInv' /\ (Step(c) \/ Answer(c))
    BY DEF InvW, InvR, InvH, InvS, InvD, Step, Answer
<1>2. Contents' = Contents
    BY <1>1, DictStore DEF Answer
<1>3. InTree' = InTree
    BY <1>2, InTreeIs
<1>4. ASSUME NEW l \in {"store", "adding", "pinning", "splitRest", "attach"}, Goto(c, l),
             pc[c] \in {"store", "adding", "pinning", "removing"},
             Storing(c) <=> l \in {"store", "adding", "pinning"},
             UNCHANGED <<buffer, rootHash, batch, item>>
      PROVE  Follows
    <2>1. pc'[c] = l
        BY <1>1, <1>4, WriterGoes
    <2>2. Storing(c)' <=> Storing(c)
        BY <1>4, <2>1 DEF Storing, Bound
    <2>3. DOMAIN batch' \cup (IF l = "descend" THEN {item'.key} ELSE {}) =
              DOMAIN batch \cup (IF pc[c] = "descend" THEN {item.key} ELSE {})
        BY <1>4
    <2>4. l \notin {"ready", "loop"} /\ pc[c] # "loop"
        BY <1>4
    <2> QED
        BY <1>1, <1>3, <1>4, <2>2, <2>3, <2>4, StepSame
<1>5. CASE StoreChild(c)
    BY <1>1, <1>4, <1>5 DEF StoreChild, Goto, queue, IInv, TypeOK, Storing, Bound
<1>6. CASE StoreNode(c)
    BY <1>4, <1>6 DEF StoreNode, queue, Storing, Bound
<1>7. CASE Added(c)
    BY <1>4, <1>7 DEF Added, queue, Storing, Bound
<1>8. CASE Pinned(c) /\ stack # <<>>
    BY <1>4, <1>8 DEF Pinned, queue, Storing, Bound
<1>9. CASE Removed(c) \/ RemoveFailed(c)
    <2>1. /\ pc[c] = "removing" /\ Goto(c, job.next) /\ UNCHANGED <<buffer, rootHash, batch, item>>
        BY <1>9 DEF Removed, RemoveFailed, queue
    <2>2. job.next \in {"store", "splitRest", "attach"}
        BY <1>1, <2>1 DEF IInv, WriterResumes
    <2>3. Storing(c) <=> job.next \in {"store", "adding", "pinning"}
        BY <2>1, <2>2 DEF Storing, Bound
    <2> QED
        BY <1>4, <2>1, <2>2, <2>3
<1> QED
    BY <1>5, <1>6, <1>7, <1>8, <1>9

\* The loop of insert shows itself as the batch that is taken, or as over.
LEMMA LoopFollows ==
    ASSUME InvW, InvD', NEW c \in Coroutines, TakeBuffer(c) \/ InsertDone(c)
    PROVE  Follows
<1>1. /\ IInv /\ IInv' /\ Taken /\ Shallow /\ pc[c] = "loop"
      /\ UNCHANGED <<heap, rootHash, carry>>
    BY DEF InvW, InvR, InvH, InvS, InvD, TakeBuffer, InsertDone, tree, frame
<1>2. Shown' = Shown /\ Shallow'
    BY <1>1, ShownStays DEF IInv, TypeOK, IsHeap
<1>3. InTree' = InTree
    BY <1>1, InTreeIs, ContentsStay
<1>4. ViewOK /\ ViewOK'
    BY <1>1, ViewIs, PTL
<1>5. /\ Inserts <=> DOMAIN buffer # {}
      /\ ~Stores /\ Waiting = {} /\ InHand = DOMAIN buffer
    BY <1>1, <1>4 DEF ViewOK, Storing, Bound
<1>6. DOMAIN batch = {}
    BY <1>1, WriterIs DEF Taken, Picking, Bound
<1>7. CASE TakeBuffer(c)
    <2>1. /\ DOMAIN buffer # {} /\ batch' = buffer /\ DOMAIN buffer' = {} /\ Goto(c, "pick")
        BY <1>7 DEF TakeBuffer, MoreBuffered, Emptied, EmptyMap
    <2>2. pc'[c] = "pick"
        BY <1>1, <2>1, WriterGoes
    <2>3. Inserts' /\ ~Stores' /\ Waiting' = {} /\ InHand' = DOMAIN buffer
        BY <1>4, <2>1, <2>2 DEF ViewOK, Storing, Bound
    <2>4. Inserts' = Inserts /\ Stores' = Stores
        BY <1>5, <2>1, <2>3 DEF Inserts, Stores
    <2>5. Same
        BY <1>2, <1>3, <1>5, <2>3, <2>4 DEF Same
    <2> QED
        BY <1>2, <2>5, ShowsSame DEF Follows
<1>8. CASE InsertDone(c)
    <2>1. DOMAIN buffer = {} /\ UNCHANGED <<buffer, batch>> /\ Goto(c, "ready")
        BY <1>8 DEF InsertDone, MoreBuffered
    <2>2. \A d \in Coroutines : pc'[d] = "ready"
        BY <1>1, <2>1, WriterGoes
    <2>3. ~Inserts' /\ ~Stores' /\ Waiting' = DOMAIN buffer' /\ InHand' = DOMAIN batch'
        BY <1>4, <2>2 DEF ViewOK
    <2>4. Inserts' = Inserts /\ Stores' = Stores
        BY <1>5, <2>1, <2>3 DEF Inserts, Stores
    <2>5. Same
        BY <1>2, <1>3, <1>5, <1>6, <2>1, <2>3, <2>4 DEF Same
    <2> QED
        BY <1>2, <2>5, ShowsSame DEF Follows
<1> QED
    BY <1>7, <1>8

LEMMA PutFollows ==
    ASSUME InvW, InvD', NEW c \in Coroutines, InsertAtLeaf(c) \/ OverwriteValue(c)
    PROVE  Follows
<1>1. /\ InvD /\ InvD' /\ IInv /\ IInv' /\ Shallow /\ pc[c] = "descend"
      /\ Step(c) /\ item.key \notin DOMAIN batch
    BY DEF InvW, InvR, InvH, InvS, InvD, ItemApart, Step, InsertAtLeaf, OverwriteValue
<1>2. PICK l \in {"split", "return"} : Goto(c, l)
    BY DEF InsertAtLeaf, OverwriteValue
<1>3. UNCHANGED <<buffer, batch, item, rootHash>>
    BY DEF InsertAtLeaf, OverwriteValue, queue
<1>4. pc'[c] = l
    BY <1>1, <1>2, WriterGoes
<1>5. ViewOK /\ ViewOK'
    BY <1>1, ViewIs, PTL
<1>6. Shown' = Shown /\ Shallow'
    BY <1>1, <1>3, HeapGrows, ShownStays
<1>7. InTree' = InTree \cup {item.key}
    <2>1. Contents' = With(Contents, item.key, item.value)
              \/ Contents' = WithNew(Contents, item.key, item.value)
        BY <1>1, DictOverwrite, DictInsertAtLeaf
    <2>2. DOMAIN Contents' = DOMAIN Contents \cup {item.key}
        BY <2>1 DEF With, WithNew
    <2> QED
        BY <2>2, InTreeIs
<1>8. /\ Inserts /\ ~Stores /\ Waiting = DOMAIN buffer /\ InHand = DOMAIN batch \cup {item.key}
    BY <1>1, <1>5 DEF ViewOK, Storing, Bound
<1>9. /\ Inserts' /\ ~Stores' /\ Waiting' = DOMAIN buffer' /\ InHand' = DOMAIN batch'
    BY <1>2, <1>4, <1>5 DEF ViewOK, Storing, Bound
<1>10. Inserts' = Inserts /\ Stores' = Stores
    BY <1>8, <1>9 DEF Inserts, Stores
<1>11. InHand' = InHand \ {item.key} /\ Waiting' = Waiting
    BY <1>1, <1>3, <1>8, <1>9
<1>12. PICK k : k = item.key
    OBVIOUS
<1>13. /\ Inserts /\ ~Stores /\ InHand' = InHand \ {k} /\ InTree' = InTree \cup {k}
       /\ UNCHANGED <<Inserts, Stores, Waiting, Shown>> /\ k \in InHand
    BY <1>6, <1>7, <1>8, <1>10, <1>11, <1>12
<1>14. Writer!Absorbs({k})
    BY <1>13, ShowsAbsorbed
<1>15. Writer!Next(Keys) <=>
          \/ \E x \in Keys : Writer!Buffered(x) \/ Writer!Starts(x)
          \/ \E S \in SUBSET InHand : Writer!Absorbs(S)
          \/ Writer!Flushes \/ Writer!Stores \/ Writer!Fails
    BY DEF Writer!Next, InHand
<1>16. Writer!Next(Keys)
    <2>1. {k} \in SUBSET InHand
        BY <1>13
    <2> QED
        BY <1>14, <1>15, <2>1
<1> QED
    BY <1>6, <1>16 DEF Follows

LEMMA FlushFollows ==
    ASSUME InvW, InvD', NEW c \in Coroutines, Flush(c)
    PROVE  Follows
<1>1. /\ InvD /\ InvD' /\ IInv /\ IInv' /\ pc[c] = "pick"
      /\ DOMAIN batch = {} /\ UNCHANGED <<buffer, batch, item>> /\ rootHash' = NoHash
    BY DEF InvW, InvR, InvH, InvS, InvD, Flush, queue
<1>2. PICK l \in {"store", "removing"} : Goto(c, l) /\ (l = "removing" => job'.next = "store")
    BY TryRemoveGoes DEF Flush
<1>3. pc'[c] = l
    BY <1>1, <1>2, WriterGoes
<1>4. ViewOK /\ ViewOK'
    BY <1>1, ViewIs, PTL
<1>5. InTree' = InTree
    BY <1>1, DictLoop, InTreeIs
<1>6. Inserts /\ ~Stores /\ Waiting = DOMAIN buffer /\ InHand = {}
    BY <1>1, <1>4 DEF ViewOK, Storing, Bound
<1>7. Inserts' /\ Stores' /\ Waiting' = DOMAIN buffer' /\ InHand' = {}
    BY <1>1, <1>2, <1>3, <1>4 DEF ViewOK, Storing, Bound
<1>8. Shown' = {} /\ Shallow'
    BY <1>1 DEF Shown, Shallow
<1>9. Inserts' = Inserts /\ Waiting' = Waiting
    BY <1>1, <1>6, <1>7 DEF Inserts
<1>10. Writer!Flushes
    BY <1>5, <1>6, <1>7, <1>8, <1>9, ShowsFlush
<1> QED
    BY <1>8, <1>10 DEF Follows, Writer!Next

LEMMA FailureFollows ==
    ASSUME InvW, InvD', NEW c \in Coroutines, StoreFailed(c)
    PROVE  Follows
<1>1. /\ IInv /\ IInv' /\ Shallow /\ pc[c] \in {"adding", "pinning"} /\ Goto(c, "ready")
      /\ UNCHANGED <<heap, carry, rootHash, buffer, batch, item>>
    BY DEF InvW, InvR, InvH, InvS, InvD, StoreFailed, tree
<1>2. Shown' = Shown /\ Shallow'
    BY <1>1, ShownStays DEF IInv, TypeOK, IsHeap
<1>3. InTree' = InTree
    BY <1>1, InTreeIs, ContentsStay
<1>4. \A d \in Coroutines : pc'[d] = "ready"
    BY <1>1, WriterGoes
<1>5. ViewOK /\ ViewOK'
    BY <1>1, ViewIs, PTL
<1>6. Stores /\ Waiting = DOMAIN buffer /\ InHand = DOMAIN batch
    BY <1>1, <1>5 DEF ViewOK, Storing
<1>7. ~Inserts' /\ ~Stores' /\ Waiting' = DOMAIN buffer' /\ InHand' = DOMAIN batch'
    BY <1>4, <1>5 DEF ViewOK
<1>8. Waiting' = Waiting /\ InHand' = InHand
    BY <1>1, <1>6, <1>7
<1>9. Writer!Fails
    BY <1>2, <1>3, <1>6, <1>7, <1>8, ShowsFailure
<1> QED
    BY <1>2, <1>9 DEF Follows, Writer!Next

\* A root that is pinned leads to all that is in the tree.
LEMMA RootFollows ==
    ASSUME InvW, InvD', NEW c \in Coroutines, Pinned(c), stack = <<>>
    PROVE  Follows
<1>1. /\ InvS /\ IInv /\ IInv' /\ Shape /\ HashTree /\ HashControl /\ Taken /\ pc[c] = "pinning"
      /\ Goto(c, "loop") /\ UNCHANGED <<heap, carry, buffer, batch, item>> /\ rootHash' = job.hash
    BY DEF InvW, InvR, InvH, InvS, HashInv, InvD, Pinned, queue
<1>2. carry = NoSplit /\ Full = heap /\ SplitNode = Null
    BY <1>1, NotSplit
<1>3. PICK span, lvl :
          /\ Tree(Full, Len(heap), rootNode, span, lvl, SplitNode, MidKey)
          /\ Walk(Full, Len(heap), rootNode, lvl, stack, at)
    BY <1>1, Position
<1>4. at = rootNode /\ Frames = <<>>
    BY <1>1, <1>3, Position DEF Walk
<1>5. HashOf(job.hash, heap[rootNode]) /\ job.hash # NoHash
    BY <1>1, <1>4, StoreKnows DEF HashOf, HashGiven, InvW
<1>6. Written(job.hash, span, lvl)
    BY <1>1, <1>2, <1>3, <1>4, <1>5 DEF Written, HashTree
<1>7. StoredKeys(job.hash) = InTree
    BY <1>1, <1>2, <1>6, StoredKeysAre, InTreeIs
<1>8. StoredKeys(rootHash)' = StoredKeys(job.hash)
    BY <1>1 DEF StoredKeys, StoredNodes
<1>9. Shown' = InTree
    BY <1>1, <1>5, <1>7, <1>8 DEF Shown
<1>10. Shallow'
    BY <1>1, <1>6, StoredIs DEF Shallow
<1>11. InTree' = InTree
    BY <1>1, InTreeIs, ContentsStay
<1>12. pc'[c] = "loop"
    BY <1>1, WriterGoes
<1>13. ViewOK /\ ViewOK'
    BY <1>1, ViewIs, PTL
<1>14. DOMAIN batch = {}
    BY <1>1, WriterIs DEF Taken, Picking, Bound
<1>15. Stores /\ Waiting = DOMAIN buffer /\ InHand = {}
    BY <1>1, <1>13, <1>14 DEF ViewOK, Storing
<1>16. /\ Inserts' <=> DOMAIN buffer' # {}
       /\ ~Stores' /\ Waiting' = {} /\ InHand' = DOMAIN buffer'
    BY <1>12, <1>13 DEF ViewOK, Storing, Bound
<1>17. /\ Stores /\ ~Stores' /\ Shown' = InTree /\ (Inserts' <=> Waiting # {})
       /\ Waiting # {} => InHand' = Waiting /\ Waiting' = {}
       /\ Waiting = {} => UNCHANGED <<InHand, Waiting>>
       /\ UNCHANGED InTree
    BY <1>1, <1>9, <1>11, <1>15, <1>16
<1>18. Writer!Stores
    BY <1>17, ShowsStored
<1> QED
    BY <1>10, <1>18 DEF Follows, Writer!Next

LEMMA InitW ==
    ASSUME Init, LoadedRoot = NoHash, HashGiven
    PROVE  InvW /\ Writer!Init
<1>1. InvR /\ InvD /\ IInv
    BY InitRest, InitTaken DEF InvD, InvS
<1>2. InvW
    BY <1>1 DEF Init, InvW, InvD, Shallow
<1>3. (\A c \in Coroutines : pc[c] = "ready") /\ DOMAIN buffer = {} /\ DOMAIN batch = {}
    BY DEF Init, EmptyMap
<1>4. ViewOK
    BY <1>1, ViewIs
<1>5. ~Inserts /\ ~Stores /\ Waiting = {} /\ InHand = {}
    BY <1>3, <1>4 DEF ViewOK
<1>6. Shown = {}
    BY DEF Init, Shown
<1>7. InTree = {}
    <2>1. \A k \in Keys : Holders(k) = {}
        BY DEF Init, Holders, Addresses, NoSplit
    <2> QED
        BY <2>1 DEF InTree
<1>8. Inserts = FALSE /\ Stores = FALSE
    BY <1>5 DEF Inserts, Stores
<1>9. Writer!Init <=> /\ Inserts = FALSE /\ Stores = FALSE
                      /\ Waiting = {} /\ InHand = {} /\ InTree = {} /\ Shown = {}
    BY DEF Writer!Init, Inserts, Stores, Waiting, InHand, InTree, Shown
<1> QED
    BY <1>2, <1>5, <1>6, <1>7, <1>8, <1>9

LEMMA NextW == InvW /\ [Next]_vars => InvW' /\ [Writer!Next(Keys)]_(Writer!vars)
<1> SUFFICES ASSUME InvW, [Next]_vars PROVE InvW' /\ [Writer!Next(Keys)]_(Writer!vars)
    OBVIOUS
<1>1. InvR' /\ InvD' /\ IInv'
    BY NextRest, NextTaken DEF InvW, InvR, InvH, InvD, InvS
<1>2. ASSUME NEW c \in Coroutines, Step(c) \/ Answer(c) PROVE Follows
    BY <1>1, <1>2, LoopFollows, WalkFollows, WaitFollows, PutFollows, FlushFollows,
       FailureFollows, RootFollows DEF Step, Answer
<1>3. ASSUME NEW c \in Coroutines, NEW k \in Keys, NEW v \in Values, Call(c, k, v)
      PROVE  Follows
    BY <1>1, <1>3, CallFollows
<1>4. ASSUME UNCHANGED vars PROVE Follows
    <2>1. Same
        BY <1>4 DEF vars, Same, Inserts, Stores, Waiting, InHand, InTree, Shown, Looping, Bound,
                    Holders, Addresses, StoredKeys, StoredNodes
    <2>2. Shallow'
        BY <1>4 DEF vars, InvW, Shallow
    <2>3. UNCHANGED Writer!vars
        BY <2>1, ShowsSame
    <2> QED
        BY <2>2, <2>3 DEF Follows
<1>5. ASSUME Next PROVE Follows
    <2>1. PICK c \in Coroutines :
              Step(c) \/ Answer(c) \/ \E k \in Keys, v \in Values : Call(c, k, v)
        BY <1>5 DEF Next
    <2> QED
        BY <1>2, <1>3, <2>1
<1>6. Follows
    BY <1>4, <1>5
<1> QED
    BY <1>1, <1>6 DEF Follows, InvW, InvD

\* In a tree that was not loaded, and with a storage that never gives the empty hash:
\* what the callers of insert, the calls that only buffer and the failures of storage
\* see of the tree is what TreeWriter.tla lets them see.  A batch is all in the tree
\* before the old root hash goes, and the next root hash leads to all of it.
THEOREM TreeIsAWriter ==
    ASSUME LoadedRoot = NoHash, HashGiven
    PROVE  Spec => ImplementsWriter
<1>1. Init => InvW /\ Writer!Init
    BY InitW
<1> QED
    BY <1>1, NextW, PTL DEF Spec, ImplementsWriter
==============================================================================
