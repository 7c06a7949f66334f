------------------------- MODULE BTreeFetchProofs -------------------------
(***************************************************************************)
(* Theorems about BTreeFetch.tla, for every set of keys, of coroutines and *)
(* of stored texts and every node size.  As long as no freed memory is     *)
(* used the inserts keep their invariants although finds fill nodes under  *)
(* them, every value a find returns was stored or offered, and the slot a  *)
(* find goes on in holds a node.  In a tree that was not loaded finds      *)
(* never fetch, so that no freed memory is ever used, and answer as the    *)
(* map.                                                                    *)
(***************************************************************************)
EXTENDS BTreeFetch, BTreeHashProofs

\* A set of texts that holds with every text the texts of its children, and
\* whose lines are pairs of G
Closed(T, G) ==
    \A u \in T :
        /\ DOMAIN u \subseteq Ids /\ IsFiniteSet(DOMAIN u)
        /\ \A i \in DOMAIN u :
            /\ u[i].value \in Values \cup {NoValue}
            /\ i # Inf => <<i, u[i].value>> \in G
            /\ u[i].child \in T \cup {NoHash}

\* All that can be fetched from the hash t on comes from G.
TextGiven(t, G) == \E T : t \in T /\ Closed(T, G)

EntryGiven(i, e, G) ==
    /\ i # Inf => <<i, e.value>> \in G
    /\ e.hash # NoHash => TextGiven(e.hash, G)

NodeGiven(node, G) == \A i \in DOMAIN node : EntryGiven(i, node[i], G)

HeapGiven(h, G) == \A a \in 1..Len(h) : NodeGiven(h[a], G)

MapGiven(m, G) == \A k \in DOMAIN m : <<k, m[k]>> \in G

\* What an insert is handing to storage
JobGiven(G) ==
    \A c \in Coroutines : pc[c] \in {"adding", "pinning"} => TextGiven(job.hash, G)

CarryGiven(r, G) == EntryGiven(r.id, r.entry, G) /\ NodeGiven(r.right, G)

\* The tree and all that is on its way into it or out to storage is made of pairs
\* of G.
MadeOf(G) ==
    /\ HeapGiven(heap, G)
    /\ MapGiven(buffer, G) /\ MapGiven(batch, G)
    /\ item.key # Inf => <<item.key, item.value>> \in G
    /\ carry # NoSplit => CarryGiven(carry, G)
    /\ rootHash # NoHash => TextGiven(rootHash, G)
    /\ JobGiven(G)

Given == StoredPairs \cup offered

IsFind(r) ==
    r \in [pc : {"rest", "walking", "fetching", "found", "not_found", "error"},
           key : Ids, slot : {r.slot}, hash : {r.hash}, node : Nat,
           lost : {r.lost}, answer : {r.answer}]

\* A find is at a node in memory, or fetches a text that was stored, or has
\* answered with what was given for its key.
FindGiven(r, n, G) ==
    /\ IsFind(r)
    /\ r.pc = "found" => <<r.key, r.answer>> \in G
    /\ r.pc \in {"walking", "fetching"} => r.key \in Keys /\ r.node \in 1..n
    /\ r.pc = "fetching" => TextGiven(r.hash, G)

FindsGiven(n, G) ==
    /\ finder \in [Finders -> {finder[f] : f \in Finders}]
    /\ \A f \in Finders : FindGiven(finder[f], n, G)

\* The slot holds a node in memory.
HoldsNode(slot, h, root) ==
    \/ slot = RootSlot /\ root # Null
    \/ /\ slot.node \in 1..Len(h) /\ slot.id \in DOMAIN h[slot.node]
       /\ h[slot.node][slot.id].child # Null

\* A find that fetches can go on through its slot, unless that was lost.
SlotsLead ==
    \A f \in Finders :
        finder[f].pc = "fetching" /\ ~finder[f].lost => HoldsNode(finder[f].slot, heap, rootNode)

\* The inductive invariant: once a find has written into freed memory nothing is
\* known of the tree, but the system stops there.
FetchInv ==
    /\ ~broken => IInv /\ MadeOf(Given) /\ SlotsLead
    /\ FindsGiven(Len(heap), Given)

--------------------------------------------------------------------------
\* Texts

LEMMA TextGrows ==
    ASSUME NEW G, NEW H, G \subseteq H, NEW t, TextGiven(t, G)
    PROVE  TextGiven(t, H)
<1>1. PICK T : t \in T /\ Closed(T, G)
    BY DEF TextGiven
<1>2. Closed(T, H)
    BY <1>1 DEF Closed
<1> QED
    BY <1>1, <1>2 DEF TextGiven

\* The text of a node leads to what its hashes lead to.
LEMMA SerialisedGiven ==
    ASSUME NEW G, NEW n, NEW node, IsNode(node, n), NodeGiven(node, G)
    PROVE  TextGiven(Serialise(node), G)
<1> DEFINE t == Serialise(node)
           Under(i) == CHOOSE T : node[i].hash \in T /\ Closed(T, G)
           Hashed == {i \in DOMAIN node : node[i].hash # NoHash}
           T == {t} \cup UNION {Under(i) : i \in Hashed}
<1>1. ASSUME NEW i \in Hashed
      PROVE  node[i].hash \in Under(i) /\ Closed(Under(i), G)
    <2>1. TextGiven(node[i].hash, G)
        BY DEF NodeGiven, EntryGiven
    <2>2. \E S : node[i].hash \in S /\ Closed(S, G)
        BY <2>1 DEF TextGiven
    <2> QED
        BY <2>2
<1>2. /\ DOMAIN t \subseteq DOMAIN node
      /\ \A i \in DOMAIN t : t[i].value = node[i].value /\ t[i].child = node[i].hash
    BY DEF Serialise
<1>3. /\ t \in T
      /\ \A i \in Hashed : Under(i) \subseteq T
      /\ \A u \in T : u = t \/ \E i \in Hashed : u \in Under(i)
    OBVIOUS
<1> HIDE DEF T, Under, t
<1>4. Closed(T, G)
    <2> SUFFICES ASSUME NEW u \in T
                 PROVE  /\ DOMAIN u \subseteq Ids /\ IsFiniteSet(DOMAIN u)
                        /\ \A i \in DOMAIN u :
                            /\ u[i].value \in Values \cup {NoValue}
                            /\ i # Inf => <<i, u[i].value>> \in G
                            /\ u[i].child \in T \cup {NoHash}
        BY DEF Closed
    <2>1. CASE u = t
        <3>1. IsFiniteSet(DOMAIN u) /\ DOMAIN u \subseteq Ids
            BY <1>2, <2>1, FS_Subset DEF IsNode
        <3>2. ASSUME NEW i \in DOMAIN u
              PROVE  /\ u[i].value \in Values \cup {NoValue}
                     /\ i # Inf => <<i, u[i].value>> \in G
            BY <1>2, <2>1 DEF IsNode, IsEntry, NodeGiven, EntryGiven
        <3>3. ASSUME NEW i \in DOMAIN u PROVE u[i].child \in T \cup {NoHash}
            BY <1>1, <1>2, <1>3, <2>1
        <3> QED
            BY <3>1, <3>2, <3>3
    <2>2. ASSUME NEW i \in Hashed, u \in Under(i)
          PROVE  /\ DOMAIN u \subseteq Ids /\ IsFiniteSet(DOMAIN u)
                 /\ \A j \in DOMAIN u :
                     /\ u[j].value \in Values \cup {NoValue}
                     /\ j # Inf => <<j, u[j].value>> \in G
                     /\ u[j].child \in T \cup {NoHash}
        BY <1>1, <1>3, <2>2 DEF Closed
    <2> QED
        BY <1>3, <2>1, <2>2
<1> QED
    BY <1>3, <1>4 DEF TextGiven, t

\* Node::restore makes a node of a text that was given.
LEMMA NodeOfGiven ==
    ASSUME NEW G, NEW n \in Nat, NEW t, TextGiven(t, G)
    PROVE  IsNode(NodeOf(t), n) /\ NodeGiven(NodeOf(t), G)
<1>1. PICK T : t \in T /\ Closed(T, G)
    BY DEF TextGiven
<1>2. /\ DOMAIN t \subseteq Ids /\ IsFiniteSet(DOMAIN t)
      /\ \A i \in DOMAIN t :
          /\ t[i].value \in Values \cup {NoValue}
          /\ i # Inf => <<i, t[i].value>> \in G
          /\ t[i].child \in T \cup {NoHash}
    BY <1>1 DEF Closed
<1>3. /\ DOMAIN NodeOf(t) = DOMAIN t
      /\ \A i \in DOMAIN t : NodeOf(t)[i] = Entry(t[i].value, Null, t[i].child)
    BY DEF NodeOf
<1>4. IsNode(NodeOf(t), n)
    <2>1. ASSUME NEW i \in DOMAIN t PROVE IsEntry(NodeOf(t)[i], n)
        <3>1. Null \in 0..n
            BY DEF Null
        <3>2. IsEntry(Entry(t[i].value, Null, t[i].child), n)
            BY <1>2, <3>1, NewEntry
        <3> QED
            BY <1>3, <3>2
    <2>2. NodeOf(t) \in [DOMAIN t -> {NodeOf(t)[i] : i \in DOMAIN t}]
        BY DEF NodeOf
    <2> QED
        BY <1>2, <1>3, <2>1, <2>2 DEF IsNode
<1>5. ASSUME NEW i \in DOMAIN t PROVE EntryGiven(i, NodeOf(t)[i], G)
    <2>1. t[i].child # NoHash => TextGiven(t[i].child, G)
        BY <1>1, <1>2 DEF TextGiven
    <2> QED
        BY <1>2, <1>3, <2>1 DEF EntryGiven, Entry
<1> QED
    BY <1>3, <1>4, <1>5 DEF NodeGiven

LEMMA StoredAreGiven ==
    ASSUME NEW G, StoredPairs \subseteq G, NEW t \in Texts
    PROVE  TextGiven(t, G)
<1>1. ASSUME NEW u \in Texts, NEW i \in DOMAIN u, i # Inf
      PROVE  <<i, u[i].value>> \in G
    BY <1>1 DEF StoredPairs
<1>2. Closed(Texts, G)
    BY <1>1, TextsAssumption DEF Closed
<1> QED
    BY <1>2 DEF TextGiven

--------------------------------------------------------------------------
\* Nodes and heaps made of pairs of G stay that.

LEMMA GivenWith ==
    ASSUME NEW G, NEW node, NodeGiven(node, G), NEW i, NEW e, EntryGiven(i, e, G)
    PROVE  NodeGiven(With(node, i, e), G) /\ NodeGiven(WithNew(node, i, e), G)
BY DEF NodeGiven, With, WithNew

LEMMA GivenOnly ==
    ASSUME NEW G, NEW node, NodeGiven(node, G), NEW S
    PROVE  NodeGiven(Only(node, S), G)
BY DEF NodeGiven, Only

LEMMA GivenEmpty == \A G : NodeGiven(EmptyMap, G) /\ MapGiven(EmptyMap, G)
BY DEF NodeGiven, MapGiven, EmptyMap

LEMMA GivenExcept ==
    ASSUME NEW G, NEW node, NodeGiven(node, G), NEW i,
           NEW e, i \in DOMAIN node => EntryGiven(i, e, G)
    PROVE  NodeGiven([node EXCEPT ![i] = e], G)
BY DEF NodeGiven

LEMMA GivenAlloc ==
    ASSUME NEW G, NEW n, NEW h, IsHeap(h, n), HeapGiven(h, G),
           NEW node, NodeGiven(node, G)
    PROVE  HeapGiven(Alloc(h, node), G)
<1>1. h \in Seq({h[a] : a \in DOMAIN h}) /\ Len(h) \in Nat
    BY DEF IsHeap
<1>2. /\ Len(Append(h, node)) = Len(h) + 1
      /\ \A a \in 1..Len(h) : Append(h, node)[a] = h[a]
      /\ Append(h, node)[Len(h) + 1] = node
    BY <1>1
<1>3. ASSUME NEW a \in 1..(Len(h) + 1) PROVE NodeGiven(Append(h, node)[a], G)
    <2>1. CASE a \in 1..Len(h)
        BY <1>2, <2>1 DEF HeapGiven
    <2>2. CASE a = Len(h) + 1
        BY <1>2, <2>2
    <2> QED
        BY <1>1, <2>1, <2>2
<1> QED
    BY <1>2, <1>3 DEF HeapGiven, Alloc

LEMMA GivenPut ==
    ASSUME NEW G, NEW n, NEW h, IsHeap(h, n), HeapGiven(h, G), NEW p,
           NEW node, p \in 1..Len(h) => NodeGiven(node, G) /\ IsNode(node, n)
    PROVE  HeapGiven([h EXCEPT ![p] = node], G)
<1>1. DOMAIN h = 1..Len(h)
    BY DEF IsHeap
<1>2. Len([h EXCEPT ![p] = node]) = Len(h)
    BY HeapExcept
<1>3. \A a \in 1..Len(h) : [h EXCEPT ![p] = node][a] = IF a = p THEN node ELSE h[a]
    BY <1>1
<1> QED
    BY <1>2, <1>3 DEF HeapGiven

LEMMA GivenParts ==
    ASSUME NEW G, NEW n, NEW left, NEW node, IsNode(node, n), NodeGiven(node, G),
           NeedsSplit(node)
    PROVE  NodeGiven(LeftPart(node), G) /\ NodeGiven(MedianAndRest(node, left), G)
<1> DEFINE m == Median(node)
           lower == Only(node, {j \in Ids : Before(j, m)})
           upper == Only(node, {j \in Ids : ~Before(j, m)})
<1>1. m \in DOMAIN node
    BY MedianExists DEF IsNode
<1>2. NodeGiven(lower, G) /\ NodeGiven(upper, G)
    BY GivenOnly
<1>3. /\ EntryGiven(Inf, Entry(NoValue, node[m].child, NoHash), G)
      /\ EntryGiven(m, Entry(node[m].value, left, NoHash), G)
    BY <1>1 DEF EntryGiven, Entry, NodeGiven
<1>4. /\ LeftPart(node) = With(lower, Inf, Entry(NoValue, node[m].child, NoHash))
      /\ MedianAndRest(node, left) = With(upper, m, Entry(node[m].value, left, NoHash))
    BY DEF LeftPart, MedianAndRest
<1> HIDE DEF lower, upper, m
<1> QED
    BY <1>2, <1>3, <1>4, GivenWith

LEMMA GivenGrows ==
    ASSUME NEW G, NEW H, G \subseteq H, MadeOf(G)
    PROVE  MadeOf(H)
<1>1. \A i, e : EntryGiven(i, e, G) => EntryGiven(i, e, H)
    BY TextGrows DEF EntryGiven
<1>2. \A node : NodeGiven(node, G) => NodeGiven(node, H)
    BY <1>1 DEF NodeGiven
<1>3. HeapGiven(heap, H)
    BY <1>2 DEF MadeOf, HeapGiven
<1>4. MapGiven(buffer, H) /\ MapGiven(batch, H)
    BY DEF MadeOf, MapGiven
<1>5. carry # NoSplit => CarryGiven(carry, H)
    BY <1>1, <1>2 DEF MadeOf, CarryGiven
<1>6. (rootHash # NoHash => TextGiven(rootHash, H)) /\ JobGiven(H)
    BY TextGrows DEF MadeOf, JobGiven
<1> QED
    BY <1>3, <1>4, <1>5, <1>6 DEF MadeOf

--------------------------------------------------------------------------
\* What is inserted and stored was given: one lemma per group of the actions of
\* BTree.tla.

\* The step of c hands nothing to storage.
LEMMA NoText ==
    ASSUME IInv, NEW G, NEW c \in Coroutines, pc[c] # "ready",
           NEW l, l \notin {"adding", "pinning"}, Goto(c, l)
    PROVE  JobGiven(G)'
<1>1. pc \in [Coroutines -> Suspended \cup Running]
    BY DEF IInv, TypeOK
<1>2. \A d \in Coroutines : d # c => pc'[d] = "ready"
    BY <1>1 DEF IInv, SingleWriter, Goto
<1>3. pc'[c] = l
    BY <1>1 DEF Goto
<1> QED
    BY <1>2, <1>3 DEF JobGiven

\* So do the steps of Node::insert and store that change only the frame.
LEMMA FrameText ==
    ASSUME NEW G, MadeOf(G), pc' = pc,
           NEW c \in Coroutines, SingleWriter, pc[c] \in Running
    PROVE  JobGiven(G)'
<1>1. \A d \in Coroutines : d # c => pc[d] = "ready"
    BY DEF SingleWriter, Running
<1> QED
    BY <1>1 DEF JobGiven, Running

LEMMA CallGiven ==
    ASSUME IInv, NEW G, MadeOf(G), NEW c \in Coroutines, NEW k, NEW v,
           <<k, v>> \in G, Call(c, k, v)
    PROVE  MadeOf(G)'
<1>1. MapGiven(WithNew(buffer, k, v), G)
    BY DEF MadeOf, MapGiven, WithNew
<1>2. CASE BufferInsert(c, k, v)
    BY <1>1, <1>2 DEF BufferInsert, MadeOf, JobGiven, tree, frame
<1>3. CASE StartInsert(c, k, v)
    <2>1. JobGiven(G)'
        <3>1. \A d \in Coroutines : pc[d] = "ready"
            BY <1>3 DEF StartInsert, MayStart, IInv, SingleWriter
        <3>2. pc \in [Coroutines -> Suspended \cup Running]
            BY DEF IInv, TypeOK
        <3>3. \A d \in Coroutines : pc'[d] \in {"loop", "ready"}
            BY <1>3, <3>1, <3>2 DEF StartInsert, Goto
        <3> QED
            BY <3>3 DEF JobGiven
    <2> QED
        BY <1>1, <1>3, <2>1 DEF StartInsert, MadeOf, tree, frame
<1> QED
    BY <1>2, <1>3 DEF Call

LEMMA LoopGiven ==
    ASSUME IInv, NEW G, MadeOf(G), NEW c \in Coroutines,
           TakeBuffer(c) \/ InsertDone(c) \/ Pick(c) \/ Flush(c)
    PROVE  MadeOf(G)'
<1>1. CASE TakeBuffer(c)
    <2>1. JobGiven(G)'
        BY <1>1, NoText DEF TakeBuffer
    <2> QED
        BY <1>1, <2>1, GivenEmpty DEF TakeBuffer, Emptied, MadeOf, tree, frame
<1>2. CASE InsertDone(c)
    <2>1. JobGiven(G)'
        BY <1>2, NoText DEF InsertDone
    <2> QED
        BY <1>2, <2>1 DEF InsertDone, MadeOf, tree, frame
<1>3. CASE Pick(c)
    <2> DEFINE k == First(DOMAIN batch)
    <2>1. JobGiven(G)'
        BY <1>3, NoText DEF Pick
    <2>2. k \in DOMAIN batch
        <3>1. DOMAIN batch \subseteq Ids /\ IsFiniteSet(DOMAIN batch) /\ DOMAIN batch # {}
            BY <1>3 DEF Pick, IInv, TypeOK, IsMap, Ids
        <3> QED
            BY <3>1, FirstIsFirst
    <2>3. <<item'.key, item'.value>> \in G /\ MapGiven(batch', G)
        BY <1>3, <2>2 DEF Pick, MadeOf, MapGiven, Only
    <2>4. HeapGiven(heap', G)
        BY <1>3, GivenEmpty, GivenAlloc DEF Pick, NoRootNode, MadeOf, IInv, TypeOK
    <2>5. UNCHANGED <<buffer, rootHash>> /\ carry' = NoSplit
        BY <1>3 DEF Pick
    <2> QED
        BY <2>1, <2>3, <2>4, <2>5 DEF MadeOf
<1>4. CASE Flush(c)
    <2>1. JobGiven(G)'
        BY <1>4, TryRemoveGoes, NoText DEF Flush
    <2> QED
        BY <1>4, <2>1 DEF Flush, MadeOf, queue, tree
<1> QED
    BY <1>1, <1>2, <1>3, <1>4

LEMMA DescendGiven ==
    ASSUME IInv, NEW G, MadeOf(G), NEW c \in Coroutines,
           InsertAtLeaf(c) \/ OverwriteValue(c) \/ GoDown(c)
    PROVE  MadeOf(G)'
<1>0. /\ pc[c] = "descend" /\ at \in 1..Len(heap)
      /\ IsHeap(heap, Len(heap)) /\ IsNode(heap[at], Len(heap)) /\ Len(heap) \in Nat
      /\ HeapGiven(heap, G) /\ NodeGiven(heap[at], G)
      /\ item.key # Inf => <<item.key, item.value>> \in G
    <2>1. pc[c] = "descend"
        BY DEF InsertAtLeaf, OverwriteValue, GoDown
    <2> QED
        BY <2>1, HeapLen DEF IInv, TypeOK, IsHeap, Addresses, MadeOf, HeapGiven
<1>1. CASE InsertAtLeaf(c)
    <2> DEFINE e    == Entry(item.value, Null, NoHash)
               leaf == WithNew(heap[at], item.key, e)
    <2>1. NodeGiven(leaf, G)
        <3>1. EntryGiven(item.key, e, G)
            BY <1>0 DEF EntryGiven, Entry
        <3> HIDE DEF e
        <3> QED
            BY <1>0, <3>1, GivenWith
    <2>2. IsNode(leaf, Len(heap))
        <3>1. item.key \in Ids /\ item.value \in Values \cup {NoValue} /\ Null \in 0..Len(heap)
            BY <1>0 DEF IInv, TypeOK, Null
        <3> QED
            BY <3>1, <1>0, NewEntry, NodeWith
    <2>3. heap' = [heap EXCEPT ![at] = leaf]
        BY <1>1 DEF InsertAtLeaf
    <2>4. HeapGiven(heap', G)
        <3> HIDE DEF leaf
        <3> QED
            BY <1>0, <2>1, <2>2, <2>3, GivenPut
    <2>5. JobGiven(G)'
        BY <1>0, <1>1, NoText DEF InsertAtLeaf
    <2> QED
        BY <1>1, <2>4, <2>5 DEF InsertAtLeaf, MadeOf, queue, frame
<1>2. CASE OverwriteValue(c)
    <2> DEFINE k    == item.key
               e    == [heap[at][k] EXCEPT !.value = item.value]
               node == [heap[at] EXCEPT ![k] = e]
    <2>1. IsEntry(heap[at][k], Len(heap)) /\ EntryGiven(k, heap[at][k], G)
        BY <1>0, <1>2 DEF OverwriteValue, IsNode, NodeGiven
    <2>2. IsEntry(e, Len(heap)) /\ EntryGiven(k, e, G)
        <3>1. item.value \in Values \cup {NoValue}
            BY DEF IInv, TypeOK
        <3>2. e.value = item.value /\ e.hash = heap[at][k].hash
            BY <2>1 DEF IsEntry
        <3>3. IsEntry(e, Len(heap))
            BY <2>1, <3>1 DEF IsEntry
        <3>4. EntryGiven(k, e, G)
            BY <1>0, <2>1, <3>2 DEF EntryGiven
        <3> QED
            BY <3>3, <3>4
    <2>3. heap' = [heap EXCEPT ![at] = node]
        BY <1>2 DEF OverwriteValue
    <2>4. NodeGiven(node, G) /\ IsNode(node, Len(heap))
        <3> HIDE DEF e
        <3> QED
            BY <1>0, <2>2, GivenExcept, NodeExcept
    <2>5. HeapGiven(heap', G)
        <3> HIDE DEF node
        <3> QED
            BY <1>0, <2>3, <2>4, GivenPut
    <2>6. JobGiven(G)'
        BY <1>0, <1>2, NoText DEF OverwriteValue
    <2> QED
        BY <1>2, <2>5, <2>6 DEF OverwriteValue, MadeOf, queue, frame
<1>3. CASE GoDown(c)
    <2> DEFINE n    == Len(heap)
               i    == LowerBound(heap[at], item.key)
               fresh == Entry(NoValue, Null, NoHash)
               here == WithNew(heap[at], i, fresh)
               e    == [here[i] EXCEPT !.child = n + 1]
    <2>1. i \in Ids /\ (i # Inf => i \in DOMAIN heap[at])
        <3>1. i = Inf \/ i = First(AtOrAfter(heap[at], item.key))
            BY DEF LowerBound
        <3>2. i = First(AtOrAfter(heap[at], item.key)) \/ AtOrAfter(heap[at], item.key) = {}
            BY DEF LowerBound
        <3>3. /\ AtOrAfter(heap[at], item.key) \subseteq DOMAIN heap[at]
              /\ AtOrAfter(heap[at], item.key) \subseteq Ids
              /\ IsFiniteSet(AtOrAfter(heap[at], item.key))
            <4>1. AtOrAfter(heap[at], item.key) \subseteq DOMAIN heap[at]
                BY DEF AtOrAfter
            <4> QED
                BY <1>0, <4>1, FS_Subset DEF IsNode
        <3>4. i # Inf => AtOrAfter(heap[at], item.key) # {}
            BY DEF LowerBound
        <3>5. i # Inf => i \in AtOrAfter(heap[at], item.key)
            <4> HIDE DEF i
            <4> QED
                BY <3>1, <3>3, <3>4, FirstIsFirst
        <3> QED
            BY <3>3, <3>5 DEF Ids
    <2>2. IsNode(here, n) /\ i \in DOMAIN here /\ IsEntry(here[i], n)
        <3>1. IsEntry(fresh, n)
            BY <1>0, NewEntry DEF Null
        <3>2. IsNode(here, n)
            BY <1>0, <2>1, <3>1, NodeWith
        <3>3. i \in DOMAIN here
            BY DEF WithNew
        <3> QED
            BY <3>2, <3>3 DEF IsNode
    <2>3. NodeGiven(here, G) /\ EntryGiven(i, here[i], G)
        <3>1. ASSUME NEW j \in DOMAIN here PROVE EntryGiven(j, here[j], G)
            <4>1. CASE j \in DOMAIN heap[at]
                BY <1>0, <4>1 DEF WithNew, NodeGiven
            <4>2. CASE j \notin DOMAIN heap[at]
                <5>1. j = i /\ j = Inf /\ here[j] = fresh
                    BY <2>1, <4>2 DEF WithNew
                <5> QED
                    BY <5>1 DEF EntryGiven, Entry
            <4> QED
                BY <4>1, <4>2
        <3> QED
            BY <2>2, <3>1 DEF NodeGiven
    <2>4. HeapGiven(heap', G)
        <3>1. CASE here[i].child = Null
            <4>1. heap' = Alloc([heap EXCEPT ![at] = With(here, i, e)], EmptyMap)
                BY <1>3, <3>1 DEF GoDown, NewAddress
            <4>2. EntryGiven(i, e, G) /\ IsEntry(e, n + 1)
                BY <1>0, <2>2, <2>3 DEF IsEntry, EntryGiven
            <4>3. IsNode(here, n + 1) /\ IsHeap(heap, n + 1)
                BY <1>0, <2>2, NodeMonotone, HeapMonotone
            <4> HIDE DEF e, here, i, n
            <4>4. NodeGiven(With(here, i, e), G) /\ IsNode(With(here, i, e), n + 1)
                BY <2>1, <2>3, <4>2, <4>3, GivenWith, NodeWith
            <4>5. /\ HeapGiven([heap EXCEPT ![at] = With(here, i, e)], G)
                  /\ IsHeap([heap EXCEPT ![at] = With(here, i, e)], n + 1)
                BY <1>0, <4>3, <4>4, GivenPut, HeapExcept
            <4> QED
                BY <4>1, <4>5, GivenEmpty, GivenAlloc
        <3>2. CASE here[i].child # Null
            <4>1. heap' = [heap EXCEPT ![at] = here]
                BY <1>3, <3>2 DEF GoDown
            <4> HIDE DEF here, i
            <4> QED
                BY <1>0, <2>2, <2>3, <4>1, GivenPut
        <3> QED
            BY <3>1, <3>2
    <2>5. JobGiven(G)'
        BY <1>0, <1>3, FrameText DEF GoDown, IInv, Running
    <2> QED
        BY <1>3, <2>4, <2>5 DEF GoDown, MadeOf, queue
<1> QED
    BY <1>1, <1>2, <1>3

LEMMA SplitGiven ==
    ASSUME IInv, NEW G, MadeOf(G), NEW c \in Coroutines,
           SplitStart(c) \/ SplitRest(c) \/ NoNeedToSplit(c)
    PROVE  MadeOf(G)'
<1> DEFINE n == Len(heap)
<1>0. /\ pc[c] \in {"split", "splitRest"} /\ at \in 1..n /\ n \in Nat
      /\ IsHeap(heap, n) /\ IsNode(heap[at], n)
      /\ HeapGiven(heap, G) /\ NodeGiven(heap[at], G)
    <2>1. pc[c] \in {"split", "splitRest"}
        BY DEF SplitStart, SplitRest, NoNeedToSplit
    <2> QED
        BY <2>1, HeapLen DEF IInv, TypeOK, IsHeap, Addresses, MadeOf, HeapGiven
<1>1. CASE SplitStart(c)
    <2> DEFINE rest == MedianAndRest(heap[at], n + 1)
               left == LeftPart(heap[at])
    <2>1. JobGiven(G)'
        BY <1>0, <1>1, TryRemoveGoes, NoText DEF SplitStart
    <2>2. NodeGiven(left, G) /\ NodeGiven(rest, G) /\ IsNode(rest, n + 1)
        BY <1>0, <1>1, GivenParts, SplitParts DEF SplitStart
    <2>3. heap' = Alloc([heap EXCEPT ![at] = rest], left)
        BY <1>1 DEF SplitStart, NewAddress
    <2>4. HeapGiven(heap', G)
        <3> HIDE DEF rest, left
        <3>1. IsHeap(heap, n + 1)
            BY <1>0, HeapMonotone
        <3>2. /\ HeapGiven([heap EXCEPT ![at] = rest], G)
              /\ IsHeap([heap EXCEPT ![at] = rest], n + 1)
            BY <1>0, <2>2, <3>1, GivenPut, HeapExcept
        <3> QED
            BY <2>2, <2>3, <3>2, GivenAlloc
    <2> QED
        BY <1>1, <2>1, <2>4 DEF SplitStart, MadeOf, queue, frame
<1>2. CASE SplitRest(c)
    <2> DEFINE m == First(DOMAIN heap[at])
               right == Only(heap[at], Successors(heap[at], m))
    <2>1. JobGiven(G)'
        BY <1>0, <1>2, NoText DEF SplitRest
    <2>2. m \in DOMAIN heap[at]
        <3>1. DOMAIN heap[at] \ {Inf} # {}
            BY <1>2 DEF SplitRest, IInv, WriterResumes, Bound
        <3> QED
            BY <1>0, <3>1, FirstIsKey, FirstIsFirst DEF IsNode
    <2>3. CarryGiven(carry', G)
        <3>1. carry' = [id |-> m, entry |-> heap[at][m], right |-> right]
            BY <1>2 DEF SplitRest
        <3>2. EntryGiven(m, heap[at][m], G) /\ NodeGiven(right, G)
            BY <1>0, <2>2, GivenOnly DEF NodeGiven
        <3> QED
            BY <3>1, <3>2 DEF CarryGiven
    <2>4. HeapGiven(heap', G)
        BY <1>0, <1>2, GivenEmpty, NodeEmpty, GivenPut DEF SplitRest, Erased
    <2> QED
        BY <1>2, <2>1, <2>3, <2>4 DEF SplitRest, MadeOf, queue
<1>3. CASE NoNeedToSplit(c)
    <2>1. JobGiven(G)'
        BY <1>0, <1>3, NoText DEF NoNeedToSplit
    <2> QED
        BY <1>3, <2>1 DEF NoNeedToSplit, MadeOf, queue, tree
<1> QED
    BY <1>1, <1>2, <1>3

\* Another hash in an entry: none, or that of a text that was given
LEMMA GivenHash ==
    ASSUME NEW G, NEW n, IsHeap(heap, n), HeapGiven(heap, G), NEW p \in 1..Len(heap), NEW i,
           NEW hash, hash # NoHash => TextGiven(hash, G)
    PROVE  HeapGiven([heap EXCEPT ![p][i].hash = hash], G)
<1> DEFINE e == [heap[p][i] EXCEPT !.hash = hash]
           node == [heap[p] EXCEPT ![i] = e]
<1>1. IsNode(heap[p], n) /\ NodeGiven(heap[p], G)
    BY DEF IsHeap, HeapGiven
<1>2. i \in DOMAIN heap[p] => EntryGiven(i, e, G) /\ IsEntry(e, n)
    <2> SUFFICES ASSUME i \in DOMAIN heap[p] PROVE EntryGiven(i, e, G) /\ IsEntry(e, n)
        OBVIOUS
    <2>1. IsEntry(heap[p][i], n) /\ EntryGiven(i, heap[p][i], G)
        BY <1>1 DEF IsNode, NodeGiven
    <2>2. e.hash = hash /\ e.value = heap[p][i].value
        BY <2>1 DEF IsEntry
    <2>3. IsEntry(e, n)
        BY <2>1 DEF IsEntry
    <2> QED
        BY <2>1, <2>2, <2>3 DEF EntryGiven
<1>3. NodeGiven(node, G) /\ IsNode(node, n)
    <2> HIDE DEF e
    <2> QED
        BY <1>1, <1>2, GivenExcept, NodeExcept
<1>4. [heap EXCEPT ![p][i].hash = hash] = [heap EXCEPT ![p] = node]
    OBVIOUS
<1>5. HeapGiven([heap EXCEPT ![p] = node], G)
    <2> HIDE DEF node
    <2> QED
        BY <1>3, GivenPut
<1> QED
    BY <1>4, <1>5

LEMMA GivenAttached ==
    ASSUME NEW G, NEW n, IsHeap(heap, n), HeapGiven(heap, G), NEW p \in 1..Len(heap),
           IsCarry(carry, n), CarryGiven(carry, G)
    PROVE  HeapGiven(Attached(heap, p), G)
<1> DEFINE node == WithNew(heap[p], carry.id, carry.entry)
           q    == node[First(Successors(node, carry.id))].child
           h    == [heap EXCEPT ![p] = node]
<1>1. IsNode(node, n) /\ NodeGiven(node, G)
    <2>1. IsNode(heap[p], n) /\ NodeGiven(heap[p], G)
        BY DEF IsHeap, HeapGiven
    <2>2. carry.id \in Ids /\ IsEntry(carry.entry, n) /\ EntryGiven(carry.id, carry.entry, G)
        BY DEF IsCarry, CarryGiven, Ids
    <2> QED
        BY <2>1, <2>2, NodeWith, GivenWith
<1>2. IsHeap(h, n) /\ HeapGiven(h, G)
    <2> HIDE DEF node
    <2> QED
        BY <1>1, HeapExcept, GivenPut
<1>3. IsNode(carry.right, n) /\ NodeGiven(carry.right, G)
    BY DEF IsCarry, CarryGiven
<1>4. HeapGiven([h EXCEPT ![q] = carry.right], G)
    <2> HIDE DEF h, q
    <2> QED
        BY <1>2, <1>3, GivenPut
<1>5. Attached(heap, p) = [h EXCEPT ![q] = carry.right]
    BY DEF Attached
<1> QED
    BY <1>4, <1>5

LEMMA ReturnGiven ==
    ASSUME IInv, NEW G, MadeOf(G), NEW c \in Coroutines,
           ReturnToParent(c) \/ ReturnToRoot(c) \/ Attach(c)
    PROVE  MadeOf(G)'
<1> DEFINE n == Len(heap)
<1>0. /\ pc[c] \in {"return", "attach"}
      /\ n \in Nat /\ rootNode \in 1..n
      /\ IsHeap(heap, n) /\ HeapGiven(heap, G)
      /\ stack \in Seq([node : Addresses, id : Ids])
      /\ carry # NoSplit => IsCarry(carry, n) /\ CarryGiven(carry, G)
    <2>1. pc[c] \in {"return", "attach"}
        BY DEF ReturnToParent, ReturnToRoot, Attach
    <2> QED
        BY <2>1, HeapLen DEF IInv, TypeOK, WriterResumes, Null, MadeOf
<1>1. CASE ReturnToParent(c)
    <2>1. JobGiven(G)'
        BY <1>0, <1>1, TryRemoveGoes, NoText DEF ReturnToParent
    <2>2. Top(stack).node \in 1..n
        BY <1>0, <1>1, TopFrame DEF ReturnToParent, Addresses
    <2>3. heap' = [heap EXCEPT ![Top(stack).node][Top(stack).id].hash = NoHash]
        BY <1>1 DEF ReturnToParent
    <2>4. HeapGiven(heap', G)
        BY <1>0, <2>2, <2>3, GivenHash
    <2> QED
        BY <1>1, <2>1, <2>4 DEF ReturnToParent, MadeOf, queue, frame
<1>2. CASE ReturnToRoot(c)
    <2>1. JobGiven(G)'
        BY <1>0, <1>2, NoText DEF ReturnToRoot
    <2>2. HeapGiven(heap', G)
        <3>1. CASE carry = NoSplit
            BY <1>0, <1>2, <3>1 DEF ReturnToRoot
        <3>2. CASE carry # NoSplit
            <4> DEFINE last == Entry(NoValue, n + 1, NoHash)
                       one  == With(EmptyMap, carry.id, carry.entry)
                       pair == With(one, Inf, last)
                       h    == [heap EXCEPT ![rootNode] = pair]
            <4>1. heap' = Alloc(h, carry.right)
                BY <1>2, <3>2 DEF ReturnToRoot, NewAddress
            <4>2. /\ carry.id \in Ids /\ Inf \in Ids
                  /\ IsEntry(carry.entry, n + 1) /\ IsNode(carry.right, n + 1)
                  /\ EntryGiven(carry.id, carry.entry, G) /\ NodeGiven(carry.right, G)
                BY <1>0, <3>2, EntryMonotone, NodeMonotone DEF IsCarry, CarryGiven, Ids
            <4>3. IsEntry(last, n + 1) /\ EntryGiven(Inf, last, G)
                <5>1. IsEntry(last, n + 1)
                    BY <1>0, NewEntry
                <5> QED
                    BY <5>1 DEF EntryGiven, Entry
            <4>4. IsNode(one, n + 1) /\ NodeGiven(one, G)
                BY <4>2, NodeEmpty, NodeWith, GivenEmpty, GivenWith
            <4>5. IsNode(pair, n + 1) /\ NodeGiven(pair, G)
                <5> HIDE DEF one, last
                <5> QED
                    BY <4>2, <4>3, <4>4, NodeWith, GivenWith
            <4>6. IsHeap(h, n + 1) /\ HeapGiven(h, G)
                <5>1. IsHeap(heap, n + 1)
                    BY <1>0, HeapMonotone
                <5> HIDE DEF pair
                <5> QED
                    BY <1>0, <4>5, <5>1, HeapExcept, GivenPut
            <4> HIDE DEF h
            <4> QED
                BY <4>1, <4>2, <4>6, GivenAlloc
        <3> QED
            BY <3>1, <3>2
    <2> QED
        BY <1>2, <2>1, <2>2 DEF ReturnToRoot, MadeOf, queue
<1>3. CASE Attach(c)
    <2>1. JobGiven(G)'
        BY <1>0, <1>3, NoText DEF Attach
    <2>2. Top(stack).node \in 1..n
        <3>1. stack # <<>>
            BY <1>3 DEF Attach, IInv, WriterResumes, Bound
        <3> QED
            BY <1>0, <3>1, TopFrame DEF Addresses
    <2>3. HeapGiven(heap', G)
        BY <1>0, <1>3, <2>2, GivenAttached DEF Attach
    <2> QED
        BY <1>3, <2>1, <2>3 DEF Attach, MadeOf, queue
<1> QED
    BY <1>1, <1>2, <1>3

LEMMA StoreGiven ==
    ASSUME IInv, NEW G, MadeOf(G), NEW c \in Coroutines, StoreChild(c) \/ StoreNode(c)
    PROVE  MadeOf(G)'
<1>1. CASE StoreChild(c)
    <2>1. JobGiven(G)'
        BY <1>1, FrameText DEF StoreChild, IInv, Running
    <2> QED
        BY <1>1, <2>1 DEF StoreChild, MadeOf, queue, tree
<1>2. CASE StoreNode(c)
    <2>1. TextGiven(job'.hash, G)
        <3>1. pc[c] = "store" /\ job'.hash = Serialise(heap[at])
            BY <1>2 DEF StoreNode
        <3>2. IsNode(heap[at], Len(heap)) /\ NodeGiven(heap[at], G)
            BY <3>1 DEF IInv, TypeOK, IsHeap, Addresses, MadeOf, HeapGiven
        <3> QED
            BY <3>1, <3>2, SerialisedGiven
    <2>2. JobGiven(G)'
        BY <2>1 DEF JobGiven
    <2> QED
        BY <1>2, <2>2 DEF StoreNode, MadeOf, queue, tree, frame
<1> QED
    BY <1>1, <1>2

LEMMA AnswerGiven ==
    ASSUME IInv, NEW G, MadeOf(G), NEW c \in Coroutines, Answer(c)
    PROVE  MadeOf(G)'
<1>0. pc[c] \in {"adding", "pinning", "removing"} /\ pc[c] # "ready"
    BY DEF Answer, Added, Pinned, StoreFailed, Removed, RemoveFailed
<1>1. CASE Added(c)
    <2>1. TextGiven(job.hash, G)
        BY <1>1 DEF Added, MadeOf, JobGiven
    <2>2. JobGiven(G)'
        BY <1>1, <2>1 DEF Added, JobGiven
    <2> QED
        BY <1>1, <2>2 DEF Added, MadeOf, queue, tree, frame
<1>2. CASE Pinned(c)
    <2>1. TextGiven(job.hash, G)
        BY <1>2 DEF Pinned, MadeOf, JobGiven
    <2>2. CASE stack = <<>>
        <3>1. JobGiven(G)'
            BY <1>0, <1>2, <2>2, NoText DEF Pinned
        <3> QED
            BY <1>2, <2>1, <2>2, <3>1 DEF Pinned, MadeOf, queue
    <2>3. CASE stack # <<>>
        <3>1. JobGiven(G)'
            BY <1>0, <1>2, <2>3, NoText DEF Pinned
        <3>2. Top(stack).node \in 1..Len(heap)
            BY <2>3, TopFrame DEF IInv, TypeOK, Addresses
        <3>3. heap' = [heap EXCEPT ![Top(stack).node][Top(stack).id].hash = job.hash]
            BY <1>2, <2>3 DEF Pinned, Stored
        <3>4. HeapGiven(heap', G)
            BY <2>1, <3>2, <3>3, GivenHash DEF IInv, TypeOK, MadeOf
        <3> QED
            BY <1>2, <2>3, <3>1, <3>4 DEF Pinned, MadeOf, queue
    <2> QED
        BY <2>2, <2>3
<1>3. CASE StoreFailed(c)
    <2>1. JobGiven(G)'
        BY <1>0, <1>3, NoText DEF StoreFailed
    <2> QED
        BY <1>3, <2>1 DEF StoreFailed, MadeOf, tree
<1>4. CASE Removed(c) \/ RemoveFailed(c)
    <2>1. job.next \in {"store", "splitRest", "attach"} /\ Goto(c, job.next)
        BY <1>4 DEF Removed, RemoveFailed, IInv, WriterResumes
    <2>2. JobGiven(G)'
        BY <1>0, <2>1, NoText
    <2> QED
        BY <1>4, <2>2 DEF Removed, RemoveFailed, MadeOf, queue, tree, frame
<1> QED
    BY <1>1, <1>2, <1>3, <1>4 DEF Answer

--------------------------------------------------------------------------
\* The finds

LEMMA FindKeeps ==
    ASSUME NEW r, NEW n \in Nat, NEW m \in Nat, n <= m, NEW G, NEW H, G \subseteq H,
           FindGiven(r, n, G)
    PROVE  FindGiven(r, m, H)
BY TextGrows DEF FindGiven

LEMMA EndedGiven ==
    ASSUME NEW k \in Ids, NEW pc_ \in {"rest", "not_found", "error"}, NEW n, NEW G, NEW v
    PROVE  FindGiven(Ended(k, pc_, v), n, G) /\ Ended(k, pc_, v).pc # "fetching"
BY DEF Ended, FindGiven, IsFind, Null

LEMMA FoundGiven ==
    ASSUME NEW k \in Ids, NEW n, NEW G, NEW v, <<k, v>> \in G
    PROVE  FindGiven(Ended(k, "found", v), n, G) /\ Ended(k, "found", v).pc # "fetching"
BY DEF Ended, FindGiven, IsFind, Null

LEMMA SearchingGiven ==
    ASSUME NEW k \in Keys, NEW n \in Nat, NEW a \in 1..n, NEW G
    PROVE  FindGiven(Searching(k, a), n, G) /\ Searching(k, a).pc # "fetching"
<1> DEFINE r == Searching(k, a)
<1>1. r = [pc |-> "walking", key |-> k, slot |-> [node |-> Null, id |-> Inf],
           hash |-> NoHash, node |-> a, lost |-> FALSE, answer |-> NoValue]
    <2> DEFINE start == Ended(k, "walking", NoValue)
    <2>1. start = [pc |-> "walking", key |-> k, slot |-> [node |-> Null, id |-> Inf],
                   hash |-> NoHash, node |-> Null, lost |-> FALSE, answer |-> NoValue]
        BY DEF Ended
    <2>2. r = [start EXCEPT !.node = a]
        BY DEF Searching
    <2> HIDE DEF start, r
    <2> QED
        BY <2>1, <2>2
<1>2. IsFind(r) /\ r.pc = "walking" /\ r.key = k /\ r.node = a
    BY <1>1 DEF IsFind, Ids
<1> HIDE DEF r
<1>3. FindGiven(r, n, G) /\ r.pc # "fetching"
    BY <1>2 DEF FindGiven
<1> QED
    BY <1>3 DEF r

LEMMA FetchingGiven ==
    ASSUME NEW k \in Keys, NEW n \in Nat, NEW a \in 1..n, NEW G, NEW slot,
           NEW hash, TextGiven(hash, G)
    PROVE  FindGiven(Fetching(k, slot, hash, a), n, G) /\ Fetching(k, slot, hash, a).slot = slot
<1> DEFINE r == Fetching(k, slot, hash, a)
<1>1. r = [pc |-> "fetching", key |-> k, slot |-> slot,
           hash |-> hash, node |-> a, lost |-> FALSE, answer |-> NoValue]
    <2> DEFINE start == Ended(k, "fetching", NoValue)
    <2>1. start = [pc |-> "fetching", key |-> k, slot |-> [node |-> Null, id |-> Inf],
                   hash |-> NoHash, node |-> Null, lost |-> FALSE, answer |-> NoValue]
        BY DEF Ended
    <2>2. r = [start EXCEPT !.slot = slot, !.hash = hash, !.node = a]
        BY DEF Fetching
    <2> HIDE DEF start, r
    <2> QED
        BY <2>1, <2>2
<1>2. IsFind(r) /\ r.pc = "fetching" /\ r.key = k /\ r.node = a /\ r.hash = hash
      /\ r.slot = slot
    BY <1>1 DEF IsFind, Ids
<1> HIDE DEF r
<1>3. FindGiven(r, n, G) /\ r.slot = slot
    BY <1>2 DEF FindGiven
<1> QED
    BY <1>3 DEF r

\* One find moves on while the others wait.
LEMMA OneFindMoves ==
    ASSUME Len(heap) \in Nat, Len(heap') \in Nat, Len(heap) <= Len(heap'),
           NEW G, FindsGiven(Len(heap), G), NEW f \in Finders, NEW r,
           FindGiven(r, Len(heap'), G), finder' = [finder EXCEPT ![f] = r]
    PROVE  FindsGiven(Len(heap), G)'
<1>1. \A g \in Finders : finder'[g] = IF g = f THEN r ELSE finder[g]
    BY DEF FindsGiven
<1>2. finder' \in [Finders -> {finder'[g] : g \in Finders}]
    BY DEF FindsGiven
<1>3. ASSUME NEW g \in Finders PROVE FindGiven(finder'[g], Len(heap'), G)
    <2>1. FindGiven(finder[g], Len(heap'), G)
        BY FindKeeps DEF FindsGiven
    <2> QED
        BY <1>1, <2>1
<1> QED
    BY <1>2, <1>3 DEF FindsGiven

\* A find that loses its slot is otherwise the one it was.
LEMMA OnlyLost ==
    ASSUME NEW r, IsFind(r), NEW b
    PROVE  LET s == [r EXCEPT !.lost = b]
           IN  /\ IsFind(s) /\ s.pc = r.pc /\ s.key = r.key /\ s.node = r.node
               /\ s.hash = r.hash /\ s.answer = r.answer /\ s.slot = r.slot /\ s.lost = b
BY DEF IsFind

LEMMA LostGiven ==
    ASSUME NEW r, NEW n, NEW G, FindGiven(r, n, G), NEW b
    PROVE  FindGiven([r EXCEPT !.lost = b], n, G)
<1> PICK s : s = [r EXCEPT !.lost = b]
    OBVIOUS
<1>1. IsFind(s) /\ s.pc = r.pc /\ s.key = r.key /\ s.node = r.node /\ s.hash = r.hash
      /\ s.answer = r.answer
    BY OnlyLost DEF FindGiven
<1>2. FindGiven(s, n, G)
    BY <1>1 DEF FindGiven
<1> QED
    BY <1>2

\* The slot was freed, or its entry is in another node.
LeftBehind(slot) ==
    /\ slot.node # Null
    /\ \/ slot.node \in UNION {Owned(heap, a) : a \in Released}
       \/ slot.id \notin DOMAIN heap'[slot.node]

LEMMA FollowedMoves ==
    Followed =>
        finder' = [f \in Finders |->
            [finder[f] EXCEPT !.lost = finder[f].lost \/ LeftBehind(finder[f].slot)]]
BY DEF Followed, LeftBehind

\* An insert may take a slot away from a find and nothing else.
LEMMA FollowedGiven ==
    ASSUME Len(heap) \in Nat, Len(heap') \in Nat, Len(heap) <= Len(heap'),
           NEW G, NEW H, G \subseteq H, FindsGiven(Len(heap), G), Followed
    PROVE  FindsGiven(Len(heap), H)'
<1> DEFINE Left(f) == finder[f].lost \/ LeftBehind(finder[f].slot)
<1>1. finder' = [f \in Finders |-> [finder[f] EXCEPT !.lost = Left(f)]]
    BY FollowedMoves
<1> HIDE DEF Left
<1>2. finder' \in [Finders -> {finder'[f] : f \in Finders}]
    BY <1>1
<1>3. ASSUME NEW f \in Finders PROVE FindGiven(finder'[f], Len(heap'), H)
    <2>1. FindGiven(finder[f], Len(heap'), H)
        BY FindKeeps DEF FindsGiven
    <2> PICK b : b = Left(f)
        OBVIOUS
    <2>2. FindGiven([finder[f] EXCEPT !.lost = b], Len(heap'), H)
        BY <2>1, LostGiven
    <2> QED
        BY <1>1, <2>2
<1> QED
    BY <1>2, <1>3 DEF FindsGiven

--------------------------------------------------------------------------
\* The slots of the finds that fetch

\* No entry that stays in its node loses its child.
ChildrenStay(node, new) ==
    \A i \in DOMAIN node \cap DOMAIN new : node[i].child # Null => new[i].child # Null

SlotsStay(h, g, S) == \A a \in (1..Len(h)) \ S : ChildrenStay(h[a], g[a])

LEMMA StaysPut ==
    ASSUME NEW n, NEW h, IsHeap(h, n), NEW S, NEW p, NEW node,
           p \in (1..Len(h)) \ S => ChildrenStay(h[p], node)
    PROVE  SlotsStay(h, [h EXCEPT ![p] = node], S)
<1>1. DOMAIN h = 1..Len(h)
    BY DEF IsHeap
<1> QED
    BY <1>1 DEF SlotsStay, ChildrenStay

LEMMA StaysAlloc ==
    ASSUME NEW n, NEW h, IsHeap(h, n), NEW S, NEW g, IsHeap(g, n), Len(g) = Len(h),
           SlotsStay(h, g, S), NEW node
    PROVE  SlotsStay(h, Alloc(g, node), S)
<1>1. \A a \in 1..Len(h) : Append(g, node)[a] = g[a]
    BY DEF IsHeap
<1> QED
    BY <1>1 DEF SlotsStay, Alloc

\* Node::insert, split and store take a child out of a slot only in the nodes they
\* replace, and take no root away.
LEMMA WriterStays ==
    ASSUME IInv, NEW c \in Coroutines, Step(c) \/ Answer(c)
    PROVE  SlotsStay(heap, heap', Released) /\ (rootNode # Null => rootNode' # Null)
<1> DEFINE n == Len(heap)
           S == Released
<1>0. n \in Nat /\ IsHeap(heap, n) /\ \A a \in 1..n : IsNode(heap[a], n)
    BY HeapLen DEF IInv, TypeOK, IsHeap
<1>1. CASE UNCHANGED tree
    BY <1>1 DEF tree, SlotsStay, ChildrenStay
<1>2. CASE Pick(c)
    <2>1. heap' = heap \/ heap' = Alloc(heap, EmptyMap)
        BY <1>2 DEF Pick
    <2>2. SlotsStay(heap, heap, S)
        BY DEF SlotsStay, ChildrenStay
    <2>3. SlotsStay(heap, heap', S)
        BY <1>0, <2>1, <2>2, StaysAlloc
    <2>4. rootNode # Null => rootNode' # Null
        BY <1>2 DEF Pick, NoRootNode
    <2> QED
        BY <2>3, <2>4
<1>3. CASE InsertAtLeaf(c)
    <2> DEFINE new == WithNew(heap[at], item.key, Entry(item.value, Null, NoHash))
    <2>1. heap' = [heap EXCEPT ![at] = new] /\ rootNode' = rootNode
        BY <1>3 DEF InsertAtLeaf
    <2>2. ChildrenStay(heap[at], new)
        BY DEF ChildrenStay, WithNew
    <2> HIDE DEF new
    <2> QED
        BY <1>0, <2>1, <2>2, StaysPut
<1>4. CASE OverwriteValue(c)
    <2> DEFINE new == [heap[at] EXCEPT ![item.key].value = item.value]
    <2>1. heap' = [heap EXCEPT ![at] = new] /\ rootNode' = rootNode
        BY <1>4 DEF OverwriteValue
    <2>2. at \in 1..n => ChildrenStay(heap[at], new)
        BY <1>0 DEF ChildrenStay, IsNode, IsEntry
    <2> HIDE DEF new
    <2> QED
        BY <1>0, <2>1, <2>2, StaysPut
<1>5. CASE GoDown(c)
    <2> DEFINE i    == LowerBound(heap[at], item.key)
               here == WithNew(heap[at], i, Entry(NoValue, Null, NoHash))
               new  == With(here, i, [here[i] EXCEPT !.child = n + 1])
    <2>1. ChildrenStay(heap[at], here)
        BY DEF ChildrenStay, WithNew
    <2>2. at \in 1..n => ChildrenStay(heap[at], new)
        <3>1. ASSUME at \in 1..n, NEW j \in DOMAIN heap[at], heap[at][j].child # Null
              PROVE  new[j].child # Null
            <4>1. here[j] = heap[at][j] /\ IsEntry(heap[at][j], n) /\ j \in DOMAIN here
                BY <1>0, <3>1 DEF WithNew, IsNode
            <4>2. new[j] = IF j = i THEN [here[i] EXCEPT !.child = n + 1] ELSE here[j]
                BY <4>1 DEF With
            <4>3. CASE j = i
                <5>1. IsEntry(here[j], n) /\ new[j] = [here[j] EXCEPT !.child = n + 1]
                    BY <4>1, <4>2, <4>3
                <5>2. new[j].child = n + 1
                    BY ONLY <5>1 DEF IsEntry
                <5> QED
                    BY <1>0, <5>2 DEF Null
            <4> QED
                BY <3>1, <4>1, <4>2, <4>3
        <3> QED
            BY <3>1 DEF ChildrenStay
    <2>3. /\ rootNode' = rootNode
          /\ \/ heap' = Alloc([heap EXCEPT ![at] = new], EmptyMap)
             \/ heap' = [heap EXCEPT ![at] = here]
        BY <1>5 DEF GoDown, NewAddress
    <2>4. CASE heap' = [heap EXCEPT ![at] = here]
        <3> HIDE DEF here
        <3> QED
            BY <1>0, <2>1, <2>3, <2>4, StaysPut
    <2>5. CASE heap' = Alloc([heap EXCEPT ![at] = new], EmptyMap)
        <3> PICK g : g = [heap EXCEPT ![at] = new]
            OBVIOUS
        <3> HIDE DEF new
        <3>1. SlotsStay(heap, g, S)
            BY <1>0, <2>2, StaysPut
        <3>2. \A a \in 1..n : Append(g, EmptyMap)[a] = g[a]
            BY <1>0 DEF IsHeap
        <3> QED
            BY <2>3, <2>5, <3>1, <3>2 DEF SlotsStay, Alloc
    <2> QED
        BY <2>3, <2>4, <2>5
<1>6. CASE SplitStart(c)
    <2> DEFINE left == n + 1
               m    == Median(heap[at])
               new  == MedianAndRest(heap[at], left)
    <2>1. /\ rootNode' = rootNode
          /\ heap' = Alloc([heap EXCEPT ![at] = new], LeftPart(heap[at]))
        BY <1>6 DEF SplitStart, NewAddress
    <2>2. ChildrenStay(heap[at], new)
        <3>1. new = With(Only(heap[at], {j \in Ids : ~Before(j, m)}), m,
                         Entry(heap[at][m].value, left, NoHash))
            BY DEF MedianAndRest
        <3> HIDE DEF m, new
        <3>2. left # Null
            BY <1>0 DEF Null
        <3> QED
            BY <3>1, <3>2 DEF ChildrenStay, With, Only, Entry
    <2> PICK g : g = [heap EXCEPT ![at] = new]
        OBVIOUS
    <2> HIDE DEF new
    <2>3. SlotsStay(heap, g, S)
        BY <1>0, <2>2, StaysPut
    <2>4. \A a \in 1..n : Append(g, LeftPart(heap[at]))[a] = g[a]
        BY <1>0 DEF IsHeap
    <2> QED
        BY <2>1, <2>3, <2>4 DEF SlotsStay, Alloc
<1>7. CASE SplitRest(c)
    <2>1. heap' = [heap EXCEPT ![at] = EmptyMap] /\ rootNode' = rootNode
        BY <1>7 DEF SplitRest, Erased
    <2>2. ChildrenStay(heap[at], EmptyMap)
        BY DEF ChildrenStay, EmptyMap
    <2> QED
        BY <1>0, <2>1, <2>2, StaysPut
<1>8. CASE ReturnToParent(c)
    <2> DEFINE p   == Top(stack).node
               i   == Top(stack).id
               new == [heap[p] EXCEPT ![i].hash = NoHash]
    <2>1. heap' = [heap EXCEPT ![p] = new] /\ rootNode' = rootNode
        BY <1>8 DEF ReturnToParent
    <2>2. p \in 1..n => ChildrenStay(heap[p], new)
        <3> HIDE DEF p, i
        <3> QED
            BY <1>0 DEF ChildrenStay, IsNode, IsEntry
    <2> HIDE DEF new
    <2> QED
        BY <1>0, <2>1, <2>2, StaysPut
<1>9. CASE ReturnToRoot(c)
    <2>1. CASE carry = NoSplit
        BY <1>1, <1>9, <2>1 DEF ReturnToRoot, tree
    <2>2. CASE carry # NoSplit
        <3> DEFINE new == With(With(EmptyMap, carry.id, carry.entry),
                               Inf, Entry(NoValue, NewAddress(heap), NoHash))
        <3>1. heap' = Alloc([heap EXCEPT ![rootNode] = new], carry.right) /\ rootNode' = rootNode
            BY <1>9, <2>2 DEF ReturnToRoot
        <3>2. rootNode \in 1..n => rootNode \in S
            BY <1>9, <2>2 DEF ReturnToRoot, Released, Addresses
        <3> PICK g : g = [heap EXCEPT ![rootNode] = new]
            OBVIOUS
        <3> HIDE DEF new, S
        <3>3. SlotsStay(heap, g, S)
            BY <1>0, <3>2, StaysPut
        <3>4. \A a \in 1..n : Append(g, carry.right)[a] = g[a]
            BY <1>0 DEF IsHeap
        <3> QED
            BY <3>1, <3>3, <3>4 DEF SlotsStay, Alloc, S
    <2> QED
        BY <2>1, <2>2
<1>10. CASE Attach(c)
    <2>1. CASE carry = NoSplit
        BY <1>1, <1>10, <2>1 DEF Attach, tree
    <2>2. CASE carry # NoSplit
        <3> DEFINE p    == Top(stack).node
                   node == WithNew(heap[p], carry.id, carry.entry)
                   x    == node[First(Successors(node, carry.id))].child
        <3>1. /\ heap' = [heap EXCEPT ![p] = node, ![x] = carry.right]
              /\ rootNode' = rootNode /\ pc[c] = "attach"
            BY <1>10, <2>2 DEF Attach, Attached
        <3>2. x \in 1..n => x \in S
            BY <2>2, <3>1 DEF Released, Addresses
        <3>3. ChildrenStay(heap[p], node)
            BY DEF ChildrenStay, WithNew
        <3> HIDE DEF x, node, p, S
        <3>4. \A a \in 1..n : heap'[a] = IF a = x THEN carry.right
                                       ELSE IF a = p THEN node ELSE heap[a]
            BY <1>0, <3>1 DEF IsHeap
        <3>5. SlotsStay(heap, heap', S)
            BY <3>2, <3>3, <3>4 DEF SlotsStay, ChildrenStay
        <3> QED
            BY <3>1, <3>5 DEF S
    <2> QED
        BY <2>1, <2>2
<1>11. CASE Pinned(c)
    <2>1. CASE stack = <<>>
        BY <1>1, <1>11, <2>1 DEF Pinned, tree
    <2>2. CASE stack # <<>>
        <3> DEFINE p   == Top(stack).node
                   i   == Top(stack).id
                   new == [heap[p] EXCEPT ![i].hash = job.hash]
        <3>1. heap' = [heap EXCEPT ![p][i] = Stored(@, job.hash)] /\ rootNode' = rootNode
            BY <1>11, <2>2 DEF Pinned
        <3> HIDE DEF p, i
        <3>2. heap' = [heap EXCEPT ![p] = [@ EXCEPT ![i] = Stored(heap[p][i], job.hash)]]
            BY <3>1
        <3>3. p \in 1..n => ChildrenStay(heap[p], [heap[p] EXCEPT ![i] = Stored(heap[p][i], job.hash)])
            BY <1>0 DEF ChildrenStay, IsNode, IsEntry, Stored
        <3> PICK node : node = [heap[p] EXCEPT ![i] = Stored(heap[p][i], job.hash)]
            OBVIOUS
        <3>4. heap' = [heap EXCEPT ![p] = node] /\ (p \in 1..n => ChildrenStay(heap[p], node))
            BY <3>2, <3>3
        <3> QED
            <4>1. SlotsStay(heap, [heap EXCEPT ![p] = node], S)
                <5> HIDE DEF S
                <5> QED
                    BY <1>0, <3>4, StaysPut
            <4> QED
                BY <3>1, <3>4, <4>1
    <2> QED
        BY <2>1, <2>2
<1>12. CASE TakeBuffer(c) \/ InsertDone(c) \/ Flush(c) \/ NoNeedToSplit(c) \/ StoreChild(c) \/ StoreNode(c)
    BY <1>1, <1>12 DEF TakeBuffer, InsertDone, Flush, NoNeedToSplit, StoreChild, StoreNode
<1>13. CASE Added(c) \/ StoreFailed(c) \/ Removed(c) \/ RemoveFailed(c)
    BY <1>1, <1>13 DEF Added, StoreFailed, Removed, RemoveFailed
<1> QED
    BY <1>2, <1>3, <1>4, <1>5, <1>6, <1>7, <1>8, <1>9, <1>10, <1>11, <1>12, <1>13
       DEF Step, Answer

LEMMA OwnsItself == \A h, a : a \in Owned(h, a)
BY DEF Owned

\* What a step has to leave to a find that fetches
LEMMA SlotsFollow ==
    ASSUME SlotsLead, Len(heap) \in Nat, Len(heap') \in Nat, Len(heap) <= Len(heap'),
           rootNode # Null => rootNode' # Null, NEW S, SlotsStay(heap, heap', S),
           \A g \in Finders :
               finder'[g].pc = "fetching" /\ ~finder'[g].lost =>
                   \/ HoldsNode(finder'[g].slot, heap', rootNode')
                   \/ /\ finder[g].pc = "fetching" /\ ~finder[g].lost
                      /\ finder'[g].slot = finder[g].slot
                      /\ finder[g].slot.node # Null =>
                           /\ finder[g].slot.node \notin S
                           /\ finder[g].slot.id \in DOMAIN heap'[finder[g].slot.node]
    PROVE  SlotsLead'
<1> SUFFICES ASSUME NEW g \in Finders, finder'[g].pc = "fetching", ~finder'[g].lost
             PROVE  HoldsNode(finder'[g].slot, heap', rootNode')
    BY DEF SlotsLead
<1>1. CASE HoldsNode(finder'[g].slot, heap', rootNode')
    BY <1>1
<1>2. CASE /\ finder[g].pc = "fetching" /\ ~finder[g].lost
           /\ finder'[g].slot = finder[g].slot
           /\ finder[g].slot.node # Null =>
                /\ finder[g].slot.node \notin S
                /\ finder[g].slot.id \in DOMAIN heap'[finder[g].slot.node]
    <2> PICK s : s = finder[g].slot
        OBVIOUS
    <2>1. HoldsNode(s, heap, rootNode)
        BY <1>2 DEF SlotsLead
    <2>2. s.node # Null => s.node \notin S /\ s.id \in DOMAIN heap'[s.node]
        BY <1>2
    <2>3. HoldsNode(s, heap', rootNode')
        <3>1. CASE s = RootSlot /\ rootNode # Null
            BY <3>1 DEF HoldsNode
        <3>2. CASE /\ s.node \in 1..Len(heap) /\ s.id \in DOMAIN heap[s.node]
                   /\ heap[s.node][s.id].child # Null
            <4>1. s.node # Null /\ s.node \in 1..Len(heap')
                BY <3>2 DEF Null
            <4>2. ChildrenStay(heap[s.node], heap'[s.node])
                BY <2>2, <3>2, <4>1 DEF SlotsStay
            <4> QED
                BY <2>2, <3>2, <4>1, <4>2 DEF ChildrenStay, HoldsNode
        <3> QED
            BY <2>1, <3>1, <3>2 DEF HoldsNode
    <2> QED
        BY <1>2, <2>3
<1> QED
    BY <1>1, <1>2

\* The inserts take a slot away only from a find that is then lost.
LEMMA SlotsFollowed ==
    ASSUME SlotsLead, NEW G, FindsGiven(Len(heap), G), Followed,
           Len(heap) \in Nat, Len(heap') \in Nat, Len(heap) <= Len(heap'),
           rootNode # Null => rootNode' # Null, SlotsStay(heap, heap', Released)
    PROVE  SlotsLead'
<1>1. ASSUME NEW g \in Finders, finder'[g].pc = "fetching", ~finder'[g].lost
      PROVE  /\ finder[g].pc = "fetching" /\ ~finder[g].lost
             /\ finder'[g].slot = finder[g].slot
             /\ finder[g].slot.node # Null =>
                  /\ finder[g].slot.node \notin Released
                  /\ finder[g].slot.id \in DOMAIN heap'[finder[g].slot.node]
    <2> PICK b : b = (finder[g].lost \/ LeftBehind(finder[g].slot))
        OBVIOUS
    <2>1. finder'[g] = [finder[g] EXCEPT !.lost = b]
        BY FollowedMoves
    <2>2. IsFind(finder[g])
        BY DEF FindsGiven, FindGiven
    <2>3. finder'[g].pc = finder[g].pc /\ finder'[g].slot = finder[g].slot /\ finder'[g].lost = b
        BY <2>1, <2>2, OnlyLost
    <2>4. ~finder[g].lost /\ ~LeftBehind(finder[g].slot)
        BY <1>1, <2>3
    <2> QED
        BY <1>1, <2>3, <2>4, OwnsItself DEF LeftBehind
<1> QED
    BY <1>1, SlotsFollow

--------------------------------------------------------------------------
\* What the finds do to the tree

\* The writer's invariants survive a change of the heap between its steps, unless
\* the node it splits loses its keys.
LEMMA WriterUndisturbed ==
    ASSUME IInv, UNCHANGED writer,
           Len(heap') \in Nat, Len(heap) <= Len(heap'), IsHeap(heap', Len(heap')),
           rootNode' \in 0..Len(heap'), rootNode # Null => rootNode' = rootNode,
           \A c \in Coroutines : Bound(c, "splitRest") => DOMAIN heap'[at] \ {Inf} # {}
    PROVE  IInv'
<1>0. UNCHANGED <<buffer, isInserting, batch, item, rootHash, at, stack, carry, job, pinned, pc>>
    BY DEF writer, queue, frame
<1>1. /\ Len(heap) \in Nat
      /\ 0..Len(heap) \subseteq 0..Len(heap') /\ Addresses \subseteq Addresses'
    BY HeapLen DEF IInv, TypeOK, Addresses
<1>2. stack' \in Seq([node : Addresses', id : Ids])
    BY <1>0, <1>1, SeqMonotonic DEF IInv, TypeOK
<1>3. carry' = NoSplit \/ IsCarry(carry', Len(heap'))
    BY <1>0, <1>1, EntryMonotone, NodeMonotone DEF IInv, TypeOK, IsCarry
<1>4. \A c \in Coroutines : pc'[c] \notin {"ready", "loop", "pick"} => at' \in Addresses'
    BY <1>0, <1>1 DEF IInv, TypeOK
<1>5. TypeOK'
    BY <1>0, <1>2, <1>3, <1>4 DEF IInv, TypeOK
<1>6. SingleWriter'
    BY <1>0 DEF IInv, SingleWriter
<1>7. WriterResumes'
    BY <1>0 DEF IInv, WriterResumes, Bound
<1> QED
    BY <1>5, <1>6, <1>7 DEF IInv

LEMMA MadeUndisturbed ==
    ASSUME NEW G, MadeOf(G), UNCHANGED writer, HeapGiven(heap', G)
    PROVE  MadeOf(G)'
BY DEF MadeOf, JobGiven, writer, queue, frame

\* A find that moves on leaves the tree as it is.
LEMMA OnlyFindMoves ==
    ASSUME IInv, NEW G, MadeOf(G), FindsGiven(Len(heap), G), SlotsLead,
           UNCHANGED <<writer, tree>>, NEW f \in Finders, NEW r, FindGiven(r, Len(heap), G),
           r.pc # "fetching", finder' = [finder EXCEPT ![f] = r]
    PROVE  IInv' /\ MadeOf(G)' /\ SlotsLead' /\ FindsGiven(Len(heap), G)'
<1>1. IInv'
    BY DEF writer, queue, frame, tree, IInv, TypeOK, SingleWriter, WriterResumes, Bound,
           Addresses
<1>2. MadeOf(G)'
    <2>1. HeapGiven(heap', G)
        BY DEF tree, MadeOf
    <2> QED
        BY <2>1, MadeUndisturbed
<1>3. FindsGiven(Len(heap), G)'
    <2>1. Len(heap) \in Nat /\ Len(heap') = Len(heap)
        BY HeapLen DEF IInv, TypeOK, tree
    <2>2. Len(heap') \in Nat /\ Len(heap) <= Len(heap') /\ FindGiven(r, Len(heap'), G)
        BY <2>1
    <2> QED
        BY <2>1, <2>2, OneFindMoves
<1>4. SlotsLead'
    <2>1. \A g \in Finders : finder'[g] = IF g = f THEN r ELSE finder[g]
        BY DEF FindsGiven
    <2> QED
        BY <2>1 DEF SlotsLead, tree
<1> QED
    BY <1>1, <1>2, <1>3, <1>4

\* A find that waits from now on has just filled its slot; the others keep theirs.
LEMMA OneFindWaits ==
    ASSUME SlotsLead, NEW G, FindsGiven(Len(heap), G), Len(heap) \in Nat, Len(heap') \in Nat,
           Len(heap) <= Len(heap'), rootNode # Null => rootNode' # Null,
           SlotsStay(heap, heap', {}), \A a \in 1..Len(heap) : DOMAIN heap'[a] = DOMAIN heap[a],
           NEW f \in Finders, NEW r, finder' = [finder EXCEPT ![f] = r],
           HoldsNode(r.slot, heap', rootNode')
    PROVE  SlotsLead'
<1>1. \A g \in Finders : finder'[g] = IF g = f THEN r ELSE finder[g]
    BY DEF FindsGiven
<1>2. ASSUME NEW g \in Finders, finder'[g].pc = "fetching", ~finder'[g].lost, g # f,
             finder[g].slot.node # Null
      PROVE  finder[g].slot.id \in DOMAIN heap'[finder[g].slot.node]
    <2> PICK s : s = finder[g].slot
        OBVIOUS
    <2>1. HoldsNode(s, heap, rootNode)
        BY <1>1, <1>2 DEF SlotsLead
    <2>2. s.node \in 1..Len(heap) /\ s.id \in DOMAIN heap[s.node]
        BY <1>2, <2>1 DEF HoldsNode, RootSlot
    <2> QED
        BY <2>2
<1> QED
    BY <1>1, <1>2, SlotsFollow

\* Node::find
LEMMA SearchKeeps ==
    ASSUME IInv, NEW G, MadeOf(G), FindsGiven(Len(heap), G), SlotsLead,
           NEW f \in Finders, Search(f)
    PROVE  IInv' /\ MadeOf(G)' /\ SlotsLead' /\ FindsGiven(Len(heap), G)'
<1> DEFINE k == finder[f].key
           a == finder[f].node
           n == Len(heap)
           i == LowerBound(heap[a], k)
           e == heap[a][i]
<1>0. /\ n \in Nat /\ IsHeap(heap, n) /\ HeapGiven(heap, G) /\ finder[f].pc = "walking"
      /\ k \in Keys /\ a \in 1..n /\ IsNode(heap[a], n) /\ NodeGiven(heap[a], G)
      /\ k \in Ids
    <2>1. finder[f].pc = "walking"
        BY DEF Search
    <2>2. FindGiven(finder[f], n, G)
        BY DEF FindsGiven
    <2>3. k \in Keys /\ a \in 1..n
        BY <2>1, <2>2 DEF FindGiven
    <2> QED
        BY <2>1, <2>3, HeapLen DEF IInv, TypeOK, IsHeap, MadeOf, HeapGiven, Ids
<1>1. /\ UNCHANGED <<writer, rootNode>>
      /\ IF AtOrAfter(heap[a], k) = {} THEN Replies(f, "not_found", NoValue)
         ELSE IF IsTheKey(i, k) THEN Replies(f, "found", e.value)
         ELSE IF e.child # Null
         THEN finder' = [finder EXCEPT ![f] = Searching(k, e.child)] /\ UNCHANGED heap
         ELSE IF e.hash = NoHash THEN Replies(f, "not_found", NoValue)
         ELSE /\ finder' = [finder EXCEPT ![f] =
                   Fetching(k, [node |-> a, id |-> i], e.hash, NewAddress(heap))]
              /\ heap' = Alloc([heap EXCEPT ![a][i].child = NewAddress(heap)], EmptyMap)
    BY DEF Search
<1>2. ASSUME AtOrAfter(heap[a], k) # {}
      PROVE  /\ i \in DOMAIN heap[a] /\ IsEntry(e, n) /\ EntryGiven(i, e, G)
    <2>1. DOMAIN heap[a] \subseteq Ids /\ IsFiniteSet(DOMAIN heap[a])
        BY <1>0 DEF IsNode
    <2>2. i \in DOMAIN heap[a]
        BY <1>0, <1>2, <2>1, LowerBoundFinds
    <2> HIDE DEF i, a
    <2> QED
        BY <1>0, <2>2 DEF IsNode, NodeGiven
<1>3. ASSUME NEW r, FindGiven(r, n, G), r.pc # "fetching",
             finder' = [finder EXCEPT ![f] = r], UNCHANGED heap
      PROVE  IInv' /\ MadeOf(G)' /\ SlotsLead' /\ FindsGiven(Len(heap), G)'
    <2>1. UNCHANGED <<writer, tree>>
        BY <1>1, <1>3 DEF tree
    <2> QED
        BY <1>3, <2>1, OnlyFindMoves
<1>4. CASE \E v : Replies(f, "not_found", v)
    <2>1. PICK v : Replies(f, "not_found", v)
        BY <1>4
    <2>2. FindGiven(Ended(k, "not_found", v), n, G) /\ Ended(k, "not_found", v).pc # "fetching"
        BY <1>0, EndedGiven
    <2> QED
        BY <1>3, <2>1, <2>2 DEF Replies
<1>5. CASE /\ AtOrAfter(heap[a], k) # {} /\ IsTheKey(i, k)
           /\ Replies(f, "found", e.value)
    <2>1. <<k, e.value>> \in G
        BY <1>0, <1>2, <1>5, KeysAssumption DEF IsTheKey, EntryGiven
    <2>2. /\ FindGiven(Ended(k, "found", e.value), n, G)
          /\ Ended(k, "found", e.value).pc # "fetching"
        BY <1>0, <2>1, FoundGiven
    <2> QED
        BY <1>3, <1>5, <2>2 DEF Replies
<1>6. CASE /\ AtOrAfter(heap[a], k) # {} /\ e.child # Null
           /\ finder' = [finder EXCEPT ![f] = Searching(k, e.child)] /\ UNCHANGED heap
    <2>1. e.child \in 1..n
        BY <1>0, <1>2, <1>6 DEF IsEntry, Null
    <2>2. FindGiven(Searching(k, e.child), n, G) /\ Searching(k, e.child).pc # "fetching"
        BY <1>0, <2>1, SearchingGiven
    <2> QED
        BY <1>3, <1>6, <2>2
<1>7. CASE /\ AtOrAfter(heap[a], k) # {} /\ e.hash # NoHash
           /\ finder' = [finder EXCEPT ![f] =
                 Fetching(k, [node |-> a, id |-> i], e.hash, NewAddress(heap))]
           /\ heap' = Alloc([heap EXCEPT ![a][i].child = NewAddress(heap)], EmptyMap)
    <2> DEFINE x    == [e EXCEPT !.child = n + 1]
               node == [heap[a] EXCEPT ![i] = x]
               h    == [heap EXCEPT ![a] = node]
               r    == Fetching(k, [node |-> a, id |-> i], e.hash, n + 1)
    <2>1. heap' = Alloc(h, EmptyMap) /\ finder' = [finder EXCEPT ![f] = r]
        BY <1>7 DEF NewAddress
    <2>2. IsEntry(x, n + 1) /\ EntryGiven(i, x, G)
        <3>1. IsEntry(e, n + 1)
            <4>1. IsEntry(e, n) /\ n \in Nat /\ n + 1 \in Nat /\ n <= n + 1
                BY <1>0, <1>2, <1>7
            <4> HIDE DEF e, n
            <4> QED
                BY <4>1, EntryMonotone
        <3>2. x.value = e.value /\ x.hash = e.hash
            BY <3>1 DEF IsEntry
        <3>3. IsEntry(x, n + 1)
            BY <1>0, <3>1 DEF IsEntry
        <3> QED
            BY <1>2, <1>7, <3>2, <3>3 DEF EntryGiven
    <2>3. IsHeap(heap, n + 1) /\ IsNode(heap[a], n + 1)
        BY <1>0, HeapMonotone, NodeMonotone
    <2>4. IsNode(node, n + 1) /\ NodeGiven(node, G) /\ DOMAIN node = DOMAIN heap[a]
        <3> HIDE DEF x
        <3> QED
            BY <1>0, <2>2, <2>3, NodeExcept, GivenExcept
    <2>5. IsHeap(h, n + 1) /\ Len(h) = n /\ HeapGiven(h, G)
        <3> HIDE DEF node
        <3> QED
            BY <1>0, <2>3, <2>4, HeapExcept, GivenPut
    <2>6. \A b \in 1..n : DOMAIN h[b] = DOMAIN heap[b]
        <3>1. \A b \in 1..n : h[b] = IF b = a THEN node ELSE heap[b]
            BY <1>0 DEF IsHeap
        <3> HIDE DEF node, h
        <3> QED
            BY <2>4, <3>1
    <2>7. /\ IsHeap(heap', n + 1) /\ Len(heap') = n + 1 /\ HeapGiven(heap', G)
          /\ \A b \in 1..n : heap'[b] = h[b]
        <3> HIDE DEF h
        <3>1. IsHeap(heap', n + 1) /\ Len(heap') = n + 1
            BY <2>1, <2>5, NodeEmpty, HeapAlloc
        <3>2. HeapGiven(heap', G)
            BY <2>1, <2>5, GivenEmpty, GivenAlloc
        <3>3. \A b \in 1..n : heap'[b] = h[b]
            BY <2>1, <2>5 DEF Alloc, IsHeap
        <3> QED
            BY <3>1, <3>2, <3>3
    <2>8. IInv'
        <3>1. \A c \in Coroutines : Bound(c, "splitRest") => DOMAIN heap'[at] \ {Inf} # {}
            <4> SUFFICES ASSUME NEW c \in Coroutines, Bound(c, "splitRest")
                         PROVE  DOMAIN heap'[at] \ {Inf} # {}
                OBVIOUS
            <4>1. DOMAIN heap[at] \ {Inf} # {} /\ at \in 1..n
                BY DEF IInv, TypeOK, WriterResumes, Bound, Addresses
            <4>2. DOMAIN heap'[at] = DOMAIN heap[at]
                <5> HIDE DEF h
                <5> QED
                    BY <2>6, <2>7, <4>1
            <4> QED
                BY <4>1, <4>2
        <3>2. rootNode' = rootNode /\ rootNode' \in 0..Len(heap')
            <4>1. rootNode' = rootNode /\ rootNode \in 0..n
                BY <1>1 DEF IInv, TypeOK
            <4> QED
                BY <1>0, <2>7, <4>1
        <3>3. Len(heap') \in Nat /\ Len(heap) <= Len(heap') /\ IsHeap(heap', Len(heap'))
            BY <1>0, <2>7
        <3> QED
            BY <1>1, <3>1, <3>2, <3>3, WriterUndisturbed
    <2>9. MadeOf(G)'
        BY <1>1, <2>7, MadeUndisturbed
    <2>10. FindGiven(r, n + 1, G) /\ r.slot = [node |-> a, id |-> i]
        <3>1. TextGiven(e.hash, G)
            BY <1>2, <1>7 DEF EntryGiven
        <3>2. k \in Keys /\ n + 1 \in Nat /\ n + 1 \in 1..(n + 1)
            BY <1>0
        <3> HIDE DEF k, n, e, i, a
        <3> QED
            BY <3>1, <3>2, FetchingGiven
    <2>11. FindsGiven(Len(heap), G)'
        <3>1. Len(heap) \in Nat /\ Len(heap') \in Nat /\ Len(heap) <= Len(heap')
            BY <1>0, <2>7
        <3>2. FindGiven(r, Len(heap'), G)
            BY <2>7, <2>10
        <3> HIDE DEF r
        <3> QED
            BY <2>1, <3>1, <3>2, OneFindMoves
    <2>12. heap'[a][i].child # Null
        <3>1. x.child = n + 1 /\ n + 1 # Null
            BY <1>0, <1>2, <1>7 DEF IsEntry, Null
        <3>2. node[i] = x
            BY <1>2, <1>7, <2>4
        <3>3. heap'[a] = node
            <4>1. heap'[a] = h[a]
                BY <1>0, <2>7
            <4>2. DOMAIN heap = 1..n /\ a \in 1..n
                BY <1>0 DEF IsHeap
            <4> HIDE DEF node, a, n
            <4>3. h[a] = node
                BY <4>2
            <4> QED
                BY <4>1, <4>3
        <3> HIDE DEF x, node, i, a
        <3> QED
            BY <3>1, <3>2, <3>3
    <2>13. SlotsLead'
        <3>1. SlotsStay(heap, heap', {})
            <4>1. ChildrenStay(heap[a], node)
                <5>1. \A l \in DOMAIN heap[a] : node[l] = IF l = i THEN x ELSE heap[a][l]
                    OBVIOUS
                <5>2. x.child # Null
                    BY <1>0, <1>2, <1>7 DEF IsEntry, Null
                <5> HIDE DEF x, node, i
                <5> QED
                    BY <2>4, <5>1, <5>2 DEF ChildrenStay
            <4>2. SlotsStay(heap, h, {})
                <5> HIDE DEF node
                <5> QED
                    BY <1>0, <4>1, StaysPut
            <4> HIDE DEF h
            <4> QED
                BY <2>7, <4>2 DEF SlotsStay
        <3>2. \A b \in 1..Len(heap) : DOMAIN heap'[b] = DOMAIN heap[b]
            <4> HIDE DEF h
            <4> QED
                BY <2>6, <2>7
        <3>3. HoldsNode(r.slot, heap', rootNode')
            <4>1. a \in 1..Len(heap') /\ i \in DOMAIN heap'[a]
                <5>1. a \in 1..n /\ i \in DOMAIN heap[a]
                    BY <1>0, <1>2, <1>7
                <5>2. Len(heap') = n + 1 /\ n \in Nat
                    BY <1>0, <2>7
                <5> HIDE DEF i, a
                <5> QED
                    BY <3>2, <5>1, <5>2
            <4> HIDE DEF i, a, r
            <4> QED
                BY <2>10, <2>12, <4>1 DEF HoldsNode
        <3>4. Len(heap) \in Nat /\ Len(heap') \in Nat /\ Len(heap) <= Len(heap')
            BY <1>0, <2>7
        <3>5. rootNode # Null => rootNode' # Null
            BY <1>1
        <3> HIDE DEF r
        <3> QED
            BY <2>1, <3>1, <3>2, <3>3, <3>4, <3>5, OneFindWaits
    <2> QED
        BY <2>7, <2>8, <2>9, <2>11, <2>13
<1> QED
    <2> HIDE DEF i, e, k, a
    <2> QED
        BY <1>1, <1>4, <1>5, <1>6, <1>7

\* BTree::find
LEMMA FindStarts ==
    ASSUME IInv, NEW G, MadeOf(G), FindsGiven(Len(heap), G), SlotsLead,
           NEW f \in Finders, NEW k \in Keys, Find(f, k)
    PROVE  IInv' /\ MadeOf(G)' /\ SlotsLead' /\ FindsGiven(Len(heap), G)'
<1> DEFINE n == Len(heap)
<1>0. n \in Nat /\ IsHeap(heap, n) /\ k \in Ids
    BY HeapLen DEF IInv, TypeOK, Ids
<1>1. CASE /\ k \in DOMAIN buffer /\ UNCHANGED tree
           /\ finder' = [finder EXCEPT ![f] = Ended(k, "found", buffer[k])]
    <2>1. /\ FindGiven(Ended(k, "found", buffer[k]), n, G)
          /\ Ended(k, "found", buffer[k]).pc # "fetching"
        BY <1>0, <1>1, FoundGiven DEF MadeOf, MapGiven
    <2>2. UNCHANGED <<writer, tree>>
        BY <1>1 DEF Find
    <2> QED
        BY <1>1, <2>1, <2>2, OnlyFindMoves
<1>2. CASE /\ rootNode # Null /\ UNCHANGED tree
           /\ finder' = [finder EXCEPT ![f] = Searching(k, rootNode)]
    <2>1. rootNode \in 1..n
        BY <1>0, <1>2 DEF IInv, TypeOK, Null
    <2>2. FindGiven(Searching(k, rootNode), n, G) /\ Searching(k, rootNode).pc # "fetching"
        BY <1>0, <2>1, SearchingGiven
    <2>3. UNCHANGED <<writer, tree>>
        BY <1>2 DEF Find
    <2> QED
        BY <1>2, <2>2, <2>3, OnlyFindMoves
<1>3. CASE /\ UNCHANGED tree
           /\ finder' = [finder EXCEPT ![f] = Ended(k, "not_found", NoValue)]
    <2>1. /\ FindGiven(Ended(k, "not_found", NoValue), n, G)
          /\ Ended(k, "not_found", NoValue).pc # "fetching"
        BY <1>0, EndedGiven
    <2>2. UNCHANGED <<writer, tree>>
        BY <1>3 DEF Find
    <2> QED
        BY <1>3, <2>1, <2>2, OnlyFindMoves
<1>4. CASE /\ rootNode = Null /\ rootHash # NoHash
           /\ rootNode' = NewAddress(heap) /\ heap' = Alloc(heap, EmptyMap)
           /\ finder' = [finder EXCEPT ![f] = Fetching(k, RootSlot, rootHash, rootNode')]
    <2> DEFINE r == Fetching(k, RootSlot, rootHash, n + 1)
    <2>1. rootNode' = n + 1 /\ finder' = [finder EXCEPT ![f] = r] /\ UNCHANGED writer
        BY <1>4 DEF NewAddress, Find
    <2>2. /\ IsHeap(heap', n + 1) /\ Len(heap') = n + 1 /\ HeapGiven(heap', G)
          /\ \A b \in 1..n : heap'[b] = heap[b]
        <3>1. IsHeap(heap, n + 1) /\ HeapGiven(heap, G)
            BY <1>0, HeapMonotone DEF MadeOf
        <3>2. IsHeap(heap', n + 1) /\ Len(heap') = n + 1
            BY <1>4, <3>1, NodeEmpty, HeapAlloc
        <3>3. HeapGiven(heap', G)
            BY <1>4, <3>1, GivenEmpty, GivenAlloc
        <3>4. \A b \in 1..n : heap'[b] = heap[b]
            BY <1>0, <1>4 DEF Alloc, IsHeap
        <3> QED
            BY <3>2, <3>3, <3>4
    <2>3. Len(heap) \in Nat /\ Len(heap') \in Nat /\ Len(heap) <= Len(heap')
        BY <1>0, <2>2
    <2>4. IInv'
        <3>1. \A c \in Coroutines : Bound(c, "splitRest") => DOMAIN heap'[at] \ {Inf} # {}
            BY <2>2 DEF IInv, TypeOK, WriterResumes, Bound, Addresses
        <3>2. /\ rootNode' \in 0..Len(heap') /\ rootNode = Null
              /\ IsHeap(heap', Len(heap'))
            BY <1>0, <1>4, <2>1, <2>2
        <3> QED
            BY <2>1, <2>3, <3>1, <3>2, WriterUndisturbed
    <2>5. MadeOf(G)'
        BY <2>1, <2>2, MadeUndisturbed
    <2>6. FindGiven(r, Len(heap'), G) /\ r.slot = RootSlot
        <3>1. TextGiven(rootHash, G) /\ Len(heap') \in Nat /\ n + 1 \in 1..Len(heap')
            BY <1>0, <1>4, <2>2 DEF MadeOf
        <3> QED
            BY <3>1, FetchingGiven
    <2>7. FindsGiven(Len(heap), G)'
        <3> HIDE DEF r
        <3> QED
            BY <2>1, <2>3, <2>6, OneFindMoves
    <2>8. SlotsLead'
        <3>1. rootNode' # Null
            BY <1>0, <2>1 DEF Null
        <3>2. HoldsNode(r.slot, heap', rootNode')
            BY <2>6, <3>1 DEF HoldsNode
        <3>3. /\ SlotsStay(heap, heap', {})
              /\ \A b \in 1..Len(heap) : DOMAIN heap'[b] = DOMAIN heap[b]
            BY <2>2 DEF SlotsStay, ChildrenStay
        <3> HIDE DEF r
        <3> QED
            BY <2>1, <2>3, <3>1, <3>2, <3>3, OneFindWaits
    <2> QED
        BY <2>4, <2>5, <2>7, <2>8
<1> QED
    BY <1>1, <1>2, <1>3, <1>4 DEF Find

\* Node::restore, when no frame of the writer leads into the node it fills
LEMMA RestoreKeeps ==
    ASSUME IInv, NEW G, MadeOf(G), FindsGiven(Len(heap), G), SlotsLead,
           NEW f \in Finders, Restored(f), ~broken
    PROVE  /\ ~broken' => IInv' /\ MadeOf(G)' /\ SlotsLead'
           /\ FindsGiven(Len(heap), G)'
<1> DEFINE n == Len(heap)
           a == finder[f].node
           k == finder[f].key
           t == finder[f].hash
<1>0. /\ n \in Nat /\ IsHeap(heap, n) /\ HeapGiven(heap, G)
      /\ k \in Keys /\ a \in 1..n /\ TextGiven(t, G) /\ finder[f].pc = "fetching"
    <2>1. finder[f].pc = "fetching" /\ FindGiven(finder[f], n, G)
        BY DEF Restored, FindsGiven
    <2> QED
        BY <2>1, HeapLen DEF FindGiven, IInv, TypeOK, MadeOf
<1>1. CASE gone
    <2>1. /\ finder' = [finder EXCEPT ![f] = Ended(k, "error", NoValue)]
          /\ UNCHANGED <<writer, tree>>
        BY <1>1 DEF Restored, Failed, tree
    <2>2. FindGiven(Ended(k, "error", NoValue), n, G) /\ Ended(k, "error", NoValue).pc # "fetching"
        BY <1>0, EndedGiven DEF Ids
    <2> QED
        BY <2>1, <2>2, OnlyFindMoves
<1>2. CASE ~gone /\ (finder[f].lost \/ ClearsFrame(a))
    <2>1. broken' = TRUE /\ UNCHANGED <<heap, finder>>
        BY <1>2 DEF Restored
    <2>2. FindsGiven(Len(heap), G)'
        BY <2>1 DEF FindsGiven
    <2> QED
        BY <2>1, <2>2
<1>3. CASE ~gone /\ ~finder[f].lost /\ ~ClearsFrame(a)
    <2> DEFINE node == NodeOf(t)
               in   == InSlot(finder[f].slot)
               Lost(g) == finder[g].lost \/ finder[g].slot.node \in Owned(heap, a)
    <2>1. /\ heap' = [heap EXCEPT ![a] = node]
          /\ finder' = [g \in Finders |-> IF g = f THEN Searching(k, in)
                                          ELSE [finder[g] EXCEPT !.lost = Lost(g)]]
          /\ UNCHANGED writer /\ rootNode' = rootNode
        BY <1>3 DEF Restored
    <2>2. IsNode(node, n) /\ NodeGiven(node, G)
        BY <1>0, NodeOfGiven
    <2>3. IsHeap(heap', n) /\ Len(heap') = n /\ HeapGiven(heap', G)
        <3>1. heap' = [heap EXCEPT ![a] = node] /\ IsHeap(heap, n) /\ HeapGiven(heap, G)
            BY <1>0, <2>1
        <3> HIDE DEF node, a, n
        <3>2. /\ IsHeap([heap EXCEPT ![a] = node], n)
              /\ Len([heap EXCEPT ![a] = node]) = Len(heap)
            <4>1. IsHeap(heap, n) /\ (a \in 1..Len(heap) => IsNode(node, n))
                BY <2>2, <3>1
            <4> QED
                BY ONLY <4>1, HeapExcept
        <3>3. HeapGiven(heap', G)
            BY <2>2, <3>1, GivenPut
        <3> QED
            BY <3>1, <3>2, <3>3 DEF n
    <2>4. Len(heap) \in Nat /\ Len(heap') \in Nat /\ Len(heap) <= Len(heap')
        BY <1>0, <2>3
    <2>5. IInv'
        <3>1. ASSUME NEW c \in Coroutines, Bound(c, "splitRest")
              PROVE  DOMAIN heap'[at] \ {Inf} # {}
            <4>1. at # a
                BY <1>3, <3>1 DEF ClearsFrame
            <4>2. heap'[at] = heap[at]
                BY <2>1, <4>1
            <4>3. DOMAIN heap[at] \ {Inf} # {}
                BY <3>1 DEF IInv, WriterResumes
            <4> QED
                BY <4>2, <4>3
        <3>2. /\ rootNode' \in 0..Len(heap') /\ rootNode' = rootNode
              /\ IsHeap(heap', Len(heap'))
            BY <2>1, <2>3 DEF IInv, TypeOK
        <3> QED
            BY <2>1, <2>4, <3>1, <3>2, WriterUndisturbed
    <2>6. MadeOf(G)'
        BY <2>1, <2>3, MadeUndisturbed
    <2>7. in \in 1..n
        <3> PICK s : s = finder[f].slot
            OBVIOUS
        <3>1. HoldsNode(s, heap, rootNode)
            BY <1>0, <1>3 DEF SlotsLead
        <3>2. CASE s = RootSlot /\ rootNode # Null
            <4>1. in = rootNode
                BY <3>2 DEF InSlot, RootSlot
            <4> QED
                BY <1>0, <3>2, <4>1 DEF IInv, TypeOK, Null
        <3>3. CASE /\ s.node \in 1..Len(heap) /\ s.id \in DOMAIN heap[s.node]
                   /\ heap[s.node][s.id].child # Null
            <4>1. in = heap[s.node][s.id].child
                BY <3>3 DEF InSlot, Null
            <4>2. IsEntry(heap[s.node][s.id], n)
                BY <1>0, <3>3 DEF IsHeap, IsNode
            <4> QED
                BY <1>0, <3>3, <4>1, <4>2 DEF IsEntry, Null
        <3> QED
            BY <3>1, <3>2, <3>3 DEF HoldsNode
    <2>8. FindGiven(Searching(k, in), Len(heap'), G) /\ Searching(k, in).pc # "fetching"
        <3> HIDE DEF in, k
        <3> QED
            BY <1>0, <2>3, <2>7, SearchingGiven
    <2>9. FindsGiven(Len(heap), G)'
        <3> HIDE DEF Lost, in
        <3>1. finder' \in [Finders -> {finder'[g] : g \in Finders}]
            BY <2>1
        <3>2. ASSUME NEW g \in Finders PROVE FindGiven(finder'[g], Len(heap'), G)
            <4>1. FindGiven(finder[g], Len(heap'), G)
                BY <2>3 DEF FindsGiven
            <4> PICK b : b = Lost(g)
                OBVIOUS
            <4>2. FindGiven([finder[g] EXCEPT !.lost = b], Len(heap'), G)
                BY <4>1, LostGiven
            <4> QED
                BY <2>1, <2>8, <4>2
        <3> QED
            BY <3>1, <3>2 DEF FindsGiven
    <2>10. SlotsLead'
        <3>1. SlotsStay(heap, heap', {a})
            BY <1>0, <2>1, StaysPut
        <3>2. ASSUME NEW g \in Finders, finder'[g].pc = "fetching", ~finder'[g].lost
              PROVE  /\ finder[g].pc = "fetching" /\ ~finder[g].lost
                     /\ finder'[g].slot = finder[g].slot
                     /\ finder[g].slot.node # Null =>
                          /\ finder[g].slot.node \notin {a}
                          /\ finder[g].slot.id \in DOMAIN heap'[finder[g].slot.node]
            <4>1. g # f
                BY <2>1, <2>8, <3>2
            <4> PICK b : b = Lost(g)
                OBVIOUS
            <4>2. finder'[g] = [finder[g] EXCEPT !.lost = b]
                BY <2>1, <4>1
            <4>3. IsFind(finder[g])
                BY DEF FindsGiven, FindGiven
            <4>4. finder'[g].pc = finder[g].pc /\ finder'[g].slot = finder[g].slot /\ ~b
                BY <3>2, <4>2, <4>3, OnlyLost
            <4>5. ~finder[g].lost /\ finder[g].slot.node # a
                BY <4>4, OwnsItself
            <4> PICK s : s = finder[g].slot
                OBVIOUS
            <4>6. s.node # Null => s.id \in DOMAIN heap[s.node]
                <5>1. HoldsNode(s, heap, rootNode)
                    BY <3>2, <4>4, <4>5 DEF SlotsLead
                <5> QED
                    BY <5>1 DEF HoldsNode, RootSlot
            <4>7. heap'[s.node] = heap[s.node]
                BY <2>1, <4>5
            <4> QED
                BY <3>2, <4>4, <4>5, <4>6, <4>7
        <3>3. rootNode # Null => rootNode' # Null
            BY <2>1
        <3> QED
            BY <2>4, <3>1, <3>2, <3>3, SlotsFollow
    <2> QED
        BY <2>5, <2>6, <2>9, <2>10
<1> QED
    BY <1>1, <1>2, <1>3

LEMMA RestoreFails ==
    ASSUME IInv, NEW G, MadeOf(G), FindsGiven(Len(heap), G), SlotsLead,
           NEW f \in Finders, RestoreFailed(f)
    PROVE  IInv' /\ MadeOf(G)' /\ SlotsLead' /\ FindsGiven(Len(heap), G)'
<1>1. /\ finder' = [finder EXCEPT ![f] = Ended(finder[f].key, "error", NoValue)]
      /\ UNCHANGED <<writer, tree>>
    BY DEF RestoreFailed, Failed
<1>2. finder[f].key \in Ids
    BY DEF FindsGiven, FindGiven, IsFind
<1>3. /\ FindGiven(Ended(finder[f].key, "error", NoValue), Len(heap), G)
      /\ Ended(finder[f].key, "error", NoValue).pc # "fetching"
    BY <1>2, EndedGiven
<1> QED
    BY <1>1, <1>3, OnlyFindMoves

\* An insert that is resumed after the destructor only leaves.
LEMMA AbortKeeps ==
    ASSUME IInv, NEW G, MadeOf(G), FindsGiven(Len(heap), G), SlotsLead,
           NEW c \in Coroutines, InsertAborted(c)
    PROVE  IInv' /\ MadeOf(G)' /\ SlotsLead' /\ FindsGiven(Len(heap), G)'
<1>1. /\ pc' \in [Coroutines -> Suspended \cup Running]
      /\ SingleWriter'
      /\ \A d \in Coroutines : pc'[d] = "ready"
    BY WriterLeaves DEF InsertAborted
<1>2. stack' \in Seq([node : Addresses', id : Ids])
    BY EmptySeq DEF InsertAborted
<1>3. UNCHANGED <<buffer, batch, item, heap, rootNode, rootHash, carry, finder>>
    BY DEF InsertAborted, tree
<1>4. isInserting' \in BOOLEAN
    BY DEF InsertAborted
<1>5. TypeOK'
    BY <1>1, <1>2, <1>3, <1>4 DEF IInv, TypeOK
<1>6. WriterResumes'
    BY <1>1 DEF WriterResumes, Bound
<1>7. MadeOf(G)'
    BY <1>1, <1>3 DEF MadeOf, JobGiven
<1>8. FindsGiven(Len(heap), G)'
    BY <1>3 DEF FindsGiven
<1>9. SlotsLead'
    BY <1>3 DEF SlotsLead
<1> QED
    BY <1>1, <1>5, <1>6, <1>7, <1>8, <1>9 DEF IInv

LEMMA DestroyKeeps ==
    ASSUME IInv, NEW G, MadeOf(G), FindsGiven(Len(heap), G), SlotsLead,
           UNCHANGED <<vars, finder>>
    PROVE  IInv' /\ MadeOf(G)' /\ SlotsLead' /\ FindsGiven(Len(heap), G)'
<1>1. IInv'
    BY DEF vars, IInv, TypeOK, SingleWriter, WriterResumes, Bound, Addresses
<1>2. MadeOf(G)'
    BY DEF vars, MadeOf, JobGiven
<1>3. FindsGiven(Len(heap), G)'
    BY DEF vars, FindsGiven
<1>4. SlotsLead'
    BY DEF vars, SlotsLead
<1> QED
    BY <1>1, <1>2, <1>3, <1>4

--------------------------------------------------------------------------
\* The invariant

LEMMA InitFetchInv == FetchInit => FetchInv
<1> SUFFICES ASSUME FetchInit PROVE FetchInv
    OBVIOUS
<1>1. IInv
    BY InitIInv DEF FetchInit
<1>2. /\ heap = <<>> /\ buffer = EmptyMap /\ batch = EmptyMap /\ item.key = Inf
      /\ carry = NoSplit /\ rootHash = LoadedRoot
      /\ \A c \in Coroutines : pc[c] = "ready"
    BY DEF FetchInit, Init
<1>3. LoadedRoot # NoHash => TextGiven(LoadedRoot, Given)
    BY TextsAssumption, StoredAreGiven DEF Given
<1>4. HeapGiven(heap, Given)
    BY <1>2 DEF HeapGiven
<1>5. MadeOf(Given)
    BY <1>2, <1>3, <1>4, GivenEmpty DEF MadeOf, JobGiven
<1>6. FindsGiven(Len(heap), Given)
    <2>1. finder = [f \in Finders |-> Ended(Inf, "rest", NoValue)]
        BY DEF FetchInit
    <2>2. FindGiven(Ended(Inf, "rest", NoValue), Len(heap), Given)
        BY EndedGiven DEF Ids
    <2> QED
        BY <2>1, <2>2 DEF FindsGiven
<1>7. SlotsLead
    <2>1. \A f \in Finders : finder[f].pc = "rest"
        BY DEF FetchInit, Ended
    <2> QED
        BY <2>1 DEF SlotsLead
<1> QED
    BY <1>1, <1>5, <1>6, <1>7 DEF FetchInv

\* A coroutine's step: the finds follow, and a new pair is given from then on.
LEMMA InsertKeeps ==
    ASSUME IInv, NEW G, MadeOf(G), FindsGiven(Len(heap), G), SlotsLead,
           NEW c \in Coroutines, Insert(c)
    PROVE  IInv' /\ MadeOf(G)' /\ SlotsLead' /\ FindsGiven(Len(heap), G)'
<1>1. Step(c) \/ Answer(c)
    BY DEF Insert
<1>2. IInv'
    BY <1>1, LoopStep, DescendStep, SplitStep, ReturnStep, StoreStep, AnswerStep DEF Step
<1>3. MadeOf(G)'
    BY <1>1, LoopGiven, DescendGiven, SplitGiven, ReturnGiven, StoreGiven, AnswerGiven DEF Step
<1>4. Len(heap) \in Nat /\ Len(heap') \in Nat /\ Len(heap) <= Len(heap')
    BY <1>1, HeapGrows
<1>5. FindsGiven(Len(heap), G)'
    BY <1>4, FollowedGiven DEF Insert
<1>6. SlotsLead'
    <2>1. SlotsStay(heap, heap', Released) /\ (rootNode # Null => rootNode' # Null)
        BY <1>1, WriterStays
    <2>2. Followed
        BY DEF Insert
    <2> QED
        BY <1>4, <2>1, <2>2, SlotsFollowed
<1> QED
    BY <1>2, <1>3, <1>5, <1>6

LEMMA CallKeeps ==
    ASSUME IInv, NEW G, MadeOf(G), FindsGiven(Len(heap), G), SlotsLead,
           NEW c \in Coroutines, NEW k \in Keys, NEW v \in Values, CallInsert(c, k, v),
           NEW H, G \subseteq H, <<k, v>> \in H
    PROVE  IInv' /\ MadeOf(H)' /\ SlotsLead' /\ FindsGiven(Len(heap), H)'
<1>1. Call(c, k, v) /\ Followed
    BY DEF CallInsert
<1>2. IInv'
    BY <1>1, CallStep
<1>3. MadeOf(H)
    BY GivenGrows
<1>4. MadeOf(H)'
    BY <1>1, <1>3, CallGiven
<1>5. Len(heap) \in Nat /\ heap' = heap
    BY <1>1, HeapLen DEF IInv, TypeOK, Call, BufferInsert, StartInsert, tree
<1>6. Len(heap') \in Nat /\ Len(heap) <= Len(heap')
    BY <1>5
<1>7. FindsGiven(Len(heap), H)'
    BY <1>1, <1>5, <1>6, FollowedGiven
<1>8. SlotsLead'
    <2>1. UNCHANGED tree
        BY <1>1 DEF Call, BufferInsert, StartInsert
    <2>2. SlotsStay(heap, heap', Released) /\ (rootNode # Null => rootNode' # Null)
        BY <2>1 DEF tree, SlotsStay, ChildrenStay
    <2> QED
        BY <1>1, <1>5, <1>6, <2>2, SlotsFollowed
<1> QED
    BY <1>2, <1>4, <1>7, <1>8

LEMMA NextFetchInv == FetchInv /\ [FetchNext]_<<vars, fetchVars>> => FetchInv'
<1> SUFFICES ASSUME FetchInv, [FetchNext]_<<vars, fetchVars>> PROVE FetchInv'
    OBVIOUS
<1>1. CASE UNCHANGED <<vars, fetchVars>>
    <2> PICK G : G = Given
        OBVIOUS
    <2>1. UNCHANGED <<vars, finder, broken>> /\ G = Given'
        BY <1>1 DEF fetchVars, Given
    <2>2. CASE broken
        <3>1. FindsGiven(Len(heap), G)'
            BY <1>1, <2>1, <2>2 DEF FetchInv, FindsGiven, vars
        <3>2. FindsGiven(Len(heap), Given)'
            BY <2>1, <3>1
        <3> QED
            BY <2>1, <2>2, <3>2 DEF FetchInv
    <2>3. CASE ~broken
        <3>1. IInv /\ MadeOf(G) /\ SlotsLead /\ FindsGiven(Len(heap), G)
            BY <2>3 DEF FetchInv
        <3>2. IInv' /\ MadeOf(G)' /\ SlotsLead' /\ FindsGiven(Len(heap), G)'
            BY <2>1, <3>1, DestroyKeeps
        <3>3. MadeOf(Given)' /\ FindsGiven(Len(heap), Given)'
            BY <2>1, <3>2
        <3> QED
            BY <2>1, <3>2, <3>3 DEF FetchInv
    <2> QED
        BY <2>2, <2>3
<1>2. CASE FetchNext
    <2> PICK G : G = Given
        OBVIOUS
    <2>1. ~broken /\ IInv /\ MadeOf(G) /\ SlotsLead /\ FindsGiven(Len(heap), G)
        BY <1>2 DEF FetchNext, FetchInv
    <2>2. ASSUME UNCHANGED offered PROVE G = Given'
        BY <2>2 DEF Given
    <2>3. ASSUME ~broken' => IInv' /\ MadeOf(G)' /\ SlotsLead', FindsGiven(Len(heap), G)',
                 UNCHANGED offered
          PROVE  FetchInv'
        <3>1. G = Given'
            BY <2>2, <2>3
        <3>2. (~broken' => IInv' /\ MadeOf(Given)' /\ SlotsLead') /\ FindsGiven(Len(heap), Given)'
            BY <2>3, <3>1
        <3> QED
            BY <2>1, <2>3, <3>2 DEF FetchInv
    <2>4. CASE Destroy
        BY <2>1, <2>3, <2>4, DestroyKeeps DEF Destroy
    <2>5. ASSUME NEW c \in Coroutines, Insert(c) PROVE FetchInv'
        BY <2>1, <2>3, <2>5, InsertKeeps DEF Insert, Followed
    <2>12. ASSUME NEW c \in Coroutines, InsertAstray(c) PROVE FetchInv'
        <3>1. broken' /\ UNCHANGED <<finder, offered>> /\ heap' = heap
            BY <2>12 DEF InsertAstray, vars, tree
        <3>2. FindsGiven(Len(heap), G)'
            BY <2>1, <3>1 DEF FindsGiven
        <3> QED
            BY <2>3, <3>1, <3>2
    <2>6. ASSUME NEW c \in Coroutines, InsertAborted(c) PROVE FetchInv'
        <3>1. UNCHANGED offered
            BY <2>6 DEF InsertAborted
        <3> QED
            BY <2>1, <2>3, <2>6, <3>1, AbortKeeps
    <2>7. ASSUME NEW c \in Coroutines, NEW k \in Keys, NEW v \in Values, CallInsert(c, k, v)
          PROVE  FetchInv'
        <3> PICK H : H = Given'
            OBVIOUS
        <3>1. G \subseteq H /\ <<k, v>> \in H
            BY <2>7 DEF CallInsert, Given
        <3>2. IInv' /\ MadeOf(H)' /\ SlotsLead' /\ FindsGiven(Len(heap), H)'
            BY <2>1, <2>7, <3>1, CallKeeps
        <3>3. MadeOf(Given)' /\ FindsGiven(Len(heap), Given)'
            BY <3>2
        <3> QED
            BY <3>2, <3>3 DEF FetchInv
    <2>8. ASSUME NEW f \in Finders, Search(f) PROVE FetchInv'
        BY <2>1, <2>3, <2>8, SearchKeeps DEF Search
    <2>9. ASSUME NEW f \in Finders, Restored(f) PROVE FetchInv'
        <3>1. UNCHANGED offered
            BY <2>9 DEF Restored
        <3> QED
            BY <2>1, <2>3, <2>9, <3>1, RestoreKeeps
    <2>10. ASSUME NEW f \in Finders, RestoreFailed(f) PROVE FetchInv'
        BY <2>1, <2>3, <2>10, RestoreFails DEF RestoreFailed
    <2>11. ASSUME NEW f \in Finders, NEW k \in Keys, Find(f, k) PROVE FetchInv'
        BY <2>1, <2>3, <2>11, FindStarts DEF Find
    <2> QED
        BY <1>2, <2>4, <2>5, <2>6, <2>7, <2>8, <2>9, <2>10, <2>11, <2>12 DEF FetchNext
<1> QED
    BY <1>1, <1>2

--------------------------------------------------------------------------
\* What the inserts rely on, where the contents of the tree come from and that the
\* finds' slots hold nodes hold together, until a find or an insert is about to use
\* freed memory and the system stops (IInv, MadeOf, SlotsLead).
THEOREM FetchInvariance == FetchSpec => []FetchInv
BY InitFetchInv, NextFetchInv, PTL DEF FetchSpec

\* As long as no freed memory has been used: whatever a find meets on its way through
\* a loaded tree - nodes that are still empty, entries that a restore put in place of
\* inserted ones, a slot in which an insert left another node - it never returns a
\* value that was not stored or inserted for the key it looked for (Node::find,
\* lazy_find and restore, btree.cpp 300-330 and 427-530).
THEOREM FindsAreGiven == FetchSpec => []FoundWasGiven
<1>1. FetchInv => FoundWasGiven
    BY DEF FetchInv, FindsGiven, FindGiven, FoundWasGiven, Given
<1> QED
    BY <1>1, FetchInvariance, PTL

\* Finds that put empty and stored nodes into the tree between the waits of an
\* insert disturb it only where they free what it holds: until a find has written
\* into freed memory there is one writer, it works on nodes that exist, and it can
\* be resumed, in a loaded tree as in one that was not.
WriterUnharmed == ~broken => TypeOK /\ SingleWriter /\ WriterResumes

THEOREM InsertsKeepTheirTree == FetchSpec => []WriterUnharmed
<1>1. FetchInv => WriterUnharmed
    BY DEF FetchInv, IInv, WriterUnharmed
<1> QED
    BY <1>1, FetchInvariance, PTL

--------------------------------------------------------------------------
\* A tree that was not loaded

\* A find for the key k that is at the node a has not gone past the key.
OnTheWay(k, a) ==
    carry = NoSplit =>
        \A span, lvl :
            Tree(heap, Len(heap), rootNode, span, lvl, SplitNode, MidKey) => k \in span[a]

FindsOnTheWay ==
    \A f \in Finders :
        finder[f].pc = "walking" =>
            ~gone /\ finder[f].key \notin DOMAIN buffer /\ OnTheWay(finder[f].key, finder[f].node)

NobodyFetches ==
    LoadedRoot = NoHash => ~broken /\ \A f \in Finders : finder[f].pc \notin {"fetching", "error"}

\* Until the tree is destroyed it is that of the inserts alone.
WholeInv ==
    LoadedRoot = NoHash =>
        /\ ~gone => InvH /\ RootInMemory
        /\ FindsOnTheWay

WholeFetchInv == FetchInv /\ NobodyFetches /\ WholeInv

\* What a find answers is what the map holds when it answers.
AnswersAsTheMap(f) ==
    /\ finder[f].key \notin DOMAIN buffer
    /\ IF finder[f].key \in DOMAIN Contents
       THEN finder'[f].pc = "found" /\ finder'[f].answer = Contents[finder[f].key]
       ELSE finder'[f].pc = "not_found"

\* A step of Node::find in a tree that is whole in memory
WholeSearch(f) ==
    /\ UNCHANGED vars
    /\ \/ /\ finder'[f].pc = "walking" /\ finder'[f].key = finder[f].key
          /\ OnTheWay(finder[f].key, finder'[f].node)
       \/ finder'[f].pc \in {"found", "not_found"} /\ (carry = NoSplit => AnswersAsTheMap(f))

LEMMA SearchInWhole ==
    ASSUME InvH, WholeInMemory, LoadedRoot = NoHash, NEW G, FindsGiven(Len(heap), G),
           FindsOnTheWay, NEW f \in Finders, Search(f)
    PROVE  WholeSearch(f)
<1> DEFINE k == finder[f].key
           a == finder[f].node
           node == heap[a]
           i == LowerBound(node, k)
           e == node[i]
<1>1. finder[f].pc = "walking" /\ k \in Keys /\ a \in Addresses
    <2>1. finder[f].pc = "walking"
        BY DEF Search
    <2> QED
        BY <2>1 DEF FindsGiven, FindGiven, Addresses
<1>2. k \notin DOMAIN buffer /\ OnTheWay(k, a)
    BY <1>1 DEF FindsOnTheWay
<1>3. /\ UNCHANGED <<writer, rootNode>>
      /\ IF AtOrAfter(node, k) = {} THEN Replies(f, "not_found", NoValue)
         ELSE IF IsTheKey(i, k) THEN Replies(f, "found", e.value)
         ELSE IF e.child # Null
         THEN finder' = [finder EXCEPT ![f] = Searching(k, e.child)] /\ UNCHANGED heap
         ELSE IF e.hash = NoHash THEN Replies(f, "not_found", NoValue)
         ELSE finder' = [finder EXCEPT ![f] =
                  Fetching(k, [node |-> a, id |-> i], e.hash, NewAddress(heap))]
    BY DEF Search
<1>4. DOMAIN node \subseteq Ids /\ IsFiniteSet(DOMAIN node) /\ k # Inf /\ k \in Ids
    BY <1>1, NodesFinite, KeysAssumption DEF InvH, InvS, IsNode, Ids
<1>5. AtOrAfter(node, k) # {} =>
        /\ i \in DOMAIN node
        /\ k \in DOMAIN node => i = k
        /\ k \notin DOMAIN node => i # k /\ Between(node, i, k)
    BY <1>1, <1>4, LowerBoundFinds
<1>6. k \in DOMAIN node => AtOrAfter(node, k) # {}
    <2>1. ~Before(k, k)
        BY <1>4, BeforeIsOrder
    <2> QED
        BY <2>1 DEF AtOrAfter
<1>7. ASSUME NEW r, finder' = [finder EXCEPT ![f] = r] PROVE finder'[f] = r
    BY <1>7 DEF FindsGiven
<1>8. ASSUME UNCHANGED heap PROVE UNCHANGED vars
    BY <1>3, <1>8 DEF vars, writer, queue, frame
<1>9. carry = NoSplit =>
        \E span, lvl : Tree(heap, Len(heap), rootNode, span, lvl, SplitNode, MidKey)
    <2> SUFFICES ASSUME carry = NoSplit
                 PROVE  \E span, lvl : Tree(heap, Len(heap), rootNode, span, lvl, SplitNode, MidKey)
        OBVIOUS
    <2>1. rootNode # Null
        <3>1. rootNode = Null => Len(heap) = 0
            BY DEF InvH, InvS, Shape
        <3> QED
            BY <1>1, <3>1 DEF Addresses
    <2>2. PICK span, lvl : Shaped(span, lvl)
        BY <2>1 DEF InvH, InvS, Shape
    <2> QED
        BY <2>2 DEF Shaped, Full
<1>10. carry = NoSplit =>
        /\ \A b \in Addresses : k \in DOMAIN heap[b] =>
                k \in DOMAIN Contents /\ Contents[k] = heap[b][k].value
        /\ k \in DOMAIN Contents => \E b \in Addresses : k \in DOMAIN heap[b]
    BY <1>1, ContentsAre DEF InvH, ContentsOK, Full
<1> HIDE DEF i
\* The key is here.
<1>11. CASE k \in DOMAIN node
    <2>1. AtOrAfter(node, k) # {} /\ i = k
        BY <1>5, <1>6, <1>11
    <2>2. Replies(f, "found", node[k].value)
        BY <1>3, <2>1 DEF IsTheKey
    <2>3. finder'[f] = Ended(k, "found", node[k].value) /\ UNCHANGED heap
        BY <1>7, <2>2 DEF Replies
    <2>4. finder'[f].pc = "found" /\ finder'[f].answer = node[k].value
        BY <2>3 DEF Ended
    <2>5. carry = NoSplit => AnswersAsTheMap(f)
        BY <1>1, <1>2, <1>10, <1>11, <2>4 DEF AnswersAsTheMap
    <2> QED
        BY <1>8, <2>3, <2>4, <2>5 DEF WholeSearch
\* The way goes on.
<1>12. CASE k \notin DOMAIN node /\ AtOrAfter(node, k) # {} /\ e.child # Null
    <2>1. i \in DOMAIN node /\ i # k /\ Between(node, i, k)
        BY <1>5, <1>12
    <2>2. finder' = [finder EXCEPT ![f] = Searching(k, e.child)] /\ UNCHANGED heap
        BY <1>3, <1>12, <2>1 DEF IsTheKey
    <2>3. finder'[f] = Searching(k, e.child)
        BY <1>7, <2>2
    <2>4. finder'[f].pc = "walking" /\ finder'[f].key = k /\ finder'[f].node = e.child
        BY <2>3 DEF Searching, Ended
    <2>5. OnTheWay(k, e.child)
        <3> SUFFICES ASSUME carry = NoSplit, NEW span, NEW lvl,
                            Tree(heap, Len(heap), rootNode, span, lvl, SplitNode, MidKey)
                     PROVE  k \in span[e.child]
            BY DEF OnTheWay
        <3>1. k \in span[a]
            BY <1>2 DEF OnTheWay
        <3>2. k \in span[e.child] <=> k \in span[a]
            BY <1>1, <1>12, <2>1 DEF Tree, SlotSpans, Addresses
        <3> QED
            BY <3>1, <3>2
    <2> QED
        BY <1>8, <2>2, <2>4, <2>5 DEF WholeSearch
\* The way ends without the key.
<1>13. CASE k \notin DOMAIN node /\ (AtOrAfter(node, k) # {} => e.child = Null)
    <2>1. AtOrAfter(node, k) # {} => i \in DOMAIN node /\ i # k /\ e.hash = NoHash
        BY <1>1, <1>5, <1>13 DEF WholeInMemory
    <2>2. Replies(f, "not_found", NoValue)
        BY <1>3, <1>13, <2>1 DEF IsTheKey
    <2>3. finder'[f] = Ended(k, "not_found", NoValue) /\ UNCHANGED heap
        BY <1>7, <2>2 DEF Replies
    <2>4. finder'[f].pc = "not_found"
        BY <2>3 DEF Ended
    <2>5. ASSUME carry = NoSplit PROVE k \notin DOMAIN Contents
        <3> SUFFICES ASSUME NEW b \in Addresses PROVE k \notin DOMAIN heap[b]
            BY <1>10, <2>5
        <3>1. PICK span, lvl : Tree(heap, Len(heap), rootNode, span, lvl, SplitNode, MidKey)
            BY <1>9, <2>5
        <3>2. k \in span[a]
            BY <1>2, <2>5, <3>1 DEF OnTheWay
        <3>3. k \notin KeysOf(heap[b])
            BY <1>1, <1>4, <1>13, <3>1, <3>2, NotMissed DEF Addresses, i
        <3> QED
            BY <1>4, <3>3 DEF KeysOf
    <2>6. carry = NoSplit => AnswersAsTheMap(f)
        BY <1>2, <2>4, <2>5 DEF AnswersAsTheMap
    <2> QED
        BY <1>8, <2>3, <2>4, <2>6 DEF WholeSearch
<1> QED
    BY <1>11, <1>12, <1>13

\* A find begins at the root, where no key has been passed.
LEMMA FindInWhole ==
    ASSUME InvH, RootInMemory, LoadedRoot = NoHash, NEW G, FindsGiven(Len(heap), G),
           NEW f \in Finders, NEW k \in Keys, Find(f, k)
    PROVE  /\ UNCHANGED vars
           /\ \/ finder'[f].pc \in {"found", "not_found"}
              \/ /\ finder'[f].pc = "walking" /\ finder'[f].key = k /\ finder'[f].node = rootNode
                 /\ k \notin DOMAIN buffer /\ OnTheWay(k, rootNode)
<1>1. ASSUME NEW r, finder' = [finder EXCEPT ![f] = r] PROVE finder'[f] = r
    BY <1>1 DEF FindsGiven
<1>2. ASSUME UNCHANGED tree PROVE UNCHANGED vars
    BY <1>2 DEF Find, tree, vars, writer, queue, frame
<1>3. CASE /\ k \in DOMAIN buffer /\ UNCHANGED tree
           /\ finder' = [finder EXCEPT ![f] = Ended(k, "found", buffer[k])]
    BY <1>1, <1>2, <1>3 DEF Ended
<1>4. CASE /\ k \notin DOMAIN buffer /\ rootNode # Null /\ UNCHANGED tree
           /\ finder' = [finder EXCEPT ![f] = Searching(k, rootNode)]
    <2>1. finder'[f].pc = "walking" /\ finder'[f].key = k /\ finder'[f].node = rootNode
        BY <1>1, <1>4 DEF Searching, Ended
    <2>2. ASSUME NEW span, NEW lvl,
                 Tree(heap, Len(heap), rootNode, span, lvl, SplitNode, MidKey)
          PROVE  k \in span[rootNode]
        BY <2>2 DEF Tree, Ghosts
    <2> QED
        BY <1>2, <1>4, <2>1, <2>2 DEF OnTheWay
<1>5. CASE /\ rootNode = Null /\ rootHash = NoHash /\ UNCHANGED tree
           /\ finder' = [finder EXCEPT ![f] = Ended(k, "not_found", NoValue)]
    BY <1>1, <1>2, <1>5 DEF Ended
<1>6. ~(rootNode = Null /\ rootHash # NoHash)
    BY DEF RootInMemory
<1> QED
    BY <1>3, <1>4, <1>5, <1>6 DEF Find

LEMMA InitWhole == FetchInit => NobodyFetches /\ WholeInv
<1> SUFFICES ASSUME FetchInit PROVE NobodyFetches /\ WholeInv
    OBVIOUS
<1>1. \A f \in Finders : finder[f].pc = "rest"
    BY DEF FetchInit, Ended
<1>2. InvH /\ RootInMemory
    BY InitHash DEF FetchInit, Init, RootInMemory
<1> QED
    BY <1>1, <1>2 DEF FetchInit, NobodyFetches, WholeInv, FindsOnTheWay

LEMMA WaySame ==
    ASSUME UNCHANGED vars, NEW k, NEW a, OnTheWay(k, a)
    PROVE  OnTheWay(k, a)'
<1>1. SplitNode' = SplitNode /\ MidKey' = MidKey
    BY DEF vars, SplitNode, MidKey, Bound
<1> QED
    BY <1>1 DEF vars, OnTheWay

\* A find that moves on in a tree that does not change takes none of the others
\* from its way.
LEMMA WaysKept ==
    ASSUME UNCHANGED <<vars, gone>>, FindsOnTheWay, NEW f \in Finders, ~gone,
           \A g \in Finders : g # f => finder'[g] = finder[g],
           finder'[f].pc = "walking" =>
               finder'[f].key \notin DOMAIN buffer /\ OnTheWay(finder'[f].key, finder'[f].node)
    PROVE  FindsOnTheWay'
<1> SUFFICES ASSUME NEW g \in Finders, finder'[g].pc = "walking"
             PROVE  /\ ~gone' /\ finder'[g].key \notin DOMAIN buffer'
                    /\ OnTheWay(finder[g].key, finder[g].node)'
    BY DEF FindsOnTheWay
<1> PICK k, a : k = finder'[g].key /\ a = finder'[g].node
    OBVIOUS
<1>1. k \notin DOMAIN buffer /\ OnTheWay(k, a)
    <2>1. CASE g = f
        BY <2>1
    <2>2. CASE g # f
        BY <2>2 DEF FindsOnTheWay
    <2> QED
        BY <2>1, <2>2
<1>2. OnTheWay(k, a)'
    BY <1>1, WaySame
<1>3. buffer' = buffer
    BY DEF vars
<1> QED
    BY <1>1, <1>2, <1>3

\* While nobody walks an insert moves on; that leaves no find on a way.
LEMMA NoWays ==
    ASSUME NobodyWalks, \A f \in Finders : finder'[f].pc = finder[f].pc
    PROVE  FindsOnTheWay'
BY DEF NobodyWalks, FindsOnTheWay

LEMMA FollowedSame ==
    ASSUME NEW G, FindsGiven(Len(heap), G), Followed
    PROVE  \A f \in Finders : finder'[f].pc = finder[f].pc
<1> SUFFICES ASSUME NEW f \in Finders PROVE finder'[f].pc = finder[f].pc
    OBVIOUS
<1> PICK b : b = (finder[f].lost \/ LeftBehind(finder[f].slot))
    OBVIOUS
<1>1. finder'[f] = [finder[f] EXCEPT !.lost = b]
    BY FollowedMoves
<1>2. IsFind(finder[f])
    BY DEF FindsGiven, FindGiven
<1> QED
    BY <1>1, <1>2, OnlyLost

\* A step of a tree that was not loaded: the inserts do what they do without finds,
\* and a find that ends at a wait without a split answers as the map.
WholeStep ==
    LoadedRoot = NoHash =>
        /\ ~gone => [Next]_vars
        /\ carry = NoSplit =>
            \A f \in Finders :
                finder[f].pc = "walking" /\ finder'[f].pc # "walking" => AnswersAsTheMap(f)

\* Such a step, and what it leaves of the invariant
Goes ==
    /\ ~broken' /\ \A f \in Finders : finder'[f].pc \notin {"fetching", "error"}
    /\ ~gone' => InvH' /\ RootInMemory'
    /\ FindsOnTheWay'
    /\ ~gone => [Next]_vars
    /\ carry = NoSplit =>
        \A f \in Finders :
            finder[f].pc = "walking" /\ finder'[f].pc # "walking" => AnswersAsTheMap(f)

\* While no find has filled a node under it, a split finds the child it took from.
LEMMA NoneAstray == ASSUME InvS, NEW c \in Coroutines PROVE ~Astray(c)
<1> SUFFICES ASSUME Astray(c) PROVE FALSE
    OBVIOUS
<1> DEFINE p == Top(stack).node
           i == Top(stack).id
           parent == WithNew(heap[p], carry.id, carry.entry)
<1>0. pc[c] = "attach" /\ carry # NoSplit
    BY DEF Astray
<1>1. IInv /\ Shape /\ rootNode # Null /\ at # Null
    <2>1. IInv /\ rootNode # Null
        BY <1>0 DEF InvS, IInv, WriterResumes
    <2>2. at # Null
        BY <1>0, <2>1 DEF IInv, TypeOK, Addresses, Null
    <2> QED
        BY <2>1, <2>2 DEF InvS
<1>2. PICK span, lvl : Shaped(span, lvl)
    BY <1>0, <1>1 DEF Shape
<1>3. /\ p \in 1..Len(heap) /\ i \in DOMAIN heap[p] /\ heap[p][i].child = at
      /\ Between(heap[p], i, carry.id) /\ carry.id \notin DOMAIN heap[p]
    BY <1>0, <1>1, <1>2, MedianBelongs
<1>4. IsNode(heap[p], Len(heap)) /\ carry.id \in Keys
    BY <1>0, <1>1, <1>3 DEF IInv, TypeOK, IsHeap, IsCarry
<1>5. First(Successors(parent, carry.id)) = i
    BY <1>3, <1>4, SlotIsNext DEF IsNode
<1>6. i \in Successors(parent, carry.id)
    BY <1>3 DEF Successors, WithNew, Between
<1>7. parent[i].child = at
    BY <1>3 DEF WithNew
<1>8. parent[i].child = Null
    BY <1>5, <1>6 DEF Astray
<1> QED
    BY <1>1, <1>7, <1>8

LEMMA NextWhole ==
    WholeFetchInv /\ [FetchNext]_<<vars, fetchVars>> =>
        NobodyFetches' /\ WholeInv' /\ WholeStep
<1> SUFFICES ASSUME WholeFetchInv, [FetchNext]_<<vars, fetchVars>>, LoadedRoot = NoHash
             PROVE  Goes
    BY DEF NobodyFetches, WholeInv, WholeStep, Goes
<1> PICK G : G = Given
    OBVIOUS
<1>1. /\ ~broken /\ \A f \in Finders : finder[f].pc \notin {"fetching", "error"}
      /\ ~gone => InvH /\ RootInMemory /\ WholeInMemory /\ IInv
      /\ FindsOnTheWay /\ FindsGiven(Len(heap), G)
    BY AllInMemory DEF WholeFetchInv, FetchInv, NobodyFetches, WholeInv, InvH, InvS
<1>2. ASSUME ~gone, [Next]_vars PROVE InvH' /\ RootInMemory'
    BY <1>1, <1>2, NextHash, NextRootInMemory
\* The steps in which the finds stay where they are
<1>3. ASSUME \A f \in Finders : finder'[f].pc = finder[f].pc, FindsOnTheWay', ~broken',
             ~gone' => ~gone, ~gone => [Next]_vars
      PROVE  Goes
    BY <1>1, <1>2, <1>3 DEF Goes
<1>4. CASE UNCHANGED <<vars, fetchVars>>
    <2>1. UNCHANGED <<vars, finder, gone, broken>> /\ buffer' = buffer
        BY <1>4 DEF fetchVars, vars
    <2>2. FindsOnTheWay'
        <3> SUFFICES ASSUME NEW f \in Finders, finder[f].pc = "walking"
                     PROVE  /\ ~gone /\ finder[f].key \notin DOMAIN buffer
                            /\ OnTheWay(finder[f].key, finder[f].node)'
            BY <2>1 DEF FindsOnTheWay
        <3> PICK k, a : k = finder[f].key /\ a = finder[f].node
            OBVIOUS
        <3>1. OnTheWay(k, a)'
            BY <1>1, <2>1, WaySame DEF FindsOnTheWay
        <3> QED
            BY <1>1, <2>1, <3>1 DEF FindsOnTheWay
    <2> QED
        BY <1>1, <1>3, <2>1, <2>2
<1>5. CASE Destroy
    BY <1>1, <1>3, <1>5, NoWays DEF Destroy
<1>6. ASSUME NEW c \in Coroutines, Insert(c) PROVE Goes
    <2>1. Next /\ Followed
        BY <1>6 DEF Insert, Next
    <2>2. \A f \in Finders : finder'[f].pc = finder[f].pc
        BY <1>1, <2>1, FollowedSame
    <2> QED
        BY <1>1, <1>3, <2>1, <2>2, NoWays DEF Followed
<1>12. ASSUME NEW c \in Coroutines, InsertAstray(c) PROVE Goes
    BY <1>1, <1>12, NoneAstray DEF InsertAstray, InvH
<1>7. ASSUME NEW c \in Coroutines, NEW k \in Keys, NEW v \in Values, CallInsert(c, k, v)
      PROVE  Goes
    <2>1. Next /\ Followed
        BY <1>7 DEF CallInsert, Next
    <2>2. \A f \in Finders : finder'[f].pc = finder[f].pc
        BY <1>1, <2>1, FollowedSame
    <2> QED
        BY <1>1, <1>3, <2>1, <2>2, NoWays DEF Followed
<1>8. ASSUME NEW c \in Coroutines, InsertAborted(c) PROVE Goes
    BY <1>1, <1>3, <1>8, NoWays DEF InsertAborted
<1>9. ASSUME NEW f \in Finders, Search(f) PROVE Goes
    <2>1. finder[f].pc = "walking" /\ ~gone /\ UNCHANGED <<gone, broken>>
        BY <1>1, <1>9 DEF Search, FindsOnTheWay
    <2>2. WholeSearch(f)
        BY <1>1, <1>9, <2>1, SearchInWhole
    <2>3. \A g \in Finders : g # f => finder'[g] = finder[g]
        BY <1>1, <1>9 DEF Search, Replies, FindsGiven
    <2>4. finder[f].key \notin DOMAIN buffer
        BY <1>1, <2>1 DEF FindsOnTheWay
    <2>5. FindsOnTheWay'
        BY <1>1, <2>1, <2>2, <2>3, <2>4, WaysKept DEF WholeSearch
    <2>6. InvH' /\ RootInMemory'
        BY <1>2, <2>1, <2>2 DEF WholeSearch
    <2>7. \A g \in Finders : finder'[g].pc \notin {"fetching", "error"}
        BY <1>1, <2>2, <2>3 DEF WholeSearch
    <2>8. ASSUME carry = NoSplit, NEW g \in Finders, finder[g].pc = "walking",
                 finder'[g].pc # "walking"
          PROVE  AnswersAsTheMap(g)
        BY <2>2, <2>3, <2>8 DEF WholeSearch
    <2> QED
        BY <1>1, <2>1, <2>2, <2>5, <2>6, <2>7, <2>8 DEF WholeSearch, Goes
<1>10. ASSUME NEW f \in Finders, Restored(f) \/ RestoreFailed(f) PROVE Goes
    BY <1>1, <1>10 DEF Restored, RestoreFailed
<1>11. ASSUME NEW f \in Finders, NEW k \in Keys, Find(f, k) PROVE Goes
    <2>1. ~gone /\ NobodyWalks /\ UNCHANGED <<gone, broken>>
        BY <1>11 DEF Find
    <2>2. /\ UNCHANGED vars
          /\ \/ finder'[f].pc \in {"found", "not_found"}
             \/ /\ finder'[f].pc = "walking" /\ finder'[f].key = k
                /\ finder'[f].node = rootNode
                /\ k \notin DOMAIN buffer /\ OnTheWay(k, rootNode)
        BY <1>1, <1>11, <2>1, FindInWhole
    <2>3. \A g \in Finders : g # f => finder'[g] = finder[g]
        BY <1>1, <1>11 DEF Find, FindsGiven
    <2>4. FindsOnTheWay'
        BY <1>1, <2>1, <2>2, <2>3, WaysKept
    <2>5. \A g \in Finders : finder'[g].pc \notin {"fetching", "error"}
        BY <1>1, <2>2, <2>3
    <2>6. InvH' /\ RootInMemory'
        BY <1>2, <2>1, <2>2
    <2> QED
        BY <1>1, <2>1, <2>2, <2>4, <2>5, <2>6 DEF NobodyWalks, Goes
<1> QED
    BY <1>4, <1>5, <1>6, <1>7, <1>8, <1>9, <1>10, <1>11, <1>12 DEF FetchNext

\* A tree that was not loaded keeps all that is proved of a tree without finds
\* until it is destroyed, and every find is on the way to its key.
THEOREM WholeInvariance == FetchSpec => []WholeFetchInv
<1>1. FetchInit => WholeFetchInv
    BY InitFetchInv, InitWhole DEF WholeFetchInv
<1>2. WholeFetchInv /\ [FetchNext]_<<vars, fetchVars>> => WholeFetchInv'
    BY NextFetchInv, NextWhole DEF WholeFetchInv
<1> QED
    BY <1>1, <1>2, PTL DEF FetchSpec

\* In a tree that was not loaded no find ever waits for storage, whatever the
\* inserts are doing, so none fills a node under an insert or uses freed memory:
\* lazy_find is for loaded trees only (btree.cpp 501-526).
THEOREM OnlyLoadedTreesFetch == FetchSpec => []NobodyFetches
<1>1. WholeFetchInv => NobodyFetches
    BY DEF WholeFetchInv
<1> QED
    BY <1>1, WholeInvariance, PTL

\* A tree that was not loaded is changed by its inserts alone, and a find that goes
\* down it node by node answers what the map holds under its key - the value that
\* was inserted last, or that there is none - unless a split is on its way up
\* (Node::find, btree.cpp 300-330; BTree::find, 528-543).
THEOREM WholeTreesAnswer == FetchSpec => [][WholeStep]_<<vars, fetchVars>>
<1>1. WholeFetchInv /\ [FetchNext]_<<vars, fetchVars>> => WholeStep
    BY NextWhole
<1> QED
    BY <1>1, WholeInvariance, PTL DEF FetchSpec
==========================================================================
