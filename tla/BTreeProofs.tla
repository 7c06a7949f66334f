--------------------------- MODULE BTreeProofs ---------------------------
(***************************************************************************)
(* Theorems about BTree.tla for every set of keys and of coroutines and    *)
(* every node size.  First its type invariant, that at most one coroutine  *)
(* is in the middle of an insert, and what it relies on when it is         *)
(* resumed.  Then the shape of the tree: at every wait of an insert the    *)
(* nodes in memory form one balanced search tree, and the tree holds what  *)
(* a dictionary would.                                                     *)
(***************************************************************************)
EXTENDS BTreeForm, BTreeNodeProofs, SequenceTheorems, WellFoundedInduction

--------------------------------------------------------------------------
\* Maps and nodes stay maps and nodes.

LEMMA NodeWith ==
    ASSUME NEW n, NEW node, IsNode(node, n), NEW i \in Ids,
           NEW e, IsEntry(e, n)
    PROVE  IsNode(With(node, i, e), n) /\ IsNode(WithNew(node, i, e), n)
<1>1. IsFiniteSet(DOMAIN node \cup {i})
    BY FS_AddElement DEF IsNode
<1> QED
    BY <1>1 DEF IsNode, With, WithNew

LEMMA NodeOnly ==
    ASSUME NEW n, NEW node, IsNode(node, n), NEW S
    PROVE  IsNode(Only(node, S), n)
<1>1. IsFiniteSet(DOMAIN node \cap S)
    BY FS_Intersection DEF IsNode
<1> QED
    BY <1>1 DEF IsNode, Only

LEMMA NodeEmpty == \A n : IsNode(EmptyMap, n)
BY FS_EmptySet DEF IsNode, EmptyMap

LEMMA NodeExcept ==
    ASSUME NEW n, NEW node, IsNode(node, n), NEW i,
           NEW e, i \in DOMAIN node => IsEntry(e, n)
    PROVE  IsNode([node EXCEPT ![i] = e], n)
BY DEF IsNode

LEMMA NodeMonotone ==
    ASSUME NEW n \in Nat, NEW m \in Nat, n <= m, NEW node, IsNode(node, n)
    PROVE  IsNode(node, m)
<1>1. 0..n \subseteq 0..m
    OBVIOUS
<1> QED
    BY <1>1 DEF IsNode, IsEntry

LEMMA EntryMonotone ==
    ASSUME NEW n \in Nat, NEW m \in Nat, n <= m, NEW e, IsEntry(e, n)
    PROVE  IsEntry(e, m)
BY DEF IsEntry

LEMMA NewEntry ==
    ASSUME NEW n, NEW v \in Values \cup {NoValue}, NEW c \in 0..n, NEW h
    PROVE  IsEntry(Entry(v, c, h), n)
BY DEF IsEntry, Entry

LEMMA MapWithNew ==
    ASSUME NEW m, IsMap(m), NEW k \in Keys, NEW v \in Values
    PROVE  IsMap(WithNew(m, k, v))
<1>1. IsFiniteSet(DOMAIN m \cup {k})
    BY FS_AddElement DEF IsMap
<1> QED
    BY <1>1 DEF IsMap, WithNew

LEMMA MapOnly ==
    ASSUME NEW m, IsMap(m), NEW S
    PROVE  IsMap(Only(m, S))
<1>1. IsFiniteSet(DOMAIN m \cap S)
    BY FS_Intersection DEF IsMap
<1> QED
    BY <1>1 DEF IsMap, Only

LEMMA MapEmpty == IsMap(EmptyMap)
BY FS_EmptySet DEF IsMap, EmptyMap

--------------------------------------------------------------------------
\* The heap

LEMMA HeapAlloc ==
    ASSUME NEW n, NEW h, IsHeap(h, n), NEW node, IsNode(node, n)
    PROVE  IsHeap(Alloc(h, node), n) /\ Len(Alloc(h, node)) = Len(h) + 1
<1> DEFINE g == Append(h, node)
<1>1. h \in Seq({h[a] : a \in DOMAIN h})
    BY DEF IsHeap
<1>2. /\ g \in Seq({g[a] : a \in DOMAIN g})
      /\ Len(g) = Len(h) + 1
      /\ \A a \in 1..Len(h) : g[a] = h[a]
      /\ g[Len(h) + 1] = node
    BY <1>1
<1>3. Len(h) \in Nat
    BY <1>1
<1>4. \A a \in 1..Len(g) : IsNode(g[a], n)
    <2> SUFFICES ASSUME NEW a \in 1..Len(g) PROVE IsNode(g[a], n)
        OBVIOUS
    <2>1. CASE a \in 1..Len(h)
        BY <2>1, <1>2 DEF IsHeap
    <2>2. CASE a = Len(h) + 1
        BY <2>2, <1>2
    <2> QED
        BY <2>1, <2>2, <1>2, <1>3
<1> QED
    BY <1>2, <1>4 DEF IsHeap, Alloc

LEMMA HeapExcept ==
    ASSUME NEW n, NEW h, IsHeap(h, n), NEW p,
           NEW node, p \in 1..Len(h) => IsNode(node, n)
    PROVE  IsHeap([h EXCEPT ![p] = node], n) /\ Len([h EXCEPT ![p] = node]) = Len(h)
<1> DEFINE g == [h EXCEPT ![p] = node]
<1>1. DOMAIN h = 1..Len(h) /\ Len(h) \in Nat
    BY DEF IsHeap
<1>2. DOMAIN g = 1..Len(h)
    BY <1>1
<1>3. g \in [1..Len(h) -> {g[a] : a \in DOMAIN g}]
    BY <1>2
<1>4. g \in Seq({g[a] : a \in DOMAIN g})
    <2> HIDE DEF g
    <2> QED
        BY <1>3, <1>1, SeqDef
<1>5. Len(g) = Len(h)
    BY <1>4, <1>2, <1>1
<1>6. \A a \in 1..Len(g) : IsNode(g[a], n)
    <2>1. \A a \in 1..Len(h) : g[a] = IF a = p THEN node ELSE h[a]
        BY <1>1
    <2> QED
        BY <2>1, <1>5 DEF IsHeap
<1> QED
    BY <1>4, <1>5, <1>6 DEF IsHeap

LEMMA HeapMonotone ==
    ASSUME NEW n \in Nat, NEW m \in Nat, n <= m, NEW h, IsHeap(h, n)
    PROVE  IsHeap(h, m)
BY NodeMonotone DEF IsHeap

LEMMA HeapLen ==
    ASSUME NEW n, NEW h, IsHeap(h, n)
    PROVE  Len(h) \in Nat
BY DEF IsHeap

--------------------------------------------------------------------------
\* The inductive invariant: the types alone are not inductive, since a node may
\* be dereferenced only by the one coroutine that has it in its frame.
IInv == TypeOK /\ SingleWriter /\ WriterResumes

LEMMA InitIInv == Init => IInv
<1> SUFFICES ASSUME Init PROVE IInv
    OBVIOUS
<1>1. heap = <<>> /\ Len(heap) = 0 /\ IsHeap(heap, Len(heap))
    BY EmptySeq DEF Init, IsHeap
<1>2. stack \in Seq([node : Addresses, id : Ids])
    BY EmptySeq DEF Init
<1>3. pc \in [Coroutines -> Suspended \cup Running] /\ \A c \in Coroutines : pc[c] = "ready"
    BY DEF Init, Suspended
<1>4. rootNode \in 0..Len(heap) /\ item \in [key : Ids, value : Values \cup {NoValue}]
    BY <1>1 DEF Init, Null, Ids
<1>5. TypeOK
    BY <1>1, <1>2, <1>3, <1>4, MapEmpty DEF Init, TypeOK
<1> QED
    BY <1>3, <1>5 DEF IInv, Init, SingleWriter, WriterResumes, Bound

\* A step of the writer leaves every other coroutine outside of insert.
LEMMA WriterStep ==
    ASSUME IInv, NEW c \in Coroutines, pc[c] # "ready",
           NEW l \in Suspended \cup Running, l # "ready", Goto(c, l),
           isInserting' = isInserting
    PROVE  /\ pc' \in [Coroutines -> Suspended \cup Running]
           /\ SingleWriter'
           /\ pc'[c] = l
           /\ \A d \in Coroutines : d # c => pc'[d] = "ready"
<1>1. pc \in [Coroutines -> Suspended \cup Running]
    BY DEF IInv, TypeOK
<1>2. \A d \in Coroutines : d # c => pc[d] = "ready"
    BY DEF IInv, SingleWriter
<1>3. pc'[c] = l /\ \A d \in Coroutines : d # c => pc'[d] = pc[d]
    BY <1>1 DEF Goto
<1>4. pc' \in [Coroutines -> Suspended \cup Running]
    BY <1>1 DEF Goto
<1>5. isInserting
    BY DEF IInv, SingleWriter
<1> QED
    BY <1>2, <1>3, <1>4, <1>5 DEF SingleWriter

\* So does one that ends the insert.
LEMMA WriterLeaves ==
    ASSUME IInv, NEW c \in Coroutines, pc[c] # "ready", Goto(c, "ready"),
           isInserting' = FALSE
    PROVE  /\ pc' \in [Coroutines -> Suspended \cup Running]
           /\ SingleWriter'
           /\ \A d \in Coroutines : pc'[d] = "ready"
<1>1. pc \in [Coroutines -> Suspended \cup Running]
    BY DEF IInv, TypeOK
<1>2. \A d \in Coroutines : d # c => pc[d] = "ready"
    BY DEF IInv, SingleWriter
<1>3. pc' \in [Coroutines -> Suspended \cup Running]
    BY <1>1 DEF Goto, Suspended
<1>4. \A d \in Coroutines : pc'[d] = "ready"
    BY <1>1, <1>2 DEF Goto
<1> QED
    BY <1>3, <1>4 DEF SingleWriter

\* try_remove either goes on at once or waits with the way back in job.
LEMMA TryRemoveGoes ==
    ASSUME NEW c \in Coroutines, NEW h, NEW next, TryRemove(c, h, next)
    PROVE  \/ Goto(c, next) /\ job' = job
           \/ Goto(c, "removing") /\ job'.next = next
BY DEF TryRemove

--------------------------------------------------------------------------
\* One lemma per group of actions.

LEMMA CallStep ==
    ASSUME IInv, NEW c \in Coroutines, NEW k \in Keys, NEW v \in Values,
           Call(c, k, v)
    PROVE  IInv'
<1>1. IsMap(WithNew(buffer, k, v))
    BY MapWithNew DEF IInv, TypeOK
<1>2. CASE BufferInsert(c, k, v)
    BY <1>1, <1>2 DEF BufferInsert, IInv, TypeOK, SingleWriter, WriterResumes,
                      Bound, tree, frame, Addresses
<1>3. CASE StartInsert(c, k, v)
    <2>1. \A d \in Coroutines : pc[d] = "ready"
        BY <1>3 DEF MayStart, StartInsert, IInv, SingleWriter
    <2>2. pc \in [Coroutines -> Suspended \cup Running]
        BY DEF IInv, TypeOK
    <2>3. pc'[c] = "loop" /\ \A d \in Coroutines : d # c => pc'[d] = "ready"
        BY <1>3, <2>1, <2>2 DEF StartInsert, Goto
    <2>4. pc' \in [Coroutines -> Suspended \cup Running]
        BY <1>3, <2>2 DEF StartInsert, Goto, Running
    <2>5. TypeOK'
        BY <1>1, <1>3, <2>3, <2>4 DEF StartInsert, IInv, TypeOK, tree, frame, Addresses
    <2>6. SingleWriter'
        BY <1>3, <2>3 DEF StartInsert, SingleWriter
    <2> QED
        BY <2>3, <2>5, <2>6 DEF IInv, WriterResumes, Bound
<1> QED
    BY <1>2, <1>3 DEF Call

\* Taking the buffer, ending the insert, picking a pair, starting to store
LEMMA LoopStep ==
    ASSUME IInv, NEW c \in Coroutines,
           TakeBuffer(c) \/ InsertDone(c) \/ Pick(c) \/ Flush(c)
    PROVE  IInv'
<1>1. CASE TakeBuffer(c)
    <2>1. /\ pc' \in [Coroutines -> Suspended \cup Running]
          /\ SingleWriter'
          /\ pc'[c] = "pick"
          /\ \A d \in Coroutines : d # c => pc'[d] = "ready"
        BY <1>1, WriterStep DEF TakeBuffer, Running
    <2>2. TypeOK'
        BY <1>1, <2>1, MapEmpty DEF MoreBuffered, Emptied, TakeBuffer, IInv, TypeOK, tree, frame, Addresses
    <2>3. WriterResumes'
        BY <1>1, <2>1 DEF MoreBuffered, Emptied, TakeBuffer, WriterResumes, Bound
    <2> QED
        BY <2>1, <2>2, <2>3 DEF IInv
<1>2. CASE InsertDone(c)
    <2>1. /\ pc' \in [Coroutines -> Suspended \cup Running]
          /\ SingleWriter'
          /\ \A d \in Coroutines : pc'[d] = "ready"
        BY <1>2, WriterLeaves DEF InsertDone
    <2>2. TypeOK'
        BY <1>2, <2>1 DEF InsertDone, IInv, TypeOK, tree, frame, Addresses
    <2>3. WriterResumes'
        BY <2>1 DEF WriterResumes, Bound
    <2> QED
        BY <2>1, <2>2, <2>3 DEF IInv
<1>3. CASE Pick(c)
    <2> DEFINE k == First(DOMAIN batch)
    <2>1. /\ pc' \in [Coroutines -> Suspended \cup Running]
          /\ SingleWriter'
          /\ pc'[c] = "descend"
          /\ \A d \in Coroutines : d # c => pc'[d] = "ready"
        BY <1>3, WriterStep DEF Pick, Running
    <2>2. k \in DOMAIN batch
        <3>1. DOMAIN batch \subseteq Ids /\ IsFiniteSet(DOMAIN batch) /\ DOMAIN batch # {}
            BY <1>3 DEF Pick, IInv, TypeOK, IsMap, Ids
        <3> QED
            BY <3>1, FirstIsFirst
    <2>3. item' \in [key : Ids, value : Values \cup {NoValue}] /\ IsMap(batch')
        BY <1>3, <2>2, MapOnly DEF Pick, IInv, TypeOK, IsMap, Ids
    <2>4. /\ IsHeap(heap', Len(heap'))
          /\ rootNode' \in 1..Len(heap')
        <3>1. Len(heap) \in Nat
            BY HeapLen DEF IInv, TypeOK
        <3>2. CASE rootNode = Null
            <4>1. IsHeap(heap, Len(heap) + 1)
                BY <3>1, HeapMonotone DEF IInv, TypeOK
            <4> QED
                BY <1>3, <3>1, <3>2, <4>1, NodeEmpty, HeapAlloc DEF NoRootNode, Pick, NewAddress
        <3>3. CASE rootNode # Null
            BY <1>3, <3>1, <3>3 DEF NoRootNode, Pick, IInv, TypeOK, Null
        <3> QED
            BY <3>2, <3>3
    <2>5. TypeOK'
        <3>1. stack' \in Seq([node : Addresses', id : Ids])
            BY <1>3, EmptySeq DEF Pick
        <3> QED
            BY <1>3, <2>1, <2>3, <2>4, <3>1 DEF Pick, IInv, TypeOK, Addresses
    <2>6. WriterResumes'
        BY <2>1, <2>4 DEF WriterResumes, Bound, Null
    <2> QED
        BY <2>1, <2>5, <2>6 DEF IInv
<1>4. CASE Flush(c)
    <2>1. rootNode \in Addresses
        BY <1>4 DEF Flush, IInv, TypeOK, WriterResumes, Null, Addresses
    <2>2. PICK l \in {"store", "removing"} :
              Goto(c, l) /\ (l = "removing" => job'.next = "store")
        BY <1>4, TryRemoveGoes DEF Flush
    <2>3. /\ pc' \in [Coroutines -> Suspended \cup Running]
          /\ SingleWriter'
          /\ pc'[c] = l
          /\ \A d \in Coroutines : d # c => pc'[d] = "ready"
        BY <1>4, <2>2, WriterStep DEF Flush, queue, Running, Suspended
    <2>4. TypeOK'
        <3>1. stack' \in Seq([node : Addresses', id : Ids])
            BY <1>4, EmptySeq DEF Flush
        <3> QED
            BY <1>4, <2>1, <2>3, <3>1 DEF Flush, IInv, TypeOK, queue, tree, Addresses
    <2>5. WriterResumes'
        BY <1>4, <2>1, <2>2, <2>3 DEF Flush, WriterResumes, Bound, tree, Null, Addresses
    <2> QED
        BY <2>3, <2>4, <2>5 DEF IInv
<1> QED
    BY <1>1, <1>2, <1>3, <1>4

\* Node::insert on the way down
LEMMA DescendStep ==
    ASSUME IInv, NEW c \in Coroutines,
           InsertAtLeaf(c) \/ OverwriteValue(c) \/ GoDown(c)
    PROVE  IInv'
<1>0. /\ Len(heap) \in Nat /\ at \in Addresses /\ rootNode # Null
      /\ IsHeap(heap, Len(heap)) /\ IsNode(heap[at], Len(heap))
    <2>1. pc[c] = "descend"
        BY DEF InsertAtLeaf, OverwriteValue, GoDown
    <2> QED
        BY <2>1, HeapLen DEF IInv, TypeOK, WriterResumes, IsHeap, Addresses
<1>1. CASE InsertAtLeaf(c)
    <2>1. /\ pc' \in [Coroutines -> Suspended \cup Running]
          /\ SingleWriter'
          /\ pc'[c] = "split"
          /\ \A d \in Coroutines : d # c => pc'[d] = "ready"
        BY <1>1, WriterStep DEF InsertAtLeaf, queue, Running
    <2> DEFINE leaf == WithNew(heap[at], item.key, Entry(item.value, Null, NoHash))
    <2>2. IsNode(leaf, Len(heap))
        <3>1. item.key \in Ids /\ item.value \in Values \cup {NoValue} /\ Null \in 0..Len(heap)
            BY <1>0 DEF IInv, TypeOK, Null
        <3> QED
            BY <3>1, <1>0, NewEntry, NodeWith
    <2>3. IsHeap(heap', Len(heap)) /\ Len(heap') = Len(heap)
        <3>1. heap' = [heap EXCEPT ![at] = leaf]
            BY <1>1 DEF InsertAtLeaf
        <3>2. /\ IsHeap([heap EXCEPT ![at] = leaf], Len(heap))
              /\ Len([heap EXCEPT ![at] = leaf]) = Len(heap)
            <4> HIDE DEF leaf
            <4> QED
                BY <1>0, <2>2, HeapExcept
        <3> QED
            BY <3>1, <3>2
    <2>4. TypeOK'
        BY <1>0, <1>1, <2>1, <2>3 DEF InsertAtLeaf, IInv, TypeOK, queue, frame, Addresses
    <2>5. WriterResumes'
        BY <1>0, <1>1, <2>1 DEF InsertAtLeaf, WriterResumes, Bound
    <2> QED
        BY <2>1, <2>4, <2>5 DEF IInv
<1>2. CASE OverwriteValue(c)
    <2> DEFINE k == item.key
               e == [heap[at][k] EXCEPT !.value = item.value]
               node == [heap[at] EXCEPT ![k] = e]
    <2>1. /\ pc' \in [Coroutines -> Suspended \cup Running]
          /\ SingleWriter'
          /\ pc'[c] = "return"
          /\ \A d \in Coroutines : d # c => pc'[d] = "ready"
        BY <1>2, WriterStep DEF OverwriteValue, queue, Running
    <2>2. IsNode(node, Len(heap))
        <3>1. IsEntry(heap[at][k], Len(heap)) /\ item.value \in Values \cup {NoValue}
            BY <1>0, <1>2 DEF OverwriteValue, IsNode, IInv, TypeOK
        <3>2. IsEntry(e, Len(heap))
            BY <3>1 DEF IsEntry
        <3> QED
            BY <3>2, <1>0, NodeExcept
    <2>3. heap' = [heap EXCEPT ![at] = node]
        BY <1>2 DEF OverwriteValue
    <2>4. IsHeap(heap', Len(heap)) /\ Len(heap') = Len(heap)
        <3>1. /\ IsHeap([heap EXCEPT ![at] = node], Len(heap))
              /\ Len([heap EXCEPT ![at] = node]) = Len(heap)
            <4> HIDE DEF node
            <4> QED
                BY <1>0, <2>2, HeapExcept
        <3> QED
            BY <2>3, <3>1
    <2>5. TypeOK'
        BY <1>0, <1>2, <2>1, <2>4 DEF OverwriteValue, IInv, TypeOK, queue, frame, Addresses
    <2>6. WriterResumes'
        BY <1>0, <1>2, <2>1 DEF OverwriteValue, WriterResumes, Bound
    <2> QED
        BY <2>1, <2>5, <2>6 DEF IInv
<1>3. CASE GoDown(c)
    <2> DEFINE n    == Len(heap)
               i    == LowerBound(heap[at], item.key)
               here == WithNew(heap[at], i, Entry(NoValue, Null, NoHash))
               e    == [here[i] EXCEPT !.child = n + 1]
    <2>1. /\ pc' \in [Coroutines -> Suspended \cup Running]
          /\ SingleWriter'
          /\ pc' = pc
          /\ pc[c] = "descend"
          /\ \A d \in Coroutines : d # c => pc'[d] = "ready"
        BY <1>3 DEF GoDown, queue, IInv, TypeOK, SingleWriter
    <2>2. i \in Ids
        BY <1>0, LowerBoundIsId DEF IsNode
    <2>3. IsNode(here, n) /\ i \in DOMAIN here /\ IsEntry(here[i], n)
        <3>1. IsEntry(Entry(NoValue, Null, NoHash), n)
            BY <1>0, NewEntry DEF Null
        <3>2. IsNode(here, n)
            BY <1>0, <2>2, <3>1, NodeWith
        <3>3. i \in DOMAIN here
            BY DEF WithNew
        <3> QED
            BY <3>2, <3>3 DEF IsNode
    <2>4. /\ Len(heap') \in Nat /\ Len(heap') >= n
          /\ IsHeap(heap', Len(heap'))
          /\ at' \in 1..Len(heap')
        <3>1. CASE here[i].child = Null
            <4>1. /\ at' = n + 1
                  /\ heap' = Alloc([heap EXCEPT ![at] = With(here, i, e)], EmptyMap)
                BY <1>3, <3>1 DEF GoDown, NewAddress
            <4>2. IsHeap(heap, n + 1) /\ IsNode(here, n + 1)
                BY <1>0, <2>3, HeapMonotone, NodeMonotone
            <4>3. IsEntry(e, n + 1)
                BY <1>0, <2>3 DEF IsEntry
            <4>4. IsNode(With(here, i, e), n + 1)
                BY <2>2, <4>2, <4>3, NodeWith
            <4>5. /\ IsHeap([heap EXCEPT ![at] = With(here, i, e)], n + 1)
                  /\ Len([heap EXCEPT ![at] = With(here, i, e)]) = n
                BY <4>2, <4>4, HeapExcept
            <4>6. IsHeap(heap', n + 1) /\ Len(heap') = n + 1
                BY <4>1, <4>5, NodeEmpty, HeapAlloc, ZenonT(30)
            <4> QED
                BY <1>0, <4>1, <4>6
        <3>2. CASE here[i].child # Null
            <4>1. at' = here[i].child /\ heap' = [heap EXCEPT ![at] = here]
                BY <1>3, <3>2 DEF GoDown
            <4>2. IsHeap(heap', n) /\ Len(heap') = n
                <5>1. /\ IsHeap([heap EXCEPT ![at] = here], n)
                      /\ Len([heap EXCEPT ![at] = here]) = n
                    BY <1>0, <2>3, HeapExcept
                <5> QED
                    BY <4>1, <5>1
            <4>3. at' \in 1..n
                BY <1>0, <2>3, <3>2, <4>1 DEF IsEntry, Null
            <4> QED
                BY <1>0, <4>2, <4>3
        <3> QED
            BY <3>1, <3>2
    <2>5. 0..Len(heap) \subseteq 0..Len(heap') /\ Addresses \subseteq Addresses'
        BY <1>0, <2>4 DEF Addresses
    <2>6. stack' \in Seq([node : Addresses', id : Ids])
        <3>1. stack \in Seq([node : Addresses', id : Ids])
            BY <2>5, SeqMonotonic DEF IInv, TypeOK
        <3>2. [node |-> at, id |-> i] \in [node : Addresses', id : Ids]
            BY <1>0, <2>2, <2>5
        <3>3. stack' = Append(stack, [node |-> at, id |-> i])
            BY <1>3 DEF GoDown
        <3> HIDE DEF i
        <3> QED
            BY <3>1, <3>2, <3>3
    <2>7. carry' = NoSplit \/ IsCarry(carry', Len(heap'))
        BY <1>0, <1>3, <2>4, EntryMonotone, NodeMonotone
        DEF GoDown, IInv, TypeOK, IsCarry
    <2>8. TypeOK'
        BY <1>3, <2>1, <2>4, <2>5, <2>6, <2>7 DEF GoDown, IInv, TypeOK, queue, Addresses
    <2>9. WriterResumes'
        BY <1>0, <1>3, <2>1 DEF GoDown, WriterResumes, Bound
    <2> QED
        BY <2>1, <2>8, <2>9 DEF IInv
<1> QED
    BY <1>1, <1>2, <1>3

LEMMA SplitParts ==
    ASSUME NEW n \in Nat, NEW node, IsNode(node, n), NeedsSplit(node)
    PROVE  /\ IsNode(LeftPart(node), n + 1)
           /\ IsNode(MedianAndRest(node, n + 1), n + 1)
           /\ DOMAIN MedianAndRest(node, n + 1) \ {Inf} # {}
<1> DEFINE m == Median(node)
           lower == Only(node, {j \in Ids : Before(j, m)})
           upper == Only(node, {j \in Ids : ~Before(j, m)})
<1>1. m \in DOMAIN node \ {Inf}
    BY MedianExists DEF IsNode
<1>2. IsNode(node, n + 1)
    BY NodeMonotone
<1>3. IsNode(lower, n + 1) /\ IsNode(upper, n + 1)
    BY <1>2, NodeOnly
<1>4. /\ m \in Ids /\ Inf \in Ids
      /\ node[m].child \in 0..(n + 1)
      /\ node[m].value \in Values \cup {NoValue}
    BY <1>1, <1>2 DEF IsNode, IsEntry, Ids
<1>5. /\ IsEntry(Entry(NoValue, node[m].child, NoHash), n + 1)
      /\ IsEntry(Entry(node[m].value, n + 1, NoHash), n + 1)
    BY <1>4, NewEntry
<1>6. IsNode(LeftPart(node), n + 1)
    <2> HIDE DEF lower
    <2>1. IsNode(With(lower, Inf, Entry(NoValue, node[m].child, NoHash)), n + 1)
        BY <1>3, <1>4, <1>5, NodeWith
    <2> QED
        BY <2>1 DEF LeftPart, lower
<1>7. IsNode(MedianAndRest(node, n + 1), n + 1)
    <2> HIDE DEF upper
    <2>1. IsNode(With(upper, m, Entry(node[m].value, n + 1, NoHash)), n + 1)
        BY <1>3, <1>4, <1>5, NodeWith
    <2> QED
        BY <2>1 DEF MedianAndRest, upper
<1>8. m \in DOMAIN MedianAndRest(node, n + 1)
    BY DEF MedianAndRest, With
<1> QED
    BY <1>1, <1>6, <1>7, <1>8

\* Node::split, on both sides of its wait
LEMMA SplitStep ==
    ASSUME IInv, NEW c \in Coroutines,
           SplitStart(c) \/ SplitRest(c) \/ NoNeedToSplit(c)
    PROVE  IInv'
<1> DEFINE n == Len(heap)
<1>0. /\ n \in Nat /\ at \in 1..n /\ rootNode # Null
      /\ IsHeap(heap, n) /\ IsNode(heap[at], n)
    <2>1. pc[c] \in {"split", "splitRest"}
        BY DEF SplitStart, SplitRest, NoNeedToSplit
    <2> QED
        BY <2>1, HeapLen DEF IInv, TypeOK, WriterResumes, IsHeap, Addresses
<1>1. CASE SplitStart(c)
    <2> DEFINE rest == MedianAndRest(heap[at], n + 1)
               left == LeftPart(heap[at])
    <2>1. PICK l \in {"splitRest", "removing"} :
              Goto(c, l) /\ (l = "removing" => job'.next = "splitRest")
        BY <1>1, TryRemoveGoes DEF SplitStart
    <2>2. /\ pc' \in [Coroutines -> Suspended \cup Running]
          /\ SingleWriter'
          /\ pc'[c] = l
          /\ \A d \in Coroutines : d # c => pc'[d] = "ready"
        BY <1>1, <2>1, WriterStep DEF SplitStart, queue, Running, Suspended
    <2>3. IsNode(left, n + 1) /\ IsNode(rest, n + 1) /\ DOMAIN rest \ {Inf} # {}
        BY <1>0, <1>1, SplitParts DEF SplitStart
    <2>4. heap' = Alloc([heap EXCEPT ![at] = rest], left)
        BY <1>1 DEF SplitStart, NewAddress
    <2>5. /\ IsHeap([heap EXCEPT ![at] = rest], n + 1)
          /\ Len([heap EXCEPT ![at] = rest]) = n
        <3>1. IsHeap(heap, n + 1)
            BY <1>0, HeapMonotone
        <3> HIDE DEF rest
        <3> QED
            BY <2>3, <3>1, HeapExcept
    <2>6. IsHeap(heap', n + 1) /\ Len(heap') = n + 1 /\ heap'[at] = rest
        <3> HIDE DEF rest, left
        <3> DEFINE h == [heap EXCEPT ![at] = rest]
        <3>1. IsHeap(Alloc(h, left), n + 1) /\ Len(Alloc(h, left)) = n + 1
            BY <2>3, <2>5, HeapAlloc, ZenonT(30)
        <3>2. h[at] = rest
            BY <1>0 DEF IsHeap
        <3>3. Alloc(h, left)[at] = h[at]
            BY <1>0, <2>5 DEF Alloc, IsHeap
        <3> QED
            BY <2>4, <3>1, <3>2, <3>3
    <2>7. 0..n \subseteq 0..Len(heap') /\ Addresses \subseteq Addresses'
        BY <1>0, <2>6 DEF Addresses
    <2>8. stack' \in Seq([node : Addresses', id : Ids])
        BY <1>1, <2>7, SeqMonotonic DEF SplitStart, frame, IInv, TypeOK
    <2>9. carry' = NoSplit \/ IsCarry(carry', Len(heap'))
        BY <1>0, <1>1, <2>6, EntryMonotone, NodeMonotone
        DEF SplitStart, frame, IInv, TypeOK, IsCarry
    <2>10. TypeOK'
        BY <1>0, <1>1, <2>2, <2>6, <2>7, <2>8, <2>9
        DEF SplitStart, IInv, TypeOK, queue, frame, Addresses
    <2>11. WriterResumes'
        <3>1. DOMAIN heap'[at'] \ {Inf} # {}
            BY <1>1, <2>3, <2>6 DEF SplitStart, frame
        <3> QED
            BY <1>0, <1>1, <2>1, <2>2, <3>1 DEF SplitStart, WriterResumes, Bound
    <2> QED
        BY <2>2, <2>10, <2>11 DEF IInv
<1>2. CASE SplitRest(c)
    <2> DEFINE m == First(DOMAIN heap[at])
               right == Only(heap[at], Successors(heap[at], m))
    <2>1. /\ pc' \in [Coroutines -> Suspended \cup Running]
          /\ SingleWriter'
          /\ pc'[c] = "return"
          /\ \A d \in Coroutines : d # c => pc'[d] = "ready"
        BY <1>2, WriterStep DEF SplitRest, queue, Running
    <2>2. m \in Keys /\ m \in DOMAIN heap[at]
        <3>1. DOMAIN heap[at] \ {Inf} # {}
            BY <1>2 DEF SplitRest, IInv, WriterResumes, Bound
        <3> QED
            BY <1>0, <3>1, FirstIsKey, FirstIsFirst DEF IsNode
    <2>3. IsNode(right, n)
        BY <1>0, NodeOnly
    <2>4. IsCarry(carry', n)
        <3>1. carry' = [id |-> m, entry |-> heap[at][m], right |-> right]
            BY <1>2 DEF SplitRest
        <3>2. IsEntry(heap[at][m], n)
            BY <1>0, <2>2 DEF IsNode
        <3> QED
            BY <2>2, <2>3, <3>1, <3>2 DEF IsCarry
    <2>5. IsHeap(heap', n) /\ Len(heap') = n
        <3>1. heap' = [heap EXCEPT ![at] = EmptyMap]
            BY <1>2 DEF Erased, SplitRest
        <3>2. IsHeap([heap EXCEPT ![at] = EmptyMap], n) /\ Len([heap EXCEPT ![at] = EmptyMap]) = n
            BY <1>0, NodeEmpty, HeapExcept
        <3> QED
            BY <3>1, <3>2
    <2>6. TypeOK'
        BY <1>0, <1>2, <2>1, <2>4, <2>5 DEF SplitRest, IInv, TypeOK, queue, Addresses
    <2>7. WriterResumes'
        BY <1>0, <1>2, <2>1 DEF SplitRest, WriterResumes, Bound
    <2> QED
        BY <2>1, <2>6, <2>7 DEF IInv
<1>3. CASE NoNeedToSplit(c)
    <2>1. /\ pc' \in [Coroutines -> Suspended \cup Running]
          /\ SingleWriter'
          /\ pc'[c] = "return"
          /\ \A d \in Coroutines : d # c => pc'[d] = "ready"
        BY <1>3, WriterStep DEF NoNeedToSplit, queue, Running
    <2>2. TypeOK'
        BY <1>0, <1>3, <2>1 DEF NoNeedToSplit, IInv, TypeOK, queue, tree, Addresses
    <2>3. WriterResumes'
        BY <1>0, <1>3, <2>1 DEF NoNeedToSplit, WriterResumes, Bound, tree
    <2> QED
        BY <2>1, <2>2, <2>3 DEF IInv
<1> QED
    BY <1>1, <1>2, <1>3

LEMMA TopAndPop ==
    ASSUME NEW S, NEW s \in Seq(S), s # <<>>
    PROVE  Top(s) \in S /\ Pop(s) \in Seq(S)
<1>1. Len(s) \in Nat \ {0}
    BY EmptySeq
<1>2. Top(s) \in S
    BY <1>1, ElementOfSeq DEF Top
<1>3. \A i \in 1..(Len(s) - 1) : s[i] \in S
    BY <1>1, ElementOfSeq
<1>4. Pop(s) \in Seq(S)
    BY <1>1, <1>3, SubSeqProperties DEF Pop
<1> QED
    BY <1>2, <1>4

\* What is left of the callers' frames
LEMMA PopKeeps ==
    ASSUME NEW S, NEW s \in Seq(S), s # <<>>
    PROVE  /\ Len(Pop(s)) = Len(s) - 1
           /\ \A j \in 1..(Len(s) - 1) : Pop(s)[j] = s[j]
<1>1. Len(s) \in Nat \ {0}
    BY EmptySeq
<1>2. \A j \in 1..(Len(s) - 1) : s[j] \in S
    BY <1>1, ElementOfSeq
<1> QED
    <2> DEFINE m == Len(s) - 1
    <2>1. m \in Nat /\ \A j \in 1..m : s[j] \in S
        BY <1>1, <1>2
    <2> HIDE DEF m
    <2>2. /\ Len(SubSeq(s, 1, m)) = IF 1 <= m THEN m - 1 + 1 ELSE 0
          /\ \A j \in 1..(m - 1 + 1) : SubSeq(s, 1, m)[j] = s[1 + j - 1]
        BY <2>1, SubSeqProperties
    <2>3. m - 1 + 1 = m /\ \A j \in 1..m : 1 + j - 1 = j
        BY <2>1
    <2>4. Len(SubSeq(s, 1, m)) = m
        BY <2>1, <2>2
    <2>5. \A j \in 1..m : SubSeq(s, 1, m)[j] = s[j]
        BY <2>2, <2>3
    <2> QED
        BY <2>4, <2>5 DEF m, Pop

LEMMA TopFrame ==
    ASSUME stack \in Seq([node : Addresses, id : Ids]), stack # <<>>
    PROVE  /\ Top(stack) \in [node : Addresses, id : Ids]
           /\ Top(stack).node \in Addresses
           /\ Pop(stack) \in Seq([node : Addresses, id : Ids])
<1> DEFINE F == [node : Addresses, id : Ids]
<1>1. Top(stack) \in F /\ Pop(stack) \in Seq(F)
    <2>1. stack \in Seq(F) /\ stack # <<>>
        OBVIOUS
    <2> HIDE DEF F
    <2> QED
        BY <2>1, TopAndPop
<1> QED
    BY <1>1

\* insert_node puts nodes where nodes were.
LEMMA AttachedIsHeap ==
    ASSUME NEW n, IsHeap(heap, n), IsCarry(carry, n), NEW p \in 1..Len(heap)
    PROVE  IsHeap(Attached(heap, p), n) /\ Len(Attached(heap, p)) = Len(heap)
<1> DEFINE node == WithNew(heap[p], carry.id, carry.entry)
           next == First(Successors(node, carry.id))
           q    == node[next].child
           h    == [heap EXCEPT ![p] = node]
<1>1. IsNode(node, n)
    BY NodeWith DEF IsHeap, IsCarry, Ids
<1>2. IsHeap(h, n) /\ Len(h) = Len(heap)
    <2> HIDE DEF node
    <2> QED
        BY <1>1, HeapExcept
<1>3. /\ IsHeap([h EXCEPT ![q] = carry.right], n)
      /\ Len([h EXCEPT ![q] = carry.right]) = Len(h)
    <2> HIDE DEF h, q
    <2> QED
        BY <1>2, HeapExcept DEF IsCarry
<1>4. Attached(heap, p) = [h EXCEPT ![q] = carry.right]
    BY DEF Attached
<1> QED
    BY <1>2, <1>3, <1>4

\* Node::insert on the way up, and raw_insert behind it
LEMMA ReturnStep ==
    ASSUME IInv, NEW c \in Coroutines,
           ReturnToParent(c) \/ ReturnToRoot(c) \/ Attach(c)
    PROVE  IInv'
<1> DEFINE n == Len(heap)
<1>0. /\ n \in Nat /\ at \in Addresses
      /\ rootNode \in 1..n /\ rootNode # Null
      /\ IsHeap(heap, n)
      /\ stack \in Seq([node : Addresses, id : Ids])
    <2>1. pc[c] \in {"return", "attach"}
        BY DEF ReturnToParent, ReturnToRoot, Attach
    <2> QED
        BY <2>1, HeapLen DEF IInv, TypeOK, WriterResumes, Null
<1>1. CASE ReturnToParent(c)
    <2> DEFINE up   == Top(stack)
               e    == [heap[up.node][up.id] EXCEPT !.hash = NoHash]
               node == [heap[up.node] EXCEPT ![up.id] = e]
    <2>1. PICK l \in {"attach", "removing"} :
              Goto(c, l) /\ (l = "removing" => job'.next = "attach")
        BY <1>1, TryRemoveGoes DEF ReturnToParent
    <2>2. /\ pc' \in [Coroutines -> Suspended \cup Running]
          /\ SingleWriter'
          /\ pc'[c] = l
          /\ \A d \in Coroutines : d # c => pc'[d] = "ready"
        BY <1>1, <2>1, WriterStep DEF ReturnToParent, queue, Running, Suspended
    <2>3. up.node \in 1..n
        <3>1. stack # <<>>
            BY <1>1 DEF ReturnToParent
        <3> QED
            BY <1>0, <3>1, TopFrame DEF Addresses
    <2>4. IsNode(node, n)
        <3>1. IsNode(heap[up.node], n)
            BY <1>0, <2>3 DEF IsHeap
        <3>2. up.id \in DOMAIN heap[up.node] => IsEntry(e, n)
            BY <3>1 DEF IsNode, IsEntry
        <3> HIDE DEF e, up
        <3> QED
            BY <3>1, <3>2, NodeExcept
    <2>5. heap' = [heap EXCEPT ![up.node] = node]
        BY <1>1 DEF ReturnToParent
    <2>6. IsHeap(heap', n) /\ Len(heap') = n
        <3> DEFINE p == up.node
        <3>1. IsHeap(heap, n)
            BY <1>0
        <3> HIDE DEF node, p, n
        <3>2. /\ IsHeap([heap EXCEPT ![p] = node], n)
              /\ Len([heap EXCEPT ![p] = node]) = Len(heap)
            BY <2>4, <3>1, HeapExcept
        <3> QED
            BY <2>5, <3>2 DEF p, n
    <2>7. TypeOK'
        BY <1>0, <1>1, <2>2, <2>6 DEF ReturnToParent, IInv, TypeOK, queue, frame, Addresses
    <2>8. WriterResumes'
        BY <1>0, <1>1, <2>1, <2>2 DEF ReturnToParent, WriterResumes, Bound, frame
    <2> QED
        BY <2>2, <2>7, <2>8 DEF IInv
<1>2. CASE ReturnToRoot(c)
    <2> DEFINE pair == With(With(EmptyMap, carry.id, carry.entry),
                            Inf, Entry(NoValue, n + 1, NoHash))
               h    == [heap EXCEPT ![rootNode] = pair]
    <2>1. /\ pc' \in [Coroutines -> Suspended \cup Running]
          /\ SingleWriter'
          /\ pc'[c] = "pick"
          /\ \A d \in Coroutines : d # c => pc'[d] = "ready"
        BY <1>2, WriterStep DEF ReturnToRoot, queue, Running
    <2>2. /\ Len(heap') \in Nat /\ Len(heap') >= n
          /\ IsHeap(heap', Len(heap'))
        <3>1. CASE carry = NoSplit
            BY <1>0, <1>2, <3>1 DEF ReturnToRoot
        <3>2. CASE carry # NoSplit
            <4>1. heap' = Alloc(h, carry.right)
                BY <1>2, <3>2 DEF ReturnToRoot, NewAddress
            <4>2. IsCarry(carry, n)
                BY <3>2 DEF IInv, TypeOK
            <4>3. /\ carry.id \in Ids /\ Inf \in Ids
                  /\ IsEntry(carry.entry, n + 1) /\ IsNode(carry.right, n + 1)
                BY <1>0, <4>2, EntryMonotone, NodeMonotone DEF IsCarry, Ids
            <4>4. IsEntry(Entry(NoValue, n + 1, NoHash), n + 1)
                BY <1>0, NewEntry
            <4>5. IsNode(pair, n + 1)
                <5>1. IsNode(With(EmptyMap, carry.id, carry.entry), n + 1)
                    BY <4>3, NodeEmpty, NodeWith
                <5> QED
                    BY <4>3, <4>4, <5>1, NodeWith
            <4>6. IsHeap(h, n + 1) /\ Len(h) = n
                <5>1. IsHeap(heap, n + 1)
                    BY <1>0, HeapMonotone
                <5> HIDE DEF pair
                <5> QED
                    BY <4>5, <5>1, HeapExcept
            <4>7. IsHeap(heap', n + 1) /\ Len(heap') = n + 1
                <5> HIDE DEF h
                <5> QED
                    BY <4>1, <4>3, <4>6, HeapAlloc
            <4> QED
                BY <1>0, <4>7
        <3> QED
            BY <3>1, <3>2
    <2>3. 0..n \subseteq 0..Len(heap') /\ Addresses \subseteq Addresses'
        BY <1>0, <2>2 DEF Addresses
    <2>4. stack' \in Seq([node : Addresses', id : Ids])
        BY <1>0, <1>2, <2>3, SeqMonotonic DEF ReturnToRoot
    <2>5. TypeOK'
        BY <1>0, <1>2, <2>1, <2>2, <2>3, <2>4 DEF ReturnToRoot, IInv, TypeOK, queue
    <2>6. WriterResumes'
        BY <1>0, <1>2, <2>1 DEF ReturnToRoot, WriterResumes, Bound
    <2> QED
        BY <2>1, <2>5, <2>6 DEF IInv
<1>3. CASE Attach(c)
    <2>1. /\ pc' \in [Coroutines -> Suspended \cup Running]
          /\ SingleWriter'
          /\ pc'[c] = "split"
          /\ \A d \in Coroutines : d # c => pc'[d] = "ready"
        BY <1>3, WriterStep DEF Attach, queue, Running
    <2>2. stack # <<>>
        BY <1>3 DEF Attach, IInv, WriterResumes, Bound
    <2>3. Top(stack).node \in Addresses /\ Pop(stack) \in Seq([node : Addresses, id : Ids])
        BY <1>0, <2>2, TopFrame
    <2>4. IsHeap(heap', n) /\ Len(heap') = n
        <3>1. CASE carry = NoSplit
            BY <1>0, <1>3, <3>1 DEF Attach
        <3>2. CASE carry # NoSplit
            <4>1. IsCarry(carry, n)
                BY <3>2 DEF IInv, TypeOK
            <4>2. heap' = Attached(heap, Top(stack).node)
                BY <1>3, <3>2 DEF Attach
            <4>3. Top(stack).node \in 1..Len(heap)
                BY <2>3 DEF Addresses
            <4> QED
                BY <1>0, <4>1, <4>2, <4>3, AttachedIsHeap
        <3> QED
            BY <3>1, <3>2
    <2>5. TypeOK'
        BY <1>0, <1>3, <2>1, <2>3, <2>4 DEF Attach, IInv, TypeOK, queue, Addresses
    <2>6. WriterResumes'
        BY <1>0, <1>3, <2>1 DEF Attach, WriterResumes, Bound
    <2> QED
        BY <2>1, <2>5, <2>6 DEF IInv
<1> QED
    BY <1>1, <1>2, <1>3

\* Node::store on the way down, and its call of add_op
LEMMA StoreStep ==
    ASSUME IInv, NEW c \in Coroutines, StoreChild(c) \/ StoreNode(c)
    PROVE  IInv'
<1>0. /\ Len(heap) \in Nat /\ at \in Addresses /\ rootNode # Null
      /\ IsNode(heap[at], Len(heap))
    <2>1. pc[c] = "store"
        BY DEF StoreChild, StoreNode
    <2> QED
        BY <2>1, HeapLen DEF IInv, TypeOK, WriterResumes, IsHeap, Addresses
<1>1. CASE StoreChild(c)
    <2> DEFINE i == First(ToStore(heap[at]))
    <2>1. /\ pc' \in [Coroutines -> Suspended \cup Running]
          /\ SingleWriter'
          /\ pc'[c] = "store"
          /\ \A d \in Coroutines : d # c => pc'[d] = "ready"
        BY <1>1 DEF StoreChild, queue, IInv, TypeOK, SingleWriter
    <2>2. i \in ToStore(heap[at]) /\ i \in Ids
        <3>1. ToStore(heap[at]) \subseteq DOMAIN heap[at]
            BY DEF ToStore
        <3>2. /\ ToStore(heap[at]) \subseteq Ids /\ IsFiniteSet(ToStore(heap[at]))
              /\ ToStore(heap[at]) # {}
            BY <1>0, <1>1, <3>1, FS_Subset DEF StoreChild, IsNode
        <3> QED
            BY <3>2, FirstIsFirst
    <2>3. heap[at][i].child \in Addresses
        <3>1. i \in DOMAIN heap[at] /\ heap[at][i].child # Null
            BY <2>2 DEF ToStore
        <3>2. IsEntry(heap[at][i], Len(heap))
            BY <1>0, <3>1 DEF IsNode
        <3>3. heap[at][i].child \in 0..Len(heap)
            BY <3>2 DEF IsEntry
        <3> QED
            BY <1>0, <3>1, <3>3 DEF Null, Addresses
    <2>4. stack' \in Seq([node : Addresses, id : Ids])
        <3>1. [node |-> at, id |-> i] \in [node : Addresses, id : Ids]
            BY <1>0, <2>2
        <3>2. stack' = Append(stack, [node |-> at, id |-> i])
            BY <1>1 DEF StoreChild
        <3> HIDE DEF i
        <3> QED
            BY <3>1, <3>2 DEF IInv, TypeOK
    <2>5. TypeOK'
        BY <1>1, <2>1, <2>3, <2>4 DEF StoreChild, IInv, TypeOK, queue, tree, Addresses
    <2>6. WriterResumes'
        BY <1>0, <1>1, <2>1 DEF StoreChild, WriterResumes, Bound, tree
    <2> QED
        BY <2>1, <2>5, <2>6 DEF IInv
<1>2. CASE StoreNode(c)
    <2>1. /\ pc' \in [Coroutines -> Suspended \cup Running]
          /\ SingleWriter'
          /\ pc'[c] = "adding"
          /\ \A d \in Coroutines : d # c => pc'[d] = "ready"
        BY <1>2, WriterStep DEF StoreNode, queue, Suspended
    <2>2. TypeOK'
        BY <1>0, <1>2, <2>1 DEF StoreNode, IInv, TypeOK, queue, tree, frame, Addresses
    <2>3. WriterResumes'
        BY <1>0, <1>2, <2>1 DEF StoreNode, WriterResumes, Bound, tree
    <2> QED
        BY <2>1, <2>2, <2>3 DEF IInv
<1> QED
    BY <1>1, <1>2

\* What storage answers
LEMMA AnswerStep ==
    ASSUME IInv, NEW c \in Coroutines, Answer(c)
    PROVE  IInv'
<1>0. /\ pc[c] \in {"adding", "pinning", "removing"}
      /\ Len(heap) \in Nat /\ at \in Addresses /\ rootNode # Null
      /\ IsHeap(heap, Len(heap))
      /\ stack \in Seq([node : Addresses, id : Ids])
    <2>1. pc[c] \in {"adding", "pinning", "removing"}
        BY DEF Answer, Added, Pinned, StoreFailed, Removed, RemoveFailed
    <2> QED
        BY <2>1, HeapLen DEF IInv, TypeOK, WriterResumes
<1>1. CASE Added(c)
    <2>1. /\ pc' \in [Coroutines -> Suspended \cup Running]
          /\ SingleWriter'
          /\ pc'[c] = "pinning"
          /\ \A d \in Coroutines : d # c => pc'[d] = "ready"
        BY <1>1, WriterStep DEF Added, queue, Suspended
    <2>2. TypeOK'
        BY <1>0, <1>1, <2>1 DEF Added, IInv, TypeOK, queue, tree, frame, Addresses
    <2>3. WriterResumes'
        BY <1>0, <1>1, <2>1 DEF Added, WriterResumes, Bound, tree
    <2> QED
        BY <2>1, <2>2, <2>3 DEF IInv
<1>2. CASE Pinned(c) /\ stack = <<>>
    <2>1. /\ pc' \in [Coroutines -> Suspended \cup Running]
          /\ SingleWriter'
          /\ pc'[c] = "loop"
          /\ \A d \in Coroutines : d # c => pc'[d] = "ready"
        BY <1>2, WriterStep DEF Pinned, queue, Running
    <2>2. TypeOK'
        BY <1>0, <1>2, <2>1 DEF Pinned, IInv, TypeOK, queue, Addresses
    <2>3. WriterResumes'
        BY <2>1 DEF WriterResumes, Bound
    <2> QED
        BY <2>1, <2>2, <2>3 DEF IInv
<1>3. CASE Pinned(c) /\ stack # <<>>
    <2> DEFINE up   == Top(stack)
               p    == up.node
               e    == [heap[p][up.id] EXCEPT !.hash = job.hash]
               node == [heap[p] EXCEPT ![up.id] = e]
               n    == Len(heap)
    <2>1. /\ pc' \in [Coroutines -> Suspended \cup Running]
          /\ SingleWriter'
          /\ pc'[c] = "store"
          /\ \A d \in Coroutines : d # c => pc'[d] = "ready"
        BY <1>3, WriterStep DEF Pinned, queue, Running
    <2>2. p \in Addresses /\ Pop(stack) \in Seq([node : Addresses, id : Ids])
        BY <1>0, <1>3, TopFrame
    <2>3. IsNode(node, n)
        <3>1. IsNode(heap[p], n)
            BY <1>0, <2>2 DEF IsHeap, Addresses
        <3>2. up.id \in DOMAIN heap[p] => IsEntry(e, n)
            BY <3>1 DEF IsNode, IsEntry
        <3> HIDE DEF e, up
        <3> QED
            BY <3>1, <3>2, NodeExcept
    <2>4. heap' = [heap EXCEPT ![p] = node]
        BY <1>3 DEF Stored, Pinned
    <2>5. IsHeap(heap', Len(heap')) /\ Len(heap') = Len(heap)
        <3>1. IsHeap(heap, n)
            BY <1>0
        <3> HIDE DEF node, p, n
        <3>2. /\ IsHeap([heap EXCEPT ![p] = node], n)
              /\ Len([heap EXCEPT ![p] = node]) = Len(heap)
            BY <2>3, <3>1, HeapExcept
        <3> QED
            BY <2>4, <3>2 DEF n
    <2>6. TypeOK'
        BY <1>0, <1>3, <2>1, <2>2, <2>5 DEF Pinned, IInv, TypeOK, queue, Addresses
    <2>7. WriterResumes'
        BY <1>0, <1>3, <2>1 DEF Pinned, WriterResumes, Bound
    <2> QED
        BY <2>1, <2>6, <2>7 DEF IInv
<1>4. CASE StoreFailed(c)
    <2>1. /\ pc' \in [Coroutines -> Suspended \cup Running]
          /\ SingleWriter'
          /\ \A d \in Coroutines : pc'[d] = "ready"
        BY <1>0, <1>4, WriterLeaves DEF StoreFailed
    <2>2. stack' \in Seq([node : Addresses', id : Ids])
        BY <1>4, EmptySeq DEF StoreFailed
    <2>3. TypeOK'
        BY <1>4, <2>1, <2>2 DEF StoreFailed, IInv, TypeOK, tree
    <2>4. WriterResumes'
        BY <2>1 DEF WriterResumes, Bound
    <2> QED
        BY <2>1, <2>3, <2>4 DEF IInv
<1>5. CASE Removed(c) \/ RemoveFailed(c)
    <2>1. job.next \in {"store", "splitRest", "attach"} /\ Goto(c, job.next)
        BY <1>5 DEF Removed, RemoveFailed, IInv, WriterResumes
    <2>2. /\ pc' \in [Coroutines -> Suspended \cup Running]
          /\ SingleWriter'
          /\ pc'[c] = job.next
          /\ \A d \in Coroutines : d # c => pc'[d] = "ready"
        BY <1>0, <1>5, <2>1, WriterStep DEF Removed, RemoveFailed, queue, Running
    <2>3. TypeOK'
        BY <1>0, <1>5, <2>2
        DEF Removed, RemoveFailed, IInv, TypeOK, queue, tree, frame, Addresses
    <2>4. WriterResumes'
        BY <1>0, <1>5, <2>1, <2>2
        DEF Removed, RemoveFailed, IInv, WriterResumes, Bound, tree, frame
    <2> QED
        BY <2>2, <2>3, <2>4 DEF IInv
<1> QED
    BY <1>1, <1>2, <1>3, <1>4, <1>5 DEF Answer

LEMMA NextIInv == IInv /\ [Next]_vars => IInv'
<1> SUFFICES ASSUME IInv, [Next]_vars PROVE IInv'
    OBVIOUS
<1>1. CASE Next
    <2>1. PICK c \in Coroutines :
              Step(c) \/ Answer(c) \/ \E k \in Keys, v \in Values : Call(c, k, v)
        BY <1>1 DEF Next
    <2> QED
        BY <2>1, CallStep, LoopStep, DescendStep, SplitStep, ReturnStep, StoreStep,
           AnswerStep DEF Step
<1>2. CASE UNCHANGED vars
    BY <1>2 DEF vars, IInv, TypeOK, SingleWriter, WriterResumes, Bound, Addresses
<1> QED
    BY <1>1, <1>2

--------------------------------------------------------------------------
\* Every state of every behaviour is well typed: whatever is inserted and
\* however the coroutines interleave, Node::insert, split and store only ever
\* work on nodes that exist.
THEOREM TypeCorrect == Spec => []TypeOK
<1>1. IInv => TypeOK
    BY DEF IInv
<1> QED
    BY <1>1, InitIInv, NextIInv, PTL DEF Spec

\* _is_inserting is set exactly while one coroutine is inserting, and there are
\* never two: the buffer is what keeps the others out (btree.cpp 561-564).
THEOREM OneWriter == Spec => []SingleWriter
<1>1. IInv => SingleWriter
    BY DEF IInv
<1> QED
    BY <1>1, InitIInv, NextIInv, PTL DEF Spec

\* What an insert needs when a storage operation resumes it is still there:
\* the root, the median of the node it was splitting and its caller's frame.
THEOREM WriterCanResume == Spec => []WriterResumes
<1>1. IInv => WriterResumes
    BY DEF IInv
<1> QED
    BY <1>1, InitIInv, NextIInv, PTL DEF Spec

--------------------------------------------------------------------------
\* The shape of the tree

\* The nodes with the median and the right part of a split that is under way put
\* back where they came from
Full == IF carry = NoSplit THEN heap
        ELSE [heap EXCEPT ![at] = With(carry.right, carry.id, carry.entry)]

\* The node that is still split: its smallest key leads to its left half.
SplitNode ==
    IF carry # NoSplit \/ \E c \in Coroutines : Bound(c, "splitRest") THEN at ELSE Null

MidKey == IF carry # NoSplit THEN carry.id ELSE First(DOMAIN heap[at])

\* The frames st lead from the root down to the node a.
Walk(F, n, root, lvl, st, a) ==
    /\ st = <<>> => a = root
    /\ st # <<>> => st[1].node = root
    /\ \A j \in 1..Len(st) :
        /\ st[j].node \in 1..n /\ st[j].id \in DOMAIN F[st[j].node]
        /\ F[st[j].node][st[j].id].child = IF j = Len(st) THEN a ELSE st[j + 1].node
        /\ lvl[st[j].node] = lvl[a] + (Len(st) + 1 - j)

Walking == \E c \in Coroutines : pc[c] \notin {"ready", "loop", "pick"}

Shaped(span, lvl) ==
    /\ Tree(Full, Len(heap), rootNode, span, lvl, SplitNode, MidKey)
    /\ Walking => Walk(Full, Len(heap), rootNode, lvl, stack, at)
    /\ \A c \in Coroutines : pc[c] = "descend" => item.key \in span[at]

\* A split hands its parts to the caller and leaves its node without entries.
CarryOut ==
    carry # NoSplit =>
        /\ heap[at] = EmptyMap
        /\ \A j \in DOMAIN carry.right : Before(carry.id, j)
        /\ \E c \in Coroutines : pc[c] = "return" \/ Bound(c, "attach")

\* Balanced means that every node has a level, ordered that it has a span of keys.
Shape ==
    /\ CarryOut
    /\ rootNode = Null => heap = <<>>
    /\ \A c \in Coroutines : pc[c] = "descend" => item.key \in Keys
    /\ rootNode # Null => \E span, lvl : Shaped(span, lvl)

--------------------------------------------------------------------------
\* Walks

LEMMA WalkKeeps ==
    ASSUME NEW F, NEW n, NEW root, NEW lvl, NEW st, NEW a, NEW G, NEW m, NEW lv,
           n \in Nat, Len(st) \in Nat, m \in Nat, n <= m, lvl[a] \in Nat,
           Walk(F, n, root, lvl, st, a), a \in 1..n,
           \A b \in 1..n : lv[b] = lvl[b],
           \A b \in 1..n : lvl[b] > lvl[a] => \A i \in DOMAIN F[b] :
               i \in DOMAIN G[b] /\ G[b][i].child = F[b][i].child
    PROVE  Walk(G, m, root, lv, st, a)
<1>1. ASSUME NEW j \in 1..Len(st)
      PROVE  /\ st[j].node \in 1..m /\ st[j].id \in DOMAIN G[st[j].node]
             /\ G[st[j].node][st[j].id].child = IF j = Len(st) THEN a ELSE st[j + 1].node
             /\ lv[st[j].node] = lv[a] + (Len(st) + 1 - j)
    <2> DEFINE b == st[j].node
               i == st[j].id
    <2>1. /\ b \in 1..n /\ i \in DOMAIN F[b]
          /\ F[b][i].child = IF j = Len(st) THEN a ELSE st[j + 1].node
          /\ lvl[b] = lvl[a] + (Len(st) + 1 - j)
        BY DEF Walk
    <2> HIDE DEF b, i
    <2>2. lvl[b] > lvl[a]
        BY <2>1
    <2>3. i \in DOMAIN G[b] /\ G[b][i].child = F[b][i].child
        BY <2>1, <2>2
    <2>4. b \in 1..m /\ lv[b] = lvl[b] /\ lv[a] = lvl[a]
        BY <2>1
    <2> QED
        BY <2>1, <2>3, <2>4 DEF b, i
<1>2. (st = <<>> => a = root) /\ (st # <<>> => st[1].node = root)
    BY DEF Walk
<1> QED
    BY <1>1, <1>2 DEF Walk

\* One level down
LEMMA WalkDown ==
    ASSUME NEW F, NEW n, NEW root, NEW lvl, NEW st, NEW a, NEW S, st \in Seq(S),
           Walk(F, n, root, lvl, st, a), a \in 1..n,
           NEW i \in DOMAIN F[a], NEW b, b = F[a][i].child,
           lvl[b] \in Nat, lvl[b] + 1 = lvl[a]
    PROVE  Walk(F, n, root, lvl, Append(st, [node |-> a, id |-> i]), b)
<1> DEFINE f == [node |-> a, id |-> i]
           t == Append(st, f)
<1>1. /\ Len(st) \in Nat /\ Len(t) = Len(st) + 1 /\ t[Len(st) + 1] = f
      /\ \A j \in 1..Len(st) : t[j] = st[j]
      /\ f.node = a /\ f.id = i
    OBVIOUS
<1>2. t # <<>> /\ (st = <<>> => Len(st) = 0) /\ (st # <<>> => Len(st) >= 1)
    <2>1. Len(<<>>) = 0
        OBVIOUS
    <2>2. st # <<>> => Len(st) # 0
        BY EmptySeq
    <2> HIDE DEF f, t
    <2> QED
        BY <1>1, <2>1, <2>2
<1> HIDE DEF f, t
<1>3. t[1].node = root
    <2>1. CASE st = <<>>
        BY <2>1, <1>1, <1>2 DEF Walk
    <2>2. CASE st # <<>>
        BY <2>2, <1>1, <1>2 DEF Walk
    <2> QED
        BY <2>1, <2>2
<1>4. ASSUME NEW j \in 1..Len(t)
      PROVE  /\ t[j].node \in 1..n /\ t[j].id \in DOMAIN F[t[j].node]
             /\ F[t[j].node][t[j].id].child = IF j = Len(t) THEN b ELSE t[j + 1].node
             /\ lvl[t[j].node] = lvl[b] + (Len(t) + 1 - j)
    <2>1. CASE j = Len(st) + 1
        BY <2>1, <1>1
    <2>2. CASE j \in 1..Len(st)
        <3>1. /\ st[j].node \in 1..n /\ st[j].id \in DOMAIN F[st[j].node]
              /\ F[st[j].node][st[j].id].child = IF j = Len(st) THEN a ELSE st[j + 1].node
              /\ lvl[st[j].node] = lvl[a] + (Len(st) + 1 - j)
            BY <2>2 DEF Walk
        <3>2. t[j + 1].node = IF j = Len(st) THEN a ELSE st[j + 1].node
            BY <1>1, <2>2
        <3>3. t[j] = st[j] /\ j # Len(t)
            BY <1>1, <2>2
        <3>4. lvl[a] + (Len(st) + 1 - j) = lvl[b] + (Len(t) + 1 - j)
            <4>1. /\ lvl[b] \in Nat /\ lvl[a] = lvl[b] + 1
                  /\ Len(st) \in Nat /\ Len(t) = Len(st) + 1 /\ j \in Nat
                BY <1>1, <2>2
            <4> QED
                BY ONLY <4>1
        <3> QED
            BY <3>1, <3>2, <3>3, <3>4
    <2> QED
        BY <2>1, <2>2, <1>1
<1> QED
    BY <1>2, <1>3, <1>4 DEF Walk, t, f

\* The last frame, and the way to its node
LEMMA WalkUp ==
    ASSUME NEW F, NEW n, NEW root, NEW lvl, NEW st, NEW a, NEW S, st \in Seq(S), st # <<>>,
           Walk(F, n, root, lvl, st, a), lvl[a] \in Nat
    PROVE  /\ Top(st).node \in 1..n /\ Top(st).id \in DOMAIN F[Top(st).node]
           /\ F[Top(st).node][Top(st).id].child = a
           /\ lvl[Top(st).node] = lvl[a] + 1
           /\ Walk(F, n, root, lvl, Pop(st), Top(st).node)
<1> DEFINE l == Len(st)
           u == Pop(st)
           p == Top(st).node
<1>1. l \in Nat /\ l >= 1
    BY EmptySeq
<1>2. /\ Len(u) = l - 1 /\ \A j \in 1..(l - 1) : u[j] = st[j]
    BY PopKeeps
<1>3. Top(st) = st[l]
    BY DEF Top
<1> HIDE DEF u
<1>4. /\ p \in 1..n /\ Top(st).id \in DOMAIN F[p] /\ F[p][Top(st).id].child = a
      /\ lvl[p] = lvl[a] + 1
    <2>1. l \in 1..l
        BY <1>1
    <2>2. /\ st[l].node \in 1..n /\ st[l].id \in DOMAIN F[st[l].node]
          /\ F[st[l].node][st[l].id].child = a
          /\ lvl[st[l].node] = lvl[a] + (l + 1 - l)
        BY <2>1 DEF Walk
    <2> QED
        BY <1>1, <1>3, <2>2
<1> HIDE DEF p
<1>5. (u = <<>> => p = root) /\ (u # <<>> => u[1].node = root)
    <2>1. st[1].node = root
        BY DEF Walk
    <2>2. CASE l = 1
        <3>1. u = <<>>
            BY <2>2 DEF u, Pop
        <3> QED
            BY <2>1, <2>2, <3>1, <1>3 DEF p
    <2>3. CASE l # 1
        <3>1. u[1] = st[1] /\ Len(u) # 0
            BY <2>3, <1>1, <1>2
        <3>2. u # <<>>
            BY <3>1
        <3> QED
            BY <2>1, <3>1, <3>2
    <2> QED
        BY <2>2, <2>3
<1>6. ASSUME NEW j \in 1..Len(u)
      PROVE  /\ u[j].node \in 1..n /\ u[j].id \in DOMAIN F[u[j].node]
             /\ F[u[j].node][u[j].id].child = IF j = Len(u) THEN p ELSE u[j + 1].node
             /\ lvl[u[j].node] = lvl[p] + (Len(u) + 1 - j)
    <2>1. j \in 1..(l - 1) /\ j \in 1..l /\ j # l
        BY <1>1, <1>2
    <2>2. /\ st[j].node \in 1..n /\ st[j].id \in DOMAIN F[st[j].node]
          /\ F[st[j].node][st[j].id].child = st[j + 1].node
          /\ lvl[st[j].node] = lvl[a] + (l + 1 - j)
        BY <2>1 DEF Walk
    <2>3. st[j + 1].node = IF j = Len(u) THEN p ELSE u[j + 1].node
        BY <1>1, <1>2, <1>3, <2>1 DEF p
    <2>4. u[j] = st[j]
        BY <1>2, <2>1
    <2>5. lvl[a] + (l + 1 - j) = lvl[p] + (Len(u) + 1 - j)
        BY <1>1, <1>2, <1>4, <2>1
    <2> QED
        BY <2>2, <2>3, <2>4, <2>5
<1> QED
    BY <1>4, <1>5, <1>6 DEF Walk, p, u

--------------------------------------------------------------------------
\* The heap after a node was replaced, and after one was added
LEMMA Replaced ==
    ASSUME NEW h, NEW n, IsHeap(h, n), NEW p \in 1..Len(h), NEW node
    PROVE  /\ Len([h EXCEPT ![p] = node]) = Len(h)
           /\ \A a \in 1..Len(h) : [h EXCEPT ![p] = node][a] = IF a = p THEN node ELSE h[a]
           /\ \E S : [h EXCEPT ![p] = node] \in Seq(S)
<1> DEFINE g == [h EXCEPT ![p] = node]
<1>1. DOMAIN h = 1..Len(h) /\ Len(h) \in Nat
    BY DEF IsHeap
<1>2. DOMAIN g = 1..Len(h) /\ \A a \in 1..Len(h) : g[a] = IF a = p THEN node ELSE h[a]
    BY <1>1
<1>3. g \in [1..Len(h) -> {g[a] : a \in 1..Len(h)}]
    BY <1>2
<1> HIDE DEF g
<1>4. g \in Seq({g[a] : a \in 1..Len(h)})
    BY <1>1, <1>3, SeqDef
<1>5. Len(g) = Len(h)
    BY <1>1, <1>2, <1>4, LenProperties
<1> QED
    BY <1>2, <1>4, <1>5 DEF g

LEMMA Added1 ==
    ASSUME NEW S, NEW f \in Seq(S), NEW other, NEW g, g = Alloc(f, other)
    PROVE  /\ Len(g) = Len(f) + 1 /\ g[Len(f) + 1] = other
           /\ \A a \in 1..Len(f) : g[a] = f[a]
<1>1. g = Append(f, other)
    BY DEF Alloc
<1> QED
    BY <1>1

LEMMA LengthKept ==
    ASSUME NEW S, NEW h \in Seq(S), NEW p, NEW node
    PROVE  /\ Len([h EXCEPT ![p] = node]) = Len(h)
           /\ \E R : [h EXCEPT ![p] = node] \in Seq(R)
<1> DEFINE g == [h EXCEPT ![p] = node]
           R == {g[a] : a \in 1..Len(h)}
<1>1. DOMAIN g = 1..Len(h) /\ Len(h) \in Nat
    OBVIOUS
<1>2. g \in [1..Len(h) -> R]
    BY <1>1
<1> HIDE DEF g
<1>3. g \in Seq(R)
    BY <1>1, <1>2, SeqDef
<1>4. Len(g) = Len(h)
    BY <1>1, <1>3, LenProperties
<1> QED
    BY <1>3, <1>4 DEF g

\* The heap only grows: addresses stay what they are.
LEMMA HeapGrows ==
    ASSUME IInv, NEW c \in Coroutines, Step(c) \/ Answer(c)
    PROVE  Len(heap') \in Nat /\ Len(heap) \in Nat /\ Len(heap) <= Len(heap')
<1>1. heap \in Seq({heap[a] : a \in DOMAIN heap}) /\ Len(heap) \in Nat
    BY DEF IInv, TypeOK, IsHeap
<1>2. CASE heap' = heap
    BY <1>1, <1>2
<1>3. CASE \E p, node : heap' = [heap EXCEPT ![p] = node]
    BY <1>1, <1>3, LengthKept
<1>4. CASE \E g, node, S : g \in Seq(S) /\ Len(g) = Len(heap) /\ heap' = Alloc(g, node)
    BY <1>1, <1>4, Added1
<1>5. CASE TakeBuffer(c) \/ InsertDone(c) \/ Flush(c) \/ NoNeedToSplit(c)
            \/ StoreChild(c) \/ StoreNode(c) \/ Added(c) \/ StoreFailed(c)
            \/ Removed(c) \/ RemoveFailed(c)
    BY <1>2, <1>5 DEF TakeBuffer, InsertDone, Flush, NoNeedToSplit, StoreChild, StoreNode, Added,
                      StoreFailed, Removed, RemoveFailed, tree
<1>6. CASE Pick(c)
    <2>1. heap' = heap \/ heap' = Alloc(heap, EmptyMap)
        BY <1>6 DEF Pick
    <2> QED
        BY <1>1, <1>2, <1>4, <2>1
<1>7. CASE InsertAtLeaf(c)
    BY <1>3, <1>7 DEF InsertAtLeaf
<1>8. CASE OverwriteValue(c)
    BY <1>3, <1>8 DEF OverwriteValue
<1>9. CASE GoDown(c)
    <2>1. \E node : heap' = [heap EXCEPT ![at] = node] \/ heap' = Alloc([heap EXCEPT ![at] = node], EmptyMap)
        BY <1>9 DEF GoDown
    <2>2. PICK node : heap' = [heap EXCEPT ![at] = node] \/ heap' = Alloc([heap EXCEPT ![at] = node], EmptyMap)
        BY <2>1
    <2>3. /\ Len([heap EXCEPT ![at] = node]) = Len(heap)
          /\ \E R : [heap EXCEPT ![at] = node] \in Seq(R)
        BY <1>1, LengthKept
    <2> QED
        BY <1>3, <1>4, <2>2, <2>3
<1>10. CASE SplitStart(c)
    <2>1. PICK node, part : heap' = Alloc([heap EXCEPT ![at] = node], part)
        BY <1>10 DEF SplitStart
    <2>2. /\ Len([heap EXCEPT ![at] = node]) = Len(heap)
          /\ \E R : [heap EXCEPT ![at] = node] \in Seq(R)
        BY <1>1, LengthKept
    <2> QED
        BY <1>4, <2>1, <2>2
<1>11. CASE SplitRest(c)
    BY <1>3, <1>11 DEF SplitRest
<1>12. CASE ReturnToParent(c)
    BY <1>3, <1>12 DEF ReturnToParent
<1>13. CASE ReturnToRoot(c)
    <2>1. heap' = heap \/ \E node, part : heap' = Alloc([heap EXCEPT ![rootNode] = node], part)
        BY <1>13 DEF ReturnToRoot
    <2>2. CASE heap' # heap
        <3>1. PICK node, part : heap' = Alloc([heap EXCEPT ![rootNode] = node], part)
            BY <2>1, <2>2
        <3>2. /\ Len([heap EXCEPT ![rootNode] = node]) = Len(heap)
              /\ \E R : [heap EXCEPT ![rootNode] = node] \in Seq(R)
            BY <1>1, LengthKept
        <3> QED
            BY <1>4, <3>1, <3>2
    <2> QED
        BY <1>2, <2>2
<1>14. CASE Attach(c)
    <2>1. heap' = heap \/ \E p, node, q, other : heap' = [[heap EXCEPT ![p] = node] EXCEPT ![q] = other]
        BY <1>14 DEF Attach, Attached
    <2>2. CASE heap' # heap
        <3>1. PICK p, node, q, other : heap' = [[heap EXCEPT ![p] = node] EXCEPT ![q] = other]
            BY <2>1, <2>2
        <3> DEFINE g == [heap EXCEPT ![p] = node]
        <3>2. Len(g) = Len(heap) /\ \E R : g \in Seq(R)
            BY <1>1, LengthKept
        <3> HIDE DEF g
        <3>3. Len([g EXCEPT ![q] = other]) = Len(g)
            BY <3>2, LengthKept
        <3>4. heap' = [g EXCEPT ![q] = other]
            BY <3>1 DEF g
        <3> QED
            BY <1>1, <3>2, <3>3, <3>4
    <2> QED
        BY <1>2, <2>2
<1>15. CASE Pinned(c)
    <2>1. heap' = heap \/ \E p, node : heap' = [heap EXCEPT ![p] = node]
        BY <1>15 DEF Pinned
    <2> QED
        BY <1>2, <1>3, <2>1
<1> QED
    BY <1>5, <1>6, <1>7, <1>8, <1>9, <1>10, <1>11, <1>12, <1>13, <1>14, <1>15 DEF Step, Answer

LEMMA FullAt ==
    ASSUME IInv
    PROVE  /\ carry = NoSplit => Full = heap
           /\ carry # NoSplit /\ at \in Addresses =>
                \A a \in Addresses :
                    Full[a] = IF a = at THEN With(carry.right, carry.id, carry.entry)
                              ELSE heap[a]
<1>1. IsHeap(heap, Len(heap))
    BY DEF IInv, TypeOK
<1>2. carry # NoSplit /\ at \in Addresses =>
        \A a \in Addresses :
            Full[a] = IF a = at THEN With(carry.right, carry.id, carry.entry) ELSE heap[a]
    BY <1>1, Replaced DEF Full, Addresses
<1> QED
    BY <1>2 DEF Full

\* Where a step of the writer takes it
LEMMA WriterGoes ==
    ASSUME IInv, NEW c \in Coroutines, pc[c] # "ready", NEW l, Goto(c, l)
    PROVE  /\ pc'[c] = l /\ \A d \in Coroutines : d # c => pc'[d] = "ready"
           /\ SplitNode' = IF carry' # NoSplit \/ l = "splitRest"
                              \/ (l = "removing" /\ job'.next = "splitRest")
                           THEN at' ELSE Null
           /\ Walking' => l \notin {"ready", "loop", "pick"}
           /\ \A d \in Coroutines : pc'[d] = "descend" => l = "descend"
<1>1. /\ pc'[c] = l /\ \A d \in Coroutines : d # c => pc'[d] = "ready"
    BY DEF Goto, IInv, TypeOK, SingleWriter
<1> QED
    BY <1>1 DEF SplitNode, Bound, Walking

\* Where the writer is
LEMMA WriterIs ==
    ASSUME IInv, NEW c \in Coroutines, pc[c] # "ready"
    PROVE  /\ \A d \in Coroutines : d # c => pc[d] = "ready"
           /\ SplitNode = IF carry # NoSplit \/ Bound(c, "splitRest") THEN at ELSE Null
           /\ Walking <=> pc[c] \notin {"ready", "loop", "pick"}
           /\ CarryOut => (carry # NoSplit => pc[c] = "return" \/ Bound(c, "attach"))
<1>1. \A d \in Coroutines : d # c => pc[d] = "ready"
    BY DEF IInv, SingleWriter
<1> QED
    BY <1>1 DEF SplitNode, Bound, Walking, CarryOut

LEMMA ShapeFrom ==
    ASSUME IInv, NEW c \in Coroutines, pc[c] # "ready", NEW l, Goto(c, l),
           rootNode' # Null, NEW span, NEW lvl,
           Tree(Full', Len(heap'), rootNode', span, lvl, SplitNode', MidKey'),
           l \notin {"ready", "loop", "pick"} =>
               Walk(Full', Len(heap'), rootNode', lvl, stack', at'),
           l = "descend" => item'.key \in Keys /\ item'.key \in span[at'],
           CarryOut'
    PROVE  Shape'
<1>1. Shaped(span, lvl)'
    BY WriterGoes DEF Shaped
<1>2. \A d \in Coroutines : pc'[d] = "descend" => item'.key \in Keys
    BY WriterGoes
<1> QED
    BY <1>1, <1>2 DEF Shape

\* Nothing about which keys and which children are where has changed.
LEMMA ShapeKept ==
    ASSUME IInv, Shape, NEW c \in Coroutines, pc[c] # "ready", NEW l, Goto(c, l),
           rootNode' = rootNode, rootNode # Null, Len(heap') = Len(heap),
           \A a \in Addresses : /\ DOMAIN Full'[a] = DOMAIN Full[a]
                                /\ \A i \in DOMAIN Full[a] : Full'[a][i].child = Full[a][i].child,
           SplitNode' = SplitNode, SplitNode # Null => MidKey' = MidKey,
           CarryOut',
           \A span, lvl : Shaped(span, lvl) =>
               /\ l \notin {"ready", "loop", "pick"} =>
                    Walk(Full, Len(heap), rootNode, lvl, stack', at')
               /\ l = "descend" => item'.key \in Keys /\ item'.key \in span[at'],
           l \notin {"ready", "loop", "pick"} => at' \in Addresses /\ Len(stack') \in Nat
    PROVE  Shape'
<1> DEFINE n == Len(heap)
<1>1. PICK span, lvl : Shaped(span, lvl)
    BY DEF Shape
<1>2. Tree(Full, n, rootNode, span, lvl, SplitNode, MidKey)
    BY <1>1 DEF Shaped
<1>3. Tree(Full', n, rootNode, span, lvl, SplitNode, MidKey)
    <2>1. \A a \in 1..n : /\ DOMAIN Full'[a] = DOMAIN Full[a]
                          /\ \A i \in DOMAIN Full[a] : Full'[a][i].child = Full[a][i].child
        BY DEF Addresses
    <2> QED
        BY ONLY <1>2, <2>1, SameShape
<1>4. Tree(Full', Len(heap'), rootNode', span, lvl, SplitNode', MidKey')
    <2>1. CASE SplitNode # Null
        BY <1>3, <2>1
    <2>2. CASE SplitNode = Null
        BY <1>3, <2>2, AnyMid
    <2> QED
        BY <2>1, <2>2
<1>5. l \notin {"ready", "loop", "pick"} =>
        Walk(Full', Len(heap'), rootNode', lvl, stack', at')
    <2> SUFFICES ASSUME l \notin {"ready", "loop", "pick"}
                 PROVE  Walk(Full', n, rootNode, lvl, stack', at')
        OBVIOUS
    <2>1. Walk(Full, n, rootNode, lvl, stack', at')
        BY <1>1
    <2>2. n \in Nat /\ lvl[at'] \in Nat /\ at' \in 1..n /\ Len(stack') \in Nat /\ n <= n
        BY <1>2 DEF Tree, Ghosts, Addresses
    <2>3. \A b \in 1..n : lvl[b] > lvl[at'] => \A i \in DOMAIN Full[b] :
               i \in DOMAIN Full'[b] /\ Full'[b][i].child = Full[b][i].child
        BY DEF Addresses
    <2>4. \A b \in 1..n : lvl[b] = lvl[b]
        OBVIOUS
    <2> QED
        BY ONLY <2>1, <2>2, <2>3, <2>4, WalkKeeps
<1>6. l = "descend" => item'.key \in Keys /\ item'.key \in span[at']
    BY <1>1
<1> QED
    BY <1>4, <1>5, <1>6, ShapeFrom

--------------------------------------------------------------------------
\* One lemma per group of actions.

LEMMA ShapeCall ==
    ASSUME IInv, Shape, NEW c \in Coroutines, NEW k \in Keys, NEW v \in Values,
           Call(c, k, v)
    PROVE  Shape'
<1>1. CASE BufferInsert(c, k, v)
    <2>1. UNCHANGED <<tree, rootHash, frame, item, job, pc>>
        BY <1>1 DEF BufferInsert
    <2> QED
        BY <2>1 DEF Shape, CarryOut, Shaped, Full, SplitNode, MidKey, Walking, Bound, tree, frame
<1>2. CASE StartInsert(c, k, v)
    <2>1. UNCHANGED <<tree, rootHash, frame, item, job>> /\ Goto(c, "loop")
        BY <1>2 DEF StartInsert
    <2>2. /\ \A d \in Coroutines : pc[d] = "ready"
          /\ \A d \in Coroutines : pc'[d] = "ready" \/ pc'[d] = "loop"
        BY <1>2, <2>1 DEF StartInsert, MayStart, Goto, IInv, TypeOK, SingleWriter
    <2>3. carry = NoSplit /\ carry' = NoSplit
        BY <2>1, <2>2 DEF Shape, CarryOut, Bound, frame
    <2>4. Full' = Full /\ SplitNode = Null /\ SplitNode' = Null /\ ~Walking'
        BY <2>1, <2>2, <2>3 DEF Full, SplitNode, Bound, Walking, tree
    <2>5. ASSUME NEW span, NEW lvl, Shaped(span, lvl)
          PROVE  Shaped(span, lvl)'
        <3>1. Tree(Full', Len(heap'), rootNode', span, lvl, Null, MidKey)
            BY <2>1, <2>4, <2>5 DEF Shaped, tree
        <3>2. Tree(Full', Len(heap'), rootNode', span, lvl, SplitNode', MidKey')
            BY <2>4, <3>1, AnyMid
        <3> QED
            BY <2>2, <2>4, <3>2 DEF Shaped
    <2>6. rootNode' = rootNode /\ heap' = heap
        BY <2>1 DEF tree
    <2>7. CarryOut' /\ \A d \in Coroutines : pc'[d] # "descend"
        BY <2>2, <2>3 DEF CarryOut
    <2> QED
        BY <2>5, <2>6, <2>7 DEF Shape
<1> QED
    BY <1>1, <1>2 DEF Call

\* Nobody inserts into or stores a tree that does not exist.
LEMMA NoTreeYet ==
    ASSUME IInv, Shape, NEW c \in Coroutines, pc[c] # "ready", rootNode = Null,
           NEW l \in {"ready", "pick"}, Goto(c, l), UNCHANGED <<tree, carry>>
    PROVE  Shape'
<1>1. carry = NoSplit
    BY WriterIs DEF Shape, IInv, WriterResumes, Bound
<1>2. pc'[c] = l /\ \A d \in Coroutines : d # c => pc'[d] = "ready"
    BY WriterGoes
<1> QED
    BY <1>1, <1>2 DEF Shape, CarryOut, tree

\* Taking the buffer, ending the insert, picking a pair, starting to store
LEMMA ShapeLoop ==
    ASSUME IInv, Shape, NEW c \in Coroutines,
           TakeBuffer(c) \/ InsertDone(c) \/ Pick(c) \/ Flush(c)
    PROVE  Shape'
<1>0. /\ pc[c] \in {"loop", "pick"} /\ pc[c] # "ready"
      /\ carry = NoSplit /\ Full = heap /\ SplitNode = Null
    <2>1. pc[c] \in {"loop", "pick"}
        BY DEF TakeBuffer, InsertDone, Pick, Flush
    <2> QED
        BY <2>1, WriterIs, FullAt DEF Shape, Bound
<1>1. CASE TakeBuffer(c) \/ InsertDone(c)
    <2>1. PICK l \in {"ready", "pick"} : Goto(c, l)
        BY <1>1 DEF TakeBuffer, InsertDone
    <2>2. UNCHANGED <<heap, rootNode, carry, at, stack>>
        BY <1>1 DEF TakeBuffer, InsertDone, tree, frame
    <2>3. CASE rootNode = Null
        BY <1>0, <2>1, <2>2, <2>3, NoTreeYet DEF tree
    <2>4. CASE rootNode # Null
        <3>1. Full' = Full /\ SplitNode' = SplitNode /\ CarryOut'
            BY <1>0, <2>1, <2>2, WriterGoes DEF Full, CarryOut
        <3> QED
            BY <1>0, <2>1, <2>2, <2>4, <3>1, ShapeKept
    <2> QED
        BY <2>3, <2>4
<1>2. CASE Pick(c)
    <2> DEFINE k == First(DOMAIN batch)
    <2>1. Goto(c, "descend") /\ carry' = NoSplit /\ stack' = <<>> /\ at' = rootNode'
        BY <1>2 DEF Pick
    <2>2. item'.key \in Keys
        <3>1. /\ DOMAIN batch \subseteq Ids /\ IsFiniteSet(DOMAIN batch)
              /\ DOMAIN batch # {} /\ DOMAIN batch \subseteq Keys
            BY <1>2 DEF Pick, IInv, TypeOK, IsMap, Ids
        <3>2. k \in DOMAIN batch
            BY <3>1, FirstIsFirst
        <3> QED
            BY <1>2, <3>1, <3>2 DEF Pick
    <2>3. Full' = heap' /\ SplitNode' = Null /\ CarryOut'
        BY <1>0, <2>1, WriterGoes DEF Full, CarryOut
    <2>4. ASSUME NEW lvl, NEW n, NEW F PROVE Walk(F, n, rootNode', lvl, stack', at')
        <3>1. Len(stack') = 0
            BY <2>1
        <3> QED
            BY <2>1, <3>1 DEF Walk
    <2>5. CASE rootNode = Null
        <3>1. heap = <<>> /\ heap' = Append(heap, EmptyMap) /\ rootNode' = Len(heap) + 1
            BY <1>2, <2>5 DEF Pick, NoRootNode, Alloc, NewAddress, Shape
        <3>2. Len(heap') = 1 /\ heap'[1] = EmptyMap /\ rootNode' = 1 /\ at' = 1
            BY <2>1, <3>1
        <3> DEFINE sp == [a \in 1..1 |-> Keys]
                   lv == [a \in 1..1 |-> 0]
        <3>3. Tree(Full', Len(heap'), rootNode', sp, lv, SplitNode', MidKey')
            BY <2>3, <3>2, FirstRoot
        <3>4. item'.key \in sp[at']
            BY <2>2, <3>2
        <3>5. rootNode' # Null
            BY <3>2 DEF Null
        <3> HIDE DEF sp, lv
        <3> QED
            BY <1>0, <2>1, <2>2, <2>3, <2>4, <3>3, <3>4, <3>5, ShapeFrom
    <2>6. CASE rootNode # Null
        <3>1. heap' = heap /\ rootNode' = rootNode
            BY <1>2, <2>6 DEF Pick, NoRootNode
        <3>2. PICK span, lvl : Shaped(span, lvl)
            BY <2>6 DEF Shape
        <3>3. Tree(heap, Len(heap), rootNode, span, lvl, Null, MidKey)
            BY <1>0, <3>2 DEF Shaped
        <3>4. Tree(Full', Len(heap'), rootNode', span, lvl, SplitNode', MidKey')
            BY <2>3, <3>1, <3>3, AnyMid
        <3>5. item'.key \in span[at']
            BY <2>1, <2>2, <3>1, <3>3 DEF Tree, Ghosts
        <3> QED
            BY <1>0, <2>1, <2>2, <2>3, <2>4, <2>6, <3>1, <3>4, <3>5, ShapeFrom
    <2> QED
        BY <2>5, <2>6
<1>3. CASE Flush(c)
    <2>1. PICK l \in {"store", "removing"} :
              Goto(c, l) /\ (l = "removing" => job'.next = "store")
        BY <1>3, TryRemoveGoes DEF Flush
    <2>2. /\ heap' = heap /\ rootNode' = rootNode /\ carry' = NoSplit
          /\ stack' = <<>> /\ at' = rootNode
        BY <1>3 DEF Flush, tree
    <2>3. rootNode # Null /\ rootNode \in Addresses
        BY <1>3 DEF Flush, IInv, TypeOK, WriterResumes, Null, Addresses
    <2>4. Full' = Full /\ SplitNode' = SplitNode /\ CarryOut'
        BY <1>0, <2>1, <2>2, WriterGoes DEF Full, CarryOut
    <2>5. Len(stack') = 0
        BY <2>2
    <2>6. \A lvl : Walk(Full, Len(heap), rootNode, lvl, stack', at')
        BY <2>2, <2>5 DEF Walk
    <2> QED
        BY <1>0, <2>1, <2>2, <2>3, <2>4, <2>5, <2>6, ShapeKept
<1> QED
    BY <1>1, <1>2, <1>3

\* Where Node::insert is on the way down: no node is being split.
LEMMA Descending ==
    ASSUME IInv, Shape, NEW c \in Coroutines, pc[c] \in {"descend", "split", "splitRest"}
    PROVE  /\ pc[c] # "ready" /\ Walking
           /\ carry = NoSplit /\ Full = heap
           /\ at \in 1..Len(heap) /\ Len(heap) \in Nat /\ rootNode # Null
           /\ IsHeap(heap, Len(heap)) /\ IsNode(heap[at], Len(heap))
           /\ pc[c] # "splitRest" => SplitNode = Null
           /\ stack \in Seq([node : Addresses, id : Ids]) /\ Len(stack) \in Nat
<1>1. /\ pc[c] # "ready" /\ carry = NoSplit /\ Full = heap /\ Walking
      /\ pc[c] # "splitRest" => SplitNode = Null
    BY WriterIs, FullAt DEF Shape, Bound
<1>2. /\ at \in Addresses /\ rootNode # Null
      /\ IsHeap(heap, Len(heap)) /\ stack \in Seq([node : Addresses, id : Ids])
    BY DEF IInv, TypeOK, WriterResumes
<1>3. Len(heap) \in Nat /\ Len(stack) \in Nat
    BY <1>2 DEF IsHeap
<1>4. IsNode(heap[at], Len(heap))
    BY <1>2 DEF IsHeap, Addresses
<1> QED
    BY <1>1, <1>2, <1>3, <1>4 DEF Addresses

LEMMA ShapeInsertAtLeaf ==
    ASSUME IInv, Shape, NEW c \in Coroutines, InsertAtLeaf(c)
    PROVE  Shape'
<1> DEFINE n == Len(heap)
           leaf == WithNew(heap[at], item.key, Entry(item.value, Null, NoHash))
<1>1. pc[c] = "descend" /\ IsLeaf(heap[at]) /\ Goto(c, "split")
    BY DEF InsertAtLeaf
<1>2. /\ pc[c] # "ready" /\ Walking /\ carry = NoSplit /\ Full = heap /\ SplitNode = Null
      /\ at \in 1..n /\ n \in Nat /\ rootNode # Null /\ IsHeap(heap, n) /\ Len(stack) \in Nat
    BY <1>1, Descending
<1>3. heap' = [heap EXCEPT ![at] = leaf] /\ UNCHANGED <<rootNode, carry, stack, at>>
    BY DEF InsertAtLeaf, frame
<1>4. Len(heap') = n /\ \A a \in 1..n : heap'[a] = IF a = at THEN leaf ELSE heap[a]
    <2> HIDE DEF leaf
    <2> QED
        BY <1>2, <1>3, Replaced
<1>5. Full' = heap' /\ SplitNode' = Null /\ CarryOut'
    BY <1>1, <1>2, <1>3, WriterGoes DEF Full, CarryOut
<1>6. PICK span, lvl : Shaped(span, lvl)
    BY <1>2 DEF Shape
<1>7. /\ Tree(heap, n, rootNode, span, lvl, Null, MidKey)
      /\ Walk(heap, n, rootNode, lvl, stack, at)
      /\ item.key \in span[at] /\ item.key \in Keys
    BY <1>1, <1>2, <1>6 DEF Shaped, Shape
<1>8. lvl[at] = 0
    BY <1>1, <1>2, <1>7, LeafLevel
<1>9. Tree(heap', n, rootNode, span, lvl, Null, MidKey)
    <2>1. \A a \in 1..n : a # at => heap'[a] = heap[a]
        BY <1>4
    <2>2. DOMAIN heap'[at] = DOMAIN heap[at] \cup {item.key}
        BY <1>2, <1>4 DEF WithNew
    <2>3. \A i \in DOMAIN heap'[at] : heap'[at][i].child = Null
        <3>1. \A i \in DOMAIN heap[at] : heap[at][i].child = Null
            BY <1>1 DEF IsLeaf
        <3>2. Entry(item.value, Null, NoHash).child = Null
            BY DEF Entry
        <3>3. heap'[at] = leaf
            BY <1>2, <1>4
        <3> QED
            BY <3>1, <3>2, <3>3 DEF WithNew
    <2> QED
        BY ONLY <1>2, <1>7, <1>8, <2>1, <2>2, <2>3, LeafWithKey
<1>10. Tree(Full', Len(heap'), rootNode', span, lvl, SplitNode', MidKey')
    BY <1>3, <1>4, <1>5, <1>9, AnyMid
<1>11. Walk(Full', Len(heap'), rootNode', lvl, stack', at')
    <2>1. lvl[at] \in Nat /\ n <= n /\ \A b \in 1..n : lvl[b] = lvl[b]
        BY <1>2, <1>7 DEF Tree, Ghosts
    <2>2. \A b \in 1..n : lvl[b] > lvl[at] => \A i \in DOMAIN heap[b] :
               i \in DOMAIN heap'[b] /\ heap'[b][i].child = heap[b][i].child
        BY <1>4, <2>1
    <2>3. Walk(heap', n, rootNode, lvl, stack, at)
        BY ONLY <1>2, <1>7, <2>1, <2>2, WalkKeeps
    <2> QED
        BY <1>3, <1>4, <1>5, <2>3
<1>12. IInv /\ c \in Coroutines /\ pc[c] # "ready" /\ Goto(c, "split") /\ rootNode' # Null
    BY <1>1, <1>2, <1>3
<1> QED
    BY ONLY <1>5, <1>10, <1>11, <1>12, ShapeFrom

LEMMA ShapeOverwrite ==
    ASSUME IInv, Shape, NEW c \in Coroutines, OverwriteValue(c)
    PROVE  Shape'
<1> DEFINE n == Len(heap)
           node == [heap[at] EXCEPT ![item.key].value = item.value]
<1>1. pc[c] = "descend" /\ Goto(c, "return")
    BY DEF OverwriteValue
<1>2. /\ pc[c] # "ready" /\ Walking /\ carry = NoSplit /\ Full = heap /\ SplitNode = Null
      /\ at \in 1..n /\ n \in Nat /\ rootNode # Null /\ IsHeap(heap, n) /\ Len(stack) \in Nat
      /\ IsNode(heap[at], n)
    BY <1>1, Descending
<1>3. heap' = [heap EXCEPT ![at] = node] /\ UNCHANGED <<rootNode, carry, stack, at>>
    BY DEF OverwriteValue, frame
<1>4. Len(heap') = n /\ \A a \in 1..n : heap'[a] = IF a = at THEN node ELSE heap[a]
    <2> HIDE DEF node
    <2> QED
        BY <1>2, <1>3, Replaced
<1>5. Full' = heap' /\ SplitNode' = Null /\ CarryOut'
    BY <1>1, <1>2, <1>3, WriterGoes DEF Full, CarryOut
<1>6. DOMAIN node = DOMAIN heap[at] /\ \A j \in DOMAIN heap[at] : node[j].child = heap[at][j].child
    BY <1>2 DEF IsNode, IsEntry
<1> HIDE DEF node
<1>7. \A a \in Addresses : /\ DOMAIN Full'[a] = DOMAIN Full[a]
                           /\ \A i \in DOMAIN Full[a] : Full'[a][i].child = Full[a][i].child
    BY <1>2, <1>4, <1>5, <1>6 DEF Addresses
<1>8. \A span, lvl : Shaped(span, lvl) => Walk(Full, Len(heap), rootNode, lvl, stack', at')
    BY <1>2, <1>3 DEF Shaped
<1>9. at' \in Addresses /\ Len(stack') \in Nat /\ rootNode' = rootNode /\ Len(heap') = Len(heap)
    BY <1>2, <1>3, <1>4 DEF Addresses
<1> QED
    BY <1>1, <1>2, <1>5, <1>7, <1>8, <1>9, ShapeKept

LEMMA ShapeGoDown ==
    ASSUME IInv, Shape, NEW c \in Coroutines, GoDown(c)
    PROVE  Shape'
<1> DEFINE n == Len(heap)
           i == LowerBound(heap[at], item.key)
           here == WithNew(heap[at], i, Entry(NoValue, Null, NoHash))
<1>1. /\ pc[c] = "descend" /\ pc' = pc
      /\ ~IsLeaf(heap[at]) /\ item.key \notin DOMAIN heap[at]
    BY DEF GoDown
<1>2. /\ pc[c] # "ready" /\ Walking /\ carry = NoSplit /\ Full = heap /\ SplitNode = Null
      /\ at \in 1..n /\ n \in Nat /\ rootNode # Null /\ IsHeap(heap, n) /\ Len(stack) \in Nat
      /\ IsNode(heap[at], n) /\ stack \in Seq([node : Addresses, id : Ids])
    BY <1>1, Descending
<1>3. Goto(c, "descend")
    BY <1>1 DEF Goto, IInv, TypeOK
<1>4. ASSUME NEW span, NEW lvl, Shaped(span, lvl)
      PROVE  /\ Tree(heap, n, rootNode, span, lvl, Null, MidKey)
             /\ i \in DOMAIN heap[at] /\ heap[at][i].child \in 1..n
             /\ lvl[heap[at][i].child] + 1 = lvl[at] /\ item.key \in span[heap[at][i].child]
             /\ Walk(heap, n, rootNode, lvl, stack, at)
    <2>1. /\ Tree(heap, n, rootNode, span, lvl, Null, MidKey)
          /\ Walk(heap, n, rootNode, lvl, stack, at)
          /\ item.key \in span[at] /\ item.key \in Keys
        BY <1>1, <1>2, <1>4 DEF Shaped, Shape
    <2>2. lvl[at] # 0
        BY <1>1, <1>2, <2>1, LeafLevel
    <2>3. IsFiniteSet(DOMAIN heap[at])
        BY <1>2 DEF IsNode
    <2> QED
        BY <1>1, <1>2, <2>1, <2>2, <2>3, GoesDown
<1>5. i \in DOMAIN heap[at] /\ heap[at][i].child \in 1..n
    BY <1>2, <1>4 DEF Shape
<1>6. DOMAIN here = DOMAIN heap[at] /\ \A j \in DOMAIN heap[at] : here[j] = heap[at][j]
    BY <1>5 DEF WithNew
<1>7. /\ heap' = [heap EXCEPT ![at] = here] /\ at' = heap[at][i].child
      /\ stack' = Append(stack, [node |-> at, id |-> i])
      /\ UNCHANGED <<rootNode, carry, item>>
    <2>1. here[i].child # Null
        BY <1>5, <1>6 DEF Null
    <2> QED
        BY <1>5, <1>6, <2>1 DEF GoDown, queue
<1> HIDE DEF here, i
<1>8. Len(heap') = n /\ \A a \in 1..n : heap'[a] = IF a = at THEN here ELSE heap[a]
    BY <1>2, <1>7, Replaced
<1>9. Full' = heap' /\ SplitNode' = Null /\ CarryOut'
    BY <1>2, <1>3, <1>7, WriterGoes DEF Full, CarryOut
<1>10. \A a \in Addresses : /\ DOMAIN Full'[a] = DOMAIN Full[a]
                            /\ \A j \in DOMAIN Full[a] : Full'[a][j].child = Full[a][j].child
    BY <1>2, <1>6, <1>8, <1>9 DEF Addresses
<1>11. ASSUME NEW span, NEW lvl, Shaped(span, lvl)
       PROVE  /\ Walk(Full, Len(heap), rootNode, lvl, stack', at')
              /\ item'.key \in Keys /\ item'.key \in span[at']
    <2> DEFINE b == heap[at][i].child
               S == [node : Addresses, id : Ids]
    <2>1. /\ Tree(heap, n, rootNode, span, lvl, Null, MidKey)
          /\ b \in 1..n /\ lvl[b] + 1 = lvl[at] /\ item.key \in span[b]
          /\ Walk(heap, n, rootNode, lvl, stack, at)
        BY <1>4, <1>11
    <2>2. lvl[b] \in Nat
        BY <2>1 DEF Tree, Ghosts
    <2>3. stack \in Seq(S) /\ i \in DOMAIN heap[at] /\ at \in 1..n
        BY <1>2, <1>5
    <2>4. b = heap[at][i].child
        OBVIOUS
    <2> HIDE DEF b, S
    <2>5. Walk(heap, n, rootNode, lvl, Append(stack, [node |-> at, id |-> i]), b)
        BY ONLY <2>1, <2>2, <2>3, <2>4, WalkDown
    <2> QED
        BY <1>1, <1>2, <1>7, <2>1, <2>4, <2>5 DEF Shape
<1>12. at' \in Addresses /\ Len(stack') \in Nat /\ rootNode' = rootNode /\ Len(heap') = Len(heap)
    <2>1. Len(stack') = Len(stack) + 1
        BY <1>2, <1>7
    <2> QED
        BY <1>2, <1>5, <1>7, <1>8, <2>1 DEF Addresses
<1> QED
    BY <1>2, <1>3, <1>9, <1>10, <1>11, <1>12, ShapeKept

\* What a split returns is not boost::none.
LEMMA SplitReturns ==
    ASSUME NEW i, NEW e, NEW r
    PROVE  [id |-> i, entry |-> e, right |-> r] # NoSplit
<1>1. "id" \in DOMAIN [id |-> i, entry |-> e, right |-> r]
    OBVIOUS
<1>2. DOMAIN NoSplit = {}
    BY DEF NoSplit, EmptyMap
<1> QED
    BY <1>1, <1>2

LEMMA ShapeNoSplit ==
    ASSUME IInv, Shape, NEW c \in Coroutines, NoNeedToSplit(c)
    PROVE  Shape'
<1>1. /\ pc[c] = "split" /\ Goto(c, "return") /\ carry' = NoSplit
      /\ UNCHANGED <<heap, rootNode, at, stack>>
    BY DEF NoNeedToSplit, tree
<1>2. /\ pc[c] # "ready" /\ Walking /\ carry = NoSplit /\ Full = heap /\ SplitNode = Null
      /\ at \in 1..Len(heap) /\ rootNode # Null /\ Len(stack) \in Nat
    BY <1>1, Descending
<1>3. Full' = Full /\ SplitNode' = Null /\ CarryOut'
    BY <1>1, <1>2, WriterGoes DEF Full, CarryOut
<1>4. \A span, lvl : Shaped(span, lvl) => Walk(Full, Len(heap), rootNode, lvl, stack', at')
    BY <1>1, <1>2 DEF Shaped
<1> QED
    BY <1>1, <1>2, <1>3, <1>4, ShapeKept DEF Addresses

\* Up to its first wait, Node::split leaves the median and the rest where they were.
LEMMA SplitStartIs ==
    ASSUME IInv, Shape, NEW c \in Coroutines, SplitStart(c)
    PROVE  /\ Len(heap') = Len(heap) + 1 /\ Full' = heap'
           /\ SplitOff(heap, heap', Len(heap), at, Median(heap[at]))
           /\ First(DOMAIN heap'[at]) = Median(heap[at])
<1> DEFINE n == Len(heap)
           m == Median(heap[at])
           rest == MedianAndRest(heap[at], n + 1)
           left == LeftPart(heap[at])
<1>1. /\ pc[c] = "split" /\ NeedsSplit(heap[at])
      /\ heap' = Alloc([heap EXCEPT ![at] = rest], left)
      /\ UNCHANGED <<rootNode, carry, stack, at>>
    BY DEF SplitStart, frame, NewAddress
<1>2. /\ carry = NoSplit /\ at \in 1..n /\ n \in Nat /\ IsHeap(heap, n) /\ IsNode(heap[at], n)
    BY <1>1, Descending
<1>3. /\ m \in DOMAIN heap[at] \ {Inf}
      /\ \E k \in DOMAIN heap[at] : Before(k, m)
      /\ \E k \in DOMAIN heap[at] \ {Inf} : Before(m, k)
    BY <1>1, <1>2, MedianExists DEF IsNode
<1>4. /\ DOMAIN heap[at] \subseteq Ids /\ m \in Keys /\ m \in Ids
      /\ \A j \in Ids : ~Before(j, j)
      /\ \A j : ~Before(Inf, j)
    BY <1>2, <1>3, BeforeIsOrder DEF IsNode, Ids, Before
<1>5. /\ DOMAIN rest = {j \in DOMAIN heap[at] : ~Before(j, m)}
      /\ \A j \in DOMAIN rest : j # m => rest[j] = heap[at][j]
      /\ rest[m] = Entry(heap[at][m].value, n + 1, NoHash)
    <2> HIDE DEF m
    <2>1. DOMAIN rest = {j \in DOMAIN heap[at] : ~Before(j, m)}
        BY <1>3, <1>4 DEF MedianAndRest, With, Only, m
    <2>2. ASSUME NEW j \in DOMAIN rest, j # m PROVE rest[j] = heap[at][j]
        BY <2>1, <2>2, <1>4 DEF MedianAndRest, With, Only, m
    <2>3. rest[m] = Entry(heap[at][m].value, n + 1, NoHash)
        BY DEF MedianAndRest, With, Only, m
    <2> QED
        BY <2>1, <2>2, <2>3
<1>6. /\ DOMAIN left = {j \in DOMAIN heap[at] : Before(j, m)} \cup {Inf}
      /\ \A j \in DOMAIN left : j # Inf => left[j] = heap[at][j]
      /\ left[Inf] = Entry(NoValue, heap[at][m].child, NoHash)
    <2> HIDE DEF m
    <2>1. DOMAIN left = {j \in DOMAIN heap[at] : Before(j, m)} \cup {Inf}
        BY <1>4 DEF LeftPart, With, Only, m
    <2>2. ASSUME NEW j \in DOMAIN left, j # Inf PROVE left[j] = heap[at][j]
        BY <2>1, <2>2, <1>4 DEF LeftPart, With, Only, m
    <2>3. left[Inf] = Entry(NoValue, heap[at][m].child, NoHash)
        BY DEF LeftPart, With, Only, m
    <2> QED
        BY <2>1, <2>2, <2>3
<1>7. IsNode(rest, n + 1)
    BY <1>1, <1>2, SplitParts
<1>8. /\ Len(heap') = n + 1 /\ heap'[n + 1] = left
      /\ \A a \in 1..n : heap'[a] = IF a = at THEN rest ELSE heap[a]
    <2>1. IsHeap(heap, n) /\ at \in 1..n
        BY <1>2
    <2> DEFINE f == [heap EXCEPT ![at] = rest]
    <2> HIDE DEF rest, left
    <2>2. /\ Len(f) = n /\ \A a \in 1..n : f[a] = IF a = at THEN rest ELSE heap[a]
          /\ \E S : f \in Seq(S)
        BY ONLY <2>1, Replaced
    <2>3. heap' = Alloc(f, left)
        BY <1>1
    <2> HIDE DEF f
    <2> QED
        BY ONLY <2>2, <2>3, Added1
<1>9. First(DOMAIN rest) = m
    <2>1. DOMAIN rest \subseteq Ids /\ IsFiniteSet(DOMAIN rest) /\ m \in DOMAIN rest
        BY <1>3, <1>4, <1>5, <1>7 DEF IsNode
    <2>2. /\ First(DOMAIN rest) \in DOMAIN rest
          /\ \A j \in DOMAIN rest \ {First(DOMAIN rest)} : Before(First(DOMAIN rest), j)
        BY <2>1, FirstIsFirst
    <2> QED
        BY <2>1, <2>2, <1>5
<1> HIDE DEF m, rest, left
<1>10. SplitOff(heap, heap', n, at, m)
    <2>1. m \in KeysOf(heap[at])
        BY <1>3 DEF KeysOf
    <2>2. (\E j \in KeysOf(heap[at]) : Before(j, m)) /\ (\E j \in KeysOf(heap[at]) : Before(m, j))
        BY <1>3, <1>4 DEF KeysOf
    <2>3. \A a \in 1..n : a # at => heap'[a] = heap[a]
        BY <1>8
    <2>4. /\ \A j : j \in DOMAIN heap'[at] <=> (j \in DOMAIN heap[at] /\ ~Before(j, m))
          /\ \A j \in DOMAIN heap'[at] : j # m => heap'[at][j] = heap[at][j]
          /\ heap'[at][m] = Entry(heap[at][m].value, n + 1, NoHash)
        BY <1>2, <1>5, <1>8
    <2>5. /\ \A j : j \in DOMAIN heap'[n + 1] <=> ((j \in DOMAIN heap[at] /\ Before(j, m)) \/ j = Inf)
          /\ \A j \in DOMAIN heap'[n + 1] : j # Inf => heap'[n + 1][j] = heap[at][j]
          /\ heap'[n + 1][Inf] = Entry(NoValue, heap[at][m].child, NoHash)
        BY <1>6, <1>8
    <2> QED
        BY ONLY <2>1, <2>2, <2>3, <2>4, <2>5 DEF SplitOff
<1>11. Full' = heap'
    BY <1>1, <1>2 DEF Full
<1>12. First(DOMAIN heap'[at]) = m
    BY <1>2, <1>8, <1>9
<1> QED
    BY <1>8, <1>10, <1>11, <1>12 DEF m

LEMMA ShapeSplitStart ==
    ASSUME IInv, Shape, NEW c \in Coroutines, SplitStart(c)
    PROVE  Shape'
<1> DEFINE n == Len(heap)
           m == Median(heap[at])
<1>1. PICK l \in {"splitRest", "removing"} :
          Goto(c, l) /\ (l = "removing" => job'.next = "splitRest")
    BY TryRemoveGoes DEF SplitStart
<1>2. pc[c] = "split" /\ UNCHANGED <<rootNode, carry, stack, at>>
    BY DEF SplitStart, frame
<1>3. /\ pc[c] # "ready" /\ Walking /\ carry = NoSplit /\ Full = heap /\ SplitNode = Null
      /\ at \in 1..n /\ n \in Nat /\ rootNode # Null /\ Len(stack) \in Nat
    BY <1>2, Descending
<1>4. /\ Len(heap') = n + 1 /\ Full' = heap' /\ SplitOff(heap, heap', n, at, m)
      /\ First(DOMAIN heap'[at]) = m
    BY SplitStartIs
<1> HIDE DEF m
<1>5. SplitNode' = at /\ CarryOut' /\ MidKey' = m
    BY <1>1, <1>2, <1>3, <1>4, WriterGoes DEF CarryOut, MidKey
<1>6. PICK span, lvl : Shaped(span, lvl)
    BY <1>3 DEF Shape
<1>7. /\ Tree(heap, n, rootNode, span, lvl, Null, MidKey)
      /\ Walk(heap, n, rootNode, lvl, stack, at)
    BY <1>3, <1>6 DEF Shaped
<1>8. PICK sp, lv : Tree(heap', n + 1, rootNode, sp, lv, at, m) /\ SameLevels(n, lvl, lv)
    <2>1. at \in 1..n
        BY <1>3
    <2> QED
        BY ONLY <1>4, <1>7, <2>1, NodeSplits
<1>9. Walk(heap', n + 1, rootNode, lv, stack, at)
    <2>1. lvl[at] \in Nat /\ n + 1 \in Nat /\ n <= n + 1
        BY <1>3, <1>7 DEF Tree, Ghosts
    <2>2. \A b \in 1..n : lv[b] = lvl[b]
        BY <1>8 DEF SameLevels
    <2>3. \A b \in 1..n : lvl[b] > lvl[at] => \A i \in DOMAIN heap[b] :
               i \in DOMAIN heap'[b] /\ heap'[b][i].child = heap[b][i].child
        BY <1>4, <2>1 DEF SplitOff
    <2> QED
        BY ONLY <1>3, <1>7, <2>1, <2>2, <2>3, WalkKeeps
<1>10. Tree(Full', Len(heap'), rootNode', sp, lv, SplitNode', MidKey')
    BY <1>2, <1>4, <1>5, <1>8
<1>11. Walk(Full', Len(heap'), rootNode', lv, stack', at')
    BY <1>2, <1>4, <1>9
<1>12. IInv /\ c \in Coroutines /\ pc[c] # "ready" /\ Goto(c, l) /\ rootNode' # Null /\ l # "descend"
    BY <1>1, <1>2, <1>3
<1> QED
    BY ONLY <1>5, <1>10, <1>11, <1>12, ShapeFrom

\* The nodes with the parts put back, after a step
LEMMA FullNext ==
    ASSUME IInv', carry' # NoSplit, at' \in 1..Len(heap')
    PROVE  \A a \in 1..Len(heap') :
               Full'[a] = IF a = at' THEN With(carry'.right, carry'.id, carry'.entry)
                          ELSE heap'[a]
<1>1. IsHeap(heap', Len(heap'))
    BY DEF IInv, TypeOK
<1> DEFINE node == With(carry'.right, carry'.id, carry'.entry)
<1>2. Full' = [heap' EXCEPT ![at'] = node]
    BY DEF Full
<1> HIDE DEF node
<1>3. \A a \in 1..Len(heap') :
          [heap' EXCEPT ![at'] = node][a] = IF a = at' THEN node ELSE heap'[a]
    BY <1>1, Replaced
<1> QED
    BY <1>2, <1>3 DEF node

LEMMA SplitRestIs ==
    ASSUME IInv, Shape, NEW c \in Coroutines, SplitRest(c)
    PROVE  /\ Len(heap') = Len(heap) /\ carry' # NoSplit /\ at' = at
           /\ carry'.id = MidKey /\ SplitNode = at
           /\ heap'[at] = EmptyMap /\ \A j \in DOMAIN carry'.right : Before(carry'.id, j)
           /\ \A a \in 1..Len(heap) :
                 DOMAIN Full'[a] = DOMAIN heap[a] /\ \A j \in DOMAIN heap[a] : Full'[a][j] = heap[a][j]
<1> DEFINE n == Len(heap)
           m == First(DOMAIN heap[at])
           right == Only(heap[at], Successors(heap[at], m))
<1>1. pc[c] = "splitRest" /\ Goto(c, "return")
    BY DEF SplitRest
<1>2. /\ pc[c] # "ready" /\ Walking /\ carry = NoSplit /\ Full = heap
      /\ at \in 1..n /\ n \in Nat /\ rootNode # Null /\ IsHeap(heap, n) /\ Len(stack) \in Nat
      /\ IsNode(heap[at], n)
    BY <1>1, Descending
<1>3. /\ heap' = [heap EXCEPT ![at] = EmptyMap]
      /\ carry' = [id |-> m, entry |-> heap[at][m], right |-> right]
      /\ UNCHANGED <<rootNode, stack, at>>
    BY DEF SplitRest, Erased
<1>4. SplitNode = at /\ MidKey = m
    BY <1>1, <1>2 DEF SplitNode, MidKey, Bound
<1>5. IInv'
    BY SplitStep
<1>6. carry' # NoSplit /\ carry'.id = m /\ carry'.entry = heap[at][m] /\ carry'.right = right
    BY <1>3, SplitReturns
<1>7. Len(heap') = n /\ \A a \in 1..n : heap'[a] = IF a = at THEN EmptyMap ELSE heap[a]
    BY <1>2, <1>3, Replaced
<1>8. /\ m \in DOMAIN heap[at] /\ \A j \in DOMAIN heap[at] : j # m => Before(m, j)
      /\ ~Before(m, m)
    <2>1. PICK span, lvl : Shaped(span, lvl)
        BY <1>2 DEF Shape
    <2>2. Tree(heap, n, rootNode, span, lvl, at, m)
        BY <1>2, <1>4, <2>1 DEF Shaped
    <2>3. at # Null
        BY <1>2 DEF Null
    <2>4. m \in KeysOf(heap[at]) /\ \A j \in DOMAIN heap[at] : j # m => Before(m, j)
        BY <2>2, <2>3 DEF Tree, Halves
    <2> HIDE DEF m
    <2>5. m \in Ids
        BY <1>2, <2>4 DEF IsNode, KeysOf
    <2> QED
        BY <2>4, <2>5, BeforeIsOrder DEF KeysOf
<1> HIDE DEF m
<1>9. /\ DOMAIN right = DOMAIN heap[at] \ {m} /\ \A j \in DOMAIN right : Before(m, j)
      /\ \A j \in DOMAIN right : right[j] = heap[at][j]
    BY <1>8 DEF Only, Successors
<1> HIDE DEF right
<1>10. \A a \in 1..n : Full'[a] = IF a = at THEN With(right, m, heap[at][m]) ELSE heap[a]
    BY <1>2, <1>3, <1>5, <1>6, <1>7, FullNext
<1>11. LET f == With(right, m, heap[at][m])
       IN  DOMAIN f = DOMAIN heap[at] /\ \A j \in DOMAIN heap[at] : f[j] = heap[at][j]
    BY <1>8, <1>9 DEF With
<1>12. \A a \in 1..n :
           DOMAIN Full'[a] = DOMAIN heap[a] /\ \A j \in DOMAIN heap[a] : Full'[a][j] = heap[a][j]
    BY <1>10, <1>11
<1> QED
    BY <1>2, <1>3, <1>4, <1>6, <1>7, <1>9, <1>12

LEMMA ShapeSplitRest ==
    ASSUME IInv, Shape, NEW c \in Coroutines, SplitRest(c)
    PROVE  Shape'
<1>1. pc[c] = "splitRest" /\ Goto(c, "return") /\ UNCHANGED <<rootNode, stack, at>>
    BY DEF SplitRest
<1>2. /\ pc[c] # "ready" /\ Walking /\ Full = heap /\ carry = NoSplit
      /\ at \in 1..Len(heap) /\ rootNode # Null /\ Len(stack) \in Nat
    BY <1>1, Descending
<1>3. /\ Len(heap') = Len(heap) /\ carry' # NoSplit
      /\ carry'.id = MidKey /\ SplitNode = at
      /\ heap'[at] = EmptyMap /\ \A j \in DOMAIN carry'.right : Before(carry'.id, j)
      /\ \A a \in 1..Len(heap) :
            DOMAIN Full'[a] = DOMAIN heap[a] /\ \A j \in DOMAIN heap[a] : Full'[a][j] = heap[a][j]
    BY SplitRestIs
<1>4. \A a \in Addresses : /\ DOMAIN Full'[a] = DOMAIN Full[a]
                            /\ \A i \in DOMAIN Full[a] : Full'[a][i].child = Full[a][i].child
    BY <1>2, <1>3 DEF Addresses
<1>5. SplitNode' = SplitNode /\ MidKey' = MidKey
    BY <1>1, <1>2, <1>3, WriterGoes DEF MidKey
<1>6. CarryOut'
    BY <1>1, <1>2, <1>3, WriterGoes DEF CarryOut
<1>7. \A span, lvl : Shaped(span, lvl) => Walk(Full, Len(heap), rootNode, lvl, stack', at')
    BY <1>1, <1>2 DEF Shaped
<1> QED
    BY <1>1, <1>2, <1>3, <1>4, <1>5, <1>6, <1>7, ShapeKept DEF Addresses

--------------------------------------------------------------------------
\* The way back up

\* The frame on top leads to the node that is being worked on.
LEMMA UpFrame ==
    ASSUME IInv, Shape, NEW c \in Coroutines, pc[c] \notin {"ready", "loop", "pick"},
           stack # <<>>
    PROVE  /\ Top(stack).node \in 1..Len(heap) /\ Top(stack).node # at
           /\ Full[Top(stack).node] = heap[Top(stack).node]
           /\ Top(stack).id \in DOMAIN heap[Top(stack).node]
           /\ heap[Top(stack).node][Top(stack).id].child = at
           /\ Len(Pop(stack)) \in Nat
           /\ \A span, lvl : Shaped(span, lvl) =>
                 /\ lvl[Top(stack).node] = lvl[at] + 1
                 /\ Walk(Full, Len(heap), rootNode, lvl, Pop(stack), Top(stack).node)
<1> DEFINE n == Len(heap)
           p == Top(stack).node
           i == Top(stack).id
           S == [node : Addresses, id : Ids]
<1>1. stack \in Seq(S) /\ at \in 1..n /\ rootNode # Null /\ Walking
    BY DEF IInv, TypeOK, WriterResumes, Addresses, Walking
<1>2. ASSUME NEW span, NEW lvl, Shaped(span, lvl)
      PROVE  /\ p \in 1..n /\ i \in DOMAIN Full[p] /\ Full[p][i].child = at
             /\ lvl[p] = lvl[at] + 1 /\ lvl[at] \in Nat
             /\ Walk(Full, n, rootNode, lvl, Pop(stack), p)
    <2>1. Walk(Full, n, rootNode, lvl, stack, at)
        BY <1>1, <1>2 DEF Shaped
    <2>2. lvl[at] \in Nat
        BY <1>1, <1>2 DEF Shaped, Tree, Ghosts
    <2> HIDE DEF S
    <2>3. stack \in Seq(S) /\ stack # <<>>
        BY <1>1
    <2>4. /\ p \in 1..n /\ i \in DOMAIN Full[p] /\ Full[p][i].child = at
          /\ lvl[p] = lvl[at] + 1
          /\ Walk(Full, n, rootNode, lvl, Pop(stack), p)
        BY ONLY <2>1, <2>2, <2>3, WalkUp
    <2> QED
        BY <2>2, <2>4
<1>3. PICK span, lvl : Shaped(span, lvl)
    BY <1>1 DEF Shape
<1>4. p \in 1..n /\ p # at
    BY <1>2, <1>3
<1>5. Full[p] = heap[p]
    BY <1>1, <1>4, FullAt DEF Addresses
<1>6. Len(Pop(stack)) \in Nat
    <2>1. Pop(stack) \in Seq(S)
        BY <1>1, TopFrame
    <2> QED
        BY <2>1
<1> QED
    BY <1>2, <1>3, <1>4, <1>5, <1>6

\* Another hash in an entry changes neither keys nor children.
LEMMA HashChanged ==
    ASSUME NEW h, NEW n, IsHeap(h, n), NEW p \in 1..Len(h), NEW i, NEW x, NEW g,
           g = [h EXCEPT ![p][i].hash = x]
    PROVE  /\ Len(g) = Len(h)
           /\ \A a \in 1..Len(h) : a # p => g[a] = h[a]
           /\ DOMAIN g[p] = DOMAIN h[p]
           /\ \A j \in DOMAIN h[p] : g[p][j].child = h[p][j].child
<1> DEFINE node == [h[p] EXCEPT ![i].hash = x]
<1>1. DOMAIN node = DOMAIN h[p] /\ \A j \in DOMAIN h[p] : node[j].child = h[p][j].child
    BY DEF IsHeap, IsNode, IsEntry
<1>2. g = [h EXCEPT ![p] = node]
    OBVIOUS
<1> HIDE DEF node
<1>3. Len([h EXCEPT ![p] = node]) = Len(h)
      /\ \A a \in 1..Len(h) : [h EXCEPT ![p] = node][a] = IF a = p THEN node ELSE h[a]
    BY ONLY IsHeap(h, n), p \in 1..Len(h), Replaced
<1> QED
    BY <1>1, <1>2, <1>3

LEMMA ShapeReturnToParent ==
    ASSUME IInv, Shape, NEW c \in Coroutines, ReturnToParent(c)
    PROVE  Shape'
<1> DEFINE n == Len(heap)
           p == Top(stack).node
           i == Top(stack).id
<1>1. PICK l \in {"attach", "removing"} :
          Goto(c, l) /\ (l = "removing" => job'.next = "attach")
    BY TryRemoveGoes DEF ReturnToParent
<1>2. /\ pc[c] = "return" /\ stack # <<>>
      /\ heap' = [heap EXCEPT ![p][i].hash = NoHash]
      /\ UNCHANGED <<rootNode, carry, stack, at>>
    BY DEF ReturnToParent, frame
<1>3. /\ p \in 1..n /\ p # at /\ Full[p] = heap[p]
    BY <1>2, UpFrame
<1>4. /\ IsHeap(heap, n) /\ at \in 1..n /\ n \in Nat /\ rootNode # Null
      /\ Len(stack) \in Nat
    <2>1. /\ IsHeap(heap, n) /\ at \in Addresses /\ rootNode # Null
          /\ stack \in Seq([node : Addresses, id : Ids])
        BY <1>2 DEF IInv, TypeOK, WriterResumes
    <2> QED
        BY <2>1 DEF Addresses, IsHeap
<1> HIDE DEF p, i
<1>5. /\ Len(heap') = n /\ \A a \in 1..n : a # p => heap'[a] = heap[a]
      /\ DOMAIN heap'[p] = DOMAIN heap[p]
      /\ \A j \in DOMAIN heap[p] : heap'[p][j].child = heap[p][j].child
    BY <1>2, <1>3, <1>4, HashChanged
<1>6. IInv'
    BY ReturnStep
<1>7. \A a \in Addresses : /\ DOMAIN Full'[a] = DOMAIN Full[a]
                           /\ \A j \in DOMAIN Full[a] : Full'[a][j].child = Full[a][j].child
    <2>1. CASE carry = NoSplit
        <3>1. Full = heap /\ Full' = heap'
            BY <1>2, <2>1 DEF Full
        <3> QED
            BY <1>5, <3>1 DEF Addresses
    <2>2. CASE carry # NoSplit
        <3>1. \A a \in 1..n : Full'[a] = IF a = at THEN With(carry.right, carry.id, carry.entry)
                                         ELSE heap'[a]
            BY <1>2, <1>4, <1>5, <1>6, <2>2, FullNext
        <3>2. \A a \in 1..n : Full[a] = IF a = at THEN With(carry.right, carry.id, carry.entry)
                                        ELSE heap[a]
            BY <1>4, <2>2, FullAt DEF Addresses
        <3> QED
            BY <1>5, <3>1, <3>2 DEF Addresses
    <2> QED
        BY <2>1, <2>2
<1>8. SplitNode' = SplitNode /\ MidKey' = MidKey
    <2>1. pc[c] = "return" /\ pc[c] # "ready"
        BY <1>2
    <2>2. SplitNode' = IF carry # NoSplit THEN at ELSE Null
        BY <1>1, <1>2, <2>1, WriterGoes
    <2>3. SplitNode = IF carry # NoSplit THEN at ELSE Null
        BY <2>1, WriterIs DEF Bound
    <2>4. MidKey' = MidKey
        BY <1>2, <1>3, <1>4, <1>5 DEF MidKey
    <2> QED
        BY <2>2, <2>3, <2>4
<1>9. CarryOut'
    BY <1>1, <1>2, <1>3, <1>4, <1>5, WriterGoes DEF CarryOut, Shape, Bound
<1>10. \A span, lvl : Shaped(span, lvl) => Walk(Full, Len(heap), rootNode, lvl, stack', at')
    BY <1>2 DEF Shaped, Walking
<1> QED
    BY <1>1, <1>2, <1>4, <1>5, <1>7, <1>8, <1>9, <1>10, ShapeKept DEF Addresses

\* In the tree with a split under way, the median hangs in front of the slot on top.
LEMMA MedianBelongs ==
    ASSUME IInv, Shape, NEW c \in Coroutines, pc[c] = "attach", carry # NoSplit,
           NEW span, NEW lvl, Shaped(span, lvl)
    PROVE  LET p == Top(stack).node
               i == Top(stack).id
           IN  /\ Tree(Full, Len(heap), rootNode, span, lvl, at, carry.id)
               /\ p \in 1..Len(heap) /\ p # at /\ i \in DOMAIN Full[p]
               /\ Full[p][i].child = at /\ lvl[p] = lvl[at] + 1
               /\ Full[p] = heap[p]
               /\ Between(heap[p], i, carry.id) /\ carry.id \notin DOMAIN heap[p]
<1> DEFINE n == Len(heap)
           p == Top(stack).node
           i == Top(stack).id
           m == carry.id
<1>1. pc[c] \notin {"ready", "loop", "pick"} /\ stack # <<>> /\ at # Null /\ rootNode # Null
    <2>1. stack # <<>> /\ rootNode # Null
        BY DEF IInv, WriterResumes, Bound
    <2>2. at \in Addresses
        BY DEF IInv, TypeOK
    <2> QED
        BY <2>1, <2>2 DEF Addresses, Null
<1>2. Tree(Full, n, rootNode, span, lvl, at, m)
    <2>1. SplitNode = at /\ MidKey = m
        BY <1>1, WriterIs DEF MidKey
    <2> QED
        BY <2>1 DEF Shaped
<1>3. /\ p \in 1..n /\ p # at /\ Full[p] = heap[p] /\ i \in DOMAIN Full[p]
      /\ Full[p][i].child = at /\ lvl[p] = lvl[at] + 1
    BY <1>1, UpFrame
<1> HIDE DEF p, i, m
<1>4. Between(Full[p], i, m) /\ m \notin DOMAIN Full[p]
    <2>1. at # Null
        BY <1>1
    <2>2. Leads(Full, n, lvl, p, i, at)
        BY <1>3 DEF Leads
    <2> QED
        BY ONLY <1>2, <2>1, <2>2, MedianSlot
<1> QED
    BY <1>2, <1>3, <1>4 DEF p, i, m

\* Node::insert_node finds that slot: the entry after the median is the frame's.
LEMMA SlotIsNext ==
    ASSUME NEW node, DOMAIN node \subseteq Ids, IsFiniteSet(DOMAIN node), NEW m \in Keys,
           NEW i \in DOMAIN node, Between(node, i, m), NEW e
    PROVE  /\ First(Successors(node, m)) = i
           /\ First(Successors(WithNew(node, m, e), m)) = i
<1>o. /\ \A j \in Ids : ~Before(j, j)
      /\ \A j, k \in Ids : k # j => Before(k, j) \/ Before(j, k)
      /\ \A h, j, k \in Ids : Before(h, j) /\ Before(j, k) => Before(h, k)
    BY BeforeIsOrder
<1>1. m \in Ids /\ Before(m, i)
    BY DEF Ids, Between
<1>2. Successors(WithNew(node, m, e), m) = Successors(node, m)
    BY <1>1, <1>o DEF Successors, WithNew
<1> DEFINE S == Successors(node, m)
<1>3. S \subseteq DOMAIN node /\ S \subseteq Ids /\ i \in S
    BY <1>1 DEF Successors
<1>4. IsFiniteSet(S)
    BY <1>3, FS_Subset
<1>5. \A j \in S : j # i => Before(i, j)
    BY <1>1, <1>3, <1>o DEF Successors, Between
<1> HIDE DEF S
<1>6. First(S) \in S /\ \A j \in S \ {First(S)} : Before(First(S), j)
    BY <1>3, <1>4, FirstIsFirst
<1>7. First(S) = i
    BY <1>3, <1>5, <1>6, <1>o
<1> QED
    BY <1>2, <1>7 DEF S

\* Node::insert_node puts the median into the parent and the right part into its child.
LEMMA AttachIs ==
    ASSUME IInv, Shape, NEW c \in Coroutines, Attach(c), carry # NoSplit
    PROVE  /\ Len(heap') = Len(heap) /\ Full' = heap'
           /\ AttachedIn(Full, heap', Len(heap), at, carry.id, Top(stack).node)
<1> DEFINE n == Len(heap)
           p == Top(stack).node
           i == Top(stack).id
           m == carry.id
           node == WithNew(heap[p], m, carry.entry)
           next == First(Successors(node, m))
<1>1. pc[c] = "attach" /\ carry' = NoSplit /\ heap' = Attached(heap, p)
    BY DEF Attach
<1>2. IsHeap(heap, n) /\ at \in 1..n /\ n \in Nat /\ rootNode # Null
    <2>1. IsHeap(heap, n) /\ at \in Addresses /\ rootNode # Null
        BY <1>1 DEF IInv, TypeOK, WriterResumes
    <2> QED
        BY <2>1 DEF Addresses, IsHeap
<1>3. PICK span, lvl : Shaped(span, lvl)
    BY <1>2 DEF Shape
<1>4. /\ p \in 1..n /\ p # at /\ i \in DOMAIN heap[p] /\ heap[p][i].child = at
      /\ Full[p] = heap[p] /\ Between(heap[p], i, m) /\ m \notin DOMAIN heap[p]
    BY <1>1, <1>3, MedianBelongs
<1>5. IsNode(heap[p], n) /\ m \in Keys
    BY <1>2, <1>4 DEF IInv, TypeOK, IsCarry, IsHeap
<1>6. next = i
    BY <1>4, <1>5, SlotIsNext DEF IsNode
<1>7. node[i] = heap[p][i] /\ node[i].child = at
    BY <1>4 DEF WithNew
<1>8. heap' = [heap EXCEPT ![p] = node, ![at] = carry.right]
    BY <1>1, <1>6, <1>7 DEF Attached
<1>9. /\ DOMAIN node = DOMAIN heap[p] \cup {m} /\ node[m] = carry.entry
      /\ \A j \in DOMAIN heap[p] : node[j] = heap[p][j]
    BY <1>4 DEF WithNew
<1> HIDE DEF node, next, p, i, m
<1>10. /\ Len(heap') = n
       /\ \A a \in 1..n : heap'[a] = IF a = at THEN carry.right ELSE IF a = p THEN node ELSE heap[a]
    <2>1. IInv'
        BY ReturnStep
    <2>2. DOMAIN heap = 1..n /\ DOMAIN heap' = 1..Len(heap') /\ Len(heap') \in Nat
        BY <1>2, <2>1 DEF IsHeap, IInv, TypeOK
    <2>3. DOMAIN heap' = 1..n
        BY <1>8, <2>2
    <2> QED
        BY <1>2, <1>4, <1>8, <2>2, <2>3
<1>11. \A a \in 1..n : Full[a] = IF a = at THEN With(carry.right, m, carry.entry) ELSE heap[a]
    BY <1>2, FullAt DEF Addresses, m
<1>12. m \notin DOMAIN carry.right
    <2>1. \A j \in DOMAIN carry.right : Before(m, j)
        BY DEF Shape, CarryOut, m
    <2>2. ~Before(m, m)
        BY <1>5, BeforeIsOrder DEF Ids
    <2> QED
        BY <2>1, <2>2
<1>13. AttachedIn(Full, heap', n, at, m, p)
    <2>1. \A a \in 1..n : a # p /\ a # at => heap'[a] = Full[a]
        BY <1>10, <1>11
    <2>2. /\ DOMAIN heap'[at] = DOMAIN Full[at] \ {m}
          /\ \A j \in DOMAIN heap'[at] : heap'[at][j] = Full[at][j]
        BY <1>2, <1>10, <1>11, <1>12 DEF With
    <2>3. Full[at][m] = carry.entry
        BY <1>2, <1>11 DEF With
    <2>4. /\ DOMAIN heap'[p] = DOMAIN Full[p] \cup {m}
          /\ \A j \in DOMAIN heap'[p] : heap'[p][j] = IF j = m THEN Full[at][m] ELSE Full[p][j]
        BY <1>4, <1>9, <1>10, <2>3
    <2> QED
        BY <2>1, <2>2, <2>4 DEF AttachedIn
<1>14. Full' = heap'
    BY <1>1 DEF Full
<1> QED
    BY <1>10, <1>13, <1>14 DEF m, p

LEMMA ShapeAttach ==
    ASSUME IInv, Shape, NEW c \in Coroutines, Attach(c)
    PROVE  Shape'
<1> DEFINE n == Len(heap)
           p == Top(stack).node
           i == Top(stack).id
           m == carry.id
<1>1. /\ pc[c] = "attach" /\ Goto(c, "split") /\ at' = p /\ stack' = Pop(stack)
      /\ carry' = NoSplit /\ rootNode' = rootNode
      /\ carry = NoSplit => heap' = heap
    BY DEF Attach
<1>2. /\ pc[c] # "ready" /\ stack # <<>> /\ pc[c] \notin {"ready", "loop", "pick"}
      /\ at \in 1..n /\ n \in Nat /\ rootNode # Null
    <2>1. IsHeap(heap, n) /\ at \in Addresses /\ rootNode # Null /\ stack # <<>>
        BY <1>1 DEF IInv, TypeOK, WriterResumes, Bound
    <2> QED
        BY <1>1, <2>1 DEF Addresses, IsHeap
<1>3. /\ p \in 1..n /\ Len(Pop(stack)) \in Nat
      /\ \A span, lvl : Shaped(span, lvl) =>
            /\ lvl[p] = lvl[at] + 1
            /\ Walk(Full, n, rootNode, lvl, Pop(stack), p)
    BY <1>2, UpFrame
<1>4. Full' = heap' /\ SplitNode' = Null /\ CarryOut'
    BY <1>1, <1>2, WriterGoes DEF Full, CarryOut
<1>5. CASE carry = NoSplit
    <2>1. heap' = heap /\ Full = heap /\ SplitNode = Null
        BY <1>1, <1>2, <1>5, WriterIs DEF Full, Bound
    <2>2. SplitNode' = SplitNode /\ Full' = Full
        BY <1>4, <2>1
    <2> HIDE DEF p, i, m
    <2> QED
        BY <1>1, <1>2, <1>3, <1>4, <2>1, <2>2, ShapeKept DEF Addresses
<1>6. CASE carry # NoSplit
    <2>1. PICK span, lvl : Shaped(span, lvl)
        BY <1>2 DEF Shape
    <2>2. /\ Tree(Full, n, rootNode, span, lvl, at, m)
          /\ p # at /\ i \in DOMAIN Full[p]
          /\ Full[p][i].child = at /\ lvl[p] = lvl[at] + 1
        BY <1>1, <1>6, <2>1, MedianBelongs
    <2>3. Len(heap') = n /\ AttachedIn(Full, heap', n, at, m, p)
        BY <1>6, AttachIs
    <2> HIDE DEF p, i, m
    <2>4. at # Null
        BY <1>2 DEF Null
    <2>5. PICK sp : Tree(heap', n, rootNode, sp, lvl, Null, MidKey')
        <3>1. Leads(Full, n, lvl, p, i, at)
            BY <1>3, <2>2 DEF Leads
        <3> QED
            BY ONLY <2>2, <2>3, <2>4, <3>1, MedianAttached
    <2>6. Tree(Full', Len(heap'), rootNode', sp, lvl, SplitNode', MidKey')
        BY <1>1, <1>4, <2>3, <2>5
    <2>7. Walk(Full', Len(heap'), rootNode', lvl, stack', at')
        <3>1. Walk(Full, n, rootNode, lvl, Pop(stack), p)
            BY <1>3, <2>1
        <3>2. n \in Nat /\ lvl[p] \in Nat /\ p \in 1..n /\ Len(Pop(stack)) \in Nat /\ n <= n
              /\ \A b \in 1..n : lvl[b] = lvl[b]
            BY <1>2, <1>3, <2>2 DEF Tree, Ghosts
        <3>3. \A b \in 1..n : lvl[b] > lvl[p] => \A j \in DOMAIN Full[b] :
                   j \in DOMAIN heap'[b] /\ heap'[b][j].child = Full[b][j].child
            <4>1. lvl[at] \in Nat /\ lvl[p] \in Nat
                BY <1>2, <1>3, <2>2 DEF Tree, Ghosts
            <4>2. ASSUME NEW b \in 1..n, lvl[b] > lvl[p] PROVE heap'[b] = Full[b]
                <5>1. b # p /\ b # at
                    BY <4>1, <4>2, <2>2
                <5> QED
                    BY <5>1, <2>3 DEF AttachedIn
            <4> QED
                BY <4>2
        <3>4. Walk(heap', n, rootNode, lvl, Pop(stack), p)
            BY ONLY <3>1, <3>2, <3>3, WalkKeeps
        <3> QED
            BY <1>1, <1>4, <2>3, <3>4
    <2>8. IInv /\ c \in Coroutines /\ pc[c] # "ready" /\ Goto(c, "split") /\ rootNode' # Null
        BY <1>1, <1>2
    <2> QED
        BY ONLY <1>4, <2>6, <2>7, <2>8, ShapeFrom
<1> QED
    BY <1>5, <1>6

\* raw_insert makes the node that was split the parent of its two halves.
LEMMA RootIs ==
    ASSUME IInv, Shape, NEW c \in Coroutines, ReturnToRoot(c), carry # NoSplit
    PROVE  /\ Len(heap') = Len(heap) + 1 /\ Full' = heap' /\ at = rootNode
           /\ RootGrown(Full, heap', Len(heap), at, carry.id)
<1> DEFINE n == Len(heap)
           m == carry.id
           top == With(With(EmptyMap, m, carry.entry), Inf, Entry(NoValue, n + 1, NoHash))
<1>1. /\ pc[c] = "return" /\ stack = <<>> /\ carry' = NoSplit
      /\ heap' = Alloc([heap EXCEPT ![rootNode] = top], carry.right)
    BY DEF ReturnToRoot, NewAddress
<1>2. IsHeap(heap, n) /\ at \in 1..n /\ n \in Nat /\ rootNode # Null /\ Walking
    <2>1. IsHeap(heap, n) /\ at \in Addresses /\ rootNode # Null
        BY <1>1 DEF IInv, TypeOK, WriterResumes
    <2> QED
        BY <1>1, <2>1, WriterIs DEF Addresses, IsHeap
<1>3. PICK span, lvl : Shaped(span, lvl)
    BY <1>2 DEF Shape
<1>4. at = rootNode
    BY <1>1, <1>2, <1>3 DEF Shaped, Walk
<1>5. m \in Keys /\ m # Inf
    BY KeysAssumption DEF IInv, TypeOK, IsCarry
<1>6. /\ DOMAIN top = {m, Inf} /\ top[m] = carry.entry
      /\ top[Inf] = Entry(NoValue, n + 1, NoHash)
    BY <1>5 DEF With, EmptyMap
<1> HIDE DEF top, m
<1>7. /\ Len(heap') = n + 1 /\ heap'[n + 1] = carry.right
      /\ \A a \in 1..n : heap'[a] = IF a = at THEN top ELSE heap[a]
    <2>1. IsHeap(heap, n) /\ at \in 1..n
        BY <1>2
    <2> DEFINE f == [heap EXCEPT ![at] = top]
    <2>2. /\ Len(f) = n /\ \A a \in 1..n : f[a] = IF a = at THEN top ELSE heap[a]
          /\ \E S : f \in Seq(S)
        BY ONLY <2>1, Replaced
    <2>3. heap' = Alloc(f, carry.right)
        BY <1>1, <1>4
    <2> HIDE DEF f
    <2> QED
        BY ONLY <2>2, <2>3, Added1
<1>8. \A a \in 1..n : Full[a] = IF a = at THEN With(carry.right, m, carry.entry) ELSE heap[a]
    BY <1>2, FullAt DEF Addresses, m
<1>9. m \notin DOMAIN carry.right
    <2>1. \A j \in DOMAIN carry.right : Before(m, j)
        BY DEF Shape, CarryOut, m
    <2>2. ~Before(m, m)
        BY <1>5, BeforeIsOrder DEF Ids
    <2> QED
        BY <2>1, <2>2
<1>10. RootGrown(Full, heap', n, at, m)
    <2>1. \A a \in 1..n : a # at => heap'[a] = Full[a]
        BY <1>7, <1>8
    <2>2. /\ DOMAIN Full[at] = DOMAIN carry.right \cup {m} /\ Full[at][m] = carry.entry
          /\ \A j \in DOMAIN carry.right : Full[at][j] = carry.right[j]
        BY <1>2, <1>8, <1>9 DEF With
    <2>3. heap'[at] = top
        BY <1>2, <1>7
    <2> QED
        BY <1>6, <1>7, <1>9, <2>1, <2>2, <2>3 DEF RootGrown
<1>11. Full' = heap'
    BY <1>1 DEF Full
<1> QED
    BY <1>4, <1>7, <1>10, <1>11 DEF m

LEMMA ShapeReturnToRoot ==
    ASSUME IInv, Shape, NEW c \in Coroutines, ReturnToRoot(c)
    PROVE  Shape'
<1> DEFINE n == Len(heap)
           m == carry.id
<1>1. /\ pc[c] = "return" /\ Goto(c, "pick") /\ carry' = NoSplit
      /\ rootNode' = rootNode /\ pc[c] # "ready"
      /\ carry = NoSplit => heap' = heap
    BY DEF ReturnToRoot
<1>2. at # Null /\ rootNode # Null
    BY <1>1 DEF IInv, TypeOK, WriterResumes, Addresses, Null
<1>3. Full' = heap' /\ SplitNode' = Null /\ CarryOut'
    BY <1>1, WriterGoes DEF Full, CarryOut
<1>4. CASE carry = NoSplit
    <2>1. heap' = heap /\ Full = heap /\ SplitNode = Null
        BY <1>1, <1>4, WriterIs DEF Full, Bound
    <2>2. SplitNode' = SplitNode /\ Full' = Full
        BY <1>3, <2>1
    <2> HIDE DEF m
    <2> QED
        BY <1>1, <1>2, <1>3, <1>4, <2>1, <2>2, ShapeKept
<1>5. CASE carry # NoSplit
    <2>1. PICK span, lvl : Shaped(span, lvl)
        BY <1>2 DEF Shape
    <2>2. /\ Len(heap') = n + 1 /\ at = rootNode /\ RootGrown(Full, heap', n, at, m)
        BY <1>5, RootIs
    <2>3. Tree(Full, n, at, span, lvl, at, m)
        <3>1. SplitNode = at /\ MidKey = m
            BY <1>1, <1>5, WriterIs DEF MidKey
        <3> QED
            BY <2>1, <2>2, <3>1 DEF Shaped
    <2> HIDE DEF m
    <2>4. PICK sp, lv : Tree(heap', n + 1, at, sp, lv, Null, MidKey')
        BY ONLY <1>2, <2>2, <2>3, RootSplits
    <2>5. Tree(Full', Len(heap'), rootNode', sp, lv, SplitNode', MidKey')
        BY <1>1, <1>3, <2>2, <2>4
    <2>6. IInv /\ c \in Coroutines /\ pc[c] # "ready" /\ Goto(c, "pick") /\ rootNode' # Null
        BY <1>1, <1>2
    <2> QED
        BY ONLY <1>3, <2>5, <2>6, ShapeFrom
<1> QED
    BY <1>4, <1>5

--------------------------------------------------------------------------
\* Storing

\* A store that goes on, goes down or comes back up
LEMMA ShapeStore ==
    ASSUME IInv, Shape, NEW c \in Coroutines,
           StoreChild(c) \/ StoreNode(c) \/ Added(c) \/ Pinned(c) \/ StoreFailed(c)
    PROVE  Shape'
<1> DEFINE n == Len(heap)
           p == Top(stack).node
           S == [node : Addresses, id : Ids]
<1>1. pc[c] \in {"store", "adding", "pinning"}
    BY DEF StoreChild, StoreNode, Added, Pinned, StoreFailed
<1>2. /\ pc[c] # "ready" /\ pc[c] \notin {"ready", "loop", "pick"} /\ Walking
      /\ carry = NoSplit /\ Full = heap /\ SplitNode = Null
    BY <1>1, WriterIs, FullAt DEF Shape, Bound
<1>3. /\ at \in 1..n /\ n \in Nat /\ rootNode # Null
      /\ IsHeap(heap, n) /\ stack \in Seq(S) /\ Len(stack) \in Nat
    <2>1. IsHeap(heap, n) /\ at \in Addresses /\ rootNode # Null /\ stack \in Seq(S)
        BY <1>1 DEF IInv, TypeOK, WriterResumes
    <2> QED
        BY <2>1 DEF Addresses, IsHeap
<1>4. rootNode' = rootNode /\ carry' = carry
    BY DEF StoreChild, StoreNode, Added, Pinned, StoreFailed, tree, frame
<1>5. ASSUME NEW l \in {"ready", "loop", "store", "adding", "pinning"}, Goto(c, l)
      PROVE  Full' = heap' /\ SplitNode' = SplitNode /\ CarryOut'
    BY <1>2, <1>4, <1>5, WriterGoes DEF Full, CarryOut
<1>6. CASE StoreChild(c)
    <2> DEFINE i == First(ToStore(heap[at]))
               b == heap[at][i].child
    <2>1. Goto(c, "store") /\ heap' = heap /\ at' = b
          /\ stack' = Append(stack, [node |-> at, id |-> i])
        BY <1>6 DEF StoreChild, Goto, tree, IInv, TypeOK
    <2>2. i \in DOMAIN heap[at] /\ b # Null
        <3>1. IsNode(heap[at], n)
            BY <1>3 DEF IsHeap
        <3>2. /\ ToStore(heap[at]) \subseteq DOMAIN heap[at] /\ ToStore(heap[at]) # {}
              /\ DOMAIN heap[at] \subseteq Ids /\ IsFiniteSet(DOMAIN heap[at])
            BY <1>6, <3>1 DEF StoreChild, ToStore, IsNode
        <3>3. IsFiniteSet(ToStore(heap[at])) /\ ToStore(heap[at]) \subseteq Ids
            BY <3>2, FS_Subset
        <3>4. i \in ToStore(heap[at])
            BY <3>2, <3>3, FirstIsFirst
        <3> QED
            BY <3>2, <3>4 DEF ToStore
    <2> HIDE DEF i
    <2>3. ASSUME NEW span, NEW lvl, Shaped(span, lvl)
          PROVE  b \in 1..n /\ Walk(Full, n, rootNode, lvl, stack', at')
        <3>1. Tree(heap, n, rootNode, span, lvl, Null, MidKey) /\ Walk(heap, n, rootNode, lvl, stack, at)
            BY <1>2, <2>3 DEF Shaped
        <3>2. b \in 1..n /\ lvl[b] + 1 = lvl[at] /\ lvl[b] \in Nat
            BY <1>3, <2>2, <3>1 DEF Tree, Levels, Ghosts, Null
        <3>3. b = heap[at][i].child
            OBVIOUS
        <3> HIDE DEF b, S, n
        <3>4. Walk(heap, n, rootNode, lvl, Append(stack, [node |-> at, id |-> i]), b)
            BY ONLY <1>3, <2>2, <3>1, <3>2, <3>3, WalkDown
        <3> QED
            BY <1>2, <2>1, <3>2, <3>4
    <2>4. b \in 1..n
        BY <1>3, <2>3 DEF Shape
    <2>5. Len(stack') \in Nat
        <3>1. Len(stack') = Len(stack) + 1
            BY <1>3, <2>1
        <3> QED
            BY <1>3, <3>1
    <2> QED
        BY <1>2, <1>3, <1>4, <1>5, <2>1, <2>3, <2>4, <2>5, ShapeKept DEF Addresses
<1>7. CASE StoreNode(c) \/ Added(c)
    <2>1. PICK l \in {"adding", "pinning"} : Goto(c, l)
        BY <1>7 DEF StoreNode, Added
    <2>2. heap' = heap /\ at' = at /\ stack' = stack
        BY <1>7 DEF StoreNode, Added, tree, frame
    <2>3. \A span, lvl : Shaped(span, lvl) => Walk(Full, n, rootNode, lvl, stack', at')
        BY <1>2, <2>2 DEF Shaped
    <2> QED
        BY <1>2, <1>3, <1>4, <1>5, <2>1, <2>2, <2>3, ShapeKept DEF Addresses
<1>8. CASE (Pinned(c) /\ stack = <<>>) \/ StoreFailed(c)
    <2>1. PICK l \in {"loop", "ready"} : Goto(c, l)
        BY <1>8 DEF Pinned, StoreFailed
    <2>2. heap' = heap
        BY <1>8 DEF Pinned, StoreFailed, tree
    <2> QED
        BY <1>2, <1>3, <1>4, <1>5, <2>1, <2>2, ShapeKept
<1>9. CASE Pinned(c) /\ stack # <<>>
    <2>1. /\ Goto(c, "store") /\ at' = p /\ stack' = Pop(stack)
          /\ heap' = [heap EXCEPT ![p][Top(stack).id] = Stored(@, job.hash)]
        BY <1>9 DEF Pinned
    <2>2. /\ p \in 1..n /\ Len(Pop(stack)) \in Nat
          /\ \A span, lvl : Shaped(span, lvl) => Walk(Full, n, rootNode, lvl, Pop(stack), p)
        BY <1>2, <1>9, UpFrame
    <2>3. heap' = [heap EXCEPT ![p][Top(stack).id].hash = job.hash]
        BY <2>1 DEF Stored
    <2> HIDE DEF p
    <2>4. /\ Len(heap') = n /\ \A a \in 1..n : a # p => heap'[a] = heap[a]
          /\ DOMAIN heap'[p] = DOMAIN heap[p]
          /\ \A j \in DOMAIN heap[p] : heap'[p][j].child = heap[p][j].child
        BY <1>3, <2>2, <2>3, HashChanged
    <2>5. \A a \in Addresses : /\ DOMAIN Full'[a] = DOMAIN Full[a]
                               /\ \A j \in DOMAIN Full[a] : Full'[a][j].child = Full[a][j].child
        BY <1>2, <1>5, <2>1, <2>4 DEF Addresses
    <2> QED
        BY <1>2, <1>3, <1>4, <1>5, <2>1, <2>2, <2>4, <2>5, ShapeKept DEF Addresses
<1> QED
    BY <1>6, <1>7, <1>8, <1>9

\* The answer to a removal lets the writer go on where it was.
LEMMA ShapeRemoved ==
    ASSUME IInv, Shape, NEW c \in Coroutines, Removed(c) \/ RemoveFailed(c)
    PROVE  Shape'
<1>1. /\ pc[c] = "removing" /\ Goto(c, job.next)
      /\ job.next \in {"store", "splitRest", "attach"} /\ pc[c] # "ready"
      /\ rootNode # Null
      /\ UNCHANGED <<heap, rootNode, carry, at, stack>>
    BY DEF Removed, RemoveFailed, tree, frame, IInv, WriterResumes
<1>2. at \in Addresses /\ Len(stack) \in Nat
    BY <1>1 DEF IInv, TypeOK
<1>3. Full' = Full /\ MidKey' = MidKey
    BY <1>1 DEF Full, MidKey
<1>4. SplitNode' = SplitNode
    <2>1. SplitNode = IF carry # NoSplit \/ job.next = "splitRest" THEN at ELSE Null
        BY <1>1, WriterIs DEF Bound
    <2>2. SplitNode' = IF carry # NoSplit \/ job.next = "splitRest" THEN at ELSE Null
        BY <1>1, WriterGoes
    <2> QED
        BY <2>1, <2>2
<1>5. CarryOut'
    BY <1>1, WriterIs, WriterGoes DEF CarryOut, Shape, Bound
<1>6. \A span, lvl : Shaped(span, lvl) => Walk(Full, Len(heap), rootNode, lvl, stack', at')
    BY <1>1 DEF Shaped, Walking
<1> QED
    BY <1>1, <1>2, <1>3, <1>4, <1>5, <1>6, ShapeKept

--------------------------------------------------------------------------
InvS == IInv /\ Shape

LEMMA InitShape == Init => InvS
<1> SUFFICES ASSUME Init PROVE InvS
    OBVIOUS
<1>1. IInv
    BY InitIInv
<1>2. carry = NoSplit /\ rootNode = Null /\ heap = <<>> /\ \A c \in Coroutines : pc[c] = "ready"
    BY DEF Init
<1> QED
    BY <1>1, <1>2 DEF InvS, Shape, CarryOut

LEMMA NextShape == InvS /\ [Next]_vars => InvS'
<1> SUFFICES ASSUME IInv, Shape, [Next]_vars PROVE InvS'
    BY DEF InvS
<1>1. IInv'
    BY NextIInv
<1>2. CASE Next
    <2>1. PICK c \in Coroutines :
              Step(c) \/ Answer(c) \/ \E k \in Keys, v \in Values : Call(c, k, v)
        BY <1>2 DEF Next
    <2>2. CASE Step(c)
        BY <2>2, ShapeLoop, ShapeInsertAtLeaf, ShapeOverwrite, ShapeGoDown, ShapeSplitStart,
           ShapeSplitRest, ShapeNoSplit, ShapeReturnToParent, ShapeReturnToRoot, ShapeAttach,
           ShapeStore, <1>1 DEF Step, InvS
    <2>3. CASE Answer(c)
        BY <2>3, ShapeStore, ShapeRemoved, <1>1 DEF Answer, InvS
    <2> QED
        BY <2>1, <2>2, <2>3, ShapeCall, <1>1 DEF InvS
<1>3. CASE UNCHANGED vars
    <2>1. Shape'
        BY <1>3 DEF vars, Shape, CarryOut, Shaped, Full, SplitNode, MidKey, Walking, Bound
    <2> QED
        BY <1>1, <2>1 DEF InvS
<1> QED
    BY <1>2, <1>3

\* A median that waits to be attached always finds the slot it was split from:
\* Node::insert_node takes the entry after the median for that slot, and the child
\* there for the emptied node (btree.cpp 211-216).
THEOREM MedianFindsSlot == Spec => []AttachSlot
<1>1. ASSUME InvS PROVE AttachSlot
    <2> SUFFICES ASSUME NEW c \in Coroutines, pc[c] = "attach", carry # NoSplit
                 PROVE  LET up == Top(stack)
                        IN  /\ carry.id \notin DOMAIN heap[up.node]
                            /\ First(Successors(heap[up.node], carry.id)) = up.id
                            /\ heap[up.node][up.id].child = at
                            /\ heap[at] = EmptyMap
        BY DEF AttachSlot
    <2> DEFINE p == Top(stack).node
               i == Top(stack).id
    <2>1. IInv /\ Shape /\ rootNode # Null
        BY <1>1 DEF InvS, IInv, WriterResumes
    <2>2. PICK span, lvl : Shaped(span, lvl)
        BY <2>1 DEF Shape
    <2>3. /\ p \in 1..Len(heap) /\ i \in DOMAIN heap[p] /\ heap[p][i].child = at
          /\ Between(heap[p], i, carry.id) /\ carry.id \notin DOMAIN heap[p]
        BY <2>1, <2>2, MedianBelongs
    <2>4. IsNode(heap[p], Len(heap)) /\ carry.id \in Keys
        BY <2>1, <2>3 DEF IInv, TypeOK, IsHeap, IsCarry
    <2>5. First(Successors(heap[p], carry.id)) = i
        BY <2>3, <2>4, SlotIsNext DEF IsNode
    <2>6. heap[at] = EmptyMap
        BY <2>1 DEF Shape, CarryOut
    <2> QED
        BY <2>3, <2>5, <2>6
<1> QED
    BY <1>1, InitShape, NextShape, PTL DEF Spec

--------------------------------------------------------------------------
\* Who holds a key: its one node, with the parts of a split put back

\* The place the key of a node is held in.
Place(a, k) ==
    IF carry = NoSplit \/ a # at THEN <<"heap", a>>
    ELSE IF k = carry.id THEN <<"median", 0>> ELSE <<"right", 0>>

LEMMA HeldAt ==
    ASSUME InvS, NEW k \in Keys
    PROVE  /\ \A a \in Addresses : k \in DOMAIN Full[a] => Holders(k) = {Place(a, k)}
           /\ Holders(k) # {} => \E a \in Addresses : k \in DOMAIN Full[a]
<1>1. IInv /\ Shape /\ k # Inf
    BY KeysAssumption DEF InvS
<1>2. CASE carry = NoSplit
    <2>1. Full = heap
        BY <1>2 DEF Full
    <2>2. Holders(k) = {<<"heap", a>> : a \in {b \in Addresses : k \in DOMAIN heap[b]}}
        BY <1>2 DEF Holders
    <2>3. ASSUME NEW a \in Addresses, k \in DOMAIN Full[a] PROVE Holders(k) = {Place(a, k)}
        <3>1. rootNode # Null
            <4>1. heap # <<>>
                BY DEF Addresses
            <4> QED
                BY <1>1, <4>1 DEF Shape
        <3>2. PICK span, lvl : Shaped(span, lvl)
            BY <1>1, <3>1 DEF Shape
        <3>3. Tree(heap, Len(heap), rootNode, span, lvl, SplitNode, MidKey)
            BY <2>1, <3>2 DEF Shaped
        <3>4. \A b \in 1..Len(heap) : k \in DOMAIN heap[b] => b = a
            BY <1>1, <2>1, <2>3, <3>3, OneNode DEF KeysOf, Addresses
        <3> QED
            BY <1>2, <2>1, <2>2, <2>3, <3>4 DEF Place, Addresses
    <2> QED
        BY <2>1, <2>2, <2>3
<1>3. CASE carry # NoSplit
    <2>1. rootNode # Null /\ at \in Addresses /\ heap[at] = EmptyMap
        <3>1. PICK c \in Coroutines : pc[c] = "return" \/ Bound(c, "attach")
            BY <1>1, <1>3 DEF Shape, CarryOut
        <3>2. pc[c] \notin {"ready", "loop", "pick"}
            BY <3>1 DEF Bound
        <3> QED
            BY <1>1, <1>3, <3>2 DEF IInv, TypeOK, WriterResumes, Shape, CarryOut
    <2>2. PICK span, lvl : Shaped(span, lvl)
        BY <1>1, <2>1 DEF Shape
    <2>3. Tree(Full, Len(heap), rootNode, span, lvl, SplitNode, MidKey)
        BY <2>2 DEF Shaped
    <2>4. \A a, b \in 1..Len(heap) : k \in DOMAIN Full[a] /\ k \in DOMAIN Full[b] => a = b
        BY <1>1, <2>3, OneNode DEF KeysOf
    <2>5. \A a \in Addresses : Full[a] = IF a = at THEN With(carry.right, carry.id, carry.entry)
                                         ELSE heap[a]
        BY <1>1, <1>3, <2>1, FullAt
    <2>6. carry.id \notin DOMAIN carry.right
        <3>1. carry.id \in Ids /\ \A j \in DOMAIN carry.right : Before(carry.id, j)
            BY <1>1, <1>3 DEF Shape, CarryOut, IInv, TypeOK, IsCarry, Ids
        <3> QED
            BY <3>1, BeforeIsOrder
    <2>7. k \notin DOMAIN heap[at]
        BY <2>1 DEF EmptyMap
    <2>8. /\ k \in DOMAIN Full[at] <=> (k = carry.id \/ k \in DOMAIN carry.right)
        BY <2>1, <2>5 DEF With
    <2>9. Holders(k) = {<<"heap", a>> : a \in {b \in Addresses : k \in DOMAIN heap[b]}}
                       \cup (IF carry.id = k THEN {<<"median", 0>>} ELSE {})
                       \cup (IF k \in DOMAIN carry.right THEN {<<"right", 0>>} ELSE {})
        BY <1>3 DEF Holders
    <2>10. ASSUME NEW a \in Addresses, k \in DOMAIN Full[a] PROVE Holders(k) = {Place(a, k)}
        <3>1. CASE a = at
            <4>1. \A b \in Addresses : k \notin DOMAIN heap[b]
                BY <2>4, <2>5, <2>7, <2>10, <3>1 DEF Addresses
            <4> QED
                BY <1>3, <2>6, <2>8, <2>9, <2>10, <3>1, <4>1 DEF Place
        <3>2. CASE a # at
            <4>1. k # carry.id /\ k \notin DOMAIN carry.right
                BY <2>1, <2>4, <2>8, <2>10, <3>2 DEF Addresses
            <4>2. \A b \in Addresses : k \in DOMAIN heap[b] <=> b = a
                BY <2>4, <2>5, <2>7, <2>10, <3>2 DEF Addresses
            <4> QED
                BY <1>3, <2>9, <3>2, <4>1, <4>2 DEF Place
        <3> QED
            BY <3>1, <3>2
    <2>11. Holders(k) # {} => \E a \in Addresses : k \in DOMAIN Full[a]
        <3>1. Holders(k) # {} => \/ \E b \in Addresses : k \in DOMAIN heap[b]
                                 \/ carry.id = k \/ k \in DOMAIN carry.right
            BY <2>9
        <3> QED
            BY <2>1, <2>5, <2>7, <2>8, <3>1
    <2> QED
        BY <2>10, <2>11
<1> QED
    BY <1>2, <1>3

\* Splits and inserts of a key that is already there, over several waits, never
\* leave one key in two nodes: the map find and store see has one value per key.
THEOREM KeysAreUnique == Spec => []OneCopy
<1>1. ASSUME InvS PROVE OneCopy
    <2> SUFFICES ASSUME NEW k \in Keys PROVE Cardinality(Holders(k)) <= 1
        BY DEF OneCopy
    <2>1. CASE Holders(k) = {}
        BY <2>1, FS_EmptySet
    <2>2. CASE Holders(k) # {}
        <3>1. PICK a \in Addresses : Holders(k) = {Place(a, k)}
            BY <1>1, <2>2, HeldAt
        <3>2. Cardinality({Place(a, k)}) = 1
            BY FS_Singleton
        <3> QED
            BY <3>1, <3>2
    <2> QED
        BY <2>1, <2>2
<1> QED
    BY <1>1, InitShape, NextShape, PTL DEF Spec

--------------------------------------------------------------------------
\* The dictionary

\* The writer has a batch in hand.
Picking(c) ==
    \/ pc[c] \in {"pick", "descend", "split", "return"}
    \/ Bound(c, "splitRest") \/ Bound(c, "attach")

Taken ==
    /\ DOMAIN batch # {} => \E c \in Coroutines : Picking(c)
    /\ \A c \in Coroutines : pc[c] = "descend" => item.value \in Values

LEMMA TakenKept ==
    ASSUME IInv, Taken, NEW c \in Coroutines, pc[c] # "ready", NEW l, Goto(c, l),
           UNCHANGED <<batch, item>>, Picking(c) => Picking(c)',
           l = "descend" => pc[c] = "descend"
    PROVE  Taken'
<1>1. \A d \in Coroutines : d # c => pc[d] = "ready"
    BY WriterIs
<1>2. DOMAIN batch # {} => Picking(c)
    BY <1>1 DEF Taken, Picking, Bound
<1> QED
    BY <1>2, WriterGoes DEF Taken

LEMMA TakenStep ==
    ASSUME IInv, Taken, NEW c \in Coroutines, Step(c)
    PROVE  Taken'
<1>1. CASE TakeBuffer(c)
    <2>1. pc'[c] = "pick" /\ \A d \in Coroutines : pc'[d] # "descend"
        BY <1>1, WriterGoes DEF TakeBuffer
    <2> QED
        BY <2>1 DEF Taken, Picking
<1>2. CASE InsertDone(c)
    <2>1. pc[c] = "loop" /\ Goto(c, "ready") /\ UNCHANGED <<batch, item>>
        BY <1>2 DEF InsertDone
    <2> QED
        BY <2>1, TakenKept DEF Picking, Bound
<1>3. CASE Pick(c)
    <2>1. /\ pc[c] = "pick" /\ Goto(c, "descend")
          /\ item'.value = batch[First(DOMAIN batch)] /\ DOMAIN batch # {}
        BY <1>3 DEF Pick
    <2>2. /\ DOMAIN batch \subseteq Ids /\ IsFiniteSet(DOMAIN batch)
          /\ batch \in [DOMAIN batch -> Values]
        BY DEF IInv, TypeOK, IsMap, Ids
    <2>3. item'.value \in Values
        BY <2>1, <2>2, FirstIsFirst
    <2>4. pc'[c] = "descend"
        BY <2>1, WriterGoes
    <2> QED
        BY <2>3, <2>4 DEF Taken, Picking
<1>4. CASE Flush(c)
    <2>1. PICK l \in {"store", "removing"} : Goto(c, l)
        BY <1>4, TryRemoveGoes DEF Flush
    <2>2. DOMAIN batch' = {} /\ pc[c] # "ready"
        BY <1>4 DEF Flush, queue
    <2> QED
        BY <2>1, <2>2, WriterGoes DEF Taken
<1>5. CASE InsertAtLeaf(c) \/ OverwriteValue(c) \/ SplitRest(c) \/ NoNeedToSplit(c)
            \/ ReturnToRoot(c) \/ Attach(c)
    <2>1. PICK l \in {"split", "return", "pick"} : Goto(c, l)
        BY <1>5 DEF InsertAtLeaf, OverwriteValue, SplitRest, NoNeedToSplit, ReturnToRoot, Attach
    <2>2. pc[c] # "ready" /\ UNCHANGED <<batch, item>>
        BY <1>5 DEF InsertAtLeaf, OverwriteValue, SplitRest, NoNeedToSplit, ReturnToRoot,
                    Attach, queue
    <2>3. Picking(c)'
        BY <2>1, <2>2, WriterGoes DEF Picking
    <2> QED
        BY <2>1, <2>2, <2>3, TakenKept
<1>6. CASE GoDown(c)
    <2>1. pc[c] = "descend" /\ pc' = pc /\ UNCHANGED <<batch, item>>
        BY <1>6 DEF GoDown, queue
    <2>2. Picking(c)'
        BY <2>1 DEF Picking
    <2> QED
        BY <2>1, <2>2 DEF Taken
<1>7. CASE SplitStart(c) \/ ReturnToParent(c)
    <2>1. PICK next \in {"splitRest", "attach"} :
              Goto(c, next) \/ (Goto(c, "removing") /\ job'.next = next)
        <3>1. CASE SplitStart(c)
            BY <3>1, TryRemoveGoes DEF SplitStart
        <3>2. CASE ReturnToParent(c)
            BY <3>2, TryRemoveGoes DEF ReturnToParent
        <3> QED
            BY <1>7, <3>1, <3>2
    <2>2. pc[c] # "ready" /\ UNCHANGED <<batch, item>>
        BY <1>7 DEF SplitStart, ReturnToParent, queue
    <2>3. Picking(c)'
        BY <2>1, <2>2, WriterGoes DEF Picking, Bound
    <2> QED
        BY <2>1, <2>2, <2>3, TakenKept
<1>8. CASE StoreChild(c) \/ StoreNode(c)
    <2>1. PICK l \in {"store", "adding"} : Goto(c, l)
        BY <1>8 DEF StoreChild, StoreNode, Goto, IInv, TypeOK
    <2>2. pc[c] = "store" /\ UNCHANGED <<batch, item>>
        BY <1>8 DEF StoreChild, StoreNode, queue
    <2> QED
        BY <2>1, <2>2, TakenKept DEF Picking, Bound
<1> QED
    BY <1>1, <1>2, <1>3, <1>4, <1>5, <1>6, <1>7, <1>8 DEF Step

LEMMA TakenAnswer ==
    ASSUME IInv, Taken, NEW c \in Coroutines, Answer(c)
    PROVE  Taken'
<1>1. CASE Added(c) \/ Pinned(c) \/ StoreFailed(c)
    <2>1. PICK l \in {"ready", "loop", "store", "pinning"} : Goto(c, l)
        BY <1>1 DEF Added, Pinned, StoreFailed
    <2>2. pc[c] \in {"adding", "pinning"} /\ UNCHANGED <<batch, item>>
        BY <1>1 DEF Added, Pinned, StoreFailed, queue
    <2> QED
        BY <2>1, <2>2, TakenKept DEF Picking, Bound
<1>2. CASE Removed(c) \/ RemoveFailed(c)
    <2>1. /\ pc[c] = "removing" /\ Goto(c, job.next) /\ UNCHANGED <<batch, item>>
          /\ job.next \in {"store", "splitRest", "attach"}
        BY <1>2 DEF Removed, RemoveFailed, queue, IInv, WriterResumes
    <2>2. Picking(c) => Picking(c)'
        BY <2>1, WriterGoes DEF Picking, Bound
    <2> QED
        BY <2>1, <2>2, TakenKept
<1> QED
    BY <1>1, <1>2 DEF Answer

LEMMA TakenCall ==
    ASSUME IInv, Taken, NEW c \in Coroutines, NEW k \in Keys, NEW v \in Values,
           Call(c, k, v)
    PROVE  Taken'
<1>1. CASE BufferInsert(c, k, v)
    BY <1>1 DEF BufferInsert, Taken, Picking, Bound
<1>2. CASE StartInsert(c, k, v)
    <2>1. \A d \in Coroutines : pc[d] = "ready" /\ pc'[d] # "descend"
        BY <1>2 DEF StartInsert, MayStart, Goto, IInv, TypeOK, SingleWriter
    <2>2. DOMAIN batch = {}
        BY <2>1 DEF Taken, Picking, Bound
    <2>3. batch' = batch
        BY <1>2 DEF StartInsert
    <2> QED
        BY <2>1, <2>2, <2>3 DEF Taken
<1> QED
    BY <1>1, <1>2 DEF Call

InvD == InvS /\ Taken

LEMMA InitTaken == Init => InvD
<1> SUFFICES ASSUME Init PROVE InvD
    OBVIOUS
<1>1. DOMAIN batch = {} /\ \A c \in Coroutines : pc[c] # "descend"
    BY DEF Init, EmptyMap
<1> QED
    BY <1>1, InitShape DEF InvD, Taken

LEMMA NextTaken == InvD /\ [Next]_vars => InvD'
<1> SUFFICES ASSUME InvS, IInv, Taken, [Next]_vars PROVE InvD'
    BY DEF InvD, InvS
<1>1. InvS'
    BY NextShape
<1>2. CASE Next
    <2>1. PICK c \in Coroutines :
              Step(c) \/ Answer(c) \/ \E k \in Keys, v \in Values : Call(c, k, v)
        BY <1>2 DEF Next
    <2> QED
        BY <1>1, <2>1, TakenStep, TakenAnswer, TakenCall DEF InvD
<1>3. CASE UNCHANGED vars
    BY <1>1, <1>3 DEF vars, InvD, Taken, Picking, Bound
<1> QED
    BY <1>2, <1>3

\* What the map holds is what the nodes hold with the parts of a split put back.
ContentsOK ==
    /\ Contents = [k \in DOMAIN Contents |-> Contents[k]]
    /\ \A k : k \in DOMAIN Contents <=> (k \in Keys /\ \E a \in Addresses : k \in DOMAIN Full[a])
    /\ \A k \in Keys : \A a \in Addresses : k \in DOMAIN Full[a] => Contents[k] = Full[a][k].value

LEMMA ContentsAre == InvS => ContentsOK
<1> SUFFICES ASSUME InvS PROVE ContentsOK
    OBVIOUS
<1>1. /\ Contents = [k \in DOMAIN Contents |-> Contents[k]]
      /\ DOMAIN Contents = {k \in Keys : Holders(k) # {}}
      /\ \A k \in Keys : Holders(k) # {} => Contents[k] = HeldEntry(k).value
    BY DEF Contents
<1>2. ASSUME NEW k \in Keys, NEW a \in Addresses, k \in DOMAIN Full[a]
      PROVE  Holders(k) # {} /\ HeldEntry(k) = Full[a][k]
    <2>1. Holders(k) = {Place(a, k)}
        BY <1>2, HeldAt
    <2>2. (CHOOSE x \in Holders(k) : TRUE) = Place(a, k)
        BY <2>1
    <2>3. CASE carry = NoSplit
        <3>1. Full = heap /\ Place(a, k) = <<"heap", a>>
            BY <2>3 DEF Full, Place
        <3> QED
            BY <2>1, <2>2, <3>1 DEF HeldEntry
    <2>4. CASE carry # NoSplit
        <3>1. at \in Addresses
            <4>1. PICK c \in Coroutines : pc[c] = "return" \/ Bound(c, "attach")
                BY <2>4 DEF InvS, Shape, CarryOut
            <4> QED
                BY <4>1 DEF InvS, IInv, TypeOK, Bound
        <3>2. Full[a] = IF a = at THEN With(carry.right, carry.id, carry.entry) ELSE heap[a]
            BY <2>4, <3>1, FullAt DEF InvS
        <3>3. CASE a # at
            <4>1. Place(a, k) = <<"heap", a>>
                BY <3>3 DEF Place
            <4> QED
                BY <2>1, <2>2, <3>2, <3>3, <4>1 DEF HeldEntry
        <3>4. CASE a = at /\ k = carry.id
            <4>1. Place(a, k) = <<"median", 0>>
                BY <2>4, <3>4 DEF Place
            <4>2. Full[a][k] = carry.entry
                BY <3>2, <3>4 DEF With
            <4> QED
                BY <2>1, <2>2, <4>1, <4>2 DEF HeldEntry
        <3>5. CASE a = at /\ k # carry.id
            <4>1. Place(a, k) = <<"right", 0>>
                BY <2>4, <3>5 DEF Place
            <4>2. Full[a][k] = carry.right[k]
                BY <1>2, <3>2, <3>5 DEF With
            <4> QED
                BY <2>1, <2>2, <4>1, <4>2 DEF HeldEntry
        <3> QED
            BY <3>3, <3>4, <3>5
    <2> QED
        BY <2>3, <2>4
<1>3. \A k : k \in DOMAIN Contents <=> (k \in Keys /\ \E a \in Addresses : k \in DOMAIN Full[a])
    BY <1>1, <1>2, HeldAt
<1>4. \A k \in Keys : \A a \in Addresses : k \in DOMAIN Full[a] => Contents[k] = Full[a][k].value
    BY <1>1, <1>2
<1> QED
    BY <1>1, <1>3, <1>4 DEF ContentsOK

\* A key that moves keeps its value, and none comes or goes.
LEMMA SameContents ==
    ASSUME InvS, InvS',
           \A k \in Keys : \A a \in Addresses : k \in DOMAIN Full[a] =>
               \E b \in 1..Len(heap') :
                   k \in DOMAIN Full'[b] /\ Full'[b][k].value = Full[a][k].value,
           \A k \in Keys : \A b \in 1..Len(heap') : k \in DOMAIN Full'[b] =>
               \E a \in Addresses : k \in DOMAIN Full[a]
    PROVE  Contents' = Contents
<1>1. ContentsOK /\ ContentsOK'
    BY ContentsAre, PTL
<1>2. \A k : k \in DOMAIN Contents' <=> k \in DOMAIN Contents
    BY <1>1 DEF ContentsOK, Addresses
<1>3. \A k \in DOMAIN Contents : Contents'[k] = Contents[k]
    BY <1>1 DEF ContentsOK, Addresses
<1>4. /\ Contents = [k \in DOMAIN Contents |-> Contents[k]]
      /\ Contents' = [k \in DOMAIN Contents' |-> Contents'[k]]
    BY <1>1 DEF ContentsOK
<1> QED
    BY ONLY <1>2, <1>3, <1>4

LEMMA OfferedKept ==
    ASSUME IInv, NEW c \in Coroutines, pc[c] \notin {"ready", "descend"},
           NEW l, l # "descend", Goto(c, l), UNCHANGED <<buffer, batch, item>>
    PROVE  Offered' = Offered
<1>1. \A d \in Coroutines : pc[d] # "descend" /\ pc'[d] # "descend"
    BY WriterIs, WriterGoes
<1> QED
    BY <1>1 DEF Offered, Pairs

LEMMA ContentsStay ==
    ASSUME heap' = heap, carry' = carry
    PROVE  Contents' = Contents
BY DEF Contents, HeldEntry, Holders, Addresses

\* Taking the buffer and the next pair of it
LEMMA DictLoop ==
    ASSUME InvD, InvD', NEW c \in Coroutines,
           TakeBuffer(c) \/ InsertDone(c) \/ Pick(c) \/ Flush(c)
    PROVE  Contents' = Contents /\ Offered' = Offered
<1>0. /\ IInv /\ Shape /\ Taken /\ InvS /\ InvS'
      /\ pc[c] \in {"loop", "pick"} /\ pc[c] # "ready" /\ carry = NoSplit /\ carry' = NoSplit
    <2>1. IInv /\ Shape /\ Taken /\ InvS /\ InvS'
        BY DEF InvD, InvS
    <2>2. pc[c] \in {"loop", "pick"}
        BY DEF TakeBuffer, InsertDone, Pick, Flush
    <2>3. carry = NoSplit
        BY <2>1, <2>2, WriterIs DEF Shape, Bound
    <2> QED
        BY <2>1, <2>2, <2>3 DEF TakeBuffer, InsertDone, Pick, Flush, frame
<1>1. CASE TakeBuffer(c)
    <2>1. Contents' = Contents
        BY <1>0, <1>1, ContentsStay DEF TakeBuffer, tree
    <2>2. /\ pc[c] = "loop" /\ Goto(c, "pick") /\ batch' = buffer /\ buffer' = EmptyMap
        BY <1>1 DEF TakeBuffer, Emptied
    <2>3. DOMAIN batch = {}
        BY <1>0, <2>2, WriterIs DEF Taken, Picking, Bound
    <2>4. Pairs(batch) = {} /\ Pairs(buffer') = {} /\ Pairs(batch') = Pairs(buffer)
        BY <2>2, <2>3 DEF Pairs, EmptyMap
    <2>5. \A d \in Coroutines : pc[d] # "descend" /\ pc'[d] # "descend"
        BY <1>0, <2>2, WriterIs, WriterGoes
    <2> QED
        BY <2>1, <2>4, <2>5 DEF Offered
<1>2. CASE InsertDone(c)
    <2>1. Contents' = Contents
        BY <1>0, <1>2, ContentsStay DEF InsertDone, tree
    <2>2. pc[c] = "loop" /\ Goto(c, "ready") /\ UNCHANGED <<buffer, batch, item>>
        BY <1>2 DEF InsertDone
    <2> QED
        BY <1>0, <2>1, <2>2, OfferedKept
<1>3. CASE Pick(c)
    <2> DEFINE k == First(DOMAIN batch)
    <2>1. /\ pc[c] = "pick" /\ Goto(c, "descend") /\ DOMAIN batch # {} /\ buffer' = buffer
          /\ item'.key = k /\ item'.value = batch[k] /\ batch' = Only(batch, DOMAIN batch \ {k})
        BY <1>3 DEF Pick
    <2>2. k \in DOMAIN batch
        <3>1. DOMAIN batch \subseteq Ids /\ IsFiniteSet(DOMAIN batch)
            BY <1>0 DEF IInv, TypeOK, IsMap, Ids
        <3> QED
            BY <2>1, <3>1, FirstIsFirst
    <2> HIDE DEF k
    <2>3. DOMAIN batch' = DOMAIN batch \ {k} /\ \A j \in DOMAIN batch' : batch'[j] = batch[j]
        BY <2>1 DEF Only
    <2>4. Pairs(batch) = Pairs(batch') \cup {<<k, batch[k]>>}
        BY <2>2, <2>3 DEF Pairs
    <2>5. (\A d \in Coroutines : pc[d] # "descend") /\ pc'[c] = "descend"
        BY <1>0, <2>1, WriterIs, WriterGoes
    <2>6. Offered' = Pairs(buffer) \cup Pairs(batch') \cup {<<k, batch[k]>>}
        BY <2>1, <2>5 DEF Offered
    <2>7. Offered = Pairs(buffer) \cup Pairs(batch)
        BY <2>5 DEF Offered
    <2>8. Contents' = Contents
        <3>1. CASE rootNode # Null
            BY <1>0, <1>3, <3>1, ContentsStay DEF Pick, NoRootNode
        <3>2. CASE rootNode = Null
            <4>1. heap = <<>> /\ heap' = Append(heap, EmptyMap)
                BY <1>0, <1>3, <3>2 DEF Pick, NoRootNode, Alloc, Shape
            <4>2. Len(heap) = 0 /\ Len(heap') = 1 /\ heap'[1] = EmptyMap
                BY <4>1
            <4>3. Full' = heap' /\ Addresses = {} /\ DOMAIN Full'[1] = {}
                BY <1>0, <4>2 DEF Full, Addresses, EmptyMap
            <4> QED
                BY <1>0, <4>2, <4>3, SameContents
        <3> QED
            BY <3>1, <3>2
    <2> QED
        BY <2>4, <2>6, <2>7, <2>8
<1>4. CASE Flush(c)
    <2>1. Contents' = Contents
        BY <1>0, <1>4, ContentsStay DEF Flush, tree
    <2>2. PICK l \in {"store", "removing"} : Goto(c, l)
        BY <1>4, TryRemoveGoes DEF Flush
    <2>3. pc[c] = "pick" /\ UNCHANGED <<buffer, batch, item>>
        BY <1>4 DEF Flush, queue
    <2> QED
        BY <1>0, <2>1, <2>2, <2>3, OfferedKept
<1> QED
    BY <1>1, <1>2, <1>3, <1>4

\* The nodes keep the keys and values they have.
LEMMA SameValues ==
    ASSUME InvS, InvS', Len(heap') = Len(heap),
           \A a \in 1..Len(heap) : /\ DOMAIN Full'[a] = DOMAIN Full[a]
                                   /\ \A k \in DOMAIN Full[a] : Full'[a][k].value = Full[a][k].value
    PROVE  Contents' = Contents
BY SameContents DEF Addresses

\* On the way down no entry is created: the one for the key's lower bound is there.
LEMMA DownKeeps ==
    ASSUME IInv, Shape, NEW c \in Coroutines, GoDown(c)
    PROVE  /\ Len(heap') = Len(heap)
           /\ \A a \in 1..Len(heap) :
                 DOMAIN Full'[a] = DOMAIN Full[a] /\ \A j \in DOMAIN Full[a] : Full'[a][j] = Full[a][j]
<1>1. pc[c] = "descend"
    BY DEF GoDown
<1> DEFINE n == Len(heap)
           i == LowerBound(heap[at], item.key)
           here == WithNew(heap[at], i, Entry(NoValue, Null, NoHash))
<1>3. /\ carry = NoSplit /\ Full = heap /\ at \in 1..n /\ IsHeap(heap, n)
      /\ rootNode # Null /\ IsNode(heap[at], n)
    BY <1>1, Descending
<1>4. i \in DOMAIN heap[at] /\ heap[at][i].child # Null
    <2>1. PICK span, lvl : Shaped(span, lvl)
        BY <1>1, <1>3 DEF Shape
    <2>2. /\ Tree(heap, n, rootNode, span, lvl, Null, MidKey)
          /\ item.key \in span[at] /\ item.key \in Keys
        BY <1>1, <1>3, <2>1, WriterIs DEF Shaped, Shape, Bound
    <2>3. lvl[at] # 0 /\ item.key \notin DOMAIN heap[at] /\ IsFiniteSet(DOMAIN heap[at])
        BY <1>3, <2>2, LeafLevel DEF GoDown, IsNode
    <2>4. i \in DOMAIN heap[at] /\ heap[at][i].child \in 1..n
        BY <1>3, <2>2, <2>3, GoesDown
    <2> QED
        BY <2>4 DEF Null
<1>5. DOMAIN here = DOMAIN heap[at] /\ \A j \in DOMAIN heap[at] : here[j] = heap[at][j]
    BY <1>4 DEF WithNew
<1>6. heap' = [heap EXCEPT ![at] = here] /\ carry' = carry
    BY <1>4, <1>5 DEF GoDown
<1> HIDE DEF here, i
<1>7. Len(heap') = n /\ \A a \in 1..n : heap'[a] = IF a = at THEN here ELSE heap[a]
    BY <1>3, <1>6, Replaced
<1>8. Full' = heap'
    BY <1>3, <1>6 DEF Full
<1> QED
    BY <1>3, <1>5, <1>7, <1>8

LEMMA DictDescend ==
    ASSUME InvD, InvD', NEW c \in Coroutines, GoDown(c)
    PROVE  Contents' = Contents /\ Offered' = Offered
<1>1. IInv /\ Shape /\ InvS /\ InvS' /\ pc[c] = "descend" /\ pc' = pc
    BY DEF InvD, InvS, GoDown
<1>2. Offered' = Offered
    BY <1>1 DEF Offered, Pairs, GoDown, queue
<1> QED
    BY <1>1, <1>2, DownKeeps, SameValues

LEMMA DictSplit ==
    ASSUME InvD, InvD', NEW c \in Coroutines,
           SplitStart(c) \/ SplitRest(c) \/ NoNeedToSplit(c)
    PROVE  Contents' = Contents /\ Offered' = Offered
<1> DEFINE n == Len(heap)
<1>0. /\ IInv /\ Shape /\ InvS /\ InvS'
      /\ pc[c] \in {"split", "splitRest"}
      /\ carry = NoSplit /\ Full = heap /\ at \in 1..n /\ n \in Nat
    <2>1. IInv /\ Shape /\ InvS /\ InvS'
        BY DEF InvD, InvS
    <2>2. pc[c] \in {"split", "splitRest"}
        BY DEF SplitStart, SplitRest, NoNeedToSplit
    <2> QED
        BY <2>1, <2>2, Descending
<1>1. Offered' = Offered
    <2>1. PICK l \in {"splitRest", "removing", "return"} : Goto(c, l)
        BY TryRemoveGoes DEF SplitStart, SplitRest, NoNeedToSplit
    <2>2. UNCHANGED <<buffer, batch, item>>
        BY DEF SplitStart, SplitRest, NoNeedToSplit, queue
    <2> QED
        BY <1>0, <2>1, <2>2, OfferedKept
<1>2. CASE SplitStart(c)
    <2> DEFINE m == Median(heap[at])
    <2>1. Len(heap') = n + 1 /\ Full' = heap' /\ SplitOff(heap, heap', n, at, m)
        BY <1>0, <1>2, SplitStartIs
    <2> HIDE DEF m
    <2>2. ASSUME NEW k \in Keys, NEW a \in Addresses, k \in DOMAIN Full[a]
          PROVE  \E b \in 1..Len(heap') : k \in DOMAIN Full'[b] /\ Full'[b][k].value = Full[a][k].value
        <3>1. k # Inf /\ a \in 1..Len(heap') /\ at \in 1..Len(heap') /\ n + 1 \in 1..Len(heap')
            BY <1>0, <2>1, KeysAssumption DEF Addresses
        <3>2. CASE a # at
            BY <1>0, <2>1, <2>2, <3>1, <3>2 DEF SplitOff, Addresses
        <3>3. CASE a = at /\ Before(k, m)
            <4>1. k \in DOMAIN heap'[n + 1] /\ heap'[n + 1][k] = heap[at][k]
                BY <1>0, <2>1, <2>2, <3>1, <3>3 DEF SplitOff
            <4> QED
                BY <1>0, <2>1, <3>1, <3>3, <4>1
        <3>4. CASE a = at /\ ~Before(k, m)
            <4>1. k \in DOMAIN heap'[at] /\ heap'[at][k].value = heap[at][k].value
                BY <1>0, <2>1, <2>2, <3>4 DEF SplitOff, Entry
            <4> QED
                BY <1>0, <2>1, <3>1, <3>4, <4>1
        <3> QED
            BY <3>2, <3>3, <3>4
    <2>3. ASSUME NEW k \in Keys, NEW b \in 1..Len(heap'), k \in DOMAIN Full'[b]
          PROVE  \E a \in Addresses : k \in DOMAIN Full[a]
        <3>1. k # Inf /\ at \in Addresses /\ (b = n + 1 \/ b \in Addresses)
            BY <1>0, <2>1, KeysAssumption DEF Addresses
        <3>2. CASE b \in {at, n + 1}
            <4>1. k \in DOMAIN heap[at]
                BY <2>1, <2>3, <3>1, <3>2 DEF SplitOff
            <4> QED
                BY <1>0, <3>1, <4>1
        <3>3. CASE b \notin {at, n + 1}
            <4>1. b \in Addresses /\ heap'[b] = heap[b]
                BY <2>1, <3>1, <3>3 DEF SplitOff, Addresses
            <4> QED
                BY <1>0, <2>1, <2>3, <4>1
        <3> QED
            BY <3>2, <3>3
    <2> QED
        BY <1>0, <1>1, <2>2, <2>3, SameContents
<1>3. CASE SplitRest(c)
    <2>1. /\ Len(heap') = Len(heap)
          /\ \A a \in 1..Len(heap) :
                DOMAIN Full'[a] = DOMAIN heap[a] /\ \A j \in DOMAIN heap[a] : Full'[a][j] = heap[a][j]
        BY <1>0, <1>3, SplitRestIs
    <2> QED
        BY <1>0, <1>1, <2>1, SameValues
<1>4. CASE NoNeedToSplit(c)
    BY <1>0, <1>1, <1>4, ContentsStay DEF NoNeedToSplit, tree
<1> QED
    BY <1>2, <1>3, <1>4

\* One entry has another hash.
HashSet(F, G, n, p, i, x) ==
    /\ \A a \in 1..n : a # p => G[a] = F[a]
    /\ DOMAIN G[p] = DOMAIN F[p]
    /\ \A j \in DOMAIN F[p] : j # i => G[p][j] = F[p][j]
    /\ i \in DOMAIN F[p] =>
        /\ G[p][i].value = F[p][i].value /\ G[p][i].child = F[p][i].child
        /\ G[p][i].hash = x

LEMMA HashOnly ==
    ASSUME IInv, IInv', NEW p \in 1..Len(heap), NEW i, NEW x,
           heap' = [heap EXCEPT ![p][i].hash = x], carry' = carry, at' = at \/ carry = NoSplit,
           carry # NoSplit => at \in 1..Len(heap) /\ p # at
    PROVE  /\ Len(heap') = Len(heap)
           /\ HashSet(heap, heap', Len(heap), p, i, x) /\ HashSet(Full, Full', Len(heap), p, i, x)
           /\ \A a \in 1..Len(heap) : /\ DOMAIN Full'[a] = DOMAIN Full[a]
                                      /\ \A k \in DOMAIN Full[a] : Full'[a][k].value = Full[a][k].value
<1> DEFINE n == Len(heap)
           node == [heap[p] EXCEPT ![i].hash = x]
<1>1. IsHeap(heap, n) /\ IsNode(heap[p], n)
    BY DEF IInv, TypeOK, IsHeap
<1>2. /\ DOMAIN node = DOMAIN heap[p]
      /\ \A j \in DOMAIN heap[p] : j # i => node[j] = heap[p][j]
      /\ i \in DOMAIN heap[p] =>
            /\ node[i].value = heap[p][i].value /\ node[i].child = heap[p][i].child
            /\ node[i].hash = x
    BY <1>1 DEF IsNode, IsEntry
<1>3. heap' = [heap EXCEPT ![p] = node]
    OBVIOUS
<1> HIDE DEF node
<1>4. Len(heap') = n /\ \A a \in 1..n : heap'[a] = IF a = p THEN node ELSE heap[a]
    BY <1>1, <1>3, Replaced
<1>5. /\ Full[p] = heap[p] /\ Full'[p] = node
      /\ \A a \in 1..n : a # p => Full'[a] = Full[a]
    <2>1. CASE carry = NoSplit
        <3>1. Full = heap /\ Full' = heap'
            BY <2>1 DEF Full
        <3> QED
            BY <1>4, <3>1
    <2>2. CASE carry # NoSplit
        <3>1. \A a \in 1..n : Full[a] = IF a = at THEN With(carry.right, carry.id, carry.entry) ELSE heap[a]
            BY <2>2, FullAt DEF Addresses
        <3>2. \A a \in 1..n : Full'[a] = IF a = at THEN With(carry.right, carry.id, carry.entry) ELSE heap'[a]
            BY <1>4, <2>2, FullNext
        <3> QED
            BY <1>4, <2>2, <3>1, <3>2
    <2> QED
        BY <2>1, <2>2
<1>6. HashSet(heap, heap', n, p, i, x) /\ HashSet(Full, Full', n, p, i, x)
    BY <1>2, <1>4, <1>5 DEF HashSet
<1>7. \A j \in DOMAIN heap[p] : node[j].value = heap[p][j].value
    BY <1>2
<1> QED
    BY <1>2, <1>4, <1>5, <1>6, <1>7

LEMMA DictReturn ==
    ASSUME InvD, InvD', NEW c \in Coroutines,
           ReturnToParent(c) \/ ReturnToRoot(c) \/ Attach(c)
    PROVE  Contents' = Contents /\ Offered' = Offered
<1> DEFINE n == Len(heap)
           p == Top(stack).node
<1>0. /\ IInv /\ IInv' /\ Shape /\ InvS /\ InvS'
      /\ pc[c] \in {"return", "attach"}
      /\ at \in 1..n /\ n \in Nat
    <2>1. IInv /\ IInv' /\ Shape /\ InvS /\ InvS'
        BY DEF InvD, InvS
    <2>2. pc[c] \in {"return", "attach"}
        BY DEF ReturnToParent, ReturnToRoot, Attach
    <2>3. at \in 1..n /\ n \in Nat
        BY <2>1, <2>2 DEF IInv, TypeOK, Addresses, IsHeap
    <2> QED
        BY <2>1, <2>2, <2>3
<1>1. Offered' = Offered
    <2>1. PICK l \in {"attach", "removing", "pick", "split"} : Goto(c, l)
        BY TryRemoveGoes DEF ReturnToParent, ReturnToRoot, Attach
    <2>2. UNCHANGED <<buffer, batch, item>>
        BY DEF ReturnToParent, ReturnToRoot, Attach, queue
    <2> QED
        BY <1>0, <2>1, <2>2, OfferedKept
<1>2. CASE ReturnToParent(c)
    <2>1. /\ pc[c] = "return" /\ stack # <<>> /\ carry' = carry /\ at' = at
          /\ heap' = [heap EXCEPT ![p][Top(stack).id].hash = NoHash]
        BY <1>2 DEF ReturnToParent, frame
    <2>2. p \in 1..n /\ p # at
        BY <1>0, <2>1, UpFrame
    <2> HIDE DEF p
    <2>3. /\ Len(heap') = Len(heap)
          /\ \A a \in 1..Len(heap) : /\ DOMAIN Full'[a] = DOMAIN Full[a]
                                     /\ \A k \in DOMAIN Full[a] : Full'[a][k].value = Full[a][k].value
        BY <1>0, <2>1, <2>2, HashOnly
    <2> QED
        BY <1>0, <1>1, <2>3, SameValues
<1>3. CASE carry = NoSplit /\ (ReturnToRoot(c) \/ Attach(c))
    BY <1>1, <1>3, ContentsStay DEF ReturnToRoot, Attach
<1>4. CASE carry # NoSplit /\ Attach(c)
    <2> DEFINE m == carry.id
    <2>1. Len(heap') = n /\ Full' = heap' /\ AttachedIn(Full, heap', n, at, m, p)
        BY <1>0, <1>4, AttachIs
    <2>2. p \in 1..n /\ m \in DOMAIN Full[at]
        <3>1. p \in 1..n
            BY <1>0, <1>4, UpFrame DEF Attach, IInv, WriterResumes, Bound
        <3>2. Full[at] = With(carry.right, carry.id, carry.entry)
            BY <1>0, <1>4, FullAt DEF Addresses
        <3> QED
            BY <3>1, <3>2 DEF With
    <2> HIDE DEF m, p
    <2>3. ASSUME NEW k \in Keys, NEW a \in Addresses, k \in DOMAIN Full[a]
          PROVE  \E b \in 1..Len(heap') : k \in DOMAIN Full'[b] /\ Full'[b][k].value = Full[a][k].value
        <3>1. CASE a = at /\ k = m
            BY <2>1, <2>2, <3>1 DEF AttachedIn
        <3>2. CASE a = at /\ k # m
            BY <1>0, <2>1, <2>3, <3>2 DEF AttachedIn
        <3>3. CASE a = p /\ a # at
            <4>1. k \in DOMAIN heap'[p] /\ (k = m \/ heap'[p][k] = Full[p][k])
                BY <2>1, <2>3, <3>3 DEF AttachedIn
            <4>2. k # m
                <5>1. PICK span, lvl : Shaped(span, lvl)
                    BY <1>0 DEF Shape, IInv, WriterResumes
                <5>2. m \notin DOMAIN heap[p] /\ Full[p] = heap[p]
                    BY <1>0, <1>4, <5>1, MedianBelongs DEF Attach, m, p
                <5> QED
                    BY <2>3, <3>3, <5>2
            <4> QED
                BY <2>1, <2>2, <3>3, <4>1, <4>2
        <3>4. CASE a # at /\ a # p
            BY <2>1, <2>3, <3>4 DEF AttachedIn, Addresses
        <3> QED
            BY <3>1, <3>2, <3>3, <3>4
    <2>4. ASSUME NEW k \in Keys, NEW b \in 1..Len(heap'), k \in DOMAIN Full'[b]
          PROVE  \E a \in Addresses : k \in DOMAIN Full[a]
        BY <1>0, <2>1, <2>2, <2>4 DEF AttachedIn, Addresses
    <2> QED
        BY <1>0, <1>1, <2>3, <2>4, SameContents
<1>5. CASE carry # NoSplit /\ ReturnToRoot(c)
    <2> DEFINE m == carry.id
    <2>1. Len(heap') = n + 1 /\ Full' = heap' /\ RootGrown(Full, heap', n, at, m)
        BY <1>0, <1>5, RootIs
    <2>2. m \in DOMAIN Full[at]
        <3>1. Full[at] = With(carry.right, carry.id, carry.entry)
            BY <1>0, <1>5, FullAt DEF Addresses
        <3> QED
            BY <3>1 DEF With
    <2> HIDE DEF m
    <2>3. ASSUME NEW k \in Keys, NEW a \in Addresses, k \in DOMAIN Full[a]
          PROVE  \E b \in 1..Len(heap') : k \in DOMAIN Full'[b] /\ Full'[b][k].value = Full[a][k].value
        <3>1. a \in 1..Len(heap') /\ at \in 1..Len(heap') /\ n + 1 \in 1..Len(heap')
            BY <1>0, <2>1 DEF Addresses
        <3>2. CASE a # at
            BY <2>1, <2>3, <3>1, <3>2 DEF RootGrown, Addresses
        <3>3. CASE a = at /\ k = m
            BY <2>1, <3>1, <3>3 DEF RootGrown
        <3>4. CASE a = at /\ k # m
            BY <2>1, <2>3, <3>1, <3>4 DEF RootGrown
        <3> QED
            BY <3>2, <3>3, <3>4
    <2>4. ASSUME NEW k \in Keys, NEW b \in 1..Len(heap'), k \in DOMAIN Full'[b]
          PROVE  \E a \in Addresses : k \in DOMAIN Full[a]
        <3>1. k # Inf /\ at \in Addresses /\ (b = n + 1 \/ b \in Addresses)
            BY <1>0, <2>1, KeysAssumption DEF Addresses
        <3>2. CASE b \in {at, n + 1}
            <4>1. k \in DOMAIN Full[at]
                BY <2>1, <2>2, <2>4, <3>1, <3>2 DEF RootGrown
            <4> QED
                BY <3>1, <4>1
        <3>3. CASE b \notin {at, n + 1}
            BY <2>1, <2>4, <3>1, <3>3 DEF RootGrown, Addresses
        <3> QED
            BY <3>2, <3>3
    <2> QED
        BY <1>0, <1>1, <2>3, <2>4, SameContents
<1> QED
    BY <1>2, <1>3, <1>4, <1>5

LEMMA DictStore ==
    ASSUME InvD, InvD', NEW c \in Coroutines,
           StoreChild(c) \/ StoreNode(c) \/ Answer(c)
    PROVE  Contents' = Contents /\ Offered' = Offered
<1>0. /\ IInv /\ IInv' /\ Shape /\ InvS /\ InvS'
      /\ pc[c] \in {"store", "adding", "pinning", "removing"} /\ carry' = carry
      /\ UNCHANGED <<buffer, batch, item>>
    BY DEF InvD, InvS, StoreChild, StoreNode, Answer, Added, Pinned, StoreFailed, Removed,
           RemoveFailed, queue, frame
<1>1. Offered' = Offered
    <2>1. PICK l \in {"store", "adding", "pinning", "ready", "loop", "splitRest", "attach"} : Goto(c, l)
        <3>0. CASE StoreChild(c)
            <4>1. pc' = pc /\ pc[c] = "store" /\ pc = [pc EXCEPT ![c] = pc[c]]
                BY <1>0, <3>0 DEF StoreChild, IInv, TypeOK
            <4>2. Goto(c, "store")
                BY <4>1 DEF Goto
            <4> QED
                BY <4>2
        <3>1. CASE StoreNode(c)
            BY <3>1 DEF StoreNode
        <3>2. CASE Removed(c) \/ RemoveFailed(c)
            BY <1>0, <3>2 DEF Removed, RemoveFailed, IInv, WriterResumes
        <3>3. CASE Added(c) \/ Pinned(c) \/ StoreFailed(c)
            BY <3>3 DEF Added, Pinned, StoreFailed
        <3> QED
            BY <3>0, <3>1, <3>2, <3>3 DEF Answer
    <2> QED
        BY <1>0, <2>1, OfferedKept
<1>2. CASE heap' = heap
    BY <1>0, <1>1, <1>2, ContentsStay
<1>3. CASE heap' # heap
    <2> DEFINE p == Top(stack).node
    <2>1. /\ pc[c] = "pinning" /\ stack # <<>>
          /\ heap' = [heap EXCEPT ![p][Top(stack).id].hash = job.hash]
        BY <1>3 DEF StoreChild, StoreNode, Answer, Added, Pinned, StoreFailed, Removed,
                    RemoveFailed, tree, Stored
    <2>2. p \in 1..Len(heap) /\ carry = NoSplit
        BY <1>0, <2>1, UpFrame, WriterIs DEF Shape, Bound
    <2> HIDE DEF p
    <2>3. /\ Len(heap') = Len(heap)
          /\ \A a \in 1..Len(heap) : /\ DOMAIN Full'[a] = DOMAIN Full[a]
                                     /\ \A k \in DOMAIN Full[a] : Full'[a][k].value = Full[a][k].value
        BY <1>0, <2>1, <2>2, HashOnly
    <2> QED
        BY <1>0, <1>1, <2>3, SameValues
<1> QED
    BY <1>2, <1>3

\* One pair is put into the tree, and no other key is touched.
LEMMA PutPair ==
    ASSUME InvS, InvS', NEW k \in Keys, NEW x,
           \A j \in Keys : \A a \in Addresses : j \in DOMAIN Full[a] /\ j # k =>
               \E b \in 1..Len(heap') :
                   j \in DOMAIN Full'[b] /\ Full'[b][j].value = Full[a][j].value,
           \A j \in Keys : \A b \in 1..Len(heap') : j \in DOMAIN Full'[b] /\ j # k =>
               \E a \in Addresses : j \in DOMAIN Full[a],
           \E b \in 1..Len(heap') : k \in DOMAIN Full'[b] /\ Full'[b][k].value = x
    PROVE  Contents' = With(Contents, k, x)
<1>1. ContentsOK /\ ContentsOK'
    BY ContentsAre, PTL
<1>2. \A j : j \in DOMAIN Contents' <=> j \in DOMAIN Contents \/ j = k
    BY <1>1 DEF ContentsOK, Addresses
<1>3. \A j \in DOMAIN Contents' : Contents'[j] = IF j = k THEN x ELSE Contents[j]
    BY <1>1 DEF ContentsOK, Addresses
<1>4. Contents' = [j \in DOMAIN Contents' |-> Contents'[j]]
    BY <1>1 DEF ContentsOK
<1> HIDE DEF ContentsOK
<1>5. DOMAIN Contents' = DOMAIN Contents \cup {k}
    BY <1>2
<1> QED
    BY ONLY <1>3, <1>4, <1>5 DEF With

\* The pair in hand leaves what was offered, unless it was offered again.
LEMMA PairTaken ==
    ASSUME IInv, NEW c \in Coroutines, pc[c] = "descend", NEW l, l # "descend", Goto(c, l),
           UNCHANGED <<buffer, batch, item>>
    PROVE  /\ <<item.key, item.value>> \in Offered
           /\ Offered' \in {Offered, Offered \ {<<item.key, item.value>>}}
<1>1. \A d \in Coroutines : pc'[d] # "descend"
    BY WriterIs, WriterGoes
<1>2. Offered = Pairs(buffer) \cup Pairs(batch) \cup {<<item.key, item.value>>}
    BY DEF Offered
<1>3. Offered' = Pairs(buffer) \cup Pairs(batch)
    BY <1>1 DEF Offered, Pairs
<1> HIDE DEF Pairs, Offered
<1> QED
    BY <1>2, <1>3

LEMMA DictOverwrite ==
    ASSUME InvD, InvD', NEW c \in Coroutines, OverwriteValue(c)
    PROVE  Contents' = With(Contents, item.key, item.value)
<1> DEFINE n == Len(heap)
           k == item.key
           node == [heap[at] EXCEPT ![k].value = item.value]
<1>1. IInv /\ Shape /\ InvS /\ InvS' /\ pc[c] = "descend"
    BY DEF InvD, InvS, OverwriteValue
<1>2. /\ carry = NoSplit /\ Full = heap /\ at \in 1..n /\ IsHeap(heap, n) /\ IsNode(heap[at], n)
    BY <1>1, Descending
<1>3. k \in Keys /\ k \in DOMAIN heap[at] /\ heap' = [heap EXCEPT ![at] = node] /\ carry' = carry
    BY <1>1 DEF Shape, OverwriteValue, frame
<1>4. /\ DOMAIN node = DOMAIN heap[at] /\ node[k].value = item.value
      /\ \A j \in DOMAIN heap[at] : j # k => node[j] = heap[at][j]
    BY <1>2, <1>3 DEF IsNode, IsEntry
<1> HIDE DEF node
<1>5. Len(heap') = n /\ \A a \in 1..n : heap'[a] = IF a = at THEN node ELSE heap[a]
    BY <1>2, <1>3, Replaced
<1>6. Full' = heap'
    BY <1>2, <1>3 DEF Full
<1> QED
    BY <1>1, <1>2, <1>3, <1>4, <1>5, <1>6, PutPair DEF Addresses

LEMMA DictInsertAtLeaf ==
    ASSUME InvD, InvD', NEW c \in Coroutines, InsertAtLeaf(c)
    PROVE  Contents' = WithNew(Contents, item.key, item.value)
<1> DEFINE n == Len(heap)
           k == item.key
           leaf == WithNew(heap[at], k, Entry(item.value, Null, NoHash))
<1>1. IInv /\ Shape /\ InvS /\ InvS' /\ pc[c] = "descend"
    BY DEF InvD, InvS, InsertAtLeaf
<1>2. /\ carry = NoSplit /\ Full = heap /\ at \in 1..n /\ IsHeap(heap, n) /\ rootNode # Null
      /\ SplitNode = Null
    BY <1>1, Descending
<1>3. k \in Keys /\ heap' = [heap EXCEPT ![at] = leaf] /\ carry' = carry
    BY <1>1 DEF Shape, InsertAtLeaf, frame
<1>4. /\ DOMAIN leaf = DOMAIN heap[at] \cup {k}
      /\ \A j \in DOMAIN heap[at] : leaf[j] = heap[at][j]
      /\ k \notin DOMAIN heap[at] => leaf[k].value = item.value
    BY DEF WithNew, Entry
<1> HIDE DEF leaf
<1>5. Len(heap') = n /\ \A a \in 1..n : heap'[a] = IF a = at THEN leaf ELSE heap[a]
    BY <1>2, <1>3, Replaced
<1>6. Full' = heap'
    BY <1>2, <1>3 DEF Full
<1>7. ContentsOK
    BY <1>1, ContentsAre
<1>8. CASE k \in DOMAIN heap[at]
    <2>1. \A a \in 1..n : /\ DOMAIN Full'[a] = DOMAIN Full[a]
                          /\ \A j \in DOMAIN Full[a] : Full'[a][j].value = Full[a][j].value
        BY <1>2, <1>4, <1>5, <1>6, <1>8
    <2>2. Contents' = Contents
        BY <1>1, <1>5, <2>1, SameValues
    <2>3. k \in DOMAIN Contents /\ Contents = [j \in DOMAIN Contents |-> Contents[j]]
        BY <1>2, <1>3, <1>7, <1>8 DEF ContentsOK, Addresses
    <2>4. DOMAIN Contents = DOMAIN Contents \cup {k}
        BY <2>3
    <2>5. WithNew(Contents, k, item.value) = Contents
        BY ONLY <2>3, <2>4 DEF WithNew
    <2> QED
        BY <2>2, <2>5
<1>9. CASE k \notin DOMAIN heap[at]
    <2>1. Contents' = With(Contents, k, item.value)
        <3>1. at \in 1..n /\ k \in DOMAIN Full'[at] /\ Full'[at][k].value = item.value
            BY <1>2, <1>4, <1>5, <1>6, <1>9
        <3>2. \A j \in Keys : \A a \in 1..n : j \in DOMAIN Full[a] /\ j # k =>
                   j \in DOMAIN Full'[a] /\ Full'[a][j].value = Full[a][j].value
            BY <1>2, <1>4, <1>5, <1>6
        <3>3. \A j \in Keys : \A a \in 1..n : j \in DOMAIN Full'[a] /\ j # k => j \in DOMAIN Full[a]
            BY <1>2, <1>4, <1>5, <1>6
        <3> QED
            BY <1>1, <1>3, <1>5, <3>1, <3>2, <3>3, PutPair DEF Addresses
    <2>2. k \notin DOMAIN Contents
        <3>1. PICK span, lvl : Shaped(span, lvl)
            BY <1>1, <1>2 DEF Shape
        <3>2. /\ Tree(heap, n, rootNode, span, lvl, Null, MidKey) /\ k \in span[at]
            BY <1>1, <1>2, <3>1 DEF Shaped
        <3>3. lvl[at] = 0
            BY <1>2, <3>2, LeafLevel DEF InsertAtLeaf
        <3>4. ASSUME NEW a \in 1..n, k \in DOMAIN heap[a] PROVE FALSE
            <4>1. k \in KeysOf(heap[a])
                BY <1>3, <3>4, KeysAssumption DEF KeysOf
            <4>2. a = at
                BY <1>2, <3>2, <3>3, <4>1, NowhereElse
            <4> QED
                BY <1>9, <3>4, <4>2
        <3> QED
            BY <1>2, <1>7, <3>4 DEF ContentsOK, Addresses
    <2>3. With(Contents, k, item.value) = WithNew(Contents, k, item.value)
        BY <2>2 DEF With, WithNew
    <2> QED
        BY <2>1, <2>3
<1> QED
    BY <1>8, <1>9

\* A call adds its pair to the buffer unless one for the same key is there.
LEMMA DictCall ==
    ASSUME InvD, InvD', NEW c \in Coroutines, NEW k \in Keys, NEW v \in Values, Call(c, k, v)
    PROVE  Contents' = Contents /\ Offered' \in {Offered, Offered \cup {<<k, v>>}}
<1>1. /\ Contents' = Contents /\ buffer' = WithNew(buffer, k, v) /\ UNCHANGED <<batch, item>>
    BY ContentsStay DEF Call, BufferInsert, StartInsert, tree, frame
<1>2. \A d \in Coroutines : pc'[d] = "descend" <=> pc[d] = "descend"
    BY DEF Call, BufferInsert, StartInsert, Goto, InvD, InvS, IInv, TypeOK
<1>3. Pairs(buffer') = Pairs(buffer) \cup (IF k \in DOMAIN buffer THEN {} ELSE {<<k, v>>})
    BY <1>1 DEF Pairs, WithNew
<1>4. Pairs(batch') = Pairs(batch)
    BY <1>1
<1> DEFINE held == IF \E d \in Coroutines : pc[d] = "descend"
                   THEN {<<item.key, item.value>>} ELSE {}
<1>5. Offered = Pairs(buffer) \cup Pairs(batch) \cup held
    BY DEF Offered
<1>6. Offered' = Pairs(buffer') \cup Pairs(batch') \cup held
    BY <1>1, <1>2 DEF Offered
<1> HIDE DEF held, Pairs
<1> QED
    BY <1>1, <1>3, <1>4, <1>5, <1>6

LEMMA DictStep ==
    ASSUME InvD, InvD', [Next]_vars
    PROVE  [Dict!DictNext]_<<Contents, Offered>>
<1>1. CASE UNCHANGED vars
    <2>1. UNCHANGED <<heap, carry, at, buffer, batch, item, pc>>
        BY <1>1 DEF vars
    <2> QED
        BY <2>1, ContentsStay DEF Offered, Pairs
<1>2. CASE Next
    <2>1. PICK c \in Coroutines :
              Step(c) \/ Answer(c) \/ \E k \in Keys, v \in Values : Call(c, k, v)
        BY <1>2 DEF Next
    <2>2. CASE (Step(c) /\ ~(InsertAtLeaf(c) \/ OverwriteValue(c))) \/ Answer(c)
        BY <2>2, DictLoop, DictDescend, DictSplit, DictReturn, DictStore DEF Step
    <2>3. CASE InsertAtLeaf(c) \/ OverwriteValue(c)
        <3>1. PICK l \in {"split", "return"} : Goto(c, l)
            BY <2>3 DEF InsertAtLeaf, OverwriteValue
        <3>2. pc[c] = "descend" /\ UNCHANGED <<buffer, batch, item>> /\ IInv
            BY <2>3 DEF InsertAtLeaf, OverwriteValue, queue, InvD, InvS
        <3>3. item.key \in Keys /\ item.value \in Values
            BY <3>2 DEF InvD, InvS, Shape, Taken
        <3>4. /\ <<item.key, item.value>> \in Offered
              /\ Offered' \in {Offered, Offered \ {<<item.key, item.value>>}}
            BY <3>1, <3>2, PairTaken
        <3>5. Contents' \in {With(Contents, item.key, item.value), WithNew(Contents, item.key, item.value)}
            BY <2>3, DictOverwrite, DictInsertAtLeaf
        <3>6. Contents' = With(Contents, item.key, item.value)
              \/ (item.key \in DOMAIN Contents /\ Contents' = Contents)
            <4>1. DOMAIN Contents \subseteq Keys /\ Contents = [j \in DOMAIN Contents |-> Contents[j]]
                BY DEF Contents
            <4>2. CASE item.key \in DOMAIN Contents
                <5>1. WithNew(Contents, item.key, item.value) = Contents
                    <6>1. DOMAIN Contents \cup {item.key} = DOMAIN Contents
                        BY <4>2
                    <6> QED
                        BY ONLY <4>1, <4>2, <6>1 DEF WithNew
                <5> QED
                    BY <3>5, <4>2, <5>1
            <4>3. CASE item.key \notin DOMAIN Contents
                <5>1. WithNew(Contents, item.key, item.value) = With(Contents, item.key, item.value)
                    BY <4>3 DEF With, WithNew
                <5> QED
                    BY <3>5, <5>1
            <4> QED
                BY <4>2, <4>3
        <3>7. Dict!Put(item.key, item.value) \/ Dict!Drop(item.key, item.value)
            BY <3>4, <3>6 DEF Dict!Put, Dict!Drop, Dict!Taken, Dict!With, With
        <3> QED
            BY <3>3, <3>7 DEF Dict!DictNext
    <2>4. CASE \E k \in Keys, v \in Values : Call(c, k, v)
        <3>1. PICK k \in Keys, v \in Values : Call(c, k, v)
            BY <2>4
        <3>2. Contents' = Contents /\ Offered' \in {Offered, Offered \cup {<<k, v>>}}
            BY <3>1, DictCall
        <3> QED
            BY <3>2 DEF Dict!DictNext, Dict!Offer
    <2> QED
        BY <2>1, <2>2, <2>3, <2>4
<1> QED
    BY <1>1, <1>2

LEMMA DictStart == Init => Dict!DictInit
<1> SUFFICES ASSUME Init PROVE Dict!DictInit
    OBVIOUS
<1>1. InvS /\ heap = <<>> /\ carry = NoSplit
    BY InitShape DEF Init
<1>2. \A k \in Keys : Holders(k) = {}
    BY <1>1 DEF Holders, Addresses
<1>3. Contents = EmptyMap
    BY <1>2 DEF Contents, EmptyMap
<1>4. Offered = {}
    BY DEF Init, Offered, Pairs, EmptyMap
<1> QED
    BY <1>3, <1>4 DEF Dict!DictInit, Dict!EmptyMap, EmptyMap

\* The tree implements a map: through every split, store, failure and interleaved
\* call no key is lost, no value turns up that nobody inserted for its key, and a
\* pair leaves the buffers only when its key is in the tree.  Whose value a key has
\* that was inserted twice is left open, as the code leaves it (btree.cpp 251, 562).
THEOREM TreeIsADictionary == Spec => ImplementsDictionary
<1>1. Init => InvD
    BY InitTaken
<1>2. InvD /\ [Next]_vars => InvD'
    BY NextTaken
<1>3. InvD /\ InvD' /\ [Next]_vars => [Dict!DictNext]_<<Contents, Offered>>
    BY DictStep
<1>4. Init => Dict!DictInit
    BY DictStart
<1> QED
    BY <1>1, <1>2, <1>3, <1>4, PTL DEF Spec, ImplementsDictionary, Dict!DictSpec

--------------------------------------------------------------------------
\* What Node::check_invariants computes, and the size of the nodes.

\* What is false of a node is false of one whose children it is true of.
LEMMA LowestNode ==
    ASSUME NEW S, NEW lvl, \A a \in S : lvl[a] \in Nat, S # {}
    PROVE  \E a \in S : \A b \in S : ~(lvl[b] < lvl[a])
<1> DEFINE T == {lvl[a] : a \in S}
<1>1. T \subseteq Nat /\ T # {}
    OBVIOUS
<1> HIDE DEF T
<1>2. PICK x \in T : \A y \in T : ~(<<y, x>> \in OpToRel(<, Nat))
    BY <1>1, NatLessThanWellFounded, WFMin
<1>3. \A y \in T : ~(y < x)
    BY <1>1, <1>2 DEF OpToRel
<1> QED
    BY <1>3 DEF T

LEMMA DepthsAre ==
    ASSUME NEW span, NEW lvl, NEW m, Tree(heap, Len(heap), rootNode, span, lvl, Null, m)
    PROVE  \A a \in Addresses : Depths[a] = {lvl[a] + 1}
<1> DEFINE D(f) == [a \in Addresses |->
                        IF Children(a) = {} THEN {1}
                        ELSE {d + 1 : d \in UNION {f[c] : c \in Children(a)}}]
           g == [a \in Addresses |-> {lvl[a] + 1}]
<1>1. /\ \A a \in Addresses : lvl[a] \in Nat
      /\ \A a \in Addresses : Children(a) = {} <=> lvl[a] = 0
      /\ \A a \in Addresses : \A c \in Children(a) : c \in Addresses /\ lvl[c] + 1 = lvl[a]
    <2>1. Ghosts(Len(heap), rootNode, span, lvl) /\ Levels(heap, Len(heap), lvl, Null, m)
        BY DEF Tree
    <2>2. \A a \in Addresses : lvl[a] \in Nat /\ a # Null
        BY <2>1 DEF Ghosts, Addresses, Null
    <2>3. \A a \in Addresses :
            /\ lvl[a] # 0 => Inf \in DOMAIN heap[a]
            /\ \A i \in DOMAIN heap[a] :
                /\ heap[a][i].child = Null <=> lvl[a] = 0
                /\ heap[a][i].child # Null =>
                      heap[a][i].child \in Addresses /\ lvl[heap[a][i].child] + 1 = lvl[a]
        BY <2>1, <2>2 DEF Levels, Addresses
    <2>4. \A a \in Addresses : \A c :
            c \in Children(a) <=> \E i \in DOMAIN heap[a] : heap[a][i].child = c /\ c # Null
        BY DEF Children
    <2>5. ASSUME NEW a \in Addresses PROVE Children(a) = {} <=> lvl[a] = 0
        <3>1. ASSUME Children(a) = {} PROVE lvl[a] = 0
            BY <2>3, <2>4, <3>1
        <3>2. ASSUME lvl[a] = 0 PROVE Children(a) = {}
            BY <2>3, <3>2 DEF Children
        <3> QED
            BY <3>1, <3>2
    <2> QED
        BY <2>2, <2>3, <2>4, <2>5
<1>2. \A a \in Addresses : g[a] = IF Children(a) = {} THEN {1}
                                  ELSE {d + 1 : d \in UNION {g[c] : c \in Children(a)}}
    <2> SUFFICES ASSUME NEW a \in Addresses
                 PROVE  g[a] = IF Children(a) = {} THEN {1}
                               ELSE {d + 1 : d \in UNION {g[c] : c \in Children(a)}}
        OBVIOUS
    <2>1. CASE Children(a) = {}
        BY <1>1, <2>1
    <2>2. CASE Children(a) # {}
        <3>1. \A c \in Children(a) : g[c] = {lvl[a]}
            BY <1>1
        <3>2. g[a] = {lvl[a] + 1}
            OBVIOUS
        <3> HIDE DEF g
        <3>3. UNION {g[c] : c \in Children(a)} = {lvl[a]}
            BY <2>2, <3>1
        <3> QED
            BY <2>2, <3>2, <3>3
    <2> QED
        BY <2>1, <2>2
<1>3. g = D(g)
    BY <1>2
<1>4. Depths = CHOOSE f : f = D(f)
    BY DEF Depths
<1> HIDE DEF g
<1>5. Depths = D(Depths)
    <2> HIDE DEF D
    <2> QED
        BY <1>3, <1>4
<1>6. \A a \in Addresses : Depths[a] = IF Children(a) = {} THEN {1}
                                  ELSE {d + 1 : d \in UNION {Depths[c] : c \in Children(a)}}
    BY <1>5
<1> HIDE DEF D
<1> DEFINE W == {a \in Addresses : Depths[a] # {lvl[a] + 1}}
<1>7. ASSUME W # {} PROVE FALSE
    <2>1. PICK a \in W : \A b \in W : ~(lvl[b] < lvl[a])
        BY <1>1, <1>7, LowestNode
    <2>2. CASE Children(a) = {}
        <3>1. Depths[a] = {1} /\ lvl[a] = 0
            BY <1>1, <1>6, <2>2
        <3> QED
            BY <3>1
    <2>3. CASE Children(a) # {}
        <3>1. \A c \in Children(a) : Depths[c] = {lvl[a]}
            BY <1>1, <2>1
        <3>2. UNION {Depths[c] : c \in Children(a)} = {lvl[a]}
            BY <2>3, <3>1
        <3>3. Depths[a] = {lvl[a] + 1}
            <4>1. Depths[a] = {d + 1 : d \in UNION {Depths[c] : c \in Children(a)}}
                BY <1>6, <2>3
            <4>2. Depths[a] = {d + 1 : d \in {lvl[a]}}
                BY <3>2, <4>1
            <4> QED
                BY <4>2
        <3> QED
            BY <3>3
    <2> QED
        BY <2>2, <2>3
<1> QED
    BY <1>7

LEMMA KeysUnderAre ==
    ASSUME IInv, NEW span, NEW lvl, NEW m,
           Tree(heap, Len(heap), rootNode, span, lvl, Null, m)
    PROVE  \A a \in Addresses : KeysUnder[a] \subseteq span[a]
<1> DEFINE D(f) == [a \in Addresses |->
                        (DOMAIN heap[a] \ {Inf}) \cup UNION {f[c] : c \in Children(a)}]
           Below1(a) == {k \in span[a] : \E b \in Addresses :
                                            lvl[b] <= lvl[a] /\ k \in KeysOf(heap[b])}
           g == [a \in Addresses |-> Below1(a)]
<1>1. /\ \A a \in Addresses : /\ lvl[a] \in Nat /\ span[a] \subseteq Keys
                              /\ KeysOf(heap[a]) \subseteq span[a]
                              /\ IsFiniteSet(DOMAIN heap[a])
      /\ \A a, b \in Addresses : \A k : (k \in span[a] /\ k \in KeysOf(heap[b])) =>
            ~(lvl[a] < lvl[b])
    <2>1. Ghosts(Len(heap), rootNode, span, lvl) /\ KeysInSpan(heap, Len(heap), span)
          /\ KeysAbove(heap, Len(heap), span, lvl) /\ IsHeap(heap, Len(heap))
        BY DEF Tree, IInv, TypeOK
    <2> QED
        BY <2>1 DEF Ghosts, KeysInSpan, KeysAbove, Addresses, IsHeap, IsNode
<1>2. \A a \in Addresses : \A c \in Children(a) :
        c \in Addresses /\ lvl[c] + 1 = lvl[a] /\ span[c] \subseteq span[a]
    <2> SUFFICES ASSUME NEW a \in Addresses, NEW c \in Children(a)
                 PROVE  c \in Addresses /\ lvl[c] + 1 = lvl[a] /\ span[c] \subseteq span[a]
        OBVIOUS
    <2>1. PICK i \in DOMAIN heap[a] : c = heap[a][i].child /\ c # Null
        BY DEF Children
    <2>2. c \in Addresses /\ lvl[c] + 1 = lvl[a]
        BY <2>1 DEF Tree, Levels, Addresses, Null
    <2>3. \A k \in Keys : k \in span[c] => k \in span[a]
        BY <2>1 DEF Tree, SlotSpans, Addresses
    <2> QED
        BY <1>1, <2>2, <2>3
<1>3. \A a \in Addresses : g[a] = (DOMAIN heap[a] \ {Inf}) \cup UNION {g[c] : c \in Children(a)}
    <2> SUFFICES ASSUME NEW a \in Addresses
                 PROVE  g[a] = (DOMAIN heap[a] \ {Inf}) \cup UNION {g[c] : c \in Children(a)}
        OBVIOUS
    <2>1. \A c \in Children(a) : g[c] = Below1(c)
        BY <1>2
    <2>2. g[a] = Below1(a)
        OBVIOUS
    <2> HIDE DEF g
    <2>3. \A k : k \in UNION {g[c] : c \in Children(a)} <=> \E c \in Children(a) : k \in Below1(c)
        <3> HIDE DEF Below1
        <3> QED
            BY <2>1
    <2>4. ASSUME NEW k \in KeysOf(heap[a]) PROVE k \in Below1(a)
        BY <1>1
    <2>5. ASSUME NEW c \in Children(a), NEW k \in Below1(c) PROVE k \in Below1(a)
        BY <1>1, <1>2
    <2>6. ASSUME NEW k \in Below1(a), k \notin KeysOf(heap[a])
          PROVE  \E c \in Children(a) : k \in Below1(c)
        <3>1. k \in span[a] /\ k \in Keys /\ k \notin DOMAIN heap[a]
            BY <1>1, <2>6, KeysAssumption DEF KeysOf
        <3>2. PICK b \in Addresses : lvl[b] <= lvl[a] /\ k \in KeysOf(heap[b])
            OBVIOUS
        <3>3. k \in span[b] /\ b # a
            BY <1>1, <2>6, <3>2
        <3>4. lvl[b] # lvl[a]
            BY <3>1, <3>2, <3>3 DEF Tree, Apart, Addresses
        <3>5. lvl[b] < lvl[a] /\ lvl[a] # 0
            BY <1>1, <3>2, <3>4
        <3> DEFINE i == LowerBound(heap[a], k)
                   c == heap[a][i].child
        <3>6. i \in DOMAIN heap[a] /\ c \in 1..Len(heap) /\ lvl[c] + 1 = lvl[a] /\ k \in span[c]
            BY <1>1, <3>1, <3>5, GoesDown DEF Addresses
        <3>7. c \in Children(a)
            BY <3>6 DEF Children, Null
        <3>8. lvl[b] <= lvl[c]
            BY <1>1, <3>5, <3>6 DEF Addresses
        <3> QED
            BY <3>2, <3>6, <3>7, <3>8
    <2> HIDE DEF Below1
    <2>7. \A k : k \in g[a] <=> k \in KeysOf(heap[a]) \/ \E c \in Children(a) : k \in Below1(c)
        BY <2>2, <2>4, <2>5, <2>6
    <2> QED
        BY <2>3, <2>7 DEF KeysOf
<1>4. g = D(g)
    <2> HIDE DEF Below1
    <2> QED
        BY <1>3
<1>5. KeysUnder = CHOOSE f : f = D(f)
    BY DEF KeysUnder
<1> HIDE DEF g
<1>6. KeysUnder = D(KeysUnder)
    <2> HIDE DEF D
    <2> QED
        BY <1>4, <1>5
<1>7. \A a \in Addresses :
        KeysUnder[a] = (DOMAIN heap[a] \ {Inf}) \cup UNION {KeysUnder[c] : c \in Children(a)}
    BY <1>6
<1> HIDE DEF D
<1> DEFINE W == {a \in Addresses : ~(KeysUnder[a] \subseteq span[a])}
<1>8. ASSUME W # {} PROVE FALSE
    <2>1. PICK a \in W : \A b \in W : ~(lvl[b] < lvl[a])
        BY <1>1, <1>8, LowestNode
    <2>2. \A c \in Children(a) : KeysUnder[c] \subseteq span[a]
        <3>1. \A c \in Children(a) : lvl[c] < lvl[a] /\ c \in Addresses
            BY <1>1, <1>2
        <3> QED
            BY <1>2, <2>1, <3>1
    <2>3. KeysUnder[a] \subseteq span[a]
        BY <1>1, <1>7, <2>2 DEF KeysOf
    <2> QED
        BY <2>3
<1> QED
    BY <1>8

--------------------------------------------------------------------------
\* A node has at most MaxNodeSize keys, but for one more in the node that is about
\* to be split.
Small(node) == Size(node) <= MaxNodeSize

Splitting == \E c \in Coroutines : pc[c] = "split"

Sizes ==
    /\ \A a \in Addresses : Small(heap[a]) \/ (a = at /\ Splitting)
    /\ Splitting => Size(heap[at]) <= MaxNodeSize + 1
    /\ carry # NoSplit => Small(carry.right)

LEMMA SizeIs ==
    ASSUME NEW node, IsFiniteSet(DOMAIN node)
    PROVE  /\ Size(node) \in Nat /\ IsFiniteSet(KeysOf(node))
           /\ Size(node) = Cardinality(KeysOf(node))
BY FS_RemoveElement, FS_CardinalityType DEF Size, KeysOf

LEMMA FewerKeys ==
    ASSUME NEW node, IsFiniteSet(DOMAIN node), NEW other, KeysOf(other) \subseteq KeysOf(node)
    PROVE  Size(other) <= Size(node)
<1>1. Cardinality(KeysOf(other)) <= Cardinality(KeysOf(node))
    BY SizeIs, FS_Subset
<1> QED
    BY <1>1 DEF Size, KeysOf

LEMMA SmallerIsSmall ==
    ASSUME NEW node, IsFiniteSet(DOMAIN node), Small(node),
           NEW other, KeysOf(other) \subseteq KeysOf(node)
    PROVE  Small(other)
<1>1. Size(other) = Cardinality(KeysOf(other))
    BY DEF Size, KeysOf
<1>2. Size(other) \in Nat /\ Size(node) \in Nat /\ Size(other) <= Size(node)
    BY <1>1, SizeIs, FewerKeys, FS_Subset, FS_CardinalityType
<1> QED
    BY <1>2, MaxNodeSizeAssumption DEF Small

LEMMA OneMoreKey ==
    ASSUME NEW node, IsFiniteSet(DOMAIN node), NEW i, NEW other,
           KeysOf(other) \subseteq KeysOf(node) \cup {i}
    PROVE  Size(other) <= Size(node) + 1
<1> DEFINE S == KeysOf(node)
<1>1. IsFiniteSet(S) /\ Size(node) = Cardinality(S) /\ Size(node) \in Nat
    BY SizeIs
<1>2. IsFiniteSet(S \cup {i}) /\ Cardinality(S \cup {i}) <= Size(node) + 1
    BY <1>1, FS_AddElement
<1>3. Cardinality(KeysOf(other)) <= Cardinality(S \cup {i}) /\ Cardinality(KeysOf(other)) \in Nat
      /\ Cardinality(S \cup {i}) \in Nat
    BY <1>2, FS_Subset, FS_CardinalityType
<1>4. Size(other) = Cardinality(KeysOf(other))
    BY DEF Size, KeysOf
<1> QED
    BY <1>1, <1>2, <1>3, <1>4

LEMMA OneKeyLess ==
    ASSUME NEW node, IsFiniteSet(DOMAIN node), NEW i \in KeysOf(node), NEW other,
           KeysOf(other) \subseteq KeysOf(node) \ {i}
    PROVE  Size(other) + 1 <= Size(node)
<1> DEFINE S == KeysOf(node)
<1>1. IsFiniteSet(S) /\ Size(node) = Cardinality(S) /\ Size(node) \in Nat
    BY SizeIs
<1>2. IsFiniteSet(S \ {i}) /\ Cardinality(S \ {i}) = Size(node) - 1
    BY <1>1, FS_RemoveElement
<1>3. Cardinality(KeysOf(other)) <= Cardinality(S \ {i}) /\ Cardinality(KeysOf(other)) \in Nat
    BY <1>2, FS_Subset, FS_CardinalityType
<1>4. Size(other) = Cardinality(KeysOf(other))
    BY DEF Size, KeysOf
<1> QED
    BY <1>1, <1>2, <1>3, <1>4

LEMMA EmptyIsSmall == Small(EmptyMap)
<1>1. DOMAIN EmptyMap = {}
    BY DEF EmptyMap
<1> QED
    BY <1>1, FS_EmptySet, MaxNodeSizeAssumption DEF Small, Size

\* The nodes and their sizes after a step of the writer
LEMMA SizesFrom ==
    ASSUME IInv, NEW c \in Coroutines, pc[c] # "ready", NEW l, Goto(c, l),
           \A a \in Addresses' : Small(heap'[a]) \/ (a = at' /\ l = "split"),
           l = "split" => Size(heap'[at']) <= MaxNodeSize + 1,
           carry' # NoSplit => Small(carry'.right)
    PROVE  Sizes'
<1>1. pc'[c] = l /\ \A d \in Coroutines : d # c => pc'[d] = "ready"
    BY WriterGoes
<1>2. Splitting' <=> l = "split"
    BY <1>1 DEF Splitting
<1> QED
    BY <1>2 DEF Sizes, Small

\* Outside of split no node is too big.
LEMMA AllSmall ==
    ASSUME IInv, Sizes, NEW c \in Coroutines, pc[c] \notin {"ready", "split"}
    PROVE  \A a \in Addresses : Small(heap[a])
BY DEF Sizes, Splitting, IInv, SingleWriter

LEMMA NodesFinite ==
    ASSUME IInv
    PROVE  /\ IsHeap(heap, Len(heap)) /\ Len(heap) \in Nat
           /\ \A a \in Addresses : IsNode(heap[a], Len(heap)) /\ IsFiniteSet(DOMAIN heap[a])
BY DEF IInv, TypeOK, IsHeap, IsNode, Addresses

LEMMA SizesStay ==
    ASSUME IInv, Sizes, NEW c \in Coroutines, pc[c] \notin {"ready", "split"},
           NEW l, Goto(c, l), l # "split", heap' = heap,
           carry' \in {carry, NoSplit}
    PROVE  Sizes'
<1>1. \A a \in Addresses' : Small(heap'[a])
    BY AllSmall DEF Addresses
<1>2. carry' # NoSplit => Small(carry'.right)
    BY DEF Sizes
<1> QED
    BY <1>1, <1>2, SizesFrom

\* One node of the heap is replaced and perhaps one added, outside of split.
LEMMA SizesReplaced ==
    ASSUME IInv, Sizes, NEW c \in Coroutines, pc[c] \notin {"ready", "split"},
           NEW l, Goto(c, l), l # "split", carry' \in {carry, NoSplit},
           NEW p \in Addresses, NEW node, Small(node),
           \/ heap' = [heap EXCEPT ![p] = node]
           \/ \E other : Small(other) /\ heap' = Alloc([heap EXCEPT ![p] = node], other)
    PROVE  Sizes'
<1> DEFINE g == [heap EXCEPT ![p] = node]
<1>0. IsHeap(heap, Len(heap)) /\ Len(heap) \in Nat /\ p \in 1..Len(heap)
    BY NodesFinite DEF Addresses
<1>1. /\ Len(g) = Len(heap)
      /\ \A a \in 1..Len(heap) : g[a] = IF a = p THEN node ELSE heap[a]
      /\ \E S : g \in Seq(S)
    <2>1. PICK h : h = heap
        OBVIOUS
    <2>2. IsHeap(h, Len(h)) /\ p \in 1..Len(h)
        BY <1>0, <2>1
    <2>3. /\ Len([h EXCEPT ![p] = node]) = Len(h)
          /\ \A a \in 1..Len(h) : [h EXCEPT ![p] = node][a] = IF a = p THEN node ELSE h[a]
          /\ \E S : [h EXCEPT ![p] = node] \in Seq(S)
        BY ONLY <2>2, Replaced
    <2> QED
        BY ONLY <2>1, <2>3
<1> HIDE DEF g
<1>2. \A a \in 1..Len(heap) : Small(g[a])
    <2>1. \A a \in Addresses : Small(heap[a])
        BY AllSmall
    <2> QED
        BY <1>1, <2>1 DEF Addresses
<1>3. \A a \in Addresses' : Small(heap'[a])
    <2>1. CASE heap' = g
        BY <1>1, <1>2, <2>1 DEF Addresses
    <2>2. CASE \E other : Small(other) /\ heap' = Alloc(g, other)
        <3>1. PICK other : Small(other) /\ heap' = Alloc(g, other)
            BY <2>2
        <3>2. /\ Len(heap') = Len(g) + 1 /\ heap'[Len(g) + 1] = other
              /\ \A a \in 1..Len(g) : heap'[a] = g[a]
            BY <1>1, <3>1, Added1
        <3>3. \A a \in 1..(Len(g) + 1) : a \in 1..Len(g) \/ a = Len(g) + 1
            BY <1>1
        <3> QED
            BY <1>1, <1>2, <3>1, <3>2, <3>3 DEF Addresses
    <2> QED
        BY <2>1, <2>2 DEF g
<1>4. carry' # NoSplit => Small(carry'.right)
    BY DEF Sizes
<1> QED
    BY <1>3, <1>4, SizesFrom

LEMMA SizesLoop ==
    ASSUME IInv, Sizes, NEW c \in Coroutines,
           TakeBuffer(c) \/ InsertDone(c) \/ Pick(c) \/ Flush(c)
    PROVE  Sizes'
<1>1. CASE TakeBuffer(c) \/ InsertDone(c)
    <2>1. /\ pc[c] = "loop" /\ (Goto(c, "pick") \/ Goto(c, "ready"))
          /\ heap' = heap /\ carry' = carry
        BY <1>1 DEF TakeBuffer, InsertDone, tree, frame
    <2> QED
        BY <1>1, <2>1, SizesStay DEF TakeBuffer, InsertDone
<1>2. CASE Pick(c)
    <2>1. pc[c] = "pick" /\ Goto(c, "descend") /\ carry' = NoSplit
        BY <1>2 DEF Pick
    <2>2. CASE rootNode = Null
        <3>1. heap' = Alloc(heap, EmptyMap) /\ Len(heap) \in Nat
            BY <1>2, <2>2, NodesFinite DEF Pick, NoRootNode
        <3>2. heap \in Seq({heap[a] : a \in DOMAIN heap})
            BY NodesFinite DEF IsHeap
        <3>3. /\ Len(heap') = Len(heap) + 1 /\ heap'[Len(heap) + 1] = EmptyMap
              /\ \A a \in 1..Len(heap) : heap'[a] = heap[a]
            BY <3>1, <3>2, Added1
        <3>4. \A a \in 1..(Len(heap) + 1) : a \in 1..Len(heap) \/ a = Len(heap) + 1
            BY <3>1
        <3>5. \A a \in Addresses' : Small(heap'[a])
            BY <2>1, <3>3, <3>4, AllSmall, EmptyIsSmall DEF Addresses
        <3> QED
            BY <2>1, <3>5, SizesFrom
    <2>3. CASE rootNode # Null
        BY <1>2, <2>1, <2>3, SizesStay DEF Pick, NoRootNode
    <2> QED
        BY <2>2, <2>3
<1>3. CASE Flush(c)
    <2>1. /\ pc[c] = "pick" /\ heap' = heap /\ carry' = NoSplit
          /\ TryRemove(c, rootHash, "store")
        BY <1>3 DEF Flush, tree
    <2>2. Goto(c, "store") \/ Goto(c, "removing")
        BY <2>1 DEF TryRemove
    <2> QED
        BY <2>1, <2>2, SizesStay
<1> QED
    BY <1>1, <1>2, <1>3

LEMMA SizesDescend ==
    ASSUME IInv, Sizes, NEW c \in Coroutines,
           InsertAtLeaf(c) \/ OverwriteValue(c) \/ GoDown(c)
    PROVE  Sizes'
<1>1. /\ pc[c] = "descend" /\ at \in Addresses /\ carry' = carry
      /\ IsFiniteSet(DOMAIN heap[at]) /\ DOMAIN heap[at] \subseteq Ids /\ Small(heap[at])
    <2>1. pc[c] = "descend" /\ carry' = carry
        BY DEF InsertAtLeaf, OverwriteValue, GoDown, frame
    <2>2. at \in Addresses
        BY <2>1 DEF IInv, TypeOK
    <2> QED
        BY <2>1, <2>2, NodesFinite, AllSmall DEF IsNode
<1>2. CASE InsertAtLeaf(c)
    <2> DEFINE node == WithNew(heap[at], item.key, Entry(item.value, Null, NoHash))
    <2>1. heap' = [heap EXCEPT ![at] = node] /\ Goto(c, "split") /\ at' = at
        BY <1>2 DEF InsertAtLeaf, frame
    <2>2. KeysOf(node) \subseteq KeysOf(heap[at]) \cup {item.key}
        BY DEF KeysOf, WithNew
    <2> HIDE DEF node
    <2>3. /\ Len(heap') = Len(heap)
          /\ \A a \in 1..Len(heap) : heap'[a] = IF a = at THEN node ELSE heap[a]
        BY <1>1, <2>1, NodesFinite, Replaced DEF Addresses
    <2>4. \A a \in Addresses' : Small(heap'[a]) \/ a = at'
        BY <1>1, <2>1, <2>3, AllSmall DEF Addresses
    <2>5. Size(node) <= Size(heap[at]) + 1
        BY <1>1, <2>2, OneMoreKey
    <2>6. Size(node) <= MaxNodeSize + 1
        <3>1. Size(heap[at]) \in Nat /\ Size(heap[at]) <= MaxNodeSize /\ MaxNodeSize \in Nat
            BY <1>1, SizeIs, MaxNodeSizeAssumption DEF Small
        <3>2. IsFiniteSet(DOMAIN node)
            <4>1. DOMAIN node = DOMAIN heap[at] \cup {item.key}
                BY DEF node, WithNew
            <4> QED
                BY <1>1, <4>1, FS_AddElement
        <3>3. Size(node) \in Nat
            BY <3>2, SizeIs
        <3> QED
            BY <2>5, <3>1, <3>3
    <2>7. carry' # NoSplit => Small(carry'.right)
        BY <1>1 DEF Sizes
    <2> QED
        BY <1>1, <2>1, <2>3, <2>4, <2>6, <2>7, SizesFrom DEF Addresses
<1>3. CASE OverwriteValue(c)
    <2> DEFINE node == [heap[at] EXCEPT ![item.key].value = item.value]
    <2>1. heap' = [heap EXCEPT ![at] = node] /\ Goto(c, "return")
        BY <1>3 DEF OverwriteValue
    <2>2. KeysOf(node) \subseteq KeysOf(heap[at])
        BY DEF KeysOf
    <2> HIDE DEF node
    <2>3. Small(node)
        BY <1>1, <2>2, SmallerIsSmall
    <2> QED
        BY <1>1, <2>1, <2>3, SizesReplaced
<1>4. CASE GoDown(c)
    <2> DEFINE i == LowerBound(heap[at], item.key)
               here == WithNew(heap[at], i, Entry(NoValue, Null, NoHash))
    <2>1. Goto(c, "descend")
        BY <1>1, <1>4 DEF GoDown, Goto, IInv, TypeOK
    <2>2. i \in DOMAIN heap[at] \cup {Inf}
        <3> DEFINE S == AtOrAfter(heap[at], item.key)
        <3>1. S \subseteq DOMAIN heap[at]
            BY DEF AtOrAfter
        <3>2. IsFiniteSet(S) /\ S \subseteq Ids
            BY <1>1, <3>1, FS_Subset
        <3> QED
            BY <3>1, <3>2, FirstIsFirst DEF LowerBound
    <2> HIDE DEF i
    <2>3. KeysOf(here) \subseteq KeysOf(heap[at])
        BY <2>2 DEF KeysOf, WithNew
    <2>4. CASE here[i].child # Null
        <3>1. heap' = [heap EXCEPT ![at] = here]
            BY <1>4, <2>4 DEF GoDown, i
        <3>2. Small(here)
            BY <1>1, <2>3, SmallerIsSmall
        <3> QED
            BY <1>1, <2>1, <3>1, <3>2, SizesReplaced
    <2>5. CASE here[i].child = Null
        <3> DEFINE e == [here[i] EXCEPT !.child = NewAddress(heap)]
        <3>1. heap' = Alloc([heap EXCEPT ![at] = With(here, i, e)], EmptyMap)
            BY <1>4, <2>5 DEF GoDown, i
        <3>2. KeysOf(With(here, i, e)) \subseteq KeysOf(heap[at])
            <4> HIDE DEF e
            <4> QED
                BY <2>2, <2>3 DEF KeysOf, With, WithNew
        <3>3. Small(With(here, i, e))
            <4> HIDE DEF e, here
            <4> QED
                BY <1>1, <3>2, SmallerIsSmall
        <3> HIDE DEF e, here
        <3> QED
            BY <1>1, <2>1, <3>1, <3>3, EmptyIsSmall, SizesReplaced
    <2> QED
        BY <2>4, <2>5
<1> QED
    BY <1>2, <1>3, <1>4

LEMMA SizesSplit ==
    ASSUME IInv, Sizes, NEW c \in Coroutines,
           SplitStart(c) \/ SplitRest(c) \/ NoNeedToSplit(c)
    PROVE  Sizes'
<1>1. at \in Addresses
    BY DEF SplitStart, SplitRest, NoNeedToSplit, IInv, TypeOK
<1>2. IsFiniteSet(DOMAIN heap[at]) /\ DOMAIN heap[at] \subseteq Ids /\ IsHeap(heap, Len(heap))
      /\ at \in 1..Len(heap) /\ Len(heap) \in Nat
    BY <1>1, NodesFinite DEF IsNode, Addresses
<1>3. CASE SplitStart(c)
    <2> DEFINE m    == Median(heap[at])
               left == LeftPart(heap[at])
               rest == MedianAndRest(heap[at], NewAddress(heap))
               g    == [heap EXCEPT ![at] = rest]
    <2>1. /\ pc[c] = "split" /\ NeedsSplit(heap[at]) /\ heap' = Alloc(g, left) /\ carry' = carry
          /\ TryRemove(c, heap[at][m].hash, "splitRest")
        BY <1>3 DEF SplitStart, frame
    <2>2. PICK l \in {"splitRest", "removing"} : Goto(c, l)
        BY <2>1 DEF TryRemove
    <2>3. /\ m \in KeysOf(heap[at])
          /\ \E k \in KeysOf(heap[at]) : Before(k, m)
        BY <1>2, <2>1, MedianExists DEF KeysOf, Before
    <2>4. Splitting
        BY <2>1 DEF Splitting
    <2>5. Size(heap[at]) \in Nat /\ Size(heap[at]) <= MaxNodeSize + 1
        BY <1>2, <2>4, SizeIs DEF Sizes
    <2>6. ASSUME NEW node, NEW k \in KeysOf(heap[at]), KeysOf(node) \subseteq KeysOf(heap[at]) \ {k}
          PROVE  Small(node)
        <3>1. Size(node) + 1 <= Size(heap[at])
            BY <1>2, <2>6, OneKeyLess
        <3>2. IsFiniteSet(KeysOf(node)) /\ Size(node) = Cardinality(KeysOf(node))
            BY <1>2, <2>6, SizeIs, FS_Subset DEF KeysOf, Size
        <3>3. Size(node) \in Nat
            BY <3>2, FS_CardinalityType
        <3> QED
            BY <2>5, <3>1, <3>3, MaxNodeSizeAssumption DEF Small
    <2>7. Small(left)
        <3>1. KeysOf(left) \subseteq KeysOf(heap[at]) \ {m}
            BY <1>2, <2>3, BeforeIsOrder DEF KeysOf, LeftPart, With, Only
        <3> HIDE DEF left, m
        <3> QED
            BY <2>3, <2>6, <3>1
    <2>8. Small(rest)
        <3>1. PICK k \in KeysOf(heap[at]) : Before(k, m)
            BY <2>3
        <3>2. m \in Ids /\ ~Before(m, m)
            BY <1>2, <2>3, BeforeIsOrder DEF KeysOf
        <3>3. KeysOf(rest) \subseteq KeysOf(heap[at]) \ {k}
            BY <2>3, <3>1, <3>2 DEF KeysOf, MedianAndRest, With, Only
        <3> HIDE DEF rest, m
        <3> QED
            BY <2>6, <3>3
    <2> HIDE DEF rest, left, m
    <2>9. /\ Len(g) = Len(heap)
          /\ \A a \in 1..Len(heap) : g[a] = IF a = at THEN rest ELSE heap[a]
          /\ \E S : g \in Seq(S)
        BY ONLY <1>2, Replaced
    <2> HIDE DEF g
    <2>10. /\ Len(heap') = Len(g) + 1 /\ heap'[Len(g) + 1] = left
           /\ \A a \in 1..Len(g) : heap'[a] = g[a]
        BY <2>1, <2>9, Added1
    <2>11. \A a \in 1..(Len(g) + 1) : a \in 1..Len(g) \/ a = Len(g) + 1
        BY <1>2, <2>9
    <2>12. \A a \in 1..Len(heap) : Small(g[a])
        BY <2>8, <2>9 DEF Sizes, Addresses
    <2>13. \A a \in Addresses' : Small(heap'[a])
        BY <2>7, <2>9, <2>10, <2>11, <2>12 DEF Addresses
    <2>14. carry' # NoSplit => Small(carry'.right)
        BY <2>1 DEF Sizes
    <2> QED
        BY <2>1, <2>2, <2>13, <2>14, SizesFrom
<1>4. CASE SplitRest(c)
    <2> DEFINE m     == First(DOMAIN heap[at])
               right == Only(heap[at], Successors(heap[at], m))
    <2>1. /\ pc[c] = "splitRest" /\ Goto(c, "return")
          /\ heap' = [heap EXCEPT ![at] = EmptyMap]
          /\ carry' = [id |-> m, entry |-> heap[at][m], right |-> right]
        BY <1>4 DEF SplitRest, Erased
    <2>2. /\ Len(heap') = Len(heap)
          /\ \A a \in 1..Len(heap) : heap'[a] = IF a = at THEN EmptyMap ELSE heap[a]
        BY <1>2, <2>1, Replaced
    <2>3. \A a \in Addresses : Small(heap[a])
        BY <2>1, AllSmall
    <2>4. \A a \in Addresses' : Small(heap'[a])
        BY <2>2, <2>3, EmptyIsSmall DEF Addresses
    <2>5. KeysOf(right) \subseteq KeysOf(heap[at])
        BY DEF KeysOf, Only
    <2> HIDE DEF right
    <2>6. Small(right)
        BY <1>1, <1>2, <2>3, <2>5, SmallerIsSmall
    <2> QED
        BY <2>1, <2>4, <2>6, SizesFrom
<1>5. CASE NoNeedToSplit(c)
    <2>1. /\ pc[c] = "split" /\ ~NeedsSplit(heap[at]) /\ Goto(c, "return")
          /\ heap' = heap /\ carry' = NoSplit
        BY <1>5 DEF NoNeedToSplit, tree
    <2>2. Small(heap[at])
        BY <1>2, <2>1, SizeIs, MaxNodeSizeAssumption DEF Small, NeedsSplit
    <2>3. \A a \in Addresses' : Small(heap'[a])
        BY <2>1, <2>2 DEF Sizes, Addresses
    <2> QED
        BY <2>1, <2>3, SizesFrom
<1> QED
    BY <1>3, <1>4, <1>5

LEMMA SizesReturn ==
    ASSUME IInv, Sizes, NEW c \in Coroutines,
           ReturnToParent(c) \/ ReturnToRoot(c) \/ Attach(c)
    PROVE  Sizes'
<1>1. CASE ReturnToParent(c)
    <2> DEFINE p    == Top(stack).node
               i    == Top(stack).id
               node == [heap[p] EXCEPT ![i].hash = NoHash]
    <2>1. /\ pc[c] = "return" /\ stack # <<>> /\ carry' = carry
          /\ heap' = [heap EXCEPT ![p] = node] /\ TryRemove(c, heap[p][i].hash, "attach")
        BY <1>1 DEF ReturnToParent, frame
    <2>2. PICK l \in {"attach", "removing"} : Goto(c, l)
        BY <2>1 DEF TryRemove
    <2>3. p \in Addresses
        BY <2>1, TopFrame DEF IInv, TypeOK
    <2>4. KeysOf(node) \subseteq KeysOf(heap[p])
        BY DEF KeysOf
    <2> HIDE DEF node, p
    <2>5. Small(node)
        BY <2>1, <2>3, <2>4, NodesFinite, AllSmall, SmallerIsSmall
    <2> QED
        BY <2>1, <2>2, <2>3, <2>5, SizesReplaced
<1>2. CASE ReturnToRoot(c)
    <2>1. pc[c] = "return" /\ Goto(c, "pick") /\ carry' = NoSplit
        BY <1>2 DEF ReturnToRoot
    <2>2. CASE carry = NoSplit
        BY <1>2, <2>1, <2>2, SizesStay DEF ReturnToRoot
    <2>3. CASE carry # NoSplit
        <3> DEFINE top == With(With(EmptyMap, carry.id, carry.entry),
                               Inf, Entry(NoValue, NewAddress(heap), NoHash))
        <3>1. heap' = Alloc([heap EXCEPT ![rootNode] = top], carry.right)
            BY <1>2, <2>3 DEF ReturnToRoot
        <3>2. Small(top)
            <4>1. KeysOf(top) \subseteq KeysOf(EmptyMap) \cup {carry.id}
                BY DEF KeysOf, With
            <4>2. DOMAIN EmptyMap = {} /\ IsFiniteSet(DOMAIN EmptyMap)
                BY FS_EmptySet DEF EmptyMap
            <4>3. KeysOf(EmptyMap) = {}
                BY <4>2 DEF KeysOf
            <4> HIDE DEF top
            <4>4. Size(top) = Cardinality(KeysOf(top)) /\ IsFiniteSet(KeysOf(top))
                <5>1. KeysOf(top) \subseteq {carry.id} /\ IsFiniteSet({carry.id})
                    BY <4>1, <4>3, FS_Singleton
                <5>2. IsFiniteSet(KeysOf(top))
                    BY <5>1, FS_Subset
                <5> QED
                    BY <5>2 DEF Size, KeysOf
            <4>5. Size(top) \in Nat /\ Size(top) <= Size(EmptyMap) + 1
                BY <4>1, <4>2, <4>4, OneMoreKey, FS_CardinalityType
            <4>6. Size(EmptyMap) = 0
                BY <4>2, <4>3, FS_EmptySet, SizeIs
            <4> QED
                BY <4>5, <4>6, MaxNodeSizeAssumption DEF Small
        <3>3. Small(carry.right) /\ rootNode \in Addresses
            <4>1. rootNode # Null
                BY <2>1 DEF IInv, WriterResumes
            <4>2. rootNode \in 0..Len(heap)
                BY DEF IInv, TypeOK
            <4>3. rootNode \in Addresses
                BY <4>1, <4>2, NodesFinite DEF Addresses, Null
            <4> QED
                BY <2>3, <4>3 DEF Sizes
        <3> HIDE DEF top
        <3> QED
            BY <2>1, <3>1, <3>2, <3>3, SizesReplaced
    <2> QED
        BY <2>2, <2>3
<1>3. CASE Attach(c)
    <2>1. /\ pc[c] = "attach" /\ Goto(c, "split") /\ carry' = NoSplit /\ at' = Top(stack).node
        BY <1>3 DEF Attach
    <2> DEFINE p == Top(stack).node
    <2>2. p \in Addresses
        <3>1. stack # <<>>
            BY <2>1 DEF IInv, WriterResumes, Bound
        <3> QED
            BY <3>1, TopFrame DEF IInv, TypeOK
    <2>3. /\ Small(heap[p]) /\ Size(heap[p]) \in Nat /\ IsFiniteSet(DOMAIN heap[p])
          /\ MaxNodeSize \in Nat
        BY <2>1, <2>2, NodesFinite, AllSmall, SizeIs, MaxNodeSizeAssumption
    <2>4. CASE carry = NoSplit
        <3>1. heap' = heap
            BY <1>3, <2>4 DEF Attach
        <3>2. \A a \in Addresses' : Small(heap'[a])
            BY <2>1, <3>1, AllSmall DEF Addresses
        <3>3. Size(heap'[at']) <= MaxNodeSize + 1
            BY <2>1, <2>3, <3>1 DEF Small
        <3> QED
            BY <2>1, <3>2, <3>3, SizesFrom
    <2>5. CASE carry # NoSplit
        <3> DEFINE node == WithNew(heap[p], carry.id, carry.entry)
                   q    == node[First(Successors(node, carry.id))].child
                   g    == [heap EXCEPT ![p] = node]
        <3>1. KeysOf(node) \subseteq KeysOf(heap[p]) \cup {carry.id}
              /\ DOMAIN node = DOMAIN heap[p] \cup {carry.id}
            BY DEF KeysOf, WithNew
        <3>2. heap' = [g EXCEPT ![q] = carry.right]
            BY <1>3, <2>5 DEF Attach, Attached
        <3>3. IsHeap(heap, Len(heap)) /\ p \in 1..Len(heap) /\ Len(heap) \in Nat
            BY <2>2, NodesFinite DEF Addresses
        <3>4. Len(heap') = Len(heap)
            <4>1. heap' = Attached(heap, p) /\ IsCarry(carry, Len(heap))
                BY <1>3, <2>5 DEF Attach, IInv, TypeOK
            <4> QED
                BY <3>3, <4>1, AttachedIsHeap
        <3> HIDE DEF node, q, p
        <3>5. /\ DOMAIN g = DOMAIN heap
              /\ \A a \in 1..Len(heap) : g[a] = IF a = p THEN node ELSE heap[a]
            BY <3>3, Replaced
        <3> HIDE DEF g
        <3>6. \A a \in 1..Len(heap) : heap'[a] = IF a = q THEN carry.right ELSE g[a]
            BY <3>2, <3>3, <3>5 DEF IsHeap
        <3>7. IsFiniteSet(DOMAIN node) /\ Size(node) \in Nat /\ Size(node) <= Size(heap[p]) + 1
            <4>1. IsFiniteSet(DOMAIN node)
                BY <2>3, <3>1, FS_AddElement
            <4>2. Size(node) \in Nat
                BY <4>1, SizeIs
            <4>3. Size(node) <= Size(heap[p]) + 1
                BY <2>3, <3>1, OneMoreKey
            <4> QED
                BY <4>1, <4>2, <4>3
        <3>8. Size(node) <= MaxNodeSize + 1
            BY <2>3, <3>7 DEF Small
        <3>9. Small(carry.right) /\ Size(carry.right) <= MaxNodeSize + 1
            <4>1. Small(carry.right) /\ IsNode(carry.right, Len(heap))
                BY <2>5 DEF Sizes, IInv, TypeOK, IsCarry
            <4>2. Size(carry.right) \in Nat
                BY <4>1, SizeIs DEF IsNode
            <4> QED
                BY <2>3, <4>1, <4>2 DEF Small
        <3>10. \A a \in Addresses' : Small(heap'[a]) \/ a = at'
            BY <2>1, <3>4, <3>5, <3>6, <3>9, AllSmall DEF p, Addresses
        <3>11. Size(heap'[at']) <= MaxNodeSize + 1
            BY <2>1, <3>3, <3>5, <3>6, <3>8, <3>9 DEF p
        <3> QED
            BY <2>1, <3>10, <3>11, SizesFrom
    <2> QED
        BY <2>4, <2>5
<1> QED
    BY <1>1, <1>2, <1>3

LEMMA SizesStore ==
    ASSUME IInv, Sizes, NEW c \in Coroutines, StoreChild(c) \/ StoreNode(c)
    PROVE  Sizes'
<1>1. pc[c] = "store" /\ heap' = heap /\ carry' = carry
    BY DEF StoreChild, StoreNode, tree, frame
<1>2. Goto(c, "store") \/ Goto(c, "adding")
    BY <1>1 DEF StoreChild, StoreNode, Goto, IInv, TypeOK
<1> QED
    BY <1>1, <1>2, SizesStay

LEMMA SizesAnswer ==
    ASSUME IInv, Sizes, NEW c \in Coroutines, Answer(c)
    PROVE  Sizes'
<1>1. CASE Added(c) \/ StoreFailed(c)
    <2>1. /\ pc[c] \notin {"ready", "split"} /\ heap' = heap /\ carry' = carry
          /\ Goto(c, "pinning") \/ Goto(c, "ready")
        BY <1>1 DEF Added, StoreFailed, tree, frame
    <2> QED
        BY <2>1, SizesStay
<1>2. CASE Removed(c) \/ RemoveFailed(c)
    <2>1. /\ pc[c] = "removing" /\ heap' = heap /\ carry' = carry /\ Goto(c, job.next)
        BY <1>2 DEF Removed, RemoveFailed, tree, frame
    <2>2. job.next # "split"
        BY <2>1 DEF IInv, WriterResumes
    <2> QED
        BY <2>1, <2>2, SizesStay
<1>3. CASE Pinned(c)
    <2>1. pc[c] = "pinning" /\ carry' = carry
        BY <1>3 DEF Pinned
    <2>2. CASE stack = <<>>
        BY <1>3, <2>1, <2>2, SizesStay DEF Pinned
    <2>3. CASE stack # <<>>
        <3> DEFINE p    == Top(stack).node
                   i    == Top(stack).id
                   node == [heap[p] EXCEPT ![i] = Stored(@, job.hash)]
        <3>1. heap' = [heap EXCEPT ![p] = node] /\ Goto(c, "store")
            BY <1>3, <2>3 DEF Pinned
        <3>2. p \in Addresses
            BY <2>3, TopFrame DEF IInv, TypeOK
        <3>3. KeysOf(node) \subseteq KeysOf(heap[p])
            BY DEF KeysOf
        <3> HIDE DEF node, p
        <3>4. Small(node)
            BY <2>1, <3>2, <3>3, NodesFinite, AllSmall, SmallerIsSmall
        <3> QED
            BY <2>1, <3>1, <3>2, <3>4, SizesReplaced
    <2> QED
        BY <2>2, <2>3
<1> QED
    BY <1>1, <1>2, <1>3 DEF Answer

LEMMA SizesCall ==
    ASSUME IInv, Sizes, NEW c \in Coroutines, NEW k, NEW v, Call(c, k, v)
    PROVE  Sizes'
<1>1. heap' = heap /\ carry' = carry /\ at' = at /\ (Splitting' <=> Splitting)
    <2>1. CASE BufferInsert(c, k, v)
        BY <2>1 DEF BufferInsert, tree, frame, Splitting
    <2>2. CASE StartInsert(c, k, v)
        <3>1. /\ pc[c] = "ready" /\ Goto(c, "loop") /\ UNCHANGED <<tree, frame>>
            BY <2>2 DEF StartInsert
        <3>2. pc'[c] = "loop" /\ \A d \in Coroutines : d # c => pc'[d] = pc[d]
            BY <3>1 DEF Goto, IInv, TypeOK
        <3> QED
            BY <3>1, <3>2 DEF tree, frame, Splitting
    <2> QED
        BY <2>1, <2>2 DEF Call
<1> QED
    BY <1>1 DEF Sizes, Addresses

LEMMA NextSizes ==
    ASSUME IInv, Sizes, [Next]_vars
    PROVE  Sizes'
<1>1. CASE UNCHANGED vars
    <2>1. Splitting' <=> Splitting
        BY <1>1 DEF vars, Splitting
    <2> QED
        BY <1>1, <2>1 DEF vars, Sizes, Addresses
<1>2. ASSUME NEW c \in Coroutines, Step(c) PROVE Sizes'
    BY <1>2, SizesLoop, SizesDescend, SizesSplit, SizesReturn, SizesStore DEF Step
<1> QED
    BY <1>1, <1>2, SizesAnswer, SizesCall DEF Next

\* The assertion at the end of raw_insert (btree.cpp 556), for every node size: no
\* node is too big, all leaves are at the same depth and the keys are in order.
THEOREM InvariantsHold == Spec => []CheckInvariants
<1> DEFINE Inv == InvS /\ Sizes
<1>1. Init => Inv
    BY InitShape DEF Init, Sizes, Splitting, Addresses
<1>2. Inv /\ [Next]_vars => Inv'
    BY NextShape, NextSizes DEF InvS
<1>3. Inv => CheckInvariants
    <2> SUFFICES ASSUME InvS, Sizes, rootNode # Null,
                        NEW c \in Coroutines, pc[c] \in {"pick", "loop", "store"}
                 PROVE  /\ Cardinality(Depths[rootNode]) = 1
                        /\ \A a \in Addresses :
                            /\ Size(heap[a]) <= MaxNodeSize
                            /\ \A i \in DOMAIN heap[a] : heap[a][i].child # Null =>
                                \A k \in KeysUnder[heap[a][i].child] :
                                    Before(k, i) /\ \A j \in DOMAIN heap[a] :
                                                        Before(j, i) => Before(j, k)
        BY DEF CheckInvariants
    <2>1. IInv /\ Shape
        BY DEF InvS
    <2>2. carry = NoSplit /\ SplitNode = Null
        BY <2>1, WriterIs DEF Shape, Bound
    <2>3. Full = heap
        BY <2>2 DEF Full
    <2>4. PICK span, lvl : Shaped(span, lvl)
        BY <2>1 DEF Shape
    <2>5. Tree(heap, Len(heap), rootNode, span, lvl, Null, MidKey)
        BY <2>2, <2>3, <2>4 DEF Shaped
    <2>6. Cardinality(Depths[rootNode]) = 1
        <3>1. rootNode \in Addresses
            BY <2>5 DEF Tree, Ghosts, Addresses
        <3> QED
            <4>1. Depths[rootNode] = {lvl[rootNode] + 1}
                BY <2>5, <3>1, DepthsAre
            <4> QED
                BY <4>1, FS_Singleton
    <2>7. ASSUME NEW a \in Addresses, NEW i \in DOMAIN heap[a], heap[a][i].child # Null,
                 NEW k \in KeysUnder[heap[a][i].child]
          PROVE  Between(heap[a], i, k)
        <3> DEFINE b == heap[a][i].child
        <3>1. b \in Addresses
            BY <2>5, <2>7 DEF Tree, Levels, Addresses, Null
        <3>2. k \in span[b] /\ k \in Keys
            BY <2>1, <2>5, <3>1, KeysUnderAre DEF Tree, Ghosts, Addresses
        <3> QED
            BY <2>5, <2>7, <3>2 DEF Tree, SlotSpans, Addresses
    <2>8. \A a \in Addresses : Size(heap[a]) <= MaxNodeSize
        BY <2>1, AllSmall DEF Small
    <2> QED
        BY <2>6, <2>7, <2>8 DEF Between
<1> QED
    BY <1>1, <1>2, <1>3, PTL DEF Spec
==========================================================================
