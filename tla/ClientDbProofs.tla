-------------------------- MODULE ClientDbProofs --------------------------
(***************************************************************************)
(* The type invariant of ClientDb.tla, that a waiter is told of success    *)
(* only after the name was resolved, that every waiter is in exactly one   *)
(* place, and that a find answers from the database it began with, for any *)
(* databases, names and numbers of finds and waits.                        *)
(***************************************************************************)
EXTENDS ClientDb, BTreeNodeProofs, SequenceTheorems

--------------------------------------------------------------------------
\* Waiters are told in the order of their calls: what was told, what is posted
\* and what waits are the numbers of the calls, one after the other.
ToldCount == waits - Len(waiting) - Len(posted)

WaitersInOrder ==
    /\ ToldCount \in Nat
    /\ \A i \in 1..Len(posted) : posted[i].waiter = ToldCount + i
    /\ \A i \in 1..Len(waiting) : waiting[i].waiter = waits - Len(waiting) + i
    /\ \A n \in 1..ToldCount : \E p \in told : p.waiter = n
    /\ \A p \in told : p.waiter \in 1..ToldCount
    /\ \A p, q \in told : p.waiter = q.waiter => p = q

\* Nobody can join those who wait between the load and the flush.
SavingIsResolved ==
    phase = "saving" => \A i \in 1..Len(waiting) : waiting[i].resolved

OkAnswers ==
    \A p \in told \cup {posted[i] : i \in 1..Len(posted)} :
        p.result = "ok" => p.resolved

\* The tree is the database that is being saved.
SavingIsCurrent ==
    phase = "saving" => current # NoRoot /\ roots[current].hash = ipfs

\* The inductive invariant.  The types of the finds rest on nothing else; the
\* waiters need their order, and the answers what save_db runs between.
IInv == TypeOK /\ OkAnswers /\ WaitersInOrder /\ SavingIsResolved /\ SavingIsCurrent

waiters == <<waiting, posted, waits, told>>

LEMMA InitIInv == Init => IInv
<1> SUFFICES ASSUME Init PROVE IInv
    OBVIOUS
<1>1. AtRest \in At
    BY DEF AtRest, At, Ids, NoRoot
<1>2. TypeOK
    BY <1>1, RootsAssumption DEF Init, LookupInit, TypeOK, AtRest, NoRoot
<1> QED
    BY <1>2 DEF Init, IInv, OkAnswers, WaitersInOrder, SavingIsResolved, SavingIsCurrent, ToldCount

--------------------------------------------------------------------------
\* The waiters

LEMMA SameWaiters ==
    ASSUME IInv, UNCHANGED waiters
    PROVE  OkAnswers' /\ WaitersInOrder'
BY DEF IInv, waiters, OkAnswers, WaitersInOrder, ToldCount

\* flush_db_update_callbacks hands everybody over in order.
LEMMA FlushKeepsWaiters ==
    ASSUME IInv, NEW result \in {"ok", "aborted"}, Flushed(result),
           waits' = waits, told' = told,
           result = "ok" => \A i \in 1..Len(waiting) : waiting[i].resolved
    PROVE  /\ waiting' = <<>> /\ posted' \in Seq(Told)
           /\ OkAnswers' /\ WaitersInOrder'
<1> DEFINE W == [i \in 1..Len(waiting) |->
                    [waiter |-> waiting[i].waiter, resolved |-> waiting[i].resolved,
                     result |-> result]]
           n == Len(waiting)
           m == Len(posted)
<1>1. /\ waiting \in Seq([waiter : 1..waits, resolved : BOOLEAN]) /\ posted \in Seq(Told)
      /\ n \in Nat /\ m \in Nat /\ waits \in Nat
    BY DEF IInv, TypeOK
<1>2. \A i \in 1..n : waiting[i] \in [waiter : 1..waits, resolved : BOOLEAN]
    BY <1>1, ElementOfSeq
<1>3. W \in Seq(Told) /\ Len(W) = n
    <2>1. \A i \in 1..n : W[i] \in Told
        BY <1>2 DEF Told
    <2> QED
        BY <1>1, <2>1
<1>4. /\ waiting' = <<>> /\ Len(waiting') = 0
      /\ posted' \in Seq(Told) /\ Len(posted') = m + n
      /\ \A i \in 1..(m + n) : posted'[i] = IF i <= m THEN posted[i] ELSE W[i - m]
    <2>1. waiting' = <<>> /\ posted' = posted \o W
        BY DEF Flushed
    <2>2. m \in Nat /\ n \in Nat /\ m = Len(posted) /\ posted \in Seq(Told)
        BY <1>1
    <2> HIDE DEF W, n, m
    <2>3. /\ posted \o W \in Seq(Told) /\ Len(posted \o W) = m + n
          /\ \A i \in 1..(m + n) : (posted \o W)[i] = IF i <= m THEN posted[i] ELSE W[i - m]
        BY <1>3, <2>2, ConcatProperties
    <2> QED
        BY <2>1, <2>3
\* Everything that is posted now was posted before or waited.
<1>5. ASSUME NEW i \in 1..(m + n)
      PROVE  \/ i \in 1..m /\ posted'[i] = posted[i]
             \/ i - m \in 1..n /\ posted'[i] = W[i - m]
    <2>0. m \in Nat /\ n \in Nat
        BY <1>1
    <2> HIDE DEF W, n, m
    <2>1. i \in 1..m \/ (~(i <= m) /\ i - m \in 1..n)
        BY <2>0
    <2> QED
        BY <1>4, <2>0, <2>1
<1>6. OkAnswers'
    <2> SUFFICES ASSUME NEW p \in told' \cup {posted'[i] : i \in 1..Len(posted')},
                        p.result = "ok"
                 PROVE  p.resolved
        BY DEF OkAnswers
    <2>1. CASE p \in told
        BY <2>1 DEF IInv, OkAnswers
    <2>2. CASE \E i \in 1..m : p = posted[i]
        BY <2>2 DEF IInv, OkAnswers
    <2>3. CASE \E j \in 1..n : p = W[j]
        BY <2>3
    <2>4. p \in told \/ \E i \in 1..(m + n) : p = posted'[i]
        BY <1>4
    <2> QED
        BY <1>5, <2>1, <2>2, <2>3, <2>4
<1>7. WaitersInOrder'
    <2>1. ToldCount' = ToldCount /\ ToldCount \in Nat
        BY <1>1, <1>4 DEF IInv, WaitersInOrder, ToldCount
    <2>2. \A i \in 1..Len(posted') : posted'[i].waiter = ToldCount + i
        <3> SUFFICES ASSUME NEW i \in 1..(m + n)
                     PROVE  posted'[i].waiter = ToldCount + i
            BY <1>4
        <3>1. CASE i \in 1..m /\ posted'[i] = posted[i]
            BY <3>1 DEF IInv, WaitersInOrder
        <3>2. CASE i - m \in 1..n /\ posted'[i] = W[i - m]
            <4>1. waiting[i - m].waiter = waits - n + (i - m)
                BY <3>2 DEF IInv, WaitersInOrder
            <4>2. posted'[i].waiter = waiting[i - m].waiter
                BY <3>2
            <4>3. ToldCount = waits - n - m
                BY DEF ToldCount
            <4> QED
                BY <1>1, <4>1, <4>2, <4>3
        <3> QED
            BY <1>5, <3>1, <3>2
    <2> QED
        BY <1>4, <2>1, <2>2 DEF IInv, WaitersInOrder
<1> QED
    BY <1>4, <1>6, <1>7

LEMMA WaitStep ==
    ASSUME IInv, WaitForDbUpdate
    PROVE  IInv'
<1> DEFINE e == [waiter |-> waits', resolved |-> FALSE]
           n == Len(waiting)
<1>1. /\ waiting \in Seq([waiter : 1..waits, resolved : BOOLEAN]) /\ posted \in Seq(Told)
      /\ n \in Nat /\ Len(posted) \in Nat /\ waits \in Nat /\ waits' = waits + 1
      /\ waiting' = Append(waiting, e)
      /\ UNCHANGED <<lookup, ipns, ipfs, file, phase, posted, told>> /\ phase # "saving"
    BY DEF WaitForDbUpdate, IInv, TypeOK
<1>2. 1..waits \subseteq 1..waits'
    BY <1>1
<1>3. Told \subseteq Told'
    BY <1>2 DEF Told
<1>4. /\ waiting' \in Seq([waiter : 1..waits', resolved : BOOLEAN])
      /\ Len(waiting') = n + 1
      /\ \A i \in 1..(n + 1) : waiting'[i] = IF i <= n THEN waiting[i] ELSE e
    <2>1. e \in [waiter : 1..waits', resolved : BOOLEAN]
        BY <1>1
    <2>2. waiting \in Seq([waiter : 1..waits', resolved : BOOLEAN])
        <3> DEFINE S == [waiter : 1..waits, resolved : BOOLEAN]
                   T == [waiter : 1..waits', resolved : BOOLEAN]
        <3>1. S \subseteq T /\ waiting \in Seq(S)
            BY <1>1, <1>2
        <3> HIDE DEF S, T
        <3>2. waiting \in Seq(T)
            BY <3>1, SeqMonotonic
        <3> USE DEF T
        <3> QED
            BY <3>2
    <2> HIDE DEF e
    <2> QED
        BY <1>1, <2>1, <2>2
<1>5. posted' \in Seq(Told') /\ told' \subseteq Told'
    BY <1>1, <1>3 DEF IInv, TypeOK
<1>6. TypeOK'
    BY <1>1, <1>4, <1>5 DEF IInv, TypeOK, lookup
<1>7. WaitersInOrder'
    <2>1. ToldCount' = ToldCount
        BY <1>1, <1>4 DEF ToldCount
    <2>2. \A i \in 1..Len(waiting') : waiting'[i].waiter = waits' - Len(waiting') + i
        <3> SUFFICES ASSUME NEW i \in 1..(n + 1)
                     PROVE  waiting'[i].waiter = waits - n + i
            BY <1>1, <1>4
        <3>1. CASE i \in 1..n
            BY <1>1, <1>4, <3>1 DEF IInv, WaitersInOrder
        <3>2. CASE i = n + 1
            BY <1>1, <1>4, <3>2
        <3> QED
            BY <1>1, <3>1, <3>2
    <2> QED
        BY <1>1, <2>1, <2>2 DEF IInv, WaitersInOrder
<1> QED
    BY <1>1, <1>6, <1>7 DEF IInv, OkAnswers, SavingIsResolved, SavingIsCurrent

LEMMA RunPostedStep ==
    ASSUME IInv, RunPosted
    PROVE  IInv'
<1> DEFINE h == Head(posted)
           m == Len(posted)
<1>1. /\ posted \in Seq(Told) /\ m \in Nat /\ m > 0 /\ posted # <<>>
      /\ waits \in Nat /\ Len(waiting) \in Nat
      /\ posted' = Tail(posted) /\ told' = told \cup {h}
      /\ UNCHANGED <<lookup, ipns, ipfs, file, phase, waiting, waits>>
    BY DEF RunPosted, IInv, TypeOK
<1>2. /\ h = posted[1] /\ h \in Told
      /\ posted' \in Seq(Told) /\ Len(posted') = m - 1
      /\ \A i \in 1..(m - 1) : posted'[i] = posted[i + 1]
    BY <1>1
<1>3. TypeOK'
    BY <1>1, <1>2 DEF IInv, TypeOK, Told, lookup
<1>4. OkAnswers'
    <2>1. \A i \in 1..Len(posted') : \E j \in 1..m : posted'[i] = posted[j]
        BY <1>1, <1>2
    <2>2. 1 \in 1..m
        BY <1>1
    <2> QED
        BY <1>1, <1>2, <2>1, <2>2 DEF IInv, OkAnswers
<1>5. WaitersInOrder'
    <2>1. ToldCount' = ToldCount + 1 /\ ToldCount \in Nat
        BY <1>1, <1>2 DEF IInv, WaitersInOrder, ToldCount
    <2>2. h.waiter = ToldCount + 1
        BY <1>1, <1>2 DEF IInv, WaitersInOrder
    <2>3. \A i \in 1..Len(posted') : posted'[i].waiter = ToldCount' + i
        <3> SUFFICES ASSUME NEW i \in 1..(m - 1)
                     PROVE  posted'[i].waiter = ToldCount' + i
            BY <1>2
        <3>1. i + 1 \in 1..m
            BY <1>1
        <3>2. posted[i + 1].waiter = ToldCount + (i + 1)
            BY <3>1 DEF IInv, WaitersInOrder
        <3> QED
            BY <1>2, <2>1, <3>2
    <2>4. \A n \in 1..ToldCount' : \E p \in told' : p.waiter = n
        <3> SUFFICES ASSUME NEW n \in 1..(ToldCount + 1)
                     PROVE  \E p \in told' : p.waiter = n
            BY <2>1
        <3>1. CASE n = ToldCount + 1
            BY <1>1, <2>2, <3>1
        <3>2. CASE n \in 1..ToldCount
            BY <1>1, <3>2 DEF IInv, WaitersInOrder
        <3> QED
            BY <2>1, <3>1, <3>2
    <2>5. \A p \in told' : p.waiter \in 1..ToldCount'
        BY <1>1, <2>1, <2>2 DEF IInv, WaitersInOrder
    <2>6. \A p, q \in told' : p.waiter = q.waiter => p = q
        <3>1. \A p \in told : p.waiter # ToldCount + 1
            BY <2>1 DEF IInv, WaitersInOrder
        <3> QED
            BY <1>1, <2>2, <3>1 DEF IInv, WaitersInOrder
    <2> QED
        BY <1>1, <2>1, <2>3, <2>4, <2>5, <2>6 DEF IInv, WaitersInOrder
<1> QED
    BY <1>1, <1>3, <1>4, <1>5 DEF IInv, SavingIsResolved, SavingIsCurrent, lookup

--------------------------------------------------------------------------
\* The tree

RootType == [hash : Hashes, nodes : UNION {[S -> BOOLEAN] : S \in SUBSET Hashes}]

\* BTree::load
LEMMA LoadKeepsTypes ==
    ASSUME IInv, NEW h \in Hashes, Load(h)
    PROVE  /\ roots' \in Seq(RootType)
           /\ Len(roots') >= Len(roots)
           /\ current' \in 0..Len(roots')
<1>1. roots \in Seq(RootType) /\ Len(roots) \in Nat /\ current \in 0..Len(roots)
    BY DEF IInv, TypeOK, RootType
<1>2. CASE current # NoRoot /\ roots[current].hash = h
    BY <1>1, <1>2 DEF Load
<1>3. CASE ~(current # NoRoot /\ roots[current].hash = h)
    <2> DEFINE r == [hash |-> h, nodes |-> EmptyMap]
    <2>1. roots' = Append(roots, r) /\ current' = Len(roots')
        BY <1>3 DEF Load, WithRoot
    <2>2. r \in RootType
        <3>1. EmptyMap \in [{} -> BOOLEAN]
            BY DEF EmptyMap
        <3>2. [{} -> BOOLEAN] \in {[S -> BOOLEAN] : S \in SUBSET Hashes}
            OBVIOUS
        <3> QED
            BY <3>1, <3>2 DEF RootType
    <2> HIDE DEF r
    <2> QED
        BY <1>1, <2>1, <2>2
<1> QED
    BY <1>2, <1>3

\* A find that is started, goes on, waits or ends
LEMMA FinderTypes ==
    ASSUME TypeOK, NEW f \in Finders, NEW e \in At,
           e.pc \in {"walking", "fetching"} => e.root \in 1..Len(roots) /\ e.slot \in Hashes
    PROVE  /\ [finder EXCEPT ![f] = e] \in [Finders -> At]
           /\ \A g \in Finders :
                [finder EXCEPT ![f] = e][g].pc \in {"walking", "fetching"} =>
                    /\ [finder EXCEPT ![f] = e][g].root \in 1..Len(roots)
                    /\ [finder EXCEPT ![f] = e][g].slot \in Hashes
BY DEF TypeOK

LEMMA AnsweredTypes ==
    ASSUME NEW v \in Values \cup {NoValue},
           NEW p \in {"rest", "found", "not_found", "error"}
    PROVE  [AtRest EXCEPT !.pc = p, !.answer = v] \in At
BY DEF AtRest, At, Ids, NoRoot

\* What a step of the finds leaves alone, and what it keeps of the tree
TreeStep ==
    /\ UNCHANGED <<ipns, ipfs, file, phase, waiting, posted, waits, told>>
    /\ roots' \in Seq(RootType) /\ current' \in 0..Len(roots')
    /\ finder' \in [Finders -> At]
    /\ \A f \in Finders : finder'[f].pc \in {"walking", "fetching"} =>
        finder'[f].root \in 1..Len(roots') /\ finder'[f].slot \in Hashes

LEMMA TreeStepKeeps ==
    ASSUME IInv, TreeStep, phase # "saving"
    PROVE  IInv'
<1>1. TypeOK'
    BY DEF IInv, TypeOK, TreeStep, RootType, Told
<1>2. UNCHANGED waiters /\ phase' = phase
    BY DEF TreeStep, waiters
<1> QED
    BY <1>1, <1>2, SameWaiters DEF IInv, SavingIsResolved, SavingIsCurrent, waiters

LEMMA AnsweredStep ==
    ASSUME IInv, NEW f \in Finders, NEW v \in Values \cup {NoValue},
           NEW p \in {"rest", "found", "not_found", "error"}, Answered(f, p, v),
           UNCHANGED <<roots, current, ipns, ipfs, file, phase, waiting, posted, waits, told>>
    PROVE  TreeStep
<1> DEFINE e == [AtRest EXCEPT !.pc = p, !.answer = v]
<1>1. e \in At /\ e.pc \notin {"walking", "fetching"}
    BY AnsweredTypes DEF AtRest
<1>2. finder' = [finder EXCEPT ![f] = e]
    BY DEF Answered
<1> HIDE DEF e
<1> QED
    BY <1>1, <1>2, FinderTypes DEF IInv, TypeOK, TreeStep, RootType

\* ClientDb::query
LEMMA GetContentStep ==
    ASSUME IInv, NEW f \in Finders, NEW k \in Keys, GetContent(f, k)
    PROVE  TreeStep
<1>1. UNCHANGED <<roots, current, ipns, ipfs, file, phase, waiting, posted, waits, told>>
    BY DEF GetContent, Find
<1>2. CASE current = NoRoot
    BY <1>1, <1>2, AnsweredStep DEF GetContent, Find
<1>3. CASE current # NoRoot
    <2> DEFINE e == [pc |-> "walking", key |-> k, root |-> current,
                     slot |-> roots[current].hash, answer |-> NoValue]
    <2>1. current \in 1..Len(roots) /\ roots \in Seq(RootType)
        BY <1>3 DEF IInv, TypeOK, NoRoot, RootType
    <2>2. roots[current].hash \in Hashes
        <3>1. roots[current] \in RootType
            BY <2>1, ElementOfSeq
        <3> QED
            BY <3>1 DEF RootType
    <2>3. e \in At /\ e.root \in 1..Len(roots) /\ e.slot \in Hashes
        BY <2>1, <2>2 DEF At, Ids
    <2>4. finder' = [finder EXCEPT ![f] = e]
        BY <1>3 DEF GetContent, Find
    <2> HIDE DEF e
    <2> QED
        BY <1>1, <2>3, <2>4, FinderTypes DEF IInv, TypeOK, TreeStep, RootType
<1> QED
    BY <1>2, <1>3

LEMMA NodesWithType ==
    ASSUME NEW r \in Nat, IInv, r \in 1..Len(roots), NEW S \in SUBSET Hashes,
           NEW nodes \in [S -> BOOLEAN], roots' = [roots EXCEPT ![r].nodes = nodes],
           UNCHANGED current
    PROVE  roots' \in Seq(RootType) /\ Len(roots') = Len(roots) /\ current' \in 0..Len(roots')
<1> DEFINE e == [roots[r] EXCEPT !.nodes = nodes]
<1>1. roots \in Seq(RootType) /\ current \in 0..Len(roots)
    BY DEF IInv, TypeOK, RootType
<1>2. e \in RootType
    <2>1. roots[r] \in RootType
        BY <1>1, ElementOfSeq
    <2>2. nodes \in UNION {[T -> BOOLEAN] : T \in SUBSET Hashes}
        OBVIOUS
    <2> QED
        BY <2>1, <2>2 DEF RootType
<1>3. roots' = [roots EXCEPT ![r] = e]
    OBVIOUS
<1> HIDE DEF e
<1> QED
    BY <1>1, <1>2, <1>3, ExceptSeq

\* The nodes of a root that a find has reached
LEMMA NodesOf ==
    ASSUME IInv, NEW r \in 1..Len(roots)
    PROVE  /\ roots[r].hash \in Hashes
           /\ \E S \in SUBSET Hashes : roots[r].nodes \in [S -> BOOLEAN]
<1>1. roots \in Seq(RootType)
    BY DEF IInv, TypeOK, RootType
<1>2. roots[r] \in RootType
    BY <1>1, ElementOfSeq
<1> QED
    BY <1>2 DEF RootType

LEMMA FetchStep ==
    ASSUME IInv, NEW f \in Finders, Fetch(f),
           UNCHANGED <<ipns, ipfs, file, phase, waiting, posted, waits, told>>
    PROVE  TreeStep
<1> DEFINE r == finder[f].root
           h == finder[f].slot
<1>1. r \in 1..Len(roots) /\ h \in Hashes /\ finder[f] \in At /\ Len(roots) \in Nat
    BY DEF IInv, TypeOK, Fetch, Walking
<1>2. PICK S \in SUBSET Hashes : roots[r].nodes \in [S -> BOOLEAN]
    BY <1>1, NodesOf
<1> DEFINE nodes == WithNew(roots[r].nodes, h, FALSE)
<1>3. nodes \in [S \cup {h} -> BOOLEAN] /\ S \cup {h} \in SUBSET Hashes
    BY <1>1, <1>2 DEF WithNew
<1>4. roots' = [roots EXCEPT ![r].nodes = nodes] /\ UNCHANGED current
    BY DEF Fetch
<1>5. /\ roots' \in Seq(RootType) /\ Len(roots') = Len(roots)
      /\ current' \in 0..Len(roots')
    <2> HIDE DEF nodes, r, h
    <2>1. r \in Nat
        BY <1>1
    <2> QED
        BY <1>1, <1>3, <1>4, <2>1, NodesWithType
<1> DEFINE e == [finder[f] EXCEPT !.pc = "fetching"]
<1>6. e \in At /\ e.root \in 1..Len(roots) /\ e.slot \in Hashes
    BY <1>1 DEF At
<1>7. finder' = [finder EXCEPT ![f] = e]
    BY DEF Fetch
<1> HIDE DEF e
<1> QED
    BY <1>5, <1>6, <1>7, FinderTypes DEF IInv, TypeOK, TreeStep

LEMMA RestoredStep ==
    ASSUME IInv, NEW f \in Finders, Restored(f),
           UNCHANGED <<ipns, ipfs, file, phase, waiting, posted, waits, told>>
    PROVE  TreeStep
<1> DEFINE r == finder[f].root
           h == finder[f].slot
<1>1. r \in 1..Len(roots) /\ h \in Hashes /\ finder[f] \in At /\ Len(roots) \in Nat
    BY DEF IInv, TypeOK, Restored
<1>2. PICK S \in SUBSET Hashes : roots[r].nodes \in [S -> BOOLEAN]
    BY <1>1, NodesOf
<1> DEFINE nodes == Filled(roots[r].nodes, h)
<1>3. nodes \in [S -> BOOLEAN]
    BY <1>2 DEF Filled
<1>4. roots' = [roots EXCEPT ![r].nodes = nodes] /\ UNCHANGED current
    BY DEF Restored
<1>5. /\ roots' \in Seq(RootType) /\ Len(roots') = Len(roots)
      /\ current' \in 0..Len(roots')
    <2> HIDE DEF nodes, r, h
    <2>1. r \in Nat
        BY <1>1
    <2> QED
        BY <1>1, <1>3, <1>4, <2>1, NodesWithType
<1> DEFINE e == [finder[f] EXCEPT !.pc = "walking"]
<1>6. e \in At /\ e.root \in 1..Len(roots) /\ e.slot \in Hashes
    BY <1>1 DEF At
<1>7. finder' = [finder EXCEPT ![f] = e]
    BY DEF Restored
<1> HIDE DEF e
<1> QED
    BY <1>5, <1>6, <1>7, FinderTypes DEF IInv, TypeOK, TreeStep

\* Node::find goes down only through ids that the node has.
LEMMA SearchStep ==
    ASSUME IInv, NEW f \in Finders, Search(f),
           UNCHANGED <<ipns, ipfs, file, phase, waiting, posted, waits, told>>
    PROVE  TreeStep
<1> DEFINE k    == finder[f].key
           h    == finder[f].slot
           node == NodeAt(finder[f].root, h)
           i    == LowerBound(node, k)
<1>1. /\ finder[f].root \in 1..Len(roots) /\ h \in Hashes /\ finder[f] \in At
      /\ k \in Ids
    BY DEF IInv, TypeOK, Search, Walking, At
<1>2. /\ UNCHANGED <<roots, current>>
      /\ IF AtOrAfter(node, k) = {} THEN Answered(f, "not_found", NoValue)
         ELSE IF i = k THEN Answered(f, "found", node[i].value)
         ELSE IF Child(node, i) = NoHash THEN Answered(f, "not_found", NoValue)
         ELSE finder' = [finder EXCEPT ![f].slot = Child(node, i)]
    BY DEF Search
<1>3. CASE AtOrAfter(node, k) = {}
    BY <1>2, <1>3, AnsweredStep
<1>4. CASE AtOrAfter(node, k) # {}
    <2>1. node = Text[h]
        BY <1>4 DEF NodeAt, AtOrAfter, EmptyMap
    <2>2. /\ IsFiniteSet(DOMAIN Text[h]) /\ DOMAIN Text[h] \subseteq Ids
          /\ \A j \in DOMAIN Text[h] :
                /\ Text[h][j].value \in Values \cup {NoValue}
                /\ Text[h][j].child \in Hashes \cup {NoHash}
        BY <1>1, TextAssumption DEF Hashes
    <2>3. i \in DOMAIN Text[h]
        <3> HIDE DEF node
        <3>1. AtOrAfter(node, k) \subseteq DOMAIN node
            BY DEF AtOrAfter
        <3>2. IsFiniteSet(AtOrAfter(node, k)) /\ AtOrAfter(node, k) \subseteq Ids
            BY <2>1, <2>2, <3>1, FS_Subset
        <3> QED
            BY <1>4, <2>1, <3>1, <3>2, FirstIsFirst DEF LowerBound
    <2>4. CASE i = k
        BY <1>2, <1>4, <2>1, <2>2, <2>3, <2>4, AnsweredStep
    <2>5. CASE i # k /\ Child(node, i) = NoHash
        BY <1>2, <1>4, <2>5, AnsweredStep
    <2>6. CASE i # k /\ Child(node, i) # NoHash
        <3> DEFINE e == [finder[f] EXCEPT !.slot = Child(node, i)]
        <3>1. Child(node, i) \in Hashes
            BY <2>1, <2>2, <2>3, <2>6 DEF Child
        <3>2. e \in At /\ e.root \in 1..Len(roots) /\ e.slot \in Hashes
            BY <1>1, <3>1 DEF At
        <3>3. finder' = [finder EXCEPT ![f] = e]
            BY <1>2, <1>4, <2>6
        <3> HIDE DEF e
        <3> QED
            BY <1>2, <3>2, <3>3, FinderTypes DEF IInv, TypeOK, TreeStep, RootType
    <2> QED
        BY <2>4, <2>5, <2>6
<1> QED
    BY <1>3, <1>4

LEMMA GetStep ==
    ASSUME IInv, NEW f \in Finders, Get(f)
    PROVE  TreeStep
<1>1. ASSUME Lookup(f)
      PROVE  TreeStep
    <2>1. UNCHANGED <<ipns, ipfs, file, phase, waiting, posted, waits, told>> /\ FindStep(f)
        BY <1>1 DEF Lookup
    <2>2. CASE RestoreFailed(f)
        BY <2>1, <2>2, AnsweredStep DEF RestoreFailed
    <2> QED
        BY <2>1, <2>2, FetchStep, SearchStep, RestoredStep DEF FindStep
<1>2. ASSUME NEW result \in {"rest", "error"}, Content(f, result)
      PROVE  TreeStep
    BY <1>2, AnsweredStep DEF Content
<1> QED
    BY <1>1, <1>2 DEF Get

--------------------------------------------------------------------------
\* The download loop

LEMMA ResolvedStep ==
    ASSUME IInv, NEW id \in RootsOf[ipns], Resolved(id)
    PROVE  IInv'
<1>1. id \in Hashes
    BY RootsAssumption DEF IInv, TypeOK, Hashes
<1>2. /\ roots' \in Seq(RootType) /\ Len(roots') >= Len(roots)
      /\ current' \in 0..Len(roots')
    BY <1>1, LoadKeepsTypes DEF Resolved
<1>3. /\ waiting \in Seq([waiter : 1..waits, resolved : BOOLEAN])
      /\ Len(waiting) \in Nat /\ Len(roots) \in Nat /\ Len(roots') \in Nat
    BY <1>2 DEF IInv, TypeOK
<1> DEFINE n == Len(waiting)
<1>4. /\ waiting' \in Seq([waiter : 1..waits, resolved : BOOLEAN]) /\ Len(waiting') = n
      /\ \A i \in 1..n : waiting'[i].waiter = waiting[i].waiter /\ waiting'[i].resolved
    <2>1. waiting' = [i \in 1..n |-> [waiting[i] EXCEPT !.resolved = TRUE]]
        BY <1>3 DEF Resolved
    <2>2. \A i \in 1..n : waiting[i] \in [waiter : 1..waits, resolved : BOOLEAN]
        BY <1>3, ElementOfSeq
    <2>3. \A i \in 1..n :
              /\ [waiting[i] EXCEPT !.resolved = TRUE] \in [waiter : 1..waits, resolved : BOOLEAN]
              /\ [waiting[i] EXCEPT !.resolved = TRUE].waiter = waiting[i].waiter
              /\ [waiting[i] EXCEPT !.resolved = TRUE].resolved
        BY <2>2
    <2> DEFINE T == [waiter : 1..waits, resolved : BOOLEAN]
               e(i) == [waiting[i] EXCEPT !.resolved = TRUE]
    <2>4. \A i \in 1..n : e(i) \in T /\ e(i).waiter = waiting[i].waiter /\ e(i).resolved
        BY <2>3
    <2>5. waiting' = [i \in 1..n |-> e(i)] /\ n \in Nat
        BY <1>3, <2>1
    <2> HIDE DEF T, e, n
    <2>6. waiting' \in Seq(T) /\ Len(waiting') = n
        BY <2>4, <2>5
    <2> USE DEF T
    <2> QED
        BY <2>4, <2>5, <2>6
<1>5. TypeOK'
    <2>1. file' \in [Names -> DOMAIN Text \cup {NoId}] /\ ipfs' \in DOMAIN Text \cup {NoId}
        BY <1>1 DEF Resolved, IInv, TypeOK, Hashes
    <2>2. \A f \in Finders : finder[f].pc \in {"walking", "fetching"} =>
              finder[f].root \in 1..Len(roots') /\ finder[f].slot \in Hashes
        BY <1>2, <1>3 DEF IInv, TypeOK
    <2> QED
        BY <1>2, <1>4, <2>1, <2>2 DEF Resolved, IInv, TypeOK, RootType, Told
<1>6. OkAnswers' /\ SavingIsResolved'
    BY <1>4 DEF Resolved, IInv, OkAnswers, SavingIsResolved
<1>8. SavingIsCurrent'
    <2>1. ipfs' = id /\ Load(id)
        BY DEF Resolved
    <2>2. Len(roots) \in Nat /\ roots \in Seq(RootType)
        BY <1>3 DEF IInv, TypeOK, RootType
    <2>3. CASE current # NoRoot /\ roots[current].hash = id
        BY <2>1, <2>3 DEF Load, SavingIsCurrent
    <2>4. CASE ~(current # NoRoot /\ roots[current].hash = id)
        <3> DEFINE r == [hash |-> id, nodes |-> EmptyMap]
        <3>1. roots' = Append(roots, r) /\ current' = Len(roots')
            BY <2>1, <2>4 DEF Load, WithRoot
        <3>2. Len(roots') = Len(roots) + 1 /\ roots'[Len(roots) + 1] = r
            BY <2>2, <3>1
        <3> QED
            BY <2>1, <2>2, <3>1, <3>2 DEF SavingIsCurrent, NoRoot
    <2> QED
        BY <2>3, <2>4
<1>7. WaitersInOrder'
    <2>1. ToldCount' = ToldCount
        BY <1>4 DEF Resolved, ToldCount
    <2>2. UNCHANGED <<posted, waits, told>>
        BY DEF Resolved
    <2> QED
        BY <1>4, <2>1, <2>2 DEF IInv, WaitersInOrder
<1> QED
    BY <1>5, <1>6, <1>7, <1>8 DEF IInv

LEMMA SavedStep ==
    ASSUME IInv, Saved
    PROVE  IInv'
<1>1. \A i \in 1..Len(waiting) : waiting[i].resolved
    BY DEF Saved, IInv, SavingIsResolved, SavingIsCurrent
<1>2. /\ waiting' = <<>> /\ posted' \in Seq(Told)
      /\ OkAnswers' /\ WaitersInOrder'
    BY <1>1, FlushKeepsWaiters DEF Saved
<1>3. TypeOK'
    BY <1>2 DEF Saved, IInv, TypeOK, lookup, Told
<1> QED
    BY <1>2, <1>3 DEF IInv, Saved, SavingIsResolved, SavingIsCurrent

\* The destructor aborts the finds that wait.
LEMMA SetIpnsStep ==
    ASSUME IInv, NEW name \in Names, SetIpns(name)
    PROVE  IInv'
<1>1. /\ waiting' = <<>> /\ posted' \in Seq(Told)
      /\ OkAnswers' /\ WaitersInOrder'
    BY FlushKeepsWaiters DEF SetIpns, AsAborted
<1>2. \A f \in Finders : Ended(finder[f]) \in At /\ Ended(finder[f]).pc \notin {"walking", "fetching"}
    <2> SUFFICES ASSUME NEW f \in Finders
                 PROVE  /\ Ended(finder[f]) \in At
                        /\ Ended(finder[f]).pc \notin {"walking", "fetching"}
        OBVIOUS
    <2>1. finder[f] \in At /\ finder[f].pc # "walking"
        BY DEF IInv, TypeOK, SetIpns, Quiet, Walking
    <2> QED
        BY <2>1 DEF Ended, At, AtRest, NoRoot, Ids
<1>3. TypeOK'
    <2>1. roots' \in Seq(RootType) /\ current' \in 0..Len(roots')
        BY DEF SetIpns, StartWith, NoRoot
    <2>2. finder' \in [Finders -> At]
        BY <1>2 DEF SetIpns
    <2>3. \A f \in Finders : finder'[f].pc \notin {"walking", "fetching"}
        BY <1>2 DEF SetIpns
    <2> QED
        BY <1>1, <2>1, <2>2, <2>3 DEF SetIpns, StartWith, IInv, TypeOK, Told, RootType
<1> QED
    BY <1>1, <1>3 DEF IInv, SavingIsResolved, SavingIsCurrent, SetIpns, StartWith

LEMMA RestartStep ==
    ASSUME IInv, NEW name \in Names, Restart(name)
    PROVE  IInv'
<1>1. AtRest \in At
    BY DEF AtRest, At, Ids, NoRoot
<1>2. TypeOK'
    BY <1>1 DEF Restart, StartWith, IInv, TypeOK, AtRest, NoRoot
<1> QED
    BY <1>2 DEF Restart, StartWith, IInv, OkAnswers, WaitersInOrder, SavingIsResolved, SavingIsCurrent,
                ToldCount

LEMMA NextIInv == IInv /\ [Next]_vars => IInv'
<1> SUFFICES ASSUME IInv, [Next]_vars PROVE IInv'
    OBVIOUS
<1>1. ASSUME LoadDb
      PROVE  IInv'
    <2>1. CASE file[ipns] = NoId
        BY <1>1, <2>1, SameWaiters
        DEF LoadDb, IInv, TypeOK, waiters, SavingIsResolved, SavingIsCurrent, Told
    <2>2. CASE file[ipns] # NoId
        <3>1. file[ipns] \in Hashes /\ Load(file[ipns])
            BY <1>1, <2>2 DEF LoadDb, IInv, TypeOK, Hashes
        <3>2. /\ roots' \in Seq(RootType) /\ Len(roots') >= Len(roots)
              /\ current' \in 0..Len(roots')
            BY <3>1, LoadKeepsTypes
        <3>3. Len(roots) \in Nat /\ Len(roots') \in Nat
            BY <3>2 DEF IInv, TypeOK
        <3>4. TypeOK'
            BY <1>1, <3>2, <3>3 DEF LoadDb, IInv, TypeOK, RootType, Told
        <3> QED
            BY <1>1, <3>4, SameWaiters DEF LoadDb, IInv, waiters, SavingIsResolved, SavingIsCurrent
    <2> QED
        BY <2>1, <2>2
<1>2. ASSUME ResolveFailed \/ Wake
      PROVE  IInv'
    BY <1>2, SameWaiters
    DEF ResolveFailed, Wake, lookup, IInv, TypeOK, waiters, SavingIsResolved, SavingIsCurrent, Told
<1>3. ASSUME UNCHANGED vars
      PROVE  IInv'
    BY <1>3, SameWaiters DEF vars, lookup, IInv, TypeOK, waiters, SavingIsResolved, SavingIsCurrent, Told
<1>4. ASSUME NEW f \in Finders, Get(f) \/ \E k \in Keys : GetContent(f, k)
      PROVE  IInv'
    <2>1. phase # "saving"
        BY <1>4 DEF Get, Lookup, Content, GetContent
    <2> QED
        BY <1>4, <2>1, GetStep, GetContentStep, TreeStepKeeps
<1> QED
    BY <1>1, <1>2, <1>3, <1>4, ResolvedStep, SavedStep, WaitStep, RunPostedStep, SetIpnsStep,
       RestartStep DEF Next

\* The inductive invariant of ClientDb.tla
THEOREM Invariance == Spec => []IInv
BY InitIInv, NextIInv, PTL DEF Spec

\* Every state of the downloads, waiters and finds has the shape the code gives
\* it (db.cpp 150-275).
THEOREM TypeCorrect == Spec => []TypeOK
BY Invariance, PTL DEF IInv

\* A wait_for_db_update that succeeds was followed by a resolve that succeeded,
\* and is answered while the tree is the database of that resolve, loaded then or
\* before (db.cpp 208-225, btree.cpp 607): nobody begins to wait in between.
THEOREM OkAfterResolve == Spec => []OkMeansResolved
<1>1. IInv => OkMeansResolved
    BY DEF IInv, OkAnswers, SavingIsCurrent, OkMeansResolved
<1> QED
    BY <1>1, Invariance, PTL

\* No call of wait_for_db_update is lost, none is told twice, whatever calls of
\* set_ipns come between (db.cpp 222-275).
THEOREM WaitersOnce == Spec => []EachWaiterOnce
<1>1. ASSUME IInv PROVE EachWaiterOnce
    <2> SUFFICES ASSUME NEW n \in 1..waits
                 PROVE  1 = Cardinality({i \in 1..Len(waiting) : waiting[i].waiter = n})
                          + Cardinality({i \in 1..Len(posted) : posted[i].waiter = n})
                          + Cardinality({p \in told : p.waiter = n})
        BY DEF EachWaiterOnce
    <2> DEFINE W == {i \in 1..Len(waiting) : waiting[i].waiter = n}
               P == {i \in 1..Len(posted) : posted[i].waiter = n}
               T == {p \in told : p.waiter = n}
               t == ToldCount
    <2>1. /\ Len(waiting) \in Nat /\ Len(posted) \in Nat /\ waits \in Nat /\ t \in Nat
          /\ waits = t + Len(posted) + Len(waiting)
        BY <1>1 DEF IInv, TypeOK, WaitersInOrder, ToldCount
    <2>2. /\ W = {i \in 1..Len(waiting) : t + Len(posted) + i = n}
          /\ P = {i \in 1..Len(posted) : t + i = n}
        BY <1>1, <2>1 DEF IInv, WaitersInOrder
    <2>3. T = {} <=> n \notin 1..t
        BY <1>1 DEF IInv, WaitersInOrder
    <2>4. \A p, q \in T : p = q
        BY <1>1 DEF IInv, WaitersInOrder
    <2> HIDE DEF W, P, T, t
    <2>5. CASE n \in 1..t
        <3>1. W = {} /\ P = {}
            BY <2>1, <2>2, <2>5
        <3>2. PICK p : T = {p}
            BY <2>3, <2>4, <2>5
        <3>3. Cardinality(W) = 0 /\ Cardinality(P) = 0 /\ Cardinality(T) = 1
            BY <3>1, <3>2, FS_Singleton, FS_EmptySet
        <3> QED
            BY <3>3 DEF W, P, T
    <2>6. CASE n \in (t + 1)..(t + Len(posted))
        <3>1. W = {} /\ P = {n - t} /\ T = {}
            BY <2>1, <2>2, <2>3, <2>6
        <3>2. Cardinality(W) = 0 /\ Cardinality(P) = 1 /\ Cardinality(T) = 0
            BY <3>1, FS_Singleton, FS_EmptySet
        <3> QED
            BY <3>2 DEF W, P, T
    <2>7. CASE n \in (t + Len(posted) + 1)..waits
        <3>1. W = {n - t - Len(posted)} /\ P = {} /\ T = {}
            BY <2>1, <2>2, <2>3, <2>7
        <3>2. Cardinality(W) = 1 /\ Cardinality(P) = 0 /\ Cardinality(T) = 0
            BY <3>1, FS_Singleton, FS_EmptySet
        <3> QED
            BY <3>2 DEF W, P, T
    <2> QED
        BY <2>1, <2>5, <2>6, <2>7
<1> QED
    BY <1>1, Invariance, PTL


--------------------------------------------------------------------------
\* The stored trees

\* Text is closed: a hash that a stored node holds leads to a stored node.
LEMMA ChildrenAreStored ==
    ASSUME NEW h \in Hashes
    PROVE  Children(h) \subseteq Hashes
BY TextAssumption DEF Children, Hashes

\* A node leads to itself, and to the children of whatever it leads to.
LEMMA UnderIsClosed ==
    ASSUME NEW h \in Hashes
    PROVE  /\ h \in Under(h) /\ Under(h) \subseteq Hashes
           /\ \A x \in Under(h) : Children(x) \subseteq Under(h)
<1>1. h \in Under(h) /\ Under(h) \subseteq Hashes
    BY DEF Under, Hashes
<1>2. ASSUME NEW x \in Under(h), NEW g \in Children(x)
      PROVE  g \in Under(h)
    <2>1. g \in Hashes
        BY <1>1, <1>2, ChildrenAreStored
    <2>2. ASSUME NEW S \in SUBSET DOMAIN Text, h \in S, \A y \in S : Children(y) \subseteq S
          PROVE  g \in S
        BY <1>2, <2>2 DEF Under
    <2> QED
        BY <2>1, <2>2 DEF Under, Hashes
<1> QED
    BY <1>1, <1>2

\* and it leads to nothing else.
LEMMA UnderBelow ==
    ASSUME NEW h \in Hashes, NEW g \in Under(h), g # h
    PROVE  \E c \in Children(h) : g \in Under(c)
<1> DEFINE S == {h} \cup UNION {Under(c) : c \in Children(h)}
<1>1. S \subseteq DOMAIN Text
    BY ChildrenAreStored, UnderIsClosed DEF Hashes
<1>2. ASSUME NEW x \in S PROVE Children(x) \subseteq S
    <2>1. CASE x = h
        BY <2>1, ChildrenAreStored, UnderIsClosed
    <2>2. CASE \E c \in Children(h) : x \in Under(c)
        <3>1. PICK c \in Children(h) : x \in Under(c)
            BY <2>2
        <3>2. Children(x) \subseteq Under(c)
            BY <3>1, ChildrenAreStored, UnderIsClosed
        <3> QED
            BY <3>2
    <2> QED
        BY <1>2, <2>1, <2>2
<1>3. g \in S
    <2>1. h \in S
        OBVIOUS
    <2> HIDE DEF S
    <2> QED
        BY <1>1, <1>2, <2>1 DEF Under
<1> QED
    BY <1>3

\* The keys that a database holds are those of the nodes it leads to.
LEMMA HeldIs ==
    ASSUME NEW h, NEW k
    PROVE  Held(k, h) <=> k # Inf /\ \E g \in Under(h) : k \in DOMAIN Text[g]
<1>1. ASSUME NEW g \in Under(h), k \in DOMAIN Text[g], k # Inf
      PROVE  Held(k, h)
    <2>1. <<k, Text[g][k].value>> \in Contents(h)
        BY <1>1 DEF Contents
    <2> QED
        BY <2>1 DEF Held
<1>2. ASSUME Held(k, h)
      PROVE  k # Inf /\ \E g \in Under(h) : k \in DOMAIN Text[g]
    BY <1>2 DEF Held, Contents
<1> QED
    BY <1>1, <1>2

\* Where Node::find goes on: a key that is below a node and not in it is below
\* the child in front of which lower_bound stops.
LEMMA HeldBelow ==
    ASSUME NEW h \in Hashes, NEW k \in Keys, Held(k, h), k \notin DOMAIN Text[h]
    PROVE  /\ AtOrAfter(Text[h], k) # {}
           /\ LET i == LowerBound(Text[h], k)
              IN  /\ i \in DOMAIN Text[h] /\ i # k
                  /\ Text[h][i].child \in Children(h)
                  /\ Held(k, Text[h][i].child)
<1> DEFINE node == Text[h]
<1>1. DOMAIN node \subseteq Ids /\ IsFiniteSet(DOMAIN node)
    BY TextAssumption DEF Hashes
<1>2. PICK g \in Under(h) : k \in DOMAIN Text[g]
    BY HeldIs
<1>3. PICK c \in Children(h) : g \in Under(c)
    BY <1>2, UnderBelow
<1>4. Held(k, c)
    <2>1. k # Inf
        BY KeysAssumption
    <2> QED
        BY <1>2, <1>3, <2>1, HeldIs
<1>5. PICK j \in DOMAIN node : node[j].child = c /\ c # NoHash
    BY <1>3 DEF Children
<1>6. Before(k, j) /\ \A x \in DOMAIN node : Before(x, j) => Before(x, k)
    BY <1>4, <1>5, OrderAssumption DEF Hashes
<1>7. k \in Ids /\ k # Inf /\ j \in Ids
    BY <1>1, KeysAssumption DEF Ids
<1>8. AtOrAfter(node, k) # {}
    <2>1. ~Before(j, k)
        BY <1>6, <1>7, BeforeIsOrder
    <2> QED
        BY <2>1 DEF AtOrAfter
<1> DEFINE i == LowerBound(node, k)
<1>9. i \in DOMAIN node /\ i # k /\ Between(node, i, k)
    <2> HIDE DEF node
    <2>1. k \notin DOMAIN node
        BY DEF node
    <2> QED
        BY <1>1, <1>8, <2>1, LowerBoundFinds
<1>10. i = j
    <2>1. ~Before(i, j)
        BY <1>1, <1>6, <1>7, <1>9, BeforeIsOrder DEF Between
    <2>2. ~Before(j, i)
        BY <1>1, <1>6, <1>7, <1>9, BeforeIsOrder DEF Between
    <2> QED
        BY <1>1, <1>7, <1>9, <2>1, <2>2, BeforeIsOrder
<1> QED
    BY <1>3, <1>4, <1>5, <1>8, <1>9, <1>10

--------------------------------------------------------------------------
\* The finds

\* Where a find may be that looks for k in the database H: at a node of H, and
\* if H holds k, at one that leads to k.
OnPath(k, H, h) == k \in Keys /\ h \in Under(H) /\ (Held(k, H) => Held(k, h))

\* The inductive invariant of the finds: each is on the path to its key in the
\* database it began with, whatever was loaded since.
FindsOnPath ==
    \A f \in Finders : finder[f].pc \in {"walking", "fetching"} =>
        OnPath(finder[f].key, roots[finder[f].root].hash, finder[f].slot)

\* The step from a node to the child in front of which lower_bound stops
LEMMA DownThePath ==
    ASSUME NEW H \in Hashes, NEW h, NEW k, OnPath(k, H, h),
           AtOrAfter(Text[h], k) # {}, LowerBound(Text[h], k) # k,
           Text[h][LowerBound(Text[h], k)].child # NoHash
    PROVE  OnPath(k, H, Text[h][LowerBound(Text[h], k)].child)
<1>1. h \in Hashes /\ h \in Under(H) /\ k \in Keys
    BY UnderIsClosed DEF OnPath
<1>2. /\ LowerBound(Text[h], k) \in DOMAIN Text[h]
      /\ k \notin DOMAIN Text[h]
    <2>1. DOMAIN Text[h] \subseteq Ids /\ IsFiniteSet(DOMAIN Text[h])
        BY <1>1, TextAssumption DEF Hashes
    <2> QED
        BY <1>1, <2>1, LowerBoundFinds
<1>3. Text[h][LowerBound(Text[h], k)].child \in Under(H)
    BY <1>1, <1>2, UnderIsClosed DEF Children
<1>4. Held(k, H) => Held(k, Text[h][LowerBound(Text[h], k)].child)
    BY <1>1, <1>2, HeldBelow DEF OnPath
<1> QED
    BY <1>1, <1>3, <1>4 DEF OnPath

\* A step that moves no find, and keeps the databases of those it leaves
SameFinds ==
    \A f \in Finders : finder'[f].pc \in {"walking", "fetching"} =>
        /\ finder[f].pc \in {"walking", "fetching"}
        /\ finder'[f].key = finder[f].key
        /\ finder'[f].root = finder[f].root
        /\ finder'[f].slot = finder[f].slot
        /\ roots'[finder[f].root].hash = roots[finder[f].root].hash

LEMMA SameFindsOnPath ==
    ASSUME FindsOnPath, SameFinds
    PROVE  FindsOnPath'
<1> SUFFICES ASSUME NEW f \in Finders, finder'[f].pc \in {"walking", "fetching"}
             PROVE  OnPath(finder'[f].key, roots'[finder'[f].root].hash, finder'[f].slot)
    BY DEF FindsOnPath, OnPath
<1>1. /\ finder[f].pc \in {"walking", "fetching"}
      /\ finder'[f].key = finder[f].key
      /\ finder'[f].root = finder[f].root
      /\ finder'[f].slot = finder[f].slot
      /\ roots'[finder[f].root].hash = roots[finder[f].root].hash
    BY DEF SameFinds
<1>2. OnPath(finder[f].key, roots[finder[f].root].hash, finder[f].slot)
    BY <1>1 DEF FindsOnPath
<1> QED
    BY <1>1, <1>2

LEMMA LoadKeepsHashes ==
    ASSUME IInv, NEW h \in Hashes, Load(h)
    PROVE  \A r \in 1..Len(roots) : roots'[r].hash = roots[r].hash
<1>1. roots \in Seq(RootType)
    BY DEF IInv, TypeOK, RootType
<1>2. CASE roots' = roots
    BY <1>2
<1>3. CASE roots' = WithRoot(h)
    BY <1>1, <1>3 DEF WithRoot
<1> QED
    BY <1>2, <1>3 DEF Load

\* load replaces the root under a find, which goes on in its own.
LEMMA LoadSame ==
    ASSUME IInv, finder' = finder,
           \/ roots' = roots
           \/ \E h \in Hashes : Load(h)
    PROVE  SameFinds
<1>1. \A r \in 1..Len(roots) : roots'[r].hash = roots[r].hash
    BY LoadKeepsHashes
<1> QED
    BY <1>1 DEF SameFinds, IInv, TypeOK

LEMMA AnsweredSame ==
    ASSUME IInv, NEW f \in Finders, NEW v, NEW p \in {"rest", "found", "not_found", "error"},
           Answered(f, p, v), roots' = roots
    PROVE  SameFinds
BY DEF Answered, SameFinds, AtRest, IInv, TypeOK

\* Fetching a node changes no database.
LEMMA NodesSame ==
    ASSUME IInv, NEW f \in Finders, Fetch(f) \/ Restored(f)
    PROVE  SameFinds
<1>1. /\ \E nodes : roots' = [roots EXCEPT ![finder[f].root].nodes = nodes]
      /\ finder[f].pc \in {"walking", "fetching"}
      /\ \E pc : finder' = [finder EXCEPT ![f].pc = pc]
    BY DEF Fetch, Walking, Restored
<1>2. \A r \in 1..Len(roots) : roots'[r].hash = roots[r].hash
    <2>1. roots \in Seq(RootType)
        BY DEF IInv, TypeOK, RootType
    <2>2. \A r \in 1..Len(roots) : roots[r] \in RootType
        BY <2>1, ElementOfSeq
    <2> QED
        BY <1>1, <2>1, <2>2 DEF RootType
<1> QED
    BY <1>1, <1>2 DEF SameFinds, IInv, TypeOK, At

\* The program is stopped or its name changed: nobody walks, who waits is told.
LEMMA NoFinds ==
    ASSUME IInv, NEW name \in Names, SetIpns(name) \/ Restart(name)
    PROVE  SameFinds
<1>1. CASE SetIpns(name)
    BY <1>1 DEF SetIpns, Quiet, Walking, Ended, AtRest, SameFinds
<1>2. CASE Restart(name)
    BY <1>2 DEF Restart, AtRest, SameFinds
<1> QED
    BY <1>1, <1>2

\* A find begins at the root of the database that is current.
LEMMA GetContentOnPath ==
    ASSUME IInv, FindsOnPath, NEW f \in Finders, NEW k \in Keys, GetContent(f, k)
    PROVE  FindsOnPath'
<1>1. roots' = roots
    BY DEF GetContent, Find
<1>2. CASE current = NoRoot
    BY <1>1, <1>2, AnsweredSame, SameFindsOnPath DEF GetContent, Find
<1>3. CASE current # NoRoot
    <2>1. finder' = [finder EXCEPT ![f] =
                [pc |-> "walking", key |-> k, root |-> current,
                 slot |-> roots[current].hash, answer |-> NoValue]]
        BY <1>3 DEF GetContent, Find
    <2>2. roots[current].hash \in Hashes
        BY <1>3, NodesOf DEF IInv, TypeOK, NoRoot
    <2>3. OnPath(k, roots[current].hash, roots[current].hash)
        BY <2>2, UnderIsClosed DEF OnPath
    <2>4. finder \in [Finders -> At]
        BY DEF IInv, TypeOK
    <2> QED
        BY <1>1, <2>1, <2>3, <2>4 DEF FindsOnPath
<1> QED
    BY <1>2, <1>3

\* Node::find at a node goes down or answers.
LEMMA SearchOnPath ==
    ASSUME IInv, FindsOnPath, NEW f \in Finders, Search(f)
    PROVE  FindsOnPath'
<1> PICK k : k = finder[f].key
    OBVIOUS
<1> PICK h : h = finder[f].slot
    OBVIOUS
<1> DEFINE node == NodeAt(finder[f].root, h)
           i    == LowerBound(node, k)
<1>1. /\ roots' = roots
      /\ IF AtOrAfter(node, k) = {} THEN Answered(f, "not_found", NoValue)
         ELSE IF i = k THEN Answered(f, "found", node[i].value)
         ELSE IF Child(node, i) = NoHash THEN Answered(f, "not_found", NoValue)
         ELSE finder' = [finder EXCEPT ![f].slot = Child(node, i)]
    BY DEF Search
<1>2. CASE \E v : Answered(f, "not_found", v) \/ Answered(f, "found", v)
    BY <1>1, <1>2, AnsweredSame, SameFindsOnPath
<1>3. CASE /\ AtOrAfter(node, k) # {} /\ i # k /\ Child(node, i) # NoHash
           /\ finder' = [finder EXCEPT ![f].slot = Child(node, i)]
    <2>1. node = Text[h]
        BY <1>3 DEF NodeAt, AtOrAfter, EmptyMap
    <2> PICK H : H = roots[finder[f].root].hash
        OBVIOUS
    <2>2. H \in Hashes /\ OnPath(k, H, h)
        BY NodesOf DEF IInv, TypeOK, Search, Walking, FindsOnPath
    <2>3. OnPath(k, H, Text[h][LowerBound(Text[h], k)].child)
        BY <1>3, <2>1, <2>2, DownThePath DEF Child
    <2>4. finder' = [finder EXCEPT ![f].slot = Text[h][LowerBound(Text[h], k)].child]
        BY <1>3, <2>1 DEF Child
    <2>5. finder \in [Finders -> At] /\ finder[f].pc = "walking"
        BY DEF IInv, TypeOK, Search, Walking
    <2> QED
        BY <1>1, <2>3, <2>4, <2>5 DEF FindsOnPath, At
<1> QED
    BY <1>1, <1>2, <1>3

LEMMA NextFindsOnPath ==
    ASSUME IInv, FindsOnPath, [Next]_vars
    PROVE  FindsOnPath'
<1>1. ASSUME \/ \E id \in RootsOf[ipns] : Resolved(id)
             \/ LoadDb \/ Saved \/ ResolveFailed \/ Wake \/ WaitForDbUpdate \/ RunPosted
             \/ UNCHANGED vars
      PROVE  FindsOnPath'
    <2>1. finder' = finder
        BY <1>1 DEF Resolved, LoadDb, Saved, ResolveFailed, Wake, WaitForDbUpdate, RunPosted,
                    vars, lookup
    <2>2. RootsOf[ipns] \subseteq Hashes /\ (file[ipns] # NoId => file[ipns] \in Hashes)
        BY RootsAssumption DEF IInv, TypeOK, Hashes
    <2>3. roots' = roots \/ \E h \in Hashes : Load(h)
        BY <1>1, <2>2 DEF Resolved, LoadDb, Saved, ResolveFailed, Wake, WaitForDbUpdate,
                          RunPosted, vars, lookup
    <2> QED
        BY <2>1, <2>3, LoadSame, SameFindsOnPath
<1>2. ASSUME NEW f \in Finders, Get(f)
      PROVE  FindsOnPath'
    <2>1. CASE Search(f)
        BY <2>1, SearchOnPath
    <2>2. CASE Fetch(f) \/ Restored(f)
        BY <2>2, NodesSame, SameFindsOnPath
    <2>3. CASE RestoreFailed(f) \/ \E result \in {"rest", "error"} : Content(f, result)
        BY <2>3, AnsweredSame, SameFindsOnPath DEF RestoreFailed, Content
    <2> QED
        BY <1>2, <2>1, <2>2, <2>3 DEF Get, Lookup, FindStep
<1>3. ASSUME NEW name \in Names, SetIpns(name) \/ Restart(name)
      PROVE  FindsOnPath'
    BY <1>3, NoFinds, SameFindsOnPath
<1> QED
    BY <1>1, <1>2, <1>3, GetContentOnPath DEF Next

\* A find ends, if it finds anything or nothing, at the node it searches.
LEMMA OnlySearchAnswers ==
    ASSUME IInv, [Next]_vars, NEW f \in Finders, NEW p \in {"found", "not_found"},
           AnswersNow(f, p)
    PROVE  Search(f)
<1>1. finder[f].pc = "walking" /\ finder'[f].pc = p /\ finder \in [Finders -> At]
    BY DEF AnswersNow, IInv, TypeOK
<1>2. ~Quiet
    BY <1>1 DEF Quiet, Walking
<1>3. finder' # finder
    BY <1>1
<1>4. ASSUME NEW g \in Finders, Get(g)
      PROVE  Search(f)
    <2>1. Fetch(g) \/ Search(g)
        BY <1>2, <1>4 DEF Get, Lookup, FindStep, Restored, RestoreFailed, Content
    <2>2. CASE Fetch(g)
        BY <1>1, <2>2 DEF Fetch
    <2>3. CASE Search(g) /\ g # f
        BY <1>1, <2>3 DEF Search, Answered
    <2> QED
        BY <2>1, <2>2, <2>3
<1>5. ASSUME NEW name \in Names, SetIpns(name) \/ Restart(name)
      PROVE  FALSE
    BY <1>1, <1>2, <1>5 DEF SetIpns, Restart, AtRest
<1> QED
    BY <1>2, <1>3, <1>4, <1>5
    DEF Next, Resolved, LoadDb, Saved, ResolveFailed, Wake, WaitForDbUpdate, RunPosted,
        GetContent, Find, vars, lookup

\* What a find answers is stored below the root it began with.
LEMMA FoundAtSearch ==
    ASSUME IInv, FindsOnPath, NEW f \in Finders, Search(f), finder'[f].pc = "found"
    PROVE  <<finder[f].key, finder'[f].answer>> \in Contents(roots[finder[f].root].hash)
<1> PICK k : k = finder[f].key
    OBVIOUS
<1> PICK h : h = finder[f].slot
    OBVIOUS
<1> PICK H : H = roots[finder[f].root].hash
    OBVIOUS
<1> DEFINE node == NodeAt(finder[f].root, h)
           i    == LowerBound(node, k)
<1>1. H \in Hashes /\ OnPath(k, H, h) /\ finder \in [Finders -> At] /\ finder[f].pc = "walking"
    BY NodesOf DEF IInv, TypeOK, Search, Walking, FindsOnPath
<1>2. AtOrAfter(node, k) # {} /\ i = k /\ Answered(f, "found", node[i].value)
    <2>1. IF AtOrAfter(node, k) = {} THEN Answered(f, "not_found", NoValue)
          ELSE IF i = k THEN Answered(f, "found", node[i].value)
          ELSE IF Child(node, i) = NoHash THEN Answered(f, "not_found", NoValue)
          ELSE finder' = [finder EXCEPT ![f].slot = Child(node, i)]
        BY DEF Search
    <2> HIDE DEF node, i
    <2>2. /\ finder'[f].pc \notin {"walking", "not_found"}
          /\ ~Answered(f, "not_found", NoValue)
        BY <1>1 DEF Answered, AtRest
    <2>3. finder' # [finder EXCEPT ![f].slot = Child(node, i)]
        BY <1>1 DEF At
    <2> QED
        BY <2>1, <2>2, <2>3
<1>3. node = Text[h]
    BY <1>2 DEF NodeAt, AtOrAfter, EmptyMap
<1>4. h \in Hashes /\ h \in Under(H) /\ k \in Keys
    BY <1>1, UnderIsClosed DEF OnPath
<1>5. k \in DOMAIN Text[h] /\ k # Inf
    <2>1. DOMAIN Text[h] \subseteq Ids /\ IsFiniteSet(DOMAIN Text[h])
        BY <1>4, TextAssumption DEF Hashes
    <2> QED
        BY <1>2, <1>3, <1>4, <2>1, LowerBoundFinds, KeysAssumption
<1>6. finder'[f].answer = Text[h][k].value
    BY <1>1, <1>2, <1>3 DEF Answered, AtRest
<1>7. <<k, Text[h][k].value>> \in Contents(H)
    BY <1>4, <1>5 DEF Contents
<1> QED
    BY <1>6, <1>7

\* Where every node is restored, the path goes on to the key.
LEMMA DeniedAtSearch ==
    ASSUME IInv, FindsOnPath, NEW f \in Finders, Search(f), finder'[f].pc = "not_found",
           Held(finder[f].key, roots[finder[f].root].hash)
    PROVE  \E h \in DOMAIN roots[finder[f].root].nodes : ~roots[finder[f].root].nodes[h]
<1> PICK k : k = finder[f].key
    OBVIOUS
<1> PICK h : h = finder[f].slot
    OBVIOUS
<1> DEFINE node == NodeAt(finder[f].root, h)
           i    == LowerBound(node, k)
<1>1. finder \in [Finders -> At] /\ finder[f].pc = "walking"
    BY DEF IInv, TypeOK, Search, Walking
<1>2. k \in Keys /\ h \in Hashes /\ Held(k, h)
    BY <1>1 DEF FindsOnPath, OnPath, IInv, TypeOK
<1>3. h \in DOMAIN roots[finder[f].root].nodes
    BY DEF Search
<1>4. ASSUME roots[finder[f].root].nodes[h]
      PROVE  FALSE
    <2>1. node = Text[h]
        BY <1>4 DEF NodeAt
    <2>2. AtOrAfter(node, k) = {} \/ (i # k /\ Child(node, i) = NoHash)
        <3>1. IF AtOrAfter(node, k) = {} THEN Answered(f, "not_found", NoValue)
              ELSE IF i = k THEN Answered(f, "found", node[i].value)
              ELSE IF Child(node, i) = NoHash THEN Answered(f, "not_found", NoValue)
              ELSE finder' = [finder EXCEPT ![f].slot = Child(node, i)]
            BY DEF Search
        <3> HIDE DEF node, i
        <3>2. ~Answered(f, "found", node[i].value)
            BY <1>1 DEF Answered, AtRest
        <3>3. finder' # [finder EXCEPT ![f].slot = Child(node, i)]
            BY <1>1 DEF At
        <3> QED
            BY <3>1, <3>2, <3>3
    <2>3. k \in DOMAIN Text[h] => AtOrAfter(Text[h], k) # {} /\ LowerBound(Text[h], k) = k
        <3>1. k \in DOMAIN Text[h] => k \in AtOrAfter(Text[h], k)
            BY <1>2, BeforeIsOrder DEF AtOrAfter, Ids
        <3>2. DOMAIN Text[h] \subseteq Ids /\ IsFiniteSet(DOMAIN Text[h])
            BY <1>2, TextAssumption DEF Hashes
        <3> QED
            BY <1>2, <3>1, <3>2, LowerBoundFinds
    <2>4. k \notin DOMAIN Text[h] => /\ AtOrAfter(Text[h], k) # {}
                                     /\ Text[h][LowerBound(Text[h], k)].child # NoHash
        BY <1>2, HeldBelow DEF Children
    <2> QED
        BY <2>1, <2>2, <2>3, <2>4 DEF Child
<1> QED
    BY <1>3, <1>4

\* The inductive invariant of the finds (btree.cpp 508-541)
THEOREM FindInvariance == Spec => [](IInv /\ FindsOnPath)
<1>1. Init => IInv /\ FindsOnPath
    BY InitIInv DEF Init, LookupInit, AtRest, FindsOnPath
<1>2. IInv /\ FindsOnPath /\ [Next]_vars => (IInv /\ FindsOnPath)'
    BY NextIInv, NextFindsOnPath
<1> QED
    BY <1>1, <1>2, PTL DEF Spec

\* What a find answers is in the database it began with, however often another
\* is loaded meanwhile (btree.cpp 539-541).
THEOREM AnswersAreStored == Spec => FoundIsStored
<1>1. ASSUME IInv, FindsOnPath, [Next]_vars, NEW f \in Finders, AnswersNow(f, "found")
      PROVE  <<finder[f].key, finder'[f].answer>> \in Contents(roots[finder[f].root].hash)
    <2>1. Search(f)
        BY <1>1, OnlySearchAnswers
    <2> QED
        BY <1>1, <2>1, FoundAtSearch DEF AnswersNow
<1>2. IInv /\ FindsOnPath /\ [Next]_vars =>
        [\A f \in Finders : AnswersNow(f, "found") =>
            <<finder[f].key, finder'[f].answer>> \in Contents(roots[finder[f].root].hash)]_vars
    BY <1>1
<1> QED
    BY <1>2, FindInvariance, PTL DEF Spec, FoundIsStored

\* Where no node waits for cat or failed to be restored, a key that is stored is
\* found (btree.cpp 508-518): the order of the stored tree leads every find to it.
THEOREM DeniedMeansUnrestored == Spec => DeniedOnlyUnrestored
<1>1. ASSUME IInv, FindsOnPath, [Next]_vars, NEW f \in Finders, AnswersNow(f, "not_found"),
             Held(finder[f].key, roots[finder[f].root].hash)
      PROVE  \E h \in DOMAIN roots[finder[f].root].nodes : ~roots[finder[f].root].nodes[h]
    <2>1. Search(f)
        BY <1>1, OnlySearchAnswers
    <2> QED
        BY <1>1, <2>1, DeniedAtSearch DEF AnswersNow
<1>2. IInv /\ FindsOnPath /\ [Next]_vars =>
        [\A f \in Finders : AnswersNow(f, "not_found") =>
            LET root == roots[finder[f].root]
            IN  Held(finder[f].key, root.hash) => \E h \in DOMAIN root.nodes : ~root.nodes[h]]_vars
    BY <1>1
<1> QED
    BY <1>2, FindInvariance, PTL DEF Spec, DeniedOnlyUnrestored
==========================================================================
