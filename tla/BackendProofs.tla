-------------------------- MODULE BackendProofs --------------------------
(***************************************************************************)
(* The handles of Backend.tla for any number of calls: no handle is used   *)
(* after it was freed, unless a push lost a link, and every handler is in  *)
(* exactly one place.                                                      *)
(***************************************************************************)
EXTENDS Backend, TLAPS, FiniteSetTheorems, SequenceTheorems

Queued(n) == \E i \in 1..Len(queue) : queue[i].handle = n
Told(n)   == \E i \in 1..Len(told) : told[i].handle = n
Go(n)     == n \in running /\ n \notin cancelled

\* Neither the list nor the queue nor the record of the calls has a handle twice.
NoneTwice ==
    /\ \A i, j \in 1..Len(listed) : listed[i] = listed[j] => i = j
    /\ \A i, j \in 1..Len(queue) : queue[i].handle = queue[j].handle => i = j
    /\ \A i, j \in 1..Len(told) : told[i].handle = told[j].handle => i = j

Somewhere ==
    \A n \in Calls : n = pushing \/ Go(n) \/ Queued(n) \/ Told(n) \/ n \in dropped

AtMostOnce ==
    \A n \in Calls :
        /\ n = pushing => ~Go(n) /\ ~Queued(n) /\ ~Told(n) /\ n \notin dropped
        /\ Go(n) => ~Queued(n) /\ ~Told(n) /\ n \notin dropped
        /\ Queued(n) => ~Told(n) /\ n \notin dropped
        /\ Told(n) => n \notin dropped

\* Only a handle whose operation Go still runs is on the list, and cancel has
\* posted what it took.
ListedRun == \A i \in 1..Len(listed) : Go(listed[i])
CancelledPosted == \A n \in cancelled : Queued(n) \/ Told(n)

Kept ==
    /\ running \subseteq alive
    /\ pushing # None => pushing \in alive
    /\ \A i \in 1..Len(queue) : queue[i].handle \in alive \cup cancelled
    /\ dropped # {} => destroyed

\* A hook is half a link, or used when it is none, only after a lost push.
LostFirst == (dirty # {} => stray # {}) /\ (broken => stray # {})

IInv ==
    /\ TypeOK /\ NoneTwice /\ Somewhere /\ AtMostOnce
    /\ ListedRun /\ CancelledPosted /\ Kept /\ LostFirst

--------------------------------------------------------------------------
\* unlink takes one handle off the list and leaves the others in their order.
LEMMA UnlinkedProperties ==
    ASSUME NEW S, NEW s \in Seq(S), NEW n,
           \A i, j \in 1..Len(s) : s[i] = s[j] => i = j
    PROVE  /\ Unlinked(s, n) \in Seq(S)
           /\ \A i \in 1..Len(Unlinked(s, n)) :
                Unlinked(s, n)[i] # n /\ \E j \in 1..Len(s) : s[j] = Unlinked(s, n)[i]
           /\ \A i, j \in 1..Len(Unlinked(s, n)) :
                Unlinked(s, n)[i] = Unlinked(s, n)[j] => i = j
<1>1. CASE ~\E i \in 1..Len(s) : s[i] = n
  BY <1>1 DEF Unlinked
<1>2. CASE \E i \in 1..Len(s) : s[i] = n
  <2> DEFINE k == CHOOSE j \in 1..Len(s) : s[j] = n
             a == SubSeq(s, 1, k - 1)
             b == SubSeq(s, k + 1, Len(s))
  <2>1. k \in 1..Len(s) /\ s[k] = n /\ Len(s) \in Nat
    BY <1>2, LenProperties
  <2> HIDE DEF k
  <2>2. a \in Seq(S) /\ Len(a) = k - 1 /\ \A i \in 1..(k - 1) : a[i] = s[i]
    BY <2>1, SubSeqProperties
  <2>3. b \in Seq(S) /\ Len(b) = Len(s) - k /\ \A i \in 1..(Len(s) - k) : b[i] = s[k + i]
    <3>1. CASE k = Len(s)
      BY <2>1, <3>1, SubSeqProperties
    <3>2. CASE k < Len(s)
      BY <2>1, <3>2, SubSeqProperties
    <3>3. QED BY <2>1, <3>1, <3>2
  <2>4. Unlinked(s, n) = a \o b
    BY <1>2 DEF Unlinked, k
  <2> HIDE DEF a, b
  <2>5. /\ a \o b \in Seq(S) /\ Len(a \o b) = Len(s) - 1
        /\ \A i \in 1..(Len(s) - 1) :
              (a \o b)[i] = IF i < k THEN s[i] ELSE s[i + 1]
    <3>1. /\ a \o b \in Seq(S) /\ Len(a \o b) = Len(a) + Len(b)
          /\ \A i \in 1..(Len(a) + Len(b)) :
                (a \o b)[i] = IF i <= Len(a) THEN a[i] ELSE b[i - Len(a)]
      BY <2>2, <2>3, ConcatProperties, ZenonT(30)
    <3>2. QED BY <2>1, <2>2, <2>3, <3>1
  <2> DEFINE u == Unlinked(s, n)
             from(i) == IF i < k THEN i ELSE i + 1
  <2> HIDE DEF u
  <2>6. /\ u \in Seq(S) /\ Len(u) = Len(s) - 1
        /\ \A i \in 1..Len(u) : u[i] = s[from(i)] /\ from(i) \in 1..Len(s) /\ from(i) # k
    BY <2>1, <2>4, <2>5 DEF u
  <2>7. \A i, j \in 1..Len(u) : from(i) = from(j) => i = j
    BY <2>1, <2>6
  <2>8. \A i \in 1..Len(u) : u[i] # n /\ \E j \in 1..Len(s) : s[j] = u[i]
    BY <2>1, <2>6
  <2>9. \A i, j \in 1..Len(u) : u[i] = u[j] => i = j
    <3> HIDE DEF from
    <3> QED BY <2>6, <2>7
  <2>10. QED BY <2>6, <2>8, <2>9 DEF u
<1>3. QED BY <1>1, <1>2

LEMMA HandleOfEntry ==
    ASSUME NEW s \in Seq(Entry), NEW i \in 1..Len(s)
    PROVE  s[i].handle \in Calls
<1>1. s[i] \in Entry
  BY ElementOfSeq
<1>2. QED BY <1>1 DEF Entry

--------------------------------------------------------------------------
LEMMA InitIInv == Init => IInv
<1> SUFFICES ASSUME Init PROVE IInv
  OBVIOUS
<1> USE DEF Init, None
<1>1. TypeOK
  <2>1. <<>> \in Seq(Calls) /\ <<>> \in Seq(Entry)
    BY EmptySeq
  <2>2. QED BY <2>1 DEF TypeOK
<1>2. /\ Len(listed) = 0 /\ Len(queue) = 0 /\ Len(told) = 0 /\ Calls = {}
  <2>1. Len(<<>>) = 0
    BY EmptySeq
  <2>2. QED BY <2>1 DEF Calls
<1>3. NoneTwice /\ ListedRun
  BY <1>2 DEF NoneTwice, ListedRun
<1>4. Somewhere /\ AtMostOnce /\ CancelledPosted /\ Kept /\ LostFirst
  BY <1>2 DEF Somewhere, AtMostOnce, CancelledPosted, Kept, LostFirst
<1>5. QED BY <1>1, <1>3, <1>4 DEF IInv

LEMMA BeginCallKeeps == IInv /\ BeginCall => IInv'
<1> SUFFICES ASSUME IInv, BeginCall PROVE IInv'
  OBVIOUS
<1> USE DEF BeginCall, None
<1>1. /\ made \in Nat /\ made' = made + 1 /\ Calls \subseteq Calls' /\ Calls' = Calls \cup {made'}
      /\ made' \notin Calls /\ Entry \subseteq Entry' /\ pushing' = made'
  <2>1. made \in Nat /\ made' = made + 1 /\ pushing' = made'
    BY DEF IInv, TypeOK
  <2>2. /\ Calls \subseteq Calls' /\ Calls' = Calls \cup {made'} /\ made' \notin Calls
    BY ONLY <2>1 DEF Calls
  <2>3. QED BY <2>1, <2>2 DEF Entry
<1>2. TypeOK'
  <2>1. listed \in Seq(Calls') /\ queue \in Seq(Entry') /\ told \in Seq(Entry')
    BY <1>1, SeqMonotonic DEF IInv, TypeOK
  <2>2. /\ running \subseteq Calls' /\ cancelled \subseteq Calls'
        /\ alive' \subseteq Calls' /\ dropped \subseteq Calls' /\ made' \in Nat
    BY <1>1 DEF IInv, TypeOK
  <2>3. /\ torn' \subseteq Calls' /\ stray' \subseteq Calls' /\ dirty' \subseteq Calls'
        /\ broken' \in BOOLEAN /\ destroyed' \in BOOLEAN
    BY <1>1 DEF IInv, TypeOK, links
  <2>4. listed' \in Seq(Calls') /\ queue' \in Seq(Entry') /\ told' \in Seq(Entry')
    BY <2>1
  <2>5. QED BY <1>1, <2>2, <2>3, <2>4 DEF TypeOK
<1>3. NoneTwice' /\ ListedRun' /\ CancelledPosted' /\ Kept'
  BY <1>1 DEF IInv, NoneTwice, ListedRun, CancelledPosted, Kept, Go, Queued, Told
<1>4. made' \notin running /\ made' \notin dropped /\ ~Queued(made') /\ ~Told(made')
  <2>0. queue \in Seq(Entry) /\ told \in Seq(Entry)
    BY DEF IInv, TypeOK
  <2>1. \A i \in 1..Len(queue) : queue[i].handle \in Calls
    BY <2>0, HandleOfEntry
  <2>2. \A i \in 1..Len(told) : told[i].handle \in Calls
    BY <2>0, HandleOfEntry
  <2>3. QED BY <1>1, <2>1, <2>2 DEF IInv, TypeOK, Queued, Told
<1>5. \A n : Go(n)' = Go(n) /\ Queued(n)' = Queued(n) /\ Told(n)' = Told(n)
  BY DEF Go, Queued, Told
<1>6. \A n \in Calls : n # pushing /\ n # pushing'
  BY <1>1 DEF Calls
<1>7. Somewhere'
  BY <1>1, <1>5, <1>6 DEF IInv, Somewhere
<1>8. ~Go(pushing')
  BY <1>1, <1>4 DEF Go
<1>9. AtMostOnce'
  BY <1>1, <1>4, <1>5, <1>6, <1>8 DEF IInv, AtMostOnce
<1>10. LostFirst'
  BY DEF IInv, LostFirst, links
<1>11. QED BY <1>2, <1>3, <1>7, <1>9, <1>10 DEF IInv

LEMMA EndCallKeeps == IInv /\ EndCall => IInv'
<1> SUFFICES ASSUME IInv, EndCall PROVE IInv'
  OBVIOUS
<1> USE DEF EndCall, None
<1>1. /\ pushing \in Calls /\ pushing \notin cancelled /\ Calls' = Calls /\ Entry' = Entry
      /\ ~Go(pushing) /\ pushing' = 0 /\ 0 \notin Calls
  BY DEF IInv, TypeOK, Calls, Entry, AtMostOnce, CancelledPosted
<1>2. /\ listed \in Seq(Calls) /\ Len(listed) \in Nat
      /\ Append(listed, pushing) \in Seq(Calls)
      /\ Len(Append(listed, pushing)) = Len(listed) + 1
      /\ \A i \in 1..Len(listed) : Append(listed, pushing)[i] = listed[i]
      /\ Append(listed, pushing)[Len(listed) + 1] = pushing
  BY <1>1, AppendProperties, LenProperties DEF IInv, TypeOK
<1>3. listed' = listed \/ listed' = Append(listed, pushing)
  OBVIOUS
<1>4. \A n : /\ Go(n)' <=> Go(n) \/ n = pushing
             /\ Queued(n)' = Queued(n) /\ Told(n)' = Told(n)
  BY <1>1 DEF Go, Queued, Told
<1>5. TypeOK'
  <2>1. listed' \in Seq(Calls)
    BY <1>2, <1>3 DEF IInv, TypeOK
  <2>2. stray' \subseteq Calls /\ dirty' \subseteq Calls /\ torn' = {}
    BY <1>1 DEF IInv, TypeOK
  <2>3. QED BY <1>1, <2>1, <2>2 DEF IInv, TypeOK
<1>6. \A i \in 1..Len(listed) : listed[i] # pushing
  BY <1>1 DEF IInv, ListedRun
<1>7. ListedRun'
  BY <1>2, <1>3, <1>4 DEF IInv, ListedRun
<1>8. NoneTwice'
  BY <1>2, <1>3, <1>6 DEF IInv, NoneTwice
<1>9. Somewhere' /\ AtMostOnce'
  BY <1>1, <1>4 DEF IInv, Somewhere, AtMostOnce
<1>10. CancelledPosted' /\ Kept'
  BY <1>1, <1>4 DEF IInv, CancelledPosted, Kept
<1>11. LostFirst'
  BY DEF IInv, LostFirst
<1>12. QED BY <1>5, <1>7, <1>8, <1>9, <1>10, <1>11 DEF IInv

LEMMA GoCallsKeeps ==
    ASSUME IInv, NEW n \in running, NEW result \in Results, GoCalls(n, result)
    PROVE  IInv'
<1> USE DEF GoCalls, None
<1>1. /\ n \in Calls /\ Calls' = Calls /\ Entry' = Entry /\ pushing' = pushing
      /\ running' = running \ {n}
  BY DEF IInv, TypeOK, Calls, Entry
<1>0. LostFirst'
  <2>1. stray' = stray /\ dirty' = dirty
    OBVIOUS
  <2>2. (broken => stray # {}) /\ (dirty # {} => stray # {}) /\ (n \in stray => stray # {})
    BY DEF IInv, LostFirst
  <2>3. broken' = broken \/ broken' = (n \in stray)
    OBVIOUS
  <2>4. broken' => stray # {}
    BY ONLY <2>2, <2>3, Zenon
  <2>5. QED BY <2>1, <2>2, <2>4 DEF LostFirst
<1>2. CASE CbTaken(n)
  <2>1. \A m : Go(m)' = Go(m) /\ Queued(m)' = Queued(m) /\ Told(m)' = Told(m)
    BY <1>2 DEF Go, Queued, Told, CbTaken
  <2>2. TypeOK' /\ NoneTwice'
    BY <1>1, <1>2 DEF IInv, TypeOK, NoneTwice, Delete, CbTaken
  <2>3. Somewhere' /\ AtMostOnce' /\ ListedRun' /\ CancelledPosted'
    BY <1>1, <1>2, <2>1 DEF IInv, Somewhere, AtMostOnce, ListedRun, CancelledPosted, CbTaken
  <2>4. Kept'
    BY <1>1, <1>2 DEF IInv, Kept, CbTaken, Delete, AtMostOnce, CancelledPosted
  <2>5. QED BY <1>0, <2>2, <2>3, <2>4 DEF IInv
<1>3. CASE ~CbTaken(n)
  <2> DEFINE e == IF destroyed THEN Aborted(n) ELSE [handle |-> n, result |-> result]
  <2>1. e \in Entry /\ e.handle = n /\ queue' = Append(queue, e) /\ told' = told
    BY <1>1, <1>3 DEF Entry, Aborted
  <2> HIDE DEF e
  <2>2. /\ queue \in Seq(Entry) /\ Len(queue) \in Nat
        /\ queue' \in Seq(Entry) /\ Len(queue') = Len(queue) + 1
        /\ \A i \in 1..Len(queue) : queue'[i] = queue[i]
        /\ queue'[Len(queue) + 1] = e
    BY <2>1, AppendProperties, LenProperties DEF IInv, TypeOK
  <2>3. \A m : Queued(m)' <=> Queued(m) \/ m = n
    BY <2>1, <2>2 DEF Queued
  <2>4. \A m : (Go(m)' <=> Go(m) /\ m # n) /\ Told(m)' = Told(m)
    BY <1>3 DEF Go, Told, CbTaken
  <2>5. Go(n) /\ ~Queued(n) /\ n # pushing
    BY <1>1, <1>3 DEF Go, CbTaken, IInv, AtMostOnce
  <2>6. /\ listed' \in Seq(Calls)
        /\ \A i \in 1..Len(listed') : listed'[i] # n /\ \E j \in 1..Len(listed) : listed[j] = listed'[i]
        /\ \A i, j \in 1..Len(listed') : listed'[i] = listed'[j] => i = j
    <3>1. listed' = Unlinked(listed, n)
      BY <1>3
    <3>2. /\ Unlinked(listed, n) \in Seq(Calls)
          /\ \A i \in 1..Len(Unlinked(listed, n)) :
                Unlinked(listed, n)[i] # n /\ \E j \in 1..Len(listed) : listed[j] = Unlinked(listed, n)[i]
          /\ \A i, j \in 1..Len(Unlinked(listed, n)) :
                Unlinked(listed, n)[i] = Unlinked(listed, n)[j] => i = j
      BY UnlinkedProperties DEF IInv, TypeOK, NoneTwice
    <3>3. QED BY <3>1, <3>2
  <2>7. TypeOK'
    <3>1. torn' \subseteq Calls /\ broken' \in BOOLEAN
      <4>1. (torn' = torn \/ torn' = torn \cup {n}) /\ broken' = (n \in stray)
        BY <1>3
      <4>2. QED BY <1>1, <4>1 DEF IInv, TypeOK
    <3>2. QED BY <1>1, <1>3, <2>2, <2>6, <3>1 DEF IInv, TypeOK
  <2>8. NoneTwice'
    BY <2>1, <2>2, <2>5, <2>6 DEF IInv, NoneTwice, Queued
  <2>9. Somewhere' /\ AtMostOnce'
    BY <1>1, <2>3, <2>4, <2>5 DEF IInv, Somewhere, AtMostOnce
  <2>10. ListedRun' /\ CancelledPosted'
    BY <2>3, <2>4, <2>6 DEF IInv, ListedRun, CancelledPosted
  <2>11. Kept'
    BY <1>1, <1>3, <2>1, <2>2 DEF IInv, Kept
  <2>12. QED BY <1>0, <2>7, <2>8, <2>9, <2>10, <2>11 DEF IInv
<1>4. QED BY <1>2, <1>3

LEMMA RunHandlerKeeps == IInv /\ RunHandler => IInv'
<1> SUFFICES ASSUME IInv, RunHandler PROVE IInv'
  OBVIOUS
<1> DEFINE n == Head(queue).handle
<1>1. Calls' = Calls /\ Entry' = Entry
  BY DEF RunHandler, Calls, Entry
<1>2. /\ queue \in Seq(Entry) /\ queue # <<>> /\ Len(queue) \in Nat \ {0}
      /\ Head(queue) = queue[1] /\ Head(queue) \in Entry
      /\ queue' \in Seq(Entry) /\ Len(queue') = Len(queue) - 1
      /\ \A i \in 1..Len(queue') : queue'[i] = queue[i + 1]
  BY HeadTailProperties, EmptySeq DEF RunHandler, IInv, TypeOK
<1>3. n \in Calls /\ n = queue[1].handle
  BY <1>2 DEF Entry
<1>4. Queued(n) /\ ~Told(n) /\ n \notin dropped /\ ~Go(n) /\ n # pushing
  BY <1>2, <1>3 DEF Queued, IInv, AtMostOnce
<1>5. \A m : Queued(m)' <=> Queued(m) /\ m # n
  <2>1. ASSUME NEW m, Queued(m)' PROVE Queued(m) /\ m # n
    <3>1. PICK i \in 1..Len(queue') : queue'[i].handle = m
      BY <2>1 DEF Queued
    <3>2. i + 1 \in 1..Len(queue) /\ queue[i + 1].handle = m /\ i + 1 # 1 /\ 1 \in 1..Len(queue)
      BY <1>2, <3>1
    <3>3. m # n
      BY <1>3, <3>2 DEF IInv, NoneTwice
    <3>4. QED BY <3>2, <3>3 DEF Queued
  <2>2. ASSUME NEW m, Queued(m), m # n PROVE Queued(m)'
    <3>1. PICK i \in 1..Len(queue) : queue[i].handle = m
      BY <2>2 DEF Queued
    <3>2. i # 1
      BY <1>3, <2>2, <3>1
    <3>3. i - 1 \in 1..Len(queue') /\ queue'[i - 1] = queue[i]
      BY <1>2, <3>1, <3>2
    <3>4. QED BY <3>1, <3>3 DEF Queued
  <2>3. QED BY <2>1, <2>2
<1> HIDE DEF n
<1>6. /\ \A m : Go(m)' = Go(m)
      /\ ~(n \in cancelled) => alive' = alive \ {n}
      /\ (n \in cancelled) => alive' = alive
      /\ n \notin running \/ n \in cancelled
  BY <1>4 DEF RunHandler, Go, Delete, n
<1>0. LostFirst' /\ broken' \in BOOLEAN
  <2>1. stray' = stray /\ dirty' = dirty
    BY DEF RunHandler
  <2>2. (broken => stray # {}) /\ (dirty # {} => stray # {}) /\ (n \in dirty => stray # {})
    BY DEF IInv, LostFirst
  <2>3. broken' = broken \/ broken' = (n \in dirty)
    BY DEF RunHandler, n
  <2>4. broken' => stray # {}
    BY ONLY <2>2, <2>3, Zenon
  <2>5. broken \in BOOLEAN
    BY DEF IInv, TypeOK
  <2>6. broken' \in BOOLEAN
    <3>1. CASE broken' = broken
      BY ONLY <2>5, <3>1
    <3>2. CASE broken' = (n \in dirty)
      BY <3>2
    <3>3. QED BY <2>3, <3>1, <3>2
  <2>7. QED BY <2>1, <2>2, <2>4, <2>6 DEF LostFirst
<1>7. CASE told' = Append(told, Head(queue)) /\ dropped' = dropped
  <2>1. /\ told \in Seq(Entry) /\ Len(told) \in Nat
        /\ told' \in Seq(Entry) /\ Len(told') = Len(told) + 1
        /\ \A i \in 1..Len(told) : told'[i] = told[i]
        /\ told'[Len(told) + 1] = Head(queue)
    BY <1>2, <1>7, AppendProperties, LenProperties DEF IInv, TypeOK
  <2>2. \A m : Told(m)' <=> Told(m) \/ m = n
    BY <2>1 DEF Told, n
  <2>3. NoneTwice'
    <3>1. \A i, j \in 1..Len(queue') : queue'[i].handle = queue'[j].handle => i = j
      BY <1>2, SMTT(30) DEF IInv, NoneTwice
    <3>2. \A i \in 1..Len(told) : told[i].handle # n
      BY <1>4 DEF Told
    <3>3. \A i, j \in 1..Len(told') : told'[i].handle = told'[j].handle => i = j
      BY <2>1, <3>2 DEF IInv, NoneTwice, n
    <3>4. QED BY <3>1, <3>3 DEF IInv, NoneTwice, RunHandler
  <2>4. Somewhere' /\ AtMostOnce'
    BY <1>1, <1>3, <1>4, <1>5, <1>6, <1>7, <2>2 DEF IInv, Somewhere, AtMostOnce, RunHandler
  <2>5. TypeOK'
    BY <1>0, <1>1, <1>2, <1>6, <1>7, <2>1 DEF IInv, TypeOK, RunHandler
  <2>6. ListedRun' /\ CancelledPosted'
    BY <1>5, <1>6, <2>2 DEF IInv, ListedRun, CancelledPosted, RunHandler
  <2>7. \A i \in 1..Len(queue') : queue'[i].handle # n
    BY <1>5 DEF Queued
  <2>8. Kept'
    BY <1>2, <1>4, <1>6, <1>7, <2>7 DEF IInv, Kept, RunHandler
  <2>9. QED BY <1>0, <2>3, <2>4, <2>5, <2>6, <2>8 DEF IInv
<1>8. CASE dropped' = dropped \cup {n} /\ told' = told /\ destroyed /\ n \notin cancelled
  <2>1. \A m : Told(m)' <=> Told(m)
    BY <1>8 DEF Told
  <2>2. NoneTwice'
    BY <1>2, <1>8 DEF IInv, NoneTwice, RunHandler
  <2>3. Somewhere' /\ AtMostOnce'
    BY <1>1, <1>3, <1>4, <1>5, <1>6, <1>8, <2>1 DEF IInv, Somewhere, AtMostOnce, RunHandler
  <2>4. TypeOK'
    BY <1>0, <1>1, <1>2, <1>3, <1>6, <1>8 DEF IInv, TypeOK, RunHandler
  <2>5. ListedRun' /\ CancelledPosted'
    BY <1>5, <1>6, <1>8, <2>1 DEF IInv, ListedRun, CancelledPosted, RunHandler
  <2>6. \A i \in 1..Len(queue') : queue'[i].handle # n
    BY <1>5 DEF Queued
  <2>7. Kept'
    BY <1>2, <1>4, <1>6, <1>8, <2>6 DEF IInv, Kept, RunHandler
  <2>8. QED BY <1>0, <2>2, <2>3, <2>4, <2>5, <2>7 DEF IInv
<1>9. QED BY <1>7, <1>8 DEF RunHandler, n

LEMMA DestroyKeeps == IInv /\ Destroy => IInv'
<1> SUFFICES ASSUME IInv, Destroy PROVE IInv'
  OBVIOUS
<1> USE DEF Destroy
<1> DEFINE posts == [i \in 1..Len(listed) |-> Aborted(listed[i])]
           taken == {listed[i] : i \in 1..Len(listed)}
<1>1. /\ Calls' = Calls /\ Entry' = Entry /\ Len(listed) \in Nat
      /\ \A i \in 1..Len(listed) : listed[i] \in Calls /\ Go(listed[i])
  BY LenProperties, ElementOfSeq DEF Calls, Entry, IInv, TypeOK, ListedRun
<1>2. \A i \in 1..Len(listed) : Aborted(listed[i]) \in Entry /\ Aborted(listed[i]).handle = listed[i]
  BY <1>1 DEF Aborted, Entry
<1>3. posts \in Seq(Entry) /\ Len(posts) = Len(listed)
  BY <1>1, <1>2, SeqDef, LenProperties
<1>4. /\ queue \in Seq(Entry) /\ Len(queue) \in Nat /\ queue' \in Seq(Entry)
      /\ Len(queue') = Len(queue) + Len(listed)
      /\ \A i \in 1..(Len(queue) + Len(listed)) :
            queue'[i].handle = IF i <= Len(queue) THEN queue[i].handle ELSE listed[i - Len(queue)]
  <2>1. queue \in Seq(Entry) /\ Len(queue) \in Nat
    BY LenProperties DEF IInv, TypeOK
  <2>2. /\ queue' \in Seq(Entry) /\ Len(queue') = Len(queue) + Len(posts)
        /\ \A i \in 1..(Len(queue) + Len(posts)) :
              queue'[i] = IF i <= Len(queue) THEN queue[i] ELSE posts[i - Len(queue)]
    BY <1>3, <2>1, ConcatProperties
  <2>3. QED BY <1>1, <1>2, <1>3, <2>1, <2>2
<1>5. \A m : Queued(m)' <=> Queued(m) \/ m \in taken
  <2>1. ASSUME NEW m, m \in taken PROVE Queued(m)'
    <3>1. PICK i \in 1..Len(listed) : listed[i] = m
      BY <2>1
    <3>2. /\ Len(queue) + i \in 1..(Len(queue) + Len(listed))
          /\ (Len(queue) + i) - Len(queue) = i /\ ~(Len(queue) + i <= Len(queue))
      BY <1>1, <1>4
    <3>3. queue'[Len(queue) + i].handle = m
      BY <1>4, <3>1, <3>2
    <3>4. QED BY <1>4, <3>2, <3>3 DEF Queued
  <2>2. ASSUME NEW m, Queued(m) PROVE Queued(m)'
    BY <1>1, <1>4, <2>2 DEF Queued
  <2>3. ASSUME NEW m, Queued(m)' PROVE Queued(m) \/ m \in taken
    <3>1. PICK i \in 1..Len(queue') : queue'[i].handle = m
      BY <2>3 DEF Queued
    <3>2. CASE i <= Len(queue)
      BY <1>1, <1>4, <3>1, <3>2 DEF Queued
    <3>3. CASE i > Len(queue)
      <4>0. /\ i - Len(queue) \in 1..Len(listed) /\ ~(i <= Len(queue))
            /\ i \in 1..(Len(queue) + Len(listed))
        BY ONLY <1>1, <1>4, <3>3
      <4>1. i - Len(queue) \in 1..Len(listed) /\ listed[i - Len(queue)] = m
        BY ONLY <1>4, <3>1, <4>0
      <4>2. QED BY <4>1
    <3>4. QED BY <1>4, <3>2, <3>3
  <2>4. QED BY <2>1, <2>2, <2>3
<1>6. \A m : Told(m)' = Told(m) /\ (Go(m)' <=> Go(m) /\ m \notin taken)
  BY DEF Told, Go
<1>7. \A m \in taken : m \in Calls /\ Go(m) /\ ~Queued(m) /\ m # pushing
  BY <1>1 DEF IInv, AtMostOnce
<1>8. Len(listed') = 0 /\ listed' \in Seq(Calls)
  BY EmptySeq
<1>9. TypeOK'
  <2>1. cancelled' \subseteq Calls
    BY <1>7 DEF IInv, TypeOK
  <2>2. QED BY <1>1, <1>4, <1>8, <2>1 DEF IInv, TypeOK, links
<1>10. NoneTwice'
  <2>1. \A i \in 1..Len(queue), j \in 1..Len(listed) : queue[i].handle # listed[j]
    BY <1>7 DEF Queued
  <2>2. ASSUME NEW i \in 1..Len(queue'), NEW j \in 1..Len(queue'),
               queue'[i].handle = queue'[j].handle
        PROVE  i = j
    <3>1. CASE i <= Len(queue) /\ j <= Len(queue)
      BY <1>1, <1>4, <2>2, <3>1 DEF IInv, NoneTwice
    <3>2. CASE i > Len(queue) /\ j > Len(queue)
      <4>0. /\ i - Len(queue) \in 1..Len(listed) /\ j - Len(queue) \in 1..Len(listed)
            /\ i \in 1..(Len(queue) + Len(listed)) /\ j \in 1..(Len(queue) + Len(listed))
            /\ ~(i <= Len(queue)) /\ ~(j <= Len(queue))
        BY <1>1, <1>4, <3>2
      <4>1. listed[i - Len(queue)] = listed[j - Len(queue)]
        BY <1>4, <2>2, <4>0
      <4>2. i - Len(queue) = j - Len(queue)
        BY <4>0, <4>1 DEF IInv, NoneTwice
      <4>3. QED BY <1>4, <4>2
    <3>3. CASE i <= Len(queue) /\ j > Len(queue)
      <4>0. /\ i \in 1..Len(queue) /\ j - Len(queue) \in 1..Len(listed)
            /\ i \in 1..(Len(queue) + Len(listed)) /\ j \in 1..(Len(queue) + Len(listed))
            /\ ~(j <= Len(queue))
        BY ONLY <1>1, <1>4, <2>2, <3>3
      <4>1. queue[i].handle = listed[j - Len(queue)]
        BY ONLY <1>4, <2>2, <3>3, <4>0
      <4>2. QED BY <2>1, <4>0, <4>1
    <3>4. CASE j <= Len(queue) /\ i > Len(queue)
      <4>0. /\ j \in 1..Len(queue) /\ i - Len(queue) \in 1..Len(listed)
            /\ j \in 1..(Len(queue) + Len(listed)) /\ i \in 1..(Len(queue) + Len(listed))
            /\ ~(i <= Len(queue))
        BY ONLY <1>1, <1>4, <2>2, <3>4
      <4>1. queue[j].handle = listed[i - Len(queue)]
        BY ONLY <1>4, <2>2, <3>4, <4>0
      <4>2. QED BY <2>1, <4>0, <4>1
    <3>5. QED BY <1>1, <1>4, <3>1, <3>2, <3>3, <3>4
  <2>3. \A i, j \in 1..Len(listed') : listed'[i] = listed'[j] => i = j
    BY <1>8
  <2>4. \A i, j \in 1..Len(told') : told'[i].handle = told'[j].handle => i = j
    BY DEF IInv, NoneTwice
  <2>5. QED BY <2>2, <2>3, <2>4 DEF NoneTwice
<1>11. cancelled' = cancelled \cup taken
  OBVIOUS
<1> HIDE DEF taken
<1>12. Somewhere' /\ AtMostOnce'
  BY <1>1, <1>5, <1>6, <1>7 DEF IInv, Somewhere, AtMostOnce
<1>13. ListedRun' /\ CancelledPosted'
  BY <1>5, <1>6, <1>8, <1>11 DEF IInv, ListedRun, CancelledPosted
<1>14. Kept'
  <2>1. ASSUME NEW i \in 1..Len(queue') PROVE queue'[i].handle \in alive \cup cancelled'
    <3>1. CASE i <= Len(queue)
      BY <1>1, <1>4, <1>11, <3>1 DEF IInv, Kept
    <3>2. CASE i > Len(queue)
      <4>0. /\ i - Len(queue) \in 1..Len(listed) /\ ~(i <= Len(queue))
            /\ i \in 1..(Len(queue) + Len(listed))
        BY ONLY <1>1, <1>4, <3>2
      <4>1. i - Len(queue) \in 1..Len(listed) /\ queue'[i].handle = listed[i - Len(queue)]
        BY ONLY <1>4, <4>0
      <4>2. QED BY <4>1, <1>11 DEF taken
    <3>3. QED BY <1>4, <3>1, <3>2
  <2>2. QED BY <2>1 DEF IInv, Kept
<1>15. LostFirst'
  BY DEF IInv, LostFirst, links
<1>16. QED BY <1>9, <1>10, <1>12, <1>13, <1>14, <1>15 DEF IInv

--------------------------------------------------------------------------
LEMMA NextIInv == IInv /\ [Next]_vars => IInv'
<1> SUFFICES ASSUME IInv, [Next]_vars PROVE IInv'
  OBVIOUS
<1>1. CASE BeginCall
  BY <1>1, BeginCallKeeps
<1>2. CASE EndCall
  BY <1>2, EndCallKeeps
<1>3. CASE RunHandler
  BY <1>3, RunHandlerKeeps
<1>4. CASE Destroy
  BY <1>4, DestroyKeeps
<1>5. ASSUME NEW n \in running, NEW result \in Results, GoCalls(n, result) PROVE IInv'
  BY <1>5, GoCallsKeeps
<1>6. CASE UNCHANGED vars
  <2> USE <1>6 DEF vars, links
  <2>1. Calls' = Calls /\ Entry' = Entry
    BY DEF Calls, Entry
  <2>2. \A n : Go(n)' = Go(n) /\ Queued(n)' = Queued(n) /\ Told(n)' = Told(n)
    BY DEF Go, Queued, Told
  <2>3. TypeOK' /\ NoneTwice'
    BY <2>1 DEF IInv, TypeOK, NoneTwice
  <2>4. Somewhere' /\ AtMostOnce'
    BY <2>1, <2>2 DEF IInv, Somewhere, AtMostOnce
  <2>5. ListedRun' /\ CancelledPosted' /\ Kept' /\ LostFirst'
    BY <2>2 DEF IInv, ListedRun, CancelledPosted, Kept, LostFirst
  <2>6. QED BY <2>3, <2>4, <2>5 DEF IInv
<1>7. QED BY <1>1, <1>2, <1>3, <1>4, <1>5, <1>6 DEF Next

THEOREM Invariance == Spec => []IInv
<1>1. QED BY InitIInv, NextIInv, PTL DEF Spec

\* The variables keep their types for any number of calls.
THEOREM TypeCorrect == Spec => []TypeOK
<1>1. IInv => TypeOK
  BY DEF IInv
<1>2. QED BY <1>1, Invariance, PTL

\* No handle is deleted while the list, Go or the queue still leads to it; a
\* neighbour's hook leads to a deleted one only after a push, which takes no
\* mutex, lost its link to an unlink (backend.cpp 56, 68).
THEOREM NeverUsedAfterFree == Spec => []NothingFreedIsUsed
<1>1. IInv => NothingFreedIsUsed
  BY DEF IInv, NothingFreedIsUsed, Kept, ListedRun, LostFirst, Go
<1>2. QED BY <1>1, Invariance, PTL

\* However the operations, the destructor and the io_service race, every handler
\* is in one place, and only the destructor loses one.
THEOREM HandlersOnce == Spec => []EachHandlerOnce
<1>1. IInv => EachHandlerOnce
  <2> SUFFICES ASSUME IInv, NEW n \in Calls PROVE Cardinality(Holders(n)) = 1
    BY DEF EachHandlerOnce, IInv, Kept
  <2> DEFINE inQueue == {<<"queue", i>> : i \in {j \in 1..Len(queue) : queue[j].handle = n}}
             inTold == {<<"told", i>> : i \in {j \in 1..Len(told) : told[j].handle = n}}
  <2>0. /\ \A i, j \in 1..Len(queue) : queue[i].handle = queue[j].handle => i = j
        /\ \A i, j \in 1..Len(told) : told[i].handle = told[j].handle => i = j
    BY DEF IInv, NoneTwice
  <2>1. ~Queued(n) => inQueue = {}
    BY DEF Queued
  <2>2. Queued(n) => \E x : inQueue = {x}
    <3>1. SUFFICES ASSUME Queued(n) PROVE \E x : inQueue = {x}
      OBVIOUS
    <3>2. PICK i \in 1..Len(queue) : queue[i].handle = n
      BY <3>1 DEF Queued
    <3>3. \A j \in 1..Len(queue) : queue[j].handle = n <=> j = i
      BY <2>0, <3>2
    <3>4. inQueue = {<<"queue", i>>}
      BY <3>2, <3>3
    <3>5. QED BY <3>4
  <2>3. ~Told(n) => inTold = {}
    BY DEF Told
  <2>4. Told(n) => \E x : inTold = {x}
    <3>1. SUFFICES ASSUME Told(n) PROVE \E x : inTold = {x}
      OBVIOUS
    <3>2. PICK i \in 1..Len(told) : told[i].handle = n
      BY <3>1 DEF Told
    <3>3. \A j \in 1..Len(told) : told[j].handle = n <=> j = i
      BY <2>0, <3>2
    <3>4. inTold = {<<"told", i>>}
      BY <3>2, <3>3
    <3>5. QED BY <3>4
  <2> DEFINE pushed == {<<"pushed">> : x \in {pushing} \cap {n}}
             go == {<<"go">> : x \in (running \ cancelled) \cap {n}}
             lost == {<<"dropped">> : x \in dropped \cap {n}}
  <2>5. /\ n = pushing => pushed = {<<"pushed">>}
        /\ n # pushing => pushed = {}
    OBVIOUS
  <2>6. /\ Go(n) => go = {<<"go">>}
        /\ ~Go(n) => go = {}
    BY DEF Go
  <2>7. /\ n \in dropped => lost = {<<"dropped">>}
        /\ n \notin dropped => lost = {}
    OBVIOUS
  <2>8. Holders(n) = pushed \cup go \cup inQueue \cup inTold \cup lost
    BY DEF Holders
  <2> HIDE DEF pushed, go, lost, inQueue, inTold
  <2>9. \E x : Holders(n) = {x}
    <3>1. CASE n = pushing
      <4>1. ~Go(n) /\ ~Queued(n) /\ ~Told(n) /\ n \notin dropped
        BY <3>1 DEF IInv, AtMostOnce
      <4>2. QED BY <3>1, <4>1, <2>1, <2>3, <2>5, <2>6, <2>7, <2>8
    <3>2. CASE Go(n)
      <4>1. n # pushing /\ ~Queued(n) /\ ~Told(n) /\ n \notin dropped
        BY <3>2 DEF IInv, AtMostOnce
      <4>2. QED BY <3>2, <4>1, <2>1, <2>3, <2>5, <2>6, <2>7, <2>8
    <3>3. CASE Queued(n)
      <4>1. n # pushing /\ ~Go(n) /\ ~Told(n) /\ n \notin dropped
        BY <3>3 DEF IInv, AtMostOnce
      <4>2. QED BY <3>3, <4>1, <2>2, <2>3, <2>5, <2>6, <2>7, <2>8
    <3>4. CASE Told(n)
      <4>1. n # pushing /\ ~Go(n) /\ ~Queued(n) /\ n \notin dropped
        BY <3>4 DEF IInv, AtMostOnce
      <4>2. QED BY <3>4, <4>1, <2>1, <2>4, <2>5, <2>6, <2>7, <2>8
    <3>5. CASE n \in dropped
      <4>1. n # pushing /\ ~Go(n) /\ ~Queued(n) /\ ~Told(n)
        BY <3>5 DEF IInv, AtMostOnce
      <4>2. QED BY <3>5, <4>1, <2>1, <2>3, <2>5, <2>6, <2>7, <2>8
    <3>6. QED BY <3>1, <3>2, <3>3, <3>4, <3>5 DEF IInv, Somewhere
  <2>10. QED BY <2>9, FS_Singleton
<1>2. QED BY <1>1, Invariance, PTL
==========================================================================
