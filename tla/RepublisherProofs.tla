------------------------ MODULE RepublisherProofs ------------------------
(***************************************************************************)
(* The safety of Republisher.tla for any number of requests, and that it   *)
(* is a correct implementation of Requests.tla up to liveness.             *)
(***************************************************************************)
EXTENDS Republisher, SequenceTheorems, TLAPS

--------------------------------------------------------------------------
\* The queue

LEMMA QueueBasics ==
    ASSUME NEW q \in Seq(Nat)
    PROVE  /\ Len(q) \in Nat
           /\ q = <<>> <=> Len(q) = 0
           /\ q # <<>> => Head(q) = q[1] /\ q[1] \in Nat
           /\ q # <<>> => /\ Tail(q) \in Seq(Nat) /\ Len(Tail(q)) = Len(q) - 1
                          /\ \A i \in 1..Len(Tail(q)) : Tail(q)[i] = q[i + 1]
<1>1. Len(q) \in Nat /\ (q = <<>> <=> Len(q) = 0)
    BY EmptySeq
<1>2. q # <<>> => Head(q) = q[1] /\ q[1] \in Nat
    BY <1>1, ElementOfSeq
<1> QED
    BY <1>1, <1>2, HeadTailProperties

LEMMA PopRequest ==
    ASSUME NEW q \in Seq(Nat), NEW t \in Nat, NEW r \in Nat,
           Ordered(q, t, r), q # <<>>, Head(q) # NoCallback
    PROVE  Head(q) = t + 1 /\ Ordered(Tail(q), t + 1, r)
<1>1. /\ Len(q) \in Nat /\ Len(q) # 0 /\ Head(q) = q[1] /\ q[1] \in Nat
      /\ Tail(q) \in Seq(Nat) /\ Len(Tail(q)) = Len(q) - 1
      /\ \A i \in 1..Len(Tail(q)) : Tail(q)[i] = q[i + 1]
    BY QueueBasics
<1>2. r = t + Len(q)
    BY <1>1 DEF Ordered
<1>3. q[1] = r - Len(q) + 1
    BY <1>1 DEF Ordered
<1>4. \A i \in 1..Len(Tail(q)) : Tail(q)[i] # NoCallback /\ Tail(q)[i] = r - Len(q) + (i + 1)
    BY <1>1 DEF Ordered
<1>5. Tail(q) # <<>> => 1 \in 1..Len(Tail(q))
    BY <1>1, EmptySeq
<1>6. Tail(q) # <<>> => Tail(q)[1] # NoCallback
    BY <1>4, <1>5
<1>7. \A i \in 1..Len(Tail(q)) : Tail(q)[i] = r - Len(Tail(q)) + i
    BY <1>1, <1>4
<1>8. r = t + 1 + Len(Tail(q))
    BY <1>1, <1>2
<1>9. \A i \in 2..Len(Tail(q)) : Tail(q)[i] # NoCallback
    BY <1>1, <1>4
<1>10. Ordered(Tail(q), t + 1, r)
    <2> DEFINE p == Tail(q)
    <2>1. \A i \in 1..Len(p) : p[i] # NoCallback => p[i] = r - Len(p) + i
        BY <1>7
    <2>2. r = t + 1 + (IF p # <<>> /\ p[1] = NoCallback THEN Len(p) - 1 ELSE Len(p))
        BY <1>6, <1>8
    <2> QED
        BY <2>1, <2>2, <1>9 DEF Ordered
<1> QED
    BY <1>1, <1>2, <1>3, <1>10

LEMMA PopEmptyEntry ==
    ASSUME NEW q \in Seq(Nat), NEW t \in Nat, NEW r \in Nat,
           Ordered(q, t, r), q # <<>>, Head(q) = NoCallback
    PROVE  Ordered(Tail(q), t, r)
<1>1. /\ Len(q) \in Nat /\ Len(q) # 0 /\ Head(q) = q[1]
      /\ Tail(q) \in Seq(Nat) /\ Len(Tail(q)) = Len(q) - 1
      /\ \A i \in 1..Len(Tail(q)) : Tail(q)[i] = q[i + 1]
    BY QueueBasics
<1>2. r = t + Len(q) - 1
    BY <1>1 DEF Ordered
<1>3. \A i \in 1..Len(Tail(q)) : Tail(q)[i] # NoCallback /\ Tail(q)[i] = r - Len(q) + (i + 1)
    BY <1>1 DEF Ordered
<1>4. Tail(q) # <<>> => Tail(q)[1] # NoCallback
    BY <1>1, <1>3, QueueBasics, SMTT(30)
<1> QED
    BY <1>1, <1>2, <1>3, <1>4 DEF Ordered

LEMMA PushRequest ==
    ASSUME NEW q \in Seq(Nat), NEW t \in Nat, NEW r \in Nat, Ordered(q, t, r)
    PROVE  Ordered(Append(q, r + 1), t, r + 1)
<1> DEFINE p == Append(q, r + 1)
<1>1. Len(q) \in Nat /\ (q = <<>> <=> Len(q) = 0)
    BY QueueBasics
<1>2. /\ p \in Seq(Nat) /\ Len(p) = Len(q) + 1 /\ p # <<>>
      /\ p[Len(q) + 1] = r + 1
      /\ \A i \in 1..Len(q) : p[i] = q[i]
    BY <1>1
<1>3. \A i \in 1..Len(p) : i \in 1..Len(q) \/ i = Len(q) + 1
    BY <1>1, <1>2
<1>4. \A i \in 1..Len(p) : p[i] # NoCallback => p[i] = r + 1 - Len(p) + i
    BY <1>1, <1>2, <1>3 DEF Ordered
<1>5. \A i \in 2..Len(p) : p[i] # NoCallback
    BY <1>1, <1>2, <1>3 DEF Ordered, NoCallback
<1>6. p[1] = NoCallback <=> q # <<>> /\ q[1] = NoCallback
    BY <1>1, <1>2 DEF NoCallback
<1>7. r + 1 = t + (IF p # <<>> /\ p[1] = NoCallback THEN Len(p) - 1 ELSE Len(p))
    BY <1>1, <1>2, <1>6 DEF Ordered
<1> HIDE DEF p
<1>8. Ordered(p, t, r + 1)
    BY <1>4, <1>5, <1>7 DEF Ordered
<1> QED
    BY <1>8 DEF p

LEMMA PushEmptyEntry ==
    ASSUME NEW t \in Nat, NEW r \in Nat, Ordered(<<>>, t, r)
    PROVE  Ordered(Append(<<>>, NoCallback), t, r)
BY DEF Ordered, NoCallback

--------------------------------------------------------------------------
\* The list and the flags agree, whoever runs: nothing waits unless a
\* publication is under way, and the destructor leaves nothing behind.
ListsAgree ==
    /\ toPublish = requested
    /\ ~destroyed => posted = <<>> /\ (isPublishing \/ callbacks = <<>>)
    /\ destroyed => callbacks = <<>> /\ ~armed
    /\ crashed => destroyed

\* last_i stays inside the list, and the callbacks up to it asked for an id
\* that is not newer than the one that is being, or was, published.
RoundCovers ==
    /\ (~destroyed /\ inflight # <<>>) =>
        LET p == Head(inflight)
        IN  p.last <= Len(callbacks) /\ \A i \in 1..p.last : callbacks[i] <= p.id
    /\ (~destroyed /\ round # Idle) =>
        /\ round.left <= Len(callbacks)
        /\ \A i \in 1..round.left : callbacks[i] <= round.id
    /\ round.result = "none" => round = Idle

\* The inductive invariant.  OkMeansPublished needs RoundCovers for the
\* callbacks still to be told, InOrder needs ListsAgree for the timer's entry.
IInv ==
    /\ TypeOK /\ InOrder /\ OkMeansPublished /\ OneAtATime /\ KeepsRepublishing
    /\ ListsAgree /\ RoundCovers

LEMMA InitIInv == Init => IInv
<1> SUFFICES ASSUME Init PROVE IInv
    OBVIOUS
<1>1. /\ <<>> \in Seq(Nat) /\ <<>> \in Seq([id : Nat, last : Nat \ {0}])
      /\ <<>> \in Seq([request : Nat, result : Results \cup {"aborted"}, id : Nat])
    OBVIOUS
<1>2. Len(<<>>) = 0
    BY EmptySeq
<1>3. Ordered(<<>>, 0, 0)
    BY <1>2 DEF Ordered
<1>4. Idle \in [left : Nat, id : Nat, result : Results \cup {"none"}, inCallback : BOOLEAN]
    BY DEF Idle
<1>5. TypeOK
    BY <1>1, <1>4 DEF Init, TypeOK
<1>6. InOrder /\ OkMeansPublished
    BY <1>2, <1>3 DEF Init, InOrder, OkMeansPublished, Waiting
<1>7. OneAtATime
    BY <1>2 DEF Init, OneAtATime
<1>8. KeepsRepublishing /\ ListsAgree
    BY DEF Init, KeepsRepublishing, ListsAgree
<1>9. RoundCovers
    BY DEF Init, RoundCovers
<1> QED
    BY <1>5, <1>6, <1>7, <1>8, <1>9 DEF IInv

\* Whatever waits asked for an id that is not newer than the last one.
LEMMA WaitingIsOld ==
    ASSUME NEW q \in Seq(Nat), NEW t \in Nat, NEW r \in Nat, Ordered(q, t, r)
    PROVE  \A i \in 1..Len(q) : q[i] <= r
<1>1. Len(q) \in Nat
    BY QueueBasics
<1> QED
    BY <1>1 DEF Ordered, NoCallback

LEMMA OneInFlight ==
    ASSUME NEW F, NEW e \in F
    PROVE  /\ Append(<<>>, e) \in Seq(F) /\ Append(<<>>, e) # <<>>
           /\ Len(Append(<<>>, e)) = 1 /\ Head(Append(<<>>, e)) = e
BY EmptySeq

LEMMA Starts ==
    ASSUME NEW cbs \in Seq(Nat), NEW id \in Nat, inflight = <<>>,
           StartPublishing(cbs, id)
    PROVE  /\ inflight' \in Seq([id : Nat, last : Nat \ {0}])
           /\ isPublishing' \in BOOLEAN /\ armed' \in BOOLEAN
           /\ isPublishing' <=> inflight' # <<>>
           /\ isPublishing' <=> cbs # <<>>
           /\ armed' <=> ~isPublishing'
           /\ Len(inflight') <= 1
           /\ inflight' # <<>> => Head(inflight') = [id |-> id, last |-> Len(cbs)]
<1> DEFINE F == [id : Nat, last : Nat \ {0}]
<1> DEFINE e == [id |-> id, last |-> Len(cbs)]
<1>1. CASE cbs = <<>>
    <2>1. isPublishing' = FALSE /\ armed' = TRUE /\ inflight' = <<>>
        BY <1>1 DEF NoneWaits, TimerSet, StartPublishing
    <2>2. <<>> \in Seq([id : Nat, last : Nat \ {0}]) /\ Len(<<>>) = 0
        BY EmptySeq
    <2>3. inflight' \in Seq([id : Nat, last : Nat \ {0}]) /\ Len(inflight') <= 1
        BY <2>1, <2>2
    <2> HIDE DEF F, e
    <2> QED
        BY <1>1, <2>1, <2>3
<1>2. CASE cbs # <<>>
    <2>1. e \in F
        BY <1>2, EmptySeq
    <2>2. isPublishing' = TRUE /\ armed' = FALSE /\ inflight' = Append(<<>>, e)
        BY <1>2 DEF NoneWaits, StartPublishing
    <2> HIDE DEF F, e
    <2>3. inflight' \in Seq(F) /\ inflight' # <<>> /\ Len(inflight') = 1 /\ Head(inflight') = e
        BY <2>1, <2>2, OneInFlight
    <2>4. Head(inflight') = [id |-> id, last |-> Len(cbs)]
        BY <2>3 DEF e
    <2>5. inflight' \in Seq([id : Nat, last : Nat \ {0}])
        BY <2>3 DEF F
    <2>6. Len(inflight') <= 1
        BY <2>3
    <2> QED
        BY <1>2, <2>2, <2>3, <2>4, <2>5, <2>6
<1> QED
    BY <1>1, <1>2

LEMMA FirstInFlight ==
    ASSUME TypeOK, inflight # <<>>
    PROVE  /\ Head(inflight) \in [id : Nat, last : Nat \ {0}]
           /\ Tail(inflight) \in Seq([id : Nat, last : Nat \ {0}])
           /\ Len(inflight) \in Nat /\ Len(Tail(inflight)) = Len(inflight) - 1
<1> DEFINE F == [id : Nat, last : Nat \ {0}]
<1>1. inflight \in Seq(F)
    BY DEF TypeOK
<1> HIDE DEF F
<1>2. /\ Head(inflight) \in F /\ Tail(inflight) \in Seq(F)
      /\ Len(inflight) \in Nat /\ Len(Tail(inflight)) = Len(inflight) - 1
    BY <1>1, HeadTailProperties
<1> QED
    BY <1>2 DEF F

\* A round over cbs that begins now: everything a step has to know about it.
LEMMA StartsCovered ==
    ASSUME NEW cbs \in Seq(Nat), NEW id \in Nat, inflight = <<>>, round' = Idle,
           StartPublishing(cbs, id), callbacks' = cbs,
           \A i \in 1..Len(cbs) : cbs[i] <= id
    PROVE  RoundCovers'
<1>1. inflight' # <<>> => Head(inflight') = [id |-> id, last |-> Len(cbs)]
    BY Starts
<1>2. Len(cbs) \in Nat
    BY EmptySeq
<1> QED
    BY <1>1, <1>2 DEF RoundCovers

--------------------------------------------------------------------------
\* One lemma per action

LEMMA PublishStep ==
    ASSUME IInv, Publish
    PROVE  IInv'
<1>1. /\ ~destroyed /\ ~crashed /\ (round = Idle \/ round.inCallback)
      /\ requested' = requested + 1 /\ toPublish' = requested + 1
      /\ callbacks' = Append(callbacks, requested + 1)
      /\ requested \in Nat /\ callbacks \in Seq(Nat) /\ Len(told) \in Nat
      /\ UNCHANGED <<fired, round, destroyed, posted, told, crashed>>
    BY EmptySeq DEF Publish, MayCall, IInv, TypeOK
<1>2. /\ callbacks' \in Seq(Nat) /\ callbacks' # <<>>
      /\ Len(callbacks') = Len(callbacks) + 1 /\ Len(callbacks) \in Nat
      /\ \A i \in 1..Len(callbacks) : callbacks'[i] = callbacks[i]
    BY <1>1, QueueBasics
<1>3. Ordered(callbacks', Len(told), requested')
    BY <1>1, PushRequest DEF IInv, InOrder, Waiting
<1>4. InOrder' /\ OkMeansPublished' /\ ListsAgree'
    <2>1. isPublishing'
        BY <1>2 DEF Busy, NoneWaits, Publish, StartPublishing
    <2> QED
        BY <1>1, <1>3, <2>1 DEF IInv, InOrder, Waiting, OkMeansPublished, ListsAgree
<1>5. CASE isPublishing
    <2>1. UNCHANGED <<isPublishing, armed, inflight>>
        BY <1>5 DEF Busy, Publish
    <2>2. TypeOK' /\ OneAtATime' /\ KeepsRepublishing'
        BY <1>1, <1>2, <1>5, <2>1 DEF IInv, TypeOK, OneAtATime, KeepsRepublishing
    <2>3. RoundCovers'
        <3>1. inflight # <<>> => Head(inflight).last \in Nat
            BY FirstInFlight DEF IInv
        <3>2. round.left \in Nat
            BY DEF IInv, TypeOK
        <3> QED
            BY <1>1, <1>2, <2>1, <3>1, <3>2 DEF IInv, RoundCovers
    <2> QED
        BY <1>4, <2>2, <2>3 DEF IInv
<1>6. CASE ~isPublishing
    <2>1. inflight = <<>> /\ round = Idle
        BY <1>1, <1>6 DEF IInv, OneAtATime
    <2>2. StartPublishing(callbacks', toPublish')
        BY <1>6 DEF Busy, Publish
    <2>3. callbacks' \in Seq(Nat) /\ requested' \in Nat /\ toPublish' = requested'
        BY <1>1, <1>2
    <2>a. /\ inflight' \in Seq([id : Nat, last : Nat \ {0}])
          /\ isPublishing' \in BOOLEAN /\ armed' \in BOOLEAN
          /\ isPublishing' <=> inflight' # <<>>
          /\ isPublishing' <=> callbacks' # <<>>
          /\ armed' <=> ~isPublishing'
          /\ Len(inflight') <= 1
        BY <2>1, <2>2, <2>3, Starts
    <2>4. TypeOK' /\ OneAtATime' /\ KeepsRepublishing'
        BY <1>1, <1>2, <2>1, <2>a DEF IInv, TypeOK, OneAtATime, KeepsRepublishing
    <2>5. \A i \in 1..Len(callbacks') : callbacks'[i] <= requested'
        BY <1>1, <1>3, <2>3, WaitingIsOld
    <2>6. RoundCovers'
        BY <1>1, <2>1, <2>2, <2>3, <2>5, StartsCovered
    <2> QED
        BY <1>4, <2>4, <2>6 DEF IInv
<1> QED
    BY <1>5, <1>6

LEMMA TimerExpiresStep ==
    ASSUME IInv, TimerExpires
    PROVE  IInv'
<1>1. /\ armed' = FALSE /\ fired' = fired + 1 /\ fired \in Nat
      /\ UNCHANGED <<requested, toPublish, callbacks, isPublishing, inflight,
                     round, destroyed, posted, told, crashed>>
    BY DEF TimerExpires, IInv, TypeOK
<1>a. fired' \in Nat /\ fired' > 0
    BY <1>1
<1>b. armed' \in BOOLEAN
    BY <1>1
<1>2. TypeOK' /\ KeepsRepublishing'
    <2>1. TypeOK'
        BY <1>1, <1>a, <1>b DEF IInv, TypeOK
    <2>2. KeepsRepublishing'
        BY <1>a DEF KeepsRepublishing
    <2> QED
        BY <2>1, <2>2
<1>3. OneAtATime' /\ ListsAgree'
    BY <1>1 DEF IInv, OneAtATime, ListsAgree
<1>4. InOrder' /\ OkMeansPublished' /\ RoundCovers'
    BY <1>1 DEF IInv, InOrder, Waiting, OkMeansPublished, RoundCovers
<1> QED
    BY <1>2, <1>3, <1>4 DEF IInv

LEMMA TimerHandlerStep ==
    ASSUME IInv, TimerHandler
    PROVE  IInv'
<1>1. /\ fired \in Nat /\ fired > 0 /\ fired' = fired - 1 /\ round = Idle /\ ~crashed
      /\ UNCHANGED <<requested, toPublish, round, destroyed, posted, told, crashed>>
      /\ requested \in Nat /\ toPublish \in Nat /\ Len(told) \in Nat
    BY EmptySeq DEF TimerHandler, IInv, TypeOK
<1>2. CASE destroyed \/ isPublishing
    <2>1. UNCHANGED <<callbacks, isPublishing, armed, inflight>>
        BY <1>2 DEF TimerHandler
    <2>2. TypeOK'
        BY <1>1, <2>1 DEF IInv, TypeOK
    <2>3. OneAtATime' /\ ListsAgree'
        BY <1>1, <2>1 DEF IInv, OneAtATime, ListsAgree
    <2>4. KeepsRepublishing'
        BY <1>1, <1>2 DEF TimerHandler, KeepsRepublishing
    <2>5. InOrder' /\ OkMeansPublished' /\ RoundCovers'
        BY <1>1, <2>1 DEF IInv, InOrder, Waiting, OkMeansPublished, RoundCovers
    <2> QED
        BY <2>2, <2>3, <2>4, <2>5 DEF IInv
<1>3. CASE ~destroyed /\ ~isPublishing
    <2>1. inflight = <<>> /\ callbacks = <<>> /\ toPublish = requested /\ posted = <<>>
        BY <1>3 DEF IInv, OneAtATime, ListsAgree
    <2>2. callbacks' = Append(<<>>, NoCallback) /\ StartPublishing(callbacks', toPublish)
        BY <1>3, <2>1 DEF WithEntry, TimerHandler
    <2>3. callbacks' \in Seq(Nat) /\ callbacks' # <<>>
        BY <2>2 DEF NoCallback
    <2>4. /\ inflight' \in Seq([id : Nat, last : Nat \ {0}])
          /\ isPublishing' \in BOOLEAN /\ armed' \in BOOLEAN
          /\ isPublishing' <=> inflight' # <<>>
          /\ isPublishing' <=> callbacks' # <<>>
          /\ armed' <=> ~isPublishing'
          /\ Len(inflight') <= 1
        BY <1>1, <2>1, <2>2, <2>3, Starts
    <2>5. TypeOK' /\ OneAtATime' /\ KeepsRepublishing'
        BY <1>1, <1>3, <2>1, <2>3, <2>4 DEF IInv, TypeOK, OneAtATime, KeepsRepublishing
    <2>6. Ordered(callbacks', Len(told), requested)
        BY <1>1, <1>3, <2>1, <2>2, PushEmptyEntry DEF IInv, InOrder, Waiting
    <2>7. InOrder' /\ OkMeansPublished' /\ ListsAgree'
        BY <1>1, <1>3, <2>1, <2>3, <2>4, <2>6
           DEF IInv, InOrder, Waiting, OkMeansPublished, ListsAgree
    <2>8. \A i \in 1..Len(callbacks') : callbacks'[i] <= requested
        BY <1>1, <2>3, <2>6, WaitingIsOld
    <2>9. RoundCovers'
        BY <1>1, <2>1, <2>2, <2>3, <2>8, StartsCovered
    <2> QED
        BY <2>5, <2>7, <2>9 DEF IInv
<1> QED
    BY <1>2, <1>3

LEMMA CompletedStep ==
    ASSUME IInv, NEW result \in Results, Completed(result)
    PROVE  IInv'
<1> DEFINE p == Head(inflight)
<1>1. /\ inflight # <<>> /\ round = Idle /\ ~crashed /\ inflight' = Tail(inflight)
      /\ UNCHANGED <<requested, toPublish, callbacks, isPublishing, armed, fired,
                     destroyed, posted, told, crashed>>
      /\ round' = IF destroyed THEN Idle
                  ELSE [left |-> p.last, id |-> p.id, result |-> result, inCallback |-> FALSE]
    BY DEF UpToLast, Completed
<1>2. /\ p \in [id : Nat, last : Nat \ {0}]
      /\ inflight' \in Seq([id : Nat, last : Nat \ {0}])
      /\ Len(inflight) \in Nat /\ Len(inflight') = Len(inflight) - 1
    BY <1>1, FirstInFlight DEF IInv
<1> HIDE DEF p
<1>3. round' \in [left : Nat, id : Nat, result : Results \cup {"none"}, inCallback : BOOLEAN]
    BY <1>1, <1>2 DEF Idle, Results
<1>4. TypeOK' /\ InOrder' /\ OkMeansPublished' /\ ListsAgree' /\ KeepsRepublishing'
    <2>1. TypeOK'
        BY <1>1, <1>2, <1>3 DEF IInv, TypeOK
    <2>2. InOrder' /\ OkMeansPublished' /\ ListsAgree' /\ KeepsRepublishing'
        BY <1>1 DEF IInv, InOrder, Waiting, OkMeansPublished, ListsAgree, KeepsRepublishing
    <2> QED
        BY <2>1, <2>2
<1>5. CASE destroyed
    <2>1. OneAtATime' /\ RoundCovers'
        BY <1>1, <1>5 DEF OneAtATime, RoundCovers
    <2> QED
        BY <1>4, <2>1 DEF IInv
<1>6. CASE ~destroyed
    <2>1. inflight' = <<>> /\ isPublishing
        BY <1>1, <1>2, <1>6, EmptySeq DEF IInv, OneAtATime
    <2>2. /\ round'.left = p.last /\ round'.id = p.id /\ round'.result = result
          /\ round'.left # 0 /\ round' # Idle /\ result # "none"
        BY <1>1, <1>2, <1>6 DEF Idle, Results
    <2>a. isPublishing'
        BY <1>1, <2>1
    <2>b. Len(inflight') <= 1
        BY <1>2, <1>6 DEF IInv, OneAtATime
    <2>3. OneAtATime'
        BY <2>1, <2>2, <2>a, <2>b DEF OneAtATime
    <2>4. RoundCovers'
        BY <1>1, <1>6, <2>1, <2>2 DEF IInv, RoundCovers, p
    <2> QED
        BY <1>4, <2>3, <2>4 DEF IInv
<1> QED
    BY <1>5, <1>6

LEMMA DeliverStep ==
    ASSUME IInv, Deliver
    PROVE  IInv'
<1> DEFINE n == Head(callbacks)
<1>1. /\ round.left > 0 /\ ~destroyed
      /\ callbacks' = Tail(callbacks)
      /\ round' = [round EXCEPT !.left = @ - 1, !.inCallback = n # NoCallback]
      /\ UNCHANGED <<requested, toPublish, isPublishing, armed, fired, inflight,
                     destroyed, posted, crashed>>
      /\ requested \in Nat /\ Len(told) \in Nat /\ callbacks \in Seq(Nat)
      /\ round \in [left : Nat, id : Nat, result : Results \cup {"none"}, inCallback : BOOLEAN]
    BY EmptySeq DEF Deliver, IInv, TypeOK
<1>2. round # Idle /\ round.left <= Len(callbacks) /\ round.result \in Results
    BY <1>1 DEF IInv, RoundCovers, Idle
<1>3. callbacks # <<>>
    BY <1>1, <1>2, EmptySeq
<1>4. /\ n = callbacks[1] /\ n \in Nat /\ callbacks' \in Seq(Nat)
      /\ Len(callbacks) \in Nat /\ Len(callbacks') = Len(callbacks) - 1
      /\ \A i \in 1..Len(callbacks') : callbacks'[i] = callbacks[i + 1]
    BY <1>1, <1>3, QueueBasics
<1>5. n <= round.id
    BY <1>1, <1>2, <1>4, SMTT(30) DEF IInv, RoundCovers
<1>6. inflight = <<>> /\ isPublishing
    BY <1>1, <1>2 DEF IInv, OneAtATime
<1>7. Ordered(callbacks, Len(told), requested)
    BY <1>1 DEF IInv, InOrder, Waiting
<1> HIDE DEF n
<1>8. /\ round' \in [left : Nat, id : Nat, result : Results \cup {"none"}, inCallback : BOOLEAN]
      /\ round'.left = round.left - 1 /\ round'.id = round.id
      /\ round'.result = round.result /\ round' # Idle
    <2>1. /\ (n # NoCallback) \in BOOLEAN
          /\ round.left \in Nat /\ round.left - 1 \in Nat /\ round.id \in Nat
        BY <1>1
    <2>2. round' = [left |-> round.left - 1, id |-> round.id, result |-> round.result,
                    inCallback |-> (n # NoCallback)]
        BY <1>1
    <2>3. round'.result = round.result /\ round'.left = round.left - 1 /\ round'.id = round.id
        BY <2>2
    <2>4. round' # Idle
        BY <1>2, <2>3 DEF Results, Idle
    <2> QED
        BY <1>2, <2>1, <2>2, <2>3, <2>4
<1>9. RoundCovers' /\ ListsAgree' /\ KeepsRepublishing'
    <2>1. \A i \in 1..round'.left : callbacks'[i] <= round'.id
        <3> SUFFICES ASSUME NEW i \in 1..round'.left PROVE callbacks'[i] <= round'.id
            OBVIOUS
        <3>a. round.left \in Nat /\ round'.left = round.left - 1
            BY <1>1, <1>8
        <3>1. i + 1 \in 1..round.left /\ i \in 1..Len(callbacks')
            BY <1>2, <1>4, <3>a
        <3>2. callbacks[i + 1] <= round.id
            BY <1>1, <1>2, <3>1 DEF IInv, RoundCovers
        <3> QED
            BY <1>4, <1>8, <3>1, <3>2
    <2>2. RoundCovers'
        BY <1>1, <1>2, <1>4, <1>6, <1>8, <2>1 DEF RoundCovers, Results
    <2> QED
        BY <1>1, <1>6, <2>2 DEF IInv, ListsAgree, KeepsRepublishing
<1>10. OneAtATime'
    BY <1>1, <1>6, <1>8 DEF IInv, OneAtATime
<1>11. CASE n = NoCallback
    <2>1. told' = told
        BY <1>11 DEF Deliver, n
    <2>2. Ordered(callbacks', Len(told), requested)
        BY <1>1, <1>3, <1>7, <1>11, PopEmptyEntry DEF n
    <2>3. InOrder' /\ OkMeansPublished'
        BY <1>1, <2>1, <2>2 DEF IInv, InOrder, OkMeansPublished, Waiting
    <2>4. TypeOK'
        BY <1>1, <1>4, <1>8, <2>1 DEF IInv, TypeOK
    <2> QED
        BY <1>9, <1>10, <2>3, <2>4 DEF IInv
<1>12. CASE n # NoCallback
    <2> DEFINE e == [request |-> n, result |-> round.result, id |-> round.id]
    <2>1. told' = Append(told, e)
        BY <1>12 DEF Deliver, Tell, n
    <2>2. n = Len(told) + 1 /\ Ordered(callbacks', Len(told) + 1, requested)
        BY <1>1, <1>3, <1>7, <1>12, PopRequest DEF n
    <2>3. e \in [request : Nat, result : Results \cup {"aborted"}, id : Nat]
        BY <1>1, <1>2, <1>4
    <2>4. told' \in Seq([request : Nat, result : Results \cup {"aborted"}, id : Nat])
        BY <2>1, <2>3 DEF IInv, TypeOK
    <2>5. TypeOK'
        BY <1>1, <1>4, <1>8, <2>4 DEF IInv, TypeOK
    <2>6. /\ e.request = Len(told) + 1 /\ e.id >= e.request
        BY <1>1, <1>4, <1>5, <2>2
    <2> HIDE DEF e
    <2>7. /\ Len(told') = Len(told) + 1 /\ told'[Len(told) + 1] = e
          /\ \A i \in 1..Len(told) : told'[i] = told[i]
        BY <2>1 DEF IInv, TypeOK
    <2>8. InOrder' /\ OkMeansPublished'
        <3>1. \A i \in 1..Len(told') : i \in 1..Len(told) \/ i = Len(told) + 1
            BY <1>1, <2>7
        <3>2. \A i \in 1..Len(told') : told'[i].request = i
            BY <2>6, <2>7, <3>1 DEF IInv, InOrder
        <3>3. OkMeansPublished'
            BY <2>6, <2>7, <3>1 DEF IInv, OkMeansPublished
        <3>4. Ordered(Waiting', Len(told'), requested')
            BY <1>1, <2>2, <2>7 DEF Waiting
        <3> QED
            BY <3>2, <3>3, <3>4 DEF InOrder
    <2> QED
        BY <1>9, <1>10, <2>5, <2>8 DEF IInv
<1> QED
    BY <1>11, <1>12

LEMMA FinishRoundStep ==
    ASSUME IInv, FinishRound
    PROVE  IInv'
<1>1. /\ round # Idle /\ round.left = 0 /\ ~destroyed /\ round' = Idle
      /\ StartPublishing(callbacks, toPublish)
      /\ UNCHANGED <<requested, toPublish, callbacks, fired, destroyed, posted, told, crashed>>
      /\ requested \in Nat /\ toPublish \in Nat /\ Len(told) \in Nat
      /\ callbacks \in Seq(Nat)
    BY EmptySeq DEF FinishRound, IInv, TypeOK
<1>2. inflight = <<>> /\ toPublish = requested /\ posted = <<>>
    BY <1>1 DEF IInv, OneAtATime, ListsAgree
<1>3. /\ inflight' \in Seq([id : Nat, last : Nat \ {0}])
      /\ isPublishing' \in BOOLEAN /\ armed' \in BOOLEAN
      /\ isPublishing' <=> inflight' # <<>>
      /\ isPublishing' <=> callbacks # <<>>
      /\ armed' <=> ~isPublishing'
      /\ Len(inflight') <= 1
    BY <1>1, <1>2, Starts
<1>4. Idle \in [left : Nat, id : Nat, result : Results \cup {"none"}, inCallback : BOOLEAN]
    BY DEF Idle
<1>5. TypeOK' /\ OneAtATime' /\ KeepsRepublishing'
    BY <1>1, <1>3, <1>4 DEF IInv, TypeOK, OneAtATime, KeepsRepublishing
<1>6. InOrder' /\ OkMeansPublished' /\ ListsAgree'
    BY <1>1, <1>2, <1>3 DEF IInv, InOrder, Waiting, OkMeansPublished, ListsAgree
<1>7. \A i \in 1..Len(callbacks) : callbacks[i] <= toPublish
    BY <1>1, <1>2, WaitingIsOld DEF IInv, InOrder, Waiting
<1>8. RoundCovers'
    BY <1>1, <1>2, <1>7, StartsCovered
<1> QED
    BY <1>5, <1>6, <1>8 DEF IInv

LEMMA AbandonRoundStep ==
    ASSUME IInv, AbandonRound
    PROVE  IInv'
<1>1. /\ destroyed /\ round' = Idle
      /\ UNCHANGED <<requested, toPublish, callbacks, isPublishing, armed, fired,
                     inflight, destroyed, posted, told, crashed>>
    BY DEF AbandonRound
<1>2. Idle \in [left : Nat, id : Nat, result : Results \cup {"none"}, inCallback : BOOLEAN]
    BY DEF Idle
<1>3. TypeOK' /\ InOrder' /\ OkMeansPublished' /\ ListsAgree'
    BY <1>1, <1>2 DEF IInv, TypeOK, InOrder, Waiting, OkMeansPublished, ListsAgree
<1>4. OneAtATime' /\ KeepsRepublishing' /\ RoundCovers'
    BY <1>1 DEF OneAtATime, KeepsRepublishing, RoundCovers
<1> QED
    BY <1>3, <1>4 DEF IInv

LEMMA DestroyStep ==
    ASSUME IInv, Destroy
    PROVE  IInv'
<1>1. /\ ~destroyed /\ destroyed' = TRUE /\ posted' = callbacks /\ callbacks' = <<>>
      /\ armed' = FALSE
      /\ UNCHANGED <<requested, toPublish, isPublishing, fired, inflight, round, told, crashed>>
    BY DEF HandedOver, Destroy, MayCall
<1>2. TypeOK'
    <2>1. armed' \in BOOLEAN /\ destroyed' \in BOOLEAN
        BY <1>1
    <2>2. <<>> \in Seq(Nat)
        OBVIOUS
    <2> QED
        BY <1>1, <2>1, <2>2 DEF IInv, TypeOK
<1>3. InOrder' /\ OkMeansPublished' /\ ListsAgree'
    BY <1>1 DEF IInv, InOrder, Waiting, OkMeansPublished, ListsAgree
<1>4. OneAtATime' /\ KeepsRepublishing' /\ RoundCovers'
    BY <1>1 DEF IInv, OneAtATime, KeepsRepublishing, RoundCovers
<1> QED
    BY <1>2, <1>3, <1>4 DEF IInv

LEMMA RunPostedStep ==
    ASSUME IInv, RunPosted
    PROVE  IInv'
<1> DEFINE n == Head(posted)
<1>1. /\ posted # <<>> /\ posted' = Tail(posted) /\ posted \in Seq(Nat)
      /\ UNCHANGED <<requested, toPublish, callbacks, isPublishing, armed, fired,
                     inflight, round, destroyed>>
      /\ requested \in Nat
    BY DEF RunPosted, IInv, TypeOK
<1>a. Len(told) \in Nat
    BY EmptySeq DEF IInv, TypeOK
<1>b. crashed' \in BOOLEAN
    <2>1. crashed' = TRUE \/ crashed' = crashed
        BY DEF RunPosted
    <2> QED
        BY <2>1 DEF IInv, TypeOK
<1>2. destroyed
    BY <1>1 DEF IInv, ListsAgree
<1>3. n \in Nat /\ posted' \in Seq(Nat)
    BY <1>1, QueueBasics
<1>4. Ordered(posted, Len(told), requested)
    BY <1>2 DEF IInv, InOrder, Waiting
<1>5. OneAtATime' /\ KeepsRepublishing' /\ ListsAgree' /\ RoundCovers'
    BY <1>1, <1>2 DEF IInv, OneAtATime, KeepsRepublishing, ListsAgree, RoundCovers
<1> HIDE DEF n
<1>6. CASE n = NoCallback
    <2>1. told' = told
        BY <1>6 DEF RunPosted, n
    <2>2. Ordered(posted', Len(told), requested)
        BY <1>1, <1>a, <1>4, <1>6, PopEmptyEntry DEF n
    <2>3. InOrder' /\ OkMeansPublished'
        BY <1>1, <1>2, <2>1, <2>2 DEF IInv, InOrder, OkMeansPublished, Waiting
    <2>4. TypeOK'
        BY <1>1, <1>b, <1>3, <2>1 DEF IInv, TypeOK
    <2> QED
        BY <1>5, <2>3, <2>4 DEF IInv
<1>7. CASE n # NoCallback
    <2> DEFINE e == [request |-> n, result |-> "aborted", id |-> 0]
    <2>1. told' = Append(told, e)
        BY <1>7 DEF RunPosted, Tell, n
    <2>2. n = Len(told) + 1 /\ Ordered(posted', Len(told) + 1, requested)
        BY <1>1, <1>a, <1>4, <1>7, PopRequest DEF n
    <2>3. e \in [request : Nat, result : Results \cup {"aborted"}, id : Nat]
        BY <1>3
    <2>4. told' \in Seq([request : Nat, result : Results \cup {"aborted"}, id : Nat])
        BY <2>1, <2>3 DEF IInv, TypeOK
    <2>5. TypeOK'
        BY <1>1, <1>b, <1>3, <2>4 DEF IInv, TypeOK
    <2>6. e.request = Len(told) + 1 /\ e.result # "ok"
        BY <2>2
    <2> HIDE DEF e
    <2>7. /\ Len(told') = Len(told) + 1 /\ told'[Len(told) + 1] = e
          /\ \A i \in 1..Len(told) : told'[i] = told[i]
        BY <2>1 DEF IInv, TypeOK
    <2>8. InOrder' /\ OkMeansPublished'
        <3>1. \A i \in 1..Len(told') : i \in 1..Len(told) \/ i = Len(told) + 1
            BY <1>a, <2>7
        <3>2. \A i \in 1..Len(told') : told'[i].request = i
            BY <2>6, <2>7, <3>1 DEF IInv, InOrder
        <3>3. OkMeansPublished'
            BY <2>6, <2>7, <3>1 DEF IInv, OkMeansPublished
        <3>4. Ordered(Waiting', Len(told'), requested')
            BY <1>1, <1>2, <2>2, <2>7 DEF Waiting
        <3> QED
            BY <3>2, <3>3, <3>4 DEF InOrder
    <2> QED
        BY <1>5, <2>5, <2>8 DEF IInv
<1> QED
    BY <1>6, <1>7

LEMMA NextIInv == IInv /\ [Next]_vars => IInv'
<1> SUFFICES ASSUME IInv, [Next]_vars PROVE IInv'
    OBVIOUS
<1>1. CASE UNCHANGED vars
    BY <1>1 DEF vars, IInv, TypeOK, InOrder, Waiting, OkMeansPublished, OneAtATime,
       KeepsRepublishing, ListsAgree, RoundCovers
<1>2. CASE Publish
    BY <1>2, PublishStep
<1>3. CASE Destroy
    BY <1>3, DestroyStep
<1>4. CASE TimerExpires
    BY <1>4, TimerExpiresStep
<1>5. CASE TimerHandler
    BY <1>5, TimerHandlerStep
<1>6. CASE Deliver
    BY <1>6, DeliverStep
<1>7. CASE FinishRound
    BY <1>7, FinishRoundStep
<1>8. CASE AbandonRound
    BY <1>8, AbandonRoundStep
<1>9. CASE RunPosted
    BY <1>9, RunPostedStep
<1>10. ASSUME NEW result \in Results, Completed(result) PROVE IInv'
    BY <1>10, CompletedStep
<1> QED
    BY <1>1, <1>2, <1>3, <1>4, <1>5, <1>6, <1>7, <1>8, <1>9, <1>10 DEF Next, Progress

LEMMA Invariant == Spec => []IInv
BY InitIInv, NextIInv, PTL DEF Spec

--------------------------------------------------------------------------
\* For any number of requests, timers and publications under way, every
\* variable of the republisher keeps its type.
THEOREM TypeCorrect == Spec => []TypeOK
<1>1. IInv => TypeOK
    BY DEF IInv
<1> QED
    BY <1>1, Invariant, PTL

\* publish, the rounds, the timer's empty entry and the destructor together
\* call every callback at most once and in order, and lose none.
THEOREM CallbacksInOrder == Spec => []InOrder
<1>1. IInv => InOrder
    BY DEF IInv
<1> QED
    BY <1>1, Invariant, PTL

\* A callback that hears of success asked for an id that was published, or
\* that a newer one replaced (last_i, republisher.cpp 60-74).
THEOREM OkIsPublished == Spec => []OkMeansPublished
<1>1. IInv => OkMeansPublished
    BY DEF IInv
<1> QED
    BY <1>1, Invariant, PTL

\* _is_publishing is a lock: publish, the timer's handler and the handler of a
\* publication never start a second publication while one is under way.
THEOREM PublishesOneAtATime == Spec => []OneAtATime
<1>1. IInv => OneAtATime
    BY DEF IInv
<1> QED
    BY <1>1, Invariant, PTL

\* There is always something that leads to the next publication.
THEOREM NeverStopsRepublishing == Spec => []KeepsRepublishing
<1>1. IInv => KeepsRepublishing
    BY DEF IInv
<1> QED
    BY <1>1, Invariant, PTL

\* A round tells only callbacks whose id it published, or an older one than
\* that, and stays inside the list (republisher.cpp 60-75).
THEOREM RoundStaysCovered == Spec => []RoundCovers
<1>1. IInv => RoundCovers
    BY DEF IInv
<1> QED
    BY <1>1, Invariant, PTL

--------------------------------------------------------------------------
\* The republisher implements the safety of Requests.tla.

LEMMA AnsweredSet ==
    ASSUME IInv
    PROVE  {told[i].request : i \in 1..Len(told)} = 1..Len(told)
BY DEF IInv, InOrder

LEMMA TellAnswers ==
    ASSUME IInv, IInv', NEW n \in Nat, n = Len(told) + 1, n <= requested,
           Len(told') = Len(told) + 1, ~crashed, UNCHANGED <<requested, crashed>>
    PROVE  \E m \in 1..requested : Req!Answer(m)
<1>1. Len(told) \in Nat /\ requested \in Nat
    BY EmptySeq DEF IInv, TypeOK
<1>2. /\ {told[i].request : i \in 1..Len(told)} = 1..Len(told)
      /\ {told'[i].request : i \in 1..Len(told')} = 1..Len(told')
    BY DEF IInv, InOrder
<1>3. n \in 1..requested /\ n \notin 1..Len(told) /\ 1..Len(told') = 1..Len(told) \cup {n}
    BY <1>1
<1> QED
    BY <1>2, <1>3 DEF Req!Answer

\* The front of a queue, told as the next answer
LEMMA NextToTell ==
    ASSUME NEW q \in Seq(Nat), NEW t \in Nat, NEW r \in Nat,
           Ordered(q, t, r), q # <<>>, Head(q) # NoCallback
    PROVE  Head(q) = t + 1 /\ t + 1 <= r
<1>1. Head(q) = t + 1
    BY PopRequest
<1>2. Len(q) \in Nat /\ Len(q) # 0 /\ Head(q) = q[1]
    BY QueueBasics
<1> QED
    BY <1>1, <1>2 DEF Ordered

LEMMA StepMaps ==
    ASSUME IInv, IInv', [Next]_vars
    PROVE  [Req!ReqNext]_(Req!reqVars)
<1>1. Len(told) \in Nat /\ requested \in Nat /\ callbacks \in Seq(Nat) /\ posted \in Seq(Nat)
    BY EmptySeq DEF IInv, TypeOK
<1>2. CASE UNCHANGED <<requested, told, crashed>>
    BY <1>2 DEF Req!reqVars
<1>3. CASE Publish
    <2>1. ~crashed /\ requested' = requested + 1 /\ UNCHANGED <<told, crashed>>
        BY <1>3 DEF Publish, MayCall
    <2> QED
        BY <2>1 DEF Req!ReqNext, Req!Make
<1>4. CASE Deliver
    <2> DEFINE e == [request |-> Head(callbacks), result |-> round.result, id |-> round.id]
    <2>1. /\ round.left > 0 /\ ~destroyed /\ UNCHANGED <<requested, crashed>>
        BY <1>4 DEF Deliver
    <2>2. CASE Head(callbacks) = NoCallback
        BY <1>2, <1>4, <2>1, <2>2 DEF Deliver
    <2>3. CASE Head(callbacks) # NoCallback
        <3>1. round # Idle /\ round.left <= Len(callbacks) /\ round.left \in Nat
            BY <2>1, SMTT(30) DEF IInv, TypeOK, RoundCovers, Idle
        <3>2. callbacks # <<>>
            BY <2>1, <3>1, EmptySeq
        <3>3. Ordered(callbacks, Len(told), requested)
            BY <2>1 DEF IInv, InOrder, Waiting
        <3>4. Head(callbacks) = Len(told) + 1 /\ Len(told) + 1 <= requested
            BY <1>1, <2>3, <3>2, <3>3, NextToTell
        <3>5. told' = Append(told, e)
            BY <1>4, <2>3 DEF Deliver, Tell
        <3> HIDE DEF e
        <3>6. Len(told') = Len(told) + 1
            BY <3>5 DEF IInv, TypeOK
        <3>7. ~crashed
            BY <2>1 DEF IInv, ListsAgree
        <3> QED
            BY <1>1, <2>1, <3>4, <3>6, <3>7, TellAnswers DEF Req!ReqNext
    <2> QED
        BY <2>2, <2>3
<1>5. CASE RunPosted
    <2> DEFINE e == [request |-> Head(posted), result |-> "aborted", id |-> 0]
    <2>1. posted # <<>> /\ ~crashed /\ UNCHANGED requested
        BY <1>5 DEF RunPosted
    <2>2. CASE Head(posted) = NoCallback
        <3>1. crashed' = TRUE /\ told' = told
            BY <1>5, <2>2 DEF RunPosted
        <3> QED
            BY <2>1, <3>1 DEF Req!ReqNext, Req!Halt
    <2>3. CASE Head(posted) # NoCallback
        <3>1. destroyed
            BY <2>1 DEF IInv, ListsAgree
        <3>2. Ordered(posted, Len(told), requested)
            BY <3>1 DEF IInv, InOrder, Waiting
        <3>3. Head(posted) = Len(told) + 1 /\ Len(told) + 1 <= requested
            BY <1>1, <2>1, <2>3, <3>2, NextToTell
        <3>4. told' = Append(told, e) /\ crashed' = crashed
            BY <1>5, <2>3 DEF RunPosted, Tell
        <3> HIDE DEF e
        <3>5. Len(told') = Len(told) + 1
            BY <3>4 DEF IInv, TypeOK
        <3> QED
            BY <1>1, <2>1, <3>3, <3>4, <3>5, TellAnswers DEF Req!ReqNext
    <2> QED
        BY <2>2, <2>3
<1>6. CASE UNCHANGED vars
    BY <1>2, <1>6 DEF vars
<1>7. CASE Destroy \/ TimerExpires \/ TimerHandler \/ FinishRound \/ AbandonRound
           \/ \E result \in Results : Completed(result)
    BY <1>2, <1>7 DEF Destroy, TimerExpires, TimerHandler, FinishRound, AbandonRound, Completed
<1> QED
    BY <1>3, <1>4, <1>5, <1>6, <1>7 DEF Next, Progress

\* No callback is called twice, none is called that was not given, and the
\* program makes no other step that a caller could notice, short of the crash
\* of an empty callback.
THEOREM ImplementsRequests == Spec => Req!ReqSafe
<1>1. Init => Req!ReqInit
    BY EmptySeq DEF Init, Req!ReqInit
<1>2. IInv /\ IInv' /\ [Next]_vars => [Req!ReqNext]_(Req!reqVars)
    BY StepMaps
<1> QED
    BY <1>1, <1>2, Invariant, PTL DEF Spec, Req!ReqSafe
==========================================================================
