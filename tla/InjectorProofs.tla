-------------------------- MODULE InjectorProofs --------------------------
(***************************************************************************)
(* The safety of Injector.tla for any number of requests and of jobs at a  *)
(* time: every request is in one place, and what is saved and published    *)
(* never loses a request.  That its republisher is one of those that       *)
(* RepublisherProofs.tla is about is used throughout.                      *)
(***************************************************************************)
EXTENDS Injector, FiniteSetTheorems, SequenceTheorems, TLAPS

RepP == INSTANCE RepublisherProofs

--------------------------------------------------------------------------
\* The republisher

\* Both instances of Republisher have the same actions.
LEMMA SameRepublisher ==
    /\ Rep!Init => RepP!Init
    /\ Rep!Publish => RepP!Publish
    /\ Rep!Destroy => RepP!Destroy
    /\ Rep!Deliver => RepP!Deliver
    /\ Rep!TimerExpires => RepP!TimerExpires
    /\ Rep!TimerHandler => RepP!TimerHandler
    /\ Rep!FinishRound => RepP!FinishRound
    /\ Rep!AbandonRound => RepP!AbandonRound
    /\ Rep!RunPosted => RepP!RunPosted
    /\ \A result \in Rep!Results : Rep!Completed(result) => RepP!Completed(result)
    /\ Rep!Results = RepP!Results
<1>1. Rep!Init => RepP!Init
    BY DEF Rep!Init, RepP!Init, Rep!Idle, RepP!Idle
<1>2. Rep!Publish => RepP!Publish
    BY DEF Rep!Publish, RepP!Publish, Rep!MayCall, RepP!MayCall, Rep!Idle, RepP!Idle,
           Rep!Busy, RepP!Busy, Rep!StartPublishing, RepP!StartPublishing,
           Rep!NoneWaits, RepP!NoneWaits, Rep!TimerSet, RepP!TimerSet
<1>3. Rep!Destroy => RepP!Destroy
    BY DEF Rep!Destroy, RepP!Destroy, Rep!MayCall, RepP!MayCall, Rep!Idle, RepP!Idle,
           Rep!HandedOver, RepP!HandedOver
<1>4. Rep!Deliver => RepP!Deliver
    BY DEF Rep!Deliver, RepP!Deliver, Rep!NoCallback, RepP!NoCallback, Rep!Tell, RepP!Tell
<1>5. Rep!TimerExpires => RepP!TimerExpires
    BY DEF Rep!TimerExpires, RepP!TimerExpires, Rep!Idle, RepP!Idle
<1>6. Rep!TimerHandler => RepP!TimerHandler
    BY DEF Rep!TimerHandler, RepP!TimerHandler, Rep!Idle, RepP!Idle,
           Rep!WithEntry, RepP!WithEntry, Rep!NoCallback, RepP!NoCallback,
           Rep!StartPublishing, RepP!StartPublishing,
           Rep!NoneWaits, RepP!NoneWaits, Rep!TimerSet, RepP!TimerSet
<1>7. Rep!FinishRound => RepP!FinishRound
    BY DEF Rep!FinishRound, RepP!FinishRound, Rep!Idle, RepP!Idle,
           Rep!StartPublishing, RepP!StartPublishing,
           Rep!NoneWaits, RepP!NoneWaits, Rep!TimerSet, RepP!TimerSet
<1>8. Rep!AbandonRound => RepP!AbandonRound
    BY DEF Rep!AbandonRound, RepP!AbandonRound, Rep!Idle, RepP!Idle
<1>9. Rep!RunPosted => RepP!RunPosted
    BY DEF Rep!RunPosted, RepP!RunPosted, Rep!Idle, RepP!Idle, Rep!NoCallback,
           RepP!NoCallback, Rep!Tell, RepP!Tell
<1>10. ASSUME NEW result \in Rep!Results, Rep!Completed(result)
       PROVE  RepP!Completed(result)
    BY <1>10 DEF Rep!Completed, RepP!Completed, Rep!Idle, RepP!Idle,
           Rep!UpToLast, RepP!UpToLast
<1>11. Rep!Results = RepP!Results
    BY DEF Rep!Results, RepP!Results
<1> QED
    BY <1>1, <1>2, <1>3, <1>4, <1>5, <1>6, <1>7, <1>8, <1>9, <1>10, <1>11

\* Every step of the injector is one of the republisher or leaves it alone.
LEMMA RepublisherSteps == [Next]_vars => [RepP!Next]_(RepP!vars)
<1> SUFFICES ASSUME [Next]_vars PROVE [RepP!Next]_(RepP!vars)
    OBVIOUS
<1>1. ASSUME UNCHANGED republisher
      PROVE  UNCHANGED RepP!vars
    BY <1>1 DEF republisher, RepP!vars
<1>2. ASSUME UNCHANGED vars
      PROVE  UNCHANGED republisher
    BY <1>2 DEF vars
<1>3. ASSUME NEW n, NEW hash, Upload(n, hash)
      PROVE  UNCHANGED republisher \/ Rep!Publish
    BY <1>3 DEF Upload
<1>4. ASSUME InsertContent
      PROVE  UNCHANGED republisher
    BY <1>4 DEF InsertContent
<1>5. ASSUME NEW n \in 1..asked, Work(n)
      PROVE  UNCHANGED republisher \/ Rep!Publish
    BY <1>3, <1>5 DEF Work, Added, UpdateBuffered, UpdateStarts
<1>6. ASSUME Write
      PROVE  UNCHANGED republisher \/ Rep!Publish
    BY <1>3, <1>6 DEF Write, BatchInserted, Stored, StoreFailed, WriterAborted
<1>7. ASSUME Notify
      PROVE  \/ Rep!Deliver \/ Rep!RunPosted
             \/ \E result \in Rep!Results : Rep!Completed(result)
    BY <1>7 DEF Notify, Deliver, UploadAborted, PublishDone
<1>8. ASSUME Republish
      PROVE  Rep!TimerExpires \/ Rep!TimerHandler \/ Rep!FinishRound \/ Rep!AbandonRound
    BY <1>8 DEF Republish
<1>9. ASSUME Destroy
      PROVE  Rep!Destroy
    BY <1>9 DEF Destroy
<1> QED
    BY <1>1, <1>2, <1>4, <1>5, <1>6, <1>7, <1>8, <1>9, SameRepublisher
    DEF Next, RepP!Next, RepP!Progress

--------------------------------------------------------------------------
\* The jobs

\* Requests leave the queue in the order of the calls: those up to here have.
Started == asked - Len(insertQueue)

QueueInOrder ==
    /\ asked \in Nat /\ Started \in Nat /\ insertQueue \in Seq(Nat)
    /\ \A i \in 1..Len(insertQueue) : insertQueue[i] = Started + i

JobsCounted ==
    /\ JobsBounded /\ IsFiniteSet(adding) /\ adding \subseteq 1..Started

\* The inductive invariant of the jobs; JobsBounded needs that the next request
\* of the queue is not being added.
JobsInv == QueueInOrder /\ JobsCounted

LEMMA JobStarts ==
    ASSUME NEW q \in Seq(Nat), NEW first \in Nat,
           \A i \in 1..Len(q) : q[i] = first + i,
           NEW running, IsFiniteSet(running), running \subseteq 1..first,
           Cardinality(running) < Concurrency,
           StartJob(q, Cardinality(running), running)
    PROVE  /\ IsFiniteSet(adding') /\ jobCount' = Cardinality(adding')
           /\ jobCount' <= Concurrency
           /\ \/ q = <<>> /\ insertQueue' = <<>> /\ adding' = running
              \/ /\ q # <<>> /\ adding' = running \cup {first + 1}
                 /\ jobCount' = Cardinality(running) + 1
                 /\ insertQueue' \in Seq(Nat) /\ Len(insertQueue') = Len(q) - 1
                 /\ \A i \in 1..Len(insertQueue') : insertQueue'[i] = first + 1 + i
<1>1. Cardinality(running) \in Nat /\ Concurrency \in Nat
    BY FS_CardinalityType, ConcurrencyAssumption
<1>2. CASE q = <<>>
    BY <1>1, <1>2 DEF StartJob
<1>3. CASE q # <<>>
    <2>1. /\ insertQueue' = Tail(q) /\ jobCount' = Cardinality(running) + 1
          /\ adding' = running \cup {Head(q)}
        BY <1>3 DEF StartJob, Counted
    <2>2. Len(q) \in Nat \ {0}
        BY <1>3, EmptySeq
    <2>3. Head(q) = first + 1
        BY <2>2, <1>3
    <2>4. /\ Tail(q) \in Seq(Nat) /\ Len(Tail(q)) = Len(q) - 1
          /\ \A i \in 1..Len(Tail(q)) : Tail(q)[i] = q[i + 1]
        BY <1>3, HeadTailProperties
    <2>5. \A i \in 1..Len(Tail(q)) : Tail(q)[i] = first + 1 + i
        BY <2>2, <2>4
    <2>6. first + 1 \notin running
        OBVIOUS
    <2>7. IsFiniteSet(adding') /\ Cardinality(adding') = Cardinality(running) + 1
        BY <2>1, <2>3, <2>6, FS_AddElement
    <2> QED
        BY <1>1, <1>3, <2>1, <2>3, <2>4, <2>5, <2>7
<1> QED
    BY <1>2, <1>3

LEMMA InitJobs == Init => JobsInv
<1> SUFFICES ASSUME Init PROVE JobsInv
    OBVIOUS
<1>1. <<>> \in Seq(Nat) /\ Len(<<>>) = 0
    BY EmptySeq
<1>2. IsFiniteSet({}) /\ Cardinality({}) = 0
    BY FS_EmptySet
<1> QED
    BY <1>1, <1>2, ConcurrencyAssumption
    DEF Init, JobsInv, QueueInOrder, Started, JobsCounted, JobsBounded

\* What InsertContent does to the jobs: the request is queued behind a full set
\* of jobs, or it is added at once.
LEMMA InsertContentJobs ==
    ASSUME JobsInv, InsertContent
    PROVE  /\ JobsInv' /\ asked' = asked + 1
           /\ \/ Started' = Started /\ adding' = adding
              \/ Started' = Started + 1 /\ adding' = adding \cup {Started + 1}
<1>1. /\ asked \in Nat /\ Started \in Nat /\ insertQueue \in Seq(Nat)
      /\ Len(insertQueue) \in Nat /\ asked' = asked + 1
      /\ \A i \in 1..Len(insertQueue) : insertQueue[i] = Started + i
      /\ Started = asked - Len(insertQueue)
    BY DEF JobsInv, QueueInOrder, Started, InsertContent
<1>2. /\ IsFiniteSet(adding) /\ adding \subseteq 1..Started
      /\ jobCount = Cardinality(adding) /\ jobCount \in Nat /\ jobCount <= Concurrency
      /\ insertQueue # <<>> => jobCount = Concurrency
    BY FS_CardinalityType DEF JobsInv, JobsCounted, JobsBounded
<1> DEFINE q == Append(insertQueue, asked + 1)
<1>3. /\ q \in Seq(Nat) /\ Len(q) = Len(insertQueue) + 1 /\ q # <<>>
      /\ \A i \in 1..Len(q) : q[i] = Started + i
    BY <1>1
<1>4. CASE Busy
    <2>1. insertQueue' = q /\ UNCHANGED <<jobCount, adding>>
        BY <1>1, <1>4 DEF InsertContent
    <2>2. Started' = Started
        BY <1>1, <1>3, <2>1 DEF Started
    <2>3. jobCount = Concurrency
        BY <1>2, <1>4, ConcurrencyAssumption DEF Busy
    <2> HIDE DEF q
    <2> QED
        BY <1>1, <1>2, <1>3, <2>1, <2>2, <2>3 DEF JobsInv, QueueInOrder, JobsCounted, JobsBounded
<1>5. CASE ~Busy
    <2>1. jobCount < Concurrency
        BY <1>2, <1>5, ConcurrencyAssumption DEF Busy
    <2>2. insertQueue = <<>> /\ Started = asked
        BY <1>1, <1>2, <2>1, ConcurrencyAssumption DEF Started
    <2>3. StartJob(q, Cardinality(adding), adding)
        BY <1>1, <1>2, <1>5 DEF InsertContent
    <2>4. Len(q) = 1
        BY <1>3, <2>2
    <2> HIDE DEF q
    <2>a. Cardinality(adding) < Concurrency
        BY <1>2, <2>1
    <2>b. /\ IsFiniteSet(adding') /\ jobCount' = Cardinality(adding')
          /\ jobCount' <= Concurrency
          /\ \/ q = <<>> /\ insertQueue' = <<>> /\ adding' = adding
             \/ /\ q # <<>> /\ adding' = adding \cup {Started + 1}
                /\ jobCount' = Cardinality(adding) + 1
                /\ insertQueue' \in Seq(Nat) /\ Len(insertQueue') = Len(q) - 1
                /\ \A i \in 1..Len(insertQueue') : insertQueue'[i] = Started + 1 + i
        BY <1>1, <1>2, <1>3, <2>a, <2>3, JobStarts
    <2>5. /\ adding' = adding \cup {Started + 1}
          /\ insertQueue' \in Seq(Nat) /\ Len(insertQueue') = 0
        BY <1>3, <2>4, <2>b
    <2>6. insertQueue' = <<>> /\ Started' = Started + 1
        BY <1>1, <2>2, <2>5, EmptySeq DEF Started
    <2>7. QueueInOrder'
        BY <1>1, <2>5, <2>6 DEF QueueInOrder
    <2>8. JobsCounted'
        <3>1. adding' \subseteq 1..Started'
            <4>1. \A x \in adding' : x \in 1..Started \/ x = Started + 1
                BY <1>2, <2>5
            <4>2. 1..(Started + 1) = 1..Started \cup {Started + 1}
                BY <1>1
            <4> QED
                BY <2>6, <4>1, <4>2
        <3>2. JobsBounded'
            BY <2>b, <2>6 DEF JobsBounded
        <3> QED
            BY <2>b, <3>1, <3>2 DEF JobsCounted
    <2> QED
        BY <1>1, <2>5, <2>6, <2>7, <2>8 DEF JobsInv
<1> QED
    BY <1>1, <1>4, <1>5

\* What the handler of add does to them
LEMMA AddedJobs ==
    ASSUME JobsInv, NEW n \in adding, NEW result, Added(n, result)
    PROVE  /\ JobsInv' /\ asked' = asked
           /\ \/ Started' = Started /\ adding' = adding \ {n}
              \/ Started' = Started + 1 /\ adding' = (adding \ {n}) \cup {Started + 1}
<1>1. /\ asked \in Nat /\ Started \in Nat /\ insertQueue \in Seq(Nat)
      /\ Len(insertQueue) \in Nat /\ asked' = asked
      /\ \A i \in 1..Len(insertQueue) : insertQueue[i] = Started + i
      /\ Started = asked - Len(insertQueue)
    BY DEF JobsInv, QueueInOrder, Started, Added
<1>2. /\ IsFiniteSet(adding) /\ adding \subseteq 1..Started
      /\ jobCount = Cardinality(adding) /\ jobCount \in Nat /\ jobCount <= Concurrency
      /\ insertQueue # <<>> => jobCount = Concurrency
    BY FS_CardinalityType DEF JobsInv, JobsCounted, JobsBounded
<1> DEFINE rest == adding \ {n}
<1>3. /\ IsFiniteSet(rest) /\ Cardinality(rest) = jobCount - 1 /\ rest \subseteq 1..Started
    BY <1>2, FS_RemoveElement
<1>4. StartJob(insertQueue, Cardinality(rest), rest)
    BY <1>3 DEF Added, NextJob
<1>5. Cardinality(rest) < Concurrency
    BY <1>2, <1>3, ConcurrencyAssumption
<1> HIDE DEF rest
<1>6. /\ IsFiniteSet(adding') /\ jobCount' = Cardinality(adding')
      /\ jobCount' <= Concurrency
      /\ \/ insertQueue = <<>> /\ insertQueue' = <<>> /\ adding' = rest
         \/ /\ insertQueue # <<>> /\ adding' = rest \cup {Started + 1}
            /\ jobCount' = Cardinality(rest) + 1
            /\ insertQueue' \in Seq(Nat) /\ Len(insertQueue') = Len(insertQueue) - 1
            /\ \A i \in 1..Len(insertQueue') : insertQueue'[i] = Started + 1 + i
    BY <1>1, <1>3, <1>4, <1>5, JobStarts
<1>7. CASE insertQueue = <<>>
    <2>1. Started' = Started /\ insertQueue' = <<>> /\ adding' = rest
        BY <1>1, <1>6, <1>7 DEF Started
    <2> QED
        BY <1>1, <1>2, <1>3, <1>6, <2>1, EmptySeq
        DEF JobsInv, QueueInOrder, JobsCounted, JobsBounded, rest
<1>8. CASE insertQueue # <<>>
    <2>0. /\ adding' = rest \cup {Started + 1}
          /\ jobCount' = Cardinality(rest) + 1
          /\ insertQueue' \in Seq(Nat) /\ Len(insertQueue') = Len(insertQueue) - 1
        BY <1>6, <1>8
    <2>1. Started' = Started + 1 /\ jobCount' = Concurrency
        BY <1>1, <1>2, <1>3, <1>8, <2>0, ConcurrencyAssumption DEF Started
    <2>2. insertQueue' \in Seq(Nat) /\ \A i \in 1..Len(insertQueue') : insertQueue'[i] = Started' + i
        BY <1>6, <1>8, <2>1
    <2>3. QueueInOrder'
        BY <1>1, <2>1, <2>2 DEF QueueInOrder
    <2>4. JobsCounted'
        <3>1. adding' \subseteq 1..Started'
            <4>1. \A x \in adding' : x \in 1..Started \/ x = Started + 1
                BY <1>3, <2>0
            <4>2. 1..(Started + 1) = 1..Started \cup {Started + 1}
                BY <1>1
            <4> QED
                BY <2>1, <4>1, <4>2
        <3>2. JobsBounded'
            BY <1>6, <2>1, ConcurrencyAssumption DEF JobsBounded
        <3> QED
            BY <1>6, <3>1, <3>2 DEF JobsCounted
    <2> QED
        BY <1>1, <2>0, <2>1, <2>3, <2>4 DEF JobsInv, rest
<1> QED
    BY <1>7, <1>8

LEMMA DestroyJobs ==
    ASSUME JobsInv, Destroy
    PROVE  JobsInv' /\ asked' = asked /\ Started' = asked /\ adding' = {}
<1>1. /\ asked' = asked /\ asked \in Nat /\ insertQueue' = <<>> /\ jobCount' = 0
      /\ adding' = {}
    BY DEF JobsInv, QueueInOrder, Destroy
<1>2. <<>> \in Seq(Nat) /\ Len(<<>>) = 0
    BY EmptySeq
<1>3. IsFiniteSet({}) /\ Cardinality({}) = 0
    BY FS_EmptySet
<1> QED
    BY <1>1, <1>2, <1>3, ConcurrencyAssumption
    DEF JobsInv, QueueInOrder, Started, JobsCounted, JobsBounded

\* The other actions leave the jobs alone.
LEMMA JobsStay ==
    ASSUME JobsInv, UNCHANGED <<asked, jobs>>
    PROVE  JobsInv' /\ Started' = Started /\ adding' = adding /\ asked' = asked
BY DEF jobs, JobsInv, QueueInOrder, Started, JobsCounted, JobsBounded

LEMMA NextJobs == JobsInv /\ [Next]_vars => JobsInv'
<1> SUFFICES ASSUME JobsInv, [Next]_vars PROVE JobsInv'
    OBVIOUS
<1>1. CASE UNCHANGED vars
    BY <1>1, JobsStay DEF vars, own
<1>2. CASE InsertContent
    BY <1>2, InsertContentJobs
<1>3. CASE Destroy
    BY <1>3, DestroyJobs
<1>4. CASE Republish
    BY <1>4, JobsStay DEF Republish, own
<1>5. CASE Write
    BY <1>5, JobsStay DEF Write, BatchInserted, Stored, StoreFailed, WriterAborted
<1>6. CASE Notify
    BY <1>6, JobsStay DEF Notify, Deliver, UploadAborted, PublishDone
<1>7. ASSUME NEW n \in 1..asked, Work(n)
      PROVE  JobsInv'
    <2>1. CASE UpdateBuffered(n) \/ UpdateStarts(n)
        BY <2>1, JobsStay DEF UpdateBuffered, UpdateStarts
    <2>2. ASSUME NEW result \in Rep!Results, Added(n, result)
          PROVE  JobsInv'
        <3>1. n \in adding
            BY <2>2 DEF Added
        <3> QED
            BY <2>2, <3>1, AddedJobs
    <2> QED
        BY <1>7, <2>1, <2>2 DEF Work
<1> QED
    BY <1>1, <1>2, <1>3, <1>4, <1>5, <1>6, <1>7 DEF Next

\* Whatever happens, _job_count counts the adds that are under way, they are no
\* more than _concurrency, and nobody is queued while there are fewer
\* (injector.cpp 36-52).
THEOREM JobsAreBounded == Spec => []JobsBounded
<1>1. JobsInv => JobsBounded
    BY DEF JobsInv, JobsCounted
<1> QED
    BY <1>1, InitJobs, NextJobs, PTL DEF Spec

--------------------------------------------------------------------------
\* What is used of the republisher's invariant

LEMMA WaitingAre ==
    ASSUME NEW q \in Seq(Nat), NEW t \in Nat, NEW r \in Nat, RepP!Ordered(q, t, r)
    PROVE  {q[i] : i \in 1..Len(q)} \ {0} = (t + 1)..r
<1>1. Len(q) \in Nat /\ (q = <<>> <=> Len(q) = 0)
    BY EmptySeq
<1>2. \A i \in 1..Len(q) : q[i] # 0 => q[i] = r - Len(q) + i
    BY DEF RepP!Ordered, RepP!NoCallback
<1>3. \A i \in 2..Len(q) : q[i] # 0
    BY DEF RepP!Ordered, RepP!NoCallback
<1>4. CASE q # <<>> /\ q[1] = 0
    <2>1. r = t + Len(q) - 1
        BY <1>1, <1>4 DEF RepP!Ordered, RepP!NoCallback
    <2>2. \A i \in 2..Len(q) : q[i] = t - 1 + i
        BY <1>1, <1>2, <1>3, <2>1
    <2>3. ASSUME NEW m \in (t + 1)..r
          PROVE  m - t + 1 \in 2..Len(q) /\ q[m - t + 1] = m
        BY <1>1, <2>1, <2>2
    <2>4. ASSUME NEW i \in 1..Len(q), q[i] # 0
          PROVE  q[i] \in (t + 1)..r
        <3>1. i \in 2..Len(q)
            BY <1>1, <1>4, <2>4
        <3> QED
            BY <1>1, <2>1, <2>2, <3>1
    <2>5. 2..Len(q) \subseteq 1..Len(q) /\ 0 \notin (t + 1)..r
        BY <1>1
    <2>6. \A m \in (t + 1)..r : \E i \in 1..Len(q) : q[i] = m
        BY <2>3, <2>5
    <2> QED
        BY <2>4, <2>5, <2>6
<1>5. CASE ~(q # <<>> /\ q[1] = 0)
    <2>1. r = t + Len(q)
        BY <1>1, <1>5 DEF RepP!Ordered, RepP!NoCallback
    <2>2. \A i \in 1..Len(q) : q[i] # 0
        BY <1>1, <1>3, <1>5
    <2>3. \A i \in 1..Len(q) : q[i] = t + i
        BY <1>1, <1>2, <2>1, <2>2
    <2>4. ASSUME NEW m \in (t + 1)..r
          PROVE  m - t \in 1..Len(q) /\ q[m - t] = m
        BY <1>1, <2>1, <2>3
    <2>5. \A m \in (t + 1)..r : m # 0 /\ \E i \in 1..Len(q) : q[i] = m
        BY <1>1, <2>4
    <2>6. \A i \in 1..Len(q) : q[i] \in (t + 1)..r
        BY <1>1, <2>1, <2>3
    <2> QED
        BY <2>5, <2>6
<1> QED
    BY <1>4, <1>5

Republishes ==
    /\ requested \in Nat /\ toPublish = requested
    /\ Len(told) \in Nat /\ Len(told) <= requested
    /\ callbacks \in Seq(Nat) /\ posted \in Seq(Nat)
    /\ RepP!Ordered(Rep!Waiting, Len(told), requested)
    /\ {Rep!Waiting[i] : i \in 1..Len(Rep!Waiting)} \ {0} = (Len(told) + 1)..requested
    /\ inflight \in Seq([id : Nat, last : Nat \ {0}])
    /\ ~destroyed => Len(inflight) <= 1 /\ (isPublishing \/ callbacks = <<>>)
    /\ ~destroyed /\ ~isPublishing => inflight = <<>>
    /\ round # RepP!Idle => inflight = <<>> \/ destroyed
    /\ round # RepP!Idle => round.result \in RepP!Results
    /\ fired \in Nat

LEMMA RepFacts == RepP!IInv => Republishes
<1> SUFFICES ASSUME RepP!IInv PROVE Republishes
    OBVIOUS
<1>1. /\ requested \in Nat /\ toPublish = requested /\ Len(told) \in Nat
      /\ callbacks \in Seq(Nat) /\ posted \in Seq(Nat) /\ fired \in Nat
      /\ inflight \in Seq([id : Nat, last : Nat \ {0}])
    BY EmptySeq DEF RepP!IInv, RepP!TypeOK, RepP!ListsAgree
<1>2. Rep!Waiting = RepP!Waiting
    BY DEF Rep!Waiting, RepP!Waiting
<1>3. RepP!Ordered(Rep!Waiting, Len(told), requested) /\ Rep!Waiting \in Seq(Nat)
    BY <1>1, <1>2 DEF RepP!IInv, RepP!InOrder, RepP!Waiting
<1>4. Len(told) <= requested
    BY <1>1, <1>3, EmptySeq DEF RepP!Ordered
<1>5. round # RepP!Idle => round.result \in RepP!Results
    BY DEF RepP!IInv, RepP!TypeOK, RepP!RoundCovers
<1> QED
    BY <1>1, <1>3, <1>4, <1>5, WaitingAre
    DEF Republishes, RepP!IInv, RepP!TypeOK, RepP!ListsAgree, RepP!OneAtATime
LEMMA RepInit == Init => RepP!IInv
BY SameRepublisher, RepP!InitIInv DEF Init

\* The uploads that wait for an answer are those after the told ones.
UploadingLast == Uploading = {uploads[m].request : m \in (Len(told) + 1)..requested}

LEMMA UploadingAre == RepP!IInv => UploadingLast
<1>1. RepP!IInv => {Rep!Waiting[i] : i \in 1..Len(Rep!Waiting)} \ {0} = (Len(told) + 1)..requested
    BY RepFacts DEF Republishes
<1> QED
    BY <1>1 DEF UploadingLast, Uploading, Rep!NoCallback

LEMMA RepNext ==
    RepP!IInv /\ [Next]_vars => RepP!IInv' /\ Republishes' /\ UploadingLast'
<1>1. RepP!IInv /\ [Next]_vars => RepP!IInv'
    BY RepublisherSteps, RepP!NextIInv
<1>2. RepP!IInv' => Republishes' /\ UploadingLast'
    BY RepFacts, UploadingAre, PTL
<1> QED
    BY <1>1, <1>2

\* What is taken from the list of callbacks: the next request, unless it is the
\* timer's entry.
NextEntry == IF destroyed THEN Head(posted) ELSE Head(callbacks)

LEMMA ToldOfRequested ==
    ASSUME NEW q \in Seq(Nat), NEW t \in Nat, NEW r \in Nat, RepP!Ordered(q, t, r)
    PROVE  t <= r
<1>1. Len(q) \in Nat /\ (q = <<>> <=> Len(q) = 0)
    BY EmptySeq
<1> QED
    BY <1>1 DEF RepP!Ordered

LEMMA NextTold ==
    ASSUME RepP!IInv, Rep!Deliver \/ Rep!RunPosted
    PROVE  /\ requested' = requested /\ destroyed' = destroyed
           /\ Rep!Deliver => ~destroyed /\ NextEntry = Head(callbacks)
           /\ Rep!RunPosted => destroyed /\ NextEntry = Head(posted)
           /\ \/ NextEntry = 0 /\ told' = told
              \/ /\ NextEntry = Len(told) + 1
                 /\ Len(told) + 1 <= requested /\ Len(told') = Len(told) + 1
<1> DEFINE q == Rep!Waiting
<1>1. /\ requested \in Nat /\ Len(told) \in Nat /\ q \in Seq(Nat)
      /\ RepP!Ordered(q, Len(told), requested)
      /\ callbacks \in Seq(Nat) /\ posted \in Seq(Nat)
    BY RepFacts DEF Rep!Waiting, Republishes
<1>2. ASSUME Rep!Deliver
      PROVE  ~destroyed /\ callbacks # <<>> /\ destroyed' = destroyed
    <2>1. ~destroyed /\ round.left > 0 /\ destroyed' = destroyed
        BY <1>2 DEF Rep!Deliver
    <2>2. round # RepP!Idle
        BY <2>1 DEF RepP!Idle
    <2>3. round.left <= Len(callbacks) /\ round.left \in Nat
        BY <2>1, <2>2 DEF RepP!IInv, RepP!RoundCovers, RepP!TypeOK
    <2> QED
        BY <1>1, <2>1, <2>3, EmptySeq
<1>3. ASSUME Rep!RunPosted
      PROVE  destroyed /\ posted # <<>> /\ destroyed' = destroyed
    BY <1>3 DEF Rep!RunPosted, RepP!IInv, RepP!ListsAgree
<1>4. q # <<>> /\ NextEntry = Head(q)
    BY <1>2, <1>3 DEF Rep!Waiting, NextEntry
<1>5. requested' = requested
    BY DEF Rep!Deliver, Rep!RunPosted
<1>6. CASE NextEntry = 0
    <2>1. told' = told
        BY <1>2, <1>3, <1>6 DEF Rep!Deliver, Rep!RunPosted, Rep!NoCallback, NextEntry
    <2> QED
        BY <1>2, <1>3, <1>5, <1>6, <2>1 DEF NextEntry
<1>7. CASE NextEntry # 0
    <2>1. NextEntry = Len(told) + 1 /\ RepP!Ordered(Tail(q), Len(told) + 1, requested)
        BY <1>1, <1>4, <1>7, RepP!PopRequest DEF RepP!NoCallback
    <2>2. \E a, b : told' = Append(told, [request |-> NextEntry, result |-> a, id |-> b])
        BY <1>2, <1>3, <1>7
        DEF Rep!Deliver, Rep!RunPosted, Rep!NoCallback, Rep!Tell, NextEntry
    <2>3. Len(told') = Len(told) + 1
        BY <2>2 DEF RepP!IInv, RepP!TypeOK
    <2>4. Len(told) + 1 <= requested
        <3>1. Tail(q) \in Seq(Nat)
            BY <1>1, <1>4, HeadTailProperties
        <3>2. Len(told) + 1 \in Nat
            BY <1>1
        <3> HIDE DEF q
        <3>3. \A n \in Nat, t \in Seq(Nat) : RepP!Ordered(t, n, requested) => n <= requested
            BY <1>1, ToldOfRequested
        <3> QED
            BY <2>1, <3>1, <3>2, <3>3
    <2> QED
        BY <1>2, <1>3, <1>5, <2>1, <2>3, <2>4 DEF NextEntry
<1> QED
    BY <1>6, <1>7
--------------------------------------------------------------------------
\* The places of a request

In(n, S) == IF n \in S THEN 1 ELSE 0
Writing == {writer} \ {None}
Replied == {a.request : a \in answers}

\* A request that left the queue is in one of these, and only in one.
OnePlace ==
    \A n \in Nat :
        In(n, adding) + In(n, spawned) + In(n, Writing) + In(n, Uploading)
            + In(n, dropped) + In(n, Replied) = In(n, 1..Started)

PlacesTyped ==
    /\ writer \in Nat
    /\ uploads \in Seq([request : Nat, root : SUBSET Nat]) /\ Len(uploads) = requested
    /\ answers \subseteq [request : Nat, result : Rep!Results]

Distinct ==
    /\ \A i, j \in (Len(told) + 1)..requested :
        uploads[i].request = uploads[j].request => i = j
    /\ \A a, b \in answers : a.request = b.request => a = b

\* The destructor empties all but what the database and the republisher have.
EndOfAll ==
    /\ destroyed => insertQueue = <<>> /\ adding = {} /\ spawned = {}
    /\ ~destroyed /\ ~thrown => dropped = {}
    /\ ~destroyed /\ thrown => \E n \in Nat : dropped = {n}
    /\ ~destroyed /\ storing => writer # None

PlacesInv == OnePlace /\ PlacesTyped /\ Distinct /\ EndOfAll

\* What is used of the republisher before and after a step
RepStep ==
    /\ Republishes /\ UploadingLast
    /\ Republishes' /\ UploadingLast'

LEMMA AnswerEffect ==
    ASSUME PlacesTyped, Distinct, NEW n \in Nat, n \notin Replied,
           NEW result \in Rep!Results, Answer(n, result)
    PROVE  /\ Replied' = Replied \cup {n}
           /\ answers' \subseteq [request : Nat, result : Rep!Results]
           /\ \A a, b \in answers' : a.request = b.request => a = b
<1>1. answers' = answers \cup {[request |-> n, result |-> result]}
    BY DEF Answer
<1>2. Replied' = Replied \cup {n}
    <2> DEFINE x == [request |-> n, result |-> result]
    <2>1. x.request = n /\ answers' = answers \cup {x}
        BY <1>1
    <2> HIDE DEF x
    <2>2. \A y : y \in Replied' <=> \E a \in answers \cup {x} : y = a.request
        BY <2>1 DEF Replied
    <2>3. \A y : y \in Replied <=> \E a \in answers : y = a.request
        BY DEF Replied
    <2> QED
        BY <2>1, <2>2, <2>3
<1>3. \A a \in answers : a.request # n
    BY DEF Replied
<1> QED
    BY <1>1, <1>2, <1>3 DEF PlacesTyped, Distinct

\* What upload_database does to the places: the request is answered, or it waits
\* for the republisher.
LEMMA UploadEffect ==
    ASSUME RepStep, PlacesTyped, Distinct,
           NEW n \in Nat, n \notin Replied, n \notin Uploading,
           NEW hash \in SUBSET Nat, Upload(n, hash)
    PROVE  /\ uploads' \in Seq([request : Nat, root : SUBSET Nat]) /\ Len(uploads') = requested'
           /\ answers' \subseteq [request : Nat, result : Rep!Results]
           /\ Distinct'
           /\ \/ Replied' = Replied \cup {n} /\ Uploading' = Uploading
              \/ Replied' = Replied /\ Uploading' = Uploading \cup {n}
           /\ destroyed' = destroyed
<1>1. CASE hash = {}
    <2>1. Answer(n, "ok") /\ uploads' = uploads /\ told' = told
          /\ requested' = requested /\ destroyed' = destroyed
        BY <1>1 DEF Upload, db, republisher
    <2>2. "ok" \in Rep!Results
        BY DEF Rep!Results
    <2>3. Uploading' = Uploading
        BY <2>1 DEF RepStep, UploadingLast
    <2> QED
        BY <2>1, <2>2, <2>3, AnswerEffect DEF PlacesTyped, Distinct
<1>2. CASE hash # {}
    <2>1. /\ uploads' = Append(uploads, [request |-> n, root |-> hash])
          /\ told' = told /\ requested' = requested + 1 /\ destroyed' = destroyed
          /\ answers' = answers
        BY <1>2 DEF Upload, Rep!Publish
    <2>2. /\ requested \in Nat /\ Len(told) \in Nat /\ Len(told) <= requested
          /\ Uploading = {uploads[m].request : m \in (Len(told) + 1)..requested}
          /\ Uploading' = {uploads'[m].request : m \in (Len(told) + 1)..requested + 1}
        BY <2>1 DEF RepStep, UploadingLast, Republishes
    <2>3. /\ uploads' \in Seq([request : Nat, root : SUBSET Nat])
          /\ Len(uploads') = requested + 1
          /\ \A m \in 1..requested : uploads'[m] = uploads[m]
          /\ uploads'[requested + 1].request = n
        BY <2>1, <2>2 DEF PlacesTyped
    <2>4. \A m \in (Len(told) + 1)..requested :
              uploads'[m].request = uploads[m].request /\ uploads[m].request # n
        BY <2>2, <2>3
    <2>5. (Len(told) + 1)..(requested + 1) =
              (Len(told) + 1)..requested \cup {requested + 1}
        BY <2>2
    <2>6. Uploading' = Uploading \cup {n}
        BY <2>2, <2>3, <2>4, <2>5
    <2>7. \A i, j \in (Len(told) + 1)..(requested + 1) :
              uploads'[i].request = uploads'[j].request => i = j
        BY <2>3, <2>4, <2>5 DEF Distinct
    <2>8. Replied' = Replied /\ Distinct'
        BY <2>1, <2>7 DEF Replied, Distinct
    <2> QED
        BY <2>1, <2>3, <2>6, <2>8 DEF PlacesTyped
<1> QED
    BY <1>1, <1>2

\* What a callback of the republisher does to them
LEMMA CallBackEffect ==
    ASSUME RepP!IInv, RepStep, OnePlace, PlacesTyped, Distinct,
           Rep!Deliver \/ Rep!RunPosted,
           NEW result \in Rep!Results, CallBack(NextEntry, result),
           UNCHANGED uploads
    PROVE  /\ answers' \subseteq [request : Nat, result : Rep!Results]
           /\ Distinct' /\ destroyed' = destroyed /\ requested' = requested
           /\ \/ Replied' = Replied /\ Uploading' = Uploading
              \/ \E n \in Uploading : Replied' = Replied \cup {n} /\ Uploading' = Uploading \ {n}
<1>1. /\ requested \in Nat /\ Len(told) \in Nat /\ Len(told) <= requested
      /\ requested' = requested /\ destroyed' = destroyed /\ uploads' = uploads
      /\ Uploading = {uploads[m].request : m \in (Len(told) + 1)..requested}
      /\ Uploading' = {uploads[m].request : m \in (Len(told') + 1)..requested}
    BY NextTold DEF RepStep, UploadingLast, Republishes
<1>2. CASE NextEntry = 0 /\ told' = told
    <2>1. answers' = answers
        BY <1>2 DEF CallBack, Rep!NoCallback
    <2> QED
        BY <1>1, <1>2, <2>1 DEF PlacesTyped, Distinct, Replied
<1>3. CASE NextEntry = Len(told) + 1 /\ Len(told) + 1 <= requested /\ Len(told') = Len(told) + 1
    <2> DEFINE n == uploads[Len(told) + 1].request
    <2>1. Answer(n, result)
        BY <1>1, <1>3 DEF CallBack, Rep!NoCallback
    <2>2. Len(told) + 1 \in (Len(told) + 1)..requested /\ Len(told) + 1 \in 1..Len(uploads)
        BY <1>1, <1>3 DEF PlacesTyped
    <2>3. n \in Uploading /\ n \in Nat
        <3>1. uploads[Len(told) + 1] \in [request : Nat, root : SUBSET Nat]
            BY <2>2, ElementOfSeq DEF PlacesTyped
        <3> QED
            BY <1>1, <2>2, <3>1
    <2>4. n \notin Replied
        <3>1. In(n, Uploading) = 1 /\ \A S : In(n, S) \in {0, 1}
            BY <2>3 DEF In
        <3>2. In(n, Replied) = 0
            BY <2>3, <3>1 DEF OnePlace
        <3> QED
            BY <3>2 DEF In
    <2>5. (Len(told) + 1)..requested = {Len(told) + 1} \cup (Len(told') + 1)..requested
          /\ Len(told) + 1 \notin (Len(told') + 1)..requested
        BY <1>1, <1>3
    <2>6. Uploading' = Uploading \ {n}
        <3>1. \A m \in (Len(told') + 1)..requested : uploads[m].request # n
            BY <2>2, <2>5 DEF Distinct
        <3> QED
            BY <1>1, <2>5, <3>1
    <2>7. \A i, j \in (Len(told') + 1)..requested : uploads[i].request = uploads[j].request => i = j
        BY <2>5 DEF Distinct
    <2> HIDE DEF n
    <2>8. /\ Replied' = Replied \cup {n}
          /\ answers' \subseteq [request : Nat, result : Rep!Results]
          /\ \A a, b \in answers' : a.request = b.request => a = b
        BY <2>1, <2>3, <2>4, AnswerEffect
    <2>9. Distinct'
        BY <1>1, <2>7, <2>8 DEF Distinct
    <2> QED
        BY <1>1, <2>3, <2>6, <2>8, <2>9
<1> QED
    BY <1>2, <1>3, NextTold
\* A request that is in one place is in no other.
LEMMA NowhereElse ==
    ASSUME OnePlace, NEW n \in Nat
    PROVE  /\ n \in adding => n \in 1..Started /\ n \notin spawned /\ n \notin Replied
           /\ n \in spawned => n \notin Replied /\ n \notin Uploading /\ n \notin Writing
           /\ n \in Writing => n \notin Replied /\ n \notin Uploading
BY DEF OnePlace, In

\* The republisher and what it has are not touched.
LEMMA UploadsStay ==
    ASSUME RepStep, PlacesTyped, Distinct, UNCHANGED <<uploads, republisher>>
    PROVE  /\ Uploading' = Uploading /\ destroyed' = destroyed
           /\ uploads' = uploads /\ requested' = requested /\ told' = told
BY DEF RepStep, UploadingLast, republisher

LEMMA AnswersStay ==
    ASSUME UNCHANGED answers
    PROVE  Replied' = Replied
BY DEF Replied

LEMMA InitPlaces == Init => PlacesInv
<1> SUFFICES ASSUME Init PROVE PlacesInv
    OBVIOUS
<1>1. /\ asked = 0 /\ insertQueue = <<>> /\ Len(<<>>) = 0
      /\ uploads = <<>> /\ requested = 0 /\ told = <<>>
      /\ <<>> \in Seq([request : Nat, root : SUBSET Nat])
    BY EmptySeq DEF Init, Rep!Init
<1>2. Started = 0 /\ 1..Started = {}
    <2>1. Started = asked - Len(insertQueue)
        BY DEF Started
    <2>2. asked = 0 /\ Len(insertQueue) = 0
        BY <1>1
    <2>3. Started = 0
        BY <2>1, <2>2
    <2> QED
        BY <2>3
<1>3. Uploading = {}
    <2>1. Uploading = {uploads[m].request : m \in (Len(told) + 1)..requested}
        BY RepInit, UploadingAre DEF UploadingLast
    <2>2. (Len(told) + 1)..requested = {}
        BY <1>1
    <2> QED
        BY <2>1, <2>2
<1>4. OnePlace
    BY <1>2, <1>3 DEF OnePlace, In, Init, Writing, Replied, None
<1>5. PlacesTyped
    BY <1>1 DEF PlacesTyped, Init, None
<1>6. Distinct
    <2>1. (Len(told) + 1)..requested = {}
        BY <1>1
    <2> QED
        BY <2>1 DEF Distinct, Init
<1>7. EndOfAll
    BY DEF EndOfAll, Init
<1> QED
    BY <1>4, <1>5, <1>6, <1>7 DEF PlacesInv

LEMMA InsertContentPlaces ==
    ASSUME JobsInv, RepStep, PlacesInv, InsertContent
    PROVE  PlacesInv'
<1>1. /\ UNCHANGED <<spawned, writer, storing, uploads, answers, dropped, thrown, republisher>>
      /\ ~destroyed
    BY DEF InsertContent, dbTree, db, Rep!MayCall
<1>2. Uploading' = Uploading /\ Replied' = Replied /\ Writing' = Writing
    BY <1>1, UploadsStay, AnswersStay DEF PlacesInv, Writing
<1>3. /\ Started \in Nat
      /\ \/ Started' = Started /\ adding' = adding
         \/ Started' = Started + 1 /\ adding' = adding \cup {Started + 1}
    BY InsertContentJobs DEF JobsInv, QueueInOrder
<1>4. OnePlace'
    BY <1>1, <1>2, <1>3 DEF PlacesInv, OnePlace, In
<1> QED
    BY <1>1, <1>4 DEF PlacesInv, PlacesTyped, Distinct, EndOfAll, republisher

LEMMA AddedPlaces ==
    ASSUME JobsInv, RepStep, PlacesInv,
           NEW n \in 1..asked, NEW result \in Rep!Results, Added(n, result)
    PROVE  PlacesInv'
<1>1. /\ UNCHANGED <<writer, storing, uploads, dropped, thrown, republisher>>
      /\ ~destroyed /\ n \in adding /\ n \in Nat
    BY DEF Added, dbTree, db, Alive, JobsInv, QueueInOrder
<1>2. Uploading' = Uploading /\ Writing' = Writing
    BY <1>1, UploadsStay DEF PlacesInv, Writing
<1>3. /\ Started \in Nat
      /\ \/ Started' = Started /\ adding' = adding \ {n}
         \/ Started' = Started + 1 /\ adding' = (adding \ {n}) \cup {Started + 1}
    BY <1>1, AddedJobs DEF JobsInv, QueueInOrder
<1>4. n \in 1..Started /\ n \notin spawned /\ n \notin Replied
    BY <1>1, NowhereElse DEF PlacesInv
<1>5. CASE result = "ok"
    <2>1. spawned' = spawned \cup {n} /\ answers' = answers
        BY <1>5 DEF Added, Spawned
    <2>2. Replied' = Replied
        BY <2>1, AnswersStay
    <2>3. OnePlace'
        BY <1>1, <1>2, <1>3, <1>4, <2>1, <2>2 DEF PlacesInv, OnePlace, In
    <2> QED
        BY <1>1, <2>1, <2>3 DEF PlacesInv, PlacesTyped, Distinct, EndOfAll, republisher
<1>6. CASE result # "ok"
    <2>1. spawned' = spawned /\ Answer(n, result)
        BY <1>6 DEF Added, Spawned
    <2>2. /\ Replied' = Replied \cup {n}
          /\ answers' \subseteq [request : Nat, result : Rep!Results]
          /\ \A a, b \in answers' : a.request = b.request => a = b
        BY <1>1, <1>4, <2>1, AnswerEffect DEF PlacesInv
    <2>3. OnePlace'
        BY <1>1, <1>2, <1>3, <1>4, <2>1, <2>2 DEF PlacesInv, OnePlace, In
    <2> QED
        BY <1>1, <2>2, <2>3 DEF PlacesInv, PlacesTyped, Distinct, EndOfAll, republisher
<1> QED
    BY <1>5, <1>6

LEMMA UpdatePlaces ==
    ASSUME JobsInv, RepStep, PlacesInv, root \in SUBSET Nat, NEW n \in 1..asked,
           UpdateBuffered(n) \/ UpdateStarts(n)
    PROVE  PlacesInv'
<1>1. /\ UNCHANGED <<asked, jobs, dropped, thrown, storing>> /\ n \in spawned
      /\ spawned' = spawned \ {n} /\ n \in Nat \ {0} /\ ~destroyed
    BY DEF UpdateBuffered, UpdateStarts, Tree!Buffered, Tree!Starts, Alive, JobsInv, QueueInOrder
<1>2. Started' = Started /\ adding' = adding
    BY <1>1, JobsStay
<1>3. n \notin Replied /\ n \notin Uploading /\ n \notin Writing
    BY <1>1, NowhereElse DEF PlacesInv
<1>4. CASE UpdateBuffered(n)
    <2>1. writer' = writer /\ Upload(n, root) /\ Writing' = Writing
        BY <1>4 DEF UpdateBuffered, Writing
    <2>2. /\ uploads' \in Seq([request : Nat, root : SUBSET Nat]) /\ Len(uploads') = requested'
          /\ answers' \subseteq [request : Nat, result : Rep!Results]
          /\ Distinct' /\ destroyed' = destroyed
          /\ \/ Replied' = Replied \cup {n} /\ Uploading' = Uploading
             \/ Replied' = Replied /\ Uploading' = Uploading \cup {n}
        BY <1>1, <1>3, <2>1, UploadEffect DEF PlacesInv
    <2>3. OnePlace'
        BY <1>1, <1>2, <1>3, <2>1, <2>2 DEF PlacesInv, OnePlace, In
    <2> QED
        BY <1>1, <2>1, <2>2, <2>3 DEF PlacesInv, PlacesTyped, EndOfAll
<1>5. CASE UpdateStarts(n)
    <2>1. /\ writer = None /\ writer' = n /\ UNCHANGED <<uploads, answers, republisher>>
        BY <1>5 DEF UpdateStarts, Tree!Starts, db
    <2>2. Writing = {} /\ Writing' = {n}
        BY <1>1, <2>1 DEF Writing, None
    <2>3. Uploading' = Uploading /\ Replied' = Replied
        BY <2>1, UploadsStay, AnswersStay DEF PlacesInv
    <2>4. OnePlace'
        BY <1>1, <1>2, <1>3, <2>2, <2>3 DEF PlacesInv, OnePlace, In
    <2> QED
        BY <1>1, <2>1, <2>4 DEF PlacesInv, PlacesTyped, Distinct, EndOfAll, republisher, None
<1> QED
    BY <1>4, <1>5
LEMMA WritePlaces ==
    ASSUME JobsInv, RepStep, PlacesInv, memory \in SUBSET Nat, ~thrown, Write
    PROVE  PlacesInv'
<1>1. UNCHANGED <<asked, jobs, spawned>>
    BY DEF Write, BatchInserted, Stored, StoreFailed, WriterAborted
<1>2. Started' = Started /\ adding' = adding
    BY <1>1, JobsStay
<1>3. ASSUME writer # None
      PROVE  writer \in Nat /\ Writing = {writer} /\ writer \notin Replied /\ writer \notin Uploading
    <2>1. writer \in Nat /\ Writing = {writer}
        BY <1>3 DEF PlacesInv, PlacesTyped, Writing
    <2> QED
        BY <2>1, NowhereElse DEF PlacesInv
<1>4. ASSUME writer # None, writer' = None, Answer(writer, "error"), UNCHANGED <<uploads, republisher>>,
             storing' = FALSE \/ destroyed, UNCHANGED <<dropped, thrown>>
      PROVE  PlacesInv'
    <2>1. "error" \in Rep!Results
        BY DEF Rep!Results
    <2>2. /\ Replied' = Replied \cup {writer}
          /\ answers' \subseteq [request : Nat, result : Rep!Results]
          /\ \A a, b \in answers' : a.request = b.request => a = b
        BY <1>3, <1>4, <2>1, AnswerEffect DEF PlacesInv
    <2>3. Uploading' = Uploading /\ Writing' = {}
        BY <1>4, UploadsStay DEF PlacesInv, Writing
    <2>4. OnePlace'
        BY <1>1, <1>2, <1>3, <1>4, <2>2, <2>3 DEF PlacesInv, OnePlace, In
    <2> QED
        BY <1>1, <1>2, <1>4, <2>2, <2>4
        DEF PlacesInv, PlacesTyped, Distinct, EndOfAll, republisher, jobs, None
<1>9. ASSUME writer # None, writer' = None, UNCHANGED <<uploads, answers, republisher>>,
             storing' = FALSE \/ destroyed, thrown', dropped' = dropped \cup {writer}
      PROVE  PlacesInv'
    <2>1. Uploading' = Uploading /\ Replied' = Replied /\ Writing' = {}
        BY <1>9, UploadsStay, AnswersStay DEF PlacesInv, Writing
    <2>2. OnePlace /\ ~thrown
        BY DEF PlacesInv
    <2>3. writer \notin dropped
        <3>1. In(writer, Writing) = 1 /\ writer \in Nat
            BY <1>3, <1>9 DEF In
        <3> QED
            BY <2>2, <3>1 DEF OnePlace, In
    <2>4. OnePlace'
        BY <1>1, <1>2, <1>3, <1>9, <2>1, <2>2, <2>3 DEF OnePlace, In
    <2>5. ~destroyed => dropped' = {writer}
        BY <1>9, <2>2 DEF PlacesInv, EndOfAll
    <2> QED
        BY <1>1, <1>3, <1>9, <2>4, <2>5
        DEF PlacesInv, PlacesTyped, Distinct, EndOfAll, republisher, jobs, None
<1>5. CASE BatchInserted
    <2>1. /\ writer' = writer /\ writer # None /\ UNCHANGED <<uploads, answers, dropped, thrown, republisher>>
        BY <1>5 DEF BatchInserted, Tree!Flushes, db
    <2>2. Uploading' = Uploading /\ Replied' = Replied /\ Writing' = Writing
        BY <2>1, UploadsStay, AnswersStay DEF PlacesInv, Writing
    <2>3. OnePlace'
        BY <1>1, <1>2, <2>1, <2>2 DEF PlacesInv, OnePlace, In
    <2> QED
        BY <1>1, <2>1, <2>3 DEF PlacesInv, PlacesTyped, Distinct, EndOfAll, republisher, jobs
<1>6. CASE Stored
    <2>1. /\ ~destroyed /\ storing' = FALSE /\ writer # None /\ root' = memory
          /\ UNCHANGED <<dropped, thrown>>
          /\ writer' = IF Tree!AnotherBatch THEN writer ELSE None
        BY <1>6 DEF Stored, Alive, Tree!Stores, PlacesInv, EndOfAll
    <2>2. CASE Tree!AnotherBatch
        <3>1. writer' = writer /\ UNCHANGED <<uploads, answers, republisher>>
            BY <1>6, <2>1, <2>2 DEF Stored, db
        <3>2. Uploading' = Uploading /\ Replied' = Replied /\ Writing' = Writing
            BY <3>1, UploadsStay, AnswersStay DEF PlacesInv, Writing
        <3>3. OnePlace'
            BY <1>1, <1>2, <2>1, <3>2 DEF PlacesInv, OnePlace, In
        <3> QED
            BY <1>1, <2>1, <3>1, <3>3
            DEF PlacesInv, PlacesTyped, Distinct, EndOfAll, republisher, jobs
    <2>3. CASE ~Tree!AnotherBatch
        <3>1. writer' = None /\ Upload(writer, memory) /\ Writing' = {}
            BY <1>6, <2>1, <2>3 DEF Stored, Writing
        <3>2. /\ uploads' \in Seq([request : Nat, root : SUBSET Nat]) /\ Len(uploads') = requested'
              /\ answers' \subseteq [request : Nat, result : Rep!Results]
              /\ Distinct' /\ destroyed' = destroyed
              /\ \/ Replied' = Replied \cup {writer} /\ Uploading' = Uploading
                 \/ Replied' = Replied /\ Uploading' = Uploading \cup {writer}
            BY <1>3, <2>1, <3>1, UploadEffect DEF PlacesInv
        <3>3. OnePlace'
            BY <1>1, <1>2, <1>3, <2>1, <3>1, <3>2 DEF PlacesInv, OnePlace, In
        <3> QED
            BY <1>1, <2>1, <3>1, <3>2, <3>3 DEF PlacesInv, PlacesTyped, EndOfAll, jobs, None
    <2> QED
        BY <2>2, <2>3
<1>7. CASE StoreFailed
    <2>1. writer # None
        BY <1>7 DEF StoreFailed, Alive, Tree!Fails, PlacesInv, EndOfAll
    <2> QED
        BY <1>4, <1>9, <1>7, <2>1 DEF StoreFailed, StoreError, Tree!Fails, db
<1>8. CASE WriterAborted
    BY <1>4, <1>9, <1>8 DEF WriterAborted, StoreError, db
<1> QED
    BY <1>5, <1>6, <1>7, <1>8 DEF Write

LEMMA NotifyPlaces ==
    ASSUME JobsInv, RepP!IInv, RepStep, PlacesInv, Notify
    PROVE  PlacesInv'
<1>1. UNCHANGED <<asked, jobs, spawned, writer, storing, uploads, dropped, thrown>>
    BY DEF Notify, Deliver, UploadAborted, PublishDone, dbTree, db
<1>2. Started' = Started /\ adding' = adding /\ Writing' = Writing
    BY <1>1, JobsStay DEF Writing
<1>3. CASE Deliver \/ UploadAborted
    <2>1. PICK result \in Rep!Results : CallBack(NextEntry, result)
        <3>1. CASE Deliver
            <4>1. NextEntry = Head(callbacks) /\ round # RepP!Idle
                BY <3>1, NextTold DEF Deliver, Rep!Deliver, RepP!Idle
            <4>2. round.result \in Rep!Results
                BY <4>1 DEF RepStep, Republishes, RepP!Results, Rep!Results
            <4> QED
                BY <3>1, <4>1, <4>2 DEF Deliver
        <3>2. CASE UploadAborted
            <4>1. NextEntry = Head(posted)
                BY <3>2, NextTold DEF UploadAborted
            <4> QED
                BY <3>2, <4>1 DEF UploadAborted, Rep!Results
        <3> QED
            BY <1>3, <3>1, <3>2
    <2>2. Rep!Deliver \/ Rep!RunPosted
        BY <1>3 DEF Deliver, UploadAborted
    <2>3. /\ answers' \subseteq [request : Nat, result : Rep!Results]
          /\ Distinct' /\ destroyed' = destroyed /\ requested' = requested
          /\ \/ Replied' = Replied /\ Uploading' = Uploading
             \/ \E n \in Uploading : Replied' = Replied \cup {n} /\ Uploading' = Uploading \ {n}
        BY <1>1, <2>1, <2>2, CallBackEffect DEF PlacesInv
    <2>4. OnePlace'
        BY <1>1, <1>2, <2>3 DEF PlacesInv, OnePlace, In
    <2> QED
        BY <1>1, <2>3, <2>4 DEF PlacesInv, PlacesTyped, EndOfAll, jobs
<1>4. ASSUME NEW result \in Rep!Results, PublishDone(result)
      PROVE  PlacesInv'
    <2>1. UNCHANGED <<answers, told, requested, destroyed>>
        BY <1>4 DEF PublishDone, Rep!Completed
    <2>2. Uploading' = Uploading /\ Replied' = Replied
        BY <1>1, <2>1, AnswersStay DEF RepStep, UploadingLast
    <2>3. OnePlace'
        BY <1>1, <1>2, <2>2 DEF PlacesInv, OnePlace, In
    <2> QED
        BY <1>1, <2>1, <2>3 DEF PlacesInv, PlacesTyped, Distinct, EndOfAll, jobs
<1> QED
    BY <1>3, <1>4 DEF Notify

LEMMA RepublishPlaces ==
    ASSUME JobsInv, RepStep, PlacesInv, Republish
    PROVE  PlacesInv'
<1>1. /\ UNCHANGED <<asked, jobs, spawned, writer, storing, uploads, dropped, thrown, answers>>
      /\ UNCHANGED <<told, requested, destroyed>>
    BY DEF Republish, own, dbTree, db,
           Rep!TimerExpires, Rep!TimerHandler, Rep!FinishRound, Rep!AbandonRound
<1>2. /\ Started' = Started /\ adding' = adding /\ Writing' = Writing
      /\ Uploading' = Uploading /\ Replied' = Replied
    BY <1>1, JobsStay, AnswersStay DEF RepStep, UploadingLast, Writing
<1>3. OnePlace'
    BY <1>1, <1>2 DEF PlacesInv, OnePlace, In
<1> QED
    BY <1>1, <1>3 DEF PlacesInv, PlacesTyped, Distinct, EndOfAll, jobs

LEMMA DestroyPlaces ==
    ASSUME JobsInv, RepStep, PlacesInv, ~thrown, Destroy
    PROVE  PlacesInv'
<1>1. /\ UNCHANGED <<asked, writer, storing, uploads, answers, told, requested>>
      /\ ~destroyed /\ destroyed' /\ adding' = {} /\ spawned' = {} /\ insertQueue' = <<>>
      /\ dropped' = {insertQueue[i] : i \in 1..Len(insertQueue)} \cup adding \cup spawned
    BY DEF Destroy, Rep!Destroy, Rep!MayCall, dbTree, db
<1>2. /\ Writing' = Writing /\ Uploading' = Uploading /\ Replied' = Replied
      /\ Started' = asked /\ dropped = {} /\ ~destroyed
    BY <1>1, DestroyJobs, AnswersStay DEF RepStep, UploadingLast, Writing, PlacesInv, EndOfAll
<1>3. /\ asked \in Nat /\ Started \in Nat /\ Len(insertQueue) \in Nat
      /\ asked = Started + Len(insertQueue)
      /\ \A i \in 1..Len(insertQueue) : insertQueue[i] = Started + i
    BY DEF JobsInv, QueueInOrder, Started
<1>4. {insertQueue[i] : i \in 1..Len(insertQueue)} = (Started + 1)..asked
    <2>1. \A m \in (Started + 1)..asked : m - Started \in 1..Len(insertQueue)
                                         /\ insertQueue[m - Started] = m
        BY <1>3
    <2>2. \A i \in 1..Len(insertQueue) : insertQueue[i] \in (Started + 1)..asked
        BY <1>3
    <2> QED
        BY <2>1, <2>2
<1>5. 1..asked = 1..Started \cup (Started + 1)..asked
      /\ \A m \in (Started + 1)..asked : m \notin 1..Started
    BY <1>3
<1>6. OnePlace'
    BY <1>1, <1>2, <1>4, <1>5 DEF PlacesInv, OnePlace, In
<1> QED
    BY <1>1, <1>6 DEF PlacesInv, PlacesTyped, Distinct, EndOfAll
--------------------------------------------------------------------------
\* The tree and the file

\* A root hash leads to what was saved, and so does the tree in memory: what is
\* saved next can only be more.
TreeInv ==
    /\ \A S \in {spawned, dropped, buffer, batch, memory, root, file} : S \subseteq 1..asked
    /\ {storing, storeFailed, thrown} \subseteq BOOLEAN /\ writer \in 0..asked
    /\ root \subseteq memory /\ file \subseteq memory
    /\ root # {} => file \subseteq root

LEMMA UploadSaves ==
    ASSUME NEW n, NEW hash, Upload(n, hash)
    PROVE  file' = IF hash = {} THEN file ELSE hash
BY DEF Upload, db

LEMMA InitTree == Init => TreeInv
<1>1. Init => writer \in 0..asked
    BY DEF Init, None
<1> QED
    BY <1>1 DEF Init, TreeInv

LEMMA NextTree == JobsInv /\ PlacesInv /\ TreeInv /\ [Next]_vars => TreeInv' /\ file \subseteq file'
<1> SUFFICES ASSUME JobsInv, PlacesInv, TreeInv, [Next]_vars
             PROVE  TreeInv' /\ file \subseteq file'
    OBVIOUS
<1>1. asked \in Nat
    BY DEF JobsInv, QueueInOrder
<1>2. ASSUME UNCHANGED <<dbTree, file>>, asked' = asked \/ asked' = asked + 1,
             spawned' \subseteq 1..asked, dropped' \subseteq 1..asked, thrown' = thrown
      PROVE  TreeInv' /\ file \subseteq file'
    <2>1. 1..asked \subseteq 1..asked' /\ 0..asked \subseteq 0..asked'
        BY <1>1, <1>2
    <2> QED
        BY <1>2, <2>1 DEF dbTree, TreeInv
<1>3. ASSUME NEW n \in 1..asked, UpdateBuffered(n)
      PROVE  TreeInv' /\ file \subseteq file'
    <2>1. file' = IF root = {} THEN file ELSE root
        BY <1>3, UploadSaves DEF UpdateBuffered
    <2>2. /\ asked' = asked /\ buffer' = buffer \cup {n} /\ writer' = writer
          /\ spawned' = spawned \ {n} /\ dropped' = dropped
          /\ UNCHANGED <<storing, batch, memory, root, storeFailed, thrown>>
        BY <1>3 DEF UpdateBuffered, Tree!Buffered
    <2> QED
        BY <2>1, <2>2 DEF TreeInv
<1>4. ASSUME NEW n \in 1..asked, UpdateStarts(n)
      PROVE  TreeInv' /\ file \subseteq file'
    <2>1. /\ asked' = asked /\ batch' = buffer \cup {n} /\ buffer' = {} /\ writer' = n
          /\ spawned' = spawned \ {n} /\ dropped' = dropped
          /\ UNCHANGED <<storing, memory, root, storeFailed, thrown, file>>
        BY <1>4 DEF UpdateStarts, Tree!Starts, db
    <2>2. n \in 0..asked
        BY <1>1
    <2> QED
        BY <2>1, <2>2 DEF TreeInv
<1>5. CASE BatchInserted
    <2>1. /\ asked' = asked /\ memory' = memory \cup batch /\ batch' = {} /\ root' = {}
          /\ storing' = TRUE /\ UNCHANGED <<writer, buffer, storeFailed, thrown, file, spawned, dropped>>
        BY <1>5 DEF BatchInserted, Tree!Flushes, Tree!Joined, db
    <2> QED
        BY <2>1 DEF TreeInv
<1>6. CASE Stored
    <2>1. /\ asked' = asked /\ root' = memory /\ memory' = memory /\ storing' = FALSE
          /\ spawned' = spawned /\ dropped' = dropped
          /\ UNCHANGED <<storeFailed, thrown>> /\ writer' \in {writer, None}
          /\ batch' \in {batch, buffer} /\ buffer' \in {buffer, {}}
        BY <1>6 DEF Stored, Tree!Stores
    <2>2. file' = file \/ file' = memory
        BY <1>6, <2>1, UploadSaves DEF Stored, db
    <2>3. 0 \in 0..asked
        BY <1>1
    <2> QED
        BY <2>1, <2>2, <2>3, ZenonT(30) DEF TreeInv, None
<1>7. CASE StoreFailed \/ WriterAborted
    <2>1. /\ asked' = asked /\ writer' = None /\ storing' \in {storing, FALSE}
          /\ storeFailed' \in {storeFailed, TRUE} /\ UNCHANGED <<buffer, batch, memory, root, file>>
          /\ spawned' = spawned /\ dropped' \in {dropped, dropped \cup {writer}}
          /\ thrown' \in {thrown, TRUE}
        BY <1>7 DEF StoreFailed, WriterAborted, StoreError, Tree!Fails, db
    <2>2. 0 \in 0..asked
        BY <1>1
    <2>3. writer \in 1..asked
        <3>1. writer # None
            BY <1>7 DEF StoreFailed, WriterAborted, Alive, Tree!Fails, PlacesInv, EndOfAll
        <3> QED
            BY <1>1, <3>1 DEF TreeInv, None
    <2>4. dropped' \subseteq 1..asked
        BY <2>1, <2>3 DEF TreeInv
    <2> QED
        BY <2>1, <2>2, <2>4, ZenonT(30) DEF TreeInv, None
<1>8. CASE Notify
    BY <1>2, <1>8 DEF Notify, Deliver, UploadAborted, PublishDone, db, TreeInv
<1>9. CASE InsertContent \/ Republish \/ UNCHANGED vars
    BY <1>2, <1>9 DEF InsertContent, Republish, vars, own, db, TreeInv
<1>10. ASSUME NEW n \in 1..asked, NEW result, Added(n, result)
       PROVE  TreeInv' /\ file \subseteq file'
    BY <1>2, <1>10 DEF Added, Spawned, db, TreeInv
<1>11. CASE Destroy
    <2>1. /\ UNCHANGED <<dbTree, file, asked, thrown>> /\ spawned' = {}
          /\ dropped' = {insertQueue[i] : i \in 1..Len(insertQueue)} \cup adding \cup spawned
        BY <1>11 DEF Destroy, db
    <2>2. /\ asked \in Nat /\ Started \in Nat /\ Len(insertQueue) \in Nat
          /\ Started = asked - Len(insertQueue) /\ adding \subseteq 1..Started
          /\ \A i \in 1..Len(insertQueue) : insertQueue[i] = Started + i
        BY DEF JobsInv, QueueInOrder, JobsCounted, Started
    <2>3. adding \subseteq 1..asked /\ \A i \in 1..Len(insertQueue) : insertQueue[i] \in 1..asked
        BY <2>2
    <2>4. dropped' \subseteq 1..asked
        BY <2>1, <2>3 DEF TreeInv
    <2> QED
        BY <1>2, <2>1, <2>4
<1> QED
    BY <1>3, <1>4, <1>5, <1>6, <1>7, <1>8, <1>9, <1>10, <1>11 DEF Next, Work, Write

--------------------------------------------------------------------------
\* The publications

\* One at a time even when the injector is gone, and of an upload that was made.
InFlight ==
    /\ Len(inflight) <= 1
    /\ inflight # <<>> => inflight[1].id \in 1..requested
    /\ armed \/ fired > 0 \/ callbacks # <<>> \/ round # RepP!Idle \/ inflight # <<>>
         => requested > 0

LEMMA LastInFlight ==
    ASSUME InFlight, inflight \in Seq([id : Nat, last : Nat \ {0}]), inflight # <<>>
    PROVE  Tail(inflight) = <<>>
<1>1. Len(inflight) \in Nat /\ Len(inflight) # 0 /\ Len(inflight) <= 1
    BY EmptySeq DEF InFlight
<1>2. Len(inflight) = 1
    <2>1. \A l \in Nat : l # 0 /\ l <= 1 => l = 1
        OBVIOUS
    <2> QED
        BY <1>1, <2>1
<1>3. Tail(inflight) \in Seq([id : Nat, last : Nat \ {0}]) /\ Len(Tail(inflight)) = 0
    BY <1>2, HeadTailProperties
<1> QED
    BY <1>3, EmptySeq

LEMMA InFlightStep ==
    ASSUME RepStep, InFlight, [RepP!Next]_(RepP!vars)
    PROVE  /\ InFlight'
           /\ requested' \in {requested, requested + 1}
           /\ \/ inflight' = <<>> \/ inflight' = inflight
              \/ inflight' # <<>> /\ inflight'[1].id = requested'
<1>1. /\ requested \in Nat /\ toPublish = requested /\ fired \in Nat
      /\ callbacks \in Seq(Nat) /\ inflight \in Seq([id : Nat, last : Nat \ {0}])
      /\ requested' \in Nat /\ toPublish' = requested'
      /\ ~destroyed' => Len(inflight') <= 1
    BY DEF RepStep, Republishes
<1> DEFINE New(l) == [id |-> requested', last |-> l]
<1>2. ASSUME NEW l, inflight' = Append(inflight, New(l)), ~destroyed'
      PROVE  Len(inflight') <= 1 /\ inflight' # <<>> /\ inflight'[1].id = requested'
    <2>1. Len(inflight) \in Nat /\ Len(inflight') = Len(inflight) + 1
        BY <1>1, <1>2
    <2>2. Len(inflight) = 0
        BY <1>1, <1>2, <2>1
    <2>3. inflight = <<>>
        BY <1>1, <2>2, EmptySeq
    <2>4. inflight' = <<New(l)>>
        BY <1>2, <2>3
    <2> QED
        BY <2>4
<1>3. inflight # <<>> => Tail(inflight) = <<>>
    BY <1>1, LastInFlight
<1>4. \/ inflight' = inflight
      \/ inflight # <<>> /\ inflight' = <<>>
      \/ ~destroyed' /\ \E l : inflight' = Append(inflight, New(l))
    BY <1>1, <1>3
    DEF RepP!Next, RepP!vars, RepP!Publish, RepP!Destroy, RepP!TimerExpires, RepP!TimerHandler,
        RepP!Progress, RepP!Deliver, RepP!FinishRound, RepP!AbandonRound, RepP!RunPosted,
        RepP!Completed, RepP!StartPublishing, RepP!NoneWaits, RepP!MayCall
<1>5. requested' \in {requested, requested + 1}
    BY DEF RepP!Next, RepP!vars, RepP!Publish, RepP!Destroy, RepP!TimerExpires, RepP!TimerHandler,
        RepP!Progress, RepP!Deliver, RepP!FinishRound, RepP!AbandonRound, RepP!RunPosted,
        RepP!Completed
<1> DEFINE Going == armed \/ fired > 0 \/ callbacks # <<>> \/ round # RepP!Idle \/ inflight # <<>>
<1>6. requested' = requested + 1 \/ (Going' => Going)
    <2>1. CASE RepP!Publish
        BY <2>1 DEF RepP!Publish
    <2>2. CASE RepP!Destroy
        BY <2>2 DEF RepP!Destroy
    <2>3. CASE RepP!TimerExpires \/ RepP!TimerHandler
        BY <1>1, <2>3 DEF RepP!TimerExpires, RepP!TimerHandler
    <2>4. CASE RepP!Deliver
        BY <2>4 DEF RepP!Deliver, RepP!Idle
    <2>5. CASE RepP!FinishRound \/ RepP!AbandonRound
        BY <2>5 DEF RepP!FinishRound, RepP!AbandonRound
    <2>6. CASE RepP!RunPosted \/ UNCHANGED RepP!vars
        BY <2>6 DEF RepP!RunPosted, RepP!vars
    <2>7. ASSUME NEW result, RepP!Completed(result)
          PROVE  Going
        BY <2>7 DEF RepP!Completed
    <2> HIDE DEF Going
    <2> QED
        BY <2>1, <2>2, <2>3, <2>4, <2>5, <2>6, <2>7 DEF RepP!Next, RepP!Progress
<1>7. armed' \/ fired' > 0 \/ callbacks' # <<>> \/ round' # RepP!Idle \/ inflight' # <<>>
        => requested' > 0
    BY <1>1, <1>5, <1>6 DEF InFlight
<1>8. CASE inflight' = inflight
    BY <1>1, <1>5, <1>7, <1>8 DEF InFlight
<1>9. CASE inflight' = <<>>
    <2>1. Len(<<>>) = 0
        OBVIOUS
    <2> QED
        BY <1>5, <1>7, <1>9, <2>1 DEF InFlight
<1>10. ASSUME NEW l, inflight' = Append(inflight, New(l)), ~destroyed'
       PROVE  /\ InFlight'
              /\ inflight' # <<>> /\ inflight'[1].id = requested'
    BY <1>1, <1>2, <1>7, <1>10 DEF InFlight
<1> QED
    BY <1>4, <1>5, <1>8, <1>9, <1>10
\* What was uploaded last is what is saved, and what is on its way to the name
\* has all that the name leads to.
Saved ==
    /\ published \subseteq file
    /\ \A m \in 1..requested : uploads[m].request \in 1..asked /\ uploads[m].root \subseteq file
    /\ requested > 0 => uploads[requested].root = file
    /\ inflight # <<>> => published \subseteq uploads[inflight[1].id].root

PublishInv == InFlight /\ Saved

LEMMA InitPublish == Init => PublishInv
<1> SUFFICES ASSUME Init PROVE PublishInv
    OBVIOUS
<1>1. /\ inflight = <<>> /\ Len(<<>>) = 0 /\ requested = 0 /\ fired = 0
      /\ armed = FALSE /\ callbacks = <<>> /\ round = RepP!Idle
      /\ published = {} /\ file = {}
    BY DEF Init, Rep!Init, Rep!Idle, RepP!Idle
<1> QED
    BY <1>1 DEF PublishInv, InFlight, Saved

\* What a step does to the file, the uploads and the name
Uploads ==
    \E n \in 1..asked :
        /\ uploads' = Append(uploads, [request |-> n, root |-> file'])
        /\ requested' = requested + 1 /\ published' = published

Publishes ==
    /\ UNCHANGED <<file, uploads, requested>> /\ inflight # <<>>
    /\ published' \in {published, uploads[inflight[1].id].root}
    /\ inflight' = Tail(inflight)

LEMMA SavingSteps ==
    ASSUME [Next]_vars, TreeInv, RepStep, PlacesInv
    PROVE  UNCHANGED <<file, uploads, requested, published>> \/ Uploads \/ Publishes
<1>1. ASSUME NEW n \in 1..asked, NEW hash, Upload(n, hash)
      PROVE  UNCHANGED <<file, uploads, requested, published>> \/ Uploads
    BY <1>1 DEF Upload, db, republisher, Uploads, Rep!Publish
<1>2. CASE InsertContent \/ UNCHANGED vars
    BY <1>2 DEF InsertContent, vars, own, db, republisher
<1>3. CASE Destroy
    BY <1>3 DEF Destroy, Rep!Destroy, db
<1>4. CASE Republish
    BY <1>4 DEF Republish, own, db, Rep!TimerExpires, Rep!TimerHandler, Rep!FinishRound,
                Rep!AbandonRound
<1>5. CASE BatchInserted \/ StoreFailed \/ WriterAborted
    BY <1>5 DEF BatchInserted, StoreFailed, WriterAborted, db, republisher
<1>6. CASE Stored
    <2>1. writer \in 1..asked
        BY <1>6 DEF Stored, Alive, Tree!Stores, PlacesInv, EndOfAll, TreeInv, None
    <2> QED
        BY <1>1, <1>6, <2>1 DEF Stored, db, republisher
<1>7. CASE Deliver \/ UploadAborted
    BY <1>7 DEF Deliver, UploadAborted, Rep!Deliver, Rep!RunPosted, db
<1>8. ASSUME NEW result \in Rep!Results, PublishDone(result)
      PROVE  Publishes
    <2>1. inflight \in Seq([id : Nat, last : Nat \ {0}])
        BY DEF RepStep, Republishes
    <2>2. /\ inflight # <<>> /\ inflight' = Tail(inflight)
          /\ published' \in {published, uploads[Head(inflight).id].root}
          /\ UNCHANGED <<file, uploads, requested>>
        BY <1>8 DEF PublishDone, PublishedAfter, Rep!Completed
    <2>3. Head(inflight) = inflight[1]
        BY <2>1, <2>2, HeadTailProperties
    <2> QED
        BY <2>2, <2>3 DEF Publishes
<1>9. ASSUME NEW n \in 1..asked, Work(n)
      PROVE  UNCHANGED <<file, uploads, requested, published>> \/ Uploads
    <2>1. CASE UpdateBuffered(n)
        BY <1>1, <2>1 DEF UpdateBuffered
    <2>2. CASE UpdateStarts(n)
        BY <2>2 DEF UpdateStarts, db, republisher
    <2>3. ASSUME NEW result, Added(n, result)
          PROVE  UNCHANGED <<file, uploads, requested, published>>
        BY <2>3 DEF Added, db, republisher
    <2> QED
        BY <1>9, <2>1, <2>2, <2>3 DEF Work
<1> QED
    BY <1>2, <1>3, <1>4, <1>5, <1>6, <1>7, <1>8, <1>9 DEF Next, Write, Notify

LEMMA NextSaved ==
    ASSUME RepStep, PlacesTyped, InFlight, Saved, asked \in Nat, asked' \in {asked, asked + 1},
           [RepP!Next]_(RepP!vars), file \subseteq file',
           UNCHANGED <<file, uploads, requested, published>> \/ Uploads \/ Publishes
    PROVE  PublishInv' /\ published \subseteq published'
<1>1. /\ requested \in Nat /\ Len(uploads) = requested
      /\ uploads \in Seq([request : Nat, root : SUBSET Nat]) /\ 1..asked \subseteq 1..asked'
    BY DEF RepStep, Republishes, PlacesTyped
<1>2. /\ InFlight'
      /\ \/ inflight' = <<>> \/ inflight' = inflight
         \/ inflight' # <<>> /\ inflight'[1].id = requested'
    BY InFlightStep
<1>3. CASE UNCHANGED <<file, uploads, requested, published>>
    <2>1. inflight' # <<>> => published' \subseteq uploads'[inflight'[1].id].root
        BY <1>1, <1>2, <1>3 DEF Saved, InFlight
    <2> QED
        BY <1>1, <1>2, <1>3, <2>1 DEF Saved, PublishInv
<1>4. CASE Uploads
    <2>1. PICK n \in 1..asked : uploads' = Append(uploads, [request |-> n, root |-> file'])
        BY <1>4 DEF Uploads
    <2>2. /\ uploads'[requested + 1].request = n /\ uploads'[requested + 1].root = file'
          /\ \A m \in 1..requested : uploads'[m] = uploads[m]
          /\ requested' = requested + 1 /\ published' = published
        BY <1>1, <1>4, <2>1 DEF Uploads
    <2>3. 1..(requested + 1) = 1..requested \cup {requested + 1}
        BY <1>1
    <2>4. \A m \in 1..requested' : uploads'[m].request \in 1..asked' /\ uploads'[m].root \subseteq file'
        BY <1>1, <2>2, <2>3 DEF Saved
    <2>5. inflight' # <<>> => published' \subseteq uploads'[inflight'[1].id].root
        <3>1. CASE inflight' = inflight /\ inflight # <<>>
            <4>1. inflight[1].id \in 1..requested
                BY <3>1 DEF InFlight
            <4> QED
                BY <2>2, <3>1, <4>1 DEF Saved
        <3>2. CASE inflight' # <<>> /\ inflight'[1].id = requested'
            BY <2>2, <3>2 DEF Saved
        <3> QED
            BY <1>2, <3>1, <3>2
    <2> QED
        BY <1>2, <2>2, <2>4, <2>5 DEF Saved, PublishInv
<1>5. CASE Publishes
    <2>1. /\ UNCHANGED <<file, uploads, requested>> /\ inflight # <<>>
          /\ published' \in {published, uploads[inflight[1].id].root}
          /\ inflight' = Tail(inflight)
        BY <1>5 DEF Publishes
    <2>2. inflight[1].id \in 1..requested
        BY <2>1 DEF InFlight
    <2>3. inflight' = <<>>
        BY <2>1, LastInFlight DEF RepStep, Republishes
    <2>4. published \subseteq published' /\ published' \subseteq file
        BY <2>1, <2>2 DEF Saved
    <2> QED
        BY <1>1, <1>2, <2>1, <2>3, <2>4 DEF Saved, PublishInv
<1> QED
    BY <1>3, <1>4, <1>5
--------------------------------------------------------------------------
\* The inductive invariant.  The database cannot lose a request because a root
\* hash is one of the whole tree (TreeInv); the name cannot because one
\* publication at a time is under way, of what was saved by then (PublishInv).
IInv == RepP!IInv /\ JobsInv /\ PlacesInv /\ TreeInv /\ PublishInv

LEMMA InitIInv == Init => IInv
BY RepInit, InitJobs, InitPlaces, InitTree, InitPublish DEF IInv

LEMMA NextIInv ==
    IInv /\ [Next]_vars => IInv' /\ file \subseteq file' /\ published \subseteq published'
<1> SUFFICES ASSUME IInv, [Next]_vars
             PROVE  IInv' /\ file \subseteq file' /\ published \subseteq published'
    OBVIOUS
<1>1. RepP!IInv /\ JobsInv /\ PlacesInv /\ TreeInv /\ PublishInv
    BY DEF IInv
<1>2. RepP!IInv' /\ RepStep
    BY <1>1, RepFacts, UploadingAre, RepNext DEF RepStep
<1>3. JobsInv'
    BY <1>1, NextJobs
<1>4. TreeInv' /\ file \subseteq file'
    BY <1>1, NextTree
<1>5. root \in SUBSET Nat /\ memory \in SUBSET Nat /\ asked \in Nat
    <2>1. asked \in Nat
        BY <1>1 DEF JobsInv, QueueInOrder
    <2>2. 1..asked \subseteq Nat
        BY <2>1
    <2> QED
        BY <1>1, <2>1, <2>2 DEF TreeInv
<1>6. PlacesInv'
    <2>1. CASE UNCHANGED vars
        <3>1. Started' = Started /\ adding' = adding
            BY <1>1, <2>1, JobsStay DEF vars, own
        <3>2. UNCHANGED <<uploads, republisher, answers, spawned, writer, dropped, thrown, storing,
                          insertQueue>>
            BY <2>1 DEF vars, own, jobs, dbTree, db
        <3>3. Uploading' = Uploading /\ Replied' = Replied /\ Writing' = Writing
            BY <1>1, <1>2, <3>2, UploadsStay, AnswersStay DEF PlacesInv, Writing
        <3>4. OnePlace'
            BY <1>1, <3>1, <3>2, <3>3 DEF PlacesInv, OnePlace, In
        <3> QED
            BY <1>1, <3>1, <3>2, <3>4
            DEF PlacesInv, PlacesTyped, Distinct, EndOfAll, republisher
    <2>2. ASSUME NEW n \in 1..asked, Work(n)
          PROVE  PlacesInv'
        <3>1. (\E result \in Rep!Results : Added(n, result)) \/ UpdateBuffered(n) \/ UpdateStarts(n)
            BY <2>2 DEF Work
        <3> QED
            BY <1>1, <1>2, <1>5, <3>1, AddedPlaces, UpdatePlaces
    <2> QED
        BY <1>1, <1>2, <1>5, <2>1, <2>2, InsertContentPlaces, WritePlaces, NotifyPlaces,
           RepublishPlaces, DestroyPlaces DEF Next
<1>7. asked' \in {asked, asked + 1}
    <2>1. ASSUME UNCHANGED <<asked, jobs>> \/ asked' = asked PROVE asked' = asked
        BY <2>1
    <2> QED
        BY <2>1 DEF Next, InsertContent, Destroy, Republish, own, vars, Write, BatchInserted, Stored,
           StoreFailed, WriterAborted, Notify, Deliver, UploadAborted, PublishDone,
           Work, Added, UpdateBuffered, UpdateStarts
<1>8. PublishInv' /\ published \subseteq published'
    BY <1>1, <1>2, <1>4, <1>5, <1>7, SavingSteps, NextSaved, RepublisherSteps
    DEF PublishInv, PlacesInv
<1> QED
    BY <1>2, <1>3, <1>4, <1>6, <1>8 DEF IInv

LEMMA Invariance == Spec => []IInv
BY InitIInv, NextIInv, PTL DEF Spec

LEMMA SeqOfElements ==
    ASSUME NEW S, NEW T, NEW q \in Seq(S), \A i \in 1..Len(q) : q[i] \in T
    PROVE  q \in Seq(T)
<1>1. Len(q) \in Nat /\ q \in [1..Len(q) -> S] /\ DOMAIN q = 1..Len(q)
    BY LenProperties
<1>2. q \in [1..Len(q) -> T]
    BY <1>1
<1> QED
    BY <1>1, <1>2, SeqDef

\* The type invariant, for any number of requests and of jobs at a time.
THEOREM TypeCorrect == Spec => []TypeOK
<1>1. ASSUME IInv PROVE TypeOK
    <2>1. /\ asked \in Nat /\ Started \in Nat /\ insertQueue \in Seq(Nat)
          /\ Started = asked - Len(insertQueue) /\ Len(insertQueue) \in Nat
          /\ \A i \in 1..Len(insertQueue) : insertQueue[i] = Started + i
          /\ jobCount \in Nat /\ adding \subseteq 1..Started
        BY <1>1, FS_CardinalityType
        DEF IInv, JobsInv, QueueInOrder, JobsCounted, JobsBounded, Started
    <2>2. insertQueue \in Seq(Requests)
        <3>1. \A i \in 1..Len(insertQueue) : insertQueue[i] \in Requests
            BY <2>1 DEF Requests
        <3> QED
            BY <2>1, <3>1, SeqOfElements
    <2>3. writer \in Requests \cup {None} /\ {storing, storeFailed, thrown} \subseteq BOOLEAN
        BY <1>1, <2>1 DEF IInv, TreeInv, Requests, None
    <2>4. \A S \in {adding, spawned, buffer, batch, memory, root, file, published, dropped} :
              S \subseteq Requests
        <3>1. adding \subseteq Requests
            BY <2>1 DEF Requests
        <3> QED
            BY <1>1, <3>1 DEF IInv, TreeInv, PublishInv, Saved, Requests
    <2>5. uploads \in Seq([request : Requests, root : SUBSET Requests])
        <3>1. uploads \in Seq([request : Nat, root : SUBSET Nat]) /\ Len(uploads) = requested
            BY <1>1 DEF IInv, PlacesInv, PlacesTyped
        <3>2. \A m \in 1..Len(uploads) : uploads[m] \in [request : Requests, root : SUBSET Requests]
            <4>1. ASSUME NEW m \in 1..Len(uploads)
                  PROVE  /\ uploads[m] \in [request : Nat, root : SUBSET Nat]
                         /\ uploads[m].request \in Requests /\ uploads[m].root \subseteq Requests
                BY <1>1, <3>1, ElementOfSeq DEF IInv, PublishInv, Saved, TreeInv, Requests
            <4> QED
                BY <4>1
        <3> QED
            BY <3>1, <3>2, SeqOfElements
    <2>6. answers \subseteq [request : Requests, result : Rep!Results]
        <3>1. ASSUME NEW a \in answers
              PROVE  a \in [request : Nat, result : Rep!Results] /\ a.request \in 1..Started
            <4>1. a \in [request : Nat, result : Rep!Results]
                BY <1>1 DEF IInv, PlacesInv, PlacesTyped
            <4>2. a.request \in Nat /\ In(a.request, Replied) = 1
                BY <4>1 DEF In, Replied
            <4>3. In(a.request, 1..Started) # 0
                BY <1>1, <4>2 DEF IInv, PlacesInv, OnePlace, In
            <4> QED
                BY <4>1, <4>3 DEF In
        <3> QED
            BY <2>1, <3>1 DEF Requests
    <2> QED
        BY <2>1, <2>2, <2>3, <2>4, <2>5, <2>6 DEF TypeOK
<1> QED
    BY <1>1, Invariance, PTL

\* Neither the saved database nor the published one ever loses a request
\* (db.cpp 146: updates save and publish whatever root they find).
THEOREM DatabaseGrows == Spec => NeverGoesBack
<1>1. IInv /\ [Next]_vars => [file \subseteq file' /\ published \subseteq published']_vars
    BY NextIInv
<1> QED
    BY <1>1, Invariance, PTL DEF Spec, NeverGoesBack
\* The holders of a request, one by one
LEMMA HoldersAre ==
    ASSUME NEW n, NEW h
    PROVE  h \in Holders(n) <=>
             \/ \E i \in 1..Len(insertQueue) : insertQueue[i] = n /\ h = <<"queue", i>>
             \/ \E a \in answers : a.request = n /\ h = <<"answer", a.result>>
             \/ n \in adding /\ h = <<"adding">>
             \/ n \in spawned /\ h = <<"spawned">>
             \/ n = writer /\ h = <<"writer">>
             \/ n \in Uploading /\ h = <<"uploading">>
             \/ n \in dropped /\ h = <<"dropped">>
<1> DEFINE Places == {<<"adding", adding>>, <<"spawned", spawned>>, <<"writer", {writer}>>,
                      <<"uploading", Uploading>>, <<"dropped", dropped>>}
           Third == {<<p[1]>> : p \in {q \in Places : n \in q[2]}}
<1>1. h \in Third <=> \E p \in Places : n \in p[2] /\ h = <<p[1]>>
    OBVIOUS
<1>2. (\E p \in Places : n \in p[2] /\ h = <<p[1]>>) <=>
             \/ n \in adding /\ h = <<"adding">>
             \/ n \in spawned /\ h = <<"spawned">>
             \/ n = writer /\ h = <<"writer">>
             \/ n \in Uploading /\ h = <<"uploading">>
             \/ n \in dropped /\ h = <<"dropped">>
    OBVIOUS
<1> HIDE DEF Places
<1>3. Holders(n) = {<<"queue", i>> : i \in {j \in 1..Len(insertQueue) : insertQueue[j] = n}}
                   \cup {<<"answer", a.result>> : a \in {b \in answers : b.request = n}}
                   \cup Third
    BY DEF Holders, Places
<1> HIDE DEF Third
<1> QED
    BY <1>1, <1>2, <1>3

LEMMA OneElement ==
    ASSUME NEW S, NEW x, \A h : h \in S <=> h = x
    PROVE  S = {x}
OBVIOUS

\* Every request is in one place, in the queue, with the database or the
\* republisher, or at its caller's; the destructor loses some, and an exception
\* that a failed store throws (btree.cpp 415) the one whose store it was
\* (injector.cpp 32-60, db.cpp 121-160).
THEOREM RequestsOnce == Spec => []EachRequestOnce
<1>1. ASSUME IInv PROVE EachRequestOnce
    <2>1. /\ asked \in Nat /\ Started \in Nat /\ Len(insertQueue) \in Nat
          /\ Started = asked - Len(insertQueue)
          /\ \A i \in 1..Len(insertQueue) : insertQueue[i] = Started + i
          /\ OnePlace /\ EndOfAll
          /\ \A a, b \in answers : a.request = b.request => a = b
        BY <1>1 DEF IInv, JobsInv, QueueInOrder, Started, PlacesInv, Distinct
    <2>2. ASSUME NEW n \in Requests
          PROVE  \E h : Holders(n) = {h}
        <3>1. n \in Nat /\ n # 0
            BY <2>1 DEF Requests
        <3>2. /\ n \in Replied <=> \E a \in answers : a.request = n
              /\ n \in Writing <=> n = writer
            BY <3>1 DEF Replied, Writing, None
        <3>3. \A i \in 1..Len(insertQueue) : insertQueue[i] = n <=> i = n - Started
            BY <2>1, <3>1, SMTT(30)
        <3>4. In(n, adding) + In(n, spawned) + In(n, Writing) + In(n, Uploading)
                  + In(n, dropped) + In(n, Replied) = In(n, 1..Started)
            BY <2>1, <3>1 DEF OnePlace
        <3>5. CASE n > Started
            <4>1. n - Started \in 1..Len(insertQueue) /\ n \notin 1..Started
                BY <2>1, <3>1, <3>5 DEF Requests
            <4>2. /\ n \notin adding /\ n \notin spawned /\ n \notin Writing
                  /\ n \notin Uploading /\ n \notin dropped /\ n \notin Replied
                BY <3>4, <4>1 DEF In
            <4>3. \A h : h \in Holders(n) <=> h = <<"queue", n - Started>>
                BY <3>2, <3>3, <4>1, <4>2, HoldersAre
            <4>4. Holders(n) = {<<"queue", n - Started>>}
                BY <4>3, OneElement
            <4> QED
                BY <4>4
        <3>6. CASE ~(n > Started)
            <4>1. n \in 1..Started /\ \A i \in 1..Len(insertQueue) : insertQueue[i] # n
                BY <2>1, <3>1, <3>6
            <4>2. \/ n \in adding /\ n \notin spawned \cup Writing \cup Uploading \cup dropped \cup Replied
                  \/ n \in spawned /\ n \notin adding \cup Writing \cup Uploading \cup dropped \cup Replied
                  \/ n \in Writing /\ n \notin adding \cup spawned \cup Uploading \cup dropped \cup Replied
                  \/ n \in Uploading /\ n \notin adding \cup spawned \cup Writing \cup dropped \cup Replied
                  \/ n \in dropped /\ n \notin adding \cup spawned \cup Writing \cup Uploading \cup Replied
                  \/ n \in Replied /\ n \notin adding \cup spawned \cup Writing \cup Uploading \cup dropped
                BY <3>4, <4>1 DEF In
            <4>3. CASE n \notin Replied
                <5>1. PICK w \in {"adding", "spawned", "writer", "uploading", "dropped"} :
                          \A h : h \in Holders(n) <=> h = <<w>>
                    BY <3>2, <4>1, <4>2, <4>3, HoldersAre
                <5> QED
                    <6>1. Holders(n) = {<<w>>}
                        BY <5>1, OneElement
                    <6> QED
                        BY <6>1
            <4>4. CASE n \in Replied
                <5>1. PICK a \in answers : a.request = n
                    BY <3>2, <4>4
                <5>2. \A b \in answers : b.request = n => b = a
                    BY <2>1, <5>1
                <5>3. \A h : h \in Holders(n) <=> h = <<"answer", a.result>>
                    BY <3>2, <4>1, <4>2, <4>4, <5>1, <5>2, HoldersAre
                <5> QED
                    <6>1. Holders(n) = {<<"answer", a.result>>}
                        BY <5>3, OneElement
                    <6> QED
                        BY <6>1
            <4> QED
                BY <4>3, <4>4
        <3> QED
            BY <2>1, <3>1, <3>5, <3>6
    <2>3. \A n \in Requests : Cardinality(Holders(n)) = 1
        BY <2>2, FS_Singleton
    <2>4. ~destroyed => Cardinality(dropped) = (IF thrown THEN 1 ELSE 0)
        <3>1. ASSUME ~destroyed, thrown PROVE Cardinality(dropped) = 1
            <4>1. PICK n \in Nat : dropped = {n}
                BY <2>1, <3>1 DEF EndOfAll
            <4> QED
                BY <4>1, FS_Singleton
        <3>2. ASSUME ~destroyed, ~thrown PROVE Cardinality(dropped) = 0
            BY <2>1, <3>2, FS_EmptySet DEF EndOfAll
        <3> QED
            BY <3>1, <3>2
    <2> QED
        BY <2>3, <2>4 DEF EachRequestOnce
<1> QED
    BY <1>1, Invariance, PTL
==========================================================================
