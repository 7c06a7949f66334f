--------------------------- MODULE Republisher ---------------------------
(***************************************************************************)
(* src/src/republisher.cpp: one publication of the database's id at a time *)
(* and, when nobody asks for one, another every five minutes.  The n-th    *)
(* call of publish is request n; it asks for the n-th id and its callback  *)
(* is also n.  The nullptr that the timer queues is NoCallback.            *)
(*                                                                         *)
(* One thread runs the io_service.  Between two callbacks of a round that  *)
(* is being delivered nothing else runs, except what the callback itself   *)
(* calls: publish, or the destructor.                                      *)
(***************************************************************************)
EXTENDS Naturals, Sequences

VARIABLES
    requested,    \* how many times publish was called
    toPublish,    \* _to_publish
    callbacks,    \* _callbacks
    isPublishing, \* _is_publishing
    armed,        \* _timer has a wait that was not cancelled
    fired,        \* handlers of expired waits that the io_service has queued
    inflight,     \* Backend::publish calls that have not completed: the id, and
                  \* how many callbacks are up to last_i
    round,        \* the completion handler that is running, or Idle
    destroyed,    \* *_was_destroyed
    posted,       \* what the destructor posted to the io_service
    told,         \* the callbacks that were called, in order, and with what
    crashed       \* an empty std::function was called

vars == <<requested, toPublish, callbacks, isPublishing, armed, fired,
          inflight, round, destroyed, posted, told, crashed>>

NoCallback == 0
Idle == [left |-> 0, id |-> 0, result |-> "none", inCallback |-> FALSE]
Results == {"ok", "error"}

\* No handler is running, or one has called back into the program.
MayCall == (round = Idle \/ round.inCallback) /\ ~destroyed /\ ~crashed

Tell(n, result, id) ==
    told' = Append(told, [request |-> n, result |-> result, id |-> id])

Init ==
    /\ requested = 0 /\ toPublish = 0 /\ callbacks = <<>>
    /\ isPublishing = FALSE /\ armed = FALSE /\ fired = 0
    /\ inflight = <<>> /\ round = Idle
    /\ destroyed = FALSE /\ posted = <<>> /\ told = <<>> /\ crashed = FALSE

--------------------------------------------------------------------------
\* Conditions and moves of the republisher, each after a slip that forgets it
NeverEmpty(cbs) == FALSE
NoneWaits(cbs) == cbs = <<>>

TimerUnset == FALSE
TimerSet == TRUE

AtOnce == FALSE
Busy == isPublishing

WithoutEntry(cbs) == cbs
WithEntry(cbs) == Append(cbs, NoCallback)

\* last_i; the slip goes to the end of the list.
UpToEnd(p) == Len(callbacks)
UpToLast(p) == p.last

HandedNone == <<>>
HandedOver == callbacks

--------------------------------------------------------------------------
\* Republisher::start_publishing, with the callbacks and the id it finds
StartPublishing(cbs, id) ==
    IF NoneWaits(cbs)
    THEN /\ isPublishing' = FALSE
         /\ armed' = TimerSet
         /\ inflight' = inflight
    ELSE /\ isPublishing' = TRUE
         /\ armed' = FALSE
         /\ inflight' = Append(inflight, [id |-> id, last |-> Len(cbs)])

\* Republisher::publish
Publish ==
    /\ MayCall
    /\ requested' = requested + 1
    /\ toPublish' = requested'
    /\ callbacks' = Append(callbacks, requested')
    /\ IF Busy
       THEN UNCHANGED <<isPublishing, armed, inflight>>
       ELSE StartPublishing(callbacks', toPublish')
    /\ UNCHANGED <<fired, round, destroyed, posted, told, crashed>>

\* The wait ends; its handler is queued and can no longer be cancelled.
TimerExpires ==
    /\ armed /\ round = Idle /\ ~crashed
    /\ armed' = FALSE
    /\ fired' = fired + 1
    /\ UNCHANGED <<requested, toPublish, callbacks, isPublishing, inflight,
                   round, destroyed, posted, told, crashed>>

\* The handler of the wait; a cancelled one has an error and does nothing.
TimerHandler ==
    /\ fired > 0 /\ round = Idle /\ ~crashed
    /\ fired' = fired - 1
    /\ IF destroyed \/ isPublishing
       THEN UNCHANGED <<callbacks, isPublishing, armed, inflight>>
       ELSE /\ callbacks' = WithEntry(callbacks)
            /\ StartPublishing(callbacks', toPublish)
    /\ UNCHANGED <<requested, toPublish, round, destroyed, posted, told, crashed>>

\* The backend's answer to a publication
Completed(result) ==
    /\ inflight # <<>> /\ round = Idle /\ ~crashed
    /\ inflight' = Tail(inflight)
    /\ round' = IF destroyed THEN Idle
                ELSE [left |-> UpToLast(Head(inflight)), id |-> Head(inflight).id,
                      result |-> result, inCallback |-> FALSE]
    /\ UNCHANGED <<requested, toPublish, callbacks, isPublishing, armed, fired,
                   destroyed, posted, told, crashed>>

\* One turn of the handler's loop: take the front callback and call it.
Deliver ==
    /\ round.left > 0 /\ ~destroyed
    /\ callbacks' = Tail(callbacks)
    /\ round' = [round EXCEPT !.left = @ - 1,
                              !.inCallback = Head(callbacks) # NoCallback]
    /\ IF Head(callbacks) = NoCallback
       THEN told' = told
       ELSE Tell(Head(callbacks), round.result, round.id)
    /\ UNCHANGED <<requested, toPublish, isPublishing, armed, fired, inflight,
                   destroyed, posted, crashed>>

\* The loop has reached last_i.
FinishRound ==
    /\ round # Idle /\ round.left = 0 /\ ~destroyed
    /\ round' = Idle
    /\ StartPublishing(callbacks, toPublish)
    /\ UNCHANGED <<requested, toPublish, callbacks, fired, destroyed, posted,
                   told, crashed>>

\* A callback destroyed the republisher: the handler returns.
AbandonRound ==
    /\ round # Idle /\ destroyed
    /\ round' = Idle
    /\ UNCHANGED <<requested, toPublish, callbacks, isPublishing, armed, fired,
                   inflight, destroyed, posted, told, crashed>>

\* ~Republisher posts whatever is queued, the nullptr of the timer included.
Destroy ==
    /\ MayCall
    /\ destroyed' = TRUE
    /\ posted' = HandedOver
    /\ callbacks' = <<>>
    /\ armed' = FALSE
    /\ UNCHANGED <<requested, toPublish, isPublishing, fired, inflight, round,
                   told, crashed>>

RunPosted ==
    /\ posted # <<>> /\ round = Idle /\ ~crashed
    /\ posted' = Tail(posted)
    /\ IF Head(posted) = NoCallback
       THEN crashed' = TRUE /\ told' = told
       ELSE crashed' = crashed /\ Tell(Head(posted), "aborted", 0)
    /\ UNCHANGED <<requested, toPublish, callbacks, isPublishing, armed, fired,
                   inflight, round, destroyed>>

\* What goes on without the program asking for it
Progress ==
    \/ Deliver \/ FinishRound \/ AbandonRound \/ RunPosted
    \/ \E result \in Results : Completed(result)

Next == Publish \/ Destroy \/ TimerExpires \/ TimerHandler \/ Progress

Spec == Init /\ [][Next]_vars

--------------------------------------------------------------------------
\* What waits for an answer; the destructor moves the list to the io_service.
Waiting == IF destroyed THEN posted ELSE callbacks

TypeOK ==
    /\ requested \in Nat /\ toPublish \in Nat /\ fired \in Nat
    /\ callbacks \in Seq(Nat) /\ posted \in Seq(Nat)
    /\ {isPublishing, armed, destroyed, crashed} \subseteq BOOLEAN
    /\ inflight \in Seq([id : Nat, last : Nat \ {0}])
    /\ round \in [left : Nat, id : Nat, result : Results \cup {"none"},
                  inCallback : BOOLEAN]
    /\ told \in Seq([request : Nat, result : Results \cup {"aborted"}, id : Nat])

\* A queue that holds what is left of `asked` requests when `answered` of them
\* were told: the last ones, in order, behind at most one empty entry.
Ordered(queue, answered, asked) ==
    /\ \A i \in 1..Len(queue) :
        queue[i] # NoCallback => queue[i] = asked - Len(queue) + i
    /\ \A i \in 2..Len(queue) : queue[i] # NoCallback
    /\ asked = answered + (IF queue # <<>> /\ queue[1] = NoCallback
                           THEN Len(queue) - 1 ELSE Len(queue))

\* Callbacks are called in the order of the requests, each of them once, and
\* those that were not called are still waiting in that order: a publish from
\* within a callback, the rounds, the timer's empty entry and the destructor's
\* hand-over lose, repeat or overtake none.
InOrder ==
    /\ \A i \in 1..Len(told) : told[i].request = i
    /\ Ordered(Waiting, Len(told), requested)

\* Nobody is told "ok" before an id at least as new as theirs was published
\* (republisher.cpp 66: last_i ends the round at the callbacks whose id it has).
OkMeansPublished ==
    \A i \in 1..Len(told) : told[i].result = "ok" => told[i].id >= told[i].request

\* Publications never overlap, neither by requests that come while one is under
\* way nor by a timer handler that was queued before it was cancelled.
OneAtATime ==
    ~destroyed =>
        /\ isPublishing <=> (inflight # <<>> \/ round # Idle)
        /\ Len(inflight) <= 1
        /\ inflight # <<>> => round = Idle

\* republisher.h 20, "periodically republished last value": once something was
\* published there is always a publication or a timer that leads to the next.
KeepsRepublishing ==
    (requested > 0 /\ ~destroyed) => isPublishing \/ armed \/ fired > 0

\* The requests and their answers, as the callers see them.
Req == INSTANCE Requests WITH
    made <- requested,
    answered <- {told[i].request : i \in 1..Len(told)},
    halted <- crashed
==========================================================================
