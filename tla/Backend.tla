----------------------------- MODULE Backend -----------------------------
(***************************************************************************)
(* src/src/backend.cpp: the asynchronous calls of Backend and what becomes *)
(* of their handlers.  Three parties take part: the thread of the          *)
(* io_service (calls, handlers and the destructor), the threads of Go that *)
(* call Handle::call when an operation is done, and the queue of the       *)
(* io_service between them.  The n-th call is handle n.                    *)
(*                                                                         *)
(* Handle::call and ~Backend hold destruct_mutex and are one step each.    *)
(* Handle::Handle links itself into the list without it (backend.cpp:56),  *)
(* while Handle::call may unlink the list's last handle.  Both write       *)
(* root.prev and the last handle's hook, so the new handle's link can be   *)
(* lost: its hook names a neighbour that has left the list, and the        *)
(* neighbour's hook may keep one half of a link.  What is written through  *)
(* such a hook later goes into freed memory or through null; there the     *)
(* model ends.                                                             *)
(***************************************************************************)
EXTENDS Naturals, Sequences, FiniteSets

VARIABLES
    made,       \* how many calls were made
    pushing,    \* the handle that is being linked into `handles`, or None
    torn,       \* the handles unlinked meanwhile at the list's end
    stray,      \* handles whose link was lost: their hook names one of those
    dirty,      \* unlinked handles whose hook was given half a link
    broken,     \* such a hook was used
    listed,     \* impl->handles
    running,    \* handles whose operation Go has not finished
    cancelled,  \* handles whose cb was moved out by cancel
    queue,      \* what was posted or dispatched to the io_service
    alive,      \* handles that were not deleted
    destroyed,  \* impl->was_destroyed
    told,       \* the handlers that were called, in order, and with what
    dropped     \* handlers that were deleted without a call

links == <<stray, dirty, broken>>
vars == <<made, pushing, torn, links, listed, running, cancelled, queue, alive,
          destroyed, told, dropped>>

None == 0
Results == {"ok", "error"}

\* HandleBase::unlink, and a slip: the handle stays on the list.
StillLinked(s, n) == s
Unlinked(s, n) ==
    IF \E i \in 1..Len(s) : s[i] = n
    THEN LET i == CHOOSE j \in 1..Len(s) : s[j] = n
         IN  SubSeq(s, 1, i - 1) \o SubSeq(s, i + 1, Len(s))
    ELSE s

\* Handle::call finds no cb when cancel has taken it; a slip: it does not look.
NeverTaken(n) == FALSE
CbTaken(n) == n \in cancelled

\* delete self, and a slip: nobody does.
Leak(n) == alive' = alive
Delete(n) == alive' = alive \ {n}

\* What cancel posts, and a slip: the error is not set.
Unset(n) == [handle |-> n, result |-> "unset"]
Aborted(n) == [handle |-> n, result |-> "aborted"]

Init ==
    /\ made = 0 /\ pushing = None /\ torn = {} /\ listed = <<>>
    /\ stray = {} /\ dirty = {} /\ broken = FALSE
    /\ running = {} /\ cancelled = {} /\ queue = <<>> /\ alive = {}
    /\ destroyed = FALSE /\ told = <<>> /\ dropped = {}

\* publish_, resolve_, add_, cat_, pin_, unpin_: a new handle is pushed back
\* on the list.
BeginCall ==
    /\ pushing = None /\ ~destroyed
    /\ made' = made + 1
    /\ pushing' = made'
    /\ torn' = {}
    /\ alive' = alive \cup {made'}
    /\ UNCHANGED <<links, listed, running, cancelled, queue, destroyed, told, dropped>>

\* It is linked and Go starts the operation.  If push_back and unlink wrote the
\* same links at the same time, the new handle may stay out of the list, and the
\* handle it was to follow may be left with a link to it.  After that root.prev
\* may name the lost handle; the next ones are then linked behind it, where the
\* destructor, which goes from the front, does not come.
EndCall ==
    /\ pushing # None
    /\ pushing' = None
    /\ torn' = {}
    /\ \/ /\ listed' = Append(listed, pushing)
          /\ UNCHANGED <<stray, dirty>>
       \/ /\ torn # {}
          /\ stray' = stray \cup {pushing}
          /\ dirty' \in {dirty} \cup {dirty \cup {n} : n \in torn}
          /\ UNCHANGED listed
       \/ /\ stray # {}
          /\ UNCHANGED <<listed, stray, dirty>>
    /\ running' = running \cup {pushing}
    /\ UNCHANGED <<made, broken, cancelled, queue, alive, destroyed, told, dropped>>

\* Nothing on the list comes after it.
AtTheEnd(n) == \A i \in 1..Len(listed) : listed[i] = n => i = Len(listed)

\* Handle::call, on a thread of Go.  A handle that was cancelled is deleted;
\* another leaves the list and is dispatched.  was_destroyed can be set in the
\* second case only for a handle that the list has lost.  The unlink of a stray
\* one writes to a neighbour that was unlinked: freed memory by now, or a handle
\* that its own deletion unlinks again, through null.
GoCalls(n, result) ==
    /\ n \in running
    /\ running' = running \ {n}
    /\ \/ CbTaken(n) /\ Delete(n) /\ UNCHANGED <<queue, torn, listed, broken>>
       \/ /\ ~CbTaken(n)
          /\ queue' = Append(queue,
                 IF destroyed THEN Aborted(n) ELSE [handle |-> n, result |-> result])
          /\ listed' = Unlinked(listed, n)
          /\ torn' = IF pushing # None /\ AtTheEnd(n) THEN torn \cup {n} ELSE torn
          /\ broken' = (n \in stray)
          /\ UNCHANGED alive
    /\ UNCHANGED <<made, pushing, stray, dirty, cancelled, destroyed, told, dropped>>

\* The front of the io_service's queue: the lambda of cancel calls the cb it
\* took, the one of Handle::call calls the handle's unless the backend is gone,
\* and deletes the handle; the destructor of its hook unlinks it if it looks linked.
RunHandler ==
    /\ queue # <<>> /\ pushing = None
    /\ queue' = Tail(queue)
    /\ LET n == Head(queue).handle
       IN  \/ /\ n \in cancelled
              /\ told' = Append(told, Head(queue))
              /\ UNCHANGED <<alive, dropped, broken>>
           \/ /\ n \notin cancelled /\ ~destroyed
              /\ told' = Append(told, Head(queue))
              /\ Delete(n) /\ broken' = (n \in dirty)
              /\ UNCHANGED dropped
           \/ /\ n \notin cancelled /\ destroyed
              /\ dropped' = dropped \cup {n}
              /\ Delete(n) /\ broken' = (n \in dirty)
              /\ UNCHANGED told
    /\ UNCHANGED <<made, pushing, torn, stray, dirty, listed, running, cancelled, destroyed>>

\* ~Backend: every handle on the list is cancelled, in its order.
Destroy ==
    /\ pushing = None /\ ~destroyed
    /\ destroyed' = TRUE
    /\ cancelled' = cancelled \cup {listed[i] : i \in 1..Len(listed)}
    /\ queue' = queue \o [i \in 1..Len(listed) |-> Aborted(listed[i])]
    /\ listed' = <<>>
    /\ UNCHANGED <<made, pushing, torn, links, running, alive, told, dropped>>

Next ==
    /\ ~broken
    /\ \/ BeginCall \/ EndCall \/ RunHandler \/ Destroy
       \/ \E n \in running, result \in Results : GoCalls(n, result)

Spec == Init /\ [][Next]_vars

--------------------------------------------------------------------------
Calls == 1..made
Entry == [handle : Calls, result : Results \cup {"aborted"}]

TypeOK ==
    /\ made \in Nat /\ pushing \in Calls \cup {None}
    /\ torn \subseteq Calls /\ stray \subseteq Calls /\ dirty \subseteq Calls
    /\ broken \in BOOLEAN /\ destroyed \in BOOLEAN
    /\ listed \in Seq(Calls) /\ queue \in Seq(Entry) /\ told \in Seq(Entry)
    /\ running \subseteq Calls /\ cancelled \subseteq Calls
    /\ alive \subseteq Calls /\ dropped \subseteq Calls

\* A handle is reached from the list, by the pointer Go was given and by the
\* lambda in the queue, on two threads; whoever deletes it is the last to have
\* it (backend.cpp 66, 68, 77, and 95 where only the cb is taken).  The fourth
\* way to a handle is its neighbour's hook.  It leads to a freed one only when
\* the push of line 56, without the mutex, lost a link.
NothingFreedIsUsed ==
    /\ running \subseteq alive
    /\ \A i \in 1..Len(listed) : listed[i] \in alive
    /\ \A i \in 1..Len(queue) : queue[i].handle \in alive \cup cancelled
    /\ broken => stray # {}

\* Where the handler of call n may be; after cancel the handle Go still knows
\* has no handler any more.
Holders(n) ==
    {<<"pushed">> : x \in {pushing} \cap {n}}
    \cup {<<"go">> : x \in (running \ cancelled) \cap {n}}
    \cup {<<"queue", i>> : i \in {j \in 1..Len(queue) : queue[j].handle = n}}
    \cup {<<"told", i>> : i \in {j \in 1..Len(told) : told[j].handle = n}}
    \cup {<<"dropped">> : x \in dropped \cap {n}}

\* Every handler is in exactly one place, whoever wins the race between an
\* operation that ends, the destructor and the queue: none is called twice, and
\* the only way to lose one is the test of was_destroyed in the lambda.  (The
\* comment of line 204 says that the destructor sees to all of them.)
EachHandlerOnce ==
    /\ \A n \in Calls : Cardinality(Holders(n)) = 1
    /\ dropped # {} => destroyed
==========================================================================
