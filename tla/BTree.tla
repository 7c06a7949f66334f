------------------------------ MODULE BTree ------------------------------
(***************************************************************************)
(* BTree::insert as the injector drives it: coroutines of one io_service   *)
(* call insert; the tree is changed in memory, old nodes are removed from  *)
(* storage and the changed ones stored again.  A coroutine runs until it   *)
(* waits for a storage operation, and only then may another one run, so    *)
(* every pc that is not in Suspended keeps the others out (Quiet).         *)
(*                                                                         *)
(* The heap only grows: Node::split moves entries between nodes, and the   *)
(* nodes that die while it returns are part of carry.                      *)
(***************************************************************************)
EXTENDS BTreeNode, Sequences

CONSTANTS
    Coroutines,   \* the coroutines that call insert
    NoJob,        \* no storage operation is under way
    LoadedRoot    \* the hash BTree::load was given at start, or NoHash

\* boost::none, when Node::insert has no node to return
NoSplit == EmptyMap

VARIABLES
    heap,         \* the nodes in memory, by address
    rootNode,     \* _root->node
    rootHash,     \* _root->hash
    buffer,       \* _insert_buffer
    isInserting,  \* _is_inserting
    batch,        \* what is left of `buf` in BTree::insert
    item,         \* the key and value of the raw_insert under way
    at,           \* the node Node::insert or Node::store is working on
    stack,        \* the callers' frames: node and id of the entry gone down
    carry,        \* the optional<Node> on its way up
    job,          \* the hash given to storage and where to go on after it
    pinned,       \* the hashes pinned in storage
    pc

tree  == <<heap, rootNode>>
queue == <<buffer, isInserting, batch, item>>
frame == <<at, stack, carry>>
vars  == <<heap, rootNode, rootHash, buffer, isInserting, batch, item,
           at, stack, carry, job, pinned, pc>>

Suspended == {"ready", "removing", "adding", "pinning"}
Running   == {"loop", "pick", "descend", "split", "splitRest", "return",
              "attach", "store"}

\* No coroutine is between two suspension points.
Quiet == \A c \in Coroutines : pc[c] \in Suspended

Alloc(h, node) == Append(h, node)
NewAddress(h)  == Len(h) + 1
Addresses      == 1..Len(heap)
Top(s)         == s[Len(s)]
Pop(s)         == SubSeq(s, 1, Len(s) - 1)

Goto(c, label) == pc' = [pc EXCEPT ![c] = label]

\* A slip: the hash is forgotten and nothing asks storage to unpin it.
ForgetHash(c, hash, next) == Goto(c, next) /\ job' = job

\* BTree::try_remove after its argument was moved out: an empty hash is
\* nothing to wait for.
TryRemove(c, hash, next) ==
    IF hash = NoHash
    THEN Goto(c, next) /\ job' = job
    ELSE Goto(c, "removing") /\ job' = [hash |-> hash, next |-> next]

Init ==
    /\ heap = <<>> /\ rootNode = Null /\ rootHash = LoadedRoot
    /\ buffer = EmptyMap /\ isInserting = FALSE
    /\ batch = EmptyMap /\ item = [key |-> Inf, value |-> NoValue]
    /\ at = Null /\ stack = <<>> /\ carry = NoSplit
    /\ job = NoJob
    /\ pinned = {LoadedRoot} \ {NoHash}
    /\ pc = [c \in Coroutines |-> "ready"]

--------------------------------------------------------------------------
\* Conditions and moves of BTree::insert and Node::split, each after a slip that
\* forgets it.
Anyway == TRUE
MayStart == ~isInserting

OneBatch == DOMAIN buffer # {} /\ rootHash = NoHash
MoreBuffered == DOMAIN buffer # {}

RootThere == FALSE
NoRootNode == rootNode = Null

Copied(m) == m
Emptied(m) == EmptyMap

Kept(node) == node
Erased(node) == EmptyMap

\* The hash of a child that was stored; the slip drops the child with it.
StoredAndDropped(e, hash) == [e EXCEPT !.hash = hash, !.child = Null]
Stored(e, hash) == [e EXCEPT !.hash = hash]

--------------------------------------------------------------------------
\* BTree::insert

\* Somebody is inserting: leave the pair in the buffer and report success.
BufferInsert(c, k, v) ==
    /\ Quiet /\ pc[c] = "ready" /\ isInserting
    /\ buffer' = WithNew(buffer, k, v)
    /\ UNCHANGED <<isInserting, batch, item, tree, rootHash, frame, job, pinned, pc>>

StartInsert(c, k, v) ==
    /\ Quiet /\ pc[c] = "ready" /\ MayStart
    /\ isInserting' = TRUE
    /\ buffer' = WithNew(buffer, k, v)
    /\ Goto(c, "loop")
    /\ UNCHANGED <<batch, item, tree, rootHash, frame, job, pinned>>

TakeBuffer(c) ==
    /\ pc[c] = "loop" /\ MoreBuffered
    /\ batch' = buffer
    /\ buffer' = Emptied(buffer)
    /\ Goto(c, "pick")
    /\ UNCHANGED <<isInserting, item, tree, rootHash, frame, job, pinned>>

InsertDone(c) ==
    /\ pc[c] = "loop" /\ ~MoreBuffered
    /\ isInserting' = FALSE
    /\ Goto(c, "ready")
    /\ UNCHANGED <<buffer, batch, item, tree, rootHash, frame, job, pinned>>

\* raw_insert of the next pair: a root without a node gets an empty one.
Pick(c) ==
    /\ pc[c] = "pick" /\ DOMAIN batch # {}
    /\ LET k == First(DOMAIN batch)
       IN  /\ item'  = [key |-> k, value |-> batch[k]]
           /\ batch' = Only(batch, DOMAIN batch \ {k})
    /\ IF NoRootNode
       THEN /\ heap' = Alloc(heap, EmptyMap)
            /\ rootNode' = NewAddress(heap)
       ELSE UNCHANGED <<heap, rootNode>>
    /\ at' = rootNode' /\ stack' = <<>> /\ carry' = NoSplit
    /\ Goto(c, "descend")
    /\ UNCHANGED <<buffer, isInserting, rootHash, job, pinned>>

\* The batch is in the tree: drop the old root, then store.
Flush(c) ==
    /\ pc[c] = "pick" /\ DOMAIN batch = {}
    /\ TryRemove(c, rootHash, "store")
    /\ rootHash' = NoHash
    /\ at' = rootNode /\ stack' = <<>> /\ carry' = NoSplit
    /\ UNCHANGED <<queue, tree, pinned>>

--------------------------------------------------------------------------
\* Node::insert

InsertAtLeaf(c) ==
    /\ pc[c] = "descend" /\ IsLeaf(heap[at])
    /\ heap' = [heap EXCEPT ![at] =
                    WithNew(@, item.key, Entry(item.value, Null, NoHash))]
    /\ Goto(c, "split")
    /\ UNCHANGED <<queue, rootNode, rootHash, frame, job, pinned>>

\* The key is an entry of an inner node: no split there, straight back.
OverwriteValue(c) ==
    /\ pc[c] = "descend" /\ ~IsLeaf(heap[at])
    /\ item.key \in DOMAIN heap[at]
    /\ heap' = [heap EXCEPT ![at][item.key].value = item.value]
    /\ Goto(c, "return")
    /\ UNCHANGED <<queue, rootNode, rootHash, frame, job, pinned>>

\* Call insert on the child of the lower bound, creating what is missing.
GoDown(c) ==
    /\ pc[c] = "descend" /\ ~IsLeaf(heap[at])
    /\ item.key \notin DOMAIN heap[at]
    /\ LET i    == LowerBound(heap[at], item.key)
           here == WithNew(heap[at], i, Entry(NoValue, Null, NoHash))
       IN  /\ stack' = Append(stack, [node |-> at, id |-> i])
           /\ IF here[i].child = Null
              THEN /\ at' = NewAddress(heap)
                   /\ heap' = Alloc([heap EXCEPT ![at] =
                                 With(here, i, [here[i] EXCEPT !.child = at'])],
                                 EmptyMap)
              ELSE /\ at' = here[i].child
                   /\ heap' = [heap EXCEPT ![at] = here]
    /\ UNCHANGED <<queue, rootNode, rootHash, carry, job, pinned, pc>>

\* Node::split up to try_remove of the median's hash
SplitStart(c) ==
    /\ pc[c] = "split" /\ NeedsSplit(heap[at])
    /\ LET left == NewAddress(heap)
       IN  heap' = Alloc([heap EXCEPT ![at] = MedianAndRest(@, left)],
                         LeftPart(heap[at]))
    /\ TryRemove(c, heap[at][Median(heap[at])].hash, "splitRest")
    /\ UNCHANGED <<queue, rootNode, rootHash, frame, pinned>>

\* Node::split after it: the median and the rest move into the node that is
\* returned, and the node that was split is left without entries.
SplitRest(c) ==
    /\ pc[c] = "splitRest"
    /\ LET m == First(DOMAIN heap[at])
       IN  carry' = [id |-> m, entry |-> heap[at][m],
                     right |-> Only(heap[at], Successors(heap[at], m))]
    /\ heap' = [heap EXCEPT ![at] = Erased(@)]
    /\ Goto(c, "return")
    /\ UNCHANGED <<queue, rootNode, rootHash, at, stack, job, pinned>>

NoNeedToSplit(c) ==
    /\ pc[c] = "split" /\ ~NeedsSplit(heap[at])
    /\ carry' = NoSplit
    /\ Goto(c, "return")
    /\ UNCHANGED <<queue, tree, rootHash, at, stack, job, pinned>>

\* Back in the parent's insert: its hash of the child is out of date.
ReturnToParent(c) ==
    /\ pc[c] = "return" /\ stack # <<>>
    /\ LET up == Top(stack)
       IN  /\ TryRemove(c, heap[up.node][up.id].hash, "attach")
           /\ heap' = [heap EXCEPT ![up.node][up.id].hash = NoHash]
    /\ UNCHANGED <<queue, rootNode, rootHash, frame, pinned>>

\* Back in raw_insert: a split root is replaced by a node with two children.
ReturnToRoot(c) ==
    /\ pc[c] = "return" /\ stack = <<>>
    /\ IF carry = NoSplit
       THEN heap' = heap
       ELSE heap' = Alloc([heap EXCEPT ![rootNode] =
                        With(With(EmptyMap, carry.id, carry.entry),
                             Inf, Entry(NoValue, NewAddress(heap), NoHash))],
                        carry.right)
    /\ carry' = NoSplit
    /\ Goto(c, "pick")
    /\ UNCHANGED <<queue, rootNode, rootHash, at, stack, job, pinned>>

\* A slip in insert_node: the right part is dropped.
AttachedMedian(h, p) == [h EXCEPT ![p] = WithNew(h[p], carry.id, carry.entry)]

\* Node::insert_node: the median goes in front of the entry whose child was
\* split, and that child gets the right part.
Attached(h, p) ==
    LET node == WithNew(h[p], carry.id, carry.entry)
        next == First(Successors(node, carry.id))
    IN  [h EXCEPT ![p] = node, ![node[next].child] = carry.right]

Attach(c) ==
    /\ pc[c] = "attach"
    /\ heap' = IF carry = NoSplit THEN heap ELSE Attached(heap, Top(stack).node)
    /\ at' = Top(stack).node
    /\ stack' = Pop(stack)
    /\ carry' = NoSplit
    /\ Goto(c, "split")
    /\ UNCHANGED <<queue, rootNode, rootHash, job, pinned>>

--------------------------------------------------------------------------
\* Node::store, and the storage operations (add_op is add, then pin)

ToStore(node) ==
    {i \in DOMAIN node : node[i].hash = NoHash /\ node[i].child # Null}

StoreChild(c) ==
    /\ pc[c] = "store" /\ ToStore(heap[at]) # {}
    /\ LET i == First(ToStore(heap[at]))
       IN  /\ stack' = Append(stack, [node |-> at, id |-> i])
           /\ at' = heap[at][i].child
    /\ UNCHANGED <<queue, tree, rootHash, carry, job, pinned, pc>>

StoreNode(c) ==
    /\ pc[c] = "store" /\ ToStore(heap[at]) = {}
    /\ job' = [hash |-> Serialise(heap[at]), next |-> "store"]
    /\ Goto(c, "adding")
    /\ UNCHANGED <<queue, tree, rootHash, frame, pinned>>

\* What IPFS does when it is asked to
Pin(hash)   == pinned' = pinned \cup {hash}
Unpin(hash) == pinned' = pinned \ {hash}

Added(c) ==
    /\ pc[c] = "adding"
    /\ Goto(c, "pinning")
    /\ UNCHANGED <<queue, tree, rootHash, frame, job, pinned>>

\* The caller keeps the hash: a parent's store goes on with the next entry,
\* BTree::insert goes round its loop.
Pinned(c) ==
    /\ pc[c] = "pinning"
    /\ Pin(job.hash)
    /\ job' = NoJob
    /\ IF stack = <<>>
       THEN /\ rootHash' = job.hash
            /\ at' = Null
            /\ Goto(c, "loop")
            /\ UNCHANGED <<heap, stack>>
       ELSE /\ heap' = [heap EXCEPT ![Top(stack).node][Top(stack).id] = Stored(@, job.hash)]
            /\ at' = Top(stack).node
            /\ stack' = Pop(stack)
            /\ Goto(c, "store")
            /\ UNCHANGED rootHash
    /\ UNCHANGED <<queue, rootNode, carry>>

\* add or pin failed: store is left through all its frames, and so is insert, whose
\* on_exit resets _is_inserting.  From a child's store the error comes out as an
\* exception that nobody catches (412-415); the tree is left as it is either way.
StoreFailed(c) ==
    /\ pc[c] \in {"adding", "pinning"}
    /\ isInserting' = FALSE
    /\ at' = Null /\ stack' = <<>>
    /\ job' = NoJob
    /\ Goto(c, "ready")
    /\ UNCHANGED <<buffer, batch, item, tree, rootHash, carry, pinned>>

Removed(c) ==
    /\ pc[c] = "removing"
    /\ Unpin(job.hash)
    /\ job' = NoJob
    /\ Goto(c, job.next)
    /\ UNCHANGED <<queue, tree, rootHash, frame>>

\* try_remove ignores the error; the hash is forgotten and stays pinned.
RemoveFailed(c) ==
    /\ pc[c] = "removing"
    /\ job' = NoJob
    /\ Goto(c, job.next)
    /\ UNCHANGED <<queue, tree, rootHash, frame, pinned>>

--------------------------------------------------------------------------
\* What the coroutine does by itself, and what storage answers
Step(c) ==
    \/ TakeBuffer(c) \/ InsertDone(c) \/ Pick(c) \/ Flush(c)
    \/ InsertAtLeaf(c) \/ OverwriteValue(c) \/ GoDown(c)
    \/ SplitStart(c) \/ SplitRest(c) \/ NoNeedToSplit(c)
    \/ ReturnToParent(c) \/ ReturnToRoot(c) \/ Attach(c)
    \/ StoreChild(c) \/ StoreNode(c)

Answer(c) ==
    \/ Added(c) \/ Pinned(c) \/ StoreFailed(c) \/ Removed(c) \/ RemoveFailed(c)

Call(c, k, v) == BufferInsert(c, k, v) \/ StartInsert(c, k, v)

Next ==
    \E c \in Coroutines :
        Step(c) \/ Answer(c) \/ \E k \in Keys, v \in Values : Call(c, k, v)

Spec == Init /\ [][Next]_vars

--------------------------------------------------------------------------
\* A child is null or one of n addresses; a hash has no type of its own, it is
\* the text of a node.
IsEntry(e, n) ==
    e \in [value : Values \cup {NoValue}, child : 0..n, hash : {e.hash}]

IsNode(node, n) ==
    /\ node \in [DOMAIN node -> {node[i] : i \in DOMAIN node}]
    /\ DOMAIN node \subseteq Ids /\ IsFiniteSet(DOMAIN node)
    /\ \A i \in DOMAIN node : IsEntry(node[i], n)

IsHeap(h, n) ==
    /\ h \in Seq({h[a] : a \in DOMAIN h})
    /\ \A a \in 1..Len(h) : IsNode(h[a], n)

IsMap(m) ==
    /\ m \in [DOMAIN m -> Values]
    /\ DOMAIN m \subseteq Keys /\ IsFiniteSet(DOMAIN m)

IsCarry(r, n) ==
    r.id \in Keys /\ IsEntry(r.entry, n) /\ IsNode(r.right, n)

\* The types of the variables, and that the node Node::insert, split and store
\* work on is a node in memory, never a null child.
TypeOK ==
    /\ IsHeap(heap, Len(heap))
    /\ rootNode \in 0..Len(heap)
    /\ IsMap(buffer) /\ IsMap(batch)
    /\ isInserting \in BOOLEAN
    /\ item \in [key : Ids, value : Values \cup {NoValue}]
    /\ stack \in Seq([node : Addresses, id : Ids])
    /\ carry = NoSplit \/ IsCarry(carry, Len(heap))
    /\ pc \in [Coroutines -> Suspended \cup Running]
    /\ \A c \in Coroutines :
        pc[c] \notin {"ready", "loop", "pick"} => at \in Addresses

\* Only the coroutine that set _is_inserting walks, splits or stores nodes:
\* the frames it keeps across its waits are never those of two inserts.
SingleWriter ==
    /\ \A c, d \in Coroutines : pc[c] # "ready" /\ pc[d] # "ready" => c = d
    /\ isInserting <=> \E c \in Coroutines : pc[c] # "ready"

\* What was inserted stays in memory: under a hash that storage gave there is
\* always the node itself, so in a tree that was not loaded nobody fetches.
WholeInMemory ==
    LoadedRoot = NoHash =>
        /\ rootHash # NoHash => rootNode # Null
        /\ \A a \in Addresses : \A i \in DOMAIN heap[a] :
            heap[a][i].hash # NoHash => heap[a][i].child # Null

\* Where c is going once the removal it waits for is answered
Bound(c, label) == pc[c] = label \/ (pc[c] = "removing" /\ job.next = label)

\* What a coroutine that is resumed relies on although others ran meanwhile: a
\* root to insert into and to store, a median in the node it was splitting, a
\* caller's frame to attach to.
WriterResumes ==
    \A c \in Coroutines :
        /\ pc[c] = "pick" => DOMAIN batch # {} \/ rootNode # Null
        /\ pc[c] \notin {"ready", "loop", "pick"} => rootNode # Null
        /\ pc[c] = "removing" => job.next \in {"store", "splitRest", "attach"}
        /\ Bound(c, "splitRest") => DOMAIN heap[at] \ {Inf} # {}
        /\ Bound(c, "attach") => stack # <<>>
==========================================================================
