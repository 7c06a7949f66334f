---------------------------- MODULE BTreeFetch ----------------------------
(***************************************************************************)
(* src/src/btree.cpp when the root was loaded by its hash, as the          *)
(* injector's is after a restart: finds fetch nodes from storage while     *)
(* inserts change the same tree, and the tree is destroyed under both.     *)
(*                                                                         *)
(* A find that waits holds a reference to the child slot it fills and a    *)
(* pointer to the node it put there.  Both may lead nowhere when cat       *)
(* answers: an insert has moved or freed the slot, or the node holds what  *)
(* an insert will come back to.  From then on the behaviour is undefined   *)
(* and the model stops (broken): what it says, it says until then.         *)
(***************************************************************************)
EXTENDS BTree

CONSTANTS
    Finders,   \* the coroutines that call find
    Texts      \* the texts that earlier runs stored

ASSUME TextsAssumption ==
    /\ NoHash \notin Texts /\ LoadedRoot \in Texts \cup {NoHash}
    /\ \A t \in Texts :
        /\ DOMAIN t \subseteq Ids /\ IsFiniteSet(DOMAIN t)
        /\ \A i \in DOMAIN t :
            /\ t[i].value \in Values \cup {NoValue}
            /\ t[i].child \in Texts \cup {NoHash}

VARIABLES
    finder,    \* what each find is doing
    gone,      \* *_was_destroyed
    touched,   \* an insert has used the tree after it was destroyed
    broken,    \* memory that was freed, or null, has been used
    offered    \* the pairs of the calls of insert

fetchVars == <<finder, gone, touched, broken, offered>>
writer    == <<queue, rootHash, frame, job, pinned, pc>>

Ended(k, pc_, v) ==
    [pc |-> pc_, key |-> k, slot |-> [node |-> Null, id |-> Inf],
     hash |-> NoHash, node |-> Null, lost |-> FALSE, answer |-> v]

\* Node::find is called for node a.
Searching(k, a) == [Ended(k, "walking", NoValue) EXCEPT !.node = a]

\* new Node in a slot, at an address that is still free
Fetching(k, slot, hash, a) ==
    [Ended(k, "fetching", NoValue) EXCEPT !.slot = slot, !.hash = hash, !.node = a]

RootSlot == [node |-> Null, id |-> Inf]

FetchInit ==
    /\ Init
    /\ finder = [f \in Finders |-> Ended(Inf, "rest", NoValue)]
    /\ gone = FALSE /\ touched = FALSE /\ broken = FALSE /\ offered = {}

\* A find that has not to wait runs on, and nothing else meanwhile.
NobodyWalks == \A f \in Finders : finder[f].pc # "walking"

\* The entries of a stored node: no child is in memory.
NodeOf(text) == [i \in DOMAIN text |-> Entry(text[i].value, Null, text[i].child)]

\* A slip in Node::find: the entry at or after the key is taken for the key's.
AtLeastTheKey(i, k) == i # Inf
IsTheKey(i, k) == i = k

Replies(f, pc_, v) ==
    /\ finder' = [finder EXCEPT ![f] = Ended(finder[f].key, pc_, v)]
    /\ UNCHANGED heap

\* A slip: cat is asked again.
AskedAgain(f) == finder' = finder

Failed(f) == finder' = [finder EXCEPT ![f] = Ended(finder[f].key, "error", NoValue)]

--------------------------------------------------------------------------
\* Node::find in a node: the answer, a child in memory, or a slot in which
\* lazy_find puts an empty node before it waits.
Search(f) ==
    LET k == finder[f].key
        a == finder[f].node
        i == LowerBound(heap[a], k)
        e == heap[a][i]
    IN  /\ finder[f].pc = "walking"
        /\ IF AtOrAfter(heap[a], k) = {} THEN Replies(f, "not_found", NoValue)
           ELSE IF IsTheKey(i, k) THEN Replies(f, "found", e.value)
           ELSE IF e.child # Null
           THEN finder' = [finder EXCEPT ![f] = Searching(k, e.child)] /\ UNCHANGED heap
           ELSE IF e.hash = NoHash THEN Replies(f, "not_found", NoValue)
           ELSE /\ finder' = [finder EXCEPT ![f] =
                     Fetching(k, [node |-> a, id |-> i], e.hash, NewAddress(heap))]
                /\ heap' = Alloc([heap EXCEPT ![a][i].child = NewAddress(heap)], EmptyMap)
        /\ UNCHANGED <<writer, rootNode, gone, touched, broken, offered>>

\* BTree::find
Find(f, k) ==
    /\ Quiet /\ NobodyWalks /\ ~gone /\ finder[f].pc # "fetching"
    /\ \/ /\ k \in DOMAIN buffer
          /\ finder' = [finder EXCEPT ![f] = Ended(k, "found", buffer[k])]
          /\ UNCHANGED tree
       \/ /\ k \notin DOMAIN buffer /\ rootNode # Null
          /\ finder' = [finder EXCEPT ![f] = Searching(k, rootNode)]
          /\ UNCHANGED tree
       \/ /\ k \notin DOMAIN buffer /\ rootNode = Null /\ rootHash = NoHash
          /\ finder' = [finder EXCEPT ![f] = Ended(k, "not_found", NoValue)]
          /\ UNCHANGED tree
       \/ /\ k \notin DOMAIN buffer /\ rootNode = Null /\ rootHash # NoHash
          /\ rootNode' = NewAddress(heap)
          /\ heap' = Alloc(heap, EmptyMap)
          /\ finder' = [finder EXCEPT ![f] = Fetching(k, RootSlot, rootHash, rootNode')]
    /\ UNCHANGED <<writer, gone, touched, broken, offered>>

\* Node a and the nodes it owns: what Entries::clear of a takes with it.
Owned(h, a) ==
    LET level[n \in Nat] ==
            IF n = 0 THEN {a}
            ELSE UNION {{h[b][i].child : i \in DOMAIN h[b]} : b \in level[n - 1]} \ {Null}
    IN  {a} \cup UNION {level[n] : n \in 1..Len(h)}

\* The frames that will use their entry again: insert_node looks for the slot anew.
UsedAgain == {j \in 1..Len(stack) : j = Len(stack) => \A c \in Coroutines : ~Bound(c, "attach")}


\* Entries::clear frees what a coroutine that inserts will come back to.
ClearsFrame(a) ==
    \/ \E j \in UsedAgain : stack[j].node = a
    \/ at = a /\ \E c \in Coroutines : Bound(c, "splitRest")

\* n->find in lazy_find: n is the slot, whatever it holds by now.
InSlot(slot) == IF slot.node = Null THEN rootNode ELSE heap[slot.node][slot.id].child

\* cat has answered: the node gets the stored entries in place of those it has,
\* whose slots are freed, and the find goes on through its own slot.
Restored(f) ==
    /\ Quiet /\ NobodyWalks /\ finder[f].pc = "fetching"
    /\ LET a == finder[f].node
       IN  \/ /\ gone
              /\ Failed(f)
              /\ UNCHANGED <<heap, broken>>
           \/ /\ ~gone /\ (finder[f].lost \/ ClearsFrame(a))
              /\ broken' = TRUE
              /\ UNCHANGED <<heap, finder>>
           \/ /\ ~gone /\ ~finder[f].lost /\ ~ClearsFrame(a)
              /\ heap' = [heap EXCEPT ![a] = NodeOf(finder[f].hash)]
              /\ finder' = [g \in Finders |->
                    IF g = f THEN Searching(finder[f].key, InSlot(finder[f].slot))
                    ELSE [finder[g] EXCEPT !.lost = @ \/ finder[g].slot.node \in Owned(heap, a)]]
              /\ UNCHANGED broken
    /\ UNCHANGED <<writer, rootNode, gone, touched, offered>>

\* cat failed, or parse throws before the node is cleared; it keeps what it has.
\* (The texts are what store wrote, so no line of one throws after that.)
RestoreFailed(f) ==
    /\ Quiet /\ NobodyWalks /\ finder[f].pc = "fetching"
    /\ Failed(f)
    /\ UNCHANGED <<writer, tree, gone, touched, broken, offered>>

\* The node whose entries an insert is about to free: the child that was split, in
\* insert_node, and the root that was, in raw_insert.
Released ==
    {node \in Addresses : \E c \in Coroutines :
        /\ carry # NoSplit
        /\ \/ /\ pc[c] = "return" /\ stack = <<>>
              /\ node = rootNode
           \/ /\ pc[c] = "attach"
              /\ LET parent == WithNew(heap[Top(stack).node], carry.id, carry.entry)
                 IN  node = parent[First(Successors(parent, carry.id))].child}

\* What the inserts do meanwhile: an entry that moves to another node, or is freed,
\* leaves the reference of a find behind.
Followed ==
    /\ ~gone /\ NobodyWalks
    /\ LET freed == UNION {Owned(heap, a) : a \in Released}
           Left(slot) == slot.node \in freed \/ slot.id \notin DOMAIN heap'[slot.node]
       IN  finder' = [f \in Finders |-> [finder[f] EXCEPT !.lost =
                @ \/ (finder[f].slot.node # Null /\ Left(finder[f].slot))]]
    /\ UNCHANGED <<gone, touched, broken>>

\* A restore took away the slot after the median, or its child, which was split:
\* insert_node is about to go past the end, or through null.
Astray(c) ==
    /\ pc[c] = "attach" /\ carry # NoSplit
    /\ LET parent == WithNew(heap[Top(stack).node], carry.id, carry.entry)
           after  == Successors(parent, carry.id)
       IN  \A i \in after : i = First(after) => parent[i].child = Null

Insert(c) == ~Astray(c) /\ (Step(c) \/ Answer(c)) /\ Followed /\ UNCHANGED offered

InsertAstray(c) ==
    /\ ~gone /\ NobodyWalks /\ Astray(c)
    /\ broken' = TRUE
    /\ UNCHANGED <<vars, finder, gone, touched, offered>>

CallInsert(c, k, v) == Call(c, k, v) /\ Followed /\ offered' = offered \cup {<<k, v>>}

\* BTree::~BTree; a find that waits keeps the root and its nodes.
Destroy ==
    /\ Quiet /\ NobodyWalks /\ ~gone
    /\ gone' = TRUE
    /\ UNCHANGED <<vars, finder, touched, broken, offered>>

\* Storage answers an insert whose tree is gone: each frame of Node::insert,
\* split and store sees *d, or the error, and returns; raw_insert still checks
\* the invariants of _root, and BTree::insert's on_exit resets _is_inserting.  So
\* it does when a child's store answers with an exception (415).
InsertAborted(c) ==
    /\ Quiet /\ NobodyWalks /\ gone /\ pc[c] # "ready"
    /\ isInserting' = FALSE
    /\ at' = Null /\ stack' = <<>> /\ job' = NoJob
    /\ Goto(c, "ready")
    /\ touched' = TRUE
    /\ UNCHANGED <<buffer, batch, item, tree, rootHash, carry, pinned, finder, gone, broken,
                   offered>>

FetchNext ==
    /\ ~broken
    /\ \/ Destroy
       \/ \E c \in Coroutines :
            \/ Insert(c) \/ InsertAstray(c) \/ InsertAborted(c)
            \/ \E k \in Keys, v \in Values : CallInsert(c, k, v)
       \/ \E f \in Finders : Search(f) \/ Restored(f) \/ RestoreFailed(f) \/ \E k \in Keys : Find(f, k)

FetchSpec == FetchInit /\ [][FetchNext]_<<vars, fetchVars>>

--------------------------------------------------------------------------
StoredPairs == UNION {{<<i, t[i].value>> : i \in DOMAIN t \ {Inf}} : t \in Texts}

\* Whatever a find meets on its way - nodes that are still empty, entries that
\* a restore put in place of inserted ones or that an insert moved - a value it
\* returns was stored or offered for that key, until freed memory is used
\* (btree.cpp 314-326, 427-473).
FoundWasGiven ==
    ~broken =>
        \A f \in Finders :
            finder[f].pc = "found" =>
                <<finder[f].key, finder[f].answer>> \in StoredPairs \cup offered

==========================================================================
