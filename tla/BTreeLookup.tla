--------------------------- MODULE BTreeLookup ---------------------------
(***************************************************************************)
(* The read side of src/src/btree.cpp, as ClientDb uses it: find, which    *)
(* fetches the nodes it meets from storage, and load, which replaces the   *)
(* root while finds are under way.  Storage is given: Text maps the hash   *)
(* of a node to what Node::store wrote.  No two nodes of a tree have the   *)
(* same hash, so the hash tells which child slot is meant.                 *)
(*                                                                         *)
(* A find runs until it waits for cat; while one is walking nothing else   *)
(* runs.                                                                   *)
(***************************************************************************)
EXTENDS BTreeNode, Sequences

CONSTANTS
    Finders,   \* the coroutines that call find
    Text       \* what is stored, by hash

ASSUME TextAssumption ==
    /\ NoHash \notin DOMAIN Text
    /\ \A h \in DOMAIN Text :
        /\ DOMAIN Text[h] \subseteq Ids /\ IsFiniteSet(DOMAIN Text[h])
        /\ \A i \in DOMAIN Text[h] :
            /\ Text[h][i].value \in Values \cup {NoValue}
            /\ Text[h][i].child \in DOMAIN Text \cup {NoHash}

Children(h) == {Text[h][i].child : i \in DOMAIN Text[h]} \ {NoHash}

\* The hash h of a stored node and all the hashes it leads to
Under(h) ==
    {g \in DOMAIN Text : \A S \in SUBSET DOMAIN Text :
        (h \in S /\ \A x \in S : Children(x) \subseteq S) => g \in S}

\* What the database under a hash holds: pairs of a key and its value.
Contents(h) ==
    UNION {{<<i, Text[g][i].value>> : i \in DOMAIN Text[g] \ {Inf}} : g \in Under(h)}

Held(k, h) == \E p \in Contents(h) : p[1] = k

\* What an injector stored is a search tree: the keys below an entry lie between
\* it and the one in front of it.  BTreeProofs proves that of the tree that is
\* stored (Shape); Node::check_invariants asserts a part of it (btree.cpp 556).
ASSUME OrderAssumption ==
    \A h \in DOMAIN Text : \A i \in DOMAIN Text[h] : Text[h][i].child # NoHash =>
        \A k \in Keys : Held(k, Text[h][i].child) =>
            Before(k, i) /\ \A j \in DOMAIN Text[h] : Before(j, i) => Before(j, k)

VARIABLES
    roots,     \* the Root objects: the hash and the nodes under it that exist
               \* in memory, TRUE for those that were restored
    current,   \* which of them is _root, or NoRoot
    finder     \* what each coroutine is doing

lookup == <<roots, current, finder>>

NoRoot == 0
Hashes == DOMAIN Text
AtRest == [pc |-> "rest", key |-> Inf, root |-> NoRoot, slot |-> NoHash, answer |-> NoValue]

Walking(f) == finder[f].pc = "walking"
Quiet == \A f \in Finders : ~Walking(f)

LookupInit ==
    /\ roots = <<>> /\ current = NoRoot
    /\ finder = [f \in Finders |-> AtRest]

Answered(f, pc, x) ==
    finder' = [finder EXCEPT ![f] = [AtRest EXCEPT !.pc = pc, !.answer = x]]

\* Moves of find and load, each after a slip: the node that was filled is not kept;
\* a node has no children; the root object in use gets the new hash.
Unkept(nodes, h) == [x \in DOMAIN nodes \ {h} |-> nodes[x]]
Filled(nodes, h) == [nodes EXCEPT ![h] = TRUE]

NoChild(node, i) == NoHash
Child(node, i) == node[i].child

Rehashed(h) ==
    IF current = NoRoot THEN <<[hash |-> h, nodes |-> EmptyMap]>>
    ELSE [roots EXCEPT ![current].hash = h]
WithRoot(h) == Append(roots, [hash |-> h, nodes |-> EmptyMap])

\* BTree::find: without a root it ends here; else the find keeps the root it
\* has found.  The insert buffer of a client's tree is empty.
Find(f, k) ==
    /\ Quiet /\ finder[f].pc \in {"rest", "not_found", "error"}
    /\ IF current = NoRoot
       THEN Answered(f, "not_found", NoValue)
       ELSE finder' = [finder EXCEPT ![f] =
                [pc |-> "walking", key |-> k, root |-> current,
                 slot |-> roots[current].hash, answer |-> NoValue]]
    /\ UNCHANGED <<roots, current>>

\* lazy_find on a slot without a node: the node is created empty, then fetched.
Fetch(f) ==
    LET r == finder[f].root
        h == finder[f].slot
    IN  /\ Walking(f) /\ h \notin DOMAIN roots[r].nodes
        /\ roots' = [roots EXCEPT ![r].nodes = WithNew(@, h, FALSE)]
        /\ finder' = [finder EXCEPT ![f].pc = "fetching"]
        /\ UNCHANGED current

\* The entries of the node in a slot; one that is not restored has none.
NodeAt(r, h) == IF roots[r].nodes[h] THEN Text[h] ELSE EmptyMap

\* Node::find in a slot that has a node
Search(f) ==
    LET k    == finder[f].key
        h    == finder[f].slot
        node == NodeAt(finder[f].root, h)
        i    == LowerBound(node, k)
    IN  /\ Walking(f) /\ h \in DOMAIN roots[finder[f].root].nodes
        /\ IF AtOrAfter(node, k) = {} THEN Answered(f, "not_found", NoValue)
           ELSE IF i = k THEN Answered(f, "found", node[i].value)
           ELSE IF Child(node, i) = NoHash THEN Answered(f, "not_found", NoValue)
           ELSE finder' = [finder EXCEPT ![f].slot = Child(node, i)]
        /\ UNCHANGED <<roots, current>>

\* Node::restore after cat: the entries are read and the find goes on.
Restored(f) ==
    /\ Quiet /\ finder[f].pc = "fetching"
    /\ roots' = [roots EXCEPT ![finder[f].root].nodes = Filled(@, finder[f].slot)]
    /\ finder' = [finder EXCEPT ![f].pc = "walking"]
    /\ UNCHANGED current

\* cat failed or its data cannot be parsed: the node stays, without entries.
RestoreFailed(f) ==
    /\ Quiet /\ finder[f].pc = "fetching"
    /\ Answered(f, "error", NoValue)
    /\ UNCHANGED <<roots, current>>

\* BTree::load: the same hash changes nothing, another one is a new root.
Load(h) ==
    IF current # NoRoot /\ roots[current].hash = h
    THEN UNCHANGED <<roots, current>>
    ELSE /\ roots' = WithRoot(h)
         /\ current' = Len(roots')

FindStep(f) == Fetch(f) \/ Search(f) \/ Restored(f) \/ RestoreFailed(f)
==========================================================================
