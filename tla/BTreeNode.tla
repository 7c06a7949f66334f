---------------------------- MODULE BTreeNode ----------------------------
(***************************************************************************)
(* One node of the B-tree of src/src/btree.cpp and the operations that     *)
(* touch a single node.  A node is an std::map from NodeId to Entry; here  *)
(* it is a function from a set of ids to records.  boost::none, the id     *)
(* that is bigger than every key, is Inf.                                  *)
(***************************************************************************)
EXTENDS Integers, FiniteSets

CONSTANTS
    Keys,         \* the keys that are inserted, a set of integers
    Values,       \* what is stored under a key
    Inf,          \* NodeId boost::none
    NoValue,      \* the empty Value of an INF entry
    NoHash,       \* the empty Hash
    MaxNodeSize   \* BTree::_max_node_size

ASSUME KeysAssumption == Keys \subseteq Int /\ Inf \notin Keys

\* insert_node dereferences the entry after the median, so a node that is
\* split must hold a key on each side of it.
ASSUME MaxNodeSizeAssumption == MaxNodeSize \in Nat /\ MaxNodeSize >= 2

\* The null unique_ptr<Node>; every other address is positive.
Null == 0

Ids == Keys \cup {Inf}

EmptyMap == [i \in {} |-> NoValue]

\* Entry{value, child, child_hash}
Entry(value, child, hash) == [value |-> value, child |-> child, hash |-> hash]

\* NodeIdCompare: INF comes after every key and not before itself.
Before(m, n) == m # Inf /\ (n = Inf \/ m < n)

\* *begin() of an ordered container of ids
First(S) == CHOOSE i \in S : \A j \in S \ {i} : Before(i, j)

\* std::map::insert leaves an entry that is already there as it is.
WithNew(m, i, x) ==
    [j \in DOMAIN m \cup {i} |-> IF j \in DOMAIN m THEN m[j] ELSE x]

\* operator[] assignment replaces it.
With(m, i, x) ==
    [j \in DOMAIN m \cup {i} |-> IF j = i THEN x ELSE m[j]]

Only(m, S) == [j \in DOMAIN m \cap S |-> m[j]]

\* Node::size does not count INF.
Size(node) == Cardinality(DOMAIN node \ {Inf})

\* Node::is_leaf asks for children in memory; hashes do not count.
IsLeaf(node) == \A i \in DOMAIN node : node[i].child = Null

\* std::map::lower_bound; empty is end().
AtOrAfter(node, k) == {i \in DOMAIN node : ~Before(i, k)}

\* Node::find_or_create_lower_bound, the id of the entry
LowerBound(node, k) ==
    IF AtOrAfter(node, k) = {} THEN Inf ELSE First(AtOrAfter(node, k))

\* std::next of the entry with id k
Successors(node, k) == {i \in DOMAIN node : Before(k, i)}

\* A slip in Node::split: a node may grow one entry too big.
NeedsSplitLate(node) == Size(node) > MaxNodeSize + 1

NeedsSplit(node) == Size(node) > MaxNodeSize

\* The entry with size()/2 keys in front of it
Median(node) ==
    CHOOSE i \in DOMAIN node \ {Inf} :
        Cardinality({j \in DOMAIN node : Before(j, i)}) = Size(node) \div 2

\* Slips in Node::split: left_child also keeps the median; it takes the hash of
\* the median's child along with the child.
LeftPartWithMedian(node) ==
    LET m == Median(node)
    IN  With(Only(node, {j \in Ids : ~Before(m, j)}),
             Inf, Entry(NoValue, node[m].child, NoHash))

LeftPartWithHash(node) ==
    LET m == Median(node)
    IN  With(Only(node, {j \in Ids : Before(j, m)}),
             Inf, Entry(NoValue, node[m].child, node[m].hash))

\* What Node::split puts in left_child: the entries before the median, and an
\* INF entry that takes the median's child but not its child_hash.
LeftPart(node) ==
    LET m == Median(node)
    IN  With(Only(node, {j \in Ids : Before(j, m)}),
             Inf, Entry(NoValue, node[m].child, NoHash))

\* Slips in the same place: the median keeps its old child; the median keeps the
\* hash of its old child.
MedianKeepsChild(node, left) ==
    LET m == Median(node)
    IN  With(Only(node, {j \in Ids : ~Before(j, m)}),
             m, Entry(node[m].value, node[m].child, NoHash))

MedianKeepsHash(node, left) ==
    LET m == Median(node)
    IN  With(Only(node, {j \in Ids : ~Before(j, m)}),
             m, Entry(node[m].value, left, node[m].hash))

\* The node while split waits for the median's old hash to be removed: the
\* lower entries are gone, the median points to left_child.
MedianAndRest(node, left) ==
    LET m == Median(node)
    IN  With(Only(node, {j \in Ids : ~Before(j, m)}),
             m, Entry(node[m].value, left, NoHash))

\* The text Node::store hands to add_op: the value of each key and the hash of
\* each child.  INF has no value, and no line of its own when it has no child.
\* Storage is content addressed, so the hash of a node IS this text.
Serialise(node) ==
    LET written == {i \in DOMAIN node : i # Inf \/ node[i].hash # NoHash}
    IN  [i \in written |-> [value |-> node[i].value, child |-> node[i].hash]]
==========================================================================
