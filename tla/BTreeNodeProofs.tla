------------------------- MODULE BTreeNodeProofs -------------------------
(***************************************************************************)
(* Lemmas about the operators of BTreeNode: the ordered containers of ids  *)
(* always have the first entry, the lower bound and the median that        *)
(* src/src/btree.cpp takes from them, and what inserting, splitting and    *)
(* attaching do to a tree that is made of such nodes.                      *)
(***************************************************************************)
EXTENDS BTreeNode, FiniteSetTheorems, TLAPS

\* NodeIdCompare is a strict total order on the ids.
LEMMA BeforeIsOrder ==
    /\ \A i \in Ids : ~Before(i, i)
    /\ \A i, j \in Ids : i # j => Before(i, j) \/ Before(j, i)
    /\ \A i, j, k \in Ids : Before(i, j) /\ Before(j, k) => Before(i, k)
BY KeysAssumption DEF Before, Ids

Below(S, i) == {j \in S : Before(j, i)}

\* The elements of a finite ordered set have the ranks 0, 1, ... in it: the
\* rank is injective, so it takes as many values as there are elements.
LEMMA RankExists ==
    ASSUME NEW S, S \subseteq Ids, IsFiniteSet(S),
           NEW r \in 0..(Cardinality(S) - 1)
    PROVE  \E i \in S : Cardinality(Below(S, i)) = r
<1> DEFINE n == Cardinality(S)
           rank == [i \in S |-> Cardinality(Below(S, i))]
<1>1. n \in Nat
    BY FS_CardinalityType
<1>2. ASSUME NEW i \in S
      PROVE  IsFiniteSet(Below(S, i)) /\ Cardinality(Below(S, i)) \in 0..(n - 1)
    <2>1. Below(S, i) \in SUBSET (S \ {i})
        BY BeforeIsOrder DEF Below
    <2>2. IsFiniteSet(S \ {i}) /\ Cardinality(S \ {i}) = n - 1
        BY FS_RemoveElement
    <2>3. IsFiniteSet(Below(S, i)) /\ Cardinality(Below(S, i)) <= n - 1
        BY <2>1, <2>2, FS_Subset
    <2> QED
        BY <2>3, <1>1, FS_CardinalityType
<1>3. rank \in [S -> 0..(n - 1)]
    BY <1>2
<1>4. ASSUME NEW i \in S, NEW j \in S, Before(i, j)
      PROVE  rank[i] < rank[j]
    <2>1. Below(S, i) \cup {i} \in SUBSET Below(S, j)
        BY <1>4, BeforeIsOrder DEF Below
    <2>2. i \notin Below(S, i)
        BY BeforeIsOrder DEF Below
    <2>3. Cardinality(Below(S, i) \cup {i}) = Cardinality(Below(S, i)) + 1
        BY <1>2, <2>2, FS_AddElement
    <2>4. Cardinality(Below(S, i) \cup {i}) <= Cardinality(Below(S, j))
        BY <1>2, <2>1, FS_Subset
    <2>5. Cardinality(Below(S, i)) \in Int /\ Cardinality(Below(S, j)) \in Int
        BY <1>2
    <2> QED
        BY <2>3, <2>4, <2>5
<1>5. \A i, j \in S : rank[i] = rank[j] => i = j
    <2> SUFFICES ASSUME NEW i \in S, NEW j \in S, rank[i] = rank[j], i # j
                 PROVE  FALSE
        OBVIOUS
    <2>1. Before(i, j) \/ Before(j, i)
        BY BeforeIsOrder
    <2>2. rank[i] \in Int
        BY <1>3
    <2> QED
        BY <2>1, <2>2, <1>4
<1>6. rank \in Injection(S, 0..(n - 1))
    BY <1>3, <1>5 DEF Injection, IsInjective
<1>7. IsFiniteSet(0..(n - 1)) /\ Cardinality(0..(n - 1)) = n
    BY <1>1, FS_Interval
<1>8. rank \in Surjection(S, 0..(n - 1))
    BY <1>6, <1>7, FS_Injection
<1> QED
    BY <1>8 DEF Surjection

\* *begin() of a container that is not empty
LEMMA FirstIsFirst ==
    ASSUME NEW S, S \subseteq Ids, IsFiniteSet(S), S # {}
    PROVE  First(S) \in S /\ \A j \in S \ {First(S)} : Before(First(S), j)
<1>1. Cardinality(S) \in Nat /\ Cardinality(S) # 0
    BY FS_CardinalityType, FS_EmptySet
<1>2. PICK i \in S : Cardinality(Below(S, i)) = 0
    <2>1. 0 \in 0..(Cardinality(S) - 1)
        BY <1>1
    <2> QED
        BY <2>1, RankExists
<1>3. Below(S, i) = {}
    <2>1. IsFiniteSet(Below(S, i))
        BY FS_Subset DEF Below
    <2> QED
        BY <1>2, <2>1, FS_EmptySet
<1>4. \A j \in S \ {i} : Before(i, j)
    BY <1>3, BeforeIsOrder DEF Below
<1> QED
    BY <1>4 DEF First

\* A container with a key does not begin with INF.
LEMMA FirstIsKey ==
    ASSUME NEW S, S \subseteq Ids, IsFiniteSet(S), S \ {Inf} # {}
    PROVE  First(S) \in Keys
<1>1. PICK k \in S \ {Inf} : TRUE
    OBVIOUS
<1>2. First(S) \in S /\ \A j \in S \ {First(S)} : Before(First(S), j)
    BY FirstIsFirst
<1>3. First(S) # Inf
    BY <1>1, <1>2 DEF Before
<1> QED
    BY <1>2, <1>3 DEF Ids

\* A node that is split has a median among its keys, with a key on each side.
LEMMA MedianExists ==
    ASSUME NEW node, DOMAIN node \subseteq Ids, IsFiniteSet(DOMAIN node),
           NeedsSplit(node)
    PROVE  /\ Median(node) \in DOMAIN node \ {Inf}
           /\ \E k \in DOMAIN node : Before(k, Median(node))
           /\ \E k \in DOMAIN node \ {Inf} : Before(Median(node), k)
<1> DEFINE S == DOMAIN node \ {Inf}
           n == Cardinality(S)
<1>1. IsFiniteSet(S) /\ S \subseteq Ids
    BY FS_RemoveElement
<1>2. n \in Nat /\ n >= 3
    BY <1>1, FS_CardinalityType, MaxNodeSizeAssumption DEF NeedsSplit, Size
<1>3. n \div 2 \in 1..(n - 2)
    BY <1>2
<1>4. PICK i \in S : Cardinality(Below(S, i)) = n \div 2
    BY <1>1, <1>3, <1>2, RankExists
<1>5. \A j : Below(DOMAIN node, j) = Below(S, j)
    BY DEF Below, Before
<1>6. \A j : {k \in DOMAIN node : Before(k, j)} = Below(S, j)
    BY <1>5 DEF Below
<1>7. \E j \in DOMAIN node \ {Inf} :
          Cardinality({k \in DOMAIN node : Before(k, j)}) = Size(node) \div 2
    BY <1>4, <1>6 DEF Size
<1>8. /\ Median(node) \in S
      /\ Cardinality(Below(S, Median(node))) = n \div 2
    BY <1>7, <1>6 DEF Median, Size
<1>9. \E k \in DOMAIN node : Before(k, Median(node))
    <2>1. Cardinality(Below(S, Median(node))) # 0
        BY <1>8, <1>3
    <2>2. Below(S, Median(node)) # {}
        BY <2>1, FS_EmptySet
    <2> QED
        BY <2>2 DEF Below
<1>10. \E k \in S : Before(Median(node), k)
    <2>1. SUFFICES ASSUME \A k \in S : ~Before(Median(node), k) PROVE FALSE
        OBVIOUS
    <2>2. Below(S, Median(node)) = S \ {Median(node)}
        BY <2>1, <1>8, <1>1, BeforeIsOrder DEF Below
    <2>3. Cardinality(S \ {Median(node)}) = n - 1
        BY <1>1, <1>8, FS_RemoveElement
    <2> QED
        BY <2>2, <2>3, <1>8, <1>3, <1>2
<1> QED
    BY <1>8, <1>9, <1>10

\* find_or_create_lower_bound names an id, whatever the node holds.
LEMMA LowerBoundIsId ==
    ASSUME NEW node, DOMAIN node \subseteq Ids, IsFiniteSet(DOMAIN node), NEW k
    PROVE  LowerBound(node, k) \in Ids
<1>1. AtOrAfter(node, k) \subseteq DOMAIN node
    BY DEF AtOrAfter
<1>2. IsFiniteSet(AtOrAfter(node, k))
    BY <1>1, FS_Subset
<1>3. AtOrAfter(node, k) # {} => First(AtOrAfter(node, k)) \in Ids
    BY <1>1, <1>2, FirstIsFirst
<1> QED
    BY <1>3 DEF LowerBound, Ids

--------------------------------------------------------------------------
\* Trees: F has the nodes 1 to n.
KeysOf(node) == DOMAIN node \ {Inf}

\* What may hang below the entry i of a node: the keys up to i that are after
\* every id in front of it.
Between(node, i, k) ==
    Before(k, i) /\ \A j \in DOMAIN node : Before(j, i) => Before(j, k)

\* What lower_bound finds
LEMMA LowerBoundFinds ==
    ASSUME NEW node, DOMAIN node \subseteq Ids, IsFiniteSet(DOMAIN node), NEW k \in Keys,
           AtOrAfter(node, k) # {}
    PROVE  LET i == LowerBound(node, k)
           IN  /\ i \in DOMAIN node
               /\ k \in DOMAIN node => i = k
               /\ k \notin DOMAIN node => i # k /\ Between(node, i, k)
<1> DEFINE S == AtOrAfter(node, k)
           i == LowerBound(node, k)
<1>1. k \in Ids /\ k # Inf
    BY KeysAssumption DEF Ids
<1>2. S \subseteq DOMAIN node /\ IsFiniteSet(S)
    <2>1. S \subseteq DOMAIN node
        BY DEF AtOrAfter
    <2> QED
        BY <2>1, FS_Subset
<1>3. i \in S /\ \A j \in S \ {i} : Before(i, j)
    <2>1. S \subseteq Ids /\ S # {}
        BY <1>2
    <2>2. i = First(S)
        BY DEF LowerBound
    <2> HIDE DEF S, i
    <2> QED
        BY <1>2, <2>1, <2>2, FirstIsFirst
<1>4. \A j \in DOMAIN node : j \in S <=> ~Before(j, k)
    BY DEF AtOrAfter
<1> HIDE DEF S, i
<1>5. i \in DOMAIN node /\ i \in Ids /\ ~Before(i, k)
    BY <1>2, <1>3, <1>4
<1>6. k \in DOMAIN node => i = k
    <2>1. k \in DOMAIN node => k \in S
        BY <1>1, <1>4, BeforeIsOrder
    <2> QED
        BY <1>3, <1>5, <2>1
<1>7. ASSUME k \notin DOMAIN node PROVE i # k /\ Between(node, i, k)
    <2>1. i # k /\ Before(k, i)
        BY <1>1, <1>5, <1>7, BeforeIsOrder
    <2>2. ASSUME NEW j \in DOMAIN node, Before(j, i) PROVE Before(j, k)
        <3>1. j \notin S
            BY <2>2, <1>3, <1>5, BeforeIsOrder
        <3> QED
            BY <3>1, <1>4
    <2> QED
        BY <2>1, <2>2 DEF Between
<1> QED
    BY <1>5, <1>6, <1>7 DEF i

Ghosts(n, root, span, lvl) ==
    /\ n \in Nat /\ root \in 1..n /\ span[root] = Keys
    /\ \A a \in 1..n : span[a] \subseteq Keys /\ lvl[a] \in Nat /\ lvl[a] <= lvl[root]

KeysInSpan(F, n, span) ==
    \A a \in 1..n : DOMAIN F[a] \subseteq Ids /\ KeysOf(F[a]) \subseteq span[a]

SlotSpans(F, n, span) ==
    \A a \in 1..n : \A i \in DOMAIN F[a] : F[a][i].child # Null =>
        \A k \in Keys : k \in span[F[a][i].child] <=> (k \in span[a] /\ Between(F[a], i, k))

Levels(F, n, lvl, x, m) ==
    \A a \in 1..n :
        /\ lvl[a] # 0 => Inf \in DOMAIN F[a]
        /\ \A i \in DOMAIN F[a] : ~(a = x /\ i = m) =>
            /\ F[a][i].child = Null <=> lvl[a] = 0
            /\ F[a][i].child # Null => F[a][i].child \in 1..n /\ lvl[F[a][i].child] + 1 = lvl[a]

KeysAbove(F, n, span, lvl) ==
    \A a, b \in 1..n : lvl[a] < lvl[b] => \A k \in KeysOf(F[b]) : k \notin span[a]

Apart(F, n, span, lvl, x, m) ==
    \A a, b \in 1..n : (a # b /\ lvl[a] = lvl[b]) =>
        \A k \in span[a] : k \in span[b] =>
            /\ x # Null
            /\ (a = x /\ b = F[x][m].child) \/ (b = x /\ a = F[x][m].child)

NonEmpty(F, n, root) == \A a \in 1..n : a # root => KeysOf(F[a]) # {}

Halves(F, n, root, lvl, x, m) ==
    x # Null =>
        /\ x \in 1..n /\ m \in KeysOf(F[x])
        /\ \A j \in DOMAIN F[x] : j # m => Before(m, j)
        /\ F[x][m].child \in 1..n /\ F[x][m].child # x /\ F[x][m].child # root
        /\ lvl[F[x][m].child] = lvl[x]
        /\ \E j \in KeysOf(F[x]) : j # m

Tree(F, n, root, span, lvl, x, m) ==
    /\ Ghosts(n, root, span, lvl)
    /\ KeysInSpan(F, n, span)
    /\ SlotSpans(F, n, span)
    /\ Levels(F, n, lvl, x, m)
    /\ KeysAbove(F, n, span, lvl)
    /\ Apart(F, n, span, lvl, x, m)
    /\ NonEmpty(F, n, root)
    /\ Halves(F, n, root, lvl, x, m)

--------------------------------------------------------------------------
LEMMA BetweenAlike ==
    ASSUME NEW f, NEW g, DOMAIN f = DOMAIN g, NEW i, NEW k
    PROVE  Between(f, i, k) <=> Between(g, i, k)
BY DEF Between

\* Changing values and hashes leaves the tree as it is.
LEMMA SameShape ==
    ASSUME NEW F, NEW G, NEW n, NEW root, NEW span, NEW lvl, NEW x, NEW m,
           Tree(F, n, root, span, lvl, x, m),
           \A a \in 1..n : /\ DOMAIN G[a] = DOMAIN F[a]
                           /\ \A i \in DOMAIN F[a] : G[a][i].child = F[a][i].child
    PROVE  Tree(G, n, root, span, lvl, x, m)
<1>1. Ghosts(n, root, span, lvl)
    BY DEF Tree
<1>2. KeysInSpan(G, n, span) /\ KeysAbove(G, n, span, lvl) /\ NonEmpty(G, n, root)
    BY DEF Tree, KeysInSpan, KeysAbove, NonEmpty, KeysOf
<1>3. SlotSpans(G, n, span)
    BY DEF Tree, SlotSpans, Between
<1>4. Levels(G, n, lvl, x, m)
    BY DEF Tree, Levels
<1>5. Halves(G, n, root, lvl, x, m)
    BY DEF Tree, Halves, KeysOf
<1>6. Apart(G, n, span, lvl, x, m)
    BY DEF Tree, Apart, Halves, KeysOf
<1> QED
    BY <1>1, <1>2, <1>3, <1>4, <1>5, <1>6 DEF Tree

\* Which key would be the median does not matter while no node is being split.
LEMMA AnyMid ==
    ASSUME NEW F, NEW n, NEW root, NEW span, NEW lvl, NEW m, NEW y,
           Tree(F, n, root, span, lvl, Null, m)
    PROVE  Tree(F, n, root, span, lvl, Null, y)
<1>1. Null \notin 1..n
    BY DEF Null
<1> QED
    BY <1>1 DEF Tree, Levels, Apart, Halves

\* A key that is new in a leaf
LEMMA LeafWithKey ==
    ASSUME NEW F, NEW G, NEW n, NEW root, NEW span, NEW lvl, NEW m,
           Tree(F, n, root, span, lvl, Null, m),
           NEW p \in 1..n, lvl[p] = 0, NEW key \in Keys, key \in span[p],
           \A a \in 1..n : a # p => G[a] = F[a],
           DOMAIN G[p] = DOMAIN F[p] \cup {key},
           \A i \in DOMAIN G[p] : G[p][i].child = Null
    PROVE  Tree(G, n, root, span, lvl, Null, m)
<1>1. Ghosts(n, root, span, lvl) /\ Halves(G, n, root, lvl, Null, m)
    BY DEF Tree, Halves
<1>2. KeysInSpan(G, n, span)
    BY DEF Tree, KeysInSpan, KeysOf, Ids
<1>3. KeysAbove(G, n, span, lvl)
    BY DEF Tree, KeysAbove, KeysOf, Ghosts
<1>4. NonEmpty(G, n, root)
    BY DEF Tree, NonEmpty, KeysOf
<1>5. SlotSpans(G, n, span)
    BY DEF Tree, SlotSpans
<1>6. Levels(G, n, lvl, Null, m)
    BY DEF Tree, Levels, Null
<1>7. Apart(G, n, span, lvl, Null, m)
    BY DEF Tree, Apart
<1> QED
    BY <1>1, <1>2, <1>3, <1>4, <1>5, <1>6, <1>7 DEF Tree

--------------------------------------------------------------------------
\* Node::split up to its wait: the left part is a node of its own, and the node
\* that was split still holds the median and the right part.
SplitOff(F, G, n, p, m) ==
    /\ m \in KeysOf(F[p])
    /\ \E j \in KeysOf(F[p]) : Before(j, m)
    /\ \E j \in KeysOf(F[p]) : Before(m, j)
    /\ \A a \in 1..n : a # p => G[a] = F[a]
    /\ \A j : j \in DOMAIN G[p] <=> (j \in DOMAIN F[p] /\ ~Before(j, m))
    /\ \A j \in DOMAIN G[p] : j # m => G[p][j] = F[p][j]
    /\ G[p][m] = Entry(F[p][m].value, n + 1, NoHash)
    /\ \A j : j \in DOMAIN G[n + 1] <=> ((j \in DOMAIN F[p] /\ Before(j, m)) \/ j = Inf)
    /\ \A j \in DOMAIN G[n + 1] : j # Inf => G[n + 1][j] = F[p][j]
    /\ G[n + 1][Inf] = Entry(NoValue, F[p][m].child, NoHash)

SameLevels(n, lvl, lv) == \A a \in 1..n : lv[a] = lvl[a]

LEMMA NodeSplits ==
    ASSUME NEW F, NEW G, NEW n, NEW root, NEW span, NEW lvl, NEW y,
           Tree(F, n, root, span, lvl, Null, y),
           NEW p \in 1..n, NEW m, SplitOff(F, G, n, p, m)
    PROVE  \E sp, lv : Tree(G, n + 1, root, sp, lv, p, m) /\ SameLevels(n, lvl, lv)
<1> DEFINE sp == [a \in 1..(n + 1) |-> IF a = n + 1 THEN {k \in span[p] : Before(k, m)} ELSE span[a]]
           lv == [a \in 1..(n + 1) |-> IF a = n + 1 THEN lvl[p] ELSE lvl[a]]
<1>g. /\ m \in KeysOf(F[p])
      /\ \E j \in KeysOf(F[p]) : Before(j, m)
      /\ \E j \in KeysOf(F[p]) : Before(m, j)
      /\ \A a \in 1..n : a # p => G[a] = F[a]
      /\ \A j : j \in DOMAIN G[p] <=> (j \in DOMAIN F[p] /\ ~Before(j, m))
      /\ \A j \in DOMAIN G[p] : G[p][j].child = IF j = m THEN n + 1 ELSE F[p][j].child
      /\ \A j : j \in DOMAIN G[n + 1] <=> ((j \in DOMAIN F[p] /\ Before(j, m)) \/ j = Inf)
      /\ \A j \in DOMAIN G[n + 1] :
            G[n + 1][j].child = IF j = Inf THEN F[p][m].child ELSE F[p][j].child
    BY DEF SplitOff, Entry
<1> USE <1>g
<1>0. /\ n \in Nat /\ m \in Keys /\ m \in DOMAIN F[p] /\ m # Inf
      /\ \A a \in 1..(n + 1) : a = n + 1 \/ a \in 1..n
      /\ \A a \in 1..n : a \in 1..(n + 1) /\ a # n + 1
    BY KeysAssumption DEF Tree, Ghosts, KeysInSpan, KeysOf, Ids
<1>s. /\ \A a \in 1..n : sp[a] = span[a] /\ lv[a] = lvl[a]
      /\ sp[n + 1] = {k \in span[p] : Before(k, m)} /\ lv[n + 1] = lvl[p]
    BY <1>0
<1>o. /\ \A i \in Ids : ~Before(i, i)
      /\ \A i, j \in Ids : i # j => Before(i, j) \/ Before(j, i)
      /\ \A i, j, k \in Ids : Before(i, j) /\ Before(j, k) => Before(i, k)
      /\ \A i : ~Before(Inf, i)
      /\ \A k \in Keys : Before(k, Inf)
    BY BeforeIsOrder, KeysAssumption DEF Before
<1>d. /\ \A a \in 1..n : DOMAIN F[a] \subseteq Ids
      /\ Keys \subseteq Ids
    BY DEF Tree, KeysInSpan, Ids
<1> HIDE DEF sp, lv
<1>1. Ghosts(n + 1, root, sp, lv)
    BY <1>0, <1>s DEF Tree, Ghosts
<1>2. KeysInSpan(G, n + 1, sp)
    BY <1>0, <1>s, <1>o, <1>d DEF Tree, KeysInSpan, KeysOf, Ids
<1>3. SlotSpans(G, n + 1, sp)
    <2> SUFFICES ASSUME NEW a \in 1..(n + 1), NEW i \in DOMAIN G[a], G[a][i].child # Null,
                        NEW k \in Keys
                 PROVE  k \in sp[G[a][i].child] <=> (k \in sp[a] /\ Between(G[a], i, k))
        BY DEF SlotSpans
    <2>0. \A b \in 1..n : \A j \in DOMAIN F[b] : F[b][j].child # Null =>
              /\ F[b][j].child \in 1..n
              /\ k \in span[F[b][j].child] <=> (k \in span[b] /\ Between(F[b], j, k))
        BY DEF Tree, SlotSpans, Levels, Halves, Null
    <2>1. CASE a \in 1..n /\ a # p
        <3>1. G[a] = F[a]
            BY <2>1
        <3> QED
            BY <2>0, <2>1, <3>1, <1>s
    <2>2. CASE a = n + 1 /\ i = Inf
        <3>1. G[a][i].child = F[p][m].child
            BY <2>2
        <3>2. k \in span[F[p][m].child] <=> (k \in span[p] /\ Between(F[p], m, k))
            BY <2>0, <3>1, <1>0
        <3>3. F[p][m].child \in 1..n
            BY <2>0, <3>1, <1>0
        <3>4. Between(F[p], m, k) <=> (Before(k, m) /\ Between(G[a], i, k))
            BY <2>2, <1>o, <1>d, <1>0 DEF Between, Ids
        <3> QED
            BY <2>2, <3>1, <3>2, <3>3, <3>4, <1>s
    <2>3. CASE a = n + 1 /\ i # Inf
        <3>1. /\ G[a][i].child = F[p][i].child
              /\ i \in DOMAIN F[p] /\ Before(i, m)
            BY <2>3
        <3>2. /\ k \in span[F[p][i].child] <=> (k \in span[p] /\ Between(F[p], i, k))
              /\ F[p][i].child \in 1..n
            BY <2>0, <3>1, <1>0
        <3>3. Between(F[p], i, k) <=> (Before(k, m) /\ Between(G[a], i, k))
            <4>1. i \in Ids /\ k \in Ids /\ m \in Ids
                BY <1>d, <1>0, <3>1
            <4>2. Before(k, i) => Before(k, m)
                BY <4>1, <3>1, <1>o
            <4>3. \A j \in DOMAIN F[p] : Before(j, i) => j \in DOMAIN G[a]
                BY <4>1, <3>1, <1>o, <1>d, <2>3
            <4>4. \A j \in DOMAIN G[a] : Before(j, i) => j \in DOMAIN F[p]
                BY <2>3, <1>o
            <4> QED
                BY <4>2, <4>3, <4>4 DEF Between
        <3> QED
            BY <2>3, <3>1, <3>2, <3>3, <1>s
    <2>4. CASE a = p /\ i = m
        <3>1. G[a][i].child = n + 1
            BY <2>4
        <3>2. \A j \in DOMAIN G[p] : ~Before(j, m)
            OBVIOUS
        <3>3. Between(G[a], i, k) <=> Before(k, m)
            BY <2>4, <3>2 DEF Between
        <3> QED
            BY <2>4, <3>1, <3>3, <1>s
    <2>5. CASE a = p /\ i # m
        <3>1. /\ G[a][i].child = F[p][i].child
              /\ i \in DOMAIN F[p] /\ ~Before(i, m)
            BY <2>5
        <3>2. /\ k \in span[F[p][i].child] <=> (k \in span[p] /\ Between(F[p], i, k))
              /\ F[p][i].child \in 1..n
            BY <2>0, <3>1, <1>0
        <3>3. Between(F[p], i, k) <=> Between(G[a], i, k)
            <4>1. i \in Ids /\ k \in Ids /\ m \in Ids
                BY <1>d, <1>0, <3>1
            <4>2. m \in DOMAIN G[p] /\ Before(m, i)
                BY <4>1, <3>1, <1>0, <1>o, <2>5
            <4>3. Before(m, k) => \A j \in DOMAIN F[p] : Before(j, m) => Before(j, k)
                BY <4>1, <1>o, <1>d
            <4>4. \A j \in DOMAIN F[p] : j \in DOMAIN G[p] \/ Before(j, m)
                OBVIOUS
            <4> QED
                BY <2>5, <4>2, <4>3, <4>4 DEF Between
        <3> QED
            BY <2>5, <3>1, <3>2, <3>3, <1>s
    <2> QED
        BY <2>1, <2>2, <2>3, <2>4, <2>5, <1>0
<1>4. Levels(G, n + 1, lv, p, m)
    <2> SUFFICES ASSUME NEW a \in 1..(n + 1)
                 PROVE  /\ lv[a] # 0 => Inf \in DOMAIN G[a]
                        /\ \A i \in DOMAIN G[a] : ~(a = p /\ i = m) =>
                            /\ G[a][i].child = Null <=> lv[a] = 0
                            /\ G[a][i].child # Null =>
                                G[a][i].child \in 1..(n + 1) /\ lv[G[a][i].child] + 1 = lv[a]
        BY DEF Levels
    <2>0. \A b \in 1..n :
            /\ lvl[b] # 0 => Inf \in DOMAIN F[b]
            /\ \A j \in DOMAIN F[b] :
                /\ F[b][j].child = Null <=> lvl[b] = 0
                /\ F[b][j].child # Null => F[b][j].child \in 1..n /\ lvl[F[b][j].child] + 1 = lvl[b]
        BY DEF Tree, Levels, Null
    <2>1. CASE a \in 1..n /\ a # p
        BY <2>0, <2>1, <1>0, <1>s
    <2>2. CASE a = n + 1
        BY <2>0, <2>2, <1>0, <1>s
    <2>3. CASE a = p
        BY <2>0, <2>3, <1>0, <1>s, <1>o
    <2> QED
        BY <2>1, <2>2, <2>3, <1>0
<1>5. KeysAbove(G, n + 1, sp, lv)
    <2>1. \A a, b \in 1..n : lvl[a] < lvl[b] => \A k \in KeysOf(F[b]) : k \notin span[a]
        BY DEF Tree, KeysAbove
    <2>2. KeysOf(G[n + 1]) \subseteq KeysOf(F[p]) /\ KeysOf(G[p]) \subseteq KeysOf(F[p])
        BY DEF KeysOf
    <2>3. sp[n + 1] \subseteq span[p]
        BY <1>s
    <2>4. \A b \in 1..(n + 1) : \E c \in 1..n : /\ lv[b] = lvl[c] /\ KeysOf(G[b]) \subseteq KeysOf(F[c])
                                                /\ sp[b] \subseteq span[c]
        BY <1>0, <1>s, <2>2, <2>3
    <2> SUFFICES ASSUME NEW a \in 1..(n + 1), NEW b \in 1..(n + 1), lv[a] < lv[b],
                        NEW k \in KeysOf(G[b])
                 PROVE  k \notin sp[a]
        BY DEF KeysAbove
    <2>5. PICK c \in 1..n : lv[a] = lvl[c] /\ sp[a] \subseteq span[c]
        BY <2>4
    <2>6. PICK d \in 1..n : lv[b] = lvl[d] /\ KeysOf(G[b]) \subseteq KeysOf(F[d])
        BY <2>4
    <2> QED
        BY <2>1, <2>5, <2>6
<1>6. Apart(G, n + 1, sp, lv, p, m)
    <2>1. \A a, b \in 1..n : (a # b /\ lvl[a] = lvl[b]) => \A k \in span[a] : k \notin span[b]
        BY DEF Tree, Apart
    <2>2. G[p][m].child = n + 1 /\ p # Null
        BY <1>0, <1>o, <1>d DEF Null
    <2> SUFFICES ASSUME NEW a \in 1..(n + 1), NEW b \in 1..(n + 1), a # b, lv[a] = lv[b],
                        NEW k \in sp[a], k \in sp[b]
                 PROVE  (a = p /\ b = n + 1) \/ (b = p /\ a = n + 1)
        BY <2>2 DEF Apart
    <2>3. CASE a \in 1..n /\ b \in 1..n
        BY <2>1, <2>3, <1>s
    <2>4. CASE a = n + 1 /\ b \in 1..n
        BY <2>1, <2>4, <1>s
    <2>5. CASE b = n + 1 /\ a \in 1..n
        <3>1. k \in span[a] /\ k \in span[p] /\ lvl[a] = lvl[p]
            BY <2>5, <1>s
        <3> QED
            BY <2>1, <2>5, <3>1
    <2> QED
        BY <2>3, <2>4, <2>5, <1>0
<1>7. NonEmpty(G, n + 1, root)
    <2>1. m \in KeysOf(G[p])
        BY <1>0, <1>o, <1>d DEF KeysOf
    <2>2. KeysOf(G[n + 1]) # {}
        BY DEF KeysOf
    <2> QED
        BY <1>0, <2>1, <2>2 DEF Tree, NonEmpty
<1>8. Halves(G, n + 1, root, lv, p, m)
    <2>1. m \in DOMAIN G[p] /\ m # Inf /\ G[p][m].child = n + 1
        BY <1>0, <1>o, <1>d
    <2>2. \A j \in DOMAIN G[p] : j # m => Before(m, j)
        BY <1>0, <1>o, <1>d
    <2>3. \E j \in KeysOf(G[p]) : j # m
        <3>1. PICK j \in KeysOf(F[p]) : Before(m, j)
            OBVIOUS
        <3>2. j # m /\ ~Before(j, m)
            <4>1. j \in Ids /\ m \in Ids
                BY <1>0, <1>d DEF KeysOf
            <4> QED
                BY <3>1, <4>1, <1>o
        <3> QED
            BY <3>2 DEF KeysOf
    <2>4. n + 1 \in 1..(n + 1) /\ n + 1 # p /\ n + 1 # root
        BY <1>0 DEF Tree, Ghosts
    <2>5. lv[n + 1] = lv[p]
        BY <1>s
    <2> QED
        BY <2>1, <2>2, <2>3, <2>4, <2>5, <1>0 DEF Halves, KeysOf
<1>9. Tree(G, n + 1, root, sp, lv, p, m)
    BY <1>1, <1>2, <1>3, <1>4, <1>5, <1>6, <1>7, <1>8 DEF Tree
<1>10. SameLevels(n, lvl, lv)
    BY <1>s DEF SameLevels
<1> QED
    BY <1>9, <1>10

--------------------------------------------------------------------------
\* The slot of the node that was split is the one its median belongs in front of,
\* and no other slot leads to that node.
Leads(F, n, lvl, p, i, x) ==
    p \in 1..n /\ i \in DOMAIN F[p] /\ F[p][i].child = x /\ lvl[p] = lvl[x] + 1

OnlySlot(F, n, x, p, i) ==
    \A a \in 1..n : \A j \in DOMAIN F[a] : F[a][j].child = x => a = p /\ j = i

LEMMA MedianSlot ==
    ASSUME NEW F, NEW n, NEW root, NEW span, NEW lvl, NEW x, x # Null, NEW m,
           Tree(F, n, root, span, lvl, x, m),
           NEW p, NEW i, Leads(F, n, lvl, p, i, x)
    PROVE  /\ p # x /\ p # F[x][m].child
           /\ m \in span[x] /\ m \in span[p] /\ Between(F[p], i, m)
           /\ m \notin DOMAIN F[p]
           /\ OnlySlot(F, n, x, p, i)
<1> USE DEF Leads, OnlySlot
<1>1. /\ x \in 1..n /\ m \in DOMAIN F[x] /\ m \in span[x] /\ m \in Keys /\ m # Inf
      /\ F[x][m].child \in 1..n /\ F[x][m].child # x
      /\ lvl[F[x][m].child] = lvl[x] /\ lvl[x] \in Nat /\ lvl[p] \in Nat
    BY KeysAssumption DEF Tree, Halves, KeysInSpan, KeysOf, Ids, Ghosts
<1>2. p # x /\ p # F[x][m].child
    BY <1>1
<1>3. m \in span[p] /\ Between(F[p], i, m)
    BY <1>1 DEF Tree, SlotSpans
<1>4. m \notin DOMAIN F[p]
    BY <1>1 DEF Tree, KeysAbove, KeysOf
<1>5. ASSUME NEW a \in 1..n, NEW j \in DOMAIN F[a], F[a][j].child = x
      PROVE  a = p /\ j = i
    <2>1. m \in span[a] /\ Between(F[a], j, m)
        BY <1>1, <1>5 DEF Tree, SlotSpans
    <2>2. ~(a = x /\ j = m)
        BY <1>1, <1>5
    <2>3. lvl[x] + 1 = lvl[a]
        BY <2>2, <1>5, <1>1 DEF Tree, Levels
    <2>4. a = p
        BY <2>1, <2>3, <1>1, <1>3 DEF Tree, Apart
    <2>5. i \in Ids /\ j \in Ids /\ m \in Ids
        BY <1>1, <2>4 DEF Tree, KeysInSpan, Ids
    <2>6. j = i
        BY <2>1, <2>4, <2>5, <1>3, BeforeIsOrder DEF Between
    <2> QED
        BY <2>4, <2>6
<1> QED
    BY <1>1, <1>2, <1>3, <1>4, <1>5

\* Node::insert_node: the median goes in front of that slot.
AttachedIn(F, G, n, x, m, p) ==
    /\ \A a \in 1..n : a # p /\ a # x => G[a] = F[a]
    /\ DOMAIN G[x] = DOMAIN F[x] \ {m}
    /\ \A j \in DOMAIN G[x] : G[x][j] = F[x][j]
    /\ DOMAIN G[p] = DOMAIN F[p] \cup {m}
    /\ \A j \in DOMAIN G[p] : G[p][j] = IF j = m THEN F[x][m] ELSE F[p][j]

LEMMA MedianAttached ==
    ASSUME NEW F, NEW G, NEW n, NEW root, NEW span, NEW lvl, NEW x, x # Null, NEW m, NEW y,
           Tree(F, n, root, span, lvl, x, m),
           NEW p, NEW i, Leads(F, n, lvl, p, i, x),
           AttachedIn(F, G, n, x, m, p)
    PROVE  \E sp : Tree(G, n, root, sp, lvl, Null, y)
<1> DEFINE sp == [a \in 1..n |-> IF a = x THEN {k \in span[x] : Before(m, k)} ELSE span[a]]
           left == F[x][m].child
<1>0. /\ x \in 1..n /\ m \in DOMAIN F[x] /\ m \in span[x] /\ m \in Keys /\ m # Inf
      /\ left \in 1..n /\ left # x /\ left # root
      /\ lvl[left] = lvl[x] /\ lvl[x] \in Nat /\ lvl[p] \in Nat
      /\ \A j \in DOMAIN F[x] : j # m => Before(m, j)
    BY KeysAssumption DEF Tree, Halves, KeysInSpan, KeysOf, Ids, Ghosts, Leads
<1>p. /\ p # x /\ p # left
      /\ m \in span[x] /\ m \in span[p] /\ Between(F[p], i, m)
      /\ m \notin DOMAIN F[p]
      /\ \A a \in 1..n : \A j \in DOMAIN F[a] : F[a][j].child = x => a = p /\ j = i
    <2>1. Tree(F, n, root, span, lvl, x, m) /\ x # Null /\ Leads(F, n, lvl, p, i, x)
        OBVIOUS
    <2>2. /\ p # x /\ p # left
          /\ m \in span[x] /\ m \in span[p] /\ Between(F[p], i, m)
          /\ m \notin DOMAIN F[p] /\ OnlySlot(F, n, x, p, i)
        BY ONLY <2>1, MedianSlot
    <2> QED
        BY <2>2 DEF OnlySlot
<1>l. p \in 1..n /\ i \in DOMAIN F[p] /\ F[p][i].child = x /\ lvl[p] = lvl[x] + 1
    BY DEF Leads
<1>g. /\ \A a \in 1..n : a # p /\ a # x => G[a] = F[a]
      /\ DOMAIN G[x] = DOMAIN F[x] \ {m}
      /\ \A j \in DOMAIN G[x] : G[x][j].child = F[x][j].child
      /\ DOMAIN G[p] = DOMAIN F[p] \cup {m}
      /\ \A j \in DOMAIN G[p] : G[p][j].child = IF j = m THEN F[x][m].child ELSE F[p][j].child
    BY DEF AttachedIn
<1> USE <1>l, <1>g
<1>o. /\ \A j \in Ids : ~Before(j, j)
      /\ \A j, k \in Ids : k # j => Before(k, j) \/ Before(j, k)
      /\ \A h, j, k \in Ids : Before(h, j) /\ Before(j, k) => Before(h, k)
    BY BeforeIsOrder
<1>d. /\ \A a \in 1..n : DOMAIN F[a] \subseteq Ids /\ span[a] \subseteq Keys
      /\ Keys \subseteq Ids /\ m \in Ids /\ i \in Ids
    BY <1>0 DEF Tree, KeysInSpan, Ghosts, Ids
<1>s. /\ \A a \in 1..n : a # x => sp[a] = span[a]
      /\ sp[x] = {k \in span[x] : Before(m, k)}
      /\ \A a \in 1..n : sp[a] \subseteq span[a]
    BY <1>0
<1> HIDE DEF sp
<1>1. Ghosts(n, root, sp, lvl) /\ Halves(G, n, root, lvl, Null, y)
    <2>1. x # root
        BY <1>0 DEF Tree, Ghosts
    <2> QED
        BY <2>1, <1>s DEF Tree, Ghosts, Halves
<1>2. KeysInSpan(G, n, sp)
    BY <1>0, <1>p, <1>s, <1>d DEF Tree, KeysInSpan, KeysOf
<1>3. SlotSpans(G, n, sp)
    <2> SUFFICES ASSUME NEW a \in 1..n, NEW j \in DOMAIN G[a], G[a][j].child # Null,
                        NEW k \in Keys
                 PROVE  k \in sp[G[a][j].child] <=> (k \in sp[a] /\ Between(G[a], j, k))
        BY DEF SlotSpans
    <2>0. \A b \in 1..n : \A h \in DOMAIN F[b] : F[b][h].child # Null =>
              /\ F[b][h].child \in 1..n
              /\ k \in span[F[b][h].child] <=> (k \in span[b] /\ Between(F[b], h, k))
        BY <1>0 DEF Tree, SlotSpans, Levels
    <2>1. CASE a # p /\ a # x
        <3>1. G[a] = F[a] /\ F[a][j].child # x
            BY <2>1, <1>p
        <3> QED
            BY <2>0, <2>1, <3>1, <1>s
    <2>2. CASE a = x
        <3>1. /\ j \in DOMAIN F[x] /\ j # m /\ G[a][j].child = F[x][j].child
              /\ F[x][j].child # x
            BY <2>2, <1>p, <1>0
        <3>2. k \in span[F[x][j].child] <=> (k \in span[x] /\ Between(F[x], j, k))
            BY <2>0, <2>2, <3>1
        <3>3. Between(F[x], j, k) <=> (Before(m, k) /\ Between(G[x], j, k))
            <4>1. Before(m, j)
                BY <1>0, <3>1
            <4> QED
                BY <4>1, <1>0 DEF Between
        <3> QED
            BY <2>0, <2>2, <3>1, <3>2, <3>3, <1>s
    <2>3. CASE a = p /\ j = m
        <3>1. G[a][j].child = left
            BY <2>3
        <3>2. k \in span[left] <=> (k \in span[x] /\ Between(F[x], m, k))
            BY <2>0, <1>0, <2>3, <3>1
        <3>3. Between(F[x], m, k) <=> Before(k, m)
            BY <1>0, <1>o, <1>d DEF Between
        <3>4. k \in span[x] <=> (k \in span[p] /\ Between(F[p], i, k))
            BY <2>0, <1>0
        <3>5. (Between(F[p], i, k) /\ Before(k, m)) <=> Between(G[p], m, k)
            <4>1. DOMAIN F[p] \subseteq Ids /\ k \in Ids
                BY <1>d
            <4> QED
                BY <4>1, <1>p, <1>o, <1>d DEF Between
        <3> QED
            BY <2>3, <3>1, <3>2, <3>3, <3>4, <3>5, <1>s, <1>0, <1>p
    <2>4. CASE a = p /\ j = i
        <3>1. G[a][j].child = x
            BY <2>4, <1>p
        <3>2. k \in span[x] <=> (k \in span[p] /\ Between(F[p], i, k))
            BY <2>0, <1>0
        <3>3. (Between(F[p], i, k) /\ Before(m, k)) <=> Between(G[p], i, k)
            BY <1>p DEF Between
        <3> QED
            BY <2>4, <3>1, <3>2, <3>3, <1>s, <1>p
    <2>5. CASE a = p /\ j # m /\ j # i
        <3>1. /\ j \in DOMAIN F[p] /\ G[a][j].child = F[p][j].child
              /\ F[p][j].child # x
            BY <2>5, <1>p
        <3>2. k \in span[F[p][j].child] <=> (k \in span[p] /\ Between(F[p], j, k))
            BY <2>0, <2>5, <3>1
        <3>3. Between(F[p], j, k) <=> Between(G[p], j, k)
            <4>1. DOMAIN F[p] \subseteq Ids /\ k \in Ids /\ j \in Ids
                BY <1>d, <3>1
            <4>2. Before(m, j) => Before(i, j)
                BY <4>1, <2>5, <3>1, <1>p, <1>o, <1>d DEF Between
            <4>3. Before(m, i)
                BY <1>p DEF Between
            <4>4. Before(m, j) /\ Between(F[p], j, k) => Before(m, k)
                BY <4>1, <4>2, <4>3, <1>o, <1>d DEF Between
            <4> QED
                BY <4>4 DEF Between
        <3> QED
            BY <2>0, <2>5, <3>1, <3>2, <3>3, <1>s, <1>p
    <2> QED
        BY <2>1, <2>2, <2>3, <2>4, <2>5
<1>4. Levels(G, n, lvl, Null, y)
    <2> SUFFICES ASSUME NEW a \in 1..n
                 PROVE  /\ lvl[a] # 0 => Inf \in DOMAIN G[a]
                        /\ \A j \in DOMAIN G[a] :
                            /\ G[a][j].child = Null <=> lvl[a] = 0
                            /\ G[a][j].child # Null => G[a][j].child \in 1..n /\ lvl[G[a][j].child] + 1 = lvl[a]
        BY DEF Levels
    <2>0. \A b \in 1..n :
            /\ lvl[b] # 0 => Inf \in DOMAIN F[b]
            /\ \A j \in DOMAIN F[b] : ~(b = x /\ j = m) =>
                /\ F[b][j].child = Null <=> lvl[b] = 0
                /\ F[b][j].child # Null => F[b][j].child \in 1..n /\ lvl[F[b][j].child] + 1 = lvl[b]
        BY DEF Tree, Levels
    <2>1. CASE a # p /\ a # x
        BY <2>0, <2>1
    <2>2. CASE a = x
        BY <2>0, <2>2, <1>0, <1>p
    <2>3. CASE a = p
        BY <2>0, <2>3, <1>0, <1>p DEF Null
    <2> QED
        BY <2>1, <2>2, <2>3
<1>5. KeysAbove(G, n, sp, lvl)
    <2> SUFFICES ASSUME NEW a \in 1..n, NEW b \in 1..n, lvl[a] < lvl[b], NEW k \in KeysOf(G[b])
                 PROVE  k \notin sp[a]
        BY DEF KeysAbove
    <2>1. CASE k \in KeysOf(F[b])
        BY <2>1, <1>s DEF Tree, KeysAbove
    <2>2. CASE k \notin KeysOf(F[b])
        <3>1. b = p /\ k = m
            BY <2>2, <1>0 DEF KeysOf
        <3>2. CASE lvl[a] < lvl[x]
            <4>1. m \in KeysOf(F[x])
                BY <1>0 DEF KeysOf
            <4>2. m \notin span[a]
                BY <3>2, <4>1, <1>0 DEF Tree, KeysAbove
            <4> QED
                BY <3>1, <4>2, <1>s
        <3>3. CASE a = x
            BY <3>1, <3>3, <1>s, <1>o, <1>d
        <3>4. CASE a = left
            <4>1. m \in span[left] => Between(F[x], m, m)
                BY <1>0 DEF Tree, SlotSpans, Null
            <4> QED
                BY <3>1, <3>4, <4>1, <1>s, <1>o, <1>d DEF Between
        <3>5. CASE lvl[a] = lvl[x] /\ a # x /\ a # left
            BY <3>1, <3>5, <1>0, <1>s DEF Tree, Apart
        <3>6. lvl[a] \in Nat /\ lvl[a] < lvl[x] + 1
            BY <3>1 DEF Tree, Ghosts
        <3>7. lvl[a] < lvl[x] \/ lvl[a] = lvl[x]
            BY <3>6, <1>0
        <3> QED
            BY <3>2, <3>3, <3>4, <3>5, <3>7
    <2> QED
        BY <2>1, <2>2
<1>6. Apart(G, n, sp, lvl, Null, y)
    <2> SUFFICES ASSUME NEW a \in 1..n, NEW b \in 1..n, a # b, lvl[a] = lvl[b],
                        NEW k \in sp[a], k \in sp[b]
                 PROVE  FALSE
        BY DEF Apart
    <2>1. (a = x /\ b = left) \/ (b = x /\ a = left)
        BY <1>s DEF Tree, Apart
    <2>2. k \in span[left] /\ Before(m, k) /\ k \in Keys
        BY <2>1, <1>s, <1>0, <1>d
    <2>3. Between(F[x], m, k)
        BY <2>2, <1>0 DEF Tree, SlotSpans, Null
    <2> QED
        BY <2>2, <2>3, <1>o, <1>d DEF Between
<1>7. NonEmpty(G, n, root)
    <2>1. KeysOf(G[x]) # {}
        BY DEF Tree, Halves, KeysOf
    <2>2. KeysOf(G[p]) # {}
        BY <1>0 DEF KeysOf
    <2> QED
        BY <2>1, <2>2 DEF Tree, NonEmpty
<1>8. Tree(G, n, root, sp, lvl, Null, y)
    BY <1>1, <1>2, <1>3, <1>4, <1>5, <1>6, <1>7 DEF Tree
<1> QED
    BY <1>8

\* raw_insert: a root that was split becomes the parent of its two halves.
RootGrown(F, G, n, x, m) ==
    /\ \A a \in 1..n : a # x => G[a] = F[a]
    /\ DOMAIN G[x] = {m, Inf} /\ G[x][m] = F[x][m]
    /\ G[x][Inf] = Entry(NoValue, n + 1, NoHash)
    /\ DOMAIN G[n + 1] = DOMAIN F[x] \ {m}
    /\ \A j \in DOMAIN G[n + 1] : G[n + 1][j] = F[x][j]

LEMMA RootSplits ==
    ASSUME NEW F, NEW G, NEW n, NEW x, x # Null, NEW span, NEW lvl, NEW m, NEW y,
           Tree(F, n, x, span, lvl, x, m),
           RootGrown(F, G, n, x, m)
    PROVE  \E sp, lv : Tree(G, n + 1, x, sp, lv, Null, y)
<1> DEFINE sp == [a \in 1..(n + 1) |-> IF a = n + 1 THEN {k \in Keys : Before(m, k)} ELSE span[a]]
           lv == [a \in 1..(n + 1) |-> IF a = n + 1 THEN lvl[x] ELSE IF a = x THEN lvl[x] + 1 ELSE lvl[a]]
           left == F[x][m].child
<1>g. /\ \A a \in 1..n : a # x => G[a] = F[a]
      /\ DOMAIN G[x] = {m, Inf} /\ G[x][m].child = F[x][m].child /\ G[x][Inf].child = n + 1
      /\ DOMAIN G[n + 1] = DOMAIN F[x] \ {m}
      /\ \A j \in DOMAIN G[n + 1] : G[n + 1][j].child = F[x][j].child
    BY DEF RootGrown, Entry
<1> USE <1>g
<1>0. /\ n \in Nat /\ x \in 1..n /\ m \in DOMAIN F[x] /\ m \in Keys /\ m # Inf
      /\ left \in 1..n /\ left # x /\ span[x] = Keys
      /\ lvl[left] = lvl[x] /\ lvl[x] \in Nat
      /\ \A a \in 1..n : lvl[a] \in Nat /\ lvl[a] <= lvl[x] /\ span[a] \subseteq Keys
      /\ \A j \in DOMAIN F[x] : j # m => Before(m, j)
      /\ \A a \in 1..(n + 1) : a = n + 1 \/ a \in 1..n
      /\ \A a \in 1..n : a \in 1..(n + 1) /\ a # n + 1
    BY KeysAssumption DEF Tree, Halves, KeysInSpan, KeysOf, Ids, Ghosts
<1>o. /\ \A j \in Ids : ~Before(j, j)
      /\ \A j, k \in Ids : k # j => Before(k, j) \/ Before(j, k)
      /\ \A h, j, k \in Ids : Before(h, j) /\ Before(j, k) => Before(h, k)
      /\ \A k \in Keys : Before(k, Inf)
      /\ \A k : ~Before(Inf, k)
    BY BeforeIsOrder, KeysAssumption DEF Before
<1>d. /\ \A a \in 1..n : DOMAIN F[a] \subseteq Ids
      /\ Keys \subseteq Ids /\ m \in Ids /\ Inf \in Ids
    BY <1>0 DEF Tree, KeysInSpan, Ids
<1>s. /\ \A a \in 1..n : sp[a] = span[a]
      /\ sp[n + 1] = {k \in Keys : Before(m, k)}
      /\ \A a \in 1..n : a # x => lv[a] = lvl[a]
      /\ lv[x] = lvl[x] + 1 /\ lv[n + 1] = lvl[x]
    BY <1>0
<1> HIDE DEF sp, lv
<1>f. \A a \in 1..n : \A j \in DOMAIN F[a] : F[a][j].child # x
    <2> SUFFICES ASSUME NEW a \in 1..n, NEW j \in DOMAIN F[a], F[a][j].child = x
                 PROVE  FALSE
        OBVIOUS
    <2>1. ~(a = x /\ j = m)
        BY <1>0
    <2>2. lvl[x] + 1 = lvl[a]
        BY <2>1, <1>0 DEF Tree, Levels
    <2> QED
        BY <2>2, <1>0
<1>1. Ghosts(n + 1, x, sp, lv) /\ Halves(G, n + 1, x, lv, Null, y)
    <2>1. \A a \in 1..(n + 1) : lv[a] \in Nat /\ lv[a] <= lv[x]
        BY <1>0, <1>s
    <2> QED
        BY <2>1, <1>0, <1>s DEF Ghosts, Halves
<1>2. KeysInSpan(G, n + 1, sp)
    BY <1>0, <1>s, <1>d DEF Tree, KeysInSpan, KeysOf, Ids
<1>3. SlotSpans(G, n + 1, sp)
    <2> SUFFICES ASSUME NEW a \in 1..(n + 1), NEW j \in DOMAIN G[a], G[a][j].child # Null,
                        NEW k \in Keys
                 PROVE  k \in sp[G[a][j].child] <=> (k \in sp[a] /\ Between(G[a], j, k))
        BY DEF SlotSpans
    <2>0. \A b \in 1..n : \A h \in DOMAIN F[b] : F[b][h].child # Null =>
              /\ F[b][h].child \in 1..n
              /\ k \in span[F[b][h].child] <=> (k \in span[b] /\ Between(F[b], h, k))
        BY <1>0 DEF Tree, SlotSpans, Levels
    <2>1. CASE a \in 1..n /\ a # x
        BY <2>0, <2>1, <1>0, <1>s
    <2>2. CASE a = n + 1
        <3>1. /\ j \in DOMAIN F[x] /\ j # m /\ G[a][j].child = F[x][j].child
            BY <2>2
        <3>2. k \in span[F[x][j].child] <=> (k \in span[x] /\ Between(F[x], j, k))
            BY <2>0, <2>2, <3>1, <1>0
        <3>3. Between(F[x], j, k) <=> (Before(m, k) /\ Between(G[a], j, k))
            <4>1. Before(m, j)
                BY <1>0, <3>1
            <4> QED
                BY <4>1, <1>0, <2>2 DEF Between
        <3> QED
            BY <2>0, <2>2, <3>1, <3>2, <3>3, <1>s, <1>0
    <2>3. CASE a = x /\ j = m
        <3>1. k \in span[left] <=> (k \in span[x] /\ Between(F[x], m, k))
            BY <2>0, <1>0, <2>3
        <3>2. Between(F[x], m, k) <=> Before(k, m)
            BY <1>0, <1>o, <1>d DEF Between
        <3>3. Between(G[x], m, k) <=> Before(k, m)
            BY <1>0, <1>o, <1>d DEF Between
        <3> QED
            BY <2>3, <3>1, <3>2, <3>3, <1>s, <1>0
    <2>4. CASE a = x /\ j = Inf
        <3>1. Between(G[x], Inf, k) <=> Before(m, k)
            BY <1>0, <1>o, <1>d DEF Between
        <3> QED
            BY <2>4, <3>1, <1>s, <1>0
    <2> QED
        BY <2>1, <2>2, <2>3, <2>4, <1>0
<1>4. Levels(G, n + 1, lv, Null, y)
    <2> SUFFICES ASSUME NEW a \in 1..(n + 1)
                 PROVE  /\ lv[a] # 0 => Inf \in DOMAIN G[a]
                        /\ \A j \in DOMAIN G[a] :
                            /\ G[a][j].child = Null <=> lv[a] = 0
                            /\ G[a][j].child # Null =>
                                G[a][j].child \in 1..(n + 1) /\ lv[G[a][j].child] + 1 = lv[a]
        BY DEF Levels
    <2>0. \A b \in 1..n :
            /\ lvl[b] # 0 => Inf \in DOMAIN F[b]
            /\ \A j \in DOMAIN F[b] : ~(b = x /\ j = m) =>
                /\ F[b][j].child = Null <=> lvl[b] = 0
                /\ F[b][j].child # Null => F[b][j].child \in 1..n /\ lvl[F[b][j].child] + 1 = lvl[b]
        BY DEF Tree, Levels
    <2>1. CASE a \in 1..n /\ a # x
        BY <2>0, <2>1, <1>0, <1>s, <1>f
    <2>2. CASE a = n + 1
        BY <2>0, <2>2, <1>0, <1>s, <1>f
    <2>3. CASE a = x
        BY <2>3, <1>0, <1>s DEF Null
    <2> QED
        BY <2>1, <2>2, <2>3, <1>0
<1>5. KeysAbove(G, n + 1, sp, lv)
    <2> SUFFICES ASSUME NEW a \in 1..(n + 1), NEW b \in 1..(n + 1), lv[a] < lv[b],
                        NEW k \in KeysOf(G[b])
                 PROVE  k \notin sp[a]
        BY DEF KeysAbove
    <2>k. \A c, d \in 1..n : lvl[c] < lvl[d] => \A h \in KeysOf(F[d]) : h \notin span[c]
        BY DEF Tree, KeysAbove
    <2>1. CASE b = x
        <3>1. k = m
            BY <2>1 DEF KeysOf
        <3>2. CASE a = n + 1
            BY <3>1, <3>2, <1>s, <1>o, <1>d
        <3>3. CASE a = left
            <4>1. m \in span[left] => Between(F[x], m, m)
                BY <1>0 DEF Tree, SlotSpans, Null
            <4> QED
                BY <3>1, <3>3, <4>1, <1>s, <1>o, <1>d, <1>0 DEF Between
        <3>4. CASE a \in 1..n /\ a # x /\ lvl[a] < lvl[x]
            <4>1. m \in KeysOf(F[x])
                BY <1>0 DEF KeysOf
            <4> QED
                BY <3>1, <3>4, <4>1, <2>k, <1>0, <1>s
        <3>5. CASE a \in 1..n /\ a # x /\ a # left /\ lvl[a] = lvl[x]
            BY <3>1, <3>5, <1>0, <1>s DEF Tree, Apart
        <3>6. CASE a = x
            BY <3>6, <2>1, <1>0, <1>s
        <3>7. a \in 1..n => lvl[a] < lvl[x] \/ lvl[a] = lvl[x]
            BY <1>0
        <3> QED
            BY <3>2, <3>3, <3>4, <3>5, <3>6, <3>7, <1>0
    <2>2. CASE b \in 1..n /\ b # x
        <3>1. lv[a] < lvl[x] /\ lv[b] = lvl[b] /\ G[b] = F[b]
            BY <2>2, <1>0, <1>s
        <3>2. a \in 1..n /\ a # x
            BY <3>1, <1>0, <1>s
        <3> QED
            BY <2>2, <3>1, <3>2, <2>k, <1>0, <1>s
    <2>3. CASE b = n + 1
        <3>1. lv[a] < lvl[x] /\ k \in KeysOf(F[x])
            BY <2>3, <1>s DEF KeysOf
        <3>2. a \in 1..n /\ a # x
            BY <3>1, <1>0, <1>s
        <3> QED
            BY <3>1, <3>2, <2>k, <1>0, <1>s
    <2> QED
        BY <2>1, <2>2, <2>3, <1>0
<1>6. Apart(G, n + 1, sp, lv, Null, y)
    <2> SUFFICES ASSUME NEW a \in 1..(n + 1), NEW b \in 1..(n + 1), a # b, lv[a] = lv[b],
                        NEW k \in sp[a], k \in sp[b]
                 PROVE  FALSE
        BY DEF Apart
    <2>1. a # x /\ b # x
        BY <1>0, <1>s
    <2>a. \A c, d \in 1..n : (c # d /\ lvl[c] = lvl[d]) => \A h \in span[c] : h \in span[d] =>
            (c = x /\ d = left) \/ (d = x /\ c = left)
        BY DEF Tree, Apart
    <2>2. ASSUME NEW c \in 1..n, c # x, lvl[c] = lvl[x], k \in span[c], Before(m, k)
          PROVE  FALSE
        <3>1. k \in Keys /\ c = left
            BY <2>2, <2>a, <1>0
        <3>2. Between(F[x], m, k)
            BY <3>1, <2>2, <1>0 DEF Tree, SlotSpans, Null
        <3> QED
            BY <3>1, <3>2, <2>2, <1>o, <1>d DEF Between
    <2>3. CASE a \in 1..n /\ b \in 1..n
        BY <2>1, <2>3, <2>a, <1>0, <1>s
    <2>4. CASE a = n + 1 /\ b \in 1..n
        BY <2>1, <2>4, <2>2, <1>0, <1>s
    <2>5. CASE b = n + 1 /\ a \in 1..n
        BY <2>1, <2>5, <2>2, <1>0, <1>s
    <2> QED
        BY <2>3, <2>4, <2>5, <1>0
<1>7. NonEmpty(G, n + 1, x)
    <2>1. KeysOf(G[n + 1]) # {}
        BY DEF Tree, Halves, KeysOf
    <2> QED
        BY <2>1, <1>0 DEF Tree, NonEmpty
<1>8. Tree(G, n + 1, x, sp, lv, Null, y)
    BY <1>1, <1>2, <1>3, <1>4, <1>5, <1>6, <1>7 DEF Tree
<1> QED
    BY <1>8

--------------------------------------------------------------------------
\* A root without entries is a tree.
LEMMA FirstRoot ==
    ASSUME NEW F, NEW m, F[1] = EmptyMap
    PROVE  Tree(F, 1, 1, [a \in 1..1 |-> Keys], [a \in 1..1 |-> 0], Null, m)
<1>1. DOMAIN F[1] = {}
    BY DEF EmptyMap
<1>2. \A a \in 1..1 : a = 1
    OBVIOUS
<1> QED
    BY <1>1, <1>2 DEF Tree, Ghosts, KeysInSpan, SlotSpans, Levels, KeysAbove, Apart,
                      NonEmpty, Halves, KeysOf

\* Node::is_leaf tells the lowest level from the others.
LEMMA LeafLevel ==
    ASSUME NEW F, NEW n, NEW root, NEW span, NEW lvl, NEW m,
           Tree(F, n, root, span, lvl, Null, m), NEW a \in 1..n
    PROVE  IsLeaf(F[a]) <=> lvl[a] = 0
BY DEF Tree, Levels, IsLeaf, Null

\* In an inner node there is an entry to go down at, and its child is there.
LEMMA GoesDown ==
    ASSUME NEW F, NEW n, NEW root, NEW span, NEW lvl, NEW m,
           Tree(F, n, root, span, lvl, Null, m),
           NEW a \in 1..n, lvl[a] # 0, IsFiniteSet(DOMAIN F[a]),
           NEW k \in Keys, k \in span[a], k \notin DOMAIN F[a]
    PROVE  LET i == LowerBound(F[a], k)
           IN  /\ i \in DOMAIN F[a] /\ F[a][i].child \in 1..n
               /\ lvl[F[a][i].child] + 1 = lvl[a] /\ k \in span[F[a][i].child]
<1> DEFINE S == AtOrAfter(F[a], k)
           i == LowerBound(F[a], k)
<1>1. Inf \in DOMAIN F[a] /\ DOMAIN F[a] \subseteq Ids /\ k \in Ids /\ k # Inf
    BY KeysAssumption DEF Tree, Levels, KeysInSpan, Ids
<1>2. S \subseteq DOMAIN F[a] /\ S \subseteq Ids /\ Inf \in S
    BY <1>1 DEF AtOrAfter, Before
<1>3. IsFiniteSet(S)
    BY <1>2, FS_Subset
<1>4. First(S) \in S /\ \A j \in S \ {First(S)} : Before(First(S), j)
    BY <1>2, <1>3, FirstIsFirst
<1>5. i = First(S)
    BY <1>2 DEF LowerBound
<1> HIDE DEF S, i
<1>6. i \in DOMAIN F[a] /\ F[a][i].child # Null
    BY <1>2, <1>4, <1>5 DEF Tree, Levels, Null
<1>7. F[a][i].child \in 1..n /\ lvl[F[a][i].child] + 1 = lvl[a]
    BY <1>6 DEF Tree, Levels, Null
<1>8. Between(F[a], i, k)
    <2>1. Before(k, i)
        <3>1. ~Before(i, k) /\ i # k /\ i \in Ids
            BY <1>1, <1>4, <1>5, <1>6 DEF S, AtOrAfter
        <3> QED
            BY <3>1, <1>1, BeforeIsOrder
    <2>2. ASSUME NEW j \in DOMAIN F[a], Before(j, i) PROVE Before(j, k)
        <3>1. j \notin S
            BY <2>2, <1>1, <1>4, <1>5, <1>6, BeforeIsOrder
        <3> QED
            BY <3>1 DEF S, AtOrAfter
    <2> QED
        BY <2>1, <2>2 DEF Between
<1>9. k \in span[F[a][i].child]
    BY <1>6, <1>8 DEF Tree, SlotSpans
<1> QED
    BY <1>6, <1>7, <1>9 DEF i

\* No key is in two nodes.
LEMMA OneNode ==
    ASSUME NEW F, NEW n, NEW root, NEW span, NEW lvl, NEW x, NEW m,
           Tree(F, n, root, span, lvl, x, m),
           NEW a \in 1..n, NEW b \in 1..n, NEW k \in KeysOf(F[a]), k \in KeysOf(F[b])
    PROVE  a = b
<1>1. k \in span[a] /\ k \in span[b] /\ lvl[a] \in Nat /\ lvl[b] \in Nat /\ k \in Keys /\ k \in Ids
    BY DEF Tree, KeysInSpan, Ghosts, Ids
<1>2. lvl[a] = lvl[b]
    BY <1>1 DEF Tree, KeysAbove
<1> SUFFICES ASSUME a # b PROVE FALSE
    OBVIOUS
<1>3. /\ x # Null
      /\ (a = x /\ b = F[x][m].child) \/ (b = x /\ a = F[x][m].child)
    BY <1>1, <1>2 DEF Tree, Apart
<1>4. /\ x \in 1..n /\ m \in DOMAIN F[x] /\ F[x][m].child # Null
      /\ \A j \in DOMAIN F[x] : j # m => Before(m, j)
    BY <1>3 DEF Tree, Halves, KeysOf, Null
<1>5. Between(F[x], m, k) /\ k \in DOMAIN F[x] /\ m \in Ids
    BY <1>1, <1>3, <1>4 DEF Tree, SlotSpans, KeysOf, KeysInSpan
<1> QED
    BY <1>1, <1>4, <1>5, BeforeIsOrder DEF Between

\* A key whose way down ended at a leaf is in no other node.
LEMMA NowhereElse ==
    ASSUME NEW F, NEW n, NEW root, NEW span, NEW lvl, NEW m,
           Tree(F, n, root, span, lvl, Null, m),
           NEW p \in 1..n, lvl[p] = 0, NEW k \in span[p],
           NEW a \in 1..n, k \in KeysOf(F[a])
    PROVE  a = p
<1>1. k \in span[a] /\ lvl[a] \in Nat
    BY DEF Tree, KeysInSpan, Ghosts
<1>2. lvl[a] = 0
    BY <1>1 DEF Tree, KeysAbove
<1> QED
    BY <1>1, <1>2 DEF Tree, Apart

\* A child hangs below one entry of one node; the left half of a node that is
\* being split is left out.
LEMMA OneSlot ==
    ASSUME NEW F, NEW n, NEW root, NEW span, NEW lvl, NEW x, NEW m,
           Tree(F, n, root, span, lvl, x, m),
           NEW a \in 1..n, NEW i \in DOMAIN F[a], NEW b \in 1..n, NEW j \in DOMAIN F[b],
           NEW c, c = F[a][i].child, c = F[b][j].child, c # Null,
           x # Null => c # F[x][m].child
    PROVE  a = b /\ i = j
<1>1. ~(a = x /\ i = m) /\ ~(b = x /\ j = m)
    <2>1. x \in 1..n => x # Null
        BY DEF Null
    <2> QED
        BY <2>1
<1>2. c \in 1..n /\ lvl[c] + 1 = lvl[a] /\ lvl[c] + 1 = lvl[b]
    <2>1. ASSUME NEW d \in 1..n, NEW g \in DOMAIN F[d], ~(d = x /\ g = m), F[d][g].child = c
          PROVE  c \in 1..n /\ lvl[c] + 1 = lvl[d]
        BY <2>1 DEF Tree, Levels
    <2> QED
        BY <2>1, <1>1
<1>3. PICK k \in Keys : k \in span[c]
    <2>1. c # root
        BY <1>2 DEF Tree, Ghosts
    <2>2. KeysOf(F[c]) # {} /\ KeysOf(F[c]) \subseteq span[c]
        BY <1>2, <2>1 DEF Tree, NonEmpty, KeysInSpan
    <2> QED
        BY <1>2, <2>2 DEF Tree, Ghosts
<1>4. /\ k \in span[a] /\ Between(F[a], i, k)
      /\ k \in span[b] /\ Between(F[b], j, k)
    BY <1>3 DEF Tree, SlotSpans
<1>5. ASSUME NEW h \in 1..n, NEW g \in DOMAIN F[h], ~(h = x /\ g = m),
             Between(F[h], g, k), x # Null, h = x, k \in span[F[x][m].child]
      PROVE  FALSE
    <2>1. /\ m \in DOMAIN F[x] /\ F[x][m].child # Null /\ Before(m, g)
          /\ x \in 1..n
        BY <1>5 DEF Tree, Halves, KeysOf, Null
    <2>2. Before(m, k) /\ Between(F[x], m, k)
        BY <1>3, <1>5, <2>1 DEF Between, Tree, SlotSpans
    <2>3. k \in Ids /\ m \in Ids
        BY <2>1, <1>5 DEF Tree, KeysInSpan, Ids
    <2> QED
        BY <2>2, <2>3, BeforeIsOrder DEF Between
<1>6. a = b
    <2> SUFFICES ASSUME a # b PROVE FALSE
        OBVIOUS
    <2>1. /\ x # Null
          /\ (a = x /\ b = F[x][m].child) \/ (b = x /\ a = F[x][m].child)
        BY <1>2, <1>4 DEF Tree, Apart
    <2> QED
        BY <2>1, <1>1, <1>4, <1>5
<1>7. i \in Ids /\ j \in Ids /\ k \in Ids
    BY <1>6 DEF Tree, KeysInSpan, Ids
<1>8. i = j
    BY <1>4, <1>6, <1>7, BeforeIsOrder DEF Between
<1> QED
    BY <1>6, <1>8
==========================================================================
