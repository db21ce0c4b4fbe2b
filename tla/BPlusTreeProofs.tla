--------------------------- MODULE BPlusTreeProofs ---------------------------
(***************************************************************************)
(* The B+ tree of the file names, proved for every number of keys a node,    *)
(* every set of names and files: the nodes are typed and linked, the leaves  *)
(* are at one depth, no node is too full or too empty, and the search finds  *)
(* what was inserted.                                                        *)
(***************************************************************************)
EXTENDS BPlusTree, SequenceTheorems, FiniteSetTheorems, WellFoundedInduction, TLAPS

-----------------------------------------------------------------------------
(* A heap of nodes and the tree in it.  The predicates are about any heap h, *)
(* so that they can be said of the heap that a pending call is going to leave.*)

Link == Address \cup {NULL}

NodeType == [is_leaf : BOOLEAN, keys : Seq(Names), pointers : Seq(Files \cup Address),
             parent : Link, next : Link]

\* A leaf has a file for each key, another node one child more than keys.
NodeOK(n) ==
    /\ n \in NodeType
    /\ n.is_leaf => n.pointers \in Seq(Files) /\ Len(n.pointers) = Len(n.keys)
    /\ ~n.is_leaf => n.pointers \in Seq(Address) /\ Len(n.pointers) = Len(n.keys) + 1

Heap(h) ==
    /\ IsFiniteSet(DOMAIN h) /\ DOMAIN h \subseteq Address
    /\ h \in [DOMAIN h -> NodeType]
    /\ \A a \in DOMAIN h : NodeOK(h[a])

\* Child i of node a is c.
ChildAt(h, a, i, c) == ~h[a].is_leaf /\ i \in 1 .. Len(h[a].pointers) /\ h[a].pointers[i] = c

\* ht[a] is the height of node a above the leaves.
Heights(h, r, ht) ==
    /\ ht \in [DOMAIN h -> Nat]
    /\ \A a \in DOMAIN h : h[a].is_leaf <=> ht[a] = 0
    /\ \A a \in DOMAIN h : a # r => ht[a] < ht[r]

\* A child is a node one level lower and names its parent, which lists it once;
\* every node but the root is listed by its parent.
Linkage(h, r, ht) ==
    /\ r \in DOMAIN h /\ h[r].parent = NULL
    /\ \A a \in DOMAIN h : \A i, c : ChildAt(h, a, i, c) =>
         c \in DOMAIN h /\ h[c].parent = a /\ ht[a] = ht[c] + 1
    /\ \A a \in DOMAIN h : \A i, j, c : ChildAt(h, a, i, c) /\ ChildAt(h, a, j, c) => i = j
    /\ \A a \in DOMAIN h : a # r =>
         h[a].parent \in DOMAIN h /\ \E i : ChildAt(h, h[a].parent, i, a)

\* The names of R that belong below child i of a node with the keys ks.
Slot(R, ks, i) == {x \in R : (i > 1 => ks[i - 1] <= x) /\ (i <= Len(ks) => x < ks[i])}

Sorted(ks) == \A i, j \in 1 .. Len(ks) : i < j => ks[i] < ks[j]

\* rng[a] is the names that belong below a: all of them below the root, and
\* those between two keys below a child.
Ranges(h, r, rng) ==
    /\ rng \in [DOMAIN h -> SUBSET Names]
    /\ rng[r] = Names
    /\ \A a \in DOMAIN h : \A i, c : ChildAt(h, a, i, c) => rng[c] = Slot(rng[a], h[a].keys, i)

\* Nodes of one level have no name in common.
Apart(h, ht, rng) ==
    \A a, b \in DOMAIN h : a # b /\ ht[a] = ht[b] => rng[a] \cap rng[b] = {}

\* The keys of a node are in order and names that belong there; a key that
\* separates two children is not the least of those.
KeysOK(h, rng) ==
    \A a \in DOMAIN h :
      /\ Sorted(h[a].keys)
      /\ \A i \in 1 .. Len(h[a].keys) :
           /\ h[a].keys[i] \in rng[a]
           /\ ~h[a].is_leaf => \E x \in rng[a] : x < h[a].keys[i]

WF(h, r, ht, rng) ==
    Heap(h) /\ Heights(h, r, ht) /\ Linkage(h, r, ht) /\ Ranges(h, r, rng)
      /\ Apart(h, ht, rng) /\ KeysOK(h, rng)

\* The leaves hold the names of ix that belong there, with their files.
Content(h, rng, ix) ==
    \A a \in DOMAIN h : h[a].is_leaf =>
      /\ \A i \in 1 .. Len(h[a].keys) :
           h[a].keys[i] \in DOMAIN ix /\ ix[h[a].keys[i]] = h[a].pointers[i]
      /\ \A x \in rng[a] \cap DOMAIN ix : \E i \in 1 .. Len(h[a].keys) : h[a].keys[i] = x

\* The keys a node other than the root must have.
Least(n) == IF n.is_leaf THEN (MAX_KEY_NUM + 1) \div 2 ELSE MAX_KEY_NUM \div 2

Fill(h, r) ==
    \A a \in DOMAIN h :
      /\ Len(h[a].keys) <= MAX_KEY_NUM
      /\ a # r => Len(h[a].keys) >= Least(h[a])
      /\ a = r /\ ~h[a].is_leaf => Len(h[a].keys) >= 1

-----------------------------------------------------------------------------
(* The heap that a pending call c leaves when it finds the room it needs.     *)

SetEntries(h, a, ks, ps) == [h EXCEPT ![a].keys = ks, ![a].pointers = ps]

\* insert_into_parent enters the right half beside the left one, or makes a new
\* root t above both.
ParentOf(h, c) == h[c.left].parent
IndexOf(h, c) == GetNodeIndex(h, c.left)
PutIntoParent(h, c) ==
    SetEntries(h, ParentOf(h, c), InsertAt(h[ParentOf(h, c)].keys, IndexOf(h, c) + 1, c.key),
               InsertAt(h[ParentOf(h, c)].pointers, IndexOf(h, c) + 2, c.right))
PutAbove(h, t, c) ==
    Adopt(Alloc(h, t, Node(FALSE, <<c.key>>, <<c.left, c.right>>, NULL, NULL)),
          {c.left, c.right}, t)

\* delete_entry removes the entry.
KeyOf(h, c) == IF h[c.nd].is_leaf THEN c.index + 1 ELSE c.index
CutEntry(h, c) ==
    SetEntries(h, c.nd, RemoveAt(h[c.nd].keys, KeyOf(h, c)),
               RemoveAt(h[c.nd].pointers, c.index + 1))

\* The halves of a split: both have enough keys, and the left one is where the
\* node was that was split.
Halves(h, r, c) ==
    /\ c \in [fn : {"insert_into_parent"}, left : Address, right : Address, key : Names]
    /\ r \in DOMAIN h
    /\ {c.left, c.right} \subseteq DOMAIN h /\ c.left # c.right
    /\ Len(h[c.left].keys) >= Least(h[c.left])
    /\ Len(h[c.right].keys) >= Least(h[c.right])
    /\ c.right # r
    /\ c.left = r <=> ParentOf(h, c) = NULL
    /\ ParentOf(h, c) # NULL =>
         ParentOf(h, c) \in DOMAIN h /\ \E i : ChildAt(h, ParentOf(h, c), i, c.left)

\* The entry that is going to be removed.
Doomed(h, r, c) ==
    /\ c \in [fn : {"delete_entry"}, nd : Address, index : Nat]
    /\ r \in DOMAIN h
    /\ c.nd \in DOMAIN h
    /\ IF h[c.nd].is_leaf THEN c.index < Len(h[c.nd].keys)
       ELSE c.index \in 1 .. Len(h[c.nd].keys)

\* What is true of every heap that a call may leave: there is a tree in it, with
\* the names of ix in its leaves unless an insert may have lost one.
Good(h, r, ix) ==
    \E ht, rng : WF(h, r, ht, rng) /\ (0 \notin CondGarbage => Content(h, rng, ix))

\* No node is left, and no name.
Empty(h, r, ix) == r = NULL /\ DOMAIN h = {} /\ (0 \notin CondGarbage => DOMAIN ix = {})

\* The inductive invariant: the heap, or the one that the pending call leaves,
\* has a tree in it.
Inv(h, r, c, ix) ==
    /\ Heap(h) /\ Fill(h, r) /\ DOMAIN ix \subseteq Names
    /\ \/ c = Done /\ Empty(h, r, ix)
       \/ c = Done /\ r # NULL /\ Good(h, r, ix)
       \/ Halves(h, r, c) /\ ParentOf(h, c) # NULL /\ Good(PutIntoParent(h, c), r, ix)
       \/ /\ Halves(h, r, c) /\ ParentOf(h, c) = NULL
          /\ Good(PutAbove(h, Fresh(h), c), Fresh(h), ix)
       \/ Doomed(h, r, c) /\ Good(CutEntry(h, c), r, ix)

IInv == Inv(nodes, root, call, index)
-----------------------------------------------------------------------------
(* Sequences.                                                                *)

\* Two sequences, one after the other.
LEMMA JoinProp ==
    ASSUME NEW S, NEW s \in Seq(S), NEW t \in Seq(S)
    PROVE  /\ s \o t \in Seq(S)
           /\ Len(s \o t) = Len(s) + Len(t)
           /\ \A j \in 1 .. Len(s) + Len(t) : (s \o t)[j] = IF j <= Len(s) THEN s[j] ELSE t[j - Len(s)]
  BY ConcatProperties

\* InsertAt(s, i, e): what stands where.
LEMMA InsertAtProp ==
    ASSUME NEW S, NEW s \in Seq(S), NEW e \in S, NEW i \in 1 .. Len(s) + 1
    PROVE  /\ InsertAt(s, i, e) \in Seq(S)
           /\ Len(InsertAt(s, i, e)) = Len(s) + 1
           /\ \A j \in 1 .. Len(s) + 1 :
                InsertAt(s, i, e)[j] = IF j < i THEN s[j] ELSE IF j = i THEN e ELSE s[j - 1]
<1> DEFINE f == SubSeq(s, 1, i - 1)
           g == SubSeq(s, i, Len(s))
<1>1. /\ f \in Seq(S) /\ Len(f) = i - 1 /\ \A j \in 1 .. i - 1 : f[j] = s[j]
      /\ g \in Seq(S) /\ Len(g) = Len(s) - i + 1 /\ \A j \in 1 .. Len(g) : g[j] = s[i + j - 1]
  BY SubSeqProperties
<1>2. <<e>> \in Seq(S) /\ Len(<<e>>) = 1 /\ <<e>>[1] = e
  OBVIOUS
<1> HIDE DEF f, g
<1>3. /\ f \o <<e>> \in Seq(S) /\ Len(f \o <<e>>) = i
      /\ \A j \in 1 .. i : (f \o <<e>>)[j] = IF j < i THEN s[j] ELSE e
  BY <1>1, <1>2, ConcatProperties
<1> DEFINE d == f \o <<e>>
<1> HIDE DEF d
<1>4. d \o g \in Seq(S) /\ Len(d \o g) = Len(s) + 1
      /\ \A j \in 1 .. Len(s) + 1 : (d \o g)[j] = IF j <= i THEN d[j] ELSE g[j - i]
  <2>1. d \in Seq(S) /\ Len(d) = i /\ i + Len(g) = Len(s) + 1
    BY <1>1, <1>3 DEF d
  <2>2. /\ d \o g \in Seq(S) /\ Len(d \o g) = Len(d) + Len(g)
        /\ \A j \in 1 .. Len(d) + Len(g) :
             (d \o g)[j] = IF j <= Len(d) THEN d[j] ELSE g[j - Len(d)]
    BY <1>1, <2>1, JoinProp, Zenon
  <2> QED
    BY <2>1, <2>2
<1>5. ASSUME NEW j \in 1 .. Len(s) + 1
      PROVE  (d \o g)[j] = IF j < i THEN s[j] ELSE IF j = i THEN e ELSE s[j - 1]
  <2>1. CASE j <= i
    BY <1>3, <1>4, <2>1 DEF d
  <2>2. CASE j > i
    <3>1. j - i \in 1 .. Len(g) /\ i + (j - i) - 1 = j - 1
      BY <1>1, <2>2
    <3>2. (d \o g)[j] = g[j - i]
      BY <1>4, <2>2
    <3>3. g[j - i] = s[i + (j - i) - 1]
      BY <1>1, <3>1
    <3> QED
      BY <2>2, <3>1, <3>2, <3>3
  <2>3. j <= i \/ j > i
    OBVIOUS
  <2> QED
    BY <2>1, <2>2, <2>3, Zenon
<1>6. InsertAt(s, i, e) = d \o g
  BY DEF InsertAt, d, f, g
<1> QED
  BY <1>4, <1>5, <1>6

\* RemoveAt(s, i): what stands where.
LEMMA RemoveAtProp ==
    ASSUME NEW S, NEW s \in Seq(S), NEW i \in 1 .. Len(s)
    PROVE  /\ RemoveAt(s, i) \in Seq(S)
           /\ Len(RemoveAt(s, i)) = Len(s) - 1
           /\ \A j \in 1 .. Len(s) - 1 : RemoveAt(s, i)[j] = IF j < i THEN s[j] ELSE s[j + 1]
<1> DEFINE f == SubSeq(s, 1, i - 1)
           g == SubSeq(s, i + 1, Len(s))
<1>1. /\ f \in Seq(S) /\ Len(f) = i - 1 /\ \A j \in 1 .. i - 1 : f[j] = s[j]
      /\ g \in Seq(S) /\ Len(g) = Len(s) - i /\ \A j \in 1 .. Len(g) : g[j] = s[i + j]
  BY SubSeqProperties
<1>2. RemoveAt(s, i) = f \o g
  BY DEF RemoveAt
<1> HIDE DEF f, g
<1>3. f \o g \in Seq(S) /\ Len(f \o g) = Len(s) - 1
      /\ \A j \in 1 .. Len(s) - 1 : (f \o g)[j] = IF j <= i - 1 THEN f[j] ELSE g[j - (i - 1)]
  <2>1. /\ f \o g \in Seq(S) /\ Len(f \o g) = Len(f) + Len(g)
        /\ \A j \in 1 .. Len(f) + Len(g) :
             (f \o g)[j] = IF j <= Len(f) THEN f[j] ELSE g[j - Len(f)]
    BY <1>1, JoinProp, Zenon
  <2>2. Len(f) = i - 1 /\ i - 1 + Len(g) = Len(s) - 1
    BY <1>1
  <2> QED
    BY <2>1, <2>2
<1>4. ASSUME NEW j \in 1 .. Len(s) - 1
      PROVE  (f \o g)[j] = IF j < i THEN s[j] ELSE s[j + 1]
  <2>1. CASE j < i
    BY <1>1, <1>3, <2>1
  <2>2. CASE j >= i
    <3>1. j - (i - 1) \in 1 .. Len(g) /\ i + (j - (i - 1)) = j + 1
      BY <1>1, <2>2
    <3>2. (f \o g)[j] = g[j - (i - 1)]
      BY <1>3, <2>2
    <3>3. g[j - (i - 1)] = s[i + (j - (i - 1))]
      BY <1>1, <3>1
    <3> QED
      BY <2>2, <3>1, <3>2, <3>3
  <2>3. j < i \/ j >= i
    OBVIOUS
  <2> QED
    BY <2>1, <2>2, <2>3, Zenon
<1> QED
  BY <1>2, <1>3, <1>4

\* A piece of a sequence.
LEMMA PieceProp ==
    ASSUME NEW S, NEW s \in Seq(S), NEW m \in 1 .. Len(s) + 1, NEW n \in m - 1 .. Len(s)
    PROVE  /\ SubSeq(s, m, n) \in Seq(S)
           /\ Len(SubSeq(s, m, n)) = n - m + 1
           /\ \A j \in 1 .. n - m + 1 : SubSeq(s, m, n)[j] = s[m + j - 1]
  BY SubSeqProperties

\* Sequences of one length with the same elements are the same.
LEMMA SameSeq ==
    ASSUME NEW S, NEW s \in Seq(S), NEW t \in Seq(S), Len(s) = Len(t),
           \A j \in 1 .. Len(s) : s[j] = t[j]
    PROVE  s = t
  BY SeqEqual

\* A set of naturals that is not empty has a least element.
LEMMA LeastNat ==
    ASSUME NEW T, T \subseteq Nat, T # {}
    PROVE  \E x \in T : \A y \in T : x <= y
<1> DEFINE R == OpToRel(<, Nat)
<1>1. IsWellFoundedOn(R, Nat)
  BY NatLessThanWellFounded
<1>2. \A x, y \in Nat : x < y => <<x, y>> \in R
  BY DEF OpToRel
<1> HIDE DEF R
<1>3. PICK x \in T : \A y \in T : ~ (<<y, x>> \in R)
  BY <1>1, WFMin
<1>4. ASSUME NEW y \in T PROVE x <= y
  <2>1. x \in Nat /\ y \in Nat
    OBVIOUS
  <2>2. ~(y < x)
    BY <1>2, <1>3, <2>1, Zenon
  <2> QED
    BY <2>1, <2>2
<1> QED
  BY <1>4

\* Min takes it.
LEMMA MinProp ==
    ASSUME NEW T, T \subseteq Nat, T # {}
    PROVE  Min(T) \in T /\ \A y \in T : Min(T) <= y
  BY LeastNat DEF Min

\* A loop over a sequence stops at the first element its condition fails for.
LEMMA LeadingStop ==
    ASSUME NEW S, NEW s \in Seq(S), NEW stop, stop \subseteq 1 .. Len(s)
    PROVE  LET n == IF stop = {} THEN Len(s) ELSE Min(stop) - 1
           IN  /\ n \in 0 .. Len(s)
               /\ \A j \in 1 .. n : j \notin stop
               /\ n < Len(s) => n + 1 \in stop
<1>1. CASE stop = {}
  BY <1>1
<1>2. CASE stop # {}
  <2>0. stop \subseteq Nat
    OBVIOUS
  <2>1. Min(stop) \in stop /\ \A y \in stop : Min(stop) <= y
    BY <1>2, <2>0, MinProp, Zenon
  <2> DEFINE m == Min(stop)
  <2>2. m \in 1 .. Len(s)
    BY <2>1
  <2> HIDE DEF m
  <2>3. m \in stop /\ \A y \in stop : m <= y
    BY <2>1 DEF m
  <2>4. m - 1 \in 0 .. Len(s) /\ m - 1 + 1 = m
    BY <2>2
  <2>5. \A j \in 1 .. m - 1 : j \notin stop
    BY <2>2, <2>3
  <2> QED
    BY <1>2, <2>3, <2>4, <2>5 DEF m
<1> QED
  BY <1>1, <1>2

\* malloc returns an address that is not in use.
LEMMA FreshNew ==
    ASSUME NEW h, IsFiniteSet(DOMAIN h)
    PROVE  Fresh(h) \in Address \ DOMAIN h
<1> DEFINE n == Cardinality(DOMAIN h)
           T == (1 .. n + 1) \ DOMAIN h
<1>1. n \in Nat
  BY FS_CardinalityType
<1>2. T # {}
  <2>1. SUFFICES ASSUME T = {} PROVE FALSE
    OBVIOUS
  <2>2. 1 .. n + 1 \in SUBSET DOMAIN h
    BY <2>1
  <2>3. Cardinality(1 .. n + 1) <= n
    BY <2>2, FS_Subset
  <2>4. Cardinality(1 .. n + 1) = n + 1
    BY <1>1, FS_Interval
  <2> QED
    BY <1>1, <2>3, <2>4
<1>3. T \subseteq Nat
  BY <1>1
<1>4. Min(T) \in T
  BY <1>2, <1>3, MinProp
<1>5. Fresh(h) = Min(T)
  BY DEF Fresh
<1> QED
  BY <1>1, <1>4, <1>5 DEF Address

-----------------------------------------------------------------------------
(* Changes of the tree.  Each lemma is about any heap h with a tree in it and *)
(* any heap h2 that differs from it in a described way.                       *)

\* The node has the same place and entries; its next pointer does not matter.
SameNode(n, m) ==
    n.is_leaf = m.is_leaf /\ n.keys = m.keys /\ n.pointers = m.pointers /\ n.parent = m.parent

\* Nodes with the same entries have the same children.
LEMMA SameChildren ==
    ASSUME NEW h, NEW h2, NEW a, h2[a].is_leaf = h[a].is_leaf, h2[a].pointers = h[a].pointers
    PROVE  \A i, c : ChildAt(h2, a, i, c) <=> ChildAt(h, a, i, c)
  BY DEF ChildAt

\* Only the entries of the leaf a change.
LEMMA LeafChange ==
    ASSUME NEW h, NEW r, NEW ht, NEW rng, WF(h, r, ht, rng),
           NEW a \in DOMAIN h, h[a].is_leaf,
           NEW h2, Heap(h2), DOMAIN h2 = DOMAIN h,
           \A x \in DOMAIN h : x # a => SameNode(h2[x], h[x]),
           h2[a].is_leaf, h2[a].parent = h[a].parent,
           Sorted(h2[a].keys), \A i \in 1 .. Len(h2[a].keys) : h2[a].keys[i] \in rng[a]
    PROVE  WF(h2, r, ht, rng)
<1>1. \A x \in DOMAIN h : h2[x].is_leaf = h[x].is_leaf /\ h2[x].parent = h[x].parent
  BY Zenon DEF SameNode, Heap, NodeOK, NodeType
<1>2. \A x \in DOMAIN h : \A i, c : ChildAt(h2, x, i, c) <=> ChildAt(h, x, i, c)
  BY <1>1 DEF ChildAt, SameNode
<1>3. \A x \in DOMAIN h : \A i, c : ChildAt(h2, x, i, c) => h2[x].keys = h[x].keys
  BY <1>1 DEF ChildAt, SameNode
<1>4. Heights(h2, r, ht)
  BY <1>1 DEF WF, Heights
<1>5. Linkage(h2, r, ht)
  BY <1>1, <1>2 DEF WF, Linkage
<1>6. Ranges(h2, r, rng)
  BY <1>2, <1>3 DEF WF, Ranges
<1>7. Apart(h2, ht, rng)
  BY DEF WF, Apart
<1>8. KeysOK(h2, rng)
  BY <1>1 DEF WF, KeysOK, SameNode
<1> QED
  BY <1>4, <1>5, <1>6, <1>7, <1>8 DEF WF

\* In h2, there is a new root t above the root r of h.
IsRaised(h, h2, r, t) ==
    /\ t \in Address \ DOMAIN h
    /\ Heap(h2) /\ DOMAIN h2 = DOMAIN h \cup {t}
    /\ \A x \in DOMAIN h : x # r => SameNode(h2[x], h[x])
    /\ h2[r].is_leaf = h[r].is_leaf /\ h2[r].keys = h[r].keys /\ h2[r].pointers = h[r].pointers
    /\ h2[r].parent = t
    /\ ~h2[t].is_leaf /\ h2[t].keys = <<>> /\ h2[t].pointers = <<r>> /\ h2[t].parent = NULL
RaisedHeights(ht, h2, r, t) == [x \in DOMAIN h2 |-> IF x = t THEN ht[r] + 1 ELSE ht[x]]
RaisedRanges(rng, h2, t) == [x \in DOMAIN h2 |-> IF x = t THEN Names ELSE rng[x]]

\* A new root above a tree and the other half of its old root leaves a tree.
LEMMA RootAbove ==
    ASSUME NEW h, NEW r, NEW ht, NEW rng, WF(h, r, ht, rng),
           NEW h2, NEW t, IsRaised(h, h2, r, t),
           NEW ht2, ht2 = RaisedHeights(ht, h2, r, t),
           NEW rng2, rng2 = RaisedRanges(rng, h2, t)
    PROVE  WF(h2, t, ht2, rng2)
<1> SUFFICES
      ASSUME t \in Address \ DOMAIN h, Heap(h2), DOMAIN h2 = DOMAIN h \cup {t},
             \A x \in DOMAIN h : x # r => SameNode(h2[x], h[x]),
             h2[r].is_leaf = h[r].is_leaf, h2[r].keys = h[r].keys, h2[r].pointers = h[r].pointers,
             h2[r].parent = t,
             ~h2[t].is_leaf, h2[t].keys = <<>>, h2[t].pointers = <<r>>, h2[t].parent = NULL,
             ht2 = [x \in DOMAIN h2 |-> IF x = t THEN ht[r] + 1 ELSE ht[x]],
             rng2 = [x \in DOMAIN h2 |-> IF x = t THEN Names ELSE rng[x]]
      PROVE  WF(h2, t, ht2, rng2)
  BY DEF IsRaised, RaisedHeights, RaisedRanges
<1>0. /\ r \in DOMAIN h /\ ht \in [DOMAIN h -> Nat] /\ rng \in [DOMAIN h -> SUBSET Names]
      /\ t # r /\ t \notin DOMAIN h
  BY DEF WF, Linkage, Heights, Ranges
<1>1. \A x \in DOMAIN h : h2[x].is_leaf = h[x].is_leaf /\ h2[x].keys = h[x].keys
                            /\ h2[x].pointers = h[x].pointers
  BY DEF SameNode
<1>2. \A x \in DOMAIN h : \A i, c : ChildAt(h2, x, i, c) <=> ChildAt(h, x, i, c)
  BY <1>1 DEF ChildAt
<1>3. \A i, c : ChildAt(h2, t, i, c) <=> (i = 1 /\ c = r)
  BY DEF ChildAt
<1>4. \A x \in DOMAIN h : ht2[x] = ht[x] /\ rng2[x] = rng[x]
  BY <1>0
<1>5. ht2[t] = ht[r] + 1 /\ rng2[t] = Names
  OBVIOUS
<1>6. ht2 \in [DOMAIN h2 -> Nat] /\ rng2 \in [DOMAIN h2 -> SUBSET Names]
  BY <1>0
<1>7. Heights(h2, t, ht2)
  BY <1>0, <1>1, <1>4, <1>5, <1>6 DEF WF, Heights
<1>8. Linkage(h2, t, ht2)
  <2>1. ASSUME NEW x \in DOMAIN h2, NEW i, NEW c, ChildAt(h2, x, i, c)
        PROVE  c \in DOMAIN h2 /\ h2[c].parent = x /\ ht2[x] = ht2[c] + 1
    <3>1. CASE x = t
      BY <1>0, <1>3, <1>4, <1>5, <2>1, <3>1
    <3>2. CASE x \in DOMAIN h
      <4>1. c \in DOMAIN h /\ h[c].parent = x /\ ht[x] = ht[c] + 1
        BY <1>2, <2>1, <3>2 DEF WF, Linkage
      <4>2. c # r
        BY <4>1, <3>2, TreeAssumption DEF WF, Linkage, Heap, Address
      <4> QED
        BY <1>4, <3>2, <4>1, <4>2 DEF SameNode
    <3> QED
      BY <3>1, <3>2
  <2>2. ASSUME NEW x \in DOMAIN h2, NEW i, NEW j, NEW c, ChildAt(h2, x, i, c), ChildAt(h2, x, j, c)
        PROVE  i = j
    <3>1. CASE x = t
      BY <1>3, <2>2, <3>1
    <3>2. CASE x \in DOMAIN h
      BY <1>2, <2>2, <3>2 DEF WF, Linkage
    <3> QED
      BY <3>1, <3>2
  <2>3. ASSUME NEW x \in DOMAIN h2, x # t
        PROVE  h2[x].parent \in DOMAIN h2 /\ \E i : ChildAt(h2, h2[x].parent, i, x)
    <3>1. CASE x = r
      BY <1>3, <3>1
    <3>2. CASE x # r
      <4>1. h[x].parent \in DOMAIN h /\ \E i : ChildAt(h, h[x].parent, i, x)
        BY <2>3, <3>2 DEF WF, Linkage
      <4> QED
        BY <1>2, <2>3, <3>2, <4>1 DEF SameNode
    <3> QED
      BY <3>1, <3>2
  <2> QED
    BY <2>1, <2>2, <2>3 DEF Linkage
<1>9. Ranges(h2, t, rng2)
  <2>1. ASSUME NEW x \in DOMAIN h2, NEW i, NEW c, ChildAt(h2, x, i, c)
        PROVE  rng2[c] = Slot(rng2[x], h2[x].keys, i)
    <3>1. CASE x = t
      <4>1. i = 1 /\ c = r /\ rng[r] = Names
        BY <1>3, <2>1, <3>1 DEF WF, Ranges
      <4>2. Slot(Names, <<>>, 1) = Names
        BY DEF Slot
      <4> QED
        BY <1>0, <1>4, <1>5, <3>1, <4>1, <4>2
    <3>2. CASE x \in DOMAIN h
      <4>1. ChildAt(h, x, i, c) /\ c \in DOMAIN h
        BY <1>2, <2>1, <3>2 DEF WF, Linkage
      <4> QED
        BY <1>1, <1>4, <3>2, <4>1 DEF WF, Ranges
    <3> QED
      BY <3>1, <3>2
  <2> QED
    BY <1>5, <1>6, <2>1 DEF Ranges
<1>10. Apart(h2, ht2, rng2)
  <2>1. \A x \in DOMAIN h : ht2[x] # ht2[t]
    BY <1>0, <1>4, <1>5 DEF WF, Heights
  <2>2. \A x, y \in DOMAIN h : x # y /\ ht2[x] = ht2[y] => rng2[x] \cap rng2[y] = {}
    BY <1>4 DEF WF, Apart
  <2> QED
    BY <2>1, <2>2 DEF Apart
<1>11. KeysOK(h2, rng2)
  <2>1. \A x \in DOMAIN h : /\ Sorted(h2[x].keys)
                            /\ \A i \in 1 .. Len(h2[x].keys) :
                                 /\ h2[x].keys[i] \in rng2[x]
                                 /\ ~h2[x].is_leaf => \E y \in rng2[x] : y < h2[x].keys[i]
    BY <1>1, <1>4 DEF WF, KeysOK
  <2>2. Len(h2[t].keys) = 0 /\ Sorted(h2[t].keys)
    BY DEF Sorted
  <2> QED
    BY <2>1, <2>2 DEF KeysOK
<1> QED
  BY <1>7, <1>8, <1>9, <1>10, <1>11 DEF WF

\* In h2, the root r of h, which had no keys, has given way to its only child c.
IsLowered(h, h2, r, c) ==
    /\ ~h[r].is_leaf /\ Len(h[r].keys) = 0 /\ c = h[r].pointers[1]
    /\ Heap(h2) /\ DOMAIN h2 = DOMAIN h \ {r}
    /\ \A x \in DOMAIN h2 : /\ h2[x].is_leaf = h[x].is_leaf /\ h2[x].keys = h[x].keys
                            /\ h2[x].pointers = h[x].pointers
                            /\ h2[x].parent = IF x = c THEN NULL ELSE h[x].parent
LoweredTo(f, h2) == [x \in DOMAIN h2 |-> f[x]]

\* A root without keys can go: its only child is the root of a tree.
LEMMA RootBelow ==
    ASSUME NEW h, NEW r, NEW ht, NEW rng, WF(h, r, ht, rng),
           NEW h2, NEW c, IsLowered(h, h2, r, c),
           NEW ht2, ht2 = LoweredTo(ht, h2), NEW rng2, rng2 = LoweredTo(rng, h2)
    PROVE  WF(h2, c, ht2, rng2) /\ c \in DOMAIN h2
<1> SUFFICES
      ASSUME ~h[r].is_leaf, Len(h[r].keys) = 0, c = h[r].pointers[1],
             Heap(h2), DOMAIN h2 = DOMAIN h \ {r},
             \A x \in DOMAIN h2 : /\ h2[x].is_leaf = h[x].is_leaf /\ h2[x].keys = h[x].keys
                                  /\ h2[x].pointers = h[x].pointers
                                  /\ h2[x].parent = IF x = c THEN NULL ELSE h[x].parent,
             ht2 = [x \in DOMAIN h2 |-> ht[x]], rng2 = [x \in DOMAIN h2 |-> rng[x]]
      PROVE  WF(h2, c, ht2, rng2) /\ c \in DOMAIN h2
  BY DEF IsLowered, LoweredTo
<1>0. /\ r \in DOMAIN h /\ ht \in [DOMAIN h -> Nat] /\ rng \in [DOMAIN h -> SUBSET Names]
      /\ DOMAIN h \subseteq Address
  BY DEF WF, Linkage, Heights, Ranges, Heap
<1>1. \A i, x : ChildAt(h, r, i, x) <=> (i = 1 /\ x = c)
  <2>1. Len(h[r].pointers) = 1
    <3>1. NodeOK(h[r])
      BY <1>0 DEF WF, Heap
    <3>2. Len(h[r].pointers) = Len(h[r].keys) + 1
      BY <3>1 DEF NodeOK
    <3> QED
      BY <3>2
  <2>2. \A i : i \in 1 .. 1 <=> i = 1
    OBVIOUS
  <2> QED
    BY <2>1, <2>2 DEF ChildAt
<1>2. c \in DOMAIN h /\ h[c].parent = r /\ ht[r] = ht[c] + 1
  <2>1. ChildAt(h, r, 1, c)
    BY <1>1
  <2> QED
    BY <1>0, <2>1 DEF WF, Linkage
<1>3. c \in DOMAIN h2
  BY <1>0, <1>2
<1>4. \A x \in DOMAIN h2 : x \in DOMAIN h /\ x # r /\ ht2[x] = ht[x] /\ rng2[x] = rng[x]
  OBVIOUS
<1>5. \A x \in DOMAIN h2 : \A i, y : ChildAt(h2, x, i, y) <=> ChildAt(h, x, i, y)
  BY DEF ChildAt
<1>6. \A x \in DOMAIN h2 : x # c => h[x].parent # r /\ h[x].parent \in DOMAIN h2
  <2>1. SUFFICES ASSUME NEW x \in DOMAIN h2, x # c PROVE h[x].parent # r /\ h[x].parent \in DOMAIN h2
    OBVIOUS
  <2>2. h[x].parent \in DOMAIN h /\ \E i : ChildAt(h, h[x].parent, i, x)
    BY <1>4, <2>1 DEF WF, Linkage
  <2> QED
    BY <1>1, <2>1, <2>2
<1>7. Heights(h2, c, ht2)
  <2>1. ASSUME NEW x \in DOMAIN h2, x # c PROVE ht[x] < ht[c]
    <3>1. ht[x] < ht[r] /\ x \in DOMAIN h /\ ht[x] \in Nat /\ ht[c] \in Nat
      BY <1>0, <1>2, <1>4 DEF WF, Heights
    <3> DEFINE p == h[x].parent
    <3>2. p \in DOMAIN h /\ p # r /\ ht[p] = ht[x] + 1
      BY <1>4, <1>6, <2>1 DEF WF, Linkage
    <3>3. ht[p] < ht[r]
      BY <3>2 DEF WF, Heights
    <3> QED
      BY <1>2, <3>1, <3>2, <3>3
  <2>2. ht2 \in [DOMAIN h2 -> Nat]
    BY <1>0, <1>4
  <2>3. \A x \in DOMAIN h2 : h2[x].is_leaf <=> ht2[x] = 0
    BY <1>4 DEF WF, Heights
  <2> QED
    BY <1>3, <1>4, <2>1, <2>2, <2>3 DEF Heights
<1>8. Linkage(h2, c, ht2)
  <2>1. ASSUME NEW x \in DOMAIN h2, NEW i, NEW y, ChildAt(h2, x, i, y)
        PROVE  y \in DOMAIN h2 /\ h2[y].parent = x /\ ht2[x] = ht2[y] + 1
    <3>1. y \in DOMAIN h /\ h[y].parent = x /\ ht[x] = ht[y] + 1
      BY <1>4, <1>5, <2>1 DEF WF, Linkage
    <3>2. y # r
      BY <1>0, <1>4, <3>1, TreeAssumption DEF WF, Linkage, Address
    <3>3. y # c
      BY <1>2, <1>4, <3>1
    <3> QED
      BY <1>4, <3>1, <3>2, <3>3
  <2>2. ASSUME NEW x \in DOMAIN h2, NEW i, NEW j, NEW y, ChildAt(h2, x, i, y), ChildAt(h2, x, j, y)
        PROVE  i = j
    BY <1>4, <1>5, <2>2 DEF WF, Linkage
  <2>3. ASSUME NEW x \in DOMAIN h2, x # c
        PROVE  h2[x].parent \in DOMAIN h2 /\ \E i : ChildAt(h2, h2[x].parent, i, x)
    <3>1. \E i : ChildAt(h, h[x].parent, i, x)
      BY <1>4, <2>3 DEF WF, Linkage
    <3> QED
      BY <1>5, <1>6, <2>3, <3>1
  <2> QED
    BY <1>3, <2>1, <2>2, <2>3 DEF Linkage
<1>9. Ranges(h2, c, rng2)
  <2>1. rng[c] = Names
    <3>1. rng[c] = Slot(Names, h[r].keys, 1)
      <4>1. ChildAt(h, r, 1, c)
        BY <1>1
      <4> QED
        BY <1>0, <4>1 DEF WF, Ranges
    <3>2. \A x \in Names : x \in Slot(Names, h[r].keys, 1)
      BY DEF Slot
    <3>3. Slot(Names, h[r].keys, 1) \subseteq Names
      BY DEF Slot
    <3> QED
      BY <3>1, <3>2, <3>3
  <2>2. ASSUME NEW x \in DOMAIN h2, NEW i, NEW y, ChildAt(h2, x, i, y)
        PROVE  rng2[y] = Slot(rng2[x], h2[x].keys, i)
    <3>1. y \in DOMAIN h2
      BY <1>8, <2>2 DEF Linkage
    <3> QED
      BY <1>4, <1>5, <2>2, <3>1 DEF WF, Ranges
  <2>3. rng2 \in [DOMAIN h2 -> SUBSET Names]
    BY <1>0, <1>4
  <2> QED
    BY <1>3, <1>4, <2>1, <2>2, <2>3 DEF Ranges
<1>10. Apart(h2, ht2, rng2)
  BY <1>4 DEF WF, Apart
<1>11. KeysOK(h2, rng2)
  BY <1>4 DEF WF, KeysOK
<1> QED
  BY <1>3, <1>7, <1>8, <1>9, <1>10, <1>11 DEF WF

-----------------------------------------------------------------------------
(* A node is split.                                                          *)

\* In h2, the node a of h has kept its first s keys, the others are in the new
\* node b, and the parent p, where a is child j, has b after it.  The key
\* between the two halves is entered in p and, in a node with children, leaves a.
Stays(h, a) == IF h[a].is_leaf THEN 0 ELSE 1
SplitNode(h, h2, a, b, s) ==
    /\ h2[a].is_leaf = h[a].is_leaf /\ h2[b].is_leaf = h[a].is_leaf
    /\ Len(h2[a].keys) = s
    /\ \A i \in 1 .. s : h2[a].keys[i] = h[a].keys[i]
    /\ Len(h2[b].keys) = Len(h[a].keys) - s - Stays(h, a)
    /\ \A i \in 1 .. Len(h[a].keys) - s - Stays(h, a) :
         h2[b].keys[i] = h[a].keys[i + s + Stays(h, a)]
    /\ Len(h2[a].pointers) = s + Stays(h, a)
    /\ \A i \in 1 .. s + Stays(h, a) : h2[a].pointers[i] = h[a].pointers[i]
    /\ Len(h2[b].pointers) = Len(h[a].pointers) - s - Stays(h, a)
    /\ \A i \in 1 .. Len(h[a].pointers) - s - Stays(h, a) :
         h2[b].pointers[i] = h[a].pointers[i + s + Stays(h, a)]
SplitParent(h, h2, p, j, b, sep) ==
    /\ ~h2[p].is_leaf
    /\ Len(h2[p].keys) = Len(h[p].keys) + 1
    /\ \A i \in 1 .. Len(h[p].keys) + 1 :
         h2[p].keys[i] = IF i < j THEN h[p].keys[i] ELSE IF i = j THEN sep ELSE h[p].keys[i - 1]
    /\ Len(h2[p].pointers) = Len(h[p].pointers) + 1
    /\ \A i \in 1 .. Len(h[p].pointers) + 1 :
         h2[p].pointers[i] = IF i <= j THEN h[p].pointers[i]
                             ELSE IF i = j + 1 THEN b ELSE h[p].pointers[i - 1]
SplitRest(h, h2, a, b, p, s) ==
    /\ DOMAIN h2 = DOMAIN h \cup {b}
    /\ \A x \in DOMAIN h : x # a /\ x # p =>
         h2[x].is_leaf = h[x].is_leaf /\ h2[x].keys = h[x].keys /\ h2[x].pointers = h[x].pointers
    /\ \A x \in DOMAIN h :
         h2[x].parent = IF \E i : i > s + 1 /\ ChildAt(h, a, i, x) THEN b ELSE h[x].parent
    /\ h2[b].parent = p
IsSplit(h, h2, a, b, p, j, s) ==
    /\ Heap(h2) /\ b \in Address \ DOMAIN h
    /\ p \in DOMAIN h /\ a \in DOMAIN h /\ ChildAt(h, p, j, a)
    /\ s \in Nat /\ s < Len(h[a].keys) /\ (h[a].is_leaf => s >= 1)
    /\ SplitNode(h, h2, a, b, s) /\ SplitParent(h, h2, p, j, b, h[a].keys[s + 1])
    /\ SplitRest(h, h2, a, b, p, s)
SplitHeights(ht, h2, a, b) == [x \in DOMAIN h2 |-> IF x = b THEN ht[a] ELSE ht[x]]
SplitRanges(rng, h2, a, b, sep) ==
    [x \in DOMAIN h2 |-> IF x = a THEN {n \in rng[a] : n < sep}
                         ELSE IF x = b THEN {n \in rng[a] : sep <= n} ELSE rng[x]]

\* Which children the nodes have then.
LEMMA SplitChildren ==
    ASSUME NEW h, NEW r, NEW ht, NEW rng, WF(h, r, ht, rng),
           NEW h2, NEW a, NEW b, NEW p, NEW j, NEW s, IsSplit(h, h2, a, b, p, j, s)
    PROVE  /\ a # p /\ a # r /\ b # a /\ b # p /\ b # r
           /\ a \in DOMAIN h2 /\ p \in DOMAIN h2 /\ b \in DOMAIN h2 /\ r \in DOMAIN h
           /\ \A x \in DOMAIN h : x # a /\ x # p =>
                \A i, c : ChildAt(h2, x, i, c) <=> ChildAt(h, x, i, c)
           /\ \A i, c : ChildAt(h2, a, i, c) <=> (ChildAt(h, a, i, c) /\ i <= s + 1)
           /\ \A i, c : ChildAt(h2, b, i, c) <=> (i \in Nat /\ i >= 1 /\ ChildAt(h, a, i + s + 1, c))
           /\ \A i, c : ChildAt(h2, p, i, c) <=>
                (\/ i <= j /\ ChildAt(h, p, i, c)
                 \/ i = j + 1 /\ c = b
                 \/ i \in Nat /\ i > j + 1 /\ ChildAt(h, p, i - 1, c))
<1>0. /\ p \in DOMAIN h /\ a \in DOMAIN h /\ b \in Address \ DOMAIN h /\ ChildAt(h, p, j, a)
      /\ s \in Nat /\ s < Len(h[a].keys) /\ DOMAIN h2 = DOMAIN h \cup {b}
  BY DEF IsSplit, SplitRest
<1>1. r \in DOMAIN h /\ h[r].parent = NULL /\ DOMAIN h \subseteq Address
  BY DEF WF, Linkage, Heap
<1>2. h[a].parent = p /\ ht[p] = ht[a] + 1 /\ ht[a] \in Nat
  BY <1>0 DEF WF, Linkage, Heights
<1>3. a # p /\ a # r /\ b # a /\ b # p /\ b # r
  BY <1>0, <1>1, <1>2, TreeAssumption DEF Address
<1>4. ~h[p].is_leaf /\ ~h2[p].is_leaf /\ j \in 1 .. Len(h[p].pointers) /\ Len(h[p].pointers) \in Nat
  BY <1>0 DEF ChildAt, IsSplit, SplitParent, WF, Heap, NodeOK
<1>5. /\ Len(h[a].keys) \in Nat /\ Len(h[a].pointers) \in Nat
      /\ ~h[a].is_leaf => Len(h[a].pointers) = Len(h[a].keys) + 1
  BY <1>0 DEF WF, Heap, NodeOK, NodeType
<1>6. \A x \in DOMAIN h : x # a /\ x # p =>
         \A i, c : ChildAt(h2, x, i, c) <=> ChildAt(h, x, i, c)
  BY DEF IsSplit, SplitRest, ChildAt
<1>7. ASSUME NEW i, NEW c PROVE ChildAt(h2, a, i, c) <=> (ChildAt(h, a, i, c) /\ i <= s + 1)
  <2>1. CASE h[a].is_leaf
    BY <2>1 DEF ChildAt, IsSplit, SplitNode
  <2>2. CASE ~h[a].is_leaf
    <3>1. /\ ~h2[a].is_leaf /\ Len(h2[a].pointers) = s + 1
          /\ \A k \in 1 .. s + 1 : h2[a].pointers[k] = h[a].pointers[k]
      BY <2>2 DEF IsSplit, SplitNode, Stays
    <3>2. \A k : k \in 1 .. s + 1 <=> (k \in 1 .. Len(h[a].pointers) /\ k <= s + 1)
      BY <1>0, <1>5, <2>2
    <3> QED
      BY <2>2, <3>1, <3>2 DEF ChildAt
  <2> QED
    BY <2>1, <2>2
<1>8. ASSUME NEW i, NEW c
      PROVE  ChildAt(h2, b, i, c) <=> (i \in Nat /\ i >= 1 /\ ChildAt(h, a, i + s + 1, c))
  <2>1. CASE h[a].is_leaf
    BY <2>1 DEF ChildAt, IsSplit, SplitNode
  <2>2. CASE ~h[a].is_leaf
    <3> DEFINE m == Len(h[a].pointers) - s - 1
    <3>1. /\ ~h2[b].is_leaf /\ Len(h2[b].pointers) = m
          /\ \A k \in 1 .. m : h2[b].pointers[k] = h[a].pointers[k + s + 1]
      BY <2>2 DEF IsSplit, SplitNode, Stays
    <3>2. \A k : k \in 1 .. m <=> (k \in Nat /\ k >= 1 /\ k + s + 1 \in 1 .. Len(h[a].pointers))
      BY <1>0, <1>5, <2>2
    <3> HIDE DEF m
    <3> QED
      BY <2>2, <3>1, <3>2 DEF ChildAt
  <2> QED
    BY <2>1, <2>2
<1>9. ASSUME NEW i, NEW c
      PROVE  ChildAt(h2, p, i, c) <=>
                (\/ i <= j /\ ChildAt(h, p, i, c)
                 \/ i = j + 1 /\ c = b
                 \/ i \in Nat /\ i > j + 1 /\ ChildAt(h, p, i - 1, c))
  <2> DEFINE n == Len(h[p].pointers)
  <2>1. /\ Len(h2[p].pointers) = n + 1
        /\ \A k \in 1 .. n + 1 :
             h2[p].pointers[k] = IF k <= j THEN h[p].pointers[k]
                                 ELSE IF k = j + 1 THEN b ELSE h[p].pointers[k - 1]
    BY DEF IsSplit, SplitParent
  <2>2. n \in Nat /\ j \in 1 .. n
    BY <1>4
  <2>3. ChildAt(h2, p, i, c) <=> (i \in 1 .. n + 1 /\ h2[p].pointers[i] = c)
    BY <1>4, <2>1 DEF ChildAt
  <2>4. \A k : ChildAt(h, p, k, c) <=> (k \in 1 .. n /\ h[p].pointers[k] = c)
    BY <1>4 DEF ChildAt
  <2>5. /\ ChildAt(h, p, i, c) <=> (i \in 1 .. n /\ h[p].pointers[i] = c)
        /\ ChildAt(h, p, i - 1, c) <=> (i - 1 \in 1 .. n /\ h[p].pointers[i - 1] = c)
    BY <2>4, Zenon
  <2> HIDE DEF n
  <2>6. CASE i \notin 1 .. n + 1
    BY <2>2, <2>3, <2>5, <2>6
  <2>7. CASE i \in 1 .. n + 1 /\ i <= j
    BY <2>1, <2>2, <2>3, <2>5, <2>7
  <2>8. CASE i = j + 1
    BY <2>1, <2>2, <2>3, <2>5, <2>8
  <2>9. CASE i \in 1 .. n + 1 /\ i > j + 1
    BY <2>1, <2>2, <2>3, <2>5, <2>9
  <2> QED
    BY <2>2, <2>6, <2>7, <2>8, <2>9
<1> QED
  BY <1>0, <1>1, <1>3, <1>6, <1>7, <1>8, <1>9

\* The halves belong to one parent and are one level below it.
LEMMA SplitLinkage ==
    ASSUME NEW h, NEW r, NEW ht, NEW rng, WF(h, r, ht, rng),
           NEW h2, NEW a, NEW b, NEW p, NEW j, NEW s, IsSplit(h, h2, a, b, p, j, s),
           NEW ht2, ht2 = SplitHeights(ht, h2, a, b)
    PROVE  Heights(h2, r, ht2) /\ Linkage(h2, r, ht2)
<1>0. /\ a # p /\ a # r /\ b # a /\ b # p /\ b # r
      /\ a \in DOMAIN h2 /\ p \in DOMAIN h2 /\ b \in DOMAIN h2 /\ r \in DOMAIN h
      /\ \A x \in DOMAIN h : x # a /\ x # p =>
           \A i, c : ChildAt(h2, x, i, c) <=> ChildAt(h, x, i, c)
      /\ \A i, c : ChildAt(h2, a, i, c) <=> (ChildAt(h, a, i, c) /\ i <= s + 1)
      /\ \A i, c : ChildAt(h2, b, i, c) <=> (i \in Nat /\ i >= 1 /\ ChildAt(h, a, i + s + 1, c))
      /\ \A i, c : ChildAt(h2, p, i, c) <=>
           (\/ i <= j /\ ChildAt(h, p, i, c)
            \/ i = j + 1 /\ c = b
            \/ i \in Nat /\ i > j + 1 /\ ChildAt(h, p, i - 1, c))
  BY SplitChildren
<1>1. /\ DOMAIN h2 = DOMAIN h \cup {b} /\ b \notin DOMAIN h /\ a \in DOMAIN h /\ p \in DOMAIN h
      /\ \A x \in DOMAIN h :
           h2[x].parent = IF \E i : i > s + 1 /\ ChildAt(h, a, i, x) THEN b ELSE h[x].parent
      /\ h2[b].parent = p /\ ChildAt(h, p, j, a) /\ s \in Nat
      /\ \A x \in DOMAIN h : x # a /\ x # p => h2[x].is_leaf = h[x].is_leaf
      /\ h2[a].is_leaf = h[a].is_leaf /\ h2[b].is_leaf = h[a].is_leaf
      /\ ~h2[p].is_leaf
  BY DEF IsSplit, SplitRest, SplitNode, SplitParent
<1>2. /\ \A x \in DOMAIN h : \A i, c : ChildAt(h, x, i, c) =>
           c \in DOMAIN h /\ h[c].parent = x /\ ht[x] = ht[c] + 1
      /\ \A x \in DOMAIN h : \A i, k, c : ChildAt(h, x, i, c) /\ ChildAt(h, x, k, c) => i = k
      /\ \A x \in DOMAIN h : x # r =>
           h[x].parent \in DOMAIN h /\ \E i : ChildAt(h, h[x].parent, i, x)
      /\ h[r].parent = NULL
  BY DEF WF, Linkage
<1>3. \A x, i, c : ChildAt(h, x, i, c) => i \in Nat /\ i >= 1
  BY DEF ChildAt
<1>4. j \in Nat /\ ht \in [DOMAIN h -> Nat]
  BY <1>1, <1>3 DEF WF, Heights
<1>5. ht2 \in [DOMAIN h2 -> Nat] /\ ht2[b] = ht[a] /\ \A x \in DOMAIN h : ht2[x] = ht[x]
  BY <1>0, <1>1, <1>4 DEF SplitHeights
<1>6. Heights(h2, r, ht2)
  <2>1. \A x \in DOMAIN h2 : h2[x].is_leaf <=> ht2[x] = 0
    <3>1. \A x \in DOMAIN h : h[x].is_leaf <=> ht[x] = 0
      BY DEF WF, Heights
    <3>2. ~h[p].is_leaf
      BY <1>1 DEF ChildAt
    <3> QED
      BY <1>0, <1>1, <1>5, <3>1, <3>2
  <2>2. \A x \in DOMAIN h : x # r => ht[x] < ht[r]
    BY DEF WF, Heights
  <2> QED
    BY <1>0, <1>1, <1>5, <2>1, <2>2 DEF Heights
\* A child of another node than a keeps its parent.
<1>7. \A x \in DOMAIN h : h[x].parent # a => h2[x].parent = h[x].parent
  BY <1>1, <1>2
<1>8. ASSUME NEW x \in DOMAIN h2, NEW i, NEW c, ChildAt(h2, x, i, c)
      PROVE  c \in DOMAIN h2 /\ h2[c].parent = x /\ ht2[x] = ht2[c] + 1
  <2>1. CASE x \in DOMAIN h /\ x # a /\ x # p
    <3>1. c \in DOMAIN h /\ h[c].parent = x /\ ht[x] = ht[c] + 1
      BY <1>0, <1>2, <1>8, <2>1
    <3> QED
      BY <1>1, <1>5, <1>7, <2>1, <3>1
  <2>2. CASE x = a
    <3>1. ChildAt(h, a, i, c) /\ i <= s + 1
      BY <1>0, <1>8, <2>2
    <3>2. c \in DOMAIN h /\ h[c].parent = a /\ ht[a] = ht[c] + 1 /\ i \in Nat
      BY <1>1, <1>2, <1>3, <3>1
    <3>3. ~(\E k : k > s + 1 /\ ChildAt(h, a, k, c))
      BY <1>1, <1>2, <3>1, <3>2
    <3> QED
      BY <1>1, <1>5, <2>2, <3>2, <3>3
  <2>3. CASE x = b
    <3>1. i \in Nat /\ i >= 1 /\ ChildAt(h, a, i + s + 1, c)
      BY <1>0, <1>8, <2>3
    <3>2. c \in DOMAIN h /\ h[c].parent = a /\ ht[a] = ht[c] + 1
      BY <1>1, <1>2, <3>1
    <3>3. \E k : k > s + 1 /\ ChildAt(h, a, k, c)
      <4>1. i + s + 1 > s + 1
        BY <1>1, <3>1
      <4> QED
        BY <3>1, <4>1
    <3> QED
      BY <1>1, <1>5, <2>3, <3>2, <3>3
  <2>4. CASE x = p
    <3>1. CASE c = b
      <4>1. ht[p] = ht[a] + 1
        BY <1>1, <1>2
      <4> QED
        BY <1>0, <1>1, <1>5, <2>4, <3>1, <4>1
    <3>2. CASE c # b
      <4>1. \E k : ChildAt(h, p, k, c)
        BY <1>0, <1>8, <2>4, <3>2
      <4>2. c \in DOMAIN h /\ h[c].parent = p /\ ht[p] = ht[c] + 1
        BY <1>1, <1>2, <4>1
      <4> QED
        BY <1>0, <1>1, <1>5, <1>7, <2>4, <4>2
    <3> QED
      BY <3>1, <3>2
  <2> QED
    BY <1>1, <2>1, <2>2, <2>3, <2>4
<1>9. ASSUME NEW x \in DOMAIN h2, NEW i, NEW k, NEW c, ChildAt(h2, x, i, c), ChildAt(h2, x, k, c)
      PROVE  i = k
  <2>0. i \in Nat /\ k \in Nat
    BY <1>9 DEF ChildAt
  <2>1. CASE x \in DOMAIN h /\ x # a /\ x # p
    BY <1>0, <1>2, <1>9, <2>1
  <2>2. CASE x = a
    BY <1>0, <1>1, <1>2, <1>9, <2>2
  <2>3. CASE x = b
    <3>1. ChildAt(h, a, i + s + 1, c) /\ ChildAt(h, a, k + s + 1, c)
      BY <1>0, <1>9, <2>3
    <3>2. i + s + 1 = k + s + 1
      BY <1>1, <1>2, <3>1
    <3> QED
      BY <1>1, <2>0, <3>2
  <2>4. CASE x = p
    <3>1. CASE c = b
      <4>1. \A m : ~ChildAt(h, p, m, b)
        BY <1>1, <1>2
      <4> QED
        BY <1>0, <1>9, <2>4, <3>1, <4>1
    <3>2. CASE c # b
      <4>1. \/ i <= j /\ ChildAt(h, p, i, c)
            \/ i > j + 1 /\ ChildAt(h, p, i - 1, c)
        BY <1>0, <1>9, <2>4, <3>2
      <4>2. \/ k <= j /\ ChildAt(h, p, k, c)
            \/ k > j + 1 /\ ChildAt(h, p, k - 1, c)
        BY <1>0, <1>9, <2>4, <3>2
      <4>3. \A m, n : ChildAt(h, p, m, c) /\ ChildAt(h, p, n, c) => m = n
        BY <1>1, <1>2
      <4> QED
        BY <1>4, <2>0, <4>1, <4>2, <4>3
    <3> QED
      BY <3>1, <3>2
  <2> QED
    BY <1>1, <2>1, <2>2, <2>3, <2>4
<1>10. ASSUME NEW x \in DOMAIN h2, x # r
       PROVE  h2[x].parent \in DOMAIN h2 /\ \E i : ChildAt(h2, h2[x].parent, i, x)
  <2>1. CASE x = b
    <3>1. ChildAt(h2, p, j + 1, b)
      BY <1>0
    <3> QED
      BY <1>0, <1>1, <2>1, <3>1
  <2>2. CASE x # b
    <3>1. x \in DOMAIN h /\ h[x].parent \in DOMAIN h
      BY <1>1, <1>2, <1>10, <2>2
    <3>2. PICK i : ChildAt(h, h[x].parent, i, x)
      BY <1>2, <1>10, <3>1
    <3>3. i \in Nat /\ i >= 1
      BY <1>3, <3>2
    <3>4. CASE h[x].parent = a /\ i <= s + 1
      <4>1. ~(\E k : k > s + 1 /\ ChildAt(h, a, k, x))
        BY <1>1, <1>2, <3>2, <3>3, <3>4
      <4>2. ChildAt(h2, a, i, x)
        BY <1>0, <3>2, <3>4
      <4> QED
        BY <1>0, <1>1, <3>1, <3>4, <4>1, <4>2
    <3>5. CASE h[x].parent = a /\ i > s + 1
      <4>1. h2[x].parent = b
        BY <1>1, <3>1, <3>2, <3>5
      <4>2. i - s - 1 \in Nat /\ i - s - 1 >= 1 /\ (i - s - 1) + s + 1 = i
        BY <1>1, <3>3, <3>5
      <4>3. ChildAt(h2, b, i - s - 1, x)
        BY <1>0, <3>2, <3>5, <4>2
      <4> QED
        BY <1>0, <4>1, <4>3
    <3>6. CASE h[x].parent = p
      <4>1. h2[x].parent = p
        BY <1>0, <1>7, <3>1, <3>6
      <4>2. CASE i <= j
        <5>1. ChildAt(h2, p, i, x)
          BY <1>0, <3>2, <3>6, <4>2
        <5> QED
          BY <1>0, <4>1, <5>1
      <4>3. CASE i > j
        <5>1. i + 1 \in Nat /\ i + 1 > j + 1 /\ (i + 1) - 1 = i
          BY <1>4, <3>3, <4>3
        <5>2. ChildAt(h2, p, i + 1, x)
          BY <1>0, <3>2, <3>6, <5>1
        <5> QED
          BY <1>0, <4>1, <5>2
      <4> QED
        BY <1>4, <3>3, <4>2, <4>3
    <3>7. CASE h[x].parent # a /\ h[x].parent # p
      <4>1. h2[x].parent = h[x].parent
        BY <1>7, <3>1, <3>7
      <4> QED
        BY <1>0, <1>1, <3>1, <3>2, <3>7, <4>1
    <3> QED
      BY <1>1, <3>3, <3>4, <3>5, <3>6, <3>7
  <2> QED
    BY <2>1, <2>2
<1>11. r \in DOMAIN h2 /\ h2[r].parent = NULL
  BY <1>0, <1>1, <1>2, <1>7, TreeAssumption DEF WF, Heap, Address
<1>12. Linkage(h2, r, ht2)
  BY <1>8, <1>9, <1>10, <1>11 DEF Linkage
<1> QED
  BY <1>6, <1>12

\* The keys of a node are names, and so integers.
LEMMA KeysInt ==
    ASSUME NEW h, Heap(h), NEW a \in DOMAIN h
    PROVE  /\ h[a].keys \in Seq(Names) /\ Len(h[a].keys) \in Nat
           /\ h[a].pointers \in Seq(Files \cup Address) /\ Len(h[a].pointers) \in Nat
           /\ \A i \in 1 .. Len(h[a].keys) : h[a].keys[i] \in Names /\ h[a].keys[i] \in Int
           /\ h[a].is_leaf \in BOOLEAN
           /\ h[a].is_leaf => Len(h[a].pointers) = Len(h[a].keys)
           /\ ~h[a].is_leaf => Len(h[a].pointers) = Len(h[a].keys) + 1
<1>1. h[a] \in NodeType /\ NodeOK(h[a])
  BY DEF Heap
<1>2. h[a].keys \in Seq(Names) /\ h[a].pointers \in Seq(Files \cup Address) /\ h[a].is_leaf \in BOOLEAN
  BY <1>1 DEF NodeType
<1>3. \A i \in 1 .. Len(h[a].keys) : h[a].keys[i] \in Names
  BY <1>2
<1>4. Names \subseteq Int
  BY TreeAssumption
<1>5. Len(h[a].keys) \in Nat /\ Len(h[a].pointers) \in Nat
  BY <1>2
<1>6. \A i \in 1 .. Len(h[a].keys) : h[a].keys[i] \in Int
  BY <1>3, <1>4
<1> QED
  BY <1>1, <1>2, <1>3, <1>5, <1>6 DEF NodeOK

\* The names below child i, which is not the first one.
LEMMA SlotAfter ==
    ASSUME NEW R, NEW ks, NEW i, i > 1, NEW x \in R
    PROVE  x \in Slot(R, ks, i) <=> (ks[i - 1] <= x /\ (i <= Len(ks) => x < ks[i]))
  BY DEF Slot

\* The names below a are divided at the key that goes up, those below its
\* children stay.
LEMMA SplitRangesOK ==
    ASSUME NEW h, NEW r, NEW ht, NEW rng, WF(h, r, ht, rng),
           NEW h2, NEW a, NEW b, NEW p, NEW j, NEW s, IsSplit(h, h2, a, b, p, j, s),
           NEW ht2, ht2 = SplitHeights(ht, h2, a, b),
           NEW rng2, rng2 = SplitRanges(rng, h2, a, b, h[a].keys[s + 1])
    PROVE  Ranges(h2, r, rng2) /\ Apart(h2, ht2, rng2) /\ KeysOK(h2, rng2)
<1> DEFINE sep == h[a].keys[s + 1]
<1>0. /\ a # p /\ a # r /\ b # a /\ b # p /\ b # r
      /\ a \in DOMAIN h2 /\ p \in DOMAIN h2 /\ b \in DOMAIN h2 /\ r \in DOMAIN h
      /\ \A x \in DOMAIN h : x # a /\ x # p =>
           \A i, c : ChildAt(h2, x, i, c) <=> ChildAt(h, x, i, c)
      /\ \A i, c : ChildAt(h2, a, i, c) <=> (ChildAt(h, a, i, c) /\ i <= s + 1)
      /\ \A i, c : ChildAt(h2, b, i, c) <=> (i \in Nat /\ i >= 1 /\ ChildAt(h, a, i + s + 1, c))
      /\ \A i, c : ChildAt(h2, p, i, c) <=>
           (\/ i <= j /\ ChildAt(h, p, i, c)
            \/ i = j + 1 /\ c = b
            \/ i \in Nat /\ i > j + 1 /\ ChildAt(h, p, i - 1, c))
  BY SplitChildren
<1>1. /\ DOMAIN h2 = DOMAIN h \cup {b} /\ b \notin DOMAIN h /\ a \in DOMAIN h /\ p \in DOMAIN h
      /\ ChildAt(h, p, j, a) /\ s \in Nat /\ s < Len(h[a].keys) /\ (h[a].is_leaf => s >= 1)
      /\ \A x \in DOMAIN h : x # a /\ x # p => h2[x].is_leaf = h[x].is_leaf /\ h2[x].keys = h[x].keys
  BY DEF IsSplit, SplitRest
<1>2. /\ \A x \in DOMAIN h : \A i, c : ChildAt(h, x, i, c) =>
           c \in DOMAIN h /\ h[c].parent = x /\ rng[c] = Slot(rng[x], h[x].keys, i)
      /\ \A x \in DOMAIN h : \A i, k, c : ChildAt(h, x, i, c) /\ ChildAt(h, x, k, c) => i = k
      /\ rng \in [DOMAIN h -> SUBSET Names] /\ rng[r] = Names
  BY DEF WF, Linkage, Ranges
<1>3. \A x, i, c : ChildAt(h, x, i, c) =>
        i \in Nat /\ i >= 1 /\ i <= Len(h[x].pointers) /\ ~h[x].is_leaf
  BY DEF ChildAt, WF, Heap
<1>4. j \in Nat /\ j >= 1 /\ Names \subseteq Int
  BY <1>1, <1>3, TreeAssumption
<1>5. \A x \in DOMAIN h : /\ Len(h[x].keys) \in Nat
                          /\ \A i \in 1 .. Len(h[x].keys) : h[x].keys[i] \in Int
                          /\ Sorted(h[x].keys)
                          /\ ~h[x].is_leaf => Len(h[x].pointers) = Len(h[x].keys) + 1
  BY KeysInt DEF WF, KeysOK
<1>6. sep \in rng[a] /\ sep \in Int /\ sep \in Names
  <2>1. s + 1 \in 1 .. Len(h[a].keys)
    BY <1>1, <1>5
  <2> QED
    BY <1>1, <1>2, <1>4, <2>1 DEF WF, KeysOK
<1>7. /\ \A x \in DOMAIN h : x # a => rng2[x] = rng[x]
      /\ rng2[a] = {n \in rng[a] : n < sep}
      /\ rng2[b] = {n \in rng[a] : sep <= n}
      /\ rng2 \in [DOMAIN h2 -> SUBSET Names]
  BY <1>0, <1>1, <1>2 DEF SplitRanges
<1>8. /\ Len(h2[a].keys) = s
      /\ \A i \in 1 .. s : h2[a].keys[i] = h[a].keys[i]
      /\ Len(h2[b].keys) = Len(h[a].keys) - s - Stays(h, a)
      /\ \A i \in 1 .. Len(h[a].keys) - s - Stays(h, a) :
           h2[b].keys[i] = h[a].keys[i + s + Stays(h, a)]
      /\ h2[a].is_leaf = h[a].is_leaf /\ h2[b].is_leaf = h[a].is_leaf
  BY DEF IsSplit, SplitNode
<1>9. /\ Len(h2[p].keys) = Len(h[p].keys) + 1
      /\ \A i \in 1 .. Len(h[p].keys) + 1 :
           h2[p].keys[i] = IF i < j THEN h[p].keys[i] ELSE IF i = j THEN sep ELSE h[p].keys[i - 1]
  BY DEF IsSplit, SplitParent
<1>10. rng[a] = Slot(rng[p], h[p].keys, j) /\ ~h[p].is_leaf /\ j <= Len(h[p].keys) + 1
  BY <1>1, <1>2, <1>3, <1>5
<1> HIDE DEF sep
<1>11. ~h[a].is_leaf => Stays(h, a) = 1
  BY DEF Stays
<1>11a. sep = h[a].keys[s + 1]
  BY DEF sep
<1>12. ASSUME NEW i, NEW c, ChildAt(h2, a, i, c)
       PROVE  rng2[c] = Slot(rng2[a], h2[a].keys, i)
  <2>1. ChildAt(h, a, i, c) /\ i <= s + 1 /\ i \in Nat /\ i >= 1 /\ ~h[a].is_leaf
    BY <1>0, <1>3, <1>12
  <2>2. rng[c] = Slot(rng[a], h[a].keys, i) /\ c \in DOMAIN h /\ h[c].parent = a
    BY <1>1, <1>2, <2>1
  <2>3. c # a
    BY <1>1, <1>2, <2>1, <2>2 DEF WF, Linkage, Heights
  <2>4. ASSUME NEW x \in rng[a]
        PROVE  x \in Slot(rng2[a], h2[a].keys, i) <=> x \in Slot(rng[a], h[a].keys, i)
    <3>1. x \in Int
      BY <1>1, <1>2, <1>4
    <3>2. CASE i = s + 1
      BY <1>1, <1>5, <1>6, <1>7, <1>8, <1>11a, <2>1, <3>1, <3>2 DEF Slot, Sorted
    <3>3. CASE i < s + 1
      <4>1. h[a].keys[i] < sep /\ h[a].keys[i] \in Int
        BY <1>1, <1>5, <1>11a, <2>1, <3>3 DEF Sorted
      <4>2. i \in 1 .. s /\ i <= s /\ i <= Len(h[a].keys) /\ Len(h[a].keys) \in Nat
        BY <1>1, <1>5, <2>1, <3>3
      <4>3. h2[a].keys[i] = h[a].keys[i] /\ Len(h2[a].keys) = s
        BY <1>8, <4>2
      <4>4. i > 1 => h2[a].keys[i - 1] = h[a].keys[i - 1]
        <5>1. i > 1 => i - 1 \in 1 .. s
          BY <1>1, <4>2
        <5> QED
          BY <1>8, <5>1
      <4>5. x < h[a].keys[i] => x < sep
        BY <1>6, <3>1, <4>1
      <4>6. x \in Slot(rng[a], h[a].keys, i) <=> ((i > 1 => h[a].keys[i - 1] <= x) /\ x < h[a].keys[i])
        BY <4>2 DEF Slot
      <4>7. x \in Slot(rng2[a], h2[a].keys, i) <=>
              x < sep /\ (i > 1 => h[a].keys[i - 1] <= x) /\ x < h[a].keys[i]
        BY <1>7, <4>2, <4>3, <4>4 DEF Slot
      <4> QED
        BY <4>5, <4>6, <4>7
    <3> QED
      BY <1>1, <2>1, <3>2, <3>3
  <2>5. Slot(rng2[a], h2[a].keys, i) \subseteq rng[a] /\ Slot(rng[a], h[a].keys, i) \subseteq rng[a]
    BY <1>7 DEF Slot
  <2>6. Slot(rng2[a], h2[a].keys, i) = Slot(rng[a], h[a].keys, i)
    BY <2>4, <2>5
  <2> QED
    BY <1>7, <2>2, <2>3, <2>6
<1>13. ASSUME NEW i, NEW c, ChildAt(h2, b, i, c)
       PROVE  rng2[c] = Slot(rng2[b], h2[b].keys, i)
  <2>1. ChildAt(h, a, i + s + 1, c) /\ i \in Nat /\ i >= 1 /\ ~h[a].is_leaf
    BY <1>0, <1>3, <1>13
  <2>2. rng[c] = Slot(rng[a], h[a].keys, i + s + 1) /\ c \in DOMAIN h
    BY <1>1, <1>2, <2>1
  <2>3. c # a
    BY <1>1, <1>2, <2>1, <2>2 DEF WF, Linkage, Heights
  <2>4. ASSUME NEW x \in rng[a]
        PROVE  x \in Slot(rng2[b], h2[b].keys, i) <=> x \in Slot(rng[a], h[a].keys, i + s + 1)
    <3>1. x \in Int /\ Stays(h, a) = 1
      BY <1>1, <1>2, <1>4, <1>11, <2>1
    <3> DEFINE n == Len(h[a].keys)
    <3>2. n \in Nat /\ s < n /\ i + s + 1 <= n + 1
      BY <1>1, <1>3, <1>5, <2>1
    <3>3. i <= Len(h2[b].keys) <=> i + s + 1 <= n
      BY <1>1, <1>8, <2>1, <3>1, <3>2
    <3>4. i + s + 1 <= n => h2[b].keys[i] = h[a].keys[i + s + 1]
      BY <1>1, <1>8, <2>1, <3>1, <3>2
    <3>5. i > 1 => /\ h2[b].keys[i - 1] = h[a].keys[(i + s + 1) - 1]
                   /\ sep < h[a].keys[(i + s + 1) - 1]
                   /\ h[a].keys[(i + s + 1) - 1] \in Int
      <4>1. SUFFICES ASSUME i > 1
                     PROVE  /\ h2[b].keys[i - 1] = h[a].keys[(i + s + 1) - 1]
                            /\ sep < h[a].keys[(i + s + 1) - 1]
                            /\ h[a].keys[(i + s + 1) - 1] \in Int
        OBVIOUS
      <4>2. i - 1 \in 1 .. n - s - 1 /\ (i - 1) + s + 1 = (i + s + 1) - 1
        BY <1>1, <2>1, <3>2, <4>1
      <4>3. (i + s + 1) - 1 \in 1 .. n /\ s + 1 \in 1 .. n /\ s + 1 < (i + s + 1) - 1
        BY <1>1, <2>1, <3>2, <4>1
      <4>4. h2[b].keys[i - 1] = h[a].keys[(i - 1) + s + 1]
        BY <1>8, <3>1, <4>2
      <4> QED
        BY <1>1, <1>5, <1>11a, <4>2, <4>3, <4>4 DEF Sorted
    <3>6. i = 1 => h[a].keys[(i + s + 1) - 1] = sep
      BY <1>1, <1>11a
    <3>7. i + s + 1 > 1
      BY <1>1, <2>1
    <3> HIDE DEF n
    <3>8. x \in Slot(rng2[b], h2[b].keys, i) <=>
            (/\ sep <= x /\ (i > 1 => h2[b].keys[i - 1] <= x)
             /\ (i <= Len(h2[b].keys) => x < h2[b].keys[i]))
      BY <1>7 DEF Slot
    <3>9. x \in Slot(rng[a], h[a].keys, i + s + 1) <=>
            (h[a].keys[(i + s + 1) - 1] <= x /\ (i + s + 1 <= n => x < h[a].keys[i + s + 1]))
      <4> DEFINE q == i + s + 1
      <4>1. q > 1
        BY <3>7
      <4> HIDE DEF q
      <4>2. x \in Slot(rng[a], h[a].keys, q) <=>
              (h[a].keys[q - 1] <= x /\ (q <= Len(h[a].keys) => x < h[a].keys[q]))
        BY <2>4, <4>1, SlotAfter
      <4> QED
        BY <4>2, Zenon DEF q, n
    <3>10. CASE i = 1
      BY <3>3, <3>4, <3>6, <3>8, <3>9, <3>10
    <3>11. CASE i > 1
      BY <1>6, <3>1, <3>3, <3>4, <3>5, <3>8, <3>9, <3>11
    <3> QED
      BY <2>1, <3>10, <3>11
  <2>5. Slot(rng2[b], h2[b].keys, i) \subseteq rng[a]
        /\ Slot(rng[a], h[a].keys, i + s + 1) \subseteq rng[a]
    BY <1>7 DEF Slot
  <2> QED
    BY <1>7, <2>2, <2>3, <2>4, <2>5
<1>14. ASSUME NEW i, NEW c, ChildAt(h2, p, i, c)
       PROVE  rng2[c] = Slot(rng2[p], h2[p].keys, i)
  <2> DEFINE ks == h[p].keys
             n == Len(ks)
  <2>0. /\ rng2[p] = rng[p] /\ n \in Nat /\ j <= n + 1 /\ rng[p] \subseteq Names
        /\ \A k \in 1 .. n : ks[k] \in Int
    BY <1>0, <1>1, <1>2, <1>5, <1>7, <1>10
  <2>1. (j <= n => sep < ks[j]) /\ (j > 1 => ks[j - 1] <= sep)
    BY <1>6, <1>10 DEF Slot
  <2>2. /\ Len(h2[p].keys) = n + 1
        /\ \A k \in 1 .. n + 1 :
             h2[p].keys[k] = IF k < j THEN ks[k] ELSE IF k = j THEN sep ELSE ks[k - 1]
    BY <1>9
  <2>3. \A k : Slot(rng[p], ks, k) \subseteq rng[p] /\ Slot(rng[p], h2[p].keys, k) \subseteq rng[p]
    BY DEF Slot
  <2>4. \A x \in rng[p] : \A k : x \in Slot(rng[p], ks, k) <=>
          ((k > 1 => ks[k - 1] <= x) /\ (k <= n => x < ks[k]))
    BY DEF Slot
  <2>5. \A x \in rng[p] : \A k : x \in Slot(rng[p], h2[p].keys, k) <=>
          ((k > 1 => h2[p].keys[k - 1] <= x) /\ (k <= n + 1 => x < h2[p].keys[k]))
    BY <2>2 DEF Slot
  <2>6. rng[a] = Slot(rng[p], ks, j)
    BY <1>10
  <2> HIDE DEF n, ks
  <2>7. CASE i <= j /\ ChildAt(h, p, i, c)
    <3>1. i \in Nat /\ i >= 1 /\ rng[c] = Slot(rng[p], ks, i) /\ c \in DOMAIN h
      BY <1>1, <1>2, <1>3, <2>7 DEF ks
    <3>2. CASE i < j
      <4>1. c # a
        BY <1>1, <1>2, <1>4, <2>7, <3>1, <3>2
      <4>2. i <= n /\ h2[p].keys[i] = ks[i] /\ (i > 1 => h2[p].keys[i - 1] = ks[i - 1])
        BY <1>4, <2>0, <2>2, <3>1, <3>2
      <4>3. \A x \in rng[p] : x \in Slot(rng[p], ks, i) <=> x \in Slot(rng[p], h2[p].keys, i)
        BY <2>0, <2>4, <2>5, <3>1, <4>2
      <4>4. Slot(rng[p], ks, i) = Slot(rng[p], h2[p].keys, i)
        BY <2>3, <4>3
      <4> QED
        BY <1>7, <2>0, <3>1, <4>1, <4>4
    <3>3. CASE i = j
      <4>1. c = a
        BY <1>1, <2>7, <3>3 DEF ChildAt
      <4>2. h2[p].keys[j] = sep /\ (j > 1 => h2[p].keys[j - 1] = ks[j - 1])
        BY <1>4, <2>0, <2>2
      <4>3. \A x \in rng[p] : x \in rng2[a] <=> x \in Slot(rng[p], h2[p].keys, j)
        <5>1. SUFFICES ASSUME NEW x \in rng[p]
                       PROVE  x \in rng2[a] <=> x \in Slot(rng[p], h2[p].keys, j)
          OBVIOUS
        <5>2. x \in Int
          BY <1>4, <2>0
        <5>3. x \in rng2[a] <=> ((j > 1 => ks[j - 1] <= x) /\ (j <= n => x < ks[j]) /\ x < sep)
          BY <1>7, <2>4, <2>6
        <5>4. x \in Slot(rng[p], h2[p].keys, j) <=> ((j > 1 => ks[j - 1] <= x) /\ x < sep)
          BY <1>4, <2>0, <2>5, <4>2
        <5>5. j <= n => ks[j] \in Int
          BY <1>4, <2>0
        <5> QED
          BY <1>6, <2>1, <5>2, <5>3, <5>4, <5>5
      <4>4. rng2[a] \subseteq rng[p]
        BY <1>7, <2>3, <2>6
      <4>5. rng2[a] = Slot(rng[p], h2[p].keys, j)
        BY <2>3, <4>3, <4>4
      <4> QED
        BY <2>0, <3>3, <4>1, <4>5
    <3> QED
      BY <1>4, <2>7, <3>1, <3>2, <3>3
  <2>8. CASE i = j + 1 /\ c = b
    <3>1. /\ h2[p].keys[j] = sep /\ (j <= n => h2[p].keys[j + 1] = ks[j])
          /\ j + 1 > 1 /\ (j + 1) - 1 = j
      BY <1>4, <2>0, <2>2
    <3>2. \A x \in rng[p] : x \in rng2[b] <=> x \in Slot(rng[p], h2[p].keys, j + 1)
      <4>1. SUFFICES ASSUME NEW x \in rng[p]
                     PROVE  x \in rng2[b] <=> x \in Slot(rng[p], h2[p].keys, j + 1)
        OBVIOUS
      <4>2. x \in Int
        BY <1>4, <2>0
      <4>3. x \in rng2[b] <=> ((j > 1 => ks[j - 1] <= x) /\ (j <= n => x < ks[j]) /\ sep <= x)
        BY <1>7, <2>4, <2>6
      <4>4. x \in Slot(rng[p], h2[p].keys, j + 1) <=> (sep <= x /\ (j <= n => x < ks[j]))
        BY <1>4, <2>0, <2>5, <3>1
      <4>5. j > 1 => ks[j - 1] \in Int
        BY <1>4, <2>0
      <4> QED
        BY <1>6, <2>1, <4>2, <4>3, <4>4, <4>5
    <3>3. rng2[b] \subseteq rng[p]
      BY <1>7, <2>3, <2>6
    <3>4. rng2[b] = Slot(rng[p], h2[p].keys, j + 1)
      BY <2>3, <3>2, <3>3
    <3> QED
      BY <2>0, <2>8, <3>4
  <2>9. CASE i \in Nat /\ i > j + 1 /\ ChildAt(h, p, i - 1, c)
    <3>1. rng[c] = Slot(rng[p], ks, i - 1) /\ c \in DOMAIN h /\ i - 1 <= n + 1
      <4>1. rng[c] = Slot(rng[p], ks, i - 1) /\ c \in DOMAIN h
        BY <1>1, <1>2, <1>3, <2>9 DEF ks
      <4>2. i - 1 <= n + 1
        BY <1>1, <1>5, <2>9 DEF ks, n, ChildAt
      <4> QED
        BY <4>1, <4>2
    <3>2. c # a
      BY <1>1, <1>2, <1>4, <2>9
    <3>3. /\ h2[p].keys[i - 1] = ks[i - 1 - 1] /\ (i - 1 <= n => h2[p].keys[i] = ks[i - 1])
          /\ i - 1 > 1 /\ i > 1 /\ (i <= n + 1 <=> i - 1 <= n)
      BY <1>4, <2>0, <2>2, <2>9, <3>1
    <3>4. \A x \in rng[p] : x \in Slot(rng[p], ks, i - 1) <=> x \in Slot(rng[p], h2[p].keys, i)
      BY <2>4, <2>5, <3>3
    <3>5. Slot(rng[p], ks, i - 1) = Slot(rng[p], h2[p].keys, i)
      BY <2>3, <3>4
    <3> QED
      BY <1>7, <2>0, <3>1, <3>2, <3>5
  <2> QED
    BY <1>0, <1>14, <2>7, <2>8, <2>9
<1>15. Ranges(h2, r, rng2)
  <2>1. ASSUME NEW x \in DOMAIN h, x # a, x # p, NEW i, NEW c, ChildAt(h2, x, i, c)
        PROVE  rng2[c] = Slot(rng2[x], h2[x].keys, i)
    <3>1. ChildAt(h, x, i, c) /\ h2[x].keys = h[x].keys
      BY <1>0, <1>1, <2>1
    <3>2. c \in DOMAIN h /\ h[c].parent = x
      BY <1>2, <2>1, <3>1
    <3>3. c # a
      BY <1>1, <1>2, <2>1, <3>2
    <3> QED
      BY <1>2, <1>7, <2>1, <3>1, <3>2, <3>3
  <2>2. \A x \in DOMAIN h2 : \A i, c : ChildAt(h2, x, i, c) => rng2[c] = Slot(rng2[x], h2[x].keys, i)
    <3>1. SUFFICES ASSUME NEW x \in DOMAIN h2, NEW i, NEW c, ChildAt(h2, x, i, c)
                   PROVE  rng2[c] = Slot(rng2[x], h2[x].keys, i)
      BY Zenon
    <3>2. x = a \/ x = b \/ x = p \/ (x \in DOMAIN h /\ x # a /\ x # p)
      BY <1>1
    <3>3. CASE x = a
      BY <1>12, <3>1, <3>3, Zenon
    <3>4. CASE x = b
      BY <1>13, <3>1, <3>4, Zenon
    <3>5. CASE x = p
      BY <1>14, <3>1, <3>5, Zenon
    <3>6. CASE x \in DOMAIN h /\ x # a /\ x # p
      BY <2>1, <3>1, <3>6, Zenon
    <3> QED
      BY <3>2, <3>3, <3>4, <3>5, <3>6, Zenon
  <2>3. rng2[r] = Names
    BY <1>0, <1>2, <1>7
  <2> QED
    BY <1>7, <2>2, <2>3 DEF Ranges
<1>16. Apart(h2, ht2, rng2)
  <2>1. ht2[b] = ht[a] /\ \A x \in DOMAIN h : ht2[x] = ht[x]
    BY <1>0, <1>1 DEF SplitHeights
  <2>2. \A x, y \in DOMAIN h : x # y /\ ht[x] = ht[y] => rng[x] \cap rng[y] = {}
    BY DEF WF, Apart
  <2>3. \A x \in DOMAIN h : rng2[x] \subseteq rng[x]
    BY <1>7
  <2>4. rng2[a] \cap rng2[b] = {}
    <3>1. rng[a] \subseteq Int
      BY <1>1, <1>2, <1>4
    <3> QED
      BY <1>6, <1>7, <3>1
  <2>5. rng2[b] \subseteq rng[a]
    BY <1>7
  <2>6. ASSUME NEW x \in DOMAIN h, ht[x] = ht[a] PROVE rng2[x] \cap rng2[b] = {}
    <3>1. CASE x = a
      BY <2>4, <3>1
    <3>2. CASE x # a
      BY <1>1, <2>2, <2>3, <2>5, <2>6, <3>2
    <3> QED
      BY <3>1, <3>2
  <2>7. ASSUME NEW x \in DOMAIN h, NEW y \in DOMAIN h, x # y, ht[x] = ht[y]
        PROVE  rng2[x] \cap rng2[y] = {}
    BY <2>2, <2>3, <2>7
  <2> QED
    BY <1>1, <2>1, <2>6, <2>7 DEF Apart
<1>17. KeysOK(h2, rng2)
  <2>0. \A x \in DOMAIN h : /\ Sorted(h[x].keys)
                            /\ \A i \in 1 .. Len(h[x].keys) :
                                 /\ h[x].keys[i] \in rng[x]
                                 /\ ~h[x].is_leaf => \E y \in rng[x] : y < h[x].keys[i]
    BY DEF WF, KeysOK
  <2>1. ASSUME NEW x \in DOMAIN h, x # a, x # p
        PROVE  /\ Sorted(h2[x].keys)
               /\ \A i \in 1 .. Len(h2[x].keys) :
                    /\ h2[x].keys[i] \in rng2[x]
                    /\ ~h2[x].is_leaf => \E y \in rng2[x] : y < h2[x].keys[i]
    BY <1>1, <1>7, <2>0, <2>1
  <2>2. /\ Sorted(h2[a].keys)
        /\ \A i \in 1 .. Len(h2[a].keys) :
             /\ h2[a].keys[i] \in rng2[a]
             /\ ~h2[a].is_leaf => \E y \in rng2[a] : y < h2[a].keys[i]
    <3>1. Sorted(h2[a].keys)
      <4>1. Sorted(h[a].keys) /\ Len(h[a].keys) \in Nat
        BY <1>1, <1>5
      <4>2. \A i \in 1 .. s : i \in 1 .. Len(h[a].keys)
        BY <1>1, <4>1
      <4> QED
        BY <1>8, <4>1, <4>2 DEF Sorted
    <3>2. ASSUME NEW i \in 1 .. s
          PROVE  /\ h[a].keys[i] \in rng2[a]
                 /\ ~h[a].is_leaf => \E y \in rng2[a] : y < h[a].keys[i]
      <4>1. /\ i \in 1 .. Len(h[a].keys) /\ h[a].keys[i] < sep /\ h[a].keys[i] \in Int
            /\ h[a].keys[i] \in rng[a]
        BY <1>1, <1>5, <1>11a, <2>0 DEF Sorted
      <4>2. ASSUME ~h[a].is_leaf PROVE \E y \in rng2[a] : y < h[a].keys[i]
        <5>1. PICK y \in rng[a] : y < h[a].keys[i]
          BY <1>1, <2>0, <4>1, <4>2
        <5>2. y \in Int
          BY <1>1, <1>2, <1>4
        <5>3. y < sep
          BY <1>6, <4>1, <5>1, <5>2
        <5> QED
          BY <1>7, <5>1, <5>3
      <4> QED
        BY <1>7, <4>1, <4>2
    <3> QED
      BY <1>8, <3>1, <3>2
  <2>3. /\ Sorted(h2[b].keys)
        /\ \A i \in 1 .. Len(h2[b].keys) :
             /\ h2[b].keys[i] \in rng2[b]
             /\ ~h2[b].is_leaf => \E y \in rng2[b] : y < h2[b].keys[i]
    <3> DEFINE d == Stays(h, a)
               m == Len(h[a].keys) - s - d
    <3>1. d \in {0, 1} /\ (~h[a].is_leaf => d = 1) /\ m \in Int
      BY <1>1, <1>5 DEF Stays
    <3>2. Len(h2[b].keys) = m /\ \A i \in 1 .. m : h2[b].keys[i] = h[a].keys[i + s + d]
      BY <1>8
    <3> HIDE DEF d
    <3>3. \A i \in 1 .. m : i + s + d \in 1 .. Len(h[a].keys) /\ i + s + d >= s + 1
                            /\ (d = 1 => i + s + d > s + 1)
      BY <1>1, <1>5, <3>1
    <3> HIDE DEF m
    <3>4. Sorted(h2[b].keys)
      <4>1. SUFFICES ASSUME NEW i \in 1 .. m, NEW k \in 1 .. m, i < k
                     PROVE  h[a].keys[i + s + d] < h[a].keys[k + s + d]
        BY <3>2 DEF Sorted
      <4>2. i + s + d < k + s + d
        BY <1>1, <3>1, <4>1
      <4> QED
        BY <1>1, <1>5, <3>3, <4>2 DEF Sorted
    <3>5. ASSUME NEW i \in 1 .. m
          PROVE  /\ h[a].keys[i + s + d] \in rng2[b]
                 /\ ~h[a].is_leaf => \E y \in rng2[b] : y < h[a].keys[i + s + d]
      <4> DEFINE q == i + s + d
      <4>1. q \in 1 .. Len(h[a].keys) /\ q >= s + 1 /\ (d = 1 => q > s + 1)
        BY <3>3
      <4> HIDE DEF q
      <4>2. s + 1 \in 1 .. Len(h[a].keys)
        BY <1>1, <1>5
      <4>3. sep <= h[a].keys[q] /\ (d = 1 => sep < h[a].keys[q])
        BY <1>1, <1>5, <1>6, <1>11a, <4>1, <4>2 DEF Sorted
      <4>4. h[a].keys[q] \in rng2[b]
        BY <1>1, <1>7, <2>0, <4>1, <4>3
      <4>5. sep \in rng2[b]
        BY <1>6, <1>7
      <4> QED
        BY <3>1, <4>3, <4>4, <4>5 DEF q
    <3> QED
      BY <1>8, <3>2, <3>4, <3>5
  <2>4. /\ Sorted(h2[p].keys)
        /\ \A i \in 1 .. Len(h2[p].keys) :
             /\ h2[p].keys[i] \in rng2[p]
             /\ ~h2[p].is_leaf => \E y \in rng2[p] : y < h2[p].keys[i]
    <3> DEFINE ks == h[p].keys
               n == Len(ks)
    <3>0. /\ rng2[p] = rng[p] /\ n \in Nat /\ j <= n + 1 /\ rng[p] \subseteq Names
          /\ \A k \in 1 .. n : ks[k] \in Int /\ ks[k] \in rng[p] /\ \E y \in rng[p] : y < ks[k]
          /\ Sorted(ks)
      BY <1>0, <1>1, <1>2, <1>5, <1>7, <1>10, <2>0
    <3>1. /\ Len(h2[p].keys) = n + 1
          /\ \A k \in 1 .. n + 1 :
               h2[p].keys[k] = IF k < j THEN ks[k] ELSE IF k = j THEN sep ELSE ks[k - 1]
      BY <1>9
    \* The least name below a comes before the key that goes up.
    <3>2. \E y \in rng[a] : y < sep
      <4>1. CASE h[a].is_leaf
        <5>1. 1 \in 1 .. Len(h[a].keys) /\ s + 1 \in 1 .. Len(h[a].keys) /\ 1 < s + 1
          BY <1>1, <1>5, <4>1
        <5> QED
          BY <1>1, <1>11a, <2>0, <5>1 DEF Sorted
      <4>2. CASE ~h[a].is_leaf
        BY <1>1, <1>5, <1>11a, <2>0, <4>2
      <4> QED
        BY <4>1, <4>2
    <3>3. /\ rng[a] \subseteq rng[p] /\ (j <= n => sep < ks[j])
          /\ \A y \in rng[a] : j > 1 => ks[j - 1] <= y
      BY <1>6, <1>10 DEF Slot
    <3>4. j > 1 => ks[j - 1] < sep /\ ks[j - 1] \in Int
      <4>1. PICK y \in rng[a] : y < sep
        BY <3>2
      <4>2. y \in Int
        BY <1>1, <1>2, <1>4
      <4>3. j > 1 => j - 1 \in 1 .. n
        BY <1>4, <3>0
      <4> QED
        BY <1>6, <3>0, <3>3, <4>1, <4>2, <4>3
    <3>4a. \A k, l \in 1 .. n : k < l => ks[k] < ks[l]
      BY <3>0 DEF Sorted
    <3> HIDE DEF n, ks
    <3>5. ASSUME NEW i \in 1 .. n + 1, NEW k \in 1 .. n + 1, i < k
          PROVE  h2[p].keys[i] < h2[p].keys[k]
      <4>1. CASE k < j
        <5>1. i \in 1 .. n /\ k \in 1 .. n /\ i < j
          BY <1>4, <3>0, <3>5, <4>1
        <5>2. h2[p].keys[i] = ks[i] /\ h2[p].keys[k] = ks[k]
          BY <3>1, <4>1, <5>1
        <5> QED
          BY <3>4a, <3>5, <5>1, <5>2
      <4>2. CASE k = j
        <5>1. i \in 1 .. n /\ j - 1 \in 1 .. n /\ i <= j - 1 /\ j > 1 /\ i < j
          BY <1>4, <3>0, <3>5, <4>2
        <5>2. ks[i] <= ks[j - 1]
          BY <3>0, <3>4a, <5>1
        <5>3. h2[p].keys[i] = ks[i] /\ h2[p].keys[k] = sep
          BY <1>4, <3>1, <4>2, <5>1
        <5> QED
          BY <1>6, <3>0, <3>4, <5>1, <5>2, <5>3
      <4>3. CASE k > j /\ i = j
        <5>1. j \in 1 .. n /\ k - 1 \in 1 .. n /\ j <= k - 1
          BY <1>4, <3>0, <3>5, <4>3
        <5>2. ks[j] <= ks[k - 1]
          BY <3>0, <3>4a, <5>1
        <5>3. h2[p].keys[i] = sep /\ h2[p].keys[k] = ks[k - 1]
          BY <1>4, <3>1, <4>3, <5>1
        <5> QED
          BY <1>6, <3>0, <3>3, <5>1, <5>2, <5>3
      <4>4. CASE k > j /\ i > j
        <5>1. i - 1 \in 1 .. n /\ k - 1 \in 1 .. n /\ i - 1 < k - 1
          BY <1>4, <3>0, <3>5, <4>4
        <5>2. h2[p].keys[i] = ks[i - 1] /\ h2[p].keys[k] = ks[k - 1]
          BY <1>4, <3>1, <4>4, <5>1
        <5> QED
          BY <3>0, <3>4a, <5>1, <5>2
      <4>5. CASE k > j /\ i < j
        <5>1. i \in 1 .. n /\ k - 1 \in 1 .. n /\ i < k - 1
          BY <1>4, <3>0, <3>5, <4>5
        <5>2. h2[p].keys[i] = ks[i] /\ h2[p].keys[k] = ks[k - 1]
          BY <1>4, <3>1, <4>5, <5>1
        <5> QED
          BY <3>0, <3>4a, <5>1, <5>2
      <4> QED
        BY <1>4, <3>0, <4>1, <4>2, <4>3, <4>4, <4>5
    <3>6. ASSUME NEW i \in 1 .. n + 1
          PROVE  h2[p].keys[i] \in rng[p] /\ \E y \in rng[p] : y < h2[p].keys[i]
      <4>1. CASE i < j
        BY <1>4, <3>0, <3>1, <4>1
      <4>2. CASE i = j
        <5>1. h2[p].keys[i] = sep
          BY <1>4, <3>0, <3>1, <4>2
        <5> QED
          BY <1>6, <3>2, <3>3, <5>1
      <4>3. CASE i > j
        <5>1. i - 1 \in 1 .. n /\ h2[p].keys[i] = ks[i - 1]
          BY <1>4, <3>0, <3>1, <4>3
        <5> QED
          BY <3>0, <5>1
      <4> QED
        BY <1>4, <4>1, <4>2, <4>3
    <3> QED
      BY <3>0, <3>1, <3>5, <3>6 DEF Sorted
  <2> QED
    BY <1>1, <2>1, <2>2, <2>3, <2>4 DEF KeysOK
<1> QED
  BY <1>15, <1>16, <1>17

\* The tree with a node split is a tree with the same names in its leaves.
LEMMA SplitTree ==
    ASSUME NEW h, NEW r, NEW ix, Good(h, r, ix),
           NEW h2, NEW a, NEW b, NEW p, NEW j, NEW s, IsSplit(h, h2, a, b, p, j, s)
    PROVE  Good(h2, r, ix)
<1>1. PICK ht, rng : WF(h, r, ht, rng) /\ (0 \notin CondGarbage => Content(h, rng, ix))
  BY DEF Good
<1> DEFINE ht2  == SplitHeights(ht, h2, a, b)
           rng2 == SplitRanges(rng, h2, a, b, h[a].keys[s + 1])
<1>2. Heights(h2, r, ht2) /\ Linkage(h2, r, ht2)
  BY <1>1, SplitLinkage
<1>3. Ranges(h2, r, rng2) /\ Apart(h2, ht2, rng2) /\ KeysOK(h2, rng2)
  BY <1>1, SplitRangesOK
<1>4. Heap(h2)
  BY DEF IsSplit
<1>5. ASSUME Content(h, rng, ix) PROVE Content(h2, rng2, ix)
  <2> DEFINE sep == h[a].keys[s + 1]
  <2>1. a # p /\ b # a /\ b # p /\ a \in DOMAIN h2 /\ b \in DOMAIN h2
    BY <1>1, SplitChildren
  <2>2. /\ DOMAIN h2 = DOMAIN h \cup {b} /\ b \notin DOMAIN h /\ a \in DOMAIN h /\ p \in DOMAIN h
        /\ \A x \in DOMAIN h : x # a /\ x # p =>
             h2[x].is_leaf = h[x].is_leaf /\ h2[x].keys = h[x].keys /\ h2[x].pointers = h[x].pointers
        /\ ~h2[p].is_leaf /\ s \in Nat /\ s < Len(h[a].keys)
    BY DEF IsSplit, SplitRest, SplitParent
  <2>3. /\ \A x \in DOMAIN h : x # a => rng2[x] = rng[x]
        /\ rng2[a] = {n \in rng[a] : n < sep}
        /\ rng2[b] = {n \in rng[a] : sep <= n}
    BY <2>1, <2>2 DEF SplitRanges
  <2>4. /\ Sorted(h[a].keys) /\ Len(h[a].keys) \in Nat
        /\ \A i \in 1 .. Len(h[a].keys) : h[a].keys[i] \in Int
        /\ h[a].is_leaf => Len(h[a].pointers) = Len(h[a].keys)
    BY <1>1, <2>2, KeysInt DEF WF, KeysOK
  <2>5. h[a].is_leaf =>
          /\ Len(h2[a].keys) = s
          /\ \A i \in 1 .. s : h2[a].keys[i] = h[a].keys[i] /\ h2[a].pointers[i] = h[a].pointers[i]
          /\ Len(h2[b].keys) = Len(h[a].keys) - s
          /\ \A i \in 1 .. Len(h[a].keys) - s :
               h2[b].keys[i] = h[a].keys[i + s] /\ h2[b].pointers[i] = h[a].pointers[i + s]
    <3> SUFFICES ASSUME h[a].is_leaf
                 PROVE  /\ Len(h2[a].keys) = s
                        /\ \A i \in 1 .. s : /\ h2[a].keys[i] = h[a].keys[i]
                                             /\ h2[a].pointers[i] = h[a].pointers[i]
                        /\ Len(h2[b].keys) = Len(h[a].keys) - s
                        /\ \A i \in 1 .. Len(h[a].keys) - s :
                             /\ h2[b].keys[i] = h[a].keys[i + s]
                             /\ h2[b].pointers[i] = h[a].pointers[i + s]
      OBVIOUS
    <3>1. Stays(h, a) = 0
      BY DEF Stays
    <3>2. s + 0 = s /\ Len(h[a].keys) - s - 0 = Len(h[a].keys) - s /\ \A i \in Nat : i + s + 0 = i + s
      BY <2>2, <2>4
    <3> QED
      BY <2>4, <3>1, <3>2 DEF IsSplit, SplitNode
  <2>6. h2[a].is_leaf = h[a].is_leaf /\ h2[b].is_leaf = h[a].is_leaf
    BY DEF IsSplit, SplitNode
  <2> DEFINE Holds(k, x, R) ==
        /\ \A i \in 1 .. Len(k[x].keys) :
             k[x].keys[i] \in DOMAIN ix /\ ix[k[x].keys[i]] = k[x].pointers[i]
        /\ \A y \in R \cap DOMAIN ix : \E i \in 1 .. Len(k[x].keys) : k[x].keys[i] = y
  <2>7. \A x \in DOMAIN h : h[x].is_leaf => Holds(h, x, rng[x])
    BY <1>5 DEF Content
  <2>8. ASSUME NEW x \in DOMAIN h, x # a, h2[x].is_leaf PROVE Holds(h2, x, rng2[x])
    BY <2>2, <2>3, <2>7, <2>8
  <2>9. ASSUME h[a].is_leaf PROVE Holds(h2, a, rng2[a]) /\ Holds(h2, b, rng2[b])
    <3>1. /\ \A i \in 1 .. Len(h[a].keys) :
               h[a].keys[i] \in DOMAIN ix /\ ix[h[a].keys[i]] = h[a].pointers[i]
          /\ \A y \in rng[a] \cap DOMAIN ix : \E i \in 1 .. Len(h[a].keys) : h[a].keys[i] = y
      BY <2>2, <2>7, <2>9
    <3>2. sep \in Int /\ s + 1 \in 1 .. Len(h[a].keys)
      BY <2>2, <2>4
    <3>3. ASSUME NEW y \in rng2[a] \cap DOMAIN ix
          PROVE  \E i \in 1 .. Len(h2[a].keys) : h2[a].keys[i] = y
      <4>1. PICK i \in 1 .. Len(h[a].keys) : h[a].keys[i] = y
        BY <2>3, <3>1
      <4>2. y < sep
        BY <2>3
      <4>3. i < s + 1
        BY <2>2, <2>4, <3>2, <4>1, <4>2 DEF Sorted
      <4> QED
        BY <2>2, <2>5, <2>9, <4>1, <4>3
    <3>4. ASSUME NEW y \in rng2[b] \cap DOMAIN ix
          PROVE  \E i \in 1 .. Len(h2[b].keys) : h2[b].keys[i] = y
      <4>1. PICK i \in 1 .. Len(h[a].keys) : h[a].keys[i] = y
        BY <2>3, <3>1
      <4>2. sep <= y /\ y \in Int
        BY <2>3, <2>4, <4>1
      <4>3. i >= s + 1
        BY <2>2, <2>4, <3>2, <4>1, <4>2 DEF Sorted
      <4>4. i - s \in 1 .. Len(h[a].keys) - s /\ (i - s) + s = i
        BY <2>2, <2>4, <4>3
      <4> QED
        BY <2>5, <2>9, <4>1, <4>4
    <3>5. \A i \in 1 .. Len(h[a].keys) - s : i + s \in 1 .. Len(h[a].keys)
      BY <2>2, <2>4
    <3>6. \A i \in 1 .. s : i \in 1 .. Len(h[a].keys)
      BY <2>2, <2>4
    <3>7. \A i \in 1 .. Len(h2[a].keys) :
            h2[a].keys[i] \in DOMAIN ix /\ ix[h2[a].keys[i]] = h2[a].pointers[i]
      BY <2>5, <2>9, <3>1, <3>6
    <3>8. \A i \in 1 .. Len(h2[b].keys) :
            h2[b].keys[i] \in DOMAIN ix /\ ix[h2[b].keys[i]] = h2[b].pointers[i]
      <4>1. SUFFICES ASSUME NEW i \in 1 .. Len(h[a].keys) - s
                     PROVE  h2[b].keys[i] \in DOMAIN ix /\ ix[h2[b].keys[i]] = h2[b].pointers[i]
        BY <2>5, <2>9
      <4>2. h2[b].keys[i] = h[a].keys[i + s] /\ h2[b].pointers[i] = h[a].pointers[i + s]
        BY <2>5, <2>9
      <4> QED
        BY <3>1, <3>5, <4>2
    <3> QED
      BY <3>3, <3>4, <3>7, <3>8
  <2> HIDE DEF Holds
  <2>10. \A x \in DOMAIN h2 : h2[x].is_leaf => Holds(h2, x, rng2[x])
    BY <2>2, <2>6, <2>8, <2>9
  <2> QED
    BY <2>10 DEF Content, Holds
<1> HIDE DEF ht2, rng2
<1>6. WF(h2, r, ht2, rng2)
  BY <1>2, <1>3, <1>4 DEF WF
<1> QED
  BY <1>1, <1>5, <1>6 DEF Good

-----------------------------------------------------------------------------
(* Two nodes are merged.                                                     *)

\* In h2, child i + 1 of p, the node m, has gone into child i, the node l, with
\* the key that separated them if they have children, and its entry is gone.
MergeNode(h, h2, l, m, sep) ==
    LET nk == Len(h[l].keys)
        np == Len(h[l].pointers)
    IN  /\ h2[l].is_leaf = h[l].is_leaf
        /\ Len(h2[l].keys) = nk + Stays(h, l) + Len(h[m].keys)
        /\ \A k \in 1 .. nk : h2[l].keys[k] = h[l].keys[k]
        /\ ~h[l].is_leaf => h2[l].keys[nk + 1] = sep
        /\ \A k \in 1 .. Len(h[m].keys) : h2[l].keys[k + (nk + Stays(h, l))] = h[m].keys[k]
        /\ Len(h2[l].pointers) = np + Len(h[m].pointers)
        /\ \A k \in 1 .. np : h2[l].pointers[k] = h[l].pointers[k]
        /\ \A k \in 1 .. Len(h[m].pointers) : h2[l].pointers[k + np] = h[m].pointers[k]
MergeParent(h, h2, p, i) ==
    /\ ~h2[p].is_leaf
    /\ Len(h2[p].keys) = Len(h[p].keys) - 1
    /\ \A k \in 1 .. Len(h[p].keys) - 1 :
         h2[p].keys[k] = IF k < i THEN h[p].keys[k] ELSE h[p].keys[k + 1]
    /\ Len(h2[p].pointers) = Len(h[p].pointers) - 1
    /\ \A k \in 1 .. Len(h[p].pointers) - 1 :
         h2[p].pointers[k] = IF k <= i THEN h[p].pointers[k] ELSE h[p].pointers[k + 1]
MergeRest(h, h2, l, m, p) ==
    /\ DOMAIN h2 = DOMAIN h \ {m}
    /\ \A x \in DOMAIN h2 : x # l /\ x # p =>
         h2[x].is_leaf = h[x].is_leaf /\ h2[x].keys = h[x].keys /\ h2[x].pointers = h[x].pointers
    /\ \A x \in DOMAIN h2 :
         h2[x].parent = IF \E k : ChildAt(h, m, k, x) THEN l ELSE h[x].parent
IsMerge(h, h2, l, m, p, i) ==
    /\ Heap(h2) /\ p \in DOMAIN h /\ l \in DOMAIN h /\ m \in DOMAIN h
    /\ ChildAt(h, p, i, l) /\ ChildAt(h, p, i + 1, m)
    /\ MergeNode(h, h2, l, m, h[p].keys[i]) /\ MergeParent(h, h2, p, i)
    /\ MergeRest(h, h2, l, m, p)
MergeHeights(ht, h2) == [x \in DOMAIN h2 |-> ht[x]]
MergeRanges(rng, h2, l, m) == [x \in DOMAIN h2 |-> IF x = l THEN rng[l] \cup rng[m] ELSE rng[x]]

\* The children after a merge.
LEMMA MergeChildren ==
    ASSUME NEW h, NEW r, NEW ht, NEW rng, WF(h, r, ht, rng),
           NEW h2, NEW l, NEW m, NEW p, NEW i, IsMerge(h, h2, l, m, p, i)
    PROVE  /\ l # m /\ l # p /\ m # p /\ l # r /\ m # r
           /\ l \in DOMAIN h2 /\ p \in DOMAIN h2 /\ r \in DOMAIN h2 /\ i \in Nat /\ i >= 1
           /\ h[l].is_leaf = h[m].is_leaf /\ ht[l] = ht[m]
           /\ \A x \in DOMAIN h2 : x # l /\ x # p =>
                \A k, c : ChildAt(h2, x, k, c) <=> ChildAt(h, x, k, c)
           /\ \A k, c : ChildAt(h2, l, k, c) <=>
                (\/ ChildAt(h, l, k, c)
                 \/ k \in Nat /\ k > Len(h[l].pointers) /\ ChildAt(h, m, k - Len(h[l].pointers), c))
           /\ \A k, c : ChildAt(h2, p, k, c) <=>
                (\/ k <= i /\ ChildAt(h, p, k, c)
                 \/ k \in Nat /\ k > i /\ ChildAt(h, p, k + 1, c))
<1>0. /\ p \in DOMAIN h /\ l \in DOMAIN h /\ m \in DOMAIN h
      /\ ChildAt(h, p, i, l) /\ ChildAt(h, p, i + 1, m) /\ DOMAIN h2 = DOMAIN h \ {m}
  BY DEF IsMerge, MergeRest
<1>1. r \in DOMAIN h /\ h[r].parent = NULL /\ DOMAIN h \subseteq Address
  BY DEF WF, Linkage, Heap
<1>2. /\ h[l].parent = p /\ ht[p] = ht[l] + 1 /\ ht[l] \in Nat
      /\ h[m].parent = p /\ ht[p] = ht[m] + 1 /\ ht[m] \in Nat
  BY <1>0 DEF WF, Linkage, Heights
<1>3. i \in Nat /\ i >= 1 /\ i + 1 <= Len(h[p].pointers) /\ Len(h[p].pointers) \in Nat /\ ~h[p].is_leaf
  BY <1>0, KeysInt DEF ChildAt, WF
<1>4. l # m
  <2>1. i # i + 1
    BY <1>3
  <2> QED
    BY <1>0, <2>1 DEF WF, Linkage
<1>5. l # p /\ m # p /\ l # r /\ m # r /\ ht[l] = ht[m]
  BY <1>0, <1>1, <1>2, TreeAssumption DEF Address
<1>6. h[l].is_leaf = h[m].is_leaf
  <2>1. h[l].is_leaf <=> h[m].is_leaf
    BY <1>0, <1>5 DEF WF, Heights
  <2>2. h[l].is_leaf \in BOOLEAN /\ h[m].is_leaf \in BOOLEAN
    BY <1>0, KeysInt DEF WF
  <2> QED
    BY <2>1, <2>2, Zenon
<1>7. \A x \in DOMAIN h2 : x # l /\ x # p =>
        \A k, c : ChildAt(h2, x, k, c) <=> ChildAt(h, x, k, c)
  BY DEF IsMerge, MergeRest, ChildAt
<1>8. ASSUME NEW k, NEW c
      PROVE  ChildAt(h2, l, k, c) <=>
                (\/ ChildAt(h, l, k, c)
                 \/ k \in Nat /\ k > Len(h[l].pointers) /\ ChildAt(h, m, k - Len(h[l].pointers), c))
  <2>1. CASE h[l].is_leaf
    BY <1>6, <2>1 DEF ChildAt, IsMerge, MergeNode
  <2>2. CASE ~h[l].is_leaf
    <3> DEFINE u == Len(h[l].pointers)
               v == Len(h[m].pointers)
    <3>1. u \in Nat /\ v \in Nat
      BY <1>0, KeysInt DEF WF
    <3>2. /\ ~h2[l].is_leaf /\ Len(h2[l].pointers) = u + v
          /\ \A q \in 1 .. u : h2[l].pointers[q] = h[l].pointers[q]
          /\ \A q \in 1 .. v : h2[l].pointers[q + u] = h[m].pointers[q]
      BY <2>2 DEF IsMerge, MergeNode
    <3>3. ChildAt(h2, l, k, c) <=> (k \in 1 .. u + v /\ h2[l].pointers[k] = c)
      BY <3>2 DEF ChildAt
    <3>4. /\ ChildAt(h, l, k, c) <=> (k \in 1 .. u /\ h[l].pointers[k] = c)
          /\ ChildAt(h, m, k - u, c) <=> (k - u \in 1 .. v /\ h[m].pointers[k - u] = c)
      BY <1>6, <2>2 DEF ChildAt
    <3> HIDE DEF u, v
    <3>5. CASE k \in 1 .. u
      <4>1. k \in 1 .. u + v /\ ~(k > u)
        BY <3>1, <3>5
      <4>2. h2[l].pointers[k] = h[l].pointers[k]
        BY <3>2, <3>5
      <4> QED
        BY <3>3, <3>4, <3>5, <4>1, <4>2 DEF u
    <3>6. CASE k \in Nat /\ k > u /\ k <= u + v
      <4>1. k - u \in 1 .. v /\ (k - u) + u = k
        BY <3>1, <3>6
      <4>2. h2[l].pointers[k] = h[m].pointers[k - u]
        BY <3>2, <4>1
      <4>3. k \in 1 .. u + v /\ k \notin 1 .. u
        BY <3>1, <3>6
      <4> QED
        BY <3>3, <3>4, <3>6, <4>1, <4>2, <4>3 DEF u
    <3>7. CASE ~(k \in Nat /\ k >= 1 /\ k <= u + v)
      <4>1. k \notin 1 .. u + v /\ k \notin 1 .. u
        BY <3>1, <3>7
      <4>2. ~(k \in Nat /\ k > u /\ k - u \in 1 .. v)
        BY <3>1, <3>7
      <4> QED
        BY <3>3, <3>4, <4>1, <4>2 DEF u
    <3> QED
      BY <3>1, <3>5, <3>6, <3>7
  <2> QED
    BY <2>1, <2>2
<1>9. ASSUME NEW k, NEW c
      PROVE  ChildAt(h2, p, k, c) <=>
                (\/ k <= i /\ ChildAt(h, p, k, c)
                 \/ k \in Nat /\ k > i /\ ChildAt(h, p, k + 1, c))
  <2> DEFINE n == Len(h[p].pointers)
  <2>1. /\ Len(h2[p].pointers) = n - 1 /\ ~h2[p].is_leaf
        /\ \A q \in 1 .. n - 1 :
             h2[p].pointers[q] = IF q <= i THEN h[p].pointers[q] ELSE h[p].pointers[q + 1]
    BY DEF IsMerge, MergeParent
  <2>2. n \in Nat /\ i + 1 <= n
    BY <1>3
  <2>3. ChildAt(h2, p, k, c) <=> (k \in 1 .. n - 1 /\ h2[p].pointers[k] = c)
    BY <2>1 DEF ChildAt
  <2>4. /\ ChildAt(h, p, k, c) <=> (k \in 1 .. n /\ h[p].pointers[k] = c)
        /\ ChildAt(h, p, k + 1, c) <=> (k + 1 \in 1 .. n /\ h[p].pointers[k + 1] = c)
    BY <1>3 DEF ChildAt
  <2> HIDE DEF n
  <2>5. CASE k \in 1 .. n - 1 /\ k <= i
    BY <1>3, <2>1, <2>2, <2>3, <2>4, <2>5
  <2>6. CASE k \in 1 .. n - 1 /\ k > i
    <3>1. k \in Nat /\ ~(k <= i) /\ k + 1 \in 1 .. n
      BY <1>3, <2>2, <2>6
    <3>2. h2[p].pointers[k] = h[p].pointers[k + 1]
      BY <2>1, <2>6, <3>1
    <3> QED
      BY <2>3, <2>4, <2>6, <3>1, <3>2
  <2>7. CASE k \notin 1 .. n - 1
    <3>1. ~(k <= i /\ k \in 1 .. n) /\ ~(k \in Nat /\ k > i /\ k + 1 \in 1 .. n)
      BY <1>3, <2>2, <2>7
    <3> QED
      BY <2>3, <2>4, <2>7, <3>1
  <2> QED
    BY <1>3, <2>2, <2>5, <2>6, <2>7
<1> QED
  BY <1>0, <1>1, <1>3, <1>4, <1>5, <1>6, <1>7, <1>8, <1>9

\* A merge keeps heights and links.
LEMMA MergeLinkage ==
    ASSUME NEW h, NEW r, NEW ht, NEW rng, WF(h, r, ht, rng),
           NEW h2, NEW l, NEW m, NEW p, NEW i, IsMerge(h, h2, l, m, p, i),
           NEW ht2, ht2 = MergeHeights(ht, h2)
    PROVE  Heights(h2, r, ht2) /\ Linkage(h2, r, ht2)
<1> DEFINE u == Len(h[l].pointers)
<1>0. /\ l # m /\ l # p /\ m # p /\ l # r /\ m # r
      /\ l \in DOMAIN h2 /\ p \in DOMAIN h2 /\ r \in DOMAIN h2 /\ i \in Nat /\ i >= 1
      /\ h[l].is_leaf = h[m].is_leaf /\ ht[l] = ht[m]
      /\ \A x \in DOMAIN h2 : x # l /\ x # p =>
           \A k, c : ChildAt(h2, x, k, c) <=> ChildAt(h, x, k, c)
      /\ \A k, c : ChildAt(h2, l, k, c) <=>
           (ChildAt(h, l, k, c) \/ (k \in Nat /\ k > u /\ ChildAt(h, m, k - u, c)))
      /\ \A k, c : ChildAt(h2, p, k, c) <=>
           (\/ k <= i /\ ChildAt(h, p, k, c)
            \/ k \in Nat /\ k > i /\ ChildAt(h, p, k + 1, c))
  BY MergeChildren
<1>1. /\ p \in DOMAIN h /\ l \in DOMAIN h /\ m \in DOMAIN h
      /\ ChildAt(h, p, i, l) /\ ChildAt(h, p, i + 1, m) /\ DOMAIN h2 = DOMAIN h \ {m}
      /\ \A x \in DOMAIN h2 :
           h2[x].parent = IF \E k : ChildAt(h, m, k, x) THEN l ELSE h[x].parent
      /\ \A x \in DOMAIN h2 : x # l /\ x # p => h2[x].is_leaf = h[x].is_leaf
      /\ h2[l].is_leaf = h[l].is_leaf /\ ~h2[p].is_leaf /\ ~h[p].is_leaf
  BY DEF IsMerge, MergeRest, MergeNode, MergeParent, ChildAt
<1>2. /\ \A x \in DOMAIN h : \A k, c : ChildAt(h, x, k, c) =>
           c \in DOMAIN h /\ h[c].parent = x /\ ht[x] = ht[c] + 1
      /\ \A x \in DOMAIN h : \A k, q, c : ChildAt(h, x, k, c) /\ ChildAt(h, x, q, c) => k = q
      /\ \A x \in DOMAIN h : x # r =>
           h[x].parent \in DOMAIN h /\ \E k : ChildAt(h, h[x].parent, k, x)
      /\ h[r].parent = NULL
  BY DEF WF, Linkage
<1>3. /\ \A x, k, c : ChildAt(h, x, k, c) => k \in Nat /\ k >= 1
      /\ \A k, c : ChildAt(h, l, k, c) => k <= u
  BY DEF ChildAt
<1>4. u \in Nat /\ ht \in [DOMAIN h -> Nat]
  BY <1>1, KeysInt DEF WF, Heights
<1> HIDE DEF u
<1>5. ht2 \in [DOMAIN h2 -> Nat] /\ \A x \in DOMAIN h2 : x \in DOMAIN h /\ x # m /\ ht2[x] = ht[x]
  BY <1>1, <1>4 DEF MergeHeights
<1>6. Heights(h2, r, ht2)
  <2>1. \A x \in DOMAIN h : h[x].is_leaf <=> ht[x] = 0
    BY DEF WF, Heights
  <2>2. \A x \in DOMAIN h : x # r => ht[x] < ht[r]
    BY DEF WF, Heights
  <2>3. \A x \in DOMAIN h2 : h2[x].is_leaf <=> ht2[x] = 0
    BY <1>0, <1>1, <1>5, <2>1
  <2> QED
    BY <1>0, <1>5, <2>2, <2>3 DEF Heights
<1>7. \A x \in DOMAIN h2 : h[x].parent # m => h2[x].parent = h[x].parent
  BY <1>1, <1>2
<1>8. ASSUME NEW x \in DOMAIN h2, NEW k, NEW c, ChildAt(h2, x, k, c)
      PROVE  c \in DOMAIN h2 /\ h2[c].parent = x /\ ht2[x] = ht2[c] + 1
  <2>1. CASE x # l /\ x # p
    <3>1. c \in DOMAIN h /\ h[c].parent = x /\ ht[x] = ht[c] + 1
      BY <1>0, <1>2, <1>5, <1>8, <2>1
    <3>2. c # m
      BY <1>1, <1>2, <2>1, <3>1
    <3> QED
      BY <1>1, <1>5, <1>7, <2>1, <3>1, <3>2
  <2>2. CASE x = l /\ ChildAt(h, l, k, c)
    <3>1. c \in DOMAIN h /\ h[c].parent = l /\ ht[l] = ht[c] + 1
      BY <1>1, <1>2, <2>2
    <3>2. c # m
      BY <1>0, <1>1, <1>2, <3>1
    <3> QED
      BY <1>0, <1>1, <1>5, <1>7, <2>2, <3>1, <3>2
  <2>3. CASE x = l /\ ChildAt(h, m, k - u, c)
    <3>1. c \in DOMAIN h /\ h[c].parent = m /\ ht[m] = ht[c] + 1
      BY <1>1, <1>2, <2>3
    <3>2. c # m
      BY <1>1, <1>2, <3>1, <1>0
    <3>3. c \in DOMAIN h2
      BY <1>1, <3>1, <3>2
    <3>4. h2[c].parent = l
      BY <1>1, <2>3, <3>3
    <3> QED
      BY <1>0, <1>5, <2>3, <3>1, <3>3, <3>4
  <2>4. CASE x = p
    <3>1. PICK q : ChildAt(h, p, q, c) /\ q # i + 1
      <4>1. CASE k <= i /\ ChildAt(h, p, k, c)
        <5>1. k # i + 1
          BY <1>0, <1>3, <4>1
        <5> QED
          BY <4>1, <5>1
      <4>2. CASE k \in Nat /\ k > i /\ ChildAt(h, p, k + 1, c)
        <5>1. k + 1 # i + 1
          BY <1>0, <4>2
        <5> QED
          BY <4>2, <5>1
      <4> QED
        BY <1>0, <1>8, <2>4, <4>1, <4>2
    <3>2. c \in DOMAIN h /\ h[c].parent = p /\ ht[p] = ht[c] + 1
      BY <1>1, <1>2, <3>1
    <3>3. c # m
      BY <1>1, <1>2, <3>1
    <3> QED
      BY <1>0, <1>1, <1>5, <1>7, <2>4, <3>2, <3>3
  <2> QED
    BY <1>0, <1>8, <2>1, <2>2, <2>3, <2>4
<1>9. ASSUME NEW x \in DOMAIN h2, NEW k, NEW q, NEW c, ChildAt(h2, x, k, c), ChildAt(h2, x, q, c)
      PROVE  k = q
  <2>0. k \in Nat /\ q \in Nat
    BY <1>9 DEF ChildAt
  <2>1. CASE x # l /\ x # p
    BY <1>0, <1>2, <1>5, <1>9, <2>1
  <2>2. CASE x = l
    <3>1. ~(ChildAt(h, l, k, c) /\ ChildAt(h, m, q - u, c))
      BY <1>0, <1>1, <1>2
    <3>2. ~(ChildAt(h, l, q, c) /\ ChildAt(h, m, k - u, c))
      BY <1>0, <1>1, <1>2
    <3>3. CASE ChildAt(h, l, k, c)
      BY <1>0, <1>1, <1>2, <1>9, <2>2, <3>1, <3>3
    <3>4. CASE ~ChildAt(h, l, k, c)
      <4>1. ChildAt(h, m, k - u, c) /\ ChildAt(h, m, q - u, c)
        BY <1>0, <1>9, <2>2, <3>2, <3>4
      <4>2. k - u = q - u
        BY <1>1, <1>2, <4>1
      <4> QED
        BY <1>4, <2>0, <4>2
    <3> QED
      BY <3>3, <3>4
  <2>3. CASE x = p
    <3>1. \/ k <= i /\ ChildAt(h, p, k, c)
          \/ k > i /\ ChildAt(h, p, k + 1, c)
      BY <1>0, <1>9, <2>3
    <3>2. \/ q <= i /\ ChildAt(h, p, q, c)
          \/ q > i /\ ChildAt(h, p, q + 1, c)
      BY <1>0, <1>9, <2>3
    <3>3. \A s, t : ChildAt(h, p, s, c) /\ ChildAt(h, p, t, c) => s = t
      BY <1>1, <1>2
    <3> QED
      BY <1>0, <2>0, <3>1, <3>2, <3>3
  <2> QED
    BY <2>1, <2>2, <2>3
<1>10. ASSUME NEW x \in DOMAIN h2, x # r
       PROVE  h2[x].parent \in DOMAIN h2 /\ \E k : ChildAt(h2, h2[x].parent, k, x)
  <2>1. x \in DOMAIN h /\ x # m /\ h[x].parent \in DOMAIN h
    BY <1>2, <1>5, <1>10
  <2>2. PICK k : ChildAt(h, h[x].parent, k, x)
    BY <1>2, <1>10, <2>1
  <2>3. k \in Nat /\ k >= 1
    BY <1>3, <2>2
  <2>4. CASE h[x].parent = m
    <3>1. h2[x].parent = l
      BY <1>1, <2>2, <2>4
    <3>2. k + u \in Nat /\ k + u > u /\ (k + u) - u = k
      BY <1>4, <2>3
    <3>3. ChildAt(h2, l, k + u, x)
      BY <1>0, <2>2, <2>4, <3>2
    <3> QED
      BY <1>0, <3>1, <3>3
  <2>5. CASE h[x].parent = l
    <3>1. h2[x].parent = l
      BY <1>0, <1>7, <2>5
    <3> QED
      BY <1>0, <2>2, <2>5, <3>1
  <2>6. CASE h[x].parent = p
    <3>1. h2[x].parent = p
      BY <1>0, <1>7, <2>6
    <3>2. k # i + 1
      BY <1>1, <2>1, <2>2, <2>6 DEF ChildAt
    <3>3. CASE k <= i
      <4>1. ChildAt(h2, p, k, x)
        BY <1>0, <2>2, <2>6, <3>3
      <4> QED
        BY <1>0, <3>1, <4>1
    <3>4. CASE k > i
      <4>1. k - 1 \in Nat /\ k - 1 > i /\ (k - 1) + 1 = k
        BY <1>0, <2>3, <3>2, <3>4
      <4>2. ChildAt(h2, p, k - 1, x)
        BY <1>0, <2>2, <2>6, <4>1
      <4> QED
        BY <1>0, <3>1, <4>2
    <3> QED
      BY <1>0, <2>3, <3>3, <3>4
  <2>7. CASE h[x].parent # m /\ h[x].parent # l /\ h[x].parent # p
    <3>1. h2[x].parent = h[x].parent /\ h[x].parent \in DOMAIN h2
      BY <1>1, <1>7, <2>1, <2>7
    <3> QED
      BY <1>0, <2>2, <2>7, <3>1
  <2> QED
    BY <2>4, <2>5, <2>6, <2>7
<1>11. h2[r].parent = NULL
  <2>1. m # NULL
    BY <1>1, TreeAssumption DEF WF, Heap, Address
  <2> QED
    BY <1>0, <1>2, <1>7, <2>1
<1>12. Linkage(h2, r, ht2)
  BY <1>0, <1>8, <1>9, <1>10, <1>11 DEF Linkage
<1> QED
  BY <1>6, <1>12

\* The names below l are those that were below l or m.
LEMMA MergeRangesOK ==
    ASSUME NEW h, NEW r, NEW ht, NEW rng, WF(h, r, ht, rng),
           NEW h2, NEW l, NEW m, NEW p, NEW i, IsMerge(h, h2, l, m, p, i),
           NEW ht2, ht2 = MergeHeights(ht, h2),
           NEW rng2, rng2 = MergeRanges(rng, h2, l, m)
    PROVE  Ranges(h2, r, rng2) /\ Apart(h2, ht2, rng2) /\ KeysOK(h2, rng2)
<1> DEFINE ks == h[p].keys
           n == Len(ks)
           sep == ks[i]
           u == Len(h[l].keys)
           v == Len(h[m].keys)
<1>0. /\ l # m /\ l # p /\ m # p /\ l # r /\ m # r
      /\ l \in DOMAIN h2 /\ p \in DOMAIN h2 /\ r \in DOMAIN h2 /\ i \in Nat /\ i >= 1
      /\ h[l].is_leaf = h[m].is_leaf /\ ht[l] = ht[m]
      /\ \A x \in DOMAIN h2 : x # l /\ x # p =>
           \A k, c : ChildAt(h2, x, k, c) <=> ChildAt(h, x, k, c)
      /\ \A k, c : ChildAt(h2, l, k, c) <=>
           (\/ ChildAt(h, l, k, c)
            \/ k \in Nat /\ k > Len(h[l].pointers) /\ ChildAt(h, m, k - Len(h[l].pointers), c))
      /\ \A k, c : ChildAt(h2, p, k, c) <=>
           (\/ k <= i /\ ChildAt(h, p, k, c)
            \/ k \in Nat /\ k > i /\ ChildAt(h, p, k + 1, c))
  BY MergeChildren
<1>1. /\ p \in DOMAIN h /\ l \in DOMAIN h /\ m \in DOMAIN h
      /\ ChildAt(h, p, i, l) /\ ChildAt(h, p, i + 1, m) /\ DOMAIN h2 = DOMAIN h \ {m}
      /\ \A x \in DOMAIN h2 : x # l /\ x # p => h2[x].is_leaf = h[x].is_leaf /\ h2[x].keys = h[x].keys
      /\ h2[l].is_leaf = h[l].is_leaf /\ ~h2[p].is_leaf /\ ~h[p].is_leaf
  BY DEF IsMerge, MergeRest, MergeNode, MergeParent, ChildAt
<1>2. /\ \A x \in DOMAIN h : \A k, c : ChildAt(h, x, k, c) =>
           c \in DOMAIN h /\ h[c].parent = x /\ rng[c] = Slot(rng[x], h[x].keys, k)
      /\ \A x \in DOMAIN h : \A k, q, c : ChildAt(h, x, k, c) /\ ChildAt(h, x, q, c) => k = q
      /\ rng \in [DOMAIN h -> SUBSET Names] /\ rng[r] = Names
  BY DEF WF, Linkage, Ranges
<1>3. \A x, k, c : ChildAt(h, x, k, c) =>
        k \in Nat /\ k >= 1 /\ k <= Len(h[x].pointers) /\ ~h[x].is_leaf
  BY DEF ChildAt, WF, Heap
<1>4. \A x \in DOMAIN h : /\ Len(h[x].keys) \in Nat
                          /\ \A k \in 1 .. Len(h[x].keys) : h[x].keys[k] \in Int
                          /\ \A k, q \in 1 .. Len(h[x].keys) : k < q => h[x].keys[k] < h[x].keys[q]
                          /\ ~h[x].is_leaf => Len(h[x].pointers) = Len(h[x].keys) + 1
  BY KeysInt DEF WF, KeysOK, Sorted
<1>5. \A x \in DOMAIN h : \A k \in 1 .. Len(h[x].keys) :
        /\ h[x].keys[k] \in rng[x]
        /\ ~h[x].is_leaf => \E y \in rng[x] : y < h[x].keys[k]
  BY DEF WF, KeysOK
<1>6. /\ n \in Nat /\ i \in 1 .. n /\ sep \in Int /\ sep \in rng[p]
      /\ (\A k \in 1 .. n : ks[k] \in Int /\ ks[k] \in rng[p] /\ \E y \in rng[p] : y < ks[k])
      /\ (\A k, q \in 1 .. n : k < q => ks[k] < ks[q])
  <2>1. i + 1 <= Len(h[p].pointers) /\ Len(h[p].pointers) = n + 1 /\ n \in Nat
    BY <1>1, <1>3, <1>4
  <2>2. i \in 1 .. n
    BY <1>0, <2>1
  <2> QED
    BY <1>1, <1>4, <1>5, <2>1, <2>2
<1>7. /\ u \in Nat /\ v \in Nat /\ \A x \in DOMAIN h : rng[x] \subseteq Int
  BY <1>1, <1>2, <1>4, TreeAssumption
<1>8. /\ rng2[l] = rng[l] \cup rng[m]
      /\ \A x \in DOMAIN h2 : x # l => rng2[x] = rng[x]
      /\ rng2 \in [DOMAIN h2 -> SUBSET Names]
  BY <1>0, <1>1, <1>2 DEF MergeRanges
<1>9. rng[l] = Slot(rng[p], ks, i) /\ rng[m] = Slot(rng[p], ks, i + 1)
  BY <1>1, <1>2
<1>10. /\ Len(h2[p].keys) = n - 1
       /\ \A k \in 1 .. n - 1 : h2[p].keys[k] = IF k < i THEN ks[k] ELSE ks[k + 1]
  BY DEF IsMerge, MergeParent
<1>11. /\ Len(h2[l].keys) = u + Stays(h, l) + v
       /\ \A k \in 1 .. u : h2[l].keys[k] = h[l].keys[k]
       /\ ~h[l].is_leaf => h2[l].keys[u + 1] = sep
       /\ \A k \in 1 .. v : h2[l].keys[k + (u + Stays(h, l))] = h[m].keys[k]
  BY DEF IsMerge, MergeNode
<1>12. /\ Stays(h, l) \in {0, 1} /\ (~h[l].is_leaf => Stays(h, l) = 1)
       /\ (h[l].is_leaf => Stays(h, l) = 0)
  BY DEF Stays
<1>13. /\ \A x \in rng[p] : \A k : x \in Slot(rng[p], ks, k) <=>
            ((k > 1 => ks[k - 1] <= x) /\ (k <= n => x < ks[k]))
       /\ \A k : Slot(rng[p], ks, k) \subseteq rng[p] /\ Slot(rng[p], h2[p].keys, k) \subseteq rng[p]
       /\ \A x \in rng[p] : \A k : x \in Slot(rng[p], h2[p].keys, k) <=>
            ((k > 1 => h2[p].keys[k - 1] <= x) /\ (k <= Len(h2[p].keys) => x < h2[p].keys[k]))
  BY DEF Slot
<1> HIDE DEF ks, n, sep, u, v
<1>14. sep = ks[i]
  BY DEF sep
<1>15. /\ \A x \in rng[l] : x \in rng[p] /\ x < sep /\ (i > 1 => ks[i - 1] <= x)
       /\ \A x \in rng[m] : x \in rng[p] /\ sep <= x /\ (i + 1 <= n => x < ks[i + 1])
  <2>1. i + 1 > 1 /\ (i + 1) - 1 = i /\ i <= n
    BY <1>6
  <2> QED
    BY <1>9, <1>13, <1>14, <2>1
<1>16. sep \in rng[m] /\ \E y \in rng[l] : y < sep
  <2>1. sep \in rng[m]
    <3>1. i + 1 > 1 /\ (i + 1) - 1 = i /\ (i + 1 <= n => sep < ks[i + 1])
      BY <1>6, <1>14
    <3>2. sep <= sep
      BY <1>6
    <3> QED
      BY <1>6, <1>9, <1>13, <1>14, <3>1, <3>2
  <2>2. CASE i > 1
    <3>1. i - 1 \in 1 .. n /\ i - 1 < i
      BY <1>6, <2>2
    <3>2. ks[i - 1] \in rng[p] /\ ks[i - 1] < sep /\ ks[i - 1] \in Int
      BY <1>6, <1>14, <3>1
    <3>3. ks[i - 1] \in Slot(rng[p], ks, i)
      BY <1>6, <1>13, <1>14, <3>2
    <3> QED
      BY <1>9, <2>1, <3>2, <3>3
  <2>3. CASE ~(i > 1)
    <3>1. PICK y \in rng[p] : y < sep
      BY <1>6, <1>14
    <3>2. y \in Slot(rng[p], ks, i)
      BY <1>13, <1>14, <2>3, <3>1
    <3> QED
      BY <1>9, <2>1, <3>1, <3>2
  <2> QED
    BY <2>1, <2>2, <2>3
<1>17. ASSUME NEW k, NEW c, ChildAt(h2, p, k, c)
       PROVE  rng2[c] = Slot(rng2[p], h2[p].keys, k)
  <2>0. rng2[p] = rng[p]
    BY <1>0, <1>8
  <2>1. CASE k <= i /\ ChildAt(h, p, k, c)
    <3>1. k \in Nat /\ k >= 1 /\ rng[c] = Slot(rng[p], ks, k) /\ c \in DOMAIN h
      BY <1>1, <1>2, <1>3, <2>1 DEF ks
    <3>2. CASE k < i
      <4>1. c # l /\ c # m
        BY <1>0, <1>1, <1>2, <2>1, <3>1, <3>2
      <4>2. /\ k <= n - 1 /\ k <= n /\ h2[p].keys[k] = ks[k]
            /\ (k > 1 => h2[p].keys[k - 1] = ks[k - 1])
        <5>1. k \in 1 .. n - 1 /\ k <= n - 1 /\ k <= n
          BY <1>6, <3>1, <3>2
        <5>2. k > 1 => k - 1 \in 1 .. n - 1 /\ k - 1 < i
          BY <1>6, <3>1, <3>2
        <5> QED
          BY <1>10, <3>2, <5>1, <5>2
      <4>3. \A x \in rng[p] : x \in Slot(rng[p], ks, k) <=> x \in Slot(rng[p], h2[p].keys, k)
        BY <1>10, <1>13, <4>2
      <4>4. Slot(rng[p], ks, k) = Slot(rng[p], h2[p].keys, k)
        BY <1>13, <4>3
      <4> QED
        BY <1>1, <1>8, <2>0, <3>1, <4>1, <4>4
    <3>3. CASE k = i
      <4>1. c = l
        BY <1>1, <2>1, <3>3 DEF ChildAt
      <4>2. /\ i > 1 => h2[p].keys[i - 1] = ks[i - 1] /\ ks[i - 1] \in Int /\ ks[i - 1] < sep
            /\ i <= n - 1 <=> i + 1 <= n
            /\ i <= n - 1 => h2[p].keys[i] = ks[i + 1] /\ sep < ks[i + 1] /\ ks[i + 1] \in Int
        BY <1>6, <1>10, <1>14
      <4>3. ASSUME NEW x \in rng[p]
            PROVE  x \in rng2[l] <=> x \in Slot(rng[p], h2[p].keys, i)
        <5>1. x \in Int
          BY <1>1, <1>7
        <5>2. x \in rng[l] <=> ((i > 1 => ks[i - 1] <= x) /\ x < sep)
          BY <1>6, <1>9, <1>13, <1>14
        <5>3. x \in rng[m] <=> (sep <= x /\ (i + 1 <= n => x < ks[i + 1]))
          <6>1. i + 1 > 1 /\ (i + 1) - 1 = i
            BY <1>6
          <6> QED
            BY <1>9, <1>13, <1>14, <6>1
        <5>4. x \in Slot(rng[p], h2[p].keys, i) <=>
                ((i > 1 => ks[i - 1] <= x) /\ (i + 1 <= n => x < ks[i + 1]))
          BY <1>10, <1>13, <4>2
        <5>5. x \in rng2[l] <=> (x \in rng[l] \/ x \in rng[m])
          BY <1>8
        <5> QED
          BY <1>6, <4>2, <5>1, <5>2, <5>3, <5>4, <5>5
      <4>4. rng2[l] \subseteq rng[p]
        BY <1>8, <1>15
      <4>5. rng2[l] = Slot(rng[p], h2[p].keys, i)
        BY <1>13, <4>3, <4>4
      <4> QED
        BY <2>0, <3>3, <4>1, <4>5
    <3> QED
      BY <1>6, <2>1, <3>1, <3>2, <3>3
  <2>2. CASE k \in Nat /\ k > i /\ ChildAt(h, p, k + 1, c)
    <3>1. rng[c] = Slot(rng[p], ks, k + 1) /\ c \in DOMAIN h /\ k + 1 <= Len(h[p].pointers)
      BY <1>1, <1>2, <1>3, <2>2 DEF ks
    <3>2. Len(h[p].pointers) = n + 1
      BY <1>1, <1>4 DEF n, ks
    <3>3. c # l /\ c # m
      <4>1. k + 1 # i /\ k + 1 # i + 1
        BY <1>6, <2>2
      <4> QED
        BY <1>1, <1>2, <2>2, <4>1
    <3>4. /\ k > 1 /\ k + 1 > 1 /\ (k + 1) - 1 = k
          /\ h2[p].keys[k - 1] = ks[k]
          /\ (k <= n - 1 <=> k + 1 <= n) /\ (k <= n - 1 => h2[p].keys[k] = ks[k + 1])
      <4>1. /\ k > 1 /\ k + 1 > 1 /\ (k + 1) - 1 = k /\ (k <= n - 1 <=> k + 1 <= n)
            /\ k - 1 \in 1 .. n - 1 /\ ~(k - 1 < i) /\ (k - 1) + 1 = k
            /\ (k <= n - 1 => k \in 1 .. n - 1) /\ ~(k < i)
        BY <1>6, <2>2, <3>1, <3>2
      <4>2. h2[p].keys[k - 1] = ks[k]
        BY <1>10, <4>1
      <4>3. k <= n - 1 => h2[p].keys[k] = ks[k + 1]
        BY <1>10, <4>1
      <4> QED
        BY <4>1, <4>2, <4>3
    <3>5. \A x \in rng[p] : x \in Slot(rng[p], ks, k + 1) <=> x \in Slot(rng[p], h2[p].keys, k)
      BY <1>10, <1>13, <3>4
    <3>6. Slot(rng[p], ks, k + 1) = Slot(rng[p], h2[p].keys, k)
      BY <1>13, <3>5
    <3> QED
      BY <1>1, <1>8, <2>0, <3>1, <3>3, <3>6
  <2> QED
    BY <1>0, <1>17, <2>1, <2>2
<1>18. ASSUME NEW k, NEW c, ChildAt(h2, l, k, c)
       PROVE  rng2[c] = Slot(rng2[l], h2[l].keys, k)
  <2>0. ~h[l].is_leaf /\ ~h[m].is_leaf
    BY <1>0, <1>3, <1>18
  <2>1. /\ Len(h2[l].keys) = u + 1 + v /\ h2[l].keys[u + 1] = sep
        /\ \A q \in 1 .. v : h2[l].keys[q + (u + 1)] = h[m].keys[q]
    BY <1>11, <1>12, <2>0
  <2>2. /\ Len(h[l].pointers) = u + 1 /\ Len(h[m].pointers) = v + 1
    BY <1>1, <1>4, <2>0 DEF u, v
  <2>3. /\ \A q \in 1 .. u : h[l].keys[q] \in Int /\ h[l].keys[q] < sep
        /\ \A q \in 1 .. v : h[m].keys[q] \in Int /\ sep <= h[m].keys[q]
    BY <1>1, <1>4, <1>5, <1>15 DEF u, v
  <2>4. \A x \in rng2[l] : \A q : x \in Slot(rng2[l], h2[l].keys, q) <=>
          ((q > 1 => h2[l].keys[q - 1] <= x) /\ (q <= u + 1 + v => x < h2[l].keys[q]))
    BY <2>1 DEF Slot
  <2>5. /\ \A x : \A q : x \in Slot(rng[l], h[l].keys, q) <=>
             (x \in rng[l] /\ (q > 1 => h[l].keys[q - 1] <= x) /\ (q <= u => x < h[l].keys[q]))
        /\ \A x : \A q : x \in Slot(rng[m], h[m].keys, q) <=>
             (x \in rng[m] /\ (q > 1 => h[m].keys[q - 1] <= x) /\ (q <= v => x < h[m].keys[q]))
    BY DEF Slot, u, v
  <2>6. Slot(rng2[l], h2[l].keys, k) \subseteq rng2[l]
    BY DEF Slot
  <2>7. \A x \in rng2[l] : x \in Int /\ (x \in rng[l] <=> x < sep) /\ (x \in rng[m] <=> sep <= x)
    <3>1. SUFFICES ASSUME NEW x \in rng2[l]
                   PROVE  x \in Int /\ (x \in rng[l] <=> x < sep) /\ (x \in rng[m] <=> sep <= x)
      OBVIOUS
    <3>2. x \in rng[l] \/ x \in rng[m]
      BY <1>8
    <3>3. x \in Int
      BY <1>1, <1>7, <3>2
    <3> QED
      BY <1>6, <1>15, <3>2, <3>3
  <2>8. CASE ChildAt(h, l, k, c)
    <3>1. /\ k \in Nat /\ k >= 1 /\ k <= u + 1
          /\ rng[c] = Slot(rng[l], h[l].keys, k) /\ c \in DOMAIN h /\ h[c].parent = l
      BY <1>1, <1>2, <1>3, <2>2, <2>8
    <3>2. c # l /\ c # m
      BY <1>0, <1>1, <1>2, <2>8, <3>1 DEF WF, Linkage, Heights
    <3>3. /\ k > 1 => h2[l].keys[k - 1] = h[l].keys[k - 1]
          /\ k <= u => h2[l].keys[k] = h[l].keys[k] /\ h[l].keys[k] \in Int /\ h[l].keys[k] < sep
          /\ k > u => h2[l].keys[k] = sep
          /\ k <= u + 1 + v
      <4>1. /\ k > 1 => k - 1 \in 1 .. u
            /\ k <= u => k \in 1 .. u
            /\ k > u => k = u + 1
            /\ k <= u + 1 + v
        BY <1>7, <3>1
      <4> QED
        BY <1>11, <2>1, <2>3, <4>1
    <3>4. ASSUME NEW x \in rng2[l]
          PROVE  x \in rng[c] <=> x \in Slot(rng2[l], h2[l].keys, k)
      <4>1. x \in rng[c] <=> (x < sep /\ (k > 1 => h[l].keys[k - 1] <= x) /\ (k <= u => x < h[l].keys[k]))
        BY <2>5, <2>7, <3>1
      <4>2. x \in Slot(rng2[l], h2[l].keys, k) <=>
              ((k > 1 => h[l].keys[k - 1] <= x) /\ x < h2[l].keys[k])
        BY <2>4, <3>3
      <4>3. CASE k <= u
        BY <1>6, <2>7, <3>3, <4>1, <4>2, <4>3
      <4>4. CASE k > u
        <5>1. ~(k <= u)
          BY <1>7, <3>1, <4>4
        <5> QED
          BY <3>3, <4>1, <4>2, <4>4, <5>1
      <4> QED
        BY <1>7, <3>1, <4>3, <4>4
    <3>5. rng[c] \subseteq rng2[l]
      BY <1>8, <2>5, <3>1
    <3>6. rng[c] = Slot(rng2[l], h2[l].keys, k)
      BY <2>6, <3>4, <3>5
    <3> QED
      BY <1>1, <1>8, <3>1, <3>2, <3>6
  <2>9. CASE k \in Nat /\ k > u + 1 /\ ChildAt(h, m, k - (u + 1), c)
    <3> DEFINE q == k - (u + 1)
    <3>1. /\ q \in Nat /\ q >= 1 /\ q <= v + 1
          /\ rng[c] = Slot(rng[m], h[m].keys, q) /\ c \in DOMAIN h /\ h[c].parent = m
      BY <1>1, <1>2, <1>3, <2>2, <2>9
    <3>2. c # l /\ c # m
      BY <1>0, <1>1, <1>2, <2>9, <3>1 DEF WF, Linkage, Heights
    <3>3. /\ k > 1 /\ k = q + (u + 1) /\ (k <= u + 1 + v <=> q <= v)
          /\ (q = 1 => k - 1 = u + 1) /\ (q > 1 => k - 1 = (q - 1) + (u + 1))
      BY <1>7, <2>9
    <3> HIDE DEF q
    <3>4. /\ q = 1 => h2[l].keys[k - 1] = sep
          /\ q > 1 => /\ h2[l].keys[k - 1] = h[m].keys[q - 1] /\ sep <= h[m].keys[q - 1]
                      /\ h[m].keys[q - 1] \in Int
          /\ q <= v => h2[l].keys[k] = h[m].keys[q]
      <4>1. q > 1 => q - 1 \in 1 .. v
        BY <1>7, <3>1
      <4>2. q <= v => q \in 1 .. v
        BY <1>7, <3>1
      <4> QED
        BY <2>1, <2>3, <3>3, <4>1, <4>2
    <3>5. ASSUME NEW x \in rng2[l]
          PROVE  x \in rng[c] <=> x \in Slot(rng2[l], h2[l].keys, k)
      <4>1. x \in rng[c] <=> (sep <= x /\ (q > 1 => h[m].keys[q - 1] <= x) /\ (q <= v => x < h[m].keys[q]))
        BY <2>5, <2>7, <3>1
      <4>2. x \in Slot(rng2[l], h2[l].keys, k) <=>
              (h2[l].keys[k - 1] <= x /\ (q <= v => x < h[m].keys[q]))
        BY <2>4, <3>3, <3>4
      <4>3. CASE q = 1
        BY <3>4, <4>1, <4>2, <4>3
      <4>4. CASE q > 1
        BY <1>6, <2>7, <3>4, <4>1, <4>2, <4>4
      <4> QED
        BY <3>1, <4>3, <4>4
    <3>6. rng[c] \subseteq rng2[l]
      BY <1>8, <2>5, <3>1
    <3>7. rng[c] = Slot(rng2[l], h2[l].keys, k)
      BY <2>6, <3>5, <3>6
    <3> QED
      BY <1>1, <1>8, <3>1, <3>2, <3>7
  <2> QED
    BY <1>0, <1>18, <2>2, <2>8, <2>9
<1>19. ASSUME NEW x \in DOMAIN h2, x # l, x # p, NEW k, NEW c, ChildAt(h2, x, k, c)
       PROVE  rng2[c] = Slot(rng2[x], h2[x].keys, k)
  <2>1. ChildAt(h, x, k, c) /\ h2[x].keys = h[x].keys /\ x \in DOMAIN h
    BY <1>0, <1>1, <1>19
  <2>2. c \in DOMAIN h /\ h[c].parent = x /\ rng[c] = Slot(rng[x], h[x].keys, k)
    BY <1>2, <2>1
  <2>3. c # l /\ c # m
    BY <1>1, <1>2, <1>19, <2>2
  <2> QED
    BY <1>1, <1>8, <1>19, <2>1, <2>2, <2>3
<1>20. Ranges(h2, r, rng2)
  <2>1. SUFFICES ASSUME NEW x \in DOMAIN h2, NEW k, NEW c, ChildAt(h2, x, k, c)
                 PROVE  rng2[c] = Slot(rng2[x], h2[x].keys, k)
    BY <1>0, <1>2, <1>8 DEF Ranges
  <2>2. CASE x = l
    BY <1>18, <2>1, <2>2, Zenon
  <2>3. CASE x = p
    BY <1>17, <2>1, <2>3, Zenon
  <2>4. CASE x # l /\ x # p
    BY <1>19, <2>1, <2>4, Zenon
  <2> QED
    BY <2>2, <2>3, <2>4, Zenon
<1>21. Apart(h2, ht2, rng2)
  <2>1. \A x \in DOMAIN h2 : x \in DOMAIN h /\ x # m /\ ht2[x] = ht[x]
    BY <1>1 DEF MergeHeights
  <2>2. \A x, y \in DOMAIN h : x # y /\ ht[x] = ht[y] => rng[x] \cap rng[y] = {}
    BY DEF WF, Apart
  <2>3. ASSUME NEW x \in DOMAIN h2, x # l, ht[x] = ht[l] PROVE rng2[x] \cap rng2[l] = {}
    <3>1. rng[x] \cap rng[l] = {} /\ rng[x] \cap rng[m] = {}
      BY <1>0, <1>1, <2>1, <2>2, <2>3
    <3> QED
      BY <1>8, <2>3, <3>1
  <2>4. ASSUME NEW x \in DOMAIN h2, NEW y \in DOMAIN h2, x # y, ht[x] = ht[y], x # l, y # l
        PROVE  rng2[x] \cap rng2[y] = {}
    BY <1>8, <2>1, <2>2, <2>4
  <2>5. SUFFICES ASSUME NEW x \in DOMAIN h2, NEW y \in DOMAIN h2, x # y, ht[x] = ht[y]
                 PROVE  rng2[x] \cap rng2[y] = {}
    BY <2>1 DEF Apart
  <2>6. CASE x = l
    BY <2>3, <2>5, <2>6
  <2>7. CASE y = l
    BY <2>3, <2>5, <2>7
  <2> QED
    BY <2>4, <2>5, <2>6, <2>7
<1>22. /\ \A k, q \in 1 .. Len(h2[p].keys) : k < q => h2[p].keys[k] < h2[p].keys[q]
       /\ \A k \in 1 .. Len(h2[p].keys) :
            h2[p].keys[k] \in rng2[p] /\ \E y \in rng2[p] : y < h2[p].keys[k]
  <2>1. rng2[p] = rng[p]
    BY <1>0, <1>8
  <2>2. \A k \in 1 .. n - 1 : k \in 1 .. n /\ k + 1 \in 1 .. n
    BY <1>6
  <2>3. \A k \in 1 .. n - 1 : h2[p].keys[k] \in rng2[p] /\ \E y \in rng2[p] : y < h2[p].keys[k]
    BY <1>6, <1>10, <2>1, <2>2
  <2>4. ASSUME NEW k \in 1 .. n - 1, NEW q \in 1 .. n - 1, k < q
        PROVE  h2[p].keys[k] < h2[p].keys[q]
    <3>1. PICK k1 \in 1 .. n : h2[p].keys[k] = ks[k1] /\ k1 = IF k < i THEN k ELSE k + 1
      BY <1>10, <2>2
    <3>2. PICK q1 \in 1 .. n : h2[p].keys[q] = ks[q1] /\ q1 = IF q < i THEN q ELSE q + 1
      BY <1>10, <2>2
    <3>3. k1 < q1
      BY <1>6, <2>4, <3>1, <3>2
    <3> QED
      BY <1>6, <3>1, <3>2, <3>3
  <2> QED
    BY <1>10, <2>3, <2>4
<1>23. /\ \A k, q \in 1 .. Len(h2[l].keys) : k < q => h2[l].keys[k] < h2[l].keys[q]
       /\ \A k \in 1 .. Len(h2[l].keys) :
            /\ h2[l].keys[k] \in rng2[l]
            /\ ~h2[l].is_leaf => \E y \in rng2[l] : y < h2[l].keys[k]
  <2> DEFINE d == Stays(h, l)
             w == u + d + v
             K == h2[l].keys
  <2>1. /\ d \in {0, 1} /\ (~h[l].is_leaf <=> d = 1) /\ Len(K) = w
        /\ \A k \in 1 .. u : K[k] = h[l].keys[k]
        /\ d = 1 => K[u + 1] = sep
        /\ \A k \in 1 .. v : K[k + (u + d)] = h[m].keys[k]
    BY <1>11, <1>12
  <2>2. /\ \A k \in 1 .. u : h[l].keys[k] \in Int /\ h[l].keys[k] \in rng[l] /\ h[l].keys[k] < sep
        /\ \A k \in 1 .. u : d = 1 => \E y \in rng[l] : y < h[l].keys[k]
        /\ \A k, q \in 1 .. u : k < q => h[l].keys[k] < h[l].keys[q]
        /\ \A k \in 1 .. v : h[m].keys[k] \in Int /\ h[m].keys[k] \in rng[m] /\ sep <= h[m].keys[k]
        /\ \A k \in 1 .. v : d = 1 => \E y \in rng[m] : y < h[m].keys[k]
        /\ \A k, q \in 1 .. v : k < q => h[m].keys[k] < h[m].keys[q]
    BY <1>0, <1>1, <1>4, <1>5, <1>15, <2>1 DEF u, v
  <2>3. \A k \in 1 .. v : d = 1 => sep < h[m].keys[k]
    <3>1. SUFFICES ASSUME NEW k \in 1 .. v, d = 1 PROVE sep < h[m].keys[k]
      OBVIOUS
    <3>2. PICK y \in rng[m] : y < h[m].keys[k]
      BY <2>2, <3>1
    <3>3. sep <= y /\ y \in Int
      BY <1>1, <1>7, <1>15
    <3> QED
      BY <1>6, <2>2, <3>2, <3>3
  <2>4. w \in Nat /\ \A k \in 1 .. w : \/ k \in 1 .. u
                                       \/ k = u + 1 /\ d = 1
                                       \/ k - (u + d) \in 1 .. v /\ k = (k - (u + d)) + (u + d)
    <3> HIDE DEF d
    <3>1. CASE d = 0
      BY <1>7, <3>1
    <3>2. CASE d = 1
      BY <1>7, <3>2
    <3> QED
      BY <2>1, <3>1, <3>2
  <2> HIDE DEF d, w, K
  <2>5. ASSUME NEW k \in 1 .. w
        PROVE  K[k] \in rng2[l] /\ (d = 1 => \E y \in rng2[l] : y < K[k])
    <3>1. CASE k \in 1 .. u
      BY <1>8, <2>1, <2>2, <3>1
    <3>2. CASE k = u + 1 /\ d = 1
      BY <1>8, <1>16, <2>1, <3>2
    <3>3. CASE k - (u + d) \in 1 .. v /\ k = (k - (u + d)) + (u + d)
      <4>1. K[k] = h[m].keys[k - (u + d)]
        BY <2>1, <3>3
      <4> QED
        BY <1>8, <2>2, <3>3, <4>1
    <3> QED
      BY <2>4, <3>1, <3>2, <3>3
  <2>6. ASSUME NEW k \in 1 .. w, NEW q \in 1 .. w, k < q PROVE K[k] < K[q]
    <3>1. CASE q \in 1 .. u
      <4>1. k \in 1 .. u
        BY <1>7, <2>6, <3>1
      <4> QED
        BY <2>1, <2>2, <2>6, <3>1, <4>1
    <3>2. CASE q = u + 1 /\ d = 1
      <4>1. k \in 1 .. u
        BY <1>7, <2>6, <3>2
      <4> QED
        BY <2>1, <2>2, <3>2, <4>1
    <3>3. CASE q - (u + d) \in 1 .. v /\ q = (q - (u + d)) + (u + d)
      <4> DEFINE q1 == q - (u + d)
      <4>1. K[q] = h[m].keys[q1] /\ q1 \in 1 .. v
        BY <2>1, <3>3
      <4>2. CASE k \in 1 .. u
        <5>1. K[k] < sep /\ K[k] \in Int
          BY <2>1, <2>2, <4>2
        <5>2. sep <= K[q] /\ K[q] \in Int
          BY <2>2, <4>1
        <5> QED
          BY <1>6, <5>1, <5>2
      <4>3. CASE k = u + 1 /\ d = 1
        BY <2>1, <2>3, <4>1, <4>3
      <4>4. CASE k - (u + d) \in 1 .. v /\ k = (k - (u + d)) + (u + d)
        <5>1. K[k] = h[m].keys[k - (u + d)]
          BY <2>1, <4>4
        <5>2. k - (u + d) < q1
          BY <1>7, <2>1, <2>6
        <5> QED
          BY <2>2, <4>1, <4>4, <5>1, <5>2
      <4> QED
        BY <2>4, <4>2, <4>3, <4>4
    <3> QED
      BY <2>4, <3>1, <3>2, <3>3
  <2> QED
    BY <1>1, <2>1, <2>5, <2>6 DEF K
<1>24. KeysOK(h2, rng2)
  <2>1. ASSUME NEW x \in DOMAIN h2, x # l, x # p
        PROVE  /\ Sorted(h2[x].keys)
               /\ \A k \in 1 .. Len(h2[x].keys) :
                    /\ h2[x].keys[k] \in rng2[x]
                    /\ ~h2[x].is_leaf => \E y \in rng2[x] : y < h2[x].keys[k]
    BY <1>1, <1>4, <1>5, <1>8, <2>1 DEF Sorted
  <2> QED
    BY <1>22, <1>23, <2>1 DEF KeysOK, Sorted
<1> QED
  BY <1>20, <1>21, <1>24
\* The tree with two nodes merged is a tree with the same names in its leaves.
LEMMA MergeTree ==
    ASSUME NEW h, NEW r, NEW ix, Good(h, r, ix),
           NEW h2, NEW l, NEW m, NEW p, NEW i, IsMerge(h, h2, l, m, p, i)
    PROVE  Good(h2, r, ix)
<1>1. PICK ht, rng : WF(h, r, ht, rng) /\ (0 \notin CondGarbage => Content(h, rng, ix))
  BY DEF Good
<1> DEFINE ht2  == MergeHeights(ht, h2)
           rng2 == MergeRanges(rng, h2, l, m)
<1>2. Heights(h2, r, ht2) /\ Linkage(h2, r, ht2)
  BY <1>1, MergeLinkage
<1>3. Ranges(h2, r, rng2) /\ Apart(h2, ht2, rng2) /\ KeysOK(h2, rng2)
  BY <1>1, MergeRangesOK
<1>4. Heap(h2)
  BY DEF IsMerge
<1>5. ASSUME Content(h, rng, ix) PROVE Content(h2, rng2, ix)
  <2>1. l # m /\ l # p /\ m # p /\ l \in DOMAIN h2 /\ h[l].is_leaf = h[m].is_leaf
    BY <1>1, MergeChildren
  <2>2. /\ DOMAIN h2 = DOMAIN h \ {m} /\ l \in DOMAIN h /\ m \in DOMAIN h
        /\ \A x \in DOMAIN h2 : x # l /\ x # p =>
             h2[x].is_leaf = h[x].is_leaf /\ h2[x].keys = h[x].keys /\ h2[x].pointers = h[x].pointers
        /\ ~h2[p].is_leaf /\ h2[l].is_leaf = h[l].is_leaf
    BY DEF IsMerge, MergeRest, MergeParent, MergeNode
  <2>3. /\ \A x \in DOMAIN h2 : x # l => rng2[x] = rng[x]
        /\ rng2[l] = rng[l] \cup rng[m]
    BY <2>1, <2>2 DEF MergeRanges
  <2> DEFINE u == Len(h[l].keys)
             v == Len(h[m].keys)
  <2>4. u \in Nat /\ v \in Nat
    BY <1>1, <2>2, KeysInt DEF WF
  <2>5. h[l].is_leaf =>
          /\ Len(h2[l].keys) = u + v
          /\ \A k \in 1 .. u : h2[l].keys[k] = h[l].keys[k] /\ h2[l].pointers[k] = h[l].pointers[k]
          /\ \A k \in 1 .. v :
               h2[l].keys[k + u] = h[m].keys[k] /\ h2[l].pointers[k + u] = h[m].pointers[k]
    <3> SUFFICES ASSUME h[l].is_leaf
                 PROVE  /\ Len(h2[l].keys) = u + v
                        /\ \A k \in 1 .. u : /\ h2[l].keys[k] = h[l].keys[k]
                                             /\ h2[l].pointers[k] = h[l].pointers[k]
                        /\ \A k \in 1 .. v : /\ h2[l].keys[k + u] = h[m].keys[k]
                                             /\ h2[l].pointers[k + u] = h[m].pointers[k]
      OBVIOUS
    <3>1. Stays(h, l) = 0 /\ u + 0 = u /\ u + 0 + v = u + v
      BY <2>4 DEF Stays
    <3>2. Len(h[l].pointers) = u /\ Len(h[m].pointers) = v
      BY <1>1, <2>1, <2>2, KeysInt DEF WF
    <3> QED
      BY <3>1, <3>2 DEF IsMerge, MergeNode
  <2> DEFINE Holds(k, x, R) ==
        /\ \A q \in 1 .. Len(k[x].keys) :
             k[x].keys[q] \in DOMAIN ix /\ ix[k[x].keys[q]] = k[x].pointers[q]
        /\ \A y \in R \cap DOMAIN ix : \E q \in 1 .. Len(k[x].keys) : k[x].keys[q] = y
  <2>6. \A x \in DOMAIN h : h[x].is_leaf => Holds(h, x, rng[x])
    BY <1>5 DEF Content
  <2>7. ASSUME NEW x \in DOMAIN h2, x # l, h2[x].is_leaf PROVE Holds(h2, x, rng2[x])
    BY <2>2, <2>3, <2>6, <2>7
  <2>8. ASSUME h[l].is_leaf PROVE Holds(h2, l, rng2[l])
    <3>1. /\ \A k \in 1 .. u : h[l].keys[k] \in DOMAIN ix /\ ix[h[l].keys[k]] = h[l].pointers[k]
          /\ \A y \in rng[l] \cap DOMAIN ix : \E k \in 1 .. u : h[l].keys[k] = y
      BY <2>2, <2>6, <2>8
    <3>2. /\ \A k \in 1 .. v : h[m].keys[k] \in DOMAIN ix /\ ix[h[m].keys[k]] = h[m].pointers[k]
          /\ \A y \in rng[m] \cap DOMAIN ix : \E k \in 1 .. v : h[m].keys[k] = y
      BY <2>1, <2>2, <2>6, <2>8
    <3>3. /\ Len(h2[l].keys) = u + v
          /\ \A k \in 1 .. u : h2[l].keys[k] = h[l].keys[k] /\ h2[l].pointers[k] = h[l].pointers[k]
          /\ \A k \in 1 .. v :
               h2[l].keys[k + u] = h[m].keys[k] /\ h2[l].pointers[k + u] = h[m].pointers[k]
      BY <2>5, <2>8
    <3> HIDE DEF u, v
    <3>4. \A k \in 1 .. u + v : k \in 1 .. u \/ (k - u \in 1 .. v /\ (k - u) + u = k)
      BY <2>4
    <3>5. ASSUME NEW k \in 1 .. u + v
          PROVE  h2[l].keys[k] \in DOMAIN ix /\ ix[h2[l].keys[k]] = h2[l].pointers[k]
      <4>1. CASE k \in 1 .. u
        BY <3>1, <3>3, <4>1
      <4>2. CASE k - u \in 1 .. v /\ (k - u) + u = k
        <5>1. h2[l].keys[k] = h[m].keys[k - u] /\ h2[l].pointers[k] = h[m].pointers[k - u]
          BY <3>3, <4>2
        <5> QED
          BY <3>2, <4>2, <5>1
      <4> QED
        BY <3>4, <4>1, <4>2
    <3>6. /\ \A k \in 1 .. u : k \in 1 .. u + v
          /\ \A k \in 1 .. v : k + u \in 1 .. u + v
      BY <2>4
    <3>7. ASSUME NEW y \in rng2[l] \cap DOMAIN ix
          PROVE  \E k \in 1 .. u + v : h2[l].keys[k] = y
      <4>1. CASE y \in rng[l]
        <5>1. PICK k \in 1 .. u : h[l].keys[k] = y
          BY <3>1, <4>1
        <5> QED
          BY <3>3, <3>6, <5>1
      <4>2. CASE y \in rng[m]
        <5>1. PICK k \in 1 .. v : h[m].keys[k] = y
          BY <3>2, <4>2
        <5> QED
          BY <3>3, <3>6, <5>1
      <4> QED
        BY <2>3, <4>1, <4>2
    <3> QED
      BY <3>3, <3>5, <3>7
  <2> HIDE DEF Holds
  <2>9. \A x \in DOMAIN h2 : h2[x].is_leaf => Holds(h2, x, rng2[x])
    BY <2>2, <2>7, <2>8
  <2> QED
    BY <2>9 DEF Content, Holds
<1> HIDE DEF ht2, rng2
<1>6. WF(h2, r, ht2, rng2)
  BY <1>2, <1>3, <1>4 DEF WF
<1> QED
  BY <1>1, <1>5, <1>6 DEF Good

-----------------------------------------------------------------------------
(* The functions that the heaps are made with.                                *)


\* The entries ks, ps fit a leaf, or another node.
Fits(leaf, ks, ps) ==
    /\ ks \in Seq(Names)
    /\ leaf => ps \in Seq(Files) /\ Len(ps) = Len(ks)
    /\ ~leaf => ps \in Seq(Address) /\ Len(ps) = Len(ks) + 1

\* A node is well formed when it has a type and its entries fit together.
LEMMA NodeFits ==
    ASSUME NEW n
    PROVE  NodeOK(n) <=> /\ n \in NodeType
                         /\ Fits(n.is_leaf, n.keys, n.pointers)
<1>1. n \in NodeType => n.keys \in Seq(Names)
  BY DEF NodeType
<1> QED
  BY <1>1 DEF NodeOK, Fits

\* The pointers of a leaf and of another node have one type.
LEMMA FitsPointers ==
    ASSUME NEW leaf \in BOOLEAN, NEW ks, NEW ps, Fits(leaf, ks, ps)
    PROVE  ps \in Seq(Files \cup Address)
<1>1. CASE leaf
  <2>1. ps \in Seq(Files)
    BY <1>1 DEF Fits
  <2> QED
    BY <2>1
<1>2. CASE ~leaf
  <2>1. ps \in Seq(Address)
    BY <1>2 DEF Fits
  <2> QED
    BY <2>1
<1> QED
  BY <1>1, <1>2

\* How the heap h2 differs from h: a node has new entries, there is a new node,
\* nodes have a new parent, there is a node less.
IsSet(h, h2, a, ks, ps) ==
    /\ Heap(h2) /\ DOMAIN h2 = DOMAIN h
    /\ h2[a].keys = ks /\ h2[a].pointers = ps
    /\ h2[a].is_leaf = h[a].is_leaf /\ h2[a].parent = h[a].parent
    /\ \A x \in DOMAIN h : x # a => h2[x] = h[x]
IsAlloc(h, h2, a, n) ==
    /\ Heap(h2) /\ DOMAIN h2 = DOMAIN h \cup {a} /\ h2[a] = n
    /\ \A x \in DOMAIN h : x # a => h2[x] = h[x]
IsAdopt(h, h2, cs, p) ==
    /\ Heap(h2) /\ DOMAIN h2 = DOMAIN h
    /\ \A x \in DOMAIN h :
         /\ h2[x].is_leaf = h[x].is_leaf /\ h2[x].keys = h[x].keys /\ h2[x].pointers = h[x].pointers
         /\ h2[x].parent = IF x \in cs THEN p ELSE h[x].parent
IsFree(h, h2, a) ==
    /\ Heap(h2) /\ DOMAIN h2 = DOMAIN h \ {a} /\ \A x \in DOMAIN h2 : h2[x] = h[x]

\* remove_entry and the insert loops: new entries in a node.
LEMMA SetHeap ==
    ASSUME NEW h, Heap(h), NEW a \in DOMAIN h, NEW ks, NEW ps, Fits(h[a].is_leaf, ks, ps)
    PROVE  IsSet(h, SetEntries(h, a, ks, ps), a, ks, ps)
<1> DEFINE h2 == SetEntries(h, a, ks, ps)
<1>1. h[a] \in NodeType /\ h[a].is_leaf \in BOOLEAN
  BY DEF Heap, NodeType
<1>2. ks \in Seq(Names) /\ ps \in Seq(Files \cup Address)
  BY <1>1, FitsPointers DEF Fits
<1>3. /\ DOMAIN h2 = DOMAIN h
      /\ h2[a] = [h[a] EXCEPT !.keys = ks, !.pointers = ps]
      /\ \A x \in DOMAIN h : x # a => h2[x] = h[x]
  BY DEF SetEntries, Heap
<1>4. /\ h2[a] \in NodeType /\ h2[a].keys = ks /\ h2[a].pointers = ps
      /\ h2[a].is_leaf = h[a].is_leaf /\ h2[a].parent = h[a].parent /\ h2[a].next = h[a].next
  BY <1>1, <1>2, <1>3 DEF NodeType
<1>5. NodeOK(h2[a])
  <2>1. Fits(h2[a].is_leaf, h2[a].keys, h2[a].pointers)
    BY <1>4
  <2> QED
    BY <1>4, <2>1, NodeFits
<1>6. h2 = [x \in DOMAIN h |-> h2[x]]
  BY DEF SetEntries, Heap
<1> HIDE DEF h2
<1>7. \A x \in DOMAIN h : h2[x] \in NodeType /\ NodeOK(h2[x])
  BY <1>3, <1>4, <1>5 DEF Heap
<1>8. h2 \in [DOMAIN h -> NodeType]
  BY <1>6, <1>7
<1>9. Heap(h2)
  BY <1>3, <1>7, <1>8 DEF Heap
<1> QED
  BY <1>3, <1>4, <1>9 DEF h2, IsSet

\* A heap made from a function of addresses.
LEMMA MakeHeap ==
    ASSUME NEW D, IsFiniteSet(D), D \subseteq Address, NEW h, h = [x \in D |-> h[x]],
           \A x \in D : h[x] \in NodeType /\ Fits(h[x].is_leaf, h[x].keys, h[x].pointers)
    PROVE  Heap(h) /\ DOMAIN h = D
<1>1. DOMAIN h = D
  OBVIOUS
<1>2. h \in [D -> NodeType]
  OBVIOUS
<1> QED
  BY <1>1, <1>2, NodeFits DEF Heap

\* What is known of each node of a heap.
LEMMA HeapNodes ==
    ASSUME NEW h, Heap(h)
    PROVE  /\ h = [x \in DOMAIN h |-> h[x]] /\ IsFiniteSet(DOMAIN h) /\ DOMAIN h \subseteq Address
           /\ \A x \in DOMAIN h :
                /\ h[x] \in NodeType /\ Fits(h[x].is_leaf, h[x].keys, h[x].pointers)
                /\ h[x].is_leaf \in BOOLEAN /\ h[x].keys \in Seq(Names)
                /\ h[x].pointers \in Seq(Files \cup Address)
                /\ h[x].parent \in Link /\ h[x].next \in Link
  BY NodeFits DEF Heap, NodeType

\* What make_new_node and make_new_leaf return.
IsNode(n, leaf, ks, ps, parent) ==
    /\ n \in NodeType /\ Fits(n.is_leaf, n.keys, n.pointers)
    /\ n.is_leaf = leaf /\ n.keys = ks /\ n.pointers = ps /\ n.parent = parent

\* make_new_node and make_new_leaf return a well-formed node.
LEMMA NewNode ==
    ASSUME NEW leaf \in BOOLEAN, NEW ks, NEW ps, Fits(leaf, ks, ps),
           NEW parent \in Link, NEW next \in Link
    PROVE  IsNode(Node(leaf, ks, ps, parent, next), leaf, ks, ps, parent)
<1>1. ks \in Seq(Names) /\ ps \in Seq(Files \cup Address)
  BY FitsPointers DEF Fits
<1> QED
  BY <1>1 DEF Node, NodeType, IsNode

\* A heap with a node more.
LEMMA AllocHeap ==
    ASSUME NEW h, Heap(h), NEW a \in Address, NEW n, n \in NodeType,
           Fits(n.is_leaf, n.keys, n.pointers)
    PROVE  IsAlloc(h, Alloc(h, a, n), a, n)
<1> DEFINE h2 == Alloc(h, a, n)
           D == DOMAIN h \cup {a}
<1>1. IsFiniteSet(D) /\ D \subseteq Address
  BY HeapNodes, FS_AddElement
<1>2. /\ h2 = [x \in D |-> IF x = a THEN n ELSE h[x]]
      /\ DOMAIN h2 = D
  BY DEF Alloc
<1>3. h2[a] = n /\ \A x \in DOMAIN h : x # a => h2[x] = h[x]
  BY <1>2
<1>4. \A x \in D : h2[x] \in NodeType /\ Fits(h2[x].is_leaf, h2[x].keys, h2[x].pointers)
  <2>1. \A x \in DOMAIN h : h[x] \in NodeType /\ Fits(h[x].is_leaf, h[x].keys, h[x].pointers)
    BY HeapNodes
  <2> HIDE DEF h2
  <2> QED
    BY <1>3, <2>1
<1>5. h2 = [x \in D |-> h2[x]]
  BY <1>2
<1>6. Heap(h2)
  <2> HIDE DEF h2, D
  <2> QED
    BY <1>1, <1>4, <1>5, MakeHeap
<1> QED
  BY <1>2, <1>3, <1>6 DEF IsAlloc

\* A heap after the loop that gives children a new parent.
LEMMA AdoptHeap ==
    ASSUME NEW h, Heap(h), NEW cs, NEW p \in Link
    PROVE  IsAdopt(h, Adopt(h, cs, p), cs, p)
<1> DEFINE h2 == Adopt(h, cs, p)
           D == DOMAIN h
<1>1. /\ h2 = [x \in D |-> IF x \in cs THEN [h[x] EXCEPT !.parent = p] ELSE h[x]]
      /\ DOMAIN h2 = D
  BY DEF Adopt
<1>2. ASSUME NEW x \in D
      PROVE  /\ h2[x] \in NodeType
             /\ h2[x].is_leaf = h[x].is_leaf /\ h2[x].keys = h[x].keys
             /\ h2[x].pointers = h[x].pointers /\ h2[x].next = h[x].next
             /\ h2[x].parent = IF x \in cs THEN p ELSE h[x].parent
  <2>1. h[x] \in NodeType
    BY HeapNodes
  <2>2. CASE x \in cs
    <3>1. h2[x] = [h[x] EXCEPT !.parent = p]
      BY <1>1, <2>2
    <3> HIDE DEF h2
    <3> QED
      BY <2>1, <2>2, <3>1 DEF NodeType
  <2>3. CASE x \notin cs
    <3>1. h2[x] = h[x]
      BY <1>1, <2>3
    <3> HIDE DEF h2
    <3> QED
      BY <2>1, <2>3, <3>1
  <2> QED
    BY <2>2, <2>3
<1>3. h2 = [x \in D |-> h2[x]]
  BY <1>1
<1> HIDE DEF h2, D
<1>4. \A x \in D : Fits(h[x].is_leaf, h[x].keys, h[x].pointers)
  BY HeapNodes DEF D
<1>5. IsFiniteSet(D) /\ D \subseteq Address
  BY HeapNodes DEF D
<1>6. \A x \in D : h2[x] \in NodeType /\ Fits(h2[x].is_leaf, h2[x].keys, h2[x].pointers)
  BY <1>2, <1>4
<1>7. Heap(h2)
  BY <1>3, <1>5, <1>6, MakeHeap
<1> QED
  BY <1>1, <1>2, <1>7 DEF h2, D, IsAdopt

\* A heap after destroy_node.
LEMMA FreeHeap ==
    ASSUME NEW h, Heap(h), NEW a
    PROVE  IsFree(h, Free(h, a), a)
<1> DEFINE h2 == Free(h, a)
           D == DOMAIN h \ {a}
<1>1. h2 = [x \in D |-> h[x]] /\ DOMAIN h2 = D /\ \A x \in D : h2[x] = h[x]
  BY DEF Free
<1>2. IsFiniteSet(D) /\ D \subseteq Address
  BY HeapNodes, FS_Subset
<1>3. \A x \in D : h2[x] \in NodeType /\ Fits(h2[x].is_leaf, h2[x].keys, h2[x].pointers)
  BY <1>1, HeapNodes
<1>4. h2 = [x \in D |-> h2[x]]
  BY <1>1
<1>5. Heap(h2)
  <2> HIDE DEF h2, D
  <2> QED
    BY <1>2, <1>3, <1>4, MakeHeap
<1> QED
  BY <1>1, <1>5 DEF IsFree

\* Two heaps with the same nodes are one.
LEMMA SameHeap ==
    ASSUME NEW h, NEW h2, Heap(h), Heap(h2), DOMAIN h = DOMAIN h2,
           \A x \in DOMAIN h : SameNode(h[x], h2[x]) /\ h[x].next = h2[x].next
    PROVE  h = h2
<1>1. \A x \in DOMAIN h : h[x] = h2[x]
  <2>1. SUFFICES ASSUME NEW x \in DOMAIN h PROVE h[x] = h2[x]
    OBVIOUS
  <2>2. h[x] \in NodeType /\ h2[x] \in NodeType
    BY HeapNodes
  <2> QED
    BY <2>2 DEF SameNode, NodeType
<1> QED
  BY <1>1, HeapNodes
\* t is s with e after the first at elements; s without element i; s and t joined;
\* the elements m to n of s.
IsPut(s, at, e, t) ==
    /\ Len(t) = Len(s) + 1
    /\ \A j \in 1 .. Len(s) + 1 :
         t[j] = IF j < at + 1 THEN s[j] ELSE IF j = at + 1 THEN e ELSE s[j - 1]
IsCut(s, i, t) ==
    /\ Len(t) = Len(s) - 1
    /\ \A j \in 1 .. Len(s) - 1 : t[j] = IF j < i THEN s[j] ELSE s[j + 1]
IsJoin(s, t, w) ==
    /\ Len(w) = Len(s) + Len(t)
    /\ \A j \in 1 .. Len(s) : w[j] = s[j]
    /\ \A j \in 1 .. Len(t) : w[j + Len(s)] = t[j]
IsPiece(s, m, n, t) ==
    /\ Len(t) = (n - m) + 1
    /\ \A j \in 1 .. (n - m) + 1 : t[j] = s[j + (m - 1)]

\* InsertAt puts an element in.
LEMMA PutProp ==
    ASSUME NEW S, NEW s \in Seq(S), NEW e \in S, NEW at \in 0 .. Len(s)
    PROVE  InsertAt(s, at + 1, e) \in Seq(S) /\ IsPut(s, at, e, InsertAt(s, at + 1, e))
<1>1. at + 1 \in 1 .. Len(s) + 1
  OBVIOUS
<1> DEFINE i == at + 1
<1> HIDE DEF i
<1>2. i \in 1 .. Len(s) + 1
  BY <1>1 DEF i
<1>3. /\ InsertAt(s, i, e) \in Seq(S)
      /\ Len(InsertAt(s, i, e)) = Len(s) + 1
      /\ \A j \in 1 .. Len(s) + 1 :
           InsertAt(s, i, e)[j] = IF j < i THEN s[j] ELSE IF j = i THEN e ELSE s[j - 1]
  BY <1>2, InsertAtProp, SMT
<1> QED
  BY <1>3 DEF IsPut, i

\* RemoveAt takes an element out.
LEMMA CutProp ==
    ASSUME NEW S, NEW s \in Seq(S), NEW i \in 1 .. Len(s)
    PROVE  RemoveAt(s, i) \in Seq(S) /\ IsCut(s, i, RemoveAt(s, i))
<1>1. /\ RemoveAt(s, i) \in Seq(S)
      /\ Len(RemoveAt(s, i)) = Len(s) - 1
      /\ \A j \in 1 .. Len(s) - 1 : RemoveAt(s, i)[j] = IF j < i THEN s[j] ELSE s[j + 1]
  BY RemoveAtProp, SMT
<1> QED
  BY <1>1 DEF IsCut

\* Concatenation joins.
LEMMA JoinedProp ==
    ASSUME NEW S, NEW s \in Seq(S), NEW t \in Seq(S)
    PROVE  s \o t \in Seq(S) /\ IsJoin(s, t, s \o t)
<1>1. /\ s \o t \in Seq(S)
      /\ Len(s \o t) = Len(s) + Len(t)
      /\ \A j \in 1 .. Len(s) + Len(t) : (s \o t)[j] = IF j <= Len(s) THEN s[j] ELSE t[j - Len(s)]
  BY JoinProp, SMT
<1> DEFINE w == s \o t
<1>2. /\ Len(w) = Len(s) + Len(t)
      /\ \A j \in 1 .. Len(s) + Len(t) : w[j] = IF j <= Len(s) THEN s[j] ELSE t[j - Len(s)]
  BY <1>1
<1>3. Len(s) \in Nat /\ Len(t) \in Nat
  OBVIOUS
<1> HIDE DEF w
<1>4. \A j \in 1 .. Len(s) : w[j] = s[j]
  BY <1>2, <1>3
<1>5. \A j \in 1 .. Len(t) : w[j + Len(s)] = t[j]
  <2>1. SUFFICES ASSUME NEW j \in 1 .. Len(t) PROVE w[j + Len(s)] = t[j]
    OBVIOUS
  <2>2. j + Len(s) \in 1 .. Len(s) + Len(t) /\ ~(j + Len(s) <= Len(s)) /\ (j + Len(s)) - Len(s) = j
    BY <1>3
  <2> QED
    BY <1>2, <2>2
<1> QED
  BY <1>1, <1>2, <1>4, <1>5 DEF IsJoin, w

\* SubSeq takes a piece.
LEMMA PieceOf ==
    ASSUME NEW S, NEW s \in Seq(S), NEW m \in 1 .. Len(s) + 1, NEW n \in m - 1 .. Len(s)
    PROVE  SubSeq(s, m, n) \in Seq(S) /\ IsPiece(s, m, n, SubSeq(s, m, n))
<1>1. /\ SubSeq(s, m, n) \in Seq(S)
      /\ Len(SubSeq(s, m, n)) = n - m + 1
      /\ \A j \in 1 .. n - m + 1 : SubSeq(s, m, n)[j] = s[m + j - 1]
  BY PieceProp, SMT
<1> DEFINE w == SubSeq(s, m, n)
<1>2. m \in Int /\ n \in Int /\ n - m + 1 = (n - m) + 1
  OBVIOUS
<1>3. \A j \in 1 .. (n - m) + 1 : j + (m - 1) = m + j - 1
  BY <1>2
<1>4. \A j \in 1 .. (n - m) + 1 : w[j] = s[j + (m - 1)]
  BY <1>1, <1>2, <1>3
<1> QED
  BY <1>1, <1>2, <1>4 DEF IsPiece

\* The entries of a node and its next pointer change.
SetNode(h, a, ks, ps, nx) == [h EXCEPT ![a].keys = ks, ![a].pointers = ps, ![a].next = nx]

\* New entries and a new next pointer in a node.
LEMMA SetNodeHeap ==
    ASSUME NEW h, Heap(h), NEW a \in DOMAIN h, NEW ks, NEW ps, Fits(h[a].is_leaf, ks, ps),
           NEW nx \in Link
    PROVE  IsSet(h, SetNode(h, a, ks, ps, nx), a, ks, ps)
<1> DEFINE h2 == SetNode(h, a, ks, ps, nx)
<1>1. h[a] \in NodeType /\ h[a].is_leaf \in BOOLEAN
  BY DEF Heap, NodeType
<1>2. ks \in Seq(Names) /\ ps \in Seq(Files \cup Address)
  BY <1>1, FitsPointers DEF Fits
<1>3. /\ DOMAIN h2 = DOMAIN h
      /\ h2[a] = [h[a] EXCEPT !.keys = ks, !.pointers = ps, !.next = nx]
      /\ \A x \in DOMAIN h : x # a => h2[x] = h[x]
  BY DEF SetNode, Heap
<1>4. /\ h2[a] \in NodeType /\ h2[a].keys = ks /\ h2[a].pointers = ps /\ h2[a].next = nx
      /\ h2[a].is_leaf = h[a].is_leaf /\ h2[a].parent = h[a].parent
  BY <1>1, <1>2, <1>3 DEF NodeType
<1>5. h2 = [x \in DOMAIN h |-> h2[x]]
  BY DEF SetNode, Heap
<1> HIDE DEF h2
<1>6. \A x \in DOMAIN h : h2[x] \in NodeType /\ Fits(h2[x].is_leaf, h2[x].keys, h2[x].pointers)
  <2>1. \A x \in DOMAIN h : h[x] \in NodeType /\ Fits(h[x].is_leaf, h[x].keys, h[x].pointers)
    BY HeapNodes
  <2>2. Fits(h2[a].is_leaf, h2[a].keys, h2[a].pointers)
    BY <1>4
  <2> QED
    BY <1>3, <1>4, <2>1, <2>2, Zenon
<1>7. Heap(h2)
  BY <1>5, <1>6, HeapNodes, MakeHeap
<1> QED
  BY <1>3, <1>4, <1>7 DEF h2, IsSet

-----------------------------------------------------------------------------
(* Trees of one leaf, and changes of a leaf.                                  *)

\* A heap of one leaf is a tree.
LEMMA LoneLeaf ==
    ASSUME NEW a \in Address, NEW h, Heap(h), DOMAIN h = {a}, h[a].is_leaf, h[a].parent = NULL,
           Sorted(h[a].keys), NEW ix,
           0 \notin CondGarbage =>
             /\ \A i \in 1 .. Len(h[a].keys) :
                  h[a].keys[i] \in DOMAIN ix /\ ix[h[a].keys[i]] = h[a].pointers[i]
             /\ \A x \in DOMAIN ix : \E i \in 1 .. Len(h[a].keys) : h[a].keys[i] = x
    PROVE  Good(h, a, ix)
<1> DEFINE ht == [x \in {a} |-> 0]
           rng == [x \in {a} |-> Names]
<1>1. ht \in [DOMAIN h -> Nat] /\ ht[a] = 0 /\ rng \in [DOMAIN h -> SUBSET Names] /\ rng[a] = Names
  OBVIOUS
<1> HIDE DEF ht, rng
<1>2. \A x \in DOMAIN h : \A i, c : ~ChildAt(h, x, i, c)
  BY DEF ChildAt
<1>3. \A i \in 1 .. Len(h[a].keys) : h[a].keys[i] \in Names
  BY KeysInt
<1>4. WF(h, a, ht, rng)
  BY <1>1, <1>2, <1>3 DEF WF, Heights, Linkage, Ranges, Apart, KeysOK
<1>5. 0 \notin CondGarbage => Content(h, rng, ix)
  BY DEF Content
<1> QED
  BY <1>4, <1>5 DEF Good

\* The file of every name, with one name more.
WithName(ix, key, file) ==
    [n \in DOMAIN ix \cup {key} |-> IF n \in DOMAIN ix THEN ix[n] ELSE file]

\* A name goes into the leaf it belongs to.
LEMMA LeafPut ==
    ASSUME NEW h, NEW r, NEW ht, NEW rng, WF(h, r, ht, rng), NEW ix,
           0 \notin CondGarbage => Content(h, rng, ix),
           NEW a \in DOMAIN h, h[a].is_leaf, NEW key \in rng[a], NEW file \in Files,
           NEW at \in 0 .. Len(h[a].keys),
           \A i \in 1 .. at : h[a].keys[i] < key,
           \A i \in at + 1 .. Len(h[a].keys) : key < h[a].keys[i],
           NEW ks, ks = InsertAt(h[a].keys, at + 1, key),
           NEW ps, ps = InsertAt(h[a].pointers, at + 1, file)
    PROVE  /\ Fits(TRUE, ks, ps) /\ Len(ks) = Len(h[a].keys) + 1 /\ Len(ps) = Len(ks)
           /\ Good(SetEntries(h, a, ks, ps), r, WithName(ix, key, file))
<1> DEFINE n == Len(h[a].keys)
           h2 == SetEntries(h, a, ks, ps)
           ix2 == WithName(ix, key, file)
<1>0. Heap(h) /\ NodeOK(h[a])
  BY DEF WF, Heap
<1>1. /\ h[a].keys \in Seq(Names) /\ h[a].pointers \in Seq(Files) /\ n \in Nat
      /\ Len(h[a].pointers) = n
  BY <1>0 DEF NodeOK, NodeType
<1>2. key \in Names /\ key \in Int /\ rng[a] \subseteq Names /\ rng[a] \subseteq Int
  BY TreeAssumption DEF WF, Ranges
<1>3. ks \in Seq(Names) /\ IsPut(h[a].keys, at, key, ks)
  BY <1>1, <1>2, PutProp, Zenon
<1>4. ps \in Seq(Files) /\ IsPut(h[a].pointers, at, file, ps)
  <2>1. at \in 0 .. Len(h[a].pointers)
    BY <1>1
  <2> QED
    BY <1>1, <2>1, PutProp, Zenon
<1>4a. /\ Len(ks) = n + 1
       /\ \A j \in 1 .. n + 1 :
            ks[j] = IF j < at + 1 THEN h[a].keys[j] ELSE IF j = at + 1 THEN key ELSE h[a].keys[j - 1]
  BY <1>3 DEF IsPut
<1>4b. /\ Len(ps) = n + 1
       /\ \A j \in 1 .. n + 1 :
            ps[j] = IF j < at + 1 THEN h[a].pointers[j]
                    ELSE IF j = at + 1 THEN file ELSE h[a].pointers[j - 1]
  BY <1>1, <1>4 DEF IsPut
<1>5. Fits(TRUE, ks, ps)
  BY <1>3, <1>4, <1>4a, <1>4b DEF Fits
<1>6. /\ Heap(h2) /\ DOMAIN h2 = DOMAIN h
      /\ h2[a].keys = ks /\ h2[a].pointers = ps
      /\ h2[a].is_leaf = h[a].is_leaf /\ h2[a].parent = h[a].parent
      /\ \A x \in DOMAIN h : x # a => h2[x] = h[x]
  <2>1. Fits(h[a].is_leaf, ks, ps)
    BY <1>5 DEF Fits
  <2>2. IsSet(h, h2, a, ks, ps)
    BY <1>0, <2>1, SetHeap, Zenon
  <2> QED
    BY <2>2 DEF IsSet
<1> HIDE DEF h2
<1>7. /\ \A i \in 1 .. n : h[a].keys[i] \in rng[a] /\ h[a].keys[i] \in Int
      /\ \A i, j \in 1 .. n : i < j => h[a].keys[i] < h[a].keys[j]
  BY <1>2 DEF WF, KeysOK, Sorted
<1> HIDE DEF n
<1>8. at \in Nat /\ at <= n
  BY DEF n
<1>9. /\ \A i \in 1 .. n : i <= at => h[a].keys[i] < key
      /\ \A i \in 1 .. n : i > at => key < h[a].keys[i]
  BY <1>1, <1>8 DEF n
<1>10. \A i \in 1 .. n + 1 : ks[i] \in rng[a]
  <2>1. \A i \in 1 .. n + 1 : (i < at + 1 => i \in 1 .. n) /\ (i > at + 1 => i - 1 \in 1 .. n)
    BY <1>1, <1>8
  <2> QED
    BY <1>4a, <1>7, <1>8, <2>1
<1>11. ASSUME NEW i \in 1 .. n + 1, NEW j \in 1 .. n + 1, i < j PROVE ks[i] < ks[j]
  <2>1. CASE j < at + 1
    <3>1. i \in 1 .. n /\ j \in 1 .. n /\ i < at + 1
      BY <1>1, <1>8, <1>11, <2>1
    <3> QED
      BY <1>4a, <1>7, <1>11, <2>1, <3>1
  <2>2. CASE j = at + 1
    <3>1. i \in 1 .. n /\ i <= at /\ i < at + 1
      BY <1>1, <1>8, <1>11, <2>2
    <3> QED
      BY <1>4a, <1>9, <2>2, <3>1
  <2>3. CASE j > at + 1 /\ i = at + 1
    <3>1. j - 1 \in 1 .. n /\ j - 1 > at /\ ~(j < at + 1) /\ j # at + 1
      BY <1>1, <1>8, <1>11, <2>3
    <3>2. ks[j] = h[a].keys[j - 1] /\ ks[i] = key
      BY <1>4a, <2>3, <3>1
    <3> QED
      BY <1>9, <3>1, <3>2
  <2>4. CASE j > at + 1 /\ i < at + 1
    <3>1. j - 1 \in 1 .. n /\ i \in 1 .. n /\ i < j - 1 /\ ~(j < at + 1) /\ j # at + 1
      BY <1>1, <1>8, <1>11, <2>4
    <3>2. ks[j] = h[a].keys[j - 1] /\ ks[i] = h[a].keys[i]
      BY <1>4a, <2>4, <3>1
    <3> QED
      BY <1>7, <3>1, <3>2
  <2>5. CASE j > at + 1 /\ i > at + 1
    <3>1. /\ j - 1 \in 1 .. n /\ i - 1 \in 1 .. n /\ i - 1 < j - 1
          /\ ~(j < at + 1) /\ j # at + 1 /\ ~(i < at + 1) /\ i # at + 1
      BY <1>1, <1>8, <1>11, <2>5
    <3>2. ks[j] = h[a].keys[j - 1] /\ ks[i] = h[a].keys[i - 1]
      BY <1>4a, <2>5, <3>1
    <3> QED
      BY <1>7, <3>1, <3>2
  <2> QED
    BY <1>8, <2>1, <2>2, <2>3, <2>4, <2>5
<1>12. WF(h2, r, ht, rng)
  <2>1. Sorted(h2[a].keys)
    BY <1>4a, <1>6, <1>11 DEF Sorted
  <2>2. \A i \in 1 .. Len(h2[a].keys) : h2[a].keys[i] \in rng[a]
    BY <1>4a, <1>6, <1>10
  <2>3. \A x \in DOMAIN h : x # a => SameNode(h2[x], h[x])
    BY <1>6 DEF SameNode
  <2> QED
    BY <1>6, <2>1, <2>2, <2>3, LeafChange
<1>13. ASSUME Content(h, rng, ix) PROVE Content(h2, rng, ix2)
  <2>1. /\ \A x \in DOMAIN h : h[x].is_leaf =>
             /\ \A i \in 1 .. Len(h[x].keys) :
                  h[x].keys[i] \in DOMAIN ix /\ ix[h[x].keys[i]] = h[x].pointers[i]
             /\ \A y \in rng[x] \cap DOMAIN ix : \E i \in 1 .. Len(h[x].keys) : h[x].keys[i] = y
    BY <1>13 DEF Content
  <2>2. /\ \A i \in 1 .. n : h[a].keys[i] \in DOMAIN ix /\ ix[h[a].keys[i]] = h[a].pointers[i]
        /\ \A y \in rng[a] \cap DOMAIN ix : \E i \in 1 .. n : h[a].keys[i] = y
    BY <2>1 DEF n
  <2>3. key \notin DOMAIN ix
    <3>1. \A i \in 1 .. n : h[a].keys[i] # key
      BY <1>2, <1>7, <1>8, <1>9
    <3> QED
      BY <2>2, <3>1
  <2>4. /\ DOMAIN ix2 = DOMAIN ix \cup {key} /\ ix2[key] = file
        /\ \A x \in DOMAIN ix : ix2[x] = ix[x]
    BY <2>3 DEF WithName
  <2> HIDE DEF ix2
  <2>5. ASSUME NEW x \in DOMAIN h, x # a, h[x].is_leaf
        PROVE  /\ \A i \in 1 .. Len(h2[x].keys) :
                    h2[x].keys[i] \in DOMAIN ix2 /\ ix2[h2[x].keys[i]] = h2[x].pointers[i]
               /\ \A y \in rng[x] \cap DOMAIN ix2 : \E i \in 1 .. Len(h2[x].keys) : h2[x].keys[i] = y
    <3>1. rng[x] \cap rng[a] = {}
      <4>1. ht[x] = 0 /\ ht[a] = 0
        BY <2>5 DEF WF, Heights
      <4> QED
        BY <2>5, <4>1 DEF WF, Apart
    <3>2. key \notin rng[x] /\ h2[x] = h[x]
      BY <1>6, <2>5, <3>1
    <3> QED
      BY <2>1, <2>4, <2>5, <3>2
  <2>6. ASSUME NEW i \in 1 .. n + 1 PROVE ks[i] \in DOMAIN ix2 /\ ix2[ks[i]] = ps[i]
    <3>1. CASE i < at + 1
      <4>1. i \in 1 .. n
        BY <1>1, <1>8, <3>1
      <4> QED
        BY <1>4a, <1>4b, <2>2, <2>4, <3>1, <4>1
    <3>2. CASE i = at + 1
      BY <1>4a, <1>4b, <1>8, <2>4, <3>2
    <3>3. CASE i > at + 1
      <4>1. i - 1 \in 1 .. n /\ ~(i < at + 1) /\ i # at + 1
        BY <1>1, <1>8, <3>3
      <4>2. ks[i] = h[a].keys[i - 1] /\ ps[i] = h[a].pointers[i - 1]
        BY <1>4a, <1>4b, <4>1
      <4> QED
        BY <2>2, <2>4, <4>1, <4>2
    <3> QED
      BY <1>8, <3>1, <3>2, <3>3
  <2>7. ASSUME NEW y \in rng[a] \cap DOMAIN ix2 PROVE \E i \in 1 .. n + 1 : ks[i] = y
    <3>1. CASE y = key
      <4>1. at + 1 \in 1 .. n + 1 /\ ks[at + 1] = key
        BY <1>1, <1>4a, <1>8
      <4> QED
        BY <3>1, <4>1
    <3>2. CASE y # key
      <4>1. PICK i \in 1 .. n : h[a].keys[i] = y
        BY <2>2, <2>4, <3>2
      <4>2. CASE i < at + 1
        <5>1. i \in 1 .. n + 1 /\ ks[i] = y
          BY <1>1, <1>4a, <4>1, <4>2
        <5> QED
          BY <5>1
      <4>3. CASE ~(i < at + 1)
        <5>1. i + 1 \in 1 .. n + 1 /\ ~(i + 1 < at + 1) /\ i + 1 # at + 1 /\ (i + 1) - 1 = i
          BY <1>1, <1>8, <4>3
        <5>2. ks[i + 1] = y
          BY <1>4a, <4>1, <5>1
        <5> QED
          BY <5>1, <5>2
      <4> QED
        BY <4>2, <4>3
    <3> QED
      BY <3>1, <3>2
  <2>8. ASSUME NEW x \in DOMAIN h2, h2[x].is_leaf
        PROVE  /\ \A i \in 1 .. Len(h2[x].keys) :
                    h2[x].keys[i] \in DOMAIN ix2 /\ ix2[h2[x].keys[i]] = h2[x].pointers[i]
               /\ \A y \in rng[x] \cap DOMAIN ix2 : \E i \in 1 .. Len(h2[x].keys) : h2[x].keys[i] = y
    <3>1. CASE x = a
      <4>1. h2[x].keys = ks /\ h2[x].pointers = ps /\ rng[x] = rng[a]
        BY <1>6, <3>1
      <4>2. Len(ks) = n + 1
        BY <1>4a
      <4> QED
        BY <2>6, <2>7, <4>1, <4>2
    <3>2. CASE x # a
      BY <1>6, <2>5, <2>8, <3>2
    <3> QED
      BY <3>1, <3>2
  <2> QED
    BY <2>8 DEF Content
<1>14. Good(h2, r, ix2)
  BY <1>12, <1>13 DEF Good
<1>15. Len(ks) = Len(h[a].keys) + 1 /\ Len(ps) = Len(ks)
  BY <1>4a, <1>4b DEF n
<1> QED
  BY <1>5, <1>14, <1>15 DEF h2
\* A name leaves the leaf it is in.
LEMMA LeafCut ==
    ASSUME NEW h, NEW r, NEW ht, NEW rng, WF(h, r, ht, rng), NEW ix,
           0 \notin CondGarbage => Content(h, rng, ix),
           NEW a \in DOMAIN h, h[a].is_leaf, NEW i \in 1 .. Len(h[a].keys),
           NEW key, key = h[a].keys[i],
           NEW ks, ks = RemoveAt(h[a].keys, i), NEW ps, ps = RemoveAt(h[a].pointers, i),
           NEW ix2, ix2 = [n \in DOMAIN ix \ {key} |-> ix[n]]
    PROVE  Good(SetEntries(h, a, ks, ps), r, ix2)
<1> DEFINE n == Len(h[a].keys)
           h2 == SetEntries(h, a, ks, ps)
<1>0. Heap(h) /\ NodeOK(h[a])
  BY DEF WF, Heap
<1>1. /\ h[a].keys \in Seq(Names) /\ h[a].pointers \in Seq(Files) /\ n \in Nat
      /\ Len(h[a].pointers) = n
  BY <1>0 DEF NodeOK, NodeType
<1>2. ks \in Seq(Names) /\ IsCut(h[a].keys, i, ks)
  BY <1>1, CutProp, Zenon
<1>3. ps \in Seq(Files) /\ IsCut(h[a].pointers, i, ps)
  <2>1. i \in 1 .. Len(h[a].pointers)
    BY <1>1
  <2> QED
    BY <1>1, <2>1, CutProp, Zenon
<1>4. /\ Len(ks) = n - 1 /\ Len(ps) = n - 1
      /\ \A j \in 1 .. n - 1 : ks[j] = IF j < i THEN h[a].keys[j] ELSE h[a].keys[j + 1]
      /\ \A j \in 1 .. n - 1 : ps[j] = IF j < i THEN h[a].pointers[j] ELSE h[a].pointers[j + 1]
  BY <1>1, <1>2, <1>3 DEF IsCut
<1>5. Fits(h[a].is_leaf, ks, ps)
  BY <1>2, <1>3, <1>4 DEF Fits
<1>6. /\ Heap(h2) /\ DOMAIN h2 = DOMAIN h
      /\ h2[a].keys = ks /\ h2[a].pointers = ps
      /\ h2[a].is_leaf = h[a].is_leaf /\ h2[a].parent = h[a].parent
      /\ \A x \in DOMAIN h : x # a => h2[x] = h[x]
  <2>1. IsSet(h, h2, a, ks, ps)
    BY <1>0, <1>5, SetHeap, Zenon
  <2> QED
    BY <2>1 DEF IsSet
<1> HIDE DEF h2
<1>7. /\ \A j \in 1 .. n : h[a].keys[j] \in rng[a] /\ h[a].keys[j] \in Int
      /\ \A j, k \in 1 .. n : j < k => h[a].keys[j] < h[a].keys[k]
  BY <1>1, TreeAssumption DEF WF, KeysOK, Sorted, Ranges
<1>8. i \in 1 .. n /\ \A j \in 1 .. n - 1 : j \in 1 .. n /\ j + 1 \in 1 .. n
  BY <1>1
<1> HIDE DEF n
<1>9. WF(h2, r, ht, rng)
  <2>1. \A j \in 1 .. n - 1 : ks[j] \in rng[a]
    BY <1>4, <1>7, <1>8
  <2>2. ASSUME NEW j \in 1 .. n - 1, NEW k \in 1 .. n - 1, j < k PROVE ks[j] < ks[k]
    <3>1. PICK j1 \in 1 .. n : ks[j] = h[a].keys[j1] /\ j1 = IF j < i THEN j ELSE j + 1
      BY <1>4, <1>8
    <3>2. PICK k1 \in 1 .. n : ks[k] = h[a].keys[k1] /\ k1 = IF k < i THEN k ELSE k + 1
      BY <1>4, <1>8
    <3>3. j1 < k1
      BY <1>1, <1>8, <2>2, <3>1, <3>2
    <3> QED
      BY <1>7, <3>1, <3>2, <3>3
  <2>3. Sorted(h2[a].keys)
    BY <1>4, <1>6, <2>2 DEF Sorted
  <2>4. \A j \in 1 .. Len(h2[a].keys) : h2[a].keys[j] \in rng[a]
    BY <1>4, <1>6, <2>1
  <2>5. \A x \in DOMAIN h : x # a => SameNode(h2[x], h[x])
    BY <1>6 DEF SameNode
  <2> QED
    BY <1>6, <2>3, <2>4, <2>5, LeafChange
<1>10. ASSUME Content(h, rng, ix) PROVE Content(h2, rng, ix2)
  <2>1. /\ \A x \in DOMAIN h : h[x].is_leaf =>
             /\ \A j \in 1 .. Len(h[x].keys) :
                  h[x].keys[j] \in DOMAIN ix /\ ix[h[x].keys[j]] = h[x].pointers[j]
             /\ \A y \in rng[x] \cap DOMAIN ix : \E j \in 1 .. Len(h[x].keys) : h[x].keys[j] = y
    BY <1>10 DEF Content
  <2>2. /\ \A j \in 1 .. n : h[a].keys[j] \in DOMAIN ix /\ ix[h[a].keys[j]] = h[a].pointers[j]
        /\ \A y \in rng[a] \cap DOMAIN ix : \E j \in 1 .. n : h[a].keys[j] = y
    BY <2>1 DEF n
  <2>3. DOMAIN ix2 = DOMAIN ix \ {key} /\ \A x \in DOMAIN ix2 : ix2[x] = ix[x]
    OBVIOUS
  <2>4. ASSUME NEW x \in DOMAIN h, x # a, h[x].is_leaf
        PROVE  /\ \A j \in 1 .. Len(h2[x].keys) :
                    h2[x].keys[j] \in DOMAIN ix2 /\ ix2[h2[x].keys[j]] = h2[x].pointers[j]
               /\ \A y \in rng[x] \cap DOMAIN ix2 : \E j \in 1 .. Len(h2[x].keys) : h2[x].keys[j] = y
    <3>1. rng[x] \cap rng[a] = {}
      <4>1. ht[x] = 0 /\ ht[a] = 0
        BY <2>4 DEF WF, Heights
      <4> QED
        BY <2>4, <4>1 DEF WF, Apart
    <3>2. \A j \in 1 .. Len(h[x].keys) : h[x].keys[j] \in rng[x]
      BY <2>4 DEF WF, KeysOK
    <3>3. key \in rng[a] /\ h2[x] = h[x]
      BY <1>6, <1>7, <1>8, <2>4
    <3>4. \A j \in 1 .. Len(h[x].keys) : h[x].keys[j] # key
      BY <3>1, <3>2, <3>3
    <3> QED
      BY <2>1, <2>3, <2>4, <3>3, <3>4
  <2>5. ASSUME NEW j \in 1 .. n - 1 PROVE ks[j] \in DOMAIN ix2 /\ ix2[ks[j]] = ps[j]
    <3>1. PICK j1 \in 1 .. n : /\ ks[j] = h[a].keys[j1] /\ ps[j] = h[a].pointers[j1]
                               /\ j1 = IF j < i THEN j ELSE j + 1
      BY <1>4, <1>8
    <3>2. j1 # i
      BY <1>1, <1>8, <3>1
    <3>3. h[a].keys[j1] # key
      BY <1>1, <1>7, <1>8, <3>2
    <3> QED
      BY <2>2, <2>3, <3>1, <3>3
  <2>6. ASSUME NEW y \in rng[a] \cap DOMAIN ix2 PROVE \E j \in 1 .. n - 1 : ks[j] = y
    <3>1. PICK j \in 1 .. n : h[a].keys[j] = y
      BY <2>2, <2>3
    <3>2. j # i
      BY <2>3, <3>1
    <3>3. CASE j < i
      <4>1. j \in 1 .. n - 1
        BY <1>1, <1>8, <3>3
      <4> QED
        BY <1>4, <3>1, <3>3, <4>1
    <3>4. CASE j > i
      <4>1. j - 1 \in 1 .. n - 1 /\ ~(j - 1 < i) /\ (j - 1) + 1 = j
        BY <1>1, <1>8, <3>4
      <4>2. ks[j - 1] = y
        BY <1>4, <3>1, <4>1
      <4> QED
        BY <4>1, <4>2
    <3> QED
      BY <1>8, <3>2, <3>3, <3>4
  <2>7. ASSUME NEW x \in DOMAIN h2, h2[x].is_leaf
        PROVE  /\ \A j \in 1 .. Len(h2[x].keys) :
                    h2[x].keys[j] \in DOMAIN ix2 /\ ix2[h2[x].keys[j]] = h2[x].pointers[j]
               /\ \A y \in rng[x] \cap DOMAIN ix2 : \E j \in 1 .. Len(h2[x].keys) : h2[x].keys[j] = y
    <3>1. CASE x = a
      <4>1. Len(ks) = n - 1 /\ h2[x].keys = ks /\ h2[x].pointers = ps /\ rng[x] = rng[a]
        BY <1>4, <1>6, <3>1
      <4>2. \A j \in 1 .. Len(ks) : ks[j] \in DOMAIN ix2 /\ ix2[ks[j]] = ps[j]
        BY <2>5, <4>1
      <4>3. \A y \in rng[a] \cap DOMAIN ix2 : \E j \in 1 .. Len(ks) : ks[j] = y
        BY <2>6, <4>1
      <4>4. \A j \in 1 .. Len(h2[x].keys) :
              h2[x].keys[j] \in DOMAIN ix2 /\ ix2[h2[x].keys[j]] = h2[x].pointers[j]
        BY <4>1, <4>2
      <4>5. \A y \in rng[x] \cap DOMAIN ix2 : \E j \in 1 .. Len(h2[x].keys) : h2[x].keys[j] = y
        BY <4>1, <4>3
      <4> QED
        BY <4>4, <4>5
    <3>2. CASE x # a
      <4>1. x \in DOMAIN h /\ h[x].is_leaf
        BY <1>6, <2>7, <3>2
      <4> QED
        BY <2>4, <3>2, <4>1
    <3> QED
      BY <3>1, <3>2
  <2> QED
    BY <2>7 DEF Content
<1> QED
  BY <1>9, <1>10 DEF Good, h2

-----------------------------------------------------------------------------
(* The search.                                                                *)

\* How far the loops of the search go: the keys up to key, those before it,
\* those other than it.
UpTo(ks, key)   == Leading(ks, LAMBDA k : k <= key)
Before(ks, key) == Leading(ks, LAMBDA k : k < key)
Until(ks, key)  == Leading(ks, LAMBDA k : k # key)

\* Where the loop of find_leaf stops.
LEMMA UpToProp ==
    ASSUME NEW S, NEW ks \in Seq(S), NEW key
    PROVE  /\ UpTo(ks, key) \in 0 .. Len(ks)
           /\ \A j \in 1 .. UpTo(ks, key) : ks[j] <= key
           /\ UpTo(ks, key) < Len(ks) => ~(ks[UpTo(ks, key) + 1] <= key)
<1> DEFINE stop == {i \in DOMAIN ks : ~(ks[i] <= key)}
           n == IF stop = {} THEN Len(ks) ELSE Min(stop) - 1
<1>1. stop \subseteq 1 .. Len(ks)
  OBVIOUS
<1>2. UpTo(ks, key) = n
  BY DEF UpTo, Leading
<1>3. \A i \in 1 .. Len(ks) : i \in stop <=> ~(ks[i] <= key)
  OBVIOUS
<1> HIDE DEF stop
<1>4. n \in 0 .. Len(ks) /\ (\A j \in 1 .. n : j \notin stop) /\ (n < Len(ks) => n + 1 \in stop)
  BY <1>1, LeadingStop
<1> HIDE DEF n
<1>5. Len(ks) \in Nat
  OBVIOUS
<1> QED
  BY <1>1, <1>2, <1>3, <1>4, <1>5

\* Where the loop of B_plus_tree_insert stops.
LEMMA BeforeProp ==
    ASSUME NEW S, NEW ks \in Seq(S), NEW key
    PROVE  /\ Before(ks, key) \in 0 .. Len(ks)
           /\ \A j \in 1 .. Before(ks, key) : ks[j] < key
           /\ Before(ks, key) < Len(ks) => ~(ks[Before(ks, key) + 1] < key)
<1> DEFINE stop == {i \in DOMAIN ks : ~(ks[i] < key)}
           n == IF stop = {} THEN Len(ks) ELSE Min(stop) - 1
<1>1. stop \subseteq 1 .. Len(ks)
  OBVIOUS
<1>2. Before(ks, key) = n
  BY DEF Before, Leading
<1>3. \A i \in 1 .. Len(ks) : i \in stop <=> ~(ks[i] < key)
  OBVIOUS
<1> HIDE DEF stop
<1>4. n \in 0 .. Len(ks) /\ (\A j \in 1 .. n : j \notin stop) /\ (n < Len(ks) => n + 1 \in stop)
  BY <1>1, LeadingStop
<1> HIDE DEF n
<1>5. Len(ks) \in Nat
  OBVIOUS
<1> QED
  BY <1>1, <1>2, <1>3, <1>4, <1>5

\* Where the loop of B_plus_tree_find stops.
LEMMA UntilProp ==
    ASSUME NEW S, NEW ks \in Seq(S), NEW key
    PROVE  /\ Until(ks, key) \in 0 .. Len(ks)
           /\ \A j \in 1 .. Until(ks, key) : ks[j] # key
           /\ Until(ks, key) < Len(ks) => ks[Until(ks, key) + 1] = key
<1> DEFINE stop == {i \in DOMAIN ks : ~(ks[i] # key)}
           n == IF stop = {} THEN Len(ks) ELSE Min(stop) - 1
<1>1. stop \subseteq 1 .. Len(ks)
  OBVIOUS
<1>2. Until(ks, key) = n
  BY DEF Until, Leading
<1>3. \A i \in 1 .. Len(ks) : i \in stop <=> ks[i] = key
  OBVIOUS
<1> HIDE DEF stop
<1>4. n \in 0 .. Len(ks) /\ (\A j \in 1 .. n : j \notin stop) /\ (n < Len(ks) => n + 1 \in stop)
  BY <1>1, LeadingStop
<1> HIDE DEF n
<1>5. Len(ks) \in Nat
  OBVIOUS
<1> QED
  BY <1>1, <1>2, <1>3, <1>4, <1>5
\* A descent that gets lower with every step comes to an end.
LEMMA DescentExists ==
    ASSUME NEW D, NEW ht \in [D -> Nat], NEW step \in [D -> D], NEW top \in Nat,
           \A d \in D : ht[d] <= top, \A d \in D : ht[d] # 0 => ht[step[d]] < ht[d]
    PROVE  \E f \in [D -> D] : \A d \in D : f[d] = IF ht[d] = 0 THEN d ELSE f[step[d]]
<1> DEFINE P(n) == \E f \in [D -> D] :
                     \A d \in D : ht[d] <= n => f[d] = IF ht[d] = 0 THEN d ELSE f[step[d]]
           T == {n \in Nat : ~P(n)}
<1>1. T = {}
  <2>1. SUFFICES ASSUME T # {} PROVE FALSE
    OBVIOUS
  <2>2. PICK n \in T : \A m \in T : n <= m
    <3>1. T \subseteq Nat
      OBVIOUS
    <3> HIDE DEF T
    <3> QED
      BY <2>1, <3>1, LeastNat
  <2>3. n \in Nat /\ ~P(n)
    OBVIOUS
  <2>4. CASE n = 0
    <3> DEFINE f == [d \in D |-> d]
    <3>1. f \in [D -> D] /\ \A d \in D : f[d] = d
      OBVIOUS
    <3>2. \A d \in D : ht[d] <= 0 => ht[d] = 0
      OBVIOUS
    <3> HIDE DEF f
    <3>3. P(0)
      BY <3>1, <3>2
    <3> QED
      BY <2>3, <2>4, <3>3
  <2>5. CASE n # 0
    <3>1. n - 1 \in Nat /\ n - 1 \notin T
      <4>1. n - 1 \in Nat /\ ~(n <= n - 1)
        BY <2>3, <2>5
      <4> HIDE DEF T
      <4> QED
        BY <2>2, <4>1
    <3>2. P(n - 1)
      BY <3>1
    <3>3. PICK f \in [D -> D] :
            \A d \in D : ht[d] <= n - 1 => f[d] = IF ht[d] = 0 THEN d ELSE f[step[d]]
      BY <3>2
    <3> DEFINE g == [d \in D |-> IF ht[d] = 0 THEN d ELSE f[step[d]]]
    <3>4. g \in [D -> D] /\ \A d \in D : g[d] = IF ht[d] = 0 THEN d ELSE f[step[d]]
      OBVIOUS
    <3> HIDE DEF g
    <3>5. ASSUME NEW d \in D, ht[d] <= n PROVE g[d] = IF ht[d] = 0 THEN d ELSE g[step[d]]
      <4>1. CASE ht[d] = 0
        BY <3>4, <4>1
      <4>2. CASE ht[d] # 0
        <5>1. step[d] \in D /\ ht[step[d]] < ht[d] /\ ht[step[d]] \in Nat /\ ht[d] \in Nat
          BY <4>2
        <5>2. ht[step[d]] <= n - 1
          BY <2>3, <3>5, <5>1
        <5>3. f[step[d]] = IF ht[step[d]] = 0 THEN step[d] ELSE f[step[step[d]]]
          BY <3>3, <5>1, <5>2
        <5>4. g[step[d]] = f[step[d]]
          BY <3>4, <5>1, <5>3
        <5> QED
          BY <3>4, <4>2, <5>4
      <4> QED
        BY <4>1, <4>2
    <3>6. P(n)
      BY <3>4, <3>5
    <3> QED
      BY <2>3, <3>6
  <2> QED
    BY <2>4, <2>5
<1>2. P(top)
  BY <1>1
<1> QED
  BY <1>2

\* The equation that defines the search below a node.
DownFrom(key, f) ==
    f = [nd \in DOMAIN nodes |->
           IF nodes[nd].is_leaf THEN nd
           ELSE f[nodes[nd].pointers[Leading(nodes[nd].keys, LAMBDA k : k <= key) + 1]]]

\* The search for a name ends in the leaf the name belongs to.
LEMMA FindLeafProp ==
    ASSUME NEW ht, NEW rng, WF(nodes, root, ht, rng), root # NULL, NEW key \in Names
    PROVE  /\ FindLeaf(key) \in DOMAIN nodes /\ nodes[FindLeaf(key)].is_leaf
           /\ key \in rng[FindLeaf(key)]
<1> DEFINE D == DOMAIN nodes
           step == [nd \in D |-> IF nodes[nd].is_leaf THEN nd
                                 ELSE nodes[nd].pointers[UpTo(nodes[nd].keys, key) + 1]]
<1>1. FindLeaf(key) = (CHOOSE f : DownFrom(key, f))[root]
  BY DEF FindLeaf, DownFrom
<1>2. /\ ht \in [D -> Nat] /\ root \in D /\ rng[root] = Names /\ rng \in [D -> SUBSET Names]
      /\ \A d \in D : nodes[d].is_leaf <=> ht[d] = 0
      /\ \A d \in D : ht[d] <= ht[root]
  BY DEF WF, Heights, Linkage, Ranges
<1>3. ASSUME NEW d \in D, ~nodes[d].is_leaf
      PROVE  /\ step[d] = nodes[d].pointers[UpTo(nodes[d].keys, key) + 1]
             /\ step[d] \in D /\ ht[d] = ht[step[d]] + 1
             /\ key \in rng[d] => key \in rng[step[d]]
  <2> DEFINE n == UpTo(nodes[d].keys, key)
             ks == nodes[d].keys
             c == nodes[d].pointers[n + 1]
  <2>1. /\ ks \in Seq(Names) /\ Len(ks) \in Nat /\ Len(nodes[d].pointers) = Len(ks) + 1
        /\ \A i \in 1 .. Len(ks) : ks[i] \in Int
    BY <1>3, KeysInt DEF WF
  <2>2. /\ n \in 0 .. Len(ks) /\ (\A j \in 1 .. n : ks[j] <= key)
        /\ n < Len(ks) => ~(ks[n + 1] <= key)
    BY <2>1, UpToProp, Zenon
  <2>3. step[d] = c
    BY <1>3
  <2> HIDE DEF n, step
  <2>4. ChildAt(nodes, d, n + 1, c)
    BY <1>3, <2>1, <2>2 DEF ChildAt
  <2> HIDE DEF c, ks
  <2>5. c \in D /\ ht[d] = ht[c] + 1 /\ rng[c] = Slot(rng[d], ks, n + 1)
    BY <2>4 DEF WF, Linkage, Ranges, ks
  <2>6. ASSUME key \in rng[d] PROVE key \in rng[c]
    <3>1. key \in Int
      BY TreeAssumption
    <3>2. n + 1 > 1 => (n + 1) - 1 \in 1 .. n /\ (n + 1) - 1 \in 1 .. Len(ks)
      BY <2>1, <2>2
    <3>3. n + 1 > 1 => ks[(n + 1) - 1] <= key
      BY <2>2, <3>2
    <3>4. n + 1 <= Len(ks) => key < ks[n + 1]
      <4>1. n + 1 <= Len(ks) => n + 1 \in 1 .. Len(ks) /\ n < Len(ks)
        BY <2>1, <2>2
      <4>2. n + 1 <= Len(ks) => ks[n + 1] \in Int /\ ~(ks[n + 1] <= key)
        BY <2>1, <2>2, <4>1
      <4> QED
        BY <3>1, <4>2
    <3> QED
      BY <2>5, <2>6, <3>3, <3>4 DEF Slot
  <2> QED
    BY <2>3, <2>5, <2>6 DEF n, c
<1>4. \A d \in D : nodes[d].is_leaf => step[d] = d
  OBVIOUS
<1>5. step \in [D -> D]
  <2>1. \A d \in D : step[d] \in D
    BY <1>3, <1>4
  <2>2. step = [d \in D |-> step[d]]
    OBVIOUS
  <2> HIDE DEF step
  <2> QED
    BY <2>1, <2>2
<1> HIDE DEF step
<1>6. /\ \A d \in D : ht[d] <= ht[root]
      /\ \A d \in D : ht[d] # 0 => ht[step[d]] < ht[d]
  BY <1>2, <1>3
<1> HIDE DEF D
<1>7. \E f \in [D -> D] : \A d \in D : f[d] = IF ht[d] = 0 THEN d ELSE f[step[d]]
  <2>1. ht[root] \in Nat /\ ht \in [D -> Nat]
    BY <1>2
  <2> DEFINE top == ht[root]
  <2> HIDE DEF top
  <2>2. top \in Nat /\ \A d \in D : ht[d] <= top
    BY <1>6, <2>1 DEF top
  <2> QED
    BY <1>5, <1>6, <2>1, <2>2, DescentExists, SMT
<1>7a. PICK f \in [D -> D] : \A d \in D : f[d] = IF ht[d] = 0 THEN d ELSE f[step[d]]
  BY <1>7
<1> USE DEF D
<1>8. DownFrom(key, f)
  <2> DEFINE g == [nd \in D |-> IF nodes[nd].is_leaf THEN nd
                                ELSE f[nodes[nd].pointers[UpTo(nodes[nd].keys, key) + 1]]]
  <2>1. \A d \in D : f[d] = g[d]
    BY <1>2, <1>3, <1>7a
  <2>2. f = g
    BY <1>7a, <2>1
  <2> QED
    BY <2>2 DEF DownFrom, UpTo
<1> DEFINE F == CHOOSE e : DownFrom(key, e)
<1>9. DownFrom(key, F)
  BY <1>8
<1> HIDE DEF F
<1>10. /\ \A d \in D : nodes[d].is_leaf => F[d] = d
       /\ \A d \in D : ~nodes[d].is_leaf => F[d] = F[step[d]]
  <2> DEFINE G == [nd \in D |-> IF nodes[nd].is_leaf THEN nd
                                ELSE F[nodes[nd].pointers[UpTo(nodes[nd].keys, key) + 1]]]
  <2>1. F = G
    BY <1>9 DEF DownFrom, UpTo
  <2>2. \A d \in D : G[d] = IF nodes[d].is_leaf THEN d
                            ELSE F[nodes[d].pointers[UpTo(nodes[d].keys, key) + 1]]
    OBVIOUS
  <2> HIDE DEF G
  <2>3. \A d \in D : F[d] = IF nodes[d].is_leaf THEN d
                            ELSE F[nodes[d].pointers[UpTo(nodes[d].keys, key) + 1]]
    BY <2>1, <2>2, Zenon
  <2> QED
    BY <1>3, <2>3
<1> DEFINE Right(d) == F[d] \in D /\ nodes[F[d]].is_leaf /\ key \in rng[F[d]]
           bad == {d \in D : key \in rng[d] /\ ~Right(d)}
           T == {ht[d] : d \in bad}
<1>11. T = {}
  <2>1. SUFFICES ASSUME T # {} PROVE FALSE
    OBVIOUS
  <2>2. T \subseteq Nat
    BY <1>2
  <2>3. PICK n \in T : \A m \in T : n <= m
    <3> HIDE DEF T
    <3> QED
      BY <2>1, <2>2, LeastNat
  <2>4. PICK d \in bad : ht[d] = n
    OBVIOUS
  <2>5. d \in D /\ key \in rng[d] /\ ~Right(d)
    OBVIOUS
  <2>6. ~nodes[d].is_leaf
    BY <1>10, <2>5
  <2>7. step[d] \in D /\ ht[d] = ht[step[d]] + 1 /\ key \in rng[step[d]] /\ F[d] = F[step[d]]
    BY <1>3, <1>10, <2>5, <2>6
  <2>8. step[d] \in bad
    BY <2>5, <2>7
  <2>9. n <= ht[step[d]]
    BY <2>3, <2>8
  <2> HIDE DEF bad, T
  <2> QED
    BY <1>2, <2>4, <2>5, <2>7, <2>9
<1>12. Right(root)
  <2>1. \A d \in bad : ht[d] \in T
    OBVIOUS
  <2>2. root \notin bad
    <3> HIDE DEF bad, T
    <3> QED
      BY <1>11, <2>1
  <2> HIDE DEF T, Right
  <2> QED
    BY <1>2, <2>2
<1>13. FindLeaf(key) = F[root]
  BY <1>1 DEF F
<1>14. F[root] \in DOMAIN nodes /\ nodes[F[root]].is_leaf /\ key \in rng[F[root]]
  BY <1>12
<1> HIDE DEF bad, T, D
<1> QED
  BY <1>13, <1>14, Zenon
\* get_node_index is the place of the node among the children of its parent.
LEMMA NodeIndexRange ==
    ASSUME NEW h, Heap(h), NEW nd, NEW p \in DOMAIN h, h[nd].parent = p, ~h[p].is_leaf
    PROVE  GetNodeIndex(h, nd) \in 0 .. Len(h[p].keys)
<1> DEFINE n == Len(h[p].keys)
           t == SubSeq(h[p].pointers, 1, n)
<1>1. n \in Nat /\ Len(h[p].pointers) = n + 1 /\ h[p].pointers \in Seq(Files \cup Address)
  BY KeysInt
<1>2. t \in Seq(Files \cup Address) /\ IsPiece(h[p].pointers, 1, n, t)
  <2>1. 1 \in 1 .. Len(h[p].pointers) + 1 /\ n \in 1 - 1 .. Len(h[p].pointers)
    BY <1>1
  <2> QED
    BY <1>1, <2>1, PieceOf, Zenon
<1>3. GetNodeIndex(h, nd) = Until(t, nd)
  BY DEF GetNodeIndex, Until
<1>4. Len(t) = n
  BY <1>1, <1>2 DEF IsPiece
<1> HIDE DEF t
<1>5. Until(t, nd) \in 0 .. Len(t)
  BY <1>2, UntilProp
<1> QED
  BY <1>3, <1>4, <1>5

\* get_node_index finds the child.
LEMMA NodeIndexProp ==
    ASSUME NEW h, Heap(h), NEW nd, NEW p \in DOMAIN h, h[nd].parent = p, NEW j, ChildAt(h, p, j, nd),
           \A k : ChildAt(h, p, k, nd) => k = j
    PROVE  GetNodeIndex(h, nd) = j - 1 /\ j \in 1 .. Len(h[p].keys) + 1
<1> DEFINE n == Len(h[p].keys)
           t == SubSeq(h[p].pointers, 1, n)
<1>0. ~h[p].is_leaf /\ j \in 1 .. Len(h[p].pointers)
  BY DEF ChildAt
<1>1. n \in Nat /\ Len(h[p].pointers) = n + 1 /\ h[p].pointers \in Seq(Files \cup Address)
  BY <1>0, KeysInt
<1>2. t \in Seq(Files \cup Address) /\ IsPiece(h[p].pointers, 1, n, t)
  <2>1. 1 \in 1 .. Len(h[p].pointers) + 1 /\ n \in 1 - 1 .. Len(h[p].pointers)
    BY <1>1
  <2> QED
    BY <1>1, <2>1, PieceOf, Zenon
<1>3. GetNodeIndex(h, nd) = Until(t, nd)
  BY DEF GetNodeIndex, Until
<1>4. Len(t) = n /\ \A k \in 1 .. n : t[k] = h[p].pointers[k]
  <2>1. (n - 1) + 1 = n /\ \A k \in 1 .. n : k + (1 - 1) = k
    BY <1>1
  <2>2. Len(t) = n /\ \A k \in 1 .. n : t[k] = h[p].pointers[k + (1 - 1)]
    BY <1>2, <2>1 DEF IsPiece
  <2> QED
    BY <2>1, <2>2
<1> HIDE DEF t
<1> DEFINE u == Until(t, nd)
<1>5. u \in 0 .. n /\ (\A k \in 1 .. u : t[k] # nd) /\ (u < n => t[u + 1] = nd)
  BY <1>2, <1>4, UntilProp
<1> HIDE DEF u
<1>6. \A k \in 1 .. n : t[k] = nd <=> k = j
  <2>1. \A k \in 1 .. n : k \in 1 .. Len(h[p].pointers)
    BY <1>1
  <2> HIDE DEF n
  <2> QED
    BY <1>0, <1>4, <2>1 DEF ChildAt
<1>7. j \in 1 .. n + 1
  BY <1>0, <1>1
<1> HIDE DEF n
<1>8. CASE u < n
  <2>1. u + 1 \in 1 .. n
    BY <1>1, <1>5, <1>8
  <2>2. u + 1 = j
    BY <1>5, <1>6, <1>8, <2>1
  <2> QED
    BY <1>1, <1>3, <1>5, <1>7, <2>2 DEF u, n
<1>9. CASE u = n
  <2>1. ~(j \in 1 .. n)
    BY <1>1, <1>5, <1>6, <1>9
  <2>2. j = n + 1
    BY <1>1, <1>7, <2>1
  <2> QED
    BY <1>1, <1>3, <1>7, <1>9, <2>2 DEF u, n
<1> QED
  BY <1>1, <1>5, <1>8, <1>9

-----------------------------------------------------------------------------
(* What the invariant says of the properties.                                 *)

\* The depth of a node is what its height lacks to that of the root.
LEMMA DepthProp ==
    ASSUME NEW ht, NEW rng, WF(nodes, root, ht, rng), NEW a \in DOMAIN nodes
    PROVE  Depth(a) = ht[root] - ht[a]
<1> DEFINE D == DOMAIN nodes
           Eq(f) == f = [nd \in D |-> IF nd = root THEN 0 ELSE 1 + f[nodes[nd].parent]]
           g == [nd \in D |-> ht[root] - ht[nd]]
           F == CHOOSE f : Eq(f)
<1>1. Depth(a) = F[a]
  BY DEF Depth
<1>2. /\ ht \in [D -> Nat] /\ root \in D
      /\ \A d \in D : d # root => nodes[d].parent \in D /\ ht[nodes[d].parent] = ht[d] + 1
      /\ \A d \in D : ht[d] <= ht[root]
  BY DEF WF, Heights, Linkage
<1>3. Eq(g)
  <2>1. \A d \in D : g[d] = IF d = root THEN 0 ELSE 1 + g[nodes[d].parent]
    BY <1>2
  <2> QED
    BY <2>1
<1>4. Eq(F)
  <2> HIDE DEF Eq
  <2> QED
    BY <1>3
<1>5. \A d \in D : F[d] = IF d = root THEN 0 ELSE 1 + F[nodes[d].parent]
  <2> DEFINE G == [nd \in D |-> IF nd = root THEN 0 ELSE 1 + F[nodes[nd].parent]]
  <2>1. F = G
    BY <1>4
  <2>2. \A d \in D : G[d] = IF d = root THEN 0 ELSE 1 + F[nodes[d].parent]
    OBVIOUS
  <2> HIDE DEF G, F
  <2> QED
    BY <2>1, <2>2, Zenon
<1> HIDE DEF F
<1> DEFINE bad == {d \in D : F[d] # ht[root] - ht[d]}
           T == {ht[root] - ht[d] : d \in bad}
<1>6. T = {}
  <2>1. SUFFICES ASSUME T # {} PROVE FALSE
    OBVIOUS
  <2>2. T \subseteq Nat
    BY <1>2
  <2>3. PICK n \in T : \A m \in T : n <= m
    <3> HIDE DEF T
    <3> QED
      BY <2>1, <2>2, LeastNat
  <2>4. PICK d \in bad : n = ht[root] - ht[d]
    OBVIOUS
  <2>5. d \in D /\ F[d] # ht[root] - ht[d]
    OBVIOUS
  <2>6. \A e \in bad : n <= ht[root] - ht[e]
    <3>1. \A e \in bad : ht[root] - ht[e] \in T
      OBVIOUS
    <3> HIDE DEF T, bad
    <3> QED
      BY <2>3, <3>1
  <2>7. d # root
    BY <1>2, <1>5, <2>5
  <2> DEFINE e == nodes[d].parent
  <2>8. e \in D /\ ht[e] = ht[d] + 1 /\ F[d] = 1 + F[e] /\ ht[e] \in Nat /\ ht[d] \in Nat /\ ht[root] \in Nat
    BY <1>2, <1>5, <2>5, <2>7
  <2>9. e \notin bad
    <3> HIDE DEF bad, T, e
    <3> QED
      BY <2>4, <2>6, <2>8
  <2>10. F[e] = ht[root] - ht[e]
    BY <2>8, <2>9
  <2> HIDE DEF bad, T, e
  <2> QED
    BY <2>5, <2>8, <2>10
<1>7. a \notin bad
  <2>1. \A d \in bad : ht[root] - ht[d] \in T
    OBVIOUS
  <2> HIDE DEF bad, T
  <2> QED
    BY <1>6, <2>1
<1>8. F[a] = ht[root] - ht[a]
  BY <1>7
<1> QED
  BY <1>1, <1>8 DEF F

\* What the invariant says when no call is pending.
LEMMA Cases ==
    ASSUME IInv, Idle
    PROVE  \/ Empty(nodes, root, index)
           \/ root # NULL /\ Good(nodes, root, index)
<1>1. ~Halves(nodes, root, call) /\ ~Doomed(nodes, root, call)
  BY DEF Idle, Done, Halves, Doomed
<1> QED
  BY <1>1 DEF IInv, Inv

\* The invariant gives the balance of the tree.
LEMMA InvBalanced ==
    ASSUME IInv
    PROVE  Balanced
<1> SUFFICES ASSUME Idle
             PROVE  /\ \A a, b \in DOMAIN nodes : nodes[a].is_leaf /\ nodes[b].is_leaf => Depth(a) = Depth(b)
                    /\ \A nd \in DOMAIN nodes :
                         /\ NumKeys(nd) <= MAX_KEY_NUM
                         /\ nd # root => NumKeys(nd) >= IF nodes[nd].is_leaf THEN (MAX_KEY_NUM + 1) \div 2
                                                        ELSE MAX_KEY_NUM \div 2
                         /\ nd = root /\ ~nodes[nd].is_leaf => NumKeys(nd) >= 1
  BY DEF Balanced
<1>1. \A nd \in DOMAIN nodes :
        /\ NumKeys(nd) <= MAX_KEY_NUM
        /\ nd # root => NumKeys(nd) >= IF nodes[nd].is_leaf THEN (MAX_KEY_NUM + 1) \div 2
                                       ELSE MAX_KEY_NUM \div 2
        /\ nd = root /\ ~nodes[nd].is_leaf => NumKeys(nd) >= 1
  BY DEF IInv, Inv, Fill, Least, NumKeys
<1>2. ASSUME NEW a \in DOMAIN nodes, NEW b \in DOMAIN nodes, nodes[a].is_leaf, nodes[b].is_leaf
      PROVE  Depth(a) = Depth(b)
  <2>1. Good(nodes, root, index)
    BY <1>2, Cases DEF Empty
  <2>2. PICK ht, rng : WF(nodes, root, ht, rng)
    BY <2>1 DEF Good
  <2>3. ht[a] = 0 /\ ht[b] = 0
    BY <1>2, <2>2 DEF WF, Heights
  <2>4. Depth(a) = ht[root] - ht[a] /\ Depth(b) = ht[root] - ht[b]
    BY <2>2, DepthProp
  <2> QED
    BY <2>3, <2>4
<1> QED
  BY <1>1, <1>2

\* The invariant gives the links between parents and children.
LEMMA InvAttached ==
    ASSUME IInv
    PROVE  Attached
<1> SUFFICES ASSUME Idle
             PROVE  /\ root = NULL => DOMAIN nodes = {}
                    /\ root # NULL => root \in DOMAIN nodes /\ nodes[root].parent = NULL
                    /\ \A nd \in DOMAIN nodes :
                         /\ nd # root =>
                              /\ nodes[nd].parent \in DOMAIN nodes
                              /\ LET siblings == nodes[nodes[nd].parent].pointers
                                 IN  Cardinality({i \in DOMAIN siblings : siblings[i] = nd}) = 1
                         /\ ~nodes[nd].is_leaf =>
                              \A p \in ToSet(nodes[nd].pointers) : p \in DOMAIN nodes /\ nodes[p].parent = nd
  BY DEF Attached
<1>1. CASE Empty(nodes, root, index)
  BY <1>1 DEF Empty
<1>2. CASE root # NULL /\ Good(nodes, root, index)
  <2>1. PICK ht, rng : WF(nodes, root, ht, rng)
    BY <1>2 DEF Good
  <2>2. /\ root \in DOMAIN nodes /\ nodes[root].parent = NULL
        /\ \A a \in DOMAIN nodes : \A i, c : ChildAt(nodes, a, i, c) =>
             c \in DOMAIN nodes /\ nodes[c].parent = a
        /\ \A a \in DOMAIN nodes : \A i, j, c :
             ChildAt(nodes, a, i, c) /\ ChildAt(nodes, a, j, c) => i = j
        /\ \A a \in DOMAIN nodes : a # root =>
             nodes[a].parent \in DOMAIN nodes /\ \E i : ChildAt(nodes, nodes[a].parent, i, a)
    BY <2>1 DEF WF, Linkage
  <2>3. \A a \in DOMAIN nodes : nodes[a].pointers \in Seq(Files \cup Address)
    BY <2>1, KeysInt DEF WF
  <2>4. ASSUME NEW nd \in DOMAIN nodes, nd # root
        PROVE  LET siblings == nodes[nodes[nd].parent].pointers
               IN  Cardinality({i \in DOMAIN siblings : siblings[i] = nd}) = 1
    <3> DEFINE p == nodes[nd].parent
               s == nodes[p].pointers
               I == {i \in DOMAIN s : s[i] = nd}
    <3>1. p \in DOMAIN nodes
      BY <2>2, <2>4
    <3>2. PICK j : ChildAt(nodes, p, j, nd)
      BY <2>2, <2>4
    <3>3. \A i \in I : ChildAt(nodes, p, i, nd)
      <4>1. DOMAIN s = 1 .. Len(s)
        BY <2>3, <3>1
      <4> QED
        BY <3>2, <4>1 DEF ChildAt
    <3>4. j \in I
      BY <2>3, <3>1, <3>2 DEF ChildAt
    <3>5. I = {j}
      <4> HIDE DEF I, p
      <4> QED
        BY <2>2, <3>1, <3>2, <3>3, <3>4
    <3>6. Cardinality({j}) = 1
      BY FS_Singleton
    <3> QED
      BY <3>5, <3>6
  <2>5. ASSUME NEW nd \in DOMAIN nodes, ~nodes[nd].is_leaf, NEW p \in ToSet(nodes[nd].pointers)
        PROVE  p \in DOMAIN nodes /\ nodes[p].parent = nd
    <3>1. PICK i \in DOMAIN nodes[nd].pointers : nodes[nd].pointers[i] = p
      BY DEF ToSet
    <3>2. ChildAt(nodes, nd, i, p)
      BY <2>3, <2>5, <3>1 DEF ChildAt
    <3> QED
      BY <2>2, <3>2
  <2> QED
    BY <1>2, <2>2, <2>4, <2>5
<1> QED
  BY <1>1, <1>2, Cases
\* The invariant gives the types.
LEMMA InvTypeOK ==
    ASSUME IInv
    PROVE  TypeOK
<1>1. Heap(nodes) /\ DOMAIN index \subseteq Names
  BY DEF IInv, Inv
<1>2. root \in Address \cup {NULL}
  <2>1. DOMAIN nodes \subseteq Address
    BY <1>1 DEF Heap
  <2>2. CASE Empty(nodes, root, index)
    BY <2>2 DEF Empty
  <2>3. CASE Good(nodes, root, index)
    BY <2>1, <2>3 DEF Good, WF, Linkage
  <2>4. CASE Halves(nodes, root, call)
    BY <2>1, <2>4 DEF Halves
  <2>5. CASE Doomed(nodes, root, call)
    BY <2>1, <2>5 DEF Doomed
  <2> QED
    BY <2>2, <2>3, <2>4, <2>5 DEF IInv, Inv
<1>3. call.fn \in {"done", "insert_into_parent", "delete_entry"}
  <2>1. CASE Idle
    BY <2>1 DEF Idle, Done
  <2>2. CASE Halves(nodes, root, call)
    BY <2>2 DEF Halves
  <2>3. CASE Doomed(nodes, root, call)
    BY <2>3 DEF Doomed
  <2> QED
    BY <2>1, <2>2, <2>3 DEF IInv, Inv, Idle
<1>4. ASSUME NEW nd \in DOMAIN nodes
      PROVE  /\ nodes[nd].is_leaf \in BOOLEAN
             /\ nodes[nd].keys \in Seq(Names)
             /\ nodes[nd].pointers \in Seq(IF nodes[nd].is_leaf THEN Files ELSE Address)
             /\ Len(nodes[nd].pointers) = Len(nodes[nd].keys) + (IF nodes[nd].is_leaf THEN 0 ELSE 1)
             /\ {nodes[nd].parent, nodes[nd].next} \subseteq Address \cup {NULL}
  <2>1. NodeOK(nodes[nd]) /\ nodes[nd] \in NodeType
    BY <1>1 DEF Heap
  <2>2. /\ nodes[nd].is_leaf \in BOOLEAN /\ nodes[nd].keys \in Seq(Names)
        /\ nodes[nd].parent \in Link /\ nodes[nd].next \in Link
    BY <2>1 DEF NodeType
  <2>3. CASE nodes[nd].is_leaf
    <3>1. nodes[nd].pointers \in Seq(Files) /\ Len(nodes[nd].pointers) = Len(nodes[nd].keys)
      BY <2>1, <2>3 DEF NodeOK
    <3>2. Len(nodes[nd].pointers) = Len(nodes[nd].keys) + 0
      BY <2>2, <3>1
    <3> QED
      BY <2>2, <2>3, <3>1, <3>2, Zenon DEF Link
  <2>4. CASE ~nodes[nd].is_leaf
    <3>1. nodes[nd].pointers \in Seq(Address) /\ Len(nodes[nd].pointers) = Len(nodes[nd].keys) + 1
      BY <2>1, <2>4 DEF NodeOK
    <3> QED
      BY <2>2, <2>4, <3>1, Zenon DEF Link
  <2> QED
    BY <2>3, <2>4
<1> QED
  BY <1>1, <1>2, <1>3, <1>4, Zenon DEF TypeOK

\* The invariant gives what B_plus_tree_find returns.
LEMMA InvFind ==
    ASSUME IInv, 0 \notin CondGarbage
    PROVE  FindComplete
<1> SUFFICES ASSUME Idle, NEW key \in Names
             PROVE  Find(key) = IF key \in DOMAIN index THEN index[key] ELSE NULL
  BY DEF FindComplete
<1>1. CASE Empty(nodes, root, index)
  <2>1. FindLeaf(key) = NULL
    BY <1>1 DEF Empty, FindLeaf
  <2>2. Find(key) = NULL
    BY <2>1 DEF Find
  <2> QED
    BY <1>1, <2>2 DEF Empty
<1>2. CASE root # NULL /\ Good(nodes, root, index)
  <2>1. PICK ht, rng : WF(nodes, root, ht, rng) /\ Content(nodes, rng, index)
    BY <1>2 DEF Good
  <2> DEFINE leaf == FindLeaf(key)
             ks == nodes[leaf].keys
             i == Until(ks, key)
  <2>2. leaf \in DOMAIN nodes /\ nodes[leaf].is_leaf /\ key \in rng[leaf]
    BY <1>2, <2>1, FindLeafProp
  <2>3. leaf # NULL
    BY <2>1, <2>2, TreeAssumption DEF WF, Heap, Address
  <2>4. IndexIn(leaf, key) = i /\ NumKeys(leaf) = Len(ks)
    BY DEF IndexIn, Until, NumKeys
  <2>5. Find(key) = IF i = Len(ks) THEN NULL ELSE nodes[leaf].pointers[i + 1]
    BY <2>3, <2>4 DEF Find
  <2> HIDE DEF leaf
  <2>6. ks \in Seq(Names) /\ Len(ks) \in Nat
    BY <2>1, <2>2, KeysInt DEF WF
  <2>7. /\ \A k \in 1 .. Len(ks) : ks[k] \in DOMAIN index /\ index[ks[k]] = nodes[leaf].pointers[k]
        /\ \A x \in rng[leaf] \cap DOMAIN index : \E k \in 1 .. Len(ks) : ks[k] = x
    BY <2>1, <2>2 DEF Content
  <2> HIDE DEF ks
  <2>8. i \in 0 .. Len(ks) /\ (\A j \in 1 .. i : ks[j] # key) /\ (i < Len(ks) => ks[i + 1] = key)
    BY <2>6, UntilProp
  <2> HIDE DEF i
  <2>9. CASE i = Len(ks)
    <3>1. key \notin DOMAIN index
      BY <2>2, <2>7, <2>8, <2>9
    <3> QED
      BY <2>5, <2>9, <3>1
  <2>10. CASE i < Len(ks)
    <3>1. i + 1 \in 1 .. Len(ks) /\ ks[i + 1] = key /\ i # Len(ks)
      BY <2>6, <2>8, <2>10
    <3>2. key \in DOMAIN index /\ index[key] = nodes[leaf].pointers[i + 1]
      BY <2>7, <3>1
    <3> QED
      BY <2>5, <3>1, <3>2
  <2> QED
    BY <2>6, <2>8, <2>9, <2>10
<1> QED
  BY <1>1, <1>2, Cases
(* The steps of B_plus_tree_insert.                                           *)

\* B_plus_tree_initial makes a tree of one empty leaf.
LEMMA InvInit ==
    ASSUME Init
    PROVE  IInv
<1> DEFINE n == Node(TRUE, <<>>, <<>>, NULL, NULL)
<1>1. Fits(TRUE, <<>>, <<>>)
  BY DEF Fits
<1>2. n \in NodeType /\ Fits(n.is_leaf, n.keys, n.pointers) /\ n.is_leaf = TRUE /\ n.keys = <<>>
        /\ n.pointers = <<>> /\ n.parent = NULL
  <2>1. NULL \in Link /\ TRUE \in BOOLEAN
    BY DEF Link
  <2>2. IsNode(n, TRUE, <<>>, <<>>, NULL)
    BY <1>1, <2>1, NewNode
  <2> HIDE DEF n
  <2> QED
    BY <2>2 DEF IsNode
<1>3. nodes = [x \in {1} |-> n] /\ root = 1 /\ call = Done /\ index = [x \in {} |-> NULL]
  BY DEF Init
<1> HIDE DEF n
<1>4. nodes[1] = n /\ nodes = [x \in {1} |-> nodes[x]]
  BY <1>3
<1>5. IsFiniteSet({1}) /\ {1} \subseteq Address
  <2>1. IsFiniteSet({1})
    BY FS_Singleton, Zenon
  <2> QED
    BY <2>1 DEF Address
<1>6. Heap(nodes) /\ DOMAIN nodes = {1}
  <2>1. \A x \in {1} : nodes[x] \in NodeType /\ Fits(nodes[x].is_leaf, nodes[x].keys, nodes[x].pointers)
    BY <1>2, <1>4
  <2> QED
    BY <1>4, <1>5, <2>1, MakeHeap, Zenon
<1>7. DOMAIN index = {} /\ DOMAIN index \subseteq Names
  BY <1>3
<1>8. Good(nodes, 1, index)
  <2>1. Len(nodes[1].keys) = 0 /\ nodes[1].is_leaf /\ nodes[1].parent = NULL
    BY <1>2, <1>4
  <2>2. Sorted(nodes[1].keys)
    BY <2>1 DEF Sorted
  <2>3. 1 .. Len(nodes[1].keys) = {} /\ 1 \in Address
    BY <1>5, <2>1
  <2>4. /\ \A i \in 1 .. Len(nodes[1].keys) :
             nodes[1].keys[i] \in DOMAIN index /\ index[nodes[1].keys[i]] = nodes[1].pointers[i]
        /\ \A x \in DOMAIN index : \E i \in 1 .. Len(nodes[1].keys) : nodes[1].keys[i] = x
    BY <1>7, <2>3
  <2> QED
    BY <1>6, <2>1, <2>2, <2>3, <2>4, LoneLeaf
<1>9. Fill(nodes, 1)
  <2>1. Len(nodes[1].keys) = 0 /\ nodes[1].is_leaf
    BY <1>2, <1>4
  <2> QED
    BY <1>6, <2>1, TreeAssumption DEF Fill
<1>10. 1 # NULL
  BY TreeAssumption
<1> QED
  BY <1>3, <1>6, <1>7, <1>8, <1>9, <1>10 DEF IInv, Inv

\* B_plus_tree_insert into no tree makes one of one leaf.
LEMMA InvInsertFirst ==
    ASSUME IInv, NEW key \in Names, NEW file \in Files, InsertFirst(key, file)
    PROVE  IInv'
<1> DEFINE f == Fresh(nodes)
           n == Node(TRUE, <<key>>, <<file>>, NULL, NULL)
<1>1. /\ Idle /\ root = NULL /\ root' = f /\ nodes' = Alloc(nodes, f, n) /\ call' = Done
      /\ index' = WithName(index, key, file)
  BY DEF InsertFirst, Recorded, WithName, Idle
<1>2. Heap(nodes) /\ DOMAIN index \subseteq Names
  BY DEF IInv, Inv
<1>3. Empty(nodes, root, index)
  BY <1>1, Cases
<1>4. f \in Address \ DOMAIN nodes
  BY <1>2, FreshNew DEF Heap
<1>5. Fits(TRUE, <<key>>, <<file>>)
  BY DEF Fits
<1>6. n \in NodeType /\ Fits(n.is_leaf, n.keys, n.pointers) /\ n.is_leaf = TRUE /\ n.keys = <<key>>
        /\ n.pointers = <<file>> /\ n.parent = NULL
  <2>1. NULL \in Link /\ TRUE \in BOOLEAN
    BY DEF Link
  <2>2. IsNode(n, TRUE, <<key>>, <<file>>, NULL)
    BY <1>5, <2>1, NewNode
  <2> HIDE DEF n
  <2> QED
    BY <2>2 DEF IsNode
<1> HIDE DEF f, n
<1>7. IsAlloc(nodes, nodes', f, n)
  BY <1>1, <1>2, <1>4, <1>6, AllocHeap
<1>8. Heap(nodes') /\ DOMAIN nodes' = {f} /\ nodes'[f] = n
  BY <1>3, <1>7 DEF IsAlloc, Empty
<1>9. DOMAIN index' = DOMAIN index \cup {key} /\ (key \notin DOMAIN index => index'[key] = file)
  BY <1>1 DEF WithName
<1>10. Good(nodes', f, index')
  <2>1. /\ Len(nodes'[f].keys) = 1 /\ nodes'[f].is_leaf /\ nodes'[f].parent = NULL
        /\ nodes'[f].keys[1] = key /\ nodes'[f].pointers[1] = file
    BY <1>6, <1>8
  <2>2. Sorted(nodes'[f].keys)
    BY <2>1 DEF Sorted
  <2>3. 0 \notin CondGarbage => DOMAIN index' = {key} /\ index'[key] = file
    BY <1>3, <1>9 DEF Empty
  <2>4. 0 \notin CondGarbage =>
          /\ \A i \in 1 .. Len(nodes'[f].keys) :
               nodes'[f].keys[i] \in DOMAIN index' /\ index'[nodes'[f].keys[i]] = nodes'[f].pointers[i]
          /\ \A x \in DOMAIN index' : \E i \in 1 .. Len(nodes'[f].keys) : nodes'[f].keys[i] = x
    BY <2>1, <2>3
  <2> QED
    BY <1>4, <1>8, <2>1, <2>2, <2>4, LoneLeaf
<1>11. Fill(nodes', f)
  <2>1. Len(nodes'[f].keys) = 1 /\ nodes'[f].is_leaf
    BY <1>6, <1>8
  <2>2. 1 <= MAX_KEY_NUM
    BY TreeAssumption
  <2>3. \A x \in DOMAIN nodes' : x = f
    BY <1>8
  <2> QED
    BY <2>1, <2>2, <2>3 DEF Fill
<1>12. f # NULL
  BY <1>4, TreeAssumption DEF Address
<1>13. DOMAIN index' \subseteq Names
  BY <1>2, <1>9
<1> QED
  BY <1>1, <1>8, <1>10, <1>11, <1>12, <1>13 DEF IInv, Inv

\* The search for the place of a new name: the leaf it belongs to, and the
\* position in it after all smaller names.
LEMMA Place ==
    ASSUME IInv, Idle, root # NULL, NEW key \in Names,
           NEW leaf, leaf = FindLeaf(key), NEW at, at = InsertIndex(leaf, key)
    PROVE  \E ht, rng :
             /\ WF(nodes, root, ht, rng) /\ (0 \notin CondGarbage => Content(nodes, rng, index))
             /\ leaf \in DOMAIN nodes /\ nodes[leaf].is_leaf /\ key \in rng[leaf]
             /\ nodes[leaf].keys \in Seq(Names) /\ Sorted(nodes[leaf].keys)
             /\ at \in 0 .. Len(nodes[leaf].keys)
             /\ \A j \in 1 .. at : nodes[leaf].keys[j] < key
             /\ at < Len(nodes[leaf].keys) => ~(nodes[leaf].keys[at + 1] < key)
<1>1. Good(nodes, root, index)
  BY Cases DEF Empty
<1>2. PICK ht, rng : WF(nodes, root, ht, rng) /\ (0 \notin CondGarbage => Content(nodes, rng, index))
  BY <1>1 DEF Good
<1>3. leaf \in DOMAIN nodes /\ nodes[leaf].is_leaf /\ key \in rng[leaf]
  BY <1>2, FindLeafProp
<1>4. nodes[leaf].keys \in Seq(Names) /\ Sorted(nodes[leaf].keys)
  BY <1>2, <1>3, KeysInt DEF WF, KeysOK
<1> DEFINE ks == nodes[leaf].keys
<1>5. at = Before(ks, key)
  BY DEF InsertIndex, Before
<1>6. ks \in Seq(Names)
  BY <1>4
<1> HIDE DEF ks
<1>7. at \in 0 .. Len(ks) /\ (\A j \in 1 .. at : ks[j] < key) /\ (at < Len(ks) => ~(ks[at + 1] < key))
  BY <1>5, <1>6, BeforeProp
<1> USE DEF ks
<1> QED
  BY <1>2, <1>3, <1>4, <1>7

\* The last comparison was not an equal one: the names after the place are larger.
LEMMA CondNonzero ==
    ASSUME NEW key \in Names, NEW leaf, NEW at, at = InsertIndex(leaf, key),
           NEW ks, ks = nodes[leaf].keys, ks \in Seq(Names), Sorted(ks), at \in 0 .. Len(ks),
           at < Len(ks) => ~(ks[at + 1] < key),
           NEW cond \in Conds(leaf, key), cond # 0
    PROVE  \A i \in at + 1 .. Len(ks) : key < ks[i]
<1>1. \A i \in 1 .. Len(ks) : ks[i] \in Int
  <2>1. \A i \in 1 .. Len(ks) : ks[i] \in Names
    BY ElementOfSeq, Zenon
  <2> QED
    BY <2>1, TreeAssumption
<1>2. key \in Int /\ Len(ks) \in Nat
  BY TreeAssumption
<1>3. SUFFICES ASSUME at < Len(ks)
               PROVE  key < ks[at + 1]
  BY <1>1, <1>2 DEF Sorted
<1>4. Conds(leaf, key) = {ks[at + 1] - key}
  BY <1>2, <1>3 DEF Conds, NumKeys
<1>5. ks[at + 1] - key # 0
  BY <1>4
<1>6. ks[at + 1] \in Int
  BY <1>1, <1>2, <1>3
<1> QED
  BY <1>2, <1>3, <1>5, <1>6

\* It was an equal one: the name is there.
LEMMA CondZero ==
    ASSUME NEW key \in Names, NEW leaf, NEW at, at = InsertIndex(leaf, key),
           NEW ks, ks = nodes[leaf].keys, ks \in Seq(Names), at \in 0 .. Len(ks),
           0 \in Conds(leaf, key), 0 \notin CondGarbage
    PROVE  \E i \in 1 .. Len(ks) : ks[i] = key
<1>1. \A i \in 1 .. Len(ks) : ks[i] \in Int
  <2>1. \A i \in 1 .. Len(ks) : ks[i] \in Names
    BY ElementOfSeq, Zenon
  <2> QED
    BY <2>1, TreeAssumption
<1>2. key \in Int /\ Len(ks) \in Nat
  BY TreeAssumption
<1>3. at < Len(ks) /\ 0 \in {ks[at + 1] - key}
  BY <1>2 DEF Conds, NumKeys
<1>4. ks[at + 1] - key = 0 /\ ks[at + 1] \in Int /\ at + 1 \in 1 .. Len(ks)
  BY <1>1, <1>2, <1>3
<1>5. ks[at + 1] = key
  BY <1>2, <1>4
<1> QED
  BY <1>4, <1>5

\* B_plus_tree_insert that returns because cond is 0 changes nothing.
LEMMA InvInsertRefused ==
    ASSUME IInv, NEW key \in Names, NEW file \in Files, InsertRefused(key, file)
    PROVE  IInv'
<1>1. /\ Idle /\ root # NULL /\ 0 \in Conds(FindLeaf(key), key)
      /\ root' = root /\ nodes' = nodes /\ call' = call
      /\ index' = WithName(index, key, file)
  BY DEF InsertRefused, Recorded, WithName
<1>2. Heap(nodes) /\ Fill(nodes, root) /\ DOMAIN index \subseteq Names
  BY DEF IInv, Inv
<1>3. DOMAIN index' = DOMAIN index \cup {key} /\ \A x \in DOMAIN index : index'[x] = index[x]
  BY <1>1 DEF WithName
<1> DEFINE leaf == FindLeaf(key)
           at == InsertIndex(leaf, key)
           ks == nodes[leaf].keys
<1>4. PICK ht, rng :
         /\ WF(nodes, root, ht, rng) /\ (0 \notin CondGarbage => Content(nodes, rng, index))
         /\ leaf \in DOMAIN nodes /\ nodes[leaf].is_leaf /\ ks \in Seq(Names) /\ at \in 0 .. Len(ks)
  BY <1>1, Place
<1>5. 0 \in Conds(leaf, key)
  BY <1>1
<1> HIDE DEF leaf
<1>6. 0 \notin CondGarbage => \E i \in 1 .. Len(ks) : ks[i] = key
  BY <1>4, <1>5, CondZero
<1>7. 0 \notin CondGarbage => key \in DOMAIN index
  BY <1>4, <1>6 DEF Content
<1>8. 0 \notin CondGarbage => DOMAIN index' = DOMAIN index
  BY <1>3, <1>7
<1>9. 0 \notin CondGarbage => Content(nodes, rng, index')
  BY <1>3, <1>4, <1>8 DEF Content
<1>10. Good(nodes, root, index')
  BY <1>4, <1>9 DEF Good
<1>11. DOMAIN index' \subseteq Names
  BY <1>2, <1>3
<1> QED
  BY <1>1, <1>2, <1>10, <1>11 DEF IInv, Inv, Idle

\* The nodes have no more keys than before, or the one that has still has room.
LEMMA FillSet ==
    ASSUME NEW h, NEW r, Heap(h), Fill(h, r), NEW a \in DOMAIN h, NEW h2, NEW ks, NEW ps,
           IsSet(h, h2, a, ks, ps),
           Len(ks) <= MAX_KEY_NUM, a # r => Len(ks) >= Least(h[a]),
           a = r /\ ~h[a].is_leaf => Len(ks) >= 1
    PROVE  Fill(h2, r)
<1>1. DOMAIN h2 = DOMAIN h /\ h2[a].keys = ks /\ h2[a].is_leaf = h[a].is_leaf
        /\ \A x \in DOMAIN h : x # a => h2[x] = h[x]
  BY DEF IsSet
<1>2. Least(h2[a]) = Least(h[a])
  BY <1>1 DEF Least
<1> SUFFICES ASSUME NEW x \in DOMAIN h
             PROVE  /\ Len(h2[x].keys) <= MAX_KEY_NUM
                    /\ x # r => Len(h2[x].keys) >= Least(h2[x])
                    /\ x = r /\ ~h2[x].is_leaf => Len(h2[x].keys) >= 1
  BY <1>1 DEF Fill
<1>3. CASE x = a
  BY <1>1, <1>2, <1>3
<1>4. CASE x # a
  BY <1>1, <1>4 DEF Fill
<1> QED
  BY <1>3, <1>4

\* The name key goes into the leaf a: the entries ks, ps fit it, or are one too many.
LeafGets(h, r, ix, a, ks, ps) ==
    /\ a \in DOMAIN h /\ h[a].is_leaf /\ Len(h[a].keys) \in Nat
    /\ Fits(TRUE, ks, ps) /\ Len(ks) = Len(h[a].keys) + 1 /\ Len(ps) = Len(ks)
    /\ Good(SetEntries(h, a, ks, ps), r, ix)

\* A leaf with a new name leaves a tree.
LEMMA LeafPutGets ==
    ASSUME NEW h, NEW r, NEW ht, NEW rng, WF(h, r, ht, rng), NEW ix,
           0 \notin CondGarbage => Content(h, rng, ix),
           NEW a \in DOMAIN h, h[a].is_leaf, NEW key \in rng[a], NEW file \in Files,
           NEW at \in 0 .. Len(h[a].keys),
           \A i \in 1 .. at : h[a].keys[i] < key,
           \A i \in at + 1 .. Len(h[a].keys) : key < h[a].keys[i]
    PROVE  LeafGets(h, r, WithName(ix, key, file), a,
                    InsertAt(h[a].keys, at + 1, key), InsertAt(h[a].pointers, at + 1, file))
<1> DEFINE ks == InsertAt(h[a].keys, at + 1, key)
           ps == InsertAt(h[a].pointers, at + 1, file)
<1>1. /\ Fits(TRUE, ks, ps) /\ Len(ks) = Len(h[a].keys) + 1 /\ Len(ps) = Len(ks)
      /\ Good(SetEntries(h, a, ks, ps), r, WithName(ix, key, file))
  BY LeafPut, Zenon
<1>2. Len(h[a].keys) \in Nat
  BY KeysInt DEF WF
<1> QED
  BY <1>1, <1>2, Zenon DEF LeafGets

\* A name that is not refused goes into its leaf.
LEMMA NewName ==
    ASSUME IInv, Idle, root # NULL, NEW key \in Names, NEW file \in Files,
           NEW leaf, leaf = FindLeaf(key), NEW at, at = InsertIndex(leaf, key),
           \E cond \in Conds(leaf, key) : cond # 0
    PROVE  LeafGets(nodes, root, WithName(index, key, file), leaf,
                    InsertAt(nodes[leaf].keys, at + 1, key), InsertAt(nodes[leaf].pointers, at + 1, file))
<1> DEFINE keys == nodes[leaf].keys
<1>1. PICK ht, rng :
         /\ WF(nodes, root, ht, rng) /\ (0 \notin CondGarbage => Content(nodes, rng, index))
         /\ leaf \in DOMAIN nodes /\ nodes[leaf].is_leaf /\ key \in rng[leaf]
         /\ keys \in Seq(Names) /\ Sorted(keys) /\ at \in 0 .. Len(keys)
         /\ \A j \in 1 .. at : keys[j] < key
         /\ at < Len(keys) => ~(keys[at + 1] < key)
  BY Place
<1>2. \A i \in at + 1 .. Len(keys) : key < keys[i]
  BY <1>1, CondNonzero
<1>3. WF(nodes, root, ht, rng)
  BY <1>1
<1>4. 0 \notin CondGarbage => Content(nodes, rng, index)
  BY <1>1
<1>5. leaf \in DOMAIN nodes /\ nodes[leaf].is_leaf /\ key \in rng[leaf]
  BY <1>1
<1>6. at \in 0 .. Len(nodes[leaf].keys)
  BY <1>1
<1>7. \A i \in 1 .. at : nodes[leaf].keys[i] < key
  BY <1>1
<1>8. \A i \in at + 1 .. Len(nodes[leaf].keys) : key < nodes[leaf].keys[i]
  BY <1>2
<1> QED
  BY <1>3, <1>4, <1>5, <1>6, <1>7, <1>8, LeafPutGets, Zenon

\* B_plus_tree_insert into a leaf with room.
LEMMA InvInsertIntoLeaf ==
    ASSUME IInv, NEW key \in Names, NEW file \in Files, InsertIntoLeaf(key, file)
    PROVE  IInv'
<1> DEFINE leaf == FindLeaf(key)
           at == InsertIndex(leaf, key)
           keys == nodes[leaf].keys
           ks == InsertAt(nodes[leaf].keys, at + 1, key)
           ps == InsertAt(nodes[leaf].pointers, at + 1, file)
<1>1. /\ Idle /\ root # NULL /\ \E cond \in Conds(leaf, key) : cond # 0
      /\ root' = root /\ call' = call /\ Len(keys) < MAX_KEY_NUM
      /\ index' = WithName(index, key, file)
      /\ nodes' = SetEntries(nodes, leaf, ks, ps)
  BY DEF InsertIntoLeaf, Recorded, WithName, NumKeys, SetEntries
<1>2. Heap(nodes) /\ Fill(nodes, root) /\ DOMAIN index \subseteq Names
  BY DEF IInv, Inv
<1>3. DOMAIN index' \subseteq Names
  BY <1>1, <1>2 DEF WithName
<1> HIDE DEF leaf, at
<1>10. LeafGets(nodes, root, WithName(index, key, file), leaf, ks, ps)
  BY <1>1, NewName DEF leaf, at
<1>4. /\ leaf \in DOMAIN nodes /\ nodes[leaf].is_leaf /\ Len(keys) \in Nat
      /\ Fits(TRUE, ks, ps) /\ Len(ks) = Len(keys) + 1
      /\ Good(SetEntries(nodes, leaf, ks, ps), root, WithName(index, key, file))
  BY <1>10 DEF LeafGets
<1>5. Good(nodes', root, index')
  BY <1>1, <1>4
<1>6. Fits(nodes[leaf].is_leaf, ks, ps)
  BY <1>4
<1>7. IsSet(nodes, nodes', leaf, ks, ps)
  BY <1>1, <1>2, <1>4, <1>6, SetHeap
<1>8. Fill(nodes', root)
  <2>1. leaf # root => Len(keys) >= Least(nodes[leaf])
    BY <1>2, <1>4 DEF Fill
  <2>2. Least(nodes[leaf]) \in Int
    BY TreeAssumption DEF Least
  <2> HIDE DEF keys, ks, ps
  <2>3. Len(ks) <= MAX_KEY_NUM /\ (leaf # root => Len(ks) >= Least(nodes[leaf]))
    BY <1>1, <1>4, <2>1, <2>2, TreeAssumption
  <2> QED
    BY <1>2, <1>4, <1>7, <2>3, FillSet, Zenon
<1>9. Heap(nodes')
  BY <1>7 DEF IsSet
<1> QED
  BY <1>1, <1>3, <1>5, <1>8, <1>9 DEF IInv, Inv, Idle

(* A node that has got a key too many is halved before its parent is told.    *)

\* In g, the node a of h has kept its first s keys and the others are in the new
\* node b, as after a split, but the parent does not have b yet.
Halved(h, g, a, b, s) ==
    /\ Heap(g) /\ a \in DOMAIN h /\ b \in Address \ DOMAIN h
    /\ s \in Nat /\ s < Len(h[a].keys) /\ (h[a].is_leaf => s >= 1)
    /\ SplitNode(h, g, a, b, s)
    /\ DOMAIN g = DOMAIN h \cup {b}
    /\ \A x \in DOMAIN h : x # a =>
         g[x].is_leaf = h[x].is_leaf /\ g[x].keys = h[x].keys /\ g[x].pointers = h[x].pointers
    /\ \A x \in DOMAIN h :
         g[x].parent = IF \E i : i > s + 1 /\ ChildAt(h, a, i, x) THEN b ELSE h[x].parent
    /\ g[b].parent = h[a].parent

\* The key that goes up is a name.
LEMMA HalvedKey ==
    ASSUME NEW h, Heap(h), NEW g, NEW a, NEW b, NEW s, Halved(h, g, a, b, s)
    PROVE  h[a].keys[s + 1] \in Names
<1>1. a \in DOMAIN h /\ s \in Nat /\ s < Len(h[a].keys)
  BY DEF Halved
<1>2. Len(h[a].keys) \in Nat /\ \A i \in 1 .. Len(h[a].keys) : h[a].keys[i] \in Names
  BY <1>1, KeysInt
<1>3. s + 1 \in 1 .. Len(h[a].keys)
  BY <1>1, <1>2
<1> QED
  BY <1>2, <1>3

\* What is halved is not its own child, and keeps its parent.
LEMMA HalvedPlace ==
    ASSUME NEW h, NEW r, NEW ht, NEW rng, WF(h, r, ht, rng),
           NEW g, NEW a, NEW b, NEW s, Halved(h, g, a, b, s)
    PROVE  /\ g[a].parent = h[a].parent
           /\ \A i : ~ChildAt(h, a, i, a)
           /\ a = r <=> h[a].parent = NULL
           /\ a # r => /\ h[a].parent \in DOMAIN h /\ h[a].parent # a
                       /\ \E j : ChildAt(h, h[a].parent, j, a)
<1>1. a \in DOMAIN h /\ g[a].parent = IF \E i : i > s + 1 /\ ChildAt(h, a, i, a) THEN b ELSE h[a].parent
  BY DEF Halved
<1>2. ASSUME NEW x \in DOMAIN h, NEW i, ChildAt(h, x, i, a)
      PROVE  x # a
  <2>1. ht[x] = ht[a] + 1
    BY <1>1, <1>2 DEF WF, Linkage
  <2>2. ht[x] \in Nat /\ ht[a] \in Nat
    BY <1>1 DEF WF, Heights
  <2> QED
    BY <2>1, <2>2
<1>3. \A i : ~ChildAt(h, a, i, a)
  BY <1>1, <1>2
<1>4. g[a].parent = h[a].parent
  BY <1>1, <1>3
<1>5. a # r => h[a].parent \in DOMAIN h /\ \E j : ChildAt(h, h[a].parent, j, a)
  BY <1>1 DEF WF, Linkage
<1>6. a # r => h[a].parent # a
  BY <1>3, <1>5
<1>7. a = r => h[a].parent = NULL
  BY DEF WF, Linkage
<1>8. NULL \notin DOMAIN h
  BY TreeAssumption DEF WF, Heap, Address
<1> QED
  BY <1>3, <1>4, <1>5, <1>6, <1>7, <1>8

\* insert_into_parent with room completes the split.
LEMMA HalvedPut ==
    ASSUME NEW h, NEW r, NEW ht, NEW rng, WF(h, r, ht, rng),
           NEW g, NEW a, NEW b, NEW s, Halved(h, g, a, b, s), a # r,
           NEW c, c.left = a, c.right = b, c.key = h[a].keys[s + 1]
    PROVE  \E j : IsSplit(h, PutIntoParent(g, c), a, b, h[a].parent, j, s)
<1> DEFINE p == h[a].parent
<1>1. /\ Heap(h) /\ Heap(g) /\ a \in DOMAIN h /\ b \in Address \ DOMAIN h /\ DOMAIN g = DOMAIN h \cup {b}
      /\ p \in DOMAIN h /\ p # a /\ g[a].parent = p
  <2>1. p \in DOMAIN h /\ p # a /\ g[a].parent = p
    BY HalvedPlace
  <2>2. /\ Heap(g) /\ a \in DOMAIN h /\ b \in Address \ DOMAIN h /\ DOMAIN g = DOMAIN h \cup {b}
    BY DEF Halved
  <2>3. Heap(h)
    BY DEF WF
  <2> QED
    BY <2>1, <2>2, <2>3
<1>2. PICK j : ChildAt(h, p, j, a)
  BY HalvedPlace
<1> HIDE DEF p
<1>3. p # b /\ a # b /\ p \in DOMAIN g
  BY <1>1
<1>4. g[p].is_leaf = h[p].is_leaf /\ g[p].keys = h[p].keys /\ g[p].pointers = h[p].pointers
  BY <1>1 DEF Halved
<1>5. \A i, x : ChildAt(g, p, i, x) <=> ChildAt(h, p, i, x)
  BY <1>4, SameChildren
<1>6. \A k : ChildAt(h, p, k, a) => k = j
  BY <1>1, <1>2 DEF WF, Linkage
<1>7. GetNodeIndex(g, a) = j - 1 /\ j \in 1 .. Len(g[p].keys) + 1
  <2>1. ChildAt(g, p, j, a) /\ \A k : ChildAt(g, p, k, a) => k = j
    BY <1>2, <1>5, <1>6
  <2> QED
    BY <1>1, <1>3, <2>1, NodeIndexProp, Zenon
<1> DEFINE ks0 == h[p].keys
           ps0 == h[p].pointers
           ks == InsertAt(ks0, (j - 1) + 1, c.key)
           ps == InsertAt(ps0, j + 1, b)
           h2 == SetEntries(g, p, ks, ps)
<1>8. PutIntoParent(g, c) = h2
  <2>1. (j - 1) + 2 = j + 1
    BY <1>7
  <2>2. ParentOf(g, c) = p /\ IndexOf(g, c) = j - 1
    BY <1>1, <1>7 DEF ParentOf, IndexOf
  <2> QED
    BY <1>4, <2>1, <2>2 DEF PutIntoParent
<1>9. ~h[p].is_leaf /\ ks0 \in Seq(Names) /\ ps0 \in Seq(Address) /\ Len(ps0) = Len(ks0) + 1
        /\ Len(ks0) \in Nat
  <2>1. ~h[p].is_leaf
    BY <1>2 DEF ChildAt
  <2>2. NodeOK(h[p]) /\ h[p] \in NodeType
    BY <1>1 DEF Heap
  <2>3. ks0 \in Seq(Names)
    BY <2>2 DEF NodeType
  <2> QED
    BY <2>1, <2>2, <2>3 DEF NodeOK
<1>10. c.key \in Names
  BY <1>1, HalvedKey
<1> HIDE DEF ks0, ps0
<1>11. j - 1 \in 0 .. Len(ks0) /\ j \in 0 .. Len(ps0) /\ j \in Nat
  <2>1. j \in 1 .. Len(ks0) + 1
    BY <1>4, <1>7 DEF ks0
  <2> QED
    BY <1>9, <2>1
<1>12. ks \in Seq(Names) /\ IsPut(ks0, j - 1, c.key, ks)
  BY <1>9, <1>10, <1>11, PutProp, Zenon
<1>13. ps \in Seq(Address) /\ IsPut(ps0, j, b, ps)
  BY <1>1, <1>9, <1>11, PutProp, Zenon
<1> HIDE DEF ks, ps
<1>14. Len(ks) = Len(ks0) + 1 /\ Len(ps) = Len(ps0) + 1
  BY <1>12, <1>13 DEF IsPut
<1>15. Fits(FALSE, ks, ps)
  BY <1>9, <1>12, <1>13, <1>14 DEF Fits
<1>16. Fits(g[p].is_leaf, ks, ps)
  <2>1. g[p].is_leaf = FALSE
    BY <1>1, <1>3, <1>4, <1>9, KeysInt
  <2> QED
    BY <1>15, <2>1
<1>17. IsSet(g, h2, p, ks, ps)
  BY <1>1, <1>3, <1>16, SetHeap
<1> HIDE DEF h2
<1>18. /\ Heap(h2) /\ DOMAIN h2 = DOMAIN g /\ h2[p].keys = ks /\ h2[p].pointers = ps
       /\ h2[p].is_leaf = g[p].is_leaf /\ h2[p].parent = g[p].parent
       /\ \A x \in DOMAIN g : x # p => h2[x] = g[x]
  BY <1>17 DEF IsSet
<1>19. SplitNode(h, h2, a, b, s)
  <2>1. h2[a] = g[a] /\ h2[b] = g[b]
    BY <1>1, <1>3, <1>18
  <2>2. SplitNode(h, g, a, b, s)
    BY DEF Halved
  <2> QED
    BY <2>1, <2>2 DEF SplitNode
<1>20. SplitParent(h, h2, p, j, b, h[a].keys[s + 1])
  <2>1. ~h2[p].is_leaf
    BY <1>4, <1>9, <1>18
  <2>2. \A i \in 1 .. Len(ks0) + 1 :
          ks[i] = IF i < j THEN ks0[i] ELSE IF i = j THEN c.key ELSE ks0[i - 1]
    BY <1>9, <1>11, <1>12 DEF IsPut
  <2>3. \A i \in 1 .. Len(ps0) + 1 :
          ps[i] = IF i <= j THEN ps0[i] ELSE IF i = j + 1 THEN b ELSE ps0[i - 1]
    BY <1>9, <1>11, <1>13 DEF IsPut
  <2> QED
    BY <1>14, <1>18, <2>1, <2>2, <2>3, Zenon DEF SplitParent, ks0, ps0
<1>21. SplitRest(h, h2, a, b, p, s)
  <2>1. \A x \in DOMAIN h : h2[x].parent = g[x].parent
    BY <1>1, <1>18
  <2>2. \A x \in DOMAIN h : x # a /\ x # p =>
          h2[x].is_leaf = h[x].is_leaf /\ h2[x].keys = h[x].keys /\ h2[x].pointers = h[x].pointers
    BY <1>1, <1>18 DEF Halved
  <2>3. h2[b].parent = p
    BY <1>1, <1>3, <1>18 DEF Halved, p
  <2>4. \A x \in DOMAIN h :
          h2[x].parent = IF \E i : i > s + 1 /\ ChildAt(h, a, i, x) THEN b ELSE h[x].parent
    BY <2>1 DEF Halved
  <2>5. DOMAIN h2 = DOMAIN h \cup {b}
    BY <1>1, <1>18
  <2> QED
    BY <2>2, <2>3, <2>4, <2>5 DEF SplitRest
<1>22. s \in Nat /\ s < Len(h[a].keys) /\ (h[a].is_leaf => s >= 1)
  BY DEF Halved
<1>23. IsSplit(h, h2, a, b, p, j, s)
  BY <1>1, <1>2, <1>18, <1>19, <1>20, <1>21, <1>22 DEF IsSplit
<1> QED
  BY <1>8, <1>23 DEF p

\* A new root above a tree: the tree with it, before the old root is split.
LEMMA RootRaised ==
    ASSUME NEW h, NEW r, NEW ix, Good(h, r, ix), NEW t \in Address \ DOMAIN h
    PROVE  \E h1 : Good(h1, t, ix) /\ IsRaised(h, h1, r, t)
<1>1. PICK ht, rng : WF(h, r, ht, rng) /\ (0 \notin CondGarbage => Content(h, rng, ix))
  BY DEF Good
<1>2. Heap(h) /\ r \in DOMAIN h /\ r \in Address
  BY <1>1 DEF WF, Linkage, Heap
<1> DEFINE n == Node(FALSE, <<>>, <<r>>, NULL, NULL)
           g == Alloc(h, t, n)
           h1 == Adopt(g, {r}, t)
           ht2 == [x \in DOMAIN h1 |-> IF x = t THEN ht[r] + 1 ELSE ht[x]]
           rng2 == [x \in DOMAIN h1 |-> IF x = t THEN Names ELSE rng[x]]
<1>3. IsNode(n, FALSE, <<>>, <<r>>, NULL)
  <2>1. Fits(FALSE, <<>>, <<r>>)
    BY <1>2 DEF Fits
  <2>2. NULL \in Link /\ FALSE \in BOOLEAN
    BY DEF Link
  <2> QED
    BY <2>1, <2>2, NewNode
<1> HIDE DEF n
<1>4. n \in NodeType /\ Fits(n.is_leaf, n.keys, n.pointers) /\ n.is_leaf = FALSE /\ n.keys = <<>>
        /\ n.pointers = <<r>> /\ n.parent = NULL
  BY <1>3 DEF IsNode
<1>5. IsAlloc(h, g, t, n)
  BY <1>2, <1>4, AllocHeap
<1> HIDE DEF g
<1>6. Heap(g) /\ DOMAIN g = DOMAIN h \cup {t} /\ g[t] = n /\ \A x \in DOMAIN h : g[x] = h[x]
  BY <1>5 DEF IsAlloc
<1>7. IsAdopt(g, h1, {r}, t)
  <2>1. t \in Link
    BY DEF Link
  <2> QED
    BY <1>6, <2>1, AdoptHeap
<1> HIDE DEF h1
<1>8. Heap(h1) /\ DOMAIN h1 = DOMAIN h \cup {t}
  BY <1>6, <1>7 DEF IsAdopt
<1>9. t # r
  BY <1>2
<1>10. \A x \in DOMAIN g :
         /\ h1[x].is_leaf = g[x].is_leaf /\ h1[x].keys = g[x].keys /\ h1[x].pointers = g[x].pointers
         /\ h1[x].parent = IF x = r THEN t ELSE g[x].parent
  BY <1>7 DEF IsAdopt
<1>11. ~h1[t].is_leaf /\ h1[t].keys = <<>> /\ h1[t].pointers = <<r>> /\ h1[t].parent = NULL
  <2>1. t \in DOMAIN g
    BY <1>6
  <2> QED
    BY <1>4, <1>6, <1>9, <1>10, <2>1
<1>12. \A x \in DOMAIN h : /\ h1[x].is_leaf = h[x].is_leaf /\ h1[x].keys = h[x].keys
                           /\ h1[x].pointers = h[x].pointers
                           /\ h1[x].parent = IF x = r THEN t ELSE h[x].parent
  BY <1>6, <1>10
<1>13. \A x \in DOMAIN h : x # r => SameNode(h1[x], h[x])
  BY <1>12 DEF SameNode
<1>14. /\ h1[r].is_leaf = h[r].is_leaf /\ h1[r].keys = h[r].keys /\ h1[r].pointers = h[r].pointers
       /\ h1[r].parent = t
  BY <1>2, <1>12
<1>18. IsRaised(h, h1, r, t)
  BY <1>8, <1>11, <1>13, <1>14 DEF IsRaised
<1>15. WF(h1, t, ht2, rng2)
  BY <1>1, <1>18, RootAbove DEF RaisedHeights, RaisedRanges
<1>16. 0 \notin CondGarbage => Content(h1, rng2, ix)
  <2> SUFFICES ASSUME Content(h, rng, ix)
               PROVE  Content(h1, rng2, ix)
    BY <1>1
  <2> SUFFICES ASSUME NEW x \in DOMAIN h1, h1[x].is_leaf
               PROVE  /\ \A i \in 1 .. Len(h1[x].keys) :
                           h1[x].keys[i] \in DOMAIN ix /\ ix[h1[x].keys[i]] = h1[x].pointers[i]
                      /\ \A y \in rng2[x] \cap DOMAIN ix : \E i \in 1 .. Len(h1[x].keys) : h1[x].keys[i] = y
    BY DEF Content
  <2>1. x \in DOMAIN h /\ x # t
    BY <1>8, <1>11
  <2>2. h[x].is_leaf /\ h1[x].keys = h[x].keys /\ h1[x].pointers = h[x].pointers
    BY <1>12, <2>1
  <2>3. rng2[x] = rng[x]
    BY <2>1
  <2>4. /\ \A i \in 1 .. Len(h[x].keys) :
              h[x].keys[i] \in DOMAIN ix /\ ix[h[x].keys[i]] = h[x].pointers[i]
        /\ \A y \in rng[x] \cap DOMAIN ix : \E i \in 1 .. Len(h[x].keys) : h[x].keys[i] = y
    BY <2>1, <2>2 DEF Content
  <2> HIDE DEF rng2
  <2> QED
    BY <2>2, <2>3, <2>4
<1>17. Good(h1, t, ix)
  BY <1>15, <1>16 DEF Good
<1> QED
  BY <1>17, <1>18

\* A split whose halves a has kept the place it had in h.
LEMMA SplitNodeSame ==
    ASSUME NEW h, NEW g, NEW a, NEW b, NEW s, SplitNode(h, g, a, b, s), NEW h1, NEW h2,
           h1[a].is_leaf = h[a].is_leaf, h1[a].keys = h[a].keys, h1[a].pointers = h[a].pointers,
           h2[a].is_leaf = g[a].is_leaf, h2[a].keys = g[a].keys, h2[a].pointers = g[a].pointers,
           h2[b].is_leaf = g[b].is_leaf, h2[b].keys = g[b].keys, h2[b].pointers = g[b].pointers
    PROVE  SplitNode(h1, h2, a, b, s)
<1>1. Stays(h1, a) = Stays(h, a)
  BY DEF Stays
<1> QED
  BY <1>1, Zenon DEF SplitNode

\* insert_into_parent of the halves of the root makes a new root above them.
LEMMA HalvedRoot ==
    ASSUME NEW h, NEW r, NEW ix, Good(h, r, ix),
           NEW g, NEW b, NEW s, Halved(h, g, r, b, s), NEW t \in Address \ DOMAIN g,
           NEW c, c.left = r, c.right = b, c.key = h[r].keys[s + 1]
    PROVE  Good(PutAbove(g, t, c), t, ix)
<1>1. PICK ht, rng : WF(h, r, ht, rng)
  BY DEF Good
<1>2. /\ Heap(h) /\ Heap(g) /\ r \in DOMAIN h /\ b \in Address \ DOMAIN h /\ DOMAIN g = DOMAIN h \cup {b}
  BY <1>1 DEF Halved, WF
<1>3. /\ DOMAIN h \subseteq Address /\ t \in Address \ DOMAIN h /\ t # b /\ r # b /\ t # r
      /\ r \in Address /\ r \in DOMAIN g /\ b \in DOMAIN g /\ b \in Address
  BY <1>2 DEF Heap
<1>4. c.key \in Names
  BY <1>2, HalvedKey
<1>5. PICK h1 : Good(h1, t, ix) /\ IsRaised(h, h1, r, t)
  BY <1>3, RootRaised
<1> DEFINE n == Node(FALSE, <<c.key>>, <<r, b>>, NULL, NULL)
           g1 == Alloc(g, t, n)
           h2 == Adopt(g1, {r, b}, t)
<1>6. PutAbove(g, t, c) = h2
  BY DEF PutAbove
<1>7. IsNode(n, FALSE, <<c.key>>, <<r, b>>, NULL)
  <2>1. Fits(FALSE, <<c.key>>, <<r, b>>)
    BY <1>3, <1>4 DEF Fits
  <2>2. NULL \in Link /\ FALSE \in BOOLEAN
    BY DEF Link
  <2> QED
    BY <2>1, <2>2, NewNode
<1> HIDE DEF n
<1>8. n \in NodeType /\ Fits(n.is_leaf, n.keys, n.pointers) /\ n.is_leaf = FALSE /\ n.keys = <<c.key>>
        /\ n.pointers = <<r, b>> /\ n.parent = NULL
  BY <1>7 DEF IsNode
<1>9. IsAlloc(g, g1, t, n)
  BY <1>2, <1>8, AllocHeap
<1> HIDE DEF g1
<1>10. Heap(g1) /\ DOMAIN g1 = DOMAIN g \cup {t} /\ g1[t] = n /\ \A x \in DOMAIN g : g1[x] = g[x]
  BY <1>9 DEF IsAlloc
<1>11. IsAdopt(g1, h2, {r, b}, t)
  <2>1. t \in Link
    BY DEF Link
  <2> QED
    BY <1>10, <2>1, AdoptHeap
<1> HIDE DEF h2
<1>12. Heap(h2) /\ DOMAIN h2 = DOMAIN h \cup {b, t}
  BY <1>2, <1>10, <1>11 DEF IsAdopt
<1>13. \A x \in DOMAIN g :
         /\ h2[x].is_leaf = g[x].is_leaf /\ h2[x].keys = g[x].keys /\ h2[x].pointers = g[x].pointers
         /\ h2[x].parent = IF x = r \/ x = b THEN t ELSE g[x].parent
  BY <1>10, <1>11 DEF IsAdopt
<1>14. ~h2[t].is_leaf /\ h2[t].keys = <<c.key>> /\ h2[t].pointers = <<r, b>> /\ h2[t].parent = NULL
  <2>1. t \in DOMAIN g1 /\ t \notin {r, b}
    BY <1>3, <1>10
  <2>2. /\ h2[t].is_leaf = g1[t].is_leaf /\ h2[t].keys = g1[t].keys /\ h2[t].pointers = g1[t].pointers
        /\ h2[t].parent = g1[t].parent
    BY <1>11, <2>1 DEF IsAdopt
  <2> QED
    BY <1>8, <1>10, <2>2
<1>15. /\ DOMAIN h1 = DOMAIN h \cup {t}
       /\ \A x \in DOMAIN h : x # r => SameNode(h1[x], h[x])
       /\ h1[r].is_leaf = h[r].is_leaf /\ h1[r].keys = h[r].keys /\ h1[r].pointers = h[r].pointers
       /\ h1[r].parent = t
       /\ ~h1[t].is_leaf /\ h1[t].keys = <<>> /\ h1[t].pointers = <<r>> /\ h1[t].parent = NULL
  BY <1>5 DEF IsRaised
<1>16. ChildAt(h1, t, 1, r)
  BY <1>15 DEF ChildAt
<1>17. SplitNode(h1, h2, r, b, s)
  <2>1. SplitNode(h, g, r, b, s)
    BY DEF Halved
  <2>2. /\ h2[r].is_leaf = g[r].is_leaf /\ h2[r].keys = g[r].keys /\ h2[r].pointers = g[r].pointers
        /\ h2[b].is_leaf = g[b].is_leaf /\ h2[b].keys = g[b].keys /\ h2[b].pointers = g[b].pointers
    BY <1>3, <1>13
  <2> QED
    BY <1>15, <2>1, <2>2, SplitNodeSame, Zenon
<1>18. SplitParent(h1, h2, t, 1, b, h1[r].keys[s + 1])
  <2>1. Len(h1[t].keys) = 0 /\ Len(h1[t].pointers) = 1 /\ h1[t].pointers[1] = r
    BY <1>15
  <2>2. /\ Len(h2[t].keys) = 1 /\ h2[t].keys[1] = c.key
        /\ Len(h2[t].pointers) = 2 /\ h2[t].pointers[1] = r /\ h2[t].pointers[2] = b
    BY <1>14
  <2>3. h1[r].keys[s + 1] = c.key
    BY <1>15
  <2> QED
    BY <1>14, <2>1, <2>2, <2>3 DEF SplitParent
<1>19. SplitRest(h1, h2, r, b, t, s)
  <2>1. DOMAIN h2 = DOMAIN h1 \cup {b}
    BY <1>12, <1>15
  <2>2. \A x \in DOMAIN h1 : x # r /\ x # t =>
          h2[x].is_leaf = h1[x].is_leaf /\ h2[x].keys = h1[x].keys /\ h2[x].pointers = h1[x].pointers
    <3> SUFFICES ASSUME NEW x \in DOMAIN h1, x # r, x # t
                 PROVE  h2[x].is_leaf = h1[x].is_leaf /\ h2[x].keys = h1[x].keys
                          /\ h2[x].pointers = h1[x].pointers
      OBVIOUS
    <3>1. x \in DOMAIN h /\ x \in DOMAIN g
      BY <1>2, <1>15
    <3>2. g[x].is_leaf = h[x].is_leaf /\ g[x].keys = h[x].keys /\ g[x].pointers = h[x].pointers
      BY <3>1 DEF Halved
    <3> QED
      BY <1>13, <1>15, <3>1, <3>2 DEF SameNode
  <2>3. \A i, x : ChildAt(h1, r, i, x) <=> ChildAt(h, r, i, x)
    BY <1>15, SameChildren
  <2>4. \A i, x : ChildAt(h, r, i, x) => x \in DOMAIN h /\ x # r
    <3>1. \A i : ~ChildAt(h, r, i, r)
      BY <1>1, HalvedPlace
    <3>2. \A i, x : ChildAt(h, r, i, x) => x \in DOMAIN h
      BY <1>1, <1>2 DEF WF, Linkage
    <3> QED
      BY <3>1, <3>2
  <2>5. ASSUME NEW x \in DOMAIN h1
        PROVE  h2[x].parent = IF \E i : i > s + 1 /\ ChildAt(h1, r, i, x) THEN b ELSE h1[x].parent
    <3>1. CASE x = t
      <4>1. ~ \E i : i > s + 1 /\ ChildAt(h1, r, i, x)
        BY <1>3, <2>3, <2>4, <3>1
      <4> QED
        BY <1>14, <1>15, <3>1, <4>1
    <3>2. CASE x = r
      <4>1. ~ \E i : i > s + 1 /\ ChildAt(h1, r, i, x)
        BY <2>3, <2>4, <3>2
      <4>2. h2[r].parent = t
        BY <1>3, <1>13
      <4> QED
        BY <1>15, <3>2, <4>1, <4>2
    <3>3. CASE x # t /\ x # r
      <4>1. x \in DOMAIN h /\ x \in DOMAIN g /\ x # b
        BY <1>2, <1>15, <3>3
      <4>2. h1[x].parent = h[x].parent
        BY <1>15, <3>3, <4>1 DEF SameNode
      <4>3. h2[x].parent = g[x].parent
        BY <1>13, <3>3, <4>1
      <4>4. g[x].parent = IF \E i : i > s + 1 /\ ChildAt(h, r, i, x) THEN b ELSE h[x].parent
        BY <4>1 DEF Halved
      <4>5. (\E i : i > s + 1 /\ ChildAt(h, r, i, x)) <=> (\E i : i > s + 1 /\ ChildAt(h1, r, i, x))
        BY <2>3
      <4> QED
        BY <4>2, <4>3, <4>4, <4>5
    <3> QED
      BY <3>1, <3>2, <3>3
  <2>6. h2[b].parent = t
    BY <1>3, <1>13
  <2> QED
    BY <2>1, <2>2, <2>5, <2>6 DEF SplitRest
<1>20. s \in Nat /\ s < Len(h1[r].keys) /\ (h1[r].is_leaf => s >= 1)
  BY <1>15 DEF Halved
<1>21. t \in DOMAIN h1 /\ r \in DOMAIN h1 /\ b \in Address \ DOMAIN h1
  BY <1>2, <1>3, <1>15
<1>22. IsSplit(h1, h2, r, b, t, 1, s)
  BY <1>12, <1>16, <1>17, <1>18, <1>19, <1>20, <1>21 DEF IsSplit
<1>23. Good(h2, t, ix)
  BY <1>5, <1>22, SplitTree
<1> QED
  BY <1>6, <1>23

\* What a halved node leaves to insert_into_parent.
LEMMA HalvedInv ==
    ASSUME NEW h, NEW r, NEW ix, Good(h, r, ix), DOMAIN ix \subseteq Names,
           NEW g, NEW a, NEW b, NEW s, Halved(h, g, a, b, s), Fill(g, r),
           Len(g[a].keys) >= Least(g[a]), Len(g[b].keys) >= Least(g[b]),
           NEW c, c = [fn |-> "insert_into_parent", left |-> a, right |-> b, key |-> h[a].keys[s + 1]]
    PROVE  Inv(g, r, c, ix)
<1>1. PICK ht, rng : WF(h, r, ht, rng)
  BY DEF Good
<1>2. /\ Heap(h) /\ Heap(g) /\ a \in DOMAIN h /\ b \in Address \ DOMAIN h /\ DOMAIN g = DOMAIN h \cup {b}
  BY <1>1 DEF Halved, WF
<1>3. r \in DOMAIN h /\ DOMAIN h \subseteq Address
  BY <1>1, <1>2 DEF WF, Linkage, Heap
<1>4. c.left = a /\ c.right = b /\ c.key = h[a].keys[s + 1]
  OBVIOUS
<1>5. h[a].keys[s + 1] \in Names
  BY <1>2, HalvedKey
<1>6. /\ g[a].parent = h[a].parent
      /\ a = r <=> h[a].parent = NULL
      /\ a # r => /\ h[a].parent \in DOMAIN h /\ h[a].parent # a
                  /\ \E j : ChildAt(h, h[a].parent, j, a)
  BY <1>1, HalvedPlace
<1>7. ParentOf(g, c) = h[a].parent
  BY <1>4, <1>6 DEF ParentOf
<1>8. ASSUME a # r
      PROVE  ParentOf(g, c) \in DOMAIN g /\ \E i : ChildAt(g, ParentOf(g, c), i, a)
  <2> DEFINE p == h[a].parent
  <2>1. p \in DOMAIN h /\ p # a
    BY <1>6, <1>8
  <2>2. PICK j : ChildAt(h, p, j, a)
    BY <1>6, <1>8
  <2> HIDE DEF p
  <2>3. g[p].is_leaf = h[p].is_leaf /\ g[p].pointers = h[p].pointers
    BY <2>1 DEF Halved
  <2>4. ChildAt(g, p, j, a)
    BY <2>2, <2>3, SameChildren
  <2>5. ParentOf(g, c) = p /\ p \in DOMAIN g
    BY <1>2, <1>7, <2>1 DEF p
  <2> QED
    BY <2>4, <2>5
<1>9. c \in [fn : {"insert_into_parent"}, left : Address, right : Address, key : Names]
  BY <1>2, <1>3, <1>5
<1> HIDE DEF Halved
<1>10. /\ r \in DOMAIN g /\ {a, b} \subseteq DOMAIN g /\ a # b /\ b # r
       /\ a = r <=> ParentOf(g, c) = NULL
       /\ ParentOf(g, c) # NULL => ParentOf(g, c) \in DOMAIN g /\ \E i : ChildAt(g, ParentOf(g, c), i, a)
  BY <1>2, <1>3, <1>6, <1>7, <1>8
<1>11. Halves(g, r, c)
  BY <1>4, <1>9, <1>10 DEF Halves
<1>12. CASE a # r
  <2>1. PICK j : IsSplit(h, PutIntoParent(g, c), a, b, h[a].parent, j, s)
    BY <1>1, <1>4, <1>12, HalvedPut
  <2>2. Good(PutIntoParent(g, c), r, ix)
    BY <2>1, SplitTree
  <2> QED
    BY <1>2, <1>10, <1>11, <1>12, <2>2 DEF Inv
<1>13. CASE a = r
  <2>1. Fresh(g) \in Address \ DOMAIN g
    BY <1>2, FreshNew DEF Heap
  <2>2. Good(PutAbove(g, Fresh(g), c), Fresh(g), ix)
    BY <1>4, <1>13, <2>1, HalvedRoot
  <2> QED
    BY <1>2, <1>10, <1>11, <1>13, <2>2 DEF Inv
<1> QED
  BY <1>12, <1>13

\* Every node other than the root has a key.
LEMMA LeastPositive ==
    ASSUME NEW n
    PROVE  Least(n) \in Nat /\ Least(n) >= 1
  BY TreeAssumption DEF Least

\* The halves of a node have enough keys and not too many.
LEMMA FillHalves ==
    ASSUME NEW h, NEW r, Fill(h, r), r \in DOMAIN h, NEW a \in DOMAIN h, NEW b, b \notin DOMAIN h,
           NEW g, DOMAIN g = DOMAIN h \cup {b},
           \A x \in DOMAIN h : x # a => g[x].is_leaf = h[x].is_leaf /\ g[x].keys = h[x].keys,
           Len(g[a].keys) \in Nat, Len(g[a].keys) <= MAX_KEY_NUM, Len(g[a].keys) >= Least(g[a]),
           Len(g[b].keys) \in Nat, Len(g[b].keys) <= MAX_KEY_NUM, Len(g[b].keys) >= Least(g[b])
    PROVE  Fill(g, r)
<1> SUFFICES ASSUME NEW x \in DOMAIN g
             PROVE  /\ Len(g[x].keys) <= MAX_KEY_NUM
                    /\ x # r => Len(g[x].keys) >= Least(g[x])
                    /\ x = r /\ ~g[x].is_leaf => Len(g[x].keys) >= 1
  BY DEF Fill
<1>1. CASE x = a
  <2>1. Least(g[a]) \in Nat /\ Least(g[a]) >= 1
    BY LeastPositive
  <2> QED
    BY <1>1, <2>1
<1>2. CASE x = b
  <2>1. b # r
    OBVIOUS
  <2> QED
    BY <1>2, <2>1
<1>3. CASE x # a /\ x # b
  <2>1. x \in DOMAIN h /\ g[x].is_leaf = h[x].is_leaf /\ g[x].keys = h[x].keys
    BY <1>3
  <2>2. Least(g[x]) = Least(h[x])
    BY <2>1 DEF Least
  <2> QED
    BY <2>1, <2>2 DEF Fill
<1> QED
  BY <1>1, <1>2, <1>3

\* insert_into_leaf_after_splitting leaves two halves that insert_into_parent joins.
LEMMA InvInsertIntoLeafAfterSplitting ==
    ASSUME IInv, NEW key \in Names, NEW file \in Files, InsertIntoLeafAfterSplitting(key, file)
    PROVE  IInv'
<1> DEFINE a == FindLeaf(key)
           at == InsertIndex(a, key)
           ks == InsertAt(nodes[a].keys, at + 1, key)
           ps == InsertAt(nodes[a].pointers, at + 1, file)
           s == (MAX_KEY_NUM + 1) \div 2
           b == Fresh(nodes)
           ks1 == SubSeq(ks, 1, s)
           ps1 == SubSeq(ps, 1, s)
           ks2 == SubSeq(ks, s + 1, Len(ks))
           ps2 == SubSeq(ps, s + 1, Len(ps))
           n == Node(TRUE, ks2, ps2, nodes[a].parent, SplitNext(a))
           m == SetNode(nodes, a, ks1, ps1, b)
           h == SetEntries(nodes, a, ks, ps)
           ix == WithName(index, key, file)
<1>1. /\ Idle /\ root # NULL /\ \E cond \in Conds(a, key) : cond # 0
      /\ root' = root /\ Len(nodes[a].keys) = MAX_KEY_NUM
      /\ index' = ix
      /\ nodes' = Alloc(m, b, n)
      /\ call' = [fn |-> "insert_into_parent", left |-> a, right |-> b, key |-> ks[s + 1]]
  BY DEF InsertIntoLeafAfterSplitting, Recorded, WithName, NumKeys, SetNode
<1>2. Heap(nodes) /\ Fill(nodes, root) /\ DOMAIN index \subseteq Names
  BY DEF IInv, Inv
<1>3. DOMAIN ix \subseteq Names
  BY <1>1, <1>2 DEF WithName
<1> HIDE DEF a, at, ix
<1>4. LeafGets(nodes, root, WithName(index, key, file), a, ks, ps)
  BY <1>1, NewName DEF a, at
<1>5. /\ a \in DOMAIN nodes /\ nodes[a].is_leaf /\ Fits(TRUE, ks, ps)
      /\ Len(ks) = MAX_KEY_NUM + 1 /\ Len(ps) = MAX_KEY_NUM + 1
      /\ Good(h, root, ix)
  BY <1>1, <1>4 DEF LeafGets, ix
<1>6. b \in Address \ DOMAIN nodes
  BY <1>2, FreshNew DEF Heap
<1>7. ks \in Seq(Names) /\ ps \in Seq(Files)
  BY <1>5 DEF Fits
<1> HIDE DEF b, ks, ps
<1>8. /\ s \in Nat /\ s >= 1 /\ s <= MAX_KEY_NUM /\ (MAX_KEY_NUM + 1) - s >= s
      /\ (MAX_KEY_NUM + 1) - s <= MAX_KEY_NUM /\ MAX_KEY_NUM \in Nat
  BY TreeAssumption
<1> HIDE DEF s
<1>9. ks1 \in Seq(Names) /\ IsPiece(ks, 1, s, ks1)
  <2>1. 1 \in 1 .. Len(ks) + 1 /\ s \in 1 - 1 .. Len(ks)
    BY <1>5, <1>8
  <2> QED
    BY <1>7, <2>1, PieceOf
<1>10. ps1 \in Seq(Files) /\ IsPiece(ps, 1, s, ps1)
  <2>1. 1 \in 1 .. Len(ps) + 1 /\ s \in 1 - 1 .. Len(ps)
    BY <1>5, <1>8
  <2> QED
    BY <1>7, <2>1, PieceOf
<1>11. ks2 \in Seq(Names) /\ IsPiece(ks, s + 1, Len(ks), ks2)
  <2>1. s + 1 \in 1 .. Len(ks) + 1 /\ Len(ks) \in (s + 1) - 1 .. Len(ks)
    BY <1>5, <1>8
  <2> QED
    BY <1>7, <2>1, PieceOf
<1>12. ps2 \in Seq(Files) /\ IsPiece(ps, s + 1, Len(ps), ps2)
  <2>1. s + 1 \in 1 .. Len(ps) + 1 /\ Len(ps) \in (s + 1) - 1 .. Len(ps)
    BY <1>5, <1>8
  <2> QED
    BY <1>7, <2>1, PieceOf
<1> HIDE DEF ks1, ps1, ks2, ps2
<1>13. Len(ks1) = s /\ Len(ps1) = s /\ (\A i \in 1 .. s : ks1[i] = ks[i]) /\ (\A i \in 1 .. s : ps1[i] = ps[i])
  BY <1>8, <1>9, <1>10 DEF IsPiece
<1>14. /\ Len(ks2) = (MAX_KEY_NUM + 1) - s /\ Len(ps2) = (MAX_KEY_NUM + 1) - s
       /\ \A i \in 1 .. (MAX_KEY_NUM + 1) - s : ks2[i] = ks[i + s]
       /\ \A i \in 1 .. (MAX_KEY_NUM + 1) - s : ps2[i] = ps[i + s]
  BY <1>5, <1>8, <1>11, <1>12 DEF IsPiece
<1>15. Fits(TRUE, ks1, ps1) /\ Fits(TRUE, ks2, ps2)
  BY <1>9, <1>10, <1>11, <1>12, <1>13, <1>14 DEF Fits
<1>16. nodes[a].is_leaf = TRUE /\ nodes[a].parent \in Link /\ nodes[a].next \in Link
  BY <1>2, <1>5, HeapNodes
<1>17. IsSet(nodes, m, a, ks1, ps1)
  <2>1. b \in Link
    BY <1>6 DEF Link
  <2> QED
    BY <1>2, <1>5, <1>15, <1>16, <2>1, SetNodeHeap
<1>18. IsSet(nodes, h, a, ks, ps)
  BY <1>2, <1>5, <1>16, SetHeap
<1>19. IsNode(n, TRUE, ks2, ps2, nodes[a].parent)
  <2>1. SplitNext(a) \in Link /\ TRUE \in BOOLEAN
    BY <1>16 DEF SplitNext
  <2> QED
    BY <1>15, <1>16, <2>1, NewNode
<1> HIDE DEF m, h, n
<1>20. /\ n \in NodeType /\ Fits(n.is_leaf, n.keys, n.pointers) /\ n.is_leaf = TRUE
       /\ n.keys = ks2 /\ n.pointers = ps2 /\ n.parent = nodes[a].parent
  BY <1>19 DEF IsNode
<1>21. /\ Heap(m) /\ DOMAIN m = DOMAIN nodes /\ m[a].keys = ks1 /\ m[a].pointers = ps1
       /\ m[a].is_leaf = nodes[a].is_leaf /\ m[a].parent = nodes[a].parent
       /\ \A x \in DOMAIN nodes : x # a => m[x] = nodes[x]
  BY <1>17 DEF IsSet
<1>22. /\ Heap(h) /\ DOMAIN h = DOMAIN nodes /\ h[a].keys = ks /\ h[a].pointers = ps
       /\ h[a].is_leaf = nodes[a].is_leaf /\ h[a].parent = nodes[a].parent
       /\ \A x \in DOMAIN nodes : x # a => h[x] = nodes[x]
  BY <1>18 DEF IsSet
<1> DEFINE g == Alloc(m, b, n)
<1>23. IsAlloc(m, g, b, n)
  BY <1>6, <1>20, <1>21, AllocHeap
<1> HIDE DEF g
<1>24. Heap(g) /\ DOMAIN g = DOMAIN nodes \cup {b} /\ g[b] = n /\ \A x \in DOMAIN nodes : g[x] = m[x]
  BY <1>6, <1>21, <1>23 DEF IsAlloc
<1>25. g[a] = m[a] /\ a # b /\ \A x \in DOMAIN nodes : x # a => g[x] = nodes[x] /\ g[x] = h[x]
  BY <1>5, <1>6, <1>21, <1>22, <1>24
<1>26. SplitNode(h, g, a, b, s)
  <2>1. Stays(h, a) = 0
    BY <1>16, <1>22 DEF Stays
  <2>2. g[a].keys = ks1 /\ g[a].pointers = ps1 /\ g[b].keys = ks2 /\ g[b].pointers = ps2
    BY <1>20, <1>21, <1>24, <1>25
  <2>3. g[a].is_leaf = h[a].is_leaf /\ g[b].is_leaf = h[a].is_leaf
    BY <1>16, <1>20, <1>21, <1>22, <1>24, <1>25
  <2>4. Len(h[a].keys) - s - Stays(h, a) = (MAX_KEY_NUM + 1) - s /\ s + Stays(h, a) = s
          /\ Len(h[a].pointers) - s - Stays(h, a) = (MAX_KEY_NUM + 1) - s
    BY <1>5, <1>8, <1>22, <2>1
  <2>5. \A i \in 1 .. (MAX_KEY_NUM + 1) - s : i + s + Stays(h, a) = i + s
    BY <1>8, <2>1
  <2> QED
    BY <1>13, <1>14, <1>22, <2>2, <2>3, <2>4, <2>5 DEF SplitNode
<1>27. \A x \in DOMAIN h : g[x].parent = h[x].parent
  BY <1>21, <1>22, <1>25
<1>28. \A i, x : ~ChildAt(h, a, i, x)
  BY <1>16, <1>22 DEF ChildAt
<1>29. Halved(h, g, a, b, s)
  <2>1. s < Len(h[a].keys)
    BY <1>5, <1>8, <1>22
  <2>2. \A x \in DOMAIN h : x # a =>
          g[x].is_leaf = h[x].is_leaf /\ g[x].keys = h[x].keys /\ g[x].pointers = h[x].pointers
    BY <1>22, <1>25
  <2>3. \A x \in DOMAIN h :
          g[x].parent = IF \E i : i > s + 1 /\ ChildAt(h, a, i, x) THEN b ELSE h[x].parent
    BY <1>27, <1>28
  <2>4. g[b].parent = h[a].parent
    BY <1>20, <1>22, <1>24
  <2>5. a \in DOMAIN h /\ b \in Address \ DOMAIN h /\ DOMAIN g = DOMAIN h \cup {b}
    BY <1>5, <1>6, <1>22, <1>24
  <2> QED
    BY <1>8, <1>24, <1>26, <2>1, <2>2, <2>3, <2>4, <2>5 DEF Halved
<1>30. /\ Len(g[a].keys) = s /\ Len(g[b].keys) = (MAX_KEY_NUM + 1) - s
       /\ Least(g[a]) = s /\ Least(g[b]) = s
  <2>1. Len(g[a].keys) = s /\ Len(g[b].keys) = (MAX_KEY_NUM + 1) - s
    BY <1>13, <1>14, <1>20, <1>21, <1>24, <1>25
  <2>2. g[a].is_leaf = TRUE /\ g[b].is_leaf = TRUE
    BY <1>16, <1>20, <1>21, <1>24, <1>25
  <2> QED
    BY <2>1, <2>2 DEF Least, s
<1>31. root \in DOMAIN nodes
  BY <1>5, <1>22 DEF Good, WF, Linkage
<1>32. Fill(g, root)
  <2>1. \A x \in DOMAIN nodes : x # a => g[x].is_leaf = nodes[x].is_leaf /\ g[x].keys = nodes[x].keys
    BY <1>25
  <2>2. /\ Len(g[a].keys) \in Nat /\ Len(g[a].keys) <= MAX_KEY_NUM /\ Len(g[a].keys) >= Least(g[a])
        /\ Len(g[b].keys) \in Nat /\ Len(g[b].keys) <= MAX_KEY_NUM /\ Len(g[b].keys) >= Least(g[b])
    BY <1>8, <1>30
  <2> QED
    BY <1>2, <1>5, <1>6, <1>24, <1>31, <2>1, <2>2, FillHalves
<1>33. Len(g[a].keys) >= Least(g[a]) /\ Len(g[b].keys) >= Least(g[b])
  BY <1>8, <1>30
<1> DEFINE c == [fn |-> "insert_into_parent", left |-> a, right |-> b, key |-> h[a].keys[s + 1]]
<1>34. Inv(g, root, c, ix)
  BY <1>3, <1>5, <1>29, <1>32, <1>33, HalvedInv
<1>35. nodes' = g /\ call' = c /\ index' = ix /\ root' = root
  BY <1>1, <1>22 DEF g
<1> QED
  BY <1>34, <1>35 DEF IInv

(* The steps of insert_into_parent.                                           *)

\* What is known when insert_into_parent is pending.
LEMMA PendingInsert ==
    ASSUME IInv, call.fn = "insert_into_parent"
    PROVE  /\ Heap(nodes) /\ Fill(nodes, root) /\ DOMAIN index \subseteq Names
           /\ Halves(nodes, root, call)
           /\ ParentOf(nodes, call) # NULL => Good(PutIntoParent(nodes, call), root, index)
           /\ ParentOf(nodes, call) = NULL => Good(PutAbove(nodes, Fresh(nodes), call), Fresh(nodes), index)
<1>1. call # Done
  BY DEF Done
<1>2. ~Doomed(nodes, root, call)
  BY DEF Doomed
<1> QED
  BY <1>1, <1>2 DEF IInv, Inv

\* The new root has one key, and all other nodes have the keys they had.
IsGrown(g, h, t) ==
    /\ DOMAIN h = DOMAIN g \cup {t} /\ Len(h[t].keys) = 1
    /\ \A x \in DOMAIN g : h[x].is_leaf = g[x].is_leaf /\ h[x].keys = g[x].keys

\* The nodes after the new root was put above the halves.
LEMMA PutAboveNodes ==
    ASSUME NEW g, Heap(g), NEW t \in Address \ DOMAIN g, NEW c, c.key \in Names,
           c.left \in Address, c.right \in Address
    PROVE  IsGrown(g, PutAbove(g, t, c), t)
<1> DEFINE h == PutAbove(g, t, c)
           n == Node(FALSE, <<c.key>>, <<c.left, c.right>>, NULL, NULL)
           g1 == Alloc(g, t, n)
<1>1. h = Adopt(g1, {c.left, c.right}, t)
  BY DEF PutAbove
<1> HIDE DEF h
<1>2. IsNode(n, FALSE, <<c.key>>, <<c.left, c.right>>, NULL)
  <2>1. Fits(FALSE, <<c.key>>, <<c.left, c.right>>)
    BY DEF Fits
  <2>2. NULL \in Link /\ FALSE \in BOOLEAN
    BY DEF Link
  <2> QED
    BY <2>1, <2>2, NewNode
<1> HIDE DEF n
<1>3. n \in NodeType /\ Fits(n.is_leaf, n.keys, n.pointers) /\ n.keys = <<c.key>>
  BY <1>2 DEF IsNode
<1>4. IsAlloc(g, g1, t, n)
  BY <1>3, AllocHeap
<1> HIDE DEF g1
<1>5. Heap(g1) /\ DOMAIN g1 = DOMAIN g \cup {t} /\ g1[t] = n /\ \A x \in DOMAIN g : g1[x] = g[x]
  BY <1>4 DEF IsAlloc
<1>6. IsAdopt(g1, h, {c.left, c.right}, t)
  <2>1. t \in Link
    BY DEF Link
  <2> QED
    BY <1>1, <1>5, <2>1, AdoptHeap
<1>7. DOMAIN h = DOMAIN g1 /\ \A x \in DOMAIN g1 : h[x].is_leaf = g1[x].is_leaf /\ h[x].keys = g1[x].keys
  BY <1>6 DEF IsAdopt
<1>8. h[t].keys = <<c.key>>
  BY <1>3, <1>5, <1>7
<1>9. IsGrown(g, h, t)
  BY <1>5, <1>7, <1>8 DEF IsGrown
<1> QED
  BY <1>9 DEF h

\* insert_into_parent when the root was split.
LEMMA InvGrowRoot ==
    ASSUME IInv, GrowRoot
    PROVE  IInv'
<1> DEFINE t == Fresh(nodes)
           h == PutAbove(nodes, t, call)
<1>1. /\ call.fn = "insert_into_parent" /\ ParentOf(nodes, call) = NULL
      /\ root' = t /\ nodes' = h /\ call' = Done /\ index' = index
  BY DEF GrowRoot, ParentOf, PutAbove
<1>2. /\ Heap(nodes) /\ Fill(nodes, root) /\ DOMAIN index \subseteq Names
      /\ Halves(nodes, root, call) /\ Good(h, t, index)
  BY <1>1, PendingInsert
<1>3. t \in Address \ DOMAIN nodes
  BY <1>2, FreshNew DEF Heap
<1>4. Heap(h)
  BY <1>2 DEF Good, WF
<1>5. /\ call.key \in Names /\ call.left \in Address /\ call.right \in Address
      /\ call.left = root /\ root \in DOMAIN nodes
      /\ Len(nodes[root].keys) >= Least(nodes[root])
  BY <1>1, <1>2 DEF Halves
<1> HIDE DEF t, h
<1>6. /\ DOMAIN h = DOMAIN nodes \cup {t} /\ Len(h[t].keys) = 1
      /\ \A x \in DOMAIN nodes : h[x].is_leaf = nodes[x].is_leaf /\ h[x].keys = nodes[x].keys
  <2>1. IsGrown(nodes, h, t)
    BY <1>2, <1>3, <1>5, PutAboveNodes DEF h
  <2> QED
    BY <2>1 DEF IsGrown
<1>7. Fill(h, t)
  <2> SUFFICES ASSUME NEW x \in DOMAIN h
               PROVE  /\ Len(h[x].keys) <= MAX_KEY_NUM
                      /\ x # t => Len(h[x].keys) >= Least(h[x])
                      /\ x = t /\ ~h[x].is_leaf => Len(h[x].keys) >= 1
    BY DEF Fill
  <2>1. CASE x = t
    <3>1. 1 <= MAX_KEY_NUM /\ 1 >= 1
      BY TreeAssumption
    <3>2. Len(h[x].keys) = 1
      BY <1>6, <2>1
    <3> QED
      BY <2>1, <3>1, <3>2
  <2>2. CASE x # t
    <3>1. x \in DOMAIN nodes /\ h[x].is_leaf = nodes[x].is_leaf /\ h[x].keys = nodes[x].keys
      BY <1>6, <2>2
    <3>2. Least(h[x]) = Least(nodes[x])
      BY <3>1 DEF Least
    <3>3. Len(nodes[x].keys) <= MAX_KEY_NUM /\ Len(nodes[x].keys) >= Least(nodes[x])
      BY <1>2, <1>5, <3>1 DEF Fill
    <3> QED
      BY <2>2, <3>1, <3>2, <3>3
  <2> QED
    BY <2>1, <2>2
<1>8. t # NULL
  BY <1>3, TreeAssumption DEF Address
<1> QED
  BY <1>1, <1>2, <1>4, <1>7, <1>8 DEF IInv, Inv

\* The right half enters the parent of the left one.
ParentKeys(h, c) == InsertAt(h[ParentOf(h, c)].keys, IndexOf(h, c) + 1, c.key)
ParentPointers(h, c) == InsertAt(h[ParentOf(h, c)].pointers, IndexOf(h, c) + 2, c.right)
ParentGets(h, c, p, ks, ps) ==
    /\ IsSet(h, PutIntoParent(h, c), p, ks, ps)
    /\ p \in DOMAIN h /\ h[p].is_leaf = FALSE /\ Len(h[p].keys) \in Nat
    /\ ks \in Seq(Names) /\ Len(ks) = Len(h[p].keys) + 1
    /\ ps \in Seq(Address) /\ Len(ps) = Len(h[p].keys) + 2

\* The entries of the parent with the right half in it.
LEMMA PutIntoParentSet ==
    ASSUME NEW h, Heap(h), NEW r, NEW c, Halves(h, r, c), ParentOf(h, c) # NULL
    PROVE  ParentGets(h, c, ParentOf(h, c), ParentKeys(h, c), ParentPointers(h, c))
<1> DEFINE p == ParentOf(h, c)
           ks == ParentKeys(h, c)
           ps == ParentPointers(h, c)
<1>1. /\ c.left \in DOMAIN h /\ c.right \in Address /\ c.key \in Names /\ p \in DOMAIN h
      /\ \E i : ChildAt(h, p, i, c.left)
  BY DEF Halves
<1>2. ~h[p].is_leaf /\ h[c.left].parent = p
  BY <1>1 DEF ChildAt, ParentOf
<1>3. h[p].is_leaf = FALSE
  BY <1>1, <1>2, KeysInt
<1> DEFINE ks0 == h[p].keys
           ps0 == h[p].pointers
           i == IndexOf(h, c)
<1>4. i \in 0 .. Len(ks0)
  BY <1>1, <1>2, NodeIndexRange DEF IndexOf
<1>5. ks0 \in Seq(Names) /\ ps0 \in Seq(Address) /\ Len(ps0) = Len(ks0) + 1 /\ Len(ks0) \in Nat
  <2>1. NodeOK(h[p]) /\ h[p] \in NodeType
    BY <1>1 DEF Heap
  <2>2. ks0 \in Seq(Names)
    BY <2>1 DEF NodeType
  <2> QED
    BY <1>2, <2>1, <2>2 DEF NodeOK
<1>6. PutIntoParent(h, c) = SetEntries(h, p, ks, ps)
  BY DEF PutIntoParent, ParentKeys, ParentPointers
<1>7. ks = InsertAt(ks0, i + 1, c.key) /\ ps = InsertAt(ps0, i + 2, c.right)
  BY DEF ParentKeys, ParentPointers
<1> HIDE DEF ks0, ps0, i, p, ks, ps
<1>8. i + 2 = (i + 1) + 1 /\ i + 1 \in 0 .. Len(ps0)
  BY <1>4, <1>5
<1>9. ks \in Seq(Names) /\ IsPut(ks0, i, c.key, ks)
  BY <1>1, <1>4, <1>5, <1>7, PutProp
<1>10. ps \in Seq(Address) /\ IsPut(ps0, i + 1, c.right, ps)
  BY <1>1, <1>5, <1>7, <1>8, PutProp
<1>11. Len(ks) = Len(ks0) + 1 /\ Len(ps) = Len(ks0) + 2
  BY <1>5, <1>9, <1>10 DEF IsPut
<1>12. Fits(FALSE, ks, ps)
  BY <1>5, <1>9, <1>10, <1>11 DEF Fits
<1>13. Fits(h[p].is_leaf, ks, ps)
  BY <1>3, <1>12
<1>14. IsSet(h, PutIntoParent(h, c), p, ks, ps)
  BY <1>1, <1>6, <1>13, SetHeap
<1>15. ParentGets(h, c, p, ks, ps)
  BY <1>1, <1>3, <1>5, <1>9, <1>10, <1>11, <1>14 DEF ks0, ParentGets
<1> QED
  BY <1>15 DEF p, ks, ps

\* insert_into_parent when the parent has room.
LEMMA InvInsertIntoParent ==
    ASSUME IInv, InsertIntoParent
    PROVE  IInv'
<1> DEFINE p == ParentOf(nodes, call)
           h == PutIntoParent(nodes, call)
           ks == ParentKeys(nodes, call)
           ps == ParentPointers(nodes, call)
<1>1. /\ call.fn = "insert_into_parent" /\ p # NULL /\ Len(nodes[p].keys) < MAX_KEY_NUM
      /\ nodes' = h /\ root' = root /\ call' = Done /\ index' = index
  BY DEF InsertIntoParent, ParentOf, PutIntoParent, ParentOfLeft, WithKey, WithRight, IndexOfLeft,
         IndexOf, NumKeys, SetEntries
<1>2. /\ Heap(nodes) /\ Fill(nodes, root) /\ DOMAIN index \subseteq Names
      /\ Halves(nodes, root, call) /\ Good(h, root, index)
  BY <1>1, PendingInsert
<1> HIDE DEF p, h, ks, ps
<1>3. /\ IsSet(nodes, h, p, ks, ps) /\ p \in DOMAIN nodes /\ Len(nodes[p].keys) \in Nat
      /\ Len(ks) = Len(nodes[p].keys) + 1
  <2>1. ParentGets(nodes, call, p, ks, ps)
    BY <1>1, <1>2, PutIntoParentSet DEF p, ks, ps
  <2> QED
    BY <2>1 DEF ParentGets, h
<1>4. Heap(h)
  BY <1>2 DEF Good, WF
<1>5. Fill(h, root)
  <2>1. /\ p # root => Len(nodes[p].keys) >= Least(nodes[p])
    BY <1>2, <1>3 DEF Fill
  <2>2. Least(nodes[p]) \in Nat
    BY LeastPositive
  <2>3. /\ Len(ks) <= MAX_KEY_NUM /\ Len(ks) >= 1
        /\ p # root => Len(ks) >= Least(nodes[p])
    BY <1>1, <1>3, <2>1, <2>2, TreeAssumption
  <2> QED
    BY <1>2, <1>3, <2>3, FillSet, Zenon
<1>6. root # NULL
  BY <1>2, TreeAssumption DEF Halves, Heap, Address
<1> QED
  BY <1>1, <1>2, <1>4, <1>5, <1>6 DEF IInv, Inv

\* insert_into_node_after_splitting leaves two halves of the parent.
LEMMA InvInsertIntoNodeAfterSplitting ==
    ASSUME IInv, InsertIntoNodeAfterSplitting
    PROVE  IInv'
<1> DEFINE a == ParentOf(nodes, call)
           ks == ParentKeys(nodes, call)
           ps == ParentPointers(nodes, call)
           q == (MAX_KEY_NUM + 2) \div 2
           s == q - 1
           b == Fresh(nodes)
           ks1 == SubSeq(ks, 1, q - 1)
           ps1 == SubSeq(ps, 1, q)
           ks2 == SubSeq(ks, q + 1, MAX_KEY_NUM + 1)
           ps2 == SubSeq(ps, q + 1, MAX_KEY_NUM + 2)
           n == Node(FALSE, ks2, ps2, nodes[a].parent, NULL)
           m == SetEntries(nodes, a, ks1, ps1)
           m2 == Alloc(m, b, n)
           h == PutIntoParent(nodes, call)
           g == Adopt(m2, ToSet(ps2), b)
<1>1. /\ call.fn = "insert_into_parent" /\ a # NULL /\ Len(nodes[a].keys) = MAX_KEY_NUM
      /\ root' = root /\ index' = index /\ nodes' = g
      /\ call' = [call EXCEPT !.left = a, !.right = b, !.key = ks[q]]
  BY DEF InsertIntoNodeAfterSplitting, ParentOf, ParentKeys, ParentPointers, ParentOfLeft, WithKey,
         WithRight, IndexOfLeft, IndexOf, NumKeys, SetEntries
<1>2. /\ Heap(nodes) /\ Fill(nodes, root) /\ DOMAIN index \subseteq Names
      /\ Halves(nodes, root, call) /\ Good(h, root, index)
  BY <1>1, PendingInsert
<1>3. call' = [fn |-> "insert_into_parent", left |-> a, right |-> b, key |-> ks[q]]
  <2>1. call \in [fn : {"insert_into_parent"}, left : Address, right : Address, key : Names]
    BY <1>2 DEF Halves
  <2> QED
    BY <1>1, <2>1
<1>4. ParentGets(nodes, call, a, ks, ps)
  BY <1>1, <1>2, PutIntoParentSet
<1> HIDE DEF a, ks, ps
<1>5. /\ IsSet(nodes, h, a, ks, ps) /\ a \in DOMAIN nodes /\ nodes[a].is_leaf = FALSE
      /\ ks \in Seq(Names) /\ Len(ks) = MAX_KEY_NUM + 1
      /\ ps \in Seq(Address) /\ Len(ps) = MAX_KEY_NUM + 2
  BY <1>1, <1>4 DEF ParentGets
<1>6. b \in Address \ DOMAIN nodes
  BY <1>2, FreshNew DEF Heap
<1> HIDE DEF b
<1>8. /\ q \in Nat /\ q >= 2 /\ q <= MAX_KEY_NUM /\ MAX_KEY_NUM \in Nat
      /\ s = MAX_KEY_NUM \div 2 /\ (MAX_KEY_NUM + 1) - q >= MAX_KEY_NUM \div 2
  BY TreeAssumption
<1>7. s \in Nat /\ s >= 1 /\ s + 1 = q /\ s <= MAX_KEY_NUM
      /\ (MAX_KEY_NUM + 1) - q <= MAX_KEY_NUM /\ (MAX_KEY_NUM + 1) - q \in Nat
  BY <1>8
<1> HIDE DEF q, s
<1>9. ks1 \in Seq(Names) /\ IsPiece(ks, 1, q - 1, ks1)
  <2>1. 1 \in 1 .. Len(ks) + 1 /\ q - 1 \in 1 - 1 .. Len(ks)
    BY <1>5, <1>8
  <2> QED
    BY <1>5, <2>1, PieceOf
<1>10. ps1 \in Seq(Address) /\ IsPiece(ps, 1, q, ps1)
  <2>1. 1 \in 1 .. Len(ps) + 1 /\ q \in 1 - 1 .. Len(ps)
    BY <1>5, <1>8
  <2> QED
    BY <1>5, <2>1, PieceOf
<1>11. ks2 \in Seq(Names) /\ IsPiece(ks, q + 1, MAX_KEY_NUM + 1, ks2)
  <2>1. q + 1 \in 1 .. Len(ks) + 1 /\ MAX_KEY_NUM + 1 \in (q + 1) - 1 .. Len(ks)
    BY <1>5, <1>8
  <2> QED
    BY <1>5, <2>1, PieceOf
<1>12. ps2 \in Seq(Address) /\ IsPiece(ps, q + 1, MAX_KEY_NUM + 2, ps2)
  <2>1. q + 1 \in 1 .. Len(ps) + 1 /\ MAX_KEY_NUM + 2 \in (q + 1) - 1 .. Len(ps)
    BY <1>5, <1>8
  <2> QED
    BY <1>5, <2>1, PieceOf
<1> HIDE DEF ks1, ps1, ks2, ps2
<1>13. Len(ks1) = s /\ Len(ps1) = q /\ (\A i \in 1 .. s : ks1[i] = ks[i]) /\ (\A i \in 1 .. q : ps1[i] = ps[i])
  BY <1>7, <1>8, <1>9, <1>10 DEF IsPiece
<1>14. /\ Len(ks2) = (MAX_KEY_NUM + 1) - q /\ Len(ps2) = (MAX_KEY_NUM + 2) - q
       /\ \A i \in 1 .. (MAX_KEY_NUM + 1) - q : ks2[i] = ks[i + q]
       /\ \A i \in 1 .. (MAX_KEY_NUM + 2) - q : ps2[i] = ps[i + q]
  BY <1>8, <1>11, <1>12 DEF IsPiece
<1>15. Fits(FALSE, ks1, ps1) /\ Fits(FALSE, ks2, ps2)
  BY <1>7, <1>8, <1>9, <1>10, <1>11, <1>12, <1>13, <1>14 DEF Fits
<1>16. nodes[a].parent \in Link
  BY <1>2, <1>5, HeapNodes
<1>17. IsSet(nodes, m, a, ks1, ps1)
  BY <1>2, <1>5, <1>15, SetHeap
<1>19. IsNode(n, FALSE, ks2, ps2, nodes[a].parent)
  <2>1. NULL \in Link /\ FALSE \in BOOLEAN
    BY DEF Link
  <2> QED
    BY <1>15, <1>16, <2>1, NewNode
<1> HIDE DEF m, h, n
<1>20. /\ n \in NodeType /\ Fits(n.is_leaf, n.keys, n.pointers) /\ n.is_leaf = FALSE
       /\ n.keys = ks2 /\ n.pointers = ps2 /\ n.parent = nodes[a].parent
  BY <1>19 DEF IsNode
<1>21. /\ Heap(m) /\ DOMAIN m = DOMAIN nodes /\ m[a].keys = ks1 /\ m[a].pointers = ps1
       /\ m[a].is_leaf = nodes[a].is_leaf /\ m[a].parent = nodes[a].parent
       /\ \A x \in DOMAIN nodes : x # a => m[x] = nodes[x]
  BY <1>17 DEF IsSet
<1>22. /\ Heap(h) /\ DOMAIN h = DOMAIN nodes /\ h[a].keys = ks /\ h[a].pointers = ps
       /\ h[a].is_leaf = nodes[a].is_leaf /\ h[a].parent = nodes[a].parent
       /\ \A x \in DOMAIN nodes : x # a => h[x] = nodes[x]
  BY <1>5 DEF IsSet
<1>23. IsAlloc(m, m2, b, n)
  BY <1>6, <1>20, <1>21, AllocHeap
<1> HIDE DEF m2
<1>24. Heap(m2) /\ DOMAIN m2 = DOMAIN nodes \cup {b} /\ m2[b] = n /\ \A x \in DOMAIN nodes : m2[x] = m[x]
  BY <1>6, <1>21, <1>23 DEF IsAlloc
<1>25. m2[a] = m[a] /\ a # b /\ \A x \in DOMAIN nodes : x # a => m2[x] = nodes[x] /\ m2[x] = h[x]
  BY <1>5, <1>6, <1>21, <1>22, <1>24
<1>36. IsAdopt(m2, g, ToSet(ps2), b)
  <2>1. b \in Link
    BY <1>6 DEF Link
  <2> QED
    BY <1>24, <2>1, AdoptHeap
<1> HIDE DEF g
<1>37. /\ Heap(g) /\ DOMAIN g = DOMAIN nodes \cup {b}
       /\ \A x \in DOMAIN g :
            /\ g[x].is_leaf = m2[x].is_leaf /\ g[x].keys = m2[x].keys /\ g[x].pointers = m2[x].pointers
            /\ g[x].parent = IF x \in ToSet(ps2) THEN b ELSE m2[x].parent
  BY <1>24, <1>36 DEF IsAdopt
<1>38. /\ g[a].is_leaf = FALSE /\ g[a].keys = ks1 /\ g[a].pointers = ps1
       /\ g[b].is_leaf = FALSE /\ g[b].keys = ks2 /\ g[b].pointers = ps2
  <2>1. a \in DOMAIN g /\ b \in DOMAIN g
    BY <1>5, <1>37
  <2> QED
    BY <1>5, <1>20, <1>21, <1>24, <1>25, <1>37, <2>1
<1>26. SplitNode(h, g, a, b, s)
  <2>1. Stays(h, a) = 1
    BY <1>5, <1>22 DEF Stays
  <2>3. g[a].is_leaf = h[a].is_leaf /\ g[b].is_leaf = h[a].is_leaf
    BY <1>5, <1>22, <1>38
  <2>4. Len(h[a].keys) - s - Stays(h, a) = (MAX_KEY_NUM + 1) - q /\ s + Stays(h, a) = q
          /\ Len(h[a].pointers) - s - Stays(h, a) = (MAX_KEY_NUM + 2) - q
    BY <1>5, <1>7, <1>8, <1>22, <2>1
  <2>5. \A i \in Nat : i + s + Stays(h, a) = i + q
    BY <1>7, <1>8, <2>1
  <2>6. \A i \in 1 .. (MAX_KEY_NUM + 1) - q : ks2[i] = ks[i + s + Stays(h, a)]
    BY <1>14, <2>5
  <2>7. \A i \in 1 .. (MAX_KEY_NUM + 2) - q : ps2[i] = ps[i + s + Stays(h, a)]
    BY <1>14, <2>5
  <2> QED
    BY <1>13, <1>14, <1>22, <1>38, <2>3, <2>4, <2>6, <2>7, Zenon DEF SplitNode
<1>27. \A x : x \in ToSet(ps2) <=> \E i : i > s + 1 /\ ChildAt(h, a, i, x)
  <2> SUFFICES ASSUME NEW x
               PROVE  x \in ToSet(ps2) <=> \E i : i > s + 1 /\ ChildAt(h, a, i, x)
    OBVIOUS
  <2>1. x \in ToSet(ps2) <=> \E k \in 1 .. (MAX_KEY_NUM + 2) - q : ps2[k] = x
    BY <1>12, <1>14 DEF ToSet
  <2>2. ASSUME NEW i
        PROVE  ChildAt(h, a, i, x) <=> i \in 1 .. MAX_KEY_NUM + 2 /\ ps[i] = x
    BY <1>5, <1>22 DEF ChildAt
  <2>3. ASSUME NEW k \in 1 .. (MAX_KEY_NUM + 2) - q, ps2[k] = x
        PROVE  \E i : i > s + 1 /\ ChildAt(h, a, i, x)
    <3>1. k + q > s + 1 /\ k + q \in 1 .. MAX_KEY_NUM + 2 /\ ps[k + q] = x
      BY <1>7, <1>8, <1>14, <2>3
    <3>2. ChildAt(h, a, k + q, x)
      BY <2>2, <3>1
    <3> QED
      BY <3>1, <3>2
  <2>4. ASSUME NEW i, i > s + 1, ChildAt(h, a, i, x)
        PROVE  \E k \in 1 .. (MAX_KEY_NUM + 2) - q : ps2[k] = x
    <3>1. i \in 1 .. MAX_KEY_NUM + 2 /\ ps[i] = x
      BY <2>2, <2>4
    <3>2. i - q \in 1 .. (MAX_KEY_NUM + 2) - q /\ (i - q) + q = i
      BY <1>7, <1>8, <2>4, <3>1
    <3>3. ps2[i - q] = x
      BY <1>14, <3>1, <3>2
    <3> QED
      BY <3>2, <3>3
  <2> QED
    BY <2>1, <2>3, <2>4
<1>28. \A i, x : ChildAt(h, a, i, x) => x \in DOMAIN h
  <2>1. PICK ht, rng : WF(h, root, ht, rng)
    BY <1>2 DEF Good
  <2> QED
    BY <1>5, <1>22, <2>1 DEF WF, Linkage
<1>29. Halved(h, g, a, b, s)
  <2>1. s < Len(h[a].keys)
    BY <1>5, <1>7, <1>8, <1>22
  <2>2. \A x \in DOMAIN h : x # a =>
          g[x].is_leaf = h[x].is_leaf /\ g[x].keys = h[x].keys /\ g[x].pointers = h[x].pointers
    BY <1>22, <1>25, <1>37
  <2>6. \A x \in DOMAIN h : m2[x].parent = h[x].parent
    BY <1>21, <1>22, <1>24, <1>25
  <2>3. \A x \in DOMAIN h :
          g[x].parent = IF \E i : i > s + 1 /\ ChildAt(h, a, i, x) THEN b ELSE h[x].parent
    <3> SUFFICES ASSUME NEW x \in DOMAIN h
                 PROVE  g[x].parent = IF \E i : i > s + 1 /\ ChildAt(h, a, i, x) THEN b ELSE h[x].parent
      OBVIOUS
    <3>1. g[x].parent = IF x \in ToSet(ps2) THEN b ELSE h[x].parent
      BY <1>22, <1>37, <2>6
    <3>2. x \in ToSet(ps2) <=> \E i : i > s + 1 /\ ChildAt(h, a, i, x)
      BY <1>27
    <3> QED
      BY <3>1, <3>2
  <2>4. g[b].parent = h[a].parent
    <3>1. b \notin ToSet(ps2)
      BY <1>6, <1>22, <1>27, <1>28
    <3>2. b \in DOMAIN g
      BY <1>37
    <3>3. g[b].parent = m2[b].parent
      BY <1>37, <3>1, <3>2
    <3> QED
      BY <1>20, <1>22, <1>24, <3>3
  <2>5. a \in DOMAIN h /\ b \in Address \ DOMAIN h /\ DOMAIN g = DOMAIN h \cup {b}
    BY <1>5, <1>6, <1>22, <1>37
  <2> QED
    BY <1>7, <1>26, <1>37, <2>1, <2>2, <2>3, <2>4, <2>5 DEF Halved
<1>30. /\ Len(g[a].keys) = s /\ Len(g[b].keys) = (MAX_KEY_NUM + 1) - q
       /\ Least(g[a]) = s /\ Least(g[b]) = s
  <2>1. Len(g[a].keys) = s /\ Len(g[b].keys) = (MAX_KEY_NUM + 1) - q
    BY <1>13, <1>14, <1>38
  <2> QED
    BY <1>8, <1>38, <2>1 DEF Least
<1>31. root \in DOMAIN nodes
  BY <1>2 DEF Halves
<1>33. Len(g[a].keys) >= Least(g[a]) /\ Len(g[b].keys) >= Least(g[b])
  BY <1>7, <1>8, <1>30
<1>32. Fill(g, root)
  <2>1. \A x \in DOMAIN nodes : x # a => g[x].is_leaf = nodes[x].is_leaf /\ g[x].keys = nodes[x].keys
    BY <1>25, <1>37
  <2>2. /\ Len(g[a].keys) \in Nat /\ Len(g[a].keys) <= MAX_KEY_NUM
        /\ Len(g[b].keys) \in Nat /\ Len(g[b].keys) <= MAX_KEY_NUM
    BY <1>7, <1>8, <1>30
  <2> QED
    BY <1>2, <1>5, <1>6, <1>31, <1>33, <1>37, <2>1, <2>2, FillHalves
<1> DEFINE c == [fn |-> "insert_into_parent", left |-> a, right |-> b, key |-> h[a].keys[s + 1]]
<1>34. Inv(g, root, c, index)
  BY <1>2, <1>29, <1>32, <1>33, HalvedInv
<1>35. nodes' = g /\ call' = c /\ index' = index /\ root' = root
  BY <1>1, <1>3, <1>7, <1>22
<1> QED
  BY <1>34, <1>35 DEF IInv

(* The steps of B_plus_tree_remove and delete_entry.                          *)

\* B_plus_tree_remove leaves an entry that delete_entry is to remove.
LEMMA InvRemoveName ==
    ASSUME IInv, NEW key \in Removable, RemoveName(key)
    PROVE  IInv'
<1> DEFINE a == FindLeaf(key)
           ks == nodes[a].keys
           i == Until(ks, key)
           c == [fn |-> "delete_entry", nd |-> a, index |-> i]
           ix2 == [n \in DOMAIN index \ {key} |-> index[n]]
<1>1. /\ Idle /\ a # NULL /\ i < Len(ks) /\ call' = c /\ index' = ix2 /\ root' = root /\ nodes' = nodes
  BY DEF RemoveName, IndexIn, Until, NumKeys
<1>2. Heap(nodes) /\ Fill(nodes, root) /\ DOMAIN index \subseteq Names
  BY DEF IInv, Inv
<1>3. root # NULL
  BY <1>1 DEF FindLeaf
<1>4. Good(nodes, root, index)
  BY <1>1, <1>3, Cases DEF Empty
<1>5. PICK ht, rng : WF(nodes, root, ht, rng) /\ (0 \notin CondGarbage => Content(nodes, rng, index))
  BY <1>4 DEF Good
<1>6. a \in DOMAIN nodes /\ nodes[a].is_leaf
  <2>1. key \in Names
    BY TreeAssumption
  <2> QED
    BY <1>3, <1>5, <2>1, FindLeafProp
<1> HIDE DEF a
<1>7. ks \in Seq(Names) /\ Len(ks) \in Nat
  BY <1>2, <1>6, KeysInt
<1>8. i \in 0 .. Len(ks) /\ (i < Len(ks) => ks[i + 1] = key)
  <2> HIDE DEF ks
  <2> QED
    BY <1>7, UntilProp
<1> HIDE DEF i
<1>9. i \in Nat /\ i + 1 \in 1 .. Len(nodes[a].keys) /\ key = nodes[a].keys[i + 1]
  BY <1>1, <1>7, <1>8
<1>10. Good(SetEntries(nodes, a, RemoveAt(nodes[a].keys, i + 1), RemoveAt(nodes[a].pointers, i + 1)), root, ix2)
  <2>1. WF(nodes, root, ht, rng)
    BY <1>5
  <2>2. 0 \notin CondGarbage => Content(nodes, rng, index)
    BY <1>5
  <2> QED
    BY <1>6, <1>9, <2>1, <2>2, LeafCut, Zenon
<1>11. c.nd = a /\ c.index = i /\ KeyOf(nodes, c) = i + 1
  BY <1>6 DEF KeyOf
<1>12. Good(CutEntry(nodes, c), root, ix2)
  BY <1>10, <1>11 DEF CutEntry
<1>13. Doomed(nodes, root, c)
  <2>1. a \in Address
    BY <1>2, <1>6 DEF Heap
  <2>2. c \in [fn : {"delete_entry"}, nd : Address, index : Nat]
    BY <1>9, <2>1
  <2>3. root \in DOMAIN nodes
    BY <1>5 DEF WF, Linkage
  <2> HIDE DEF c
  <2> QED
    BY <1>1, <1>6, <1>11, <2>2, <2>3 DEF Doomed
<1>14. DOMAIN ix2 \subseteq Names
  BY <1>2
<1> HIDE DEF c, ix2
<1>15. Inv(nodes, root, c, ix2)
  BY <1>2, <1>12, <1>13, <1>14 DEF Inv
<1> QED
  BY <1>1, <1>15 DEF IInv

\* The entries that are left in the node, and how many.
CutKeys(h, c) == RemoveAt(h[c.nd].keys, KeyOf(h, c))
CutPointers(h, c) == RemoveAt(h[c.nd].pointers, c.index + 1)
IsCutNode(h, c, ks, ps) ==
    /\ IsSet(h, CutEntry(h, c), c.nd, ks, ps)
    /\ c.nd \in DOMAIN h /\ h[c.nd].is_leaf \in BOOLEAN
    /\ Len(h[c.nd].keys) \in Nat /\ Len(h[c.nd].keys) >= 1
    /\ Fits(h[c.nd].is_leaf, ks, ps) /\ Len(ks) = Len(h[c.nd].keys) - 1

\* remove_entry leaves a well-formed node.
LEMMA CutNode ==
    ASSUME NEW h, Heap(h), NEW r, NEW c, Doomed(h, r, c)
    PROVE  IsCutNode(h, c, CutKeys(h, c), CutPointers(h, c))
<1> DEFINE a == c.nd
           ks0 == h[a].keys
           ps0 == h[a].pointers
           k == KeyOf(h, c)
           ks == RemoveAt(ks0, k)
           ps == RemoveAt(ps0, c.index + 1)
<1>1. a \in DOMAIN h /\ c.index \in Nat
  BY DEF Doomed
<1>2. IF h[a].is_leaf THEN c.index < Len(ks0) ELSE c.index \in 1 .. Len(ks0)
  BY DEF Doomed
<1>3. h[a] \in NodeType /\ Fits(h[a].is_leaf, ks0, ps0) /\ h[a].is_leaf \in BOOLEAN /\ ks0 \in Seq(Names)
  BY <1>1, HeapNodes
<1>4. CutEntry(h, c) = SetEntries(h, a, ks, ps) /\ CutKeys(h, c) = ks /\ CutPointers(h, c) = ps
  BY DEF CutEntry, CutKeys, CutPointers
<1>5. k = IF h[a].is_leaf THEN c.index + 1 ELSE c.index
  BY DEF KeyOf
<1>11. Len(ks0) \in Nat
  BY <1>3
<1> HIDE DEF a, ks0, ps0, k
<1>6. CASE h[a].is_leaf
  <2>1. ps0 \in Seq(Files) /\ Len(ps0) = Len(ks0)
    BY <1>3, <1>6 DEF Fits
  <2>2. k \in 1 .. Len(ks0) /\ c.index + 1 \in 1 .. Len(ps0) /\ Len(ks0) >= 1
    BY <1>1, <1>2, <1>5, <1>6, <1>11, <2>1
  <2>3. ks \in Seq(Names) /\ IsCut(ks0, k, ks)
    BY <1>3, <2>2, CutProp
  <2>4. ps \in Seq(Files) /\ IsCut(ps0, c.index + 1, ps)
    BY <2>1, <2>2, CutProp
  <2> HIDE DEF ks, ps
  <2>5. Len(ks) = Len(ks0) - 1 /\ Len(ps) = Len(ks0) - 1
    BY <2>1, <2>3, <2>4 DEF IsCut
  <2>6. Fits(TRUE, ks, ps)
    BY <2>3, <2>4, <2>5 DEF Fits
  <2>7. Fits(h[a].is_leaf, ks, ps)
    BY <1>3, <1>6, <2>6
  <2>8. IsSet(h, CutEntry(h, c), a, ks, ps)
    BY <1>1, <1>4, <2>7, SetHeap
  <2>9. IsCutNode(h, c, ks, ps)
    BY <1>1, <1>3, <1>11, <2>2, <2>5, <2>7, <2>8 DEF IsCutNode, a, ks0
  <2> QED
    BY <1>4, <2>9
<1>7. CASE ~h[a].is_leaf
  <2>1. ps0 \in Seq(Address) /\ Len(ps0) = Len(ks0) + 1
    BY <1>3, <1>7 DEF Fits
  <2>2. k \in 1 .. Len(ks0) /\ c.index + 1 \in 1 .. Len(ps0) /\ Len(ks0) >= 1
    BY <1>1, <1>2, <1>5, <1>7, <1>11, <2>1
  <2>3. ks \in Seq(Names) /\ IsCut(ks0, k, ks)
    BY <1>3, <2>2, CutProp
  <2>4. ps \in Seq(Address) /\ IsCut(ps0, c.index + 1, ps)
    BY <2>1, <2>2, CutProp
  <2> HIDE DEF ks, ps
  <2>5. Len(ks) = Len(ks0) - 1 /\ Len(ps) = Len(ks)  + 1
    BY <1>11, <2>1, <2>3, <2>4 DEF IsCut
  <2>6. Fits(FALSE, ks, ps)
    BY <2>3, <2>4, <2>5 DEF Fits
  <2>10. h[a].is_leaf = FALSE
    BY <1>3, <1>7
  <2>7. Fits(h[a].is_leaf, ks, ps)
    BY <2>6, <2>10
  <2>8. IsSet(h, CutEntry(h, c), a, ks, ps)
    BY <1>1, <1>4, <2>7, SetHeap
  <2>9. IsCutNode(h, c, ks, ps)
    BY <1>1, <1>3, <1>11, <2>2, <2>5, <2>7, <2>8 DEF IsCutNode, a, ks0
  <2> QED
    BY <1>4, <2>9
<1> QED
  BY <1>6, <1>7

\* The heap that Removed stands for, and what is known of it.
RemovedFacts ==
    /\ Heap(nodes) /\ Fill(nodes, root) /\ DOMAIN index \subseteq Names
    /\ Doomed(nodes, root, call) /\ Good(Removed, root, index) /\ Heap(Removed)
    /\ call.nd \in DOMAIN nodes /\ call.nd \in DOMAIN Removed /\ nodes[call.nd].is_leaf \in BOOLEAN
    /\ DOMAIN Removed = DOMAIN nodes
    /\ \A x \in DOMAIN nodes : x # call.nd => Removed[x] = nodes[x]
    /\ Removed[call.nd].is_leaf = nodes[call.nd].is_leaf
    /\ Removed[call.nd].parent = nodes[call.nd].parent
    /\ Len(nodes[call.nd].keys) \in Nat /\ Len(nodes[call.nd].keys) >= 1
    /\ Len(Removed[call.nd].keys) = KeysLeft
    /\ root \in DOMAIN nodes

\* What is known when delete_entry is pending.
LEMMA PendingDelete ==
    ASSUME IInv, call.fn = "delete_entry"
    PROVE  RemovedFacts
<1>1. call # Done
  BY DEF Done
<1>2. ~Halves(nodes, root, call)
  BY DEF Halves
<1>3. /\ Heap(nodes) /\ Fill(nodes, root) /\ DOMAIN index \subseteq Names
      /\ Doomed(nodes, root, call) /\ Good(CutEntry(nodes, call), root, index)
  BY <1>1, <1>2 DEF IInv, Inv
<1>4. Removed = CutEntry(nodes, call)
  BY DEF Removed, RemoveEntry, CutEntry, SetEntries, KeyOf
<1> DEFINE ks == CutKeys(nodes, call)
           ps == CutPointers(nodes, call)
<1>5. IsCutNode(nodes, call, ks, ps)
  BY <1>3, CutNode
<1> HIDE DEF ks, ps
<1>6. /\ IsSet(nodes, Removed, call.nd, ks, ps) /\ call.nd \in DOMAIN nodes
      /\ nodes[call.nd].is_leaf \in BOOLEAN
      /\ Len(nodes[call.nd].keys) \in Nat /\ Len(nodes[call.nd].keys) >= 1
      /\ Len(ks) = Len(nodes[call.nd].keys) - 1
  BY <1>4, <1>5 DEF IsCutNode
<1>7. Len(ks) = KeysLeft
  BY <1>6 DEF KeysLeft, NumKeys
<1>8. Good(Removed, root, index)
  BY <1>3, <1>4
<1>9. root \in DOMAIN nodes
  BY <1>3 DEF Doomed
<1> HIDE DEF Removed, KeysLeft
<1>10. /\ Heap(Removed) /\ DOMAIN Removed = DOMAIN nodes
       /\ Removed[call.nd].keys = ks
       /\ Removed[call.nd].is_leaf = nodes[call.nd].is_leaf
       /\ Removed[call.nd].parent = nodes[call.nd].parent
       /\ \A x \in DOMAIN nodes : x # call.nd => Removed[x] = nodes[x]
  BY <1>6 DEF IsSet
<1> QED
  BY <1>3, <1>6, <1>7, <1>8, <1>9, <1>10 DEF RemovedFacts

\* Leaves that stay as they were hold what they held.
SameLeaves(h, rng, h2, rng2) ==
    /\ DOMAIN h2 \subseteq DOMAIN h
    /\ \A x \in DOMAIN h2 : h2[x].is_leaf = h[x].is_leaf /\ h2[x].keys = h[x].keys
                              /\ h2[x].pointers = h[x].pointers
    /\ \A x \in DOMAIN h2 : rng2[x] = rng[x]

\* The leaves hold the same names when they and their ranges stay.
LEMMA SameContent ==
    ASSUME NEW h, NEW rng, NEW ix, Content(h, rng, ix), NEW h2, NEW rng2, SameLeaves(h, rng, h2, rng2)
    PROVE  Content(h2, rng2, ix)
<1> SUFFICES ASSUME NEW x \in DOMAIN h2, h2[x].is_leaf
             PROVE  /\ \A i \in 1 .. Len(h2[x].keys) :
                         h2[x].keys[i] \in DOMAIN ix /\ ix[h2[x].keys[i]] = h2[x].pointers[i]
                    /\ \A y \in rng2[x] \cap DOMAIN ix : \E i \in 1 .. Len(h2[x].keys) : h2[x].keys[i] = y
  BY DEF Content
<1>1. x \in DOMAIN h /\ h[x].is_leaf /\ h2[x].keys = h[x].keys /\ h2[x].pointers = h[x].pointers
        /\ rng2[x] = rng[x]
  BY DEF SameLeaves
<1>2. /\ \A i \in 1 .. Len(h[x].keys) :
              h[x].keys[i] \in DOMAIN ix /\ ix[h[x].keys[i]] = h[x].pointers[i]
      /\ \A y \in rng[x] \cap DOMAIN ix : \E i \in 1 .. Len(h[x].keys) : h[x].keys[i] = y
  BY <1>1 DEF Content
<1> QED
  BY <1>1, <1>2

\* A tree whose root is a leaf has no other node.
LEMMA LoneRoot ==
    ASSUME NEW h, NEW r, NEW ht, NEW rng, WF(h, r, ht, rng), h[r].is_leaf
    PROVE  DOMAIN h = {r}
<1>1. r \in DOMAIN h /\ ht \in [DOMAIN h -> Nat] /\ (h[r].is_leaf <=> ht[r] = 0)
        /\ \A a \in DOMAIN h : a # r => ht[a] < ht[r]
  BY DEF WF, Heights, Linkage
<1>2. ht[r] = 0
  BY <1>1
<1>3. \A a \in DOMAIN h : a = r
  BY <1>1, <1>2
<1> QED
  BY <1>1, <1>3

\* The keys of the node from which the entry was removed are enough.
LEMMA FillRemoved ==
    ASSUME RemovedFacts, call.nd # root => KeysLeft >= MinKeys,
           call.nd = root => KeysLeft > 0
    PROVE  Fill(Removed, root)
<1>1. /\ Fill(nodes, root) /\ call.nd \in DOMAIN nodes /\ DOMAIN Removed = DOMAIN nodes
      /\ \A x \in DOMAIN nodes : x # call.nd => Removed[x] = nodes[x]
      /\ Removed[call.nd].is_leaf = nodes[call.nd].is_leaf
      /\ Len(Removed[call.nd].keys) = KeysLeft
      /\ Len(nodes[call.nd].keys) \in Nat
  BY DEF RemovedFacts
<1>2. KeysLeft = Len(nodes[call.nd].keys) - 1 /\ MinKeys = Least(Removed[call.nd])
  BY <1>1 DEF KeysLeft, NumKeys, MinKeys, Least
<1> HIDE DEF Removed, KeysLeft, MinKeys
<1> SUFFICES ASSUME NEW x \in DOMAIN nodes
             PROVE  /\ Len(Removed[x].keys) <= MAX_KEY_NUM
                    /\ x # root => Len(Removed[x].keys) >= Least(Removed[x])
                    /\ x = root /\ ~Removed[x].is_leaf => Len(Removed[x].keys) >= 1
  BY <1>1 DEF Fill
<1>3. CASE x = call.nd
  <2>1. Len(nodes[call.nd].keys) <= MAX_KEY_NUM
    BY <1>1 DEF Fill
  <2>2. KeysLeft \in Int /\ KeysLeft <= MAX_KEY_NUM
    BY <1>1, <1>2, <2>1, TreeAssumption
  <2>3. x = root => KeysLeft >= 1
    BY <1>3, <2>2
  <2> QED
    BY <1>1, <1>2, <1>3, <2>2, <2>3
<1>4. CASE x # call.nd
  BY <1>1, <1>4 DEF Fill
<1> QED
  BY <1>3, <1>4

\* delete_entry in a node that keeps enough keys.
LEMMA InvDeleteEnough ==
    ASSUME IInv, DeleteEnough
    PROVE  IInv'
<1>1. /\ call.fn = "delete_entry" /\ call.nd # root /\ KeysLeft >= MinKeys
      /\ nodes' = Removed /\ call' = Done /\ root' = root /\ index' = index
  BY DEF DeleteEnough
<1>2. RemovedFacts
  BY <1>1, PendingDelete
<1>3. Fill(Removed, root)
  BY <1>1, <1>2, FillRemoved
<1>4. root # NULL
  BY <1>2, TreeAssumption DEF RemovedFacts, Heap, Address
<1> HIDE DEF Removed
<1> QED
  BY <1>1, <1>2, <1>3, <1>4 DEF IInv, Inv, RemovedFacts

\* The root was a leaf and its last name is gone.
LEMMA InvDeleteLast ==
    ASSUME RemovedFacts, call.nd = root, KeysLeft = 0, nodes[root].is_leaf,
           NEW h2, h2 = Free(Adopt(Removed, {NULL}, NULL), root)
    PROVE  Inv(h2, NULL, Done, index)
<1>1. /\ Heap(Removed) /\ Good(Removed, root, index) /\ DOMAIN index \subseteq Names
      /\ Removed[root].is_leaf /\ Len(Removed[root].keys) = 0
  BY DEF RemovedFacts
<1> HIDE DEF Removed
<1> DEFINE g == Adopt(Removed, {NULL}, NULL)
<1>2. IsAdopt(Removed, g, {NULL}, NULL)
  <2>1. NULL \in Link
    BY DEF Link
  <2> QED
    BY <1>1, <2>1, AdoptHeap
<1> HIDE DEF g
<1>3. Heap(g) /\ DOMAIN g = DOMAIN Removed
  BY <1>2 DEF IsAdopt
<1>4. IsFree(g, h2, root)
  BY <1>3, FreeHeap DEF g
<1>5. PICK ht, rng : WF(Removed, root, ht, rng) /\ (0 \notin CondGarbage => Content(Removed, rng, index))
  BY <1>1 DEF Good
<1>6. DOMAIN Removed = {root}
  BY <1>1, <1>5, LoneRoot
<1>7. Heap(h2) /\ DOMAIN h2 = {}
  BY <1>3, <1>4, <1>6 DEF IsFree
<1>8. rng[root] = Names
  BY <1>5 DEF WF, Ranges
<1>9. 0 \notin CondGarbage => DOMAIN index = {}
  <2> SUFFICES ASSUME 0 \notin CondGarbage, NEW x \in DOMAIN index
               PROVE  FALSE
    OBVIOUS
  <2>1. x \in rng[root] \cap DOMAIN index
    BY <1>1, <1>8
  <2>2. \E i \in 1 .. Len(Removed[root].keys) : Removed[root].keys[i] = x
    BY <1>1, <1>5, <1>6, <2>1 DEF Content
  <2> QED
    BY <1>1, <2>2
<1>10. Fill(h2, NULL)
  BY <1>7 DEF Fill
<1> QED
  BY <1>1, <1>7, <1>9, <1>10 DEF Inv, Empty

\* adjust_root: the only child of the root becomes the root.
LEMMA InvLowerRoot ==
    ASSUME RemovedFacts, call.nd = root, KeysLeft = 0, ~nodes[root].is_leaf,
           NEW c, c = Removed[root].pointers[1],
           NEW h2, h2 = Free(Adopt(Removed, {c}, NULL), root)
    PROVE  Inv(h2, c, Done, index)
<1>1. /\ Heap(Removed) /\ Good(Removed, root, index) /\ DOMAIN index \subseteq Names /\ Fill(nodes, root)
      /\ ~Removed[root].is_leaf /\ Len(Removed[root].keys) = 0 /\ DOMAIN Removed = DOMAIN nodes
      /\ \A x \in DOMAIN nodes : x # root => Removed[x] = nodes[x]
  BY DEF RemovedFacts
<1> HIDE DEF Removed
<1> DEFINE g == Adopt(Removed, {c}, NULL)
<1>2. IsAdopt(Removed, g, {c}, NULL)
  <2>1. NULL \in Link
    BY DEF Link
  <2> QED
    BY <1>1, <2>1, AdoptHeap
<1> HIDE DEF g
<1>3. Heap(g) /\ DOMAIN g = DOMAIN Removed
  BY <1>2 DEF IsAdopt
<1>4. IsFree(g, h2, root)
  BY <1>3, FreeHeap DEF g
<1>5. PICK ht, rng : WF(Removed, root, ht, rng) /\ (0 \notin CondGarbage => Content(Removed, rng, index))
  BY <1>1 DEF Good
<1>6. Heap(h2) /\ DOMAIN h2 = DOMAIN Removed \ {root} /\ \A x \in DOMAIN h2 : h2[x] = g[x]
  BY <1>3, <1>4 DEF IsFree
<1>7. \A x \in DOMAIN h2 : /\ h2[x].is_leaf = Removed[x].is_leaf /\ h2[x].keys = Removed[x].keys
                           /\ h2[x].pointers = Removed[x].pointers
                           /\ h2[x].parent = IF x = c THEN NULL ELSE Removed[x].parent
  BY <1>2, <1>6 DEF IsAdopt
<1>8. IsLowered(Removed, h2, root, c)
  BY <1>1, <1>6, <1>7 DEF IsLowered
<1> DEFINE ht2 == LoweredTo(ht, h2)
           rng2 == LoweredTo(rng, h2)
<1>9. WF(h2, c, ht2, rng2) /\ c \in DOMAIN h2
  BY <1>5, <1>8, RootBelow
<1>10. \A x \in DOMAIN h2 : rng2[x] = rng[x]
  BY DEF LoweredTo
<1> HIDE DEF ht2, rng2
<1>11. 0 \notin CondGarbage => Content(h2, rng2, index)
  <2>1. SameLeaves(Removed, rng, h2, rng2)
    BY <1>6, <1>7, <1>10 DEF SameLeaves
  <2> QED
    BY <1>5, <2>1, SameContent
<1>12. Good(h2, c, index)
  BY <1>9, <1>11 DEF Good
<1>13. Fill(h2, c)
  <2> SUFFICES ASSUME NEW x \in DOMAIN h2
               PROVE  /\ Len(h2[x].keys) <= MAX_KEY_NUM
                      /\ Len(h2[x].keys) >= Least(h2[x])
                      /\ Len(h2[x].keys) >= 1
    BY DEF Fill
  <2>1. x \in DOMAIN nodes /\ x # root /\ Removed[x] = nodes[x]
    BY <1>1, <1>6
  <2>2. h2[x].keys = nodes[x].keys /\ h2[x].is_leaf = nodes[x].is_leaf
    BY <1>7, <2>1
  <2>3. Least(h2[x]) = Least(nodes[x]) /\ Least(nodes[x]) \in Nat /\ Least(nodes[x]) >= 1
    BY <2>2, LeastPositive DEF Least
  <2>4. Len(nodes[x].keys) <= MAX_KEY_NUM /\ Len(nodes[x].keys) >= Least(nodes[x])
    BY <1>1, <2>1 DEF Fill
  <2>5. Len(nodes[x].keys) \in Nat
    BY <1>6, <2>2, KeysInt
  <2> QED
    BY <2>2, <2>3, <2>4, <2>5
<1>14. c # NULL
  BY <1>6, <1>9, TreeAssumption DEF Heap, Address
<1> QED
  BY <1>1, <1>6, <1>12, <1>13, <1>14 DEF Inv

\* delete_entry in the root, and adjust_root.
LEMMA InvDeleteInRoot ==
    ASSUME IInv, DeleteInRoot
    PROVE  IInv'
<1>1. call.fn = "delete_entry" /\ call.nd = root /\ call' = Done /\ index' = index
  BY DEF DeleteInRoot
<1>2. RemovedFacts
  BY <1>1, PendingDelete
<1>3. CASE KeysLeft > 0
  <2>1. nodes' = Removed /\ root' = root
    BY <1>3 DEF DeleteInRoot
  <2>2. Fill(Removed, root)
    BY <1>1, <1>2, <1>3, FillRemoved
  <2>3. root # NULL
    BY <1>2, TreeAssumption DEF RemovedFacts, Heap, Address
  <2> HIDE DEF Removed
  <2> QED
    BY <1>1, <1>2, <2>1, <2>2, <2>3 DEF IInv, Inv, RemovedFacts
<1>4. CASE ~(KeysLeft > 0)
  <2>1. KeysLeft = 0
    <3>1. Len(nodes[call.nd].keys) \in Nat /\ Len(nodes[call.nd].keys) >= 1
      BY <1>2 DEF RemovedFacts
    <3> DEFINE n == Len(nodes[call.nd].keys)
    <3>2. KeysLeft = n - 1
      BY DEF KeysLeft, NumKeys
    <3> HIDE DEF n, KeysLeft
    <3>3. n \in Nat /\ n >= 1 /\ ~(n - 1 > 0)
      BY <1>4, <3>1, <3>2 DEF n
    <3> QED
      BY <3>2, <3>3
  <2>2. CASE nodes[root].is_leaf
    <3>1. root' = NULL /\ nodes' = Free(Adopt(Removed, {NULL}, NULL), root)
      BY <1>4, <2>2 DEF DeleteInRoot
    <3>2. Inv(nodes', NULL, Done, index)
      BY <1>1, <1>2, <2>1, <2>2, <3>1, InvDeleteLast
    <3> QED
      BY <1>1, <3>1, <3>2 DEF IInv
  <2>3. CASE ~nodes[root].is_leaf
    <3> DEFINE c == Removed[root].pointers[1]
    <3>1. root' = c /\ nodes' = Free(Adopt(Removed, {c}, NULL), root)
      BY <1>4, <2>3 DEF DeleteInRoot
    <3>2. Inv(nodes', c, Done, index)
      BY <1>1, <1>2, <2>1, <2>3, <3>1, InvLowerRoot
    <3> QED
      BY <1>1, <3>1, <3>2 DEF IInv
  <2> QED
    BY <2>2, <2>3
<1> QED
  BY <1>3, <1>4

(* Two neighbours.                                                            *)

\* The nodes l and m are children i and i + 1 of p.
Siblings(h, p, i, l, m) ==
    /\ p \in DOMAIN h /\ l \in DOMAIN h /\ m \in DOMAIN h
    /\ ChildAt(h, p, i, l) /\ ChildAt(h, p, i + 1, m)

\* What is known of two neighbours in a tree with the root r.
Neighbours(h, r, p, i, l, m) ==
    /\ i \in 1 .. Len(h[p].keys) /\ h[p].is_leaf = FALSE
    /\ l # m /\ l # p /\ m # p /\ l # r /\ m # r /\ r \in DOMAIN h
    /\ h[l].is_leaf = h[m].is_leaf /\ h[l].is_leaf \in BOOLEAN
    /\ h[l].parent = p /\ h[m].parent = p
    /\ \A k, x : ChildAt(h, l, k, x) => x \in DOMAIN h /\ h[x].parent = l

\* Neighbours in a tree are two nodes of one kind with one parent.
LEMMA SiblingsProp ==
    ASSUME NEW h, NEW r, NEW ht, NEW rng, WF(h, r, ht, rng),
           NEW p, NEW i, NEW l, NEW m, Siblings(h, p, i, l, m)
    PROVE  Neighbours(h, r, p, i, l, m)
<1>1. p \in DOMAIN h /\ l \in DOMAIN h /\ m \in DOMAIN h /\ ChildAt(h, p, i, l) /\ ChildAt(h, p, i + 1, m)
  BY DEF Siblings
<1>2. Heap(h) /\ r \in DOMAIN h /\ h[r].parent = NULL
  BY DEF WF, Linkage
<1>3. h[l].parent = p /\ ht[p] = ht[l] + 1
  BY <1>1 DEF WF, Linkage
<1>4. h[m].parent = p /\ ht[p] = ht[m] + 1
  BY <1>1 DEF WF, Linkage
<1>5. ht[p] \in Nat /\ ht[l] \in Nat /\ ht[m] \in Nat
  BY <1>1 DEF WF, Heights
<1>6. ht[l] = ht[m] /\ l # p /\ m # p
  BY <1>3, <1>4, <1>5
<1>7. ~h[p].is_leaf /\ i \in 1 .. Len(h[p].pointers) /\ i + 1 \in 1 .. Len(h[p].pointers)
  BY <1>1 DEF ChildAt
<1>8. h[p].is_leaf = FALSE /\ Len(h[p].pointers) = Len(h[p].keys) + 1 /\ Len(h[p].keys) \in Nat
  BY <1>1, <1>2, <1>7, KeysInt
<1>9. i \in 1 .. Len(h[p].keys)
  BY <1>7, <1>8
<1>10. l # m
  <2> SUFFICES ASSUME l = m
               PROVE  FALSE
    OBVIOUS
  <2>1. ChildAt(h, p, i, l) /\ ChildAt(h, p, i + 1, l)
    BY <1>1
  <2>2. i = i + 1
    BY <1>1, <2>1 DEF WF, Linkage
  <2> QED
    BY <1>9, <2>2
<1>11. p # NULL
  BY <1>1, <1>2, TreeAssumption DEF Heap, Address
<1>12. l # r /\ m # r
  BY <1>2, <1>3, <1>4, <1>11
<1>13. h[l].is_leaf \in BOOLEAN /\ h[m].is_leaf \in BOOLEAN
  BY <1>1, <1>2, KeysInt
<1>14. (h[l].is_leaf <=> ht[l] = 0) /\ (h[m].is_leaf <=> ht[m] = 0)
  BY <1>1 DEF WF, Heights
<1>15. h[l].is_leaf = h[m].is_leaf
  BY <1>6, <1>13, <1>14
<1>16. \A k, x : ChildAt(h, l, k, x) => x \in DOMAIN h /\ h[x].parent = l
  BY <1>1 DEF WF, Linkage
<1> QED
  BY <1>2, <1>3, <1>4, <1>6, <1>8, <1>9, <1>10, <1>12, <1>13, <1>15, <1>16 DEF Neighbours

\* The entries of two neighbours, with the separator between those of nodes with children.
Between(h, p, i, l) == IF h[l].is_leaf THEN <<>> ELSE <<h[p].keys[i]>>
MergedKeys(h, p, i, l, m) == h[l].keys \o Between(h, p, i, l) \o h[m].keys
MergedPointers(h, l, m) == h[l].pointers \o h[m].pointers

MergedEntries(h, p, i, l, m, ks, ps) ==
    LET nk == Len(h[l].keys)
        np == Len(h[l].pointers)
        d  == IF h[l].is_leaf THEN 0 ELSE 1
    IN  /\ Fits(h[l].is_leaf, ks, ps)
        /\ nk \in Nat /\ np \in Nat /\ Len(h[m].keys) \in Nat /\ Len(h[m].pointers) \in Nat
        /\ Len(ks) = nk + d + Len(h[m].keys)
        /\ \A k \in 1 .. nk : ks[k] = h[l].keys[k]
        /\ ~h[l].is_leaf => ks[nk + 1] = h[p].keys[i]
        /\ \A k \in 1 .. Len(h[m].keys) : ks[k + (nk + d)] = h[m].keys[k]
        /\ Len(ps) = np + Len(h[m].pointers)
        /\ \A k \in 1 .. np : ps[k] = h[l].pointers[k]
        /\ \A k \in 1 .. Len(h[m].pointers) : ps[k + np] = h[m].pointers[k]

\* What the joined entries of two neighbours are.
LEMMA MergedProp ==
    ASSUME NEW h, Heap(h), NEW r, NEW p, NEW i, NEW l, NEW m, Siblings(h, p, i, l, m),
           Neighbours(h, r, p, i, l, m)
    PROVE  MergedEntries(h, p, i, l, m, MergedKeys(h, p, i, l, m), MergedPointers(h, l, m))
<1> DEFINE kl == h[l].keys
           km == h[m].keys
           pl == h[l].pointers
           pm == h[m].pointers
           dn == Between(h, p, i, l)
           d  == IF h[l].is_leaf THEN 0 ELSE 1
           w == kl \o dn
           ks == w \o km
           ps == pl \o pm
<1>1. p \in DOMAIN h /\ l \in DOMAIN h /\ m \in DOMAIN h
  BY DEF Siblings
<1>2. h[l].is_leaf = h[m].is_leaf /\ h[l].is_leaf \in BOOLEAN /\ i \in 1 .. Len(h[p].keys)
  BY DEF Neighbours
<1>3. Fits(h[l].is_leaf, kl, pl) /\ Fits(h[l].is_leaf, km, pm)
  BY <1>1, <1>2, HeapNodes
<1>4. h[p].keys[i] \in Names
  BY <1>1, <1>2, KeysInt
<1>5. dn \in Seq(Names) /\ Len(dn) = d /\ (~h[l].is_leaf => dn[1] = h[p].keys[i])
  BY <1>2, <1>4 DEF Between
<1>6. kl \in Seq(Names) /\ km \in Seq(Names)
  BY <1>3 DEF Fits
<1>7. MergedKeys(h, p, i, l, m) = ks /\ MergedPointers(h, l, m) = ps
  BY DEF MergedKeys, MergedPointers
<1>8. d \in Nat /\ (~h[l].is_leaf => d = 1)
  BY <1>2
<1> DEFINE lf == h[l].is_leaf
<1>9. lf \in BOOLEAN /\ Fits(lf, kl, pl) /\ Fits(lf, km, pm)
  BY <1>2, <1>3
<1> HIDE DEF kl, km, pl, pm, dn, d, lf
<1>10. w \in Seq(Names) /\ IsJoin(kl, dn, w)
  BY <1>5, <1>6, JoinedProp
<1> HIDE DEF w
<1>11. ks \in Seq(Names) /\ IsJoin(w, km, ks)
  BY <1>6, <1>10, JoinedProp
<1> HIDE DEF ks
<1>12. ASSUME lf
       PROVE  Fits(lf, ks, ps) /\ IsJoin(pl, pm, ps) /\ Len(pl) \in Nat /\ Len(pm) \in Nat
  <2>1. pl \in Seq(Files) /\ pm \in Seq(Files) /\ Len(pl) = Len(kl) /\ Len(pm) = Len(km)
    BY <1>9, <1>12 DEF Fits
  <2>2. ps \in Seq(Files) /\ IsJoin(pl, pm, ps)
    BY <2>1, JoinedProp
  <2> HIDE DEF ps
  <2>5. Len(dn) = 0
    BY <1>5, <1>12 DEF d, lf
  <2>3. Len(ps) = Len(ks)
    BY <1>5, <1>6, <1>10, <1>11, <2>1, <2>2, <2>5 DEF IsJoin
  <2>4. Fits(TRUE, ks, ps)
    BY <1>11, <2>2, <2>3 DEF Fits
  <2>6. lf = TRUE
    BY <1>9, <1>12
  <2>7. Len(pl) \in Nat /\ Len(pm) \in Nat
    BY <2>1
  <2> QED
    BY <2>2, <2>4, <2>6, <2>7, Zenon
<1>13. ASSUME ~lf
       PROVE  Fits(lf, ks, ps) /\ IsJoin(pl, pm, ps) /\ Len(pl) \in Nat /\ Len(pm) \in Nat
  <2>1. pl \in Seq(Address) /\ pm \in Seq(Address) /\ Len(pl) = Len(kl) + 1 /\ Len(pm) = Len(km) + 1
    BY <1>9, <1>13 DEF Fits
  <2>2. ps \in Seq(Address) /\ IsJoin(pl, pm, ps)
    BY <2>1, JoinedProp
  <2> HIDE DEF ps
  <2>5. Len(dn) = 1
    BY <1>5, <1>13 DEF d, lf
  <2>3. Len(ps) = Len(ks) + 1
    BY <1>5, <1>6, <1>10, <1>11, <2>1, <2>2, <2>5 DEF IsJoin
  <2>4. Fits(FALSE, ks, ps)
    BY <1>11, <2>2, <2>3 DEF Fits
  <2>6. lf = FALSE
    BY <1>9, <1>13
  <2>7. Len(pl) \in Nat /\ Len(pm) \in Nat
    BY <2>1
  <2> QED
    BY <2>2, <2>4, <2>6, <2>7, Zenon
<1>14. Fits(lf, ks, ps) /\ IsJoin(pl, pm, ps) /\ Len(pl) \in Nat /\ Len(pm) \in Nat
  BY <1>12, <1>13
<1> HIDE DEF ps
<1>15. Len(kl) \in Nat /\ Len(km) \in Nat
  BY <1>6
<1>16. Len(w) = Len(kl) + d
  BY <1>5, <1>10 DEF IsJoin
<1>17. /\ Len(ks) = Len(kl) + d + Len(km)
       /\ \A k \in 1 .. Len(km) : ks[k + (Len(kl) + d)] = km[k]
  BY <1>11, <1>16 DEF IsJoin
<1>18. \A k \in 1 .. Len(w) : ks[k] = w[k]
  BY <1>11 DEF IsJoin
<1>19. \A k \in 1 .. Len(kl) : ks[k] = kl[k]
  <2>1. \A k \in 1 .. Len(kl) : k \in 1 .. Len(w) /\ w[k] = kl[k]
    BY <1>8, <1>10, <1>15, <1>16 DEF IsJoin
  <2> QED
    BY <1>18, <2>1
<1>20. ~lf => ks[Len(kl) + 1] = h[p].keys[i]
  <2> SUFFICES ASSUME ~lf
               PROVE  ks[Len(kl) + 1] = h[p].keys[i]
    OBVIOUS
  <2>1. Len(dn) = 1 /\ d = 1 /\ dn[1] = h[p].keys[i]
    BY <1>5, <1>8 DEF lf
  <2>2. w[1 + Len(kl)] = dn[1]
    BY <1>10, <2>1 DEF IsJoin
  <2>3. 1 + Len(kl) = Len(kl) + 1 /\ Len(kl) + 1 \in 1 .. Len(w)
    BY <1>15, <1>16, <2>1
  <2> QED
    BY <1>18, <2>1, <2>2, <2>3
<1>21. /\ Len(ps) = Len(pl) + Len(pm)
       /\ \A k \in 1 .. Len(pl) : ps[k] = pl[k]
       /\ \A k \in 1 .. Len(pm) : ps[k + Len(pl)] = pm[k]
  BY <1>14 DEF IsJoin
<1>22. MergedEntries(h, p, i, l, m, ks, ps)
  BY <1>14, <1>15, <1>17, <1>19, <1>20, <1>21, Zenon DEF MergedEntries, kl, km, pl, pm, d, lf
<1> QED
  BY <1>7, <1>22

\* In g, the node m of h has gone into l, which has the entries ks, ps, but the
\* parent still has both.
Coalesced(h, g, l, m, ks, ps) ==
    /\ Heap(g) /\ DOMAIN g = DOMAIN h \ {m}
    /\ g[l].is_leaf = h[l].is_leaf /\ g[l].keys = ks /\ g[l].pointers = ps
    /\ \A x \in DOMAIN g : x # l =>
         g[x].is_leaf = h[x].is_leaf /\ g[x].keys = h[x].keys /\ g[x].pointers = h[x].pointers
    /\ \A x \in DOMAIN g :
         g[x].parent = IF ~h[l].is_leaf /\ x \in ToSet(ps) THEN l ELSE h[x].parent

\* The heap that coalesce_nodes makes.
CoalescedOf(h, l, m, ks, ps, nx) ==
    Free(IF h[l].is_leaf THEN SetNode(h, l, ks, ps, nx)
         ELSE Adopt(SetNode(h, l, ks, ps, nx), ToSet(ps), l), m)

\* What coalesce_nodes changes.
LEMMA CoalescedHeap ==
    ASSUME NEW h, Heap(h), NEW l \in DOMAIN h, NEW m, l # m, NEW ks, NEW ps,
           Fits(h[l].is_leaf, ks, ps), NEW nx \in Link
    PROVE  Coalesced(h, CoalescedOf(h, l, m, ks, ps, nx), l, m, ks, ps)
<1> DEFINE h1 == SetNode(h, l, ks, ps, nx)
           h2 == IF h[l].is_leaf THEN h1 ELSE Adopt(h1, ToSet(ps), l)
           g == Free(h2, m)
           kids == {x \in ToSet(ps) : ~h[l].is_leaf}
<1>1. CoalescedOf(h, l, m, ks, ps, nx) = g
  BY DEF CoalescedOf
<1>2. IsSet(h, h1, l, ks, ps)
  BY SetNodeHeap
<1> HIDE DEF h1
<1>3. /\ Heap(h1) /\ DOMAIN h1 = DOMAIN h /\ h1[l].keys = ks /\ h1[l].pointers = ps
      /\ h1[l].is_leaf = h[l].is_leaf /\ h1[l].parent = h[l].parent
      /\ \A x \in DOMAIN h : x # l => h1[x] = h[x]
  BY <1>2 DEF IsSet
<1>4. l \in Link /\ h[l].is_leaf \in BOOLEAN
  BY HeapNodes DEF Link
<1>5. IsAdopt(h1, h2, kids, l)
  <2>1. CASE h[l].is_leaf
    <3>1. h2 = h1 /\ kids = {}
      BY <2>1
    <3> HIDE DEF h2, kids
    <3>2. \A x \in DOMAIN h1 : h2[x].parent = IF x \in kids THEN l ELSE h1[x].parent
      BY <3>1
    <3> QED
      BY <1>3, <3>1, <3>2 DEF IsAdopt
  <2>2. CASE ~h[l].is_leaf
    <3>1. h2 = Adopt(h1, ToSet(ps), l) /\ kids = ToSet(ps)
      BY <2>2
    <3>2. IsAdopt(h1, Adopt(h1, ToSet(ps), l), ToSet(ps), l)
      BY <1>3, <1>4, AdoptHeap
    <3> QED
      BY <3>1, <3>2, Zenon
  <2> QED
    BY <2>1, <2>2
<1> HIDE DEF h2
<1>6. \A x : x \in kids <=> ~h[l].is_leaf /\ x \in ToSet(ps)
  OBVIOUS
<1> HIDE DEF kids
<1>7. /\ Heap(h2) /\ DOMAIN h2 = DOMAIN h
      /\ \A x \in DOMAIN h :
           /\ h2[x].is_leaf = h1[x].is_leaf /\ h2[x].keys = h1[x].keys /\ h2[x].pointers = h1[x].pointers
           /\ h2[x].parent = IF x \in kids THEN l ELSE h1[x].parent
  BY <1>3, <1>5 DEF IsAdopt
<1>8. IsFree(h2, g, m)
  BY <1>7, FreeHeap
<1> HIDE DEF g
<1>9. Heap(g) /\ DOMAIN g = DOMAIN h \ {m} /\ \A x \in DOMAIN g : g[x] = h2[x]
  BY <1>7, <1>8 DEF IsFree
<1>10. l \in DOMAIN g
  BY <1>9
<1>11. g[l].is_leaf = h[l].is_leaf /\ g[l].keys = ks /\ g[l].pointers = ps
  BY <1>3, <1>7, <1>9, <1>10
<1>12. \A x \in DOMAIN g : x # l =>
         g[x].is_leaf = h[x].is_leaf /\ g[x].keys = h[x].keys /\ g[x].pointers = h[x].pointers
  BY <1>3, <1>7, <1>9
<1>13. \A x \in DOMAIN g : h1[x].parent = h[x].parent
  BY <1>3, <1>9
<1>14. \A x \in DOMAIN g :
         g[x].parent = IF ~h[l].is_leaf /\ x \in ToSet(ps) THEN l ELSE h[x].parent
  <2> SUFFICES ASSUME NEW x \in DOMAIN g
               PROVE  g[x].parent = IF ~h[l].is_leaf /\ x \in ToSet(ps) THEN l ELSE h[x].parent
    OBVIOUS
  <2>1. g[x].parent = IF x \in kids THEN l ELSE h[x].parent
    BY <1>7, <1>9, <1>13
  <2>2. x \in kids <=> ~h[l].is_leaf /\ x \in ToSet(ps)
    BY <1>6
  <2> QED
    BY <2>1, <2>2
<1>15. Coalesced(h, g, l, m, ks, ps)
  BY <1>9, <1>11, <1>12, <1>14 DEF Coalesced
<1> QED
  BY <1>1, <1>15

\* delete_entry then takes the node that is gone out of the parent, and the
\* neighbours are merged.
LEMMA CoalescedMerge ==
    ASSUME NEW h, NEW r, NEW ht, NEW rng, WF(h, r, ht, rng),
           NEW p, NEW i, NEW l, NEW m, Siblings(h, p, i, l, m),
           NEW g, Coalesced(h, g, l, m, MergedKeys(h, p, i, l, m), MergedPointers(h, l, m)),
           NEW c, c = [fn |-> "delete_entry", nd |-> p, index |-> i]
    PROVE  Doomed(g, r, c) /\ IsMerge(h, CutEntry(g, c), l, m, p, i)
<1> DEFINE ks == MergedKeys(h, p, i, l, m)
           ps == MergedPointers(h, l, m)
           h2 == CutEntry(g, c)
           kp == h[p].keys
           pp == h[p].pointers
<1>1. Heap(h)
  BY DEF WF
<1>2. p \in DOMAIN h /\ l \in DOMAIN h /\ m \in DOMAIN h /\ ChildAt(h, p, i, l) /\ ChildAt(h, p, i + 1, m)
  BY DEF Siblings
<1>3. Neighbours(h, r, p, i, l, m)
  BY SiblingsProp
<1>4. MergedEntries(h, p, i, l, m, ks, ps)
  BY <1>1, <1>3, MergedProp
<1>5. /\ i \in 1 .. Len(kp) /\ h[p].is_leaf = FALSE
      /\ l # m /\ l # p /\ m # p /\ l # r /\ m # r /\ r \in DOMAIN h
      /\ h[l].is_leaf = h[m].is_leaf /\ h[l].is_leaf \in BOOLEAN
      /\ \A k, x : ChildAt(h, l, k, x) => x \in DOMAIN h /\ h[x].parent = l
  BY <1>3 DEF Neighbours
<1> HIDE DEF ks, ps
<1>6. /\ Heap(g) /\ DOMAIN g = DOMAIN h \ {m}
      /\ g[l].is_leaf = h[l].is_leaf /\ g[l].keys = ks /\ g[l].pointers = ps
      /\ \A x \in DOMAIN g : x # l =>
           g[x].is_leaf = h[x].is_leaf /\ g[x].keys = h[x].keys /\ g[x].pointers = h[x].pointers
      /\ \A x \in DOMAIN g :
           g[x].parent = IF ~h[l].is_leaf /\ x \in ToSet(ps) THEN l ELSE h[x].parent
  BY DEF Coalesced, ks, ps
<1>7. p \in DOMAIN g /\ l \in DOMAIN g /\ r \in DOMAIN g
  BY <1>2, <1>5, <1>6
<1>8. g[p].is_leaf = FALSE /\ g[p].keys = kp /\ g[p].pointers = pp
  BY <1>5, <1>6, <1>7
<1>9. c.nd = p /\ c.index = i /\ p \in Address /\ c.fn = "delete_entry"
  BY <1>1, <1>2 DEF Heap
<1>10. kp \in Seq(Names) /\ Len(kp) \in Nat /\ pp \in Seq(Address) /\ Len(pp) = Len(kp) + 1
  <2>1. Fits(h[p].is_leaf, kp, pp) /\ kp \in Seq(Names)
    BY <1>1, <1>2, HeapNodes
  <2>2. Fits(FALSE, kp, pp)
    BY <1>5, <2>1
  <2> HIDE DEF kp, pp
  <2> QED
    BY <2>1, <2>2 DEF Fits
<1>11. Doomed(g, r, c)
  <2>1. c \in [fn : {"delete_entry"}, nd : Address, index : Nat]
    BY <1>5, <1>9, <1>10
  <2>2. c.index \in 1 .. Len(g[p].keys)
    BY <1>5, <1>8, <1>9
  <2>3. IF g[c.nd].is_leaf THEN c.index < Len(g[c.nd].keys) ELSE c.index \in 1 .. Len(g[c.nd].keys)
    BY <1>8, <1>9, <2>2
  <2> QED
    BY <1>7, <1>9, <2>1, <2>3 DEF Doomed
<1> HIDE DEF kp, pp
<1>12. IsCutNode(g, c, CutKeys(g, c), CutPointers(g, c))
  BY <1>6, <1>11, CutNode
<1>13. KeyOf(g, c) = i
  BY <1>8, <1>9 DEF KeyOf
<1>14. CutKeys(g, c) = RemoveAt(kp, i) /\ CutPointers(g, c) = RemoveAt(pp, i + 1)
  BY <1>8, <1>9, <1>13 DEF CutKeys, CutPointers
<1> DEFINE kc == RemoveAt(kp, i)
           pc == RemoveAt(pp, i + 1)
<1>15. IsSet(g, h2, p, kc, pc)
  BY <1>9, <1>12, <1>14 DEF IsCutNode
<1>16. i \in 1 .. Len(kp) /\ i + 1 \in 1 .. Len(pp) /\ i \in Nat
  BY <1>5, <1>10 DEF kp
<1>17. IsCut(kp, i, kc)
  BY <1>10, <1>16, CutProp
<1>18. IsCut(pp, i + 1, pc)
  BY <1>10, <1>16, CutProp
<1> HIDE DEF kc, pc, h2
<1>19. /\ Heap(h2) /\ DOMAIN h2 = DOMAIN g /\ h2[p].keys = kc /\ h2[p].pointers = pc
       /\ h2[p].is_leaf = g[p].is_leaf /\ h2[p].parent = g[p].parent
       /\ \A x \in DOMAIN g : x # p => h2[x] = g[x]
  BY <1>15 DEF IsSet
<1>20. MergeParent(h, h2, p, i)
  <2>1. /\ Len(kc) = Len(kp) - 1
        /\ \A k \in 1 .. Len(kp) - 1 : kc[k] = IF k < i THEN kp[k] ELSE kp[k + 1]
    BY <1>17 DEF IsCut
  <2>2. /\ Len(pc) = Len(pp) - 1
        /\ \A k \in 1 .. Len(pp) - 1 : pc[k] = IF k < i + 1 THEN pp[k] ELSE pp[k + 1]
    BY <1>18 DEF IsCut
  <2>3. \A k \in 1 .. Len(pp) - 1 : pc[k] = IF k <= i THEN pp[k] ELSE pp[k + 1]
    BY <1>10, <1>16, <2>2
  <2>4. ~h2[p].is_leaf
    BY <1>8, <1>19
  <2> QED
    BY <1>19, <2>1, <2>2, <2>3, <2>4, Zenon DEF MergeParent, kp, pp
<1>21. h2[l].is_leaf = h[l].is_leaf /\ h2[l].keys = ks /\ h2[l].pointers = ps
  <2>1. h2[l] = g[l]
    BY <1>5, <1>7, <1>19
  <2> QED
    BY <1>6, <2>1
<1>22. MergeNode(h, h2, l, m, h[p].keys[i])
  BY <1>4, <1>21, Zenon DEF MergedEntries, MergeNode, Stays
<1>23. \A x : x \in ToSet(ps) <=> \E k \in 1 .. Len(ps) : ps[k] = x
  <2>1. ps \in Seq(Files \cup Address)
    <3>1. Fits(h[l].is_leaf, ks, ps)
      BY <1>4 DEF MergedEntries
    <3> QED
      BY <1>5, <3>1, FitsPointers
  <2> QED
    BY <2>1 DEF ToSet
<1>24. ASSUME NEW x \in DOMAIN h, ~h[l].is_leaf
       PROVE  x \in ToSet(ps) <=> (\E k : ChildAt(h, l, k, x)) \/ (\E k : ChildAt(h, m, k, x))
  <2> DEFINE np == Len(h[l].pointers)
             nm == Len(h[m].pointers)
  <2>1. /\ np \in Nat /\ nm \in Nat /\ Len(ps) = np + nm
        /\ \A k \in 1 .. np : ps[k] = h[l].pointers[k]
        /\ \A k \in 1 .. nm : ps[k + np] = h[m].pointers[k]
    BY <1>4 DEF MergedEntries
  <2>2. \A k : ChildAt(h, l, k, x) <=> k \in 1 .. np /\ h[l].pointers[k] = x
    BY <1>24 DEF ChildAt
  <2>3. \A k : ChildAt(h, m, k, x) <=> k \in 1 .. nm /\ h[m].pointers[k] = x
    BY <1>5, <1>24 DEF ChildAt
  <2> HIDE DEF np, nm
  <2>4. ASSUME NEW k \in 1 .. Len(ps), ps[k] = x
        PROVE  (\E e : ChildAt(h, l, e, x)) \/ (\E e : ChildAt(h, m, e, x))
    <3>1. CASE k <= np
      <4>1. k \in 1 .. np
        BY <2>1, <3>1
      <4> QED
        BY <2>1, <2>2, <2>4, <4>1
    <3>2. CASE ~(k <= np)
      <4>1. k - np \in 1 .. nm /\ (k - np) + np = k
        BY <2>1, <3>2
      <4>2. h[m].pointers[k - np] = x
        BY <2>1, <2>4, <4>1
      <4> QED
        BY <2>3, <4>1, <4>2
    <3> QED
      BY <3>1, <3>2
  <2>5. ASSUME NEW k, ChildAt(h, l, k, x)
        PROVE  \E e \in 1 .. Len(ps) : ps[e] = x
    <3>1. k \in 1 .. np /\ h[l].pointers[k] = x
      BY <2>2, <2>5
    <3>2. k \in 1 .. Len(ps) /\ ps[k] = x
      BY <2>1, <3>1
    <3> QED
      BY <3>2
  <2>6. ASSUME NEW k, ChildAt(h, m, k, x)
        PROVE  \E e \in 1 .. Len(ps) : ps[e] = x
    <3>1. k \in 1 .. nm /\ h[m].pointers[k] = x
      BY <2>3, <2>6
    <3>2. k + np \in 1 .. Len(ps) /\ ps[k + np] = x
      BY <2>1, <3>1
    <3> QED
      BY <3>2
  <2> QED
    BY <1>23, <2>4, <2>5, <2>6
<1>25. MergeRest(h, h2, l, m, p)
  <2>1. DOMAIN h2 = DOMAIN h \ {m}
    BY <1>6, <1>19
  <2>2. \A x \in DOMAIN h2 : x # l /\ x # p =>
          h2[x].is_leaf = h[x].is_leaf /\ h2[x].keys = h[x].keys /\ h2[x].pointers = h[x].pointers
    BY <1>6, <1>19
  <2>3. ASSUME NEW x \in DOMAIN h2
        PROVE  h2[x].parent = IF \E k : ChildAt(h, m, k, x) THEN l ELSE h[x].parent
    <3>1. x \in DOMAIN h /\ x \in DOMAIN g
      BY <1>6, <1>19
    <3>2. h2[x].parent = IF ~h[l].is_leaf /\ x \in ToSet(ps) THEN l ELSE h[x].parent
      BY <1>6, <1>19, <3>1
    <3>3. CASE h[l].is_leaf
      <4>1. ~ \E k : ChildAt(h, m, k, x)
        BY <1>5, <3>3 DEF ChildAt
      <4> QED
        BY <3>2, <3>3, <4>1
    <3>4. CASE ~h[l].is_leaf
      <4>1. x \in ToSet(ps) <=> (\E k : ChildAt(h, l, k, x)) \/ (\E k : ChildAt(h, m, k, x))
        BY <1>24, <3>1, <3>4
      <4>2. (\E k : ChildAt(h, l, k, x)) => h[x].parent = l
        BY <1>5
      <4> QED
        BY <3>2, <3>4, <4>1, <4>2
    <3> QED
      BY <3>3, <3>4
  <2> QED
    BY <2>1, <2>2, <2>3 DEF MergeRest
<1>26. IsMerge(h, h2, l, m, p, i)
  BY <1>2, <1>19, <1>20, <1>22, <1>25 DEF IsMerge
<1> QED
  BY <1>11, <1>26 DEF h2

\* The place of the separator: the greater of get_node_index and 1.
LEMMA MaxOne ==
    ASSUME NEW n \in Nat
    PROVE  Max({n, 1}) = IF n = 0 THEN 1 ELSE n
<1> DEFINE v == IF n = 0 THEN 1 ELSE n
<1>1. v \in {n, 1} /\ \A y \in {n, 1} : v >= y
  OBVIOUS
<1>2. \A x \in {n, 1} : (\A y \in {n, 1} : x >= y) => x = v
  OBVIOUS
<1> HIDE DEF v
<1>3. Max({n, 1}) \in {n, 1} /\ \A y \in {n, 1} : Max({n, 1}) >= y
  BY <1>1 DEF Max
<1>4. Max({n, 1}) = v
  BY <1>2, <1>3
<1> QED
  BY <1>4 DEF v

\* The node that has too few keys and its neighbour, the left one first, and the
\* place of the separator.
LeftNode  == IF NdIndex = 0 THEN call.nd ELSE Neighbor
RightNode == IF NdIndex = 0 THEN Neighbor ELSE call.nd
SepIndex  == Max({NdIndex, 1})
ParentNode == nodes[call.nd].parent

PairFacts ==
    /\ Siblings(Removed, ParentNode, SepIndex, LeftNode, RightNode)
    /\ Neighbours(Removed, root, ParentNode, SepIndex, LeftNode, RightNode)
    /\ Neighbor \in DOMAIN nodes /\ Neighbor # call.nd /\ Neighbor # root
    /\ ParentNode \in DOMAIN nodes /\ ParentNode # call.nd /\ ParentNode # Neighbor
    /\ NdIndex \in Nat /\ SepIndex = IF NdIndex = 0 THEN 1 ELSE NdIndex

\* The node with too few keys and the neighbour delete_entry picks are neighbours.
LEMMA PairProp ==
    ASSUME RemovedFacts, call.nd # root
    PROVE  PairFacts
<1> DEFINE nd == call.nd
           p == ParentNode
           R == Removed
<1>1. /\ Heap(nodes) /\ Fill(nodes, root) /\ Good(R, root, index) /\ Heap(R)
      /\ nd \in DOMAIN nodes /\ DOMAIN R = DOMAIN nodes
      /\ \A x \in DOMAIN nodes : x # nd => R[x] = nodes[x]
      /\ R[nd].parent = p
  BY DEF RemovedFacts, ParentNode
<1>2. NdIndex = GetNodeIndex(R, nd) /\ Neighbor = nodes[p].pointers[IF NdIndex = 0 THEN 2 ELSE NdIndex]
  BY DEF NdIndex, Neighbor, ParentNode
<1>3. PICK ht, rng : WF(R, root, ht, rng)
  BY <1>1 DEF Good
<1> HIDE DEF R, nd, p, NdIndex, Neighbor
<1>4. nd # root
  BY DEF nd
<1>5. PICK j : p \in DOMAIN R /\ ChildAt(R, p, j, nd)
  BY <1>1, <1>3, <1>4 DEF WF, Linkage
<1>6. \A k : ChildAt(R, p, k, nd) => k = j
  BY <1>3, <1>5 DEF WF, Linkage
<1>7. p # nd
  <2>1. ht[p] = ht[nd] + 1 /\ ht[p] \in Nat /\ ht[nd] \in Nat
    BY <1>1, <1>3, <1>5 DEF WF, Linkage, Heights
  <2> QED
    BY <2>1
<1>8. R[p] = nodes[p]
  BY <1>1, <1>5, <1>7
<1>9. NdIndex = j - 1 /\ j \in 1 .. Len(R[p].keys) + 1
  BY <1>1, <1>2, <1>5, <1>6, NodeIndexProp
<1> DEFINE np == Len(R[p].keys)
<1>10. /\ ~R[p].is_leaf /\ Len(R[p].pointers) = np + 1 /\ np \in Nat
  <2>1. ~R[p].is_leaf
    BY <1>5 DEF ChildAt
  <2> QED
    BY <1>1, <1>5, <2>1, KeysInt
<1>11. np >= 1
  <2>1. /\ p # root => Len(nodes[p].keys) >= Least(nodes[p])
        /\ p = root /\ ~nodes[p].is_leaf => Len(nodes[p].keys) >= 1
    BY <1>1, <1>5 DEF Fill
  <2>2. Least(nodes[p]) \in Nat /\ Least(nodes[p]) >= 1
    BY LeastPositive
  <2>3. Len(nodes[p].keys) \in Nat /\ ~nodes[p].is_leaf
    BY <1>8, <1>10
  <2>4. Len(nodes[p].keys) >= 1
    BY <2>1, <2>2, <2>3
  <2> QED
    BY <1>8, <2>4
<1>12. NdIndex \in Nat /\ SepIndex = IF NdIndex = 0 THEN 1 ELSE NdIndex
  <2>1. NdIndex \in Nat
    BY <1>9, <1>10
  <2> QED
    BY <2>1, MaxOne DEF SepIndex
<1> HIDE DEF np
<1>13. \A k \in 1 .. np + 1 : ChildAt(R, p, k, R[p].pointers[k]) /\ R[p].pointers[k] \in DOMAIN R
  <2>1. \A k \in 1 .. np + 1 : ChildAt(R, p, k, R[p].pointers[k])
    BY <1>10 DEF ChildAt
  <2> QED
    BY <1>3, <1>5, <2>1 DEF WF, Linkage
<1>14. Siblings(R, p, SepIndex, LeftNode, RightNode) /\ Neighbor \in DOMAIN R
  <2>1. CASE j = 1
    <3>1. NdIndex = 0 /\ SepIndex = 1 /\ LeftNode = nd /\ RightNode = Neighbor
      BY <1>9, <1>12, <2>1 DEF LeftNode, RightNode, nd
    <3>2. Neighbor = R[p].pointers[2] /\ 2 \in 1 .. np + 1
      BY <1>2, <1>8, <1>10, <1>11, <3>1
    <3>3. ChildAt(R, p, 2, Neighbor) /\ Neighbor \in DOMAIN R
      BY <1>13, <3>2
    <3>4. ChildAt(R, p, 1, nd) /\ 1 + 1 = 2
      BY <1>5, <2>1
    <3> QED
      BY <1>1, <1>5, <3>1, <3>3, <3>4 DEF Siblings
  <2>2. CASE j # 1
    <3>1. j - 1 \in Nat /\ j - 1 # 0 /\ (j - 1) + 1 = j /\ j - 1 \in 1 .. np + 1
      BY <1>9, <1>10, <2>2 DEF np
    <3>2. NdIndex = j - 1 /\ SepIndex = j - 1 /\ LeftNode = Neighbor /\ RightNode = nd
      BY <1>9, <1>12, <3>1 DEF LeftNode, RightNode, nd
    <3>3. Neighbor = R[p].pointers[j - 1]
      BY <1>2, <1>8, <3>1, <3>2
    <3>4. ChildAt(R, p, j - 1, Neighbor) /\ Neighbor \in DOMAIN R
      BY <1>13, <3>1, <3>3
    <3> QED
      BY <1>1, <1>5, <3>1, <3>2, <3>4 DEF Siblings
  <2> QED
    BY <2>1, <2>2
<1>15. Neighbours(R, root, p, SepIndex, LeftNode, RightNode)
  BY <1>3, <1>14, SiblingsProp
<1>16. /\ LeftNode # RightNode /\ LeftNode # root /\ RightNode # root
       /\ LeftNode # p /\ RightNode # p
  BY <1>15 DEF Neighbours
<1>17. Neighbor # nd /\ Neighbor # root /\ Neighbor # p
  BY <1>16 DEF LeftNode, RightNode, nd
<1> QED
  BY <1>1, <1>5, <1>7, <1>12, <1>14, <1>15, <1>17 DEF PairFacts, R, nd, p

\* coalesce_nodes leaves an entry of the parent that delete_entry is to remove.
LEMMA InvCoalesce ==
    ASSUME IInv, Coalesce
    PROVE  IInv'
<1> DEFINE nd == call.nd
           R == Removed
           l == LeftNode
           m == RightNode
           p == ParentNode
           i == SepIndex
           ks == MergedKeys(R, p, i, l, m)
           ps == MergedPointers(R, l, m)
           nx == nodes[m].next
           h1 == SetNode(R, l, ks, ps, nx)
           g == CoalescedOf(R, l, m, ks, ps, nx)
           c == [fn |-> "delete_entry", nd |-> p, index |-> i]
<1>1. call.fn = "delete_entry" /\ nd # root /\ NumKeys(Neighbor) + KeysLeft <= Cap
  BY DEF Coalesce, Underfull
<1>2. RemovedFacts
  BY <1>1, PendingDelete
<1>3. PairFacts
  BY <1>1, <1>2, PairProp
<1>4. /\ Heap(nodes) /\ Fill(nodes, root) /\ DOMAIN index \subseteq Names /\ Good(R, root, index) /\ Heap(R)
      /\ nd \in DOMAIN nodes /\ nodes[nd].is_leaf \in BOOLEAN /\ DOMAIN R = DOMAIN nodes
      /\ \A x \in DOMAIN nodes : x # nd => R[x] = nodes[x]
      /\ R[nd].is_leaf = nodes[nd].is_leaf
      /\ Len(nodes[nd].keys) \in Nat /\ Len(nodes[nd].keys) >= 1
      /\ Len(R[nd].keys) = KeysLeft
  BY <1>2 DEF RemovedFacts
<1>5. /\ Siblings(R, p, i, l, m) /\ Neighbours(R, root, p, i, l, m)
      /\ Neighbor \in DOMAIN nodes /\ Neighbor # nd /\ Neighbor # root
      /\ p \in DOMAIN nodes /\ p # nd
  BY <1>3 DEF PairFacts
<1>6. (l = nd /\ m = Neighbor) \/ (l = Neighbor /\ m = nd)
  BY DEF LeftNode, RightNode
<1>7. l \in DOMAIN R /\ m \in DOMAIN R /\ l # m /\ l # root
  BY <1>5 DEF Siblings, Neighbours
<1>8. R[p] = nodes[p] /\ nodes[l].is_leaf = R[l].is_leaf
  BY <1>4, <1>5, <1>6, <1>7
<1>9. MergedEntries(R, p, i, l, m, ks, ps)
  BY <1>4, <1>5, MergedProp
<1>10. Fits(R[l].is_leaf, ks, ps)
  BY <1>9 DEF MergedEntries
<1>11. nx \in Link
  BY <1>4, <1>7, HeapNodes
<1>12. nodes' = g
  <2>1. IsSet(R, h1, l, ks, ps)
    <3> HIDE DEF R, l, m, ks, ps, nx
    <3> QED
      BY <1>4, <1>7, <1>10, <1>11, SetNodeHeap
  <2>2. h1[l].pointers = ps
    <3> HIDE DEF h1, R, l, m, ks, ps
    <3> QED
      BY <2>1 DEF IsSet
  <2> DEFINE mg == [R EXCEPT ![l].keys = @ \o (IF nodes[l].is_leaf THEN <<>> ELSE <<nodes[p].keys[i]>>) \o R[m].keys,
                             ![l].pointers = @ \o R[m].pointers,
                             ![l].next = nodes[m].next]
             mf == Free(IF nodes[l].is_leaf THEN mg ELSE Adopt(mg, ToSet(mg[l].pointers), l), m)
  <2>3. h1 = mg
    <3> HIDE DEF R, l, m, p, i
    <3>1. Between(R, p, i, l) = IF nodes[l].is_leaf THEN <<>> ELSE <<nodes[p].keys[i]>>
      BY <1>8 DEF Between
    <3> QED
      BY <3>1 DEF SetNode, MergedKeys, MergedPointers
  <2>4. nodes' = mf
    BY Zenon DEF Coalesce, LeftNode, RightNode, ParentNode, SepIndex
  <2> HIDE DEF R, ks, ps, mg, h1
  <2>5. nodes' = Free(IF nodes[l].is_leaf THEN h1 ELSE Adopt(h1, ToSet(h1[l].pointers), l), m)
    BY <2>3, <2>4
  <2> HIDE DEF h1, l, m, nx
  <2>6. nodes' = Free(IF R[l].is_leaf THEN h1 ELSE Adopt(h1, ToSet(ps), l), m)
    BY <1>8, <2>2, <2>5
  <2> QED
    BY <2>6 DEF CoalescedOf, h1
<1>13. call' = c /\ root' = root /\ index' = index
  BY DEF Coalesce, ParentNode, SepIndex
<1> HIDE DEF R, l, m, p, i, nd, ks, ps, nx, g
<1>14. Coalesced(R, g, l, m, ks, ps)
  BY <1>4, <1>7, <1>10, <1>11, CoalescedHeap DEF g
<1>15. PICK ht, rng : WF(R, root, ht, rng)
  BY <1>4 DEF Good
<1>16. Doomed(g, root, c) /\ IsMerge(R, CutEntry(g, c), l, m, p, i)
  BY <1>5, <1>14, <1>15, CoalescedMerge DEF ks, ps
<1>17. Good(CutEntry(g, c), root, index)
  BY <1>4, <1>16, MergeTree
<1>18. /\ Heap(g) /\ DOMAIN g = DOMAIN R \ {m}
       /\ g[l].is_leaf = R[l].is_leaf /\ g[l].keys = ks
       /\ \A x \in DOMAIN g : x # l => g[x].is_leaf = R[x].is_leaf /\ g[x].keys = R[x].keys
  BY <1>14 DEF Coalesced
<1>19. Fill(g, root)
  <2> SUFFICES ASSUME NEW x \in DOMAIN g
               PROVE  /\ Len(g[x].keys) <= MAX_KEY_NUM
                      /\ x # root => Len(g[x].keys) >= Least(g[x])
                      /\ x = root /\ ~g[x].is_leaf => Len(g[x].keys) >= 1
    BY DEF Fill
  <2>1. CASE x = l
    <3> DEFINE d == IF R[l].is_leaf THEN 0 ELSE 1
               ln == Len(nodes[Neighbor].keys)
               lk == Len(R[nd].keys)
               a1 == Len(R[l].keys)
               a2 == Len(R[m].keys)
    <3>1. Len(ks) = a1 + d + a2 /\ a1 \in Nat /\ a2 \in Nat
      BY <1>9 DEF MergedEntries
    <3>2. R[Neighbor] = nodes[Neighbor]
      BY <1>4, <1>5
    <3>3. (a1 = lk /\ a2 = ln) \/ (a1 = ln /\ a2 = lk)
      BY <1>6, <3>2
    <3>4. R[l].is_leaf = R[nd].is_leaf /\ R[l].is_leaf = R[Neighbor].is_leaf /\ R[l].is_leaf \in BOOLEAN
      BY <1>5, <1>6 DEF Neighbours
    <3>5. ln >= Least(nodes[Neighbor])
      BY <1>4, <1>5 DEF Fill
    <3>6. Least(g[l]) = Least(nodes[Neighbor]) /\ Least(g[l]) \in Nat
      BY <1>18, <3>2, <3>4, LeastPositive DEF Least
    <3>7. ln + lk <= Cap /\ Cap = MAX_KEY_NUM - d
      <4>1. Cap = MAX_KEY_NUM - d
        <5>1. Cap = IF nodes[nd].is_leaf THEN MAX_KEY_NUM ELSE MAX_KEY_NUM - 1
          BY DEF Cap, nd
        <5>2. nodes[nd].is_leaf = R[l].is_leaf
          BY <1>4, <3>4
        <5>3. MAX_KEY_NUM - 0 = MAX_KEY_NUM
          BY TreeAssumption
        <5> QED
          BY <5>1, <5>2, <5>3
      <4>2. ln + lk <= Cap
        BY <1>1, <1>4 DEF NumKeys
      <4> QED
        BY <4>1, <4>2
    <3>8. d \in Nat
      OBVIOUS
    <3>9. g[x].keys = ks /\ x # root
      BY <1>7, <1>18, <2>1
    <3> HIDE DEF d, ln, lk, a1, a2
    <3>10. Len(ks) <= MAX_KEY_NUM
      BY <3>1, <3>3, <3>7, <3>8, TreeAssumption
    <3>11. Len(ks) >= Least(g[l])
      BY <3>1, <3>3, <3>5, <3>6, <3>8
    <3> QED
      BY <2>1, <3>9, <3>10, <3>11
  <2>2. CASE x # l
    <3>1. x # nd /\ x \in DOMAIN nodes
      BY <1>4, <1>6, <1>18, <2>2
    <3>2. g[x].is_leaf = nodes[x].is_leaf /\ g[x].keys = nodes[x].keys
      BY <1>4, <1>18, <2>2, <3>1
    <3>3. Least(g[x]) = Least(nodes[x])
      BY <3>2 DEF Least
    <3> QED
      BY <1>4, <3>1, <3>2, <3>3 DEF Fill
  <2> QED
    BY <2>1, <2>2
<1>20. Inv(g, root, c, index)
  <2> HIDE DEF c
  <2> QED
    BY <1>4, <1>16, <1>17, <1>18, <1>19 DEF Inv
<1> QED
  BY <1>12, <1>13, <1>20 DEF IInv

-----------------------------------------------------------------------------
(* distribute_nodes: an entry moves between two neighbours.                   *)

\* The nodes a and b have new entries, and key i of p is sep.
MovedHeap(h, a, ka, pa, b, kb, pb, p, i, sep) ==
    [h EXCEPT ![a].keys = ka, ![a].pointers = pa, ![b].keys = kb, ![b].pointers = pb,
              ![p].keys[i] = sep]

\* Key i of ks is sep in kt.
Replaced(ks, kt, i, sep) ==
    /\ Len(kt) = Len(ks)
    /\ \A k \in 1 .. Len(ks) : kt[k] = IF k = i THEN sep ELSE ks[k]

IsMoved(h, g, a, ka, pa, b, kb, pb, p, i, sep) ==
    /\ Heap(g) /\ DOMAIN g = DOMAIN h
    /\ g[a].keys = ka /\ g[a].pointers = pa /\ g[b].keys = kb /\ g[b].pointers = pb
    /\ Replaced(h[p].keys, g[p].keys, i, sep) /\ g[p].pointers = h[p].pointers
    /\ \A x \in DOMAIN h : g[x].is_leaf = h[x].is_leaf /\ g[x].parent = h[x].parent
    /\ \A x \in DOMAIN h : x # a /\ x # b /\ x # p => g[x] = h[x]

\* An element of a sequence is replaced.
LEMMA ReplacedProp ==
    ASSUME NEW S, NEW ks \in Seq(S), NEW i \in 1 .. Len(ks), NEW e \in S
    PROVE  [ks EXCEPT ![i] = e] \in Seq(S) /\ Replaced(ks, [ks EXCEPT ![i] = e], i, e)
<1> DEFINE kt == [ks EXCEPT ![i] = e]
<1>1. kt \in Seq(S) /\ Len(kt) = Len(ks)
  OBVIOUS
<1>2. \A k \in 1 .. Len(ks) : kt[k] = IF k = i THEN e ELSE ks[k]
  OBVIOUS
<1> QED
  BY <1>1, <1>2 DEF Replaced

\* What distribute_nodes assigns.
LEMMA MovedHeapProp ==
    ASSUME NEW h, Heap(h), NEW a \in DOMAIN h, NEW b \in DOMAIN h, NEW p \in DOMAIN h,
           a # b, a # p, b # p,
           NEW ka, NEW pa, Fits(h[a].is_leaf, ka, pa),
           NEW kb, NEW pb, Fits(h[b].is_leaf, kb, pb),
           NEW i \in 1 .. Len(h[p].keys), NEW sep \in Names
    PROVE  IsMoved(h, MovedHeap(h, a, ka, pa, b, kb, pb, p, i, sep), a, ka, pa, b, kb, pb, p, i, sep)
<1> DEFINE g == MovedHeap(h, a, ka, pa, b, kb, pb, p, i, sep)
           kp == h[p].keys
           kt == [kp EXCEPT ![i] = sep]
           h1 == SetEntries(h, a, ka, pa)
           h2 == SetEntries(h1, b, kb, pb)
           h3 == SetEntries(h2, p, kt, h[p].pointers)
<1>1. h[p].is_leaf \in BOOLEAN /\ Fits(h[p].is_leaf, kp, h[p].pointers)
  BY HeapNodes
<1>2. kp \in Seq(Names)
  BY <1>1 DEF Fits
<1>3. kt \in Seq(Names) /\ Replaced(kp, kt, i, sep)
  <2> HIDE DEF kp
  <2>1. i \in 1 .. Len(kp)
    BY DEF kp
  <2> QED
    BY <1>2, <2>1, ReplacedProp
<1>4. Fits(h[p].is_leaf, kt, h[p].pointers)
  <2> HIDE DEF kt, kp
  <2>1. Len(kt) = Len(kp)
    BY <1>3 DEF Replaced
  <2> QED
    BY <1>1, <1>3, <2>1 DEF Fits
<1>5. g = h3
  <2>1. h = [x \in DOMAIN h |-> h[x]] /\ h[a] \in NodeType /\ h[b] \in NodeType /\ h[p] \in NodeType
    BY HeapNodes
  <2>2. g = [h EXCEPT ![a] = [h[a] EXCEPT !.keys = ka, !.pointers = pa],
                      ![b] = [h[b] EXCEPT !.keys = kb, !.pointers = pb],
                      ![p] = [h[p] EXCEPT !.keys = kt]]
    BY <2>1 DEF MovedHeap, NodeType
  <2>3. h3 = [h EXCEPT ![a] = [h[a] EXCEPT !.keys = ka, !.pointers = pa],
                      ![b] = [h[b] EXCEPT !.keys = kb, !.pointers = pb],
                      ![p] = [h[p] EXCEPT !.keys = kt, !.pointers = h[p].pointers]]
    BY <2>1 DEF SetEntries, NodeType
  <2>4. [h[p] EXCEPT !.keys = kt] = [h[p] EXCEPT !.keys = kt, !.pointers = h[p].pointers]
    BY <2>1 DEF NodeType
  <2> QED
    BY <2>2, <2>3, <2>4
<1> HIDE DEF kt, kp
<1>6. IsSet(h, h1, a, ka, pa)
  BY SetHeap
<1> HIDE DEF h1
<1>7. Heap(h1) /\ DOMAIN h1 = DOMAIN h /\ h1[b] = h[b] /\ h1[p] = h[p]
  BY <1>6 DEF IsSet
<1>8. IsSet(h1, h2, b, kb, pb)
  BY <1>7, SetHeap
<1> HIDE DEF h2
<1>9. Heap(h2) /\ DOMAIN h2 = DOMAIN h /\ h2[a] = h1[a] /\ h2[p] = h[p]
  BY <1>7, <1>8 DEF IsSet
<1>10. IsSet(h2, h3, p, kt, h[p].pointers)
  BY <1>4, <1>9, SetHeap
<1> HIDE DEF h3
<1>11. Heap(h3) /\ DOMAIN h3 = DOMAIN h /\ h3[a] = h1[a] /\ h3[b] = h2[b]
  BY <1>9, <1>10 DEF IsSet
<1>12. \A x \in DOMAIN h : x # a /\ x # b /\ x # p => h3[x] = h[x]
  BY <1>6, <1>7, <1>8, <1>9, <1>10 DEF IsSet
<1>13. h3[a].keys = ka /\ h3[a].pointers = pa /\ h3[a].is_leaf = h[a].is_leaf /\ h3[a].parent = h[a].parent
  BY <1>6, <1>11 DEF IsSet
<1>14. h3[b].keys = kb /\ h3[b].pointers = pb /\ h3[b].is_leaf = h[b].is_leaf /\ h3[b].parent = h[b].parent
  BY <1>7, <1>8, <1>11 DEF IsSet
<1>15. h3[p].keys = kt /\ h3[p].pointers = h[p].pointers /\ h3[p].is_leaf = h[p].is_leaf /\ h3[p].parent = h[p].parent
  BY <1>9, <1>10 DEF IsSet
<1>16. \A x \in DOMAIN h : h3[x].is_leaf = h[x].is_leaf /\ h3[x].parent = h[x].parent
  BY <1>12, <1>13, <1>14, <1>15
<1>17. Replaced(h[p].keys, h3[p].keys, i, sep)
  BY <1>3, <1>15 DEF kp
<1>18. IsMoved(h, h3, a, ka, pa, b, kb, pb, p, i, sep)
  BY <1>11, <1>12, <1>13, <1>14, <1>15, <1>16, <1>17 DEF IsMoved
<1> QED
  BY <1>5, <1>18
\* In g, of the entries ks, ps of the neighbours l and m of h, with the separator
\* between them, s keys are in l, and the next one separates l from m.
Shifted(h, g, p, i, l, m, ks, ps, s) ==
    /\ Heap(g) /\ DOMAIN g = DOMAIN h
    /\ g[l].is_leaf = h[l].is_leaf /\ g[m].is_leaf = h[m].is_leaf /\ g[p].is_leaf = h[p].is_leaf
    /\ IsPiece(ks, 1, s, g[l].keys) /\ IsPiece(ks, (s + Stays(h, l)) + 1, Len(ks), g[m].keys)
    /\ IsPiece(ps, 1, s + Stays(h, l), g[l].pointers)
    /\ IsPiece(ps, (s + Stays(h, l)) + 1, Len(ps), g[m].pointers)
    /\ Replaced(h[p].keys, g[p].keys, i, ks[s + 1]) /\ g[p].pointers = h[p].pointers
    /\ \A x \in DOMAIN h : x # l /\ x # m /\ x # p =>
         g[x].is_leaf = h[x].is_leaf /\ g[x].keys = h[x].keys /\ g[x].pointers = h[x].pointers
    /\ ~h[l].is_leaf => \A k \in 1 .. Len(ps) : g[ps[k]].parent = IF k <= s + 1 THEN l ELSE m
    /\ \A x \in DOMAIN h :
         h[l].is_leaf \/ ~(\E k \in 1 .. Len(ps) : ps[k] = x) => g[x].parent = h[x].parent

\* The two neighbours can be merged.
LEMMA MergeExists ==
    ASSUME NEW h, NEW r, NEW ht, NEW rng, WF(h, r, ht, rng),
           NEW p, NEW i, NEW l, NEW m, Siblings(h, p, i, l, m)
    PROVE  \E g : /\ IsMerge(h, g, l, m, p, i)
                  /\ g[l].keys = MergedKeys(h, p, i, l, m)
                  /\ g[l].pointers = MergedPointers(h, l, m)
<1> DEFINE ks == MergedKeys(h, p, i, l, m)
           ps == MergedPointers(h, l, m)
           f == CoalescedOf(h, l, m, ks, ps, NULL)
           c == [fn |-> "delete_entry", nd |-> p, index |-> i]
           g == CutEntry(f, c)
<1>1. Heap(h)
  BY DEF WF
<1>2. l \in DOMAIN h /\ p \in DOMAIN h
  BY DEF Siblings
<1>3. Neighbours(h, r, p, i, l, m)
  BY SiblingsProp
<1>4. MergedEntries(h, p, i, l, m, ks, ps)
  BY <1>1, <1>3, MergedProp
<1>5. Fits(h[l].is_leaf, ks, ps)
  BY <1>4 DEF MergedEntries
<1>6. l # m /\ NULL \in Link /\ l # p /\ h[p].is_leaf = FALSE /\ i \in 1 .. Len(h[p].keys)
  BY <1>3 DEF Neighbours, Link
<1> HIDE DEF ks, ps
<1>7. Coalesced(h, f, l, m, ks, ps)
  BY <1>1, <1>2, <1>5, <1>6, CoalescedHeap
<1> HIDE DEF f
<1>8. Doomed(f, r, c) /\ IsMerge(h, g, l, m, p, i)
  BY <1>7, CoalescedMerge DEF ks, ps
<1>9. Heap(f) /\ l \in DOMAIN f /\ f[l].keys = ks /\ f[l].pointers = ps
  BY <1>2, <1>6, <1>7 DEF Coalesced
<1>10. IsCutNode(f, c, CutKeys(f, c), CutPointers(f, c))
  BY <1>8, <1>9, CutNode
<1>11. IsSet(f, g, p, CutKeys(f, c), CutPointers(f, c))
  BY <1>10 DEF IsCutNode
<1> HIDE DEF g
<1>12. g[l] = f[l]
  BY <1>6, <1>9, <1>11 DEF IsSet
<1> QED
  BY <1>8, <1>9, <1>12 DEF ks, ps

\* An entry moves as if the neighbours were merged and divided anew.
LEMMA ShiftedSplit ==
    ASSUME NEW h, NEW r, NEW ht, NEW rng, WF(h, r, ht, rng),
           NEW p, NEW i, NEW l, NEW m, Siblings(h, p, i, l, m),
           NEW f, IsMerge(h, f, l, m, p, i), NEW ks, f[l].keys = ks, NEW ps, f[l].pointers = ps,
           NEW g, NEW s \in Nat, s < Len(ks), h[l].is_leaf => s >= 1,
           Shifted(h, g, p, i, l, m, ks, ps, s)
    PROVE  IsSplit(f, g, l, m, p, i, s)
<1>1. Heap(h) /\ Heap(f) /\ p \in DOMAIN h /\ l \in DOMAIN h /\ m \in DOMAIN h
      /\ ChildAt(h, p, i, l) /\ ChildAt(h, p, i + 1, m)
      /\ MergeNode(h, f, l, m, h[p].keys[i]) /\ MergeParent(h, f, p, i) /\ MergeRest(h, f, l, m, p)
  BY DEF IsMerge, WF
<1>2. Neighbours(h, r, p, i, l, m)
  BY SiblingsProp
<1>3. /\ i \in 1 .. Len(h[p].keys) /\ h[p].is_leaf = FALSE
      /\ l # m /\ l # p /\ m # p
      /\ h[l].is_leaf = h[m].is_leaf /\ h[l].is_leaf \in BOOLEAN
      /\ h[l].parent = p /\ h[m].parent = p
      /\ \A k, x : ChildAt(h, l, k, x) => x \in DOMAIN h /\ h[x].parent = l
  BY <1>2 DEF Neighbours
<1>4. \A k, x : ChildAt(h, m, k, x) => x \in DOMAIN h /\ h[x].parent = m
  BY <1>1 DEF WF, Linkage
<1>5. /\ f[l].is_leaf = h[l].is_leaf
      /\ DOMAIN f = DOMAIN h \ {m}
      /\ \A x \in DOMAIN f : x # l /\ x # p =>
           f[x].is_leaf = h[x].is_leaf /\ f[x].keys = h[x].keys /\ f[x].pointers = h[x].pointers
      /\ \A x \in DOMAIN f :
           f[x].parent = IF \E k : ChildAt(h, m, k, x) THEN l ELSE h[x].parent
  BY <1>1 DEF MergeNode, MergeRest
<1>6. m \in Address \ DOMAIN f /\ p \in DOMAIN f /\ l \in DOMAIN f
  BY <1>1, <1>3, <1>5 DEF Heap
<1>7. /\ Len(h[p].keys) \in Nat /\ Len(h[p].pointers) = Len(h[p].keys) + 1
      /\ Len(f[p].keys) = Len(h[p].keys) - 1
      /\ \A k \in 1 .. Len(h[p].keys) - 1 :
           f[p].keys[k] = IF k < i THEN h[p].keys[k] ELSE h[p].keys[k + 1]
      /\ Len(f[p].pointers) = Len(h[p].pointers) - 1
      /\ \A k \in 1 .. Len(h[p].pointers) - 1 :
           f[p].pointers[k] = IF k <= i THEN h[p].pointers[k] ELSE h[p].pointers[k + 1]
      /\ ~f[p].is_leaf
  BY <1>1, <1>3, KeysInt DEF MergeParent
<1>8. h[p].pointers[i] = l /\ h[p].pointers[i + 1] = m
  BY <1>1 DEF ChildAt
<1>9. ChildAt(f, p, i, l)
  <2>1. i \in 1 .. Len(h[p].pointers) - 1 /\ i \in 1 .. Len(f[p].pointers)
    BY <1>3, <1>7
  <2>2. f[p].pointers[i] = l
    BY <1>7, <1>8, <2>1
  <2> QED
    BY <1>7, <2>1, <2>2 DEF ChildAt
<1>10. /\ Heap(g) /\ DOMAIN g = DOMAIN h
       /\ g[l].is_leaf = h[l].is_leaf /\ g[m].is_leaf = h[m].is_leaf /\ g[p].is_leaf = h[p].is_leaf
       /\ IsPiece(ks, 1, s, g[l].keys) /\ IsPiece(ks, (s + Stays(h, l)) + 1, Len(ks), g[m].keys)
       /\ IsPiece(ps, 1, s + Stays(h, l), g[l].pointers)
       /\ IsPiece(ps, (s + Stays(h, l)) + 1, Len(ps), g[m].pointers)
       /\ Replaced(h[p].keys, g[p].keys, i, ks[s + 1]) /\ g[p].pointers = h[p].pointers
       /\ \A x \in DOMAIN h : x # l /\ x # m /\ x # p =>
            g[x].is_leaf = h[x].is_leaf /\ g[x].keys = h[x].keys /\ g[x].pointers = h[x].pointers
       /\ ~h[l].is_leaf => \A k \in 1 .. Len(ps) : g[ps[k]].parent = IF k <= s + 1 THEN l ELSE m
       /\ \A x \in DOMAIN h :
            h[l].is_leaf \/ ~(\E k \in 1 .. Len(ps) : ps[k] = x) => g[x].parent = h[x].parent
  BY DEF Shifted
<1>11. SplitNode(f, g, l, m, s)
  <2> DEFINE d == Stays(f, l)
  <2>1. Stays(h, l) = d /\ d \in Nat
    BY <1>3, <1>5 DEF Stays
  <2>2. Len(ks) \in Nat /\ Len(ps) \in Nat
    BY <1>1, <1>6, KeysInt
  <2> HIDE DEF d
  <2>3. Len(g[l].keys) = s /\ \A k \in 1 .. s : g[l].keys[k] = ks[k]
    <3>1. (s - 1) + 1 = s /\ \A k \in 1 .. s : k + (1 - 1) = k
      OBVIOUS
    <3> QED
      BY <1>10, <3>1 DEF IsPiece
  <2>4. Len(g[l].pointers) = s + d /\ \A k \in 1 .. s + d : g[l].pointers[k] = ps[k]
    <3>1. ((s + d) - 1) + 1 = s + d /\ \A k \in 1 .. s + d : k + (1 - 1) = k
      BY <2>1
    <3> QED
      BY <1>10, <2>1, <3>1 DEF IsPiece
  <2>5. /\ Len(g[m].keys) = Len(ks) - s - d
        /\ \A k \in 1 .. Len(ks) - s - d : g[m].keys[k] = ks[k + s + d]
    <3> DEFINE z == (s + d) + 1
    <3>1. (Len(ks) - z) + 1 = Len(ks) - s - d
      BY <2>1, <2>2
    <3>2. \A k \in 1 .. Len(ks) - s - d : k + (z - 1) = k + s + d
      BY <2>1, <2>2
    <3>3. IsPiece(ks, z, Len(ks), g[m].keys)
      BY <1>10, <2>1
    <3> HIDE DEF z
    <3>4. /\ Len(g[m].keys) = (Len(ks) - z) + 1
          /\ \A k \in 1 .. (Len(ks) - z) + 1 : g[m].keys[k] = ks[k + (z - 1)]
      BY <3>3 DEF IsPiece
    <3> QED
      BY <3>1, <3>2, <3>4
  <2>6. /\ Len(g[m].pointers) = Len(ps) - s - d
        /\ \A k \in 1 .. Len(ps) - s - d : g[m].pointers[k] = ps[k + s + d]
    <3> DEFINE z == (s + d) + 1
    <3>1. (Len(ps) - z) + 1 = Len(ps) - s - d
      BY <2>1, <2>2
    <3>2. \A k \in 1 .. Len(ps) - s - d : k + (z - 1) = k + s + d
      BY <2>1, <2>2
    <3>3. IsPiece(ps, z, Len(ps), g[m].pointers)
      BY <1>10, <2>1
    <3> HIDE DEF z
    <3>4. /\ Len(g[m].pointers) = (Len(ps) - z) + 1
          /\ \A k \in 1 .. (Len(ps) - z) + 1 : g[m].pointers[k] = ps[k + (z - 1)]
      BY <3>3 DEF IsPiece
    <3> QED
      BY <3>1, <3>2, <3>4
  <2>7. g[l].is_leaf = f[l].is_leaf /\ g[m].is_leaf = f[l].is_leaf
    BY <1>3, <1>5, <1>10
  <2>8. f[l].keys = ks /\ f[l].pointers = ps
    OBVIOUS
  <2> QED
    BY <2>3, <2>4, <2>5, <2>6, <2>7, <2>8, Zenon DEF SplitNode, d
<1>12. SplitParent(f, g, p, i, m, ks[s + 1])
  <2> DEFINE kf == f[p].keys
             pf == f[p].pointers
             kh == h[p].keys
             ph == h[p].pointers
             kg == g[p].keys
             sep == ks[s + 1]
  <2>1. Len(kg) = Len(kh) /\ \A k \in 1 .. Len(kh) : kg[k] = IF k = i THEN sep ELSE kh[k]
    BY <1>10 DEF Replaced
  <2>2. /\ Len(kh) \in Nat /\ Len(ph) = Len(kh) + 1 /\ i \in 1 .. Len(kh)
        /\ Len(kf) = Len(kh) - 1
        /\ \A k \in 1 .. Len(kh) - 1 : kf[k] = IF k < i THEN kh[k] ELSE kh[k + 1]
        /\ Len(pf) = Len(ph) - 1
        /\ \A k \in 1 .. Len(ph) - 1 : pf[k] = IF k <= i THEN ph[k] ELSE ph[k + 1]
        /\ ph[i + 1] = m
    BY <1>3, <1>7, <1>8
  <2>3. g[p].pointers = ph /\ ~g[p].is_leaf
    BY <1>3, <1>10
  <2> HIDE DEF kf, pf, kh, ph, kg, sep
  <2>4. Len(kg) = Len(kf) + 1 /\ Len(ph) = Len(pf) + 1
    BY <2>1, <2>2
  <2>5. \A k \in 1 .. Len(kf) + 1 : kg[k] = IF k < i THEN kf[k] ELSE IF k = i THEN sep ELSE kf[k - 1]
    <3> SUFFICES ASSUME NEW k \in 1 .. Len(kf) + 1
                 PROVE  kg[k] = IF k < i THEN kf[k] ELSE IF k = i THEN sep ELSE kf[k - 1]
      OBVIOUS
    <3>1. k \in 1 .. Len(kh)
      BY <2>2
    <3>2. kg[k] = IF k = i THEN sep ELSE kh[k]
      BY <2>1, <3>1
    <3>3. k < i => kf[k] = kh[k]
      BY <2>2, <3>1
    <3>4. ASSUME k > i PROVE kf[k - 1] = kh[k]
      <4>1. k - 1 \in 1 .. Len(kh) - 1 /\ ~(k - 1 < i) /\ (k - 1) + 1 = k
        BY <2>2, <3>1, <3>4
      <4> QED
        BY <2>2, <4>1
    <3> QED
      BY <2>2, <3>1, <3>2, <3>3, <3>4
  <2>6. \A k \in 1 .. Len(pf) + 1 : ph[k] = IF k <= i THEN pf[k] ELSE IF k = i + 1 THEN m ELSE pf[k - 1]
    <3> SUFFICES ASSUME NEW k \in 1 .. Len(pf) + 1
                 PROVE  ph[k] = IF k <= i THEN pf[k] ELSE IF k = i + 1 THEN m ELSE pf[k - 1]
      OBVIOUS
    <3>1. k \in 1 .. Len(ph)
      BY <2>2
    <3>2. k <= i => pf[k] = ph[k]
      BY <2>2, <3>1
    <3>3. ASSUME k > i + 1 PROVE pf[k - 1] = ph[k]
      <4>1. k - 1 \in 1 .. Len(ph) - 1 /\ ~(k - 1 <= i) /\ (k - 1) + 1 = k
        BY <2>2, <3>1, <3>3
      <4> QED
        BY <2>2, <4>1
    <3> QED
      BY <2>2, <3>1, <3>2, <3>3
  <2> QED
    BY <2>3, <2>4, <2>5, <2>6, Zenon DEF SplitParent, kf, pf, kg, sep
<1>13. \A k, x : ChildAt(f, l, k, x) <=> ~h[l].is_leaf /\ k \in 1 .. Len(ps) /\ ps[k] = x
  BY <1>5 DEF ChildAt
<1>14. ASSUME NEW k, ~h[l].is_leaf, k \in 1 .. Len(ps)
       PROVE  (\E j : ChildAt(h, l, j, ps[k])) \/ (\E j : ChildAt(h, m, j, ps[k]))
  <2> DEFINE np == Len(h[l].pointers)
             nm == Len(h[m].pointers)
  <2>1. /\ Len(ps) = np + nm
        /\ \A j \in 1 .. np : ps[j] = h[l].pointers[j]
        /\ \A j \in 1 .. nm : ps[j + np] = h[m].pointers[j]
    BY <1>1 DEF MergeNode
  <2>2. np \in Nat /\ nm \in Nat
    BY <1>1, KeysInt
  <2>3. CASE k <= np
    <3>1. k \in 1 .. np
      BY <1>14, <2>1, <2>2, <2>3
    <3>2. ChildAt(h, l, k, ps[k])
      BY <1>14, <2>1, <3>1 DEF ChildAt
    <3> QED
      BY <3>2
  <2>4. CASE k > np
    <3>1. k - np \in 1 .. nm /\ (k - np) + np = k
      <4> HIDE DEF np, nm
      <4> QED
        BY <1>14, <2>1, <2>2, <2>4
    <3>2. ps[k] = h[m].pointers[k - np]
      BY <2>1, <3>1
    <3>3. ChildAt(h, m, k - np, ps[k])
      BY <1>3, <1>14, <3>1, <3>2 DEF ChildAt
    <3> QED
      BY <3>3
  <2> QED
    BY <1>14, <2>2, <2>3, <2>4
<1>15. ASSUME NEW x, \E k : ChildAt(h, m, k, x)
       PROVE  ~h[l].is_leaf /\ \E k \in 1 .. Len(ps) : ps[k] = x
  <2> DEFINE np == Len(h[l].pointers)
             nm == Len(h[m].pointers)
  <2>1. /\ Len(ps) = np + nm
        /\ \A j \in 1 .. nm : ps[j + np] = h[m].pointers[j]
    BY <1>1 DEF MergeNode
  <2>2. np \in Nat /\ nm \in Nat
    BY <1>1, KeysInt
  <2>3. PICK k : ChildAt(h, m, k, x)
    BY <1>15
  <2>4. k \in 1 .. nm /\ h[m].pointers[k] = x /\ ~h[l].is_leaf
    BY <1>3, <2>3 DEF ChildAt
  <2>5. ps[k + np] = x
    BY <2>1, <2>4
  <2> HIDE DEF np, nm
  <2>6. k + np \in 1 .. Len(ps)
    BY <2>1, <2>2, <2>4
  <2> QED
    BY <2>4, <2>5, <2>6
<1>16. SplitRest(f, g, l, m, p, s)
  <2>1. DOMAIN g = DOMAIN f \cup {m}
    BY <1>1, <1>5, <1>10
  <2>2. \A x \in DOMAIN f : x # l /\ x # p =>
          g[x].is_leaf = f[x].is_leaf /\ g[x].keys = f[x].keys /\ g[x].pointers = f[x].pointers
    BY <1>5, <1>10
  <2>3. ASSUME NEW x \in DOMAIN f
        PROVE  g[x].parent = IF \E k : k > s + 1 /\ ChildAt(f, l, k, x) THEN m ELSE f[x].parent
    <3>1. x \in DOMAIN h /\ f[x].parent = IF \E k : ChildAt(h, m, k, x) THEN l ELSE h[x].parent
      BY <1>5, <2>3
    <3>2. CASE \E k : k > s + 1 /\ ChildAt(f, l, k, x)
      <4>1. PICK k : k > s + 1 /\ ChildAt(f, l, k, x)
        BY <3>2
      <4>2. ~h[l].is_leaf /\ k \in 1 .. Len(ps) /\ ps[k] = x
        BY <1>13, <4>1
      <4>3. ~(k <= s + 1)
        BY <4>1, <4>2
      <4>4. g[x].parent = m
        BY <1>10, <4>2, <4>3
      <4> QED
        BY <3>2, <4>4
    <3>3. CASE ~(\E k : k > s + 1 /\ ChildAt(f, l, k, x)) /\ \E k : ChildAt(f, l, k, x)
      <4>1. PICK k : ChildAt(f, l, k, x)
        BY <3>3
      <4>2. ~h[l].is_leaf /\ k \in 1 .. Len(ps) /\ ps[k] = x
        BY <1>13, <4>1
      <4>3. k <= s + 1
        BY <3>3, <4>1, <4>2
      <4>4. g[x].parent = l
        BY <1>10, <4>2, <4>3
      <4>5. f[x].parent = l
        <5>1. CASE \E j : ChildAt(h, m, j, x)
          BY <3>1, <5>1
        <5>2. CASE ~\E j : ChildAt(h, m, j, x)
          <6>1. \E j : ChildAt(h, l, j, x)
            BY <1>14, <4>2, <5>2
          <6>2. h[x].parent = l
            BY <1>3, <6>1
          <6> QED
            BY <3>1, <5>2, <6>2
        <5> QED
          BY <5>1, <5>2
      <4> QED
        BY <3>3, <4>4, <4>5
    <3>4. CASE ~\E k : ChildAt(f, l, k, x)
      <4>1. h[l].is_leaf \/ ~\E k \in 1 .. Len(ps) : ps[k] = x
        BY <1>13, <3>4
      <4>2. g[x].parent = h[x].parent
        BY <1>10, <3>1, <4>1
      <4>3. ~\E k : ChildAt(h, m, k, x)
        BY <1>15, <4>1
      <4>4. f[x].parent = h[x].parent
        BY <3>1, <4>3
      <4> QED
        BY <3>4, <4>2, <4>4
    <3> QED
      BY <3>2, <3>3, <3>4
  <2>4. g[m].parent = p
    <3>1. ASSUME ~h[l].is_leaf, NEW k \in 1 .. Len(ps), ps[k] = m PROVE FALSE
      <4>1. (\E j : ChildAt(h, l, j, m)) \/ (\E j : ChildAt(h, m, j, m))
        BY <1>14, <3>1
      <4>2. h[m].parent = l \/ h[m].parent = m
        BY <1>3, <1>4, <4>1
      <4> QED
        BY <1>3, <4>2
    <3>2. h[l].is_leaf \/ ~\E k \in 1 .. Len(ps) : ps[k] = m
      BY <3>1
    <3> QED
      BY <1>1, <1>3, <1>10, <3>2
  <2> QED
    BY <2>1, <2>2, <2>3, <2>4 DEF SplitRest
<1>17. f[l].is_leaf => s >= 1
  BY <1>5
<1> QED
  BY <1>6, <1>9, <1>10, <1>11, <1>12, <1>16, <1>17 DEF IsSplit

\* A tree stays a tree when an entry moves to a neighbour.
LEMMA ShiftedTree ==
    ASSUME NEW h, NEW r, NEW ix, Good(h, r, ix),
           NEW p, NEW i, NEW l, NEW m, Siblings(h, p, i, l, m),
           NEW ks, ks = MergedKeys(h, p, i, l, m), NEW ps, ps = MergedPointers(h, l, m),
           NEW g, NEW s \in Nat, s < Len(ks), h[l].is_leaf => s >= 1,
           Shifted(h, g, p, i, l, m, ks, ps, s)
    PROVE  Good(g, r, ix)
<1>1. PICK ht, rng : WF(h, r, ht, rng)
  BY DEF Good
<1>2. PICK f : IsMerge(h, f, l, m, p, i) /\ f[l].keys = ks /\ f[l].pointers = ps
  BY <1>1, MergeExists
<1>3. IsSplit(f, g, l, m, p, i, s)
  BY <1>1, <1>2, ShiftedSplit
<1>4. Good(f, r, ix)
  BY <1>2, MergeTree
<1> QED
  BY <1>3, <1>4, SplitTree
\* What Front, Tail, Append and a new first element make of a sequence.
LEMMA EndsProp ==
    ASSUME NEW S, NEW s \in Seq(S), NEW e \in S
    PROVE  /\ Append(s, e) \in Seq(S) /\ IsPut(s, Len(s), e, Append(s, e))
           /\ <<e>> \o s \in Seq(S) /\ IsPut(s, 0, e, <<e>> \o s)
           /\ Len(s) >= 1 => /\ Front(s) \in Seq(S) /\ IsPiece(s, 1, Len(s) - 1, Front(s))
                             /\ Tail(s) \in Seq(S) /\ IsPiece(s, 2, Len(s), Tail(s))
                             /\ Last(s) = s[Len(s)] /\ Head(s) = s[1]
                             /\ Last(s) \in S /\ Head(s) \in S
<1>0. Len(s) \in Nat
  OBVIOUS
<1>1. Append(s, e) \in Seq(S) /\ IsPut(s, Len(s), e, Append(s, e))
  <2> DEFINE t == Append(s, e)
  <2>1. t \in Seq(S) /\ Len(t) = Len(s) + 1 /\ t[Len(s) + 1] = e /\ \A j \in 1 .. Len(s) : t[j] = s[j]
    OBVIOUS
  <2> HIDE DEF t
  <2>2. \A j \in 1 .. Len(s) + 1 : j < Len(s) + 1 => j \in 1 .. Len(s)
    BY <1>0
  <2>3. \A j \in 1 .. Len(s) + 1 : j < Len(s) + 1 \/ j = Len(s) + 1
    BY <1>0
  <2> QED
    BY <2>1, <2>2, <2>3 DEF IsPut, t
<1>2. <<e>> \o s \in Seq(S) /\ IsPut(s, 0, e, <<e>> \o s)
  <2> DEFINE o == <<e>>
             t == o \o s
  <2>1. o \in Seq(S) /\ Len(o) = 1 /\ o[1] = e
    OBVIOUS
  <2> HIDE DEF o
  <2>2. t \in Seq(S) /\ IsJoin(o, s, t)
    BY <2>1, JoinedProp
  <2> HIDE DEF t
  <2>3. Len(t) = Len(s) + 1 /\ t[1] = e /\ \A j \in 1 .. Len(s) : t[j + 1] = s[j]
    BY <1>0, <2>1, <2>2 DEF IsJoin
  <2>4. \A j \in 1 .. Len(s) + 1 : t[j] = IF j < 0 + 1 THEN s[j] ELSE IF j = 0 + 1 THEN e ELSE s[j - 1]
    <3> SUFFICES ASSUME NEW j \in 1 .. Len(s) + 1, j # 1 PROVE t[j] = s[j - 1]
      BY <2>3
    <3>1. j - 1 \in 1 .. Len(s) /\ (j - 1) + 1 = j
      BY <1>0
    <3> QED
      BY <2>3, <3>1
  <2> QED
    BY <2>2, <2>3, <2>4 DEF IsPut, o, t
<1>3. ASSUME Len(s) >= 1
      PROVE  /\ Front(s) \in Seq(S) /\ IsPiece(s, 1, Len(s) - 1, Front(s))
             /\ Tail(s) \in Seq(S) /\ IsPiece(s, 2, Len(s), Tail(s))
             /\ Last(s) = s[Len(s)] /\ Head(s) = s[1]
             /\ Last(s) \in S /\ Head(s) \in S
  <2>1. Front(s) = SubSeq(s, 1, Len(s) - 1) /\ Last(s) = s[Len(s)]
    BY DEF Front, Last
  <2>2. 1 \in 1 .. Len(s) + 1 /\ Len(s) - 1 \in 1 - 1 .. Len(s)
    BY <1>0, <1>3
  <2>3. SubSeq(s, 1, Len(s) - 1) \in Seq(S) /\ IsPiece(s, 1, Len(s) - 1, SubSeq(s, 1, Len(s) - 1))
    BY <2>2, PieceOf
  <2>4. Tail(s) \in Seq(S) /\ Len(Tail(s)) = Len(s) - 1 /\ \A j \in 1 .. Len(s) - 1 : Tail(s)[j] = s[j + 1]
    BY <1>3
  <2>5. (Len(s) - 2) + 1 = Len(s) - 1 /\ 2 - 1 = 1
    BY <1>0
  <2>6. IsPiece(s, 2, Len(s), Tail(s))
    BY <2>4, <2>5 DEF IsPiece
  <2>7. Head(s) = s[1] /\ 1 \in 1 .. Len(s) /\ Len(s) \in 1 .. Len(s)
    BY <1>0, <1>3
  <2> QED
    BY <2>1, <2>3, <2>4, <2>6, <2>7
<1> QED
  BY <1>1, <1>2, <1>3

\* Pieces of a sequence that has kl at its start and km after the first n elements.
LEMMA PieceLess ==
    ASSUME NEW S, NEW kl \in Seq(S), Len(kl) >= 1, NEW ks, \A k \in 1 .. Len(kl) : ks[k] = kl[k],
           NEW t, IsPiece(kl, 1, Len(kl) - 1, t)
    PROVE  IsPiece(ks, 1, Len(kl) - 1, t)
<1> DEFINE n == Len(kl)
<1>1. n \in Nat /\ n >= 1 /\ \A k \in 1 .. n : ks[k] = kl[k]
  OBVIOUS
<1>2. Len(t) = ((n - 1) - 1) + 1 /\ \A j \in 1 .. ((n - 1) - 1) + 1 : t[j] = kl[j + (1 - 1)]
  BY DEF IsPiece
<1> HIDE DEF n
<1>3. \A j \in 1 .. ((n - 1) - 1) + 1 : j + (1 - 1) \in 1 .. n
  BY <1>1
<1>4. \A j \in 1 .. ((n - 1) - 1) + 1 : t[j] = ks[j + (1 - 1)]
  BY <1>1, <1>2, <1>3
<1> QED
  BY <1>2, <1>4 DEF IsPiece, n

\* kl with the element that follows it.
LEMMA PieceAdds ==
    ASSUME NEW S, NEW kl \in Seq(S), NEW ks, \A k \in 1 .. Len(kl) : ks[k] = kl[k],
           NEW e, ks[Len(kl) + 1] = e, NEW t, IsPut(kl, Len(kl), e, t)
    PROVE  IsPiece(ks, 1, Len(kl) + 1, t)
<1> DEFINE n == Len(kl)
<1>1. n \in Nat /\ ks[n + 1] = e /\ \A k \in 1 .. n : ks[k] = kl[k]
  OBVIOUS
<1>2. /\ Len(t) = n + 1
      /\ \A j \in 1 .. n + 1 : t[j] = IF j < n + 1 THEN kl[j] ELSE IF j = n + 1 THEN e ELSE kl[j - 1]
  BY DEF IsPut
<1> HIDE DEF n
<1>3. ((n + 1) - 1) + 1 = n + 1
  BY <1>1
<1>4. ASSUME NEW j \in 1 .. n + 1 PROVE t[j] = ks[j + (1 - 1)]
  <2>1. j + (1 - 1) = j
    BY <1>1
  <2>2. CASE j < n + 1
    <3>1. j \in 1 .. n
      BY <1>1, <2>2
    <3> QED
      BY <1>1, <1>2, <2>1, <2>2, <3>1
  <2>3. CASE j = n + 1
    <3>1. ~(j < n + 1)
      BY <1>1, <2>3
    <3> QED
      BY <1>1, <1>2, <2>1, <2>3, <3>1
  <2> QED
    BY <1>1, <2>2, <2>3
<1> QED
  BY <1>2, <1>3, <1>4 DEF IsPiece, n

\* km with the element before it.
LEMMA PieceMore ==
    ASSUME NEW S, NEW km \in Seq(S), NEW n \in Nat, n >= 1, NEW ks, Len(ks) = n + Len(km),
           \A k \in 1 .. Len(km) : ks[k + n] = km[k],
           NEW e, ks[n] = e, NEW t, IsPut(km, 0, e, t)
    PROVE  IsPiece(ks, n, Len(ks), t)
<1> DEFINE q == Len(km)
<1>1. q \in Nat /\ Len(ks) = n + q /\ \A k \in 1 .. q : ks[k + n] = km[k]
  OBVIOUS
<1>2. /\ Len(t) = q + 1
      /\ \A j \in 1 .. q + 1 : t[j] = IF j < 0 + 1 THEN km[j] ELSE IF j = 0 + 1 THEN e ELSE km[j - 1]
  BY DEF IsPut
<1> HIDE DEF q
<1>3. (Len(ks) - n) + 1 = q + 1
  BY <1>1
<1>4. ASSUME NEW j \in 1 .. q + 1 PROVE t[j] = ks[j + (n - 1)]
  <2>1. CASE j = 1
    <3>1. j + (n - 1) = n /\ ~(j < 0 + 1) /\ j = 0 + 1
      BY <2>1
    <3> QED
      BY <1>2, <3>1
  <2>2. CASE j # 1
    <3>1. j - 1 \in 1 .. q /\ j + (n - 1) = (j - 1) + n /\ ~(j < 0 + 1) /\ j # 0 + 1
      BY <1>1, <2>2
    <3>2. t[j] = km[j - 1]
      BY <1>2, <3>1
    <3> QED
      BY <1>1, <3>1, <3>2
  <2> QED
    BY <2>1, <2>2
<1> QED
  BY <1>2, <1>3, <1>4 DEF IsPiece

\* km without its first element.
LEMMA PieceDrops ==
    ASSUME NEW S, NEW km \in Seq(S), Len(km) >= 1, NEW n \in Nat, NEW ks, Len(ks) = n + Len(km),
           \A k \in 1 .. Len(km) : ks[k + n] = km[k],
           NEW t, IsPiece(km, 2, Len(km), t)
    PROVE  IsPiece(ks, n + 2, Len(ks), t)
<1> DEFINE q == Len(km)
<1>1. q \in Nat /\ q >= 1 /\ Len(ks) = n + q /\ \A k \in 1 .. q : ks[k + n] = km[k]
  OBVIOUS
<1>2. Len(t) = (q - 2) + 1 /\ \A j \in 1 .. (q - 2) + 1 : t[j] = km[j + (2 - 1)]
  BY DEF IsPiece
<1> HIDE DEF q
<1>3. (Len(ks) - (n + 2)) + 1 = (q - 2) + 1
  BY <1>1
<1>4. ASSUME NEW j \in 1 .. (q - 2) + 1 PROVE t[j] = ks[j + ((n + 2) - 1)]
  <2>1. j + (2 - 1) \in 1 .. q /\ (j + (2 - 1)) + n = j + ((n + 2) - 1)
    BY <1>1
  <2> QED
    BY <1>1, <1>2, <2>1
<1> QED
  BY <1>2, <1>3, <1>4 DEF IsPiece
\* What the pointers of a node point to.
Pointees(lf) == IF lf THEN Files ELSE Address
More(lf) == IF lf THEN 0 ELSE 1

\* How many pointers a node has, and to what.
LEMMA FitsSame ==
    ASSUME NEW lf \in BOOLEAN, NEW ks, NEW ps
    PROVE  Fits(lf, ks, ps) <=> ks \in Seq(Names) /\ ps \in Seq(Pointees(lf)) /\ Len(ps) = Len(ks) + More(lf)
<1>1. CASE lf
  <2>1. Pointees(lf) = Files /\ More(lf) = 0
    BY <1>1 DEF Pointees, More
  <2>2. ks \in Seq(Names) => Len(ks) + 0 = Len(ks)
    OBVIOUS
  <2> QED
    BY <1>1, <2>1, <2>2 DEF Fits
<1>2. CASE ~lf
  <2>1. Pointees(lf) = Address /\ More(lf) = 1
    BY <1>2 DEF Pointees, More
  <2> QED
    BY <1>2, <2>1 DEF Fits
<1> QED
  BY <1>1, <1>2

\* The entries kl, pl and km, pm, with the key x between those of nodes with children,
\* are together the entries ks, ps.
Together(lf, x, kl, pl, km, pm, ks, ps) ==
    /\ Fits(lf, kl, pl) /\ Fits(lf, km, pm)
    /\ Len(ks) = (Len(kl) + More(lf)) + Len(km)
    /\ \A k \in 1 .. Len(kl) : ks[k] = kl[k]
    /\ ~lf => ks[Len(kl) + 1] = x
    /\ \A k \in 1 .. Len(km) : ks[k + (Len(kl) + More(lf))] = km[k]
    /\ Len(ps) = Len(pl) + Len(pm)
    /\ \A k \in 1 .. Len(pl) : ps[k] = pl[k]
    /\ \A k \in 1 .. Len(pm) : ps[k + Len(pl)] = pm[k]

\* The entries ks, ps divided anew: s keys in kl.
Divided(lf, s, kl, pl, km, pm, ks, ps) ==
    /\ Fits(lf, kl, pl) /\ Fits(lf, km, pm)
    /\ IsPiece(ks, 1, s, kl) /\ IsPiece(ks, (s + More(lf)) + 1, Len(ks), km)
    /\ IsPiece(ps, 1, s + More(lf), pl) /\ IsPiece(ps, (s + More(lf)) + 1, Len(ps), pm)

\* The entries of two neighbours are together the merged ones.
LEMMA MergedTogether ==
    ASSUME NEW h, Heap(h), NEW r, NEW p, NEW i, NEW l, NEW m, Siblings(h, p, i, l, m),
           Neighbours(h, r, p, i, l, m), NEW ks, NEW ps, MergedEntries(h, p, i, l, m, ks, ps)
    PROVE  Together(h[l].is_leaf, h[p].keys[i], h[l].keys, h[l].pointers, h[m].keys, h[m].pointers, ks, ps)
<1>1. l \in DOMAIN h /\ m \in DOMAIN h /\ h[l].is_leaf = h[m].is_leaf
  BY DEF Siblings, Neighbours
<1>2. Fits(h[l].is_leaf, h[l].keys, h[l].pointers) /\ Fits(h[l].is_leaf, h[m].keys, h[m].pointers)
  BY <1>1, HeapNodes
<1> QED
  BY <1>2, Zenon DEF MergedEntries, Together, More

\* The last entry of the left node goes to the right one.
LEMMA DividedLeft ==
    ASSUME NEW lf \in BOOLEAN, NEW x \in Names, NEW kl, NEW pl, NEW km, NEW pm, NEW ks, NEW ps,
           Together(lf, x, kl, pl, km, pm, ks, ps), Len(kl) >= 1,
           NEW key, key = IF lf THEN Last(kl) ELSE x
    PROVE  /\ Divided(lf, Len(kl) - 1, Front(kl), Front(pl), <<key>> \o km, <<Last(pl)>> \o pm, ks, ps)
           /\ Last(kl) \in Names /\ ks[Len(kl)] = Last(kl) /\ Last(pl) = ps[Len(pl)] /\ Len(pl) >= 1
<1> DEFINE d == More(lf)
           P == Pointees(lf)
<1>1. d \in Nat /\ (lf => d = 0) /\ (~lf => d = 1)
  BY DEF More
<1>2. /\ Len(ks) = (Len(kl) + d) + Len(km)
      /\ \A k \in 1 .. Len(kl) : ks[k] = kl[k]
      /\ ~lf => ks[Len(kl) + 1] = x
      /\ \A k \in 1 .. Len(km) : ks[k + (Len(kl) + d)] = km[k]
      /\ Len(ps) = Len(pl) + Len(pm)
      /\ \A k \in 1 .. Len(pl) : ps[k] = pl[k]
      /\ \A k \in 1 .. Len(pm) : ps[k + Len(pl)] = pm[k]
  BY DEF Together
<1>3. Fits(lf, kl, pl) /\ Fits(lf, km, pm)
  BY DEF Together
<1>4. /\ kl \in Seq(Names) /\ pl \in Seq(P) /\ Len(pl) = Len(kl) + d
      /\ km \in Seq(Names) /\ pm \in Seq(P) /\ Len(pm) = Len(km) + d
  BY <1>3, FitsSame
<1> HIDE DEF d, P
<1>5. Len(kl) \in Nat /\ Len(pl) \in Nat /\ Len(km) \in Nat /\ Len(pm) \in Nat /\ Len(pl) >= 1
  BY <1>1, <1>4
<1>6. /\ Front(kl) \in Seq(Names) /\ IsPiece(kl, 1, Len(kl) - 1, Front(kl))
      /\ Last(kl) = kl[Len(kl)] /\ Last(kl) \in Names
  BY <1>4, EndsProp
<1>7. PICK y : y \in P
  <2>1. pl[1] \in P
    BY <1>4, <1>5
  <2> QED
    BY <2>1
<1>8. /\ Front(pl) \in Seq(P) /\ IsPiece(pl, 1, Len(pl) - 1, Front(pl))
      /\ Last(pl) = pl[Len(pl)] /\ Last(pl) \in P
  BY <1>4, <1>5, <1>7, EndsProp
<1>9. key \in Names
  BY <1>6
<1> DEFINE k2 == <<key>> \o km
           p2 == <<Last(pl)>> \o pm
           k1 == Front(kl)
           p1 == Front(pl)
<1>10. k2 \in Seq(Names) /\ IsPut(km, 0, key, k2)
  BY <1>4, <1>9, EndsProp
<1>11. p2 \in Seq(P) /\ IsPut(pm, 0, Last(pl), p2)
  BY <1>4, <1>8, EndsProp
<1> HIDE DEF k2, p2, k1, p1
<1>12. ks[Len(kl)] = Last(kl) /\ ps[Len(pl)] = Last(pl)
  <2>1. Len(kl) \in 1 .. Len(kl) /\ Len(pl) \in 1 .. Len(pl)
    BY <1>5
  <2> QED
    BY <1>2, <1>6, <1>8, <2>1
<1>13. ks[Len(kl) + d] = key
  <2>1. CASE lf
    <3>1. Len(kl) + d = Len(kl) /\ key = Last(kl)
      BY <1>1, <1>5, <2>1
    <3> QED
      BY <1>12, <3>1
  <2>2. CASE ~lf
    BY <1>1, <1>2, <2>2
  <2> QED
    BY <2>1, <2>2
<1>14. IsPiece(ks, 1, Len(kl) - 1, k1)
  BY <1>2, <1>4, <1>6, PieceLess DEF k1
<1>15. IsPiece(ps, 1, Len(pl) - 1, p1)
  BY <1>2, <1>4, <1>5, <1>8, PieceLess DEF p1
<1>16. IsPiece(ks, Len(kl) + d, Len(ks), k2)
  <2> DEFINE n == Len(kl) + d
  <2>1. n \in Nat /\ n >= 1 /\ Len(ks) = n + Len(km) /\ ks[n] = key /\ \A k \in 1 .. Len(km) : ks[k + n] = km[k]
    BY <1>1, <1>2, <1>5, <1>13
  <2> HIDE DEF n
  <2>2. IsPiece(ks, n, Len(ks), k2)
    BY <1>4, <1>10, <2>1, PieceMore
  <2> QED
    BY <2>2 DEF n
<1>17. IsPiece(ps, Len(pl), Len(ps), p2)
  BY <1>2, <1>4, <1>5, <1>11, <1>12, PieceMore
<1>18. /\ ((Len(kl) - 1) + d) + 1 = Len(kl) + d /\ (Len(kl) - 1) + d = Len(pl) - 1
       /\ ((Len(kl) - 1) + d) + 1 = Len(pl)
  BY <1>1, <1>4, <1>5
<1>19. Len(k1) = Len(kl) - 1 /\ Len(p1) = Len(pl) - 1 /\ Len(k2) = Len(km) + 1 /\ Len(p2) = Len(pm) + 1
  <2>1. Len(k1) = ((Len(kl) - 1) - 1) + 1 /\ Len(p1) = ((Len(pl) - 1) - 1) + 1
    BY <1>14, <1>15 DEF IsPiece
  <2>2. Len(k2) = Len(km) + 1 /\ Len(p2) = Len(pm) + 1
    BY <1>10, <1>11 DEF IsPut
  <2> QED
    BY <1>5, <2>1, <2>2
<1>20. Len(p1) = Len(k1) + d /\ Len(p2) = Len(k2) + d
  BY <1>1, <1>4, <1>5, <1>19
<1>21. Fits(lf, k1, p1)
  BY <1>6, <1>8, <1>20, FitsSame DEF d, P, k1, p1
<1>22. Fits(lf, k2, p2)
  BY <1>10, <1>11, <1>20, FitsSame DEF d, P
<1>23. Divided(lf, Len(kl) - 1, k1, p1, k2, p2, ks, ps)
  BY <1>14, <1>15, <1>16, <1>17, <1>18, <1>21, <1>22 DEF Divided, d
<1> QED
  BY <1>5, <1>6, <1>12, <1>23 DEF k1, p1, k2, p2

\* The first entry of the right node goes to the left one.
LEMMA DividedRight ==
    ASSUME NEW lf \in BOOLEAN, NEW x \in Names, NEW kl, NEW pl, NEW km, NEW pm, NEW ks, NEW ps,
           Together(lf, x, kl, pl, km, pm, ks, ps), Len(km) >= 2,
           NEW key, key = IF lf THEN Head(km) ELSE x,
           NEW sep, sep = IF lf THEN km[2] ELSE Head(km)
    PROVE  /\ Divided(lf, Len(kl) + 1, Append(kl, key), Append(pl, Head(pm)), Tail(km), Tail(pm), ks, ps)
           /\ sep \in Names /\ ks[Len(kl) + 2] = sep /\ Head(pm) = ps[Len(pl) + 1] /\ Len(pm) >= 1
<1> DEFINE d == More(lf)
           P == Pointees(lf)
<1>1. d \in Nat /\ (lf => d = 0) /\ (~lf => d = 1)
  BY DEF More
<1>2. /\ Len(ks) = (Len(kl) + d) + Len(km)
      /\ \A k \in 1 .. Len(kl) : ks[k] = kl[k]
      /\ ~lf => ks[Len(kl) + 1] = x
      /\ \A k \in 1 .. Len(km) : ks[k + (Len(kl) + d)] = km[k]
      /\ Len(ps) = Len(pl) + Len(pm)
      /\ \A k \in 1 .. Len(pl) : ps[k] = pl[k]
      /\ \A k \in 1 .. Len(pm) : ps[k + Len(pl)] = pm[k]
  BY DEF Together
<1>3. Fits(lf, kl, pl) /\ Fits(lf, km, pm)
  BY DEF Together
<1>4. /\ kl \in Seq(Names) /\ pl \in Seq(P) /\ Len(pl) = Len(kl) + d
      /\ km \in Seq(Names) /\ pm \in Seq(P) /\ Len(pm) = Len(km) + d
  BY <1>3, FitsSame
<1> HIDE DEF d, P
<1>5. Len(kl) \in Nat /\ Len(pl) \in Nat /\ Len(km) \in Nat /\ Len(pm) \in Nat /\ Len(pm) >= 1 /\ Len(km) >= 1
  BY <1>1, <1>4
<1>6. /\ Tail(km) \in Seq(Names) /\ IsPiece(km, 2, Len(km), Tail(km))
      /\ Head(km) = km[1] /\ Head(km) \in Names
  BY <1>4, <1>5, EndsProp
<1>7. PICK y : y \in P
  <2>1. pm[1] \in P
    BY <1>4, <1>5
  <2> QED
    BY <2>1
<1>8. /\ Tail(pm) \in Seq(P) /\ IsPiece(pm, 2, Len(pm), Tail(pm))
      /\ Head(pm) = pm[1] /\ Head(pm) \in P
  BY <1>4, <1>5, <1>7, EndsProp
<1>9. key \in Names /\ sep \in Names
  <2>1. km[2] \in Names
    BY <1>4, <1>5
  <2> QED
    BY <1>6, <2>1
<1> DEFINE k1 == Append(kl, key)
           p1 == Append(pl, Head(pm))
           k2 == Tail(km)
           p2 == Tail(pm)
<1>10. k1 \in Seq(Names) /\ IsPut(kl, Len(kl), key, k1)
  BY <1>4, <1>9, EndsProp
<1>11. p1 \in Seq(P) /\ IsPut(pl, Len(pl), Head(pm), p1)
  BY <1>4, <1>8, EndsProp
<1> HIDE DEF k2, p2, k1, p1
<1>12. ks[1 + (Len(kl) + d)] = Head(km) /\ ks[2 + (Len(kl) + d)] = km[2] /\ ps[1 + Len(pl)] = Head(pm)
  <2>1. 1 \in 1 .. Len(km) /\ 2 \in 1 .. Len(km) /\ 1 \in 1 .. Len(pm)
    BY <1>5
  <2> QED
    BY <1>2, <1>6, <1>8, <2>1
<1>13. ps[Len(pl) + 1] = Head(pm)
  <2>1. 1 + Len(pl) = Len(pl) + 1
    BY <1>5
  <2> QED
    BY <1>12, <2>1
<1>14. ks[Len(kl) + 1] = key /\ ks[Len(kl) + 2] = sep
  <2>1. CASE lf
    <3>1. 1 + (Len(kl) + d) = Len(kl) + 1 /\ 2 + (Len(kl) + d) = Len(kl) + 2
      BY <1>1, <1>5, <2>1
    <3> QED
      BY <1>12, <2>1, <3>1
  <2>2. CASE ~lf
    <3>1. 1 + (Len(kl) + d) = Len(kl) + 2
      BY <1>1, <1>5, <2>2
    <3> QED
      BY <1>2, <1>12, <2>2, <3>1
  <2> QED
    BY <2>1, <2>2
<1>15. IsPiece(ks, 1, Len(kl) + 1, k1)
  BY <1>2, <1>4, <1>10, <1>14, PieceAdds
<1>16. IsPiece(ps, 1, Len(pl) + 1, p1)
  BY <1>2, <1>4, <1>11, <1>13, PieceAdds
<1>17. IsPiece(ks, (Len(kl) + d) + 2, Len(ks), k2)
  <2> DEFINE n == Len(kl) + d
  <2>1. n \in Nat /\ Len(ks) = n + Len(km) /\ \A k \in 1 .. Len(km) : ks[k + n] = km[k]
    BY <1>1, <1>2, <1>5
  <2> HIDE DEF n
  <2>2. IsPiece(ks, n + 2, Len(ks), k2)
    BY <1>4, <1>5, <1>6, <2>1, PieceDrops DEF k2
  <2> QED
    BY <2>2 DEF n
<1>18. IsPiece(ps, Len(pl) + 2, Len(ps), p2)
  BY <1>2, <1>4, <1>5, <1>8, PieceDrops DEF p2
<1>19. /\ ((Len(kl) + 1) + d) + 1 = (Len(kl) + d) + 2 /\ (Len(kl) + 1) + d = Len(pl) + 1
       /\ ((Len(kl) + 1) + d) + 1 = Len(pl) + 2
  BY <1>1, <1>4, <1>5
<1>20. Len(k2) = Len(km) - 1 /\ Len(p2) = Len(pm) - 1 /\ Len(k1) = Len(kl) + 1 /\ Len(p1) = Len(pl) + 1
  <2>1. Len(k2) = (Len(km) - 2) + 1 /\ Len(p2) = (Len(pm) - 2) + 1
    BY <1>6, <1>8 DEF IsPiece, k2, p2
  <2>2. Len(k1) = Len(kl) + 1 /\ Len(p1) = Len(pl) + 1
    BY <1>10, <1>11 DEF IsPut
  <2> QED
    BY <1>5, <2>1, <2>2
<1>21. Len(p1) = Len(k1) + d /\ Len(p2) = Len(k2) + d
  BY <1>1, <1>4, <1>5, <1>20
<1>22. Fits(lf, k1, p1)
  BY <1>10, <1>11, <1>21, FitsSame DEF d, P
<1>23. Fits(lf, k2, p2)
  BY <1>6, <1>8, <1>21, FitsSame DEF d, P, k2, p2
<1>24. Divided(lf, Len(kl) + 1, k1, p1, k2, p2, ks, ps)
  BY <1>15, <1>16, <1>17, <1>18, <1>19, <1>22, <1>23 DEF Divided, d
<1> QED
  BY <1>5, <1>9, <1>13, <1>14, <1>24 DEF k1, p1, k2, p2
\* Once the child that moves has the parent t, the children of two neighbours have
\* the parents they belong to.
MovedChild(h, l, m, ps, s, child, t) ==
    /\ \E k \in 1 .. Len(ps) : ps[k] = child
    /\ \A k \in 1 .. Len(ps) :
         /\ ps[k] \in DOMAIN h
         /\ (IF ps[k] = child THEN t ELSE h[ps[k]].parent) = IF k <= s + 1 THEN l ELSE m

\* The heap distribute_nodes leaves has the entries divided anew.
LEMMA ShiftedHeap ==
    ASSUME NEW h, NEW r, NEW p, NEW i, NEW l, NEW m, Siblings(h, p, i, l, m),
           Neighbours(h, r, p, i, l, m), NEW ks, NEW ps, NEW s,
           NEW kl, NEW pl, NEW km, NEW pm, Divided(h[l].is_leaf, s, kl, pl, km, pm, ks, ps),
           NEW f, IsMoved(h, f, l, kl, pl, m, km, pm, p, i, ks[s + 1]),
           NEW child, NEW t, ~h[l].is_leaf => MovedChild(h, l, m, ps, s, child, t),
           NEW g, h[l].is_leaf => g = f, ~h[l].is_leaf => IsAdopt(f, g, {child}, t)
    PROVE  Shifted(h, g, p, i, l, m, ks, ps, s)
<1>1. /\ Heap(f) /\ DOMAIN f = DOMAIN h
      /\ f[l].keys = kl /\ f[l].pointers = pl /\ f[m].keys = km /\ f[m].pointers = pm
      /\ Replaced(h[p].keys, f[p].keys, i, ks[s + 1]) /\ f[p].pointers = h[p].pointers
      /\ \A x \in DOMAIN h : f[x].is_leaf = h[x].is_leaf /\ f[x].parent = h[x].parent
      /\ \A x \in DOMAIN h : x # l /\ x # m /\ x # p => f[x] = h[x]
  BY DEF IsMoved
<1>2. p \in DOMAIN h /\ l \in DOMAIN h /\ m \in DOMAIN h /\ h[l].is_leaf \in BOOLEAN
  BY DEF Siblings, Neighbours
<1>3. /\ Heap(g) /\ DOMAIN g = DOMAIN h
      /\ \A x \in DOMAIN h :
           g[x].is_leaf = f[x].is_leaf /\ g[x].keys = f[x].keys /\ g[x].pointers = f[x].pointers
  <2>1. CASE h[l].is_leaf
    BY <1>1, <2>1
  <2>2. CASE ~h[l].is_leaf
    BY <1>1, <2>2 DEF IsAdopt
  <2> QED
    BY <2>1, <2>2
<1>4. /\ IsPiece(ks, 1, s, kl) /\ IsPiece(ks, (s + Stays(h, l)) + 1, Len(ks), km)
      /\ IsPiece(ps, 1, s + Stays(h, l), pl) /\ IsPiece(ps, (s + Stays(h, l)) + 1, Len(ps), pm)
  <2>1. Stays(h, l) = More(h[l].is_leaf)
    BY DEF Stays, More
  <2> QED
    BY <2>1 DEF Divided
<1>5. /\ IsPiece(ks, 1, s, g[l].keys) /\ IsPiece(ks, (s + Stays(h, l)) + 1, Len(ks), g[m].keys)
      /\ IsPiece(ps, 1, s + Stays(h, l), g[l].pointers) /\ IsPiece(ps, (s + Stays(h, l)) + 1, Len(ps), g[m].pointers)
  <2>1. g[l].keys = kl /\ g[l].pointers = pl /\ g[m].keys = km /\ g[m].pointers = pm
    BY <1>1, <1>2, <1>3
  <2> QED
    BY <1>4, <2>1
<1>6. Replaced(h[p].keys, g[p].keys, i, ks[s + 1]) /\ g[p].pointers = h[p].pointers
  <2>1. g[p].keys = f[p].keys /\ g[p].pointers = f[p].pointers
    BY <1>2, <1>3
  <2> QED
    BY <1>1, <2>1
<1>7. g[l].is_leaf = h[l].is_leaf /\ g[m].is_leaf = h[m].is_leaf /\ g[p].is_leaf = h[p].is_leaf
  BY <1>1, <1>2, <1>3
<1>8. \A x \in DOMAIN h : x # l /\ x # m /\ x # p =>
        g[x].is_leaf = h[x].is_leaf /\ g[x].keys = h[x].keys /\ g[x].pointers = h[x].pointers
  BY <1>1, <1>3
<1>9. ASSUME ~h[l].is_leaf PROVE \A x \in DOMAIN h : g[x].parent = IF x = child THEN t ELSE h[x].parent
  <2>1. \A x \in DOMAIN h : g[x].parent = IF x \in {child} THEN t ELSE f[x].parent
    BY <1>1, <1>9 DEF IsAdopt
  <2> QED
    BY <1>1, <2>1
<1>10. ASSUME ~h[l].is_leaf PROVE \A k \in 1 .. Len(ps) : g[ps[k]].parent = IF k <= s + 1 THEN l ELSE m
  <2> SUFFICES ASSUME NEW k \in 1 .. Len(ps) PROVE g[ps[k]].parent = IF k <= s + 1 THEN l ELSE m
    OBVIOUS
  <2>1. ps[k] \in DOMAIN h /\ (IF ps[k] = child THEN t ELSE h[ps[k]].parent) = IF k <= s + 1 THEN l ELSE m
    BY <1>10 DEF MovedChild
  <2>2. g[ps[k]].parent = IF ps[k] = child THEN t ELSE h[ps[k]].parent
    BY <1>9, <1>10, <2>1
  <2> QED
    BY <2>1, <2>2
<1>11. ASSUME NEW x \in DOMAIN h, h[l].is_leaf \/ ~(\E k \in 1 .. Len(ps) : ps[k] = x)
       PROVE  g[x].parent = h[x].parent
  <2>1. CASE h[l].is_leaf
    BY <1>1, <2>1
  <2>2. CASE ~h[l].is_leaf
    <3>1. x # child
      BY <1>11, <2>2 DEF MovedChild
    <3> QED
      BY <1>9, <2>2, <3>1
  <2> QED
    BY <2>1, <2>2
<1> QED
  BY <1>3, <1>5, <1>6, <1>7, <1>8, <1>10, <1>11 DEF Shifted

\* The children of the two neighbours, in the order of their entries.
Brood(h, l, m, ps, np) ==
    /\ np \in Nat /\ Len(ps) \in Nat /\ np <= Len(ps)
    /\ \A k \in 1 .. Len(ps) : ps[k] \in DOMAIN h /\ h[ps[k]].parent = IF k <= np THEN l ELSE m
    /\ \A k, j \in 1 .. np : ps[k] = ps[j] => k = j
    /\ \A k, j \in 1 .. Len(ps) : k > np /\ j > np /\ ps[k] = ps[j] => k = j

\* No child of two neighbours is listed twice, and each names its parent.
LEMMA BroodProp ==
    ASSUME NEW h, NEW r, NEW ht, NEW rng, WF(h, r, ht, rng),
           NEW p, NEW i, NEW l, NEW m, Siblings(h, p, i, l, m), ~h[l].is_leaf,
           NEW ks, NEW ps, MergedEntries(h, p, i, l, m, ks, ps)
    PROVE  Brood(h, l, m, ps, Len(h[l].pointers))
<1> DEFINE np == Len(h[l].pointers)
           nm == Len(h[m].pointers)
<1>1. /\ np \in Nat /\ nm \in Nat /\ Len(ps) = np + nm
      /\ \A k \in 1 .. np : ps[k] = h[l].pointers[k]
      /\ \A k \in 1 .. nm : ps[k + np] = h[m].pointers[k]
  BY DEF MergedEntries
<1>2. l \in DOMAIN h /\ m \in DOMAIN h /\ ~h[m].is_leaf
  <2>1. Neighbours(h, r, p, i, l, m)
    BY SiblingsProp
  <2> QED
    BY <2>1 DEF Neighbours, Siblings
<1>3. ASSUME NEW k \in 1 .. np PROVE ChildAt(h, l, k, ps[k])
  BY <1>1, <1>3 DEF ChildAt
<1>4. ASSUME NEW k \in 1 .. Len(ps), k > np PROVE ChildAt(h, m, k - np, ps[k])
  <2>1. k - np \in 1 .. nm /\ (k - np) + np = k
    <3> HIDE DEF np, nm
    <3> QED
      BY <1>1, <1>4
  <2>2. ps[k] = h[m].pointers[k - np]
    BY <1>1, <2>1
  <2> QED
    BY <1>2, <2>1, <2>2 DEF ChildAt
<1>5. \A a \in DOMAIN h : \A k, c : ChildAt(h, a, k, c) => c \in DOMAIN h /\ h[c].parent = a
  BY DEF WF, Linkage
<1>6. \A a \in DOMAIN h : \A k, j, c : ChildAt(h, a, k, c) /\ ChildAt(h, a, j, c) => k = j
  BY DEF WF, Linkage
<1> HIDE DEF np, nm
<1>7. np <= Len(ps) /\ Len(ps) \in Nat
  BY <1>1
<1>8. ASSUME NEW k \in 1 .. Len(ps) PROVE ps[k] \in DOMAIN h /\ h[ps[k]].parent = IF k <= np THEN l ELSE m
  <2>1. CASE k <= np
    <3>1. k \in 1 .. np
      BY <1>1, <2>1
    <3>2. ChildAt(h, l, k, ps[k])
      BY <1>3, <3>1
    <3>3. ps[k] \in DOMAIN h /\ h[ps[k]].parent = l
      BY <1>2, <1>5, <3>2
    <3> QED
      BY <2>1, <3>3
  <2>2. CASE ~(k <= np)
    <3>1. k > np
      BY <1>1, <2>2
    <3>2. ChildAt(h, m, k - np, ps[k])
      BY <1>4, <3>1
    <3>3. ps[k] \in DOMAIN h /\ h[ps[k]].parent = m
      BY <1>2, <1>5, <3>2
    <3> QED
      BY <2>2, <3>3
  <2> QED
    BY <2>1, <2>2
<1>9. ASSUME NEW k \in 1 .. np, NEW j \in 1 .. np, ps[k] = ps[j] PROVE k = j
  <2>1. ChildAt(h, l, k, ps[k]) /\ ChildAt(h, l, j, ps[j])
    BY <1>3
  <2> QED
    BY <1>2, <1>6, <1>9, <2>1
<1>10. ASSUME NEW k \in 1 .. Len(ps), NEW j \in 1 .. Len(ps), k > np, j > np, ps[k] = ps[j] PROVE k = j
  <2>1. ChildAt(h, m, k - np, ps[k]) /\ ChildAt(h, m, j - np, ps[j])
    BY <1>4, <1>10
  <2>2. k - np = j - np
    BY <1>2, <1>6, <1>10, <2>1
  <2> QED
    BY <1>1, <2>2
<1>11. Brood(h, l, m, ps, np)
  BY <1>1, <1>7, <1>8, <1>9, <1>10 DEF Brood
<1> QED
  BY <1>11 DEF np

\* The last child of the left node goes to the right one.
LEMMA BroodLeft ==
    ASSUME NEW h, NEW l, NEW m, l # m, NEW ps, NEW np, Brood(h, l, m, ps, np), np >= 1,
           NEW s, s + 1 = np - 1
    PROVE  MovedChild(h, l, m, ps, s, ps[np], m)
<1>1. np \in 1 .. Len(ps) /\ np \in 1 .. np /\ np \in Nat /\ Len(ps) \in Nat
  BY DEF Brood
<1>2. ASSUME NEW k \in 1 .. Len(ps)
      PROVE  /\ ps[k] \in DOMAIN h
             /\ (IF ps[k] = ps[np] THEN m ELSE h[ps[k]].parent) = IF k <= s + 1 THEN l ELSE m
  <2>1. ps[k] \in DOMAIN h /\ h[ps[k]].parent = IF k <= np THEN l ELSE m
    BY DEF Brood
  <2>2. CASE k < np
    <3>1. k \in 1 .. np /\ k <= np /\ k <= s + 1 /\ k # np
      BY <1>1, <2>2
    <3>2. ps[k] # ps[np]
      BY <1>1, <3>1 DEF Brood
    <3> QED
      BY <2>1, <3>1, <3>2
  <2>3. CASE k = np
    <3>1. ~(k <= s + 1)
      BY <1>1, <2>3
    <3> QED
      BY <2>1, <2>3, <3>1
  <2>4. CASE k > np
    <3>1. ~(k <= s + 1) /\ ~(k <= np)
      BY <1>1, <2>4
    <3> QED
      BY <2>1, <3>1
  <2> QED
    BY <1>1, <2>2, <2>3, <2>4
<1> QED
  BY <1>1, <1>2 DEF MovedChild

\* The first child of the right node goes to the left one.
LEMMA BroodRight ==
    ASSUME NEW h, NEW l, NEW m, l # m, NEW ps, NEW np, Brood(h, l, m, ps, np), np < Len(ps),
           NEW s, s + 1 = np + 1
    PROVE  MovedChild(h, l, m, ps, s, ps[np + 1], l)
<1>1. np + 1 \in 1 .. Len(ps) /\ np + 1 > np /\ np \in Nat /\ Len(ps) \in Nat
  BY DEF Brood
<1>2. ASSUME NEW k \in 1 .. Len(ps)
      PROVE  /\ ps[k] \in DOMAIN h
             /\ (IF ps[k] = ps[np + 1] THEN l ELSE h[ps[k]].parent) = IF k <= s + 1 THEN l ELSE m
  <2>1. ps[k] \in DOMAIN h /\ h[ps[k]].parent = IF k <= np THEN l ELSE m
    BY DEF Brood
  <2>2. CASE k <= np
    <3>1. k <= s + 1
      BY <1>1, <2>2
    <3> QED
      BY <2>1, <2>2, <3>1
  <2>3. CASE k = np + 1
    <3>1. k <= s + 1
      BY <1>1, <2>3
    <3> QED
      BY <2>1, <2>3, <3>1
  <2>4. CASE k > np + 1
    <3>1. ~(k <= s + 1) /\ ~(k <= np) /\ k > np /\ k # np + 1
      BY <1>1, <2>4
    <3>2. ps[k] # ps[np + 1]
      BY <1>1, <3>1 DEF Brood
    <3> QED
      BY <2>1, <3>1, <3>2
  <2> QED
    BY <1>1, <2>2, <2>3, <2>4
<1> QED
  BY <1>1, <1>2 DEF MovedChild
\* The neighbour of a node with too few keys can spare one.
CanSpare(n, k, least) ==
    /\ n \in Nat /\ k \in Nat /\ least \in Nat
    /\ n >= 2 /\ n <= MAX_KEY_NUM /\ n - 1 >= least /\ n - 1 <= MAX_KEY_NUM
    /\ k + 1 >= least /\ k + 1 <= MAX_KEY_NUM

\* So do min_keys and the capacity that delete_entry compares with say.
LEMMA SpareKey ==
    ASSUME RemovedFacts, PairFacts, Underfull, NumKeys(Neighbor) + KeysLeft > Cap
    PROVE  CanSpare(Len(Removed[Neighbor].keys), Len(Removed[call.nd].keys), Least(nodes[call.nd]))
<1> DEFINE nd == call.nd
           n == Len(Removed[Neighbor].keys)
           q == Len(nodes[nd].keys)
           k == Len(Removed[nd].keys)
           least == Least(nodes[nd])
<1>1. /\ Heap(nodes) /\ Fill(nodes, root) /\ nd \in DOMAIN nodes /\ nodes[nd].is_leaf \in BOOLEAN
      /\ \A x \in DOMAIN nodes : x # nd => Removed[x] = nodes[x]
      /\ q \in Nat /\ q >= 1 /\ k = KeysLeft
  BY DEF RemovedFacts
<1>2. Neighbor \in DOMAIN nodes /\ Neighbor # nd /\ Neighbor # root /\ nd # root
  BY DEF PairFacts, Underfull
<1>3. n = NumKeys(Neighbor) /\ Removed[Neighbor] = nodes[Neighbor]
  BY <1>1, <1>2 DEF NumKeys
<1>4. n \in Nat
  BY <1>1, <1>2, <1>3, KeysInt
<1>5. k = q - 1
  BY <1>1 DEF KeysLeft, NumKeys
<1>6. q >= least
  BY <1>1, <1>2 DEF Fill
<1>7. n <= MAX_KEY_NUM
  BY <1>1, <1>2, <1>3 DEF Fill
<1>8. least \in Nat /\ least >= 1
  BY LeastPositive
<1>9. MinKeys = least /\ k < least
  BY <1>1 DEF Underfull, MinKeys, Least
<1>10. n + k > Cap
  BY <1>1, <1>3
<1>11. (Cap + 1) - least >= least /\ Cap \in Int /\ least <= MAX_KEY_NUM
  <2>1. CASE nodes[nd].is_leaf
    <3>1. Cap = MAX_KEY_NUM /\ least = (MAX_KEY_NUM + 1) \div 2
      BY <2>1 DEF Cap, Least
    <3> QED
      BY <3>1, TreeAssumption
  <2>2. CASE ~nodes[nd].is_leaf
    <3>1. Cap = MAX_KEY_NUM - 1 /\ least = MAX_KEY_NUM \div 2
      BY <2>2 DEF Cap, Least
    <3> QED
      BY <3>1, TreeAssumption
  <2> QED
    BY <2>1, <2>2
<1> HIDE DEF n, q, k, least
<1>12. k \in Nat
  BY <1>1, <1>5
<1>13. n - 1 >= least
  BY <1>4, <1>8, <1>9, <1>10, <1>11, <1>12
<1>14. n >= 2 /\ n - 1 <= MAX_KEY_NUM /\ k + 1 >= least /\ k + 1 <= MAX_KEY_NUM
  BY <1>1, <1>4, <1>5, <1>6, <1>7, <1>8, <1>9, <1>11, <1>12, <1>13, TreeAssumption
<1>15. CanSpare(n, k, least)
  BY <1>4, <1>7, <1>8, <1>12, <1>13, <1>14 DEF CanSpare
<1> QED
  BY <1>15 DEF n, k, least, nd

\* What is left when an entry has moved.
LEMMA ShiftedInv ==
    ASSUME RemovedFacts, PairFacts, NEW ks, NEW ps, NEW s \in Nat, NEW g,
           ks = MergedKeys(Removed, ParentNode, SepIndex, LeftNode, RightNode),
           ps = MergedPointers(Removed, LeftNode, RightNode),
           s < Len(ks), Removed[LeftNode].is_leaf => s >= 1,
           Shifted(Removed, g, ParentNode, SepIndex, LeftNode, RightNode, ks, ps, s),
           Len(g[LeftNode].keys) >= Least(nodes[call.nd]), Len(g[LeftNode].keys) <= MAX_KEY_NUM,
           Len(g[RightNode].keys) >= Least(nodes[call.nd]), Len(g[RightNode].keys) <= MAX_KEY_NUM
    PROVE  Inv(g, root, Done, index)
<1> DEFINE nd == call.nd
           R == Removed
           l == LeftNode
           m == RightNode
           p == ParentNode
           i == SepIndex
<1>1. /\ Heap(nodes) /\ Fill(nodes, root) /\ DOMAIN index \subseteq Names /\ Good(R, root, index)
      /\ nd \in DOMAIN nodes /\ DOMAIN R = DOMAIN nodes /\ root \in DOMAIN nodes
      /\ \A x \in DOMAIN nodes : x # nd => R[x] = nodes[x]
      /\ R[nd].is_leaf = nodes[nd].is_leaf
  BY DEF RemovedFacts
<1>2. /\ Siblings(R, p, i, l, m) /\ Neighbours(R, root, p, i, l, m) /\ p \in DOMAIN nodes /\ p # nd
  BY DEF PairFacts
<1>3. (l = nd /\ m = Neighbor) \/ (l = Neighbor /\ m = nd)
  BY DEF LeftNode, RightNode
<1> HIDE DEF R, l, m, p, i, nd
<1>4. Good(g, root, index)
  BY <1>1, <1>2, ShiftedTree DEF R, l, m, p, i
<1>5. /\ Heap(g) /\ DOMAIN g = DOMAIN R
      /\ g[l].is_leaf = R[l].is_leaf /\ g[m].is_leaf = R[m].is_leaf /\ g[p].is_leaf = R[p].is_leaf
      /\ Replaced(R[p].keys, g[p].keys, i, ks[s + 1])
      /\ \A x \in DOMAIN R : x # l /\ x # m /\ x # p =>
           g[x].is_leaf = R[x].is_leaf /\ g[x].keys = R[x].keys
  BY DEF Shifted, R, l, m, p, i
<1>6. R[l].is_leaf = R[m].is_leaf /\ l # root /\ m # root
  BY <1>2 DEF Neighbours
<1>7. Least(g[l]) = Least(nodes[nd]) /\ Least(g[m]) = Least(nodes[nd])
  <2>1. g[l].is_leaf = nodes[nd].is_leaf /\ g[m].is_leaf = nodes[nd].is_leaf
    BY <1>1, <1>3, <1>5, <1>6
  <2> QED
    BY <2>1 DEF Least
<1>8. Fill(g, root)
  <2> SUFFICES ASSUME NEW x \in DOMAIN g
               PROVE  /\ Len(g[x].keys) <= MAX_KEY_NUM
                      /\ x # root => Len(g[x].keys) >= Least(g[x])
                      /\ x = root /\ ~g[x].is_leaf => Len(g[x].keys) >= 1
    BY DEF Fill
  <2>1. CASE x = l
    BY <1>6, <1>7, <2>1 DEF l, nd
  <2>2. CASE x = m
    BY <1>6, <1>7, <2>2 DEF m, nd
  <2>3. CASE x # l /\ x # m
    <3>1. x # nd /\ x \in DOMAIN nodes /\ R[x] = nodes[x]
      BY <1>1, <1>3, <1>5, <2>3
    <3>2. g[x].is_leaf = R[x].is_leaf /\ Len(g[x].keys) = Len(R[x].keys)
      <4>1. CASE x = p
        BY <1>5, <4>1 DEF Replaced
      <4>2. CASE x # p
        BY <1>5, <2>3, <4>2
      <4> QED
        BY <4>1, <4>2
    <3>3. g[x].is_leaf = nodes[x].is_leaf /\ Len(g[x].keys) = Len(nodes[x].keys)
      BY <3>1, <3>2
    <3>4. Least(g[x]) = Least(nodes[x])
      BY <3>3 DEF Least
    <3> QED
      BY <1>1, <3>1, <3>3, <3>4 DEF Fill
  <2> QED
    BY <2>1, <2>2, <2>3
<1>9. root # NULL
  BY <1>1, TreeAssumption DEF Heap, Address
<1> QED
  BY <1>1, <1>4, <1>5, <1>8, <1>9 DEF Inv
\* It does not matter which of the two nodes is named first.
LEMMA MovedSwap ==
    ASSUME NEW h, NEW g, NEW a, NEW ka, NEW pa, NEW b, NEW kb, NEW pb, NEW p, NEW i, NEW sep,
           IsMoved(h, g, a, ka, pa, b, kb, pb, p, i, sep)
    PROVE  IsMoved(h, g, b, kb, pb, a, ka, pa, p, i, sep)
  BY DEF IsMoved

\* distribute_nodes with the left neighbour.
LEMMA InvDistributeFromLeft ==
    ASSUME IInv, DistributeFromLeft
    PROVE  IInv'
<1> DEFINE nd == call.nd
           R == Removed
           l == LeftNode
           m == RightNode
           p == ParentNode
           i == SepIndex
           ks == MergedKeys(R, p, i, l, m)
           ps == MergedPointers(R, l, m)
           kl == R[l].keys
           pl == R[l].pointers
           km == R[m].keys
           pm == R[m].pointers
           lf == R[l].is_leaf
           x == R[p].keys[i]
           key == IF lf THEN Last(kl) ELSE x
           f == MovedHeap(R, m, <<key>> \o km, <<Last(pl)>> \o pm, l, Front(kl), Front(pl), p, i, Last(kl))
           s == Len(kl) - 1
<1>1. call.fn = "delete_entry" /\ Underfull /\ nd # root /\ NumKeys(Neighbor) + KeysLeft > Cap /\ NdIndex # 0
  BY DEF DistributeFromLeft, Underfull
<1>2. RemovedFacts
  BY <1>1, PendingDelete
<1>3. PairFacts
  BY <1>1, <1>2, PairProp
<1>4. CanSpare(Len(R[Neighbor].keys), Len(R[nd].keys), Least(nodes[nd]))
  BY <1>1, <1>2, <1>3, SpareKey
<1>5. /\ Good(R, root, index) /\ Heap(R) /\ nd \in DOMAIN nodes /\ DOMAIN R = DOMAIN nodes
      /\ \A y \in DOMAIN nodes : y # nd => R[y] = nodes[y]
      /\ R[nd].is_leaf = nodes[nd].is_leaf
  BY <1>2 DEF RemovedFacts
<1>6. /\ Siblings(R, p, i, l, m) /\ Neighbours(R, root, p, i, l, m)
      /\ Neighbor \in DOMAIN nodes /\ Neighbor # nd /\ p \in DOMAIN nodes /\ p # nd
      /\ i = IF NdIndex = 0 THEN 1 ELSE NdIndex
  BY <1>3 DEF PairFacts
<1>7. l = Neighbor /\ m = nd /\ i = NdIndex
  BY <1>1, <1>6 DEF LeftNode, RightNode
<1>8. /\ i \in 1 .. Len(R[p].keys) /\ l # m /\ l # p /\ m # p
      /\ lf = R[m].is_leaf /\ lf \in BOOLEAN
      /\ l \in DOMAIN R /\ m \in DOMAIN R /\ p \in DOMAIN R
  BY <1>6 DEF Neighbours, Siblings
<1>9. R[l] = nodes[Neighbor] /\ R[p] = nodes[p] /\ lf = nodes[nd].is_leaf
  BY <1>5, <1>6, <1>7, <1>8
<1>10. nodes' = IF lf THEN f ELSE Adopt(f, {Last(pl)}, m)
  <2> DEFINE last == Last(nodes[Neighbor].keys)
             child == Last(nodes[Neighbor].pointers)
             k0 == IF nodes[nd].is_leaf THEN last ELSE nodes[p].keys[NdIndex]
             mg == [R EXCEPT ![nd].keys = <<k0>> \o @, ![nd].pointers = <<child>> \o @,
                             ![Neighbor].keys = Front(@), ![Neighbor].pointers = Front(@),
                             ![p].keys[NdIndex] = Separator(NdIndex, last)]
  <2>1. nodes' = IF nodes[nd].is_leaf THEN mg ELSE Adopt(mg, {child}, nd)
    BY Zenon DEF DistributeFromLeft, ParentNode
  <2>2. last = Last(kl) /\ child = Last(pl) /\ k0 = key
    BY <1>7, <1>9
  <2> HIDE DEF R, p, l, m, i, nd, last, child, k0, lf
  <2>3. mg = MovedHeap(R, nd, <<k0>> \o R[nd].keys, <<child>> \o R[nd].pointers,
                       Neighbor, Front(R[Neighbor].keys), Front(R[Neighbor].pointers), p, NdIndex, last)
    BY <1>6 DEF MovedHeap, Separator
  <2> HIDE DEF mg
  <2>4. mg = f
    BY <1>7, <2>2, <2>3
  <2> HIDE DEF f
  <2> QED
    BY <1>7, <1>9, <2>1, <2>2, <2>4
<1>11. call' = Done /\ root' = root /\ index' = index
  BY DEF DistributeFromLeft
<1> HIDE DEF R, l, m, p, i, nd, ks, ps, f
<1>12. x \in Names
  BY <1>5, <1>8, KeysInt
<1>13. MergedEntries(R, p, i, l, m, ks, ps)
  BY <1>5, <1>6, MergedProp DEF ks, ps
<1>14. Together(lf, x, kl, pl, km, pm, ks, ps)
  BY <1>5, <1>6, <1>13, MergedTogether
<1>15. Len(kl) \in Nat /\ Len(km) \in Nat /\ Len(kl) >= 2
  BY <1>4, <1>7 DEF CanSpare
<1> DEFINE k1 == Front(kl)
           p1 == Front(pl)
           k2 == <<key>> \o km
           p2 == <<Last(pl)>> \o pm
           child == Last(pl)
           sep == Last(kl)
<1>16. /\ Divided(lf, s, k1, p1, k2, p2, ks, ps)
       /\ sep \in Names /\ ks[Len(kl)] = sep /\ child = ps[Len(pl)] /\ Len(pl) >= 1
  <2> HIDE DEF kl, pl, km, pm, lf, x
  <2>1. Len(kl) >= 1
    BY <1>15
  <2> QED
    BY <1>8, <1>12, <1>14, <2>1, DividedLeft
<1> HIDE DEF kl, pl, km, pm, lf, x, key, k1, p1, k2, p2, child, sep
<1>17. s \in Nat /\ s + 1 = Len(kl) /\ s >= 1
  BY <1>15
<1> HIDE DEF s
<1>18. IsMoved(R, f, m, k2, p2, l, k1, p1, p, i, sep)
  <2>1. Fits(R[m].is_leaf, k2, p2) /\ Fits(R[l].is_leaf, k1, p1)
    BY <1>8, <1>16 DEF Divided, lf
  <2> QED
    BY <1>5, <1>8, <1>16, <2>1, MovedHeapProp DEF f, k1, p1, k2, p2, child, sep
<1>19. IsMoved(R, f, l, k1, p1, m, k2, p2, p, i, ks[s + 1])
  <2>1. ks[s + 1] = sep
    BY <1>16, <1>17
  <2> QED
    BY <1>18, <2>1, MovedSwap
<1>20. PICK ht, rng : WF(R, root, ht, rng)
  BY <1>5 DEF Good
<1>21. ~R[l].is_leaf => MovedChild(R, l, m, ps, s, child, m)
  <2> SUFFICES ASSUME ~R[l].is_leaf PROVE MovedChild(R, l, m, ps, s, child, m)
    OBVIOUS
  <2>1. Brood(R, l, m, ps, Len(pl))
    BY <1>6, <1>13, <1>20, BroodProp DEF pl
  <2>2. Len(pl) = Len(kl) + 1
    BY <1>5, <1>8, KeysInt DEF kl, pl
  <2>3. s + 1 = Len(pl) - 1
    BY <1>15, <1>17, <2>2
  <2>4. MovedChild(R, l, m, ps, s, ps[Len(pl)], m)
    BY <1>8, <1>16, <2>1, <2>3, BroodLeft
  <2> QED
    BY <1>16, <2>4
<1>22. R[l].is_leaf => nodes' = f
  BY <1>10 DEF lf
<1>23. ~R[l].is_leaf => IsAdopt(f, nodes', {child}, m)
  <2>1. Heap(f) /\ m \in Link
    BY <1>5, <1>8, <1>18 DEF IsMoved, Heap, Link
  <2>2. IsAdopt(f, Adopt(f, {child}, m), {child}, m)
    BY <2>1, AdoptHeap
  <2> QED
    BY <1>10, <2>2 DEF lf, child
<1> DEFINE g == nodes'
<1> HIDE DEF g
<1>24. Shifted(R, g, p, i, l, m, ks, ps, s)
  <2>1. Divided(R[l].is_leaf, s, k1, p1, k2, p2, ks, ps)
    BY <1>16 DEF lf
  <2>2. (R[l].is_leaf => g = f) /\ (~R[l].is_leaf => IsAdopt(f, g, {child}, m))
    BY <1>22, <1>23 DEF g
  <2> QED
    BY <1>6, <1>19, <1>21, <2>1, <2>2, ShiftedHeap
<1>25. Len(g[l].keys) = Len(kl) - 1 /\ Len(g[m].keys) = Len(km) + 1
  <2> DEFINE d == Stays(R, l)
  <2>1. Len(ks) = (Len(kl) + More(lf)) + Len(km)
    BY <1>14 DEF Together
  <2>2. d = More(lf) /\ d \in Nat
    BY <1>8 DEF Stays, More, lf
  <2> HIDE DEF d
  <2>3. IsPiece(ks, 1, s, g[l].keys) /\ IsPiece(ks, (s + d) + 1, Len(ks), g[m].keys)
    BY <1>24 DEF Shifted, d
  <2>4. Len(g[l].keys) = (s - 1) + 1 /\ Len(g[m].keys) = (Len(ks) - ((s + d) + 1)) + 1
    BY <2>3 DEF IsPiece
  <2>5. Len(ks) = (Len(kl) + d) + Len(km)
    BY <2>1, <2>2
  <2> DEFINE na == Len(kl)
             nb == Len(km)
             nk == Len(ks)
  <2>6. na \in Nat /\ nb \in Nat /\ nk = (na + d) + nb /\ s + 1 = na /\ s \in Nat /\ d \in Nat
    BY <1>15, <1>17, <2>2, <2>5
  <2>7. Len(g[l].keys) = (s - 1) + 1 /\ Len(g[m].keys) = (nk - ((s + d) + 1)) + 1
    BY <2>4
  <2> HIDE DEF na, nb, nk
  <2>8. (s - 1) + 1 = na - 1 /\ (nk - ((s + d) + 1)) + 1 = nb + 1
    BY <2>6
  <2> QED
    BY <2>7, <2>8 DEF na, nb
<1>26. s < Len(ks)
  <2>1. Len(ks) = (Len(kl) + More(lf)) + Len(km) /\ More(lf) \in Nat
    BY <1>14 DEF Together, More
  <2> QED
    BY <1>15, <1>17, <2>1
<1>27. Len(kl) - 1 >= Least(nodes[nd]) /\ Len(kl) - 1 <= MAX_KEY_NUM
       /\ Len(km) + 1 >= Least(nodes[nd]) /\ Len(km) + 1 <= MAX_KEY_NUM
  BY <1>4, <1>7 DEF CanSpare, kl, km
<1>28. Inv(g, root, Done, index)
  <2>1. /\ Len(g[l].keys) >= Least(nodes[nd]) /\ Len(g[l].keys) <= MAX_KEY_NUM
        /\ Len(g[m].keys) >= Least(nodes[nd]) /\ Len(g[m].keys) <= MAX_KEY_NUM
    BY <1>25, <1>27
  <2> QED
    BY <1>2, <1>3, <1>17, <1>24, <1>26, <2>1, ShiftedInv DEF R, l, m, p, i, nd, ks, ps
<1> QED
  BY <1>11, <1>28 DEF IInv, g
\* distribute_nodes with the right neighbour.
LEMMA InvDistributeFromRight ==
    ASSUME IInv, DistributeFromRight
    PROVE  IInv'
<1> DEFINE nd == call.nd
           R == Removed
           l == LeftNode
           m == RightNode
           p == ParentNode
           i == SepIndex
           ks == MergedKeys(R, p, i, l, m)
           ps == MergedPointers(R, l, m)
           kl == R[l].keys
           pl == R[l].pointers
           km == R[m].keys
           pm == R[m].pointers
           lf == R[l].is_leaf
           x == R[p].keys[i]
           key == IF lf THEN Head(km) ELSE x
           sep == IF lf THEN km[2] ELSE Head(km)
           f == MovedHeap(R, l, Append(kl, key), Append(pl, Head(pm)), m, Tail(km), Tail(pm), p, i, sep)
           s == Len(kl) + 1
<1>1. call.fn = "delete_entry" /\ Underfull /\ nd # root /\ NumKeys(Neighbor) + KeysLeft > Cap /\ NdIndex = 0
  BY DEF DistributeFromRight, Underfull
<1>2. RemovedFacts
  BY <1>1, PendingDelete
<1>3. PairFacts
  BY <1>1, <1>2, PairProp
<1>4. CanSpare(Len(R[Neighbor].keys), Len(R[nd].keys), Least(nodes[nd]))
  BY <1>1, <1>2, <1>3, SpareKey
<1>5. /\ Good(R, root, index) /\ Heap(R) /\ nd \in DOMAIN nodes /\ DOMAIN R = DOMAIN nodes
      /\ \A y \in DOMAIN nodes : y # nd => R[y] = nodes[y]
      /\ R[nd].is_leaf = nodes[nd].is_leaf
  BY <1>2 DEF RemovedFacts
<1>6. /\ Siblings(R, p, i, l, m) /\ Neighbours(R, root, p, i, l, m)
      /\ Neighbor \in DOMAIN nodes /\ Neighbor # nd /\ p \in DOMAIN nodes /\ p # nd
      /\ i = IF NdIndex = 0 THEN 1 ELSE NdIndex
  BY <1>3 DEF PairFacts
<1>7. l = nd /\ m = Neighbor /\ i = 1
  BY <1>1, <1>6 DEF LeftNode, RightNode
<1>8. /\ i \in 1 .. Len(R[p].keys) /\ l # m /\ l # p /\ m # p
      /\ lf = R[m].is_leaf /\ lf \in BOOLEAN
      /\ l \in DOMAIN R /\ m \in DOMAIN R /\ p \in DOMAIN R
  BY <1>6 DEF Neighbours, Siblings
<1>9. R[m] = nodes[Neighbor] /\ R[p] = nodes[p] /\ lf = nodes[nd].is_leaf
  BY <1>5, <1>6, <1>7, <1>8
<1>10. nodes' = IF lf THEN f ELSE Adopt(f, {Head(pm)}, l)
  <2> DEFINE first == Head(nodes[Neighbor].keys)
             child == Head(nodes[Neighbor].pointers)
             k0 == IF nodes[nd].is_leaf THEN first ELSE nodes[p].keys[1]
             s0 == IF nodes[nd].is_leaf THEN nodes[Neighbor].keys[2] ELSE first
             mg == [R EXCEPT ![nd].keys = Append(@, k0), ![nd].pointers = Append(@, child),
                             ![Neighbor].keys = Tail(@), ![Neighbor].pointers = Tail(@),
                             ![p].keys[1] = Separator(1, s0)]
  <2>1. nodes' = IF nodes[nd].is_leaf THEN mg ELSE Adopt(mg, {child}, nd)
    BY Zenon DEF DistributeFromRight, ParentNode
  <2>2. child = Head(pm) /\ k0 = key /\ s0 = sep
    BY <1>7, <1>9
  <2> HIDE DEF R, p, l, m, i, nd, child, k0, s0, lf, sep, key
  <2>3. mg = MovedHeap(R, nd, Append(R[nd].keys, k0), Append(R[nd].pointers, child),
                       Neighbor, Tail(R[Neighbor].keys), Tail(R[Neighbor].pointers), p, 1, s0)
    BY <1>6 DEF MovedHeap, Separator
  <2> HIDE DEF mg
  <2>4. mg = f
    BY <1>7, <2>2, <2>3
  <2> HIDE DEF f
  <2> QED
    BY <1>7, <1>9, <2>1, <2>2, <2>4
<1>11. call' = Done /\ root' = root /\ index' = index
  BY DEF DistributeFromRight
<1> HIDE DEF R, l, m, p, i, nd, ks, ps, f
<1>12. x \in Names
  BY <1>5, <1>8, KeysInt
<1>13. MergedEntries(R, p, i, l, m, ks, ps)
  BY <1>5, <1>6, MergedProp DEF ks, ps
<1>14. Together(lf, x, kl, pl, km, pm, ks, ps)
  BY <1>5, <1>6, <1>13, MergedTogether
<1>15. Len(kl) \in Nat /\ Len(km) \in Nat /\ Len(km) >= 2
  BY <1>4, <1>7 DEF CanSpare
<1> DEFINE k1 == Append(kl, key)
           p1 == Append(pl, Head(pm))
           k2 == Tail(km)
           p2 == Tail(pm)
           child == Head(pm)
<1>16. /\ Divided(lf, s, k1, p1, k2, p2, ks, ps)
       /\ sep \in Names /\ ks[Len(kl) + 2] = sep /\ child = ps[Len(pl) + 1] /\ Len(pm) >= 1
  <2> HIDE DEF kl, pl, km, pm, lf, x
  <2> QED
    BY <1>8, <1>12, <1>14, <1>15, DividedRight
<1> HIDE DEF kl, pl, km, pm, lf, x, key, k1, p1, k2, p2, child, sep
<1>17. s \in Nat /\ s = Len(kl) + 1 /\ s + 1 = Len(kl) + 2 /\ s >= 1
  BY <1>15
<1> HIDE DEF s
<1>18. IsMoved(R, f, l, k1, p1, m, k2, p2, p, i, sep)
  <2>1. Fits(R[m].is_leaf, k2, p2) /\ Fits(R[l].is_leaf, k1, p1)
    BY <1>8, <1>16 DEF Divided, lf
  <2> QED
    BY <1>5, <1>8, <1>16, <2>1, MovedHeapProp DEF f, k1, p1, k2, p2, child
<1>19. IsMoved(R, f, l, k1, p1, m, k2, p2, p, i, ks[s + 1])
  <2>1. ks[s + 1] = sep
    BY <1>16, <1>17
  <2> QED
    BY <1>18, <2>1
<1>20. PICK ht, rng : WF(R, root, ht, rng)
  BY <1>5 DEF Good
<1>21. ~R[l].is_leaf => MovedChild(R, l, m, ps, s, child, l)
  <2> SUFFICES ASSUME ~R[l].is_leaf PROVE MovedChild(R, l, m, ps, s, child, l)
    OBVIOUS
  <2>1. Brood(R, l, m, ps, Len(pl))
    BY <1>6, <1>13, <1>20, BroodProp DEF pl
  <2>2. Len(pl) = Len(kl) + 1
    BY <1>5, <1>8, KeysInt DEF kl, pl
  <2>3. s + 1 = Len(pl) + 1
    BY <1>15, <1>17, <2>2
  <2>4. Len(pl) < Len(ps)
    <3>1. Len(ps) = Len(pl) + Len(pm)
      BY <1>14 DEF Together
    <3>2. Len(pm) \in Nat /\ Len(pl) \in Nat
      BY <1>5, <1>8, KeysInt DEF pm, pl
    <3> QED
      BY <1>16, <3>1, <3>2
  <2>5. MovedChild(R, l, m, ps, s, ps[Len(pl) + 1], l)
    BY <1>8, <2>1, <2>3, <2>4, BroodRight
  <2> QED
    BY <1>16, <2>5
<1>22. R[l].is_leaf => nodes' = f
  BY <1>10 DEF lf
<1>23. ~R[l].is_leaf => IsAdopt(f, nodes', {child}, l)
  <2>1. Heap(f) /\ l \in Link
    BY <1>5, <1>8, <1>18 DEF IsMoved, Heap, Link
  <2>2. IsAdopt(f, Adopt(f, {child}, l), {child}, l)
    BY <2>1, AdoptHeap
  <2> QED
    BY <1>10, <2>2 DEF lf, child
<1> DEFINE g == nodes'
<1> HIDE DEF g
<1>24. Shifted(R, g, p, i, l, m, ks, ps, s)
  <2>1. Divided(R[l].is_leaf, s, k1, p1, k2, p2, ks, ps)
    BY <1>16 DEF lf
  <2>2. (R[l].is_leaf => g = f) /\ (~R[l].is_leaf => IsAdopt(f, g, {child}, l))
    BY <1>22, <1>23 DEF g
  <2> QED
    BY <1>6, <1>19, <1>21, <2>1, <2>2, ShiftedHeap
<1>25. Len(g[l].keys) = Len(kl) + 1 /\ Len(g[m].keys) = Len(km) - 1
  <2> DEFINE d == Stays(R, l)
             na == Len(kl)
             nb == Len(km)
             nk == Len(ks)
  <2>1. Len(ks) = (Len(kl) + More(lf)) + Len(km)
    BY <1>14 DEF Together
  <2>2. d = More(lf) /\ d \in Nat
    BY <1>8 DEF Stays, More, lf
  <2> HIDE DEF d
  <2>3. IsPiece(ks, 1, s, g[l].keys) /\ IsPiece(ks, (s + d) + 1, Len(ks), g[m].keys)
    BY <1>24 DEF Shifted, d
  <2>4. Len(g[l].keys) = (s - 1) + 1 /\ Len(g[m].keys) = (nk - ((s + d) + 1)) + 1
    BY <2>3 DEF IsPiece
  <2>5. na \in Nat /\ nb \in Nat /\ nk = (na + d) + nb /\ s = na + 1 /\ s \in Nat /\ d \in Nat
    BY <1>15, <1>17, <2>1, <2>2
  <2> HIDE DEF na, nb, nk
  <2>6. (s - 1) + 1 = na + 1 /\ (nk - ((s + d) + 1)) + 1 = nb - 1
    BY <2>5
  <2> QED
    BY <2>4, <2>6 DEF na, nb
<1>26. s < Len(ks)
  <2>1. Len(ks) = (Len(kl) + More(lf)) + Len(km) /\ More(lf) \in Nat
    BY <1>14 DEF Together, More
  <2> QED
    BY <1>15, <1>17, <2>1
<1>27. /\ Len(kl) + 1 >= Least(nodes[nd]) /\ Len(kl) + 1 <= MAX_KEY_NUM
       /\ Len(km) - 1 >= Least(nodes[nd]) /\ Len(km) - 1 <= MAX_KEY_NUM
  BY <1>4, <1>7 DEF CanSpare, kl, km
<1>28. Inv(g, root, Done, index)
  <2>1. /\ Len(g[l].keys) >= Least(nodes[nd]) /\ Len(g[l].keys) <= MAX_KEY_NUM
        /\ Len(g[m].keys) >= Least(nodes[nd]) /\ Len(g[m].keys) <= MAX_KEY_NUM
    BY <1>25, <1>27
  <2> QED
    BY <1>2, <1>3, <1>17, <1>24, <1>26, <2>1, ShiftedInv DEF R, l, m, p, i, nd, ks, ps
<1> QED
  BY <1>11, <1>28 DEF IInv, g
-----------------------------------------------------------------------------
(* The theorems.                                                              *)

\* B_plus_tree_insert.
LEMMA InvInsertName ==
    ASSUME IInv, NEW key \in Names, NEW file \in Files, InsertName(key, file)
    PROVE  IInv'
<1>1. CASE InsertFirst(key, file)
  BY <1>1, InvInsertFirst
<1>2. CASE InsertRefused(key, file)
  BY <1>2, InvInsertRefused
<1>3. CASE InsertIntoLeaf(key, file)
  BY <1>3, InvInsertIntoLeaf
<1>4. CASE InsertIntoLeafAfterSplitting(key, file)
  BY <1>4, InvInsertIntoLeafAfterSplitting
<1> QED
  BY <1>1, <1>2, <1>3, <1>4 DEF InsertName

\* Every step of an insert or a remove preserves the invariant.
LEMMA InvNext ==
    ASSUME IInv, [Next]_vars
    PROVE  IInv'
<1>1. CASE \E key \in Names, file \in Files : InsertName(key, file)
  BY <1>1, InvInsertName
<1>2. CASE GrowRoot
  BY <1>2, InvGrowRoot
<1>3. CASE InsertIntoParent
  BY <1>3, InvInsertIntoParent
<1>4. CASE InsertIntoNodeAfterSplitting
  BY <1>4, InvInsertIntoNodeAfterSplitting
<1>5. CASE \E key \in Removable : RemoveName(key)
  BY <1>5, InvRemoveName
<1>6. CASE DeleteInRoot
  BY <1>6, InvDeleteInRoot
<1>7. CASE DeleteEnough
  BY <1>7, InvDeleteEnough
<1>8. CASE Coalesce
  BY <1>8, InvCoalesce
<1>9. CASE DistributeFromLeft
  BY <1>9, InvDistributeFromLeft
<1>10. CASE DistributeFromRight
  BY <1>10, InvDistributeFromRight
<1>11. CASE UNCHANGED vars
  BY <1>11 DEF vars, IInv
<1> QED
  BY <1>1, <1>2, <1>3, <1>4, <1>5, <1>6, <1>7, <1>8, <1>9, <1>10, <1>11 DEF Next

\* The heap of B_plus_tree_insert and B_plus_tree_remove, or the one the pending
\* insert_into_parent or delete_entry leaves, always has a search tree in it.
THEOREM TreeInvariant == Spec => []IInv
<1>1. Init => IInv
  BY InvInit
<1>2. IInv /\ [Next]_vars => IInv'
  BY InvNext
<1> QED
  BY <1>1, <1>2, PTL DEF Spec

\* Nodes and pending calls keep their types through make_new_node, the splits of
\* insert_into_parent and the merges of delete_entry.
THEOREM TreeType == Spec => []TypeOK
<1>1. IInv => TypeOK
  BY InvTypeOK
<1> QED
  BY <1>1, TreeInvariant, PTL

\* When no call is running, parent and child pointers agree (the assignments to
\* parent in insert_into_parent, coalesce_nodes, distribute_nodes, adjust_root).
THEOREM TreeAttached == Spec => []Attached
<1>1. IInv => Attached
  BY InvAttached
<1> QED
  BY <1>1, TreeInvariant, PTL

\* When no call is running, the leaves are at one depth and every node but the
\* root is at least half full, whatever MAX_KEY_NUM (get_node_index, min_keys and
\* the capacity of delete_entry).
THEOREM TreeBalanced == Spec => []Balanced
<1>1. IInv => Balanced
  BY InvBalanced
<1> QED
  BY <1>1, TreeInvariant, PTL

\* B_plus_tree_find finds every name that was inserted and not removed, with its
\* file, and no other, unless the uninitialised cond of B_plus_tree_insert may be 0.
THEOREM FindsEveryName == ASSUME 0 \notin CondGarbage PROVE Spec => []FindComplete
<1>1. IInv => FindComplete
  BY InvFind
<1> QED
  BY <1>1, TreeInvariant, PTL
=============================================================================
