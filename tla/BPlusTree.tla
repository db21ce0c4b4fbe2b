------------------------------ MODULE BPlusTree ------------------------------
(***************************************************************************)
(* The B+ tree that maps file names to files (include/spdk/Bplus_Tree.h), as *)
(* a heap of nodes with parent and next pointers.  One action is one         *)
(* function; a function that ends in a call of another one leaves the call   *)
(* in the variable call, and nothing else runs until it has returned.        *)
(*                                                                         *)
(* Names are integers, which compare as strcmp does.  The arrays of a node   *)
(* are sequences of the entries in use; num_keys is the length of keys.      *)
(* Indices are the 0-based ones of the code.                                 *)
(***************************************************************************)
EXTENDS Integers, SequencesExt

CONSTANTS
    MAX_KEY_NUM,    \* keys of a full node
    Names,          \* file names
    Removable,      \* bound: the names that are ever removed
    Files,          \* struct spdk_file pointers
    NULL,           \* the null pointer
    CondGarbage     \* the values the uninitialised cond of an insert may hold

ASSUME TreeAssumption ==
    /\ MAX_KEY_NUM \in Nat \ {0, 1}
    /\ Names \subseteq Int
    /\ Removable \subseteq Names
    /\ NULL \notin Nat
    /\ CondGarbage \subseteq Int /\ CondGarbage # {}

VARIABLES
    root,           \* fs->files: a node or NULL
    nodes,          \* the allocated nodes, by address
    call,           \* the call the running function ends in, or Done
    index           \* ghost: the file of every name its callers put into the tree

vars == <<root, nodes, call, index>>

-----------------------------------------------------------------------------
Done == [fn |-> "done"]
Idle == call = Done

\* How many elements from the start of s on the loop condition P holds for: the
\* index a for loop of the code stops at.
Leading(s, P(_)) ==
    LET stop == {i \in DOMAIN s : ~P(s[i])}
    IN  IF stop = {} THEN Len(s) ELSE Min(stop) - 1

\* make_new_node and make_new_leaf.
Node(leaf, keys, pointers, parent, next) ==
    [is_leaf |-> leaf, keys |-> keys, pointers |-> pointers, parent |-> parent, next |-> next]

\* The address malloc returns: the least free one.
Fresh(h) == Min((1 .. Cardinality(DOMAIN h) + 1) \ DOMAIN h)

\* Heap h with node n at the address a.
Alloc(h, a, n) == [b \in DOMAIN h \cup {a} |-> IF b = a THEN n ELSE h[b]]

NumKeys(nd) == Len(nodes[nd].keys)

\* Mutant: children that move to another node keep their parent.
AdoptNone(h, cs, p) == h

\* Heap h with the nodes cs made children of p.
Adopt(h, cs, p) ==
    [a \in DOMAIN h |-> IF a \in cs THEN [h[a] EXCEPT !.parent = p] ELSE h[a]]

\* destroy_node.
Free(h, nd) == [a \in DOMAIN h \ {nd} |-> h[a]]

\* Mutant: a key equal to the separator is looked for on its left.
FindLeafLeft(key) ==
    LET Down[nd \in DOMAIN nodes] ==
          IF nodes[nd].is_leaf THEN nd
          ELSE Down[nodes[nd].pointers[Leading(nodes[nd].keys, LAMBDA k : k < key) + 1]]
    IN  IF root = NULL THEN NULL ELSE Down[root]

\* find_leaf.
FindLeaf(key) ==
    LET Down[nd \in DOMAIN nodes] ==
          IF nodes[nd].is_leaf THEN nd
          ELSE Down[nodes[nd].pointers[Leading(nodes[nd].keys, LAMBDA k : k <= key) + 1]]
    IN  IF root = NULL THEN NULL ELSE Down[root]

\* The position of key in its leaf; NumKeys when it is not there.
IndexIn(leaf, key) == Leading(nodes[leaf].keys, LAMBDA k : k # key)

\* B_plus_tree_find: the file of the name, or NULL.
Find(key) ==
    LET leaf == FindLeaf(key)
    IN  IF leaf = NULL \/ IndexIn(leaf, key) = NumKeys(leaf) THEN NULL
        ELSE nodes[leaf].pointers[IndexIn(leaf, key) + 1]

\* get_node_index.
GetNodeIndex(h, nd) ==
    LET parent == h[h[nd].parent]
    IN  Leading(SubSeq(parent.pointers, 1, Len(parent.keys)), LAMBDA p : p # nd)

\* The leftmost leaf, where traverse_leaves and the iterators start.
FirstLeaf ==
    LET Down[nd \in DOMAIN nodes] ==
          IF nodes[nd].is_leaf THEN nd ELSE Down[nodes[nd].pointers[1]]
    IN  IF root = NULL THEN NULL ELSE Down[root]

\* The leaves in the order of their next pointers.
Leaves ==
    LET Chain[nd \in DOMAIN nodes] ==
          <<nd>> \o (IF nodes[nd].next \in DOMAIN nodes THEN Chain[nodes[nd].next] ELSE <<>>)
    IN  IF root = NULL THEN <<>> ELSE Chain[FirstLeaf]

\* traverse_leaves: the entries of the leaves, in the order of the next pointers.
Traverse ==
    LET From[nd \in DOMAIN nodes] ==
          Zip(nodes[nd].keys, nodes[nd].pointers)
            \o (IF nodes[nd].next \in DOMAIN nodes THEN From[nodes[nd].next] ELSE <<>>)
    IN  IF root = NULL THEN <<>> ELSE From[FirstLeaf]

-----------------------------------------------------------------------------
\* B_plus_tree_initial.
Init ==
    /\ root = 1
    /\ nodes = [a \in {1} |-> Node(TRUE, <<>>, <<>>, NULL, NULL)]
    /\ call = Done
    /\ index = [n \in {} |-> NULL]

-----------------------------------------------------------------------------
(* B_plus_tree_insert.                                                       *)

\* Where key goes in the leaf, and what cond holds when the loop has stopped:
\* the last comparison, or garbage when there was none.
InsertIndex(leaf, key) == Leading(nodes[leaf].keys, LAMBDA k : k < key)

Conds(leaf, key) ==
    IF NumKeys(leaf) = 0 THEN CondGarbage
    ELSE IF InsertIndex(leaf, key) = NumKeys(leaf) THEN {-1}
    ELSE {nodes[leaf].keys[InsertIndex(leaf, key) + 1] - key}

\* What the callers expect of an insert: a name that is there keeps its file.
Recorded(key, file) ==
    index' = [n \in DOMAIN index \cup {key} |-> IF n \in DOMAIN index THEN index[n] ELSE file]

\* The tree has no node: the new leaf is the root.
InsertFirst(key, file) ==
    /\ Idle
    /\ root = NULL
    /\ Recorded(key, file)
    /\ root' = Fresh(nodes)
    /\ nodes' = Alloc(nodes, Fresh(nodes), Node(TRUE, <<key>>, <<file>>, NULL, NULL))
    /\ UNCHANGED call

\* cond is 0: the name counts as being there already, and nothing is done.
InsertRefused(key, file) ==
    /\ Idle
    /\ root # NULL
    /\ 0 \in Conds(FindLeaf(key), key)
    /\ Recorded(key, file)
    /\ UNCHANGED <<root, nodes, call>>

\* The leaf has room.
InsertIntoLeaf(key, file) ==
    /\ Idle
    /\ root # NULL
    /\ Recorded(key, file)
    /\ LET leaf == FindLeaf(key)
           at   == InsertIndex(leaf, key)
       IN  /\ \E cond \in Conds(leaf, key) : cond # 0
           /\ NumKeys(leaf) < MAX_KEY_NUM
           /\ nodes' = [nodes EXCEPT ![leaf].keys = InsertAt(@, at + 1, key),
                                     ![leaf].pointers = InsertAt(@, at + 1, file)]
    /\ UNCHANGED <<root, call>>

\* Mutant: the new leaf does not take over the next pointer.
SplitNextNull(leaf) == NULL

SplitNext(leaf) == nodes[leaf].next

\* insert_into_leaf_after_splitting: the upper part moves to a new leaf.
InsertIntoLeafAfterSplitting(key, file) ==
    /\ Idle
    /\ root # NULL
    /\ Recorded(key, file)
    /\ LET leaf     == FindLeaf(key)
           at       == InsertIndex(leaf, key)
           ks       == InsertAt(nodes[leaf].keys, at + 1, key)
           ps       == InsertAt(nodes[leaf].pointers, at + 1, file)
           split    == (MAX_KEY_NUM + 1) \div 2
           new_leaf == Fresh(nodes)
       IN  /\ \E cond \in Conds(leaf, key) : cond # 0
           /\ NumKeys(leaf) = MAX_KEY_NUM
           /\ nodes' = Alloc([nodes EXCEPT ![leaf].keys = SubSeq(ks, 1, split),
                                          ![leaf].pointers = SubSeq(ps, 1, split),
                                          ![leaf].next = new_leaf],
                             new_leaf, Node(TRUE, SubSeq(ks, split + 1, Len(ks)),
                                            SubSeq(ps, split + 1, Len(ps)),
                                            nodes[leaf].parent, SplitNext(leaf)))
           /\ call' = [fn |-> "insert_into_parent", left |-> leaf, right |-> new_leaf,
                       key |-> ks[split + 1]]
    /\ UNCHANGED root

-----------------------------------------------------------------------------
(* insert_into_parent.                                                       *)

\* The root was split: a new root above the halves.
GrowRoot ==
    /\ call.fn = "insert_into_parent"
    /\ nodes[call.left].parent = NULL
    /\ LET temp == Fresh(nodes) IN
         /\ root' = temp
         /\ nodes' = Adopt(Alloc(nodes, temp, Node(FALSE, <<call.key>>, <<call.left, call.right>>,
                                                   NULL, NULL)),
                           {call.left, call.right}, temp)
    /\ call' = Done
    /\ UNCHANGED index

\* Mutant: the new child is not entered into the parent.
WithoutRight == nodes[nodes[call.left].parent].pointers

\* The parent, where the left half is in it, and its entries with the new one.
ParentOfLeft == nodes[call.left].parent
IndexOfLeft  == GetNodeIndex(nodes, call.left)
WithKey      == InsertAt(nodes[ParentOfLeft].keys, IndexOfLeft + 1, call.key)
WithRight    == InsertAt(nodes[ParentOfLeft].pointers, IndexOfLeft + 2, call.right)

\* The parent has room.
InsertIntoParent ==
    /\ call.fn = "insert_into_parent"
    /\ ParentOfLeft # NULL
    /\ NumKeys(ParentOfLeft) < MAX_KEY_NUM
    /\ nodes' = [nodes EXCEPT ![ParentOfLeft].keys = WithKey, ![ParentOfLeft].pointers = WithRight]
    /\ call' = Done
    /\ UNCHANGED <<root, index>>

\* insert_into_node_after_splitting: the key in the middle goes up.
InsertIntoNodeAfterSplitting ==
    /\ call.fn = "insert_into_parent"
    /\ ParentOfLeft # NULL
    /\ NumKeys(ParentOfLeft) = MAX_KEY_NUM
    /\ LET nd     == ParentOfLeft
           split  == (MAX_KEY_NUM + 2) \div 2
           new_nd == Fresh(nodes)
           moved  == SubSeq(WithRight, split + 1, MAX_KEY_NUM + 2)
           upper  == Node(FALSE, SubSeq(WithKey, split + 1, MAX_KEY_NUM + 1), moved,
                          nodes[nd].parent, NULL)
       IN  /\ nodes' = Adopt(Alloc([nodes EXCEPT ![nd].keys = SubSeq(WithKey, 1, split - 1),
                                                ![nd].pointers = SubSeq(WithRight, 1, split)],
                                   new_nd, upper),
                             ToSet(moved), new_nd)
           /\ call' = [call EXCEPT !.left = nd, !.right = new_nd, !.key = WithKey[split]]
    /\ UNCHANGED <<root, index>>

-----------------------------------------------------------------------------
(* B_plus_tree_remove and delete_entry.                                      *)

\* A name that is not there is left alone.
RemoveName(key) ==
    /\ Idle
    /\ FindLeaf(key) # NULL
    /\ LET leaf == FindLeaf(key) IN
         /\ IndexIn(leaf, key) < NumKeys(leaf)
         /\ call' = [fn |-> "delete_entry", nd |-> leaf, index |-> IndexIn(leaf, key)]
    /\ index' = [n \in DOMAIN index \ {key} |-> index[n]]
    /\ UNCHANGED <<root, nodes>>

\* remove_entry: the heap without entry i of nd.
RemoveEntry(nd, i) ==
    [nodes EXCEPT ![nd].keys = RemoveAt(@, IF nodes[nd].is_leaf THEN i + 1 ELSE i),
                  ![nd].pointers = RemoveAt(@, i + 1)]

Removed   == RemoveEntry(call.nd, call.index)
KeysLeft  == NumKeys(call.nd) - 1

\* Mutant: a node may get one key too small.
MinKeysLow == IF nodes[call.nd].is_leaf THEN (MAX_KEY_NUM - 1) \div 2
              ELSE MAX_KEY_NUM \div 2 - 1

MinKeys   == IF nodes[call.nd].is_leaf THEN (MAX_KEY_NUM + 1) \div 2 ELSE MAX_KEY_NUM \div 2
Cap       == IF nodes[call.nd].is_leaf THEN MAX_KEY_NUM ELSE MAX_KEY_NUM - 1
Underfull == call.fn = "delete_entry" /\ call.nd # root /\ KeysLeft < MinKeys

\* The entry was in the root: adjust_root drops a root without keys.
DeleteInRoot ==
    /\ call.fn = "delete_entry"
    /\ call.nd = root
    /\ IF KeysLeft > 0
       THEN nodes' = Removed /\ UNCHANGED root
       ELSE LET child == IF nodes[root].is_leaf THEN NULL ELSE Removed[root].pointers[1] IN
              /\ root' = child
              /\ nodes' = Free(Adopt(Removed, {child}, NULL), root)
    /\ call' = Done
    /\ UNCHANGED index

\* The node keeps enough keys.
DeleteEnough ==
    /\ call.fn = "delete_entry"
    /\ call.nd # root
    /\ KeysLeft >= MinKeys
    /\ nodes' = Removed
    /\ call' = Done
    /\ UNCHANGED <<root, index>>

\* The left neighbour, or the right one of a first child.
NdIndex  == GetNodeIndex(Removed, call.nd)
Neighbor == nodes[nodes[call.nd].parent].pointers[IF NdIndex = 0 THEN 2 ELSE NdIndex]

\* coalesce_nodes: the right of the two goes into the left one, and its entry
\* in the parent is deleted next.
Coalesce ==
    /\ Underfull
    /\ NumKeys(Neighbor) + KeysLeft <= Cap
    /\ LET left   == IF NdIndex = 0 THEN call.nd ELSE Neighbor
           right  == IF NdIndex = 0 THEN Neighbor ELSE call.nd
           at     == Max({NdIndex, 1})
           parent == nodes[call.nd].parent
           down   == IF nodes[left].is_leaf THEN <<>> ELSE <<nodes[parent].keys[at]>>
           merged == [Removed EXCEPT ![left].keys = @ \o down \o Removed[right].keys,
                                     ![left].pointers = @ \o Removed[right].pointers,
                                     ![left].next = nodes[right].next]
       IN  /\ nodes' = Free(IF nodes[left].is_leaf THEN merged
                            ELSE Adopt(merged, ToSet(merged[left].pointers), left), right)
           /\ call' = [fn |-> "delete_entry", nd |-> parent, index |-> at]
    /\ UNCHANGED <<root, index>>

\* Mutant: the separator in the parent stays as it was.
SeparatorKept(i, key) == nodes[nodes[call.nd].parent].keys[i]

\* The separator between the two nodes becomes key.
Separator(i, key) == key

\* distribute_nodes: one entry moves from the left neighbour ...
DistributeFromLeft ==
    /\ Underfull
    /\ NumKeys(Neighbor) + KeysLeft > Cap
    /\ NdIndex # 0
    /\ LET nd     == call.nd
           parent == nodes[nd].parent
           leaf   == nodes[nd].is_leaf
           last   == Last(nodes[Neighbor].keys)
           child  == Last(nodes[Neighbor].pointers)
           key    == IF leaf THEN last ELSE nodes[parent].keys[NdIndex]
           moved  == [Removed EXCEPT ![nd].keys = <<key>> \o @, ![nd].pointers = <<child>> \o @,
                                     ![Neighbor].keys = Front(@), ![Neighbor].pointers = Front(@),
                                     ![parent].keys[NdIndex] = Separator(NdIndex, last)]
       IN  nodes' = IF leaf THEN moved ELSE Adopt(moved, {child}, nd)
    /\ call' = Done
    /\ UNCHANGED <<root, index>>

\* ... or, to a first child, from the right one.
DistributeFromRight ==
    /\ Underfull
    /\ NumKeys(Neighbor) + KeysLeft > Cap
    /\ NdIndex = 0
    /\ LET nd     == call.nd
           parent == nodes[nd].parent
           leaf   == nodes[nd].is_leaf
           first  == Head(nodes[Neighbor].keys)
           child  == Head(nodes[Neighbor].pointers)
           key    == IF leaf THEN first ELSE nodes[parent].keys[1]
           sep    == IF leaf THEN nodes[Neighbor].keys[2] ELSE first
           moved  == [Removed EXCEPT ![nd].keys = Append(@, key), ![nd].pointers = Append(@, child),
                                     ![Neighbor].keys = Tail(@), ![Neighbor].pointers = Tail(@),
                                     ![parent].keys[1] = Separator(1, sep)]
       IN  nodes' = IF leaf THEN moved ELSE Adopt(moved, {child}, nd)
    /\ call' = Done
    /\ UNCHANGED <<root, index>>

-----------------------------------------------------------------------------
InsertName(key, file) ==
    \/ InsertFirst(key, file) \/ InsertRefused(key, file)
    \/ InsertIntoLeaf(key, file) \/ InsertIntoLeafAfterSplitting(key, file)

Next ==
    \/ \E key \in Names, file \in Files : InsertName(key, file)
    \/ GrowRoot \/ InsertIntoParent \/ InsertIntoNodeAfterSplitting
    \/ \E key \in Removable : RemoveName(key)
    \/ DeleteInRoot \/ DeleteEnough \/ Coalesce \/ DistributeFromLeft \/ DistributeFromRight

Spec == Init /\ [][Next]_vars

-----------------------------------------------------------------------------
(* Properties.                                                               *)

Address == Nat \ {0}

\* Type correctness of the nodes and of the pending call.
TypeOK ==
    /\ root \in Address \cup {NULL}
    /\ \A nd \in DOMAIN nodes :
         LET n == nodes[nd] IN
         /\ n.is_leaf \in BOOLEAN
         /\ n.keys \in Seq(Names)
         /\ n.pointers \in Seq(IF n.is_leaf THEN Files ELSE Address)
         /\ Len(n.pointers) = Len(n.keys) + (IF n.is_leaf THEN 0 ELSE 1)
         /\ {n.parent, n.next} \subseteq Address \cup {NULL}
    /\ call.fn \in {"done", "insert_into_parent", "delete_entry"}
    /\ DOMAIN index \subseteq Names

\* The search finds exactly the names that were inserted and not removed, each
\* with the file it was inserted with (B_plus_tree_find).
FindComplete ==
    Idle => \A key \in Names : Find(key) = IF key \in DOMAIN index THEN index[key] ELSE NULL

\* The pointers between parents and children agree: a child names its parent,
\* a parent its child once, and no node is lost or freed too early.
Attached ==
    Idle =>
      /\ root = NULL => DOMAIN nodes = {}
      /\ root # NULL => root \in DOMAIN nodes /\ nodes[root].parent = NULL
      /\ \A nd \in DOMAIN nodes :
           /\ nd # root =>
                /\ nodes[nd].parent \in DOMAIN nodes
                /\ LET siblings == nodes[nodes[nd].parent].pointers
                   IN  Cardinality({i \in DOMAIN siblings : siblings[i] = nd}) = 1
           /\ ~nodes[nd].is_leaf =>
                \A p \in ToSet(nodes[nd].pointers) : p \in DOMAIN nodes /\ nodes[p].parent = nd

\* All pointers agree: those between parents and children, and the leaves are
\* the chain of next pointers.
Linked ==
    /\ Attached
    /\ Idle => LET chain == Leaves IN
                 /\ ToSet(chain) = {nd \in DOMAIN nodes : nodes[nd].is_leaf}
                 /\ IsInjective(chain)

Depth(leaf) ==
    LET Up[nd \in DOMAIN nodes] == IF nd = root THEN 0 ELSE 1 + Up[nodes[nd].parent]
    IN  Up[leaf]

\* All leaves are at the same depth, no node is overfull, and none but the
\* root is less than half full, so that a search takes logarithmic time.
Balanced ==
    Idle =>
      /\ \A a, b \in DOMAIN nodes : nodes[a].is_leaf /\ nodes[b].is_leaf => Depth(a) = Depth(b)
      /\ \A nd \in DOMAIN nodes :
           /\ NumKeys(nd) <= MAX_KEY_NUM
           /\ nd # root => NumKeys(nd) >= IF nodes[nd].is_leaf THEN (MAX_KEY_NUM + 1) \div 2
                                          ELSE MAX_KEY_NUM \div 2
           /\ nd = root /\ ~nodes[nd].is_leaf => NumKeys(nd) >= 1

\* The iterators list the names in order and none twice, between the steps of
\* an insert or a remove too (traverse_leaves, B_plus_tree_get_next).
ListedInOrder == LET t == Traverse IN \A i \in 2 .. Len(t) : t[i - 1][1] < t[i][1]

\* What the iterators list changes as the abstract index does: a split, a merge
\* or a redistribution neither hides a name nor shows one that is gone.
Listed ==
    LET entries == ToSet(Traverse)
    IN  [key \in {e[1] : e \in entries} |-> (CHOOSE e \in entries : e[1] = key)[2]]
Index  == INSTANCE NameIndex WITH files <- Listed
ImplementsIndex == Index!IndexSpec
=============================================================================
