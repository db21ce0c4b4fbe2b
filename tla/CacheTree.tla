------------------------------ MODULE CacheTree ------------------------------
(***************************************************************************)
(* The radix tree that holds the cache buffers of a file (lib/NBFS/tree.c,   *)
(* tree.h), for the buffers that FileCache and FileCacheRead keep as a map.   *)
(* A node has a level, a mask of the slots in use and Width slots, which      *)
(* hold nodes, or on level 0 the offsets of buffers.  The operations of      *)
(* tree.c are operators, checked against Shape, which says what the tree of  *)
(* a set of buffers looks like, in every state that the file comes to.       *)
(***************************************************************************)
EXTENDS FileCacheRead

CONSTANT Width      \* CACHE_TREE_WIDTH

Slots == 0 .. Width - 1

\* CACHE_TREE_LEVEL_SIZE: the bytes one slot of a node of the level covers.
LevelSize(level) == BufSize * Width ^ level

NewNode(level) == [level |-> level, mask |-> {}, slot |-> [i \in Slots |-> NULL]]

\* A node with x in slot i.
WithSlot(node, i, x) == [node EXCEPT !.slot[i] = x, !.mask = @ \cup {i}]
Without(node, i)     == [node EXCEPT !.slot[i] = NULL, !.mask = @ \ {i}]

\* tree_find_buffer.
RECURSIVE TreeFindBuffer(_, _)
TreeFindBuffer(node, off) ==
    IF node = NULL THEN NULL
    ELSE LET i == off \div LevelSize(node.level) IN
         IF i >= Width THEN NULL
         ELSE IF node.level = 0 THEN node.slot[i]
         ELSE TreeFindBuffer(node.slot[i], off % LevelSize(node.level))

\* The root is one level too low: a new one is put on top, or an empty one raised.
Raised(node) ==
    IF node.mask = {} THEN [node EXCEPT !.level = @ + 1]
    ELSE WithSlot(NewNode(node.level + 1), 0, node)

RECURSIVE Grown(_, _)
Grown(node, off) == IF off >= LevelSize(node.level + 1) THEN Grown(Raised(node), off) ELSE node

\* tree_insert_buffer, below a root that is high enough.
RECURSIVE Inserted(_, _, _)
Inserted(node, off, b) ==
    LET i == off \div LevelSize(node.level) IN
    IF node.level = 0 THEN WithSlot(node, i, b)
    ELSE LET child == IF node.slot[i] = NULL THEN NewNode(node.level - 1) ELSE node.slot[i]
         IN  WithSlot(node, i, Inserted(child, off % LevelSize(node.level), b))

TreeInsertBuffer(node, b) == Inserted(Grown(node, b), b, b)

\* Mutant: the node that became empty stays.
PrunedNever(node, i, child) == WithSlot(node, i, child)

\* A child that is left without buffers is freed.
Pruned(node, i, child) ==
    IF child.mask = {} THEN Without(node, i) ELSE WithSlot(node, i, child)

\* tree_remove_buffer.
RECURSIVE TreeRemoveBuffer(_, _)
TreeRemoveBuffer(node, b) ==
    LET i == (b \div LevelSize(node.level)) % Width IN
    IF node.level = 0 THEN Without(node, i)
    ELSE Pruned(node, i, TreeRemoveBuffer(node.slot[i], b))

\* tree_free_buffers of the buffers in clean: all slots of a node, in order.
RECURSIVE TreeFreeBuffers(_, _), FreedFrom(_, _, _)
FreedFrom(node, i, clean) ==
    IF i = Width THEN node
    ELSE LET x == node.slot[i] IN
         FreedFrom(CASE x = NULL -> node
                     [] x # NULL /\ node.level = 0 ->
                          IF x \in clean THEN Without(node, i) ELSE node
                     [] OTHER -> Pruned(node, i, TreeFreeBuffers(x, clean)),
                   i + 1, clean)
TreeFreeBuffers(node, clean) == IF node.mask = {} THEN node ELSE FreedFrom(node, 0, clean)

-----------------------------------------------------------------------------
\* The tree below a root of the level that starts at base: a slot is in use if
\* and only if there is a buffer in the bytes it covers.
RECURSIVE Shape(_, _, _)
Shape(bs, level, base) ==
    LET in(i) == {b \in bs : (b - base) \div LevelSize(level) = i}
    IN  [level |-> level,
         mask  |-> {i \in Slots : in(i) # {}},
         slot  |-> [i \in Slots |->
                      CASE in(i) = {} -> NULL
                        [] in(i) # {} /\ level = 0 -> CHOOSE b \in in(i) : TRUE
                        [] OTHER -> Shape(in(i), level - 1, base + i * LevelSize(level))]]

\* The root rises to a level when a buffer does not fit below the one before,
\* and never falls: the levels it can have, and the one it has after an insertion.
Levels          == {l \in 0 .. MaxLen : l > 0 => LevelSize(l) <= MaxLen}
LevelFor(l, b)  == CHOOSE m \in Levels : m >= l /\ b < LevelSize(m + 1) /\ (m = l \/ b >= LevelSize(m))
RootLevels(bs)  == {l \in Levels : \A b \in bs : b < LevelSize(l + 1)}
FreeOffsets(bs) == {b \in 0 .. MaxLen : b % BufSize = 0} \ bs

\* Whatever set of buffers a file has come to have, and however high its root
\* rose before, the radix tree finds every buffer at the bytes it covers and
\* nothing else, and an insertion, a removal and the free of the clean buffers
\* lead to the tree of the buffers there are then: none is lost when the root
\* rises, and no node outlives its buffers, so that present_mask is 0 exactly
\* when the file has none, which is what the pool and the reclaim go by
\* (tree_find_buffer, tree_insert_buffer, tree_remove_buffer, tree_free_buffers).
RadixIsTree ==
    LET bs == DOMAIN tree IN
    \A level \in RootLevels(bs) :
      \E root \in {Shape(bs, level, 0)} :
        /\ \A off \in 0 .. MaxLen + BufSize : TreeFindBuffer(root, off) = TreeFind(off)
        /\ \A b \in FreeOffsets(bs) :
             TreeInsertBuffer(root, b) = Shape(bs \cup {b}, LevelFor(level, b), 0)
        /\ \A b \in bs : TreeRemoveBuffer(root, b) = Shape(bs \ {b}, level, 0)
        /\ TreeFreeBuffers(root, Clean) = Shape(bs \ Clean, level, 0)
=============================================================================
