------------------------------ MODULE HashTable ------------------------------
(***************************************************************************)
(* The table that maps file names to blob ids in NBFS2 (NBFS2/hash_table.h): *)
(* one item per slot, and a chain of overflow nodes for the names whose hash *)
(* is the same.                                                            *)
(***************************************************************************)
EXTENDS Integers, Sequences, FiniteSets

CONSTANTS
    Keys, Values,   \* file names and blob ids
    Size,           \* table->size; hash_function is k % Size
    NULL,           \* no item
    Garbage,        \* what an uninitialised next may hold: "null", "wild"
    MaxItems        \* bound: no name is inserted while so many are in the table

VARIABLES
    items,      \* table->items
    chain,      \* table->overflow_buckets: the items of each list, in order
    tail,       \* the next of the last node of each list: "null" or "wild"
    count,      \* table->count
    content,    \* ghost: what was inserted and not deleted since
    ub          \* ghost: freed or uninitialised memory was used

vars == <<items, chain, tail, count, content, ub>>

Index    == 0 .. Size - 1
Hash(k)  == k % Size
Item(k, v) == [key |-> k, value |-> v]

\* A node that was freed and is still linked.
FREED == [key |-> NULL, value |-> NULL]

\* The item in slot i has the name k.
InSlot(i, k) == items[i] # NULL /\ items[i].key = k

\* create_table.
Init ==
    /\ items = [i \in Index |-> NULL]
    /\ chain = [i \in Index |-> <<>>]
    /\ tail = [i \in Index |-> "null"]
    /\ count = 0
    /\ content = [k \in Keys |-> NULL]
    /\ ub = FALSE

\* linkedlist_insert: a list of two or more nodes loses its last one.
LinkedListInsert(list, item) ==
    IF Len(list) = 1 THEN Append(list, item)
    ELSE [list EXCEPT ![Len(list)] = item]

\* handle_collision: the first node of a list is left without a next.
HandleCollision(i, item) ==
    /\ ub' = (ub \/ tail[i] = "wild" \/ \E n \in DOMAIN chain[i] : chain[i][n] = FREED)
    /\ IF chain[i] = <<>>
       THEN /\ chain' = [chain EXCEPT ![i] = <<item>>]
            /\ \E g \in Garbage : tail' = [tail EXCEPT ![i] = g]
       ELSE /\ chain' = [chain EXCEPT ![i] = LinkedListInsert(@, item)]
            /\ tail' = [tail EXCEPT ![i] = "null"]

\* ht_insert.  A full table takes no item into an empty slot.
Insert(k, v) ==
    LET i == Hash(k) IN
    /\ ~ub
    /\ Cardinality({c \in Keys : content[c] # NULL}) < MaxItems
    /\ content' = IF items[i] = NULL /\ count = Size THEN content ELSE [content EXCEPT ![k] = v]
    /\ \/ /\ items[i] = NULL
          /\ items' = IF count = Size THEN items ELSE [items EXCEPT ![i] = Item(k, v)]
          /\ count' = IF count = Size THEN count ELSE count + 1
          /\ UNCHANGED <<chain, tail, ub>>
       \/ /\ InSlot(i, k)
          /\ items' = [items EXCEPT ![i].value = v]
          /\ UNCHANGED <<chain, tail, count, ub>>
       \/ /\ items[i] # NULL /\ ~InSlot(i, k)
          /\ HandleCollision(i, Item(k, v))
          /\ UNCHANGED <<items, count>>

\* The first node of list i that holds key k, or 0.
Find(i, k) ==
    LET hits == {n \in DOMAIN chain[i] : chain[i][n].key = k}
    IN  IF hits = {} THEN 0 ELSE CHOOSE n \in hits : \A m \in hits : n <= m

\* ht_search.  It reads past a wild next, and a freed node as if it held no
\* name: the kindest of the outcomes.
Search(k) ==
    LET i == Hash(k) IN
    CASE items[i] = NULL -> NULL
      [] InSlot(i, k) -> items[i].value
      [] OTHER -> IF Find(i, k) = 0 THEN NULL ELSE chain[i][Find(i, k)].value

\* ht_delete of the item in the slot: the first node of the list moves there.
DeleteSlot(i) ==
    IF chain[i] = <<>> /\ tail[i] = "null"
    THEN /\ items' = [items EXCEPT ![i] = NULL]
         /\ count' = count - 1
         /\ UNCHANGED <<chain, tail, ub>>
    ELSE /\ items' = [items EXCEPT ![i] = IF chain[i] = <<>> THEN NULL ELSE Head(chain[i])]
         /\ chain' = [chain EXCEPT ![i] = IF @ = <<>> THEN @ ELSE Tail(@)]
         /\ ub' = (chain[i] = <<>> \/ Head(chain[i]) = FREED)
         /\ UNCHANGED <<tail, count>>

\* ht_delete of a node.  The first one takes the whole list with it; another
\* one is cut from what follows it, freed, and stays linked, for prev is moved
\* after curr.
DeleteNode(i, n) ==
    IF n = 1
    THEN /\ chain' = [chain EXCEPT ![i] = <<>>]
         /\ tail' = [tail EXCEPT ![i] = "null"]
         /\ ub' = (tail[i] = "wild" \/ FREED \in {chain[i][m] : m \in DOMAIN chain[i]})
         /\ UNCHANGED <<items, count>>
    ELSE /\ chain' = [chain EXCEPT ![i] = Append(SubSeq(@, 1, n - 1), FREED)]
         /\ UNCHANGED <<items, tail, count, ub>>

Delete(k) ==
    LET i == Hash(k) IN
    /\ ~ub
    /\ content' = [content EXCEPT ![k] = NULL]
    /\ \/ InSlot(i, k) /\ DeleteSlot(i)
       \/ /\ items[i] # NULL /\ ~InSlot(i, k) /\ Find(i, k) # 0
          /\ DeleteNode(i, Find(i, k))
       \/ /\ ~InSlot(i, k) /\ (items[i] # NULL => Find(i, k) = 0)
          /\ ub' = (items[i] # NULL /\ tail[i] = "wild")
          /\ UNCHANGED <<items, chain, tail, count>>

Next == \E k \in Keys : Delete(k) \/ \E v \in Values : Insert(k, v)

Spec == Init /\ [][Next]_vars

-----------------------------------------------------------------------------
\* The table is a map: the search of a name returns the blob id it was last
\* inserted with, and NULL when it was not inserted or was deleted
\* (ht_insert, ht_search, ht_delete).
IsMap == \A k \in Keys : Search(k) = content[k]
=============================================================================
