----------------------------- MODULE FlatTreeBS -----------------------------
(* The binary search tree of flat_tree_bs.hpp: nodes in the slots of an    *)
(* object pool, linked by slot numbers.  A tree is a value; the calls on   *)
(* it are operators, which the balanced tree uses as well.                 *)
EXTENDS ObjectPool

CONSTANT Keys

KeysAreOrdered == Keys \subseteq Int

VARIABLES
  tree,  \* _rootId and the nodes and the free slots of _pool
  ok     \* whether the last call changed the tree

vars == <<tree, ok>>

(* A node as the pool creates it.  A slot that is free looks like Blank:   *)
(* what its last node left behind is overwritten before it is read.        *)
NewNode(key, parent) ==
  [key |-> key, left |-> None, right |-> None, parent |-> parent, height |-> 1]

Blank == NewNode(None, None)

EmptyTree == [root |-> None, node |-> [s \in Slots |-> Blank], pool |-> NewPool]

-----------------------------------------------------------------------------
(* Where the way down from the root that key takes comes to an end: at the *)
(* node with that key or at the one it would become a child of.            *)
EndOfPath(t, key) ==
  LET down[n \in Slots] ==
        LET next == IF key < t.node[n].key THEN t.node[n].left
                    ELSE IF t.node[n].key < key THEN t.node[n].right
                    ELSE None
        IN  IF next = None THEN n ELSE down[next]
  IN  down[t.root]

Has(t, n, key) == n # None /\ t.node[n].key = key

(* _find: the slot of the key, or None. *)
Find(t, key) ==
  IF t.root # None /\ Has(t, EndOfPath(t, key), key) THEN EndOfPath(t, key) ELSE None

CanInsert(t, key) == Find(t, key) = None /\ ~ PoolFull(t.pool)

(* _insert: the key becomes a leaf. *)
Inserted(t, key) ==
  LET slot   == NextSlot(t.pool)
      parent == IF t.root = None THEN None ELSE EndOfPath(t, key)
      grown  == [t EXCEPT !.pool = Allocate(t.pool), !.node[slot] = NewNode(key, parent)]
  IN  IF parent = None THEN [grown EXCEPT !.root = slot]
      ELSE IF key < t.node[parent].key THEN [grown EXCEPT !.node[parent].left = slot]
      ELSE [grown EXCEPT !.node[parent].right = slot]

-----------------------------------------------------------------------------

(* The parent of n, or the root, points to m instead of n. *)
Replace(t, n, m) ==
  LET parent == t.node[n].parent
  IN  IF n = t.root THEN [t EXCEPT !.root = m]
      ELSE IF t.node[parent].left = n THEN [t EXCEPT !.node[parent].left = m]
      ELSE [t EXCEPT !.node[parent].right = m]

SetParent(t, n, parent) == IF n = None THEN t ELSE [t EXCEPT !.node[n].parent = parent]

Release(t, n) == [t EXCEPT !.node[n] = Blank, !.pool = Deallocate(t.pool, n)]

(* Cases 1 and 2 of _erase: n has one child at most, which takes its place. *)
EraseOuter(t, n) ==
  LET child == IF t.node[n].right = None THEN t.node[n].left ELSE t.node[n].right
  IN  Release(Replace(SetParent(t, child, t.node[n].parent), n, child), n)

(* Case 3: the right child has no left child; it takes n's place. *)
EraseByRight(t, n) ==
  LET left  == t.node[n].left
      right == t.node[n].right
      moved == [t EXCEPT !.node[right].left = left, !.node[left].parent = right,
                         !.node[right].parent = t.node[n].parent]
  IN  Release(Replace(moved, n, right), n)

(* The least node of the right subtree. *)
Successor(t, n) ==
  LET least[m \in Slots] == IF t.node[m].left = None THEN m ELSE least[t.node[m].left]
  IN  least[t.node[n].right]

(* Mutant: the least node's right child is not told its new parent. *)
EraseBySuccessorLosingParent(t, n) ==
  LET left  == t.node[n].left
      right == t.node[n].right
      least == Successor(t, n)
      above == t.node[least].parent
      moved == [t EXCEPT !.node[above].left = t.node[least].right,
                         !.node[least].left = left, !.node[left].parent = least,
                         !.node[least].right = right, !.node[right].parent = least,
                         !.node[least].parent = t.node[n].parent]
  IN  Release(Replace(moved, n, least), n)

(* Case 4: the least node of the right subtree takes n's place, and that   *)
(* node's right child the place it leaves.                                 *)
EraseBySuccessor(t, n) ==
  LET left  == t.node[n].left
      right == t.node[n].right
      least == Successor(t, n)
      above == t.node[least].parent
      cut   == SetParent([t EXCEPT !.node[above].left = t.node[least].right],
                         t.node[least].right, above)
      moved == [cut EXCEPT !.node[least].left = left, !.node[left].parent = least,
                           !.node[least].right = right, !.node[right].parent = least,
                           !.node[least].parent = t.node[n].parent]
  IN  Release(Replace(moved, n, least), n)

Outer(t, n) == t.node[n].left = None \/ t.node[n].right = None
ByRight(t, n) == t.node[t.node[n].right].left = None

Erased(t, n) ==
  IF Outer(t, n) THEN EraseOuter(t, n)
  ELSE IF ByRight(t, n) THEN EraseByRight(t, n)
  ELSE EraseBySuccessor(t, n)

(* What _erase returns: the lowest node whose height may have changed. *)
LowestChanged(t, n) ==
  IF Outer(t, n) THEN t.node[n].parent
  ELSE IF ByRight(t, n) THEN t.node[n].right
  ELSE t.node[Successor(t, n)].parent

-----------------------------------------------------------------------------
Init == tree = EmptyTree /\ ok = FALSE

(* Mutant: equal keys go to the right. *)
InsertAgain(key) ==
  IF PoolFull(tree.pool)
  THEN ok' = FALSE /\ UNCHANGED tree
  ELSE ok' = TRUE /\ tree' = Inserted(tree, key)

Insert(key) ==
  IF CanInsert(tree, key)
  THEN ok' = TRUE /\ tree' = Inserted(tree, key)
  ELSE ok' = FALSE /\ UNCHANGED tree

(* A client erases the slot of a key it has found. *)
Erase(key) ==
  LET slot == Find(tree, key)
  IN  IF slot = None
      THEN ok' = FALSE /\ UNCHANGED tree
      ELSE ok' = TRUE /\ tree' = Erased(tree, slot)

Next == \E key \in Keys : Insert(key) \/ Erase(key)

Spec == Init /\ [][Next]_vars

-----------------------------------------------------------------------------
Nodes == Allocated(tree.pool)
Children(n) == {tree.node[n].left, tree.node[n].right} \ {None}

(* The nodes of the subtree of n: everything that is below it. *)
Subtree(n) ==
  LET below[k \in 0 .. Capacity] ==
        IF k = 0 THEN {n} \ {None}
        ELSE below[k - 1] \cup UNION {Children(m) : m \in below[k - 1]}
  IN  below[Capacity]

(* Links are slots or None, a node has a key, a free slot is blank. *)
TypeOK ==
  /\ tree.root \in Slots \cup {None}
  /\ tree.node \in [Slots -> [key : Keys \cup {None}, left : Slots \cup {None},
                              right : Slots \cup {None}, parent : Slots \cup {None},
                              height : 1 .. Capacity]]
  /\ \A s \in Slots : IF s \in Nodes THEN tree.node[s].key \in Keys ELSE tree.node[s] = Blank
  /\ \A i \in DOMAIN tree.pool : tree.pool[i] \in Slots
  /\ ok \in BOOLEAN

(* Every node hangs from the root, once: it is the left or the right child *)
(* of its parent and of nobody else; and what does not is free.            *)
WellLinked ==
  /\ Subtree(tree.root) = Nodes
  /\ tree.root # None => tree.node[tree.root].parent = None
  /\ \A n \in Nodes :
       /\ \A c \in Children(n) : tree.node[c].parent = n
       /\ tree.node[n].left = tree.node[n].right => tree.node[n].left = None
       /\ n # tree.root => n \in Children(tree.node[n].parent)

(* What is left of a node is less, what is right of it greater: the whole  *)
(* subtrees, where _ext_equal only looks at the children.                  *)
Ordered ==
  \A n \in Nodes :
    /\ \A m \in Subtree(tree.node[n].left) : tree.node[m].key < tree.node[n].key
    /\ \A m \in Subtree(tree.node[n].right) : tree.node[n].key < tree.node[m].key

(* After every call it is a search tree. *)
IsSearchTree == TypeOK /\ WellLinked /\ Ordered

(* Whatever the order of the calls, it is a set of keys. *)
Set == INSTANCE KeySet WITH set <- {tree.node[n].key : n \in Nodes}

IsSet == Set!Spec
=============================================================================
