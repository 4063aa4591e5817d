----------------------------- MODULE FlatTreeAVL -----------------------------
(* The balanced tree of flat_tree_avl.hpp, on top of FlatTreeBS: every     *)
(* node keeps the height of its subtree, and after a change the nodes from *)
(* there up to the root are rebalanced.                                    *)
EXTENDS FlatTreeBS, SequencesExt

Height(t, n) == IF n = None THEN 0 ELSE t.node[n].height

Higher(a, b) == IF a > b THEN a ELSE b

UpdateHeight(t, n) ==
  [t EXCEPT !.node[n].height =
     Higher(Height(t, t.node[n].left), Height(t, t.node[n].right)) + 1]

BalanceFactor(t, n) == Height(t, t.node[n].left) - Height(t, t.node[n].right)

(* The right child takes the place of n, which becomes its left child; the *)
(* subtree between the two goes over to n.                                 *)
RotateLeft(t, n) ==
  LET right == t.node[n].right
      inner == t.node[right].left
      moved == [Replace(t, n, right) EXCEPT
                  !.node[right].parent = t.node[n].parent, !.node[right].left = n,
                  !.node[n].parent = right, !.node[n].right = inner]
  IN  UpdateHeight(UpdateHeight(SetParent(moved, inner, n), n), right)

RotateRight(t, n) ==
  LET left  == t.node[n].left
      inner == t.node[left].right
      moved == [Replace(t, n, left) EXCEPT
                  !.node[left].parent = t.node[n].parent, !.node[left].right = n,
                  !.node[n].parent = left, !.node[n].left = inner]
  IN  UpdateHeight(UpdateHeight(SetParent(moved, inner, n), n), left)

-----------------------------------------------------------------------------
(* One round of the loop of _rebalance.  A heavy child that leans to the   *)
(* other side is rotated first.                                            *)
RebalanceNode(t, n) ==
  LET u     == UpdateHeight(t, n)
      left  == u.node[n].left
      right == u.node[n].right
  IN  IF BalanceFactor(u, n) > 1
      THEN RotateRight(IF BalanceFactor(u, left) < 0 THEN RotateLeft(u, left) ELSE u, n)
      ELSE IF BalanceFactor(u, n) < -1
      THEN RotateLeft(IF BalanceFactor(u, right) > 0 THEN RotateRight(u, right) ELSE u, n)
      ELSE u

(* The nodes from n up to the root. *)
Upwards(t, n) ==
  LET path[m \in Slots \cup {None}] ==
        IF m = None THEN <<>> ELSE <<m>> \o path[t.node[m].parent]
  IN  path[n]

(* Mutant: the loop ends after the first rotation. *)
RebalanceUntilRotated(t, n) ==
  LET Round(s, m) ==
        LET u == RebalanceNode(s.tree, m)
        IN  IF s.rotated THEN s
            ELSE [tree |-> u, rotated |-> u.node[m].parent # s.tree.node[m].parent]
  IN  FoldLeft(Round, [tree |-> t, rotated |-> FALSE], Upwards(t, n)).tree

(* _rebalance: the loop takes the parent before it rotates, and a rotation *)
(* changes nothing above itself but one link, so it goes up the old path.  *)
Rebalance(t, n) == FoldLeft(RebalanceNode, t, Upwards(t, n))

-----------------------------------------------------------------------------
InsertBalanced(key) ==
  IF CanInsert(tree, key)
  THEN LET t == Inserted(tree, key)
       IN  ok' = TRUE /\ tree' = Rebalance(t, t.node[NextSlot(tree.pool)].parent)
  ELSE ok' = FALSE /\ UNCHANGED tree

EraseBalanced(key) ==
  LET slot == Find(tree, key)
  IN  IF slot = None
      THEN ok' = FALSE /\ UNCHANGED tree
      ELSE ok' = TRUE /\ tree' = Rebalance(Erased(tree, slot), LowestChanged(tree, slot))

NextBalanced == \E key \in Keys : InsertBalanced(key) \/ EraseBalanced(key)

SpecBalanced == Init /\ [][NextBalanced]_vars

-----------------------------------------------------------------------------
(* The height of a subtree, counted. *)
TrueHeight ==
  LET h[n \in Slots \cup {None}] ==
        IF n = None THEN 0 ELSE Higher(h[tree.node[n].left], h[tree.node[n].right]) + 1
  IN  h

(* Every node knows the true height of its subtree, however it came to be  *)
(* where it is: also a successor that took an erased node's place.         *)
HeightsExact == \A n \in Nodes : tree.node[n].height = TrueHeight[n]

(* The subtrees of a node differ in height by one at most, although an     *)
(* erase may take from either side of nodes far above.                     *)
Balanced ==
  \A n \in Nodes : TrueHeight[tree.node[n].left] - TrueHeight[tree.node[n].right] \in -1 .. 1
=============================================================================
