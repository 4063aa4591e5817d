---------------------------- MODULE MC_Containers ----------------------------
(* The containers for TLC, in one state space: what the program uses is    *)
(* chosen once, at the start, and the others stay empty.  A tall tree is a *)
(* balanced one of twelve nodes, the fewest in which one erase may take    *)
(* rotations at two nodes; only its first few erases are looked at.  The   *)
(* hash is the module's own, the other containers are instances.           *)
EXTENDS FlatHash, SequencesExt

CONSTANTS
  TreeCapacity, TreeKeys,
  ListCapacity,
  TallErases   \* erases from the tall tree

VARIABLES
  container,                          \* the one in use
  head, tail, node, pool, call,       \* the list
  tree, treeOk,                       \* the tree, plain or balanced
  tall, tallOk                        \* the tall tree

listVars == <<head, tail, node, pool, call>>
treeVars == <<tree, treeOk>>
tallVars == <<tall, tallOk>>
allVars == <<container, listVars, vars, treeVars, tallVars>>

(* The keys of the tall tree in the order in which they come in: level by  *)
(* level, each left subtree one higher than the right one beside it.       *)
TallOrder == <<8, 5, 11, 3, 7, 10, 12, 2, 4, 6, 9, 1>>
TallKeys == 1 .. 12

L == INSTANCE FlatList WITH Capacity <- ListCapacity
B == INSTANCE FlatTreeAVL WITH Capacity <- TreeCapacity, Keys <- TreeKeys, ok <- treeOk
T == INSTANCE FlatTreeAVL WITH Capacity <- 12, Keys <- TallKeys, tree <- tall, ok <- tallOk

ASSUME ContainersAssumption ==
  /\ L!CapacityIsPositive /\ CapacityIsPower
  /\ B!CapacityIsPositive /\ B!KeysAreOrdered

TallInit ==
  LET Grown(t, k) == LET u == T!Inserted(t, k)
                     IN  T!Rebalance(u, u.node[T!NextSlot(t.pool)].parent)
  IN  tall = FoldLeft(Grown, T!EmptyTree, TallOrder) /\ tallOk = TRUE

InitAny ==
  /\ container \in {"list", "hash", "plain", "balanced", "tall"}
  /\ L!Init /\ Init /\ B!Init /\ TallInit

NextList == container = "list" /\ L!Next /\ UNCHANGED <<vars, treeVars, tallVars>>
NextHash == container = "hash" /\ Next /\ UNCHANGED <<listVars, treeVars, tallVars>>
NextPlain == container = "plain" /\ B!Next /\ UNCHANGED <<listVars, vars, tallVars>>
NextAVL == container = "balanced" /\ B!NextBalanced /\ UNCHANGED <<listVars, vars, tallVars>>
NextTall ==
  /\ container = "tall"
  /\ \E k \in TallKeys :
       /\ Len(tall.pool) < TallErases \/ T!Find(tall, k) = T!None
       /\ T!EraseBalanced(k)
  /\ UNCHANGED <<listVars, vars, treeVars>>

NextAny ==
  /\ UNCHANGED container
  /\ NextList \/ NextHash \/ NextPlain \/ NextAVL \/ NextTall

SpecAny == InitAny /\ [][NextAny]_allVars

-----------------------------------------------------------------------------
(* The list is linked both ways and shares out the pool (FlatList). *)
ListLinked == container = "list" => L!WellLinked

(* Both ends and the inside together are a list (FlatList). *)
IsList == L!IsList

(* The links of every tree, small or tall, make a search tree (FlatTreeBS). *)
TreesOrdered ==
  /\ container \in {"plain", "balanced"} => B!IsSearchTree
  /\ container = "tall" => T!IsSearchTree

(* Plain or balanced, a tree is a set of keys (FlatTreeBS). *)
IsSet == B!IsSet

(* After every insert and erase a balanced tree is balanced, and every     *)
(* node knows the true height of its subtree, also when the loss of one    *)
(* node is felt further up than the first rotation (FlatTreeAVL).          *)
StaysBalanced ==
  /\ container = "balanced" => B!HeightsExact /\ B!Balanced
  /\ container = "tall" => T!HeightsExact /\ T!Balanced
=============================================================================
