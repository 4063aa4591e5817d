------------------------------- MODULE KeyMap -------------------------------
(* What FlatHash promises: a map that holds at most Capacity keys, tells   *)
(* how many it holds, and refuses a new key only when it is full.          *)
EXTENDS Integers, FiniteSets

CONSTANTS Capacity, Keys, Values

VARIABLES
  map,   \* the values by key
  size,  \* what size() returns
  ok     \* whether the last call succeeded

vars == <<map, size, ok>>

Held == DOMAIN map

Init == map = [k \in {} |-> 0] /\ size = 0 /\ ok = TRUE

Insert(key, v) ==
  /\ ok' = (key \in Held \/ Cardinality(Held) < Capacity)
  /\ map' = IF ok' THEN [k \in Held \cup {key} |-> IF k = key THEN v ELSE map[k]] ELSE map
  /\ size' = Cardinality(DOMAIN map')

Erase(key) ==
  /\ ok' = (key \in Held)
  /\ map' = [k \in Held \ {key} |-> map[k]]
  /\ size' = Cardinality(DOMAIN map')

Clear == map' = [k \in {} |-> 0] /\ size' = 0 /\ ok' = TRUE

Next == Clear \/ \E key \in Keys : Erase(key) \/ \E v \in Values : Insert(key, v)

Spec == Init /\ [][Next]_vars
=============================================================================
