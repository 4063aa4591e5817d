------------------------------- MODULE KeySet -------------------------------
(* What the flat trees promise: a set of at most Capacity keys.            *)
EXTENDS Naturals, FiniteSets

CONSTANTS Capacity, Keys

VARIABLES
  set,  \* the keys held
  ok    \* whether the last call changed it

vars == <<set, ok>>

Init == set = {} /\ ok = FALSE

Insert(key) ==
  /\ ok' = (key \notin set /\ Cardinality(set) < Capacity)
  /\ set' = IF ok' THEN set \cup {key} ELSE set

Erase(key) == ok' = (key \in set) /\ set' = set \ {key}

Next == \E key \in Keys : Insert(key) \/ Erase(key)

Spec == Init /\ [][Next]_vars
=============================================================================
