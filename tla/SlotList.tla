------------------------------ MODULE SlotList ------------------------------
(* What FlatList promises: a list of at most Capacity values.  Every value *)
(* has a slot, which stays the same until the value is erased.             *)
EXTENDS Integers, Sequences

CONSTANTS Capacity, Values

VARIABLES
  list,  \* the elements in order, each with its slot
  call   \* the last call: the slot it was given, and the one it returned

vars == <<list, call>>

None == -1
Called(given, returned) == call' = [given |-> given, returned |-> returned]

SlotsOf(l) == {l[i].slot : i \in DOMAIN l}

InsertedAt(i, slot, v) ==
  SubSeq(list, 1, i - 1) \o <<[slot |-> slot, value |-> v]>> \o SubSeq(list, i, Len(list))

Without(i) == SubSeq(list, 1, i - 1) \o SubSeq(list, i + 1, Len(list))

Init == list = <<>> /\ call = [given |-> None, returned |-> None]

(* A new value goes in front of the element in the slot given, or to the   *)
(* end, and may get any slot that is free.                                 *)
InsertAt(i, v) ==
  \E slot \in (0 .. Capacity - 1) \ SlotsOf(list) :
    /\ Called(IF i > Len(list) THEN None ELSE list[i].slot, slot)
    /\ list' = InsertedAt(i, slot, v)

Insert(v) == Len(list) < Capacity /\ \E i \in 1 .. Len(list) + 1 : InsertAt(i, v)

(* Only the element in the slot given leaves. *)
Erase == \E i \in DOMAIN list : Called(list[i].slot, None) /\ list' = Without(i)

Next == Erase \/ \E v \in Values : Insert(v)

Spec == Init /\ [][Next]_vars
=============================================================================
