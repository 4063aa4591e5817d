------------------------------ MODULE FlatQueue ------------------------------
(* The links of FlatQueue (flat_queue.hpp): a circular doubly linked list  *)
(* over the slots of a flat array, closed by a sentinel node.  The caller  *)
(* chooses the slot of a new element.  What the slots hold is kept beside  *)
(* the links by the module that uses them.                                 *)
EXTENDS Integers

CONSTANT Capacity

Sentinel == Capacity
Free == -1
Nodes == 0 .. Capacity
QueueSlots == 0 .. Capacity - 1

NewQueue ==
  [next |-> [n \in Nodes |-> IF n = Sentinel THEN Sentinel ELSE Free],
   prev |-> [n \in Nodes |-> IF n = Sentinel THEN Sentinel ELSE Free],
   size |-> 0]

IsFree(q, slot) == q.prev[slot] = Free /\ q.next[slot] = Free

FrontSlot(q) == q.next[Sentinel]

(* Mutant: the slot becomes the first node after the sentinel. *)
LinkFirst(q, slot) ==
  LET first == q.next[Sentinel]
  IN  [next |-> [q.next EXCEPT ![Sentinel] = slot, ![slot] = first],
       prev |-> [q.prev EXCEPT ![first] = slot, ![slot] = Sentinel],
       size |-> q.size + 1]

(* push: the slot becomes the last node before the sentinel. *)
LinkLast(q, slot) ==
  LET last == q.prev[Sentinel]
  IN  [next |-> [q.next EXCEPT ![slot] = Sentinel, ![last] = slot],
       prev |-> [q.prev EXCEPT ![slot] = last, ![Sentinel] = slot],
       size |-> q.size + 1]

(* Mutant: only the forward link is joined. *)
UnlinkForward(q, slot) ==
  [next |-> [q.next EXCEPT ![q.prev[slot]] = q.next[slot], ![slot] = Free],
   prev |-> [q.prev EXCEPT ![slot] = Free],
   size |-> q.size - 1]

(* erase: the neighbours are joined and the slot is free again. *)
Unlink(q, slot) ==
  LET before == q.prev[slot]
      after  == q.next[slot]
  IN  [next |-> [q.next EXCEPT ![before] = after, ![slot] = Free],
       prev |-> [q.prev EXCEPT ![after] = before, ![slot] = Free],
       size |-> q.size - 1]

(* pop: the first node leaves, its successor takes its place. *)
UnlinkFirst(q) ==
  LET head  == q.next[Sentinel]
      after == q.next[head]
  IN  [next |-> [q.next EXCEPT ![Sentinel] = after, ![head] = Free],
       prev |-> [q.prev EXCEPT ![after] = Sentinel, ![head] = Free],
       size |-> q.size - 1]
=============================================================================
