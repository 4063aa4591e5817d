----------------------------- MODULE RingBuffer -----------------------------
(* The single-threaded ring buffer of ring_buffer.hpp as a value, and the  *)
(* calls on it: two positions over Capacity + 1 cells, one of which stays  *)
(* free so that full and empty can be told apart.                          *)
EXTENDS Naturals, Sequences

CONSTANTS Capacity, NoValue

ASSUME CapacityAssumption == Capacity \in Nat \ {0}

Positions == 0 .. Capacity

Index(i) == IF i = Capacity + 1 THEN 0 ELSE i

NewRing == [head |-> 0, tail |-> 0, cells |-> [p \in Positions |-> NoValue]]

IsEmpty(ring) == ring.head = ring.tail
IsFull(ring) == Index(ring.tail + 1) = ring.head

SizeOf(ring) ==
  IF ring.tail >= ring.head
  THEN ring.tail - ring.head
  ELSE (Capacity + 1) - (ring.head - ring.tail)

(* A push into a full ring changes nothing, and so does a pop from an      *)
(* empty one.                                                              *)
PushTo(ring, v) ==
  IF IsFull(ring) THEN ring
  ELSE [ring EXCEPT !.cells[ring.tail] = v, !.tail = Index(ring.tail + 1)]

Front(ring) == ring.cells[ring.head]

PopFrom(ring) ==
  IF IsEmpty(ring) THEN ring ELSE [ring EXCEPT !.head = Index(ring.head + 1)]

(* The cell that is i steps from the position p. *)
Cell(p, i) == IF p + i > Capacity THEN p + i - (Capacity + 1) ELSE p + i

(* The elements from the head to the tail, as _ext_equal walks them. *)
Contents(ring) == [i \in 1 .. SizeOf(ring) |-> ring.cells[Cell(ring.head, i - 1)]]
=============================================================================
