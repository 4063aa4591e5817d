----------------------------- MODULE ObjectPool -----------------------------
(* The pool of object_pool.hpp as a value: the stack of the slots that are *)
(* free, next one first.  (The code keeps the stack in an array and counts *)
(* the slots handed out; the array's other entries are never read.)        *)
EXTENDS Integers, Sequences

CONSTANT Capacity

CapacityIsPositive == Capacity \in Nat \ {0}

Slots == 0 .. Capacity - 1
None == -1

NewPool == [i \in 1 .. Capacity |-> i - 1]

PoolFull(pool) == pool = <<>>
PoolSize(pool) == Capacity - Len(pool)

(* allocate hands out the slot on top of the stack. *)
NextSlot(pool) == Head(pool)
Allocate(pool) == Tail(pool)

(* deallocate puts it back on top; it must have been handed out. *)
Deallocate(pool, slot) == <<slot>> \o pool

(* What _debug_allocated records. *)
Allocated(pool) == Slots \ {pool[i] : i \in DOMAIN pool}
=============================================================================
