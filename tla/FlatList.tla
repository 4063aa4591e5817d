------------------------------ MODULE FlatList ------------------------------
(* The linked list of flat_list.hpp over an object pool.  A node that was  *)
(* deallocated is overwritten as a whole before it is read again, so the   *)
(* model blanks it at once.                                                *)
EXTENDS ObjectPool

CONSTANTS Values, NoValue

VARIABLES
  head,  \* _head, None when the list is empty
  tail,  \* _tail
  node,  \* the nodes of _pool
  pool,  \* the free slots of _pool
  call   \* the last call: the slot it was given, and the one it returned

vars == <<head, tail, node, pool, call>>

Blank == [value |-> NoValue, prev |-> None, next |-> None]

Init ==
  /\ head = None /\ tail = None
  /\ node = [s \in Slots |-> Blank]
  /\ pool = NewPool
  /\ call = [given |-> None, returned |-> None]

(* The slot the next insertion gets, and the node put there. *)
Slot == NextSlot(pool)
NewNode(v, prev, next) == [value |-> v, prev |-> prev, next |-> next]

Grow(next) ==
  /\ pool' = Allocate(pool)
  /\ call' = [given |-> next, returned |-> Slot]

Shrink(slot) ==
  /\ pool' = Deallocate(pool, slot)
  /\ call' = [given |-> slot, returned |-> None]

(* nodes with node n put in slot s, and with a link of s changed; there is *)
(* nothing to change when s is None.                                       *)
WithNext(nodes, s, n) == IF s = None THEN nodes ELSE [nodes EXCEPT ![s].next = n]
WithPrev(nodes, s, p) == IF s = None THEN nodes ELSE [nodes EXCEPT ![s].prev = p]

-----------------------------------------------------------------------------
PushFront(v) ==
  /\ ~ PoolFull(pool)
  /\ node' = WithPrev([node EXCEPT ![Slot] = NewNode(v, None, head)], head, Slot)
  /\ head' = Slot
  /\ tail' = IF head = None THEN Slot ELSE tail
  /\ Grow(head)

PushBack(v) ==
  /\ ~ PoolFull(pool)
  /\ node' = WithNext([node EXCEPT ![Slot] = NewNode(v, tail, None)], tail, Slot)
  /\ head' = IF tail = None THEN Slot ELSE head
  /\ tail' = Slot
  /\ Grow(None)

(* Mutant: the new node goes behind next. *)
InsertBehind(next, v) ==
  /\ ~ PoolFull(pool)
  /\ node[next].next # None
  /\ LET after == node[next].next
     IN  node' = [node EXCEPT ![Slot] = NewNode(v, next, after),
                              ![after].prev = Slot, ![next].next = Slot]
  /\ Grow(next)
  /\ UNCHANGED <<head, tail>>

(* insert in front of a node that has one before it. *)
InsertInside(next, v) ==
  /\ ~ PoolFull(pool)
  /\ LET prev == node[next].prev
     IN  node' = [node EXCEPT ![Slot] = NewNode(v, prev, next),
                              ![next].prev = Slot, ![prev].next = Slot]
  /\ Grow(next)
  /\ UNCHANGED <<head, tail>>

(* None means the end of the list; in an empty list that is the head too. *)
Insert(next, v) ==
  \/ next = head /\ PushFront(v)
  \/ next # head /\ next = None /\ PushBack(v)
  \/ next # head /\ next # None /\ InsertInside(next, v)

PopFront ==
  /\ head # None
  /\ LET next == node[head].next
     IN  /\ node' = WithPrev([node EXCEPT ![head] = Blank], next, None)
         /\ head' = next
         /\ tail' = IF head = tail THEN None ELSE tail
  /\ Shrink(head)

PopBack ==
  /\ tail # None
  /\ LET prev == node[tail].prev
     IN  /\ node' = WithNext([node EXCEPT ![tail] = Blank], prev, None)
         /\ tail' = prev
         /\ head' = IF head = tail THEN None ELSE head
  /\ Shrink(tail)

(* Mutant: only the forward link is joined. *)
EraseInsideForward(pos) ==
  /\ node' = [node EXCEPT ![node[pos].prev].next = node[pos].next, ![pos] = Blank]
  /\ Shrink(pos)
  /\ UNCHANGED <<head, tail>>

EraseInside(pos) ==
  /\ LET prev == node[pos].prev
         next == node[pos].next
     IN  node' = [node EXCEPT ![prev].next = next, ![next].prev = prev, ![pos] = Blank]
  /\ Shrink(pos)
  /\ UNCHANGED <<head, tail>>

Erase(pos) ==
  \/ pos = head /\ PopFront
  \/ pos # head /\ pos = tail /\ PopBack
  \/ pos # head /\ pos # tail /\ EraseInside(pos)

-----------------------------------------------------------------------------
(* A client passes slots that are in the list. *)
Next ==
  \/ \E v \in Values :
       \/ PushFront(v)
       \/ PushBack(v)
       \/ \E next \in Allocated(pool) \cup {None} : Insert(next, v)
  \/ \E pos \in Allocated(pool) : Erase(pos)
  \/ PopFront
  \/ PopBack

Spec == Init /\ [][Next]_vars

-----------------------------------------------------------------------------
(* A walk, at most as long as there are slots, up to where it finds None.  *)
UntilNone(walk) ==
  LET length == CHOOSE n \in 0 .. Capacity :
                  /\ \A i \in 1 .. n : walk[i] # None
                  /\ n = Capacity \/ walk[n + 1] = None
  IN  [i \in 1 .. length |-> walk[i]]

(* The slots reached from the head along the forward links, in order, and  *)
(* likewise from the tail.                                                 *)
Forward ==
  LET walk[i \in 1 .. Capacity + 1] ==
        IF i = 1 THEN head ELSE IF walk[i - 1] = None THEN None ELSE node[walk[i - 1]].next
  IN  UntilNone(walk)

Backward ==
  LET walk[i \in 1 .. Capacity + 1] ==
        IF i = 1 THEN tail ELSE IF walk[i - 1] = None THEN None ELSE node[walk[i - 1]].prev
  IN  UntilNone(walk)

(* Ends and links are slots or None, and the pool's stack holds slots. *)
TypeOK ==
  /\ {head, tail, call.given, call.returned} \subseteq Slots \cup {None}
  /\ node \in [Slots -> [value : Values \cup {NoValue}, prev : Slots \cup {None}, next : Slots \cup {None}]]
  /\ Len(pool) <= Capacity /\ \A i \in DOMAIN pool : pool[i] \in Slots

(* The list read from the tail is the one read from the head, backwards,   *)
(* as _ext_equal asserts node by node; and every slot is either in the     *)
(* list, once, or free, once: none is handed out twice and none leaks.     *)
WellLinked ==
  /\ TypeOK
  /\ Backward = [i \in 1 .. Len(Forward) |-> Forward[Len(Forward) + 1 - i]]
  /\ Len(Forward) + Len(pool) = Capacity
  /\ {Forward[i] : i \in DOMAIN Forward} = Allocated(pool)
  /\ \A i, j \in DOMAIN pool : pool[i] = pool[j] => i = j

(* A sequence of slots, with None beyond its ends, that the links join     *)
(* both ways, and that shares out the slots with the pool.                 *)
At(s, i) == IF i \in 1 .. Len(s) THEN s[i] ELSE None

IsChain(s) ==
  /\ s \in Seq(Slots)
  /\ \A i, j \in 1 .. Len(s) : s[i] = s[j] => i = j
  /\ head = At(s, 1) /\ tail = At(s, Len(s))
  /\ \A i \in 1 .. Len(s) : node[s[i]].prev = At(s, i - 1) /\ node[s[i]].next = At(s, i + 1)
  /\ Len(s) + Len(pool) = Capacity
  /\ {s[i] : i \in 1 .. Len(s)} = Allocated(pool)

(* The inductive invariant: what is read from the head is such a sequence. *)
IInv ==
  /\ TypeOK
  /\ pool \in Seq(Slots) /\ \A i, j \in DOMAIN pool : pool[i] = pool[j] => i = j
  /\ IsChain(Forward)

(* The elements in order, each with its slot: whatever happens at the ends *)
(* and in the middle, they are a list with stable slots.                   *)
Elements ==
  [i \in 1 .. Len(Forward) |-> [slot |-> Forward[i], value |-> node[Forward[i]].value]]

List == INSTANCE SlotList WITH list <- Elements

IsList == List!Spec
=============================================================================
