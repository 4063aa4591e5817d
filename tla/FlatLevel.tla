------------------------------ MODULE FlatLevel ------------------------------
(* The price level as trade_engine.hpp implements it: Level over Orders    *)
(* over FlatQueue<Order, 8>.  Each slot has an order identifier, zero when *)
(* the slot is free, and a quantity, which is left behind when the order   *)
(* goes.                                                                   *)
EXTENDS LevelOps, FiniteSets

CONSTANTS Ids, Qtys

ASSUME FlatLevelAssumption == Ids \subseteq Nat \ {0} /\ Qtys \subseteq Nat \ {0}

VARIABLES
  links,  \* Orders::_buffer, the list
  id,     \* Order::id of each slot
  qty,    \* Order::qty of each slot
  total,  \* Level::_total
  call    \* the last call: the identifier it was given and what it returned

vars == <<links, id, qty, total, call>>

Q == INSTANCE FlatQueue WITH Capacity <- MaxOrders

InvalidOrderId == 0
NoCall == [id |-> InvalidOrderId, answer |-> Done]
Called(orderId, answer) == call' = [id |-> orderId, answer |-> answer]

Refuse(orderId, reason) ==
  Called(orderId, reason) /\ UNCHANGED <<links, id, qty, total>>

Held == {slot \in Slots : id[slot] # InvalidOrderId}

Init ==
  /\ links = Q!NewQueue
  /\ id = [slot \in Slots |-> InvalidOrderId]
  /\ qty = [slot \in Slots |-> 0]
  /\ total = 0
  /\ call = NoCall

(* The callers in OrderBook look at these first. *)
IsFull == links.size = MaxOrders
HasOrders(side) == side * total > 0

-----------------------------------------------------------------------------
(* push probes from the identifier's own slot for a free one. *)
Push(side, newId, newQty) ==
  /\ ~ IsFull
  /\ side * total >= 0
  /\ LET slot == FirstProbed(newId, Slots \ Held)
     IN  /\ links' = Q!LinkLast(links, slot)
         /\ id' = [id EXCEPT ![slot] = newId]
         /\ qty' = [qty EXCEPT ![slot] = newQty]
         /\ total' = total + side * newQty
         /\ Called(newId, slot)

(* Mutant: the old quantity stays in the total. *)
ChangeKeepingTotal(side, orderId, newQty, slot) ==
  /\ qty' = [qty EXCEPT ![slot] = newQty]
  /\ total' = total + side * newQty
  /\ Called(orderId, Done)
  /\ UNCHANGED <<links, id>>

(* update: the order keeps its place in the queue, whatever the quantity. *)
Change(side, orderId, newQty, slot) ==
  /\ qty' = [qty EXCEPT ![slot] = newQty]
  /\ total' = total - side * qty[slot] + side * newQty
  /\ Called(orderId, Done)
  /\ UNCHANGED <<links, id>>

UpdateSlot(side, orderId, newQty, slot) ==
  /\ HasOrders(side)
  /\ IF id[slot] = orderId
     THEN Change(side, orderId, newQty, slot)
     ELSE Refuse(orderId, OtherInSlot)

(* Without a slot, every slot is probed for the identifier. *)
Update(side, orderId, newQty) ==
  /\ HasOrders(side)
  /\ LET match == {slot \in Slots : id[slot] = orderId}
     IN  IF match # {}
         THEN Change(side, orderId, newQty, FirstProbed(orderId, match))
         ELSE Refuse(orderId, UnknownId)

Remove(side, orderId, slot) ==
  /\ id' = [id EXCEPT ![slot] = InvalidOrderId]
  /\ links' = Q!Unlink(links, slot)
  /\ total' = total - side * qty[slot]
  /\ Called(orderId, Done)
  /\ UNCHANGED qty

CancelSlot(side, orderId, slot) ==
  /\ HasOrders(side)
  /\ IF id[slot] = orderId
     THEN Remove(side, orderId, slot)
     ELSE Refuse(orderId, OtherInSlot)

Cancel(side, orderId) ==
  /\ HasOrders(side)
  /\ LET match == {slot \in Slots : id[slot] = orderId}
     IN  IF match # {}
         THEN Remove(side, orderId, FirstProbed(orderId, match))
         ELSE Refuse(orderId, UnknownId)

(* One round of _trade's inner loop by a taker of the given side. *)
Fill(side, takerQty) ==
  /\ side * total < 0
  /\ LET front == Q!FrontSlot(links)
         min   == IF takerQty < qty[front] THEN takerQty ELSE qty[front]
     IN  /\ qty' = [qty EXCEPT ![front] = @ - min]
         /\ total' = total + side * min
         /\ IF qty[front] = min
            THEN /\ id' = [id EXCEPT ![front] = InvalidOrderId]
                 /\ links' = Q!UnlinkFirst(links)
            ELSE UNCHANGED <<id, links>>
  /\ call' = NoCall

(* One round of _expire_level. *)
Expire(side) ==
  /\ HasOrders(side)
  /\ LET front == Q!FrontSlot(links)
     IN  /\ total' = total - side * qty[front]
         /\ id' = [id EXCEPT ![front] = InvalidOrderId]
         /\ links' = Q!UnlinkFirst(links)
  /\ call' = NoCall
  /\ UNCHANGED qty

Next ==
  \E side \in Sides :
    \/ \E i \in Ids, q \in Qtys :
         \/ Push(side, i, q)
         \/ Update(side, i, q)
         \/ \E slot \in Slots : UpdateSlot(side, i, q, slot)
    \/ \E i \in Ids :
         \/ Cancel(side, i)
         \/ \E slot \in Slots : CancelSlot(side, i, slot)
    \/ \E q \in Qtys : Fill(side, q)
    \/ Expire(side)

Spec == Init /\ [][Next]_vars

-----------------------------------------------------------------------------
TypeOK ==
  /\ links \in [next : [0 .. MaxOrders -> -1 .. MaxOrders],
                prev : [0 .. MaxOrders -> -1 .. MaxOrders],
                size : 0 .. MaxOrders]
  /\ id \in [Slots -> Ids \cup {InvalidOrderId}]
  /\ qty \in [Slots -> Nat]
  /\ total \in Int
  /\ call \in [id : Ids \cup {InvalidOrderId},
               answer : Slots \cup {Done, UnknownId, OtherInSlot}]

(* The slots in list order, from the sentinel on. *)
ListOf(q) ==
  LET nth[k \in 1 .. q.size] == q.next[IF k = 1 THEN MaxOrders ELSE nth[k - 1]]
  IN  nth

Listed == ListOf(links)

(* Following either link from a node and the other one back returns to it, *)
(* and the list closed by the sentinel goes through every held slot; the   *)
(* slots without an identifier, which insert tests, are those without      *)
(* links, which FlatQueue asserts.                                         *)
WellLinked ==
  /\ TypeOK
  /\ \A slot \in Slots : Q!IsFree(links, slot) <=> slot \notin Held
  /\ \A n \in Held \cup {MaxOrders} :
       /\ links.next[n] \in Held \cup {MaxOrders}
       /\ links.prev[n] \in Held \cup {MaxOrders}
       /\ links.prev[links.next[n]] = n
       /\ links.next[links.prev[n]] = n
  /\ {Listed[k] : k \in DOMAIN Listed} = Held

(* What is for sale or wanted at the price, unit by unit.                  *)
Units == UNION {{slot} \X (1 .. qty[slot]) : slot \in Held}

(* The full test reads size, the empty test and every aggregate check      *)
(* reads total; the orders are elsewhere.                                  *)
CountersMatch ==
  /\ links.size = Cardinality(Held)
  /\ \E side \in Sides : total = side * Cardinality(Units)

(* The slots of s, closed by the sentinel, are a ring: the links of every  *)
(* node lead to its neighbours, no slot comes twice, and a slot that is    *)
(* not in s has no links.                                                  *)
NodeAt(s, n, k) == IF k \in 1 .. n THEN s[k] ELSE MaxOrders

IsRing(q, s) ==
  /\ s \in [1 .. q.size -> Slots]
  /\ \A j, k \in 1 .. q.size : s[j] = s[k] => j = k
  /\ \A k \in 0 .. q.size :
       /\ q.next[NodeAt(s, q.size, k)] = NodeAt(s, q.size, k + 1)
       /\ q.prev[NodeAt(s, q.size, k + 1)] = NodeAt(s, q.size, k)
  /\ \A slot \in Slots : (\A k \in 1 .. q.size : s[k] # slot) => Q!IsFree(q, slot)

(* The inductive invariant. *)
IInv ==
  /\ TypeOK /\ CountersMatch
  /\ IsRing(links, Listed)
  /\ Held = {Listed[k] : k \in 1 .. links.size}

(* The orders the level holds, for the abstract level. *)
Queue == [k \in DOMAIN Listed |->
            LET slot == Listed[k]
            IN  [slot |-> slot, id |-> id[slot], qty |-> qty[slot]]]

Abstract == INSTANCE Level WITH fifo <- Queue

(* The flat, linked level is the queue with slots that Level describes:    *)
(* whatever is pushed, changed, filled or removed, the orders that stay    *)
(* keep their order and a new one is behind them all.                      *)
IsLevel == Abstract!Spec
=============================================================================
