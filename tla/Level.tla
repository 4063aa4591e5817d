------------------------------- MODULE Level -------------------------------
(* What a price level promises the order book: a queue of orders in time   *)
(* order, of one side at a time, that keeps its aggregate quantity, gives  *)
(* every order a slot and finds an order again by slot or by identifier.   *)
EXTENDS LevelOps

CONSTANTS
  Ids,    \* order identifiers; 0 is InvalidOrderId
  Qtys    \* order quantities

VARIABLES
  total,  \* the aggregate quantity
  fifo,   \* the orders, oldest first
  call    \* the last call: the identifier it was given and what it returned

vars == <<total, fifo, call>>

level == [total |-> total, fifo |-> fifo]
Becomes(new) == total' = new.total /\ fifo' = new.fifo

NoCall == [id |-> 0, answer |-> Done]
Called(id, answer) == call' = [id |-> id, answer |-> answer]

Init == level = NewLevel /\ call = NoCall

(* The order book pushes an order of one side only when the level is not   *)
(* full and holds none of the other, and asks for an update or a cancel    *)
(* only when the level holds orders of that side.                          *)
Push(side, id, qty, slot) ==
  /\ Called(id, slot)
  /\ side * total >= 0
  /\ ~ Full(level) /\ slot = PushSlot(level, id)
  /\ Becomes(PushAt(side, level, id, qty, slot))

Update(side, id, newQty) ==
  /\ Called(id, Done)
  /\ side * total > 0
  /\ \E slot \in SlotsOf(level, id) : Becomes(UpdateAt(side, level, newQty, slot))

Cancel(side, id) ==
  /\ Called(id, Done)
  /\ side * total > 0
  /\ \E slot \in SlotsOf(level, id) : Becomes(CancelAt(side, level, slot))

(* An update or a cancel fails without a slot only for an identifier that  *)
(* no order has, and with one only if another order, or none, is there.    *)
Refuse(side, id) ==
  /\ side * total > 0
  /\ \/ Called(id, UnknownId) /\ SlotsOf(level, id) = {}
     \/ Called(id, OtherInSlot) /\ SlotsOf(level, id) # Slots
  /\ UNCHANGED <<total, fifo>>

(* A taker of the given side with qty left trades with the oldest order. *)
Fill(side, qty) ==
  /\ call' = NoCall
  /\ side * total < 0
  /\ LET front == Front(level)
     IN  Becomes(FillFront(side, level, IF qty < front.qty THEN qty ELSE front.qty))

Expire(side) ==
  /\ call' = NoCall
  /\ side * total > 0
  /\ Becomes(PopFront(side, level))

Next ==
  \E side \in Sides :
    \/ \E id \in Ids, qty \in Qtys :
         \/ \E slot \in Slots : Push(side, id, qty, slot)
         \/ Update(side, id, qty)
    \/ \E id \in Ids : Cancel(side, id) \/ Refuse(side, id)
    \/ \E qty \in Qtys : Fill(side, qty)
    \/ Expire(side)

Spec == Init /\ [][Next]_vars
=============================================================================
