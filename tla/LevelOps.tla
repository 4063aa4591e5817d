------------------------------ MODULE LevelOps ------------------------------
(* One price level of the order book as a value: its aggregate quantity    *)
(* (negative for sell orders, as in trade_engine.hpp) and its orders in    *)
(* time order, each with the slot it occupies.  FlatLevel shows that the   *)
(* linked list over a flat array that the code keeps behaves like this.    *)
EXTENDS Integers, Sequences

CONSTANT MaxOrders   \* Level::MaxOrders, slots per level

(* Steps of three visit every slot; eight, in the code, is such a number.  *)
ASSUME MaxOrdersAssumption == MaxOrders \in Nat \ {0} /\ MaxOrders % 3 # 0

Sell == -1
Buy == 1
Sides == {Sell, Buy}
Opposite(side) == IF side = Sell THEN Buy ELSE Sell

Slots == 0 .. MaxOrders - 1

(* What a call that returns no slot returns: success, or why it failed.     *)
Done == -1
UnknownId == -2
OtherInSlot == -3

NewLevel == [total |-> 0, fifo |-> <<>>]

Empty(level) == level.total = 0
Full(level) == Len(level.fifo) = MaxOrders
Front(level) == Head(level.fifo)

Indices(level) == DOMAIN level.fifo
FreeSlots(level) == Slots \ {level.fifo[i].slot : i \in Indices(level)}
SlotsOf(level, id) ==
  {level.fifo[i].slot : i \in {j \in Indices(level) : level.fifo[j].id = id}}
PlaceOf(level, slot) == CHOOSE i \in Indices(level) : level.fifo[i].slot = slot

(* The quantity of all the orders in a queue. *)
Quantity(fifo) ==
  LET upTo[k \in 0 .. Len(fifo)] == IF k = 0 THEN 0 ELSE upTo[k - 1] + fifo[k].qty
  IN  upTo[Len(fifo)]

(* The open-addressing probe: the k-th slot tried for id, and the first    *)
(* one tried that lies in S.                                               *)
ProbeSlot(id, k) == (id + 3 * k) % MaxOrders
FirstProbed(id, S) ==
  ProbeSlot(id, CHOOSE k \in Slots :
    /\ ProbeSlot(id, k) \in S
    /\ \A j \in Slots : j < k => ProbeSlot(id, j) \notin S)

(* Mutant: a new order goes before the others. *)
PushAtFront(side, level, id, qty, slot) ==
  [total |-> level.total + side * qty,
   fifo  |-> <<[slot |-> slot, id |-> id, qty |-> qty]>> \o level.fifo]

PushAt(side, level, id, qty, slot) ==
  [total |-> level.total + side * qty,
   fifo  |-> Append(level.fifo, [slot |-> slot, id |-> id, qty |-> qty])]

PushSlot(level, id) == FirstProbed(id, FreeSlots(level))

(* Mutant: a changed order goes behind the others. *)
UpdateAtBack(side, level, newQty, slot) ==
  LET order == level.fifo[PlaceOf(level, slot)]
  IN  [total |-> level.total - side * order.qty + side * newQty,
       fifo  |-> Append(SelectSeq(level.fifo, LAMBDA other : other.slot # slot),
                        [order EXCEPT !.qty = newQty])]

UpdateAt(side, level, newQty, slot) ==
  LET i == PlaceOf(level, slot)
  IN  [total |-> level.total - side * level.fifo[i].qty + side * newQty,
       fifo  |-> [level.fifo EXCEPT ![i].qty = newQty]]

CancelAt(side, level, slot) ==
  LET i == PlaceOf(level, slot)
  IN  [total |-> level.total - side * level.fifo[i].qty,
       fifo  |-> SubSeq(level.fifo, 1, i - 1) \o SubSeq(level.fifo, i + 1, Len(level.fifo))]

(* The oldest order trades qty with a taker of the given side, and leaves  *)
(* the level when nothing of it remains.                                   *)
FillFront(side, level, qty) ==
  LET front == Front(level)
  IN  [total |-> level.total + side * qty,
       fifo  |-> IF front.qty = qty
                 THEN Tail(level.fifo)
                 ELSE [level.fifo EXCEPT ![1].qty = front.qty - qty]]

(* The oldest order is dropped. *)
PopFront(side, level) ==
  [total |-> level.total - side * Front(level).qty,
   fifo  |-> Tail(level.fifo)]
=============================================================================
