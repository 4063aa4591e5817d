----------------------------- MODULE TradeEngine -----------------------------
(* The matching engine of trade_engine.hpp, built with its request checks  *)
(* (NDEBUG undefined).  One thread calls it, one request at a time; every  *)
(* event it produces is pushed to QueueOut before it goes on, and the push *)
(* may have to wait for room.  A step ends with at most one event.         *)
EXTENDS OrderBook

CONSTANTS
  Ids,           \* the order identifiers the client uses
  MinQty, MaxQty,
  Requests,      \* the kinds of request the client sends
  ClientPrices   \* the prices it sends them at

Kinds == {"limit", "ioc", "fok", "update", "cancel"}

ASSUME TradeEngineAssumption ==
  /\ Ids \subseteq Nat \ {0}
  /\ MinQty \in Nat \ {0} /\ MaxQty \in Nat /\ MinQty <= MaxQty
  /\ Requests \subseteq Kinds
  /\ ClientPrices \subseteq MinPrice .. MaxPrice

VARIABLES
  pc,        \* "idle", or where the engine is in the request it handles
  req,       \* the order being entered
  left,      \* what is left of its quantity (qty in _trade)
  lastPrice  \* the price of the last trade (lastPrice in _trade)

callVars == <<pc, req, left, lastPrice>>
vars == <<bookVars, ev, callVars>>

InvalidOrderId == 0
NoRequest == [kind |-> "none"]

Init ==
  /\ BookInit
  /\ ev = None
  /\ pc = "idle" /\ req = NoRequest /\ left = 0 /\ lastPrice = 0

Ready == pc = "idle" /\ ev = None
Reached(point) == pc = point /\ ev = None

-----------------------------------------------------------------------------
(* Entering an order.                                                      *)

ValidId(id) == id # InvalidOrderId
ValidPrice(price) == MinPrice <= price /\ price <= MaxPrice
ValidQty(qty) == MinQty <= qty /\ qty <= MaxQty
ValidSlot(slot) == slot \in Slots \cup {NoSlot}

(* Mutant: an order does not trade at its own limit. *)
WithinStrictly(side, price, limit) == IF side = Sell THEN price > limit ELSE price < limit

Within(side, price, limit) == IF side = Sell THEN price >= limit ELSE price <= limit

(* Mutant: the check wants more than the order's quantity. *)
CanOverfill(side, priceLimit, qty) ==
  LET limit == BottomPrice(side, priceLimit)
      top   == TopPrice(Opposite(side))
      wanted[k \in 0 .. Size] ==
        IF k = 0 THEN qty
        ELSE LET before == wanted[k - 1]
                 price  == top + side * (k - 1)
             IN  IF before > 0 /\ Within(side, price, limit)
                 THEN before + side * LevelAt(price).total
                 ELSE before
  IN  wanted[Size] < 0

(* _check_fok: the quantity still wanted after k levels of the other side, *)
(* from the best price on.                                                 *)
CanFill(side, priceLimit, qty) ==
  LET limit == BottomPrice(side, priceLimit)
      top   == TopPrice(Opposite(side))
      wanted[k \in 0 .. Size] ==
        IF k = 0 THEN qty
        ELSE LET before == wanted[k - 1]
                 price  == top + side * (k - 1)
             IN  IF before > 0 /\ Within(side, price, limit)
                 THEN before + side * LevelAt(price).total
                 ELSE before
  IN  wanted[Size] <= 0

BeginTrade(kind, side, id, price, qty) ==
  /\ pc' = "match"
  /\ req' = [kind |-> kind, side |-> side, id |-> id, price |-> price]
  /\ left' = qty
  /\ lastPrice' = Center
  /\ UNCHANGED <<bookVars, ev>>

Refuse(event) == Reject(event) /\ UNCHANGED callVars

Insert(kind, side, id, price, qty) ==
  /\ Ready
  /\ kind \in Requests
  /\ IF ~ (ValidId(id) /\ ValidPrice(price) /\ ValidQty(qty))
     THEN Refuse(CreateRejected(id, qty, "Request"))
     ELSE IF kind = "fok" /\ ~ CanFill(side, price, qty)
     THEN Refuse(CreateRejected(id, qty, "FOK"))
     ELSE BeginTrade(kind, side, id, price, qty)

(* Market orders are orders at the most patient price there is. *)
InsertMarket(kind, side, id, qty) ==
  /\ kind \in {"ioc", "fok"}
  /\ Insert(kind, side, id, IF side = Sell THEN MinPrice ELSE MaxPrice, qty)

-----------------------------------------------------------------------------
(* _trade.  Each round of the outer loop takes the best price of the other *)
(* side, each round of the inner loop the oldest order there.              *)

Limit == BottomPrice(req.side, req.price)
BestPrice == TopPrice(Opposite(req.side))

Match ==
  /\ Reached("match")
  /\ pc' = IF Within(req.side, BestPrice, Limit) THEN "fill" ELSE "shift"
  /\ UNCHANGED <<bookVars, ev, req, left, lastPrice>>

Fill ==
  /\ Reached("fill")
  /\ LET price == BestPrice
         level == LevelAt(price)
         order == Front(level)
         min   == Smaller(left, order.qty)
         after == FillFront(req.side, level, min)
         taken == min = order.qty /\ Empty(after)
     IN  /\ left' = left - min
         /\ lastPrice' = price
         /\ levels' = [levels EXCEPT ![IndexOf(price)] = after]
         /\ bits' = IF taken THEN WithoutBit(Opposite(req.side), price) ELSE bits
         /\ ev' = Trade(price, min, req.id, order.id)
         /\ pc' = IF left' = 0 THEN "shift" ELSE IF taken THEN "match" ELSE "fill"
  /\ UNCHANGED <<window, req>>

(* Then shift: the orders in the prices that leave the window expire one   *)
(* by one, and the window moves.                                           *)
Expire ==
  /\ Reached("shift")
  /\ \/ MustShiftUp(lastPrice) /\ Occupied(Buy) # {} /\ ExpireOrder(Buy)
     \/ MustShiftDown(lastPrice) /\ Occupied(Sell) # {} /\ ExpireOrder(Sell)
  /\ UNCHANGED callVars

MoveWindow ==
  /\ Reached("shift")
  /\ \/ MustShiftUp(lastPrice) /\ Occupied(Buy) = {} /\ ShiftUp
     \/ MustShiftDown(lastPrice) /\ Occupied(Sell) = {} /\ ShiftDown
  /\ pc' = "rest"
  /\ UNCHANGED <<req, left, lastPrice>>

KeepWindow ==
  /\ Reached("shift")
  /\ ~ MustShiftUp(lastPrice) /\ ~ MustShiftDown(lastPrice)
  /\ pc' = "rest"
  /\ UNCHANGED <<bookVars, ev, req, left, lastPrice>>

(* What remains rests in the book or is refused. *)
Rest ==
  /\ Reached("rest")
  /\ IF left = 0 \/ req.kind = "fok" THEN UNCHANGED <<bookVars, ev>>
     ELSE IF req.kind = "ioc" THEN Reject(CreateRejected(req.id, left, "IOC"))
     ELSE InsertOrder(req.side, req.id, req.price, left)
  /\ pc' = "idle" /\ req' = NoRequest /\ left' = 0 /\ lastPrice' = 0

-----------------------------------------------------------------------------
(* Changing and cancelling an order, by its slot or by probing for it.     *)

Update(side, id, price, newQty, slot) ==
  /\ Ready
  /\ "update" \in Requests
  /\ IF ~ (ValidId(id) /\ ValidPrice(price) /\ ValidQty(newQty) /\ ValidSlot(slot))
     THEN Reject(UpdateRejected(id, "Request"))
     ELSE UpdateOrder(side, id, price, newQty, slot)
  /\ UNCHANGED callVars

Cancel(side, id, price, slot) ==
  /\ Ready
  /\ "cancel" \in Requests
  /\ IF ~ (ValidId(id) /\ ValidPrice(price) /\ ValidSlot(slot))
     THEN Reject(CancelRejected(id, "Request"))
     ELSE CancelOrder(side, id, price, slot)
  /\ UNCHANGED callVars

(* QueueOut takes the event and push returns. *)
Pushed ==
  /\ ev # None
  /\ ev' = None
  /\ UNCHANGED <<bookVars, callVars>>

-----------------------------------------------------------------------------
(* The client: identifiers of orders that rest in the book are not used    *)
(* again, and of the ill-formed requests one of each kind is sent.         *)

OrdersAt(price) == LET level == LevelAt(price) IN {level.fifo[i] : i \in Indices(level)}
Live(id) == \E price \in minPrice .. maxPrice : \E order \in OrdersAt(price) : order.id = id

Prices == MinPrice .. MaxPrice
Qtys == MinQty .. MaxQty

WellFormed == {id \in Ids : ~ Live(id)} \X ClientPrices \X Qtys
IllFormed ==
  {<<InvalidOrderId, MinPrice, MinQty>>, <<Min(Ids), MinPrice - 1, MinQty>>,
   <<Min(Ids), MaxPrice + 1, MinQty>>, <<Min(Ids), MaxPrice, MinQty - 1>>,
   <<Min(Ids), MinPrice, MaxQty + 1>>}

Create ==
  \E side \in Sides, kind \in {"limit", "ioc", "fok"} :
    \/ \E r \in WellFormed \cup IllFormed : Insert(kind, side, r[1], r[2], r[3])
    \/ \E id \in {i \in Ids : ~ Live(i)}, qty \in Qtys : InsertMarket(kind, side, id, qty)

Amend ==
  \E side \in Sides, slot \in Slots \cup {NoSlot} :
    \/ \E id \in Ids, price \in ClientPrices :
         \/ \E qty \in Qtys : Update(side, id, price, qty, slot)
         \/ Cancel(side, id, price, slot)
    \/ \E r \in IllFormed :
         \/ Update(side, r[1], r[2], r[3], slot)
         \/ r[3] \in Qtys /\ Cancel(side, r[1], r[2], slot)
    \/ slot = NoSlot /\ Cancel(side, Min(Ids), MinPrice, MaxOrders)

Engine ==
  \/ Match
  \/ Fill
  \/ Expire
  \/ MoveWindow
  \/ KeepWindow
  \/ Rest

Next == Create \/ Amend \/ Engine \/ Pushed

Spec == Init /\ [][Next]_vars

-----------------------------------------------------------------------------
(* The types of the book, the request at work and its progress.            *)
TypeOK ==
  /\ levels \in [0 .. Size - 1 ->
       [total : Int, fifo : Seq([slot : Slots, id : Ids, qty : 1 .. MaxQty])]]
  /\ minIndex \in 0 .. Size - 1
  /\ {minPrice, maxPrice} \subseteq Prices
  /\ bits \in [Sides -> SUBSET (0 .. Size - 1)]
  /\ pc \in {"idle", "match", "fill", "shift", "rest"}
  /\ req \in IF pc = "idle" THEN {NoRequest}
             ELSE [kind : {"limit", "ioc", "fok"}, side : Sides, id : Ids, price : Prices]
  /\ left \in 0 .. MaxQty
  /\ lastPrice \in Prices \cup {0}

(* Prices that are being emptied before the window leaves them, and whose  *)
(* bits in the mask of this side are shifted out with them.                *)
Expiring(side) ==
  IF pc = "shift" /\ (IF side = Buy THEN MustShiftUp(lastPrice) ELSE MustShiftDown(lastPrice))
  THEN Leaving(side) ELSE {}

(* The masks show exactly the prices with orders of their side, so the     *)
(* best price read from a mask is the best price of the book.  Masks,      *)
(* levels and window are moved separately, by price, index and bit.        *)
MasksMatchLevels ==
  /\ \A side \in Sides : \A price \in (minPrice .. maxPrice) \ Expiring(side) :
       BitOf(side, price) \in bits[side] <=> side * LevelAt(price).total > 0
  /\ \A side \in Sides : bits[side] \subseteq 0 .. maxPrice - minPrice

(* A level's total is the quantity of its orders, of one side all of them, *)
(* and can be no larger than the slots allow; each order has its own slot. *)
LevelSound(level) ==
  /\ \E side \in Sides : level.total = side * Quantity(level.fifo)
  /\ Quantity(level.fifo) <= MaxOrders * MaxQty
  /\ Len(level.fifo) <= MaxOrders
  /\ \A i, j \in Indices(level) : level.fifo[i].slot = level.fifo[j].slot => i = j

(* With all types as they should be, every level is sound, and a ring slot *)
(* outside the window is empty when the window comes round to it.          *)
LevelsSound ==
  /\ TypeOK
  /\ \A i \in 0 .. Size - 1 : LevelSound(levels[i])
  /\ \A i \in 0 .. Size - 1 :
       levels[i] # NewLevel => i \in {IndexOf(price) : price \in minPrice .. maxPrice}

(* The whole of the book agrees with itself: levels with their orders, the *)
(* ring with the window, and the masks with both.                          *)
BookSound == LevelsSound /\ MasksMatchLevels

(* Every bid is below every offer, by what the levels hold. *)
Uncrossed ==
  \A low, high \in minPrice .. maxPrice :
    low <= high => ~ (LevelAt(low).total < 0 /\ LevelAt(high).total > 0)

(* Two assertions: the level _trade takes has orders of the other    *)
(* side, and the level an order is to rest at has none.                    *)
SidesAgree ==
  /\ pc = "fill" => req.side * LevelAt(BestPrice).total < 0
  /\ pc = "rest" /\ left # 0 /\ InWindow(req.price) => req.side * LevelAt(req.price).total >= 0

(* The window stays among the valid prices and follows the market: it      *)
(* never leaves the last trade behind.                                     *)
WindowFollows ==
  /\ MinPrice <= minPrice /\ maxPrice <= MaxPrice
  /\ pc = "rest" => InWindow(lastPrice)

(* The window, its width at most what the ring has room for beside a shift *)
(* of it in any state; the price it follows is in it.                      *)
WindowFits ==
  /\ minPrice <= maxPrice /\ maxPrice - minPrice <= Levels + Levels
  /\ pc # "idle" => InWindow(lastPrice)

(* While a request trades, its last trade parts the book: above it there   *)
(* are no buy orders and below it no sell orders, so what leaves the       *)
(* window on one end is of one side.                                       *)
TradeParts ==
  pc \in {"match", "fill", "shift"} =>
    \/ lastPrice = Center
    \/ \A price \in minPrice .. maxPrice :
         /\ price > lastPrice => LevelAt(price).total <= 0
         /\ price < lastPrice => LevelAt(price).total >= 0

(* A request goes on trading while something is left of it, and until      *)
(* nothing within its limit is left of the other side.                     *)
TradeIsThorough ==
  /\ pc \in {"match", "fill"} => left > 0
  /\ pc \in {"shift", "rest"} /\ left > 0 =>
       \A price \in minPrice .. maxPrice :
         Within(req.side, price, req.price) => req.side * LevelAt(price).total >= 0

(* The inductive invariant. *)
IInv ==
  /\ BookSound /\ WindowFollows /\ WindowFits
  /\ Uncrossed /\ SidesAgree /\ TradeParts /\ TradeIsThorough

-----------------------------------------------------------------------------
(* The orders the book holds at each price, for the abstract book: those   *)
(* of the level in the window, for the side its total shows.               *)
RestingAt(side, price) ==
  IF InWindow(price) /\ side * LevelAt(price).total > 0
  THEN LET fifo == LevelAt(price).fifo
       IN  [i \in DOMAIN fifo |-> [id |-> fifo[i].id, qty |-> fifo[i].qty]]
  ELSE <<>>

Resting == [side \in Sides |-> [price \in Prices |-> RestingAt(side, price)]]

Taker ==
  IF pc = "idle" THEN [kind |-> "none"]
  ELSE [kind |-> req.kind, side |-> req.side, id |-> req.id, price |-> req.price,
        left |-> left]

Abstract == INSTANCE MatchingBook WITH book <- Resting, taker <- Taker

(* An order is filled only within its limit.  What a fill-or-kill order    *)
(* still wants, the book has within the limit for as long as it trades,    *)
(* and then nothing is left of the order.                                  *)
TradeIsCovered ==
  /\ pc = "fill" => Within(req.side, BestPrice, req.price)
  /\ pc \in {"match", "fill"} /\ req.kind = "fok" =>
       Abstract!Available(req.side, req.price) >= left
  /\ pc \in {"shift", "rest"} /\ req.kind = "fok" => left = 0

(* What the refinement needs beside the inductive invariant.               *)
RInv == IInv /\ TradeIsCovered

(* Masks, ring, window and slots together behave like a book that matches  *)
(* by price and then by time.                                              *)
IsMatchingBook == Abstract!Spec

(* The walk of _check_fok over the totals accepts exactly the orders that  *)
(* the resting quantity can fill; and though the trade walks the book      *)
(* separately, nothing is left of an order that was accepted, as           *)
(* insert_order_fok asserts.                                               *)
FokAllOrNothing ==
  /\ Ready => \A side \in Sides, price \in Prices, qty \in Qtys :
                CanFill(side, price, qty) <=> Abstract!Available(side, price) >= qty
  /\ pc = "rest" /\ req.kind = "fok" => left = 0
=============================================================================
