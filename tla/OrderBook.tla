------------------------------ MODULE OrderBook ------------------------------
(* The order book of trade_engine.hpp: a window of consecutive prices over *)
(* a ring of Size levels, and for each side a bit mask of the prices that  *)
(* hold orders.  The window moves by Shift prices at a time; the levels it *)
(* leaves are emptied and become those it enters.                          *)
(*                                                                         *)
(* The masks are sets of bit numbers here: PriceBits shows that its words  *)
(* behave as such.  Larger and Smaller stand for max and min of            *)
(* branchless.hpp, which Branchless models and Bits_proofs shows to be     *)
(* exact for the operands they have here (EngineCallsAreExact).            *)
(*                                                                         *)
(* This module has the book's state and what each of its member functions  *)
(* does to it; TradeEngine calls them.                                     *)
EXTENDS LevelOps, Events, FiniteSetsExt

CONSTANTS
  Size,         \* OrderBook::Size, levels in the ring and bits in a mask
  Shift,        \* OrderBook::Shift, prices the window moves by
  MinPrice, MaxPrice,
  CenterPrice   \* the constructor's argument

ASSUME OrderBookAssumption ==
  /\ {Size, Shift, MinPrice, MaxPrice, CenterPrice} \subseteq Nat \ {0}
  /\ Size > 1
  /\ MinPrice <= CenterPrice /\ CenterPrice <= MaxPrice

VARIABLES
  levels,    \* _levels
  minIndex,  \* _minIndex, kept modulo Size
  minPrice,  \* _minPrice
  maxPrice,  \* _maxPrice
  bits,      \* _sellPricesMask and _buyPricesMask, as sets of bit numbers
  ev         \* the event being pushed to QueueOut, None when there is none

window == <<minIndex, minPrice, maxPrice>>
bookVars == <<levels, window, bits>>

-----------------------------------------------------------------------------
(* The window.                                                             *)

Levels == ((Size \div 2 - 1) \div Shift) * Shift

Larger(x, y) == IF x > y THEN x ELSE y
Smaller(x, y) == IF x < y THEN x ELSE y

InWindow(price) == minPrice <= price /\ price <= maxPrice

Center == (minPrice + maxPrice) \div 2

(* get_bottom_price: how far a taker of the given side can reach. *)
BottomPrice(side, price) ==
  IF side = Sell THEN Larger(price, minPrice) ELSE Smaller(price, maxPrice)

IndexOf(price) == (minIndex + (price - minPrice)) % Size

LevelAt(price) == levels[IndexOf(price)]

(* Each mask counts from the price its side likes least, so that the       *)
(* highest bit is the best price.                                          *)
BitOf(side, price) == IF side = Sell THEN maxPrice - price ELSE price - minPrice

(* Mutant: the lowest bit set is taken for the highest. *)
TopPriceLowestBit(side) ==
  IF side = Sell
  THEN IF bits[Sell] = {} THEN maxPrice + 1 ELSE maxPrice - Min(bits[Sell])
  ELSE IF bits[Buy] = {} THEN minPrice - 1 ELSE minPrice + Min(bits[Buy])

TopPrice(side) ==
  IF side = Sell
  THEN IF bits[Sell] = {} THEN maxPrice + 1 ELSE maxPrice - Max(bits[Sell])
  ELSE IF bits[Buy] = {} THEN minPrice - 1 ELSE minPrice + Max(bits[Buy])

WithBit(side, price) == [bits EXCEPT ![side] = @ \cup {BitOf(side, price)}]
WithoutBit(side, price) == [bits EXCEPT ![side] = @ \ {BitOf(side, price)}]

(* The masks as PriceBits shifts them: what leaves the array is lost. *)
ShiftLeft(mask) == {b + Shift : b \in mask} \cap (0 .. Size - 1)
ShiftRight(mask) == {b - Shift : b \in mask} \cap (0 .. Size - 1)

-----------------------------------------------------------------------------
BookInit ==
  LET center == ((CenterPrice - 1) \div Shift) * Shift + 1
  IN  /\ minIndex = 0
      /\ minPrice = Larger(center - Levels, MinPrice)
      /\ maxPrice = Smaller(Larger(center - Levels, MinPrice) + Levels + Levels, MaxPrice)
      /\ levels = [i \in 0 .. Size - 1 |-> NewLevel]
      /\ bits = [side \in Sides |-> {}]

-----------------------------------------------------------------------------
(* What the member functions do.  Each ends by pushing one event.          *)

Reject(event) == ev' = event /\ UNCHANGED bookVars

InsertOrder(side, id, price, qty) ==
  IF ~ InWindow(price) THEN Reject(CreateRejected(id, qty, "Price"))
  ELSE IF Full(LevelAt(price)) THEN Reject(CreateRejected(id, qty, "Buffer"))
  ELSE LET level == LevelAt(price)
           slot  == PushSlot(level, id)
       IN  /\ levels' = [levels EXCEPT ![IndexOf(price)] = PushAt(side, level, id, qty, slot)]
           /\ bits' = WithBit(side, price)
           /\ ev' = CreateAccepted(id, slot, qty)
           /\ UNCHANGED window

(* The slot of the order that an update or a cancel refers to: the given   *)
(* one if the order is there, the first one probed when none is given.     *)
NoSlot == -1
Candidates(level, id, slot) ==
  IF slot = NoSlot THEN SlotsOf(level, id) ELSE SlotsOf(level, id) \cap {slot}

UpdateOrder(side, id, price, newQty, slot) ==
  LET level == LevelAt(price)
      found == Candidates(level, id, slot)
  IN  IF ~ InWindow(price) THEN Reject(UpdateRejected(id, "Price"))
      ELSE IF side * level.total <= 0 THEN Reject(UpdateRejected(id, "Level"))
      ELSE IF found = {} THEN Reject(UpdateRejected(id, "Slot"))
      ELSE /\ levels' = [levels EXCEPT ![IndexOf(price)] =
                           UpdateAt(side, level, newQty, FirstProbed(id, found))]
           /\ ev' = UpdateAccepted(id)
           /\ UNCHANGED <<window, bits>>

CancelOrder(side, id, price, slot) ==
  LET level == LevelAt(price)
      found == Candidates(level, id, slot)
      left  == CancelAt(side, level, FirstProbed(id, found))
  IN  IF ~ InWindow(price) THEN Reject(CancelRejected(id, "Price"))
      ELSE IF side * level.total <= 0 THEN Reject(CancelRejected(id, "Level"))
      ELSE IF found = {} THEN Reject(CancelRejected(id, "Slot"))
      ELSE /\ levels' = [levels EXCEPT ![IndexOf(price)] = left]
           /\ bits' = IF Empty(left) THEN WithoutBit(side, price) ELSE bits
           /\ ev' = CancelAccepted(id)
           /\ UNCHANGED window

-----------------------------------------------------------------------------

(* Mutant: the window may move past the highest price. *)
MustShiftUpAnyway(lastPrice) == lastPrice - Center > Shift

(* Moving the window after a trade at lastPrice.                           *)

MustShiftUp(lastPrice) ==
  lastPrice - Center > Shift /\ maxPrice + Shift <= MaxPrice
MustShiftDown(lastPrice) ==
  lastPrice - Center < -Shift /\ minPrice - Shift >= MinPrice

(* Mutant: the last of the prices that leave is forgotten. *)
LeavingButOne(side) ==
  IF side = Buy THEN minPrice .. minPrice + Shift - 2
                ELSE maxPrice - Shift + 2 .. maxPrice

(* The prices about to leave the window, buy orders expiring below it and  *)
(* sell orders above it.                                                   *)
Leaving(side) ==
  IF side = Buy THEN minPrice .. minPrice + Shift - 1
                ELSE maxPrice - Shift + 1 .. maxPrice

Occupied(side) == {price \in Leaving(side) : ~ Empty(LevelAt(price))}

(* Mutant: the loop does not remove the order it announces. *)
ExpireOrderForever(side) ==
  LET price == IF side = Buy THEN Min(Occupied(side)) ELSE Max(Occupied(side))
  IN  /\ ev' = LevelExpired(price, Front(LevelAt(price)).id)
      /\ UNCHANGED bookVars

(* One round of _expire_level, at the first price that still has orders.   *)
(* The loop takes the orders for those of the given side.                  *)
ExpireOrder(side) ==
  LET price == IF side = Buy THEN Min(Occupied(side)) ELSE Max(Occupied(side))
      level == LevelAt(price)
  IN  /\ levels' = [levels EXCEPT ![IndexOf(price)] = PopFront(side, level)]
      /\ ev' = LevelExpired(price, Front(level).id)
      /\ UNCHANGED <<window, bits>>

(* Mutant: the masks are shifted the wrong way round. *)
ShiftUpMasksSwapped ==
  /\ minIndex' = (minIndex + Shift) % Size
  /\ minPrice' = minPrice + Shift
  /\ maxPrice' = maxPrice + Shift
  /\ bits' = [bits EXCEPT ![Sell] = ShiftRight(@), ![Buy] = ShiftLeft(@)]
  /\ ev' = LevelsCreated(maxPrice' - (Shift - 1), maxPrice')
  /\ UNCHANGED levels

ShiftUp ==
  /\ minIndex' = (minIndex + Shift) % Size
  /\ minPrice' = minPrice + Shift
  /\ maxPrice' = maxPrice + Shift
  /\ bits' = [bits EXCEPT ![Sell] = ShiftLeft(@), ![Buy] = ShiftRight(@)]
  /\ ev' = LevelsCreated(maxPrice' - (Shift - 1), maxPrice')
  /\ UNCHANGED levels

ShiftDown ==
  /\ minIndex' = (minIndex - Shift) % Size
  /\ minPrice' = minPrice - Shift
  /\ maxPrice' = maxPrice - Shift
  /\ bits' = [bits EXCEPT ![Sell] = ShiftRight(@), ![Buy] = ShiftLeft(@)]
  /\ ev' = LevelsCreated(minPrice', minPrice' + (Shift - 1))
  /\ UNCHANGED levels
=============================================================================
