----------------------------- MODULE MatchingBook -----------------------------
(* What a matching engine promises, with no window, ring, mask or slot: an *)
(* order trades at the best price of the other side and with the oldest    *)
(* order there, as long as its limit allows; what is left rests or is      *)
(* refused; fill-or-kill is all or nothing.  Orders may also expire, but   *)
(* only after the trading is over and from the worst price of their side.  *)
(* TradeEngine implements it.                                              *)
EXTENDS Integers, Sequences, FiniteSets, FiniteSetsExt, Events

CONSTANTS
  Prices, Ids, Qtys,
  Shift   \* how many prices become available at a time

VARIABLES
  book,    \* for each side and price, the resting orders, oldest first
  taker,   \* the order being entered, NoOrder between requests
  ev       \* the event being delivered

vars == <<book, taker, ev>>

Sell == -1
Buy == 1
Sides == {Sell, Buy}

NoOrder == [kind |-> "none"]
Orders ==
  [kind : {"limit", "ioc", "fok"}, side : Sides, id : Ids, price : Prices, left : Qtys]

Init ==
  /\ book = [side \in Sides |-> [price \in Prices |-> <<>>]]
  /\ taker = NoOrder
  /\ ev = None

Ready == taker = NoOrder /\ ev = None
Busy == taker # NoOrder /\ ev = None

-----------------------------------------------------------------------------
Occupied(side) == {price \in Prices : book[side][price] # <<>>}
Best(side) == IF side = Sell THEN Min(Occupied(side)) ELSE Max(Occupied(side))
Worst(side) == IF side = Sell THEN Max(Occupied(side)) ELSE Min(Occupied(side))

Within(side, price, limit) == IF side = Sell THEN price >= limit ELSE price <= limit

(* The units that rest at a price, each numbered in its order. *)
Units(side, price) ==
  UNION {{<<price, i>>} \X (1 .. book[side][price][i].qty) : i \in DOMAIN book[side][price]}

(* The quantity a taker of the given side could trade up to its limit. *)
Available(side, limit) ==
  Cardinality(UNION {Units(-side, price) : price \in {p \in Prices : Within(side, p, limit)}})

CanTrade ==
  /\ taker.left > 0
  /\ Occupied(-taker.side) # {}
  /\ Within(taker.side, Best(-taker.side), taker.price)

-----------------------------------------------------------------------------
Enter ==
  /\ Ready
  /\ taker' \in Orders
  /\ taker'.kind = "fok" => Available(taker'.side, taker'.price) >= taker'.left
  /\ UNCHANGED <<book, ev>>

Refuse ==
  /\ Ready
  /\ ev'.type \in {"CreateRejected", "UpdateRejected", "CancelRejected"}
  /\ UNCHANGED <<book, taker>>

Match ==
  /\ Busy
  /\ CanTrade
  /\ LET side  == -taker.side
         price == Best(side)
         queue == book[side][price]
         oldest == Head(queue)
         qty   == IF taker.left < oldest.qty THEN taker.left ELSE oldest.qty
     IN  /\ ev' = Trade(price, qty, taker.id, oldest.id)
         /\ taker' = [taker EXCEPT !.left = @ - qty]
         /\ book' = [book EXCEPT ![side][price] =
                       IF qty = oldest.qty THEN Tail(queue)
                       ELSE [queue EXCEPT ![1].qty = @ - qty]]

Expire ==
  /\ Busy
  /\ ~ CanTrade
  /\ \E side \in Sides :
       /\ Occupied(side) # {}
       /\ LET price == Worst(side)
          IN  /\ ev' = LevelExpired(price, Head(book[side][price]).id)
              /\ book' = [book EXCEPT ![side][price] = Tail(@)]
  /\ UNCHANGED taker

(* The prices the book offers to trade at have moved; the orders stay. *)
Recentre ==
  /\ Busy
  /\ ~ CanTrade
  /\ ev'.type = "LevelsCreated" /\ ev'.to - ev'.from = Shift - 1
  /\ UNCHANGED <<book, taker>>

Finish ==
  /\ Busy
  /\ taker.left = 0
  /\ taker' = NoOrder
  /\ UNCHANGED <<book, ev>>

RestOrder ==
  /\ Busy
  /\ ~ CanTrade
  /\ taker.kind = "limit" /\ taker.left > 0
  /\ ev'.type = "CreateAccepted" /\ ev'.id = taker.id /\ ev'.qty = taker.left
  /\ book' = [book EXCEPT ![taker.side][taker.price] =
                Append(@, [id |-> taker.id, qty |-> taker.left])]
  /\ taker' = NoOrder

Return ==
  /\ Busy
  /\ ~ CanTrade
  /\ taker.kind # "fok" /\ taker.left > 0
  /\ ev'.type = "CreateRejected" /\ ev'.id = taker.id /\ ev'.qty = taker.left
  /\ taker' = NoOrder
  /\ UNCHANGED book

(* A changed order keeps its place; a cancelled one leaves it. *)
Update ==
  /\ Ready
  /\ \E side \in Sides, price \in Prices : \E i \in DOMAIN book[side][price] :
       /\ ev' = UpdateAccepted(book[side][price][i].id)
       /\ \E qty \in Qtys : book' = [book EXCEPT ![side][price][i].qty = qty]
  /\ UNCHANGED taker

Cancel ==
  /\ Ready
  /\ \E side \in Sides, price \in Prices : \E i \in DOMAIN book[side][price] :
       LET queue == book[side][price]
       IN  /\ ev' = CancelAccepted(queue[i].id)
           /\ book' = [book EXCEPT ![side][price] =
                         SubSeq(queue, 1, i - 1) \o SubSeq(queue, i + 1, Len(queue))]
  /\ UNCHANGED taker

Deliver ==
  /\ ev # None
  /\ ev' = None
  /\ UNCHANGED <<book, taker>>

Next ==
  \/ Enter
  \/ Refuse
  \/ Match
  \/ Expire
  \/ Recentre
  \/ Finish
  \/ RestOrder
  \/ Return
  \/ Update
  \/ Cancel
  \/ Deliver

Spec == Init /\ [][Next]_vars
=============================================================================
