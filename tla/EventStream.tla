------------------------------ MODULE EventStream ------------------------------
(* The engine with the queue its events go through, and a reader that      *)
(* rebuilds from the events alone what rests in the book.  QueueOut keeps  *)
(* its events in a RingBufferSPSC, here the bounded FIFO that it is shown  *)
(* to implement.  Either a thread of its own drains the queue, or the      *)
(* thread that trades does, between its requests, as the tests do.         *)
EXTENDS TradeEngine

CONSTANT QueueSize  \* capacity of the ring, 1024 in the code

ASSUME EventStreamAssumption == QueueSize \in Nat \ {0}

VARIABLES
  queue,   \* QueueOut::_queue, oldest event first
  drainer, \* who drains it, "thread" or "caller"
  view     \* the reader's book: the quantity of each order

streamVars == <<vars, queue, drainer, view>>

StreamInit ==
  /\ Init
  /\ queue = <<>>
  /\ drainer \in {"thread", "caller"}
  /\ view = [id \in Ids |-> 0]

-----------------------------------------------------------------------------
(* What an event tells of the orders.  In a trade the order that rested is *)
(* the one in the last field.                                              *)
After(event, book) ==
  CASE event.type = "CreateAccepted" -> [book EXCEPT ![event.id] = event.qty]
    [] event.type = "Trade" -> [book EXCEPT ![event.taker] = @ - event.qty]
    [] event.type \in {"CancelAccepted", "LevelExpired"} -> [book EXCEPT ![event.id] = 0]
    [] OTHER -> book

QueueFull == Len(queue) = QueueSize

(* Mutant: the push gives up when the queue stays full. *)
PushOrDrop ==
  /\ ev # None
  /\ queue' = IF QueueFull THEN queue ELSE Append(queue, ev)
  /\ ev' = None
  /\ UNCHANGED <<bookVars, callVars, drainer, view>>

(* A try of push that finds room. *)
Push ==
  /\ ev # None
  /\ ~ QueueFull
  /\ queue' = Append(queue, ev)
  /\ ev' = None
  /\ UNCHANGED <<bookVars, callVars, drainer, view>>

(* One that does not: push pauses or yields, and tries again. *)
Retry ==
  /\ ev # None
  /\ QueueFull
  /\ UNCHANGED streamVars

(* pop, also as clear and log call it until the queue is empty. *)
Pop ==
  /\ queue # <<>>
  /\ drainer = "thread" \/ Ready
  /\ queue' = Tail(queue)
  /\ view' = After(Head(queue), view)
  /\ UNCHANGED <<vars, drainer>>

(* The client's requests, without those that are ill-formed, and without   *)
(* updates: UpdateAccepted does not tell the new quantity.                 *)
Call ==
  /\ \E side \in Sides, price \in ClientPrices, id \in Ids :
       IF Live(id) THEN Cancel(side, id, price, NoSlot)
       ELSE \E kind \in Requests \ {"update", "cancel"}, qty \in Qtys : Insert(kind, side, id, price, qty)
  /\ UNCHANGED <<queue, drainer, view>>

Work == Engine /\ UNCHANGED <<queue, drainer, view>>

StreamNext == Call \/ Work \/ Push \/ Retry \/ Pop

StreamSpec == StreamInit /\ [][StreamNext]_streamVars

(* The engine's thread runs, and so does the reader's if there is one. *)
FairStream ==
  /\ StreamSpec
  /\ WF_streamVars(Work)
  /\ WF_streamVars(Push)
  /\ WF_streamVars(drainer = "thread" /\ Pop)

-----------------------------------------------------------------------------
(* The reader's book after each of the events on their way, and after all. *)
InFlight == IF ev = None THEN queue ELSE Append(queue, ev)
Seen ==
  LET after[k \in 0 .. Len(InFlight)] ==
        IF k = 0 THEN view ELSE After(InFlight[k], after[k - 1])
  IN  after
Foreseen == Seen[Len(InFlight)]

(* The events tell all that happens to the orders, once, and in order:     *)
(* whoever reads them knows what rests in the book.  Every change of the   *)
(* book is pushed by another function, between others, and a push that     *)
(* finds the queue full has to wait.                                       *)
ReaderKnows ==
  /\ Len(queue) <= QueueSize /\ view \in [Ids -> 0 .. MaxQty]
  /\ \A id \in Ids : ~ Live(id) => Foreseen[id] = 0
  /\ \A price \in minPrice .. maxPrice : \A order \in OrdersAt(price) :
       Foreseen[order.id] = order.qty

(* The thread that trades waits for room that only itself could make.      *)
Clogged == drainer = "caller" /\ ev # None /\ QueueFull

(* Every request comes to its end when a thread reads the events, and      *)
(* otherwise unless it produces more of them than the queue holds.         *)
RequestsEnd == ~ Ready ~> Ready \/ Clogged
=============================================================================
