--------------------------- MODULE RingBufferSPSC ---------------------------
(* The lock-free ring buffer of ring_buffer_spsc.hpp: one producer thread  *)
(* calls push, one consumer thread calls pop, and they share two atomic    *)
(* positions and an array of Capacity + 1 cells.                           *)
(*                                                                         *)
(* A step is one access to shared memory.  An acquire load need not return *)
(* the newest value: C++ only promises that a thread never goes back to a  *)
(* value older than one it has read.  headView and tailView are that lower *)
(* bound; a load returns any position from there to the current one.       *)
EXTENDS Naturals, Sequences

CONSTANTS Capacity, Values, NoValue

ASSUME CapacityAssumption == Capacity \in Nat \ {0}

VARIABLES
  tail,        \* _tail, written by the producer only
  headCached,  \* _headCached, the producer's copy of _head
  head,        \* _head, written by the consumer only
  tailCached,  \* _tailCached, the consumer's copy of _tail
  buffer,      \* _buffer
  headView,    \* the newest value of _head the producer has read
  tailView,    \* the newest value of _tail the consumer has read
  ppc,         \* where the producer is: "idle", or inside push
  pval,        \* the value the producer is pushing
  cpc,         \* where the consumer is: "idle", or inside pop
  out,         \* the variable the consumer pops into
  room,        \* pushes the producer may still count on, from _approx_size
  avail        \* pops the consumer may still count on, from _approx_size

producerVars == <<tail, headCached, headView, ppc, pval, room>>
consumerVars == <<head, tailCached, tailView, cpc, out, avail>>
vars == <<producerVars, consumerVars, buffer>>

Positions == 0 .. Capacity

-----------------------------------------------------------------------------

(* Arithmetic on positions.                                                *)

Index(i) == IF i = Capacity + 1 THEN 0 ELSE i

(* The number of steps from a to b around the ring. *)
Dist(a, b) == IF b >= a THEN b - a ELSE (Capacity + 1) - (a - b)

(* The position k steps after p. *)
Plus(p, k) == IF p + k > Capacity THEN p + k - (Capacity + 1) ELSE p + k

(* Going round the ring from a, b is met no later than c. *)
Between(a, b, c) == Dist(a, b) + Dist(b, c) = Dist(a, c)

(* What an acquire load may return to a thread that has already read seen. *)
Visible(seen, current) == {p \in Positions : Between(seen, p, current)}

Minus1(n) == IF n = 0 THEN 0 ELSE n - 1

-----------------------------------------------------------------------------
Init ==
  /\ tail = 0 /\ headCached = 0 /\ headView = 0
  /\ head = 0 /\ tailCached = 0 /\ tailView = 0
  /\ buffer = [p \in Positions |-> NoValue]
  /\ ppc = "idle" /\ pval = NoValue
  /\ cpc = "idle" /\ out = NoValue
  /\ room = 0 /\ avail = 0

-----------------------------------------------------------------------------

(* Mutant: push does not look whether the ring is full. *)
PushUnchecked(v) ==
  /\ ppc = "idle"
  /\ pval' = v
  /\ ppc' = "write"
  /\ UNCHANGED <<tail, headCached, headView, room, consumerVars, buffer>>

(* The producer.  push(v) enters with the cached head, reloads it when the *)
(* ring looks full, and fails when it still does.                          *)

Push(v) ==
  /\ ppc = "idle"
  /\ pval' = v
  /\ ppc' = IF Index(tail + 1) = headCached THEN "reload" ELSE "write"
  /\ UNCHANGED <<tail, headCached, headView, room, consumerVars, buffer>>

(* Mutants: the second full test is missing; it keeps a cell too many free. *)
ReloadHeadUnchecked(h) ==
  /\ ppc = "reload"
  /\ headCached' = h
  /\ headView' = h
  /\ ppc' = "write"
  /\ UNCHANGED <<tail, pval, room, consumerVars, buffer>>

ReloadHeadCautious(h) ==
  /\ ppc = "reload"
  /\ headCached' = h
  /\ headView' = h
  /\ ppc' = IF h \in {Index(tail + 1), Index(Index(tail + 1) + 1)} THEN "idle" ELSE "write"
  /\ UNCHANGED <<tail, pval, room, consumerVars, buffer>>

ReloadHeadFrom(h) ==
  /\ ppc = "reload"
  /\ headCached' = h
  /\ headView' = h
  /\ ppc' = IF Index(tail + 1) = h THEN "idle" ELSE "write"
  /\ UNCHANGED <<tail, pval, room, consumerVars, buffer>>

ReloadHead == \E h \in Visible(headView, head) : ReloadHeadFrom(h)

(* Mutant: the element goes to next instead of tail. *)
WriteAtNext ==
  /\ ppc = "write"
  /\ buffer' = [buffer EXCEPT ![Index(tail + 1)] = pval]
  /\ ppc' = "publish"
  /\ UNCHANGED <<tail, headCached, headView, pval, room, consumerVars>>

Write ==
  /\ ppc = "write"
  /\ buffer' = [buffer EXCEPT ![tail] = pval]
  /\ ppc' = "publish"
  /\ UNCHANGED <<tail, headCached, headView, pval, room, consumerVars>>

Publish ==
  /\ ppc = "publish"
  /\ tail' = Index(tail + 1)
  /\ ppc' = "idle"
  /\ room' = Minus1(room)
  /\ UNCHANGED <<headCached, headView, pval, consumerVars, buffer>>

(* _approx_size (or _approx_full) called by the producer, as the executor  *)
(* does before a push: it now counts on that many free cells.              *)
ProducerSize ==
  /\ ppc = "idle"
  /\ \E h \in Visible(headView, head) :
       /\ headView' = h
       /\ room' = Capacity - Dist(h, tail)
  /\ UNCHANGED <<tail, headCached, ppc, pval, consumerVars, buffer>>

-----------------------------------------------------------------------------

(* The consumer.                                                           *)

Pop ==
  /\ cpc = "idle"
  /\ cpc' = IF head = tailCached THEN "reload" ELSE "read"
  /\ UNCHANGED <<producerVars, head, tailCached, tailView, out, avail, buffer>>

(* Mutants: a last element is left alone; a reload is followed by failure. *)
ReloadTailAllButOne(t) ==
  /\ cpc = "reload"
  /\ tailCached' = t
  /\ tailView' = t
  /\ cpc' = IF t \in {head, Index(head + 1)} THEN "idle" ELSE "read"
  /\ UNCHANGED <<producerVars, head, out, avail, buffer>>

ReloadTailInVain(t) ==
  /\ cpc = "reload"
  /\ tailView' = t
  /\ cpc' = "idle"
  /\ UNCHANGED <<producerVars, head, tailCached, out, avail, buffer>>

ReloadTailFrom(t) ==
  /\ cpc = "reload"
  /\ tailCached' = t
  /\ tailView' = t
  /\ cpc' = IF head = t THEN "idle" ELSE "read"
  /\ UNCHANGED <<producerVars, head, out, avail, buffer>>

ReloadTail == \E t \in Visible(tailView, tail) : ReloadTailFrom(t)

Read ==
  /\ cpc = "read"
  /\ out' = buffer[head]
  /\ cpc' = "release"
  /\ UNCHANGED <<producerVars, head, tailCached, tailView, avail, buffer>>

Release ==
  /\ cpc = "release"
  /\ head' = Index(head + 1)
  /\ cpc' = "idle"
  /\ avail' = Minus1(avail)
  /\ UNCHANGED <<producerVars, tailCached, tailView, out, buffer>>

(* _approx_size (or _approx_empty) called by the consumer, as QueueOut's   *)
(* clear and log do before each pop.                                       *)
ConsumerSize ==
  /\ cpc = "idle"
  /\ \E t \in Visible(tailView, tail) :
       /\ tailView' = t
       /\ avail' = Dist(head, t)
  /\ UNCHANGED <<producerVars, head, tailCached, cpc, out, buffer>>

-----------------------------------------------------------------------------
Producer ==
  \/ \E v \in Values : Push(v)
  \/ ReloadHead
  \/ Write
  \/ Publish
  \/ ProducerSize

Consumer ==
  \/ Pop
  \/ ReloadTail
  \/ Read
  \/ Release
  \/ ConsumerSize

Next == Producer \/ Consumer

Spec == Init /\ [][Next]_vars

(* The consumer polls, both threads finish the calls they began, and a     *)
(* store is seen in the end by a thread that keeps loading.                *)
Fairness ==
  /\ WF_vars(Write) /\ WF_vars(Publish) /\ WF_vars(ReloadHead)
  /\ WF_vars(Pop) /\ WF_vars(Read) /\ WF_vars(Release) /\ WF_vars(ReloadTail)
  /\ SF_vars(ReloadTailFrom(tail))

FairSpec == Spec /\ Fairness

-----------------------------------------------------------------------------
(* Every variable holds a position, a value or a program point it can hold. *)
TypeOK ==
  /\ {tail, headCached, headView, head, tailCached, tailView} \subseteq Positions
  /\ buffer \in [Positions -> Values \cup {NoValue}]
  /\ ppc \in {"idle", "reload", "write", "publish"}
  /\ cpc \in {"idle", "reload", "read", "release"}
  /\ {pval, out} \subseteq Values \cup {NoValue}
  /\ {room, avail} \subseteq 0 .. Capacity

(* The six positions stay in the order headCached, headView, head,         *)
(* tailCached, tailView, tail around the ring and span at most one turn:   *)
(* a stale copy of either position only makes push and pop more cautious.  *)
CyclicOrder ==
  /\ Between(headCached, headView, tail)
  /\ Between(headView, head, tail)
  /\ Between(head, tailCached, tail)
  /\ Between(tailCached, tailView, tail)

(* push writes a cell only while the ring, as the producer knows it, has   *)
(* room for it; pop reads a cell only once its contents have been          *)
(* published and seen.                                                     *)
HandOver ==
  /\ ppc \in {"write", "publish"} => Dist(headCached, tail) < Capacity
  /\ cpc \in {"read", "release"} => head # tailCached

(* The unsynchronised accesses to _buffer never meet on a cell. *)
NoDataRace == ~ (ppc = "write" /\ cpc = "read" /\ tail = head)

(* What either thread learned from _approx_size still holds for it. *)
EstimateHolds ==
  /\ room <= Capacity - Dist(headView, tail)
  /\ avail <= Dist(head, tailView)

(* The inductive invariant: types, the cyclic order of the positions, and  *)
(* what each thread may rely on inside push, pop and after _approx_size.   *)
IInv == TypeOK /\ CyclicOrder /\ HandOver /\ EstimateHolds

(* After _approx_full said no, the producer's next push does not fail: the *)
(* executor asserts it.                                                    *)
PushAfterNotFull ==
  [][ppc = "reload" /\ ppc' = "idle" => room = 0]_vars

(* After _approx_empty said no, the consumer's next pop does not fail:     *)
(* QueueOut's clear and log count on it.                                   *)
PopAfterNotEmpty ==
  [][cpc = "reload" /\ cpc' = "idle" => avail = 0]_vars

-----------------------------------------------------------------------------
(* The queue this ring holds: from the first cell not yet copied out to    *)
(* the last one published.  push takes effect when it stores _tail, pop    *)
(* when it copies the element out.                                         *)
First == IF cpc = "release" THEN Index(head + 1) ELSE head

Arc(from, to, cells) == [i \in 1 .. Dist(from, to) |-> cells[Plus(from, i - 1)]]

Contents == Arc(First, tail, buffer)

Fifo == INSTANCE BoundedFifo WITH queue <- Contents

(* The ring is a bounded FIFO: nothing lost, duplicated, reordered or torn. *)
IsFifo == Fifo!Spec

(* And a consumer that keeps polling gets every element pushed. *)
IsFairFifo == Fifo!FairSpec
=============================================================================
