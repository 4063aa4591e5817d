---------------------------- MODULE BoundedFifo ----------------------------
(* What a bounded queue between one producer and one consumer promises:    *)
(* elements leave in the order they entered, none is lost, duplicated or   *)
(* invented, and no more than Capacity of them are held at a time.         *)
(* RingBufferSPSC implements it.                                           *)
EXTENDS Naturals, Sequences

CONSTANTS
  Capacity,  \* the most elements the queue holds
  Values,    \* what may be pushed
  NoValue    \* what the consumer's variable holds before the first pop

VARIABLES
  queue,     \* the elements inside, oldest first
  out        \* the element the consumer popped last

vars == <<queue, out>>

Init ==
  /\ queue = <<>>
  /\ out = NoValue

Push(v) ==
  /\ Len(queue) < Capacity
  /\ queue' = Append(queue, v)
  /\ UNCHANGED out

Pop ==
  /\ queue # <<>>
  /\ out' = Head(queue)
  /\ queue' = Tail(queue)

Next == (\E v \in Values : Push(v)) \/ Pop

Spec == Init /\ [][Next]_vars

(* A consumer that keeps polling gets everything that was pushed. *)
FairSpec == Spec /\ WF_vars(Pop)
=============================================================================
