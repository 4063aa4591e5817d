--------------------------- MODULE RingBufferMutex ---------------------------
(* The blocking queue of ring_buffer_mutex.hpp: any number of producers    *)
(* and consumers, one mutex, and a condition variable for each of "not     *)
(* full" and "not empty".                                                  *)
(*                                                                         *)
(* Everything is done while holding the mutex, which a thread gives up     *)
(* when it returns or waits.  So a step is what a thread does from taking  *)
(* the mutex to giving it up.  A thread that was notified has to take the  *)
(* mutex again, and others may take it before.                             *)
EXTENDS RingBuffer, FiniteSets

CONSTANTS Producers, Consumers, Values

ASSUME MutexAssumption ==
  /\ IsFiniteSet(Producers) /\ IsFiniteSet(Consumers)
  /\ Producers \cap Consumers = {}
  /\ NoValue \notin Values

Threads == Producers \cup Consumers

VARIABLES
  ring,   \* _buffer
  pc,     \* "idle"; "notFull", "notEmpty": waiting on that variable;
          \* "push", "pop": woken, about to take the mutex again
  pval,   \* the value a thread is pushing
  out     \* the element popped last, by any thread

vars == <<ring, pc, pval, out>>

Init ==
  /\ ring = NewRing
  /\ pc = [t \in Threads |-> "idle"]
  /\ pval = [t \in Producers |-> NoValue]
  /\ out = NoValue

-----------------------------------------------------------------------------
Waiting(cv) == {t \in Threads : pc[t] = cv}

(* notify_one: wakes one of the threads that wait on cv, if there are any. *)
NotifyOne(cv, resumed, leaver) ==
  LET left == [pc EXCEPT ![leaver] = "idle"]
  IN  IF Waiting(cv) = {}
      THEN pc' = left
      ELSE \E t \in Waiting(cv) : pc' = [left EXCEPT ![t] = resumed]

(* Mutant: the other condition variable is notified. *)
FinishPushTellingProducers(t, v) ==
  /\ ~ IsFull(ring)
  /\ ring' = PushTo(ring, v)
  /\ pval' = [pval EXCEPT ![t] = NoValue]
  /\ NotifyOne("notFull", "push", t)
  /\ UNCHANGED out

FinishPush(t, v) ==
  /\ ~ IsFull(ring)
  /\ ring' = PushTo(ring, v)
  /\ pval' = [pval EXCEPT ![t] = NoValue]
  /\ NotifyOne("notEmpty", "pop", t)
  /\ UNCHANGED out

WaitToPush(t, v) ==
  /\ IsFull(ring)
  /\ pval' = [pval EXCEPT ![t] = v]
  /\ pc' = [pc EXCEPT ![t] = "notFull"]
  /\ UNCHANGED <<ring, out>>

Push(t, v) == pc[t] = "idle" /\ (FinishPush(t, v) \/ WaitToPush(t, v))

(* Mutant: a producer that was woken does not look again. *)
ResumePushAtOnce(t) ==
  /\ pc[t] = "push"
  /\ ring' = PushTo(ring, pval[t])
  /\ pval' = [pval EXCEPT ![t] = NoValue]
  /\ NotifyOne("notEmpty", "pop", t)
  /\ UNCHANGED out

ResumePush(t) ==
  /\ pc[t] = "push"
  /\ FinishPush(t, pval[t]) \/ WaitToPush(t, pval[t])

(* Mutant: producers are told only when the queue was full before. *)
FinishPopTellingWhenFull(t) ==
  /\ ~ IsEmpty(ring)
  /\ out' = Front(ring)
  /\ ring' = PopFrom(ring)
  /\ IF IsFull(ring) THEN NotifyOne("notFull", "push", t) ELSE pc' = [pc EXCEPT ![t] = "idle"]
  /\ UNCHANGED pval

FinishPop(t) ==
  /\ ~ IsEmpty(ring)
  /\ out' = Front(ring)
  /\ ring' = PopFrom(ring)
  /\ NotifyOne("notFull", "push", t)
  /\ UNCHANGED pval

WaitToPop(t) ==
  /\ IsEmpty(ring)
  /\ pc' = [pc EXCEPT ![t] = "notEmpty"]
  /\ UNCHANGED <<ring, pval, out>>

Pop(t) == pc[t] = "idle" /\ (FinishPop(t) \/ WaitToPop(t))
ResumePop(t) == pc[t] = "pop" /\ (FinishPop(t) \/ WaitToPop(t))

(* A condition variable may wake a thread that nobody notified. *)
SpuriousWake(t) ==
  /\ \/ pc[t] = "notFull" /\ pc' = [pc EXCEPT ![t] = "push"]
     \/ pc[t] = "notEmpty" /\ pc' = [pc EXCEPT ![t] = "pop"]
  /\ UNCHANGED <<ring, pval, out>>

-----------------------------------------------------------------------------
Produce == \E t \in Producers : ResumePush(t) \/ \E v \in Values : Push(t, v)
Consume == \E t \in Consumers : ResumePop(t) \/ Pop(t)

Next == Produce \/ Consume \/ \E t \in Threads : SpuriousWake(t)

Spec == Init /\ [][Next]_vars

(* Consumers keep calling pop, and when some of them can take the mutex    *)
(* one of them gets it in the end; the mutex need not be fair to each.     *)
FairSpec == Spec /\ WF_vars(Consume)

-----------------------------------------------------------------------------
(* The ring's positions are inside the array, every thread is at a point   *)
(* of its own calls and holds a value exactly while a push of it is under  *)
(* way.                                                                    *)
TypeOK ==
  /\ ring \in [head : Positions, tail : Positions, cells : [Positions -> Values \cup {NoValue}]]
  /\ pc \in [Threads -> {"idle", "notFull", "push", "notEmpty", "pop"}]
  /\ pval \in [Producers -> Values \cup {NoValue}]
  /\ \A t \in Producers : IF pc[t] = "idle" THEN pval[t] = NoValue
                          ELSE pc[t] \in {"notFull", "push"} /\ pval[t] \in Values
  /\ \A t \in Consumers : pc[t] \in {"idle", "notEmpty", "pop"}
  /\ out \in Values \cup {NoValue}

(* No wake-up goes to nobody: while a producer sleeps, there are at least  *)
(* as many woken producers as free places, and while a consumer sleeps, at *)
(* least as many woken consumers as elements.  With notify_one in every    *)
(* call this holds although others may take the mutex first.               *)
NoLostWakeup ==
  /\ Waiting("notFull") # {} => Capacity - SizeOf(ring) <= Cardinality(Waiting("push"))
  /\ Waiting("notEmpty") # {} => SizeOf(ring) <= Cardinality(Waiting("pop"))

(* What every step of every thread keeps: the queue is sound and no thread *)
(* that could go on is left asleep.                                        *)
IInv == TypeOK /\ NoLostWakeup

(* A producer that had to wait does not return without its element being   *)
(* in the queue: push returns nothing, so nobody would notice.             *)
WaitingPushEnters ==
  [][\A t \in Producers : pc[t] = "push" /\ pc'[t] = "idle" =>
       Contents(ring') = Append(Contents(ring), pval[t])]_vars

(* Whoever calls, the queue is a bounded FIFO: every element pushed leaves *)
(* once, in the order in which the pushes took the mutex.                  *)
Fifo == INSTANCE BoundedFifo WITH queue <- Contents(ring)

IsFifo == Fifo!Spec

(* And with elements inside some consumer gets the next one, which needs   *)
(* that not all of them can be asleep.                                     *)
IsFairFifo == Fifo!FairSpec
=============================================================================
