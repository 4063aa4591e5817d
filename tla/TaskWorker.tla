----------------------------- MODULE TaskWorker -----------------------------
(* The worker thread of task_worker.hpp.  Its owner pushes tasks into an   *)
(* SPSC ring, stops it and destroys it; the thread polls the state and the *)
(* ring.  Tasks are numbered in the order of their pushes and leave the    *)
(* ring in that order (RingBufferSPSC implements BoundedFifo).             *)
(*                                                                         *)
(* A load of the state need not return the newest one.  stores is the      *)
(* order of all stores to _state; a thread loads one no older than the     *)
(* last it has seen.  A store releases and a load acquires, so whoever     *)
(* reads a state also sees the pushes made before it was stored; otherwise *)
(* a pop may miss the newest pushes.                                       *)
EXTENDS Naturals, Sequences

CONSTANTS
  Capacity,   \* QueueSize
  MaxTasks,   \* bound on the tasks pushed
  MaxStores,  \* bound on the stores made by stop and hard_stop
  Killers     \* the tasks that call hard_stop themselves

ASSUME WorkerAssumption == Capacity \in Nat \ {0} /\ MaxTasks \in Nat

VARIABLES
  stores,      \* the stores to _state, each with the pushes it publishes
  pushed,      \* the number of tasks pushed
  ownerSeen,   \* the newest store the owner has seen
  opc,         \* the owner: "idle", in the destructor "storing", "joining",
               \* or "gone"
  popped,      \* the number of tasks popped
  workerSeen,  \* the newest store the worker has seen
  tailSeen,    \* the number of pushes the worker is bound to see
  wpc          \* the worker: "poll", "pop", "run" in the first loop,
               \* "drain", "drainPop", "drainRun" in the second, or "done"

ownerVars == <<pushed, ownerSeen, opc>>
workerVars == <<popped, workerSeen, tailSeen, wpc>>
workVars == <<stores, ownerVars, workerVars>>

Latest == Len(stores)
Loadable(seen) == seen .. Latest
State(k) == stores[k].state
Store(state, tasks) == stores' = Append(stores, [state |-> state, tasks |-> tasks])

WorkInit ==
  /\ stores = <<[state |-> "Running", tasks |-> 0]>>
  /\ pushed = 0 /\ ownerSeen = 1 /\ opc = "idle"
  /\ popped = 0 /\ workerSeen = 1 /\ tailSeen = 0 /\ wpc = "poll"

-----------------------------------------------------------------------------
(* The owner.  It keeps to the assertions of push and stop: these only     *)
(* constrain the states it may load.  A push into a full ring fails and    *)
(* changes nothing.                                                        *)

Enqueue ==
  /\ pushed < MaxTasks
  /\ pushed - popped < Capacity
  /\ \E k \in Loadable(ownerSeen) : State(k) = "Running" /\ ownerSeen' = k
  /\ pushed' = pushed + 1
  /\ UNCHANGED <<stores, workerVars>>

Push == opc = "idle" /\ Enqueue /\ UNCHANGED opc

OwnerStores(state) ==
  /\ Store(state, pushed)
  /\ ownerSeen' = Latest + 1
  /\ UNCHANGED <<pushed, workerVars>>

Stop ==
  /\ opc = "idle" /\ Latest < MaxStores
  /\ \E k \in Loadable(ownerSeen) : State(k) # "HardStop"
  /\ OwnerStores("Stopping")
  /\ UNCHANGED opc

HardStop ==
  /\ opc = "idle" /\ Latest < MaxStores
  /\ OwnerStores("HardStop")
  /\ UNCHANGED opc

(* Mutant: the destructor asks for a drain whatever the state. *)
CheckStateUnconditionally ==
  /\ opc = "idle"
  /\ opc' = "storing"
  /\ UNCHANGED <<stores, pushed, ownerSeen, workerVars>>

(* The destructor: it loads the state, stores Stopping if it found Running *)
(* there, and joins the thread.                                            *)
CheckState ==
  /\ opc = "idle"
  /\ \E k \in Loadable(ownerSeen) :
       /\ ownerSeen' = k
       /\ opc' = IF State(k) = "Running" THEN "storing" ELSE "joining"
  /\ UNCHANGED <<stores, pushed, workerVars>>

StoreStopping ==
  /\ opc = "storing"
  /\ OwnerStores("Stopping")
  /\ opc' = "joining"

Join ==
  /\ opc = "joining" /\ wpc = "done"
  /\ opc' = "gone"
  /\ UNCHANGED <<stores, pushed, ownerSeen, workerVars>>

-----------------------------------------------------------------------------
(* The worker.                                                             *)

(* Mutant: the load is relaxed and brings no pushes with it. *)
LoadRelaxed(k) ==
  /\ workerSeen' = k
  /\ UNCHANGED <<stores, ownerVars, popped, tailSeen>>

Load(k) ==
  /\ workerSeen' = k
  /\ tailSeen' = IF stores[k].tasks > tailSeen THEN stores[k].tasks ELSE tailSeen
  /\ UNCHANGED <<stores, ownerVars, popped>>

PollFrom(k) ==
  /\ wpc = "poll"
  /\ Load(k)
  /\ wpc' = IF State(k) = "Running" THEN "pop" ELSE "drain"

DrainFrom(k) ==
  /\ wpc = "drain"
  /\ Load(k)
  /\ wpc' = IF State(k) = "Stopping" THEN "drainPop" ELSE "done"

Poll == \E k \in Loadable(workerSeen) : PollFrom(k)
Drain == \E k \in Loadable(workerSeen) : DrainFrom(k)

(* Mutant: the second loop goes on after a pop that failed. *)
PopAndDrainForever(t) ==
  /\ wpc \in {"pop", "drainPop"}
  /\ tailSeen' = t
  /\ IF t = popped
     THEN popped' = popped /\ wpc' = IF wpc = "pop" THEN "poll" ELSE "drain"
     ELSE popped' = popped + 1 /\ wpc' = IF wpc = "pop" THEN "run" ELSE "drainRun"
  /\ UNCHANGED <<stores, ownerVars, workerSeen>>

(* pop, when the ring's tail is found after t pushes: it fails when all of *)
(* them were popped.                                                       *)
PopUpTo(t) ==
  /\ wpc \in {"pop", "drainPop"}
  /\ tailSeen' = t
  /\ IF t = popped
     THEN popped' = popped /\ wpc' = IF wpc = "pop" THEN "poll" ELSE "done"
     ELSE popped' = popped + 1 /\ wpc' = IF wpc = "pop" THEN "run" ELSE "drainRun"
  /\ UNCHANGED <<stores, ownerVars, workerSeen>>

Pop == \E t \in tailSeen .. pushed : PopUpTo(t)

RunTask ==
  /\ wpc \in {"run", "drainRun"}
  /\ wpc' = IF wpc = "run" THEN "poll" ELSE "drain"
  /\ IF popped \in Killers
     THEN Store("HardStop", 0) /\ workerSeen' = Latest + 1
     ELSE UNCHANGED <<stores, workerSeen>>
  /\ UNCHANGED <<ownerVars, popped, tailSeen>>

-----------------------------------------------------------------------------
Owner == Push \/ Stop \/ HardStop \/ CheckState \/ StoreStopping \/ Join
Worker == Poll \/ Drain \/ Pop \/ RunTask

WorkNext == Owner \/ Worker

WorkSpec == WorkInit /\ [][WorkNext]_workVars

-----------------------------------------------------------------------------
HardStopped == \E k \in 1 .. Latest : State(k) = "HardStop"

(* The counters and both views are inside their ranges: no task is popped  *)
(* that was not pushed, and the ring is never overfull.                    *)
WorkTypeOK ==
  /\ stores \in Seq([state : {"Running", "Stopping", "HardStop"}, tasks : 0 .. MaxTasks])
  /\ pushed \in 0 .. MaxTasks
  /\ popped <= tailSeen /\ tailSeen <= pushed /\ pushed - popped <= Capacity
  /\ {ownerSeen, workerSeen} \subseteq 1 .. Latest
  /\ opc \in {"idle", "submitting", "storing", "joining", "gone"}
  /\ wpc \in {"poll", "pop", "run", "drain", "drainPop", "drainRun", "done"}

(* When the thread ends and nobody asked for a hard stop, every task that  *)
(* was pushed has run, although the second loop ends at the first pop that *)
(* fails: the load of Stopping brings the pushes made before the store.    *)
StopDrains == wpc = "done" /\ ~ HardStopped => popped = pushed

(* Once there is a HardStop among the stores up to the one the worker has  *)
(* read (or made), it starts no task any more, whatever the owner does     *)
(* then: the destructor and stop must not undo a hard stop.                *)
HardStopHeeded ==
  [][(\E k \in 1 .. workerSeen : State(k) = "HardStop") => popped' = popped]_workVars
=============================================================================
