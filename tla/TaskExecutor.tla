---------------------------- MODULE TaskExecutor ----------------------------
(* The executor of task_executor.hpp in a Debug build: a client submits    *)
(* functions to a worker and waits for each answer in a channel.  Task n   *)
(* answers in channel n, which outlives the executor.                      *)
EXTENDS TaskWorker

VARIABLES
  submitted,  \* the number of functions for which submit returned true
  ready,      \* the channels that are set
  waiting     \* the channel the client is waiting for in get, or 0

clientVars == <<submitted, ready, waiting>>
vars == <<workVars, clientVars>>

Init == WorkInit /\ submitted = 0 /\ ready = {} /\ waiting = 0

-----------------------------------------------------------------------------

(* try_submit, when _approx_full says no: the push succeeds then, and the  *)
(* assertion around it holds (PushAfterNotFull of RingBufferSPSC).  When   *)
(* it says yes nothing changes.                                            *)
TrySubmit ==
  /\ Push
  /\ submitted' = submitted + 1
  /\ UNCHANGED <<ready, waiting>>

(* submit calls try_submit until it returns true. *)
BeginSubmit ==
  /\ opc = "idle" /\ pushed < MaxTasks
  /\ \E k \in Loadable(ownerSeen) : State(k) = "Running" /\ ownerSeen' = k
  /\ opc' = "submitting"
  /\ UNCHANGED <<stores, pushed, workerVars, clientVars>>

Submit ==
  /\ opc = "submitting"
  /\ Enqueue
  /\ opc' = "idle"
  /\ submitted' = submitted + 1
  /\ UNCHANGED <<ready, waiting>>

(* Channel::get spins until the channel is set. *)
BeginGet(n) ==
  /\ opc \in {"idle", "gone"} /\ waiting = 0
  /\ waiting' = n
  /\ UNCHANGED <<workVars, submitted, ready>>

Get ==
  /\ waiting \in ready
  /\ waiting' = 0
  /\ UNCHANGED <<workVars, submitted, ready>>

(* Mutant: the answer goes to the channel of the task pushed last. *)
ExecuteForLast ==
  /\ RunTask
  /\ ready' = ready \cup {pushed}
  /\ UNCHANGED <<submitted, waiting>>

(* The task calls the function with the channel, which sets it. *)
Execute ==
  /\ RunTask
  /\ ready' = ready \cup {popped}
  /\ UNCHANGED <<submitted, waiting>>

-----------------------------------------------------------------------------
Client ==
  \/ /\ waiting = 0
     /\ \/ TrySubmit
        \/ BeginSubmit
        \/ Submit
        \/ (Stop \/ HardStop \/ CheckState \/ StoreStopping \/ Join) /\ UNCHANGED clientVars
        \/ \E n \in 1 .. submitted : BeginGet(n)
  \/ Get

Thread ==
  \/ Execute
  \/ (Poll \/ Drain \/ Pop) /\ UNCHANGED clientVars

Next == Client \/ Thread

Spec == Init /\ [][Next]_vars

(* The thread runs, tasks return, and what was stored is seen in the end   *)
(* by a thread that keeps loading.  The client need not do anything, but   *)
(* one that spins in submit or get, or is in the destructor, goes on when  *)
(* it can.                                                                 *)
Fairness ==
  /\ WF_vars(Thread)
  /\ SF_vars(PollFrom(Latest) /\ UNCHANGED clientVars)
  /\ SF_vars(PopUpTo(pushed) /\ UNCHANGED clientVars)
  /\ WF_vars(Submit) /\ WF_vars(Get)
  /\ WF_vars((StoreStopping \/ Join) /\ UNCHANGED clientVars)

FairSpec == Spec /\ Fairness

-----------------------------------------------------------------------------
(* The client's variables count what they say; a client waits for one      *)
(* channel at a time, and never inside submit or the destructor.           *)
TypeOK ==
  /\ WorkTypeOK
  /\ submitted \in 0 .. MaxTasks
  /\ ready \subseteq 1 .. MaxTasks
  /\ waiting \in 0 .. submitted
  /\ waiting # 0 => opc \in {"idle", "gone"}

(* A channel that is set belongs to a task that ran, and its answer came   *)
(* after every answer to an earlier submission.                            *)
AnswersInOrder == TypeOK /\ \E n \in 0 .. popped : ready = 1 .. n

(* What makes the drain complete: the state is Running until the owner or  *)
(* a task stores another, every Stopping that was stored publishes all the *)
(* pushes there are, and the owner knows of it; the worker has seen the    *)
(* pushes its load brought, and leaves the first loop only for a state     *)
(* that is not Running.                                                    *)
StoresInOrder ==
  /\ State(1) = "Running"
  /\ \A k \in 1 .. Latest : stores[k].tasks <= pushed
  /\ \A k \in 2 .. Latest :
       /\ State(k) # "Running"
       /\ State(k) = "Stopping" => k <= ownerSeen /\ stores[k].tasks = pushed

WorkerInformed ==
  /\ stores[workerSeen].tasks <= tailSeen
  /\ wpc = "pop" => workerSeen = 1
  /\ wpc = "drainPop" => State(workerSeen) = "Stopping"
  /\ wpc \in {"drain", "drainPop", "drainRun", "done"} => workerSeen > 1

(* The channels set are those of the tasks that have run. *)
Running == wpc \in {"run", "drainRun"}
Answered == ready = 1 .. IF Running THEN popped - 1 ELSE popped

Counted ==
  /\ popped \in Nat /\ tailSeen \in Nat /\ submitted = pushed
  /\ Running => popped > 0

(* The inductive invariant of the executor. *)
IInv == TypeOK /\ Counted /\ StoresInOrder /\ WorkerInformed /\ Answered /\ StopDrains

(* Every call of the client returns.  A get returns unless a hard stop has *)
(* dropped the task: then it spins for ever.  A submit that finds the ring *)
(* full gets its turn, and a destructor that joins the thread returns,     *)
(* whatever was queued.                                                    *)
CallsReturn ==
  /\ waiting # 0 ~> waiting = 0 \/ HardStopped
  /\ opc = "submitting" ~> opc = "idle"
  /\ opc = "joining" ~> opc = "gone"
=============================================================================
