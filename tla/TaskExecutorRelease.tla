------------------------- MODULE TaskExecutorRelease -------------------------
(* The executor of task_executor.hpp in a Release build.  CMakePresets     *)
(* defines NDEBUG, so the assertion on line 86 is not compiled and the     *)
(* push inside it does not take place.                                     *)
EXTENDS TaskExecutor

TrySubmitRelease ==
  /\ opc = "idle" /\ submitted < MaxTasks
  /\ pushed - popped < Capacity
  /\ submitted' = submitted + 1
  /\ UNCHANGED <<workVars, ready, waiting>>

NextRelease ==
  \/ waiting = 0 /\ TrySubmitRelease
  \/ waiting = 0 /\ \E n \in 1 .. submitted : BeginGet(n)
  \/ waiting = 0 /\ (Stop \/ CheckState \/ StoreStopping \/ Join) /\ UNCHANGED clientVars
  \/ Get
  \/ Thread

FairRelease == Init /\ [][NextRelease]_vars /\ Fairness

(* README.md:136: the executor "executes a function in a separate thread.  *)
(* Result retrieved via Channel::get".  So a get returns when the client   *)
(* never asked for a hard stop, which this client cannot.                  *)
ResultRetrieved == waiting # 0 ~> waiting = 0
=============================================================================
