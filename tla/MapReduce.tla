------------------------------- MODULE MapReduce -------------------------------
(* MapReduce of map_reduce.hpp: run and run_with_init over N arguments, of *)
(* which the caller maps the first and threads of std::async the others.   *)
(* The map, the reduction and the start of a thread may throw.  The result *)
(* is the sequence of the arguments reduced into it, the most that a       *)
(* reduction of unknown kind can depend on.                                *)
EXTENDS Naturals, Sequences

CONSTANT N  \* the number of arguments

(* With one argument the array of futures has no type.                     *)
ASSUME MapReduceAssumption == N \in Nat \ {0, 1}

VARIABLES
  pc,      \* where the caller is, "idle" between calls
  task,    \* the threads of the call, by the argument they map
  next,    \* the future that is created or read next
  acc,     \* init, as the arguments in it; 0 stands for the caller's value
  outcome  \* how the last call ended, or is going to end when pc = "unwind"

vars == <<pc, task, next, acc, outcome>>

Others == 2 .. N

(* What a call may start from: nothing, or the value given to            *)
(* run_with_init.                                                          *)
Starts == {<<>>, <<0>>}

Pending == <<"pending">>
Returned == <<"returned">>

Init ==
  /\ pc = "idle"
  /\ task = [i \in Others |-> "none"]
  /\ next = 2
  /\ acc = <<>>
  /\ outcome = Returned

-----------------------------------------------------------------------------
(* The caller.                                                             *)

Throw(failure) ==
  /\ pc' = "unwind"
  /\ outcome' = failure
  /\ UNCHANGED <<task, next, acc>>

(* run, and run_with_init with the value to start from. *)
Call(init) ==
  /\ pc = "idle"
  /\ pc' = "launch"
  /\ task' = [i \in Others |-> "none"]
  /\ next' = 2
  /\ acc' = init
  /\ outcome' = Pending

(* Mutant: the last future is left without a thread. *)
LaunchAllButOne ==
  /\ pc = "launch"
  /\ \/ /\ task' = [task EXCEPT ![next] = "running"]
        /\ IF next >= N - 1 THEN pc' = "map" /\ next' = 2 ELSE pc' = pc /\ next' = next + 1
        /\ UNCHANGED <<acc, outcome>>
     \/ Throw(<<"launch">>)

Launch ==
  /\ pc = "launch"
  /\ \/ /\ task' = [task EXCEPT ![next] = "running"]
        /\ IF next = N THEN pc' = "map" /\ next' = 2 ELSE pc' = pc /\ next' = next + 1
        /\ UNCHANGED <<acc, outcome>>
     \/ Throw(<<"launch">>)

(* The first argument, mapped while the threads map the others. *)
MapFirst ==
  /\ pc = "map"
  /\ \/ /\ pc' = "collect"
        /\ acc' = Append(acc, 1)
        /\ UNCHANGED <<task, next, outcome>>
     \/ Throw(<<"map", 1>>)
     \/ acc # <<>> /\ Throw(<<"reduce", 1>>)

(* Mutant: futures are read as they become ready. *)
CollectReady ==
  /\ pc = "collect"
  /\ \E i \in Others :
       /\ task[i] = "done" /\ i \notin {acc[k] : k \in DOMAIN acc}
       /\ acc' = Append(acc, i)
       /\ next' = next + 1
       /\ UNCHANGED <<pc, task, outcome>>

(* future.get() waits for the thread, and throws what the thread threw. *)
Collect ==
  /\ pc = "collect" /\ next <= N
  /\ \/ /\ task[next] = "done"
        /\ acc' = Append(acc, next)
        /\ next' = next + 1
        /\ UNCHANGED <<pc, task, outcome>>
     \/ task[next] = "done" /\ Throw(<<"reduce", next>>)
     \/ task[next] = "failed" /\ Throw(<<"map", next>>)

NoneRunning == \A i \in Others : task[i] # "running"

(* The array of futures goes out of scope, and the destructor of each      *)
(* waits for its thread.                                                   *)
Leave(result) ==
  /\ NoneRunning
  /\ pc' = "idle"
  /\ outcome' = result
  /\ UNCHANGED <<task, next, acc>>

Return == pc = "collect" /\ next = N + 1 /\ Leave(Returned)

(* Mutant: threads are detached when something was thrown. *)
UnwindAtOnce == pc = "unwind" /\ pc' = "idle" /\ UNCHANGED <<task, next, acc, outcome>>

Unwind == pc = "unwind" /\ Leave(outcome)

Caller == Launch \/ MapFirst \/ Collect \/ Return \/ Unwind

-----------------------------------------------------------------------------
(* A thread's map of its argument comes to its end. *)
Finish(i) ==
  /\ task[i] = "running"
  /\ \E result \in {"done", "failed"} : task' = [task EXCEPT ![i] = result]
  /\ UNCHANGED <<pc, next, acc, outcome>>

Next ==
  \/ \E init \in Starts : Call(init)
  \/ Caller
  \/ \E i \in Others : Finish(i)

Spec == Init /\ [][Next]_vars

(* All threads are scheduled, and the map function returns or throws. *)
FairSpec == Spec /\ WF_vars(Caller) /\ \A i \in Others : WF_vars(Finish(i))

-----------------------------------------------------------------------------
Failures ==
  {<<"launch">>} \cup ({"map", "reduce"} \X (1 .. N))

(* The types, and what the caller's place tells of threads and result.     *)
TypeOK ==
  /\ pc \in {"idle", "launch", "map", "collect", "unwind"}
  /\ task \in [Others -> {"none", "running", "done", "failed"}]
  /\ next \in 2 .. N + 1
  /\ acc \in Seq(0 .. N)
  /\ outcome \in {Pending, Returned} \cup Failures

(* No thread of a call outlives it: each maps with the function inside of  *)
(* an object that the caller may destroy as soon as the call is over,      *)
(* however it ended.                                                       *)
NoneOutlives == pc = "idle" => NoneRunning

(* Threads are started once each and in the order of the arguments, and    *)
(* the futures before the next have been read.                             *)
InTurn ==
  /\ pc = "launch" => next <= N /\ \A i \in Others : task[i] = "none" <=> i >= next
  /\ pc = "map" => next = 2
  /\ pc \in {"map", "collect"} => \A i \in Others : task[i] # "none"
  /\ pc = "collect" => \A i \in 2 .. next - 1 : task[i] = "done"

Abstract ==
  INSTANCE SequentialFold WITH outcome <- IF pc = "idle" THEN outcome ELSE Pending

(* The result ends where the caller is, and what was thrown is about the  *)
(* argument that was to follow.                                            *)
InOrder ==
  /\ pc = "idle" => outcome # Pending
  /\ pc \in {"launch", "map"} => acc \in Starts
  /\ pc = "collect" => acc # <<>> /\ acc[Len(acc)] = next - 1
  /\ pc = "unwind" =>
       \/ Abstract!Following(acc) = 1 /\ outcome = <<"launch">>
       \/ Abstract!Following(acc) <= N /\ outcome = <<"map", Abstract!Following(acc)>>
       \/ acc # <<>> /\ Abstract!Following(acc) <= N /\ outcome = <<"reduce", Abstract!Following(acc)>>

IInv == TypeOK /\ NoneOutlives /\ InTurn /\ InOrder

(* However the threads are scheduled, a call gives the result of mapping   *)
(* and reducing in the order of the arguments, or throws what fails first  *)
(* in that order.                                                          *)
IsSequentialFold == Abstract!Spec

(* Every call ends. *)
CallEnds == pc # "idle" ~> pc = "idle"
=============================================================================
