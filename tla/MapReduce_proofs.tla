--------------------------- MODULE MapReduce_proofs ---------------------------
(* Proofs for MapReduce: the inductive invariant and the refinement of the *)
(* sequential fold, for every number of arguments.                         *)
EXTENDS MapReduce, TLAPS

USE MapReduceAssumption DEF Others, Starts

(* What is appended is the last. *)
LEMMA LastOfAppend ==
  ASSUME NEW T, NEW seq \in Seq(T), NEW e \in T
  PROVE  Append(seq, e) # <<>> /\ Append(seq, e)[Len(Append(seq, e))] = e
OBVIOUS

(* Nothing is in the result yet at the start, whatever the start is. *)
LEMMA StartsAtFirst ==
  ASSUME NEW init \in Starts
  PROVE  init \in Seq(0 .. N) /\ Abstract!Following(init) = 1
<1> DEFINE given == <<0>>
<1>1. given # <<>> /\ given \in Seq({0}) /\ given[Len(given)] = 0 /\ given \in Seq(0 .. N)
  OBVIOUS
<1>2. init = <<>> \/ init = given
  OBVIOUS
<1> HIDE DEF given
<1>3. <<>> \in Seq(0 .. N) /\ Abstract!Following(<<>>) = 1
  BY DEF Abstract!Following
<1>4. given \in Seq(0 .. N) /\ Abstract!Following(given) = 1
  BY <1>1 DEF Abstract!Following
<1> QED
  BY <1>2, <1>3, <1>4

LEMMA InitInv == Init => IInv
BY DEF Init, IInv, TypeOK, NoneOutlives, NoneRunning, InTurn, InOrder, Failures, Pending, Returned

(* What follows in the result, where the caller's place tells. *)
LEMMA FollowingValue ==
  ASSUME IInv
  PROVE  /\ pc \in {"launch", "map"} => Abstract!Following(acc) = 1
         /\ pc = "collect" => Abstract!Following(acc) = next
<1>1. CASE pc \in {"launch", "map"}
  BY <1>1, StartsAtFirst DEF IInv, InOrder
<1>2. CASE pc = "collect"
  BY <1>2 DEF IInv, TypeOK, InOrder, Abstract!Following
<1> QED
  BY <1>1, <1>2

LEMMA LaunchKeepsInv ==
  ASSUME IInv, Launch
  PROVE  IInv'
<1>1. CASE Throw(<<"launch">>)
  <2>1. TypeOK'
    BY <1>1 DEF IInv, TypeOK, Throw, Failures
  <2>2. NoneOutlives' /\ InTurn'
    BY <1>1 DEF Throw, NoneOutlives, InTurn
  <2>3. InOrder'
    BY <1>1, FollowingValue DEF Launch, Throw, InOrder, Abstract!Following
  <2> QED
    BY <2>1, <2>2, <2>3 DEF IInv
<1>2. CASE /\ task' = [task EXCEPT ![next] = "running"]
           /\ IF next = N THEN pc' = "map" /\ next' = 2 ELSE pc' = pc /\ next' = next + 1
           /\ UNCHANGED <<acc, outcome>>
  <2>1. next \in Others /\ pc = "launch"
    BY DEF Launch, IInv, TypeOK, InTurn
  <2>2. TypeOK'
    BY <1>2, <2>1 DEF IInv, TypeOK
  <2>3. NoneOutlives' /\ InOrder'
    BY <1>2, <2>1 DEF IInv, NoneOutlives, InOrder
  <2>4. InTurn'
    BY <1>2, <2>1 DEF IInv, TypeOK, InTurn
  <2> QED
    BY <2>2, <2>3, <2>4 DEF IInv
<1> QED
  BY <1>1, <1>2 DEF Launch

LEMMA NextInv == IInv /\ [Next]_vars => IInv'
<1> SUFFICES ASSUME IInv, [Next]_vars
             PROVE  IInv'
  OBVIOUS
<1>1. ASSUME NEW init \in Starts, Call(init)
      PROVE  IInv'
  <2>1. TypeOK'
    <3>1. init \in Seq(0 .. N) /\ task' \in [Others -> {"none", "running", "done", "failed"}]
      BY <1>1, StartsAtFirst DEF Call
    <3>2. /\ pc' = "launch" /\ next' = 2 /\ acc' = init
          /\ outcome' \in {Pending, Returned} \cup Failures
      BY <1>1 DEF Call
    <3> HIDE DEF Starts
    <3> QED
      BY <3>1, <3>2 DEF TypeOK
  <2>2. NoneOutlives' /\ InTurn' /\ InOrder'
    BY <1>1 DEF Call, NoneOutlives, InTurn, InOrder
  <2> QED
    BY <2>1, <2>2 DEF IInv
<1>2. CASE Launch
  BY <1>2, LaunchKeepsInv
<1>3. CASE MapFirst
  <2>1. pc = "map" /\ Abstract!Following(acc) = 1
    BY <1>3, FollowingValue DEF MapFirst
  <2>2. CASE \/ Throw(<<"map", 1>>)
             \/ acc # <<>> /\ Throw(<<"reduce", 1>>)
    <3>1. TypeOK'
      BY <2>2 DEF IInv, TypeOK, Throw, Failures
    <3>2. NoneOutlives' /\ InTurn'
      BY <2>2 DEF Throw, NoneOutlives, InTurn
    <3>3. InOrder'
      BY <2>1, <2>2 DEF Throw, InOrder, Abstract!Following
    <3> QED
      BY <3>1, <3>2, <3>3 DEF IInv
  <2>3. CASE /\ pc' = "collect"
             /\ acc' = Append(acc, 1)
             /\ UNCHANGED <<task, next, outcome>>
    <3>1. TypeOK'
      BY <2>3 DEF IInv, TypeOK
    <3>2. NoneOutlives' /\ InTurn'
      BY <2>1, <2>3 DEF IInv, NoneOutlives, InTurn
    <3>3. InOrder'
      <4>1. acc' # <<>> /\ acc'[Len(acc')] = 1
        <5>1. acc \in Seq(0 .. N) /\ 1 \in 0 .. N
          BY DEF IInv, TypeOK
        <5> QED
          BY <5>1, <2>3, LastOfAppend
      <4>2. next' - 1 = 1
        BY <2>1, <2>3 DEF IInv, InTurn
      <4> QED
        BY <2>3, <4>1, <4>2 DEF InOrder
    <3> QED
      BY <3>1, <3>2, <3>3 DEF IInv
  <2> QED
    BY <1>3, <2>2, <2>3 DEF MapFirst
<1>4. CASE Collect
  <2>1. pc = "collect" /\ next \in Others /\ Abstract!Following(acc) = next
    BY <1>4, FollowingValue DEF Collect, IInv, TypeOK
  <2>2. CASE \/ Throw(<<"map", next>>)
             \/ acc # <<>> /\ Throw(<<"reduce", next>>)
    <3>1. TypeOK'
      BY <2>1, <2>2 DEF IInv, TypeOK, Throw, Failures
    <3>2. NoneOutlives' /\ InTurn'
      BY <2>2 DEF Throw, NoneOutlives, InTurn
    <3>3. InOrder'
      BY <2>1, <2>2 DEF Throw, InOrder, Abstract!Following
    <3> QED
      BY <3>1, <3>2, <3>3 DEF IInv
  <2>3. CASE /\ task[next] = "done"
             /\ acc' = Append(acc, next)
             /\ next' = next + 1
             /\ UNCHANGED <<pc, task, outcome>>
    <3>1. TypeOK'
      BY <2>1, <2>3 DEF IInv, TypeOK
    <3>2. NoneOutlives' /\ InTurn'
      BY <2>1, <2>3 DEF IInv, NoneOutlives, InTurn
    <3>3. InOrder'
      <4>1. acc' # <<>> /\ acc'[Len(acc')] = next
        <5>1. acc \in Seq(0 .. N) /\ next \in 0 .. N
          BY <2>1 DEF IInv, TypeOK
        <5> QED
          BY <5>1, <2>3, LastOfAppend
      <4>2. next' - 1 = next
        BY <2>1, <2>3
      <4> QED
        BY <2>1, <2>3, <4>1, <4>2 DEF InOrder
    <3> QED
      BY <3>1, <3>2, <3>3 DEF IInv
  <2> QED
    BY <1>4, <2>2, <2>3 DEF Collect, IInv, InOrder
<1>5. CASE Return
  <2>1. TypeOK'
    BY <1>5 DEF Return, Leave, IInv, TypeOK
  <2>2. NoneOutlives' /\ InTurn'
    BY <1>5 DEF Return, Leave, NoneOutlives, NoneRunning, InTurn
  <2>3. pc' = "idle" /\ outcome' # Pending
    BY <1>5 DEF Return, Leave, Returned, Pending
  <2>4. InOrder'
    BY <2>3 DEF InOrder
  <2> QED
    BY <2>1, <2>2, <2>4 DEF IInv
<1>6. CASE Unwind
  <2>1. TypeOK'
    BY <1>6 DEF Unwind, Leave, IInv, TypeOK
  <2>2. NoneOutlives' /\ InTurn'
    BY <1>6 DEF Unwind, Leave, NoneOutlives, NoneRunning, InTurn
  <2>3. pc' = "idle" /\ outcome' = outcome /\ pc = "unwind"
    BY <1>6 DEF Unwind, Leave
  <2>4. \A k : <<"launch">> # Pending /\ <<"map", k>> # Pending /\ <<"reduce", k>> # Pending
    BY DEF Pending
  <2>5. outcome # Pending
    <3>1. \/ outcome = <<"launch">>
          \/ \E k \in {Abstract!Following(acc)} : outcome \in {<<"map", k>>, <<"reduce", k>>}
      BY <2>3 DEF IInv, InOrder
    <3> QED
      BY <2>4, <3>1
  <2>6. InOrder'
    BY <2>3, <2>5 DEF InOrder
  <2> QED
    BY <2>1, <2>2, <2>6 DEF IInv
<1>7. ASSUME NEW i \in Others, Finish(i)
      PROVE  IInv'
  <2>1. TypeOK'
    BY <1>7 DEF Finish, IInv, TypeOK
  <2>2. NoneOutlives' /\ InTurn'
    BY <1>7 DEF Finish, IInv, TypeOK, NoneOutlives, NoneRunning, InTurn
  <2>3. InOrder'
    BY <1>7 DEF Finish, IInv, InOrder, Abstract!Following
  <2> QED
    BY <2>1, <2>2, <2>3 DEF IInv
<1>8. CASE UNCHANGED vars
  BY <1>8 DEF vars, IInv, TypeOK, NoneOutlives, NoneRunning, InTurn, InOrder, Abstract!Following
<1> QED
  BY <1>1, <1>2, <1>3, <1>4, <1>5, <1>6, <1>7, <1>8 DEF Next, Caller

(* The invariant, and with it that no thread outlives its call, holds of   *)
(* every call, however many arguments it has.                              *)
THEOREM Invariance == Spec => []IInv
BY InitInv, NextInv, PTL DEF Spec

THEOREM NoThreadOutlives == Spec => []NoneOutlives
<1>1. IInv => NoneOutlives
  BY DEF IInv
<1> QED
  BY <1>1, Invariance, PTL

-----------------------------------------------------------------------------
(* The refinement. *)

LEMMA InitRefines == Init => Abstract!Init
BY DEF Init, Abstract!Init, Returned, Abstract!Returned

LEMMA NextRefines == IInv /\ [Next]_vars => [Abstract!Next]_Abstract!vars
<1> SUFFICES ASSUME IInv, [Next]_vars
             PROVE  [Abstract!Next]_Abstract!vars
  OBVIOUS
<1> USE DEF Abstract!vars, Abstract!Pending, Pending
(* While the call goes on, steps that leave the result alone are not seen. *)
<1>1. ASSUME pc # "idle", pc' # "idle", UNCHANGED acc
      PROVE  [Abstract!Next]_Abstract!vars
  BY <1>1
<1>2. ASSUME NEW init \in Starts, Call(init)
      PROVE  Abstract!Call
  <2>1. pc = "idle" /\ outcome # Pending /\ pc' = "launch" /\ acc' = init
    BY <1>2 DEF Call, IInv, InOrder
  <2> QED
    BY <2>1 DEF Abstract!Call
<1>3. CASE Launch
  BY <1>3, <1>1 DEF Launch, Throw
<1>4. CASE MapFirst
  <2>1. Abstract!Following(acc) = 1 /\ 1 <= N
    BY <1>4, FollowingValue DEF MapFirst
  <2>2. ASSUME pc' = "collect", acc' = Append(acc, 1)
        PROVE  Abstract!Take
    BY <1>4, <2>1, <2>2 DEF MapFirst, Abstract!Take
  <2> QED
    BY <1>4, <1>1, <2>2 DEF MapFirst, Throw, Abstract!Next
<1>5. CASE Collect
  <2>1. Abstract!Following(acc) = next /\ next <= N
    BY <1>5, FollowingValue DEF Collect
  <2>2. ASSUME UNCHANGED pc, acc' = Append(acc, next)
        PROVE  Abstract!Take
    BY <1>5, <2>1, <2>2 DEF Collect, Abstract!Take
  <2> QED
    BY <1>5, <1>1, <2>2 DEF Collect, Throw, Abstract!Next
<1>6. CASE Return
  BY <1>6, FollowingValue DEF Return, Leave, Abstract!Return, Returned, Abstract!Returned, Abstract!Next
<1>7. CASE Unwind
  BY <1>7 DEF Unwind, Leave, IInv, InOrder, Abstract!Throw, Abstract!Next
<1>8. ASSUME NEW i \in Others, Finish(i)
      PROVE  UNCHANGED Abstract!vars
  BY <1>8 DEF Finish
<1>9. CASE UNCHANGED vars
  BY <1>9 DEF vars
<1> QED
  BY <1>2, <1>3, <1>4, <1>5, <1>6, <1>7, <1>8, <1>9 DEF Next, Caller, Abstract!Next

(* Threads in every order and failures everywhere give what one thread     *)
(* that maps and reduces in turn could give.                               *)
THEOREM RefinesFold == Spec => IsSequentialFold
<1>1. Spec => Abstract!Init /\ [][Abstract!Next]_Abstract!vars
  BY InitRefines, NextRefines, Invariance, PTL DEF Spec
<1> QED
  BY <1>1, PTL DEF IsSequentialFold, Abstract!Spec
=============================================================================
