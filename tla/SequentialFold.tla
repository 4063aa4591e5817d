---------------------------- MODULE SequentialFold ----------------------------
(* What a call of MapReduce promises, as if it used one thread: arguments  *)
(* are mapped and reduced one after the other in the order they are given, *)
(* starting from the first or from an initial value, and the call returns  *)
(* the result or throws what failed first.  MapReduce implements it.       *)
EXTENDS Naturals, Sequences

CONSTANT N  \* the number of arguments

VARIABLES
  acc,     \* the arguments in the result so far, 0 for the initial value
  outcome  \* how the last call ended, Pending during a call

vars == <<acc, outcome>>

Pending == <<"pending">>
Returned == <<"returned">>
Following(result) == IF result = <<>> THEN 1 ELSE result[Len(result)] + 1

Init == acc = <<>> /\ outcome = Returned

Call ==
  /\ outcome # Pending
  /\ acc' \in {<<>>, <<0>>}
  /\ outcome' = Pending

Take ==
  /\ outcome = Pending
  /\ Following(acc) <= N
  /\ acc' = Append(acc, Following(acc))
  /\ UNCHANGED outcome

Return ==
  /\ outcome = Pending
  /\ Following(acc) = N + 1
  /\ outcome' = Returned
  /\ UNCHANGED acc

(* A thread could not be had, or the map or the reduction of the argument  *)
(* that was to be next failed.                                             *)
Throw ==
  /\ outcome = Pending
  /\ Following(acc) <= N
  /\ \/ Following(acc) = 1 /\ outcome' = <<"launch">>
     \/ outcome' = <<"map", Following(acc)>>
     \/ acc # <<>> /\ outcome' = <<"reduce", Following(acc)>>
  /\ UNCHANGED acc

Next == Call \/ Take \/ Return \/ Throw

Spec == Init /\ [][Next]_vars
=============================================================================
