------------------------------- MODULE MC_Bits -------------------------------
(* For TLC: the book's bit sets through all their operations, and, while   *)
(* the set is empty, the branch-free operators on all their operands.      *)
EXTENDS PriceBits, Branchless

BitsInit == Init /\ FirstCall

BitsNext ==
  \/ FirstCall /\ Next /\ UNCHANGED <<a, b>>
  \/ IsEmpty /\ NextCall /\ UNCHANGED data

BitsSpec == BitsInit /\ [][BitsNext]_<<data, a, b>>
=============================================================================
