------------------------------ MODULE Branchless ------------------------------
(* branchless.hpp: selections made with masks instead of branches, on a    *)
(* signed type of 2 * Half values in two's complement.  Each operator is   *)
(* the set of the results the program may get: one, unless the difference  *)
(* overflows in a type that is not narrower than int, where the behaviour  *)
(* is undefined and the difference may be anything.                        *)
EXTENDS Integers

CONSTANTS
  Half,     \* 2^(bits - 1)
  Promoted  \* the type is narrower than int: arithmetic is exact, then cut

ASSUME BranchlessAssumption == Half \in Nat \ {0} /\ Promoted \in BOOLEAN

VARIABLES a, b  \* the operands of the call that is made now

Ints == -Half .. Half - 1

(* A value at most once around, as conversion to the type leaves it. *)
Cut(v) == IF v >= Half THEN v - 2 * Half ELSE IF v < -Half THEN v + 2 * Half ELSE v

Outcomes(v) == IF v \in Ints \/ Promoted THEN {Cut(v)} ELSE Ints

(* All ones or all zeros; the shift is arithmetic. *)
SignMask(diff) == diff \div Half
BoolMask(cond) == IF cond THEN -1 ELSE 0

And(v, mask) == IF mask = -1 THEN v ELSE 0
Not(mask) == -1 - mask

-----------------------------------------------------------------------------
(* Mutant: the difference is added to the operand it was taken from. *)
MinFromFirst(x, y) ==
  UNION {Outcomes(x + And(diff, SignMask(diff))) : diff \in Outcomes(x - y)}

LeastOf(x, y) ==
  UNION {Outcomes(y + And(diff, SignMask(diff))) : diff \in Outcomes(x - y)}

GreatestOf(x, y) ==
  UNION {Outcomes(x - And(diff, SignMask(diff))) : diff \in Outcomes(x - y)}

InRange(x, lo, hi) == x >= lo /\ x <= hi

ZeroIfTrue(x, cond) == And(x, Not(BoolMask(cond)))

(* The two parts have no bits in common: or is a sum. *)
OneIfTrue(x, cond) == And(x, Not(BoolMask(cond))) + And(1, BoolMask(cond))

AddIfTrue(x, v, cond) == Outcomes(x + And(v, BoolMask(cond)))
SubIfTrue(x, v, cond) == Outcomes(x - And(v, BoolMask(cond)))
IncIfTrue(x, cond) == AddIfTrue(x, 1, cond)
DecIfTrue(x, cond) == SubIfTrue(x, 1, cond)

-----------------------------------------------------------------------------
(* Calls with whatever operands the type has.                              *)
FirstCall == a = 0 /\ b = 0
NextCall == a' \in Ints /\ b' \in Ints
Calls == FirstCall /\ [][NextCall]_<<a, b>>

(* min and max are exact for the operands whose difference the type can    *)
(* hold and for no others.                                                 *)
MinMaxExact ==
  /\ LeastOf(a, b) = {IF a < b THEN a ELSE b} <=> a - b \in Ints
  /\ GreatestOf(a, b) = {IF a < b THEN b ELSE a} <=> a - b \in Ints

(* The conditional operators select what an if would.                      *)
SelectsExact ==
  \A x, v \in Ints, cond \in BOOLEAN :
    /\ ZeroIfTrue(x, cond) = IF cond THEN 0 ELSE x
    /\ OneIfTrue(x, cond) = IF cond THEN 1 ELSE x
    /\ x + v \in Ints => AddIfTrue(x, v, cond) = {IF cond THEN x + v ELSE x}
    /\ x - v \in Ints => SubIfTrue(x, v, cond) = {IF cond THEN x - v ELSE x}
    /\ x + 1 \in Ints => IncIfTrue(x, cond) = {IF cond THEN x + 1 ELSE x}
    /\ x - 1 \in Ints => DecIfTrue(x, cond) = {IF cond THEN x - 1 ELSE x}
=============================================================================
