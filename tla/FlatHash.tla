------------------------------ MODULE FlatHash ------------------------------
(* The open-addressing hash map of flat_hash.hpp.  A slot is free, used or *)
(* a tombstone, which an erase leaves behind so that probes go on past it. *)
EXTENDS Integers, FiniteSets, FiniteSetsExt

CONSTANTS
  Capacity,  \* the code wants a power of two and 8 at least
  Keys, Values, NoValue

(* What the code asserts at compile time, for this size and larger ones.   *)
CapacityIsPower == \E n \in 2 .. 30 : Capacity = 2 ^ n

(* All that the map needs of it: the steps of a probe then reach every     *)
(* slot.  Keys are integers of any sign.                                   *)
HashAssumption ==
  /\ Capacity \in Nat \ {0} /\ Capacity % 4 = 0
  /\ Keys \subseteq Int

Slots == 0 .. Capacity - 1
Step == Capacity \div 2 - 1
None == -1

VARIABLES
  kind,   \* "free", "tomb" or "used": _freeBits and _tombBits
  key,    \* _keys, looked at only where the slot is used
  value,  \* _values, likewise
  size,   \* _size
  ok      \* whether the last call succeeded

vars == <<kind, key, value, size, ok>>

Init ==
  /\ kind = [s \in Slots |-> "free"]
  /\ key = [s \in Slots |-> NoValue]
  /\ value = [s \in Slots |-> NoValue]
  /\ size = 0
  /\ ok = TRUE

-----------------------------------------------------------------------------
(* The slot a probe for k looks at in its i-th round, from round 0. *)
Probe(k, i) == (k + i * Step) % Capacity

Rounds == 0 .. Capacity - 1

(* The rounds a probe for k gets to: it ends at the first free slot. *)
Reached(k) == {i \in Rounds : \A j \in 0 .. i - 1 : kind[Probe(k, j)] # "free"}

Hits(k) == {i \in Reached(k) : kind[Probe(k, i)] = "used" /\ key[Probe(k, i)] = k}
Vacant(k) == {i \in Reached(k) : kind[Probe(k, i)] # "used"}

Find(k) == IF Hits(k) = {} THEN None ELSE Probe(k, Min(Hits(k)))

(* Mutant: a new key is put where the probe ended, a key met on the way is *)
(* not looked for behind a tombstone.                                      *)
InsertAtFirstVacant(k, v) ==
  /\ Vacant(k) # {}
  /\ LET slot == Probe(k, Min(Vacant(k)))
     IN  /\ kind' = [kind EXCEPT ![slot] = "used"]
         /\ key' = [key EXCEPT ![slot] = k]
         /\ value' = [value EXCEPT ![slot] = v]
         /\ size' = size + 1
  /\ ok' = TRUE

(* insert: the key's own slot if the probe meets it, otherwise the first   *)
(* tombstone it met, otherwise the free slot it ended at.                  *)
Overwrite(k, v) ==
  /\ Find(k) # None
  /\ value' = [value EXCEPT ![Find(k)] = v]
  /\ ok' = TRUE
  /\ UNCHANGED <<kind, key, size>>

InsertNew(k, v) ==
  /\ Find(k) = None /\ Vacant(k) # {}
  /\ LET slot == Probe(k, Min(Vacant(k)))
     IN  /\ kind' = [kind EXCEPT ![slot] = "used"]
         /\ key' = [key EXCEPT ![slot] = k]
         /\ value' = [value EXCEPT ![slot] = v]
         /\ size' = size + 1
  /\ ok' = TRUE

InsertInFull(k) ==
  /\ Find(k) = None /\ Vacant(k) = {}
  /\ ok' = FALSE
  /\ UNCHANGED <<kind, key, value, size>>

Insert(k, v) == Overwrite(k, v) \/ InsertNew(k, v) \/ InsertInFull(k)

(* Mutant: the slot becomes free, which cuts the probes that went past it. *)
EraseToFree(slot) ==
  /\ slot # None
  /\ kind' = [kind EXCEPT ![slot] = "free"]
  /\ key' = [key EXCEPT ![slot] = NoValue]
  /\ value' = [value EXCEPT ![slot] = NoValue]
  /\ size' = size - 1
  /\ ok' = TRUE

(* erase of a slot a find returned.  Key and value stay behind in the code *)
(* and are not looked at again; the model blanks them.                     *)
EraseSlot(slot) ==
  /\ slot # None
  /\ kind' = [kind EXCEPT ![slot] = "tomb"]
  /\ key' = [key EXCEPT ![slot] = NoValue]
  /\ value' = [value EXCEPT ![slot] = NoValue]
  /\ size' = size - 1
  /\ ok' = TRUE

EraseNone(slot) ==
  /\ slot = None
  /\ ok' = FALSE
  /\ UNCHANGED <<kind, key, value, size>>

Clear ==
  /\ kind' = [s \in Slots |-> "free"]
  /\ key' = [s \in Slots |-> NoValue]
  /\ value' = [s \in Slots |-> NoValue]
  /\ size' = 0
  /\ ok' = TRUE

-----------------------------------------------------------------------------
(* A client erases what it has just found. *)
Next ==
  \/ \E k \in Keys, v \in Values : Insert(k, v)
  \/ \E k \in Keys : EraseSlot(Find(k)) \/ EraseNone(Find(k))
  \/ Clear

Spec == Init /\ [][Next]_vars

-----------------------------------------------------------------------------
Used == {s \in Slots : kind[s] = "used"}

(* A used slot has a key and a value, the others none; the size is in      *)
(* range.                                                                  *)
TypeOK ==
  /\ kind \in [Slots -> {"free", "tomb", "used"}]
  /\ key \in [Slots -> Keys \cup {NoValue}]
  /\ value \in [Slots -> Values \cup {NoValue}]
  /\ \A s \in Slots : IF s \in Used THEN key[s] \in Keys /\ value[s] \in Values
                      ELSE key[s] = NoValue /\ value[s] = NoValue
  /\ size \in 0 .. Capacity
  /\ ok \in BOOLEAN

(* The probe for the key of a used slot ends exactly there: nothing that   *)
(* was erased or inserted since cuts its way, and no second slot has the   *)
(* same key.                                                               *)
EveryKeyFound == TypeOK /\ \A s \in Used : Find(key[s]) = s

(* The inductive invariant of the map: as each key is found in one slot,   *)
(* the size need only count the slots.                                     *)
IInv == EveryKeyFound /\ size = Cardinality(Used)

(* The pairs of key and value in the table. *)
KeysIn(U, ky) == {ky[s] : s \in U}
MapOf(U, ky, vl) == [k \in KeysIn(U, ky) |-> vl[CHOOSE s \in U : ky[s] = k]]
Contents == MapOf(Used, key, value)

(* Overwriting, reusing tombstones, a table without free slots: it is a    *)
(* map, and its size that of the map.                                      *)
Map == INSTANCE KeyMap WITH map <- Contents

IsMap == Map!Spec
=============================================================================
