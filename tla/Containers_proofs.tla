--------------------------- MODULE Containers_proofs ---------------------------
(* Proofs about FlatHash for every capacity that is a multiple of four and *)
(* any integers as keys: no probe loses its key, and the table is a map    *)
(* that refuses a new key only when it is full.  Then about FlatList, for  *)
(* every capacity and any values, as MC_Containers uses it: its links read *)
(* the same both ways, and they are a list with stable slots.              *)
EXTENDS MC_Containers, FiniteSetTheorems, WellFoundedInduction, TLAPS

-----------------------------------------------------------------------------
(* Arithmetic.                                                             *)

(* A set of naturals with an element has a least one.                      *)
LEMMA Least ==
  ASSUME NEW S \in SUBSET Nat, S # {}
  PROVE  Min(S) \in S /\ \A n \in S : Min(S) <= n
<1> DEFINE R == StrictSubsetOrdering(Nat)
           N == {0 .. m : m \in S}
<1>1. IsWellFoundedOn(R, FiniteSubsetsOf(Nat))
  BY FS_StrictSubsetOrderingWellFounded
<1>2. N \subseteq FiniteSubsetsOf(Nat) /\ N # {}
  <2>1. \A m \in S : IsFiniteSet(0 .. m) /\ 0 .. m \in SUBSET Nat
    BY FS_Interval
  <2>2. N \subseteq FiniteSubsetsOf(Nat)
    BY <2>1 DEF FiniteSubsetsOf
  <2> QED
    BY <2>2
<1>3. \E x \in N : \A y \in N : ~ (<<y, x>> \in R)
  <2> HIDE DEF R, N
  <2> QED
    BY <1>1, <1>2, WFMin
<1>4. PICK m \in S : \A n \in S : ~ (<<0 .. n, 0 .. m>> \in R)
  <2> HIDE DEF R
  <2> QED
    BY <1>3
<1>5. ASSUME NEW n \in S, n < m
      PROVE  FALSE
  <2>1. 0 .. n \in SUBSET Nat /\ 0 .. m \in SUBSET Nat /\ 0 .. n \subseteq 0 .. m /\ 0 .. n # 0 .. m
    BY <1>5
  <2>2. <<0 .. n, 0 .. m>> \in R
    BY <2>1 DEF StrictSubsetOrdering
  <2> QED
    BY <1>4, <2>2
<1> HIDE DEF R, N
<1>6. m \in S /\ \A n \in S : m <= n
  BY <1>5
<1> QED
  BY <1>6 DEF Min

LEMMA Remainder ==
  ASSUME NEW n \in Nat \ {0}, NEW x \in Int
  PROVE  x % n \in 0 .. n - 1 /\ \E q \in Int : x = n * q + (x % n)
<1>1. x % n \in 0 .. n - 1
  OBVIOUS
<1>2. x \div n \in Int /\ x = n * (x \div n) + (x % n)
  OBVIOUS
<1> QED
  BY <1>1, <1>2

(* A probe stays in the table, and its rounds look at different slots.     *)
LEMMA ProbeInTable ==
  ASSUME HashAssumption, NEW k \in Int, NEW i \in Int
  PROVE  Probe(k, i) \in Slots
<1>1. Step \in Int
  BY DEF HashAssumption, Step
<1>2. k + i * Step \in Int
  BY <1>1
<1> QED
  BY <1>2, Remainder DEF HashAssumption, Probe, Slots

LEMMA ProbesDiffer ==
  ASSUME HashAssumption, NEW k \in Int, NEW i \in Rounds, NEW j \in Rounds, j < i
  PROVE  Probe(k, i) # Probe(k, j)
<1> SUFFICES ASSUME Probe(k, i) = Probe(k, j)
             PROVE  FALSE
  OBVIOUS
<1>1. PICK m \in Nat \ {0} : Capacity = 4 * m
  <2>1. Capacity \div 4 \in Int /\ Capacity = 4 * (Capacity \div 4) + (Capacity % 4)
    BY DEF HashAssumption
  <2> QED
    BY <2>1 DEF HashAssumption
<1>2. Step = 2 * m - 1
  BY <1>1 DEF Step
<1> DEFINE x == k + i * Step
           y == k + j * Step
           d == i - j
<1>3. d \in 1 .. 4 * m - 1 /\ i \in Int /\ j \in Int
  BY <1>1 DEF Rounds
<1>4. x \in Int /\ y \in Int /\ x % Capacity = y % Capacity
  BY <1>2, <1>3 DEF Probe
<1>5. x - y = d * (2 * m - 1)
  BY <1>2, <1>3
<1> HIDE DEF x, y, d
<1>6. PICK a \in Int, b \in Int : x - y = Capacity * a - Capacity * b
  <2>1. PICK a \in Int : x = Capacity * a + (x % Capacity)
    BY <1>4, Remainder DEF HashAssumption
  <2>2. PICK b \in Int : y = Capacity * b + (y % Capacity)
    BY <1>4, Remainder DEF HashAssumption
  <2>3. x % Capacity \in Int /\ Capacity * a \in Int /\ Capacity * b \in Int
    BY <1>1, <1>4, Remainder DEF HashAssumption
  <2> QED
    BY <1>4, <2>1, <2>2, <2>3
<1>7. d * (2 * m - 1) = 4 * m * (a - b)
  BY <1>1, <1>5, <1>6
<1>8. d = 2 * m * (d - 2 * (a - b))
  BY <1>3, <1>7
<1>9. PICK e \in Int : e = d - 2 * (a - b) /\ d = 2 * m * e
  BY <1>3, <1>8
<1>10. e = 1
  <2>1. CASE e <= 0
    <3>1. m * e <= 0
      BY <2>1
    <3> QED
      BY <1>3, <1>9, <3>1
  <2>2. CASE e >= 2
    <3>1. m * e >= 2 * m
      BY <2>2
    <3> QED
      BY <1>3, <1>9, <3>1
  <2> QED
    BY <2>1, <2>2
<1> QED
  BY <1>3, <1>9, <1>10

(* So a probe that is nowhere cut short looks at every slot.               *)
LEMMA ProbesReachAll ==
  ASSUME HashAssumption, NEW k \in Int, NEW s \in Slots
  PROVE  \E i \in Rounds : Probe(k, i) = s
<1> DEFINE f == [i \in Rounds |-> Probe(k, i)]
<1>1. f \in [Rounds -> Slots]
  BY ProbeInTable DEF Rounds
<1>2. \A i, j \in Rounds : f[i] = f[j] => i = j
  <2> SUFFICES ASSUME NEW i \in Rounds, NEW j \in Rounds, f[i] = f[j], i # j
               PROVE  FALSE
    OBVIOUS
  <2>1. i < j \/ j < i
    BY DEF Rounds
  <2> QED
    BY <2>1, ProbesDiffer
<1>3. f \in Injection(Rounds, Slots)
  BY <1>1, <1>2 DEF Injection, IsInjective
<1>4. IsFiniteSet(Slots) /\ Rounds = Slots
  BY FS_Interval DEF Slots, Rounds, HashAssumption
<1>5. f \in Surjection(Rounds, Slots)
  <2> HIDE DEF f
  <2> QED
    BY <1>3, <1>4, FS_Injection
<1> QED
  BY <1>5 DEF Surjection

-----------------------------------------------------------------------------
(* What a find sees, as an operator of the table it looks at.              *)
ReachedIn(kd, k) == {i \in Rounds : \A j \in 0 .. i - 1 : kd[Probe(k, j)] # "free"}
HitsIn(kd, ky, k) ==
  {i \in ReachedIn(kd, k) : kd[Probe(k, i)] = "used" /\ ky[Probe(k, i)] = k}
FindIn(kd, ky, k) == IF HitsIn(kd, ky, k) = {} THEN None ELSE Probe(k, Min(HitsIn(kd, ky, k)))

LEMMA FindsIn ==
  /\ \A k : Find(k) = FindIn(kind, key, k)
  /\ \A k : Find(k)' = FindIn(kind', key', k)
BY DEF Find, FindIn, Hits, HitsIn, Reached, ReachedIn

(* What a find returns, if anything, is a slot with the key.               *)
LEMMA FoundIsKey ==
  ASSUME HashAssumption, NEW kd, NEW ky, NEW k \in Int, FindIn(kd, ky, k) # None
  PROVE  /\ FindIn(kd, ky, k) \in Slots
         /\ kd[FindIn(kd, ky, k)] = "used" /\ ky[FindIn(kd, ky, k)] = k
         /\ \E i \in ReachedIn(kd, k) : Probe(k, i) = FindIn(kd, ky, k)
<1> DEFINE H == HitsIn(kd, ky, k)
<1>1. H # {} /\ H \in SUBSET Nat /\ FindIn(kd, ky, k) = Probe(k, Min(H))
  BY DEF FindIn, HitsIn, ReachedIn, Rounds
<1>2. Min(H) \in H
  <2> HIDE DEF H
  <2> QED
    BY <1>1, Least
<1>3. Min(H) \in ReachedIn(kd, k) /\ kd[Probe(k, Min(H))] = "used" /\ ky[Probe(k, Min(H))] = k
  <2> DEFINE m == Min(H)
  <2>1. m \in HitsIn(kd, ky, k)
    BY <1>2
  <2> HIDE DEF m
  <2> QED
    BY <2>1 DEF HitsIn, m
<1>4. Probe(k, Min(H)) \in Slots
  BY <1>3, ProbeInTable DEF ReachedIn, Rounds
<1> QED
  BY <1>1, <1>3, <1>4

(* A key that a probe meets, and in one slot only, is found there.         *)
LEMMA KeyIsFound ==
  ASSUME HashAssumption, NEW kd, NEW ky, NEW s \in Slots, kd[s] = "used", ky[s] \in Int,
         \A t \in Slots : kd[t] = "used" /\ ky[t] = ky[s] => t = s,
         NEW i \in ReachedIn(kd, ky[s]), Probe(ky[s], i) = s
  PROVE  FindIn(kd, ky, ky[s]) = s
<1>1. i \in HitsIn(kd, ky, ky[s])
  BY DEF HitsIn
<1>2. FindIn(kd, ky, ky[s]) # None
  <2>1. \A j \in HitsIn(kd, ky, ky[s]) : Probe(ky[s], j) \in Slots
    BY ProbeInTable DEF HitsIn, ReachedIn, Rounds
  <2>2. Min(HitsIn(kd, ky, ky[s])) \in HitsIn(kd, ky, ky[s])
    <3>1. HitsIn(kd, ky, ky[s]) \in SUBSET Nat
      BY DEF HitsIn, ReachedIn, Rounds
    <3> QED
      BY <1>1, <3>1, Least
  <2> QED
    BY <1>1, <2>1, <2>2 DEF FindIn, None, Slots
<1> QED
  BY <1>2, FoundIsKey

(* In the state the invariant describes: a key in the table is found, and  *)
(* in its own slot; a key that is not found is nowhere.                    *)
LEMMA InTable ==
  ASSUME HashAssumption, IInv, NEW s \in Used
  PROVE  /\ s \in Slots /\ kind[s] = "used" /\ key[s] \in Keys /\ key[s] \in Int
         /\ FindIn(kind, key, key[s]) = s
         /\ \A t \in Used : key[t] = key[s] => t = s
         /\ \E i \in ReachedIn(kind, key[s]) : Probe(key[s], i) = s
<1>1. \A t \in Used : t \in Slots /\ kind[t] = "used" /\ key[t] \in Keys /\ key[t] \in Int
  BY DEF IInv, EveryKeyFound, TypeOK, Used, HashAssumption
<1>2. \A t \in Used : FindIn(kind, key, key[t]) = t
  BY FindsIn DEF IInv, EveryKeyFound
<1>3. s # None
  BY <1>1 DEF Slots, None
<1>4. \E i \in ReachedIn(kind, key[s]) : Probe(key[s], i) = s
  BY <1>1, <1>2, <1>3, FoundIsKey
<1> QED
  BY <1>1, <1>2, <1>4

LEMMA FoundInTable ==
  ASSUME HashAssumption, IInv, NEW k \in Keys
  PROVE  IF Find(k) = None THEN \A s \in Used : key[s] # k
         ELSE Find(k) \in Used /\ key[Find(k)] = k
<1>1. CASE Find(k) = None
  <2>1. \A s \in Used : FindIn(kind, key, key[s]) = s /\ s # None
    BY InTable DEF Slots, None
  <2> QED
    BY <1>1, <2>1, FindsIn
<1>2. CASE Find(k) # None
  BY <1>2, FindsIn, FoundIsKey DEF Used, HashAssumption
<1> QED
  BY <1>1, <1>2

(* How many slots there are, and are used.                                 *)
LEMMA UsedFinite ==
  ASSUME HashAssumption, NEW U \in SUBSET Slots
  PROVE  /\ IsFiniteSet(U) /\ Cardinality(U) \in 0 .. Capacity
         /\ Cardinality(U) = Capacity => U = Slots
<1>1. IsFiniteSet(Slots) /\ Cardinality(Slots) = Capacity
  BY FS_Interval DEF Slots, HashAssumption
<1>2. IsFiniteSet(U) /\ Cardinality(U) <= Cardinality(Slots)
      /\ (Cardinality(Slots) = Cardinality(U) => Slots = U)
  BY <1>1, FS_Subset
<1> QED
  BY <1>1, <1>2, FS_CardinalityType DEF HashAssumption

(* Where a new key goes: a slot that the probe reaches and nobody uses.    *)
LEMMA VacantSlot ==
  ASSUME HashAssumption, NEW k \in Int, Vacant(k) # {}
  PROVE  LET m == Min(Vacant(k))
         IN  m \in ReachedIn(kind, k) /\ Probe(k, m) \in Slots /\ kind[Probe(k, m)] # "used"
<1>1. Vacant(k) \in SUBSET Nat
  BY DEF Vacant, Reached, Rounds
<1>2. PICK m \in Vacant(k) : m = Min(Vacant(k))
  BY <1>1, Least
<1>3. m \in ReachedIn(kind, k) /\ kind[Probe(k, m)] # "used"
  BY DEF Vacant, Reached, ReachedIn
<1>4. Probe(k, m) \in Slots
  BY <1>3, ProbeInTable DEF ReachedIn, Rounds
<1> QED
  BY <1>2, <1>3, <1>4

(* A key is refused only when every slot is used.                          *)
LEMMA RefusedWhenFull ==
  ASSUME HashAssumption, NEW k \in Int, Vacant(k) = {}
  PROVE  Used = Slots
<1>1. Rounds \subseteq Reached(k)
  <2> SUFFICES ASSUME Rounds \ Reached(k) # {}
               PROVE  FALSE
    OBVIOUS
  <2>1. Rounds \ Reached(k) \in SUBSET Nat
    BY DEF Rounds
  <2>2. PICK i \in Rounds \ Reached(k) : \A n \in Rounds \ Reached(k) : i <= n
    BY <2>1, Least
  <2>3. PICK j \in 0 .. i - 1 : kind[Probe(k, j)] = "free"
    BY <2>2 DEF Reached
  <2>4. j \in Rounds /\ j < i
    BY DEF Rounds, HashAssumption
  <2>5. j \in Vacant(k)
    BY <2>2, <2>3, <2>4 DEF Vacant, Rounds
  <2> QED
    BY <2>5
<1>2. \A i \in Rounds : kind[Probe(k, i)] = "used"
  BY <1>1 DEF Vacant
<1> QED
  BY <1>2, ProbesReachAll DEF Used

-----------------------------------------------------------------------------
(* The invariant.                                                          *)

LEMMA InitInv == HashAssumption /\ Init => IInv
<1> SUFFICES ASSUME HashAssumption, Init
             PROVE  IInv
  OBVIOUS
<1>1. Used = {}
  BY DEF Init, Used
<1>2. TypeOK
  BY <1>1 DEF Init, TypeOK, HashAssumption
<1> QED
  BY <1>1, <1>2, FS_EmptySet DEF Init, IInv, EveryKeyFound

LEMMA InsertNewKeeps ==
  ASSUME HashAssumption, IInv, NEW k \in Keys, NEW v \in Values, InsertNew(k, v)
  PROVE  /\ IInv'
         /\ \E slot \in Slots \ Used :
              /\ Used' = Used \cup {slot} /\ key' = [key EXCEPT ![slot] = k]
              /\ value' = [value EXCEPT ![slot] = v]
<1> DEFINE slot == Probe(k, Min(Vacant(k)))
<1>1. /\ Find(k) = None /\ Vacant(k) # {} /\ k \in Int
      /\ kind' = [kind EXCEPT ![slot] = "used"]
      /\ key' = [key EXCEPT ![slot] = k]
      /\ value' = [value EXCEPT ![slot] = v]
      /\ size' = size + 1 /\ ok' = TRUE
  BY DEF InsertNew, HashAssumption
<1>2. /\ Min(Vacant(k)) \in ReachedIn(kind, k)
      /\ slot \in Slots /\ kind[slot] # "used"
  BY <1>1, VacantSlot
<1> HIDE DEF slot
<1>3. /\ kind \in [Slots -> {"free", "tomb", "used"}] /\ DOMAIN kind = Slots
  BY DEF IInv, EveryKeyFound, TypeOK
<1>4. slot \notin Used /\ Used' = Used \cup {slot}
  BY <1>1, <1>2, <1>3 DEF Used
<1>5. ASSUME NEW q
      PROVE  ReachedIn(kind, q) \subseteq ReachedIn(kind', q)
  BY <1>1, <1>2, <1>3 DEF ReachedIn
<1>6. \A s \in Used : key'[s] = key[s] /\ key[s] # k /\ s # slot
  BY <1>1, <1>4, FoundInTable, InTable
<1>7. key'[slot] = k /\ value'[slot] = v /\ size' = Cardinality(Used')
  <2>1. key'[slot] = k /\ value'[slot] = v
    BY <1>1, <1>2 DEF IInv, EveryKeyFound, TypeOK
  <2>2. IsFiniteSet(Used) /\ Used \in SUBSET Slots
    BY UsedFinite DEF Used
  <2>3. Cardinality(Used \cup {slot}) = Cardinality(Used) + 1
    BY <1>4, <2>2, FS_AddElement
  <2> QED
    BY <1>1, <1>4, <2>1, <2>3 DEF IInv
<1>8. TypeOK'
  <2>1. Used' \in SUBSET Slots /\ size' \in 0 .. Capacity
    BY <1>2, <1>4, <1>7, UsedFinite DEF Used
  <2>2. \A s \in Slots : s # slot => key'[s] = key[s] /\ value'[s] = value[s]
    BY <1>1, <1>2 DEF IInv, EveryKeyFound, TypeOK
  <2>3. /\ kind' \in [Slots -> {"free", "tomb", "used"}]
        /\ key' \in [Slots -> Keys \cup {NoValue}]
        /\ value' \in [Slots -> Values \cup {NoValue}]
    BY <1>1, <1>2 DEF IInv, EveryKeyFound, TypeOK
  <2>4. \A s \in Slots : IF s \in Used' THEN key'[s] \in Keys /\ value'[s] \in Values
                         ELSE key'[s] = NoValue /\ value'[s] = NoValue
    BY <1>4, <1>7, <2>2 DEF IInv, EveryKeyFound, TypeOK
  <2> QED
    BY <1>1, <2>1, <2>3, <2>4 DEF TypeOK
<1>9. ASSUME NEW s \in Used'
      PROVE  FindIn(kind', key', key'[s]) = s
  <2>1. s \in Slots /\ kind'[s] = "used" /\ key'[s] \in Int
    BY <1>1, <1>4, <1>6, <1>7, InTable DEF Used
  <2>2. \A t \in Slots : kind'[t] = "used" => t \in Used \/ t = slot
    BY <1>1, <1>2, <1>3 DEF Used
  <2>3. \A t \in Slots : kind'[t] = "used" /\ key'[t] = key'[s] => t = s
    BY <1>4, <1>6, <1>7, <2>2, InTable
  <2>4. \E i \in ReachedIn(kind, key'[s]) : Probe(key'[s], i) = s
    <3>1. CASE s = slot
      BY <1>2, <1>7, <3>1 DEF slot
    <3>2. CASE s \in Used
      BY <1>6, <3>2, InTable
    <3> QED
      BY <1>4, <3>1, <3>2
  <2>5. PICK i \in ReachedIn(kind', key'[s]) : Probe(key'[s], i) = s
    BY <1>5, <2>4
  <2> QED
    BY <2>1, <2>3, <2>5, KeyIsFound
<1>10. EveryKeyFound'
  BY <1>8, <1>9, FindsIn DEF EveryKeyFound
<1> QED
  BY <1>1, <1>2, <1>4, <1>7, <1>10 DEF IInv

(* What changes only values, or takes a key out and leaves a tombstone.    *)
LEMMA TombKeeps ==
  ASSUME HashAssumption, IInv, NEW k \in Keys, EraseSlot(Find(k))
  PROVE  /\ IInv' /\ Find(k) \in Used /\ Used' = Used \ {Find(k)}
         /\ \A s \in Used' : key'[s] = key[s] /\ value'[s] = value[s]
<1>1. PICK slot \in Used : slot = Find(k)
  BY FoundInTable DEF EraseSlot
<1>2. /\ slot \in Slots /\ kind[slot] = "used"
      /\ kind' = [kind EXCEPT ![slot] = "tomb"]
      /\ key' = [key EXCEPT ![slot] = NoValue]
      /\ value' = [value EXCEPT ![slot] = NoValue]
      /\ size' = size - 1 /\ ok' = TRUE
  BY <1>1 DEF EraseSlot, Used
<1>3. /\ kind \in [Slots -> {"free", "tomb", "used"}]
      /\ key \in [Slots -> Keys \cup {NoValue}]
      /\ value \in [Slots -> Values \cup {NoValue}]
  BY DEF IInv, EveryKeyFound, TypeOK
<1>4. Used' = Used \ {slot}
  BY <1>2, <1>3 DEF Used
<1>5. /\ \A s \in Slots \ {slot} : key'[s] = key[s] /\ value'[s] = value[s]
      /\ key'[slot] = NoValue /\ value'[slot] = NoValue
  BY <1>2, <1>3
<1>6. size' = Cardinality(Used') /\ size' \in 0 .. Capacity
  <2>1. IsFiniteSet(Used) /\ Used \in SUBSET Slots /\ Cardinality(Used) \in Int
    BY UsedFinite DEF Used
  <2>2. Cardinality(Used \ {slot}) = Cardinality(Used) - 1
    BY <2>1, FS_RemoveElement
  <2>3. Cardinality(Used \ {slot}) \in 0 .. Capacity
    BY <2>1, UsedFinite
  <2> QED
    BY <1>2, <1>4, <2>2, <2>3 DEF IInv
<1>7. TypeOK'
  <2>1. /\ kind' \in [Slots -> {"free", "tomb", "used"}]
        /\ key' \in [Slots -> Keys \cup {NoValue}]
        /\ value' \in [Slots -> Values \cup {NoValue}]
    BY <1>2, <1>3
  <2>2. \A s \in Slots : IF s \in Used' THEN key'[s] \in Keys /\ value'[s] \in Values
                         ELSE key'[s] = NoValue /\ value'[s] = NoValue
    BY <1>4, <1>5 DEF IInv, EveryKeyFound, TypeOK
  <2> QED
    BY <1>2, <1>6, <2>1, <2>2 DEF TypeOK
<1>8. ASSUME NEW q
      PROVE  ReachedIn(kind, q) = ReachedIn(kind', q)
  <2>1. \A p : kind[p] = "free" <=> kind'[p] = "free"
    BY <1>2, <1>3
  <2> QED
    BY <2>1 DEF ReachedIn
<1>9. ASSUME NEW s \in Used'
      PROVE  FindIn(kind', key', key'[s]) = s
  <2>1. s \in Used /\ s \in Slots /\ kind'[s] = "used" /\ key'[s] = key[s] /\ key'[s] \in Int
    BY <1>4, <1>5, InTable DEF Used
  <2>2. \A t \in Slots : kind'[t] = "used" => t \in Used /\ key'[t] = key[t]
    BY <1>4, <1>5 DEF Used
  <2>3. \A t \in Slots : kind'[t] = "used" /\ key'[t] = key'[s] => t = s
    BY <2>1, <2>2, InTable
  <2>4. PICK i \in ReachedIn(kind', key'[s]) : Probe(key'[s], i) = s
    BY <1>8, <2>1, InTable
  <2> QED
    BY <2>1, <2>3, <2>4, KeyIsFound
<1>10. EveryKeyFound'
  BY <1>7, <1>9, FindsIn DEF EveryKeyFound
<1> QED
  BY <1>1, <1>4, <1>5, <1>6, <1>10 DEF IInv, Used

LEMMA OverwriteKeeps ==
  ASSUME HashAssumption, IInv, NEW k \in Keys, NEW v \in Values, Overwrite(k, v)
  PROVE  /\ IInv' /\ Find(k) \in Used /\ Used' = Used /\ UNCHANGED <<key, size>>
         /\ \A s \in Used : value'[s] = IF s = Find(k) THEN v ELSE value[s]
<1>1. /\ Find(k) \in Used
      /\ value' = [value EXCEPT ![Find(k)] = v]
      /\ ok' = TRUE /\ UNCHANGED <<kind, key, size>>
  BY FoundInTable DEF Overwrite
<1>2. Used' = Used /\ Used \in SUBSET Slots
  BY <1>1 DEF Used
<1>3. /\ value' \in [Slots -> Values \cup {NoValue}]
      /\ \A s \in Slots : value'[s] = IF s = Find(k) THEN v ELSE value[s]
  BY <1>1, <1>2 DEF IInv, EveryKeyFound, TypeOK
<1>4. TypeOK'
  BY <1>1, <1>2, <1>3 DEF IInv, EveryKeyFound, TypeOK
<1>5. EveryKeyFound'
  BY <1>1, <1>2, <1>4, FindsIn DEF IInv, EveryKeyFound
<1> QED
  BY <1>1, <1>2, <1>3, <1>5 DEF IInv

LEMMA ClearKeeps ==
  ASSUME HashAssumption, Clear
  PROVE  IInv' /\ Used' = {}
<1>1. Used' = {}
  BY DEF Clear, Used
<1>2. TypeOK'
  BY <1>1 DEF Clear, TypeOK, HashAssumption
<1> QED
  BY <1>1, <1>2, FS_EmptySet DEF Clear, IInv, EveryKeyFound

LEMMA StandsStill ==
  ASSUME IInv, UNCHANGED <<kind, key, value, size>>, ok' \in BOOLEAN
  PROVE  IInv' /\ Used' = Used
<1>1. Used' = Used
  BY DEF Used
<1>2. TypeOK'
  BY <1>1 DEF IInv, EveryKeyFound, TypeOK
<1> QED
  BY <1>1, <1>2, FindsIn DEF IInv, EveryKeyFound

LEMMA NextInv == HashAssumption /\ IInv /\ [Next]_vars => IInv'
<1> SUFFICES ASSUME HashAssumption, IInv, [Next]_vars
             PROVE  IInv'
  OBVIOUS
<1>1. ASSUME NEW k \in Keys, NEW v \in Values, Insert(k, v)
      PROVE  IInv'
  BY <1>1, OverwriteKeeps, InsertNewKeeps, StandsStill DEF Insert, InsertInFull
<1>2. ASSUME NEW k \in Keys, EraseSlot(Find(k)) \/ EraseNone(Find(k))
      PROVE  IInv'
  BY <1>2, TombKeeps, StandsStill DEF EraseNone
<1>3. CASE Clear
  BY <1>3, ClearKeeps
<1>4. CASE UNCHANGED vars
  BY <1>4, StandsStill DEF vars, IInv, EveryKeyFound, TypeOK
<1> QED
  BY <1>1, <1>2, <1>3, <1>4 DEF Next

(* Every key in the table is found where it is, and only there, whatever   *)
(* was erased, overwritten or put on a tombstone.                          *)
THEOREM Invariance ==
  ASSUME HashAssumption
  PROVE  Spec => []IInv
BY InitInv, NextInv, PTL DEF Spec

THEOREM KeysAreFound ==
  ASSUME HashAssumption
  PROVE  Spec => []EveryKeyFound
<1>1. IInv => EveryKeyFound
  BY DEF IInv
<1> QED
  BY <1>1, Invariance, PTL

-----------------------------------------------------------------------------
(* The table as a map.                                                     *)
(* With a key in one slot only, the map has the values of the slots, and   *)
(* as many keys as slots are used.                                         *)
LEMMA MapOfSlots ==
  ASSUME NEW U, NEW ky, NEW vl, IsFiniteSet(U),
         \A s, t \in U : ky[s] = ky[t] => s = t
  PROVE  /\ DOMAIN MapOf(U, ky, vl) = KeysIn(U, ky)
         /\ \A s \in U : MapOf(U, ky, vl)[ky[s]] = vl[s]
         /\ Cardinality(DOMAIN MapOf(U, ky, vl)) = Cardinality(U)
<1> DEFINE K == {ky[s] : s \in U}
           f == [s \in U |-> ky[s]]
<1>1. DOMAIN MapOf(U, ky, vl) = K
  BY DEF MapOf, KeysIn
<1>2. ASSUME NEW s \in U
      PROVE  MapOf(U, ky, vl)[ky[s]] = vl[s]
  <2>1. (CHOOSE t \in U : ky[t] = ky[s]) = s
    OBVIOUS
  <2> QED
    BY <2>1 DEF MapOf, KeysIn
<1>3. f \in Bijection(U, K)
  <2>1. f \in [U -> K] /\ \A s, t \in U : f[s] = f[t] => s = t
    OBVIOUS
  <2>2. \A k \in K : \E s \in U : f[s] = k
    OBVIOUS
  <2> HIDE DEF f, K
  <2> QED
    BY <2>1, <2>2 DEF Bijection, Injection, Surjection, IsInjective
<1>4. IsFiniteSet(K) /\ Cardinality(K) = Cardinality(U)
  <2> HIDE DEF f, K
  <2> QED
    BY <1>3, FS_SameCardinalityBij, FS_Bijection DEF ExistsBijection
<1> QED
  BY <1>1, <1>2, <1>4 DEF KeysIn

(* What the pairs are in the states of the invariant, and after a step.       *)
LEMMA MapShown ==
  ASSUME HashAssumption, IInv
  PROVE  /\ DOMAIN Contents = {key[s] : s \in Used}
         /\ \A s \in Used : Contents[key[s]] = value[s]
         /\ size = Cardinality(DOMAIN Contents)
<1>1. IsFiniteSet(Used)
  BY UsedFinite DEF Used
<1>2. \A s, t \in Used : key[s] = key[t] => s = t
  BY InTable
<1>3. size = Cardinality(Used)
  BY DEF IInv
<1> DEFINE m == MapOf(Used, key, value)
<1>4. /\ DOMAIN m = KeysIn(Used, key) /\ \A s \in Used : m[key[s]] = value[s]
      /\ Cardinality(DOMAIN m) = Cardinality(Used)
  <2> HIDE DEF IInv
  <2> QED
    BY <1>1, <1>2, MapOfSlots
<1> HIDE DEF m
<1> QED
  BY <1>3, <1>4 DEF Contents, m, KeysIn

LEMMA MapShownNext ==
  ASSUME HashAssumption, IInv'
  PROVE  /\ DOMAIN Contents' = {key'[s] : s \in Used'}
         /\ \A s \in Used' : Contents'[key'[s]] = value'[s]
         /\ size' = Cardinality(DOMAIN Contents')
<1>1. IsFiniteSet(Used')
  BY UsedFinite DEF Used
<1>2. ASSUME NEW s \in Used'
      PROVE  s # None /\ FindIn(kind', key', key'[s]) = s
  BY <1>2, FindsIn DEF IInv, EveryKeyFound, Used, Slots, None
<1>3. \A s, t \in Used' : key'[s] = key'[t] => s = t
  BY <1>2
<1>4. size' = Cardinality(Used')
  BY DEF IInv
<1> DEFINE m == MapOf(Used', key', value')
<1>5. /\ DOMAIN m = KeysIn(Used', key') /\ \A s \in Used' : m[key'[s]] = value'[s]
      /\ Cardinality(DOMAIN m) = Cardinality(Used')
  BY <1>1, <1>3, MapOfSlots
<1>6. Contents' = m
  BY DEF Contents, MapOf, KeysIn
<1> HIDE DEF m
<1> QED
  BY <1>4, <1>5, <1>6 DEF KeysIn

LEMMA KeyIsHeld ==
  ASSUME HashAssumption, IInv, NEW k \in Keys
  PROVE  k \in DOMAIN Contents <=> Find(k) # None
BY FoundInTable, MapShown

(* The map counts its keys as the table does.                              *)
LEMMA SameCount == \A S : Map!Cardinality(S) = Cardinality(S)
BY Zenon DEF Map!Cardinality, Cardinality, Map!IsFiniteSet, IsFiniteSet

LEMMA MapInit == HashAssumption /\ Init => Map!Init
<1> SUFFICES ASSUME HashAssumption, Init
             PROVE  Map!Init
  OBVIOUS
<1>1. Used = {}
  BY DEF Init, Used
<1>2. Contents = [k \in {} |-> 0]
  BY <1>1 DEF Contents, MapOf, KeysIn
<1> QED
  BY <1>2 DEF Init, Map!Init

LEMMA MapInsert ==
  ASSUME HashAssumption, IInv, IInv', NEW k \in Keys, NEW v \in Values,
         ok' = (k \in DOMAIN Contents \/ Cardinality(DOMAIN Contents) < Capacity),
         Contents' = IF ok' THEN [q \in DOMAIN Contents \cup {k} |-> IF q = k THEN v ELSE Contents[q]]
                  ELSE Contents
  PROVE  Map!Insert(k, v)
BY MapShownNext, SameCount DEF Map!Insert, Map!Held

LEMMA MapOverwrite ==
  ASSUME HashAssumption, IInv, NEW k \in Keys, NEW v \in Values, Overwrite(k, v)
  PROVE  Map!Insert(k, v)
<1>1. /\ IInv' /\ Find(k) \in Used /\ Used' = Used /\ UNCHANGED <<key, size>>
      /\ \A s \in Used : value'[s] = IF s = Find(k) THEN v ELSE value[s]
  BY OverwriteKeeps
<1>2. k \in DOMAIN Contents /\ ok' = TRUE /\ key[Find(k)] = k
  BY KeyIsHeld, FoundInTable DEF Overwrite
<1>3. DOMAIN Contents' = DOMAIN Contents
  BY <1>1, MapShown, MapShownNext
<1>4. \A s \in Used : Contents'[key[s]] = IF key[s] = k THEN v ELSE Contents[key[s]]
  BY <1>1, <1>2, MapShown, MapShownNext, InTable
<1>5. \A q \in DOMAIN Contents : Contents'[q] = IF q = k THEN v ELSE Contents[q]
  BY <1>4, MapShown
<1>6. Contents' = [q \in DOMAIN Contents \cup {k} |-> IF q = k THEN v ELSE Contents[q]]
  <2>1. DOMAIN Contents \cup {k} = DOMAIN Contents /\ Contents' = [q \in DOMAIN Contents' |-> Contents'[q]]
    BY <1>2 DEF Contents, MapOf
  <2> QED
    BY <1>3, <1>5, <2>1
<1> QED
  BY <1>1, <1>2, <1>6, MapInsert

LEMMA MapInsertNew ==
  ASSUME HashAssumption, IInv, NEW k \in Keys, NEW v \in Values, InsertNew(k, v)
  PROVE  Map!Insert(k, v)
<1>1. PICK slot \in Slots \ Used :
        /\ Used' = Used \cup {slot} /\ key' = [key EXCEPT ![slot] = k]
        /\ value' = [value EXCEPT ![slot] = v]
  BY InsertNewKeeps
<1>2. IInv' /\ Find(k) = None /\ ok' = TRUE
  BY InsertNewKeeps DEF InsertNew
<1>3. /\ key'[slot] = k /\ value'[slot] = v
      /\ \A s \in Used : s # slot /\ key'[s] = key[s] /\ value'[s] = value[s] /\ key[s] # k
  BY <1>1, <1>2, FoundInTable DEF IInv, EveryKeyFound, TypeOK, Used
<1>4. DOMAIN Contents' = DOMAIN Contents \cup {k}
  BY <1>1, <1>2, <1>3, MapShown, MapShownNext
<1>5. Contents'[k] = v /\ \A q \in DOMAIN Contents : q # k /\ Contents'[q] = Contents[q]
  BY <1>1, <1>2, <1>3, MapShown, MapShownNext
<1>6. Contents' = [q \in DOMAIN Contents \cup {k} |-> IF q = k THEN v ELSE Contents[q]]
  <2>1. Contents' = [q \in DOMAIN Contents' |-> Contents'[q]]
    BY DEF Contents, MapOf
  <2> QED
    BY <1>4, <1>5, <2>1
<1>7. Cardinality(DOMAIN Contents) < Capacity
  <2>1. Cardinality(DOMAIN Contents) = Cardinality(Used)
    BY MapShown DEF IInv
  <2>2. Used \in SUBSET Slots /\ Used # Slots
    BY <1>1 DEF Used
  <2> QED
    BY <2>1, <2>2, UsedFinite DEF HashAssumption
<1> QED
  BY <1>2, <1>6, <1>7, MapInsert

LEMMA MapInsertInFull ==
  ASSUME HashAssumption, IInv, NEW k \in Keys, NEW v \in Values, InsertInFull(k)
  PROVE  Map!Insert(k, v)
<1>1. /\ Find(k) = None /\ Vacant(k) = {} /\ ok' = FALSE
      /\ UNCHANGED <<kind, key, value, size>> /\ k \in Int
  BY DEF InsertInFull, HashAssumption
<1>2. IInv' /\ Contents' = Contents
  BY <1>1, StandsStill DEF Contents
<1>3. k \notin DOMAIN Contents
  BY <1>1, KeyIsHeld
<1>4. Cardinality(DOMAIN Contents) = Capacity
  <2>1. Used = Slots
    BY <1>1, RefusedWhenFull
  <2>2. Cardinality(Slots) = Capacity
    BY FS_Interval DEF Slots, HashAssumption
  <2>3. Cardinality(DOMAIN Contents) = Cardinality(Used)
    BY MapShown DEF IInv
  <2> QED
    BY <2>1, <2>2, <2>3
<1>5. /\ ok' = (k \in DOMAIN Contents \/ Cardinality(DOMAIN Contents) < Capacity)
      /\ Contents' = IF ok' THEN [q \in DOMAIN Contents \cup {k} |-> IF q = k THEN v ELSE Contents[q]]
                     ELSE Contents
  <2>1. ~ (Cardinality(DOMAIN Contents) < Capacity)
    BY <1>4 DEF HashAssumption
  <2> QED
    BY <1>1, <1>2, <1>3, <2>1, Zenon
<1> QED
  BY <1>2, <1>5, MapInsert

LEMMA MapErase ==
  ASSUME HashAssumption, IInv, NEW k \in Keys, EraseSlot(Find(k)) \/ EraseNone(Find(k))
  PROVE  Map!Erase(k)
<1>1. CASE EraseSlot(Find(k))
  <2>1. /\ IInv' /\ Find(k) \in Used /\ Used' = Used \ {Find(k)}
        /\ \A s \in Used' : key'[s] = key[s] /\ value'[s] = value[s]
    BY <1>1, TombKeeps
  <2>2. k \in DOMAIN Contents /\ ok' = TRUE /\ key[Find(k)] = k
    BY <1>1, KeyIsHeld, FoundInTable DEF EraseSlot
  <2>3. \A s \in Used : s \in Used' <=> key[s] # k
    BY <2>1, <2>2, InTable
  <2>4. DOMAIN Contents' = DOMAIN Contents \ {k}
    BY <2>1, <2>3, MapShown, MapShownNext
  <2>5. \A q \in DOMAIN Contents' : Contents'[q] = Contents[q]
    BY <2>1, <2>3, MapShown, MapShownNext
  <2>6. Contents' = [q \in DOMAIN Contents \ {k} |-> Contents[q]]
    <3>1. Contents' = [q \in DOMAIN Contents' |-> Contents'[q]]
      BY DEF Contents, MapOf
    <3> QED
      BY <2>4, <2>5, <3>1
  <2> QED
    BY <2>1, <2>2, <2>6, MapShownNext, SameCount DEF Map!Erase, Map!Held
<1>2. CASE EraseNone(Find(k))
  <2>1. IInv' /\ Contents' = Contents /\ ok' = FALSE /\ k \notin DOMAIN Contents
    BY <1>2, StandsStill, KeyIsHeld DEF EraseNone, Contents
  <2>2. Contents' = [q \in DOMAIN Contents \ {k} |-> Contents[q]]
    <3>1. Contents = [q \in DOMAIN Contents |-> Contents[q]]
      BY DEF Contents, MapOf
    <3> QED
      BY <2>1, <3>1
  <2>3. ok' = (k \in DOMAIN Contents)
    <3>1. ok' = FALSE /\ (k \in DOMAIN Contents) = FALSE
      BY <2>1
    <3> QED
      BY <3>1
  <2> QED
    BY <2>1, <2>2, <2>3, MapShownNext, SameCount DEF Map!Erase, Map!Held
<1> QED
  BY <1>1, <1>2

LEMMA MapNext == HashAssumption /\ IInv /\ [Next]_vars => [Map!Next]_(Map!vars)
<1> SUFFICES ASSUME HashAssumption, IInv, [Next]_vars
             PROVE  [Map!Next]_(Map!vars)
  OBVIOUS
<1>1. ASSUME NEW k \in Keys, NEW v \in Values, Insert(k, v)
      PROVE  Map!Next
  BY <1>1, MapOverwrite, MapInsertNew, MapInsertInFull DEF Insert, Map!Next
<1>2. ASSUME NEW k \in Keys, EraseSlot(Find(k)) \/ EraseNone(Find(k))
      PROVE  Map!Next
  BY <1>2, MapErase DEF Map!Next
<1>3. CASE Clear
  <2>1. Used' = {}
    BY <1>3, ClearKeeps
  <2>2. Contents' = [k \in {} |-> 0]
    BY <2>1 DEF Contents, MapOf, KeysIn
  <2> QED
    BY <1>3, <2>2 DEF Clear, Map!Clear, Map!Next
<1>4. CASE UNCHANGED vars
  BY <1>4 DEF vars, Map!vars, Contents, Used
<1> QED
  BY <1>1, <1>2, <1>3, <1>4 DEF Next

(* The table with its tombstones, reused and overwritten slots is a map of *)
(* Capacity keys at most: insert refuses a key only when that many are     *)
(* there, and size() is the number of keys.                                *)
THEOREM RefinesMap ==
  ASSUME HashAssumption
  PROVE  Spec => IsMap
BY MapInit, MapNext, Invariance, PTL DEF Spec, IsMap, Map!Spec
-----------------------------------------------------------------------------
(* The list.  Sequences of slots.                                          *)

LEMMA ListConstants ==
  /\ ListCapacity \in Nat \ {0} /\ L!Slots = 0 .. ListCapacity - 1 /\ L!None = -1
  /\ L!None \notin L!Slots
BY ContainersAssumption DEF L!CapacityIsPositive, L!Slots, L!None

(* Induction up to n, for a set instead of a predicate.                    *)
LEMMA UpTo ==
  ASSUME NEW n \in Nat, NEW S, 0 \in S, \A k \in 0 .. n - 1 : k \in S => k + 1 \in S
  PROVE  \A k \in 0 .. n : k \in S
<1> SUFFICES ASSUME (0 .. n) \ S # {}
             PROVE  FALSE
  OBVIOUS
<1>1. PICK m \in (0 .. n) \ S : \A k \in (0 .. n) \ S : m <= k
  <2>1. (0 .. n) \ S \in SUBSET Nat
    OBVIOUS
  <2> QED
    BY <2>1, Least
<1>2. m - 1 \in 0 .. n - 1 /\ m - 1 \in S
  BY <1>1
<1> QED
  BY <1>1, <1>2

(* A sequence with an element more, and with one less.                     *)
With(s, i, x) == [k \in 1 .. Len(s) + 1 |-> IF k < i THEN s[k] ELSE IF k = i THEN x ELSE s[k - 1]]
Less(s, i) == [k \in 1 .. Len(s) - 1 |-> IF k < i THEN s[k] ELSE s[k + 1]]

LEMMA WithIs ==
  ASSUME NEW A, NEW s \in Seq(A), NEW i \in 1 .. Len(s) + 1, NEW x \in A
  PROVE  /\ With(s, i, x) \in Seq(A) /\ Len(With(s, i, x)) = Len(s) + 1 /\ Len(s) \in Nat
         /\ \A k \in 1 .. Len(s) + 1 :
              With(s, i, x)[k] = IF k < i THEN s[k] ELSE IF k = i THEN x ELSE s[k - 1]
<1> DEFINE n == Len(s) + 1
           p == [k \in 1 .. n |-> IF k < i THEN s[k] ELSE IF k = i THEN x ELSE s[k - 1]]
<1>1. n \in Nat /\ Len(s) \in Nat /\ i \in 1 .. n
  OBVIOUS
<1>2. ASSUME NEW k \in 1 .. n
      PROVE  (IF k < i THEN s[k] ELSE IF k = i THEN x ELSE s[k - 1]) \in A
  <2>1. CASE k < i
    <3>1. k \in 1 .. Len(s)
      BY <1>1, <2>1
    <3> QED
      BY <2>1, <3>1
  <2>2. CASE k > i
    <3>1. k - 1 \in 1 .. Len(s)
      BY <1>1, <2>2
    <3> QED
      BY <2>2, <3>1
  <2> QED
    BY <1>1, <2>1, <2>2
<1>3. p \in [1 .. n -> A]
  BY <1>2
<1>4. p \in Seq(A) /\ Len(p) = n
  <2> HIDE DEF p, n
  <2> QED
    BY <1>1, <1>3
<1> QED
  BY <1>1, <1>4 DEF With

LEMMA LessIs ==
  ASSUME NEW A, NEW s \in Seq(A), NEW i \in 1 .. Len(s)
  PROVE  /\ Less(s, i) \in Seq(A) /\ Len(Less(s, i)) = Len(s) - 1 /\ Len(s) \in Nat
         /\ \A k \in 1 .. Len(s) - 1 : Less(s, i)[k] = IF k < i THEN s[k] ELSE s[k + 1]
<1> DEFINE n == Len(s) - 1
           p == [k \in 1 .. n |-> IF k < i THEN s[k] ELSE s[k + 1]]
<1>1. n \in Nat /\ Len(s) \in Nat /\ i \in 1 .. Len(s)
  OBVIOUS
<1>2. ASSUME NEW k \in 1 .. n
      PROVE  (IF k < i THEN s[k] ELSE s[k + 1]) \in A
  <2>1. k \in 1 .. Len(s) /\ k + 1 \in 1 .. Len(s)
    BY <1>1
  <2> QED
    BY <2>1
<1>3. p \in [1 .. n -> A]
  BY <1>2
<1>4. p \in Seq(A) /\ Len(p) = n
  <2> HIDE DEF p, n
  <2> QED
    BY <1>1, <1>3
<1> QED
  BY <1>1, <1>4 DEF Less

(* The element at each place of them.                                      *)
LEMMA AtWith ==
  ASSUME NEW s \in Seq(L!Slots), NEW i \in 1 .. Len(s) + 1, NEW x \in L!Slots, NEW k \in Int
  PROVE  L!At(With(s, i, x), k) = IF k < i THEN L!At(s, k) ELSE IF k = i THEN x ELSE L!At(s, k - 1)
<1> DEFINE p == With(s, i, x)
<1>1. /\ Len(p) = Len(s) + 1 /\ Len(s) \in Nat /\ i \in 1 .. Len(s) + 1
      /\ \A m \in 1 .. Len(s) + 1 : p[m] = IF m < i THEN s[m] ELSE IF m = i THEN x ELSE s[m - 1]
  BY WithIs
<1> HIDE DEF p
<1>2. k \in 1 .. Len(p) <=> (k < i /\ k \in 1 .. Len(s)) \/ k = i \/ (k > i /\ k - 1 \in 1 .. Len(s))
  BY <1>1
<1>3. L!At(p, k) = IF k < i THEN L!At(s, k) ELSE IF k = i THEN x ELSE L!At(s, k - 1)
  <2>1. CASE k < i
    BY <1>1, <1>2, <2>1 DEF L!At
  <2>2. CASE k = i
    BY <1>1, <1>2, <2>2 DEF L!At
  <2>3. CASE k > i
    BY <1>1, <1>2, <2>3 DEF L!At
  <2> QED
    BY <1>1, <2>1, <2>2, <2>3
<1> QED
  BY <1>3 DEF p

LEMMA AtLess ==
  ASSUME NEW s \in Seq(L!Slots), NEW i \in 1 .. Len(s), NEW k \in Int
  PROVE  L!At(Less(s, i), k) = IF k < i THEN L!At(s, k) ELSE IF k >= 1 THEN L!At(s, k + 1) ELSE L!None
<1> DEFINE p == Less(s, i)
<1>1. /\ Len(p) = Len(s) - 1 /\ Len(s) \in Nat /\ i \in 1 .. Len(s)
      /\ \A m \in 1 .. Len(s) - 1 : p[m] = IF m < i THEN s[m] ELSE s[m + 1]
  BY LessIs
<1> HIDE DEF p
<1>2. k \in 1 .. Len(p) <=> (k < i /\ k \in 1 .. Len(s)) \/ (k >= i /\ k + 1 \in 1 .. Len(s))
  BY <1>1
<1>3. L!At(p, k) = IF k < i THEN L!At(s, k) ELSE IF k >= 1 THEN L!At(s, k + 1) ELSE L!None
  <2>1. CASE k < i
    BY <1>1, <1>2, <2>1 DEF L!At
  <2>2. CASE k >= i
    BY <1>1, <1>2, <2>2 DEF L!At
  <2> QED
    BY <1>1, <2>1, <2>2
<1> QED
  BY <1>3 DEF p

-----------------------------------------------------------------------------
(* Reading the list off its links.                                         *)

LEMMA UntilNoneIs ==
  ASSUME NEW walk, NEW n \in 0 .. ListCapacity, \A i \in 1 .. n : walk[i] # L!None,
         n = ListCapacity \/ walk[n + 1] = L!None
  PROVE  L!UntilNone(walk) = [i \in 1 .. n |-> walk[i]]
<1> DEFINE Is(m) == m \in 0 .. ListCapacity /\ (\A i \in 1 .. m : walk[i] # L!None)
                    /\ (m = ListCapacity \/ walk[m + 1] = L!None)
<1>1. ListCapacity \in Nat
  BY ListConstants
<1>2. ASSUME NEW m, Is(m)
      PROVE  m = n
  <2>1. ~ m < n
    <3> SUFFICES ASSUME m < n
                 PROVE  FALSE
      OBVIOUS
    <3>1. m + 1 \in 1 .. n /\ m # ListCapacity
      BY <1>1, <1>2
    <3> QED
      BY <1>2, <3>1
  <2>2. ~ n < m
    <3> SUFFICES ASSUME n < m
                 PROVE  FALSE
      OBVIOUS
    <3>1. n + 1 \in 1 .. m /\ n # ListCapacity
      BY <1>1, <1>2
    <3> QED
      BY <1>2, <3>1
  <2> QED
    BY <1>1, <1>2, <2>1, <2>2
<1>3. Is(n)
  OBVIOUS
<1> DEFINE c == CHOOSE m \in 0 .. ListCapacity :
                  /\ \A i \in 1 .. m : walk[i] # L!None
                  /\ m = ListCapacity \/ walk[m + 1] = L!None
<1>4. Is(c)
  BY <1>3
<1>5. c = n
  <2> HIDE DEF c, Is
  <2> QED
    BY <1>2, <1>4
<1>6. L!UntilNone(walk) = [i \in 1 .. c |-> walk[i]]
  BY DEF L!UntilNone
<1> HIDE DEF c
<1> QED
  BY <1>5, <1>6

(* Walking along the next links from the head gives the slots they join.    *)
LEMMA ForwardIs ==
  ASSUME NEW s \in Seq(L!Slots), Len(s) <= ListCapacity, head = L!At(s, 1),
         \A i \in 1 .. Len(s) : node[s[i]].next = L!At(s, i + 1)
  PROVE  L!Forward = s
<1> DEFINE n == Len(s)
           After(x) == IF x = L!None THEN L!None ELSE node[x].next
           Is(h) == h = [i \in 1 .. ListCapacity + 1 |-> IF i = 1 THEN head ELSE After(h[i - 1])]
           f == [i \in 1 .. ListCapacity + 1 |-> L!At(s, i)]
           w == CHOOSE h : Is(h)
<1>1. n \in Nat /\ n <= ListCapacity /\ ListCapacity \in Nat \ {0} /\ L!None \notin L!Slots
  BY ListConstants
<1>2. ASSUME NEW i \in Int, i >= 1
      PROVE  After(L!At(s, i)) = L!At(s, i + 1)
  <2>1. CASE i \in 1 .. n
    <3>1. L!At(s, i) = s[i] /\ s[i] \in L!Slots
      BY <2>1 DEF L!At
    <3> QED
      BY <1>1, <2>1, <3>1
  <2>2. CASE ~ i \in 1 .. n
    <3>1. ~ i + 1 \in 1 .. n
      BY <1>1, <1>2, <2>2
    <3> QED
      BY <2>2, <3>1 DEF L!At
  <2> QED
    BY <2>1, <2>2
<1> HIDE DEF After
<1>3. Is(f)
  <2>1. ASSUME NEW i \in 1 .. ListCapacity + 1
        PROVE  f[i] = IF i = 1 THEN head ELSE After(f[i - 1])
    <3>1. CASE i = 1
      BY <1>1, <3>1
    <3>2. CASE i # 1
      <4>1. i - 1 \in 1 .. ListCapacity + 1 /\ i - 1 \in Int /\ i - 1 >= 1 /\ (i - 1) + 1 = i
        BY <1>1, <3>2
      <4>2. f[i - 1] = L!At(s, i - 1) /\ f[i] = L!At(s, i)
        BY <4>1
      <4>3. After(L!At(s, i - 1)) = L!At(s, (i - 1) + 1)
        BY <1>2, <4>1
      <4> QED
        BY <3>2, <4>1, <4>2, <4>3
    <3> QED
      BY <3>1, <3>2
  <2>2. f = [i \in 1 .. ListCapacity + 1 |-> f[i]]
    OBVIOUS
  <2> HIDE DEF f
  <2> QED
    BY <2>1, <2>2
<1>4. Is(w)
  <2> HIDE DEF Is, f
  <2> QED
    BY <1>3, Zenon
<1>5. L!Forward = L!UntilNone(w)
  BY Zenon DEF L!Forward, After
<1> HIDE DEF w, f
<1> DEFINE S == {k \in Nat : w[k + 1] = L!At(s, k + 1)}
<1>6. 0 \in S
  BY <1>1, <1>4
<1>7. ASSUME NEW k \in 0 .. ListCapacity - 1, k \in S
      PROVE  k + 1 \in S
  <2> DEFINE m == k + 1
  <2>1. m \in Nat /\ m >= 1 /\ m + 1 \in 1 .. ListCapacity + 1 /\ m + 1 # 1 /\ (m + 1) - 1 = m
    BY <1>1
  <2>2. w[m] = L!At(s, m)
    BY <1>7
  <2> HIDE DEF m
  <2>3. w[m + 1] = After(w[(m + 1) - 1])
    BY <1>4, <2>1
  <2>4. w[m + 1] = L!At(s, m + 1)
    <3>1. After(L!At(s, m)) = L!At(s, m + 1)
      <4>1. m \in Int /\ m >= 1
        BY <2>1
      <4> QED
        BY <1>2, <4>1
    <3> QED
      BY <2>1, <2>2, <2>3, <3>1
  <2> QED
    BY <2>1, <2>4 DEF m
<1>8. \A i \in 1 .. ListCapacity + 1 : w[i] = L!At(s, i)
  <2> SUFFICES ASSUME NEW i \in 1 .. ListCapacity + 1
               PROVE  w[i] = L!At(s, i)
    OBVIOUS
  <2>1. i - 1 \in 0 .. ListCapacity /\ (i - 1) + 1 = i
    BY <1>1
  <2> HIDE DEF S
  <2>2. i - 1 \in S
    BY <1>1, <1>6, <1>7, <2>1, UpTo
  <2> QED
    BY <2>1, <2>2 DEF S
<1>9. n \in 0 .. ListCapacity /\ (\A i \in 1 .. n : w[i] # L!None)
      /\ (n = ListCapacity \/ w[n + 1] = L!None)
  <2>1. ASSUME NEW i \in 1 .. n
        PROVE  w[i] # L!None
    <3>1. i \in 1 .. ListCapacity + 1 /\ s[i] \in L!Slots
      BY <1>1
    <3> QED
      BY <1>1, <1>8, <3>1 DEF L!At
  <2>2. n + 1 \in 1 .. ListCapacity + 1 /\ ~ n + 1 \in 1 .. n
    BY <1>1
  <2>3. w[n + 1] = L!None
    BY <1>8, <2>2 DEF L!At
  <2> QED
    BY <1>1, <2>1, <2>3
<1>10. L!UntilNone(w) = [i \in 1 .. n |-> w[i]]
  <2> HIDE DEF n
  <2> QED
    BY <1>9, UntilNoneIs
<1>11. [i \in 1 .. n |-> w[i]] = [i \in 1 .. n |-> s[i]]
  <2>1. ASSUME NEW i \in 1 .. n
        PROVE  w[i] = s[i]
    <3>1. i \in 1 .. ListCapacity + 1
      BY <1>1
    <3> QED
      BY <1>8, <3>1 DEF L!At
  <2> QED
    BY <2>1
<1>12. s = [i \in 1 .. n |-> s[i]]
  OBVIOUS
<1> QED
  BY <1>5, <1>10, <1>11, <1>12

(* Walking along the prev links from the tail gives the slots they join.    *)
LEMMA BackwardIs ==
  ASSUME NEW s \in Seq(L!Slots), Len(s) <= ListCapacity, tail = L!At(s, 1),
         \A i \in 1 .. Len(s) : node[s[i]].prev = L!At(s, i + 1)
  PROVE  L!Backward = s
<1> DEFINE n == Len(s)
           After(x) == IF x = L!None THEN L!None ELSE node[x].prev
           Is(h) == h = [i \in 1 .. ListCapacity + 1 |-> IF i = 1 THEN tail ELSE After(h[i - 1])]
           f == [i \in 1 .. ListCapacity + 1 |-> L!At(s, i)]
           w == CHOOSE h : Is(h)
<1>1. n \in Nat /\ n <= ListCapacity /\ ListCapacity \in Nat \ {0} /\ L!None \notin L!Slots
  BY ListConstants
<1>2. ASSUME NEW i \in Int, i >= 1
      PROVE  After(L!At(s, i)) = L!At(s, i + 1)
  <2>1. CASE i \in 1 .. n
    <3>1. L!At(s, i) = s[i] /\ s[i] \in L!Slots
      BY <2>1 DEF L!At
    <3> QED
      BY <1>1, <2>1, <3>1
  <2>2. CASE ~ i \in 1 .. n
    <3>1. ~ i + 1 \in 1 .. n
      BY <1>1, <1>2, <2>2
    <3> QED
      BY <2>2, <3>1 DEF L!At
  <2> QED
    BY <2>1, <2>2
<1> HIDE DEF After
<1>3. Is(f)
  <2>1. ASSUME NEW i \in 1 .. ListCapacity + 1
        PROVE  f[i] = IF i = 1 THEN tail ELSE After(f[i - 1])
    <3>1. CASE i = 1
      BY <1>1, <3>1
    <3>2. CASE i # 1
      <4>1. i - 1 \in 1 .. ListCapacity + 1 /\ i - 1 \in Int /\ i - 1 >= 1 /\ (i - 1) + 1 = i
        BY <1>1, <3>2
      <4>2. f[i - 1] = L!At(s, i - 1) /\ f[i] = L!At(s, i)
        BY <4>1
      <4>3. After(L!At(s, i - 1)) = L!At(s, (i - 1) + 1)
        BY <1>2, <4>1
      <4> QED
        BY <3>2, <4>1, <4>2, <4>3
    <3> QED
      BY <3>1, <3>2
  <2>2. f = [i \in 1 .. ListCapacity + 1 |-> f[i]]
    OBVIOUS
  <2> HIDE DEF f
  <2> QED
    BY <2>1, <2>2
<1>4. Is(w)
  <2> HIDE DEF Is, f
  <2> QED
    BY <1>3, Zenon
<1>5. L!Backward = L!UntilNone(w)
  BY Zenon DEF L!Backward, After
<1> HIDE DEF w, f
<1> DEFINE S == {k \in Nat : w[k + 1] = L!At(s, k + 1)}
<1>6. 0 \in S
  BY <1>1, <1>4
<1>7. ASSUME NEW k \in 0 .. ListCapacity - 1, k \in S
      PROVE  k + 1 \in S
  <2> DEFINE m == k + 1
  <2>1. m \in Nat /\ m >= 1 /\ m + 1 \in 1 .. ListCapacity + 1 /\ m + 1 # 1 /\ (m + 1) - 1 = m
    BY <1>1
  <2>2. w[m] = L!At(s, m)
    BY <1>7
  <2> HIDE DEF m
  <2>3. w[m + 1] = After(w[(m + 1) - 1])
    BY <1>4, <2>1
  <2>4. w[m + 1] = L!At(s, m + 1)
    <3>1. After(L!At(s, m)) = L!At(s, m + 1)
      <4>1. m \in Int /\ m >= 1
        BY <2>1
      <4> QED
        BY <1>2, <4>1
    <3> QED
      BY <2>1, <2>2, <2>3, <3>1
  <2> QED
    BY <2>1, <2>4 DEF m
<1>8. \A i \in 1 .. ListCapacity + 1 : w[i] = L!At(s, i)
  <2> SUFFICES ASSUME NEW i \in 1 .. ListCapacity + 1
               PROVE  w[i] = L!At(s, i)
    OBVIOUS
  <2>1. i - 1 \in 0 .. ListCapacity /\ (i - 1) + 1 = i
    BY <1>1
  <2> HIDE DEF S
  <2>2. i - 1 \in S
    BY <1>1, <1>6, <1>7, <2>1, UpTo
  <2> QED
    BY <2>1, <2>2 DEF S
<1>9. n \in 0 .. ListCapacity /\ (\A i \in 1 .. n : w[i] # L!None)
      /\ (n = ListCapacity \/ w[n + 1] = L!None)
  <2>1. ASSUME NEW i \in 1 .. n
        PROVE  w[i] # L!None
    <3>1. i \in 1 .. ListCapacity + 1 /\ s[i] \in L!Slots
      BY <1>1
    <3> QED
      BY <1>1, <1>8, <3>1 DEF L!At
  <2>2. n + 1 \in 1 .. ListCapacity + 1 /\ ~ n + 1 \in 1 .. n
    BY <1>1
  <2>3. w[n + 1] = L!None
    BY <1>8, <2>2 DEF L!At
  <2> QED
    BY <1>1, <2>1, <2>3
<1>10. L!UntilNone(w) = [i \in 1 .. n |-> w[i]]
  <2> HIDE DEF n
  <2> QED
    BY <1>9, UntilNoneIs
<1>11. [i \in 1 .. n |-> w[i]] = [i \in 1 .. n |-> s[i]]
  <2>1. ASSUME NEW i \in 1 .. n
        PROVE  w[i] = s[i]
    <3>1. i \in 1 .. ListCapacity + 1
      BY <1>1
    <3> QED
      BY <1>8, <3>1 DEF L!At
  <2> QED
    BY <2>1
<1>12. s = [i \in 1 .. n |-> s[i]]
  OBVIOUS
<1> QED
  BY <1>5, <1>10, <1>11, <1>12

-----------------------------------------------------------------------------
(* The pool.                                                               *)

Distinct(q) == \A i, j \in 1 .. Len(q) : q[i] = q[j] => i = j
Free(q) == {q[i] : i \in 1 .. Len(q)}

(* The slot on top leaves the free ones.                                   *)
LEMMA PoolTakes ==
  ASSUME NEW q \in Seq(L!Slots), Distinct(q), q # <<>>
  PROVE  /\ Head(q) \in L!Slots /\ Head(q) \in Free(q)
         /\ Tail(q) \in Seq(L!Slots) /\ Len(Tail(q)) = Len(q) - 1 /\ Len(q) \in Nat
         /\ Distinct(Tail(q)) /\ Free(Tail(q)) = Free(q) \ {Head(q)}
<1> DEFINE t == Tail(q)
           x == Head(q)
<1>1. /\ x = q[1] /\ 1 \in 1 .. Len(q) /\ x \in L!Slots /\ Len(q) \in Nat
      /\ t \in Seq(L!Slots) /\ Len(t) = Len(q) - 1 /\ \A i \in 1 .. Len(t) : t[i] = q[i + 1]
  OBVIOUS
<1> HIDE DEF t, x
<1>2. \A i \in 1 .. Len(t) : i + 1 \in 1 .. Len(q) /\ i + 1 # 1
  BY <1>1
<1>3. Distinct(t)
  <2> SUFFICES ASSUME NEW i \in 1 .. Len(t), NEW j \in 1 .. Len(t), t[i] = t[j]
               PROVE  i = j
    BY DEF Distinct
  <2>1. i + 1 = j + 1
    BY <1>1, <1>2 DEF Distinct
  <2> QED
    BY <2>1
<1>4. Free(t) = Free(q) \ {x}
  <2>1. ASSUME NEW y \in Free(t)
        PROVE  y \in Free(q) \ {x}
    <3>1. PICK i \in 1 .. Len(t) : y = t[i]
      BY DEF Free
    <3>2. y = q[i + 1] /\ i + 1 \in 1 .. Len(q) /\ i + 1 # 1
      BY <1>1, <1>2, <3>1
    <3> QED
      BY <1>1, <3>2 DEF Free, Distinct
  <2>2. ASSUME NEW y \in Free(q) \ {x}
        PROVE  y \in Free(t)
    <3>1. PICK i \in 1 .. Len(q) : y = q[i]
      BY DEF Free
    <3>2. i - 1 \in 1 .. Len(t) /\ (i - 1) + 1 = i
      BY <1>1, <3>1
    <3> QED
      BY <1>1, <3>1, <3>2 DEF Free
  <2> QED
    BY <2>1, <2>2
<1>5. x \in Free(q)
  BY <1>1 DEF Free
<1> QED
  BY <1>1, <1>3, <1>4, <1>5 DEF t, x

(* A slot that comes back is free again.                                   *)
LEMMA PoolGives ==
  ASSUME NEW q \in Seq(L!Slots), Distinct(q), NEW x \in L!Slots, x \notin Free(q)
  PROVE  /\ <<x>> \o q \in Seq(L!Slots) /\ Len(<<x>> \o q) = Len(q) + 1 /\ Len(q) \in Nat
         /\ Distinct(<<x>> \o q) /\ Free(<<x>> \o q) = Free(q) \cup {x}
<1> DEFINE t == <<x>> \o q
<1>1. /\ t \in Seq(L!Slots) /\ Len(t) = Len(q) + 1 /\ Len(q) \in Nat /\ t[1] = x
      /\ \A i \in 1 .. Len(q) : t[i + 1] = q[i]
  OBVIOUS
<1> HIDE DEF t
<1>2. \A i \in 1 .. Len(t) : i = 1 \/ (i - 1 \in 1 .. Len(q) /\ (i - 1) + 1 = i)
  BY <1>1
<1>3. ASSUME NEW i \in 1 .. Len(t)
      PROVE  t[i] = IF i = 1 THEN x ELSE q[i - 1]
  BY <1>1, <1>2
<1>4. Distinct(t)
  <2> SUFFICES ASSUME NEW i \in 1 .. Len(t), NEW j \in 1 .. Len(t), t[i] = t[j]
               PROVE  i = j
    BY DEF Distinct
  <2>1. CASE i = 1 \/ j = 1
    BY <1>2, <1>3, <2>1 DEF Free
  <2>2. CASE i # 1 /\ j # 1
    <3>1. i - 1 = j - 1
      BY <1>2, <1>3, <2>2 DEF Distinct
    <3> QED
      BY <3>1
  <2> QED
    BY <2>1, <2>2
<1>5. Free(t) = Free(q) \cup {x}
  <2>1. Free(t) \subseteq Free(q) \cup {x}
    BY <1>2, <1>3 DEF Free
  <2>2. 1 \in 1 .. Len(t) /\ \A i \in 1 .. Len(q) : i + 1 \in 1 .. Len(t)
    BY <1>1
  <2>3. Free(q) \cup {x} \subseteq Free(t)
    BY <1>1, <2>2 DEF Free
  <2> QED
    BY <2>1, <2>3
<1> QED
  BY <1>1, <1>4, <1>5 DEF t

-----------------------------------------------------------------------------
(* What an insertion and a removal do to the list.                         *)

ListNodes ==
  [value : Values \cup {NoValue}, prev : L!Slots \cup {L!None}, next : L!Slots \cup {L!None}]

(* An insertion in front of the i-th element of s, or behind the last one. *)
Insertion(s, i, x, v) ==
  /\ pool # <<>> /\ x = Head(pool) /\ pool' = Tail(pool)
  /\ node' \in [L!Slots -> ListNodes]
  /\ node'[x] = [value |-> v, prev |-> L!At(s, i - 1), next |-> L!At(s, i)]
  /\ \A slot \in L!Slots \ {x} :
       /\ node'[slot].value = node[slot].value
       /\ node'[slot].prev = IF slot = L!At(s, i) THEN x ELSE node[slot].prev
       /\ node'[slot].next = IF slot = L!At(s, i - 1) THEN x ELSE node[slot].next
  /\ head' = IF i = 1 THEN x ELSE head
  /\ tail' = IF i = Len(s) + 1 THEN x ELSE tail

(* The removal of the i-th element.                                        *)
Removal(s, i, x) ==
  /\ x = s[i] /\ pool' = <<x>> \o pool
  /\ node' \in [L!Slots -> ListNodes]
  /\ \A slot \in L!Slots \ {x} :
       /\ node'[slot].value = node[slot].value
       /\ node'[slot].prev = IF slot = L!At(s, i + 1) THEN L!At(s, i - 1) ELSE node[slot].prev
       /\ node'[slot].next = IF slot = L!At(s, i - 1) THEN L!At(s, i + 1) ELSE node[slot].next
  /\ head' = IF i = 1 THEN L!At(s, 2) ELSE head
  /\ tail' = IF i = Len(s) THEN L!At(s, Len(s) - 1) ELSE tail

(* The parts of the invariant, for the sequence that is in the list.       *)
ListIs(s) == L!IsChain(s) /\ pool \in Seq(L!Slots) /\ Distinct(pool)

LEMMA ListIsInv ==
  /\ L!IInv => \E s : s = L!Forward /\ ListIs(s) /\ L!TypeOK
  /\ \A s : ListIs(s) => L!Forward = s
  /\ \A s : ListIs(s) /\ L!TypeOK => L!IInv
<1>1. ASSUME pool \in Seq(L!Slots)
      PROVE  DOMAIN pool = 1 .. Len(pool)
  BY <1>1
<1>2. ASSUME NEW s, ListIs(s)
      PROVE  L!Forward = s
  <2>1. s \in Seq(L!Slots) /\ pool \in Seq(L!Slots) /\ Len(s) + Len(pool) = ListCapacity
    BY <1>2 DEF ListIs, L!IsChain
  <2>2. Len(s) <= ListCapacity
    <3>1. Len(s) \in Nat /\ Len(pool) \in Nat
      BY <2>1
    <3> QED
      BY <2>1, <3>1
  <2> QED
    BY <1>2, <2>1, <2>2, ForwardIs DEF ListIs, L!IsChain
<1>3. L!IInv => ListIs(L!Forward) /\ L!TypeOK
  BY <1>1 DEF L!IInv, ListIs, Distinct
<1>4. ASSUME NEW s, ListIs(s), L!TypeOK
      PROVE  L!IInv
  <2>1. L!Forward = s
    BY <1>2, <1>4
  <2> QED
    BY <1>1, <1>4, <2>1 DEF L!IInv, ListIs, Distinct
<1> QED
  BY <1>2, <1>3, <1>4

(* What a chain says, place by place.                                      *)
LEMMA ChainFacts ==
  ASSUME NEW s, ListIs(s)
  PROVE  /\ s \in Seq(L!Slots) /\ Len(s) \in Nat /\ DOMAIN s = 1 .. Len(s)
         /\ Distinct(s) /\ head = L!At(s, 1) /\ tail = L!At(s, Len(s))
         /\ \A k \in 1 .. Len(s) : /\ s[k] \in L!Slots /\ L!At(s, k) = s[k] /\ s[k] \notin Free(pool)
                                   /\ node[s[k]].prev = L!At(s, k - 1)
                                   /\ node[s[k]].next = L!At(s, k + 1)
         /\ \A k \in Int : ~ k \in 1 .. Len(s) => L!At(s, k) = L!None
         /\ \A k \in 1 .. Len(s), m \in Int : s[k] = L!At(s, m) <=> m = k
         /\ Len(s) + Len(pool) = ListCapacity /\ Free(s) = L!Slots \ Free(pool)
<1>1. /\ s \in Seq(L!Slots) /\ Distinct(s) /\ head = L!At(s, 1) /\ tail = L!At(s, Len(s))
      /\ \A k \in 1 .. Len(s) : node[s[k]].prev = L!At(s, k - 1) /\ node[s[k]].next = L!At(s, k + 1)
      /\ Len(s) + Len(pool) = ListCapacity
  BY DEF ListIs, L!IsChain, Distinct
<1>2. Free(s) = L!Slots \ Free(pool)
  <2>1. pool \in Seq(L!Slots)
    BY DEF ListIs
  <2>2. DOMAIN pool = 1 .. Len(pool)
    BY <2>1
  <2> QED
    BY <2>2 DEF ListIs, L!IsChain, Free, L!Allocated
<1>3. \A k \in 1 .. Len(s) : s[k] \in Free(s)
  BY DEF Free
<1>4. \A k \in Int : ~ k \in 1 .. Len(s) => L!At(s, k) = L!None
  BY DEF L!At
<1>5. \A k \in 1 .. Len(s) : L!At(s, k) = s[k] /\ s[k] \in L!Slots
  BY <1>1 DEF L!At
<1>6. ASSUME NEW k \in 1 .. Len(s), NEW m \in Int
      PROVE  s[k] = L!At(s, m) <=> m = k
  <2>1. CASE m \in 1 .. Len(s)
    BY <1>1, <1>5, <2>1 DEF Distinct
  <2>2. CASE ~ m \in 1 .. Len(s)
    BY <1>4, <1>5, <2>2, ListConstants
  <2> QED
    BY <2>1, <2>2
<1>7. Len(s) \in Nat /\ DOMAIN s = 1 .. Len(s)
  BY <1>1
<1> QED
  BY <1>1, <1>2, <1>3, <1>4, <1>5, <1>6, <1>7

(* An insertion puts the slot where it should.                             *)
LEMMA InsertionKeeps ==
  ASSUME NEW s, ListIs(s), NEW i \in 1 .. Len(s) + 1, NEW x, NEW v, Insertion(s, i, x, v)
  PROVE  ListIs(With(s, i, x))' /\ x \in L!Slots \ Free(s)
<1> DEFINE p == With(s, i, x)
           n == Len(s)
<1>1. /\ s \in Seq(L!Slots) /\ n \in Nat /\ Distinct(s) /\ head = L!At(s, 1) /\ tail = L!At(s, n)
      /\ \A k \in 1 .. n : /\ s[k] \in L!Slots /\ s[k] \notin Free(pool)
                           /\ node[s[k]].prev = L!At(s, k - 1) /\ node[s[k]].next = L!At(s, k + 1)
      /\ \A k \in Int : ~ k \in 1 .. n => L!At(s, k) = L!None
      /\ \A k \in 1 .. n, m \in Int : s[k] = L!At(s, m) <=> m = k
      /\ n + Len(pool) = ListCapacity /\ Free(s) = L!Slots \ Free(pool)
  BY ChainFacts
<1>2. pool \in Seq(L!Slots) /\ Distinct(pool) /\ pool # <<>> /\ x = Head(pool) /\ pool' = Tail(pool)
  BY DEF ListIs, Insertion
<1>3. /\ x \in L!Slots /\ x \in Free(pool) /\ pool' \in Seq(L!Slots) /\ Len(pool') = Len(pool) - 1
      /\ Len(pool) \in Nat /\ Distinct(pool') /\ Free(pool') = Free(pool) \ {x}
  BY <1>2, PoolTakes
<1>4. /\ p \in Seq(L!Slots) /\ Len(p) = n + 1
      /\ \A k \in 1 .. n + 1 : p[k] = IF k < i THEN s[k] ELSE IF k = i THEN x ELSE s[k - 1]
  <2>1. s \in Seq(L!Slots) /\ x \in L!Slots
    BY <1>1, <1>3
  <2> QED
    BY <2>1, WithIs
<1>5. \A k \in Int : L!At(p, k) = IF k < i THEN L!At(s, k) ELSE IF k = i THEN x ELSE L!At(s, k - 1)
  BY <1>1, <1>3, AtWith
<1> HIDE DEF p, n
<1>6. i \in 1 .. n + 1 /\ i \in Int
  BY <1>1 DEF n
<1>7. \A k \in 1 .. n : s[k] # x
  BY <1>1, <1>3
<1>8. Distinct(p) /\ Free(p) = Free(s) \cup {x}
  <2> DEFINE at(m) == IF m < i THEN m ELSE m - 1
  <2>1. \A m \in 1 .. n + 1 : m # i => at(m) \in 1 .. n /\ p[m] = s[at(m)]
    <3>1. \A m \in 1 .. n + 1 : m # i => at(m) \in 1 .. n /\ (m < i => at(m) = m) /\ (~ m < i => at(m) = m - 1)
      BY <1>1, <1>6
    <3> HIDE DEF at
    <3> QED
      BY <1>4, <3>1
  <2>2. ASSUME NEW m \in 1 .. n + 1, NEW k \in 1 .. n + 1, m # i, k # i, at(m) = at(k)
        PROVE  m = k
    <3>1. m \in Int /\ k \in Int
      BY <1>1
    <3> QED
      BY <1>6, <2>2, <3>1
  <2>3. p[i] = x
    BY <1>4, <1>6
  <2>4. ASSUME NEW y \in Free(s)
        PROVE  y \in Free(p)
    <3>1. PICK k \in 1 .. n : y = s[k]
      BY DEF Free, n
    <3>2. CASE k < i
      <4>1. k \in 1 .. n + 1 /\ p[k] = s[k]
        BY <1>1, <1>4, <3>2
      <4> QED
        BY <1>4, <3>1, <4>1 DEF Free
    <3>3. CASE k >= i
      <4>1. k + 1 \in 1 .. n + 1 /\ ~ k + 1 < i /\ k + 1 # i /\ (k + 1) - 1 = k
        BY <1>1, <1>6, <3>3
      <4>2. p[k + 1] = s[k]
        BY <1>4, <4>1
      <4> QED
        BY <1>4, <3>1, <4>1, <4>2 DEF Free
    <3> QED
      BY <1>6, <3>2, <3>3
  <2> HIDE DEF at
  <2>5. Distinct(p)
    <3> SUFFICES ASSUME NEW m \in 1 .. n + 1, NEW k \in 1 .. n + 1, p[m] = p[k]
                 PROVE  m = k
      BY <1>4 DEF Distinct
    <3>1. CASE m = i \/ k = i
      BY <1>7, <2>1, <2>3, <3>1
    <3>2. CASE m # i /\ k # i
      <4>1. PICK y, z : y = at(m) /\ z = at(k)
        OBVIOUS
      <4>2. y \in 1 .. n /\ z \in 1 .. n /\ s[y] = s[z]
        BY <2>1, <3>2, <4>1
      <4>3. y = z
        BY <1>1, <4>2 DEF Distinct, n
      <4> QED
        BY <2>2, <3>2, <4>1, <4>3
    <3> QED
      BY <3>1, <3>2
  <2>6. Free(p) \subseteq Free(s) \cup {x}
    BY <1>4, <2>1, <2>3 DEF Free, n
  <2>7. x \in Free(p)
    BY <1>4, <1>6, <2>3 DEF Free
  <2> QED
    BY <2>4, <2>5, <2>6, <2>7
<1>9. /\ node'[x] = [value |-> v, prev |-> L!At(s, i - 1), next |-> L!At(s, i)]
      /\ \A slot \in L!Slots : slot # x =>
           /\ node'[slot].prev = IF slot = L!At(s, i) THEN x ELSE node[slot].prev
           /\ node'[slot].next = IF slot = L!At(s, i - 1) THEN x ELSE node[slot].next
      /\ head' = IF i = 1 THEN x ELSE head
      /\ tail' = IF i = n + 1 THEN x ELSE tail
  BY DEF Insertion, n
<1>10. ASSUME NEW k \in 1 .. n
       PROVE  /\ node'[s[k]].prev = IF k = i THEN x ELSE L!At(s, k - 1)
              /\ node'[s[k]].next = IF k = i - 1 THEN x ELSE L!At(s, k + 1)
  <2>1. s[k] \in L!Slots /\ s[k] # x /\ i - 1 \in Int
    BY <1>1, <1>6, <1>7
  <2>2. (s[k] = L!At(s, i) <=> i = k) /\ (s[k] = L!At(s, i - 1) <=> i - 1 = k)
    BY <1>1, <1>6, <2>1
  <2> QED
    BY <1>1, <1>9, <2>1, <2>2
<1>11. ASSUME NEW k \in 1 .. n + 1
       PROVE  node'[p[k]].prev = L!At(p, k - 1) /\ node'[p[k]].next = L!At(p, k + 1)
  <2>1. k \in Int /\ k - 1 \in Int /\ k + 1 \in Int
    BY <1>1
  <2>2. CASE k < i
    <3>1. k \in 1 .. n /\ p[k] = s[k] /\ k - 1 < i /\ k # i
      BY <1>1, <1>4, <1>6, <2>2
    <3>2. L!At(p, k - 1) = L!At(s, k - 1)
      BY <1>5, <2>1, <3>1
    <3>3. L!At(p, k + 1) = IF k = i - 1 THEN x ELSE L!At(s, k + 1)
      <4>1. (k = i - 1 <=> k + 1 = i) /\ (k # i - 1 => k + 1 < i)
        BY <1>6, <2>1, <2>2
      <4> QED
        BY <1>5, <2>1, <4>1
    <3> QED
      BY <1>10, <3>1, <3>2, <3>3
  <2>3. CASE k = i
    <3>1. p[k] = x /\ k - 1 < i /\ ~ k + 1 < i /\ k + 1 # i /\ (k + 1) - 1 = i
      BY <1>4, <1>6, <2>3
    <3>2. L!At(p, k - 1) = L!At(s, i - 1) /\ L!At(p, k + 1) = L!At(s, i)
      BY <1>5, <2>1, <2>3, <3>1
    <3> QED
      BY <1>9, <3>1, <3>2
  <2>4. CASE k > i
    <3> DEFINE m == k - 1
    <3>1. m \in 1 .. n /\ p[k] = s[m] /\ m \in Int /\ m >= i /\ m # i - 1 /\ k = m + 1
      BY <1>1, <1>4, <1>6, <2>4
    <3>2. L!At(p, k - 1) = IF m = i THEN x ELSE L!At(s, m - 1)
      <4>1. k - 1 = m /\ ~ m < i
        BY <1>6, <3>1
      <4> QED
        BY <1>5, <2>1, <4>1
    <3>3. L!At(p, k + 1) = L!At(s, m + 1)
      <4>1. ~ k + 1 < i /\ k + 1 # i /\ (k + 1) - 1 = m + 1
        BY <1>6, <2>1, <2>4
      <4> QED
        BY <1>5, <2>1, <4>1
    <3> HIDE DEF m
    <3> QED
      BY <1>10, <3>1, <3>2, <3>3
  <2> QED
    BY <1>6, <2>1, <2>2, <2>3, <2>4
<1>12. head' = L!At(p, 1) /\ tail' = L!At(p, Len(p))
  <2>1. head' = L!At(p, 1)
    <3>1. i # 1 => 1 < i
      BY <1>6
    <3> QED
      BY <1>1, <1>5, <1>9, <3>1
  <2>2. tail' = L!At(p, n + 1)
    <3>1. n + 1 \in Int /\ (n + 1) - 1 = n /\ (i # n + 1 => ~ n + 1 < i) /\ (i = n + 1 => ~ n + 1 < i)
      BY <1>1, <1>6
    <3> QED
      BY <1>1, <1>5, <1>9, <3>1
  <2> QED
    BY <1>4, <2>1, <2>2
<1>13. Len(p) + Len(pool') = ListCapacity
  BY <1>1, <1>3, <1>4
<1>14. Free(p) = L!Slots \ Free(pool')
  BY <1>1, <1>3, <1>8
<1>15. ListIs(p)'
  <2>1. DOMAIN pool' = 1 .. Len(pool')
    BY <1>3
  <2>2. {p[k] : k \in 1 .. Len(p)} = L!Slots \ {pool'[k] : k \in DOMAIN pool'}
    BY <1>14, <2>1 DEF Free
  <2>3. L!IsChain(p)'
    BY <1>4, <1>8, <1>11, <1>12, <1>13, <2>2 DEF L!IsChain, L!Allocated, Distinct
  <2> QED
    BY <1>3, <2>3 DEF ListIs, Distinct
<1> QED
  BY <1>1, <1>3, <1>15 DEF p

(* A removal joins the neighbours.                                         *)
LEMMA RemovalKeeps ==
  ASSUME NEW s, ListIs(s), NEW i \in 1 .. Len(s), NEW x, Removal(s, i, x)
  PROVE  ListIs(Less(s, i))'
<1> DEFINE p == Less(s, i)
           n == Len(s)
<1>1. /\ s \in Seq(L!Slots) /\ n \in Nat /\ Distinct(s) /\ head = L!At(s, 1) /\ tail = L!At(s, n)
      /\ \A k \in 1 .. n : /\ s[k] \in L!Slots /\ s[k] \notin Free(pool)
                           /\ node[s[k]].prev = L!At(s, k - 1) /\ node[s[k]].next = L!At(s, k + 1)
      /\ \A k \in Int : ~ k \in 1 .. n => L!At(s, k) = L!None
      /\ \A k \in 1 .. n, m \in Int : s[k] = L!At(s, m) <=> m = k
      /\ n + Len(pool) = ListCapacity /\ Free(s) = L!Slots \ Free(pool)
  BY ChainFacts
<1>2. pool \in Seq(L!Slots) /\ Distinct(pool) /\ x = s[i] /\ pool' = <<x>> \o pool
  BY DEF ListIs, Removal
<1>3. /\ x \in L!Slots /\ pool' \in Seq(L!Slots) /\ Len(pool') = Len(pool) + 1
      /\ Len(pool) \in Nat /\ Distinct(pool') /\ Free(pool') = Free(pool) \cup {x}
  BY <1>1, <1>2, PoolGives
<1>4. /\ p \in Seq(L!Slots) /\ Len(p) = n - 1
      /\ \A k \in 1 .. n - 1 : p[k] = IF k < i THEN s[k] ELSE s[k + 1]
  BY <1>1, LessIs
<1>5. \A k \in Int : L!At(p, k) = IF k < i THEN L!At(s, k) ELSE IF k >= 1 THEN L!At(s, k + 1) ELSE L!None
  <2>1. s \in Seq(L!Slots)
    BY <1>1
  <2> QED
    BY <2>1, AtLess
<1>6. i \in 1 .. n /\ i \in Int
  BY <1>1
<1> HIDE DEF p, n
<1>7. Distinct(p) /\ Free(p) = Free(s) \ {x}
  <2> DEFINE at(m) == IF m < i THEN m ELSE m + 1
  <2>1. \A m \in 1 .. n - 1 : at(m) \in 1 .. n /\ at(m) # i /\ p[m] = s[at(m)]
    <3>1. \A m \in 1 .. n - 1 : at(m) \in 1 .. n /\ at(m) # i /\ (m < i => at(m) = m) /\ (~ m < i => at(m) = m + 1)
      BY <1>1, <1>6
    <3> HIDE DEF at
    <3> QED
      BY <1>4, <3>1
  <2>2. ASSUME NEW m \in 1 .. n - 1, NEW k \in 1 .. n - 1, at(m) = at(k)
        PROVE  m = k
    <3>1. m \in Int /\ k \in Int
      BY <1>1
    <3> QED
      BY <1>6, <2>2, <3>1
  <2>3. ASSUME NEW y \in Free(s) \ {x}
        PROVE  y \in Free(p)
    <3>1. PICK k \in 1 .. n : y = s[k] /\ k # i
      BY <1>2 DEF Free, n
    <3>2. CASE k < i
      <4>1. k \in 1 .. n - 1 /\ p[k] = s[k]
        BY <1>1, <1>4, <1>6, <3>2
      <4> QED
        BY <1>4, <3>1, <4>1 DEF Free
    <3>3. CASE k > i
      <4>1. k - 1 \in 1 .. n - 1 /\ ~ k - 1 < i /\ (k - 1) + 1 = k
        BY <1>1, <1>6, <3>3
      <4>2. p[k - 1] = s[k]
        BY <1>4, <4>1
      <4> QED
        BY <1>4, <3>1, <4>1, <4>2 DEF Free
    <3> QED
      BY <1>6, <3>1, <3>2, <3>3
  <2> HIDE DEF at
  <2>4. Distinct(p)
    <3> SUFFICES ASSUME NEW m \in 1 .. n - 1, NEW k \in 1 .. n - 1, p[m] = p[k]
                 PROVE  m = k
      BY <1>4 DEF Distinct
    <3>1. PICK y, z : y = at(m) /\ z = at(k)
      OBVIOUS
    <3>2. y \in 1 .. n /\ z \in 1 .. n /\ s[y] = s[z]
      BY <2>1, <3>1
    <3>3. y = z
      BY <1>1, <3>2 DEF Distinct, n
    <3> QED
      BY <2>2, <3>1, <3>3
  <2>5. ASSUME NEW y \in Free(p)
        PROVE  y \in Free(s) \ {x}
    <3>1. PICK m \in 1 .. n - 1 : y = p[m]
      BY <1>4 DEF Free
    <3>2. y = s[at(m)] /\ at(m) \in 1 .. n /\ at(m) # i
      BY <2>1, <3>1
    <3> QED
      BY <1>1, <1>2, <1>6, <3>2 DEF Free, Distinct, n
  <2> QED
    BY <2>3, <2>4, <2>5
<1>8. /\ \A slot \in L!Slots : slot # x =>
           /\ node'[slot].prev = IF slot = L!At(s, i + 1) THEN L!At(s, i - 1) ELSE node[slot].prev
           /\ node'[slot].next = IF slot = L!At(s, i - 1) THEN L!At(s, i + 1) ELSE node[slot].next
      /\ head' = IF i = 1 THEN L!At(s, 2) ELSE head
      /\ tail' = IF i = n THEN L!At(s, n - 1) ELSE tail
  BY DEF Removal, n
<1>9. ASSUME NEW k \in 1 .. n, k # i
      PROVE  /\ node'[s[k]].prev = IF k = i + 1 THEN L!At(s, i - 1) ELSE L!At(s, k - 1)
             /\ node'[s[k]].next = IF k = i - 1 THEN L!At(s, i + 1) ELSE L!At(s, k + 1)
  <2>1. s[k] \in L!Slots /\ s[k] # x /\ i - 1 \in Int /\ i + 1 \in Int
    BY <1>1, <1>2, <1>6, <1>9 DEF Distinct, n
  <2>2. (s[k] = L!At(s, i + 1) <=> i + 1 = k) /\ (s[k] = L!At(s, i - 1) <=> i - 1 = k)
    BY <1>1, <2>1
  <2> QED
    BY <1>1, <1>8, <2>1, <2>2
<1>10. ASSUME NEW k \in 1 .. n - 1
       PROVE  node'[p[k]].prev = L!At(p, k - 1) /\ node'[p[k]].next = L!At(p, k + 1)
  <2>1. k \in Int /\ k - 1 \in Int /\ k + 1 \in Int /\ k + 1 >= 1
    BY <1>1
  <2>2. CASE k < i
    <3>1. k \in 1 .. n /\ k # i /\ p[k] = s[k] /\ k - 1 < i /\ k # i + 1
      BY <1>1, <1>4, <1>6, <2>2
    <3>2. L!At(p, k - 1) = L!At(s, k - 1)
      BY <1>5, <2>1, <3>1
    <3>3. L!At(p, k + 1) = IF k = i - 1 THEN L!At(s, i + 1) ELSE L!At(s, k + 1)
      <4>1. (k = i - 1 => ~ k + 1 < i /\ (k + 1) + 1 = i + 1) /\ (k # i - 1 => k + 1 < i)
        BY <1>6, <2>1, <2>2
      <4> QED
        BY <1>5, <2>1, <4>1
    <3> QED
      BY <1>9, <3>1, <3>2, <3>3
  <2>3. CASE k >= i
    <3> DEFINE m == k + 1
    <3>1. m \in 1 .. n /\ m # i /\ p[k] = s[m] /\ m # i - 1 /\ m \in Int /\ k = m - 1
      BY <1>1, <1>4, <1>6, <2>3
    <3>2. L!At(p, k - 1) = IF m = i + 1 THEN L!At(s, i - 1) ELSE L!At(s, m - 1)
      <4>1. CASE m = i + 1
        <5>1. k - 1 = i - 1 /\ k - 1 < i
          BY <1>6, <3>1, <4>1
        <5> QED
          BY <1>5, <2>1, <4>1, <5>1
      <4>2. CASE m # i + 1
        <5>1. ~ k - 1 < i /\ k - 1 >= 1 /\ (k - 1) + 1 = m - 1
          BY <1>6, <2>1, <2>3, <3>1, <4>2
        <5> QED
          BY <1>5, <2>1, <4>2, <5>1
      <4> QED
        BY <4>1, <4>2
    <3>3. L!At(p, k + 1) = L!At(s, m + 1)
      <4>1. ~ k + 1 < i /\ (k + 1) + 1 = m + 1
        BY <1>6, <2>1, <2>3
      <4> QED
        BY <1>5, <2>1, <4>1
    <3> HIDE DEF m
    <3> QED
      BY <1>9, <3>1, <3>2, <3>3
  <2> QED
    BY <1>6, <2>1, <2>2, <2>3
<1>11. head' = L!At(p, 1) /\ tail' = L!At(p, Len(p))
  <2>1. head' = L!At(p, 1)
    <3>1. (i # 1 => 1 < i) /\ 1 + 1 = 2 /\ 1 >= 1 /\ (i = 1 => ~ 1 < i)
      BY <1>6
    <3>2. L!At(p, 1) = IF i = 1 THEN L!At(s, 2) ELSE L!At(s, 1)
      <4>1. 1 \in Int
        OBVIOUS
      <4>2. L!At(p, 1) = IF 1 < i THEN L!At(s, 1) ELSE IF 1 >= 1 THEN L!At(s, 1 + 1) ELSE L!None
        BY <1>5, <4>1
      <4> QED
        BY <3>1, <4>2
    <3> QED
      BY <1>1, <1>8, <3>2
  <2>2. tail' = L!At(p, n - 1)
    <3>1. CASE i = n
      <4>1. n - 1 \in Int /\ n - 1 < i
        BY <1>1, <3>1
      <4> QED
        BY <1>5, <1>8, <3>1, <4>1
    <3>2. CASE i # n
      <4>1. n - 1 \in Int /\ ~ n - 1 < i /\ (n - 1) + 1 = n /\ n - 1 >= 1
        BY <1>1, <1>6, <3>2
      <4> QED
        BY <1>1, <1>5, <1>8, <3>2, <4>1
    <3> QED
      BY <3>1, <3>2
  <2> QED
    BY <1>4, <2>1, <2>2
<1>12. Len(p) + Len(pool') = ListCapacity
  BY <1>1, <1>3, <1>4
<1>13. Free(p) = L!Slots \ Free(pool')
  BY <1>1, <1>3, <1>7
<1>14. ListIs(p)'
  <2>1. DOMAIN pool' = 1 .. Len(pool')
    BY <1>3
  <2>2. {p[k] : k \in 1 .. Len(p)} = L!Slots \ {pool'[k] : k \in DOMAIN pool'}
    BY <1>13, <2>1 DEF Free
  <2>3. L!IsChain(p)'
    BY <1>4, <1>7, <1>10, <1>11, <1>12, <2>2 DEF L!IsChain, L!Allocated, Distinct
  <2> QED
    BY <1>3, <2>3 DEF ListIs, Distinct
<1> QED
  BY <1>14 DEF p

-----------------------------------------------------------------------------
(* The calls.                                                              *)

(* The same after a step.                                                  *)
LEMMA ListIsInvNext ==
  /\ \A s : ListIs(s)' => (L!Forward)' = s
  /\ \A s : ListIs(s)' /\ (L!TypeOK)' => (L!IInv)'
<1> DEFINE F == /\ \A s : ListIs(s) => L!Forward = s
                /\ \A s : ListIs(s) /\ L!TypeOK => L!IInv
<1>1. F
  BY ListIsInv
<1> HIDE DEF F
<1>2. F'
  BY <1>1, PTL
<1> QED
  BY <1>2 DEF F

Links == L!Slots \cup {L!None}

LEMMA TypeNext ==
  ASSUME NEW p, ListIs(p)', node' \in [L!Slots -> ListNodes],
         call'.given \in Links, call'.returned \in Links
  PROVE  (L!TypeOK)'
<1>1. /\ p \in Seq(L!Slots) /\ head' = L!At(p, 1) /\ tail' = L!At(p, Len(p))
      /\ Len(p) + Len(pool') = ListCapacity /\ pool' \in Seq(L!Slots)
  BY DEF ListIs, L!IsChain
<1>2. head' \in Links /\ tail' \in Links
  <2>1. \A k \in Int : L!At(p, k) \in Links
    BY <1>1 DEF L!At, Links
  <2>2. Len(p) \in Int
    BY <1>1
  <2> QED
    BY <1>1, <2>1, <2>2
<1>3. Len(pool') <= ListCapacity /\ \A i \in DOMAIN pool' : pool'[i] \in L!Slots
  <2>1. Len(pool') \in Nat /\ Len(p) \in Nat /\ ListCapacity \in Nat
    BY <1>1, ListConstants
  <2> QED
    BY <1>1, <2>1
<1>4. node' \in [L!Slots -> [value : Values \cup {NoValue}, prev : L!Slots \cup {L!None},
                             next : L!Slots \cup {L!None}]]
  BY DEF ListNodes
<1> QED
  BY <1>2, <1>3, <1>4 DEF L!TypeOK, Links

(* One link changed.                                                       *)
LEMMA PrevLink ==
  ASSUME NEW nodes \in [L!Slots -> ListNodes], NEW s \in Links, NEW p \in Links,
         NEW after, after = L!WithPrev(nodes, s, p)
  PROVE  /\ after \in [L!Slots -> ListNodes]
         /\ \A slot \in L!Slots :
              /\ after[slot].value = nodes[slot].value /\ after[slot].next = nodes[slot].next
              /\ after[slot].prev = IF slot = s THEN p ELSE nodes[slot].prev
<1>1. CASE s = L!None
  <2>1. \A slot \in L!Slots : slot # s
    BY <1>1, ListConstants
  <2> QED
    BY <1>1, <2>1 DEF L!WithPrev
<1>2. CASE s # L!None
  <2>1. s \in L!Slots /\ nodes[s] \in ListNodes
    BY <1>2 DEF Links
  <2> DEFINE n == [nodes[s] EXCEPT !.prev = p]
  <2>2. n \in ListNodes /\ n.value = nodes[s].value /\ n.next = nodes[s].next /\ n.prev = p
    BY <2>1 DEF ListNodes, Links
  <2>3. after = [nodes EXCEPT ![s] = n]
    BY <1>2 DEF L!WithPrev
  <2> HIDE DEF n
  <2> QED
    BY <2>1, <2>2, <2>3
<1> QED
  BY <1>1, <1>2

LEMMA NextLink ==
  ASSUME NEW nodes \in [L!Slots -> ListNodes], NEW s \in Links, NEW p \in Links,
         NEW after, after = L!WithNext(nodes, s, p)
  PROVE  /\ after \in [L!Slots -> ListNodes]
         /\ \A slot \in L!Slots :
              /\ after[slot].value = nodes[slot].value /\ after[slot].prev = nodes[slot].prev
              /\ after[slot].next = IF slot = s THEN p ELSE nodes[slot].next
<1>1. CASE s = L!None
  <2>1. \A slot \in L!Slots : slot # s
    BY <1>1, ListConstants
  <2> QED
    BY <1>1, <2>1 DEF L!WithNext
<1>2. CASE s # L!None
  <2>1. s \in L!Slots /\ nodes[s] \in ListNodes
    BY <1>2 DEF Links
  <2> DEFINE n == [nodes[s] EXCEPT !.next = p]
  <2>2. n \in ListNodes /\ n.value = nodes[s].value /\ n.prev = nodes[s].prev /\ n.next = p
    BY <2>1 DEF ListNodes, Links
  <2>3. after = [nodes EXCEPT ![s] = n]
    BY <1>2 DEF L!WithNext
  <2> HIDE DEF n
  <2> QED
    BY <2>1, <2>2, <2>3
<1> QED
  BY <1>1, <1>2

(* What every call knows of the nodes and of the slot it may get.          *)
LEMMA AtACall ==
  ASSUME NEW s, ListIs(s), L!TypeOK
  PROVE  /\ node \in [L!Slots -> ListNodes] /\ L!None \notin L!Slots
         /\ \A k \in Int : L!At(s, k) \in Links
         /\ pool # <<>> => L!Slot \in L!Slots /\ L!Slot \notin Free(s) /\ L!Slot = Head(pool)
<1>1. node \in [L!Slots -> ListNodes]
  BY DEF L!TypeOK, ListNodes
<1>2. \A k \in Int : L!At(s, k) \in Links
  BY ChainFacts DEF L!At, Links
<1>3. ASSUME pool # <<>>
      PROVE  Head(pool) \in L!Slots /\ Head(pool) \notin Free(s)
  <2>1. pool \in Seq(L!Slots) /\ Distinct(pool) /\ Free(s) = L!Slots \ Free(pool)
    BY ChainFacts DEF ListIs
  <2>2. Head(pool) \in L!Slots /\ Head(pool) \in Free(pool)
    BY <1>3, <2>1, PoolTakes
  <2> QED
    BY <2>1, <2>2
<1> QED
  BY <1>1, <1>2, <1>3, ListConstants DEF L!Slot, L!NextSlot

(* Where a slot of the list is in it.                                      *)
LEMMA PlaceInList ==
  ASSUME NEW s, ListIs(s), NEW pos \in L!Allocated(pool)
  PROVE  \E i \in 1 .. Len(s) : pos = s[i]
<1>1. Free(s) = L!Allocated(pool)
  <2>1. pool \in Seq(L!Slots)
    BY DEF ListIs
  <2>2. DOMAIN pool = 1 .. Len(pool)
    BY <2>1
  <2> QED
    BY <2>2 DEF ListIs, L!IsChain, Free
<1> QED
  BY <1>1 DEF Free

(* The list before it has a new element: what the three ways to put one in *)
(* have in common.                                                         *)
NewNodes(s, i, x, v) ==
  L!WithNext(L!WithPrev([node EXCEPT ![x] = L!NewNode(v, L!At(s, i - 1), L!At(s, i))],
                        L!At(s, i), x), L!At(s, i - 1), x)

LEMMA InsertionIs ==
  ASSUME NEW s, ListIs(s), L!TypeOK, NEW i \in 1 .. Len(s) + 1, NEW v \in Values,
         pool # <<>>, NEW x, x = L!Slot, pool' = Tail(pool), node' = NewNodes(s, i, x, v),
         head' = IF i = 1 THEN x ELSE head, tail' = IF i = Len(s) + 1 THEN x ELSE tail
  PROVE  Insertion(s, i, x, v)
<1> DEFINE before == L!At(s, i - 1)
           after == L!At(s, i)
           e == L!NewNode(v, before, after)
           a == [node EXCEPT ![x] = e]
           b == L!WithPrev(a, after, x)
<1>1. /\ node \in [L!Slots -> ListNodes] /\ L!None \notin L!Slots
      /\ x \in L!Slots /\ x \notin Free(s) /\ x = Head(pool)
      /\ i \in Int /\ i - 1 \in Int /\ before \in Links /\ after \in Links
  <2>1. Len(s) \in Nat
    BY ChainFacts
  <2>2. i \in Int /\ i - 1 \in Int
    BY <2>1
  <2> QED
    BY <2>2, AtACall
<1>2. before # x /\ after # x
  <2>1. \A k \in Int : L!At(s, k) # x
    BY <1>1 DEF L!At, Free
  <2> QED
    BY <1>1, <2>1
<1> HIDE DEF before, after
<1>3. e \in ListNodes /\ e = [value |-> v, prev |-> before, next |-> after]
  BY <1>1 DEF ListNodes, Links, L!NewNode
<1> HIDE DEF e
<1>4. a \in [L!Slots -> ListNodes] /\ a[x] = e /\ \A slot \in L!Slots \ {x} : a[slot] = node[slot]
  BY <1>1, <1>3
<1>5. x \in Links
  BY <1>1 DEF Links
<1> HIDE DEF a
<1>6. /\ b \in [L!Slots -> ListNodes]
      /\ \A slot \in L!Slots :
           /\ b[slot].value = a[slot].value /\ b[slot].next = a[slot].next
           /\ b[slot].prev = IF slot = after THEN x ELSE a[slot].prev
  <2>1. PICK c : c = L!WithPrev(a, after, x)
    OBVIOUS
  <2>2. /\ c \in [L!Slots -> ListNodes]
        /\ \A slot \in L!Slots :
             /\ c[slot].value = a[slot].value /\ c[slot].next = a[slot].next
             /\ c[slot].prev = IF slot = after THEN x ELSE a[slot].prev
    BY <1>1, <1>4, <1>5, <2>1, PrevLink
  <2>3. c = b
    BY <2>1
  <2> HIDE DEF b
  <2> QED
    BY <2>2, <2>3
<1> HIDE DEF b
<1>7. node' = L!WithNext(b, before, x)
  BY DEF NewNodes, b, a, e, before, after
<1>8. /\ node' \in [L!Slots -> ListNodes]
      /\ \A slot \in L!Slots :
           /\ node'[slot].value = b[slot].value /\ node'[slot].prev = b[slot].prev
           /\ node'[slot].next = IF slot = before THEN x ELSE b[slot].next
  <2>1. b \in [L!Slots -> ListNodes] /\ before \in Links
    BY <1>1, <1>6
  <2> QED
    BY <1>5, <1>7, <2>1, NextLink
<1>9. node'[x] = e
  <2>1. node'[x].value = e.value /\ node'[x].prev = e.prev /\ node'[x].next = e.next
    BY <1>1, <1>2, <1>4, <1>6, <1>8
  <2>2. node'[x] \in ListNodes
    BY <1>1, <1>8
  <2> QED
    BY <1>3, <2>1, <2>2 DEF ListNodes
<1>10. \A slot \in L!Slots \ {x} :
         /\ node'[slot].value = node[slot].value
         /\ node'[slot].prev = IF slot = after THEN x ELSE node[slot].prev
         /\ node'[slot].next = IF slot = before THEN x ELSE node[slot].next
  BY <1>4, <1>6, <1>8
<1> QED
  BY <1>1, <1>3, <1>8, <1>9, <1>10 DEF Insertion, before, after

(* An insertion and a removal, with what the caller sees of them.          *)
Inserts(s) ==
  \E i \in 1 .. Len(s) + 1, v \in Values :
    Insertion(s, i, L!Slot, v) /\ call' = [given |-> L!At(s, i), returned |-> L!Slot]

Removes(s) ==
  \E i \in 1 .. Len(s) :
    Removal(s, i, s[i]) /\ call' = [given |-> s[i], returned |-> L!None]

LEMMA PushFrontInserts ==
  ASSUME NEW s, ListIs(s), L!TypeOK, NEW v \in Values, L!PushFront(v)
  PROVE  Inserts(s)
<1> DEFINE x == L!Slot
           e == L!NewNode(v, L!None, head)
           a == [node EXCEPT ![x] = e]
<1>1. /\ Len(s) \in Nat /\ head = L!At(s, 1) /\ tail = L!At(s, Len(s)) /\ L!At(s, 0) = L!None
      /\ 1 - 1 = 0 /\ 1 \in 1 .. Len(s) + 1
  BY ChainFacts
<1>2. /\ pool # <<>> /\ pool' = Tail(pool) /\ call' = [given |-> head, returned |-> x]
      /\ node' = L!WithPrev(a, head, x) /\ head' = x /\ tail' = IF head = L!None THEN x ELSE tail
  BY DEF L!PushFront, L!Grow, L!PoolFull, L!Allocate
<1> HIDE DEF x, e, a
<1>3. node' = NewNodes(s, 1, x, v)
  <2>1. NewNodes(s, 1, x, v) = L!WithNext(L!WithPrev(a, head, x), L!None, x)
    BY <1>1 DEF NewNodes, a, e
  <2> QED
    BY <1>2, <2>1 DEF L!WithNext
<1>4. tail' = IF 1 = Len(s) + 1 THEN x ELSE tail
  <2>1. head = L!None <=> Len(s) = 0
    BY <1>1, ChainFacts, ListConstants
  <2>2. 1 = Len(s) + 1 <=> Len(s) = 0
    <3>1. PICK n \in Nat : n = Len(s)
      BY <1>1
    <3>2. 1 = n + 1 <=> n = 0
      OBVIOUS
    <3> QED
      BY <3>1, <3>2
  <2> QED
    BY <1>2, <2>1, <2>2
<1>5. Insertion(s, 1, x, v)
  <2>1. x = L!Slot
    BY DEF x
  <2> QED
    BY <1>1, <1>2, <1>3, <1>4, <2>1, InsertionIs
<1> QED
  BY <1>1, <1>2, <1>5 DEF Inserts, x

LEMMA PushBackInserts ==
  ASSUME NEW s, ListIs(s), L!TypeOK, NEW v \in Values, L!PushBack(v)
  PROVE  Inserts(s)
<1> DEFINE x == L!Slot
           e == L!NewNode(v, tail, L!None)
           a == [node EXCEPT ![x] = e]
           i == Len(s) + 1
<1>1. /\ Len(s) \in Nat /\ head = L!At(s, 1) /\ tail = L!At(s, Len(s)) /\ L!At(s, i) = L!None
      /\ i - 1 = Len(s) /\ i \in 1 .. Len(s) + 1
  <2>1. Len(s) \in Nat /\ ~ i \in 1 .. Len(s) /\ i \in Int
    BY ChainFacts
  <2> QED
    BY <2>1, ChainFacts
<1>2. /\ pool # <<>> /\ pool' = Tail(pool) /\ call' = [given |-> L!None, returned |-> x]
      /\ node' = L!WithNext(a, tail, x) /\ tail' = x /\ head' = IF tail = L!None THEN x ELSE head
  BY DEF L!PushBack, L!Grow, L!PoolFull, L!Allocate
<1> HIDE DEF x, e, a, i
<1>3. node' = NewNodes(s, i, x, v)
  <2>1. NewNodes(s, i, x, v) = L!WithNext(L!WithPrev(a, L!None, x), tail, x)
    BY <1>1 DEF NewNodes, a, e
  <2> QED
    BY <1>2, <2>1 DEF L!WithPrev
<1>4. head' = IF i = 1 THEN x ELSE head
  <2>1. tail = L!None <=> Len(s) = 0
    BY <1>1, ChainFacts, ListConstants
  <2> QED
    BY <1>1, <1>2, <2>1 DEF i
<1>5. Insertion(s, i, x, v)
  <2>1. x = L!Slot /\ i = Len(s) + 1
    BY DEF x, i
  <2> QED
    BY <1>1, <1>2, <1>3, <1>4, <2>1, InsertionIs
<1> QED
  BY <1>1, <1>2, <1>5 DEF Inserts, x

LEMMA InsertInsideInserts ==
  ASSUME NEW s, ListIs(s), L!TypeOK, NEW v \in Values, NEW next \in L!Allocated(pool),
         next # head, L!InsertInside(next, v)
  PROVE  Inserts(s)
<1>1. PICK i \in 1 .. Len(s) : next = s[i]
  BY PlaceInList
<1> DEFINE x == L!Slot
           prev == node[next].prev
           e == L!NewNode(v, prev, next)
           a == [node EXCEPT ![x] = e]
<1>2. /\ Len(s) \in Nat /\ i \in 1 .. Len(s) + 1 /\ i # Len(s) + 1 /\ i \in Int
      /\ L!At(s, i) = next /\ prev = L!At(s, i - 1) /\ next # L!None
  <2>1. Len(s) \in Nat
    BY ChainFacts
  <2>2. i \in 1 .. Len(s) + 1 /\ i # Len(s) + 1
    BY <2>1
  <2> QED
    BY <1>1, <2>1, <2>2, ChainFacts, ListConstants
<1>3. i # 1 /\ prev # L!None
  <2>1. i # 1
    BY <1>1, <1>2, ChainFacts
  <2>2. i - 1 \in 1 .. Len(s)
    BY <1>2, <2>1
  <2>3. L!At(s, i - 1) \in L!Slots
    BY <2>2, ChainFacts
  <2> QED
    BY <1>2, <2>1, <2>3, ListConstants
<1>4. /\ pool # <<>> /\ pool' = Tail(pool) /\ call' = [given |-> next, returned |-> x]
      /\ node' = [node EXCEPT ![x] = e, ![next].prev = x, ![prev].next = x]
      /\ tail' = tail /\ head' = head
  BY DEF L!InsertInside, L!Grow, L!PoolFull, L!Allocate
<1> HIDE DEF prev
<1>5. node' = NewNodes(s, i, x, v)
  <2>1. node' = [[a EXCEPT ![next].prev = x] EXCEPT ![prev].next = x]
    BY <1>4
  <2>2. NewNodes(s, i, x, v) = L!WithNext(L!WithPrev(a, next, x), prev, x)
    BY <1>2 DEF NewNodes
  <2> HIDE DEF a, x
  <2> QED
    BY <1>2, <1>3, <2>1, <2>2 DEF L!WithNext, L!WithPrev
<1> HIDE DEF x, e, a
<1>6. Insertion(s, i, x, v)
  <2>1. x = L!Slot
    BY DEF x
  <2> QED
    BY <1>2, <1>3, <1>4, <1>5, <2>1, InsertionIs
<1> QED
  BY <1>2, <1>4, <1>6 DEF Inserts, x

LEMMA OnePlace ==
  ASSUME NEW s, ListIs(s), NEW k \in 1 .. Len(s), NEW m \in Int
  PROVE  s[k] = L!At(s, m) <=> m = k
BY ChainFacts

LEMMA PopFrontRemoves ==
  ASSUME NEW s, ListIs(s), L!TypeOK, L!PopFront
  PROVE  Removes(s)
<1> DEFINE x == head
           next == node[head].next
           a == [node EXCEPT ![x] = L!Blank]
<1>1. /\ Len(s) \in Nat /\ head = L!At(s, 1) /\ tail = L!At(s, Len(s)) /\ L!At(s, 0) = L!None
      /\ head # L!None
  <2>1. head # L!None
    BY DEF L!PopFront
  <2> QED
    BY <2>1, ChainFacts
<1>2. 1 \in 1 .. Len(s) /\ x = s[1] /\ x \in L!Slots /\ next = L!At(s, 2)
  <2>1. 1 \in 1 .. Len(s)
    BY <1>1, ChainFacts
  <2>2. 1 + 1 = 2
    OBVIOUS
  <2> QED
    BY <1>1, <2>1, <2>2, ChainFacts
<1>3. /\ pool' = <<x>> \o pool /\ call' = [given |-> x, returned |-> L!None]
      /\ node' = L!WithPrev(a, next, L!None) /\ head' = next
      /\ tail' = IF x = tail THEN L!None ELSE tail
  BY DEF L!PopFront, L!Shrink, L!Deallocate
<1>4. /\ node \in [L!Slots -> ListNodes] /\ L!Blank \in ListNodes /\ next \in Links /\ L!None \in Links
  <2>1. L!Blank \in ListNodes /\ L!None \in Links
    BY DEF L!Blank, ListNodes, Links
  <2>2. L!At(s, 2) \in Links
    BY AtACall
  <2> QED
    BY <1>2, <2>1, <2>2, AtACall
<1> HIDE DEF x, next
<1>5. a \in [L!Slots -> ListNodes] /\ \A slot \in L!Slots \ {x} : a[slot] = node[slot]
  BY <1>2, <1>4
<1> HIDE DEF a
<1>6. /\ node' \in [L!Slots -> ListNodes]
      /\ \A slot \in L!Slots :
           /\ node'[slot].value = a[slot].value /\ node'[slot].next = a[slot].next
           /\ node'[slot].prev = IF slot = next THEN L!None ELSE a[slot].prev
  BY <1>3, <1>4, <1>5, PrevLink
<1>7. tail' = IF 1 = Len(s) THEN L!At(s, Len(s) - 1) ELSE tail
  <2>1. x = tail <=> 1 = Len(s)
    <3>1. s[1] = L!At(s, Len(s)) <=> Len(s) = 1
      <4>1. Len(s) \in Int
        BY <1>1
      <4> QED
        BY <1>2, <4>1, OnePlace
    <3> QED
      BY <1>1, <1>2, <3>1
  <2>2. 1 - 1 = 0
    OBVIOUS
  <2> QED
    BY <1>1, <1>3, <2>1, <2>2
<1>8. \A slot \in L!Slots : slot # L!None
  BY ListConstants
<1>9. 1 - 1 = 0 /\ 1 + 1 = 2
  OBVIOUS
<1>10. Removal(s, 1, x)
  BY <1>1, <1>2, <1>3, <1>5, <1>6, <1>7, <1>8, <1>9 DEF Removal
<1> QED
  BY <1>2, <1>3, <1>10 DEF Removes

LEMMA PopBackRemoves ==
  ASSUME NEW s, ListIs(s), L!TypeOK, L!PopBack
  PROVE  Removes(s)
<1> DEFINE x == tail
           prev == node[tail].prev
           a == [node EXCEPT ![x] = L!Blank]
           n == Len(s)
<1>1. /\ n \in Nat /\ head = L!At(s, 1) /\ tail = L!At(s, n) /\ L!At(s, n + 1) = L!None
      /\ tail # L!None
  <2>1. tail # L!None
    BY DEF L!PopBack
  <2>2. n \in Nat /\ n + 1 \in Int /\ ~ n + 1 \in 1 .. n
    BY ChainFacts
  <2> QED
    BY <2>1, <2>2, ChainFacts
<1>2. n \in 1 .. n /\ x = s[n] /\ x \in L!Slots /\ prev = L!At(s, n - 1)
  <2>1. n \in 1 .. n
    BY <1>1, ChainFacts
  <2> QED
    BY <1>1, <2>1, ChainFacts
<1>3. /\ pool' = <<x>> \o pool /\ call' = [given |-> x, returned |-> L!None]
      /\ node' = L!WithNext(a, prev, L!None) /\ tail' = prev
      /\ head' = IF head = x THEN L!None ELSE head
  BY DEF L!PopBack, L!Shrink, L!Deallocate
<1>4. /\ node \in [L!Slots -> ListNodes] /\ L!Blank \in ListNodes /\ prev \in Links /\ L!None \in Links
  <2>1. L!Blank \in ListNodes /\ L!None \in Links
    BY DEF L!Blank, ListNodes, Links
  <2>2. n - 1 \in Int
    BY <1>1
  <2>3. L!At(s, n - 1) \in Links
    BY <2>2, AtACall
  <2> QED
    BY <1>2, <2>1, <2>3, AtACall
<1> HIDE DEF x, prev
<1>5. a \in [L!Slots -> ListNodes] /\ \A slot \in L!Slots \ {x} : a[slot] = node[slot]
  BY <1>2, <1>4
<1> HIDE DEF a
<1>6. /\ node' \in [L!Slots -> ListNodes]
      /\ \A slot \in L!Slots :
           /\ node'[slot].value = a[slot].value /\ node'[slot].prev = a[slot].prev
           /\ node'[slot].next = IF slot = prev THEN L!None ELSE a[slot].next
  BY <1>3, <1>4, <1>5, NextLink
<1>7. head' = IF n = 1 THEN L!At(s, 2) ELSE head
  <2>1. head = x <=> n = 1
    <3>1. s[n] = L!At(s, 1) <=> 1 = n
      <4>1. \A k \in 1 .. Len(s) : s[k] = L!At(s, 1) <=> 1 = k
        BY OnePlace
      <4> QED
        BY <1>2, <4>1
    <3> QED
      BY <1>1, <1>2, <3>1
  <2>2. n = 1 => n + 1 = 2
    OBVIOUS
  <2> QED
    BY <1>1, <1>3, <2>1, <2>2
<1>8. \A slot \in L!Slots : slot # L!None
  BY ListConstants
<1>9. Removal(s, n, x)
  BY <1>1, <1>2, <1>3, <1>5, <1>6, <1>7, <1>8 DEF Removal
<1> QED
  BY <1>2, <1>3, <1>9 DEF Removes

LEMMA EraseInsideRemoves ==
  ASSUME NEW s, ListIs(s), L!TypeOK, NEW pos \in L!Allocated(pool), pos # head, pos # tail,
         L!EraseInside(pos)
  PROVE  Removes(s)
<1>1. PICK i \in 1 .. Len(s) : pos = s[i]
  BY PlaceInList
<1> DEFINE prev == node[pos].prev
           next == node[pos].next
           a == [node EXCEPT ![prev].next = next]
           b == [a EXCEPT ![next].prev = prev]
<1>2. /\ Len(s) \in Nat /\ i \in Int /\ pos \in L!Slots /\ L!At(s, i) = pos
      /\ prev = L!At(s, i - 1) /\ next = L!At(s, i + 1)
  BY <1>1, ChainFacts
<1>3. /\ i # 1 /\ i # Len(s) /\ prev \in L!Slots /\ next \in L!Slots /\ pos # prev /\ pos # next
  <2>1. i # 1 /\ i # Len(s)
    BY <1>1, <1>2, ChainFacts
  <2>2. i - 1 \in 1 .. Len(s) /\ i + 1 \in 1 .. Len(s) /\ i - 1 # i /\ i + 1 # i
    <3>1. PICK n \in Nat : n = Len(s)
      BY <1>2
    <3>2. i \in 1 .. n /\ i # 1 /\ i # n
      BY <2>1, <3>1
    <3>3. i - 1 \in 1 .. n /\ i + 1 \in 1 .. n /\ i - 1 # i /\ i + 1 # i
      BY <3>2
    <3> QED
      BY <3>1, <3>3
  <2>3. L!At(s, i - 1) \in L!Slots /\ L!At(s, i + 1) \in L!Slots
    <3>1. \A k \in 1 .. Len(s) : L!At(s, k) \in L!Slots
      BY ChainFacts
    <3> QED
      BY <2>2, <3>1
  <2>4. pos # L!At(s, i - 1) /\ pos # L!At(s, i + 1)
    BY <1>1, <1>2, <2>2, ChainFacts
  <2> QED
    BY <1>2, <2>1, <2>3, <2>4
<1>4. /\ pool' = <<pos>> \o pool /\ call' = [given |-> pos, returned |-> L!None]
      /\ node' = [node EXCEPT ![prev].next = next, ![next].prev = prev, ![pos] = L!Blank]
      /\ tail' = tail /\ head' = head
  BY DEF L!EraseInside, L!Shrink, L!Deallocate
<1> HIDE DEF prev, next
<1>5. node' = [b EXCEPT ![pos] = L!Blank]
  BY <1>4
<1>6. node \in [L!Slots -> ListNodes] /\ L!Blank \in ListNodes /\ prev \in Links /\ next \in Links
  <2>1. L!Blank \in ListNodes /\ prev \in Links /\ next \in Links
    BY <1>3 DEF L!Blank, ListNodes, Links
  <2> QED
    BY <2>1, AtACall
<1>7. a = L!WithNext(node, prev, next) /\ b = L!WithPrev(a, next, prev)
  BY <1>3, ListConstants DEF L!WithNext, L!WithPrev
<1> HIDE DEF a, b
<1>8. /\ a \in [L!Slots -> ListNodes]
      /\ \A slot \in L!Slots :
           /\ a[slot].value = node[slot].value /\ a[slot].prev = node[slot].prev
           /\ a[slot].next = IF slot = prev THEN next ELSE node[slot].next
  BY <1>6, <1>7, NextLink
<1>9. /\ b \in [L!Slots -> ListNodes]
      /\ \A slot \in L!Slots :
           /\ b[slot].value = a[slot].value /\ b[slot].next = a[slot].next
           /\ b[slot].prev = IF slot = next THEN prev ELSE a[slot].prev
  BY <1>6, <1>7, <1>8, PrevLink
<1>10. node' \in [L!Slots -> ListNodes] /\ \A slot \in L!Slots \ {pos} : node'[slot] = b[slot]
  BY <1>2, <1>5, <1>6, <1>9
<1>11. Removal(s, i, pos)
  <2>1. ASSUME NEW slot \in L!Slots \ {pos}
        PROVE  /\ node'[slot].value = node[slot].value
               /\ node'[slot].prev = IF slot = next THEN prev ELSE node[slot].prev
               /\ node'[slot].next = IF slot = prev THEN next ELSE node[slot].next
    BY <1>8, <1>9, <1>10
  <2>2. head' = (IF i = 1 THEN L!At(s, 2) ELSE head) /\ tail' = (IF i = Len(s) THEN L!At(s, Len(s) - 1) ELSE tail)
    BY <1>3, <1>4
  <2> QED
    <3>1. pos = s[i] /\ pool' = <<pos>> \o pool /\ node' \in [L!Slots -> ListNodes]
      BY <1>1, <1>4, <1>10
    <3>2. \A slot \in L!Slots \ {pos} :
               /\ node'[slot].value = node[slot].value
               /\ node'[slot].prev = IF slot = L!At(s, i + 1) THEN L!At(s, i - 1) ELSE node[slot].prev
               /\ node'[slot].next = IF slot = L!At(s, i - 1) THEN L!At(s, i + 1) ELSE node[slot].next
      BY <1>2, <2>1
    <3> QED
      BY <2>2, <3>1, <3>2 DEF Removal
<1> QED
  BY <1>1, <1>4, <1>11 DEF Removes

LEMMA StepIs ==
  ASSUME NEW s, ListIs(s), L!TypeOK, L!Next
  PROVE  Inserts(s) \/ Removes(s)
<1>1. ASSUME NEW v \in Values, NEW next \in L!Allocated(pool) \cup {L!None}, L!Insert(next, v)
      PROVE  Inserts(s)
  <2>1. CASE next = head /\ L!PushFront(v)
    BY <2>1, PushFrontInserts
  <2>2. CASE L!PushBack(v)
    BY <2>2, PushBackInserts
  <2>3. CASE next # head /\ next # L!None /\ L!InsertInside(next, v)
    BY <2>3, InsertInsideInserts
  <2> QED
    BY <1>1, <2>1, <2>2, <2>3 DEF L!Insert
<1>2. ASSUME NEW pos \in L!Allocated(pool), L!Erase(pos)
      PROVE  Removes(s)
  BY <1>2, PopFrontRemoves, PopBackRemoves, EraseInsideRemoves DEF L!Erase
<1> QED
  BY <1>1, <1>2, PushFrontInserts, PushBackInserts, PopFrontRemoves, PopBackRemoves DEF L!Next

-----------------------------------------------------------------------------
(* The invariant and the abstract list.                                    *)

LEMMA TypeOfCall ==
  ASSUME NEW s, ListIs(s), L!TypeOK
  PROVE  /\ Inserts(s) => call' \in [given : Links, returned : Links]
         /\ Removes(s) => call' \in [given : Links, returned : Links]
<1>1. ASSUME NEW i \in 1 .. Len(s) + 1, NEW v, Insertion(s, i, L!Slot, v)
      PROVE  L!At(s, i) \in Links /\ L!Slot \in Links
  <2>1. L!Slot \in Links
    BY <1>1, AtACall DEF Insertion, Links
  <2>2. i \in Int
    <3>1. Len(s) \in Nat
      BY ChainFacts
    <3> QED
      BY <3>1
  <2> QED
    BY <2>1, <2>2, AtACall
<1>2. ASSUME NEW i \in 1 .. Len(s)
      PROVE  s[i] \in Links
  BY ChainFacts DEF Links
<1>3. L!None \in Links
  BY DEF Links
<1> QED
  BY <1>1, <1>2, <1>3 DEF Inserts, Removes

LEMMA StepKeeps == L!IInv /\ L!Next => (L!IInv)'
<1> SUFFICES ASSUME L!IInv, L!Next
             PROVE  (L!IInv)'
  OBVIOUS
<1>1. PICK s : ListIs(s) /\ L!TypeOK
  BY ListIsInv
<1>2. Inserts(s) \/ Removes(s)
  BY <1>1, StepIs
<1>3. call'.given \in Links /\ call'.returned \in Links
  <2>1. call' \in [given : Links, returned : Links]
    BY <1>1, <1>2, TypeOfCall
  <2> QED
    BY <2>1
<1>4. CASE Inserts(s)
  <2>1. \E i \in 1 .. Len(s) + 1 : \E v, x : Insertion(s, i, x, v)
    BY <1>4 DEF Inserts
  <2>2. PICK i \in 1 .. Len(s) + 1 : \E v, x : Insertion(s, i, x, v)
    BY <2>1
  <2>3. PICK v, x : Insertion(s, i, x, v)
    BY <2>2
  <2>4. ListIs(With(s, i, x))'
    BY <1>1, <2>3, InsertionKeeps
  <2>5. (L!TypeOK)'
    <3>1. node' \in [L!Slots -> ListNodes]
      BY <2>3 DEF Insertion
    <3> QED
      BY <1>3, <2>4, <3>1, TypeNext
  <2> QED
    BY <2>4, <2>5, ListIsInvNext
<1>5. CASE Removes(s)
  <2>1. PICK i \in 1 .. Len(s) : Removal(s, i, s[i])
    BY <1>5 DEF Removes
  <2>2. ListIs(Less(s, i))'
    BY <1>1, <2>1, RemovalKeeps
  <2>3. (L!TypeOK)'
    <3>1. node' \in [L!Slots -> ListNodes]
      BY <2>1 DEF Removal
    <3> QED
      BY <1>3, <2>2, <3>1, TypeNext
  <2> QED
    BY <2>2, <2>3, ListIsInvNext
<1> QED
  BY <1>2, <1>4, <1>5

LEMMA EmptyListIs == L!Init => L!IInv /\ L!Forward = <<>>
<1> SUFFICES ASSUME L!Init
             PROVE  L!IInv /\ L!Forward = <<>>
  OBVIOUS
<1> DEFINE n == ListCapacity
<1>1. /\ n \in Nat \ {0} /\ L!Slots = 0 .. n - 1 /\ L!None \notin L!Slots
      /\ pool = [i \in 1 .. n |-> i - 1] /\ head = L!None /\ tail = L!None
      /\ node = [slot \in L!Slots |-> L!Blank] /\ call = [given |-> L!None, returned |-> L!None]
  BY ListConstants DEF L!Init, L!NewPool
<1>2. pool \in Seq(L!Slots) /\ Len(pool) = n /\ DOMAIN pool = 1 .. n
  <2>1. \A i \in 1 .. n : i - 1 \in L!Slots
    BY <1>1
  <2>2. pool \in [1 .. n -> L!Slots]
    BY <1>1, <2>1
  <2> QED
    BY <1>1, <2>2
<1>3. Distinct(pool)
  BY <1>1, <1>2 DEF Distinct
<1>4. L!Allocated(pool) = {}
  <2>1. \A slot \in L!Slots : slot + 1 \in 1 .. n /\ (slot + 1) - 1 = slot
    BY <1>1
  <2>2. \A slot \in L!Slots : \E i \in DOMAIN pool : pool[i] = slot
    BY <1>1, <1>2, <2>1
  <2> QED
    BY <2>2 DEF L!Allocated
<1>5. ListIs(<<>>)
  <2>1. \A k \in Int : L!At(<<>>, k) = L!None
    BY DEF L!At
  <2>2. <<>> \in Seq(L!Slots) /\ Len(<<>>) = 0 /\ 1 .. 0 = {} /\ n + 0 = n /\ 0 + n = n
    BY <1>1
  <2> QED
    BY <1>1, <1>2, <1>3, <1>4, <2>1, <2>2 DEF ListIs, L!IsChain
<1>6. L!TypeOK
  <2>1. node \in [L!Slots -> ListNodes]
    BY <1>1 DEF ListNodes, L!Blank
  <2>2. Len(pool) <= n /\ \A i \in DOMAIN pool : pool[i] \in L!Slots
    BY <1>1, <1>2
  <2> QED
    BY <1>1, <2>1, <2>2 DEF L!TypeOK, ListNodes
<1> QED
  BY <1>5, <1>6, ListIsInv

LEMMA ListStands ==
  ASSUME NEW s, ListIs(s), UNCHANGED listVars
  PROVE  ListIs(s)'
<1>1. L!IsChain(s)'
  BY DEF listVars, ListIs, L!IsChain, L!Allocated, L!At
<1>2. (pool \in Seq(L!Slots) /\ Distinct(pool))'
  BY DEF listVars, ListIs, Distinct
<1> QED
  BY <1>1, <1>2 DEF ListIs

LEMMA ListKeeps ==
  /\ InitAny => L!IInv
  /\ L!IInv /\ [NextAny]_allVars => (L!IInv)'
<1>1. InitAny => L!IInv
  BY EmptyListIs DEF InitAny
<1>2. ASSUME L!IInv, UNCHANGED listVars
      PROVE  (L!IInv)'
  <2>1. PICK s : ListIs(s) /\ L!TypeOK
    BY <1>2, ListIsInv
  <2>2. ListIs(s)' /\ (L!TypeOK)'
    <3>1. ListIs(s)'
      BY <1>2, <2>1, ListStands
    <3>2. (L!TypeOK)'
      BY <1>2, <2>1 DEF listVars, L!TypeOK
    <3> QED
      BY <3>1, <3>2
  <2> QED
    BY <2>2, ListIsInvNext
<1>3. [NextAny]_allVars => L!Next \/ UNCHANGED listVars
  BY DEF NextAny, NextList, NextHash, NextPlain, NextAVL, NextTall, allVars
<1> QED
  BY <1>1, <1>2, <1>3, StepKeeps

LEMMA ListInvariance == SpecAny => []L!IInv
BY ListKeeps, PTL DEF SpecAny

(* The list reads the same from both ends, and no slot leaks or is handed  *)
(* out twice: flat_list.hpp's links after any pushes, pops, inserts and    *)
(* erases.                                                                 *)
LEMMA ReadsBothWays == L!IInv => L!WellLinked
<1> SUFFICES ASSUME L!IInv
             PROVE  L!WellLinked
  OBVIOUS
<1>1. PICK s : s = L!Forward /\ ListIs(s) /\ L!TypeOK
  BY ListIsInv
<1> DEFINE n == Len(s)
           r == [i \in 1 .. n |-> s[n + 1 - i]]
<1>2. /\ s \in Seq(L!Slots) /\ n \in Nat /\ DOMAIN s = 1 .. n /\ tail = L!At(s, n)
      /\ \A k \in 1 .. n : s[k] \in L!Slots /\ node[s[k]].prev = L!At(s, k - 1)
      /\ \A k \in Int : ~ k \in 1 .. n => L!At(s, k) = L!None
      /\ n + Len(pool) = ListCapacity
  <2>1. ListIs(s)
    BY <1>1
  <2>2. s \in Seq(L!Slots) /\ n \in Nat /\ DOMAIN s = 1 .. n /\ tail = L!At(s, n) /\ n + Len(pool) = ListCapacity
    BY <2>1, ChainFacts
  <2>3. \A k \in 1 .. Len(s) : s[k] \in L!Slots /\ node[s[k]].prev = L!At(s, k - 1)
    BY <2>1, ChainFacts
  <2>4. \A k \in Int : ~ k \in 1 .. Len(s) => L!At(s, k) = L!None
    BY <2>1, ChainFacts
  <2> QED
    BY <2>2, <2>3, <2>4
<1>3. n <= ListCapacity
  <2>1. Len(pool) \in Nat
    BY <1>1 DEF ListIs
  <2> QED
    BY <1>2, <2>1
<1> HIDE DEF n
<1>4. \A i \in 1 .. n : n + 1 - i \in 1 .. n /\ (n + 1 - i) - 1 = n - i /\ n - i = n + 1 - (i + 1)
  BY <1>2
<1>5. r \in Seq(L!Slots) /\ Len(r) = n /\ \A i \in 1 .. n : r[i] = s[n + 1 - i]
  <2>1. \A i \in 1 .. n : s[n + 1 - i] \in L!Slots
    BY <1>2, <1>4
  <2>2. r \in [1 .. n -> L!Slots]
    BY <2>1
  <2> QED
    BY <1>2, <2>2
<1> HIDE DEF r
<1>6. ASSUME NEW k \in Int
      PROVE  L!At(r, k) = L!At(s, n + 1 - k)
  <2>1. k \in 1 .. n <=> n + 1 - k \in 1 .. n
    BY <1>2
  <2> QED
    BY <1>2, <1>5, <2>1 DEF L!At, n
<1>7. tail = L!At(r, 1)
  <2>1. L!At(r, 1) = L!At(s, n + 1 - 1) /\ n + 1 - 1 = n
    BY <1>2, <1>6
  <2> QED
    BY <1>2, <2>1
<1>8. \A i \in 1 .. n : node[r[i]].prev = L!At(r, i + 1)
  <2> TAKE i \in 1 .. n
  <2>1. node[s[n + 1 - i]].prev = L!At(s, n - i)
    BY <1>2, <1>4
  <2>2. L!At(r, i + 1) = L!At(s, n + 1 - (i + 1))
    <3>1. i + 1 \in Int
      OBVIOUS
    <3> QED
      BY <1>6, <3>1
  <2> QED
    BY <1>4, <1>5, <2>1, <2>2
<1>9. L!Backward = r
  BY <1>3, <1>5, <1>7, <1>8, BackwardIs
<1>10. {L!Forward[i] : i \in DOMAIN L!Forward} = L!Allocated(pool)
  <2>1. DOMAIN s = 1 .. Len(s)
    BY <1>2 DEF n
  <2>2. {s[i] : i \in 1 .. Len(s)} = L!Allocated(pool)
    BY <1>1 DEF ListIs, L!IsChain
  <2> QED
    BY <1>1, <2>1, <2>2
<1>11. L!Backward = [i \in 1 .. Len(L!Forward) |-> L!Forward[Len(L!Forward) + 1 - i]]
  BY <1>1, <1>9 DEF r, n
<1> QED
  BY <1>1, <1>2, <1>10, <1>11 DEF L!WellLinked, L!IInv, n

THEOREM LinkedBothWays == SpecAny => []ListLinked
<1>1. L!IInv => ListLinked
  BY ReadsBothWays DEF ListLinked
<1> QED
  BY <1>1, ListInvariance, PTL

-----------------------------------------------------------------------------
(* What SubSeq and \o put together is With and Less.                       *)
LEMMA SplicedIs ==
  ASSUME NEW A, NEW q \in Seq(A), NEW i \in 1 .. Len(q) + 1, NEW y \in A
  PROVE  SubSeq(q, 1, i - 1) \o <<y>> \o SubSeq(q, i, Len(q)) = With(q, i, y)
<1> DEFINE n == Len(q)
           a1 == SubSeq(q, 1, i - 1)
           a2 == <<y>>
           a3 == SubSeq(q, i, n)
           c == a1 \o a2
<1>1. n \in Nat /\ i \in 1 .. n + 1 /\ i \in Nat /\ i - 1 \in Nat
  OBVIOUS
<1>2. a1 \in Seq(A) /\ Len(a1) = i - 1 /\ \A k \in 1 .. i - 1 : a1[k] = q[k]
  OBVIOUS
<1>3. a3 \in Seq(A) /\ Len(a3) = n - (i - 1) /\ \A k \in 1 .. n - (i - 1) : a3[k] = q[i + k - 1]
  OBVIOUS
<1>4. a2 \in Seq(A) /\ Len(a2) = 1 /\ a2[1] = y
  OBVIOUS
<1> HIDE DEF a1, a2, a3, n
<1>5. c \in Seq(A) /\ Len(c) = i /\ \A k \in 1 .. i : c[k] = IF k < i THEN q[k] ELSE y
  <2>1. c \in Seq(A) /\ Len(c) = Len(a1) + Len(a2)
    <3>1. a1 \in Seq(A) /\ a2 \in Seq(A)
      BY <1>2, <1>4
    <3> QED
      BY <3>1
  <2>2. Len(c) = i
    BY <1>1, <1>2, <1>4, <2>1
  <2>3. ASSUME NEW k \in 1 .. i
        PROVE  c[k] = IF k < i THEN q[k] ELSE y
    <3>1. CASE k < i
      <4>1. k \in 1 .. i - 1 /\ k \in 1 .. Len(a1)
        BY <1>1, <1>2, <3>1
      <4>2. c[k] = a1[k]
        BY <1>2, <1>4, <4>1
      <4> QED
        BY <1>2, <3>1, <4>1, <4>2
    <3>2. CASE ~ k < i
      <4>1. k = i /\ k - Len(a1) = 1 /\ ~ k <= Len(a1) /\ k \in 1 .. Len(a1) + Len(a2)
        BY <1>1, <1>2, <1>4, <3>2
      <4>2. c[k] = a2[k - Len(a1)]
        <5>1. a1 \in Seq(A) /\ a2 \in Seq(A)
          BY <1>2, <1>4
        <5> QED
          BY <4>1, <5>1
      <4> QED
        BY <1>4, <3>2, <4>1, <4>2
    <3> QED
      BY <3>1, <3>2
  <2> QED
    BY <2>1, <2>2, <2>3
<1> HIDE DEF c
<1> DEFINE d == c \o a3
<1>6. d \in Seq(A) /\ Len(d) = n + 1
  <2>1. d \in Seq(A) /\ Len(d) = Len(c) + Len(a3)
    <3>1. c \in Seq(A) /\ a3 \in Seq(A)
      BY <1>3, <1>5
    <3> QED
      BY <3>1
  <2> QED
    BY <1>1, <1>3, <1>5, <2>1
<1>7. ASSUME NEW k \in 1 .. n + 1
      PROVE  d[k] = IF k < i THEN q[k] ELSE IF k = i THEN y ELSE q[k - 1]
  <2>1. CASE k <= i
    <3>1. k \in 1 .. i /\ k \in 1 .. Len(c)
      BY <1>1, <1>5, <2>1
    <3>2. d[k] = c[k]
      BY <1>3, <1>5, <3>1
    <3> HIDE DEF d
    <3>3. c[k] = IF k < i THEN q[k] ELSE y
      BY <1>5, <3>1
    <3>4. CASE k < i
      BY <3>2, <3>3, <3>4
    <3>5. CASE k = i
      <4>1. ~ k < i
        BY <1>1, <3>5
      <4> QED
        BY <3>2, <3>3, <3>5, <4>1
    <3> QED
      BY <1>1, <2>1, <3>4, <3>5
  <2>2. CASE k > i
    <3>1. /\ ~ k < i /\ k # i /\ k - i \in 1 .. n - (i - 1) /\ i + (k - i) - 1 = k - 1
          /\ k \in 1 .. Len(c) + Len(a3) /\ ~ k <= Len(c) /\ k - Len(c) = k - i
      BY <1>1, <1>3, <1>5, <2>2
    <3>2. d[k] = a3[k - Len(c)]
      <4>1. c \in Seq(A) /\ a3 \in Seq(A)
        BY <1>3, <1>5
      <4> QED
        BY <3>1, <4>1
    <3>3. a3[k - i] = q[k - 1]
      BY <1>3, <3>1
    <3> QED
      BY <3>1, <3>2, <3>3
  <2> HIDE DEF d
  <2> QED
    BY <1>1, <2>1, <2>2
<1>8. d = [k \in 1 .. n + 1 |-> IF k < i THEN q[k] ELSE IF k = i THEN y ELSE q[k - 1]]
  <2>1. d = [k \in 1 .. n + 1 |-> d[k]]
    <3> HIDE DEF d
    <3> QED
      BY <1>6
  <2> HIDE DEF d
  <2> QED
    BY <1>7, <2>1
<1> QED
  BY <1>8 DEF With, d, c, a1, a2, a3, n

LEMMA CutIs ==
  ASSUME NEW A, NEW q \in Seq(A), NEW i \in 1 .. Len(q)
  PROVE  SubSeq(q, 1, i - 1) \o SubSeq(q, i + 1, Len(q)) = Less(q, i)
<1> DEFINE n == Len(q)
           a1 == SubSeq(q, 1, i - 1)
           a3 == SubSeq(q, i + 1, n)
           d == a1 \o a3
<1>1. n \in Nat /\ i \in 1 .. n /\ i \in Nat /\ i - 1 \in Nat
  OBVIOUS
<1>2. a1 \in Seq(A) /\ Len(a1) = i - 1 /\ \A k \in 1 .. i - 1 : a1[k] = q[k]
  OBVIOUS
<1>3. a3 \in Seq(A) /\ Len(a3) = n - i /\ \A k \in 1 .. n - i : a3[k] = q[i + k]
  OBVIOUS
<1> HIDE DEF a1, a3, n
<1>4. d \in Seq(A) /\ Len(d) = n - 1
  <2>1. d \in Seq(A) /\ Len(d) = Len(a1) + Len(a3)
    <3>1. a1 \in Seq(A) /\ a3 \in Seq(A)
      BY <1>2, <1>3
    <3> QED
      BY <3>1
  <2> QED
    BY <1>1, <1>2, <1>3, <2>1
<1>5. ASSUME NEW k \in 1 .. n - 1
      PROVE  d[k] = IF k < i THEN q[k] ELSE q[k + 1]
  <2>1. CASE k < i
    <3>1. k \in 1 .. i - 1 /\ k \in 1 .. Len(a1)
      BY <1>1, <1>2, <2>1
    <3>2. d[k] = a1[k]
      BY <1>2, <1>3, <3>1
    <3> QED
      BY <1>2, <2>1, <3>1, <3>2
  <2>2. CASE ~ k < i
    <3>1. /\ k - (i - 1) \in 1 .. n - i /\ i + (k - (i - 1)) = k + 1
          /\ k \in 1 .. Len(a1) + Len(a3) /\ ~ k <= Len(a1) /\ k - Len(a1) = k - (i - 1)
      BY <1>1, <1>2, <1>3, <2>2
    <3>2. d[k] = a3[k - Len(a1)]
      BY <1>2, <1>3, <3>1
    <3>3. a3[k - (i - 1)] = q[k + 1]
      BY <1>3, <3>1
    <3> QED
      BY <2>2, <3>1, <3>2, <3>3
  <2> QED
    BY <2>1, <2>2
<1>6. d = [k \in 1 .. n - 1 |-> IF k < i THEN q[k] ELSE q[k + 1]]
  <2>1. d = [k \in 1 .. n - 1 |-> d[k]]
    <3> HIDE DEF d
    <3> QED
      BY <1>4
  <2> HIDE DEF d
  <2> QED
    BY <1>5, <2>1
<1> QED
  BY <1>6 DEF Less, d, a1, a3, n

-----------------------------------------------------------------------------
(* The elements the links show.                                            *)

ListElements == [slot : L!Slots, value : Values \cup {NoValue}]

LEMMA ElementsAre ==
  ASSUME NEW s, ListIs(s), L!TypeOK
  PROVE  /\ L!Elements \in Seq(ListElements) /\ Len(L!Elements) = Len(s)
         /\ L!Elements = [k \in 1 .. Len(s) |-> [slot |-> s[k], value |-> node[s[k]].value]]
         /\ DOMAIN L!Elements = 1 .. Len(s) /\ L!List!SlotsOf(L!Elements) = Free(s)
<1>1. L!Elements = [k \in 1 .. Len(s) |-> [slot |-> s[k], value |-> node[s[k]].value]]
  <2>1. L!Forward = s
    BY ListIsInv
  <2> QED
    BY <2>1 DEF L!Elements
<1>2. ASSUME NEW k \in 1 .. Len(s)
      PROVE  [slot |-> s[k], value |-> node[s[k]].value] \in ListElements
  <2>1. s[k] \in L!Slots /\ node \in [L!Slots -> ListNodes]
    BY ChainFacts, AtACall
  <2>2. node[s[k]] \in ListNodes
    BY <2>1
  <2>3. node[s[k]].value \in Values \cup {NoValue}
    BY <2>2 DEF ListNodes
  <2> QED
    BY <2>1, <2>3 DEF ListElements
<1>3. L!Elements \in [1 .. Len(s) -> ListElements]
  BY <1>1, <1>2
<1>4. Len(s) \in Nat
  BY ChainFacts
<1>5. DOMAIN L!Elements = 1 .. Len(s) /\ \A k \in 1 .. Len(s) : L!Elements[k].slot = s[k]
  BY <1>1
<1>6. L!List!SlotsOf(L!Elements) = Free(s)
  BY <1>5 DEF L!List!SlotsOf, Free
<1>7. L!Elements \in Seq(ListElements) /\ Len(L!Elements) = Len(s)
  <2>1. PICK n \in Nat : n = Len(s)
    BY <1>4
  <2>2. L!Elements \in [1 .. n -> ListElements]
    BY <1>3, <2>1
  <2>3. L!Elements \in Seq(ListElements) /\ Len(L!Elements) = n
    BY <2>2
  <2> QED
    BY <2>1, <2>3
<1> QED
  BY <1>1, <1>5, <1>6, <1>7

LEMMA ElementsAreNext ==
  ASSUME NEW p, ListIs(p)'
  PROVE  (L!Elements)' = [k \in 1 .. Len(p) |-> [slot |-> p[k], value |-> node'[p[k]].value]]
<1>1. (L!Forward)' = p
  BY ListIsInvNext
<1> QED
  BY <1>1 DEF L!Elements

LEMMA InsertionShown ==
  ASSUME NEW s, ListIs(s), L!TypeOK, NEW i \in 1 .. Len(s) + 1, NEW x, NEW v \in Values,
         Insertion(s, i, x, v)
  PROVE  (L!Elements)' = With(L!Elements, i, [slot |-> x, value |-> v])
<1> DEFINE p == With(s, i, x)
           n == Len(s)
           was == L!Elements
<1>1. /\ s \in Seq(L!Slots) /\ n \in Nat /\ \A k \in 1 .. n : s[k] \in L!Slots /\ s[k] \in Free(s)
  BY ChainFacts DEF Free
<1>2. x \in L!Slots /\ x \notin Free(s) /\ ListIs(p)'
  BY InsertionKeeps
<1>3. /\ Len(p) = n + 1
      /\ \A k \in 1 .. n + 1 : p[k] = IF k < i THEN s[k] ELSE IF k = i THEN x ELSE s[k - 1]
  <2>1. s \in Seq(L!Slots) /\ x \in L!Slots
    BY <1>1, <1>2
  <2> QED
    BY <2>1, WithIs
<1>4. (L!Elements)' = [k \in 1 .. Len(p) |-> [slot |-> p[k], value |-> node'[p[k]].value]]
  BY <1>2, ElementsAreNext
<1>5. Len(was) = n /\ was = [k \in 1 .. n |-> [slot |-> s[k], value |-> node[s[k]].value]]
  BY ElementsAre
<1>6. /\ node'[x].value = v
      /\ \A k \in 1 .. n : node'[s[k]].value = node[s[k]].value
  <2>1. \A slot \in L!Slots \ {x} : node'[slot].value = node[slot].value
    BY DEF Insertion
  <2>2. node'[x].value = v
    BY DEF Insertion
  <2> QED
    BY <1>1, <1>2, <2>1, <2>2
<1>7. i \in 1 .. n + 1
  OBVIOUS
<1> HIDE DEF p, n, was
<1>8. ASSUME NEW k \in 1 .. n + 1
      PROVE  [slot |-> p[k], value |-> node'[p[k]].value]
               = IF k < i THEN was[k] ELSE IF k = i THEN [slot |-> x, value |-> v] ELSE was[k - 1]
  <2>1. CASE k < i
    <3>1. k \in 1 .. n
      BY <1>1, <1>7, <2>1
    <3> QED
      BY <1>3, <1>5, <1>6, <2>1, <3>1
  <2>2. CASE k = i
    BY <1>3, <1>6, <1>7, <2>2
  <2>3. CASE k > i
    <3>1. k - 1 \in 1 .. n /\ ~ k < i /\ k # i
      BY <1>1, <1>7, <2>3
    <3> QED
      BY <1>3, <1>5, <1>6, <3>1
  <2> QED
    BY <1>7, <2>1, <2>2, <2>3
<1>9. (L!Elements)' = With(was, i, [slot |-> x, value |-> v])
  BY <1>3, <1>4, <1>5, <1>8 DEF With
<1> QED
  BY <1>9 DEF was

LEMMA RemovalShown ==
  ASSUME NEW s, ListIs(s), L!TypeOK, NEW i \in 1 .. Len(s), NEW x, Removal(s, i, x)
  PROVE  (L!Elements)' = Less(L!Elements, i)
<1> DEFINE p == Less(s, i)
           n == Len(s)
           was == L!Elements
<1>1. s \in Seq(L!Slots) /\ n \in Nat /\ Distinct(s) /\ \A k \in 1 .. n : s[k] \in L!Slots
  BY ChainFacts
<1>2. x = s[i] /\ ListIs(p)'
  BY RemovalKeeps DEF Removal
<1>3. /\ Len(p) = n - 1
      /\ \A k \in 1 .. n - 1 : p[k] = IF k < i THEN s[k] ELSE s[k + 1]
  BY <1>1, LessIs
<1>4. (L!Elements)' = [k \in 1 .. Len(p) |-> [slot |-> p[k], value |-> node'[p[k]].value]]
  BY <1>2, ElementsAreNext
<1>5. Len(was) = n /\ was = [k \in 1 .. n |-> [slot |-> s[k], value |-> node[s[k]].value]]
  BY ElementsAre
<1>6. i \in 1 .. n
  OBVIOUS
<1>7. \A k \in 1 .. n : k # i => node'[s[k]].value = node[s[k]].value
  <2>1. \A slot \in L!Slots \ {x} : node'[slot].value = node[slot].value
    BY DEF Removal
  <2> QED
    BY <1>1, <1>2, <1>6, <2>1 DEF Distinct
<1> HIDE DEF p, n, was
<1>8. ASSUME NEW k \in 1 .. n - 1
      PROVE  [slot |-> p[k], value |-> node'[p[k]].value] = IF k < i THEN was[k] ELSE was[k + 1]
  <2>1. CASE k < i
    <3>1. k \in 1 .. n /\ k # i
      BY <1>1, <1>6, <2>1
    <3> QED
      BY <1>3, <1>5, <1>7, <2>1, <3>1
  <2>2. CASE ~ k < i
    <3>1. k + 1 \in 1 .. n /\ k + 1 # i
      BY <1>1, <1>6, <2>2
    <3> QED
      BY <1>3, <1>5, <1>7, <2>2, <3>1
  <2> QED
    BY <2>1, <2>2
<1>9. (L!Elements)' = Less(was, i)
  BY <1>3, <1>4, <1>5, <1>8 DEF Less
<1> QED
  BY <1>9 DEF was

(* Every call is one of the abstract list.                                 *)
LEMMA ListStep == L!IInv /\ L!Next => L!List!Next
<1> SUFFICES ASSUME L!IInv, L!Next
             PROVE  L!List!Next
  OBVIOUS
<1>1. PICK s : ListIs(s) /\ L!TypeOK
  BY ListIsInv
<1> DEFINE e == L!Elements
<1>2. /\ e \in Seq(ListElements) /\ Len(e) = Len(s) /\ DOMAIN e = 1 .. Len(s)
      /\ e = [k \in 1 .. Len(s) |-> [slot |-> s[k], value |-> node[s[k]].value]]
      /\ L!List!SlotsOf(e) = Free(s)
  BY <1>1, ElementsAre
<1>3. Len(s) \in Nat /\ Len(s) + Len(pool) = ListCapacity /\ pool \in Seq(L!Slots)
  BY <1>1, ChainFacts DEF ListIs
<1>4. \A k \in 1 .. Len(s) : e[k].slot = s[k] /\ L!At(s, k) = s[k]
  BY <1>1, <1>2, ChainFacts
<1> HIDE DEF e
<1>5. CASE Inserts(s)
  <2>1. PICK i \in 1 .. Len(s) + 1, v \in Values :
          Insertion(s, i, L!Slot, v) /\ call' = [given |-> L!At(s, i), returned |-> L!Slot]
    BY <1>5 DEF Inserts
  <2>2. PICK x : x = L!Slot
    OBVIOUS
  <2>3. Insertion(s, i, x, v) /\ call' = [given |-> L!At(s, i), returned |-> x]
    BY <2>1, <2>2
  <2>4. x \in L!Slots /\ x \notin Free(s)
    BY <1>1, <2>3, InsertionKeeps
  <2>5. (L!Elements)' = With(e, i, [slot |-> x, value |-> v])
    BY <1>1, <2>3, InsertionShown DEF e
  <2>6. (L!Elements)' = L!List!InsertedAt(i, x, v)
    <3>1. [slot |-> x, value |-> v] \in ListElements /\ i \in 1 .. Len(e) + 1
      BY <1>2, <2>4 DEF ListElements
    <3>2. SubSeq(e, 1, i - 1) \o <<[slot |-> x, value |-> v]>> \o SubSeq(e, i, Len(e))
            = With(e, i, [slot |-> x, value |-> v])
      <4>1. e \in Seq(ListElements)
        BY <1>2
      <4> QED
        BY <3>1, <4>1, SplicedIs
    <3> QED
      BY <2>5, <3>2 DEF L!List!InsertedAt, e
  <2>7. Len(e) < ListCapacity
    <3>1. pool # <<>>
      BY <2>3 DEF Insertion
    <3>2. Len(pool) \in Nat /\ Len(pool) # 0
      BY <1>3, <3>1
    <3> QED
      BY <1>2, <1>3, <3>2
  <2>8. L!At(s, i) = IF i > Len(e) THEN L!None ELSE e[i].slot
    <3>1. CASE i > Len(e)
      <4>1. i \in Int /\ ~ i \in 1 .. Len(s)
        BY <1>2, <1>3, <3>1
      <4> QED
        BY <3>1, <4>1 DEF L!At
    <3>2. CASE ~ i > Len(e)
      <4>1. i \in 1 .. Len(s)
        BY <1>2, <1>3, <3>2
      <4> QED
        BY <1>4, <3>2, <4>1
    <3> QED
      BY <3>1, <3>2
  <2>9. x \in (0 .. ListCapacity - 1) \ L!List!SlotsOf(e)
    BY <1>2, <2>4, ListConstants
  <2>10. L!List!InsertAt(i, v)
    <3>1. L!None = -1 /\ L!List!None = -1
      BY DEF L!None, L!List!None
    <3> QED
      BY <2>3, <2>6, <2>8, <2>9, <3>1 DEF L!List!InsertAt, L!List!Called, e
  <2> QED
    BY <1>2, <2>7, <2>10 DEF L!List!Next, L!List!Insert, e
<1>6. CASE Removes(s)
  <2>1. PICK i \in 1 .. Len(s) : Removal(s, i, s[i]) /\ call' = [given |-> s[i], returned |-> L!None]
    BY <1>6 DEF Removes
  <2>2. (L!Elements)' = Less(e, i)
    BY <1>1, <2>1, RemovalShown DEF e
  <2>3. (L!Elements)' = L!List!Without(i)
    <3>1. SubSeq(e, 1, i - 1) \o SubSeq(e, i + 1, Len(e)) = Less(e, i)
      <4>1. e \in Seq(ListElements) /\ i \in 1 .. Len(e)
        BY <1>2
      <4> QED
        BY <4>1, CutIs
    <3> QED
      BY <2>2, <3>1 DEF L!List!Without, e
  <2>4. call' = [given |-> e[i].slot, returned |-> L!List!None] /\ i \in DOMAIN e
    BY <1>2, <1>4, <2>1 DEF L!None, L!List!None
  <2> QED
    BY <2>3, <2>4 DEF L!List!Next, L!List!Erase, L!List!Called, e
<1> QED
  BY <1>1, <1>5, <1>6, StepIs

(* The linked list is a list with stable slots: push, insert and erase, at *)
(* the ends or inside, change what they are given and nothing else.        *)
THEOREM RefinesList == SpecAny => IsList
<1>1. InitAny => L!List!Init
  <2> SUFFICES ASSUME InitAny
               PROVE  L!List!Init
    OBVIOUS
  <2>1. L!Init /\ L!Forward = <<>>
    BY EmptyListIs DEF InitAny
  <2>2. L!Elements = <<>>
    <3>1. 1 .. Len(L!Forward) = {}
      BY <2>1
    <3> QED
      BY <3>1 DEF L!Elements
  <2> QED
    BY <2>1, <2>2 DEF L!List!Init, L!Init, L!None, L!List!None
<1>2. L!IInv /\ [NextAny]_allVars => [L!List!Next]_(L!List!vars)
  <2> SUFFICES ASSUME L!IInv, [NextAny]_allVars
               PROVE  [L!List!Next]_(L!List!vars)
    OBVIOUS
  <2>1. L!Next \/ UNCHANGED listVars
    BY DEF NextAny, NextList, NextHash, NextPlain, NextAVL, NextTall, allVars
  <2>2. ASSUME UNCHANGED listVars
        PROVE  UNCHANGED L!List!vars
    <3>1. PICK s : ListIs(s) /\ L!TypeOK
      BY ListIsInv
    <3>2. ListIs(s)'
      BY <2>2, <3>1, ListStands
    <3>3. (L!Elements)' = L!Elements
      <4>1. (L!Elements)' = [k \in 1 .. Len(s) |-> [slot |-> s[k], value |-> node'[s[k]].value]]
        BY <3>2, ElementsAreNext
      <4> QED
        BY <2>2, <3>1, <4>1, ElementsAre DEF listVars
    <3> QED
      BY <2>2, <3>3 DEF listVars, L!List!vars
  <2> QED
    BY <2>1, <2>2, ListStep
<1> QED
  BY <1>1, <1>2, ListInvariance, PTL DEF SpecAny, IsList, L!IsList, L!List!Spec

(* The hash keeps its promises among the other containers.                 *)
THEOREM HashAmongOthers ==
  ASSUME HashAssumption
  PROVE  SpecAny => []EveryKeyFound /\ IsMap
<1>1. InitAny => Init
  BY DEF InitAny
<1>2. [NextAny]_allVars => [Next]_vars
  BY DEF NextAny, NextList, NextHash, NextPlain, NextAVL, NextTall, allVars
<1>3. SpecAny => Spec
  BY <1>1, <1>2, PTL DEF SpecAny, Spec
<1> QED
  BY <1>3, KeysAreFound, RefinesMap, PTL
=============================================================================
