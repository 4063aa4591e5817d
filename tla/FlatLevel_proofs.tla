-------------------------- MODULE FlatLevel_proofs --------------------------
(* Proofs about FlatLevel, for every number of slots that steps of three   *)
(* visit, and any identifiers and quantities: the links stay a ring of the *)
(* held slots, the counters agree with them, and the level is the queue    *)
(* with slots of Level.                                                    *)
(*                                                                         *)
(* The proof goes from the links, which unlinking and linking keep a ring, *)
(* over the units of quantity in the slots to every operation, and then    *)
(* reads the ring as a sequence.                                           *)
EXTENDS FlatLevel, FiniteSetTheorems, WellFoundedInduction, TLAPS

(* What is assumed of the constants.                                       *)
LEMMA Constants ==
  /\ MaxOrders \in Nat \ {0} /\ MaxOrders % 3 # 0
  /\ Ids \subseteq Nat \ {0} /\ Qtys \subseteq Nat \ {0}
BY MaxOrdersAssumption, FlatLevelAssumption

(* A set of naturals with an element has a least one.                      *)
LEMMA Least ==
  ASSUME NEW S \in SUBSET Nat, S # {}
  PROVE  \E m \in S : \A n \in S : m <= n
<1> DEFINE R == StrictSubsetOrdering(Nat)
           T == {0 .. m : m \in S}
<1>1. IsWellFoundedOn(R, FiniteSubsetsOf(Nat))
  BY FS_StrictSubsetOrderingWellFounded
<1>2. T \subseteq FiniteSubsetsOf(Nat) /\ T # {}
  <2>1. \A m \in S : IsFiniteSet(0 .. m) /\ 0 .. m \in SUBSET Nat
    BY FS_Interval
  <2>2. T \subseteq FiniteSubsetsOf(Nat)
    BY <2>1 DEF FiniteSubsetsOf
  <2> QED
    BY <2>2
<1>3. \E x \in T : \A y \in T : ~ (<<y, x>> \in R)
  <2> HIDE DEF R, T
  <2> QED
    BY <1>1, <1>2, WFMin
<1>4. PICK m \in S : \A n \in S : ~ (<<0 .. n, 0 .. m>> \in R)
  <2> HIDE DEF R
  <2> QED
    BY <1>3
<1>5. ASSUME NEW n \in S, n < m
      PROVE  FALSE
  <2>1. 0 .. n \in SUBSET Nat /\ 0 .. m \in SUBSET Nat /\ 0 .. n \subseteq 0 .. m /\ 0 .. n # 0 .. m
    BY <1>5
  <2>2. <<0 .. n, 0 .. m>> \in R
    BY <2>1 DEF StrictSubsetOrdering
  <2> QED
    BY <1>4, <2>2
<1> HIDE DEF R, T
<1> QED
  BY <1>5

(* Induction up to n, for a set instead of a predicate.                    *)
LEMMA UpTo ==
  ASSUME NEW n \in Nat, NEW S, 0 \in S, \A k \in 0 .. n - 1 : k \in S => k + 1 \in S
  PROVE  \A k \in 0 .. n : k \in S
<1> SUFFICES ASSUME (0 .. n) \ S # {}
             PROVE  FALSE
  OBVIOUS
<1>1. PICK m \in (0 .. n) \ S : \A k \in (0 .. n) \ S : m <= k
  <2>1. (0 .. n) \ S \in SUBSET Nat
    OBVIOUS
  <2> QED
    BY <2>1, Least
<1>2. m - 1 \in 0 .. n - 1 /\ m - 1 \in S
  BY <1>1
<1> QED
  BY <1>1, <1>2

-----------------------------------------------------------------------------
(* The ring of links.                                                      *)

Nodes == 0 .. MaxOrders
Wires == [Nodes -> -1 .. MaxOrders]
Links == [next : Wires, prev : Wires, size : 0 .. MaxOrders]

(* What the links of a ring are.                                           *)
LEMMA RingIs ==
  ASSUME NEW q, NEW s, IsRing(q, s), NEW n \in Nat, n = q.size
  PROVE  /\ s \in [1 .. n -> Slots]
         /\ \A j, k \in 1 .. n : s[j] = s[k] => j = k
         /\ NodeAt(s, n, 0) = MaxOrders /\ NodeAt(s, n, n + 1) = MaxOrders
         /\ \A k \in 1 .. n : NodeAt(s, n, k) = s[k] /\ s[k] \in Slots /\ s[k] # MaxOrders
         /\ \A k \in 0 .. n + 1 : NodeAt(s, n, k) \in Nodes
         /\ \A k \in 0 .. n : q.next[NodeAt(s, n, k)] = NodeAt(s, n, k + 1)
         /\ \A k \in 0 .. n : q.prev[NodeAt(s, n, k + 1)] = NodeAt(s, n, k)
         /\ \A slot \in Slots : (\A k \in 1 .. n : s[k] # slot) => q.prev[slot] = -1 /\ q.next[slot] = -1
         /\ \A j, k \in 0 .. n : NodeAt(s, n, j) = NodeAt(s, n, k) => j = k
         /\ \A j, k \in 1 .. n + 1 : NodeAt(s, n, j) = NodeAt(s, n, k) => j = k
<1>1. /\ s \in [1 .. n -> Slots]
      /\ \A j, k \in 1 .. n : s[j] = s[k] => j = k
      /\ \A k \in 0 .. n : q.next[NodeAt(s, n, k)] = NodeAt(s, n, k + 1)
      /\ \A k \in 0 .. n : q.prev[NodeAt(s, n, k + 1)] = NodeAt(s, n, k)
  BY DEF IsRing
<1>2. \A slot \in Slots : (\A k \in 1 .. n : s[k] # slot) => q.prev[slot] = -1 /\ q.next[slot] = -1
  BY DEF IsRing, Q!IsFree, Q!Free
<1>3. \A slot \in Slots : slot \in Nodes /\ slot # MaxOrders
  BY Constants DEF Slots, Nodes
<1>4. NodeAt(s, n, 0) = MaxOrders /\ NodeAt(s, n, n + 1) = MaxOrders
  BY DEF NodeAt
<1>5. \A k \in 1 .. n : NodeAt(s, n, k) = s[k] /\ s[k] \in Slots /\ s[k] # MaxOrders /\ s[k] \in Nodes
  BY <1>1, <1>3 DEF NodeAt
<1>6. \A k \in 0 .. n : k = 0 \/ k \in 1 .. n
  OBVIOUS
<1>7. \A k \in 1 .. n + 1 : k = n + 1 \/ k \in 1 .. n
  OBVIOUS
<1>8. MaxOrders \in Nodes
  BY Constants DEF Nodes
<1>9. \A k \in 0 .. n + 1 : NodeAt(s, n, k) \in Nodes
  BY <1>4, <1>5, <1>6, <1>8
<1>10. \A j, k \in 0 .. n : NodeAt(s, n, j) = NodeAt(s, n, k) => j = k
  BY <1>1, <1>4, <1>5, <1>6
<1>11. \A j, k \in 1 .. n + 1 : NodeAt(s, n, j) = NodeAt(s, n, k) => j = k
  BY <1>1, <1>4, <1>5, <1>7
<1> QED
  BY <1>1, <1>2, <1>4, <1>5, <1>9, <1>10, <1>11, Zenon

(* Following the links from the sentinel lists the ring.                   *)
LEMMA ListIs ==
  ASSUME NEW q, NEW s, IsRing(q, s), q.size \in Nat
  PROVE  ListOf(q) = s
<1> DEFINE n == q.size
           Lists(h) == h = [k \in 1 .. q.size |-> q.next[IF k = 1 THEN MaxOrders ELSE h[k - 1]]]
           u == CHOOSE h : Lists(h)
<1>1. n \in Nat /\ s = [k \in 1 .. n |-> s[k]]
  BY RingIs
<1>2. ASSUME NEW k \in 1 .. n
      PROVE  s[k] = q.next[IF k = 1 THEN MaxOrders ELSE s[k - 1]]
  <2>1. k - 1 \in 0 .. n /\ (k - 1) + 1 = k /\ (k = 1 \/ k - 1 \in 1 .. n)
    BY <1>1
  <2>2. q.next[NodeAt(s, n, k - 1)] = NodeAt(s, n, (k - 1) + 1)
    BY <1>1, <2>1, RingIs
  <2>3. NodeAt(s, n, k) = s[k]
    BY <1>1, RingIs
  <2>4. NodeAt(s, n, k - 1) = IF k = 1 THEN MaxOrders ELSE s[k - 1]
    BY <1>1, <2>1, RingIs
  <2> QED
    BY <2>1, <2>2, <2>3, <2>4
<1>3. Lists(s)
  BY <1>1, <1>2
<1>4. u = [k \in 1 .. q.size |-> q.next[IF k = 1 THEN MaxOrders ELSE u[k - 1]]]
  BY <1>3, Zenon
<1>5. ListOf(q) = u
  BY Zenon DEF ListOf
<1> HIDE DEF u
<1> DEFINE S == {k \in Nat : k = 0 \/ u[k] = s[k]}
<1>6. ASSUME NEW k \in 0 .. n - 1, k \in S
      PROVE  k + 1 \in S
  <2>1. k + 1 \in 1 .. n /\ (k + 1) - 1 = k /\ k + 1 \in Nat /\ (k + 1 = 1 <=> k = 0)
    BY <1>1
  <2>2. u[k + 1] = q.next[IF k + 1 = 1 THEN MaxOrders ELSE u[(k + 1) - 1]]
    BY <1>4, <2>1
  <2>3. s[k + 1] = q.next[IF k + 1 = 1 THEN MaxOrders ELSE s[(k + 1) - 1]]
    BY <1>2, <2>1
  <2>4. k = 0 \/ u[k] = s[k]
    BY <1>6
  <2> QED
    BY <2>1, <2>2, <2>3, <2>4
<1>7. 0 \in S
  OBVIOUS
<1>8. \A k \in 0 .. n : k \in S
  <2> HIDE DEF S
  <2> QED
    BY <1>1, <1>6, <1>7, UpTo
<1>9. \A k \in 1 .. n : u[k] = s[k]
  <2>1. \A k \in 1 .. n : k \in 0 .. n /\ k # 0
    BY <1>1
  <2> QED
    BY <1>8, <2>1
<1> QED
  BY <1>1, <1>4, <1>5, <1>9

(* A function changed in two places.                                       *)
LEMMA TwoChanges ==
  ASSUME NEW f \in Wires, NEW a \in Nodes, NEW b \in Nodes, NEW x \in -1 .. MaxOrders, NEW y \in -1 .. MaxOrders
  PROVE  /\ [f EXCEPT ![a] = x, ![b] = y] \in Wires
         /\ \A c \in Nodes : [f EXCEPT ![a] = x, ![b] = y][c] = IF c = b THEN y ELSE IF c = a THEN x ELSE f[c]
BY DEF Wires

(* Nodes are values of the links.                                          *)
LEMMA NodesAreLinks ==
  /\ Nodes \subseteq -1 .. MaxOrders /\ -1 \in -1 .. MaxOrders
  /\ Slots \subseteq Nodes /\ MaxOrders \in Nodes
BY Constants DEF Nodes, Slots

(* The listing without its i-th slot, and with one more slot.              *)
Short(s, n, i) == [k \in 1 .. n - 1 |-> IF k < i THEN s[k] ELSE s[k + 1]]
Long(s, n, slot) == [k \in 1 .. n + 1 |-> IF k = n + 1 THEN slot ELSE s[k]]

(* A slot taken out of the ring joins its neighbours and is free.          *)
LEMMA UnlinkKeepsRing ==
  ASSUME NEW q \in Links, NEW s, IsRing(q, s), NEW n, n = q.size, NEW i \in 1 .. n
  PROVE  /\ Q!Unlink(q, s[i]) \in Links
         /\ Q!Unlink(q, s[i]).size = n - 1
         /\ IsRing(Q!Unlink(q, s[i]), Short(s, n, i))
<1> DEFINE N(k) == NodeAt(s, n, k)
           t == Short(s, n, i)
           M(k) == NodeAt(t, n - 1, k)
           p == Q!Unlink(q, s[i])
<1>1. n \in Nat /\ n <= MaxOrders /\ q.next \in Wires /\ q.prev \in Wires /\ MaxOrders \in Nat /\ i \in Nat
  BY Constants DEF Links
<1>2. /\ s \in [1 .. n -> Slots]
      /\ \A j, k \in 1 .. n : s[j] = s[k] => j = k
      /\ \A slot \in Slots : (\A k \in 1 .. n : s[k] # slot) => q.prev[slot] = -1 /\ q.next[slot] = -1
      /\ \A k \in 1 .. n : N(k) = s[k]
  BY <1>1, RingIs
<1>3. /\ N(0) = MaxOrders /\ N(n + 1) = MaxOrders
      /\ \A k \in 0 .. n + 1 : N(k) \in Nodes
      /\ \A k \in 0 .. n : q.next[N(k)] = N(k + 1)
      /\ \A k \in 0 .. n : q.prev[N(k + 1)] = N(k)
      /\ \A j, k \in 0 .. n : N(j) = N(k) => j = k
      /\ \A j, k \in 1 .. n + 1 : N(j) = N(k) => j = k
  BY <1>1, RingIs
<1>4. /\ t \in [1 .. n - 1 -> Slots]
      /\ \A k \in 1 .. n - 1 : t[k] = IF k < i THEN s[k] ELSE s[k + 1]
  <2>1. \A k \in 1 .. n - 1 : k \in 1 .. n /\ k + 1 \in 1 .. n
    BY <1>1
  <2> QED
    BY <1>2, <2>1 DEF Short
<1>5. \A k \in 0 .. n : M(k) = IF k < i THEN N(k) ELSE N(k + 1)
  <2> SUFFICES ASSUME NEW k \in 0 .. n
               PROVE  M(k) = IF k < i THEN N(k) ELSE N(k + 1)
    OBVIOUS
  <2>1. CASE k = 0
    <3>1. k < i /\ k \notin 1 .. n - 1
      BY <1>1, <2>1
    <3>2. M(k) = MaxOrders
      BY <3>1 DEF NodeAt
    <3> QED
      BY <1>3, <2>1, <3>1, <3>2
  <2>2. CASE k = n
    <3>1. ~ (k < i) /\ k \notin 1 .. n - 1
      BY <1>1, <2>2
    <3>2. M(k) = MaxOrders
      BY <3>1 DEF NodeAt
    <3> QED
      BY <1>3, <2>2, <3>1, <3>2
  <2>3. CASE k \in 1 .. n - 1
    <3>1. M(k) = t[k]
      BY <2>3 DEF NodeAt
    <3>2. k \in 1 .. n /\ k + 1 \in 1 .. n
      BY <1>1, <2>3
    <3> QED
      BY <1>2, <1>4, <2>3, <3>1, <3>2
  <2> QED
    BY <1>1, <2>1, <2>2, <2>3
<1>6. /\ p.next = [q.next EXCEPT ![N(i - 1)] = N(i + 1), ![N(i)] = -1]
      /\ p.prev = [q.prev EXCEPT ![N(i + 1)] = N(i - 1), ![N(i)] = -1]
      /\ p.size = n - 1 /\ p = [next |-> p.next, prev |-> p.prev, size |-> p.size]
  <2>1. i - 1 \in 0 .. n /\ (i - 1) + 1 = i /\ i \in 0 .. n
    BY <1>1
  <2>2. q.prev[s[i]] = N(i - 1) /\ q.next[s[i]] = N(i + 1) /\ s[i] = N(i)
    BY <1>2, <1>3, <2>1
  <2> HIDE DEF N
  <2> QED
    BY <2>2 DEF Q!Unlink, Q!Free
<1>7. /\ i - 1 \in 0 .. n + 1 /\ i \in 0 .. n + 1 /\ i + 1 \in 0 .. n + 1
      /\ N(i - 1) \in Nodes /\ N(i) \in Nodes /\ N(i + 1) \in Nodes
  <2>1. i - 1 \in 0 .. n + 1 /\ i \in 0 .. n + 1 /\ i + 1 \in 0 .. n + 1
    BY <1>1
  <2> QED
    BY <1>3, <2>1
<1> HIDE DEF N, t, M, p
<1>8. /\ p.next \in Wires /\ p.prev \in Wires
      /\ \A c \in Nodes : p.next[c] = IF c = N(i) THEN -1 ELSE IF c = N(i - 1) THEN N(i + 1) ELSE q.next[c]
      /\ \A c \in Nodes : p.prev[c] = IF c = N(i) THEN -1 ELSE IF c = N(i + 1) THEN N(i - 1) ELSE q.prev[c]
  <2>1. -1 \in -1 .. MaxOrders /\ N(i - 1) \in -1 .. MaxOrders /\ N(i + 1) \in -1 .. MaxOrders
    BY <1>7, NodesAreLinks
  <2>2. /\ p.next \in Wires
        /\ \A c \in Nodes : p.next[c] = IF c = N(i) THEN -1 ELSE IF c = N(i - 1) THEN N(i + 1) ELSE q.next[c]
    <3> DEFINE g == [q.next EXCEPT ![N(i - 1)] = N(i + 1), ![N(i)] = -1]
    <3>1. g \in Wires /\ \A c \in Nodes : g[c] = IF c = N(i) THEN -1 ELSE IF c = N(i - 1) THEN N(i + 1) ELSE q.next[c]
      BY <1>1, <1>7, <2>1, TwoChanges
    <3>2. p.next = g
      BY <1>6
    <3> HIDE DEF g
    <3> QED
      BY <3>1, <3>2
  <2>3. /\ p.prev \in Wires
        /\ \A c \in Nodes : p.prev[c] = IF c = N(i) THEN -1 ELSE IF c = N(i + 1) THEN N(i - 1) ELSE q.prev[c]
    <3> DEFINE g == [q.prev EXCEPT ![N(i + 1)] = N(i - 1), ![N(i)] = -1]
    <3>1. g \in Wires /\ \A c \in Nodes : g[c] = IF c = N(i) THEN -1 ELSE IF c = N(i + 1) THEN N(i - 1) ELSE q.prev[c]
      BY <1>1, <1>7, <2>1, TwoChanges
    <3>2. p.prev = g
      BY <1>6
    <3> HIDE DEF g
    <3> QED
      BY <3>1, <3>2
  <2> QED
    BY <2>2, <2>3
<1>9. p \in Links
  <2>1. n - 1 \in 0 .. MaxOrders
    BY <1>1
  <2>2. [next |-> p.next, prev |-> p.prev, size |-> p.size] \in Links
    BY <1>6, <1>8, <2>1 DEF Links
  <2> QED
    BY <1>6, <2>2
<1>10. ASSUME NEW k \in 0 .. n - 1
       PROVE  p.next[M(k)] = M(k + 1) /\ p.prev[M(k + 1)] = M(k)
  <2>1. k \in 0 .. n /\ k + 1 \in 0 .. n /\ k + 2 \in 0 .. n + 1 /\ k \in Int
    BY <1>1
  <2>2. M(k) = (IF k < i THEN N(k) ELSE N(k + 1)) /\ M(k + 1) = (IF k + 1 < i THEN N(k + 1) ELSE N((k + 1) + 1))
    BY <1>5, <2>1
  <2>3. CASE k + 1 < i
    <3>1. /\ k \in 0 .. n /\ k + 1 \in 0 .. n /\ i \in 0 .. n /\ i - 1 \in 0 .. n /\ k # i /\ k # i - 1 /\ k < i
          /\ k + 1 \in 1 .. n + 1 /\ i \in 1 .. n + 1 /\ i + 1 \in 1 .. n + 1 /\ k + 1 # i /\ k + 1 # i + 1
          /\ k \in 0 .. n + 1 /\ k + 1 \in 0 .. n + 1
      BY <1>1, <2>3
    <3>2. N(k) # N(i) /\ N(k) # N(i - 1) /\ N(k + 1) # N(i) /\ N(k + 1) # N(i + 1)
      BY <1>3, <3>1
    <3>3. p.next[N(k)] = N(k + 1) /\ p.prev[N(k + 1)] = N(k)
      BY <1>3, <1>8, <3>1, <3>2
    <3>4. M(k) = N(k) /\ M(k + 1) = N(k + 1)
      BY <2>2, <2>3, <3>1
    <3> QED
      BY <3>3, <3>4
  <2>4. CASE k + 1 = i
    <3>1. k = i - 1 /\ k < i /\ ~ (k + 1 < i) /\ (k + 1) + 1 = i + 1 /\ i - 1 # i /\ i # i + 1
          /\ i - 1 \in 0 .. n /\ i \in 0 .. n /\ i \in 1 .. n + 1 /\ i + 1 \in 1 .. n + 1
      BY <1>1, <2>4
    <3>2. M(k) = N(i - 1) /\ M(k + 1) = N(i + 1)
      BY <2>2, <3>1
    <3>3. N(i - 1) # N(i) /\ N(i + 1) # N(i)
      BY <1>3, <3>1
    <3> QED
      BY <1>7, <1>8, <3>2, <3>3
  <2>5. CASE ~ (k + 1 < i) /\ k + 1 # i
    <3>1. /\ ~ (k < i) /\ (k + 1) + 1 = k + 2
          /\ k + 1 \in 0 .. n /\ i \in 0 .. n /\ i - 1 \in 0 .. n /\ k + 1 # i /\ k + 1 # i - 1
          /\ k + 2 \in 1 .. n + 1 /\ i \in 1 .. n + 1 /\ i + 1 \in 1 .. n + 1 /\ k + 2 # i /\ k + 2 # i + 1
          /\ k + 1 \in 0 .. n + 1 /\ k + 2 \in 0 .. n + 1
      BY <1>1, <2>5
    <3>2. N(k + 1) # N(i) /\ N(k + 1) # N(i - 1) /\ N(k + 2) # N(i) /\ N(k + 2) # N(i + 1)
      BY <1>3, <3>1
    <3>3. q.next[N(k + 1)] = N(k + 2) /\ q.prev[N(k + 2)] = N(k + 1)
      <4>1. q.next[N(k + 1)] = N((k + 1) + 1) /\ q.prev[N((k + 1) + 1)] = N(k + 1)
        BY <1>3, <3>1
      <4> QED
        BY <3>1, <4>1
    <3>4. p.next[N(k + 1)] = N(k + 2) /\ p.prev[N(k + 2)] = N(k + 1)
      BY <1>3, <1>8, <3>1, <3>2, <3>3
    <3>5. M(k) = N(k + 1) /\ M(k + 1) = N(k + 2)
      BY <2>2, <2>5, <3>1
    <3> QED
      BY <3>4, <3>5
  <2> QED
    BY <2>3, <2>4, <2>5
<1>11. \A j, k \in 1 .. n - 1 : t[j] = t[k] => j = k
  <2> SUFFICES ASSUME NEW j \in 1 .. n - 1, NEW k \in 1 .. n - 1, t[j] = t[k]
               PROVE  j = k
    OBVIOUS
  <2>1. j \in 1 .. n /\ j + 1 \in 1 .. n /\ k \in 1 .. n /\ k + 1 \in 1 .. n /\ j \in Int /\ k \in Int
    BY <1>1
  <2>2. (IF j < i THEN s[j] ELSE s[j + 1]) = (IF k < i THEN s[k] ELSE s[k + 1])
    BY <1>4
  <2>3. (IF j < i THEN j ELSE j + 1) = (IF k < i THEN k ELSE k + 1)
    BY <1>2, <2>1, <2>2
  <2> QED
    BY <1>1, <2>1, <2>3
<1>12. ASSUME NEW slot \in Slots, \A k \in 1 .. n - 1 : t[k] # slot
       PROVE  p.prev[slot] = -1 /\ p.next[slot] = -1
  <2>1. CASE slot = s[i]
    BY <1>2, <1>7, <1>8, <2>1
  <2>2. CASE slot # s[i]
    <3>1. ASSUME NEW k \in 1 .. n
          PROVE  s[k] # slot
      <4>1. CASE k < i
        <5>1. k \in 1 .. n - 1
          BY <1>1, <4>1
        <5> QED
          BY <1>4, <1>12, <4>1, <5>1
      <4>2. CASE k = i
        BY <2>2, <4>2
      <4>3. CASE ~ (k < i) /\ k # i
        <5>1. k - 1 \in 1 .. n - 1 /\ ~ (k - 1 < i) /\ (k - 1) + 1 = k
          BY <1>1, <4>3
        <5>2. t[k - 1] = s[(k - 1) + 1]
          BY <1>4, <5>1
        <5> QED
          BY <1>12, <5>1, <5>2
      <4> QED
        BY <4>1, <4>2, <4>3
    <3>2. slot # MaxOrders /\ slot \in Nodes
      BY Constants DEF Slots, Nodes
    <3>3. \A k \in 0 .. n + 1 : k = 0 \/ k = n + 1 \/ k \in 1 .. n
      BY <1>1
    <3>4. slot # N(i - 1) /\ slot # N(i) /\ slot # N(i + 1)
      BY <1>2, <1>3, <1>7, <3>1, <3>2, <3>3
    <3> QED
      BY <1>2, <1>8, <3>1, <3>2, <3>4
  <2> QED
    BY <2>1, <2>2
<1>13. IsRing(p, t)
  BY <1>4, <1>6, <1>10, <1>11, <1>12 DEF IsRing, M, Q!IsFree, Q!Free
<1> QED
  BY <1>6, <1>9, <1>13 DEF p, t

(* The first slot taken out is the slot after the sentinel taken out.      *)
LEMMA UnlinkFirstIsUnlink ==
  ASSUME NEW q \in Links, NEW s, IsRing(q, s), q.size # 0
  PROVE  /\ Q!FrontSlot(q) = s[1] /\ 1 \in 1 .. q.size
         /\ Q!UnlinkFirst(q) = Q!Unlink(q, s[1])
<1> DEFINE n == q.size
<1>1. n \in Nat /\ 1 \in 1 .. n /\ 0 \in 0 .. n /\ 1 \in 0 .. n
  BY Constants DEF Links
<1>2. q.next[NodeAt(s, n, 0)] = NodeAt(s, n, 1) /\ q.prev[NodeAt(s, n, 1)] = NodeAt(s, n, 0)
  <2>1. /\ \A k \in 0 .. n : q.next[NodeAt(s, n, k)] = NodeAt(s, n, k + 1)
        /\ \A k \in 0 .. n : q.prev[NodeAt(s, n, k + 1)] = NodeAt(s, n, k)
    BY <1>1, RingIs
  <2>2. 0 \in 0 .. n /\ 0 + 1 = 1
    BY <1>1
  <2> QED
    BY <2>1, <2>2, Zenon
<1>3. NodeAt(s, n, 0) = MaxOrders /\ NodeAt(s, n, 1) = s[1]
  BY <1>1, RingIs
<1>4. q.next[MaxOrders] = s[1] /\ q.prev[s[1]] = MaxOrders
  BY <1>2, <1>3
<1>5. Q!FrontSlot(q) = s[1]
  BY <1>4 DEF Q!FrontSlot, Q!Sentinel
<1>6. Q!UnlinkFirst(q) = Q!Unlink(q, s[1])
  BY <1>4 DEF Q!UnlinkFirst, Q!Unlink, Q!Sentinel
<1> QED
  BY <1>1, <1>5, <1>6

(* A slot linked in is the last one of the ring.                           *)
LEMMA LinkLastKeepsRing ==
  ASSUME NEW q \in Links, NEW s, IsRing(q, s), NEW n, n = q.size, n < MaxOrders,
         NEW slot \in Slots, \A k \in 1 .. n : s[k] # slot
  PROVE  /\ Q!LinkLast(q, slot) \in Links
         /\ Q!LinkLast(q, slot).size = n + 1
         /\ IsRing(Q!LinkLast(q, slot), Long(s, n, slot))
<1> DEFINE N(k) == NodeAt(s, n, k)
           t == Long(s, n, slot)
           M(k) == NodeAt(t, n + 1, k)
           p == Q!LinkLast(q, slot)
<1>1. n \in Nat /\ q.next \in Wires /\ q.prev \in Wires /\ MaxOrders \in Nat
      /\ slot \in Nodes /\ slot # MaxOrders /\ MaxOrders \in Nodes
  BY Constants DEF Links, Slots, Nodes
<1>2. /\ s \in [1 .. n -> Slots]
      /\ \A j, k \in 1 .. n : s[j] = s[k] => j = k
      /\ \A free \in Slots : (\A k \in 1 .. n : s[k] # free) => q.prev[free] = -1 /\ q.next[free] = -1
      /\ \A k \in 1 .. n : N(k) = s[k]
  BY <1>1, RingIs
<1>3. /\ N(0) = MaxOrders /\ N(n + 1) = MaxOrders
      /\ \A k \in 0 .. n + 1 : N(k) \in Nodes
      /\ \A k \in 0 .. n : q.next[N(k)] = N(k + 1)
      /\ \A k \in 0 .. n : q.prev[N(k + 1)] = N(k)
      /\ \A j, k \in 0 .. n : N(j) = N(k) => j = k
      /\ \A j, k \in 1 .. n + 1 : N(j) = N(k) => j = k
  BY <1>1, RingIs
<1>4. /\ t \in [1 .. n + 1 -> Slots]
      /\ \A k \in 1 .. n : t[k] = s[k]
      /\ t[n + 1] = slot
  <2>1. \A k \in 1 .. n + 1 : k = n + 1 \/ k \in 1 .. n
    BY <1>1
  <2>2. \A k \in 1 .. n : k \in 1 .. n + 1 /\ k # n + 1
    BY <1>1
  <2>3. n + 1 \in 1 .. n + 1
    BY <1>1
  <2> QED
    BY <1>2, <2>1, <2>2, <2>3 DEF Long
<1>5. /\ \A k \in 0 .. n : M(k) = N(k)
      /\ M(n + 1) = slot /\ M((n + 1) + 1) = MaxOrders
  <2>1. \A k \in 1 .. n : M(k) = t[k]
    BY <1>1 DEF NodeAt
  <2>2. M(0) = MaxOrders /\ M((n + 1) + 1) = MaxOrders /\ M(n + 1) = t[n + 1]
    BY <1>1 DEF NodeAt
  <2>3. \A k \in 0 .. n : k = 0 \/ k \in 1 .. n
    BY <1>1
  <2> HIDE DEF M, N, t
  <2> QED
    BY <1>2, <1>3, <1>4, <2>1, <2>2, <2>3
<1>6. /\ p.next = [q.next EXCEPT ![slot] = MaxOrders, ![N(n)] = slot]
      /\ p.prev = [q.prev EXCEPT ![slot] = N(n), ![MaxOrders] = slot]
      /\ p.size = n + 1 /\ p = [next |-> p.next, prev |-> p.prev, size |-> p.size]
  <2>1. n \in 0 .. n
    BY <1>1
  <2>2. q.prev[MaxOrders] = N(n)
    BY <1>3, <2>1
  <2> HIDE DEF N
  <2> QED
    BY <2>2 DEF Q!LinkLast, Q!Sentinel
<1> HIDE DEF N, t, M, p
<1>7. N(n) \in Nodes /\ \A k \in 0 .. n : N(k) # slot
  <2>1. n \in 0 .. n + 1
    BY <1>1
  <2>2. \A k \in 0 .. n : k = 0 \/ k \in 1 .. n
    BY <1>1
  <2> QED
    BY <1>1, <1>2, <1>3, <2>1, <2>2
<1>8. /\ p.next \in Wires /\ p.prev \in Wires
      /\ \A c \in Nodes : p.next[c] = IF c = N(n) THEN slot ELSE IF c = slot THEN MaxOrders ELSE q.next[c]
      /\ \A c \in Nodes : p.prev[c] = IF c = MaxOrders THEN slot ELSE IF c = slot THEN N(n) ELSE q.prev[c]
  <2>1. slot \in -1 .. MaxOrders /\ N(n) \in -1 .. MaxOrders /\ MaxOrders \in -1 .. MaxOrders
    BY <1>1, <1>7, NodesAreLinks
  <2>2. /\ p.next \in Wires
        /\ \A c \in Nodes : p.next[c] = IF c = N(n) THEN slot ELSE IF c = slot THEN MaxOrders ELSE q.next[c]
    BY <1>1, <1>6, <1>7, <2>1, TwoChanges
  <2>3. /\ p.prev \in Wires
        /\ \A c \in Nodes : p.prev[c] = IF c = MaxOrders THEN slot ELSE IF c = slot THEN N(n) ELSE q.prev[c]
    BY <1>1, <1>6, <1>7, <2>1, TwoChanges
  <2> QED
    BY <2>2, <2>3
<1>9. p \in Links
  <2>1. n + 1 \in 0 .. MaxOrders
    BY <1>1
  <2>2. [next |-> p.next, prev |-> p.prev, size |-> p.size] \in Links
    BY <1>6, <1>8, <2>1 DEF Links
  <2> QED
    BY <1>6, <2>2
<1>10. ASSUME NEW k \in 0 .. n + 1
       PROVE  p.next[M(k)] = M(k + 1) /\ p.prev[M(k + 1)] = M(k)
  <2>1. CASE k = n + 1
    BY <1>1, <1>5, <1>7, <1>8, <2>1
  <2>2. CASE k = n
    <3>1. n \in 0 .. n
      BY <1>1
    <3>2. M(k) = N(n) /\ M(k + 1) = slot
      BY <1>5, <2>2, <3>1
    <3> QED
      BY <1>1, <1>7, <1>8, <3>2
  <2>3. CASE k \in 0 .. n - 1
    <3>1. k \in 0 .. n /\ k + 1 \in 0 .. n /\ n \in 0 .. n /\ k # n /\ k + 1 \in 1 .. n + 1 /\ n + 1 \in 1 .. n + 1
          /\ k + 1 # n + 1 /\ k \in 0 .. n + 1 /\ k + 1 \in 0 .. n + 1
      BY <1>1, <2>3
    <3>2. M(k) = N(k) /\ M(k + 1) = N(k + 1)
      BY <1>5, <3>1
    <3>3. N(k) # N(n) /\ N(k + 1) # MaxOrders /\ N(k) \in Nodes /\ N(k + 1) \in Nodes
      BY <1>3, <3>1
    <3>4. N(k) # slot /\ N(k + 1) # slot
      BY <1>7, <3>1
    <3>5. q.next[N(k)] = N(k + 1) /\ q.prev[N(k + 1)] = N(k)
      BY <1>3, <3>1
    <3> QED
      BY <1>8, <3>2, <3>3, <3>4, <3>5
  <2> QED
    BY <1>1, <2>1, <2>2, <2>3
<1>11. \A j, k \in 1 .. n + 1 : t[j] = t[k] => j = k
  <2>1. \A k \in 1 .. n + 1 : k = n + 1 \/ k \in 1 .. n
    BY <1>1
  <2> QED
    BY <1>2, <1>4, <2>1
<1>12. ASSUME NEW free \in Slots, \A k \in 1 .. n + 1 : t[k] # free
       PROVE  p.prev[free] = -1 /\ p.next[free] = -1
  <2>1. n + 1 \in 1 .. n + 1 /\ (\A k \in 1 .. n : k \in 1 .. n + 1) /\ n \in 0 .. n
    BY <1>1
  <2>2. free # slot /\ \A k \in 1 .. n : s[k] # free
    BY <1>4, <1>12, <2>1
  <2>3. free # MaxOrders /\ free \in Nodes
    BY Constants DEF Slots, Nodes
  <2>4. \A k \in 0 .. n : k = 0 \/ k \in 1 .. n
    BY <1>1
  <2>5. free # N(n)
    BY <1>2, <1>3, <2>1, <2>2, <2>3, <2>4
  <2> QED
    BY <1>2, <1>8, <2>2, <2>3, <2>5
<1>13. IsRing(p, t)
  <2>1. \A k \in 0 .. n + 1 :
          /\ p.next[NodeAt(t, n + 1, k)] = NodeAt(t, n + 1, k + 1)
          /\ p.prev[NodeAt(t, n + 1, k + 1)] = NodeAt(t, n + 1, k)
    BY <1>10, Zenon DEF M
  <2>2. \A free \in Slots : (\A k \in 1 .. n + 1 : t[k] # free) => Q!IsFree(p, free)
    BY <1>12 DEF Q!IsFree, Q!Free
  <2>3. p.size = n + 1
    BY <1>6
  <2> QED
    BY <1>4, <1>11, <2>1, <2>2, <2>3 DEF IsRing
<1> QED
  BY <1>6, <1>9, <1>13 DEF p, t

(* The empty list.                                                         *)
LEMMA NewIsRing ==
  Q!NewQueue \in Links /\ Q!NewQueue.size = 0 /\ IsRing(Q!NewQueue, [k \in 1 .. 0 |-> 0])
<1> DEFINE p == Q!NewQueue
           w == [n \in Nodes |-> IF n = MaxOrders THEN MaxOrders ELSE -1]
           t == [k \in 1 .. 0 |-> 0]
<1>1. p = [next |-> w, prev |-> w, size |-> 0]
  BY DEF Q!NewQueue, Q!Nodes, Q!Sentinel, Q!Free, Nodes
<1>2. w \in Wires
  BY Constants DEF Wires, Nodes
<1>3. MaxOrders \in Nodes /\ 0 \in 0 .. MaxOrders /\ \A slot \in Slots : slot \in Nodes /\ slot # MaxOrders
  BY Constants DEF Nodes, Slots
<1>4. w[MaxOrders] = MaxOrders /\ \A slot \in Slots : w[slot] = -1
  BY <1>3
<1> HIDE DEF w, p
<1>5. p \in Links
  BY <1>1, <1>2, <1>3 DEF Links
<1>6. 1 .. 0 = {} /\ 0 .. 0 = {0} /\ t \in [1 .. 0 -> Slots]
  OBVIOUS
<1>7. NodeAt(t, 0, 0) = MaxOrders /\ NodeAt(t, 0, 0 + 1) = MaxOrders
  BY DEF NodeAt
<1> HIDE DEF t
<1>8. IsRing(p, t)
  BY <1>1, <1>4, <1>6, <1>7 DEF IsRing, Q!IsFree, Q!Free
<1> QED
  BY <1>1, <1>5, <1>8 DEF p, t

-----------------------------------------------------------------------------
(* The units of the orders.                                                *)

UnitsOf(f, slot) == {slot} \X (1 .. f[slot])
UnitsIn(H, f) == UNION {{slot} \X (1 .. f[slot]) : slot \in H}
Amount(H, f) == Cardinality(UnitsIn(H, f))

(* A set of slots is finite.                                               *)
LEMMA SlotsAreFinite ==
  ASSUME NEW H \in SUBSET Slots
  PROVE  IsFiniteSet(H) /\ Cardinality(H) \in Nat
<1>1. IsFiniteSet(Slots)
  BY Constants, FS_Interval DEF Slots
<1>2. IsFiniteSet(H)
  BY <1>1, FS_Subset
<1> QED
  BY <1>2, FS_CardinalityType

(* There are as many slots as the level has places.                        *)
LEMMA NumberOfSlots == Cardinality(Slots) = MaxOrders
<1>1. 0 \in Int /\ MaxOrders - 1 \in Int /\ 0 <= MaxOrders - 1 /\ (MaxOrders - 1) - 0 + 1 = MaxOrders
  BY Constants
<1> QED
  BY <1>1, FS_Interval DEF Slots

(* The units are finitely many, and an order adds its own.                 *)
LEMMA UnitsOfOne ==
  ASSUME NEW f \in [Slots -> Nat], NEW slot \in Slots
  PROVE  IsFiniteSet(UnitsOf(f, slot)) /\ Cardinality(UnitsOf(f, slot)) = f[slot]
<1> DEFINE m == f[slot]
<1>1. m \in Nat
  OBVIOUS
<1> HIDE DEF m
<1>2. IsFiniteSet(1 .. m) /\ Cardinality(1 .. m) = m
  <2>1. CASE m = 0
    <3>1. 1 .. m = {}
      BY <2>1
    <3> QED
      BY <2>1, <3>1, FS_EmptySet
  <2>2. CASE m # 0
    <3>1. 1 \in Int /\ m \in Int /\ 1 <= m /\ m - 1 + 1 = m
      BY <1>1, <2>2
    <3> QED
      BY <3>1, FS_Interval
  <2> QED
    BY <2>1, <2>2
<1>3. IsFiniteSet({slot}) /\ Cardinality({slot}) = 1
  BY FS_Singleton
<1>4. IsFiniteSet({slot} \X (1 .. m)) /\ Cardinality({slot} \X (1 .. m)) = m
  <2> DEFINE A == {slot}
             B == 1 .. m
  <2>1. IsFiniteSet(A) /\ IsFiniteSet(B) /\ Cardinality(A) = 1 /\ Cardinality(B) = m
    BY <1>2, <1>3
  <2> HIDE DEF A, B
  <2>2. IsFiniteSet(A \X B) /\ Cardinality(A \X B) = Cardinality(A) * Cardinality(B)
    BY <2>1, FS_Product, Zenon
  <2>3. 1 * m = m
    BY <1>1
  <2> QED
    BY <2>1, <2>2, <2>3 DEF A, B
<1> QED
  BY <1>1, <1>4 DEF UnitsOf, m

(* The units of any held slots are finitely many.                          *)
LEMMA AmountType ==
  ASSUME NEW H \in SUBSET Slots, NEW f \in [Slots -> Nat]
  PROVE  IsFiniteSet(UnitsIn(H, f)) /\ Amount(H, f) \in Nat
<1> DEFINE F == {UnitsOf(f, slot) : slot \in H}
<1>1. IsFiniteSet(F)
  <2>1. IsFiniteSet(H)
    BY SlotsAreFinite
  <2>2. [slot \in H |-> UnitsOf(f, slot)] \in Surjection(H, F)
    BY DEF Surjection
  <2> QED
    BY <2>1, <2>2, FS_Surjection
<1>2. \A u \in F : IsFiniteSet(u)
  BY UnitsOfOne
<1>3. UnitsIn(H, f) = UNION F
  BY Zenon DEF UnitsIn, UnitsOf
<1> HIDE DEF F
<1>4. IsFiniteSet(UNION F)
  BY <1>1, <1>2, FS_UNION
<1> QED
  BY <1>3, <1>4, FS_CardinalityType DEF Amount

(* One more slot adds its quantity.                                        *)
LEMMA AmountAdd ==
  ASSUME NEW H \in SUBSET Slots, NEW f \in [Slots -> Nat], NEW slot \in Slots, slot \notin H
  PROVE  Amount(H \cup {slot}, f) = Amount(H, f) + f[slot]
<1> DEFINE S == UnitsIn(H, f)
           T == UnitsOf(f, slot)
<1>1. UnitsIn(H \cup {slot}, f) = S \cup T
  BY DEF UnitsIn, UnitsOf
<1>2. S \cap T = {}
  <2> SUFFICES ASSUME NEW u \in S, u \in T
               PROVE  FALSE
    OBVIOUS
  <2>1. PICK other \in H : u \in {other} \X (1 .. f[other])
    BY DEF UnitsIn
  <2>2. u[1] = other /\ u[1] = slot
    BY <2>1 DEF UnitsOf
  <2> QED
    BY <2>2
<1>3. IsFiniteSet(S) /\ Cardinality(S) = Amount(H, f) /\ Amount(H, f) \in Nat
  BY AmountType DEF Amount
<1>4. IsFiniteSet(T) /\ Cardinality(T) = f[slot] /\ f[slot] \in Nat
  BY UnitsOfOne
<1> HIDE DEF S, T
<1>5. Cardinality(S \cup T) = Cardinality(S) + Cardinality(T) - Cardinality({})
  BY <1>2, <1>3, <1>4, FS_Union
<1>6. Cardinality({}) = 0
  BY FS_EmptySet
<1>7. Cardinality(S \cup T) = Amount(H, f) + f[slot]
  BY <1>3, <1>4, <1>5, <1>6
<1> QED
  BY <1>1, <1>7 DEF Amount

(* Only the quantities of the slots that are held count.                   *)
LEMMA AmountSame ==
  ASSUME NEW H \in SUBSET Slots, NEW f, NEW g, \A slot \in H : f[slot] = g[slot]
  PROVE  Amount(H, f) = Amount(H, g)
<1>1. {{slot} \X (1 .. f[slot]) : slot \in H} = {{slot} \X (1 .. g[slot]) : slot \in H}
  OBVIOUS
<1> QED
  BY <1>1 DEF Amount, UnitsIn

(* One slot less takes its quantity away, and a changed quantity adds what *)
(* it changed.                                                             *)
LEMMA AmountWithout ==
  ASSUME NEW H \in SUBSET Slots, NEW f \in [Slots -> Nat], NEW slot \in H,
         NEW g \in [Slots -> Nat], \A other \in Slots : other # slot => g[other] = f[other]
  PROVE  /\ Amount(H \ {slot}, f) \in Nat /\ Amount(H \ {slot}, g) = Amount(H \ {slot}, f)
         /\ Amount(H, f) = Amount(H \ {slot}, f) + f[slot]
         /\ Amount(H, g) = Amount(H \ {slot}, f) + g[slot]
<1> DEFINE K == H \ {slot}
<1>1. K \in SUBSET Slots /\ slot \in Slots /\ slot \notin K /\ H = K \cup {slot}
  OBVIOUS
<1>2. \A other \in K : g[other] = f[other]
  OBVIOUS
<1> HIDE DEF K
<1>3. Amount(K, f) \in Nat
  BY <1>1, AmountType
<1>4. Amount(K, g) = Amount(K, f)
  BY <1>1, <1>2, AmountSame
<1>5. Amount(H, f) = Amount(K, f) + f[slot] /\ Amount(H, g) = Amount(K, g) + g[slot]
  BY <1>1, AmountAdd
<1> QED
  BY <1>3, <1>4, <1>5 DEF K

(* The total of a level and the amount in it.                              *)
IsTotal(t, n) == \E side \in Sides : t = side * n

(* The sides are the two signs.                                            *)
LEMMA SidesAre == Sides = {-1, 1} /\ Sides \subseteq Int
BY DEF Sides, Sell, Buy

(* An order of the side that the level has, or the first one, moves the    *)
(* total its own way.                                                      *)
LEMMA TotalGrows ==
  ASSUME NEW n \in Nat, NEW t, IsTotal(t, n), NEW side \in Sides, side * t >= 0,
         NEW m \in Nat, NEW d \in Int, m = n + d
  PROVE  IsTotal(t + side * d, m) /\ t + side * d \in Int
<1>1. PICK s \in Sides : t = s * n
  BY DEF IsTotal
<1>2. t = side * n
  BY <1>1, SidesAre
<1>3. \A x \in Sides : x * n + x * d = x * (n + d) /\ x * n + x * d \in Int
  BY SidesAre
<1> QED
  BY <1>2, <1>3 DEF IsTotal

(* A taker of the other side takes from it.                                *)
LEMMA TotalShrinks ==
  ASSUME NEW n \in Nat, NEW t, IsTotal(t, n), NEW side \in Sides, side * t < 0,
         NEW m \in Nat, NEW d \in Int, n = m + d
  PROVE  IsTotal(t + side * d, m) /\ t + side * d \in Int
<1>1. PICK s \in Sides : t = s * n
  BY DEF IsTotal
<1>2. CASE side = -1
  <2>1. t = 1 * n
    BY <1>1, <1>2, SidesAre
  <2>2. t + side * d = 1 * m
    BY <1>2, <2>1
  <2> QED
    BY <2>2, SidesAre DEF IsTotal
<1>3. CASE side = 1
  <2>1. t = (-1) * n
    BY <1>1, <1>3, SidesAre
  <2>2. t + side * d = (-1) * m
    BY <1>3, <2>1
  <2> QED
    BY <2>2, SidesAre DEF IsTotal
<1> QED
  BY <1>2, <1>3, SidesAre

-----------------------------------------------------------------------------
(* Probing.                                                                *)

(* Steps of three visit every slot, whatever the identifier.               *)
LEMMA ProbesAll ==
  ASSUME NEW ident \in Nat, NEW s \in Slots
  PROVE  \E k \in Slots : ProbeSlot(ident, k) = s
<1> DEFINE M == MaxOrders
           f == [k \in Slots |-> ProbeSlot(ident, k)]
<1>1. \A x \in Nat : /\ x % M \in 0 .. M - 1
                     /\ x \div M \in Int /\ x = M * (x \div M) + (x % M)
  BY Constants
<1>2. f \in [Slots -> Slots]
  BY <1>1, Constants DEF ProbeSlot, Slots
<1>3. ASSUME NEW i \in Slots, NEW j \in Slots, i < j, f[i] = f[j]
      PROVE  FALSE
  <2>1. (ident + 3 * i) \in Nat /\ (ident + 3 * j) \in Nat /\ M \in Nat \ {0}
    BY Constants DEF Slots
  <2>2. (ident + 3 * i) % M = (ident + 3 * j) % M
    BY <1>3 DEF ProbeSlot
  <2>3. PICK a \in Int, b \in Int : 3 * (j - i) = M * b - M * a
    <3> DEFINE x == ident + 3 * i
               y == ident + 3 * j
               a == x \div M
               b == y \div M
    <3>1. /\ x \in Nat /\ y \in Nat /\ x % M = y % M
          /\ y - x = 3 * (j - i)
      BY <2>1, <2>2 DEF Slots
    <3> HIDE DEF x, y
    <3>2. /\ a \in Int /\ b \in Int /\ x = M * a + (x % M) /\ y = M * b + (y % M)
          /\ x % M \in Int
      BY <1>1, <3>1
    <3> HIDE DEF a, b
    <3>3. M * a \in Int /\ M * b \in Int /\ x \in Int /\ y \in Int
      BY <2>1, <3>1, <3>2
    <3> HIDE DEF M
    <3>4. M * b - M * a = y - x
      <4> DEFINE p == M * a
                 r == M * b
                 z == x % M
      <4>1. x = p + z /\ y = r + z /\ p \in Int /\ r \in Int /\ z \in Int
        BY <3>1, <3>2, <3>3
      <4> HIDE DEF p, r, z
      <4>2. r - p = y - x
        BY <4>1
      <4> QED
        BY <4>2 DEF p, r
    <3> QED
      BY <3>1, <3>2, <3>4
  <2>4. PICK e \in Int : e = b - a /\ 3 * (j - i) = M * e
    BY <2>1, <2>3
  <2>5. j - i \in 1 .. M - 1
    BY <1>3, <2>1 DEF Slots
  <2> HIDE DEF M
  <2>6. e \in 1 .. 2
    <3>1. e <= 0 => M * e <= 0
      BY <2>1
    <3>2. e >= 3 => M * e >= 3 * M
      BY <2>1
    <3> QED
      BY <2>1, <2>4, <2>5, <3>1, <3>2
  <2>7. M % 3 # 0
    BY Constants DEF M
  <2>8. CASE e = 1
    BY <2>1, <2>4, <2>5, <2>7, <2>8
  <2>9. CASE e = 2
    <3>1. M = 3 * (M - (j - i))
      BY <2>1, <2>4, <2>5, <2>9
    <3>2. M - (j - i) \in Int
      BY <2>1, <2>5
    <3> QED
      BY <2>1, <2>7, <3>1, <3>2
  <2> QED
    BY <2>6, <2>8, <2>9
<1>4. f \in Injection(Slots, Slots)
  <2>1. \A i, j \in Slots : f[i] = f[j] => i = j
    <3> SUFFICES ASSUME NEW i \in Slots, NEW j \in Slots, f[i] = f[j], i # j
                 PROVE  FALSE
      OBVIOUS
    <3>1. i < j \/ j < i
      BY Constants DEF Slots
    <3> HIDE DEF f
    <3> QED
      BY <1>3, <3>1
  <2> HIDE DEF f
  <2> QED
    BY <1>2, <2>1 DEF Injection, IsInjective
<1>5. IsFiniteSet(Slots)
  BY FS_Interval, Constants DEF Slots
<1>6. f \in Surjection(Slots, Slots)
  <2> HIDE DEF f
  <2> QED
    BY <1>4, <1>5, FS_Injection
<1> QED
  BY <1>6 DEF Surjection

(* The slot found by probing is one of those looked for.                   *)
LEMMA ProbeFinds ==
  ASSUME NEW ident \in Nat, NEW S \in SUBSET Slots, S # {}
  PROVE  FirstProbed(ident, S) \in S
<1> DEFINE T == {k \in Slots : ProbeSlot(ident, k) \in S}
<1>1. T # {} /\ T \in SUBSET Nat
  <2>1. Slots \in SUBSET Nat
    BY Constants DEF Slots
  <2>2. PICK s \in Slots : s \in S
    OBVIOUS
  <2>3. \E k \in Slots : ProbeSlot(ident, k) = s
    BY ProbesAll
  <2> QED
    BY <2>1, <2>2, <2>3
<1>2. PICK m \in T : \A n \in T : m <= n
  <2> HIDE DEF T
  <2> QED
    BY <1>1, Least
<1>3. m \in Slots /\ ProbeSlot(ident, m) \in S /\ \A j \in Slots : j < m => ProbeSlot(ident, j) \notin S
  BY <1>2, Constants DEF Slots
<1> QED
  BY <1>3 DEF FirstProbed

-----------------------------------------------------------------------------
(* The parts of the invariant.                                             *)

Calls == [id : Ids \cup {0}, answer : Slots \cup {Done, UnknownId, OtherInSlot}]
SlotsIn(s, n) == {s[k] : k \in 1 .. n}

(* What the invariant says.                                                *)
LEMMA Apart ==
  ASSUME IInv
  PROVE  /\ links \in Links /\ links.size \in 0 .. MaxOrders /\ links.size \in Nat
         /\ id \in [Slots -> Ids \cup {0}] /\ qty \in [Slots -> Nat] /\ total \in Int /\ call \in Calls
         /\ IsRing(links, Listed) /\ Held = SlotsIn(Listed, links.size)
         /\ Held \in SUBSET Slots /\ IsFiniteSet(Held) /\ links.size = Cardinality(Held)
         /\ Amount(Held, qty) \in Nat /\ IsTotal(total, Amount(Held, qty))
<1>1. /\ links \in Links
      /\ id \in [Slots -> Ids \cup {0}] /\ qty \in [Slots -> Nat] /\ total \in Int /\ call \in Calls
  BY DEF IInv, TypeOK, Links, Wires, Nodes, Calls, InvalidOrderId
<1>2. links.size \in 0 .. MaxOrders /\ links.size \in Nat
  BY <1>1, Constants DEF Links
<1>3. IsRing(links, Listed) /\ Held = SlotsIn(Listed, links.size)
  BY DEF IInv, SlotsIn
<1>4. Held \in SUBSET Slots
  BY DEF Held
<1>5. links.size = Cardinality(Held) /\ IsTotal(total, Amount(Held, qty))
  BY DEF IInv, CountersMatch, IsTotal, Amount, UnitsIn, Units
<1>6. IsFiniteSet(Held)
  BY <1>4, SlotsAreFinite
<1>7. Amount(Held, qty) \in Nat
  BY <1>1, <1>4, AmountType
<1> QED
  BY <1>1, <1>2, <1>3, <1>4, <1>5, <1>6, <1>7

(* What is enough for it after a step.                                     *)
LEMMA Together ==
  ASSUME links' \in Links, id' \in [Slots -> Ids \cup {0}], qty' \in [Slots -> Nat],
         total' \in Int, call' \in Calls,
         NEW s, IsRing(links', s), NEW n \in Nat, links'.size = n,
         NEW H, Held' = H, H = SlotsIn(s, n), Cardinality(H) = n,
         IsTotal(total', Amount(H, qty'))
  PROVE  IInv' /\ Listed' = s
<1>1. TypeOK'
  BY DEF TypeOK, Links, Wires, Nodes, Calls, InvalidOrderId
<1>2. CountersMatch'
  BY DEF CountersMatch, IsTotal, Amount, UnitsIn, Units
<1>3. Listed' = s
  BY ListIs DEF Listed
<1> QED
  BY <1>1, <1>2, <1>3 DEF IInv, SlotsIn

(* A step that leaves the level as it is.                                  *)
LEMMA RefusedKeeps ==
  ASSUME IInv, UNCHANGED <<links, id, qty, total>>, call' \in Calls
  PROVE  IInv' /\ Listed' = Listed /\ Held' = Held
<1>1. Listed' = Listed /\ Held' = Held /\ Units' = Units
  BY DEF Held, Listed, Units
<1>2. TypeOK'
  BY DEF IInv, TypeOK, Calls, InvalidOrderId
<1>3. CountersMatch'
  BY <1>1 DEF IInv, CountersMatch
<1> QED
  BY <1>1, <1>2, <1>3 DEF IInv

(* A slot of the list taken out.                                           *)
LEMMA RemovedKeeps ==
  ASSUME IInv, NEW i \in 1 .. links.size, NEW slot, slot = Listed[i],
         links' = Q!Unlink(links, slot), id' = [id EXCEPT ![slot] = InvalidOrderId],
         qty' \in [Slots -> Nat], \A other \in Slots : other # slot => qty'[other] = qty[other],
         total' \in Int, IsTotal(total', Amount(Held \ {slot}, qty)), call' \in Calls
  PROVE  /\ IInv' /\ Listed' = Short(Listed, links.size, i) /\ links'.size = links.size - 1
         /\ Held' = Held \ {slot} /\ slot \in Held
<1> DEFINE s == Listed
           n == links.size
           t == Short(s, n, i)
           H == Held \ {slot}
<1>1. /\ links \in Links /\ n \in Nat /\ id \in [Slots -> Ids \cup {0}] /\ qty \in [Slots -> Nat]
      /\ IsRing(links, s) /\ Held = SlotsIn(s, n)
      /\ Held \in SUBSET Slots /\ IsFiniteSet(Held) /\ n = Cardinality(Held)
  BY Apart
<1>8. i \in 1 .. n /\ n = links.size /\ slot = s[i]
  OBVIOUS
<1> HIDE DEF s, n
<1>2. links' \in Links /\ links'.size = n - 1 /\ IsRing(links', t)
  <2>1. /\ Q!Unlink(links, s[i]) \in Links /\ Q!Unlink(links, s[i]).size = n - 1
        /\ IsRing(Q!Unlink(links, s[i]), Short(s, n, i))
    BY <1>1, <1>8, UnlinkKeepsRing
  <2> QED
    BY <1>8, <2>1
<1>3. s \in [1 .. n -> Slots] /\ \A j, k \in 1 .. n : s[j] = s[k] => j = k
  BY <1>1, <1>8, RingIs
<1>4. slot \in Held /\ slot \in Slots /\ slot = s[i]
  BY <1>1, <1>3, <1>8 DEF SlotsIn
<1>5. id' \in [Slots -> Ids \cup {0}] /\ Held' = H
  BY <1>1, <1>4 DEF Held, InvalidOrderId
<1>6. Cardinality(H) = n - 1 /\ n - 1 \in Nat
  <2>1. IsFiniteSet(H) /\ Cardinality(H) = Cardinality(Held) - 1
    BY <1>1, <1>4, FS_RemoveElement
  <2>2. Cardinality(H) \in Nat
    BY <2>1, FS_CardinalityType
  <2> QED
    BY <1>1, <2>1, <2>2
<1>7. \A k \in 1 .. n - 1 : t[k] = IF k < i THEN s[k] ELSE s[k + 1]
  BY DEF Short
<1> HIDE DEF t, H
<1>9. ASSUME NEW x \in H
      PROVE  x \in SlotsIn(t, n - 1)
  <2>1. PICK k \in 1 .. n : x = s[k]
    BY <1>1 DEF SlotsIn, H
  <2>2. k # i
    BY <1>4, <2>1 DEF H
  <2>3. CASE k < i
    <3>1. k \in 1 .. n - 1
      BY <1>1, <1>8, <2>3
    <3> QED
      BY <1>7, <2>1, <2>3, <3>1 DEF SlotsIn
  <2>4. CASE ~ (k < i)
    <3>1. k - 1 \in 1 .. n - 1 /\ ~ (k - 1 < i) /\ (k - 1) + 1 = k
      BY <1>1, <1>8, <2>2, <2>4
    <3>2. t[k - 1] = s[(k - 1) + 1]
      BY <1>7, <3>1
    <3> QED
      BY <2>1, <3>1, <3>2 DEF SlotsIn
  <2> QED
    BY <2>3, <2>4
<1>10. ASSUME NEW x \in SlotsIn(t, n - 1)
       PROVE  x \in H
  <2>1. PICK k \in 1 .. n - 1 : x = t[k]
    BY DEF SlotsIn
  <2>2. k \in 1 .. n /\ k + 1 \in 1 .. n /\ k \in Int
    BY <1>1
  <2>3. PICK j \in 1 .. n : x = s[j] /\ j # i
    <3>1. CASE k < i
      BY <1>7, <1>8, <2>1, <2>2, <3>1
    <3>2. CASE ~ (k < i)
      <4>1. k + 1 # i
        BY <1>8, <2>2, <3>2
      <4> QED
        BY <1>7, <2>1, <2>2, <3>2, <4>1
    <3> QED
      BY <3>1, <3>2
  <2>4. x # slot
    BY <1>3, <1>4, <1>8, <2>3
  <2> QED
    BY <1>1, <2>3, <2>4 DEF SlotsIn, H
<1>11. H = SlotsIn(t, n - 1)
  BY <1>9, <1>10
<1>12. Amount(H, qty') = Amount(H, qty)
  <2>1. H \in SUBSET Slots /\ \A x \in H : qty'[x] = qty[x]
    BY <1>1 DEF H
  <2> QED
    BY <2>1, AmountSame
<1>13. IsTotal(total', Amount(H, qty'))
  BY <1>12 DEF H
<1>14. IInv' /\ Listed' = t
  BY <1>2, <1>5, <1>6, <1>11, <1>13, Together
<1> QED
  BY <1>2, <1>4, <1>5, <1>14 DEF n, t, s, H

(* The quantity of a held slot changed.                                    *)
LEMMA ChangedKeeps ==
  ASSUME IInv, NEW slot \in Held, UNCHANGED <<links, id>>,
         qty' \in [Slots -> Nat], \A other \in Slots : other # slot => qty'[other] = qty[other],
         total' \in Int, IsTotal(total', Amount(Held \ {slot}, qty) + qty'[slot]), call' \in Calls
  PROVE  IInv' /\ Listed' = Listed /\ Held' = Held
<1>1. Held' = Held /\ Listed' = Listed
  BY DEF Held, Listed
<1>2. qty \in [Slots -> Nat] /\ Held \in SUBSET Slots /\ links.size \in Nat
      /\ links \in Links /\ id \in [Slots -> Ids \cup {0}]
      /\ IsRing(links, Listed) /\ Held = SlotsIn(Listed, links.size) /\ links.size = Cardinality(Held)
  BY Apart
<1>3. Amount(Held, qty') = Amount(Held \ {slot}, qty) + qty'[slot]
  BY <1>2, AmountWithout
<1>4. IsTotal(total', Amount(Held, qty'))
  BY <1>3
<1> QED
  BY <1>1, <1>2, <1>4, Together

(* A free slot linked in.                                                  *)
LEMMA AddedKeeps ==
  ASSUME IInv, links.size < MaxOrders, NEW slot \in Slots \ Held, NEW newId \in Ids, NEW newQty \in Nat,
         links' = Q!LinkLast(links, slot), id' = [id EXCEPT ![slot] = newId],
         qty' = [qty EXCEPT ![slot] = newQty],
         total' \in Int, IsTotal(total', Amount(Held, qty) + newQty), call' \in Calls
  PROVE  /\ IInv' /\ Listed' = Long(Listed, links.size, slot) /\ links'.size = links.size + 1
         /\ Held' = Held \cup {slot}
<1> DEFINE s == Listed
           n == links.size
           t == Long(s, n, slot)
           H == Held \cup {slot}
<1>1. /\ links \in Links /\ n \in Nat /\ id \in [Slots -> Ids \cup {0}] /\ qty \in [Slots -> Nat]
      /\ IsRing(links, s) /\ Held = SlotsIn(s, n)
      /\ Held \in SUBSET Slots /\ IsFiniteSet(Held) /\ n = Cardinality(Held)
  BY Apart
<1>13. n = links.size /\ n < MaxOrders
  OBVIOUS
<1> HIDE DEF s, n
<1>2. \A k \in 1 .. n : s[k] # slot
  BY <1>1 DEF SlotsIn
<1>3. links' \in Links /\ links'.size = n + 1 /\ IsRing(links', t)
  BY <1>1, <1>2, <1>13, LinkLastKeepsRing
<1>4. id' \in [Slots -> Ids \cup {0}] /\ newId # 0
  BY <1>1, Constants
<1>5. Held' = H
  BY <1>1, <1>4 DEF Held, InvalidOrderId
<1>6. Cardinality(H) = n + 1
  BY <1>1, FS_AddElement
<1>7. H = SlotsIn(t, n + 1)
  <2>1. (\A k \in 1 .. n : k \in 1 .. n + 1 /\ t[k] = s[k]) /\ n + 1 \in 1 .. n + 1 /\ t[n + 1] = slot
    BY <1>1 DEF Long
  <2>2. \A k \in 1 .. n + 1 : k = n + 1 \/ k \in 1 .. n
    BY <1>1
  <2> HIDE DEF t
  <2>3. ASSUME NEW x \in H
        PROVE  x \in SlotsIn(t, n + 1)
    BY <1>1, <2>1 DEF SlotsIn
  <2>4. ASSUME NEW x \in SlotsIn(t, n + 1)
        PROVE  x \in H
    <3>1. PICK k \in 1 .. n + 1 : x = t[k]
      BY DEF SlotsIn
    <3> QED
      BY <1>1, <2>1, <2>2, <3>1 DEF SlotsIn
  <2> QED
    BY <2>3, <2>4
<1>8. qty' \in [Slots -> Nat] /\ qty'[slot] = newQty /\ \A other \in Held : qty'[other] = qty[other]
  BY <1>1
<1>9. Amount(H, qty') = Amount(Held, qty) + newQty
  <2>1. Amount(H, qty') = Amount(Held, qty') + qty'[slot]
    BY <1>1, <1>8, AmountAdd
  <2>2. Amount(Held, qty') = Amount(Held, qty)
    BY <1>1, <1>8, AmountSame
  <2> QED
    BY <1>8, <2>1, <2>2
<1>10. IsTotal(total', Amount(H, qty'))
  BY <1>9
<1> HIDE DEF t, H
<1>11. n + 1 \in Nat
  BY <1>1
<1>12. IInv' /\ Listed' = t
  BY <1>3, <1>4, <1>5, <1>6, <1>7, <1>8, <1>10, <1>11, Together
<1> QED
  BY <1>3, <1>5, <1>12 DEF n, t, s, H

-----------------------------------------------------------------------------
(* The operations.                                                         *)

(* A level with a total other than zero has orders.                        *)
LEMMA NotEmpty ==
  ASSUME IInv, NEW side \in Sides, side * total # 0
  PROVE  links.size # 0 /\ links.size \in Nat
<1>1. links.size \in Nat /\ IsTotal(total, Amount(Held, qty)) /\ links.size = Cardinality(Held) /\ IsFiniteSet(Held)
  BY Apart
<1>2. ASSUME links.size = 0
      PROVE  FALSE
  <2>1. Held = {}
    BY <1>1, <1>2, FS_EmptySet
  <2>2. UnitsIn(Held, qty) = {}
    BY <2>1 DEF UnitsIn
  <2>3. Amount(Held, qty) = 0
    BY <2>2, FS_EmptySet DEF Amount
  <2>4. total = 0
    BY <1>1, <2>3, SidesAre DEF IsTotal
  <2> QED
    BY <2>4, SidesAre
<1> QED
  BY <1>1, <1>2

(* What a call returns.                                                    *)
LEMMA Answers ==
  /\ \A orderId \in Ids, answer \in Slots \cup {Done, UnknownId, OtherInSlot} :
       Called(orderId, answer) => call' \in Calls
  /\ call' = NoCall => call' \in Calls
BY DEF Called, NoCall, Calls, InvalidOrderId

(* A slot taken out or changed, in terms of the amount it leaves behind.   *)
LEMMA AmountLeft ==
  ASSUME IInv, NEW slot \in Held
  PROVE  /\ Amount(Held \ {slot}, qty) \in Nat /\ qty[slot] \in Nat
         /\ Amount(Held, qty) = Amount(Held \ {slot}, qty) + qty[slot]
         /\ Amount(Held, qty) \in Nat /\ IsTotal(total, Amount(Held, qty)) /\ total \in Int
<1>1. /\ qty \in [Slots -> Nat] /\ total \in Int /\ Held \in SUBSET Slots
      /\ Amount(Held, qty) \in Nat /\ IsTotal(total, Amount(Held, qty))
  BY Apart
<1>2. Amount(Held \ {slot}, qty) \in Nat /\ Amount(Held, qty) = Amount(Held \ {slot}, qty) + qty[slot]
  BY <1>1, AmountWithout
<1> QED
  BY <1>1, <1>2

(* Push.                                                                   *)
LEMMA PushKeeps ==
  ASSUME IInv, NEW side \in Sides, NEW newId \in Ids, NEW newQty \in Qtys, Push(side, newId, newQty)
  PROVE  /\ IInv'
         /\ \E slot \in Slots \ Held :
              /\ slot = FirstProbed(newId, Slots \ Held)
              /\ Listed' = Long(Listed, links.size, slot) /\ links'.size = links.size + 1
              /\ id' = [id EXCEPT ![slot] = newId] /\ qty' = [qty EXCEPT ![slot] = newQty]
              /\ total' = total + side * newQty /\ Called(newId, slot)
<1> DEFINE slot == FirstProbed(newId, Slots \ Held)
<1>1. /\ links.size \in 0 .. MaxOrders /\ links.size = Cardinality(Held) /\ Held \in SUBSET Slots
      /\ Amount(Held, qty) \in Nat /\ IsTotal(total, Amount(Held, qty)) /\ total \in Int
  BY Apart
<1>2. /\ links.size # MaxOrders /\ side * total >= 0
      /\ links' = Q!LinkLast(links, slot) /\ id' = [id EXCEPT ![slot] = newId]
      /\ qty' = [qty EXCEPT ![slot] = newQty] /\ total' = total + side * newQty
      /\ Called(newId, slot)
  BY DEF Push, IsFull
<1>3. links.size < MaxOrders
  BY <1>1, <1>2, Constants
<1>4. Slots \ Held # {}
  <2> SUFFICES ASSUME Held = Slots
               PROVE  FALSE
    BY <1>1
  <2> QED
    BY <1>1, <1>3, NumberOfSlots, Constants
<1>5. newId \in Nat /\ newQty \in Nat
  BY Constants
<1>6. slot \in Slots \ Held
  BY <1>4, <1>5, ProbeFinds
<1> HIDE DEF slot
<1>7. Amount(Held, qty) + newQty \in Nat /\ newQty \in Int
  BY <1>1, <1>5
<1>8. IsTotal(total', Amount(Held, qty) + newQty) /\ total' \in Int
  BY <1>1, <1>2, <1>7, TotalGrows
<1>9. call' \in Calls
  BY <1>2, <1>6, Answers
<1>10. /\ IInv' /\ Listed' = Long(Listed, links.size, slot) /\ links'.size = links.size + 1
  BY <1>2, <1>3, <1>5, <1>6, <1>8, <1>9, AddedKeeps
<1> QED
  BY <1>2, <1>6, <1>10 DEF slot

(* A changed order.                                                        *)
LEMMA ChangeKeeps ==
  ASSUME IInv, NEW side \in Sides, side * total > 0, NEW orderId \in Ids, NEW newQty \in Qtys,
         NEW slot \in Slots, id[slot] = orderId, Change(side, orderId, newQty, slot)
  PROVE  IInv' /\ Listed' = Listed /\ slot \in Held
<1>1. slot \in Held /\ newQty \in Nat
  BY Constants DEF Held, InvalidOrderId
<1>2. /\ qty' = [qty EXCEPT ![slot] = newQty] /\ total' = total - side * qty[slot] + side * newQty
      /\ Called(orderId, Done) /\ UNCHANGED <<links, id>>
  BY DEF Change
<1>3. qty' \in [Slots -> Nat] /\ qty'[slot] = newQty /\ \A other \in Slots : other # slot => qty'[other] = qty[other]
  BY <1>1, <1>2, Apart
<1> DEFINE a == Amount(Held \ {slot}, qty)
           n == Amount(Held, qty)
           d == newQty - qty[slot]
           m == a + newQty
<1>4. a \in Nat /\ qty[slot] \in Nat /\ n = a + qty[slot] /\ n \in Nat /\ IsTotal(total, n) /\ total \in Int
  BY <1>1, AmountLeft
<1> HIDE DEF a, n
<1>5. d \in Int /\ m \in Nat /\ m = n + d
  BY <1>1, <1>4
<1>6. total' = total + side * d
  <2>1. side * d = side * newQty - side * qty[slot] /\ side * newQty \in Int /\ side * qty[slot] \in Int
    BY <1>1, <1>4, SidesAre
  <2> QED
    BY <1>2, <1>4, <2>1
<1>7. side * total >= 0
  BY <1>4, SidesAre
<1> HIDE DEF d, m
<1>8. IsTotal(total', m) /\ total' \in Int
  BY <1>4, <1>5, <1>6, <1>7, TotalGrows
<1>9. call' \in Calls
  BY <1>2, Answers
<1> QED
  BY <1>1, <1>2, <1>3, <1>8, <1>9, ChangedKeeps DEF m, a

(* The slot of an order is in the list.                                    *)
LEMMA PlaceOfHeld ==
  ASSUME IInv, NEW slot \in Held
  PROVE  \E i \in 1 .. links.size : slot = Listed[i]
BY Apart DEF SlotsIn

(* A cancelled order.                                                      *)
LEMMA RemoveKeeps ==
  ASSUME IInv, NEW side \in Sides, side * total > 0, NEW orderId \in Ids,
         NEW i \in 1 .. links.size, NEW slot, slot = Listed[i], Remove(side, orderId, slot)
  PROVE  /\ IInv' /\ Listed' = Short(Listed, links.size, i) /\ links'.size = links.size - 1
         /\ slot \in Held
<1>1. slot \in Held
  BY Apart DEF SlotsIn
<1>2. /\ id' = [id EXCEPT ![slot] = InvalidOrderId] /\ links' = Q!Unlink(links, slot)
      /\ total' = total - side * qty[slot] /\ Called(orderId, Done) /\ qty' = qty
  BY DEF Remove
<1>3. qty' \in [Slots -> Nat] /\ \A other \in Slots : other # slot => qty'[other] = qty[other]
  BY <1>2, Apart
<1> DEFINE a == Amount(Held \ {slot}, qty)
           n == Amount(Held, qty)
           d == 0 - qty[slot]
<1>4. a \in Nat /\ qty[slot] \in Nat /\ n = a + qty[slot] /\ n \in Nat /\ IsTotal(total, n) /\ total \in Int
  BY <1>1, AmountLeft
<1> HIDE DEF a, n
<1>5. d \in Int /\ a = n + d
  BY <1>4
<1>6. total' = total + side * d
  <2>1. side * d = 0 - side * qty[slot] /\ side * qty[slot] \in Int
    BY <1>4, SidesAre
  <2> QED
    BY <1>2, <1>4, <2>1
<1>7. side * total >= 0
  BY <1>4, SidesAre
<1> HIDE DEF d
<1>8. IsTotal(total', a) /\ total' \in Int
  BY <1>4, <1>5, <1>6, <1>7, TotalGrows
<1>9. call' \in Calls
  BY <1>2, Answers
<1> QED
  BY <1>1, <1>2, <1>3, <1>8, <1>9, RemovedKeeps DEF a

(* The first of the list.                                                  *)
LEMMA FrontIs ==
  ASSUME IInv, NEW side \in Sides, side * total # 0
  PROVE  /\ 1 \in 1 .. links.size /\ Q!FrontSlot(links) = Listed[1] /\ Listed[1] \in Held
         /\ Q!UnlinkFirst(links) = Q!Unlink(links, Listed[1])
<1>1. links \in Links /\ IsRing(links, Listed) /\ Held = SlotsIn(Listed, links.size)
  BY Apart
<1>2. links.size # 0
  BY NotEmpty
<1>3. 1 \in 1 .. links.size /\ Q!FrontSlot(links) = Listed[1] /\ Q!UnlinkFirst(links) = Q!Unlink(links, Listed[1])
  BY <1>1, <1>2, UnlinkFirstIsUnlink
<1> QED
  BY <1>1, <1>3 DEF SlotsIn

(* A fill of the oldest order.                                             *)
LEMMA FillKeeps ==
  ASSUME IInv, NEW side \in Sides, NEW takerQty \in Qtys, Fill(side, takerQty)
  PROVE  /\ IInv' /\ side * total < 0
         /\ 1 \in 1 .. links.size /\ Listed[1] \in Held
         /\ LET front == Listed[1]
                min   == IF takerQty < qty[front] THEN takerQty ELSE qty[front]
            IN  /\ qty' = [qty EXCEPT ![front] = qty[front] - min] /\ total' = total + side * min
                /\ \/ /\ qty[front] = min /\ Listed' = Short(Listed, links.size, 1)
                      /\ links'.size = links.size - 1 /\ id' = [id EXCEPT ![front] = InvalidOrderId]
                   \/ qty[front] # min /\ Listed' = Listed /\ links'.size = links.size /\ id' = id
<1> DEFINE front == Listed[1]
           min == IF takerQty < qty[front] THEN takerQty ELSE qty[front]
           a == Amount(Held \ {front}, qty)
           n == Amount(Held, qty)
           left == qty[front] - min
<1>1. side * total < 0 /\ side * total # 0
  <2>1. side * total < 0
    BY DEF Fill
  <2>2. side * total \in Int
    BY Apart, SidesAre
  <2> QED
    BY <2>1, <2>2
<1>2. /\ 1 \in 1 .. links.size /\ Q!FrontSlot(links) = front /\ front \in Held
      /\ Q!UnlinkFirst(links) = Q!Unlink(links, front)
  BY <1>1, FrontIs
<1>3. /\ qty' = [qty EXCEPT ![front] = qty[front] - min] /\ total' = total + side * min
      /\ call' = NoCall
      /\ qty[front] = min => /\ id' = [id EXCEPT ![front] = InvalidOrderId]
                             /\ links' = Q!Unlink(links, front)
      /\ qty[front] # min => id' = id /\ links' = links
  BY <1>2 DEF Fill
<1>4. a \in Nat /\ qty[front] \in Nat /\ n = a + qty[front] /\ n \in Nat /\ IsTotal(total, n) /\ total \in Int
  BY <1>2, AmountLeft
<1>5. qty \in [Slots -> Nat] /\ Held \in SUBSET Slots
  BY Apart
<1> HIDE DEF front, a, n
<1>6. takerQty \in Nat /\ min \in Int /\ left \in Nat /\ (qty[front] = min => left = 0)
  BY <1>4, Constants
<1> HIDE DEF min
<1>7. a + left \in Nat /\ n = (a + left) + min
  BY <1>4, <1>6
<1>8. IsTotal(total', a + left) /\ total' \in Int
  BY <1>1, <1>3, <1>4, <1>6, <1>7, TotalShrinks
<1>9. qty' \in [Slots -> Nat] /\ qty'[front] = left /\ \A other \in Slots : other # front => qty'[other] = qty[other]
  BY <1>2, <1>3, <1>5, <1>6
<1>10. call' \in Calls
  BY <1>3, Answers
<1>11. CASE qty[front] = min
  <2>1. a + left = a
    BY <1>4, <1>6, <1>11
  <2>2. IsTotal(total', a)
    BY <1>8, <2>1
  <2> HIDE DEF left
  <2>3. IInv' /\ Listed' = Short(Listed, links.size, 1) /\ links'.size = links.size - 1
    BY <1>2, <1>3, <1>8, <1>9, <1>10, <1>11, <2>2, RemovedKeeps DEF front, a
  <2> QED
    BY <1>1, <1>2, <1>3, <1>11, <2>3 DEF front, min
<1>12. CASE qty[front] # min
  <2> HIDE DEF left
  <2>1. UNCHANGED <<links, id>> /\ front \in Held
    BY <1>2, <1>3, <1>12
  <2>2. IsTotal(total', Amount(Held \ {front}, qty) + qty'[front])
    BY <1>8, <1>9 DEF a
  <2>3. IInv' /\ Listed' = Listed
    BY <1>8, <1>9, <1>10, <2>1, <2>2, ChangedKeeps
  <2> QED
    BY <1>1, <1>2, <1>3, <1>12, <2>1, <2>3 DEF front, min
<1> QED
  BY <1>11, <1>12

(* The oldest order dropped.                                               *)
LEMMA ExpireKeeps ==
  ASSUME IInv, NEW side \in Sides, Expire(side)
  PROVE  /\ IInv' /\ side * total > 0
         /\ 1 \in 1 .. links.size /\ Listed[1] \in Held
         /\ Listed' = Short(Listed, links.size, 1) /\ links'.size = links.size - 1
         /\ total' = total - side * qty[Listed[1]] /\ qty' = qty
         /\ id' = [id EXCEPT ![Listed[1]] = InvalidOrderId]
<1> DEFINE front == Listed[1]
           a == Amount(Held \ {front}, qty)
           n == Amount(Held, qty)
           d == 0 - qty[front]
<1>1. side * total > 0 /\ side * total # 0 /\ side * total >= 0
  <2>1. side * total > 0
    BY DEF Expire, HasOrders
  <2>2. side * total \in Int
    BY Apart, SidesAre
  <2> QED
    BY <2>1, <2>2
<1>2. /\ 1 \in 1 .. links.size /\ Q!FrontSlot(links) = front /\ front \in Held
      /\ Q!UnlinkFirst(links) = Q!Unlink(links, front)
  BY <1>1, FrontIs
<1>3. /\ total' = total - side * qty[front] /\ id' = [id EXCEPT ![front] = InvalidOrderId]
      /\ links' = Q!Unlink(links, front) /\ call' = NoCall /\ qty' = qty
  BY <1>2 DEF Expire
<1>4. a \in Nat /\ qty[front] \in Nat /\ n = a + qty[front] /\ n \in Nat /\ IsTotal(total, n) /\ total \in Int
  BY <1>2, AmountLeft
<1>5. qty' \in [Slots -> Nat] /\ \A other \in Slots : other # front => qty'[other] = qty[other]
  BY <1>3, Apart
<1> HIDE DEF front, a, n
<1>6. d \in Int /\ a = n + d
  BY <1>4
<1>7. total' = total + side * d
  <2>1. side * d = 0 - side * qty[front] /\ side * qty[front] \in Int
    BY <1>4, SidesAre
  <2> QED
    BY <1>3, <1>4, <2>1
<1> HIDE DEF d
<1>8. IsTotal(total', a) /\ total' \in Int
  BY <1>1, <1>4, <1>6, <1>7, TotalGrows
<1>9. call' \in Calls
  BY <1>3, Answers
<1>10. IInv' /\ Listed' = Short(Listed, links.size, 1) /\ links'.size = links.size - 1
  BY <1>2, <1>3, <1>5, <1>8, <1>9, RemovedKeeps DEF front, a
<1> QED
  BY <1>1, <1>2, <1>3, <1>10 DEF front

-----------------------------------------------------------------------------
(* The invariant.                                                          *)

(* The new level.                                                          *)
LEMMA InitSound == Init => IInv
<1> SUFFICES ASSUME Init
             PROVE  IInv
  OBVIOUS
<1> DEFINE s == [k \in 1 .. 0 |-> 0]
<1>1. /\ links = Q!NewQueue /\ id = [slot \in Slots |-> 0] /\ qty = [slot \in Slots |-> 0]
      /\ total = 0 /\ call = NoCall
  BY DEF Init, InvalidOrderId
<1>2. links \in Links /\ links.size = 0 /\ IsRing(links, s)
  BY <1>1, NewIsRing
<1>3. Listed = s
  <2>1. links.size \in Nat
    BY <1>2
  <2> HIDE DEF s
  <2> QED
    BY <1>2, <2>1, ListIs DEF Listed
<1>4. Held = {} /\ Units = {}
  BY <1>1 DEF Held, InvalidOrderId, Units
<1>5. TypeOK
  <2>1. call \in Calls
    BY <1>1 DEF NoCall, Calls, InvalidOrderId
  <2>2. id \in [Slots -> Ids \cup {0}] /\ qty \in [Slots -> Nat] /\ total \in Int
    BY <1>1
  <2> QED
    BY <1>2, <2>1, <2>2 DEF TypeOK, Calls, Links, Wires, Nodes, InvalidOrderId
<1>6. CountersMatch
  <2>1. Cardinality(Held) = 0 /\ Cardinality(Units) = 0
    BY <1>4, FS_EmptySet
  <2>2. 1 \in Sides /\ 0 = 1 * 0
    BY SidesAre
  <2> QED
    BY <1>1, <1>2, <2>1, <2>2 DEF CountersMatch
<1>7. Held = {Listed[k] : k \in 1 .. links.size}
  <2>1. 1 .. 0 = {}
    OBVIOUS
  <2> QED
    BY <1>2, <1>4, <2>1
<1> QED
  BY <1>2, <1>3, <1>5, <1>6, <1>7 DEF IInv

(* The slot that an update or a cancel finds holds that order.             *)
LEMMA FoundSlot ==
  ASSUME NEW orderId \in Ids, NEW match, match = {slot \in Slots : id[slot] = orderId}, match # {}
  PROVE  FirstProbed(orderId, match) \in Slots /\ id[FirstProbed(orderId, match)] = orderId
<1>1. orderId \in Nat /\ match \in SUBSET Slots
  BY Constants
<1>2. FirstProbed(orderId, match) \in match
  BY <1>1, ProbeFinds
<1> QED
  BY <1>2

(* A call that is refused.                                                 *)
LEMMA RefuseKeeps ==
  ASSUME IInv, NEW orderId \in Ids, NEW reason \in {UnknownId, OtherInSlot}, Refuse(orderId, reason)
  PROVE  IInv' /\ Listed' = Listed
<1>1. UNCHANGED <<links, id, qty, total>> /\ Called(orderId, reason)
  BY DEF Refuse
<1>2. call' \in Calls
  BY <1>1, Answers
<1> QED
  BY <1>1, <1>2, RefusedKeeps

(* An update with a slot, and one without.                                 *)
LEMMA UpdateSlotKeeps ==
  ASSUME IInv, NEW side \in Sides, NEW orderId \in Ids, NEW newQty \in Qtys, NEW slot \in Slots,
         UpdateSlot(side, orderId, newQty, slot)
  PROVE  IInv'
<1>1. side * total > 0
  BY DEF UpdateSlot, HasOrders
<1>2. CASE id[slot] = orderId
  BY <1>1, <1>2, ChangeKeeps DEF UpdateSlot
<1>3. CASE id[slot] # orderId
  BY <1>3, RefuseKeeps DEF UpdateSlot
<1> QED
  BY <1>2, <1>3

(* An update without a slot finds one by probing.                          *)
LEMMA UpdateKeeps ==
  ASSUME IInv, NEW side \in Sides, NEW orderId \in Ids, NEW newQty \in Qtys, Update(side, orderId, newQty)
  PROVE  IInv'
<1> DEFINE match == {slot \in Slots : id[slot] = orderId}
           slot == FirstProbed(orderId, match)
<1>1. /\ side * total > 0
      /\ match # {} => Change(side, orderId, newQty, slot)
      /\ match = {} => Refuse(orderId, UnknownId)
  BY DEF Update, HasOrders
<1>2. match # {} => slot \in Slots /\ id[slot] = orderId
  BY FoundSlot
<1> HIDE DEF match, slot
<1>3. CASE match # {}
  BY <1>1, <1>2, <1>3, ChangeKeeps
<1>4. CASE match = {}
  BY <1>1, <1>4, RefuseKeeps
<1> QED
  BY <1>3, <1>4

(* A cancel of the order in a slot, wherever it is in the list.            *)
LEMMA RemoveSlotKeeps ==
  ASSUME IInv, NEW side \in Sides, side * total > 0, NEW orderId \in Ids,
         NEW slot \in Slots, id[slot] = orderId, Remove(side, orderId, slot)
  PROVE  IInv'
<1>1. slot \in Held
  BY Constants DEF Held, InvalidOrderId
<1>2. PICK i \in 1 .. links.size : slot = Listed[i]
  BY <1>1, PlaceOfHeld
<1> QED
  BY <1>2, RemoveKeeps

(* A cancel with a slot, and one without.                                  *)
LEMMA CancelSlotKeeps ==
  ASSUME IInv, NEW side \in Sides, NEW orderId \in Ids, NEW slot \in Slots,
         CancelSlot(side, orderId, slot)
  PROVE  IInv'
<1>1. side * total > 0
  BY DEF CancelSlot, HasOrders
<1>2. CASE id[slot] = orderId
  BY <1>1, <1>2, RemoveSlotKeeps DEF CancelSlot
<1>3. CASE id[slot] # orderId
  BY <1>3, RefuseKeeps DEF CancelSlot
<1> QED
  BY <1>2, <1>3

(* So does a cancel.                                                       *)
LEMMA CancelKeeps ==
  ASSUME IInv, NEW side \in Sides, NEW orderId \in Ids, Cancel(side, orderId)
  PROVE  IInv'
<1> DEFINE match == {slot \in Slots : id[slot] = orderId}
           slot == FirstProbed(orderId, match)
<1>1. /\ side * total > 0
      /\ match # {} => Remove(side, orderId, slot)
      /\ match = {} => Refuse(orderId, UnknownId)
  BY DEF Cancel, HasOrders
<1>2. match # {} => slot \in Slots /\ id[slot] = orderId
  BY FoundSlot
<1> HIDE DEF match, slot
<1>3. CASE match # {}
  BY <1>1, <1>2, <1>3, RemoveSlotKeeps
<1>4. CASE match = {}
  BY <1>1, <1>4, RefuseKeeps
<1> QED
  BY <1>3, <1>4

(* Every step keeps the invariant.                                         *)
LEMMA StepSound == IInv /\ [Next]_vars => IInv'
<1> SUFFICES ASSUME IInv, [Next]_vars
             PROVE  IInv'
  OBVIOUS
<1>1. ASSUME NEW side \in Sides, NEW i \in Ids, NEW q \in Qtys, Push(side, i, q)
      PROVE  IInv'
  BY <1>1, PushKeeps
<1>2. ASSUME NEW side \in Sides, NEW i \in Ids, NEW q \in Qtys, Update(side, i, q)
      PROVE  IInv'
  BY <1>2, UpdateKeeps
<1>3. ASSUME NEW side \in Sides, NEW i \in Ids, NEW q \in Qtys, NEW slot \in Slots, UpdateSlot(side, i, q, slot)
      PROVE  IInv'
  BY <1>3, UpdateSlotKeeps
<1>4. ASSUME NEW side \in Sides, NEW i \in Ids, Cancel(side, i)
      PROVE  IInv'
  BY <1>4, CancelKeeps
<1>5. ASSUME NEW side \in Sides, NEW i \in Ids, NEW slot \in Slots, CancelSlot(side, i, slot)
      PROVE  IInv'
  BY <1>5, CancelSlotKeeps
<1>6. ASSUME NEW side \in Sides, NEW q \in Qtys, Fill(side, q)
      PROVE  IInv'
  BY <1>6, FillKeeps
<1>7. ASSUME NEW side \in Sides, Expire(side)
      PROVE  IInv'
  BY <1>7, ExpireKeeps
<1>8. CASE UNCHANGED vars
  <2>1. UNCHANGED <<links, id, qty, total>> /\ call' = call
    BY <1>8 DEF vars
  <2>2. call' \in Calls
    BY <2>1, Apart
  <2> QED
    BY <2>1, <2>2, RefusedKeeps
<1>9. CASE Next
  BY <1>1, <1>2, <1>3, <1>4, <1>5, <1>6, <1>7, <1>9 DEF Next
<1> QED
  BY <1>8, <1>9

(* Whatever is pushed, changed, filled and removed, the list is a ring of  *)
(* the slots with an identifier and the counters agree with it.            *)
THEOREM LevelInvariant == Spec => []IInv
<1>1. Init => IInv
  BY InitSound
<1>2. IInv /\ [Next]_vars => IInv'
  BY StepSound
<1> QED
  BY <1>1, <1>2, PTL DEF Spec

(* A ring is well linked.                                                  *)
LEMMA RingIsWellLinked == IInv => WellLinked
<1> SUFFICES ASSUME IInv
             PROVE  WellLinked
  OBVIOUS
<1> DEFINE s == Listed
           n == links.size
           N(k) == NodeAt(s, n, k)
<1>1. links \in Links /\ n \in Nat /\ IsRing(links, s) /\ Held = SlotsIn(s, n) /\ Held \in SUBSET Slots
  BY Apart
<1>2. n = links.size
  OBVIOUS
<1> HIDE DEF s, n
<1>3. /\ s \in [1 .. n -> Slots]
      /\ \A slot \in Slots : (\A k \in 1 .. n : s[k] # slot) => links.prev[slot] = -1 /\ links.next[slot] = -1
      /\ \A k \in 1 .. n : N(k) = s[k]
      /\ N(0) = MaxOrders /\ N(n + 1) = MaxOrders
  BY <1>1, <1>2, RingIs
<1>4. /\ \A k \in 0 .. n + 1 : N(k) \in Nodes
      /\ \A k \in 0 .. n : links.next[N(k)] = N(k + 1)
      /\ \A k \in 0 .. n : links.prev[N(k + 1)] = N(k)
  BY <1>1, <1>2, RingIs
<1> HIDE DEF N
<1>5. \A k \in 0 .. n + 1 : N(k) \in Held \cup {MaxOrders}
  <2>1. \A k \in 0 .. n + 1 : k = 0 \/ k = n + 1 \/ k \in 1 .. n
    BY <1>1
  <2> QED
    BY <1>1, <1>3, <2>1 DEF SlotsIn
<1>6. ASSUME NEW x \in Held \cup {MaxOrders}
      PROVE  (\E k \in 0 .. n : x = N(k)) /\ (\E k \in 0 .. n : x = N(k + 1))
  <2>1. CASE x = MaxOrders
    <3>1. 0 \in 0 .. n /\ n \in 0 .. n
      BY <1>1
    <3> QED
      BY <1>3, <2>1, <3>1
  <2>2. CASE x \in Held
    <3>1. PICK k \in 1 .. n : x = s[k]
      BY <1>1, <2>2 DEF SlotsIn
    <3>2. k \in 0 .. n /\ k - 1 \in 0 .. n /\ (k - 1) + 1 = k
      BY <1>1
    <3>3. x = N(k) /\ x = N((k - 1) + 1)
      BY <1>3, <3>1, <3>2
    <3> QED
      BY <3>2, <3>3
  <2> QED
    BY <2>1, <2>2
<1>7. ASSUME NEW x \in Held \cup {MaxOrders}
      PROVE  /\ links.next[x] \in Held \cup {MaxOrders} /\ links.prev[x] \in Held \cup {MaxOrders}
             /\ links.prev[links.next[x]] = x /\ links.next[links.prev[x]] = x
  <2>1. PICK k \in 0 .. n : x = N(k)
    BY <1>6
  <2>2. PICK j \in 0 .. n : x = N(j + 1)
    BY <1>6
  <2>3. k + 1 \in 0 .. n + 1 /\ j \in 0 .. n + 1
    BY <1>1
  <2>4. links.next[x] = N(k + 1) /\ links.prev[N(k + 1)] = x
    BY <1>4, <2>1
  <2>5. links.prev[x] = N(j) /\ links.next[N(j)] = x
    BY <1>4, <2>2
  <2> QED
    BY <1>5, <2>3, <2>4, <2>5
<1>8. ASSUME NEW slot \in Slots
      PROVE  Q!IsFree(links, slot) <=> slot \notin Held
  <2>1. ASSUME slot \notin Held
        PROVE  Q!IsFree(links, slot)
    BY <1>1, <1>3, <2>1 DEF SlotsIn, Q!IsFree, Q!Free
  <2>2. ASSUME slot \in Held
        PROVE  ~ Q!IsFree(links, slot)
    <3>1. links.next[slot] \in Held \cup {MaxOrders}
      BY <1>7, <2>2
    <3>2. links.next[slot] \in Nodes
      BY <1>1, <3>1, NodesAreLinks
    <3> QED
      BY <3>2 DEF Nodes, Q!IsFree, Q!Free
  <2> QED
    BY <2>1, <2>2
<1>9. {Listed[k] : k \in DOMAIN Listed} = Held
  BY <1>1, <1>3 DEF SlotsIn, s
<1>10. TypeOK
  BY DEF IInv
<1> QED
  BY <1>7, <1>8, <1>9, <1>10 DEF WellLinked

(* The links of the list lead through every held slot and back.            *)
THEOREM LevelIsWellLinked == Spec => []WellLinked
BY LevelInvariant, RingIsWellLinked, PTL

(* The size and the total are those of the orders held.                    *)
THEOREM LevelCountersMatch == Spec => []CountersMatch
<1>1. IInv => CountersMatch
  BY DEF IInv
<1> QED
  BY <1>1, LevelInvariant, PTL

-----------------------------------------------------------------------------
(* The queue that the list stands for.                                     *)

Entries == [slot : Slots, id : Ids \cup {0}, qty : Nat]
QueueAs(s, n, i, f) == [k \in 1 .. n |-> [slot |-> s[k], id |-> i[s[k]], qty |-> f[s[k]]]]

(* A function of the numbers from 1 to n is a sequence.                    *)
LEMMA FunctionIsSeq ==
  ASSUME NEW S, NEW n \in Nat, NEW f \in [1 .. n -> S]
  PROVE  f \in Seq(S) /\ Len(f) = n
OBVIOUS

(* Sequences with the same elements are the same.                          *)
LEMMA SameSeq ==
  ASSUME NEW S, NEW p \in Seq(S), NEW q \in Seq(S), Len(p) = Len(q),
         \A k \in 1 .. Len(p) : p[k] = q[k]
  PROVE  p = q
OBVIOUS

(* A sequence with one element more.                                       *)
LEMMA AppendIs ==
  ASSUME NEW S, NEW q \in Seq(S), NEW o \in S
  PROVE  /\ Append(q, o) \in Seq(S) /\ Len(Append(q, o)) = Len(q) + 1 /\ Append(q, o)[Len(q) + 1] = o
         /\ \A k \in 1 .. Len(q) : Append(q, o)[k] = q[k]
OBVIOUS

(* No slot is listed twice, and two functions differ only in one slot.     *)
OneToOne(s, n) == \A k, l \in 1 .. n : s[k] = s[l] => k = l
SameBut(i, j, slot) == \A other \in Slots : other # slot => j[other] = i[other]

(* A queue of the orders in the listed slots.                              *)
IsQueueAs(q, s, n, i, f) ==
  /\ q \in Seq(Entries) /\ Len(q) = n /\ DOMAIN q = 1 .. n
  /\ \A k \in 1 .. n : q[k] = [slot |-> s[k], id |-> i[s[k]], qty |-> f[s[k]]]

(* The queue of listed slots is that.                                      *)
LEMMA QueueAsIs ==
  ASSUME NEW n \in Nat, NEW s \in [1 .. n -> Slots],
         NEW i \in [Slots -> Ids \cup {0}], NEW f \in [Slots -> Nat]
  PROVE  IsQueueAs(QueueAs(s, n, i, f), s, n, i, f)
<1>1. QueueAs(s, n, i, f) \in [1 .. n -> Entries]
  BY DEF QueueAs, Entries
<1>2. QueueAs(s, n, i, f) \in Seq(Entries) /\ Len(QueueAs(s, n, i, f)) = n
  BY <1>1, FunctionIsSeq
<1> QED
  BY <1>1, <1>2 DEF QueueAs, IsQueueAs

(* A slot added to the list, as the abstract level describes it.           *)
LEMMA QueueAppended ==
  ASSUME NEW n \in Nat, NEW s, NEW i, NEW f, NEW q, IsQueueAs(q, s, n, i, f),
         NEW slot \in Slots, \A k \in 1 .. n : s[k] # slot,
         NEW j, NEW g, NEW p, IsQueueAs(p, Long(s, n, slot), n + 1, j, g),
         SameBut(i, j, slot), SameBut(f, g, slot)
  PROVE  p = Append(q, [slot |-> slot, id |-> j[slot], qty |-> g[slot]])
<1> DEFINE t == Long(s, n, slot)
           o == [slot |-> slot, id |-> j[slot], qty |-> g[slot]]
<1>1. /\ q \in Seq(Entries) /\ Len(q) = n
      /\ \A k \in 1 .. n : q[k] = [slot |-> s[k], id |-> i[s[k]], qty |-> f[s[k]]]
  BY DEF IsQueueAs
<1>2. t[n + 1] = slot /\ n + 1 \in 1 .. n + 1 /\ \A k \in 1 .. n : t[k] = s[k] /\ k \in 1 .. n + 1
  <2>1. \A k \in 1 .. n : k \in 1 .. n + 1 /\ k # n + 1
    OBVIOUS
  <2>2. n + 1 \in 1 .. n + 1
    OBVIOUS
  <2> QED
    BY <2>1, <2>2 DEF Long
<1>3. /\ p \in Seq(Entries) /\ Len(p) = n + 1
      /\ \A k \in 1 .. n + 1 : p[k] = [slot |-> t[k], id |-> j[t[k]], qty |-> g[t[k]]]
  BY DEF IsQueueAs
<1> HIDE DEF t
<1>4. p[n + 1] = o /\ o \in Entries
  <2>1. p[n + 1] \in Entries
    BY <1>2, <1>3
  <2>2. p[n + 1] = o
    BY <1>2, <1>3
  <2> QED
    BY <2>1, <2>2
<1>5. ASSUME NEW k \in 1 .. n
      PROVE  p[k] = q[k]
  <2>1. q[k] \in Entries /\ q[k] = [slot |-> s[k], id |-> i[s[k]], qty |-> f[s[k]]]
    BY <1>1
  <2>2. s[k] \in Slots /\ s[k] # slot
    BY <2>1 DEF Entries
  <2>3. j[s[k]] = i[s[k]] /\ g[s[k]] = f[s[k]]
    BY <2>2 DEF SameBut
  <2>4. p[k] = [slot |-> t[k], id |-> j[t[k]], qty |-> g[t[k]]] /\ t[k] = s[k]
    BY <1>2, <1>3
  <2> QED
    BY <2>1, <2>3, <2>4
<1> HIDE DEF o
<1>6. Append(q, o) \in Seq(Entries) /\ Len(Append(q, o)) = n + 1
      /\ Append(q, o)[n + 1] = o /\ \A k \in 1 .. n : Append(q, o)[k] = q[k]
  BY <1>1, <1>4, AppendIs
<1>7. \A k \in 1 .. n + 1 : p[k] = Append(q, o)[k]
  <2>1. \A k \in 1 .. n + 1 : k = n + 1 \/ k \in 1 .. n
    OBVIOUS
  <2> QED
    BY <1>4, <1>5, <1>6, <2>1
<1>8. p = Append(q, o)
  BY <1>3, <1>6, <1>7, SameSeq
<1> QED
  BY <1>8 DEF o

(* A slot whose quantity changed.                                          *)
LEMMA QueueChanged ==
  ASSUME NEW n \in Nat, NEW s, NEW i, NEW f, NEW q, IsQueueAs(q, s, n, i, f),
         NEW g, NEW p, IsQueueAs(p, s, n, i, g),
         OneToOne(s, n), NEW j \in 1 .. n, SameBut(f, g, s[j]), NEW b, g[s[j]] = b
  PROVE  p = [q EXCEPT ![j].qty = b]
<1>1. /\ q \in Seq(Entries) /\ Len(q) = n
      /\ \A k \in 1 .. n : q[k] = [slot |-> s[k], id |-> i[s[k]], qty |-> f[s[k]]]
  BY DEF IsQueueAs
<1>2. /\ p \in Seq(Entries) /\ Len(p) = n
      /\ \A k \in 1 .. n : p[k] = [slot |-> s[k], id |-> i[s[k]], qty |-> g[s[k]]]
  BY DEF IsQueueAs
<1>3. ASSUME NEW k \in 1 .. n
      PROVE  p[k] = [q EXCEPT ![j].qty = b][k]
  <2>1. q[k] \in Entries /\ q[k] = [slot |-> s[k], id |-> i[s[k]], qty |-> f[s[k]]]
    BY <1>1
  <2>2. p[k] = [slot |-> s[k], id |-> i[s[k]], qty |-> g[s[k]]]
    BY <1>2
  <2>3. DOMAIN q = 1 .. n
    BY <1>1
  <2>4. CASE k = j
    <3>1. [q EXCEPT ![j].qty = b][k] = [q[k] EXCEPT !.qty = b]
      BY <2>3, <2>4
    <3>2. [q[k] EXCEPT !.qty = b] = [slot |-> s[k], id |-> i[s[k]], qty |-> b]
      BY <2>1
    <3> QED
      BY <2>2, <2>4, <3>1, <3>2
  <2>5. CASE k # j
    <3>1. [q EXCEPT ![j].qty = b][k] = q[k]
      BY <2>3, <2>5
    <3>2. s[k] \in Slots /\ s[k] # s[j]
      BY <2>1, <2>5 DEF Entries, OneToOne
    <3>3. g[s[k]] = f[s[k]]
      BY <3>2 DEF SameBut
    <3> QED
      BY <2>1, <2>2, <3>1, <3>3
  <2> QED
    BY <2>4, <2>5
<1>4. p = [k \in 1 .. n |-> p[k]]
  BY <1>2
<1>5. [q EXCEPT ![j].qty = b] = [k \in 1 .. n |-> [q EXCEPT ![j].qty = b][k]]
  <2>1. DOMAIN q = 1 .. n
    BY <1>1
  <2> QED
    BY <2>1
<1> QED
  BY <1>3, <1>4, <1>5

Without(q, j) == SubSeq(q, 1, j - 1) \o SubSeq(q, j + 1, Len(q))

(* A queue without its j-th order.                                         *)
LEMMA WithoutIs ==
  ASSUME NEW A, NEW q \in Seq(A), NEW i \in 1 .. Len(q)
  PROVE  /\ Without(q, i) \in Seq(A) /\ Len(Without(q, i)) = Len(q) - 1
         /\ \A k \in 1 .. Len(q) - 1 : Without(q, i)[k] = IF k < i THEN q[k] ELSE q[k + 1]
<1> DEFINE a == SubSeq(q, 1, i - 1)
           b == SubSeq(q, i + 1, Len(q))
<1>1. a \in Seq(A) /\ Len(a) = i - 1 /\ \A k \in 1 .. i - 1 : a[k] = q[k]
  OBVIOUS
<1>2. b \in Seq(A) /\ Len(b) = Len(q) - i /\ \A k \in 1 .. Len(q) - i : b[k] = q[i + k]
  OBVIOUS
<1>3. Len(q) \in Nat /\ i \in Nat
  OBVIOUS
<1>4. Without(q, i) = a \o b
  BY DEF Without
<1> HIDE DEF a, b
<1>5. a \o b \in Seq(A) /\ Len(a \o b) = Len(a) + Len(b)
  <2>1. a \in Seq(A) /\ b \in Seq(A)
    BY <1>1, <1>2
  <2> QED
    BY <2>1
<1>6. ASSUME NEW k \in 1 .. Len(q) - 1
      PROVE  (a \o b)[k] = IF k < i THEN q[k] ELSE q[k + 1]
  <2>1. CASE k < i
    <3>1. k \in 1 .. i - 1 /\ k \in 1 .. Len(a) + Len(b) /\ k <= Len(a)
      BY <1>1, <1>2, <1>3, <2>1
    <3>2. (a \o b)[k] = a[k]
      BY <1>1, <1>2, <3>1
    <3> QED
      BY <1>1, <2>1, <3>1, <3>2
  <2>2. CASE ~ (k < i)
    <3>1. k - (i - 1) \in 1 .. Len(q) - i /\ k \in 1 .. Len(a) + Len(b) /\ ~ (k <= Len(a)) /\ i + (k - (i - 1)) = k + 1
      BY <1>1, <1>2, <1>3, <2>2
    <3>2. (a \o b)[k] = b[k - (i - 1)]
      BY <1>1, <1>2, <3>1
    <3>3. b[k - (i - 1)] = q[k + 1]
      BY <1>2, <3>1
    <3> QED
      BY <2>2, <3>2, <3>3
  <2> QED
    BY <2>1, <2>2
<1>7. Len(a \o b) = Len(q) - 1
  BY <1>1, <1>2, <1>3, <1>5
<1> QED
  BY <1>4, <1>5, <1>6, <1>7

(* A slot taken out.                                                       *)
LEMMA QueueShortened ==
  ASSUME NEW n \in Nat, NEW s, NEW i, NEW f, NEW q, IsQueueAs(q, s, n, i, f),
         NEW h, NEW g, NEW p, NEW j \in 1 .. n, IsQueueAs(p, Short(s, n, j), n - 1, h, g),
         OneToOne(s, n), SameBut(i, h, s[j]), SameBut(f, g, s[j])
  PROVE  p = Without(q, j)
<1> DEFINE t == Short(s, n, j)
<1>1. /\ q \in Seq(Entries) /\ Len(q) = n
      /\ \A k \in 1 .. n : q[k] = [slot |-> s[k], id |-> i[s[k]], qty |-> f[s[k]]]
  BY DEF IsQueueAs
<1>2. \A k \in 1 .. n - 1 : k \in 1 .. n /\ k + 1 \in 1 .. n
  OBVIOUS
<1>3. \A k \in 1 .. n - 1 : t[k] = IF k < j THEN s[k] ELSE s[k + 1]
  BY DEF Short
<1>4. /\ p \in Seq(Entries) /\ Len(p) = n - 1
      /\ \A k \in 1 .. n - 1 : p[k] = [slot |-> t[k], id |-> h[t[k]], qty |-> g[t[k]]]
  BY DEF IsQueueAs
<1> HIDE DEF t
<1>5. ASSUME NEW l \in 1 .. n, l # j
      PROVE  q[l] = [slot |-> s[l], id |-> h[s[l]], qty |-> g[s[l]]]
  <2>1. q[l] \in Entries /\ q[l] = [slot |-> s[l], id |-> i[s[l]], qty |-> f[s[l]]]
    BY <1>1
  <2>2. s[l] \in Slots /\ s[l] # s[j]
    BY <1>5, <2>1 DEF Entries, OneToOne
  <2>3. h[s[l]] = i[s[l]] /\ g[s[l]] = f[s[l]]
    BY <2>2 DEF SameBut
  <2> QED
    BY <2>1, <2>3
<1>7. /\ Without(q, j) \in Seq(Entries) /\ Len(Without(q, j)) = n - 1
      /\ \A k \in 1 .. n - 1 : Without(q, j)[k] = IF k < j THEN q[k] ELSE q[k + 1]
  <2>1. j \in 1 .. Len(q)
    BY <1>1
  <2>2. /\ Without(q, j) \in Seq(Entries) /\ Len(Without(q, j)) = Len(q) - 1
        /\ \A k \in 1 .. Len(q) - 1 : Without(q, j)[k] = IF k < j THEN q[k] ELSE q[k + 1]
    BY <1>1, <2>1, WithoutIs
  <2> QED
    BY <1>1, <2>2
<1>8. ASSUME NEW k \in 1 .. n - 1
      PROVE  p[k] = Without(q, j)[k]
  <2>0. p[k] = [slot |-> t[k], id |-> h[t[k]], qty |-> g[t[k]]]
    BY <1>4
  <2>1. CASE k < j
    <3>1. k \in 1 .. n /\ k # j
      BY <1>2, <2>1
    <3>2. t[k] = s[k] /\ Without(q, j)[k] = q[k]
      BY <1>3, <1>7, <2>1
    <3>3. q[k] = [slot |-> s[k], id |-> h[s[k]], qty |-> g[s[k]]]
      BY <1>5, <3>1
    <3> QED
      BY <2>0, <3>2, <3>3
  <2>2. CASE ~ (k < j)
    <3> DEFINE l == k + 1
    <3>1. l \in 1 .. n /\ l # j
      BY <1>2, <2>2
    <3>2. t[k] = s[l] /\ Without(q, j)[k] = q[l]
      BY <1>3, <1>7, <2>2
    <3> HIDE DEF l
    <3>3. q[l] = [slot |-> s[l], id |-> h[s[l]], qty |-> g[s[l]]]
      BY <1>5, <3>1
    <3> QED
      BY <2>0, <3>2, <3>3
  <2> QED
    BY <2>1, <2>2
<1>9. Len(p) = Len(Without(q, j)) /\ \A k \in 1 .. Len(p) : p[k] = Without(q, j)[k]
  BY <1>4, <1>7, <1>8
<1> QED
  BY <1>4, <1>7, <1>9, SameSeq

(* The tail of a queue is the queue without its first order.               *)
LEMMA TailIsWithout ==
  ASSUME NEW A, NEW q \in Seq(A), q # <<>>
  PROVE  Tail(q) = Without(q, 1)
<1>1. 1 \in 1 .. Len(q) /\ Len(q) \in Nat
  OBVIOUS
<1>2. Len(Tail(q)) = Len(Without(q, 1)) /\ Tail(q) \in Seq(A) /\ Without(q, 1) \in Seq(A)
      /\ \A k \in 1 .. Len(q) - 1 : Tail(q)[k] = Without(q, 1)[k]
  BY <1>1, WithoutIs
<1> QED
  BY <1>1, <1>2

-----------------------------------------------------------------------------
(* The linked level implements the abstract one.                           *)

(* The queue, before a step and after it.                                  *)
LEMMA QueueIs ==
  ASSUME IInv
  PROVE  /\ Queue = QueueAs(Listed, links.size, id, qty)
         /\ IsQueueAs(Queue, Listed, links.size, id, qty)
         /\ links.size \in Nat /\ Listed \in [1 .. links.size -> Slots]
         /\ OneToOne(Listed, links.size)
         /\ id \in [Slots -> Ids \cup {0}] /\ qty \in [Slots -> Nat]
<1>1. links.size \in Nat /\ IsRing(links, Listed) /\ id \in [Slots -> Ids \cup {0}] /\ qty \in [Slots -> Nat]
  BY Apart
<1>2. Listed \in [1 .. links.size -> Slots] /\ OneToOne(Listed, links.size)
  BY DEF IInv, IsRing, OneToOne
<1>3. Queue = QueueAs(Listed, links.size, id, qty)
  BY <1>2 DEF Queue, QueueAs
<1>4. IsQueueAs(Queue, Listed, links.size, id, qty)
  BY <1>1, <1>2, <1>3, QueueAsIs, Zenon
<1> QED
  BY <1>1, <1>2, <1>3, <1>4

(* The queue after a step.                                                 *)
LEMMA QueueAfter ==
  ASSUME IInv', NEW n, links'.size = n, NEW s, Listed' = s
  PROVE  IsQueueAs(Queue', s, n, id', qty')
<1>1. Listed' \in [1 .. links'.size -> Slots]
  BY DEF IInv, IsRing
<1>2. Queue' = QueueAs(s, n, id', qty')
  BY <1>1 DEF Queue, QueueAs
<1>3. id' \in [Slots -> Ids \cup {0}] /\ qty' \in [Slots -> Nat] /\ n \in Nat
  BY Constants DEF IInv, TypeOK, InvalidOrderId
<1> QED
  BY <1>1, <1>2, <1>3, QueueAsIs

(* The level as the abstract operations see it.                            *)
LEMMA AbstractIs ==
  ASSUME IInv
  PROVE  /\ Abstract!level.fifo = Queue /\ Abstract!level.total = total
         /\ Abstract!Indices(Abstract!level) = 1 .. links.size
         /\ {Queue[k].slot : k \in 1 .. links.size} = Held
         /\ \A orderId \in Ids : Abstract!SlotsOf(Abstract!level, orderId) = {slot \in Slots : id[slot] = orderId}
         /\ \A k \in 1 .. links.size : Abstract!PlaceOf(Abstract!level, Listed[k]) = k
<1> DEFINE s == Listed
           n == links.size
           q == Queue
<1>1. /\ n \in Nat /\ s \in [1 .. n -> Slots] /\ \A j, k \in 1 .. n : s[j] = s[k] => j = k
      /\ DOMAIN q = 1 .. n
      /\ \A k \in 1 .. n : q[k] = [slot |-> s[k], id |-> id[s[k]], qty |-> qty[s[k]]]
  BY QueueIs DEF IsQueueAs, OneToOne
<1>2. Held = SlotsIn(s, n)
  BY Apart
<1>3. Abstract!level.fifo = q /\ Abstract!level.total = total
  BY DEF Abstract!level
<1>4. Abstract!Indices(Abstract!level) = 1 .. n
  BY <1>1, <1>3 DEF Abstract!Indices
<1> HIDE DEF s, n, q
<1>5. {q[k].slot : k \in 1 .. n} = Held
  BY <1>1, <1>2 DEF SlotsIn
<1>6. ASSUME NEW orderId \in Ids
      PROVE  Abstract!SlotsOf(Abstract!level, orderId) = {slot \in Slots : id[slot] = orderId}
  <2>1. Abstract!SlotsOf(Abstract!level, orderId) = {q[i].slot : i \in {j \in 1 .. n : q[j].id = orderId}}
    BY <1>3, <1>4 DEF Abstract!SlotsOf
  <2>2. ASSUME NEW slot \in Slots, id[slot] = orderId
        PROVE  slot \in {q[i].slot : i \in {j \in 1 .. n : q[j].id = orderId}}
    <3>1. slot \in Held
      BY <2>2, Constants DEF Held, InvalidOrderId
    <3>2. PICK k \in 1 .. n : slot = s[k]
      BY <1>2, <3>1 DEF SlotsIn
    <3> QED
      BY <1>1, <2>2, <3>2
  <2>3. ASSUME NEW slot, slot \in {q[i].slot : i \in {j \in 1 .. n : q[j].id = orderId}}
        PROVE  slot \in Slots /\ id[slot] = orderId
    BY <1>1, <2>3
  <2> QED
    BY <2>1, <2>2, <2>3
<1>7. ASSUME NEW k \in 1 .. n
      PROVE  Abstract!PlaceOf(Abstract!level, s[k]) = k
  <2>1. \A i \in 1 .. n : q[i].slot = s[k] <=> i = k
    BY <1>1
  <2>2. Abstract!PlaceOf(Abstract!level, s[k]) = CHOOSE i \in 1 .. n : q[i].slot = s[k]
    BY <1>3, <1>4 DEF Abstract!PlaceOf
  <2> QED
    BY <2>1, <2>2
<1> QED
  BY <1>3, <1>4, <1>5, <1>6, <1>7 DEF s, n, q

(* Every operation is the one of the abstract level, or its refusal.       *)
LEMMA PushImplements ==
  ASSUME IInv, NEW side \in Sides, NEW newId \in Ids, NEW newQty \in Qtys, Push(side, newId, newQty)
  PROVE  \E slot \in Slots : Abstract!Push(side, newId, newQty, slot)
<1> DEFINE n == links.size
           s == Listed
<1>1. IInv'
  BY PushKeeps
<1>2. PICK slot \in Slots \ Held :
              /\ slot = FirstProbed(newId, Slots \ Held)
              /\ Listed' = Long(Listed, links.size, slot) /\ links'.size = links.size + 1
              /\ id' = [id EXCEPT ![slot] = newId] /\ qty' = [qty EXCEPT ![slot] = newQty]
              /\ total' = total + side * newQty /\ Called(newId, slot)
  BY PushKeeps
<1>3. n \in Nat /\ s \in [1 .. n -> Slots] /\ id \in [Slots -> Ids \cup {0}] /\ qty \in [Slots -> Nat]
      /\ IsQueueAs(Queue, s, n, id, qty) /\ Len(Queue) = n
  BY QueueIs DEF IsQueueAs
<1>4. Held = SlotsIn(s, n) /\ newQty \in Nat
  BY Apart, Constants
<1>5. IsQueueAs(Queue', Long(s, n, slot), n + 1, id', qty')
  BY <1>1, <1>2, QueueAfter
<1> HIDE DEF n, s
<1>6. \A k \in 1 .. n : s[k] # slot
  BY <1>2, <1>4 DEF SlotsIn
<1>7. Queue' = Append(Queue, [slot |-> slot, id |-> newId, qty |-> newQty])
  <2>1. id'[slot] = newId /\ qty'[slot] = newQty
        /\ SameBut(id, id', slot) /\ SameBut(qty, qty', slot) /\ slot \in Slots
    BY <1>2, <1>3 DEF SameBut
  <2> QED
    BY <1>3, <1>5, <1>6, <2>1, QueueAppended
<1>8. side * total >= 0 /\ n # MaxOrders
  BY DEF Push, IsFull, n
<1>9. ~ Abstract!Full(Abstract!level)
  BY <1>3, <1>8, AbstractIs DEF Abstract!Full
<1>10. slot = Abstract!PushSlot(Abstract!level, newId)
  <2>1. Abstract!FreeSlots(Abstract!level) = Slots \ Held
    <3>1. Abstract!FreeSlots(Abstract!level) = Slots \ {Queue[k].slot : k \in 1 .. links.size}
      BY AbstractIs DEF Abstract!FreeSlots, Abstract!Slots, Slots
    <3> QED
      BY <3>1, AbstractIs
  <2>2. Abstract!FirstProbed(newId, Slots \ Held) = FirstProbed(newId, Slots \ Held)
    BY Zenon DEF Abstract!FirstProbed, FirstProbed, Abstract!ProbeSlot, ProbeSlot, Abstract!Slots, Slots
  <2> QED
    BY <1>2, <2>1, <2>2 DEF Abstract!PushSlot
<1>11. Abstract!Becomes(Abstract!PushAt(side, Abstract!level, newId, newQty, slot))
  BY <1>2, <1>7, AbstractIs DEF Abstract!Becomes, Abstract!PushAt
<1>12. Abstract!Called(newId, slot)
  BY <1>2 DEF Called, Abstract!Called
<1> QED
  BY <1>2, <1>8, <1>9, <1>10, <1>11, <1>12 DEF Abstract!Push

(* An order changed.                                                       *)
LEMMA ChangeImplements ==
  ASSUME IInv, NEW side \in Sides, side * total > 0, NEW orderId \in Ids, NEW newQty \in Qtys,
         NEW slot \in Slots, id[slot] = orderId, Change(side, orderId, newQty, slot)
  PROVE  Abstract!Update(side, orderId, newQty)
<1> DEFINE n == links.size
           s == Listed
<1>1. IInv' /\ Listed' = Listed /\ slot \in Held
  BY ChangeKeeps
<1>2. /\ qty' = [qty EXCEPT ![slot] = newQty] /\ total' = total - side * qty[slot] + side * newQty
      /\ Called(orderId, Done) /\ links' = links /\ id' = id
  BY DEF Change
<1>3. n \in Nat /\ s \in [1 .. n -> Slots] /\ id \in [Slots -> Ids \cup {0}] /\ qty \in [Slots -> Nat]
      /\ Queue = QueueAs(s, n, id, qty) /\ IsQueueAs(Queue, s, n, id, qty)
      /\ OneToOne(s, n)
  BY QueueIs
<1>4. newQty \in Nat
  BY Constants
<1>5. PICK i \in 1 .. n : slot = s[i]
  BY <1>1, PlaceOfHeld
<1>6. IsQueueAs(Queue', s, n, id, qty')
  BY <1>1, <1>2, QueueAfter
<1>7. Abstract!PlaceOf(Abstract!level, slot) = i
  BY <1>5, AbstractIs
<1> HIDE DEF n, s
<1>8. Queue' = [Queue EXCEPT ![i].qty = newQty]
  <2>1. qty'[s[i]] = newQty /\ SameBut(qty, qty', s[i])
    BY <1>2, <1>3, <1>5 DEF SameBut
  <2> QED
    BY <1>3, <1>5, <1>6, <2>1, QueueChanged
<1>9. Queue[i].qty = qty[slot]
  BY <1>3, <1>5 DEF IsQueueAs
<1>10. slot \in Abstract!SlotsOf(Abstract!level, orderId)
  BY AbstractIs
<1>11. Abstract!Becomes(Abstract!UpdateAt(side, Abstract!level, newQty, slot))
  BY <1>2, <1>7, <1>8, <1>9, AbstractIs DEF Abstract!Becomes, Abstract!UpdateAt
<1>12. Abstract!Called(orderId, Abstract!Done)
  BY <1>2 DEF Called, Abstract!Called, Done, Abstract!Done
<1> QED
  BY <1>10, <1>11, <1>12 DEF Abstract!Update

(* An order cancelled.                                                     *)
LEMMA RemoveImplements ==
  ASSUME IInv, NEW side \in Sides, side * total > 0, NEW orderId \in Ids,
         NEW slot \in Slots, id[slot] = orderId, Remove(side, orderId, slot)
  PROVE  Abstract!Cancel(side, orderId)
<1> DEFINE n == links.size
           s == Listed
<1>1. slot \in Held
  BY Constants DEF Held, InvalidOrderId
<1>2. PICK i \in 1 .. n : slot = s[i]
  BY <1>1, PlaceOfHeld
<1>3. IInv' /\ Listed' = Short(s, n, i) /\ links'.size = n - 1
  BY <1>2, RemoveKeeps
<1>4. /\ id' = [id EXCEPT ![slot] = 0] /\ total' = total - side * qty[slot]
      /\ Called(orderId, Done) /\ qty' = qty
  BY DEF Remove, InvalidOrderId
<1>5. n \in Nat /\ s \in [1 .. n -> Slots] /\ id \in [Slots -> Ids \cup {0}] /\ qty \in [Slots -> Nat]
      /\ Queue = QueueAs(s, n, id, qty) /\ IsQueueAs(Queue, s, n, id, qty)
      /\ OneToOne(s, n)
  BY QueueIs
<1>6. IsQueueAs(Queue', Short(s, n, i), n - 1, id', qty')
  BY <1>3, QueueAfter
<1>7. Abstract!PlaceOf(Abstract!level, slot) = i
  BY <1>2, AbstractIs
<1> HIDE DEF n, s
<1>8. Queue' = Without(Queue, i)
  <2>1. SameBut(id, id', s[i]) /\ SameBut(qty, qty', s[i])
    BY <1>2, <1>4, <1>5 DEF SameBut
  <2> QED
    BY <1>2, <1>5, <1>6, <2>1, QueueShortened
<1>9. Queue[i].qty = qty[slot]
  BY <1>2, <1>5 DEF IsQueueAs
<1>10. slot \in Abstract!SlotsOf(Abstract!level, orderId)
  BY AbstractIs
<1>11. Abstract!Becomes(Abstract!CancelAt(side, Abstract!level, slot))
  <2>1. Abstract!CancelAt(side, Abstract!level, slot) = [total |-> total - side * qty[slot], fifo |-> Without(Queue, i)]
    BY <1>7, <1>9, AbstractIs DEF Abstract!CancelAt, Without
  <2> QED
    BY <1>4, <1>8, <2>1 DEF Abstract!Becomes
<1>12. Abstract!Called(orderId, Abstract!Done)
  BY <1>4 DEF Called, Abstract!Called, Done, Abstract!Done
<1> QED
  BY <1>10, <1>11, <1>12 DEF Abstract!Cancel

(* An identifier that is not found.                                        *)
LEMMA UnknownImplements ==
  ASSUME IInv, NEW side \in Sides, side * total > 0, NEW orderId \in Ids,
         {slot \in Slots : id[slot] = orderId} = {}, Refuse(orderId, UnknownId)
  PROVE  Abstract!Refuse(side, orderId)
<1>1. Abstract!SlotsOf(Abstract!level, orderId) = {}
  BY AbstractIs
<1>2. Abstract!Called(orderId, Abstract!UnknownId) /\ UNCHANGED <<links, id, qty, total>>
  BY DEF Refuse, Called, Abstract!Called, UnknownId, Abstract!UnknownId
<1>3. UNCHANGED <<total, Queue>>
  BY <1>2 DEF Queue, Listed
<1> QED
  BY <1>1, <1>2, <1>3 DEF Abstract!Refuse

(* A slot that another order has, or none.                                 *)
LEMMA OtherImplements ==
  ASSUME IInv, NEW side \in Sides, side * total > 0, NEW orderId \in Ids,
         NEW slot \in Slots, id[slot] # orderId, Refuse(orderId, OtherInSlot)
  PROVE  Abstract!Refuse(side, orderId)
<1>1. Abstract!SlotsOf(Abstract!level, orderId) # Abstract!Slots
  <2>1. slot \notin Abstract!SlotsOf(Abstract!level, orderId)
    BY AbstractIs
  <2> QED
    BY <2>1 DEF Slots, Abstract!Slots
<1>2. Abstract!Called(orderId, Abstract!OtherInSlot) /\ UNCHANGED <<links, id, qty, total>>
  BY DEF Refuse, Called, Abstract!Called, OtherInSlot, Abstract!OtherInSlot
<1>3. UNCHANGED <<total, Queue>>
  BY <1>2 DEF Queue, Listed
<1> QED
  BY <1>1, <1>2, <1>3 DEF Abstract!Refuse

(* Any update.                                                             *)
LEMMA UpdateImplements ==
  ASSUME IInv, NEW side \in Sides, NEW orderId \in Ids, NEW newQty \in Qtys,
         Update(side, orderId, newQty) \/ \E slot \in Slots : UpdateSlot(side, orderId, newQty, slot)
  PROVE  Abstract!Update(side, orderId, newQty) \/ Abstract!Refuse(side, orderId)
<1> DEFINE match == {slot \in Slots : id[slot] = orderId}
           found == FirstProbed(orderId, match)
<1>1. side * total > 0
  BY DEF Update, UpdateSlot, HasOrders
<1>2. CASE Update(side, orderId, newQty)
  <2>1. /\ match # {} => Change(side, orderId, newQty, found)
        /\ match = {} => Refuse(orderId, UnknownId)
    BY <1>2 DEF Update
  <2>2. match # {} => found \in Slots /\ id[found] = orderId
    BY FoundSlot
  <2> HIDE DEF found
  <2>3. CASE match # {}
    BY <1>1, <2>1, <2>2, <2>3, ChangeImplements
  <2>4. CASE match = {}
    BY <1>1, <2>1, <2>4, UnknownImplements
  <2> QED
    BY <2>3, <2>4
<1>3. ASSUME NEW slot \in Slots, UpdateSlot(side, orderId, newQty, slot)
      PROVE  Abstract!Update(side, orderId, newQty) \/ Abstract!Refuse(side, orderId)
  <2>1. CASE id[slot] = orderId
    BY <1>1, <1>3, <2>1, ChangeImplements DEF UpdateSlot
  <2>2. CASE id[slot] # orderId
    BY <1>1, <1>3, <2>2, OtherImplements DEF UpdateSlot
  <2> QED
    BY <2>1, <2>2
<1> QED
  BY <1>2, <1>3

(* Any cancel.                                                             *)
LEMMA CancelImplements ==
  ASSUME IInv, NEW side \in Sides, NEW orderId \in Ids,
         Cancel(side, orderId) \/ \E slot \in Slots : CancelSlot(side, orderId, slot)
  PROVE  Abstract!Cancel(side, orderId) \/ Abstract!Refuse(side, orderId)
<1> DEFINE match == {slot \in Slots : id[slot] = orderId}
           found == FirstProbed(orderId, match)
<1>1. side * total > 0
  BY DEF Cancel, CancelSlot, HasOrders
<1>2. CASE Cancel(side, orderId)
  <2>1. /\ match # {} => Remove(side, orderId, found)
        /\ match = {} => Refuse(orderId, UnknownId)
    BY <1>2 DEF Cancel
  <2>2. match # {} => found \in Slots /\ id[found] = orderId
    BY FoundSlot
  <2> HIDE DEF found
  <2>3. CASE match # {}
    BY <1>1, <2>1, <2>2, <2>3, RemoveImplements
  <2>4. CASE match = {}
    BY <1>1, <2>1, <2>4, UnknownImplements
  <2> QED
    BY <2>3, <2>4
<1>3. ASSUME NEW slot \in Slots, CancelSlot(side, orderId, slot)
      PROVE  Abstract!Cancel(side, orderId) \/ Abstract!Refuse(side, orderId)
  <2>1. CASE id[slot] = orderId
    BY <1>1, <1>3, <2>1, RemoveImplements DEF CancelSlot
  <2>2. CASE id[slot] # orderId
    BY <1>1, <1>3, <2>2, OtherImplements DEF CancelSlot
  <2> QED
    BY <2>1, <2>2
<1> QED
  BY <1>2, <1>3

(* The first order of the queue.                                           *)
LEMMA QueueFront ==
  ASSUME IInv, 1 \in 1 .. links.size
  PROVE  /\ Abstract!Front(Abstract!level) = [slot |-> Listed[1], id |-> id[Listed[1]], qty |-> qty[Listed[1]]]
         /\ Queue \in Seq(Entries) /\ Queue # <<>> /\ Tail(Queue) = Without(Queue, 1)
<1>1. /\ Queue \in Seq(Entries) /\ Len(Queue) = links.size
      /\ Queue[1] = [slot |-> Listed[1], id |-> id[Listed[1]], qty |-> qty[Listed[1]]]
  BY QueueIs DEF IsQueueAs
<1>2. Queue # <<>>
  BY <1>1
<1>3. Head(Queue) = Queue[1]
  BY <1>1, <1>2
<1>4. Tail(Queue) = Without(Queue, 1)
  BY <1>1, <1>2, TailIsWithout
<1>5. Abstract!Front(Abstract!level) = Head(Queue)
  BY AbstractIs DEF Abstract!Front
<1> QED
  BY <1>1, <1>2, <1>3, <1>4, <1>5

(* A fill, which changes the first order or takes it out.                  *)
LEMMA FillImplements ==
  ASSUME IInv, NEW side \in Sides, NEW takerQty \in Qtys, Fill(side, takerQty)
  PROVE  Abstract!Fill(side, takerQty)
<1> DEFINE n == links.size
           s == Listed
           front == Listed[1]
           min == IF takerQty < qty[front] THEN takerQty ELSE qty[front]
<1>1. /\ IInv' /\ side * total < 0 /\ 1 \in 1 .. n
      /\ qty' = [qty EXCEPT ![front] = qty[front] - min] /\ total' = total + side * min
      /\ \/ /\ qty[front] = min /\ Listed' = Short(s, n, 1)
            /\ links'.size = n - 1 /\ id' = [id EXCEPT ![front] = 0]
         \/ qty[front] # min /\ Listed' = s /\ links'.size = n /\ id' = id
  BY FillKeeps DEF InvalidOrderId
<1>2. n \in Nat /\ s \in [1 .. n -> Slots] /\ id \in [Slots -> Ids \cup {0}] /\ qty \in [Slots -> Nat]
      /\ IsQueueAs(Queue, s, n, id, qty) /\ OneToOne(s, n)
  BY QueueIs
<1>3. /\ Abstract!Front(Abstract!level) = [slot |-> front, id |-> id[front], qty |-> qty[front]]
      /\ Tail(Queue) = Without(Queue, 1)
  BY <1>1, QueueFront
<1>4. call' = NoCall
  BY DEF Fill
<1>5. front = s[1] /\ front \in Slots /\ qty[front] \in Nat /\ takerQty \in Nat
  BY <1>1, <1>2, Constants
<1> HIDE DEF n, s, front
<1>6. min \in Nat /\ qty[front] - min \in Nat
  BY <1>5
<1>7. (IF takerQty < Abstract!Front(Abstract!level).qty THEN takerQty ELSE Abstract!Front(Abstract!level).qty) = min
  BY <1>3
<1> HIDE DEF min
<1>8. Queue' = IF qty[front] = min THEN Tail(Queue) ELSE [Queue EXCEPT ![1].qty = qty[front] - min]
  <2>1. CASE qty[front] = min
    <3>1. Listed' = Short(s, n, 1) /\ links'.size = n - 1 /\ id' = [id EXCEPT ![front] = 0]
      BY <1>1, <2>1
    <3>2. IsQueueAs(Queue', Short(s, n, 1), n - 1, id', qty')
      BY <1>1, <3>1, QueueAfter
    <3>3. SameBut(id, id', s[1]) /\ SameBut(qty, qty', s[1])
      BY <1>1, <1>2, <1>5, <3>1 DEF SameBut
    <3>4. Queue' = Without(Queue, 1)
      BY <1>1, <1>2, <3>2, <3>3, QueueShortened
    <3> QED
      BY <1>3, <2>1, <3>4
  <2>2. CASE qty[front] # min
    <3>1. Listed' = s /\ links'.size = n /\ id' = id
      BY <1>1, <2>2
    <3>2. IsQueueAs(Queue', s, n, id, qty')
      BY <1>1, <3>1, QueueAfter
    <3>3. qty'[s[1]] = qty[front] - min /\ SameBut(qty, qty', s[1])
      BY <1>1, <1>2, <1>5, <1>6 DEF SameBut
    <3>4. Queue' = [Queue EXCEPT ![1].qty = qty[front] - min]
      <4> DEFINE b == qty[front] - min
      <4>1. 1 \in 1 .. n /\ qty'[s[1]] = b
        BY <1>1, <3>3
      <4> HIDE DEF b
      <4>2. Queue' = [Queue EXCEPT ![1].qty = b]
        BY <1>2, <3>2, <3>3, <4>1, QueueChanged
      <4> QED
        BY <4>2 DEF b
    <3> QED
      BY <2>2, <3>4
  <2> QED
    BY <2>1, <2>2
<1>9. Abstract!Becomes(Abstract!FillFront(side, Abstract!level, min))
  <2>1. Abstract!FillFront(side, Abstract!level, min)
          = [total |-> total + side * min,
             fifo |-> IF qty[front] = min THEN Tail(Queue) ELSE [Queue EXCEPT ![1].qty = qty[front] - min]]
    <3>1. Abstract!Front(Abstract!level).qty = qty[front]
      BY <1>3
    <3>2. Abstract!level.fifo = Queue /\ Abstract!level.total = total
      BY AbstractIs
    <3> QED
      BY <3>1, <3>2, Zenon DEF Abstract!FillFront
  <2> QED
    BY <1>1, <1>8, <2>1 DEF Abstract!Becomes
<1>10. call' = Abstract!NoCall
  BY <1>4 DEF NoCall, Abstract!NoCall, InvalidOrderId, Done, Abstract!Done
<1> QED
  BY <1>1, <1>7, <1>9, <1>10 DEF Abstract!Fill

(* The oldest order dropped.                                               *)
LEMMA ExpireImplements ==
  ASSUME IInv, NEW side \in Sides, Expire(side)
  PROVE  Abstract!Expire(side)
<1> DEFINE n == links.size
           s == Listed
           front == Listed[1]
<1>1. /\ IInv' /\ side * total > 0 /\ 1 \in 1 .. n
      /\ Listed' = Short(s, n, 1) /\ links'.size = n - 1
      /\ total' = total - side * qty[front] /\ qty' = qty /\ id' = [id EXCEPT ![front] = 0]
  BY ExpireKeeps DEF InvalidOrderId
<1>2. n \in Nat /\ s \in [1 .. n -> Slots] /\ id \in [Slots -> Ids \cup {0}] /\ qty \in [Slots -> Nat]
      /\ IsQueueAs(Queue, s, n, id, qty) /\ OneToOne(s, n)
  BY QueueIs
<1>3. /\ Abstract!Front(Abstract!level) = [slot |-> front, id |-> id[front], qty |-> qty[front]]
      /\ Tail(Queue) = Without(Queue, 1)
  BY <1>1, QueueFront
<1>4. IsQueueAs(Queue', Short(s, n, 1), n - 1, id', qty')
  BY <1>1, QueueAfter
<1>5. front = s[1]
  OBVIOUS
<1> HIDE DEF n, s, front
<1>6. Queue' = Tail(Queue)
  <2>1. SameBut(id, id', s[1]) /\ SameBut(qty, qty', s[1])
    BY <1>1, <1>2, <1>5 DEF SameBut
  <2>2. Queue' = Without(Queue, 1)
    BY <1>1, <1>2, <1>4, <2>1, QueueShortened
  <2> QED
    BY <1>3, <2>2
<1>7. Abstract!Becomes(Abstract!PopFront(side, Abstract!level))
  <2>1. Abstract!PopFront(side, Abstract!level) = [total |-> total - side * qty[front], fifo |-> Tail(Queue)]
    <3>1. Abstract!Front(Abstract!level).qty = qty[front]
      BY <1>3
    <3>2. Abstract!level.fifo = Queue /\ Abstract!level.total = total
      BY AbstractIs
    <3> QED
      BY <3>1, <3>2, Zenon DEF Abstract!PopFront
  <2> QED
    BY <1>1, <1>6, <2>1 DEF Abstract!Becomes
<1>8. call' = Abstract!NoCall
  BY DEF Expire, NoCall, Abstract!NoCall, InvalidOrderId, Done, Abstract!Done
<1> QED
  BY <1>1, <1>7, <1>8 DEF Abstract!Expire

(* The new level is the new queue.                                         *)
LEMMA InitImplements == Init => Abstract!Init
<1> SUFFICES ASSUME Init
             PROVE  Abstract!Init
  OBVIOUS
<1>1. IInv
  BY InitSound
<1>2. links.size = 0 /\ total = 0 /\ call = NoCall
  BY NewIsRing DEF Init
<1>3. Queue \in Seq(Entries) /\ Len(Queue) = 0
  BY <1>1, <1>2, QueueIs DEF IsQueueAs
<1>4. Queue = <<>>
  BY <1>3
<1>5. Abstract!level = Abstract!NewLevel
  BY <1>2, <1>4 DEF Abstract!level, Abstract!NewLevel
<1>6. call = Abstract!NoCall
  BY <1>2 DEF NoCall, Abstract!NoCall, InvalidOrderId, Done, Abstract!Done
<1> QED
  BY <1>5, <1>6 DEF Abstract!Init

(* Every step of the linked level is a step of the abstract one.           *)
LEMMA StepImplements == IInv /\ [Next]_vars => [Abstract!Next]_Abstract!vars
<1> SUFFICES ASSUME IInv, [Next]_vars
             PROVE  Abstract!Next \/ UNCHANGED Abstract!vars
  OBVIOUS
<1>0. Slots = Abstract!Slots /\ Sides = Abstract!Sides
  BY DEF Slots, Abstract!Slots, Sides, Abstract!Sides, Sell, Abstract!Sell, Buy, Abstract!Buy
<1>1. ASSUME NEW side \in Sides, NEW i \in Ids, NEW q \in Qtys, Push(side, i, q)
      PROVE  Abstract!Next
  <2>1. \E slot \in Slots : Abstract!Push(side, i, q, slot)
    BY <1>1, PushImplements
  <2> QED
    BY <1>0, <2>1 DEF Abstract!Next
<1>2. ASSUME NEW side \in Sides, NEW i \in Ids, NEW q \in Qtys,
             Update(side, i, q) \/ \E slot \in Slots : UpdateSlot(side, i, q, slot)
      PROVE  Abstract!Next
  <2>1. Abstract!Update(side, i, q) \/ Abstract!Refuse(side, i)
    BY <1>2, UpdateImplements
  <2> QED
    BY <1>0, <2>1 DEF Abstract!Next
<1>3. ASSUME NEW side \in Sides, NEW i \in Ids,
             Cancel(side, i) \/ \E slot \in Slots : CancelSlot(side, i, slot)
      PROVE  Abstract!Next
  <2>1. Abstract!Cancel(side, i) \/ Abstract!Refuse(side, i)
    BY <1>3, CancelImplements
  <2> QED
    BY <1>0, <2>1 DEF Abstract!Next
<1>4. ASSUME NEW side \in Sides, NEW q \in Qtys, Fill(side, q)
      PROVE  Abstract!Next
  <2>1. Abstract!Fill(side, q)
    BY <1>4, FillImplements
  <2> QED
    BY <1>0, <2>1 DEF Abstract!Next
<1>5. ASSUME NEW side \in Sides, Expire(side)
      PROVE  Abstract!Next
  <2>1. Abstract!Expire(side)
    BY <1>5, ExpireImplements
  <2> QED
    BY <1>0, <2>1 DEF Abstract!Next
<1>6. CASE UNCHANGED vars
  BY <1>6 DEF vars, Abstract!vars, Queue, Listed
<1>7. CASE Next
  BY <1>1, <1>2, <1>3, <1>4, <1>5, <1>7 DEF Next
<1> QED
  BY <1>6, <1>7

(* The list over a flat array is the queue with slots that the order book  *)
(* is told of: orders keep their order, a new one is behind them all.      *)
THEOREM LevelImplementsQueue == Spec => IsLevel
<1>1. Init => Abstract!Init
  BY InitImplements
<1>2. IInv /\ [Next]_vars => [Abstract!Next]_Abstract!vars
  BY StepImplements
<1> QED
  BY <1>1, <1>2, LevelInvariant, PTL DEF Spec, IsLevel, Abstract!Spec
=============================================================================
