------------------------------ MODULE Bits_proofs ------------------------------
(* Proofs about PriceBits, for any number and width of words, and about    *)
(* Branchless, for every width and for types of both kinds.                *)
EXTENDS MC_Bits, FiniteSetTheorems, WellFoundedInduction, TLAPS

-----------------------------------------------------------------------------
(* Bit numbers, words and offsets.                                         *)

(* A word and an offset make one bit number.                               *)
LEMMA Quotient ==
  ASSUME NEW q \in Int, NEW r \in Offsets
  PROVE  (q * Word + r) \div Word = q /\ (q * Word + r) % Word = r
<1> DEFINE x == q * Word + r
           p == x \div Word
           s == x % Word
<1>1. Word \in Nat \ {0} /\ r \in Int /\ 0 <= r /\ r < Word
  BY PriceBitsAssumption DEF Offsets
<1>2. x \in Int /\ p \in Int /\ s \in 0 .. Word - 1 /\ x = Word * p + s
  <2>1. x \in Int
    BY <1>1
  <2> HIDE DEF x
  <2> QED
    BY <1>1, <2>1
<1>3. (p - q) * Word = r - s
  <2>1. q * Word + r = Word * p + s
    BY <1>2
  <2> HIDE DEF x, p, s
  <2> QED
    BY <1>1, <1>2, <2>1
<1> HIDE DEF x, p, s
<1>4. p - q \in Int /\ -Word < r - s /\ r - s < Word
  BY <1>1, <1>2
<1>5. p - q = 0
  <2> DEFINE d == p - q
  <2>1. d \in Int /\ -Word < d * Word /\ d * Word < Word
    BY <1>3, <1>4
  <2> HIDE DEF d
  <2>2. ~ d >= 1
    BY <1>1, <2>1
  <2>3. ~ d <= -1
    BY <1>1, <2>1
  <2>4. d = 0
    BY <2>1, <2>2, <2>3
  <2> QED
    BY <2>4 DEF d
<1>6. p = q /\ s = r
  <2>1. p = q
    BY <1>2, <1>5
  <2>2. r - s = 0
    BY <1>1, <1>3, <1>5
  <2> QED
    BY <1>1, <1>2, <2>1, <2>2
<1> QED
  BY <1>6 DEF p, s, x

LEMMA SizeIs ==
  /\ Chunks \in Nat \ {0} /\ Word \in Nat \ {0} /\ Chunks * Word \in Nat
  /\ Bits = 0 .. Chunks * Word - 1 /\ Offsets = 0 .. Word - 1 /\ Indices = 0 .. Chunks - 1
BY PriceBitsAssumption DEF Bits, Offsets, Indices

(* Every bit number is of one word and offset of the array.                *)
LEMMA BitHasPlace ==
  ASSUME NEW bit \in Bits
  PROVE  /\ bit \div Word \in Indices /\ bit % Word \in Offsets
         /\ bit = (bit \div Word) * Word + (bit % Word)
<1> DEFINE q == bit \div Word
           r == bit % Word
<1>1. bit \in Nat /\ bit < Chunks * Word /\ Word \in Nat \ {0} /\ Chunks \in Nat
  BY SizeIs
<1>2. q \in Int /\ r \in 0 .. Word - 1 /\ bit = Word * q + r
  BY <1>1
<1>3. Word * q = q * Word
  BY <1>1, <1>2
<1> HIDE DEF q, r
<1>4. q >= 0
  <2>1. SUFFICES ASSUME q <= -1
                 PROVE  FALSE
    BY <1>2
  <2>2. q * Word <= -Word
    BY <1>1, <1>2, <2>1
  <2> QED
    BY <1>1, <1>2, <1>3, <2>2
<1>5. q <= Chunks - 1
  <2>1. SUFFICES ASSUME q >= Chunks
                 PROVE  FALSE
    BY <1>1, <1>2
  <2>2. q * Word >= Chunks * Word
    BY <1>1, <1>2, <2>1
  <2> QED
    BY <1>1, <1>2, <1>3, <2>2
<1>6. q \in Indices /\ r \in Offsets /\ bit = q * Word + r
  BY <1>1, <1>2, <1>3, <1>4, <1>5, SizeIs
<1> QED
  BY <1>6 DEF q, r

(* And each of them makes a bit number.                                    *)
LEMMA PlaceHasBit ==
  ASSUME NEW i \in Indices, NEW off \in Offsets
  PROVE  i * Word + off \in Bits
<1>1. /\ i \in Nat /\ i <= Chunks - 1 /\ off \in Nat /\ off < Word /\ Word \in Nat /\ Chunks \in Nat
  BY SizeIs
<1>2. i * Word \in Nat /\ i * Word <= (Chunks - 1) * Word
  BY <1>1
<1>3. (Chunks - 1) * Word = Chunks * Word - Word /\ Chunks * Word \in Nat
  BY <1>1
<1> QED
  BY <1>1, <1>2, <1>3, SizeIs

Arrays == [Indices -> SUBSET Offsets]
MembersOf(d) == {bit \in Bits : bit % Word \in d[bit \div Word]}

(* A bit is a member when its word has its offset.                         *)
LEMMA MemberIs ==
  ASSUME NEW d, NEW i \in Int, NEW off \in Offsets
  PROVE  i * Word + off \in MembersOf(d) <=> i \in Indices /\ off \in d[i]
<1> DEFINE bit == i * Word + off
<1>1. bit \div Word = i /\ bit % Word = off
  BY Quotient
<1>2. bit \in Bits <=> i \in Indices
  BY <1>1, BitHasPlace, PlaceHasBit
<1> HIDE DEF bit
<1>3. bit \in MembersOf(d) <=> i \in Indices /\ off \in d[i]
  BY <1>1, <1>2 DEF MembersOf
<1> QED
  BY <1>3 DEF bit

LEMMA MembersAre == Members = MembersOf(data) /\ Members' = MembersOf(data')
BY DEF Members, MembersOf

-----------------------------------------------------------------------------
(* Sets of naturals.                                                       *)

(* A set of naturals with an element has a least one.                      *)
LEMMA Least ==
  ASSUME NEW S \in SUBSET Nat, S # {}
  PROVE  \E m \in S : \A n \in S : m <= n
<1> DEFINE R == StrictSubsetOrdering(Nat)
           T == {0 .. m : m \in S}
<1>1. IsWellFoundedOn(R, FiniteSubsetsOf(Nat))
  BY FS_StrictSubsetOrderingWellFounded
<1>2. T \subseteq FiniteSubsetsOf(Nat) /\ T # {}
  <2>1. \A m \in S : IsFiniteSet(0 .. m) /\ 0 .. m \in SUBSET Nat
    BY FS_Interval
  <2>2. T \subseteq FiniteSubsetsOf(Nat)
    BY <2>1 DEF FiniteSubsetsOf
  <2> QED
    BY <2>2
<1>3. \E x \in T : \A y \in T : ~ (<<y, x>> \in R)
  <2> HIDE DEF R, T
  <2> QED
    BY <1>1, <1>2, WFMin
<1>4. PICK m \in S : \A n \in S : ~ (<<0 .. n, 0 .. m>> \in R)
  <2> HIDE DEF R
  <2> QED
    BY <1>3
<1>5. ASSUME NEW n \in S, n < m
      PROVE  FALSE
  <2>1. 0 .. n \in SUBSET Nat /\ 0 .. m \in SUBSET Nat /\ 0 .. n \subseteq 0 .. m /\ 0 .. n # 0 .. m
    BY <1>5
  <2>2. <<0 .. n, 0 .. m>> \in R
    BY <2>1 DEF StrictSubsetOrdering
  <2> QED
    BY <1>4, <2>2
<1> HIDE DEF R, T
<1> QED
  BY <1>5

(* Induction up to n, for a set instead of a predicate.                    *)
LEMMA UpTo ==
  ASSUME NEW n \in Nat, NEW S, 0 \in S, \A k \in 0 .. n - 1 : k \in S => k + 1 \in S
  PROVE  \A k \in 0 .. n : k \in S
<1> SUFFICES ASSUME (0 .. n) \ S # {}
             PROVE  FALSE
  OBVIOUS
<1>1. PICK m \in (0 .. n) \ S : \A k \in (0 .. n) \ S : m <= k
  <2>1. (0 .. n) \ S \in SUBSET Nat
    OBVIOUS
  <2> QED
    BY <2>1, Least
<1>2. m - 1 \in 0 .. n - 1 /\ m - 1 \in S
  BY <1>1
<1> QED
  BY <1>1, <1>2

(* Sets of bit numbers with the same bits in every word are the same.      *)
LEMMA SameBits ==
  ASSUME NEW S \in SUBSET Bits, NEW T \in SUBSET Bits,
         \A i \in Indices, off \in Offsets : i * Word + off \in S <=> i * Word + off \in T
  PROVE  S = T
<1>1. ASSUME NEW bit \in Bits
      PROVE  bit \in S <=> bit \in T
  <2>1. PICK i \in Indices, off \in Offsets : bit = i * Word + off
    BY BitHasPlace
  <2> QED
    BY <2>1
<1> QED
  BY <1>1

-----------------------------------------------------------------------------
(* The shift loops.                                                        *)

(* A shifted word has the bits that were n places away in it.              *)
LEMMA ShiftedWord ==
  ASSUME NEW word \in SUBSET Offsets, NEW n \in 0 .. Word - 1, NEW off \in Offsets
  PROVE  /\ off \in Left(word, n) <=> off - n \in word
         /\ off \in Right(word, n) <=> off + n \in word
<1>1. n % Word = n /\ n \in Int /\ off \in Int /\ word \in SUBSET Int
  BY SizeIs
<1>2. off \in Left(word, n) <=> \E o \in word : off = o + n
  BY <1>1 DEF Left
<1>3. off \in Right(word, n) <=> \E o \in word : off = o - n
  BY <1>1 DEF Right
<1>4. off - n \in word => off = (off - n) + n
  BY <1>1
<1>5. off + n \in word => off = (off + n) - n
  BY <1>1
<1>6. \A o \in word : off = o + n => o = off - n
  BY <1>1
<1>7. \A o \in word : off = o - n => o = off + n
  BY <1>1
<1> QED
  BY <1>2, <1>3, <1>4, <1>5, <1>6, <1>7

(* A round of the loops brings a word its bit from n places below or above,*)
(* in the word itself or in the neighbour.                                 *)
LEMMA RoundIs ==
  ASSUME NEW lo \in SUBSET Offsets, NEW hi \in SUBSET Offsets, NEW n \in 1 .. Word,
         NEW off \in Offsets
  PROVE  /\ off \in FromBelow(hi, lo, n) <=>
              IF off >= n THEN off - n \in hi ELSE off - n + Word \in lo
         /\ off \in FromAbove(lo, hi, n) <=>
              IF off + n < Word THEN off + n \in lo ELSE off + n - Word \in hi
<1>1. /\ off \in Int /\ 0 <= off /\ off < Word /\ Word \in Int /\ n \in Int /\ 1 <= n /\ n <= Word
      /\ \A x \in lo \cup hi : x \in Int /\ 0 <= x /\ x < Word
  BY SizeIs
<1>2. CASE n = Word
  <2>1. FromBelow(hi, lo, n) = lo /\ FromAbove(lo, hi, n) = hi
    BY <1>1, <1>2 DEF FromBelow, FromAbove
  <2>2. ~ off >= n /\ ~ off + n < Word /\ off - n + Word = off /\ off + n - Word = off
    BY <1>1, <1>2
  <2> QED
    BY <2>1, <2>2
<1>3. CASE n < Word
  <2> DEFINE m == Word - n
  <2>1. n \in 0 .. Word - 1 /\ m \in 0 .. Word - 1
    BY <1>1, <1>3
  <2>2. /\ FromBelow(hi, lo, n) = Left(hi, n) \cup Right(lo, m)
        /\ FromAbove(lo, hi, n) = Right(lo, n) \cup Left(hi, m)
    BY <1>3 DEF FromBelow, FromAbove
  <2>3. off - n + Word = off + m /\ off + n - Word = off - m
    BY <1>1
  <2>4. /\ off \in Left(hi, n) <=> off - n \in hi
        /\ off \in Right(lo, m) <=> off + m \in lo
        /\ off \in Right(lo, n) <=> off + n \in lo
        /\ off \in Left(hi, m) <=> off - m \in hi
    <3> HIDE DEF m
    <3> QED
      BY <2>1, ShiftedWord
  <2>5. /\ off >= n => ~ off + m < Word
        /\ off < n => ~ off - n >= 0
        /\ off + n < Word => ~ off - m >= 0
        /\ off + n >= Word => ~ off + n < Word
    BY <1>1
  <2>6. /\ off >= n => off + m \notin lo
        /\ off < n => off - n \notin hi
        /\ off + n < Word => off - m \notin hi
        /\ off + n >= Word => off + n \notin lo
    <3> HIDE DEF m
    <3> QED
      BY <1>1, <2>5
  <2>7. (off >= n \/ off < n) /\ (off + n < Word \/ off + n >= Word) /\ ~ (off >= n /\ off < n)
        /\ ~ (off + n < Word /\ off + n >= Word)
    BY <1>1
  <2> HIDE DEF m
  <2> QED
    BY <2>2, <2>3, <2>4, <2>6, <2>7
<1> QED
  BY <1>1, <1>2, <1>3

(* Words that have all gone through a round downwards, the lowest with no  *)
(* neighbour, are the set shifted up.                                      *)
LEMMA BelowShifts ==
  ASSUME NEW d \in Arrays, NEW e \in Arrays, NEW n \in 1 .. Word,
         \A i \in Indices : e[i] = FromBelow(d[i], IF i = 0 THEN {} ELSE d[i - 1], n)
  PROVE  MembersOf(e) = {bit + n : bit \in MembersOf(d)} \cap (0 .. Chunks * Word - 1)
<1> DEFINE S == {bit + n : bit \in MembersOf(d)} \cap (0 .. Chunks * Word - 1)
<1>1. ASSUME NEW i \in Indices, NEW off \in Offsets
      PROVE  i * Word + off \in MembersOf(e) <=> i * Word + off \in S
  <2> DEFINE bit == i * Word + off
             below == IF i = 0 THEN {} ELSE d[i - 1]
  <2>1. /\ i \in Int /\ 0 <= i /\ i <= Chunks - 1 /\ off \in Int /\ 0 <= off /\ off < Word
        /\ n \in Int /\ 1 <= n /\ n <= Word /\ Word \in Nat \ {0} /\ Chunks \in Int
    BY SizeIs
  <2>2. bit \in Int /\ bit \in 0 .. Chunks * Word - 1
    <3>1. bit \in Bits
      BY PlaceHasBit
    <3> HIDE DEF bit
    <3> QED
      BY <3>1, SizeIs
  <2>3. bit \in S <=> bit - n \in MembersOf(d)
    <3>1. \A m \in MembersOf(d) : m \in Int
      BY SizeIs DEF MembersOf
    <3> HIDE DEF bit
    <3> QED
      BY <2>1, <2>2, <3>1
  <2>4. d[i] \in SUBSET Offsets /\ below \in SUBSET Offsets
    <3>1. i = 0 \/ i - 1 \in Indices
      BY <2>1, SizeIs
    <3> QED
      BY <3>1 DEF Arrays
  <2>5. bit \in MembersOf(e) <=> off \in FromBelow(d[i], below, n)
    BY <2>1, MemberIs
  <2> HIDE DEF below
  <2>6. bit \in MembersOf(e) <=> IF off >= n THEN off - n \in d[i] ELSE off - n + Word \in below
    BY <2>4, <2>5, RoundIs
  <2>7. CASE off >= n
    <3>1. off - n \in Offsets /\ bit - n = i * Word + (off - n)
      <4>1. off - n \in Offsets
        BY <2>1, <2>7, SizeIs
      <4> QED
        BY <2>1, <4>1
    <3>2. bit - n \in MembersOf(d) <=> off - n \in d[i]
      BY <2>1, <3>1, MemberIs
    <3> HIDE DEF S
    <3> QED
      BY <2>3, <2>6, <2>7, <3>2
  <2>8. CASE ~ off >= n
    <3>1. off - n + Word \in Offsets /\ i - 1 \in Int /\ bit - n = (i - 1) * Word + (off - n + Word)
      <4>1. off - n + Word \in Offsets /\ i - 1 \in Int
        BY <2>1, <2>8, SizeIs
      <4>2. (i - 1) * Word = i * Word - Word /\ i * Word \in Int
        BY <2>1
      <4> QED
        BY <2>1, <4>1, <4>2
    <3>2. bit - n \in MembersOf(d) <=> i - 1 \in Indices /\ off - n + Word \in d[i - 1]
      BY <3>1, MemberIs
    <3>3. i - 1 \in Indices <=> i # 0
      BY <2>1, SizeIs
    <3>4. off - n + Word \in below <=> i # 0 /\ off - n + Word \in d[i - 1]
      BY DEF below
    <3> HIDE DEF S
    <3> QED
      BY <2>3, <2>6, <2>8, <3>2, <3>3, <3>4
  <2> QED
    BY <2>7, <2>8
<1>2. S \in SUBSET Bits /\ MembersOf(e) \in SUBSET Bits
  BY SizeIs DEF MembersOf
<1> HIDE DEF S
<1>3. MembersOf(e) = S
  BY <1>1, <1>2, SameBits
<1> QED
  BY <1>3 DEF S

(* And upwards likewise.                                                   *)
LEMMA AboveShifts ==
  ASSUME NEW d \in Arrays, NEW e \in Arrays, NEW n \in 1 .. Word,
         \A i \in Indices : e[i] = FromAbove(d[i], IF i = Chunks - 1 THEN {} ELSE d[i + 1], n)
  PROVE  MembersOf(e) = {bit - n : bit \in MembersOf(d)} \cap (0 .. Chunks * Word - 1)
<1> DEFINE S == {bit - n : bit \in MembersOf(d)} \cap (0 .. Chunks * Word - 1)
<1>1. ASSUME NEW i \in Indices, NEW off \in Offsets
      PROVE  i * Word + off \in MembersOf(e) <=> i * Word + off \in S
  <2> DEFINE bit == i * Word + off
             above == IF i = Chunks - 1 THEN {} ELSE d[i + 1]
  <2>1. /\ i \in Int /\ 0 <= i /\ i <= Chunks - 1 /\ off \in Int /\ 0 <= off /\ off < Word
        /\ n \in Int /\ 1 <= n /\ n <= Word /\ Word \in Nat \ {0} /\ Chunks \in Int
    BY SizeIs
  <2>2. bit \in Int /\ bit \in 0 .. Chunks * Word - 1
    <3>1. bit \in Bits
      BY PlaceHasBit
    <3> HIDE DEF bit
    <3> QED
      BY <3>1, SizeIs
  <2>3. bit \in S <=> bit + n \in MembersOf(d)
    <3>1. \A m \in MembersOf(d) : m \in Int
      BY SizeIs DEF MembersOf
    <3> HIDE DEF bit
    <3> QED
      BY <2>1, <2>2, <3>1
  <2>4. d[i] \in SUBSET Offsets /\ above \in SUBSET Offsets
    <3>1. i = Chunks - 1 \/ i + 1 \in Indices
      BY <2>1, SizeIs
    <3> QED
      BY <3>1 DEF Arrays
  <2>5. bit \in MembersOf(e) <=> off \in FromAbove(d[i], above, n)
    BY <2>1, MemberIs
  <2> HIDE DEF above
  <2>6. bit \in MembersOf(e) <=> IF off + n < Word THEN off + n \in d[i] ELSE off + n - Word \in above
    BY <2>4, <2>5, RoundIs
  <2>7. CASE off + n < Word
    <3>1. off + n \in Offsets /\ bit + n = i * Word + (off + n)
      <4>1. off + n \in Offsets
        BY <2>1, <2>7, SizeIs
      <4> QED
        BY <2>1, <4>1
    <3>2. bit + n \in MembersOf(d) <=> off + n \in d[i]
      BY <2>1, <3>1, MemberIs
    <3> HIDE DEF S
    <3> QED
      BY <2>3, <2>6, <2>7, <3>2
  <2>8. CASE ~ off + n < Word
    <3>1. off + n - Word \in Offsets /\ i + 1 \in Int /\ bit + n = (i + 1) * Word + (off + n - Word)
      <4>1. off + n - Word \in Offsets /\ i + 1 \in Int
        BY <2>1, <2>8, SizeIs
      <4>2. (i + 1) * Word = i * Word + Word /\ i * Word \in Int
        BY <2>1
      <4> QED
        BY <2>1, <4>1, <4>2
    <3>2. bit + n \in MembersOf(d) <=> i + 1 \in Indices /\ off + n - Word \in d[i + 1]
      BY <3>1, MemberIs
    <3>3. i + 1 \in Indices <=> i # Chunks - 1
      BY <2>1, SizeIs
    <3>4. off + n - Word \in above <=> i # Chunks - 1 /\ off + n - Word \in d[i + 1]
      BY DEF above
    <3> HIDE DEF S
    <3> QED
      BY <2>3, <2>6, <2>8, <3>2, <3>3, <3>4
  <2> QED
    BY <2>7, <2>8
<1>2. S \in SUBSET Bits /\ MembersOf(e) \in SUBSET Bits
  BY SizeIs DEF MembersOf
<1> HIDE DEF S
<1>3. MembersOf(e) = S
  BY <1>1, <1>2, SameBits
<1> QED
  BY <1>3 DEF S

(* The words after k rounds of the loop that goes down: what the rounds *)
(* have come to is shifted, the rest is not.                               *)
DoneDown(d, n, k) == [i \in Indices |-> IF i >= Chunks - k THEN FromBelow(d[i], d[i - 1], n) ELSE d[i]]

(* The loop comes to this.                                                 *)
LEMMA LoopDown ==
  ASSUME NEW d \in Arrays, NEW n
  PROVE  LET after[k \in 0 .. Chunks - 1] ==
               IF k = 0 THEN d
               ELSE LET i == Chunks - k IN [after[k - 1] EXCEPT ![i] = FromBelow(@, after[k - 1][i - 1], n)]
         IN  after[Chunks - 1] = DoneDown(d, n, Chunks - 1)
<1> DEFINE Is(h) == h = [k \in 0 .. Chunks - 1 |->
                           IF k = 0 THEN d
                           ELSE [h[k - 1] EXCEPT ![Chunks - k] = FromBelow(@, h[k - 1][Chunks - k - 1], n)]]
           f == [k \in 0 .. Chunks - 1 |-> DoneDown(d, n, k)]
           w == CHOOSE h : Is(h)
<1>1. Chunks \in Nat \ {0} /\ Indices = 0 .. Chunks - 1 /\ DOMAIN d = Indices /\ d = [i \in Indices |-> d[i]]
  BY SizeIs DEF Arrays
<1>2. DoneDown(d, n, 0) = d
  <2>1. \A i \in Indices : ~ (i >= Chunks - 0)
    BY <1>1
  <2> QED
    BY <1>1, <2>1 DEF DoneDown
<1>3. ASSUME NEW k \in 1 .. Chunks - 1, NEW before, before = DoneDown(d, n, k - 1)
      PROVE  [before EXCEPT ![Chunks - k] = FromBelow(@, before[Chunks - k - 1], n)] = DoneDown(d, n, k)
  <2> DEFINE j == Chunks - k
             next == [before EXCEPT ![j] = FromBelow(before[j], before[j - 1], n)]
  <2>1. /\ j \in Indices /\ j - 1 \in Indices /\ k \in Int
        /\ ~ (j >= Chunks - (k - 1)) /\ ~ ((j - 1) >= Chunks - (k - 1))
        /\ \A i \in Indices : i # j => ((i >= Chunks - k) <=> (i >= Chunks - (k - 1)))
        /\ j >= Chunks - k
    BY <1>1
  <2> HIDE DEF j
  <2>2. before[j] = d[j] /\ before[j - 1] = d[j - 1] /\ DOMAIN before = Indices
    BY <1>3, <2>1 DEF DoneDown
  <2>3. DOMAIN next = Indices /\ next[j] = FromBelow(d[j], d[j - 1], n)
        /\ \A i \in Indices : i # j => next[i] = before[i]
    BY <2>1, <2>2
  <2>4. next = [i \in Indices |-> next[i]]
    BY <2>2
  <2> HIDE DEF next
  <2>5. ASSUME NEW i \in Indices
        PROVE  next[i] = DoneDown(d, n, k)[i]
    <3>1. CASE i = j
      BY <2>1, <2>3, <3>1 DEF DoneDown
    <3>2. CASE i # j
      <4>1. next[i] = DoneDown(d, n, k - 1)[i]
        BY <1>3, <2>3, <3>2
      <4> QED
        BY <2>1, <3>2, <4>1 DEF DoneDown
    <3> QED
      BY <3>1, <3>2
  <2>6. next = DoneDown(d, n, k)
    <3>1. DoneDown(d, n, k) = [i \in Indices |-> DoneDown(d, n, k)[i]]
      BY DEF DoneDown
    <3> QED
      BY <2>4, <2>5, <3>1
  <2> QED
    BY <2>6 DEF next, j
<1>4. Is(f)
  <2>1. ASSUME NEW k \in 0 .. Chunks - 1
        PROVE  f[k] = IF k = 0 THEN d
                      ELSE [f[k - 1] EXCEPT ![Chunks - k] = FromBelow(@, f[k - 1][Chunks - k - 1], n)]
    <3>1. CASE k = 0
      BY <1>2, <3>1
    <3>2. CASE k # 0
      <4>1. k \in 1 .. Chunks - 1 /\ k - 1 \in 0 .. Chunks - 1
        BY <1>1, <3>2
      <4>2. f[k - 1] = DoneDown(d, n, k - 1) /\ f[k] = DoneDown(d, n, k)
        BY <4>1
      <4> HIDE DEF f
      <4> QED
        BY <1>3, <3>2, <4>1, <4>2
    <3> QED
      BY <3>1, <3>2
  <2>2. f = [k \in 0 .. Chunks - 1 |-> f[k]]
    OBVIOUS
  <2> HIDE DEF f
  <2> QED
    BY <2>1, <2>2
<1>5. Is(w)
  <2> HIDE DEF Is, f
  <2> QED
    BY <1>4, Zenon
<1> HIDE DEF w, f
<1> DEFINE S == {k \in Nat : w[k] = DoneDown(d, n, k)}
<1>6. 0 \in S
  BY <1>1, <1>2, <1>5
<1>7. ASSUME NEW k \in 0 .. (Chunks - 1) - 1, k \in S
      PROVE  k + 1 \in S
  <2> DEFINE m == k + 1
  <2>1. m \in 1 .. Chunks - 1 /\ m \in 0 .. Chunks - 1 /\ m \in Nat /\ m # 0 /\ m - 1 = k
    BY <1>1
  <2>2. w[m - 1] = DoneDown(d, n, m - 1)
    BY <1>7, <2>1
  <2> HIDE DEF m
  <2>3. w[m] = [w[m - 1] EXCEPT ![Chunks - m] = FromBelow(@, w[m - 1][Chunks - m - 1], n)]
    BY <1>5, <2>1
  <2>4. w[m] = DoneDown(d, n, m)
    BY <1>3, <2>1, <2>2, <2>3
  <2> QED
    BY <2>1, <2>4 DEF m
<1>8. w[Chunks - 1] = DoneDown(d, n, Chunks - 1)
  <2>1. Chunks - 1 \in Nat /\ Chunks - 1 \in 0 .. Chunks - 1
    BY <1>1
  <2> HIDE DEF S
  <2>2. Chunks - 1 \in S
    BY <1>6, <1>7, <2>1, UpTo
  <2> QED
    BY <2>2 DEF S
<1> QED
  BY <1>8, Zenon DEF w

(* The words after k rounds of the loop that goes up: what the rounds   *)
(* have come to is shifted, the rest is not.                               *)
DoneUp(d, n, k) == [i \in Indices |-> IF i <= k - 1 THEN FromAbove(d[i], d[i + 1], n) ELSE d[i]]

(* The loop comes to this.                                                 *)
LEMMA LoopUp ==
  ASSUME NEW d \in Arrays, NEW n
  PROVE  LET after[k \in 0 .. Chunks - 1] ==
               IF k = 0 THEN d
               ELSE LET i == k - 1 IN [after[k - 1] EXCEPT ![i] = FromAbove(@, after[k - 1][i + 1], n)]
         IN  after[Chunks - 1] = DoneUp(d, n, Chunks - 1)
<1> DEFINE Is(h) == h = [k \in 0 .. Chunks - 1 |->
                           IF k = 0 THEN d
                           ELSE [h[k - 1] EXCEPT ![k - 1] = FromAbove(@, h[k - 1][k - 1 + 1], n)]]
           f == [k \in 0 .. Chunks - 1 |-> DoneUp(d, n, k)]
           w == CHOOSE h : Is(h)
<1>1. Chunks \in Nat \ {0} /\ Indices = 0 .. Chunks - 1 /\ DOMAIN d = Indices /\ d = [i \in Indices |-> d[i]]
  BY SizeIs DEF Arrays
<1>2. DoneUp(d, n, 0) = d
  <2>1. \A i \in Indices : ~ (i <= 0 - 1)
    BY <1>1
  <2> QED
    BY <1>1, <2>1 DEF DoneUp
<1>3. ASSUME NEW k \in 1 .. Chunks - 1, NEW before, before = DoneUp(d, n, k - 1)
      PROVE  [before EXCEPT ![k - 1] = FromAbove(@, before[k - 1 + 1], n)] = DoneUp(d, n, k)
  <2> DEFINE j == k - 1
             next == [before EXCEPT ![j] = FromAbove(before[j], before[j + 1], n)]
  <2>1. /\ j \in Indices /\ j + 1 \in Indices /\ k \in Int
        /\ ~ (j <= (k - 1) - 1) /\ ~ ((j + 1) <= (k - 1) - 1)
        /\ \A i \in Indices : i # j => ((i <= k - 1) <=> (i <= (k - 1) - 1))
        /\ j <= k - 1
    BY <1>1
  <2> HIDE DEF j
  <2>2. before[j] = d[j] /\ before[j + 1] = d[j + 1] /\ DOMAIN before = Indices
    BY <1>3, <2>1 DEF DoneUp
  <2>3. DOMAIN next = Indices /\ next[j] = FromAbove(d[j], d[j + 1], n)
        /\ \A i \in Indices : i # j => next[i] = before[i]
    BY <2>1, <2>2
  <2>4. next = [i \in Indices |-> next[i]]
    BY <2>2
  <2> HIDE DEF next
  <2>5. ASSUME NEW i \in Indices
        PROVE  next[i] = DoneUp(d, n, k)[i]
    <3>1. CASE i = j
      BY <2>1, <2>3, <3>1 DEF DoneUp
    <3>2. CASE i # j
      <4>1. next[i] = DoneUp(d, n, k - 1)[i]
        BY <1>3, <2>3, <3>2
      <4> QED
        BY <2>1, <3>2, <4>1 DEF DoneUp
    <3> QED
      BY <3>1, <3>2
  <2>6. next = DoneUp(d, n, k)
    <3>1. DoneUp(d, n, k) = [i \in Indices |-> DoneUp(d, n, k)[i]]
      BY DEF DoneUp
    <3> QED
      BY <2>4, <2>5, <3>1
  <2> QED
    BY <2>6 DEF next, j
<1>4. Is(f)
  <2>1. ASSUME NEW k \in 0 .. Chunks - 1
        PROVE  f[k] = IF k = 0 THEN d
                      ELSE [f[k - 1] EXCEPT ![k - 1] = FromAbove(@, f[k - 1][k - 1 + 1], n)]
    <3>1. CASE k = 0
      BY <1>2, <3>1
    <3>2. CASE k # 0
      <4>1. k \in 1 .. Chunks - 1 /\ k - 1 \in 0 .. Chunks - 1
        BY <1>1, <3>2
      <4>2. f[k - 1] = DoneUp(d, n, k - 1) /\ f[k] = DoneUp(d, n, k)
        BY <4>1
      <4> HIDE DEF f
      <4> QED
        BY <1>3, <3>2, <4>1, <4>2
    <3> QED
      BY <3>1, <3>2
  <2>2. f = [k \in 0 .. Chunks - 1 |-> f[k]]
    OBVIOUS
  <2> HIDE DEF f
  <2> QED
    BY <2>1, <2>2
<1>5. Is(w)
  <2> HIDE DEF Is, f
  <2> QED
    BY <1>4, Zenon
<1> HIDE DEF w, f
<1> DEFINE S == {k \in Nat : w[k] = DoneUp(d, n, k)}
<1>6. 0 \in S
  BY <1>1, <1>2, <1>5
<1>7. ASSUME NEW k \in 0 .. (Chunks - 1) - 1, k \in S
      PROVE  k + 1 \in S
  <2> DEFINE m == k + 1
  <2>1. m \in 1 .. Chunks - 1 /\ m \in 0 .. Chunks - 1 /\ m \in Nat /\ m # 0 /\ m - 1 = k
    BY <1>1
  <2>2. w[m - 1] = DoneUp(d, n, m - 1)
    BY <1>7, <2>1
  <2> HIDE DEF m
  <2>3. w[m] = [w[m - 1] EXCEPT ![m - 1] = FromAbove(@, w[m - 1][m - 1 + 1], n)]
    BY <1>5, <2>1
  <2>4. w[m] = DoneUp(d, n, m)
    BY <1>3, <2>1, <2>2, <2>3
  <2> QED
    BY <2>1, <2>4 DEF m
<1>8. w[Chunks - 1] = DoneUp(d, n, Chunks - 1)
  <2>1. Chunks - 1 \in Nat /\ Chunks - 1 \in 0 .. Chunks - 1
    BY <1>1
  <2> HIDE DEF S
  <2>2. Chunks - 1 \in S
    BY <1>6, <1>7, <2>1, UpTo
  <2> QED
    BY <2>2 DEF S
<1> QED
  BY <1>8, Zenon DEF w

(* A word shifted, or brought in, is a word.                               *)
LEMMA RoundMakesWord ==
  ASSUME NEW lo \in SUBSET Offsets, NEW hi \in SUBSET Offsets, NEW n
  PROVE  /\ FromBelow(hi, lo, n) \in SUBSET Offsets
         /\ FromAbove(lo, hi, n) \in SUBSET Offsets
BY DEF FromBelow, FromAbove, Left, Right

(* What is shifted into the last word is nothing.                          *)
LEMMA NothingComesIn ==
  ASSUME NEW word, NEW n
  PROVE  /\ FromBelow(word, {}, n) = IF n < Word THEN Left(word, n) ELSE {}
         /\ FromAbove(word, {}, n) = IF n < Word THEN Right(word, n) ELSE {}
<1>1. Left({}, Word - n) = {} /\ Right({}, Word - n) = {}
  BY DEF Left, Right
<1> QED
  BY <1>1 DEF FromBelow, FromAbove

(* shl shifts the set.                                                     *)
LEMMA ShiftedLeftIs ==
  ASSUME TypeOK, NEW n \in 0 .. Word
  PROVE  /\ ShiftedLeft(n) \in Arrays
         /\ MembersOf(ShiftedLeft(n))
              = {bit + n : bit \in MembersOf(data)} \cap (0 .. Chunks * Word - 1)
<1>1. data \in Arrays /\ Indices = 0 .. Chunks - 1 /\ Chunks \in Nat \ {0} /\ Word \in Nat \ {0}
  BY SizeIs DEF TypeOK, Arrays
<1>2. CASE n = 0
  <2>1. ShiftedLeft(n) = data
    BY <1>2 DEF ShiftedLeft
  <2>2. MembersOf(data) \subseteq 0 .. Chunks * Word - 1 /\ \A bit \in MembersOf(data) : bit + n = bit
    BY <1>2, SizeIs DEF MembersOf
  <2> QED
    BY <1>1, <2>1, <2>2
<1>3. CASE n # 0
  <2> DEFINE last == DoneDown(data, n, Chunks - 1)
             e == [last EXCEPT ![0] = IF n < Word THEN Left(@, n) ELSE {}]
  <2>1. n \in 1 .. Word
    BY <1>3
  <2>2. ShiftedLeft(n) = e
    <3> DEFINE after[k \in 0 .. Chunks - 1] ==
                 IF k = 0 THEN data
                 ELSE LET i == Chunks - k IN [after[k - 1] EXCEPT ![i] = FromBelow(@, after[k - 1][i - 1], n)]
               w == after[Chunks - 1]
    <3>1. w = DoneDown(data, n, Chunks - 1)
      BY <1>1, LoopDown, Zenon
    <3>2. ShiftedLeft(n) = [w EXCEPT ![0] = IF n < Word THEN Left(@, n) ELSE {}]
      BY <1>3, Zenon DEF ShiftedLeft
    <3> HIDE DEF w
    <3> QED
      BY <3>1, <3>2
  <2>3. DOMAIN last = Indices
        /\ \A i \in Indices : last[i] = IF i = 0 THEN data[i] ELSE FromBelow(data[i], data[i - 1], n)
    <3>1. \A i \in Indices : i >= Chunks - (Chunks - 1) <=> i # 0
      BY <1>1
    <3> QED
      BY <3>1 DEF DoneDown
  <2> HIDE DEF last
  <2>4. DOMAIN e = Indices /\ e = [i \in Indices |-> e[i]]
        /\ \A i \in Indices : e[i] = IF i = 0 THEN IF n < Word THEN Left(data[i], n) ELSE {}
                                     ELSE FromBelow(data[i], data[i - 1], n)
    <3>1. 0 \in Indices
      BY <1>1
    <3> QED
      BY <2>3, <3>1
  <2> HIDE DEF e
  <2>5. ASSUME NEW i \in Indices
        PROVE  e[i] = FromBelow(data[i], IF i = 0 THEN {} ELSE data[i - 1], n) /\ e[i] \in SUBSET Offsets
    <3> DEFINE lo == IF i = 0 THEN {} ELSE data[i - 1]
    <3>1. data[i] \in SUBSET Offsets /\ lo \in SUBSET Offsets
      <4>1. i = 0 \/ i - 1 \in Indices
        BY <1>1
      <4> QED
        BY <1>1, <4>1 DEF Arrays
    <3>2. e[i] = FromBelow(data[i], lo, n)
      BY <2>4, NothingComesIn
    <3> HIDE DEF lo
    <3>3. FromBelow(data[i], lo, n) \in SUBSET Offsets
      BY <3>1, RoundMakesWord
    <3> QED
      BY <3>2, <3>3 DEF lo
  <2>6. e \in Arrays
    BY <2>4, <2>5 DEF Arrays
  <2>7. MembersOf(e) = {bit + n : bit \in MembersOf(data)} \cap (0 .. Chunks * Word - 1)
    <3>1. \A i \in Indices : e[i] = FromBelow(data[i], IF i = 0 THEN {} ELSE data[i - 1], n)
      BY <2>5
    <3>2. data \in Arrays
      BY <1>1
    <3> QED
      BY <2>1, <2>6, <3>1, <3>2, BelowShifts
  <2> QED
    BY <2>2, <2>6, <2>7
<1> QED
  BY <1>2, <1>3

(* shr shifts the set.                                                     *)
LEMMA ShiftedRightIs ==
  ASSUME TypeOK, NEW n \in 0 .. Word
  PROVE  /\ ShiftedRight(n) \in Arrays
         /\ MembersOf(ShiftedRight(n))
              = {bit - n : bit \in MembersOf(data)} \cap (0 .. Chunks * Word - 1)
<1>1. data \in Arrays /\ Indices = 0 .. Chunks - 1 /\ Chunks \in Nat \ {0} /\ Word \in Nat \ {0}
  BY SizeIs DEF TypeOK, Arrays
<1>2. CASE n = 0
  <2>1. ShiftedRight(n) = data
    BY <1>2 DEF ShiftedRight
  <2>2. MembersOf(data) \subseteq 0 .. Chunks * Word - 1 /\ \A bit \in MembersOf(data) : bit - n = bit
    BY <1>2, SizeIs DEF MembersOf
  <2> QED
    BY <1>1, <2>1, <2>2
<1>3. CASE n # 0
  <2> DEFINE top == Chunks - 1
             last == DoneUp(data, n, top)
             e == [last EXCEPT ![top] = IF n < Word THEN Right(@, n) ELSE {}]
  <2>1. n \in 1 .. Word
    BY <1>3
  <2>2. ShiftedRight(n) = e
    <3> DEFINE after[k \in 0 .. Chunks - 1] ==
                 IF k = 0 THEN data
                 ELSE LET i == k - 1 IN [after[k - 1] EXCEPT ![i] = FromAbove(@, after[k - 1][i + 1], n)]
               w == after[Chunks - 1]
    <3>1. w = DoneUp(data, n, Chunks - 1)
      BY <1>1, LoopUp, Zenon
    <3>2. ShiftedRight(n) = [w EXCEPT ![Chunks - 1] = IF n < Word THEN Right(@, n) ELSE {}]
      BY <1>3, Zenon DEF ShiftedRight
    <3> HIDE DEF w
    <3> QED
      BY <3>1, <3>2
  <2>3. DOMAIN last = Indices
        /\ \A i \in Indices : last[i] = IF i = top THEN data[i] ELSE FromAbove(data[i], data[i + 1], n)
    <3>1. \A i \in Indices : i <= top - 1 <=> i # top
      BY <1>1
    <3> QED
      BY <3>1 DEF DoneUp
  <2> HIDE DEF last
  <2>4. DOMAIN e = Indices /\ e = [i \in Indices |-> e[i]]
        /\ \A i \in Indices : e[i] = IF i = top THEN IF n < Word THEN Right(data[i], n) ELSE {}
                                     ELSE FromAbove(data[i], data[i + 1], n)
    <3>1. top \in Indices
      BY <1>1
    <3> HIDE DEF top
    <3> QED
      BY <2>3, <3>1
  <2> HIDE DEF e
  <2>5. ASSUME NEW i \in Indices
        PROVE  e[i] = FromAbove(data[i], IF i = top THEN {} ELSE data[i + 1], n) /\ e[i] \in SUBSET Offsets
    <3> DEFINE hi == IF i = top THEN {} ELSE data[i + 1]
    <3>1. data[i] \in SUBSET Offsets /\ hi \in SUBSET Offsets
      <4>1. i = top \/ i + 1 \in Indices
        BY <1>1
      <4> QED
        BY <1>1, <4>1 DEF Arrays
    <3> HIDE DEF top
    <3>2. e[i] = FromAbove(data[i], hi, n)
      BY <2>4, NothingComesIn
    <3> HIDE DEF hi
    <3>3. FromAbove(data[i], hi, n) \in SUBSET Offsets
      BY <3>1, RoundMakesWord
    <3> QED
      BY <3>2, <3>3 DEF hi
  <2>6. e \in Arrays
    BY <2>4, <2>5 DEF Arrays
  <2>7. MembersOf(e) = {bit - n : bit \in MembersOf(data)} \cap (0 .. Chunks * Word - 1)
    <3>1. \A i \in Indices : e[i] = FromAbove(data[i], IF i = Chunks - 1 THEN {} ELSE data[i + 1], n)
      BY <2>5
    <3>2. data \in Arrays
      BY <1>1
    <3> QED
      BY <2>1, <2>6, <3>1, <3>2, AboveShifts
  <2> QED
    BY <2>2, <2>6, <2>7
<1> QED
  BY <1>2, <1>3

-----------------------------------------------------------------------------
(* The operations.                                                         *)

(* set and clear change one bit.                                           *)
LEMMA OneBitChanges ==
  ASSUME TypeOK, NEW bit \in Bits
  PROVE  /\ Set(bit) => data' \in Arrays /\ Members' = Members \cup {bit}
         /\ Clear(bit) => data' \in Arrays /\ Members' = Members \ {bit}
<1> DEFINE q == bit \div Word
           r == bit % Word
<1>1. q \in Indices /\ r \in Offsets /\ bit = q * Word + r /\ data \in Arrays
  BY BitHasPlace DEF TypeOK, Arrays
<1> HIDE DEF q, r
<1>2. Members = MembersOf(data) /\ Members' = MembersOf(data')
  BY MembersAre
<1>3. ASSUME NEW i \in Indices, NEW off \in Offsets
      PROVE  /\ i * Word + off = bit <=> i = q /\ off = r
             /\ i * Word + off \in Members <=> off \in data[i]
             /\ i * Word + off \in Members' <=> off \in data'[i]
  <2>1. i \in Int
    BY SizeIs
  <2>2. i * Word + off = bit => i = q /\ off = r
    BY <2>1, Quotient DEF q, r
  <2> QED
    BY <1>1, <1>2, <2>1, <2>2, MemberIs
<1>4. Members \in SUBSET Bits /\ Members' \in SUBSET Bits
  BY DEF Members
<1>5. ASSUME Set(bit)
      PROVE  data' \in Arrays /\ Members' = Members \cup {bit}
  <2>1. data' = [data EXCEPT ![q] = @ \cup {r}]
    BY <1>5 DEF Set, q, r
  <2>2. \A i \in Indices, off \in Offsets :
          off \in data'[i] <=> off \in data[i] \/ (i = q /\ off = r)
    BY <1>1, <2>1 DEF Arrays
  <2>3. data' \in Arrays
    BY <1>1, <2>1 DEF Arrays
  <2>4. Members \cup {bit} \in SUBSET Bits
    BY <1>4
  <2>5. Members' = Members \cup {bit}
    <3>1. ASSUME NEW i \in Indices, NEW off \in Offsets
          PROVE  i * Word + off \in Members' <=> i * Word + off \in Members \cup {bit}
      BY <1>3, <2>2
    <3> QED
      BY <1>4, <2>4, <3>1, SameBits
  <2> QED
    BY <2>3, <2>5
<1>6. ASSUME Clear(bit)
      PROVE  data' \in Arrays /\ Members' = Members \ {bit}
  <2>1. data' = [data EXCEPT ![q] = @ \ {r}]
    BY <1>6 DEF Clear, q, r
  <2>2. \A i \in Indices, off \in Offsets :
          off \in data'[i] <=> off \in data[i] /\ ~ (i = q /\ off = r)
    BY <1>1, <2>1 DEF Arrays
  <2>3. data' \in Arrays
    BY <1>1, <2>1 DEF Arrays
  <2>4. Members \ {bit} \in SUBSET Bits
    BY <1>4
  <2>5. Members' = Members \ {bit}
    <3>1. ASSUME NEW i \in Indices, NEW off \in Offsets
          PROVE  i * Word + off \in Members' <=> i * Word + off \in Members \ {bit}
      BY <1>3, <2>2
    <3> QED
      BY <1>4, <2>4, <3>1, SameBits
  <2> QED
    BY <2>3, <2>5
<1> QED
  BY <1>5, <1>6

(* An array of zeros is the empty set.                                     *)
LEMMA ZerosAreEmpty ==
  /\ Init => data \in Arrays /\ Members = {}
  /\ Reset => data' \in Arrays /\ Members' = {}
<1>1. \A bit \in Bits : bit \div Word \in Indices
  BY BitHasPlace
<1>2. ASSUME Init
      PROVE  data \in Arrays /\ Members = {}
  BY <1>1, <1>2 DEF Init, Members, Arrays
<1>3. ASSUME Reset
      PROVE  data' \in Arrays /\ Members' = {}
  BY <1>1, <1>3 DEF Reset, Members, Arrays
<1> QED
  BY <1>2, <1>3

(* Every operation keeps the words within their width and does what it     *)
(* promises.                                                               *)
LEMMA OperationsAreSound ==
  ASSUME TypeOK
  PROVE  /\ \A bit \in Bits : /\ Set(bit) => TypeOK' /\ Abstract!Set(bit)
                              /\ Clear(bit) => TypeOK' /\ Abstract!Clear(bit)
         /\ Reset => TypeOK' /\ Abstract!Reset
         /\ \A n \in 0 .. Word : /\ Shl(n) => TypeOK' /\ Abstract!Shl(n)
                                 /\ Shr(n) => TypeOK' /\ Abstract!Shr(n)
<1>1. TypeOK' <=> data' \in Arrays
  BY DEF TypeOK, Arrays
<1>2. ASSUME NEW bit \in Bits
      PROVE  /\ Set(bit) => TypeOK' /\ Abstract!Set(bit)
             /\ Clear(bit) => TypeOK' /\ Abstract!Clear(bit)
  BY <1>1, OneBitChanges DEF Abstract!Set, Abstract!Clear
<1>3. Reset => TypeOK' /\ Abstract!Reset
  BY <1>1, ZerosAreEmpty DEF Abstract!Reset
<1>4. ASSUME NEW n \in 0 .. Word
      PROVE  /\ Shl(n) => TypeOK' /\ Abstract!Shl(n)
             /\ Shr(n) => TypeOK' /\ Abstract!Shr(n)
  <2>1. ASSUME Shl(n)
        PROVE  TypeOK' /\ Abstract!Shl(n)
    <3>1. data' = ShiftedLeft(n)
      BY <2>1 DEF Shl
    <3>2. data' \in Arrays
          /\ Members' = {bit + n : bit \in Members} \cap (0 .. Chunks * Word - 1)
      BY <3>1, ShiftedLeftIs, MembersAre
    <3> QED
      BY <1>1, <3>2 DEF Abstract!Shl
  <2>2. ASSUME Shr(n)
        PROVE  TypeOK' /\ Abstract!Shr(n)
    <3>1. data' = ShiftedRight(n)
      BY <2>2 DEF Shr
    <3>2. data' \in Arrays
          /\ Members' = {bit - n : bit \in Members} \cap (0 .. Chunks * Word - 1)
      BY <3>1, ShiftedRightIs, MembersAre
    <3> QED
      BY <1>1, <3>2 DEF Abstract!Shr
  <2> QED
    BY <2>1, <2>2
<1> QED
  BY <1>2, <1>3, <1>4

-----------------------------------------------------------------------------
(* The ends.                                                               *)

(* A bounded set of naturals that is not empty has its ends.               *)
LEMMA EndsExist ==
  ASSUME NEW n \in Nat, NEW S \in SUBSET (0 .. n), S # {}
  PROVE  /\ Min(S) \in S /\ \A x \in S : Min(S) <= x
         /\ Max(S) \in S /\ \A x \in S : x <= Max(S)
<1>1. PICK low \in S : \A x \in S : low <= x
  <2>1. S \in SUBSET Nat
    OBVIOUS
  <2> QED
    BY <2>1, Least
<1>2. PICK high \in S : \A x \in S : x <= high
  <2> DEFINE T == {n - x : x \in S}
  <2>1. T \in SUBSET Nat /\ T # {}
    OBVIOUS
  <2>2. PICK t \in T : \A y \in T : t <= y
    <3> HIDE DEF T
    <3> QED
      BY <2>1, Least
  <2>3. PICK high \in S : t = n - high
    BY <2>2
  <2>4. \A x \in S : x <= high
    <3> SUFFICES ASSUME NEW x \in S
                 PROVE  x <= high
      OBVIOUS
    <3>1. n - x \in T
      OBVIOUS
    <3>2. n - high <= n - x
      BY <2>2, <2>3, <3>1
    <3> QED
      BY <3>2
  <2> QED
    BY <2>4
<1>3. Min(S) \in S /\ \A x \in S : Min(S) <= x
  BY <1>1 DEF Min
<1>4. Max(S) \in S /\ \A x \in S : x <= Max(S)
  <2>1. \A x \in S : high >= x
    BY <1>2
  <2>2. Max(S) \in S /\ \A x \in S : Max(S) >= x
    BY <1>2, <2>1 DEF Max
  <2> QED
    BY <2>2
<1> QED
  BY <1>3, <1>4

(* And there is only one number at each end.                               *)
LEMMA EndsAre ==
  ASSUME NEW S \in SUBSET Nat, NEW m \in S
  PROVE  /\ (\A x \in S : x <= m) => Max(S) = m
         /\ (\A x \in S : m <= x) => Min(S) = m
<1>1. ASSUME \A x \in S : x <= m
      PROVE  Max(S) = m
  <2>1. \A x \in S : m >= x
    BY <1>1
  <2>2. Max(S) \in S /\ \A x \in S : Max(S) >= x
    BY <2>1 DEF Max
  <2>3. PICK c : c = Max(S)
    OBVIOUS
  <2>4. c \in Nat /\ m \in Nat /\ c >= m /\ c <= m
    BY <1>1, <2>2, <2>3
  <2>5. c = m
    BY <2>4
  <2> QED
    BY <2>3, <2>5
<1>2. ASSUME \A x \in S : m <= x
      PROVE  Min(S) = m
  <2>1. Min(S) \in S /\ \A x \in S : Min(S) <= x
    BY <1>2 DEF Min
  <2>2. PICK c : c = Min(S)
    OBVIOUS
  <2>3. c \in Nat /\ m \in Nat /\ c >= m /\ c <= m
    BY <1>2, <2>1, <2>2
  <2>4. c = m
    BY <2>3
  <2> QED
    BY <2>2, <2>4
<1> QED
  BY <1>1, <1>2

(* The bits of a lower word are lower.                                     *)
LEMMA LowerWordIsLower ==
  ASSUME NEW i \in Indices, NEW j \in Indices, j < i, NEW off \in Offsets, NEW o \in Offsets
  PROVE  j * Word + o <= i * Word + off
<1>1. /\ i \in Int /\ j \in Int /\ off \in Int /\ o \in Int /\ 0 <= off /\ o < Word /\ Word \in Nat
  BY SizeIs
<1>2. j + 1 <= i /\ j + 1 \in Int
  BY <1>1
<1>3. (j + 1) * Word <= i * Word /\ (j + 1) * Word = j * Word + Word
  BY <1>1, <1>2
<1>4. j * Word \in Int /\ i * Word \in Int
  BY <1>1
<1> QED
  BY <1>1, <1>3, <1>4

(* The test and the searches say what is in the set.                       *)
LEMMA SearchesFind ==
  ASSUME TypeOK
  PROVE  FindsEnds
<1> DEFINE K == {k \in Indices : data[k] # {}}
<1>1. /\ data \in Arrays /\ Chunks - 1 \in Nat /\ Word - 1 \in Nat
      /\ Indices = 0 .. Chunks - 1 /\ Offsets = 0 .. Word - 1
  BY SizeIs DEF TypeOK, Arrays
<1>2. ASSUME NEW i \in Indices, NEW off \in Offsets
      PROVE  i * Word + off \in Members <=> off \in data[i]
  <2>1. i \in Int
    BY <1>1
  <2> QED
    BY <2>1, MemberIs, MembersAre
<1>3. ASSUME NEW bit \in Members
      PROVE  \E i \in Indices, off \in Offsets : bit = i * Word + off /\ off \in data[i] /\ i \in K
  <2>1. bit \in Bits
    BY DEF Members
  <2>2. PICK i \in Indices, off \in Offsets : bit = i * Word + off
    BY <2>1, BitHasPlace
  <2>3. off \in data[i]
    BY <1>2, <2>2
  <2> QED
    BY <2>2, <2>3
<1>4. IsEmpty <=> Members = {}
  <2>1. ASSUME NEW i \in Indices, NEW off \in data[i]
        PROVE  i * Word + off \in Members
    <3>1. off \in Offsets
      BY <1>1 DEF Arrays
    <3> QED
      BY <1>2, <3>1
  <2>2. IsEmpty => Members = {}
    BY <1>3 DEF IsEmpty
  <2>3. Members = {} => IsEmpty
    BY <2>1 DEF IsEmpty
  <2> QED
    BY <2>2, <2>3
<1>5. ASSUME Members # {}
      PROVE  Clz = Max(Members) /\ Ctz = Min(Members)
  <2>1. K \in SUBSET (0 .. Chunks - 1) /\ K # {}
    BY <1>1, <1>3, <1>5
  <2>2. Members \in SUBSET Nat
    BY SizeIs DEF Members
  <2>3. \A k \in K : k \in Indices /\ data[k] \in SUBSET (0 .. Word - 1) /\ data[k] # {}
    BY <1>1 DEF Arrays
  <2>4. PICK high, low : high = Max(K) /\ low = Min(K)
    OBVIOUS
  <2>5. Clz = high * Word + Max(data[high]) /\ Ctz = low * Word + Min(data[low])
    BY <2>4 DEF Clz, Ctz
  <2> HIDE DEF K
  <2>6. high \in K /\ low \in K /\ \A k \in K : low <= k /\ k <= high
    BY <1>1, <2>1, <2>4, EndsExist
  <2>7. PICK last, first : last = Max(data[high]) /\ first = Min(data[low])
    OBVIOUS
  <2>8. /\ last \in data[high] /\ \A x \in data[high] : x <= last
        /\ first \in data[low] /\ \A x \in data[low] : first <= x
    BY <1>1, <2>3, <2>6, <2>7, EndsExist
  <2>9. high \in Indices /\ low \in Indices /\ last \in Offsets /\ first \in Offsets
    BY <1>1, <2>3, <2>6, <2>8
  <2>10. high * Word + last \in Members /\ low * Word + first \in Members
    BY <1>2, <2>8, <2>9
  <2>11. ASSUME NEW bit \in Members
         PROVE  bit <= high * Word + last /\ low * Word + first <= bit
    <3>1. PICK i \in Indices, off \in Offsets : bit = i * Word + off /\ off \in data[i] /\ i \in K
      BY <1>3
    <3>2. low <= i /\ i <= high
      BY <2>6, <3>1
    <3>3. bit <= high * Word + last
      <4>1. CASE i < high
        BY <2>9, <3>1, <4>1, LowerWordIsLower
      <4>2. CASE i = high
        <5>1. off <= last
          BY <2>8, <3>1, <4>2
        <5>2. high * Word \in Int /\ off \in Int /\ last \in Int
          <6>1. high \in Int /\ Word \in Int /\ off \in Int /\ last \in Int
            BY <1>1, <2>9, SizeIs
          <6> QED
            BY <6>1
        <5> QED
          BY <3>1, <4>2, <5>1, <5>2
      <4> QED
        BY <1>1, <2>9, <3>2, <4>1, <4>2
    <3>4. low * Word + first <= bit
      <4>1. CASE low < i
        BY <2>9, <3>1, <4>1, LowerWordIsLower
      <4>2. CASE i = low
        <5>1. first <= off
          BY <2>8, <3>1, <4>2
        <5>2. low * Word \in Int /\ off \in Int /\ first \in Int
          <6>1. low \in Int /\ Word \in Int /\ off \in Int /\ first \in Int
            BY <1>1, <2>9, SizeIs
          <6> QED
            BY <6>1
        <5> QED
          BY <3>1, <4>2, <5>1, <5>2
      <4> QED
        BY <1>1, <2>9, <3>2, <4>1, <4>2
    <3> QED
      BY <3>3, <3>4
  <2> DEFINE top == high * Word + last
             bottom == low * Word + first
  <2>12. Clz = top /\ Ctz = bottom
    BY <2>5, <2>7
  <2>13. top \in Members /\ bottom \in Members /\ \A bit \in Members : bit <= top /\ bottom <= bit
    BY <2>10, <2>11
  <2> HIDE DEF top, bottom
  <2>14. Max(Members) = top /\ Min(Members) = bottom
    BY <2>2, <2>13, EndsAre
  <2> QED
    BY <2>12, <2>14
<1> QED
  BY <1>4, <1>5 DEF FindsEnds

-----------------------------------------------------------------------------
(* No operation puts a bit into a word beyond its width.                   *)
THEOREM WordsKeepTheirWidth == Spec => []TypeOK
<1>1. Init => TypeOK
  BY ZerosAreEmpty DEF TypeOK, Arrays
<1>2. TypeOK /\ [Next]_data => TypeOK'
  <2> SUFFICES ASSUME TypeOK, [Next]_data
               PROVE  TypeOK'
    OBVIOUS
  <2>1. CASE Next
    BY <2>1, OperationsAreSound DEF Next
  <2>2. CASE UNCHANGED data
    BY <2>2 DEF TypeOK
  <2> QED
    BY <2>1, <2>2
<1> QED
  BY <1>1, <1>2, PTL DEF Spec

(* The test tells whether there is a bit, and clz and ctz find the highest *)
(* and the lowest, whatever the operations before.                         *)
THEOREM EndsAreFound == Spec => []FindsEnds
<1>1. TypeOK => FindsEnds
  BY SearchesFind
<1> QED
  BY <1>1, WordsKeepTheirWidth, PTL

(* Every operation on the words is the operation on the set of bits.       *)
THEOREM WordsImplementSet == Spec => IsBitSet
<1> DEFINE Sound == /\ \A bit \in Bits : /\ Set(bit) => Abstract!Set(bit)
                                         /\ Clear(bit) => Abstract!Clear(bit)
                    /\ Reset => Abstract!Reset
                    /\ \A n \in 0 .. Word : /\ Shl(n) => Abstract!Shl(n)
                                            /\ Shr(n) => Abstract!Shr(n)
<1>1. Init => Abstract!Init
  BY ZerosAreEmpty DEF Abstract!Init
<1>2. TypeOK /\ [Next]_data => [Sound]_data
  BY OperationsAreSound
<1> HIDE DEF Sound
<1>3. Spec => Abstract!Init /\ [][Sound]_data
  BY <1>1, <1>2, WordsKeepTheirWidth, PTL DEF Spec
<1> QED
  BY <1>3 DEF Sound, IsBitSet

-----------------------------------------------------------------------------
(* Branchless: selections.                                                 *)


(* The sign of a difference selects all or nothing. *)
LEMMA SignMaskValue ==
  ASSUME NEW diff \in Ints
  PROVE  SignMask(diff) = IF diff < 0 THEN -1 ELSE 0
BY BranchlessAssumption DEF SignMask, Ints

(* A value that fits is not changed, and one that does not is not any one  *)
(* value: it is cut, or it is undefined.                                   *)
LEMMA OutcomesOfFitting ==
  ASSUME NEW v \in Ints
  PROVE  Outcomes(v) = {v}
BY BranchlessAssumption DEF Outcomes, Cut, Ints

LEMMA SelectedBySign ==
  ASSUME NEW diff \in Ints
  PROVE  And(diff, SignMask(diff)) = IF diff < 0 THEN diff ELSE 0
BY SignMaskValue DEF And

-----------------------------------------------------------------------------
(* Operands that are not too far apart. *)
LEMMA ExactWhenNear ==
  ASSUME NEW x \in Ints, NEW y \in Ints, x - y \in Ints
  PROVE  /\ LeastOf(x, y) = {IF x < y THEN x ELSE y}
         /\ GreatestOf(x, y) = {IF x < y THEN y ELSE x}
<1> DEFINE selected == And(x - y, SignMask(x - y))
<1>1. Outcomes(x - y) = {x - y}
  BY OutcomesOfFitting
<1>2. selected = IF x - y < 0 THEN x - y ELSE 0
  BY SelectedBySign
<1>3. y + selected = (IF x < y THEN x ELSE y) /\ x - selected = (IF x < y THEN y ELSE x)
  BY <1>2, BranchlessAssumption DEF Ints
<1>4. y + selected \in Ints /\ x - selected \in Ints
  BY <1>3
<1>5. LeastOf(x, y) = Outcomes(y + selected) /\ GreatestOf(x, y) = Outcomes(x - selected)
  BY <1>1 DEF LeastOf, GreatestOf
<1> QED
  BY <1>3, <1>4, <1>5, OutcomesOfFitting

(* In a narrow type the difference of distant operands has the wrong sign, *)
(* and the wrong one is selected.                                          *)
LEMMA WrongWhenFarAndNarrow ==
  ASSUME NEW x \in Ints, NEW y \in Ints, x - y \notin Ints, Promoted
  PROVE  /\ LeastOf(x, y) = {IF x < y THEN y ELSE x}
         /\ GreatestOf(x, y) = {IF x < y THEN x ELSE y}
<1> DEFINE diff == Cut(x - y)
           selected == And(diff, SignMask(diff))
<1>1. diff \in Ints /\ (x < y => diff >= 0) /\ (~ x < y => diff < 0)
  BY BranchlessAssumption DEF Cut, Ints
<1>2. diff = IF x < y THEN x - y + 2 * Half ELSE x - y - 2 * Half
  BY BranchlessAssumption DEF Cut, Ints
<1>3. selected = IF x < y THEN 0 ELSE x - y - 2 * Half
  <2>1. selected = IF diff < 0 THEN diff ELSE 0
    BY <1>1, SelectedBySign
  <2> QED
    BY <2>1, <1>1, <1>2, BranchlessAssumption DEF Ints
<1>4. LeastOf(x, y) = Outcomes(y + selected) /\ GreatestOf(x, y) = Outcomes(x - selected)
  BY DEF LeastOf, GreatestOf, Outcomes
<1>5. Outcomes(y + selected) = {Cut(y + selected)} /\ Outcomes(x - selected) = {Cut(x - selected)}
  BY DEF Outcomes
<1>6. CASE x < y
  <2>1. y + selected = y /\ x - selected = x
    BY <1>3, <1>6, BranchlessAssumption DEF Ints
  <2> QED
    BY <2>1, <1>4, <1>6, OutcomesOfFitting
<1>7. CASE ~ x < y
  <2>1. y + selected = x - 2 * Half /\ x - selected = y + 2 * Half
    BY <1>3, <1>7, BranchlessAssumption DEF Ints
  <2>2. x >= 0 /\ y < 0
    BY <1>7, BranchlessAssumption DEF Ints
  <2>3. Cut(x - 2 * Half) = x /\ Cut(y + 2 * Half) = y
    BY <2>2, BranchlessAssumption DEF Cut, Ints
  <2> QED
    BY <2>1, <2>3, <1>4, <1>5, <1>7
<1> QED
  BY <1>6, <1>7

(* In a wide type the result is not determined: two differences that the   *)
(* build may produce already give two results.                             *)
LEMMA UndefinedWhenFarAndWide ==
  ASSUME NEW x \in Ints, NEW y \in Ints, x - y \notin Ints, ~ Promoted
  PROVE  \A v : LeastOf(x, y) # {v} /\ GreatestOf(x, y) # {v}
<1>1. {0, -1} \subseteq Outcomes(x - y)
  BY BranchlessAssumption DEF Outcomes, Ints
<1>2. And(0, SignMask(0)) = 0 /\ And(-1, SignMask(-1)) = -1
  BY SelectedBySign, BranchlessAssumption DEF Ints
<1>3. Outcomes(y) \cup Outcomes(y - 1) \subseteq LeastOf(x, y)
  <2>1. y + 0 = y /\ y + (-1) = y - 1
    BY DEF Ints
  <2> QED
    BY <1>1, <1>2, <2>1 DEF LeastOf
<1>4. Outcomes(x) \cup Outcomes(x + 1) \subseteq GreatestOf(x, y)
  <2>1. x - 0 = x /\ x - (-1) = x + 1
    BY DEF Ints
  <2> QED
    BY <1>1, <1>2, <2>1 DEF GreatestOf
<1>5. \A v \in Ints : v \in Outcomes(v)
  BY OutcomesOfFitting
<1>6. PICK w \in Outcomes(y - 1) : w # y
  BY BranchlessAssumption DEF Outcomes, Ints, Cut
<1>7. PICK u \in Outcomes(x + 1) : u # x
  BY BranchlessAssumption DEF Outcomes, Ints, Cut
<1> QED
  BY <1>3, <1>4, <1>5, <1>6, <1>7

(* min and max are exact exactly when the difference of their operands     *)
(* fits, at every width and in narrow and wide types alike.                *)
THEOREM MinMaxAreExact == Calls => []MinMaxExact
<1> DEFINE Operands == a \in Ints /\ b \in Ints
<1>1. FirstCall => Operands
  BY BranchlessAssumption DEF FirstCall, Ints
<1>2. Operands /\ [NextCall]_<<a, b>> => Operands'
  BY DEF NextCall, Ints
<1>3. Operands => MinMaxExact
  <2> SUFFICES ASSUME Operands
               PROVE  MinMaxExact
    OBVIOUS
  <2>1. CASE a - b \in Ints
    BY <2>1, ExactWhenNear DEF MinMaxExact
  <2>2. CASE a - b \notin Ints /\ Promoted
    <3>1. a # b
      BY <2>2, BranchlessAssumption DEF Ints
    <3> QED
      BY <2>2, <3>1, WrongWhenFarAndNarrow DEF MinMaxExact
  <2>3. CASE a - b \notin Ints /\ ~ Promoted
    BY <2>3, UndefinedWhenFarAndWide DEF MinMaxExact
  <2> QED
    BY <2>1, <2>2, <2>3, BranchlessAssumption
<1> QED
  BY <1>1, <1>2, <1>3, PTL DEF Calls

MinIsExact(x, y) == LeastOf(x, y) = {IF x < y THEN x ELSE y}
MaxIsExact(x, y) == GreatestOf(x, y) = {IF x < y THEN y ELSE x}

(* The calls of min and max in trade_engine.hpp, one conjunct each: the    *)
(* constructor's two, where a center price below Levels makes the operand  *)
(* negative, the two of get_bottom_price, a limit and a border of the      *)
(* window, and the quantity of a trade.  They are exact when the type has  *)
(* room for Levels prices twice above the highest.                         *)
THEOREM EngineCallsAreExact ==
  ASSUME NEW MinPrice \in Nat \ {0}, NEW MaxPrice \in Nat, MinPrice <= MaxPrice,
         NEW Levels \in Nat, MaxPrice + Levels + Levels < Half,
         NEW MinQty \in Nat \ {0}, NEW MaxQty \in Nat, MaxQty < Half
  PROVE  /\ \A center \in 1 .. MaxPrice : MaxIsExact(center - Levels, MinPrice)
         /\ \A low \in MinPrice .. MaxPrice : MinIsExact(low + Levels + Levels, MaxPrice)
         /\ \A price, low \in MinPrice .. MaxPrice : MaxIsExact(price, low)
         /\ \A price, high \in MinPrice .. MaxPrice : MinIsExact(price, high)
         /\ \A qty, held \in MinQty .. MaxQty : MinIsExact(qty, held)
<1> DEFINE Near(x, y) == x \in Ints /\ y \in Ints /\ x - y \in Ints
<1>1. \A x, y : Near(x, y) => MinIsExact(x, y) /\ MaxIsExact(x, y)
  BY ExactWhenNear DEF MinIsExact, MaxIsExact
<1>2. \A center \in 1 .. MaxPrice : Near(center - Levels, MinPrice)
  BY BranchlessAssumption DEF Ints
<1>3. \A low \in MinPrice .. MaxPrice : Near(low + Levels + Levels, MaxPrice)
  BY BranchlessAssumption DEF Ints
<1>4. \A x, y \in MinPrice .. MaxPrice : Near(x, y)
  BY BranchlessAssumption DEF Ints
<1>5. \A qty, held \in MinQty .. MaxQty : Near(qty, held)
  BY BranchlessAssumption DEF Ints
<1> HIDE DEF Near
<1> QED
  BY <1>1, <1>2, <1>3, <1>4, <1>5

(* The conditional operators are the ifs they stand for, at every width.   *)
THEOREM SelectsAreExact == SelectsExact
<1>1. 0 \in Ints /\ \A v \in Ints : v \in Int
  BY BranchlessAssumption DEF Ints
<1> SUFFICES ASSUME NEW x \in Ints, NEW v \in Ints, NEW cond \in BOOLEAN
             PROVE  /\ ZeroIfTrue(x, cond) = IF cond THEN 0 ELSE x
                    /\ OneIfTrue(x, cond) = IF cond THEN 1 ELSE x
                    /\ x + v \in Ints => AddIfTrue(x, v, cond) = {IF cond THEN x + v ELSE x}
                    /\ x - v \in Ints => SubIfTrue(x, v, cond) = {IF cond THEN x - v ELSE x}
                    /\ x + 1 \in Ints => IncIfTrue(x, cond) = {IF cond THEN x + 1 ELSE x}
                    /\ x - 1 \in Ints => DecIfTrue(x, cond) = {IF cond THEN x - 1 ELSE x}
  BY DEF SelectsExact
<1>2. /\ And(x, Not(BoolMask(cond))) = IF cond THEN 0 ELSE x
      /\ \A k : And(k, BoolMask(cond)) = IF cond THEN k ELSE 0
  BY DEF And, Not, BoolMask
<1>3. x + 0 = x /\ x - 0 = x /\ 0 + 1 = 1
  BY <1>1
<1>4. ZeroIfTrue(x, cond) = (IF cond THEN 0 ELSE x) /\ OneIfTrue(x, cond) = IF cond THEN 1 ELSE x
  BY <1>1, <1>2, <1>3 DEF ZeroIfTrue, OneIfTrue
<1>5. \A k : /\ x + k \in Ints => AddIfTrue(x, k, cond) = {IF cond THEN x + k ELSE x}
             /\ x - k \in Ints => SubIfTrue(x, k, cond) = {IF cond THEN x - k ELSE x}
  BY <1>2, <1>3, OutcomesOfFitting DEF AddIfTrue, SubIfTrue
<1> QED
  BY <1>4, <1>5 DEF IncIfTrue, DecIfTrue
=============================================================================
