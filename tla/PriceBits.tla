------------------------------- MODULE PriceBits -------------------------------
(* PriceBits of price_bits.hpp: a bit set over an array of machine words.  *)
(* A word is the set of the offsets of its bits that are one; union and    *)
(* difference stand for the bitwise or and and-not.  The loops over the    *)
(* array give the words after each round and go the way the code's go, so  *)
(* that a word reads what its neighbour holds by then.                     *)
EXTENDS Integers, FiniteSetsExt

CONSTANTS
  Chunks,  \* words in the array
  Word     \* bits in a word, 64 in the code

ASSUME PriceBitsAssumption == {Chunks, Word} \subseteq Nat \ {0}

VARIABLE data

Offsets == 0 .. Word - 1
Indices == 0 .. Chunks - 1
Bits == 0 .. Chunks * Word - 1

Init == data = [i \in Indices |-> {}]

-----------------------------------------------------------------------------
(* The machine's shifts of one word.  A count of Word is undefined in C++; *)
(* the processor takes the count modulo Word.                              *)
Left(word, n) == {off + (n % Word) : off \in word} \cap Offsets
Right(word, n) == {off - (n % Word) : off \in word} \cap Offsets

(* What one round of a loop gives a word, from what it and the neighbour   *)
(* hold: bits come in from the neighbour, or the neighbour moves as it is. *)
FromBelow(hi, lo, n) == IF n < Word THEN Left(hi, n) \cup Right(lo, Word - n) ELSE lo
FromAbove(lo, hi, n) == IF n < Word THEN Right(lo, n) \cup Left(hi, Word - n) ELSE hi

(* Mutant: the loop runs upwards, over words that are shifted already. *)
ShiftedLeftUpwards(n) ==
  IF n = 0 THEN data
  ELSE LET after[k \in 0 .. Chunks - 1] ==
             IF k = 0 THEN data
             ELSE [after[k - 1] EXCEPT ![k] = FromBelow(@, after[k - 1][k - 1], n)]
       IN  [after[Chunks - 1] EXCEPT ![0] = IF n < Word THEN Left(@, n) ELSE {}]

(* The loop runs downwards, and the lowest word comes last. *)
ShiftedLeft(n) ==
  IF n = 0 THEN data
  ELSE LET after[k \in 0 .. Chunks - 1] ==
             IF k = 0 THEN data
             ELSE LET i == Chunks - k
                  IN  [after[k - 1] EXCEPT ![i] = FromBelow(@, after[k - 1][i - 1], n)]
       IN  [after[Chunks - 1] EXCEPT ![0] = IF n < Word THEN Left(@, n) ELSE {}]

(* The loop runs upwards, and the highest word comes last. *)
ShiftedRight(n) ==
  IF n = 0 THEN data
  ELSE LET after[k \in 0 .. Chunks - 1] ==
             IF k = 0 THEN data
             ELSE LET i == k - 1
                  IN  [after[k - 1] EXCEPT ![i] = FromAbove(@, after[k - 1][i + 1], n)]
       IN  [after[Chunks - 1] EXCEPT ![Chunks - 1] = IF n < Word THEN Right(@, n) ELSE {}]

-----------------------------------------------------------------------------
Set(bit) == data' = [data EXCEPT ![bit \div Word] = @ \cup {bit % Word}]
Clear(bit) == data' = [data EXCEPT ![bit \div Word] = @ \ {bit % Word}]
Reset == data' = [i \in Indices |-> {}]
Shl(n) == n <= Word /\ data' = ShiftedLeft(n)
Shr(n) == n <= Word /\ data' = ShiftedRight(n)

IsEmpty == \A i \in Indices : data[i] = {}

(* Mutant: the words are searched from the wrong end. *)
ClzFromFirst == LET i == Min({k \in Indices : data[k] # {}}) IN i * Word + Max(data[i])

(* The highest and the lowest bit, of a set that is not empty: the first   *)
(* word found that is not zero, counted from the top and from the bottom.  *)
Clz == LET i == Max({k \in Indices : data[k] # {}}) IN i * Word + Max(data[i])
Ctz == LET i == Min({k \in Indices : data[k] # {}}) IN i * Word + Min(data[i])

Next ==
  \/ \E bit \in Bits : Set(bit)
  \/ \E bit \in Bits : Clear(bit)
  \/ Reset
  \/ \E n \in 0 .. Word : Shl(n)
  \/ \E n \in 0 .. Word : Shr(n)

Spec == Init /\ [][Next]_data

-----------------------------------------------------------------------------
Members == {bit \in Bits : bit % Word \in data[bit \div Word]}

Abstract == INSTANCE BitSet WITH Size <- Chunks * Word, bits <- Members

(* Every operation does to the words what it should do to the set: a shift *)
(* carries bits from word to word, by every distance up to a whole word,   *)
(* loses those that leave the array and lets in none.                      *)
IsBitSet ==
  /\ Abstract!Init
  /\ [][/\ \A bit \in Bits : /\ Set(bit) => Abstract!Set(bit)
                             /\ Clear(bit) => Abstract!Clear(bit)
        /\ Reset => Abstract!Reset
        /\ \A n \in 0 .. Word : /\ Shl(n) => Abstract!Shl(n)
                                /\ Shr(n) => Abstract!Shr(n)]_data

(* Every word has bits within its width only. *)
TypeOK == data \in [Indices -> SUBSET Offsets]

(* The words hold no bits beyond their width; the set is empty when the    *)
(* test says so, and otherwise clz and ctz find its ends.                  *)
FindsEnds ==
  /\ TypeOK
  /\ IsEmpty <=> Members = {}
  /\ Members # {} => Clz = Max(Members) /\ Ctz = Min(Members)
=============================================================================
