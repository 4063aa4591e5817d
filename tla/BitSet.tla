-------------------------------- MODULE BitSet --------------------------------
(* What a fixed array of bits promises, with no words: a set of numbers    *)
(* below Size, that can be shifted and loses what is shifted out.          *)
(* PriceBits implements it, and OrderBook uses it for its masks.           *)
EXTENDS Integers, FiniteSetsExt

CONSTANT Size

VARIABLE bits

Init == bits = {}

Set(bit) == bits' = bits \cup {bit}
Clear(bit) == bits' = bits \ {bit}
Reset == bits' = {}
Shl(n) == bits' = {bit + n : bit \in bits} \cap (0 .. Size - 1)
Shr(n) == bits' = {bit - n : bit \in bits} \cap (0 .. Size - 1)
=============================================================================
