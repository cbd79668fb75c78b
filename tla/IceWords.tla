------------------------------ MODULE IceWords ------------------------------
(***************************************************************************)
(* What C does with the bits of a word: shifts to the right, & and ^, for  *)
(* words of n bits.                                                        *)
(***************************************************************************)
EXTENDS Integers

(* The powers of two.                                                        *)
Pow2[n \in Nat] == IF n = 0 THEN 1 ELSE 2 * Pow2[n - 1]

(* The words of n bits.                                                      *)
Words(n) == 0 .. Pow2[n] - 1

(* v >> n; of a negative number the bits are those of its two's complement.  *)
Shifted(v) ==
  LET by[n \in Nat] == IF n = 0 THEN v ELSE by[n - 1] \div 2
  IN by

(* Bit p of a word.                                                          *)
Bit(v, p) == Shifted(v)[p] % 2

(* The bits that are set in a word, and the word with the bits S set.        *)
BitsOf(v, n) == {p \in 0 .. n - 1 : Bit(v, p) = 1}

Word(S, n) ==
  LET above[k \in 0 .. n] ==
        IF k = 0 THEN 0 ELSE 2 * above[k - 1] + (IF n - k \in S THEN 1 ELSE 0)
  IN above[n]

And(a, b, n) == Word(BitsOf(a, n) \cap BitsOf(b, n), n)

Or(a, b, n) == Word(BitsOf(a, n) \cup BitsOf(b, n), n)

Xor(a, b, n) ==
  Word((BitsOf(a, n) \ BitsOf(b, n)) \cup (BitsOf(b, n) \ BitsOf(a, n)), n)
=============================================================================
