------------------------------- MODULE IceBits -------------------------------
(***************************************************************************)
(* ice_bits.h: the logarithm, the count of trailing zeros, and the loop    *)
(* ForEachBitPos_uint32 over the set bits of a word, whose body is the     *)
(* caller's code.  A word has WordBits bits, 32 in the code.               *)
(***************************************************************************)
EXTENDS IceWords, SequencesExt

CONSTANT WordBits

ASSUME BitsAssumption == WordBits \in Nat \ {0}

VARIABLES
  word,      \* the word ForEachBitPos was given
  w, t,      \* w_09284374, the bits still to visit, and t_6787549783, the one
             \* the body runs for
  loop,      \* ForEachBitPos: not running ("none"), at its test, in its body,
             \* left by a break ("left") or done
  positions  \* bit_var in each run of the body

bitsVars == <<word, w, t, loop, positions>>

WordMod == Pow2[WordBits]

SetBits(v) == BitsOf(v, WordBits)

(* __builtin_clz, and the macro that guards it.                              *)
GetNumberOfLeadingZeros(x) ==
  IF x = 0 THEN WordBits
  ELSE Cardinality({p \in 0 .. WordBits - 1 : Pow2[p] > x})

(* A uint32_t: of 0 the logarithm is the largest word.                       *)
iceFloorLog2Uint32(v) ==
  (WordMod + WordBits - 1 - GetNumberOfLeadingZeros(v)) % WordMod

(* The loop that shifts the word to the right until the last bit is 1.       *)
GetNumberOfTrailingZerosUint32(v) ==
  Min({i \in 0 .. WordBits - 1 : Shifted(v)[i] % 2 = 1} \cup {WordBits})

(* -v of an unsigned word.                                                   *)
Negated(v) == (WordMod - v) % WordMod
-----------------------------------------------------------------------------
BitsInit ==
  /\ word = 0 /\ w = 0 /\ t = 0 /\ loop = "none" /\ positions = <<>>

ForEachBitPos(v) ==
  /\ loop \in {"none", "left", "done"}
  /\ word' = v /\ w' = v
  /\ loop' = "test" /\ positions' = <<>>
  /\ UNCHANGED t

(* Mutant: all but the lowest bit are taken for the lowest one.              *)
RunBodyRest ==
  /\ loop = "test" /\ w # 0
  /\ t' = And(w, w - 1, WordBits)
  /\ positions' = Append(positions, GetNumberOfTrailingZerosUint32(w))
  /\ loop' = "body"
  /\ UNCHANGED <<word, w>>

RunBody ==
  /\ loop = "test" /\ w # 0
  /\ t' = And(w, Negated(w), WordBits)
  /\ positions' = Append(positions, GetNumberOfTrailingZerosUint32(w))
  /\ loop' = "body"
  /\ UNCHANGED <<word, w>>

(* The body comes to its end, or breaks out of the loop.  It does not        *)
(* continue: that would skip the removal of the bit.                         *)
BodyEnds ==
  /\ loop = "body"
  /\ \/ w' = Xor(w, t, WordBits) /\ loop' = "test"
     \/ loop' = "left" /\ UNCHANGED w
  /\ UNCHANGED <<word, t, positions>>

ForEachBitDone ==
  /\ loop = "test" /\ w = 0
  /\ loop' = "done"
  /\ UNCHANGED <<word, w, t, positions>>

BitsNext ==
  \/ \E v \in Words(WordBits) : ForEachBitPos(v)
  \/ RunBody \/ BodyEnds \/ ForEachBitDone

BitsSpec == BitsInit /\ [][BitsNext]_bitsVars
-----------------------------------------------------------------------------
(* Properties.                                                               *)

(* The loop runs its body for the set bits of the word in ascending order,   *)
(* missing none and repeating none, so that it ends; and when it does, the   *)
(* three helpers, which look at bits in three ways, agree: the first         *)
(* position is the number of trailing zeros, the last one the logarithm.     *)
EachBitOnce ==
  /\ \A m, n \in DOMAIN positions : m < n => positions[m] < positions[n]
  /\ ToSet(positions) = SetBits(word) \ (SetBits(w) \ (IF loop = "test" THEN {} ELSE SetBits(t)))
  /\ loop = "done" /\ word # 0 =>
       /\ ToSet(positions) = SetBits(word)
       /\ Last(positions) = iceFloorLog2Uint32(word)
       /\ Pow2[iceFloorLog2Uint32(word)] <= word
       /\ word % Pow2[GetNumberOfTrailingZerosUint32(word)] = 0
       /\ Head(positions) = GetNumberOfTrailingZerosUint32(word)
=============================================================================
