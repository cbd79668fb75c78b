------------------------------ MODULE IceText ------------------------------
(***************************************************************************)
(* What icestring.h promises its callers: texts are sequences of runes     *)
(* (codepoints), and positions in them count runes.  Bytes show in two     *)
(* places only, str_nbof and str_size, and memory in none: a call that     *)
(* finds none changes nothing.  Strings are passed by what is in them.     *)
(***************************************************************************)
EXTENDS Integers, SequencesExt

CONSTANTS
  Handle, Literal, LiteralText, \* variables of the caller, and its literals
  Width(_),                     \* how many bytes a rune takes
  NoText,                       \* the value of a variable that is NULL
  Position, Bytes               \* the positions and numbers of bytes passed

VARIABLES text,  \* what is in each variable
          ret    \* the last call, "null" if it found no memory

vars == <<text, ret>>

Source == Handle \cup Literal

TextOf(s) == IF s \in Handle THEN text[s] ELSE LiteralText[s]

(* NULL is passed for the empty text.                                        *)
Content(s) == IF TextOf(s) = NoText THEN <<>> ELSE TextOf(s)

Smaller(m, n) == IF m < n THEN m ELSE n

(* The number of bytes of t.                                                 *)
Weight(t) ==
  LET upTo[n \in 0 .. Len(t)] == IF n = 0 THEN 0 ELSE upTo[n - 1] + Width(t[n])
  IN upTo[Len(t)]

(* The first place in t at which u is, -1 if there is none.                  *)
FirstPlace(t, u) ==
  LET places == {n \in 0 .. Len(t) : IsPrefix(u, SubSeq(t, n + 1, Len(t)))}
  IN IF places = {} THEN -1 ELSE CHOOSE n \in places : \A m \in places : n <= m
-----------------------------------------------------------------------------
Answer(op, args) == [op |-> op, args |-> args]

Init == text = [h \in Handle |-> NoText] /\ ret = Answer("none", <<>>)

Becomes(h, t) == text' = [text EXCEPT ![h] = t]

Refused == ret' = Answer("null", <<>>) /\ UNCHANGED text

StrOf(h, s) ==
  /\ ret' = Answer("of", <<h, s>>)
  /\ text[h] = NoText
  /\ Becomes(h, Content(s))

(* The beginning of nb bytes, or all if there are fewer, that cuts no rune.  *)
StrNbof(h, s, nb) ==
  /\ ret' = Answer("nbof", <<h, s, nb>>)
  /\ text[h] = NoText
  /\ \E n \in 0 .. Len(Content(s)) :
       /\ Weight(SubSeq(Content(s), 1, n)) = Smaller(nb, Weight(Content(s)))
       /\ Becomes(h, SubSeq(Content(s), 1, n))

(* The order of the two positions does not matter, nor that they are past    *)
(* the end.                                                                  *)
StrSubstring(h, s, start, end) ==
  /\ ret' = Answer("substring", <<h, s, start, end>>)
  /\ text[h] = NoText
  /\ LET from == Smaller(start, end)
         to == Smaller(start + end - from, Len(Content(s)))
     IN Becomes(h, SubSeq(Content(s), from + 1, to))

StrFree(h) == ret' = Answer("free", <<h>>) /\ Becomes(h, NoText)

(* Nothing appended to nothing stays NULL, even if it is the empty text.     *)
StrAppend(h, s) ==
  /\ ret' = Answer("append", <<h, s>>)
  /\ Becomes(h, IF Content(s) = <<>> THEN text[h] ELSE Content(h) \o Content(s))

Next ==
  \/ Refused
  \/ \E h \in Handle : StrFree(h)
  \/ \E h \in Handle, s \in Source :
       \/ StrOf(h, s) \/ StrAppend(h, s)
       \/ \E nb \in Bytes : StrNbof(h, s, nb)
       \/ \E start, end \in Position : StrSubstring(h, s, start, end)

Spec == Init /\ [][Next]_vars
=============================================================================
