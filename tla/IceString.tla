----------------------------- MODULE IceString -----------------------------
(***************************************************************************)
(* The strings of icestring.c: heap blocks of UTF-8 bytes that end with a  *)
(* 0 byte, and the searches and cuts that walk over their codepoints.  A   *)
(* caller keeps each string in a variable of its own and passes variables  *)
(* or literals.  The functions of utf8.h are modelled from their use.      *)
(***************************************************************************)
EXTENDS Integers, SequencesExt

CONSTANTS
  Handle,               \* the variables of the caller
  Literal,              \* its literals
  LiteralBytes,         \* the bytes of each literal, without the final 0
  Rune,                 \* codepoints, as numbers
  Block, NULL, NoText,  \* names of heap blocks, and nothing
  Position, Bytes,      \* bound: the positions and sizes passed
  MaxSize               \* bound: there is no memory for a larger block

Byte == 0 .. 255

(* The 17 planes of Unicode.                                                 *)
Unicode == {r \in Nat \ {0} : r \div 65536 <= 16}

ASSUME StringAssumption ==
  /\ Handle \cap Literal = {} /\ NULL \notin Block
  /\ LiteralBytes \in [Literal -> Seq(Byte \ {0})]
  /\ Rune \subseteq Unicode /\ NoText \notin Seq(Rune)
  /\ Position \subseteq Nat /\ Bytes \subseteq Nat /\ MaxSize \in Nat

VARIABLES
  ptr,  \* the string in each variable of the caller, NULL if none
  mem,  \* the live blocks: the size of each, and the bytes written to it
  ret   \* the last call, "null" if it returned NULL for want of memory

vars == <<ptr, mem, ret>>

Answer(op, args) == [op |-> op, args |-> args]

Source == Handle \cup Literal

IsNull(s) == s \in Handle /\ ptr[s] = NULL
-----------------------------------------------------------------------------
(* utf8.h.                                                                   *)

(* utf8size_lazy counts the bytes before the first 0.                        *)
CString(bytes) ==
  SubSeq(bytes, 1, (CHOOSE n \in DOMAIN bytes :
                      /\ bytes[n] = 0
                      /\ \A m \in 1 .. n - 1 : bytes[m] # 0) - 1)

(* utf8codepoint: how far to the next codepoint, by the leading byte.        *)
Step(b) ==
  CASE b >= 240 -> 4
    [] 224 <= b /\ b < 240 -> 3
    [] 192 <= b /\ b < 224 -> 2
    [] OTHER -> 1

(* utf8codepoint: the codepoint whose bytes are s.                           *)
Codepoint(s) ==
  LET b(n) == s[n] % 64
  IN CASE Len(s) = 4 -> (((s[1] % 8) * 64 + b(2)) * 4096) + (b(3) * 64) + b(4)
       [] Len(s) = 3 -> ((s[1] % 16) * 4096) + (b(2) * 64) + b(3)
       [] Len(s) = 2 -> ((s[1] % 32) * 64) + b(2)
       [] OTHER -> s[1]

(* The bytes UTF-8 needs for the codepoint r.                                *)
RuneBytes(r) ==
  CASE r < 128 -> 1
    [] 128 <= r /\ r < 2048 -> 2
    [] 2048 <= r /\ r < 65536 -> 3
    [] OTHER -> 4
-----------------------------------------------------------------------------
(* From byte p of s (from 0) to the next codepoint, if it is not the final 0. *)
Advance(s, p) == IF p < Len(s) THEN p + Step(s[p + 1]) ELSE p

(* The loop over a string: at which byte it is after n codepoints.           *)
Walk(s) ==
  LET at[n \in 0 .. Len(s)] == IF n = 0 THEN 0 ELSE Advance(s, at[n - 1])
  IN at

(* The number of codepoints of s.                                            *)
Length(s) ==
  CHOOSE n \in 0 .. Len(s) :
    Walk(s)[n] >= Len(s) /\ (n > 0 => Walk(s)[n - 1] < Len(s))

(* The bytes of the codepoint at index n, from 1.                            *)
Chars(s, n) == SubSeq(s, Walk(s)[n - 1] + 1, Walk(s)[n])

(* The codepoints of s.                                                      *)
Decoded(s) == [n \in 1 .. Length(s) |-> Codepoint(Chars(s, n))]

(* str_codepoint_byte_pos: the byte position of the codepoint at index i,    *)
(* that of the final 0 if there are no more than i.                          *)
BytePosition(s, i) == Walk(s)[IF i < Len(s) THEN i ELSE Len(s)]

Tail6(r, shift) == 128 + ((r \div shift) % 64)

(* Mutant: the last codepoint of two bytes is taken to need three.           *)
RuneToCharsOffByOne(r) ==
  CASE r < 128 -> <<r>>
    [] 128 <= r /\ r < 2047 -> <<192 + r \div 64, Tail6(r, 1)>>
    [] 2047 <= r /\ r < 65536 -> <<224 + r \div 4096, Tail6(r, 64), Tail6(r, 1)>>
    [] OTHER -> <<240 + (r \div 4096) \div 64, Tail6(r, 4096), Tail6(r, 64), Tail6(r, 1)>>

(* The masks and shifts of str_rune_to_chars, as ranges and divisions.       *)
RuneToChars(r) ==
  CASE r = 0 -> <<>>
    [] 0 < r /\ r < 128 -> <<r>>
    [] 128 <= r /\ r < 2048 -> <<192 + r \div 64, Tail6(r, 1)>>
    [] 2048 <= r /\ r < 65536 -> <<224 + r \div 4096, Tail6(r, 64), Tail6(r, 1)>>
    [] OTHER -> <<240 + (r \div 4096) \div 64, Tail6(r, 4096), Tail6(r, 64), Tail6(r, 1)>>

(* UTF-8: the loop comes to the final 0, over the bytes of one rune at a     *)
(* time.                                                                     *)
IsUtf8(s) ==
  /\ Walk(s)[Len(s)] = Len(s)
  /\ \A n \in 1 .. Length(s) : \E r \in Rune : Chars(s, n) = RuneToChars(r)

(* Sources are saved as UTF-8.                                               *)
ASSUME LiteralAssumption == \A l \in Literal : IsUtf8(LiteralBytes[l])

(* str_index_string: bytes are compared from each codepoint on, and the      *)
(* codepoints counted.                                                       *)
IndexOf(s, lookup) ==
  LET found == {n \in 0 .. Length(s) - 1 :
                  IsPrefix(lookup, SubSeq(s, Walk(s)[n] + 1, Len(s)))}
  IN CASE lookup = <<>> -> 0
       [] lookup # <<>> /\ found = {} -> -1
       [] OTHER -> CHOOSE n \in found : \A m \in found : n <= m
-----------------------------------------------------------------------------
(* A source that is not NULL, as utf8.h reads it.                            *)
BytesOf(s) == IF s \in Handle THEN CString(mem[ptr[s]].bytes) ELSE LiteralBytes[s]

Contents(size, bytes) == [size |-> size, bytes |-> bytes]

(* Memory m with the block b.                                                *)
Added(m, b, contents) ==
  [x \in DOMAIN m \cup {b} |-> IF x = b THEN contents ELSE m[x]]

(* A string made in a new block.                                             *)
Makes(h, contents) ==
  /\ ptr[h] = NULL /\ contents.size <= MaxSize
  /\ \E b \in Block \ DOMAIN mem :
       /\ mem' = Added(mem, b, contents)
       /\ ptr' = [ptr EXCEPT ![h] = b]

(* ice_aligned_malloc returns NULL, and so does the call that asked it.      *)
Refused == ret' = Answer("null", <<>>) /\ UNCHANGED <<ptr, mem>>

Init ==
  /\ ptr = [h \in Handle |-> NULL] /\ mem = [b \in {} |-> Contents(0, <<>>)]
  /\ ret = Answer("none", <<>>)

Terminated(s) == Contents(Len(s) + 1, s \o <<0>>)

(* The first nb bytes of s, no more than there are.                          *)
Clamped(s, nb) ==
  Terminated(IF IsNull(s) THEN <<>>
             ELSE SubSeq(BytesOf(s), 1, IF nb > Len(BytesOf(s)) THEN Len(BytesOf(s)) ELSE nb))

(* Callers do not cut codepoints: of what is no UTF-8, utf8.h makes nothing. *)
CutsNone(s, nb) ==
  ~IsNull(s) => nb >= Len(BytesOf(s)) \/ nb \in Range(Walk(BytesOf(s)))

StrNbof(h, s, nb) ==
  /\ CutsNone(s, nb)
  /\ Makes(h, Clamped(s, nb))
  /\ ret' = Answer("nbof", <<h, s, nb>>)

(* nb is SIZE_MAX.                                                           *)
StrOf(h, s) ==
  /\ Makes(h, Terminated(IF IsNull(s) THEN <<>> ELSE BytesOf(s)))
  /\ ret' = Answer("of", <<h, s>>)

(* The variable is set to NULL by its owner.                                 *)
StrFree(h) ==
  /\ mem' = Restrict(mem, DOMAIN mem \ {ptr[h]})
  /\ ptr' = [ptr EXCEPT ![h] = NULL]
  /\ ret' = Answer("free", <<h>>)
-----------------------------------------------------------------------------
(* str_append.                                                               *)

AppendNothing(s) ==
  /\ ~IsNull(s) => BytesOf(s) = <<>>
  /\ UNCHANGED <<ptr, mem>>

AppendToNull(h, s) ==
  /\ ~IsNull(s) /\ BytesOf(s) # <<>>
  /\ Makes(h, Terminated(BytesOf(s)))

(* Mutant: no byte for the final 0.                                          *)
JoinedTight(s, t) == Contents(Len(s) + Len(t), s \o t \o <<0>>)

(* realloc has copied s without its 0; t and a 0 are put behind it.          *)
Joined(s, t) == Contents(Len(s) + Len(t) + 1, s \o t \o <<0>>)

(* Mutant: the old block is not freed.                                       *)
MovedLeak(h, b, contents) == Added(mem, b, contents)

(* ice_aligned_realloc has moved the string of h to b and freed its block.   *)
Moved(h, b, contents) ==
  Added(Restrict(mem, DOMAIN mem \ {ptr[h]}), b, contents)

AppendMoves(h, s) ==
  /\ ~IsNull(h) /\ ~IsNull(s) /\ BytesOf(s) # <<>>
  /\ Joined(BytesOf(h), BytesOf(s)).size <= MaxSize
  /\ \E b \in Block \ DOMAIN mem :
       /\ mem' = Moved(h, b, Joined(BytesOf(h), BytesOf(s)))
       /\ ptr' = [ptr EXCEPT ![h] = b]

(* Without memory NULL is returned; the old string is still there.           *)
AppendRefused(h, s) ==
  /\ ~IsNull(h) /\ ~IsNull(s) /\ BytesOf(s) # <<>>
  /\ Refused

(* The realloc comes between measuring s and copying it, and frees the block *)
(* of h: callers do not append a string to itself.                           *)
StrAppend(h, s) ==
  /\ s # h
  /\ \/ AppendRefused(h, s)
     \/ /\ AppendNothing(s) \/ AppendToNull(h, s) \/ AppendMoves(h, s)
        /\ ret' = Answer("append", <<h, s>>)
-----------------------------------------------------------------------------
(* Mutant: a start behind the end is not swapped with it.                    *)
BetweenOrdered(s, start, end) ==
  IF IsNull(s) \/ start = end THEN <<>>
  ELSE SubSeq(BytesOf(s), BytePosition(BytesOf(s), start) + 1,
              BytePosition(BytesOf(s), end))

(* The bytes between two codepoint indexes, in either order.                 *)
Between(s, start, end) ==
  IF IsNull(s) \/ start = end THEN <<>>
  ELSE LET from == IF start < end THEN start ELSE end
           to == start + end - from
       IN SubSeq(BytesOf(s), BytePosition(BytesOf(s), from) + 1,
                 BytePosition(BytesOf(s), to))

StrSubstring(h, s, start, end) ==
  /\ Makes(h, Terminated(Between(s, start, end)))
  /\ ret' = Answer("substring", <<h, s, start, end>>)

Next ==
  \/ Refused
  \/ \E h \in Handle : StrFree(h)
  \/ \E h \in Handle, s \in Source :
       \/ StrOf(h, s) \/ StrAppend(h, s)
       \/ \E nb \in Bytes : StrNbof(h, s, nb)
       \/ \E start, end \in Position : StrSubstring(h, s, start, end)

Spec == Init /\ [][Next]_vars
-----------------------------------------------------------------------------
(* The questions, which change nothing.                                      *)

StrLen(s) == Length(BytesOf(s))

StrSize(s) == Len(BytesOf(s))

StrIndexString(s, lookup) ==
  IF IsNull(s) \/ IsNull(lookup) THEN -1 ELSE IndexOf(BytesOf(s), BytesOf(lookup))

(* The rune 0 is found at once, even in NULL.                                *)
StrIndexRune(s, r) ==
  CASE r = 0 -> 0
    [] r # 0 /\ IsNull(s) -> -1
    [] OTHER -> IndexOf(BytesOf(s), RuneToChars(r))
-----------------------------------------------------------------------------
(* Properties.                                                               *)

TextIn(h) == IF IsNull(h) THEN NoText ELSE Decoded(BytesOf(h))

LiteralText == [l \in Literal |-> Decoded(LiteralBytes[l])]

Text ==
  INSTANCE IceText WITH
    text <- [h \in Handle |-> TextIn(h)], Width <- RuneBytes

(* Each block of memory is the string of one variable: str_append neither    *)
(* loses the old block, nor leaves two variables with one, nor frees a       *)
(* string that a variable still holds because it returned NULL.              *)
BlocksOwned ==
  /\ \A h \in Handle : ptr[h] \in DOMAIN mem \cup {NULL}
  /\ \A b \in DOMAIN mem : \E h \in Handle : ptr[h] = b
  /\ \A g, h \in Handle : ptr[g] = ptr[h] /\ ptr[g] # NULL => g = h

(* What str_nbof, str_append and str_substring make of UTF-8, counting bytes *)
(* and moving memory, is UTF-8 and ends with a 0, which is in the block.     *)
WellFormed ==
  \A b \in DOMAIN mem :
    /\ Len(mem[b].bytes) <= mem[b].size
    /\ \E n \in DOMAIN mem[b].bytes : mem[b].bytes[n] = 0
    /\ IsUtf8(CString(mem[b].bytes))

(* In terms of codepoints every call does what its name says: bytes and      *)
(* blocks do not show.                                                       *)
RefinesText == Text!Spec

(* The questions are answered in codepoints though bytes are compared: what  *)
(* is found at an index is there, no codepoint is matched by its last bytes, *)
(* the first place is given, and the bytes that str_index_rune looks for are *)
(* those of its codepoint.                                                   *)
QuestionsInCodepoints ==
  \A s \in {s \in Source : ~IsNull(s)} :
    /\ StrLen(s) = Len(Text!TextOf(s))
    /\ StrSize(s) = Text!Weight(Text!TextOf(s))
    /\ \A u \in {u \in Source : ~IsNull(u)} :
         StrIndexString(s, u) = Text!FirstPlace(Text!TextOf(s), Text!TextOf(u))
    /\ \A r \in Rune :
         /\ Decoded(RuneToChars(r)) = <<r>> /\ Len(RuneToChars(r)) = RuneBytes(r)
         /\ StrIndexRune(s, r) = Text!FirstPlace(Text!TextOf(s), <<r>>)
=============================================================================
