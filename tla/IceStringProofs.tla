-------------------------- MODULE IceStringProofs --------------------------
(***************************************************************************)
(* Proofs about the strings of icestring.c, for strings of any length.     *)
(* First, induction over numbers, and what UTF-8 makes of one codepoint    *)
(* and back.  Then the bytes s that spell the codepoints t: the loop over  *)
(* s, and what is cut from s, put behind it and found in it, are those of  *)
(* t.  Last, the invariant of the blocks, each call by itself, and the     *)
(* refinement of IceText.                                                  *)
(***************************************************************************)
EXTENDS IceString, SequenceTheorems, WellFoundedInduction, TLAPS

(* Induction, from the well-foundedness of < and without a predicate as a    *)
(* parameter: a non-empty set of numbers has a least one.                    *)
LEMMA LeastNumber ==
  ASSUME NEW T \in SUBSET Nat, T # {}
  PROVE  \E n \in T : \A m \in T : n <= m
<1> DEFINE R == OpToRel(<, Nat)
<1>1. \A m, n \in Nat : m < n => <<m, n>> \in R
  BY DEF OpToRel
<1>2. IsWellFoundedOn(R, Nat)
  BY NatLessThanWellFounded
<1> HIDE DEF R
<1>3. PICK n \in T : \A m \in T : ~(<<m, n>> \in R)
  BY <1>2, WFMin
<1>4. ASSUME NEW m \in T
      PROVE  n <= m
  <2>1. m \in Nat /\ n \in Nat
    OBVIOUS
  <2>2. ~(m < n)
    BY <1>1, <1>3, <2>1, Zenon
  <2> QED
    BY <2>1, <2>2
<1> QED
  BY <1>4

(* A set with 0 and the successor of each of its numbers has them all.       *)
LEMMA Induction ==
  ASSUME NEW S, 0 \in S, \A n \in Nat : n \in S => n + 1 \in S
  PROVE  \A n \in Nat : n \in S
<1> DEFINE T == Nat \ S
<1> SUFFICES ASSUME T # {} PROVE FALSE
  OBVIOUS
<1>1. PICK n \in T : \A m \in T : n <= m
  BY LeastNumber
<1>2. n # 0 /\ n - 1 \in Nat
  BY <1>1
<1>3. n - 1 \notin T
  BY <1>1, <1>2
<1> QED
  BY <1>2, <1>3

(* There is a function that is defined by its value before.                  *)
LEMMA Recursion ==
  ASSUME NEW N \in Nat, NEW g \in [(1 .. N) \X Nat -> Nat]
  PROVE  \E f \in [0 .. N -> Nat] :
           f[0] = 0 /\ \A n \in 1 .. N : f[n] = g[<<n, f[n - 1]>>]
<1> DEFINE Upto(k) == {f \in [0 .. k -> Nat] :
                         f[0] = 0 /\ \A n \in 1 .. k : f[n] = g[<<n, f[n - 1]>>]}
           G == {k \in Nat : k <= N => Upto(k) # {}}
<1>1. 0 \in G
  <2>1. [n \in 0 .. 0 |-> 0] \in Upto(0)
    OBVIOUS
  <2> QED
    BY <2>1
<1>2. ASSUME NEW k \in Nat, k \in G
      PROVE  k + 1 \in G
  <2> SUFFICES ASSUME k + 1 <= N PROVE Upto(k + 1) # {}
    OBVIOUS
  <2>1. PICK f \in Upto(k) : TRUE
    BY <1>2
  <2>2. /\ f \in [0 .. k -> Nat] /\ f[0] = 0
        /\ \A n \in 1 .. k : f[n] = g[<<n, f[n - 1]>>]
    BY <2>1
  <2> DEFINE e == [n \in 0 .. k + 1 |-> IF n = k + 1 THEN g[<<k + 1, f[k]>>] ELSE f[n]]
  <2>3. g[<<k + 1, f[k]>>] \in Nat
    BY <2>2
  <2>4. e \in [0 .. k + 1 -> Nat]
    BY <2>2, <2>3
  <2>5. e[0] = 0 /\ e[k + 1] = g[<<k + 1, f[k]>>] /\ \A n \in 0 .. k : e[n] = f[n]
    BY <2>2
  <2> HIDE DEF e
  <2>6. ASSUME NEW n \in 1 .. k + 1
        PROVE  e[n] = g[<<n, e[n - 1]>>]
    <3>1. CASE n = k + 1
      <4>1. n - 1 = k /\ k \in 0 .. k
        BY <3>1
      <4> QED
        BY <2>5, <3>1, <4>1
    <3>2. CASE n # k + 1
      <4>1. n \in 1 .. k /\ n \in 0 .. k /\ n - 1 \in 0 .. k
        BY <3>2
      <4> QED
        BY <2>2, <2>5, <4>1
    <3> QED
      BY <3>1, <3>2
  <2>7. e \in Upto(k + 1)
    BY <2>4, <2>5, <2>6
  <2> QED
    BY <2>7
<1> HIDE DEF G
<1>3. \A k \in Nat : k \in G
  BY <1>1, <1>2, Induction
<1>4. Upto(N) # {}
  <2> HIDE DEF Upto
  <2> QED
    BY <1>3 DEF G
<1> QED
  BY <1>4

(* The bytes of a string, and the codepoints by the bytes they need.         *)
NonZero == Byte \ {0}
One(r) == 0 < r /\ r < 128
Two(r) == 128 <= r /\ r < 2048
Three(r) == 2048 <= r /\ r < 65536
Four(r) == 65536 <= r /\ (r \div 4096) \div 64 <= 4

(* str_rune_to_chars, case by case.                                          *)
LEMMA CharsOfRune ==
  ASSUME NEW r \in Nat
  PROVE  /\ One(r) => RuneToChars(r) = <<r>>
         /\ Two(r) => RuneToChars(r) = <<192 + r \div 64, Tail6(r, 1)>>
         /\ Three(r) =>
              RuneToChars(r) = <<224 + r \div 4096, Tail6(r, 64), Tail6(r, 1)>>
         /\ Four(r) =>
              RuneToChars(r) = <<240 + (r \div 4096) \div 64, Tail6(r, 4096),
                                 Tail6(r, 64), Tail6(r, 1)>>
<1>1. ASSUME One(r) PROVE RuneToChars(r) = <<r>>
  <2>1. r # 0 /\ 0 < r /\ r < 128
    BY <1>1, SMT DEF One
  <2> QED
    BY <2>1, SMT DEF RuneToChars
<1>2. ASSUME Two(r) PROVE RuneToChars(r) = <<192 + r \div 64, Tail6(r, 1)>>
  <2>1. r # 0 /\ ~(0 < r /\ r < 128) /\ 128 <= r /\ r < 2048
    BY <1>2, SMT DEF Two
  <2> QED
    BY <2>1, SMT DEF RuneToChars
<1>3. ASSUME Three(r)
      PROVE  RuneToChars(r) = <<224 + r \div 4096, Tail6(r, 64), Tail6(r, 1)>>
  <2>1. /\ r # 0 /\ ~(0 < r /\ r < 128) /\ ~(128 <= r /\ r < 2048)
        /\ 2048 <= r /\ r < 65536
    BY <1>3, SMT DEF Three
  <2> QED
    BY <2>1, SMT DEF RuneToChars
<1>4. ASSUME Four(r)
      PROVE  RuneToChars(r) = <<240 + (r \div 4096) \div 64, Tail6(r, 4096),
                                Tail6(r, 64), Tail6(r, 1)>>
  <2>1. /\ r # 0 /\ ~(0 < r /\ r < 128) /\ ~(128 <= r /\ r < 2048)
        /\ ~(2048 <= r /\ r < 65536)
    BY <1>4, SMT DEF Four
  <2> QED
    BY <2>1, SMT DEF RuneToChars
<1> QED
  BY <1>1, <1>2, <1>3, <1>4, SMT

(* utf8codepointsize, case by case.                                          *)
LEMMA LengthOfRune ==
  ASSUME NEW r \in Nat
  PROVE  /\ One(r) => RuneBytes(r) = 1
         /\ Two(r) => RuneBytes(r) = 2
         /\ Three(r) => RuneBytes(r) = 3
         /\ Four(r) => RuneBytes(r) = 4
BY SMT DEF RuneBytes, One, Two, Three, Four

(* The bytes behind the first one carry six bits each.                       *)
LEMMA Tails ==
  ASSUME NEW r \in Nat
  PROVE  /\ Tail6(r, 1) \in NonZero /\ Tail6(r, 1) % 64 = r % 64
         /\ Tail6(r, 64) \in NonZero /\ Tail6(r, 64) % 64 = (r \div 64) % 64
         /\ Tail6(r, 4096) \in NonZero /\ Tail6(r, 4096) % 64 = (r \div 4096) % 64
BY SMT DEF Tail6, NonZero, Byte

(* The first byte says how many there are.                                   *)
LEMMA Leading ==
  \A b \in Nat :
    /\ b < 128 => Step(b) = 1
    /\ 192 <= b /\ b < 224 => Step(b) = 2
    /\ 224 <= b /\ b < 240 => Step(b) = 3
    /\ 240 <= b => Step(b) = 4
BY SMT DEF Step

(* The elements of short tuples.                                             *)
LEMMA Tuples ==
  ASSUME NEW S
  PROVE  /\ \A a \in S : <<a>> \in Seq(S) /\ Len(<<a>>) = 1 /\ <<a>>[1] = a
         /\ \A a, b \in S : <<a, b>> \in Seq(S) /\ Len(<<a, b>>) = 2 /\ <<a, b>>[1] = a
         /\ \A a, b, c \in S :
              <<a, b, c>> \in Seq(S) /\ Len(<<a, b, c>>) = 3 /\ <<a, b, c>>[1] = a
         /\ \A a, b, c, d \in S :
              <<a, b, c, d>> \in Seq(S) /\ Len(<<a, b, c, d>>) = 4 /\ <<a, b, c, d>>[1] = a
OBVIOUS

(* utf8codepoint, case by case.                                              *)
LEMMA CodepointOf ==
  ASSUME NEW S, NEW s \in Seq(S)
  PROVE  /\ Len(s) = 1 => Codepoint(s) = s[1]
         /\ Len(s) = 2 => Codepoint(s) = ((s[1] % 32) * 64) + (s[2] % 64)
         /\ Len(s) = 3 =>
              Codepoint(s) = ((s[1] % 16) * 4096) + ((s[2] % 64) * 64) + (s[3] % 64)
         /\ Len(s) = 4 =>
              Codepoint(s) = (((s[1] % 8) * 64 + (s[2] % 64)) * 4096)
                               + ((s[3] % 64) * 64) + (s[4] % 64)
  BY SMT DEF Codepoint

(* The bytes of a string are numbers from 1 to 255.                          *)
LEMMA NonZeroByte ==
  \A b \in NonZero : b \in Nat /\ b # 0 /\ b < 256
BY SMT DEF NonZero, Byte

(* A codepoint needs one to four bytes.                                      *)
LEMMA RuneRanges ==
  ASSUME NEW r \in Unicode
  PROVE  /\ r \in Nat
         /\ \/ One(r) \/ Two(r) \/ Three(r)
            \/ Four(r)
BY SMT DEF Unicode, One, Two, Three, Four

(* str_rune_to_chars writes as many bytes as utf8codepointsize says, none of *)
(* them 0, and the first tells their number.                                 *)
LEMMA RuneLength ==
  ASSUME NEW r \in Unicode
  PROVE  /\ RuneToChars(r) \in Seq(NonZero)
         /\ RuneBytes(r) \in 1 .. 4
         /\ Len(RuneToChars(r)) = RuneBytes(r)
         /\ Step(RuneToChars(r)[1]) = RuneBytes(r)
<1>0. r \in Nat
  BY RuneRanges
<1>1. CASE One(r)
  <2>1. r \in NonZero /\ Step(r) = 1
    BY <1>0, <1>1, Leading, SMT DEF NonZero, Byte, One
  <2>2. RuneToChars(r) = <<r>> /\ RuneBytes(r) = 1
    BY <1>0, <1>1, CharsOfRune, LengthOfRune, SMT
  <2> QED
    BY <2>1, <2>2, Tuples, SMT
<1>2. CASE Two(r)
  <2> DEFINE b == 192 + r \div 64
  <2>1. b \in Nat /\ 192 <= b /\ b < 224
    BY <1>0, <1>2, SMT DEF Two
  <2>2. b \in NonZero /\ Step(b) = 2
    BY <2>1, Leading, SMT DEF NonZero, Byte
  <2>3. RuneToChars(r) = <<b, Tail6(r, 1)>> /\ RuneBytes(r) = 2
    BY <1>0, <1>2, CharsOfRune, LengthOfRune, SMT
  <2> HIDE DEF b
  <2> QED
    BY <1>0, <2>2, <2>3, Tails, Tuples, SMT
<1>3. CASE Three(r)
  <2> DEFINE b == 224 + r \div 4096
  <2>1. b \in Nat /\ 224 <= b /\ b < 240
    BY <1>0, <1>3, SMT DEF Three
  <2>2. b \in NonZero /\ Step(b) = 3
    BY <2>1, Leading, SMT DEF NonZero, Byte
  <2>3. RuneToChars(r) = <<b, Tail6(r, 64), Tail6(r, 1)>> /\ RuneBytes(r) = 3
    BY <1>0, <1>3, CharsOfRune, LengthOfRune, SMT
  <2> HIDE DEF b
  <2> QED
    BY <1>0, <2>2, <2>3, Tails, Tuples, SMT
<1>4. CASE Four(r)
  <2> DEFINE b == 240 + (r \div 4096) \div 64
  <2>1. b \in Nat /\ 240 <= b /\ b < 245
    BY <1>0, <1>4, SMT DEF Four
  <2>2. b \in NonZero /\ Step(b) = 4
    BY <2>1, Leading, SMT DEF NonZero, Byte
  <2>3. /\ RuneToChars(r) = <<b, Tail6(r, 4096), Tail6(r, 64), Tail6(r, 1)>>
        /\ RuneBytes(r) = 4
    BY <1>0, <1>4, CharsOfRune, LengthOfRune, SMT
  <2> HIDE DEF b
  <2> QED
    BY <1>0, <2>2, <2>3, Tails, Tuples, SMT
<1> QED
  BY <1>1, <1>2, <1>3, <1>4, RuneRanges

(* utf8codepoint gives back the rune that str_rune_to_chars wrote.           *)
LEMMA RuneDecoded ==
  ASSUME NEW r \in Unicode
  PROVE  Codepoint(RuneToChars(r)) = r
<1> DEFINE s == RuneToChars(r)
           t1 == Tail6(r, 1)
           t2 == Tail6(r, 64)
           t3 == Tail6(r, 4096)
<1>0. r \in Nat /\ s \in Seq(NonZero)
  BY RuneRanges, RuneLength
<1>n. /\ t1 \in NonZero /\ t1 % 64 = r % 64
      /\ t2 \in NonZero /\ t2 % 64 = (r \div 64) % 64
      /\ t3 \in NonZero /\ t3 % 64 = (r \div 4096) % 64
  BY <1>0, Tails, SMT
<1>1. CASE One(r)
  <2>1. s = <<r>>
    BY <1>0, <1>1, CharsOfRune, SMT
  <2>2. Len(s) = 1 /\ s[1] = r
    BY <2>1
  <2> QED
    BY <1>0, <2>2, CodepointOf, SMT
<1>2. CASE Two(r)
  <2> DEFINE b == 192 + r \div 64
  <2>1. s = <<b, t1>>
    BY <1>0, <1>2, CharsOfRune, SMT
  <2>2. b % 32 = r \div 64
    BY <1>0, <1>2, SMT DEF Two
  <2>3. ((r \div 64) * 64) + (r % 64) = r
    BY <1>0, SMT
  <2> HIDE DEF b, t1, s
  <2>4. Len(s) = 2 /\ s[1] = b /\ s[2] = t1
    BY <2>1
  <2>5. Codepoint(s) = ((b % 32) * 64) + (t1 % 64)
    BY <1>0, <2>4, CodepointOf, SMT
  <2> QED
    BY <1>n, <2>2, <2>3, <2>5, SMT DEF s
<1>3. CASE Three(r)
  <2> DEFINE b == 224 + r \div 4096
  <2>1. s = <<b, t2, t1>>
    BY <1>0, <1>3, CharsOfRune, SMT
  <2>2. b % 16 = r \div 4096
    BY <1>0, <1>3, SMT DEF Three
  <2>3. ((r \div 4096) * 4096) + (((r \div 64) % 64) * 64) + (r % 64) = r
    BY <1>0, SMT
  <2> HIDE DEF b, t1, t2, s
  <2>4. Len(s) = 3 /\ s[1] = b /\ s[2] = t2 /\ s[3] = t1
    BY <2>1
  <2>5. Codepoint(s) = ((b % 16) * 4096) + ((t2 % 64) * 64) + (t1 % 64)
    BY <1>0, <2>4, CodepointOf, SMT
  <2> QED
    BY <1>n, <2>2, <2>3, <2>5, SMT DEF s
<1>4. CASE Four(r)
  <2> DEFINE h == r \div 4096
             b == 240 + h \div 64
  <2>1. s = <<b, t3, t2, t1>>
    BY <1>0, <1>4, CharsOfRune, SMT
  <2>2. b % 8 = h \div 64
    BY <1>0, <1>4, SMT DEF Four
  <2>3. (h * 4096) + (((r \div 64) % 64) * 64) + (r % 64) = r
    BY <1>0, SMT
  <2>4. t3 % 64 = h % 64 /\ h \in Nat
    BY <1>0, <1>n, SMT
  <2> HIDE DEF b, h, t1, t2, t3, s
  <2>5. ((h \div 64) * 64) + (h % 64) = h
    BY <2>4, SMT
  <2>6. Len(s) = 4 /\ s[1] = b /\ s[2] = t3 /\ s[3] = t2 /\ s[4] = t1
    BY <2>1
  <2>7. Codepoint(s) = (((b % 8) * 64 + (t3 % 64)) * 4096) + ((t2 % 64) * 64) + (t1 % 64)
    BY <1>0, <2>6, CodepointOf, SMT
  <2>8. Codepoint(s) = (((h \div 64) * 64 + (h % 64)) * 4096)
                         + (((r \div 64) % 64) * 64) + (r % 64)
    BY <1>n, <2>2, <2>4, <2>7
  <2> QED
    BY <2>3, <2>5, <2>8, SMT DEF s
<1> QED
  BY <1>1, <1>2, <1>3, <1>4, RuneRanges

(* utf8codepoint moves on.                                                   *)
LEMMA StepForward ==
  \A b \in Nat : Step(b) \in Nat /\ Step(b) > 0
BY SMT DEF Step

(* The loop over a string moves on, up to its end.                           *)
LEMMA AdvanceForward ==
  ASSUME NEW s \in Seq(NonZero), NEW p \in Nat
  PROVE  /\ Advance(s, p) \in Nat /\ Advance(s, p) >= p
         /\ p < Len(s) => Advance(s, p) > p
<1>1. CASE p < Len(s)
  <2>1. s[p + 1] \in Nat
    BY <1>1, NonZeroByte
  <2>2. Advance(s, p) = p + Step(s[p + 1])
    BY <1>1 DEF Advance
  <2>3. Step(s[p + 1]) \in Nat /\ Step(s[p + 1]) > 0
    BY <2>1, StepForward
  <2> QED
    BY <2>2, <2>3
<1>2. CASE ~(p < Len(s))
  BY <1>2 DEF Advance
<1> QED
  BY <1>1, <1>2

(* The loop over a string is a function, and each round one Advance.         *)
LEMMA WalkStep ==
  ASSUME NEW s \in Seq(NonZero)
  PROVE  /\ Walk(s) \in [0 .. Len(s) -> Nat] /\ Walk(s)[0] = 0
         /\ \A n \in 1 .. Len(s) : Walk(s)[n] = Advance(s, Walk(s)[n - 1])
<1> DEFINE F(at) == [n \in 0 .. Len(s) |-> IF n = 0 THEN 0 ELSE Advance(s, at[n - 1])]
           g == [x \in (1 .. Len(s)) \X Nat |-> Advance(s, x[2])]
<1>1. g \in [(1 .. Len(s)) \X Nat -> Nat]
  BY AdvanceForward
<1>2. \A n \in 1 .. Len(s), p \in Nat : g[<<n, p>>] = Advance(s, p)
  OBVIOUS
<1>l. Len(s) \in Nat
  OBVIOUS
<1> HIDE DEF g
<1>3. PICK f \in [0 .. Len(s) -> Nat] :
        f[0] = 0 /\ \A n \in 1 .. Len(s) : f[n] = g[<<n, f[n - 1]>>]
  <2>1. \E f \in [0 .. Len(s) -> Nat] :
          f[0] = 0 /\ \A n \in 1 .. Len(s) : f[n] = g[<<n, f[n - 1]>>]
    BY <1>1, <1>l, Recursion, Zenon
  <2> QED
    BY <2>1
<1>4. f = F(f)
  <2>1. ASSUME NEW n \in 0 .. Len(s), n # 0
        PROVE  f[n] = Advance(s, f[n - 1])
    <3>1. n \in 1 .. Len(s) /\ f[n - 1] \in Nat
      BY <1>l, <2>1
    <3> QED
      BY <1>2, <1>3, <3>1
  <2> QED
    BY <1>3, <2>1
<1>5. Walk(s) = CHOOSE at : at = F(at)
  BY DEF Walk
<1>6. Walk(s) = F(Walk(s))
  BY <1>4, <1>5
<1> DEFINE w == Walk(s)
<1> HIDE DEF w
<1>7. w = F(w)
  BY <1>6 DEF w
<1>8. /\ w = [n \in 0 .. Len(s) |-> w[n]] /\ w[0] = 0
      /\ \A n \in 1 .. Len(s) : w[n] = Advance(s, w[n - 1])
  <2>1. \A n \in 0 .. Len(s) :
          w[n] = IF n = 0 THEN 0 ELSE Advance(s, w[n - 1])
    BY <1>7, Zenon
  <2>2. w = [n \in 0 .. Len(s) |-> w[n]]
    BY <1>7, <2>1, Zenon
  <2>3. w[0] = 0
    BY <1>l, <2>1
  <2>4. ASSUME NEW n \in 1 .. Len(s)
        PROVE  w[n] = Advance(s, w[n - 1])
    <3>1. n \in 0 .. Len(s) /\ n # 0
      BY <1>l
    <3> QED
      BY <2>1, <3>1, Zenon
  <2> QED
    BY <2>2, <2>3, <2>4, Zenon
<1> DEFINE G == {n \in Nat : n <= Len(s) => w[n] \in Nat}
<1>9. \A n \in Nat : n \in G
  <2>1. 0 \in G
    BY <1>8
  <2>2. ASSUME NEW n \in Nat, n \in G
        PROVE  n + 1 \in G
    <3> SUFFICES ASSUME n + 1 <= Len(s) PROVE w[n + 1] \in Nat
      OBVIOUS
    <3>1. w[n] \in Nat /\ n + 1 \in 1 .. Len(s) /\ (n + 1) - 1 = n
      BY <1>l, <2>2
    <3>2. w[n + 1] = Advance(s, w[n])
      BY <1>8, <3>1
    <3> QED
      BY <3>1, <3>2, AdvanceForward
  <2> HIDE DEF G
  <2> QED
    BY <2>1, <2>2, Induction
<1>10. w \in [0 .. Len(s) -> Nat]
  BY <1>8, <1>9, <1>l
<1> QED
  BY <1>8, <1>10 DEF w

(* What does not fall from one place to the next does not fall at all.       *)
LEMMA Rising ==
  ASSUME NEW N \in Nat, NEW f \in [0 .. N -> Int],
         \A n \in 1 .. N : f[n - 1] <= f[n]
  PROVE  \A i, j \in 0 .. N : i <= j => f[i] <= f[j]
<1> DEFINE G == {d \in Nat : \A i \in 0 .. N : i + d <= N => f[i] <= f[i + d]}
<1>1. 0 \in G
  OBVIOUS
<1>2. ASSUME NEW d \in Nat, d \in G
      PROVE  d + 1 \in G
  <2> SUFFICES ASSUME NEW i \in 0 .. N, i + (d + 1) <= N
               PROVE  f[i] <= f[i + (d + 1)]
    OBVIOUS
  <2>1. f[i] <= f[i + d]
    BY <1>2
  <2>2. i + d \in 0 .. N /\ i + (d + 1) \in 1 .. N /\ (i + (d + 1)) - 1 = i + d
    OBVIOUS
  <2>3. f[i + d] <= f[i + (d + 1)]
    BY <2>2
  <2>4. f[i] \in Int /\ f[i + d] \in Int /\ f[i + (d + 1)] \in Int
    BY <2>2
  <2> QED
    BY <2>1, <2>3, <2>4
<1> HIDE DEF G
<1>3. \A d \in Nat : d \in G
  BY <1>1, <1>2, Induction
<1> SUFFICES ASSUME NEW i \in 0 .. N, NEW j \in 0 .. N, i <= j
             PROVE  f[i] <= f[j]
  OBVIOUS
<1> DEFINE d == j - i
<1>4. d \in Nat /\ i + d = j
  OBVIOUS
<1> HIDE DEF d
<1>5. f[i] <= f[i + d]
  <2>1. d \in G /\ i + d <= N
    BY <1>3, <1>4
  <2> QED
    BY <2>1 DEF G
<1> QED
  BY <1>4, <1>5

(* The loop over a string never goes back.                                   *)
LEMMA WalkRises ==
  ASSUME NEW s \in Seq(NonZero)
  PROVE  \A i, j \in 0 .. Len(s) : i <= j => Walk(s)[i] <= Walk(s)[j]
<1>1. Walk(s) \in [0 .. Len(s) -> Int] /\ Len(s) \in Nat
  BY WalkStep
<1>2. ASSUME NEW n \in 1 .. Len(s)
      PROVE  Walk(s)[n - 1] <= Walk(s)[n]
  <2>1. Walk(s)[n - 1] \in Nat
    BY WalkStep
  <2> QED
    BY <2>1, WalkStep, AdvanceForward
<1> QED
  BY <1>1, <1>2, Rising
-----------------------------------------------------------------------------
(* The bytes s are those of the codepoints t; that at index n begins where   *)
(* q says.                                                                   *)
Spells(s, q, t) ==
  /\ s \in Seq(NonZero) /\ t \in Seq(Rune)
  /\ q \in [0 .. Len(t) -> Nat] /\ q[0] = 0 /\ q[Len(t)] = Len(s)
  /\ \A n \in 1 .. Len(t) :
       /\ q[n] = q[n - 1] + RuneBytes(t[n])
       /\ \A k \in 1 .. RuneBytes(t[n]) : s[q[n - 1] + k] = RuneToChars(t[n])[k]

(* What the lemmas on Unicode say of the codepoints of the model.            *)
LEMMA RuneFacts ==
  ASSUME NEW r \in Rune
  PROVE  /\ RuneToChars(r) \in Seq(NonZero)
         /\ RuneBytes(r) \in Nat /\ RuneBytes(r) > 0
         /\ Len(RuneToChars(r)) = RuneBytes(r)
         /\ Step(RuneToChars(r)[1]) = RuneBytes(r)
         /\ Codepoint(RuneToChars(r)) = r
<1>1. r \in Unicode
  BY StringAssumption
<1> QED
  BY <1>1, RuneLength, RuneDecoded

(* Places of codepoints.                                                     *)
LEMMA Places ==
  ASSUME NEW s, NEW q, NEW t, Spells(s, q, t)
  PROVE  /\ \A i, j \in 0 .. Len(t) : i <= j => q[i] + (j - i) <= q[j]
         /\ \A n \in 0 .. Len(t) : q[n] \in Nat /\ n <= q[n] /\ q[n] <= Len(s)
         /\ Len(t) <= Len(s)
<1> DEFINE f == [n \in 0 .. Len(t) |-> q[n] - n]
<1>1. /\ Len(t) \in Nat /\ q \in [0 .. Len(t) -> Nat] /\ q[0] = 0 /\ q[Len(t)] = Len(s)
      /\ \A n \in 1 .. Len(t) : q[n] = q[n - 1] + RuneBytes(t[n]) /\ t[n] \in Rune
  BY DEF Spells
<1>2. \A n \in 0 .. Len(t) : q[n] \in Nat /\ f[n] = q[n] - n /\ f[n] \in Int
  BY <1>1
<1>3. f \in [0 .. Len(t) -> Int]
  BY <1>2
<1> HIDE DEF f
<1>4. ASSUME NEW n \in 1 .. Len(t)
      PROVE  f[n - 1] <= f[n]
  <2>1. n - 1 \in 0 .. Len(t) /\ n \in 0 .. Len(t)
    BY <1>1
  <2>2. /\ q[n] = q[n - 1] + RuneBytes(t[n])
        /\ RuneBytes(t[n]) \in Nat /\ RuneBytes(t[n]) > 0
    BY <1>1, RuneFacts
  <2> QED
    BY <1>2, <2>1, <2>2
<1>5. \A i, j \in 0 .. Len(t) : i <= j => f[i] <= f[j]
  BY <1>1, <1>3, <1>4, Rising
<1>6. ASSUME NEW i \in 0 .. Len(t), NEW j \in 0 .. Len(t), i <= j
      PROVE  q[i] + (j - i) <= q[j]
  <2>1. f[i] <= f[j] /\ f[i] = q[i] - i /\ f[j] = q[j] - j /\ q[i] \in Nat /\ q[j] \in Nat
    BY <1>2, <1>5, <1>6
  <2> QED
    BY <2>1
<1>7. 0 \in 0 .. Len(t) /\ Len(t) \in 0 .. Len(t)
  BY <1>1
<1>8. ASSUME NEW n \in 0 .. Len(t)
      PROVE  q[n] \in Nat /\ n <= q[n] /\ q[n] <= Len(s)
  <2>1. q[0] + (n - 0) <= q[n] /\ q[n] + (Len(t) - n) <= q[Len(t)]
    BY <1>1, <1>6, <1>7
  <2> QED
    BY <1>1, <1>2, <2>1
<1> QED
  BY <1>1, <1>6, <1>7, <1>8

(* The loop comes to where each codepoint begins, and stays at the end.      *)
LEMMA WalkSpelled ==
  ASSUME NEW s, NEW q, NEW t, Spells(s, q, t)
  PROVE  /\ \A n \in 0 .. Len(t) : Walk(s)[n] = q[n]
         /\ \A n \in Len(t) .. Len(s) : Walk(s)[n] = Len(s)
<1>1. /\ s \in Seq(NonZero) /\ t \in Seq(Rune) /\ Len(t) \in Nat /\ Len(s) \in Nat
      /\ q[0] = 0 /\ q[Len(t)] = Len(s) /\ Len(t) <= Len(s)
  <2>1. Len(t) <= Len(s)
    BY Places
  <2> QED
    BY <2>1 DEF Spells
<1> DEFINE G == {n \in Nat : /\ n <= Len(t) => Walk(s)[n] = q[n]
                             /\ n >= Len(t) /\ n <= Len(s) => Walk(s)[n] = Len(s)}
<1>2. 0 \in G
  BY <1>1, WalkStep
<1>3. ASSUME NEW n \in Nat, n \in G
      PROVE  n + 1 \in G
  <2>1. ASSUME n + 1 <= Len(t)
        PROVE  Walk(s)[n + 1] = q[n + 1]
    <3>1. /\ n + 1 \in 1 .. Len(s) /\ n + 1 \in 1 .. Len(t) /\ (n + 1) - 1 = n
          /\ n \in 0 .. Len(t) /\ n + 1 \in 0 .. Len(t)
      BY <1>1, <2>1
    <3>2. Walk(s)[n + 1] = Advance(s, q[n])
      BY <1>1, <1>3, <2>1, <3>1, WalkStep
    <3> DEFINE r == t[n + 1]
    <3>3. r \in Rune
      BY <1>1, <3>1
    <3>4. /\ RuneBytes(r) \in Nat /\ RuneBytes(r) > 0
          /\ Step(RuneToChars(r)[1]) = RuneBytes(r)
      BY <3>3, RuneFacts
    <3>5. /\ q[n + 1] = q[n] + RuneBytes(r)
          /\ \A k \in 1 .. RuneBytes(r) : s[q[n] + k] = RuneToChars(r)[k]
      BY <3>1 DEF Spells
    <3>6. q[n] \in Nat /\ q[n + 1] <= Len(s)
      BY <3>1, Places
    <3> HIDE DEF r
    <3>7. s[q[n] + 1] = RuneToChars(r)[1] /\ q[n] < Len(s)
      BY <1>1, <3>4, <3>5, <3>6
    <3> QED
      BY <3>2, <3>4, <3>5, <3>7 DEF Advance
  <2>2. ASSUME n + 1 >= Len(t), n + 1 <= Len(s)
        PROVE  Walk(s)[n + 1] = Len(s)
    <3>1. CASE n + 1 = Len(t)
      BY <1>1, <2>1, <3>1
    <3>2. CASE n + 1 # Len(t)
      <4>1. Walk(s)[n] = Len(s)
        BY <1>1, <1>3, <2>2, <3>2
      <4>2. n + 1 \in 1 .. Len(s) /\ (n + 1) - 1 = n
        BY <1>1, <2>2
      <4>3. Walk(s)[n + 1] = Advance(s, Len(s))
        BY <1>1, <4>1, <4>2, WalkStep
      <4> QED
        BY <1>1, <4>3 DEF Advance
    <3> QED
      BY <3>1, <3>2
  <2> QED
    BY <2>1, <2>2
<1> HIDE DEF G
<1>4. \A n \in Nat : n \in G
  BY <1>2, <1>3, Induction
<1> QED
  BY <1>1, <1>4 DEF G

(* str_len counts the codepoints.                                            *)
LEMMA LengthSpelled ==
  ASSUME NEW s, NEW q, NEW t, Spells(s, q, t)
  PROVE  Length(s) = Len(t)
<1>1. /\ Len(t) \in Nat /\ Len(s) \in Nat /\ Len(t) <= Len(s) /\ q[Len(t)] = Len(s)
  <2>1. Len(t) <= Len(s)
    BY Places
  <2> QED
    BY <2>1 DEF Spells
<1> DEFINE End(n) == Walk(s)[n] >= Len(s) /\ (n > 0 => Walk(s)[n - 1] < Len(s))
<1>2. \A n \in 0 .. Len(t) :
        Walk(s)[n] = q[n] /\ q[n] \in Nat /\ q[n] + (Len(t) - n) <= Len(s)
  BY <1>1, WalkSpelled, Places
<1>3. End(Len(t))
  <2>1. Walk(s)[Len(t)] >= Len(s)
    BY <1>1, <1>2
  <2>2. ASSUME Len(t) > 0
        PROVE  Walk(s)[Len(t) - 1] < Len(s)
    <3>1. Len(t) - 1 \in 0 .. Len(t)
      BY <1>1, <2>2
    <3> QED
      BY <1>1, <1>2, <3>1
  <2> QED
    BY <2>1, <2>2
<1>4. ASSUME NEW n \in 0 .. Len(s), End(n)
      PROVE  n = Len(t)
  <2>1. CASE n < Len(t)
    <3>1. n \in 0 .. Len(t)
      BY <1>1, <2>1
    <3> QED
      BY <1>1, <1>2, <1>4, <2>1, <3>1
  <2>2. CASE n > Len(t)
    <3>1. n - 1 \in Len(t) .. Len(s) /\ n > 0
      BY <1>1, <2>2
    <3>2. Walk(s)[n - 1] = Len(s)
      BY <3>1, WalkSpelled
    <3> QED
      BY <1>1, <1>4, <3>1, <3>2
  <2> QED
    BY <1>1, <2>1, <2>2
<1>5. Length(s) = CHOOSE n \in 0 .. Len(s) : End(n)
  BY DEF Length
<1> HIDE DEF End
<1>6. Len(t) \in 0 .. Len(s)
  BY <1>1
<1> QED
  BY <1>3, <1>4, <1>5, <1>6

(* Between two rounds of the loop are the bytes of one codepoint.            *)
LEMMA CharsSpelled ==
  ASSUME NEW s, NEW q, NEW t, Spells(s, q, t), NEW n \in 1 .. Len(t)
  PROVE  Chars(s, n) = RuneToChars(t[n])
<1> DEFINE c == SubSeq(s, q[n - 1] + 1, q[n])
           r == t[n]
<1>1. /\ s \in Seq(NonZero) /\ Len(t) \in Nat /\ Len(s) \in Nat /\ r \in Rune
      /\ n \in 0 .. Len(t) /\ n - 1 \in 0 .. Len(t)
  BY DEF Spells
<1>2. /\ q[n - 1] \in Nat /\ q[n] \in Nat /\ q[n] <= Len(s)
      /\ q[n] = q[n - 1] + RuneBytes(r)
      /\ \A k \in 1 .. RuneBytes(r) : s[q[n - 1] + k] = RuneToChars(r)[k]
  BY <1>1, Places DEF Spells
<1>3. /\ RuneToChars(r) \in Seq(NonZero) /\ Len(RuneToChars(r)) = RuneBytes(r)
      /\ RuneBytes(r) \in Nat /\ RuneBytes(r) > 0
  BY <1>1, RuneFacts
<1>4. Chars(s, n) = c
  BY <1>1, WalkSpelled DEF Chars
<1> HIDE DEF r
<1>5. /\ c \in Seq(NonZero) /\ Len(c) = RuneBytes(r)
      /\ \A k \in 1 .. RuneBytes(r) : c[k] = s[q[n - 1] + k]
  <2>1. c \in Seq(NonZero) /\ Len(c) = RuneBytes(r)
    BY <1>1, <1>2, <1>3
  <2>2. ASSUME NEW k \in 1 .. RuneBytes(r)
        PROVE  c[k] = s[q[n - 1] + k]
    BY <1>1, <1>2, <1>3
  <2> QED
    BY <2>1, <2>2
<1> HIDE DEF c
<1>6. c = RuneToChars(r)
  <2>1. \A k \in 1 .. Len(c) : c[k] = RuneToChars(r)[k]
    BY <1>2, <1>5
  <2> QED
    BY <1>3, <1>5, <2>1, SeqEqual
<1> QED
  BY <1>4, <1>6 DEF r

(* What the bytes are decoded to is what they spell.                         *)
LEMMA DecodedSpelled ==
  ASSUME NEW s, NEW q, NEW t, Spells(s, q, t)
  PROVE  Decoded(s) = t
<1>1. t \in Seq(Rune)
  BY DEF Spells
<1>2. \A n \in 1 .. Len(t) : Codepoint(Chars(s, n)) = t[n]
  BY <1>1, CharsSpelled, RuneFacts
<1>3. Decoded(s) = [n \in 1 .. Len(t) |-> Codepoint(Chars(s, n))]
  BY LengthSpelled DEF Decoded
<1>4. Decoded(s) = [n \in 1 .. Len(t) |-> t[n]]
  BY <1>2, <1>3
<1> QED
  BY <1>1, <1>4

(* What spells codepoints is UTF-8.                                          *)
LEMMA Utf8Spelled ==
  ASSUME NEW s, NEW q, NEW t, Spells(s, q, t)
  PROVE  IsUtf8(s)
<1>1. Len(s) \in Len(t) .. Len(s) /\ t \in Seq(Rune)
  <2>1. Len(t) <= Len(s)
    BY Places
  <2> QED
    BY <2>1 DEF Spells
<1>2. Walk(s)[Len(s)] = Len(s)
  BY <1>1, WalkSpelled
<1>3. \A n \in 1 .. Length(s) : \E r \in Rune : Chars(s, n) = RuneToChars(r)
  BY <1>1, LengthSpelled, CharsSpelled
<1> QED
  BY <1>2, <1>3 DEF IsUtf8

(* UTF-8 spells codepoints, beginning where the loop comes to.               *)
LEMMA Spelling ==
  ASSUME NEW s \in Seq(NonZero), IsUtf8(s)
  PROVE  \E q, t : Spells(s, q, t)
<1> DEFINE w == Walk(s)
           L == Length(s)
           End(n) == w[n] >= Len(s) /\ (n > 0 => w[n - 1] < Len(s))
<1>1. /\ w \in [0 .. Len(s) -> Nat] /\ w[0] = 0 /\ Len(s) \in Nat
      /\ w[Len(s)] = Len(s) /\ \A i, j \in 0 .. Len(s) : i <= j => w[i] <= w[j]
  BY WalkStep, WalkRises DEF IsUtf8
<1>2. L = CHOOSE n \in 0 .. Len(s) : End(n)
  BY DEF Length
<1>3. \A n \in 1 .. L : \E r \in Rune : Chars(s, n) = RuneToChars(r)
  BY DEF IsUtf8
<1>4. \A n \in 1 .. L : Chars(s, n) = SubSeq(s, w[n - 1] + 1, w[n])
  BY DEF Chars
<1> HIDE DEF w, L
<1>5. L \in 0 .. Len(s) /\ w[L] = Len(s)
  <2> DEFINE T == {n \in 0 .. Len(s) : w[n] >= Len(s)}
  <2>1. Len(s) \in T /\ T \in SUBSET Nat
    BY <1>1
  <2> HIDE DEF T
  <2>2. PICK n \in T : \A m \in T : n <= m
    BY <2>1, LeastNumber
  <2>3. n \in 0 .. Len(s) /\ w[n] >= Len(s)
    BY <2>2 DEF T
  <2>4. ASSUME n > 0
        PROVE  w[n - 1] < Len(s)
    <3>1. n - 1 \in 0 .. Len(s) /\ ~(n <= n - 1)
      BY <1>1, <2>3, <2>4
    <3>2. ~(n - 1 \in T)
      BY <2>2, <3>1
    <3> QED
      BY <1>1, <3>1, <3>2 DEF T
  <2>5. End(n)
    BY <2>3, <2>4
  <2> HIDE DEF End
  <2>6. L \in 0 .. Len(s) /\ End(L)
    BY <1>2, <2>3, <2>5
  <2> QED
    BY <1>1, <2>6 DEF End
<1> DEFINE t == [n \in 1 .. L |-> CHOOSE r \in Rune : Chars(s, n) = RuneToChars(r)]
           q == [n \in 0 .. L |-> w[n]]
<1>6. \A n \in 1 .. L : t[n] \in Rune /\ Chars(s, n) = RuneToChars(t[n])
  BY <1>3
<1>7. t \in Seq(Rune) /\ Len(t) = L
  <2>1. L \in Nat
    BY <1>1, <1>5
  <2>2. t \in [1 .. L -> Rune]
    BY <1>6
  <2> HIDE DEF t
  <2> QED
    BY <2>1, <2>2
<1>8. /\ q \in [0 .. L -> Nat] /\ q[0] = 0 /\ q[L] = Len(s)
      /\ \A n \in 0 .. L : q[n] = w[n]
  BY <1>1, <1>5
<1> HIDE DEF t, q
<1>9. ASSUME NEW n \in 1 .. L
      PROVE  /\ q[n] = q[n - 1] + RuneBytes(t[n])
             /\ \A k \in 1 .. RuneBytes(t[n]) : s[q[n - 1] + k] = RuneToChars(t[n])[k]
  <2> DEFINE r == t[n]
             c == RuneToChars(r)
             a == q[n - 1]
             b == q[n]
  <2>1. /\ r \in Rune /\ c \in Seq(NonZero) /\ Len(c) = RuneBytes(r)
        /\ RuneBytes(r) \in Nat /\ RuneBytes(r) > 0
    BY <1>6, RuneFacts
  <2>2. n \in 0 .. Len(s) /\ n - 1 \in 0 .. Len(s) /\ n \in 0 .. L /\ n - 1 \in 0 .. L
    BY <1>1, <1>5
  <2>3. a = w[n - 1] /\ b = w[n] /\ a \in Nat /\ b \in Nat /\ a <= b /\ b <= Len(s)
    <3>1. L \in 0 .. Len(s) /\ n <= L /\ n - 1 <= n
      BY <1>5, <2>2
    <3>2. w[n - 1] <= w[n] /\ w[n] <= w[L]
      BY <1>1, <2>2, <3>1
    <3> QED
      BY <1>1, <1>5, <1>8, <2>2, <3>2
  <2>4. c = SubSeq(s, a + 1, b)
    BY <1>4, <1>6, <2>3
  <2> HIDE DEF r, c, a, b
  <2>5. Len(c) = b - a /\ \A k \in 1 .. b - a : c[k] = s[a + k]
    <3>0. Len(s) \in Nat /\ a \in Nat /\ b \in Nat /\ a <= b /\ b <= Len(s)
      BY <1>1, <2>3
    <3>1. Len(c) = b - a
      BY <2>4, <3>0
    <3>2. ASSUME NEW k \in 1 .. b - a
          PROVE  c[k] = s[a + k]
      BY <2>4, <3>0
    <3> QED
      BY <3>1, <3>2
  <2>6. b = a + RuneBytes(r) /\ \A k \in 1 .. RuneBytes(r) : s[a + k] = c[k]
    BY <2>1, <2>3, <2>5
  <2> QED
    BY <2>6 DEF r, c, a, b
<1>10. Spells(s, q, t)
  BY <1>7, <1>8, <1>9 DEF Spells
<1> QED
  BY <1>10

(* The empty string spells nothing.                                          *)
LEMMA EmptySpelled ==
  Spells(<<>>, [n \in 0 .. 0 |-> 0], <<>>)
BY DEF Spells

(* The bytes of a codepoint spell it.                                        *)
LEMMA RuneSpelled ==
  ASSUME NEW r \in Rune
  PROVE  Spells(RuneToChars(r),
                [n \in 0 .. 1 |-> IF n = 0 THEN 0 ELSE RuneBytes(r)], <<r>>)
<1> DEFINE q == [n \in 0 .. 1 |-> IF n = 0 THEN 0 ELSE RuneBytes(r)]
           t == <<r>>
<1>1. /\ RuneToChars(r) \in Seq(NonZero) /\ RuneBytes(r) \in Nat
      /\ Len(RuneToChars(r)) = RuneBytes(r)
  BY RuneFacts
<1>2. t \in Seq(Rune) /\ Len(t) = 1 /\ t[1] = r
  OBVIOUS
<1>3. q \in [0 .. 1 -> Nat] /\ q[0] = 0 /\ q[1] = RuneBytes(r)
  BY <1>1
<1> HIDE DEF q, t
<1>4. ASSUME NEW n \in 1 .. Len(t)
      PROVE  /\ q[n] = q[n - 1] + RuneBytes(t[n])
             /\ \A k \in 1 .. RuneBytes(t[n]) :
                  RuneToChars(r)[q[n - 1] + k] = RuneToChars(t[n])[k]
  <2>1. n = 1 /\ n - 1 = 0
    BY <1>2
  <2>2. \A k \in 1 .. RuneBytes(t[n]) : k \in Nat /\ q[n - 1] + k = k
    BY <1>1, <1>2, <1>3, <2>1
  <2> QED
    BY <1>1, <1>2, <1>3, <2>1, <2>2
<1>5. Spells(RuneToChars(r), q, t)
  BY <1>1, <1>2, <1>3, <1>4 DEF Spells
<1> QED
  BY <1>5 DEF q, t

(* Cut between codepoints, the bytes spell the codepoints between.           *)
LEMMA CutSpelled ==
  ASSUME NEW s, NEW q, NEW t, Spells(s, q, t),
         NEW i \in 0 .. Len(t), NEW j \in 0 .. Len(t), i <= j
  PROVE  Spells(SubSeq(s, q[i] + 1, q[j]), [n \in 0 .. j - i |-> q[i + n] - q[i]],
                SubSeq(t, i + 1, j))
<1> DEFINE u == SubSeq(s, q[i] + 1, q[j])
           v == [n \in 0 .. j - i |-> q[i + n] - q[i]]
           w == SubSeq(t, i + 1, j)
           L == j - i
<1>1. /\ s \in Seq(NonZero) /\ t \in Seq(Rune) /\ Len(t) \in Nat /\ Len(s) \in Nat
      /\ L \in Nat /\ i \in Nat /\ j \in Nat /\ j = i + L
  BY DEF Spells
<1>2. /\ q[i] \in Nat /\ q[j] \in Nat /\ q[i] <= q[j] /\ q[j] <= Len(s)
      /\ \A n \in 0 .. Len(t) : q[n] \in Nat
  <2>1. q[i] \in Nat /\ q[j] \in Nat /\ q[j] <= Len(s) /\ q[i] + (j - i) <= q[j]
    BY Places
  <2> QED
    BY <1>1, <2>1, Places
<1>3. w \in Seq(Rune) /\ Len(w) = L /\ \A n \in 1 .. L : w[n] = t[i + n]
  BY <1>1
<1>4. /\ u \in Seq(NonZero) /\ Len(u) = q[j] - q[i]
      /\ \A k \in 1 .. Len(u) : u[k] = s[q[i] + k]
  <2>1. u \in Seq(NonZero) /\ Len(u) = q[j] - q[i]
    BY <1>1, <1>2
  <2>2. ASSUME NEW k \in 1 .. q[j] - q[i]
        PROVE  u[k] = s[q[i] + k]
    BY <1>1, <1>2
  <2> QED
    BY <2>1, <2>2
<1>5. \A n \in 0 .. L : i + n \in 0 .. Len(t) /\ v[n] = q[i + n] - q[i] /\ v[n] \in Nat
  <2>1. ASSUME NEW n \in 0 .. L
        PROVE  i + n \in 0 .. Len(t) /\ q[i + n] - q[i] \in Nat
    <3>1. i + n \in 0 .. Len(t) /\ i <= i + n
      BY <1>1
    <3>2. q[i] + ((i + n) - i) <= q[i + n] /\ q[i + n] \in Nat
      BY <3>1, Places
    <3> QED
      BY <1>1, <1>2, <3>1, <3>2
  <2> QED
    BY <2>1
<1>6. v \in [0 .. L -> Nat] /\ v[0] = 0 /\ v[L] = Len(u)
  <2>1. v[0] = 0 /\ v[L] = Len(u)
    BY <1>1, <1>2, <1>4, <1>5
  <2> QED
    BY <1>5, <2>1
<1> HIDE DEF u, v, w
<1>7. ASSUME NEW n \in 1 .. L
      PROVE  /\ v[n] = v[n - 1] + RuneBytes(w[n])
             /\ \A k \in 1 .. RuneBytes(w[n]) : u[v[n - 1] + k] = RuneToChars(w[n])[k]
  <2> DEFINE r == t[i + n]
             m == i + n
  <2>1. /\ m \in 1 .. Len(t) /\ m - 1 = i + (n - 1) /\ n \in 0 .. L /\ n - 1 \in 0 .. L
        /\ m \in 0 .. Len(t) /\ m - 1 \in 0 .. Len(t)
    BY <1>1
  <2>2. /\ v[n] = q[m] - q[i] /\ v[n - 1] = q[m - 1] - q[i]
        /\ v[n] \in Nat /\ v[n - 1] \in Nat
        /\ q[m] \in Nat /\ q[m - 1] \in Nat
    BY <1>2, <1>5, <2>1
  <2>3. w[n] = r /\ r \in Rune
    BY <1>1, <1>3, <2>1
  <2>4. /\ q[m] = q[m - 1] + RuneBytes(r)
        /\ \A k \in 1 .. RuneBytes(r) : s[q[m - 1] + k] = RuneToChars(r)[k]
    BY <2>1 DEF Spells
  <2>5. RuneBytes(r) \in Nat
    BY <2>3, RuneFacts
  <2>6. q[m] <= q[j]
    <3>1. m <= j /\ j \in 0 .. Len(t)
      BY <1>1
    <3>2. q[m] + (j - m) <= q[j]
      BY <2>1, <3>1, Places
    <3> QED
      BY <1>1, <1>2, <2>1, <2>2, <3>1, <3>2
  <2> HIDE DEF r, m
  <2>7. v[n] = v[n - 1] + RuneBytes(r)
    <3>1. q[i] \in Nat /\ q[m] = q[m - 1] + RuneBytes(r)
      BY <1>2, <2>4
    <3> QED
      BY <2>2, <2>5, <3>1
  <2>8. ASSUME NEW k \in 1 .. RuneBytes(r)
        PROVE  u[v[n - 1] + k] = RuneToChars(r)[k]
    <3>1. v[n - 1] + k \in 1 .. Len(u) /\ q[i] + (v[n - 1] + k) = q[m - 1] + k
      <4>1. /\ q[i] \in Nat /\ q[j] \in Nat /\ Len(u) = q[j] - q[i]
            /\ q[m] = q[m - 1] + RuneBytes(r)
        BY <1>2, <1>4, <2>4
      <4> DEFINE x == v[n - 1]
                 y == q[m - 1]
                 z == q[m]
                 a == q[i]
                 b == q[j]
      <4>2. x = y - a /\ x \in Nat /\ y \in Nat /\ z \in Nat /\ a \in Nat /\ b \in Nat
        BY <2>2, <4>1
      <4>3. z = y + RuneBytes(r) /\ z <= b /\ Len(u) = b - a
        BY <2>6, <4>1
      <4> HIDE DEF x, y, z, a, b
      <4>4. x + k \in 1 .. b - a /\ a + (x + k) = y + k
        BY <2>5, <4>2, <4>3
      <4> QED
        BY <4>3, <4>4 DEF x, y, a
    <3> QED
      BY <1>4, <2>4, <3>1
  <2> QED
    BY <2>3, <2>7, <2>8
<1>8. Spells(u, v, w)
  BY <1>3, <1>4, <1>6, <1>7 DEF Spells
<1> QED
  BY <1>8 DEF u, v, w

(* Appended, the bytes spell the one text and then the other.                *)
LEMMA JoinSpelled ==
  ASSUME NEW s, NEW q, NEW t, Spells(s, q, t),
         NEW u, NEW v, NEW w, Spells(u, v, w)
  PROVE  \E p : Spells(s \o u, p, t \o w)
<1> DEFINE K == Len(t)
           L == Len(t) + Len(w)
           p == [n \in 0 .. L |-> IF n <= K THEN q[n] ELSE Len(s) + v[n - K]]
           x == s \o u
           y == t \o w
<1>1. /\ s \in Seq(NonZero) /\ t \in Seq(Rune) /\ K \in Nat /\ Len(s) \in Nat
      /\ u \in Seq(NonZero) /\ w \in Seq(Rune) /\ Len(w) \in Nat /\ Len(u) \in Nat
      /\ L \in Nat /\ L = K + Len(w)
      /\ q[0] = 0 /\ v[0] = 0 /\ q[K] = Len(s) /\ v[Len(w)] = Len(u)
  BY DEF Spells
<1>2. /\ \A n \in 0 .. K : q[n] \in Nat /\ q[n] <= Len(s)
      /\ \A n \in 0 .. Len(w) : v[n] \in Nat /\ v[n] <= Len(u)
  BY Places
<1>3. /\ y \in Seq(Rune) /\ Len(y) = L
      /\ \A n \in 1 .. K : y[n] = t[n]
      /\ \A n \in 1 .. Len(w) : y[K + n] = w[n]
  BY <1>1
<1>4. /\ x \in Seq(NonZero) /\ Len(x) = Len(s) + Len(u)
      /\ \A k \in 1 .. Len(s) : x[k] = s[k]
      /\ \A k \in 1 .. Len(u) : x[Len(s) + k] = u[k]
  BY <1>1
<1>5. \A n \in 0 .. K : p[n] = q[n] /\ p[n] \in Nat
  BY <1>1, <1>2
<1>6. ASSUME NEW n \in 0 .. Len(w)
      PROVE  p[K + n] = Len(s) + v[n] /\ p[K + n] \in Nat
  <2>1. K + n \in 0 .. L /\ (K + n) - K = n /\ v[n] \in Nat
    BY <1>1, <1>2
  <2>2. CASE n = 0
    BY <1>1, <1>5, <2>2
  <2>3. CASE n # 0
    BY <1>1, <2>1, <2>3
  <2> QED
    BY <2>2, <2>3
<1>d. p = [n \in 0 .. L |-> p[n]]
  OBVIOUS
<1> HIDE DEF p, x, y
<1>7. p \in [0 .. L -> Nat] /\ p[0] = 0 /\ p[L] = Len(x)
  <2>1. ASSUME NEW n \in 0 .. L
        PROVE  p[n] \in Nat
    <3>1. CASE n <= K
      <4>1. n \in 0 .. K
        BY <1>1, <3>1
      <4> QED
        BY <1>5, <4>1
    <3>2. CASE ~(n <= K)
      <4>1. n - K \in 0 .. Len(w) /\ K + (n - K) = n
        BY <1>1, <3>2
      <4> QED
        BY <1>6, <4>1
    <3> QED
      BY <3>1, <3>2
  <2>2. p[0] = 0
    BY <1>1, <1>5
  <2>3. Len(w) \in 0 .. Len(w) /\ p[K + Len(w)] = Len(s) + v[Len(w)]
    <3>1. Len(w) \in 0 .. Len(w)
      BY <1>1
    <3> QED
      BY <1>6, <3>1
  <2>4. p \in [0 .. L -> Nat]
    BY <1>d, <2>1
  <2> QED
    BY <1>1, <1>4, <2>2, <2>3, <2>4
<1>8. ASSUME NEW n \in 1 .. L
      PROVE  /\ p[n] = p[n - 1] + RuneBytes(y[n])
             /\ \A k \in 1 .. RuneBytes(y[n]) : x[p[n - 1] + k] = RuneToChars(y[n])[k]
  <2> DEFINE r == y[n]
  <2>0. r \in Rune /\ RuneBytes(r) \in Nat
    BY <1>1, <1>3, RuneFacts
  <2>1. CASE n <= K
    <3>1. /\ n \in 1 .. K /\ n \in 0 .. K /\ n - 1 \in 0 .. K
          /\ p[n] = q[n] /\ p[n - 1] = q[n - 1] /\ r = t[n]
      <4>1. n \in 1 .. K /\ n \in 0 .. K /\ n - 1 \in 0 .. K
        BY <1>1, <2>1
      <4> QED
        BY <1>3, <1>5, <4>1
    <3>2. /\ q[n] = q[n - 1] + RuneBytes(r)
          /\ \A k \in 1 .. RuneBytes(r) : s[q[n - 1] + k] = RuneToChars(r)[k]
      BY <3>1 DEF Spells
    <3>3. q[n] \in Nat /\ q[n - 1] \in Nat /\ q[n] <= Len(s)
      BY <1>2, <3>1
    <3> HIDE DEF r
    <3>4. ASSUME NEW k \in 1 .. RuneBytes(r)
          PROVE  x[p[n - 1] + k] = RuneToChars(r)[k]
      <4>1. q[n - 1] + k \in 1 .. Len(s)
        BY <1>1, <2>0, <3>2, <3>3
      <4> QED
        BY <1>4, <3>1, <3>2, <4>1
    <3> QED
      BY <3>1, <3>2, <3>4 DEF r
  <2>2. CASE ~(n <= K)
    <3> DEFINE m == n - K
    <3>1. /\ m \in 1 .. Len(w) /\ m \in 0 .. Len(w) /\ m - 1 \in 0 .. Len(w)
          /\ K + m = n /\ K + (m - 1) = n - 1
      BY <1>1, <2>2
    <3> HIDE DEF m
    <3>2. p[n] = Len(s) + v[m] /\ p[n - 1] = Len(s) + v[m - 1] /\ r = w[m]
      BY <1>3, <1>6, <3>1
    <3>3. /\ v[m] = v[m - 1] + RuneBytes(r)
          /\ \A k \in 1 .. RuneBytes(r) : u[v[m - 1] + k] = RuneToChars(r)[k]
      BY <3>1, <3>2 DEF Spells
    <3>4. v[m] \in Nat /\ v[m - 1] \in Nat /\ v[m] <= Len(u)
      BY <1>2, <3>1
    <3> HIDE DEF r
    <3>5. ASSUME NEW k \in 1 .. RuneBytes(r)
          PROVE  x[p[n - 1] + k] = RuneToChars(r)[k]
      <4>1. v[m - 1] + k \in 1 .. Len(u) /\ p[n - 1] + k = Len(s) + (v[m - 1] + k)
        <5>1. Len(s) \in Nat /\ Len(u) \in Nat /\ v[m] = v[m - 1] + RuneBytes(r)
          BY <1>1, <3>3
        <5> QED
          BY <2>0, <3>2, <3>4, <5>1
      <4> QED
        BY <1>4, <3>3, <4>1
    <3>6. p[n] = p[n - 1] + RuneBytes(r)
      BY <1>1, <2>0, <3>2, <3>3, <3>4
    <3> QED
      BY <3>5, <3>6 DEF r
  <2> QED
    BY <2>1, <2>2
<1>9. Spells(x, p, y)
  BY <1>3, <1>4, <1>7, <1>8 DEF Spells
<1> QED
  BY <1>9 DEF x, y

(* The bytes are as many as the codepoints need.                             *)
LEMMA WeightSpelled ==
  ASSUME NEW s, NEW q, NEW t, Spells(s, q, t)
  PROVE  Text!Weight(t) = Len(s)
<1> DEFINE F(f) == [n \in 0 .. Len(t) |->
                     IF n = 0 THEN 0 ELSE f[n - 1] + RuneBytes(t[n])]
           w == CHOOSE f : f = F(f)
<1>1. /\ Len(t) \in Nat /\ q \in [0 .. Len(t) -> Nat] /\ q[0] = 0 /\ q[Len(t)] = Len(s)
      /\ \A n \in 1 .. Len(t) : q[n] = q[n - 1] + RuneBytes(t[n])
  BY DEF Spells
<1>2. Text!Weight(t) = w[Len(t)]
  BY DEF Text!Weight
<1>3. q = F(q)
  <2>1. ASSUME NEW n \in 0 .. Len(t), n # 0
        PROVE  q[n] = q[n - 1] + RuneBytes(t[n])
    <3>1. n \in 1 .. Len(t)
      BY <1>1, <2>1
    <3> QED
      BY <1>1, <3>1
  <2> QED
    BY <1>1, <2>1
<1>4. w = F(w)
  BY <1>3
<1> HIDE DEF w
<1>5. \A n \in 0 .. Len(t) : w[n] = IF n = 0 THEN 0 ELSE w[n - 1] + RuneBytes(t[n])
  BY <1>4, Zenon
<1> DEFINE G == {n \in Nat : n <= Len(t) => w[n] = q[n]}
<1>6. \A n \in Nat : n \in G
  <2>1. 0 \in G
    BY <1>1, <1>5
  <2>2. ASSUME NEW n \in Nat, n \in G
        PROVE  n + 1 \in G
    <3> SUFFICES ASSUME n + 1 <= Len(t) PROVE w[n + 1] = q[n + 1]
      OBVIOUS
    <3>1. /\ n + 1 \in 1 .. Len(t) /\ n + 1 \in 0 .. Len(t) /\ (n + 1) - 1 = n
          /\ n + 1 # 0 /\ w[n] = q[n]
      BY <1>1, <2>2
    <3>2. w[n + 1] = w[n] + RuneBytes(t[n + 1])
      BY <1>5, <3>1
    <3>3. q[n + 1] = q[n] + RuneBytes(t[n + 1])
      BY <1>1, <3>1
    <3> QED
      BY <3>1, <3>2, <3>3
  <2> HIDE DEF G
  <2> QED
    BY <2>1, <2>2, Induction
<1>7. w[Len(t)] = q[Len(t)]
  BY <1>1, <1>6
<1> QED
  BY <1>1, <1>2, <1>7

(* Every byte is one of a codepoint.                                         *)
LEMMA ByteSpelled ==
  ASSUME NEW s, NEW q, NEW t, Spells(s, q, t), NEW p \in 1 .. Len(s)
  PROVE  \E n \in 1 .. Len(t) : \E k \in 1 .. RuneBytes(t[n]) : p = q[n - 1] + k
<1>1. /\ Len(t) \in Nat /\ Len(s) \in Nat /\ q[0] = 0 /\ q[Len(t)] = Len(s)
      /\ \A n \in 1 .. Len(t) : t[n] \in Rune /\ q[n] = q[n - 1] + RuneBytes(t[n])
  BY DEF Spells
<1>2. \A n \in 0 .. Len(t) : q[n] \in Nat
  BY Places
<1> DEFINE T == {n \in 0 .. Len(t) : p <= q[n]}
<1>3. T \in SUBSET Nat /\ Len(t) \in T
  BY <1>1
<1> HIDE DEF T
<1>4. PICK n \in T : \A m \in T : n <= m
  BY <1>3, LeastNumber
<1>5. n \in 0 .. Len(t) /\ p <= q[n]
  BY <1>4 DEF T
<1>6. n \in 1 .. Len(t) /\ n - 1 \in 0 .. Len(t) /\ ~(n <= n - 1)
  <2>1. n # 0
    BY <1>1, <1>5
  <2> QED
    BY <1>1, <1>5, <2>1
<1>7. ~(p <= q[n - 1])
  BY <1>4, <1>6 DEF T
<1> DEFINE k == p - q[n - 1]
<1>8. q[n] = q[n - 1] + RuneBytes(t[n]) /\ RuneBytes(t[n]) \in Nat
  BY <1>1, <1>6, RuneFacts
<1>9. q[n - 1] \in Nat /\ q[n] \in Nat /\ p \in Nat
  BY <1>1, <1>2, <1>5, <1>6
<1>10. k \in 1 .. RuneBytes(t[n]) /\ p = q[n - 1] + k
  BY <1>5, <1>7, <1>8, <1>9
<1> HIDE DEF k
<1> QED
  BY <1>6, <1>10

(* A prefix, element by element.                                             *)
LEMMA PrefixElements ==
  ASSUME NEW S, NEW u \in Seq(S), NEW s \in Seq(S)
  PROVE  IsPrefix(u, s) <=> Len(u) <= Len(s) /\ \A k \in 1 .. Len(u) : u[k] = s[k]
<1>1. Len(u) \in Nat /\ Len(s) \in Nat
  OBVIOUS
<1>2. CASE ~(Len(u) <= Len(s))
  BY <1>2 DEF IsPrefix
<1>3. CASE Len(u) <= Len(s)
  <2> DEFINE a == SubSeq(u, 1, Len(u))
             b == SubSeq(s, 1, Len(u))
  <2>1. a \in Seq(S) /\ Len(a) = Len(u)
    BY <1>1
  <2>2. b \in Seq(S) /\ Len(b) = Len(u)
    BY <1>1, <1>3
  <2>3. \A k \in 1 .. Len(u) : a[k] = u[k]
    BY <1>1
  <2>4. \A k \in 1 .. Len(u) : b[k] = s[k]
    BY <1>1, <1>3
  <2>5. IsPrefix(u, s) <=> a = b
    BY <1>3 DEF IsPrefix
  <2> HIDE DEF a, b
  <2>6. ASSUME a = b, NEW k \in 1 .. Len(u)
        PROVE  u[k] = s[k]
    BY <2>3, <2>4, <2>6
  <2>7. ASSUME \A k \in 1 .. Len(u) : u[k] = s[k]
        PROVE  a = b
    <3>1. \A k \in 1 .. Len(a) : a[k] = b[k]
      BY <2>1, <2>3, <2>4, <2>7
    <3> QED
      BY <2>1, <2>2, <3>1, SeqEqual
  <2> QED
    BY <1>3, <2>5, <2>6, <2>7
<1> QED
  BY <1>2, <1>3

(* Codepoints that begin with the same bytes are the same: the leading byte  *)
(* says how many there are.                                                  *)
LEMMA SameRune ==
  ASSUME NEW a \in Rune, NEW b \in Rune,
         RuneToChars(a)[1] = RuneToChars(b)[1],
         \A k \in 1 .. RuneBytes(a) :
           k <= RuneBytes(b) => RuneToChars(a)[k] = RuneToChars(b)[k]
  PROVE  a = b
<1> DEFINE c == RuneToChars(a)
           d == RuneToChars(b)
<1>1. /\ c \in Seq(NonZero) /\ d \in Seq(NonZero)
      /\ Len(c) = RuneBytes(a) /\ Len(d) = RuneBytes(b)
      /\ Codepoint(c) = a /\ Codepoint(d) = b
      /\ Step(c[1]) = RuneBytes(a) /\ Step(d[1]) = RuneBytes(b)
      /\ RuneBytes(a) \in Nat
  BY RuneFacts
<1>2. RuneBytes(a) = RuneBytes(b)
  BY <1>1
<1> HIDE DEF c, d
<1>3. \A k \in 1 .. Len(c) : c[k] = d[k]
  BY <1>1, <1>2 DEF c, d
<1>4. c = d
  BY <1>1, <1>2, <1>3, SeqEqual
<1> QED
  BY <1>1, <1>4

(* Strings are compared by their bytes, texts by their codepoints: it is the *)
(* same.                                                                     *)
LEMMA PrefixSpelled ==
  ASSUME NEW s, NEW q, NEW t, Spells(s, q, t),
         NEW u, NEW v, NEW w, Spells(u, v, w)
  PROVE  IsPrefix(u, s) <=> IsPrefix(w, t)
<1>1. /\ s \in Seq(NonZero) /\ t \in Seq(Rune) /\ Len(t) \in Nat /\ Len(s) \in Nat
      /\ u \in Seq(NonZero) /\ w \in Seq(Rune) /\ Len(w) \in Nat /\ Len(u) \in Nat
      /\ q[0] = 0 /\ v[0] = 0 /\ q[Len(t)] = Len(s) /\ v[Len(w)] = Len(u)
  BY DEF Spells
<1>2. \A n \in 0 .. Len(w) : v[n] \in Nat /\ v[n] <= Len(u)
  BY Places
<1>3. \A n \in 0 .. Len(t) : q[n] \in Nat /\ q[n] <= Len(s)
  BY Places
<1>4. \A n \in 1 .. Len(w) :
        /\ w[n] \in Rune /\ RuneBytes(w[n]) \in Nat /\ RuneBytes(w[n]) > 0
        /\ v[n] = v[n - 1] + RuneBytes(w[n])
        /\ \A k \in 1 .. RuneBytes(w[n]) : u[v[n - 1] + k] = RuneToChars(w[n])[k]
  BY <1>1, RuneFacts DEF Spells
<1>5. \A n \in 1 .. Len(t) :
        /\ t[n] \in Rune /\ RuneBytes(t[n]) \in Nat /\ RuneBytes(t[n]) > 0
        /\ q[n] = q[n - 1] + RuneBytes(t[n])
        /\ \A k \in 1 .. RuneBytes(t[n]) : s[q[n - 1] + k] = RuneToChars(t[n])[k]
  BY <1>1, RuneFacts DEF Spells
<1>6. IsPrefix(u, s) <=> Len(u) <= Len(s) /\ \A k \in 1 .. Len(u) : u[k] = s[k]
  BY <1>1, PrefixElements
<1>7. IsPrefix(w, t) <=> Len(w) <= Len(t) /\ \A k \in 1 .. Len(w) : w[k] = t[k]
  BY <1>1, PrefixElements
<1>8. ASSUME IsPrefix(u, s)
      PROVE  IsPrefix(w, t)
  <2>1. Len(u) <= Len(s) /\ \A k \in 1 .. Len(u) : u[k] = s[k]
    BY <1>6, <1>8
  <2> DEFINE G == {m \in Nat : m <= Len(w) => /\ m <= Len(t) /\ q[m] = v[m]
                                              /\ \A n \in 1 .. m : w[n] = t[n]}
  <2>2. 0 \in G
    BY <1>1
  <2>3. ASSUME NEW m \in Nat, m \in G
        PROVE  m + 1 \in G
    <3> SUFFICES ASSUME m + 1 <= Len(w)
                 PROVE  /\ m + 1 <= Len(t) /\ q[m + 1] = v[m + 1]
                        /\ \A n \in 1 .. m + 1 : w[n] = t[n]
      OBVIOUS
    <3>1. m <= Len(t) /\ q[m] = v[m] /\ \A n \in 1 .. m : w[n] = t[n]
      BY <1>1, <2>3
    <3>2. /\ m + 1 \in 1 .. Len(w) /\ m + 1 \in 0 .. Len(w)
          /\ m \in 0 .. Len(w) /\ (m + 1) - 1 = m
      BY <1>1
    <3> DEFINE a == w[m + 1]
    <3>3. /\ a \in Rune /\ RuneBytes(a) \in Nat /\ RuneBytes(a) > 0
          /\ v[m + 1] = v[m] + RuneBytes(a)
          /\ \A k \in 1 .. RuneBytes(a) : u[v[m] + k] = RuneToChars(a)[k]
      BY <1>4, <3>2
    <3>4. v[m] \in Nat /\ v[m + 1] \in Nat /\ v[m + 1] <= Len(u)
      BY <1>2, <3>2
    <3>5. m # Len(t)
      BY <1>1, <2>1, <3>1, <3>3, <3>4
    <3>6. m + 1 \in 1 .. Len(t) /\ m + 1 <= Len(t)
      BY <1>1, <3>1, <3>5
    <3> DEFINE b == t[m + 1]
    <3>7. /\ b \in Rune /\ RuneBytes(b) \in Nat /\ RuneBytes(b) > 0
          /\ q[m + 1] = q[m] + RuneBytes(b)
          /\ \A k \in 1 .. RuneBytes(b) : s[q[m] + k] = RuneToChars(b)[k]
      BY <1>5, <3>2, <3>6
    <3> HIDE DEF a, b
    <3>8. ASSUME NEW k \in 1 .. RuneBytes(a), k <= RuneBytes(b)
          PROVE  RuneToChars(a)[k] = RuneToChars(b)[k]
      <4>1. v[m] + k \in 1 .. Len(u) /\ k \in 1 .. RuneBytes(b)
        BY <1>1, <3>3, <3>4, <3>7, <3>8
      <4> QED
        BY <2>1, <3>1, <3>3, <3>7, <4>1
    <3>9. 1 \in 1 .. RuneBytes(a) /\ 1 <= RuneBytes(b)
      BY <3>3, <3>7
    <3>10. a = b
      BY <3>3, <3>7, <3>8, <3>9, SameRune
    <3>11. ASSUME NEW n \in 1 .. m + 1
           PROVE  w[n] = t[n]
      <4>1. CASE n \in 1 .. m
        BY <3>1, <4>1
      <4>2. CASE n \notin 1 .. m
        <5>1. n = m + 1
          BY <4>2
        <5> QED
          BY <3>10, <5>1 DEF a, b
      <4> QED
        BY <4>1, <4>2
    <3> QED
      BY <3>1, <3>3, <3>6, <3>7, <3>10, <3>11
  <2> HIDE DEF G
  <2>4. Len(w) \in G
    BY <1>1, <2>2, <2>3, Induction
  <2> QED
    BY <1>1, <1>7, <2>4 DEF G
<1>9. ASSUME IsPrefix(w, t)
      PROVE  IsPrefix(u, s)
  <2>1. Len(w) <= Len(t) /\ \A n \in 1 .. Len(w) : w[n] = t[n]
    BY <1>7, <1>9
  <2> DEFINE G == {m \in Nat : m <= Len(w) => q[m] = v[m]}
  <2>2. 0 \in G
    BY <1>1
  <2>3. ASSUME NEW m \in Nat, m \in G
        PROVE  m + 1 \in G
    <3> SUFFICES ASSUME m + 1 <= Len(w) PROVE q[m + 1] = v[m + 1]
      OBVIOUS
    <3>1. /\ m + 1 \in 1 .. Len(w) /\ m + 1 \in 1 .. Len(t) /\ (m + 1) - 1 = m
          /\ q[m] = v[m]
      BY <1>1, <2>1, <2>3
    <3>2. v[m + 1] = v[m] + RuneBytes(w[m + 1])
      BY <1>4, <3>1
    <3>3. q[m + 1] = q[m] + RuneBytes(t[m + 1])
      BY <1>5, <3>1
    <3> QED
      BY <2>1, <3>1, <3>2, <3>3
  <2> HIDE DEF G
  <2>4. \A m \in Nat : m \in G
    BY <2>2, <2>3, Induction
  <2>5. \A m \in 0 .. Len(w) : q[m] = v[m]
    BY <1>1, <2>4 DEF G
  <2>6. Len(u) <= Len(s)
    <3>1. Len(w) \in 0 .. Len(w) /\ Len(w) \in 0 .. Len(t)
      BY <1>1, <2>1
    <3>2. q[Len(w)] = Len(u) /\ q[Len(w)] <= Len(s)
      BY <1>1, <1>3, <2>5, <3>1
    <3> QED
      BY <3>2
  <2>7. ASSUME NEW p \in 1 .. Len(u)
        PROVE  u[p] = s[p]
    <3>1. PICK n \in 1 .. Len(w) : \E k \in 1 .. RuneBytes(w[n]) : p = v[n - 1] + k
      BY ByteSpelled
    <3>2. PICK k \in 1 .. RuneBytes(w[n]) : p = v[n - 1] + k
      BY <3>1
    <3>3. n \in 1 .. Len(t) /\ n - 1 \in 0 .. Len(w) /\ w[n] = t[n]
      BY <1>1, <2>1
    <3>4. q[n - 1] = v[n - 1]
      BY <2>5, <3>3
    <3>5. u[v[n - 1] + k] = RuneToChars(w[n])[k]
      BY <1>4
    <3>6. s[q[n - 1] + k] = RuneToChars(t[n])[k]
      BY <1>5, <3>3
    <3> QED
      BY <3>2, <3>3, <3>4, <3>5, <3>6
  <2> QED
    BY <1>6, <2>6, <2>7
<1> QED
  BY <1>8, <1>9

(* utf8size_lazy finds the end that was put behind s.                        *)
LEMMA EndFound ==
  ASSUME NEW s \in Seq(NonZero)
  PROVE  CString(s \o <<0>>) = s
<1> DEFINE z == s \o <<0>>
           N == Len(s) + 1
           First(n) == z[n] = 0 /\ \A m \in 1 .. n - 1 : z[m] # 0
           end == CHOOSE n \in DOMAIN z : First(n)
<1>1. Len(s) \in Nat /\ \A k \in 1 .. Len(s) : s[k] # 0
  BY NonZeroByte
<1>2. /\ s \in Seq(Nat) /\ z \in Seq(Nat) /\ Len(z) = N /\ DOMAIN z = 1 .. N
      /\ z[N] = 0 /\ \A k \in 1 .. Len(s) : z[k] = s[k]
  <2>1. s \in Seq(Nat)
    BY NonZeroByte
  <2> QED
    BY <1>1, <2>1
<1>3. CString(z) = SubSeq(z, 1, end - 1)
  BY DEF CString
<1> HIDE DEF z
<1>4. First(N) /\ N \in DOMAIN z
  BY <1>1, <1>2
<1>5. ASSUME NEW n \in DOMAIN z, First(n)
      PROVE  n = N
  <2>1. ~(n \in 1 .. Len(s))
    BY <1>1, <1>2, <1>5
  <2> QED
    BY <1>1, <1>2, <2>1
<1> HIDE DEF First
<1>6. end = N
  BY <1>4, <1>5
<1> HIDE DEF end
<1>7. CString(z) = SubSeq(z, 1, Len(s))
  BY <1>1, <1>3, <1>6
<1> DEFINE c == SubSeq(z, 1, Len(s))
<1>8. c \in Seq(Nat) /\ Len(c) = Len(s) /\ \A k \in 1 .. Len(s) : c[k] = s[k]
  <2>1. c \in Seq(Nat) /\ Len(c) = Len(s)
    BY <1>1, <1>2
  <2>2. ASSUME NEW k \in 1 .. Len(s)
        PROVE  c[k] = s[k]
    BY <1>1, <1>2
  <2> QED
    BY <2>1, <2>2
<1> HIDE DEF c
<1>9. c = s
  <2>1. \A k \in 1 .. Len(c) : c[k] = s[k]
    BY <1>8
  <2> QED
    BY <1>2, <1>8, <2>1, SeqEqual
<1> QED
  BY <1>7, <1>9 DEF z, c

(* The least place is found the same in both.                                *)
LEMMA FirstPlaceSpelled ==
  ASSUME NEW s, NEW q, NEW t, Spells(s, q, t),
         NEW u, NEW v, NEW w, Spells(u, v, w)
  PROVE  IndexOf(s, u) = Text!FirstPlace(t, w)
<1> DEFINE found == {n \in 0 .. Length(s) - 1 :
                       IsPrefix(u, SubSeq(s, Walk(s)[n] + 1, Len(s)))}
           places == {n \in 0 .. Len(t) : IsPrefix(w, SubSeq(t, n + 1, Len(t)))}
           least == CHOOSE n \in places : \A m \in places : n <= m
<1>1. /\ s \in Seq(NonZero) /\ t \in Seq(Rune) /\ Len(t) \in Nat /\ Len(s) \in Nat
      /\ u \in Seq(NonZero) /\ w \in Seq(Rune) /\ Len(w) \in Nat /\ Len(u) \in Nat
      /\ q[Len(t)] = Len(s) /\ v[0] = 0 /\ v[Len(w)] = Len(u)
  BY DEF Spells
<1>2. Text!FirstPlace(t, w) = IF places = {} THEN -1 ELSE least
  BY DEF Text!FirstPlace, Text!IsPrefix, IsPrefix
<1>3. IndexOf(s, u) =
        CASE u = <<>> -> 0
          [] u # <<>> /\ found = {} -> -1
          [] OTHER -> CHOOSE n \in found : \A m \in found : n <= m
  BY DEF IndexOf
<1>4. Len(w) <= Len(u)
  BY Places
<1>5. CASE w = <<>>
  <2>1. u = <<>>
    <3>1. Len(w) = 0
      BY <1>5
    <3>2. Len(u) = 0
      BY <1>1, <3>1
    <3> QED
      BY <1>1, <3>2
  <2>2. 0 \in places
    <3> DEFINE x == SubSeq(t, 0 + 1, Len(t))
    <3>1. x \in Seq(Rune) /\ Len(x) \in Nat
      BY <1>1
    <3>2. Len(w) = 0
      BY <1>5
    <3> HIDE DEF x
    <3>3. IsPrefix(w, x)
      BY <1>1, <3>1, <3>2, PrefixElements
    <3> QED
      BY <1>1, <3>3 DEF x
  <2>3. places \in SUBSET Nat
    BY <1>1
  <2> HIDE DEF places
  <2>4. least = 0
    <3>1. \A m \in places : 0 <= m
      BY <2>3
    <3>2. \A n \in places : (\A m \in places : n <= m) => n = 0
      BY <2>2, <2>3
    <3> QED
      BY <2>2, <3>1, <3>2
  <2> QED
    BY <1>2, <1>3, <2>1, <2>2, <2>4
<1>6. CASE w # <<>>
  <2>1. Len(w) > 0 /\ u # <<>>
    <3>1. Len(w) # 0
      BY <1>1, <1>6
    <3>2. Len(u) > 0
      BY <1>1, <1>4, <3>1
    <3> QED
      BY <1>1, <3>1, <3>2
  <2>2. Length(s) = Len(t)
    BY LengthSpelled
  <2>3. ASSUME NEW n \in 0 .. Len(t)
        PROVE  IsPrefix(u, SubSeq(s, Walk(s)[n] + 1, Len(s)))
                 <=> IsPrefix(w, SubSeq(t, n + 1, Len(t)))
    <3>1. Len(t) \in 0 .. Len(t) /\ n <= Len(t)
      BY <1>1
    <3>2. Spells(SubSeq(s, q[n] + 1, q[Len(t)]),
                 [k \in 0 .. Len(t) - n |-> q[n + k] - q[n]], SubSeq(t, n + 1, Len(t)))
      BY <3>1, CutSpelled
    <3>3. Walk(s)[n] = q[n] /\ q[Len(t)] = Len(s)
      BY <1>1, WalkSpelled
    <3> QED
      BY <3>2, <3>3, PrefixSpelled
  <2>4. ~IsPrefix(w, SubSeq(t, Len(t) + 1, Len(t)))
    <3>1. Len(SubSeq(t, Len(t) + 1, Len(t))) = 0
      BY <1>1
    <3> QED
      BY <2>1, <3>1 DEF IsPrefix
  <2>5. found = places
    <3>1. ASSUME NEW n \in found
          PROVE  n \in places
      BY <1>1, <2>2, <2>3
    <3>2. ASSUME NEW n \in places
          PROVE  n \in found
      <4>1. n # Len(t)
        BY <2>4
      <4>2. n \in 0 .. Length(s) - 1
        BY <1>1, <2>2, <4>1
      <4> QED
        BY <2>3, <4>2
    <3> QED
      BY <3>1, <3>2
  <2> HIDE DEF found, places
  <2>6. CASE places = {}
    BY <1>2, <1>3, <2>1, <2>5, <2>6
  <2>7. CASE places # {}
    BY <1>2, <1>3, <2>1, <2>5, <2>7
  <2> QED
    BY <2>6, <2>7
<1> QED
  BY <1>5, <1>6

(* str_codepoint_byte_pos gives the place of a codepoint, the end at most.   *)
LEMMA PositionSpelled ==
  ASSUME NEW s, NEW q, NEW t, Spells(s, q, t), NEW i \in Nat
  PROVE  BytePosition(s, i) = q[IF i < Len(t) THEN i ELSE Len(t)]
<1>1. Len(t) \in Nat /\ Len(s) \in Nat /\ q[Len(t)] = Len(s)
  BY DEF Spells
<1>2. Len(t) <= Len(s)
  BY Places
<1>3. CASE i < Len(t)
  <2>1. i \in 0 .. Len(t) /\ i < Len(s)
    BY <1>1, <1>2, <1>3
  <2> QED
    BY <1>3, <2>1, WalkSpelled DEF BytePosition
<1>4. CASE ~(i < Len(t))
  <2> DEFINE n == IF i < Len(s) THEN i ELSE Len(s)
  <2>1. n \in Len(t) .. Len(s)
    BY <1>1, <1>2, <1>4
  <2>2. Walk(s)[n] = Len(s)
    BY <2>1, WalkSpelled
  <2> QED
    BY <1>1, <1>4, <2>2 DEF BytePosition
<1> QED
  BY <1>3, <1>4

-----------------------------------------------------------------------------
(* The blocks.                                                               *)

(* A block as the calls make them: the bytes of codepoints and a 0, no more. *)
IsString(c) ==
  LET s == CString(c.bytes)
  IN s \in Seq(Byte \ {0}) /\ IsUtf8(s) /\ c = Terminated(s)

(* BlocksOwned is inductive with the shape of ptr and mem; what is in the    *)
(* blocks is, because every one of them was made by Terminated.              *)
StringInv ==
  /\ ptr \in [Handle -> Block \cup {NULL}]
  /\ DOMAIN mem \subseteq Block
  /\ BlocksOwned
  /\ \A b \in DOMAIN mem : IsString(mem[b])

(* A block that is made of bytes that spell t is a string of the text t.     *)
LEMMA StringMade ==
  ASSUME NEW s, NEW q, NEW t, Spells(s, q, t)
  PROVE  /\ IsString(Terminated(s)) /\ CString(Terminated(s).bytes) = s
         /\ Decoded(CString(Terminated(s).bytes)) = t
<1>1. s \in Seq(NonZero)
  BY DEF Spells
<1>2. Terminated(s).bytes = s \o <<0>>
  BY DEF Terminated, Contents
<1>3. CString(Terminated(s).bytes) = s
  BY <1>1, <1>2, EndFound
<1>4. IsUtf8(s)
  BY Utf8Spelled
<1>5. Decoded(s) = t
  BY DecodedSpelled
<1> QED
  BY <1>1, <1>3, <1>4, <1>5 DEF IsString, NonZero

(* What is in a block spells what it is decoded to.                          *)
LEMMA StringRead ==
  ASSUME NEW c, IsString(c)
  PROVE  /\ \E q : Spells(CString(c.bytes), q, Decoded(CString(c.bytes)))
         /\ c = Terminated(CString(c.bytes))
<1> DEFINE s == CString(c.bytes)
<1>1. s \in Seq(NonZero) /\ IsUtf8(s) /\ c = Terminated(s)
  BY DEF IsString, NonZero
<1> HIDE DEF s
<1>2. PICK q, t : Spells(s, q, t)
  BY <1>1, Spelling
<1>3. Decoded(s) = t
  BY <1>2, DecodedSpelled
<1> QED
  BY <1>1, <1>2, <1>3 DEF s

(* What a variable or a literal is given for: NULL is the empty string.      *)
Given(s) == IF IsNull(s) THEN <<>> ELSE BytesOf(s)

(* A variable that is not NULL has a block, and the block its text.          *)
LEMMA HandleSpelled ==
  ASSUME StringInv, NEW h \in Handle, ptr[h] # NULL
  PROVE  /\ ptr[h] \in DOMAIN mem /\ mem[ptr[h]] = Terminated(BytesOf(h))
         /\ TextIn(h) \in Seq(Rune) /\ TextIn(h) # NoText
         /\ \E q : Spells(BytesOf(h), q, TextIn(h))
<1>1. ptr[h] \in DOMAIN mem
  BY DEF StringInv, BlocksOwned
<1>2. IsString(mem[ptr[h]])
  BY <1>1 DEF StringInv
<1>3. BytesOf(h) = CString(mem[ptr[h]].bytes) /\ TextIn(h) = Decoded(BytesOf(h))
  BY DEF BytesOf, TextIn, IsNull
<1>4. PICK q : Spells(BytesOf(h), q, TextIn(h))
  BY <1>2, <1>3, StringRead
<1>5. TextIn(h) \in Seq(Rune)
  BY <1>4 DEF Spells
<1>6. mem[ptr[h]] = Terminated(BytesOf(h))
  BY <1>2, <1>3, StringRead
<1> QED
  BY <1>1, <1>4, <1>5, <1>6, StringAssumption

(* So has a literal.                                                         *)
LEMMA LiteralSpelled ==
  ASSUME NEW l \in Literal
  PROVE  /\ LiteralText[l] \in Seq(Rune) /\ LiteralText[l] # NoText
         /\ \E q : Spells(LiteralBytes[l], q, LiteralText[l])
<1>1. LiteralBytes[l] \in Seq(NonZero) /\ IsUtf8(LiteralBytes[l])
  BY StringAssumption, LiteralAssumption DEF NonZero
<1>2. PICK q, t : Spells(LiteralBytes[l], q, t)
  BY <1>1, Spelling
<1>3. LiteralText[l] = t
  BY <1>2, DecodedSpelled DEF LiteralText
<1>4. t \in Seq(Rune)
  BY <1>2 DEF Spells
<1> QED
  BY <1>2, <1>3, <1>4, StringAssumption

(* A source and the text the abstract specification has for it.              *)
LEMMA SourceSpelled ==
  ASSUME StringInv, NEW s \in Source
  PROVE  /\ IsNull(s) <=> Text!TextOf(s) = NoText
         /\ ~IsNull(s) => \E q : Spells(BytesOf(s), q, Text!TextOf(s))
         /\ \E q : Spells(Given(s), q, Text!Content(s))
<1>1. Text!TextOf(s) = IF s \in Handle THEN TextIn(s) ELSE LiteralText[s]
  BY DEF Text!TextOf
<1>2. Text!Content(s) = IF Text!TextOf(s) = NoText THEN <<>> ELSE Text!TextOf(s)
  BY DEF Text!Content
<1>3. CASE IsNull(s)
  <2>1. Text!TextOf(s) = NoText
    BY <1>1, <1>3 DEF IsNull, TextIn
  <2> QED
    BY <1>2, <1>3, <2>1, EmptySpelled DEF Given
<1>4. CASE ~IsNull(s) /\ s \in Handle
  <2>1. ptr[s] # NULL
    BY <1>4 DEF IsNull
  <2>2. Text!TextOf(s) # NoText /\ \E q : Spells(BytesOf(s), q, Text!TextOf(s))
    BY <1>1, <1>4, <2>1, HandleSpelled
  <2> QED
    BY <1>2, <1>4, <2>2 DEF Given
<1>5. CASE s \notin Handle
  <2>1. s \in Literal /\ ~IsNull(s) /\ BytesOf(s) = LiteralBytes[s]
    BY <1>5 DEF Source, IsNull, BytesOf
  <2>2. Text!TextOf(s) # NoText /\ \E q : Spells(BytesOf(s), q, Text!TextOf(s))
    BY <1>1, <1>5, <2>1, LiteralSpelled
  <2> QED
    BY <1>2, <2>1, <2>2 DEF Given
<1> QED
  BY <1>3, <1>4, <1>5

(* At the start there is no block.                                           *)
LEMMA StringInit ==
  Init => StringInv
BY DEF Init, StringInv, BlocksOwned

(* A block added and a variable that has it from now on.                     *)
LEMMA BlockTaken ==
  ASSUME StringInv, NEW h \in Handle, NEW b \in Block \ DOMAIN mem,
         NEW s, NEW q, NEW t, Spells(s, q, t),
         ptr' = [ptr EXCEPT ![h] = b],
         \/ ptr[h] = NULL /\ mem' = Added(mem, b, Terminated(s))
         \/ mem' = Moved(h, b, Terminated(s))
  PROVE  StringInv' /\ Text!Becomes(h, t)
<1> DEFINE D == DOMAIN mem \ {ptr[h]}
<1>0. NULL \notin DOMAIN mem /\ NULL # b
  BY StringAssumption DEF StringInv
<1>1. /\ DOMAIN mem' = D \cup {b} /\ mem'[b] = Terminated(s)
      /\ \A x \in D : x # b /\ mem'[x] = mem[x]
  <2>1. CASE ptr[h] = NULL /\ mem' = Added(mem, b, Terminated(s))
    <3>1. D = DOMAIN mem
      BY <1>0, <2>1
    <3> QED
      BY <2>1, <3>1 DEF Added
  <2>2. CASE mem' = Moved(h, b, Terminated(s))
    BY <2>2 DEF Moved, Added, Restrict
  <2> QED
    BY <2>1, <2>2
<1>2. /\ ptr \in [Handle -> Block \cup {NULL}] /\ DOMAIN mem \subseteq Block
      /\ \A g \in Handle : ptr[g] \in DOMAIN mem \cup {NULL}
      /\ \A x \in DOMAIN mem : \E g \in Handle : ptr[g] = x
      /\ \A f, g \in Handle : ptr[f] = ptr[g] /\ ptr[f] # NULL => f = g
      /\ \A x \in DOMAIN mem : IsString(mem[x])
  BY DEF StringInv, BlocksOwned
<1> HIDE DEF D
<1>3. ptr'[h] = b /\ \A g \in Handle : g # h => ptr'[g] = ptr[g]
  BY <1>2
<1>4. \A g \in Handle : g # h /\ ptr[g] # NULL => ptr[g] \in D
  BY <1>2 DEF D
<1>5. D \subseteq DOMAIN mem
  BY DEF D
<1>6. BlocksOwned'
  <2>1. ASSUME NEW g \in Handle
        PROVE  ptr'[g] \in DOMAIN mem' \cup {NULL}
    BY <1>1, <1>3, <1>4
  <2>2. ASSUME NEW x \in DOMAIN mem'
        PROVE  \E g \in Handle : ptr'[g] = x
    <3>1. CASE x = b
      BY <1>3, <3>1
    <3>2. CASE x # b
      <4>1. x \in DOMAIN mem /\ x # ptr[h]
        BY <1>1, <3>2 DEF D
      <4>2. PICK g \in Handle : ptr[g] = x
        BY <1>2, <4>1
      <4> QED
        BY <1>3, <4>1, <4>2
    <3> QED
      BY <3>1, <3>2
  <2>3. ASSUME NEW f \in Handle, NEW g \in Handle, ptr'[f] = ptr'[g], ptr'[f] # NULL
        PROVE  f = g
    <3>1. CASE f = h
      BY <1>3, <1>4, <1>5, <2>3, <3>1
    <3>2. CASE g = h
      BY <1>3, <1>4, <1>5, <2>3, <3>2
    <3>3. CASE f # h /\ g # h
      BY <1>2, <1>3, <2>3, <3>3
    <3> QED
      BY <3>1, <3>2, <3>3
  <2> QED
    BY <2>1, <2>2, <2>3 DEF BlocksOwned
<1>7. ASSUME NEW x \in DOMAIN mem'
      PROVE  IsString(mem'[x])
  <2>1. CASE x = b
    BY <1>1, <2>1, StringMade
  <2>2. CASE x # b
    BY <1>1, <1>2, <1>5, <2>2
  <2> QED
    BY <2>1, <2>2
<1>8. StringInv'
  <2>1. ptr' \in [Handle -> Block \cup {NULL}]
    BY <1>2
  <2>2. DOMAIN mem' \subseteq Block
    BY <1>1, <1>2, <1>5
  <2> QED
    BY <1>6, <1>7, <2>1, <2>2 DEF StringInv, IsString, CString, IsUtf8, Terminated
<1>9. ASSUME NEW g \in Handle
      PROVE  TextIn(g)' = IF g = h THEN t ELSE TextIn(g)
  <2>1. CASE g = h
    <3>1. TextIn(g)' = Decoded(CString(Terminated(s).bytes))
      BY <1>0, <1>1, <1>3, <2>1 DEF TextIn, IsNull, BytesOf
    <3> QED
      BY <2>1, <3>1, StringMade
  <2>2. CASE g # h /\ ptr[g] = NULL
    BY <1>3, <2>2 DEF TextIn, IsNull
  <2>3. CASE g # h /\ ptr[g] # NULL
    <3>1. ptr'[g] = ptr[g] /\ mem'[ptr[g]] = mem[ptr[g]]
      BY <1>1, <1>3, <1>4, <2>3
    <3> QED
      BY <2>3, <3>1 DEF TextIn, IsNull, BytesOf
  <2> QED
    BY <2>1, <2>2, <2>3
<1>10. Text!Becomes(h, t)
  BY <1>9 DEF Text!Becomes
<1> QED
  BY <1>8, <1>10

(* A call that makes a string gives its variable a text.                     *)
LEMMA MakesText ==
  ASSUME StringInv, NEW h \in Handle, NEW s, NEW q, NEW t, Spells(s, q, t),
         Makes(h, Terminated(s))
  PROVE  /\ StringInv' /\ Text!Becomes(h, t)
         /\ ptr[h] = NULL /\ TextIn(h) = NoText
<1>1. ptr[h] = NULL
  BY DEF Makes
<1>2. PICK b \in Block \ DOMAIN mem :
        mem' = Added(mem, b, Terminated(s)) /\ ptr' = [ptr EXCEPT ![h] = b]
  BY DEF Makes
<1>3. TextIn(h) = NoText
  BY <1>1 DEF TextIn, IsNull
<1> QED
  BY <1>1, <1>2, <1>3, BlockTaken

(* Where neither variables nor blocks change, no text does.                  *)
LEMMA SameText ==
  ASSUME StringInv, UNCHANGED <<ptr, mem>>
  PROVE  /\ StringInv'
         /\ [h \in Handle |-> TextIn(h)]' = [h \in Handle |-> TextIn(h)]
<1>1. StringInv'
  BY DEF StringInv, BlocksOwned, IsString, CString, IsUtf8, Terminated
<1>2. \A h \in Handle : TextIn(h)' = TextIn(h)
  BY DEF TextIn, IsNull, BytesOf
<1> QED
  BY <1>1, <1>2

-----------------------------------------------------------------------------
(* Each call keeps the invariant and does in codepoints what the abstract    *)
(* specification says.                                                       *)

(* str_of copies the text.                                                   *)
LEMMA OfStep ==
  ASSUME StringInv, NEW h \in Handle, NEW s \in Source, StrOf(h, s)
  PROVE  StringInv' /\ Text!StrOf(h, s)
<1>1. PICK q : Spells(Given(s), q, Text!Content(s))
  BY SourceSpelled
<1>2. Makes(h, Terminated(Given(s))) /\ ret' = Answer("of", <<h, s>>)
  BY DEF StrOf, Given
<1>3. /\ StringInv' /\ Text!Becomes(h, Text!Content(s))
      /\ TextIn(h) = NoText
  BY <1>1, <1>2, MakesText
<1> QED
  BY <1>2, <1>3 DEF Text!StrOf, Text!Answer, Answer

(* str_nbof: the bytes end where a codepoint does, so they spell a prefix.   *)
LEMMA NbofStep ==
  ASSUME StringInv, NEW h \in Handle, NEW s \in Source, NEW nb \in Bytes,
         StrNbof(h, s, nb)
  PROVE  StringInv' /\ Text!StrNbof(h, s, nb)
<1> DEFINE g == Given(s)
           t == Text!Content(s)
           c == SubSeq(g, 1, IF nb > Len(g) THEN Len(g) ELSE nb)
<1>1. PICK q : Spells(g, q, t)
  BY SourceSpelled
<1>2. /\ g \in Seq(NonZero) /\ t \in Seq(Rune) /\ Len(t) \in Nat /\ Len(g) \in Nat
      /\ q[0] = 0 /\ q[Len(t)] = Len(g)
  BY <1>1 DEF Spells
<1>3. nb \in Nat
  BY StringAssumption
<1>4. Clamped(s, nb) = Terminated(c)
  <2>1. CASE IsNull(s)
    <3>1. g = <<>>
      BY <2>1 DEF Given
    <3>2. c = <<>>
      BY <1>3, <3>1
    <3> QED
      BY <2>1, <3>2 DEF Clamped
  <2>2. CASE ~IsNull(s)
    BY <2>2 DEF Clamped, Given
  <2> QED
    BY <2>1, <2>2
<1>5. \E n \in 0 .. Len(t) : q[n] = IF nb > Len(g) THEN Len(g) ELSE nb
  <2>1. CASE nb >= Len(g)
    <3>1. Len(t) \in 0 .. Len(t) /\ q[Len(t)] = IF nb > Len(g) THEN Len(g) ELSE nb
      BY <1>2, <1>3, <2>1
    <3> QED
      BY <3>1
  <2>2. CASE ~(nb >= Len(g))
    <3>1. ~IsNull(s)
      <4>1. ASSUME IsNull(s) PROVE FALSE
        <5>1. g = <<>>
          BY <4>1 DEF Given
        <5> QED
          BY <1>3, <2>2, <5>1
      <4> QED
        BY <4>1
    <3>2. nb \in Range(Walk(g))
      BY <2>2, <3>1 DEF StrNbof, CutsNone, Given
    <3>3. PICK k \in 0 .. Len(g) : nb = Walk(g)[k]
      BY <1>2, <3>2, WalkStep DEF Range
    <3>4. k \in 0 .. Len(t)
      <4>1. ASSUME ~(k <= Len(t)) PROVE FALSE
        <5>1. k \in Len(t) .. Len(g)
          BY <1>2, <4>1
        <5>2. Walk(g)[k] = Len(g)
          BY <1>1, <5>1, WalkSpelled
        <5> QED
          BY <1>2, <1>3, <2>2, <3>3, <5>2
      <4> QED
        BY <1>2, <4>1
    <3>5. q[k] = nb
      BY <1>1, <3>3, <3>4, WalkSpelled
    <3> QED
      BY <1>2, <1>3, <2>2, <3>4, <3>5
  <2> QED
    BY <2>1, <2>2
<1>6. PICK n \in 0 .. Len(t) : q[n] = IF nb > Len(g) THEN Len(g) ELSE nb
  BY <1>5
<1> DEFINE v == [k \in 0 .. n - 0 |-> q[0 + k] - q[0]]
           u == SubSeq(t, 1, n)
<1>7. Spells(c, v, u)
  <2>1. 0 \in 0 .. Len(t) /\ 0 <= n /\ 0 + 1 = 1
    BY <1>2
  <2>2. Spells(SubSeq(g, q[0] + 1, q[n]), v, SubSeq(t, 0 + 1, n))
    BY <1>1, <2>1, CutSpelled
  <2>3. c = SubSeq(g, q[0] + 1, q[n]) /\ u = SubSeq(t, 0 + 1, n)
    BY <1>2, <1>6, <2>1
  <2> QED
    BY <2>2, <2>3
<1>8. Text!Weight(t) = Len(g) /\ Text!Weight(u) = Len(c)
  BY <1>1, <1>7, WeightSpelled
<1>9. Len(c) = Text!Smaller(nb, Text!Weight(t))
  <2>1. Len(c) = IF nb > Len(g) THEN Len(g) ELSE nb
    BY <1>2, <1>3
  <2>2. Text!Smaller(nb, Text!Weight(t)) = IF nb < Len(g) THEN nb ELSE Len(g)
    BY <1>8 DEF Text!Smaller
  <2> QED
    BY <1>2, <1>3, <2>1, <2>2
<1>10. Makes(h, Terminated(c)) /\ ret' = Answer("nbof", <<h, s, nb>>)
  BY <1>4 DEF StrNbof
<1> HIDE DEF c, u, v, g, t
<1>11. StringInv' /\ Text!Becomes(h, u) /\ TextIn(h) = NoText
  BY <1>7, <1>10, MakesText
<1> QED
  BY <1>6, <1>8, <1>9, <1>10, <1>11 DEF Text!StrNbof, Text!Answer, Answer, u, t

(* str_substring: indexes behind the end, swapped or equal, are those of the *)
(* codepoints they name.                                                     *)
LEMMA SubstringStep ==
  ASSUME StringInv, NEW h \in Handle, NEW s \in Source,
         NEW start \in Position, NEW end \in Position, StrSubstring(h, s, start, end)
  PROVE  StringInv' /\ Text!StrSubstring(h, s, start, end)
<1> DEFINE g == Given(s)
           t == Text!Content(s)
           from == IF start < end THEN start ELSE end
           to == start + end - from
           i == IF from < Len(t) THEN from ELSE Len(t)
           j == IF to < Len(t) THEN to ELSE Len(t)
           u == SubSeq(t, from + 1, j)
           c == SubSeq(g, BytePosition(g, from) + 1, BytePosition(g, to))
<1>1. PICK q : Spells(g, q, t)
  BY SourceSpelled
<1>2. /\ g \in Seq(NonZero) /\ t \in Seq(Rune) /\ Len(t) \in Nat /\ Len(g) \in Nat
      /\ q[0] = 0 /\ q[Len(t)] = Len(g)
  BY <1>1 DEF Spells
<1>3. start \in Nat /\ end \in Nat /\ from \in Nat /\ to \in Nat /\ from <= to
  BY StringAssumption
<1>4. i \in 0 .. Len(t) /\ j \in 0 .. Len(t) /\ i <= j
  BY <1>2, <1>3
<1>5. SubSeq(t, i + 1, j) = u
  <2>1. CASE from < Len(t)
    BY <2>1
  <2>2. CASE ~(from < Len(t))
    <3>1. i + 1 > j /\ from + 1 > j
      BY <1>2, <1>3, <2>2
    <3>2. i + 1 \in Nat /\ from + 1 \in Nat /\ j \in Nat /\ t \in Seq(Rune)
      BY <1>2, <1>3, <1>4
    <3> HIDE DEF t, i, j, from
    <3>3. SubSeq(t, i + 1, j) = <<>> /\ SubSeq(t, from + 1, j) = <<>>
      BY <3>1, <3>2
    <3> QED
      BY <3>3 DEF u
  <2> QED
    BY <2>1, <2>2
<1>6. Spells(SubSeq(g, q[i] + 1, q[j]), [k \in 0 .. j - i |-> q[i + k] - q[i]], u)
  BY <1>1, <1>4, <1>5, CutSpelled
<1>7. BytePosition(g, from) = q[i] /\ BytePosition(g, to) = q[j]
  BY <1>1, <1>3, PositionSpelled
<1> HIDE DEF g, t, from, to, i, j, u
<1>8. \E p : Spells(c, p, u)
  BY <1>6, <1>7
<1>9. \E p : Spells(Between(s, start, end), p, u)
  <2>1. CASE ~IsNull(s) /\ start # end
    <3>1. Between(s, start, end) = c
      BY <2>1 DEF Between, Given, g, from, to
    <3> QED
      BY <1>8, <3>1
  <2>2. CASE IsNull(s) \/ start = end
    <3>1. Between(s, start, end) = <<>>
      BY <2>2 DEF Between
    <3>2. u = <<>>
      <4>1. CASE start = end
        <5>1. from + 1 > j /\ j \in Nat
          BY <1>2, <1>3, <4>1 DEF from, to, j
        <5> QED
          BY <1>2, <1>3, <5>1 DEF u
      <4>2. CASE IsNull(s)
        <5>1. g = <<>>
          BY <4>2 DEF Given, g
        <5>2. Len(t) <= Len(g)
          BY <1>1, Places
        <5>3. Len(t) = 0
          BY <1>2, <5>1, <5>2
        <5>4. from + 1 > j /\ j \in Nat
          BY <1>3, <1>4, <5>3
        <5> QED
          BY <1>2, <1>3, <5>4 DEF u
      <4> QED
        BY <2>2, <4>1, <4>2
    <3> QED
      BY <3>1, <3>2, EmptySpelled
  <2> QED
    BY <2>1, <2>2
<1>10. PICK p : Spells(Between(s, start, end), p, u)
  BY <1>9
<1>11. /\ Makes(h, Terminated(Between(s, start, end)))
       /\ ret' = Answer("substring", <<h, s, start, end>>)
  BY DEF StrSubstring
<1>12. StringInv' /\ Text!Becomes(h, u) /\ TextIn(h) = NoText
  BY <1>10, <1>11, MakesText
<1> QED
  BY <1>11, <1>12
  DEF Text!StrSubstring, Text!Smaller, Text!Answer, Answer, u, j, t, from, to

(* str_free takes the text of one variable and its block.                    *)
LEMMA FreeStep ==
  ASSUME StringInv, NEW h \in Handle, StrFree(h)
  PROVE  StringInv' /\ Text!StrFree(h)
<1>1. /\ ptr \in [Handle -> Block \cup {NULL}] /\ DOMAIN mem \subseteq Block
      /\ \A g \in Handle : ptr[g] \in DOMAIN mem \cup {NULL}
      /\ \A x \in DOMAIN mem : \E g \in Handle : ptr[g] = x
      /\ \A f, g \in Handle : ptr[f] = ptr[g] /\ ptr[f] # NULL => f = g
      /\ \A x \in DOMAIN mem : IsString(mem[x])
      /\ NULL \notin DOMAIN mem
  BY StringAssumption DEF StringInv, BlocksOwned
<1>2. /\ DOMAIN mem' = DOMAIN mem \ {ptr[h]}
      /\ \A x \in DOMAIN mem' : mem'[x] = mem[x]
  BY DEF StrFree, Restrict
<1>3. /\ ptr' \in [Handle -> Block \cup {NULL}] /\ ptr'[h] = NULL
      /\ \A g \in Handle : g # h => ptr'[g] = ptr[g]
  BY <1>1 DEF StrFree
<1>4. BlocksOwned'
  <2>1. ASSUME NEW g \in Handle
        PROVE  ptr'[g] \in DOMAIN mem' \cup {NULL}
    BY <1>1, <1>2, <1>3
  <2>2. ASSUME NEW x \in DOMAIN mem'
        PROVE  \E g \in Handle : ptr'[g] = x
    <3>1. PICK g \in Handle : ptr[g] = x
      BY <1>1, <1>2
    <3>2. g # h
      BY <1>2, <3>1
    <3> QED
      BY <1>3, <3>1, <3>2
  <2>3. ASSUME NEW f \in Handle, NEW g \in Handle, ptr'[f] = ptr'[g], ptr'[f] # NULL
        PROVE  f = g
    BY <1>1, <1>3, <2>3
  <2> QED
    BY <2>1, <2>2, <2>3 DEF BlocksOwned
<1>5. \A x \in DOMAIN mem' : IsString(mem'[x])
  BY <1>1, <1>2
<1>6. StringInv'
  BY <1>1, <1>2, <1>3, <1>4, <1>5 DEF StringInv, IsString, CString, IsUtf8, Terminated
<1>7. ASSUME NEW g \in Handle
      PROVE  TextIn(g)' = IF g = h THEN NoText ELSE TextIn(g)
  <2>1. CASE g = h \/ ptr[g] = NULL
    BY <1>3, <2>1 DEF TextIn, IsNull
  <2>2. CASE g # h /\ ptr[g] # NULL
    <3>1. ptr'[g] = ptr[g] /\ mem'[ptr[g]] = mem[ptr[g]]
      BY <1>1, <1>2, <1>3, <2>2
    <3> QED
      BY <2>2, <3>1 DEF TextIn, IsNull, BytesOf
  <2> QED
    BY <2>1, <2>2
<1>8. Text!Becomes(h, NoText)
  BY <1>7 DEF Text!Becomes
<1>9. ret' = Answer("free", <<h>>)
  BY DEF StrFree
<1> QED
  BY <1>6, <1>8, <1>9 DEF Text!StrFree, Text!Answer, Answer

(* A call that gets no memory changes nothing.                               *)
LEMMA RefusedStep ==
  ASSUME StringInv, Refused
  PROVE  StringInv' /\ Text!Refused
<1>1. UNCHANGED <<ptr, mem>> /\ ret' = Answer("null", <<>>)
  BY DEF Refused
<1>2. /\ StringInv'
      /\ [h \in Handle |-> TextIn(h)]' = [h \in Handle |-> TextIn(h)]
  BY <1>1, SameText
<1> QED
  BY <1>1, <1>2 DEF Text!Refused, Text!Answer, Answer

(* str_append: nothing to append, no string yet, or the bytes joined in a    *)
(* new block.                                                                *)
LEMMA AppendStep ==
  ASSUME StringInv, NEW h \in Handle, NEW s \in Source, StrAppend(h, s)
  PROVE  StringInv' /\ (Text!StrAppend(h, s) \/ Text!Refused)
<1> DEFINE t == Text!Content(h)
           u == Text!Content(s)
<1>1. PICK q : Spells(Given(h), q, t)
  <2>1. h \in Source
    BY DEF Source
  <2> QED
    BY <2>1, SourceSpelled
<1>2. PICK v : Spells(Given(s), v, u)
  BY SourceSpelled
<1>3. /\ Text!TextOf(h) = TextIn(h)
      /\ Text!StrAppend(h, s) <=>
           /\ ret' = Answer("append", <<h, s>>)
           /\ Text!Becomes(h, IF u = <<>> THEN TextIn(h) ELSE t \o u)
  BY DEF Text!StrAppend, Text!TextOf, Text!Answer, Answer
<1>4. u = <<>> <=> Given(s) = <<>>
  <2>1. /\ Len(u) <= Len(Given(s)) /\ Given(s) \in Seq(NonZero) /\ u \in Seq(Rune)
        /\ v[0] = 0 /\ v[Len(u)] = Len(Given(s))
    <3>1. Len(u) <= Len(Given(s))
      BY <1>2, Places
    <3> QED
      BY <1>2, <3>1 DEF Spells
  <2> HIDE DEF u
  <2>2. ASSUME u = <<>>
        PROVE  Given(s) = <<>>
    <3>1. Len(u) = 0
      BY <2>2
    <3>2. Len(Given(s)) = 0
      BY <2>1, <3>1
    <3> QED
      BY <2>1, <3>2
  <2>3. ASSUME Given(s) = <<>>
        PROVE  u = <<>>
    <3>1. Len(u) = 0
      BY <2>1, <2>3
    <3> QED
      BY <2>1, <3>1
  <2> QED
    BY <2>2, <2>3
<1> HIDE DEF t, u
<1>5. CASE AppendRefused(h, s)
  BY <1>5, RefusedStep DEF AppendRefused
<1>6. CASE AppendNothing(s) /\ ret' = Answer("append", <<h, s>>)
  <2>1. u = <<>>
    BY <1>4, <1>6 DEF AppendNothing, Given
  <2>2. UNCHANGED <<ptr, mem>>
    BY <1>6 DEF AppendNothing
  <2>3. /\ StringInv'
        /\ [g \in Handle |-> TextIn(g)]' = [g \in Handle |-> TextIn(g)]
    BY <2>2, SameText
  <2>4. Text!Becomes(h, TextIn(h))
    BY <2>3 DEF Text!Becomes
  <2> QED
    BY <1>3, <1>6, <2>1, <2>3, <2>4
<1>7. CASE AppendToNull(h, s) /\ ret' = Answer("append", <<h, s>>)
  <2>1. Given(s) = BytesOf(s) /\ Given(s) # <<>>
    BY <1>7 DEF AppendToNull, Given
  <2>2. /\ StringInv' /\ Text!Becomes(h, u)
        /\ ptr[h] = NULL /\ TextIn(h) = NoText
    BY <1>2, <1>7, <2>1, MakesText DEF AppendToNull
  <2>3. t = <<>> /\ u \in Seq(Rune)
    <3>1. t = <<>>
      BY <1>3, <2>2 DEF t, Text!Content
    <3> QED
      BY <1>2, <3>1 DEF Spells
  <2>4. t \o u = u
    BY <2>3
  <2> QED
    BY <1>3, <1>4, <1>7, <2>1, <2>2, <2>4
<1>8. CASE AppendMoves(h, s) /\ ret' = Answer("append", <<h, s>>)
  <2>1. Given(h) = BytesOf(h) /\ Given(s) = BytesOf(s) /\ Given(s) # <<>>
    BY <1>8 DEF AppendMoves, Given
  <2> DEFINE x == Given(h) \o Given(s)
  <2>2. PICK p : Spells(x, p, t \o u)
    BY <1>1, <1>2, JoinSpelled
  <2>3. Joined(BytesOf(h), BytesOf(s)) = Terminated(x)
    <3>1. Given(h) \in Seq(NonZero) /\ Given(s) \in Seq(NonZero)
      BY <1>1, <1>2 DEF Spells
    <3>2. Len(x) = Len(Given(h)) + Len(Given(s))
      BY <3>1
    <3> QED
      BY <2>1, <3>2 DEF Joined, Terminated
  <2> HIDE DEF x
  <2>4. PICK b \in Block \ DOMAIN mem :
          mem' = Moved(h, b, Terminated(x)) /\ ptr' = [ptr EXCEPT ![h] = b]
    BY <1>8, <2>3 DEF AppendMoves
  <2>5. StringInv' /\ Text!Becomes(h, t \o u)
    BY <2>2, <2>4, BlockTaken
  <2> QED
    BY <1>3, <1>4, <1>8, <2>1, <2>5
<1> QED
  BY <1>5, <1>6, <1>7, <1>8 DEF StrAppend

(* Every step.                                                               *)
LEMMA StringStep ==
  ASSUME StringInv, [Next]_vars
  PROVE  StringInv' /\ [Text!Next]_(Text!vars)
<1>1. CASE UNCHANGED vars
  <2>1. UNCHANGED <<ptr, mem>> /\ ret' = ret
    BY <1>1 DEF vars
  <2>2. /\ StringInv'
        /\ [h \in Handle |-> TextIn(h)]' = [h \in Handle |-> TextIn(h)]
    BY <2>1, SameText
  <2> QED
    BY <2>1, <2>2 DEF Text!vars
<1>2. CASE Refused
  BY <1>2, RefusedStep DEF Text!Next
<1>3. ASSUME NEW h \in Handle, StrFree(h)
      PROVE  StringInv' /\ Text!Next
  BY <1>3, FreeStep DEF Text!Next
<1>4. ASSUME NEW h \in Handle, NEW s \in Source, StrOf(h, s)
      PROVE  StringInv' /\ Text!Next
  <2>1. StringInv' /\ Text!StrOf(h, s)
    BY <1>4, OfStep
  <2> QED
    BY <2>1 DEF Text!Next, Text!Source, Source
<1>5. ASSUME NEW h \in Handle, NEW s \in Source, StrAppend(h, s)
      PROVE  StringInv' /\ Text!Next
  <2>1. StringInv' /\ (Text!StrAppend(h, s) \/ Text!Refused)
    BY <1>5, AppendStep
  <2> QED
    BY <2>1 DEF Text!Next, Text!Source, Source
<1>6. ASSUME NEW h \in Handle, NEW s \in Source, NEW nb \in Bytes, StrNbof(h, s, nb)
      PROVE  StringInv' /\ Text!Next
  <2>1. StringInv' /\ Text!StrNbof(h, s, nb)
    BY <1>6, NbofStep
  <2> QED
    BY <2>1 DEF Text!Next, Text!Source, Source
<1>7. ASSUME NEW h \in Handle, NEW s \in Source,
             NEW start \in Position, NEW end \in Position, StrSubstring(h, s, start, end)
      PROVE  StringInv' /\ Text!Next
  <2>1. StringInv' /\ Text!StrSubstring(h, s, start, end)
    BY <1>7, SubstringStep
  <2> QED
    BY <2>1 DEF Text!Next, Text!Source, Source
<1> QED
  BY <1>1, <1>2, <1>3, <1>4, <1>5, <1>6, <1>7 DEF Next

(* In every state the blocks, the variables that hold them, and the bytes in *)
(* them are as str_of, str_nbof, str_append, str_substring and str_free      *)
(* leave them.                                                               *)
THEOREM StringCorrect == Spec => []StringInv
<1>1. StringInv /\ [Next]_vars => StringInv'
  BY StringStep
<1> QED
  BY <1>1, StringInit, PTL DEF Spec

(* Each block is the string of one variable, for any number of variables and *)
(* of blocks: str_append neither loses the old block nor shares it.          *)
THEOREM BlocksStayOwned == Spec => []BlocksOwned
<1>1. StringInv => BlocksOwned
  BY DEF StringInv
<1> QED
  BY <1>1, StringCorrect, PTL

(* Whatever is cut and appended, a string is UTF-8 and ends with a 0 that is *)
(* in its block.                                                             *)
THEOREM StringsStayWellFormed == Spec => []WellFormed
<1>1. ASSUME StringInv, NEW b \in DOMAIN mem
      PROVE  /\ Len(mem[b].bytes) <= mem[b].size
             /\ \E n \in DOMAIN mem[b].bytes : mem[b].bytes[n] = 0
             /\ IsUtf8(CString(mem[b].bytes))
  <2> DEFINE s == CString(mem[b].bytes)
  <2>1. s \in Seq(NonZero) /\ IsUtf8(s) /\ mem[b] = Terminated(s)
    BY <1>1 DEF StringInv, IsString, NonZero
  <2> HIDE DEF s
  <2>2. s \in Seq(Nat) /\ Len(s) \in Nat
    BY <2>1, NonZeroByte
  <2>3. mem[b].bytes = s \o <<0>> /\ mem[b].size = Len(s) + 1
    BY <2>1 DEF Terminated, Contents
  <2>4. Len(s) + 1 \in DOMAIN mem[b].bytes /\ mem[b].bytes[Len(s) + 1] = 0
        /\ Len(mem[b].bytes) = Len(s) + 1
    BY <2>2, <2>3
  <2> QED
    BY <2>1, <2>2, <2>3, <2>4 DEF s
<1>2. StringInv => WellFormed
  BY <1>1 DEF WellFormed
<1> QED
  BY <1>2, StringCorrect, PTL

(* The questions are answered in codepoints for strings of any length: the   *)
(* comparison of bytes finds a codepoint where it begins and nowhere else.   *)
THEOREM QuestionsStayInCodepoints == Spec => []QuestionsInCodepoints
<1>1. ASSUME StringInv, NEW s \in Source, ~IsNull(s)
      PROVE  /\ StrLen(s) = Len(Text!TextOf(s))
             /\ StrSize(s) = Text!Weight(Text!TextOf(s))
             /\ \A u \in {u \in Source : ~IsNull(u)} :
                  StrIndexString(s, u) = Text!FirstPlace(Text!TextOf(s), Text!TextOf(u))
             /\ \A r \in Rune :
                  /\ Decoded(RuneToChars(r)) = <<r>> /\ Len(RuneToChars(r)) = RuneBytes(r)
                  /\ StrIndexRune(s, r) = Text!FirstPlace(Text!TextOf(s), <<r>>)
  <2>1. PICK q : Spells(BytesOf(s), q, Text!TextOf(s))
    BY <1>1, SourceSpelled
  <2>2. StrLen(s) = Len(Text!TextOf(s))
    BY <2>1, LengthSpelled DEF StrLen
  <2>3. StrSize(s) = Text!Weight(Text!TextOf(s))
    BY <2>1, WeightSpelled DEF StrSize
  <2>4. ASSUME NEW u \in Source, ~IsNull(u)
        PROVE  StrIndexString(s, u) = Text!FirstPlace(Text!TextOf(s), Text!TextOf(u))
    <3>1. PICK v : Spells(BytesOf(u), v, Text!TextOf(u))
      BY <1>1, <2>4, SourceSpelled
    <3>2. StrIndexString(s, u) = IndexOf(BytesOf(s), BytesOf(u))
      BY <1>1, <2>4 DEF StrIndexString
    <3> QED
      BY <2>1, <3>1, <3>2, FirstPlaceSpelled
  <2>5. ASSUME NEW r \in Rune
        PROVE  /\ Decoded(RuneToChars(r)) = <<r>> /\ Len(RuneToChars(r)) = RuneBytes(r)
               /\ StrIndexRune(s, r) = Text!FirstPlace(Text!TextOf(s), <<r>>)
    <3>1. PICK v : Spells(RuneToChars(r), v, <<r>>)
      BY RuneSpelled
    <3>2. r # 0
      BY StringAssumption DEF Unicode
    <3>3. StrIndexRune(s, r) = IndexOf(BytesOf(s), RuneToChars(r))
      BY <1>1, <3>2 DEF StrIndexRune
    <3> QED
      BY <2>1, <3>1, <3>3, DecodedSpelled, RuneFacts, FirstPlaceSpelled
  <2> QED
    BY <2>2, <2>3, <2>4, <2>5
<1>2. StringInv => QuestionsInCodepoints
  BY <1>1 DEF QuestionsInCodepoints
<1> QED
  BY <1>2, StringCorrect, PTL

(* The strings of icestring.c implement the texts that icestring.h promises: *)
(* for any literals, codepoints, blocks and sizes of memory.                 *)
THEOREM StringRefinesText == Spec => RefinesText
<1>1. Init => Text!Init
  BY DEF Init, Text!Init, TextIn, IsNull, Text!Answer, Answer
<1>2. StringInv /\ [Next]_vars => [Text!Next]_(Text!vars)
  BY StringStep
<1>3. Spec => Text!Spec
  BY <1>1, <1>2, StringCorrect, PTL DEF Spec, Text!Spec
<1> QED
  BY <1>3 DEF RefinesText
=============================================================================
