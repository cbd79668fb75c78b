---------------------------- MODULE IceBufProofs ----------------------------
(***************************************************************************)
(* What is proved about IceBuf, for sizes that do not wrap when they are   *)
(* turned into bytes.                                                      *)
(***************************************************************************)
EXTENDS IceBuf, Sequences, TLAPS

Stride(a) == ice_align_up(SizeofType, a)

(* The sizes callers reserve are refused or fit a size_t in bytes, and there *)
(* is so little memory that half as much again fits one, too.                *)
SizesFit ==
  \A a \in Align \ {0} :
    /\ \A n \in Size : TooLarge(Growth(n)) \/ Growth(n) * Stride(a) < SizeMod
    /\ 3 * MaxBytes + 4 * Stride(a) < 2 * SizeMod

-----------------------------------------------------------------------------
(* Arithmetic.                                                               *)

LEMMA TimesNat == \A m, n \in Nat : m * n \in Nat
BY SMT

LEMMA TimesMonotone ==
  ASSUME NEW m \in Nat, NEW n \in Nat, NEW s \in Nat, m <= n
  PROVE  m * s <= n * s
<1>1. (n - m) * s \in Nat
  BY TimesNat
<1>2. n * s = m * s + (n - m) * s
  OBVIOUS
<1> QED
  BY <1>1, <1>2, TimesNat

LEMMA TimesNext ==
  ASSUME NEW n \in Nat, NEW s \in Nat
  PROVE  (n + 1) * s = n * s + s
OBVIOUS

(* A multiple of a multiple.                                                 *)
LEMMA MultipleOf ==
  ASSUME NEW a \in Nat \ {0}, NEW s \in Nat, s % a = 0, NEW n \in Nat
  PROVE  (n * s) % a = 0
<1> DEFINE q == s \div a
<1>1. q \in Nat /\ s = a * q
  OBVIOUS
<1>2. n * s = a * (n * q)
  BY <1>1
<1>3. n * q \in Nat
  BY <1>1, TimesNat
<1> HIDE DEF q
<1>4. ASSUME NEW k \in Nat
      PROVE  (a * k) % a = 0
  OBVIOUS
<1> QED
  BY <1>2, <1>3, <1>4

(* The distance of entries: the size of one, rounded up to the alignment.    *)
LEMMA StrideFacts ==
  ASSUME NEW a \in Nat \ {0}
  PROVE  Stride(a) \in Nat /\ Stride(a) >= SizeofType /\ Stride(a) % a = 0
<1> DEFINE n == SizeofType + (a - 1)
<1>1. n \in Nat /\ SizeofType \in Nat \ {0}
  BY BufAssumption
<1>2. n % a \in 0 .. a - 1
  BY <1>1
<1> HIDE DEF n
<1>3. (n - (n % a)) % a = 0
  <2>1. n \div a \in Nat /\ n - (n % a) = (n \div a) * a
    BY <1>1
  <2>2. a % a = 0
    OBVIOUS
  <2> QED
    BY <2>1, <2>2, MultipleOf
<1> USE DEF n
<1>4. Stride(a) = n - (n % a)
  BY DEF Stride, ice_align_up
<1>5. n - (n % a) \in Nat /\ n - (n % a) >= SizeofType
  BY <1>1, <1>2
<1> QED
  BY <1>3, <1>4, <1>5

LEMMA GrowthFacts ==
  ASSUME NEW n \in Nat, n > 0
  PROVE  Growth(n) \in Nat /\ Growth(n) >= n /\ 2 * Growth(n) <= 3 * n + 1
BY DEF Growth
-----------------------------------------------------------------------------
(* The inductive invariant: the bytes of all entries fit the memory there    *)
(* is, so no byte size has wrapped, and alignedSize is what _new made it.    *)

NoWrap ==
  /\ cap * alignedSize <= MaxBytes
  /\ IF life = "made"
     THEN align \in Align \ {0} /\ alignedSize = Stride(align)
     ELSE cap = 0 /\ data = 0 /\ held = NULL /\ align = 0 /\ alignedSize = 0

BufInv == TypeOK /\ OwnsOneBlock /\ PointerGood /\ NoWrap

LEMMA Constants ==
  /\ MaxBytes \in Nat /\ SizeMod \in Nat \ {0} /\ MaxBytes < SizeMod
  /\ SizeofType \in Nat \ {0} /\ Size \subseteq Nat
  /\ Align \subseteq Nat /\ Garbage \in Memory /\ Byte \subseteq Memory
BY BufAssumption DEF Memory

(* Entry i of n entries that fit.                                            *)
LEMMA EntryFits ==
  ASSUME NEW a \in Nat \ {0}, alignedSize = Stride(a),
         NEW n \in Nat, n * alignedSize < SizeMod,
         NEW i \in Nat, i < n
  PROVE  /\ At(i) = i * alignedSize /\ At(i) \in Nat
         /\ At(i) % a = 0
         /\ At(i) + SizeofType <= n * alignedSize
         /\ n * alignedSize \in Nat /\ Bytes(n) = n * alignedSize
<1>1. /\ alignedSize \in Nat /\ alignedSize >= SizeofType
      /\ alignedSize % a = 0
      /\ SizeofType \in Nat \ {0} /\ SizeMod \in Nat \ {0}
  BY StrideFacts, Constants
<1>2. (i + 1) * alignedSize <= n * alignedSize
  BY <1>1, TimesMonotone
<1>3. i * alignedSize + alignedSize <= n * alignedSize
  BY <1>1, <1>2, TimesNext
<1>4. i * alignedSize \in Nat /\ n * alignedSize \in Nat
  BY <1>1, TimesNat
<1>5. (i * alignedSize) % a = 0
  BY <1>1, MultipleOf
<1>6. At(i) = i * alignedSize
  <2> DEFINE k == i * alignedSize
  <2> HIDE DEF k
  <2>1. k \in Nat /\ k < SizeMod => k % SizeMod = k
    BY <1>1
  <2> QED
    BY <1>1, <1>3, <1>4, <2>1 DEF At, k
<1>7. Bytes(n) = n * alignedSize
  <2> DEFINE k == n * alignedSize
  <2> HIDE DEF k
  <2>1. k \in Nat /\ k < SizeMod => k % SizeMod = k
    BY <1>1
  <2> QED
    BY <1>4, <2>1 DEF Bytes, k
<1> DEFINE k == i * alignedSize
<1> DEFINE m == n * alignedSize
<1>8. k + alignedSize <= m /\ k \in Nat /\ m \in Nat
  BY <1>3, <1>4
<1>9. k + SizeofType <= m
  <2> HIDE DEF k, m
  <2> QED
    BY <1>1, <1>8
<1> QED
  BY <1>4, <1>5, <1>6, <1>7, <1>9

LEMMA MadeFacts ==
  ASSUME BufInv, life = "made"
  PROVE  /\ cap \in Nat /\ lim \in Nat /\ lim <= cap
         /\ align \in Align \ {0} /\ align \in Nat \ {0}
         /\ alignedSize = Stride(align) /\ alignedSize \in Nat
         /\ alignedSize >= SizeofType
         /\ cap * alignedSize \in Nat /\ cap * alignedSize <= MaxBytes
         /\ cap * alignedSize < SizeMod
         /\ Bytes(cap) = cap * alignedSize
<1>1. /\ cap \in Nat /\ lim \in Nat /\ lim <= cap
      /\ align \in Align \ {0} /\ alignedSize = Stride(align)
      /\ cap * alignedSize <= MaxBytes
  BY DEF BufInv, TypeOK, NoWrap
<1>2. align \in Nat \ {0}
  BY <1>1, Constants
<1>3. alignedSize \in Nat /\ alignedSize >= SizeofType
  BY <1>1, <1>2, StrideFacts
<1>4. cap * alignedSize \in Nat
  BY <1>1, <1>3, TimesNat
<1>5. cap * alignedSize < SizeMod
  BY <1>1, <1>4, Constants
<1>6. Bytes(cap) = cap * alignedSize
  <2> DEFINE k == cap * alignedSize
  <2> HIDE DEF k
  <2>1. k \in Nat /\ k < SizeMod => k % SizeMod = k
    BY Constants
  <2> QED
    BY <1>4, <1>5, <2>1 DEF Bytes, k
<1> QED
  BY <1>1, <1>2, <1>3, <1>4, <1>5, <1>6

(* A size that passes the check of _reserve does not wrap: what callers      *)
(* reserve by hypothesis, and one entry more than there are because there is *)
(* so little memory.                                                         *)
LEMMA GrownFits ==
  ASSUME SizesFit, BufInv, life = "made",
         NEW n, n \in Size \/ n = lim + 1, ~HasRoom(n), ~TooLarge(Growth(n))
  PROVE  /\ Growth(n) \in Nat /\ n \in Nat /\ n <= Growth(n) /\ cap < Growth(n)
         /\ Growth(n) * alignedSize \in Nat
         /\ Growth(n) * alignedSize < SizeMod
         /\ Bytes(Growth(n)) = Growth(n) * alignedSize
         /\ Bytes(cap) < Bytes(Growth(n))
<1> DEFINE g == Growth(n)
<1>1. n \in Nat /\ n > cap /\ n > 0
  <2>1. CASE n \in Size
    BY <2>1, MadeFacts, Constants DEF HasRoom
  <2>2. CASE n = lim + 1
    BY <2>2, MadeFacts DEF HasRoom
  <2> QED
    BY <2>1, <2>2
<1>2. g \in Nat /\ g >= n /\ 2 * g <= 3 * n + 1
  BY <1>1, GrowthFacts
<1> HIDE DEF g
<1>3. g * alignedSize \in Nat
  BY <1>2, MadeFacts, TimesNat
<1>4. ASSUME n \in Size
      PROVE  g * alignedSize < SizeMod
  BY <1>4, MadeFacts DEF SizesFit, g
<1>5. ASSUME n = lim + 1
      PROVE  g * alignedSize < SizeMod
  <2>1. 2 * g <= 3 * cap + 4
    BY <1>2, <1>5, MadeFacts
  <2>2. (2 * g) * alignedSize <= (3 * cap + 4) * alignedSize
    BY <1>2, <2>1, MadeFacts, TimesMonotone
  <2>3. /\ (2 * g) * alignedSize = 2 * (g * alignedSize)
        /\ (3 * cap + 4) * alignedSize = 3 * (cap * alignedSize) + 4 * alignedSize
    BY <1>2, MadeFacts
  <2>4. 3 * MaxBytes + 4 * alignedSize < 2 * SizeMod
    BY MadeFacts DEF SizesFit
  <2> DEFINE x == g * alignedSize
  <2> DEFINE y == cap * alignedSize
  <2>5. 2 * x <= 3 * y + 4 * alignedSize /\ x \in Nat /\ y \in Nat /\ y <= MaxBytes
    BY <1>3, <2>2, <2>3, MadeFacts
  <2>6. x < SizeMod
    <3> HIDE DEF x, y
    <3> QED
      BY <2>4, <2>5, MadeFacts, Constants
  <2> QED
    BY <2>6 DEF g
<1>6. g * alignedSize < SizeMod
  BY <1>4, <1>5 DEF g
<1>7. Bytes(g) = g * alignedSize
  <2> DEFINE k == g * alignedSize
  <2> HIDE DEF k
  <2>1. k \in Nat /\ k < SizeMod => k % SizeMod = k
    BY Constants
  <2> QED
    BY <1>3, <1>6, <2>1 DEF Bytes, k
<1>8. cap * alignedSize < g * alignedSize
  <2>1. (cap + 1) * alignedSize <= g * alignedSize
    BY <1>1, <1>2, MadeFacts, TimesMonotone
  <2>2. cap * alignedSize + alignedSize <= g * alignedSize
    BY <2>1, MadeFacts, TimesNext
  <2> DEFINE x == g * alignedSize
  <2> DEFINE y == cap * alignedSize
  <2>3. y + alignedSize <= x /\ x \in Nat /\ y \in Nat /\ alignedSize \in Nat
        /\ alignedSize >= 1
    BY <1>3, <2>2, MadeFacts, Constants
  <2>4. y < x
    <3> HIDE DEF x, y
    <3> QED
      BY <2>3
  <2> QED
    BY <2>4
<1> QED
  BY <1>1, <1>2, <1>3, <1>6, <1>7, <1>8, MadeFacts DEF g
-----------------------------------------------------------------------------
(* What the parts of the calls keep.                                         *)

(* A reserve that grows moves the entries to a larger block.                 *)
LEMMA GrowsInv ==
  ASSUME SizesFit, BufInv, life = "made",
         NEW n, n \in Size \/ n = lim + 1, ~HasRoom(n), Grows(Growth(n)),
         UNCHANGED alignedSize
  PROVE  /\ cap' \in Nat /\ lim <= cap' /\ n <= cap'
         /\ cap' * alignedSize <= MaxBytes
         /\ data' \in Block /\ heap' = {data'} /\ cap' # 0
         /\ mem' \in [0 .. Bytes(cap') - 1 -> Memory]
<1> DEFINE g == Growth(n)
<1>1. /\ g \in Nat /\ n \in Nat /\ n <= g /\ cap < g
      /\ Bytes(g) = g * alignedSize /\ Bytes(g) \in Nat
      /\ Bytes(cap) < Bytes(g) /\ Bytes(cap) \in Nat
      /\ ~TooLarge(g)
  BY GrownFits, MadeFacts DEF Grows
<1> HIDE DEF g
<1>2. Moves(g) /\ cap' = g
  <2>1. ~StaysPut(g)
    BY <1>1 DEF StaysPut
  <2> QED
    BY <2>1 DEF Grows, g
<1>3. cap' * alignedSize <= MaxBytes /\ cap' # 0 /\ lim <= cap'
  BY <1>1, <1>2, MadeFacts DEF Moves
<1>4. data' \in Block /\ heap' = {data'}
  BY <1>2 DEF Moves, BufInv, OwnsOneBlock
<1>5. mem \in [0 .. Bytes(cap) - 1 -> Memory]
  BY DEF BufInv, TypeOK
<1>6. ASSUME NEW b \in 0 .. Bytes(g) - 1
      PROVE  (IF b < Bytes(cap) THEN mem[b] ELSE Garbage) \in Memory
  <2>1. CASE b < Bytes(cap)
    <3>1. b \in 0 .. Bytes(cap) - 1
      BY <1>1, <2>1
    <3> QED
      BY <1>5, <2>1, <3>1
  <2>2. CASE ~(b < Bytes(cap))
    BY <2>2, Constants
  <2> QED
    BY <2>1, <2>2
<1>7. mem' \in [0 .. Bytes(g) - 1 -> Memory]
  BY <1>2, <1>6 DEF Moves, Copied
<1> QED
  BY <1>1, <1>2, <1>3, <1>4, <1>7 DEF g

(* A pointer to an entry is good, in a block that has grown, too.            *)
LEMMA EntryGood ==
  ASSUME NEW a \in Nat \ {0}, alignedSize = Stride(a),
         NEW n \in Nat, n * alignedSize <= MaxBytes,
         NEW i \in Nat, i < n
  PROVE  At(i) \in Nat /\ At(i) % a = 0 /\ At(i) + SizeofType <= Bytes(n)
<1>1. n * alignedSize \in Nat
  BY StrideFacts, TimesNat
<1>2. n * alignedSize < SizeMod
  BY <1>1, Constants
<1> QED
  BY <1>2, EntryFits

(* The calls that leave the memory alone.                                    *)
LEMMA SameMemory ==
  ASSUME BufInv, life = "made", UNCHANGED <<params, memory>>,
         lim' \in Nat, lim' <= cap,
         held' = held \/ \E i \in Nat : i < cap /\ held' = EntryPtr(i)
  PROVE  BufInv'
<1>1. /\ life' = life /\ align' = align /\ alignedSize' = alignedSize
      /\ cap' = cap /\ data' = data /\ mem' = mem /\ heap' = heap
  BY DEF params, memory
<1>2. Bytes(cap)' = Bytes(cap)
  BY <1>1 DEF Bytes
<1>3. ASSUME NEW i \in Nat, i < cap, held' = EntryPtr(i)
      PROVE  held' \in [block : Block \cup {0}, at : Nat] /\ PointerGood'
  <2>1. At(i) \in Nat /\ At(i) % align = 0 /\ InBlock(At(i))
    BY <1>3, MadeFacts, EntryGood DEF InBlock
  <2>2. data \in Block /\ heap = {data}
    BY <1>3, MadeFacts DEF BufInv, OwnsOneBlock, TypeOK
  <2>3. held' = [block |-> data, at |-> At(i)]
    BY <1>3 DEF EntryPtr, Pointer
  <2> QED
    BY <1>1, <1>2, <2>1, <2>2, <2>3 DEF PointerGood, InBlock
<1>4. ASSUME held' = held
      PROVE  held' \in [block : Block \cup {0}, at : Nat] /\ PointerGood'
  BY <1>1, <1>2, <1>4 DEF BufInv, TypeOK, PointerGood, InBlock
<1>5. held' \in [block : Block \cup {0}, at : Nat] /\ PointerGood'
  BY <1>3, <1>4
<1>6. TypeOK'
  BY <1>1, <1>2, <1>5 DEF BufInv, TypeOK
<1>7. OwnsOneBlock'
  BY <1>1 DEF BufInv, OwnsOneBlock
<1>8. NoWrap'
  BY <1>1 DEF BufInv, NoWrap, Stride, ice_align_up
<1> QED
  BY <1>5, <1>6, <1>7, <1>8 DEF BufInv

(* The calls that have made the buffer grow.                                 *)
LEMMA GrownMemory ==
  ASSUME SizesFit, BufInv, life = "made", UNCHANGED params,
         NEW n, n \in Size \/ n = lim + 1, ~HasRoom(n), Grows(Growth(n)),
         lim' \in Nat, lim' <= cap',
         held' = NULL \/ \E i \in Nat : i < cap' /\ held' = Pointer(data', At(i))
  PROVE  BufInv'
<1>1. life' = life /\ align' = align /\ alignedSize' = alignedSize
  BY DEF params
<1>2. /\ cap' \in Nat /\ cap' # 0 /\ cap' * alignedSize <= MaxBytes
      /\ data' \in Block /\ heap' = {data'}
      /\ mem' \in [0 .. Bytes(cap') - 1 -> Memory]
  BY <1>1, GrowsInv
<1>3. Bytes(cap)' = Bytes(cap')
  BY <1>1 DEF Bytes
<1>4. 0 \notin Block
  BY BufAssumption
<1>5. ASSUME NEW i \in Nat, i < cap', held' = Pointer(data', At(i))
      PROVE  held' \in [block : Block \cup {0}, at : Nat] /\ PointerGood'
  <2>1. At(i) \in Nat /\ At(i) % align = 0 /\ At(i) + SizeofType <= Bytes(cap')
    BY <1>2, <1>5, MadeFacts, EntryGood
  <2>2. held' = [block |-> data', at |-> At(i)]
    BY <1>5 DEF Pointer
  <2> QED
    BY <1>1, <1>2, <1>3, <2>1, <2>2 DEF PointerGood, InBlock
<1>6. ASSUME held' = NULL
      PROVE  held' \in [block : Block \cup {0}, at : Nat] /\ PointerGood'
  BY <1>6 DEF PointerGood, NULL, Pointer
<1>7. held' \in [block : Block \cup {0}, at : Nat] /\ PointerGood'
  BY <1>5, <1>6
<1>8. TypeOK'
  BY <1>1, <1>2, <1>3, <1>7 DEF BufInv, TypeOK
<1>9. OwnsOneBlock'
  BY <1>2, <1>4 DEF OwnsOneBlock
<1>10. NoWrap'
  BY <1>1, <1>2 DEF BufInv, NoWrap, Stride, ice_align_up
<1> QED
  BY <1>7, <1>8, <1>9, <1>10 DEF BufInv

(* The writes.                                                               *)
LEMMA WrittenMemory ==
  ASSUME BufInv, UNCHANGED <<params, lim, cap, data, heap, held>>,
         NEW at, NEW k, NEW c \in Byte, mem' = Filled(mem, at, k, c)
  PROVE  BufInv'
<1>1. /\ life' = life /\ align' = align /\ alignedSize' = alignedSize
      /\ lim' = lim /\ cap' = cap /\ data' = data /\ heap' = heap /\ held' = held
  BY DEF params
<1>2. Bytes(cap)' = Bytes(cap)
  BY <1>1 DEF Bytes
<1>3. mem' \in [0 .. Bytes(cap) - 1 -> Memory]
  BY Constants DEF Filled, BufInv, TypeOK
<1>4. TypeOK'
  BY <1>1, <1>2, <1>3 DEF BufInv, TypeOK
<1>5. PointerGood'
  BY <1>1, <1>2 DEF BufInv, PointerGood, InBlock
<1>6. OwnsOneBlock' /\ NoWrap'
  BY <1>1 DEF BufInv, OwnsOneBlock, NoWrap, Stride, ice_align_up
<1> QED
  BY <1>4, <1>5, <1>6 DEF BufInv

(* No buffer, before _new and after _free.                                   *)
LEMMA NoBuffer ==
  ASSUME life \in {"none", "aborted"}, align = 0, alignedSize = 0,
         lim = 0, cap = 0, data = 0, mem = NoBytes, heap = {}, held = NULL
  PROVE  BufInv
<1>1. Bytes(cap) = 0
  BY Constants DEF Bytes
<1>2. 0 .. Bytes(cap) - 1 = {}
  BY <1>1
<1>3. mem \in [0 .. Bytes(cap) - 1 -> Memory]
  BY <1>2 DEF NoBytes
<1>4. held \in [block : Block \cup {0}, at : Nat]
  BY DEF NULL, Pointer
<1>5. TypeOK
  BY <1>3, <1>4 DEF TypeOK
<1>6. OwnsOneBlock /\ PointerGood
  BY DEF OwnsOneBlock, PointerGood
<1>7. NoWrap
  BY Constants DEF NoWrap
<1> QED
  BY <1>5, <1>6, <1>7 DEF BufInv

LEMMA BufInit == Init => BufInv
BY NoBuffer DEF Init
-----------------------------------------------------------------------------
(* The steps.                                                                *)

LEMMA ReserveInv ==
  ASSUME SizesFit, BufInv, NEW n \in Size, Reserve(n)
  PROVE  BufInv'
<1>1. /\ life = "made" /\ UNCHANGED params /\ lim' = lim
      /\ ReserveOK(n) /\ held' = StillHeld(n)
  BY DEF Reserve
<1>2. CASE HasRoom(n)
  <2>1. UNCHANGED memory
    BY <1>1, <1>2 DEF ReserveOK
  <2>2. held' = held
    BY <1>1, <1>2 DEF StillHeld, HasRoom
  <2> QED
    BY <1>1, <2>1, <2>2, MadeFacts, SameMemory
<1>3. CASE ~HasRoom(n)
  <2>1. Grows(Growth(n))
    BY <1>1, <1>3 DEF ReserveOK
  <2>2. held' = NULL
    BY <1>1, <1>3 DEF StillHeld, HasRoom
  <2>3. UNCHANGED alignedSize
    BY <1>1 DEF params
  <2>4. lim' \in Nat /\ lim' <= cap'
    BY <1>1, <1>3, <2>1, <2>3, GrowsInv, MadeFacts
  <2> QED
    BY <1>1, <1>3, <2>1, <2>2, <2>4, GrownMemory
<1> QED
  BY <1>2, <1>3

LEMMA EmplaceBackInv ==
  ASSUME SizesFit, BufInv, EmplaceBack
  PROVE  BufInv'
<1> DEFINE n == lim + 1
<1>1. /\ life = "made" /\ UNCHANGED params /\ lim' = n
      /\ ReserveOK(n)
      /\ held' \in {StillHeld(n), Pointer(data', At(lim))}
  BY DEF EmplaceBack, Gives
<1>2. lim \in Nat /\ n \in Nat /\ lim < n /\ cap \in Nat
  BY <1>1, MadeFacts
<1>3. CASE HasRoom(n)
  <2>1. UNCHANGED memory
    BY <1>1, <1>3 DEF ReserveOK
  <2>2. data' = data
    BY <2>1 DEF memory
  <2>3. StillHeld(n) = held
    BY <1>3 DEF StillHeld, HasRoom
  <2>4. n <= cap /\ lim < cap
    BY <1>2, <1>3 DEF HasRoom
  <2>5. held' = held \/ (lim \in Nat /\ lim < cap /\ held' = EntryPtr(lim))
    BY <1>1, <1>2, <2>2, <2>3, <2>4 DEF EntryPtr
  <2> QED
    BY <1>1, <1>2, <2>1, <2>4, <2>5, SameMemory
<1>4. CASE ~HasRoom(n)
  <2>1. Grows(Growth(n))
    BY <1>1, <1>4 DEF ReserveOK
  <2>2. StillHeld(n) = NULL
    BY <1>4 DEF StillHeld, HasRoom
  <2>3. UNCHANGED alignedSize
    BY <1>1 DEF params
  <2>4. cap' \in Nat /\ n <= cap'
    BY <1>1, <1>4, <2>1, <2>3, GrowsInv
  <2>5. held' = NULL \/ (lim \in Nat /\ lim < cap' /\ held' = Pointer(data', At(lim)))
    BY <1>1, <1>2, <2>2, <2>4
  <2> QED
    BY <1>1, <1>2, <1>4, <2>1, <2>4, <2>5, GrownMemory
<1> QED
  BY <1>3, <1>4

(* Where no size wraps, realloc is never asked for 0 bytes, so a refused     *)
(* call does not free the block.                                             *)
LEMMA RefusedInv ==
  ASSUME SizesFit, BufInv, NEW op, NEW args,
         NEW n, n \in Size \/ n = lim + 1, Refused(op, args, n)
  PROVE  BufInv'
<1>1. /\ life = "made" /\ ~HasRoom(n)
      /\ UNCHANGED <<params, lim, cap, data, mem, held>>
  BY DEF Refused
<1>2. ~TooLarge(Growth(n)) => Bytes(Growth(n)) # 0
  <2>1. SUFFICES ASSUME ~TooLarge(Growth(n))
                 PROVE  Bytes(Growth(n)) # 0
    OBVIOUS
  <2>2. Bytes(cap) < Bytes(Growth(n)) /\ Bytes(cap) \in Nat
    BY <1>1, <2>1, GrownFits, MadeFacts
  <2> QED
    BY <2>2
<1>3. heap' = heap
  BY <1>2 DEF Refused
<1> QED
  BY <1>1, <1>3, MadeFacts, SameMemory DEF memory

LEMMA NewInv ==
  ASSUME BufInv, NEW a \in Align, New(a)
  PROVE  BufInv'
<1>1. /\ life = "none" /\ life' = "made" /\ a > 0
      /\ align' = a /\ alignedSize' = Stride(a)
      /\ UNCHANGED <<lim, memory, held>>
  BY DEF New, Stride
<1>2. a \in Nat \ {0} /\ Stride(a) \in Nat
  BY <1>1, Constants, StrideFacts
<1>3. lim' = lim /\ cap' = cap /\ data' = data /\ mem' = mem /\ heap' = heap /\ held' = held
  BY <1>1 DEF memory
<1>4. cap = 0 /\ data = 0 /\ held = NULL /\ lim = 0
  BY <1>1 DEF BufInv, NoWrap, TypeOK
<1>5. Bytes(cap) = 0 /\ Bytes(cap)' = 0
  BY <1>1, <1>2, <1>3, <1>4, Constants DEF Bytes, BufInv, TypeOK
<1>6. TypeOK'
  BY <1>1, <1>2, <1>3, <1>5 DEF BufInv, TypeOK
<1>7. OwnsOneBlock' /\ PointerGood'
  BY <1>3, <1>4 DEF BufInv, OwnsOneBlock, PointerGood
<1>8. cap' * alignedSize' <= MaxBytes
  BY <1>1, <1>2, <1>3, <1>4, Constants
<1>9. NoWrap'
  BY <1>1, <1>2, <1>8 DEF NoWrap, Stride, ice_align_up
<1> QED
  BY <1>6, <1>7, <1>9 DEF BufInv

LEMMA NothingAllocated ==
  ASSUME BufInv, life # "made"
  PROVE  /\ align = 0 /\ alignedSize = 0 /\ lim = 0 /\ cap = 0 /\ data = 0
         /\ mem = NoBytes /\ heap = {} /\ held = NULL
<1>1. align = 0 /\ alignedSize = 0 /\ cap = 0 /\ data = 0 /\ held = NULL
  BY DEF BufInv, NoWrap
<1>2. lim = 0 /\ heap = {}
  BY <1>1 DEF BufInv, TypeOK, OwnsOneBlock
<1>3. Bytes(cap) = 0
  BY <1>1, Constants DEF Bytes
<1>4. mem \in [{} -> Memory]
  <2>1. 0 .. 0 - 1 = {}
    OBVIOUS
  <2> QED
    BY <1>3, <2>1 DEF BufInv, TypeOK
<1>5. mem = NoBytes
  BY <1>4 DEF NoBytes
<1> QED
  BY <1>1, <1>2, <1>5

LEMMA NewAssertsInv ==
  ASSUME BufInv, NEW a \in Align, NewAsserts(a)
  PROVE  BufInv'
<1>1. life = "none" /\ life' = "aborted"
      /\ UNCHANGED <<lim, align, alignedSize, cap, data, mem, heap, held>>
  BY DEF NewAsserts, memory
<1>2. /\ align = 0 /\ alignedSize = 0 /\ lim = 0 /\ cap = 0 /\ data = 0
      /\ mem = NoBytes /\ heap = {} /\ held = NULL
  BY <1>1, NothingAllocated
<1>3. Bytes(cap) = Bytes(cap)'
  BY <1>1 DEF Bytes
<1> QED
  BY <1>1, <1>3 DEF BufInv, TypeOK, OwnsOneBlock, PointerGood, NoWrap, InBlock

LEMMA FreeInv ==
  ASSUME BufInv, Free
  PROVE  BufInv'
<1>1. heap' = {}
  BY DEF Free, BufInv, OwnsOneBlock
<1>2. /\ life' = "none" /\ align' = 0 /\ alignedSize' = 0
      /\ lim' = 0 /\ cap' = 0 /\ data' = 0 /\ mem' = NoBytes /\ held' = NULL
  BY DEF Free
<1>3. Bytes(cap)' = 0
  BY <1>2, Constants DEF Bytes
<1>4. 0 .. 0 - 1 = {}
  OBVIOUS
<1>5. mem' \in [0 .. Bytes(cap)' - 1 -> Memory]
  BY <1>2, <1>3, <1>4 DEF NoBytes
<1>6. TypeOK'
  BY <1>1, <1>2, <1>5 DEF TypeOK, NULL, Pointer
<1>7. OwnsOneBlock' /\ PointerGood'
  BY <1>1, <1>2 DEF OwnsOneBlock, PointerGood
<1>8. NoWrap'
  BY <1>2, Constants DEF NoWrap
<1> QED
  BY <1>6, <1>7, <1>8 DEF BufInv

(* The calls that only look, or set the limit.                               *)
LEMMA QuietCall ==
  ASSUME BufInv, life = "made", UNCHANGED <<params, memory, held>>,
         lim' = lim \/ lim' = 0 \/ \E n \in Size : lim' = UpToCap(n)
  PROVE  BufInv'
<1>1. lim' \in Nat /\ lim' <= cap
  <2>1. ASSUME NEW n \in Size
        PROVE  UpToCap(n) \in Nat /\ UpToCap(n) <= cap
    <3>1. n \in Nat /\ cap \in Nat
      BY MadeFacts, Constants
    <3> QED
      BY <3>1 DEF UpToCap
  <2> QED
    BY <2>1, MadeFacts
<1> QED
  BY <1>1, SameMemory

LEMMA GivesInv ==
  ASSUME BufInv, life = "made", UNCHANGED <<params, lim, memory>>,
         NEW i \in Nat, i < lim, held' \in {held, EntryPtr(i)}
  PROVE  BufInv'
<1>1. i < cap
  BY MadeFacts
<1> QED
  BY <1>1, MadeFacts, SameMemory

LEMMA BufNext ==
  ASSUME SizesFit, BufInv, [Next]_vars
  PROVE  BufInv'
<1>1. CASE UNCHANGED vars \/ Aborted
  <2>1. UNCHANGED vars
    BY <1>1 DEF Aborted
  <2> QED
    BY <2>1 DEF vars, BufInv, TypeOK, OwnsOneBlock, PointerGood, NoWrap, InBlock,
                Bytes, Stride, ice_align_up
<1>2. CASE Free
  BY <1>2, FreeInv
<1>3. CASE Clear
  BY <1>3, QuietCall DEF Clear
<1>4. CASE Underflow
  BY <1>4, QuietCall DEF Underflow
<1>5. CASE Back
  <2>1. /\ life = "made" /\ UNCHANGED <<params, lim, memory>> /\ lim > 0
        /\ held' \in {held, EntryPtr(lim - 1)}
    BY <1>5 DEF Back, Gives
  <2>2. lim - 1 \in Nat /\ lim - 1 < lim
    BY <2>1, MadeFacts
  <2> QED
    BY <2>1, <2>2, GivesInv
<1>6. CASE EmplaceBack
  BY <1>6, EmplaceBackInv
<1>7. CASE Refused("emplace_back", <<>>, lim + 1)
  BY <1>7, RefusedInv
<1>8. ASSUME NEW a \in Align, New(a) \/ NewAsserts(a)
      PROVE  BufInv'
  BY <1>8, NewInv, NewAssertsInv
<1>9. ASSUME NEW n \in Size, Reserve(n) \/ Refused("reserve", <<n>>, n)
      PROVE  BufInv'
  BY <1>9, ReserveInv, RefusedInv
<1>10. ASSUME NEW n \in Size, SetLim(n)
       PROVE  BufInv'
  BY <1>10, QuietCall DEF SetLim
<1>11. ASSUME NEW n \in Size, Get(n)
       PROVE  BufInv'
  <2>1. n \in Nat
    BY Constants
  <2> QED
    BY <1>11, <2>1, GivesInv DEF Get, Gives
<1>12. ASSUME NEW n \in Size, NEW op, NEW args, Overflow(op, args, n)
       PROVE  BufInv'
  BY <1>12, QuietCall DEF Overflow
<1>13. ASSUME NEW n \in Size, NEW c \in Byte, Memset(n, c)
       PROVE  BufInv'
  BY <1>13, WrittenMemory DEF Memset
<1>14. ASSUME NEW c \in Byte, Write(c)
       PROVE  BufInv'
  BY <1>14, WrittenMemory DEF Write
<1> QED
  BY <1>1, <1>2, <1>3, <1>4, <1>5, <1>6, <1>7, <1>8, <1>9, <1>10, <1>11, <1>12,
     <1>13, <1>14 DEF Next
-----------------------------------------------------------------------------
(* Where no byte size wraps, every reachable state has the invariant.        *)
THEOREM BufCorrect ==
  ASSUME SizesFit
  PROVE  Spec => []BufInv
BY BufInit, BufNext, PTL DEF Spec

(* The buffer's block is live and the only one, also after refused calls.    *)
THEOREM BufOwnsItsBlock ==
  ASSUME SizesFit
  PROVE  Spec => []OwnsOneBlock
<1>1. BufInv => OwnsOneBlock
  BY DEF BufInv
<1> QED
  BY <1>1, BufCorrect, PTL

(* Callers' pointers are good until they ask for more than there is.         *)
THEOREM PointersStayGood ==
  ASSUME SizesFit
  PROVE  Spec => []PointerGood
<1>1. BufInv => PointerGood
  BY DEF BufInv
<1> QED
  BY <1>1, BufCorrect, PTL

(* Entries lie in the block, aligned and apart: the byte size of the block,  *)
(* computed modulo 2^SizeBits, is that of all entries.                       *)
THEOREM EntriesLieInBlock ==
  ASSUME SizesFit
  PROVE  Spec => []EntriesInBlock
<1>1. BufInv => EntriesInBlock
  <2> SUFFICES ASSUME BufInv, NEW i \in 0 .. cap - 1
               PROVE  /\ At(i) % align = 0 /\ InBlock(At(i))
                      /\ i > 0 => At(i - 1) + SizeofType <= At(i)
    BY DEF EntriesInBlock
  <2>1. cap \in Nat /\ cap # 0 /\ i \in Nat /\ i < cap
    BY DEF BufInv, TypeOK
  <2>2. life = "made"
    BY <2>1 DEF BufInv, NoWrap
  <2>3. align \in Nat \ {0} /\ alignedSize = Stride(align)
    BY <2>2, MadeFacts
  <2>4. At(i) % align = 0 /\ InBlock(At(i))
    BY <2>1, <2>2, <2>3, MadeFacts, EntryGood DEF InBlock
  <2>5. ASSUME i > 0
        PROVE  At(i - 1) + SizeofType <= At(i)
    <3>1. i - 1 \in Nat /\ i - 1 < i
      BY <2>1, <2>5
    <3>2. At(i) = i * alignedSize
      BY <2>1, <2>2, <2>3, MadeFacts, EntryFits
    <3>3. i * alignedSize <= cap * alignedSize
      BY <2>1, <2>2, MadeFacts, TimesMonotone
    <3>4. i * alignedSize < SizeMod
      BY <2>1, <2>2, <3>3, MadeFacts, TimesNat, Constants
    <3> QED
      BY <2>1, <2>3, <3>1, <3>2, <3>4, EntryFits
  <2> QED
    BY <2>4, <2>5
<1> QED
  BY <1>1, BufCorrect, PTL
-----------------------------------------------------------------------------
(* The buffer implements IceEntries: the entries are the slices of the       *)
(* block's bytes, and a pointer stands for the entry whose slice it begins.  *)

Contents == [j \in 1 .. cap |-> Entry(j - 1)]

(* The bytes of an entry in the memory m.                                    *)
Slice(m, at) == [b \in 0 .. SizeofType - 1 |-> m[at + b]]

(* The caller's pointer is one that was handed out, and nothing was          *)
(* returned by a buffer there is not.                                        *)
HeldEntry == held # NULL => \E i \in Nat : i < cap /\ held = EntryPtr(i)

NoneReturned == life # "made" => ret = NoAnswer

RefInv == BufInv /\ HeldEntry /\ NoneReturned

LEMMA DividedBack ==
  ASSUME NEW s \in Nat \ {0}, NEW i \in Nat
  PROVE  (i * s) \div s = i
<1>1. ASSUME NEW k \in Nat
      PROVE  (s * k) \div s = k
  OBVIOUS
<1> QED
  BY <1>1

(* A function on 1 .. n is a sequence.                                       *)
LEMMA SeqOf ==
  ASSUME NEW n \in Nat, NEW s, s = [j \in 1 .. n |-> s[j]]
  PROVE  s \in Seq({s[j] : j \in 1 .. n}) /\ Len(s) = n
<1>1. s \in [1 .. n -> {s[j] : j \in 1 .. n}]
  OBVIOUS
<1> QED
  BY <1>1

LEMMA ContentsLen ==
  ASSUME BufInv
  PROVE  cap \in Nat /\ Len(Contents) = cap /\ (cap = 0 => Contents = <<>>)
<1>1. cap \in Nat
  BY DEF BufInv, TypeOK
<1>2. Contents = [j \in 1 .. cap |-> Contents[j]]
  BY DEF Contents
<1>3. Len(Contents) = cap
  BY <1>1, <1>2, SeqOf
<1>4. ASSUME cap = 0 PROVE Contents = <<>>
  BY <1>4 DEF Contents
<1> QED
  BY <1>1, <1>3, <1>4

(* The bytes of the entries are in the block.                                *)
LEMMA EntryBytes ==
  ASSUME BufInv, life = "made", NEW i \in Nat, i < cap, NEW b \in 0 .. SizeofType - 1
  PROVE  /\ At(i) = i * alignedSize /\ At(i) \in Nat
         /\ At(i) + b \in 0 .. Bytes(cap) - 1
<1>1. /\ At(i) = i * alignedSize /\ At(i) \in Nat
      /\ At(i) + SizeofType <= cap * alignedSize
  BY MadeFacts, EntryFits
<1>2. Bytes(cap) \in Nat /\ At(i) + SizeofType <= Bytes(cap)
  BY <1>1, MadeFacts
<1>3. At(i) + b \in 0 .. Bytes(cap) - 1
  BY <1>1, <1>2, Constants
<1> QED
  BY <1>1, <1>3

LEMMA EntriesApart ==
  ASSUME BufInv, life = "made", NEW i \in Nat, NEW j \in Nat, i < j, j < cap
  PROVE  At(i) + alignedSize <= At(j)
<1>1. (i + 1) * alignedSize <= j * alignedSize
  BY MadeFacts, TimesMonotone
<1>2. i * alignedSize + alignedSize <= j * alignedSize
  BY <1>1, MadeFacts, TimesNext
<1>3. i < cap /\ 0 \in 0 .. SizeofType - 1
  BY MadeFacts, Constants
<1>4. At(i) = i * alignedSize /\ At(j) = j * alignedSize
  BY <1>3, EntryBytes
<1> QED
  BY <1>2, <1>4

(* Writing to one entry, its padding included or not, changes that entry.    *)
LEMMA WrittenSlice ==
  ASSUME BufInv, life = "made", NEW i \in Nat, i < cap, NEW j \in Nat, j < cap,
         NEW k \in Nat, SizeofType <= k, k <= alignedSize, NEW c
  PROVE  Slice(Filled(mem, At(i), k, c), At(j)) = IF j = i THEN Whole(c) ELSE Entry(j)
<1> DEFINE m == Filled(mem, At(i), k, c)
<1>1. DOMAIN mem = 0 .. Bytes(cap) - 1
  BY DEF BufInv, TypeOK
<1>2. \A b \in 0 .. SizeofType - 1 :
        m[At(j) + b] = IF At(i) <= At(j) + b /\ At(j) + b < At(i) + k THEN c ELSE mem[At(j) + b]
  BY <1>1, EntryBytes DEF Filled
<1>3. /\ At(i) \in Nat /\ At(j) \in Nat /\ alignedSize \in Nat /\ SizeofType \in Nat \ {0}
  <2>1. 0 \in 0 .. SizeofType - 1
    BY Constants
  <2> QED
    BY <2>1, EntryBytes, MadeFacts, Constants
<1> HIDE DEF m
<1>4. CASE j = i
  <2>1. \A b \in 0 .. SizeofType - 1 : m[At(j) + b] = c
    BY <1>2, <1>3, <1>4
  <2> QED
    BY <1>4, <2>1 DEF Slice, Whole, m
<1>5. CASE j # i
  <2>1. At(j) + alignedSize <= At(i) \/ At(i) + alignedSize <= At(j)
    BY <1>5, EntriesApart
  <2>2. \A b \in 0 .. SizeofType - 1 : m[At(j) + b] = mem[At(j) + b]
    BY <1>2, <1>3, <2>1
  <2> QED
    BY <1>5, <2>2 DEF Slice, Entry, m
<1> QED
  BY <1>4, <1>5

(* The pointer to an entry stands for it.                                    *)
LEMMA IndexOfEntry ==
  ASSUME BufInv, life = "made", NEW i \in Nat, NEW n \in Nat, i < n,
         n * alignedSize <= MaxBytes, NEW blk \in Block
  PROVE  Index(Pointer(blk, At(i))) = i
<1>1. n * alignedSize \in Nat /\ n * alignedSize < SizeMod
  BY MadeFacts, TimesNat, Constants
<1>2. At(i) = i * alignedSize
  BY <1>1, MadeFacts, EntryFits
<1>3. alignedSize \in Nat \ {0}
  BY MadeFacts, Constants
<1>4. At(i) \div alignedSize = i
  BY <1>2, <1>3, DividedBack
<1>5. Pointer(blk, At(i)) # NULL /\ Pointer(blk, At(i)).at = At(i)
  BY BufAssumption DEF Pointer, NULL
<1> QED
  BY <1>4, <1>5 DEF Index

LEMMA IndexInBlock ==
  ASSUME BufInv, life = "made", NEW i \in Nat, i < cap
  PROVE  Index(EntryPtr(i)) = i /\ data \in Block
<1>1. data \in Block
  BY MadeFacts DEF BufInv, OwnsOneBlock, TypeOK
<1> QED
  BY <1>1, MadeFacts, IndexOfEntry DEF EntryPtr

LEMMA SameContents ==
  ASSUME UNCHANGED <<cap, mem, alignedSize>>
  PROVE  Contents' = Contents
BY DEF Contents, Entry, At

LEMMA WrittenContents ==
  ASSUME BufInv, life = "made", NEW i \in Nat, i < cap,
         NEW k \in Nat, SizeofType <= k, k <= alignedSize, NEW c,
         UNCHANGED <<cap, alignedSize>>, mem' = Filled(mem, At(i), k, c)
  PROVE  Contents' = [Contents EXCEPT ![i + 1] = Whole(c)]
<1>1. cap \in Nat
  BY MadeFacts
<1>2. Contents' = [j \in 1 .. cap |-> Slice(mem', At(j - 1))]
  BY DEF Contents, Entry, Slice, At
<1>3. ASSUME NEW j \in 1 .. cap
      PROVE  Slice(mem', At(j - 1)) = IF j = i + 1 THEN Whole(c) ELSE Contents[j]
  <2>1. j - 1 \in Nat /\ j - 1 < cap /\ (j - 1 = i <=> j = i + 1)
    BY <1>1
  <2>2. Contents[j] = Entry(j - 1)
    BY DEF Contents
  <2> QED
    BY <2>1, <2>2, WrittenSlice
<1>4. [Contents EXCEPT ![i + 1] = Whole(c)] =
        [j \in 1 .. cap |-> IF j = i + 1 THEN Whole(c) ELSE Contents[j]]
  BY DEF Contents
<1> QED
  BY <1>2, <1>3, <1>4

(* A reserve that grows copies the entries and adds others.                  *)
LEMMA GrownContents ==
  ASSUME SizesFit, BufInv, life = "made", UNCHANGED alignedSize,
         NEW n, n \in Size \/ n = lim + 1, ~HasRoom(n), Grows(Growth(n))
  PROVE  /\ n > Len(Contents) /\ Len(Contents') >= n
         /\ SubSeq(Contents', 1, Len(Contents)) = Contents
<1> DEFINE g == Growth(n)
<1>1. /\ g \in Nat /\ n \in Nat /\ n <= g /\ cap < g
      /\ Bytes(g) \in Nat /\ Bytes(cap) < Bytes(g) /\ Bytes(cap) \in Nat
  BY GrownFits, MadeFacts DEF Grows
<1>2. cap \in Nat /\ Len(Contents) = cap
  BY ContentsLen
<1> HIDE DEF g
<1>3. cap' = g /\ mem' = Copied(g)
  <2>1. ~StaysPut(g)
    BY <1>1 DEF StaysPut
  <2> QED
    BY <2>1 DEF Grows, Moves, g
<1>4. Contents' = [j \in 1 .. g |-> Slice(mem', At(j - 1))]
  BY <1>3 DEF Contents, Entry, Slice, At
<1>5. PICK s : s = Contents'
  OBVIOUS
<1>6. s = [j \in 1 .. g |-> s[j]] /\ \A j \in 1 .. g : s[j] = Slice(mem', At(j - 1))
  BY <1>4, <1>5
<1>7. s \in Seq({s[j] : j \in 1 .. g}) /\ Len(s) = g
  BY <1>1, <1>6, SeqOf
<1>8. ASSUME NEW j \in 1 .. cap
      PROVE  s[j] = Contents[j]
  <2>1. j - 1 \in Nat /\ j - 1 < cap /\ j \in 1 .. g
    BY <1>1, <1>2
  <2>2. ASSUME NEW b \in 0 .. SizeofType - 1
        PROVE  mem'[At(j - 1) + b] = mem[At(j - 1) + b]
    <3>1. At(j - 1) + b \in 0 .. Bytes(cap) - 1
      BY <2>1, EntryBytes
    <3>2. At(j - 1) + b \in 0 .. Bytes(g) - 1 /\ At(j - 1) + b < Bytes(cap)
      BY <1>1, <3>1
    <3> QED
      BY <1>3, <3>2 DEF Copied
  <2>3. s[j] = Entry(j - 1)
    BY <1>6, <2>1, <2>2 DEF Slice, Entry
  <2> QED
    BY <2>3 DEF Contents
<1>9. SubSeq(s, 1, cap) = Contents
  <2>1. SubSeq(s, 1, cap) = [j \in 1 .. cap |-> s[j]]
    BY <1>1, <1>2, <1>7
  <2> QED
    BY <1>8, <2>1 DEF Contents
<1> QED
  BY <1>1, <1>2, <1>5, <1>7, <1>9 DEF HasRoom
-----------------------------------------------------------------------------
(* The steps.                                                                *)

Returned == [ret EXCEPT !.val = Index(@)]

LEMMA AnswerMaps ==
  ASSUME NEW op, NEW args, NEW err, NEW val, ret' = Answer(op, args, err, val),
         UNCHANGED alignedSize
  PROVE  Returned' = Entries!Answer(op, args, err, Index(val))
BY DEF Returned, Answer, Entries!Answer, Index

LEMMA NullIndex == Index(NULL) = Entries!NoEntry
BY DEF Index, Entries!NoEntry

LEMMA HeldIndex ==
  ASSUME NEW p, held' = p, UNCHANGED alignedSize
  PROVE  Index(held)' = Index(p)
BY DEF Index

LEMMA HeldStays ==
  ASSUME HeldEntry, UNCHANGED <<held, cap, data, alignedSize>>
  PROVE  HeldEntry'
BY DEF HeldEntry, EntryPtr, At

LEMMA HeldGiven ==
  ASSUME NEW i \in Nat, i < cap', held' = Pointer(data', At(i)), UNCHANGED alignedSize
  PROVE  HeldEntry'
BY DEF HeldEntry, EntryPtr, At

(* A reserve that returns COL_OK, within the calls that make it.             *)
LEMMA ReserveExtends ==
  ASSUME SizesFit, RefInv, life = "made", UNCHANGED params,
         NEW n, n \in Size \/ n = lim + 1, ReserveOK(n)
  PROVE  /\ Entries!Extended(n)
         /\ Index(StillHeld(n)) = Entries!StillHeld(n)
         /\ held' = StillHeld(n) => HeldEntry'
         /\ n = lim + 1 => /\ lim < cap' /\ Index(Pointer(data', At(lim))) = lim
<1>1. BufInv /\ HeldEntry /\ alignedSize' = alignedSize
  BY DEF RefInv, params
<1>2. /\ cap \in Nat /\ Len(Contents) = cap /\ lim \in Nat
  BY <1>1, ContentsLen, MadeFacts
<1>3. Index(StillHeld(n)) = Entries!StillHeld(n)
  BY <1>2, NullIndex DEF StillHeld, Entries!StillHeld, Contents
<1>4. CASE HasRoom(n)
  <2>1. UNCHANGED memory /\ n <= cap
    BY <1>4 DEF ReserveOK, HasRoom
  <2>2. cap' = cap /\ data' = data /\ mem' = mem
    BY <2>1 DEF memory
  <2>3. Contents' = Contents
    BY <1>1, <2>2, SameContents
  <2>4. Entries!Extended(n)
    BY <1>2, <2>1, <2>3 DEF Entries!Extended, Contents
  <2>5. held' = StillHeld(n) => HeldEntry'
    BY <1>1, <2>1, <2>2, HeldStays DEF StillHeld
  <2>6. ASSUME n = lim + 1
        PROVE  lim < cap' /\ Index(Pointer(data', At(lim))) = lim
    <3>1. lim < cap
      BY <1>2, <2>1, <2>6
    <3> QED
      BY <1>1, <1>2, <2>2, <3>1, IndexInBlock DEF EntryPtr
  <2> QED
    BY <1>3, <2>4, <2>5, <2>6
<1>5. CASE ~HasRoom(n)
  <2>1. Grows(Growth(n))
    BY <1>5 DEF ReserveOK
  <2>2. /\ n > Len(Contents) /\ Len(Contents') >= n
        /\ SubSeq(Contents', 1, Len(Contents)) = Contents
    BY <1>1, <1>5, <2>1, GrownContents
  <2>3. n \in Nat /\ ~(n <= cap)
    BY <1>1, <1>5, <2>1, GrownFits DEF Grows, HasRoom
  <2>4. Entries!Extended(n)
    BY <1>2, <2>2, <2>3 DEF Entries!Extended, Contents
  <2>5. held' = StillHeld(n) => HeldEntry'
    BY <2>3 DEF StillHeld, HeldEntry, NULL, Pointer
  <2>6. ASSUME n = lim + 1
        PROVE  lim < cap' /\ Index(Pointer(data', At(lim))) = lim
    <3>1. cap' \in Nat /\ n <= cap' /\ cap' * alignedSize <= MaxBytes /\ data' \in Block
      BY <1>1, <1>5, <2>1, GrowsInv
    <3>2. lim < cap'
      BY <1>2, <2>6, <3>1
    <3>3. PICK m \in Nat, blk \in Block : m = cap' /\ blk = data'
      BY <3>1
    <3> QED
      BY <1>1, <1>2, <3>1, <3>2, <3>3, IndexOfEntry
  <2> QED
    BY <1>3, <2>4, <2>5, <2>6
<1> QED
  BY <1>4, <1>5

RefNext == Entries!Next /\ HeldEntry' /\ NoneReturned'

LEMMA ReserveStep ==
  ASSUME SizesFit, RefInv, NEW n \in Size, Reserve(n)
  PROVE  RefNext
<1>1. /\ life = "made" /\ life' = "made" /\ UNCHANGED params /\ alignedSize' = alignedSize
      /\ ReserveOK(n) /\ held' = StillHeld(n) /\ lim' = lim
      /\ ret' = Answer("reserve", <<n>>, "COL_OK", NULL)
  BY DEF Reserve, params
<1>2. /\ Entries!Extended(n) /\ Index(StillHeld(n)) = Entries!StillHeld(n) /\ HeldEntry'
  BY <1>1, ReserveExtends
<1>3. Index(held)' = Entries!StillHeld(n)
  BY <1>1, <1>2, HeldIndex
<1>4. Returned' = Entries!Answer("reserve", <<n>>, "COL_OK", Entries!NoEntry)
  BY <1>1, AnswerMaps, NullIndex
<1>5. Entries!Reserve(n)
  BY <1>1, <1>2, <1>3, <1>4 DEF Entries!Reserve, Entries!Done, Returned
<1> QED
  BY <1>1, <1>2, <1>5 DEF RefNext, Entries!Next, NoneReturned

LEMMA EmplaceBackStep ==
  ASSUME SizesFit, RefInv, EmplaceBack
  PROVE  RefNext
<1> DEFINE n == lim + 1
<1> DEFINE p == Pointer(data', At(lim))
<1>1. /\ life = "made" /\ life' = "made" /\ UNCHANGED params /\ alignedSize' = alignedSize
      /\ ReserveOK(n) /\ held' \in {StillHeld(n), p} /\ lim' = lim + 1
      /\ ret' = Answer("emplace_back", <<>>, "COL_OK", p)
  BY DEF EmplaceBack, Gives, params
<1>2. /\ Entries!Extended(n) /\ Index(StillHeld(n)) = Entries!StillHeld(n)
      /\ held' = StillHeld(n) => HeldEntry'
      /\ lim < cap' /\ Index(p) = lim
  BY <1>1, ReserveExtends
<1>3. lim \in Nat
  BY <1>1, MadeFacts DEF RefInv
<1>4. Index(held)' \in {Entries!StillHeld(n), lim}
  BY <1>1, <1>2, HeldIndex
<1>5. Returned' = Entries!Answer("emplace_back", <<>>, "COL_OK", lim)
  BY <1>1, <1>2, AnswerMaps
<1>6. Entries!EmplaceBack
  BY <1>1, <1>2, <1>4, <1>5 DEF Entries!EmplaceBack, Entries!Gives, Returned
<1>7. HeldEntry'
  BY <1>1, <1>2, <1>3, HeldGiven
<1> QED
  BY <1>1, <1>6, <1>7 DEF RefNext, Entries!Next, NoneReturned

(* A call that fails, or only looks at the limit, changes nothing.           *)
LEMMA FailsStep ==
  ASSUME RefInv, NEW op, NEW args, NEW err, life = "made",
         UNCHANGED <<params, lim, cap, data, mem, held>>,
         ret' = Answer(op, args, err, NULL)
  PROVE  Entries!Fails(op, args, err) /\ HeldEntry' /\ NoneReturned'
<1>1. life' = "made" /\ alignedSize' = alignedSize
      /\ UNCHANGED <<lim, cap, data, mem, held>>
  BY DEF params
<1>2. Contents' = Contents /\ HeldEntry'
  BY <1>1, SameContents, HeldStays DEF RefInv
<1>3. Index(held)' = Index(held)
  BY <1>1 DEF Index
<1>4. Returned' = Entries!Answer(op, args, err, Entries!NoEntry)
  BY <1>1, AnswerMaps, NullIndex
<1> QED
  BY <1>1, <1>2, <1>3, <1>4 DEF Entries!Fails, Returned, Contents, NoneReturned

LEMMA RefusedStep ==
  ASSUME RefInv, NEW op, NEW args, NEW n \in Nat, Refused(op, args, n)
  PROVE  Entries!Refused(op, args, n) /\ HeldEntry' /\ NoneReturned'
<1>1. /\ life = "made" /\ ~(n <= cap)
      /\ UNCHANGED <<params, lim, cap, data, mem, held>>
      /\ ret' = Answer(op, args, "COL_ERR_BAD_ALLOC", NULL)
  BY DEF Refused, HasRoom
<1>2. cap \in Nat /\ Len(Contents) = cap
  BY ContentsLen DEF RefInv
<1>3. n > Len(Contents)
  BY <1>1, <1>2
<1> QED
  BY <1>1, <1>3, FailsStep DEF Entries!Refused, Contents

(* A call that gives the caller the pointer to entry i.                      *)
LEMMA GivesStep ==
  ASSUME RefInv, NEW op, NEW args, life = "made",
         UNCHANGED <<params, lim, memory>>,
         NEW i \in Nat, i < lim, Gives(op, args, EntryPtr(i), held)
  PROVE  /\ Entries!Gives(op, args, i, Index(held))
         /\ Contents' = Contents /\ HeldEntry' /\ NoneReturned'
<1>1. /\ life' = "made" /\ alignedSize' = alignedSize
      /\ UNCHANGED <<lim, cap, data, mem>>
      /\ ret' = Answer(op, args, "COL_OK", EntryPtr(i)) /\ held' \in {held, EntryPtr(i)}
  BY DEF params, memory, Gives
<1>2. BufInv /\ HeldEntry /\ i < cap
  BY MadeFacts DEF RefInv
<1>3. Index(EntryPtr(i)) = i
  BY <1>2, IndexInBlock
<1>4. Index(held)' \in {Index(held), i}
  BY <1>1, <1>3, HeldIndex
<1>5. Returned' = Entries!Answer(op, args, "COL_OK", i)
  BY <1>1, <1>3, AnswerMaps
<1>6. HeldEntry'
  <2>1. CASE held' = held
    BY <1>1, <1>2, <2>1, HeldStays
  <2>2. CASE held' = EntryPtr(i)
    BY <1>1, <1>2, <2>2, HeldGiven DEF EntryPtr
  <2> QED
    BY <1>1, <2>1, <2>2
<1> QED
  BY <1>1, <1>4, <1>5, <1>6, SameContents DEF Entries!Gives, Returned, NoneReturned

LEMMA MemsetStep ==
  ASSUME RefInv, NEW i \in Size, NEW c \in Byte, Memset(i, c)
  PROVE  RefNext
<1>1. /\ life = "made" /\ life' = "made" /\ alignedSize' = alignedSize /\ i < lim
      /\ UNCHANGED <<lim, cap, data, held>>
      /\ mem' = Filled(mem, At(i), alignedSize, c)
      /\ ret' = Answer("memset", <<i, c>>, "COL_OK", NULL)
  BY DEF Memset, params
<1>2. BufInv /\ HeldEntry
  BY DEF RefInv
<1>3. /\ i \in Nat /\ i < cap
      /\ alignedSize \in Nat /\ SizeofType <= alignedSize /\ alignedSize <= alignedSize
  BY <1>1, <1>2, MadeFacts, Constants
<1>4. Contents' = [Contents EXCEPT ![i + 1] = Whole(c)]
  BY <1>1, <1>2, <1>3, WrittenContents
<1>5. Index(held)' = Index(held) /\ HeldEntry'
  BY <1>1, <1>2, HeldIndex, HeldStays
<1>6. Returned' = Entries!Answer("memset", <<i, c>>, "COL_OK", Entries!NoEntry)
  BY <1>1, AnswerMaps, NullIndex
<1>7. Entries!Memset(i, c)
  BY <1>1, <1>4, <1>5, <1>6 DEF Entries!Memset, Entries!Done, Returned, Contents
<1> QED
  BY <1>1, <1>5, <1>7 DEF RefNext, Entries!Next, NoneReturned

LEMMA WriteStep ==
  ASSUME RefInv, NEW c \in Byte, Write(c)
  PROVE  RefNext
<1>1. /\ held # NULL /\ life' = life /\ alignedSize' = alignedSize
      /\ UNCHANGED <<lim, cap, data, held, ret>>
      /\ mem' = Filled(mem, held.at, SizeofType, c)
  BY DEF Write, params
<1>2. BufInv /\ HeldEntry
  BY DEF RefInv
<1>3. life = "made"
  BY <1>1, <1>2 DEF BufInv, NoWrap
<1>4. PICK i \in Nat : i < cap /\ held = EntryPtr(i)
  BY <1>1, <1>2 DEF HeldEntry
<1>5. held.at = At(i) /\ Index(held) = i
  BY <1>2, <1>3, <1>4, IndexInBlock DEF EntryPtr, Pointer
<1>6. SizeofType \in Nat /\ SizeofType <= SizeofType /\ SizeofType <= alignedSize
  BY <1>2, <1>3, MadeFacts, Constants
<1>7. Contents' = [Contents EXCEPT ![i + 1] = Whole(c)]
  BY <1>1, <1>2, <1>3, <1>4, <1>5, <1>6, WrittenContents
<1>8. Index(held)' = Index(held) /\ HeldEntry'
  BY <1>1, <1>2, HeldIndex, HeldStays
<1>9. Returned' = Returned
  BY <1>1 DEF Returned, Index
<1>10. Index(held) # Entries!NoEntry
  BY <1>5 DEF Entries!NoEntry
<1>11. Entries!Write(c)
  BY <1>1, <1>5, <1>7, <1>8, <1>9, <1>10 DEF Entries!Write, Returned, Contents
<1> QED
  BY <1>1, <1>3, <1>8, <1>11 DEF RefNext, Entries!Next, NoneReturned

LEMMA SetLimStep ==
  ASSUME RefInv, NEW n \in Size, SetLim(n)
  PROVE  RefNext
<1>1. /\ life = "made" /\ life' = "made" /\ alignedSize' = alignedSize
      /\ UNCHANGED <<held, cap, data, mem>>
  BY DEF SetLim, params, memory
<1>2. BufInv /\ HeldEntry
  BY DEF RefInv
<1>3. cap \in Nat /\ Len(Contents) = cap /\ n \in Nat
  BY <1>2, ContentsLen, Constants
<1>4. Contents' = Contents /\ Index(held)' = Index(held) /\ HeldEntry'
  BY <1>1, <1>2, SameContents, HeldIndex, HeldStays
<1>5. Returned' = Entries!Answer("set_lim", <<n>>, "COL_OK", Entries!NoEntry)
  BY <1>1, AnswerMaps, NullIndex DEF SetLim
<1>6. lim' = IF n < Len(Contents) THEN n ELSE Len(Contents)
  BY <1>3 DEF SetLim, UpToCap
<1>7. Entries!SetLim(n)
  BY <1>4, <1>5, <1>6 DEF Entries!SetLim, Entries!Done, Returned, Contents
<1> QED
  BY <1>1, <1>4, <1>7 DEF RefNext, Entries!Next, NoneReturned

LEMMA ClearStep ==
  ASSUME RefInv, Clear
  PROVE  RefNext
<1>1. /\ life = "made" /\ life' = "made" /\ alignedSize' = alignedSize
      /\ UNCHANGED <<held, cap, data, mem>> /\ lim' = 0
  BY DEF Clear, params, memory
<1>2. HeldEntry
  BY DEF RefInv
<1>3. Contents' = Contents /\ Index(held)' = Index(held) /\ HeldEntry'
  BY <1>1, <1>2, SameContents, HeldIndex, HeldStays
<1>4. Returned' = Entries!Answer("clear", <<>>, "COL_OK", Entries!NoEntry)
  BY <1>1, AnswerMaps, NullIndex DEF Clear
<1>5. Entries!Clear
  BY <1>1, <1>3, <1>4 DEF Entries!Clear, Entries!Done, Returned, Contents
<1> QED
  BY <1>1, <1>3, <1>5 DEF RefNext, Entries!Next, NoneReturned

(* Without a buffer there is nothing to see.                                 *)
LEMMA NothingSeen ==
  ASSUME cap = 0, held = NULL, ret = NoAnswer
  PROVE  /\ Contents = <<>> /\ Index(held) = Entries!NoEntry
         /\ Returned = Entries!NoAnswer
         /\ HeldEntry /\ NoneReturned
<1>1. Contents = <<>>
  BY DEF Contents
<1>2. Returned = Entries!NoAnswer
  BY NullIndex DEF Returned, NoAnswer, Answer, Entries!NoAnswer, Entries!Answer
<1> QED
  BY <1>1, <1>2, NullIndex DEF HeldEntry, NoneReturned

SeenSame ==
  /\ UNCHANGED <<Contents, lim, Index(held), Returned>>
  /\ HeldEntry' /\ NoneReturned'

(* _new, which returns a buffer without entries, and its failed assertion.   *)
LEMMA NewStep ==
  ASSUME RefInv, NEW a \in Align, New(a) \/ NewAsserts(a)
  PROVE  SeenSame
<1>1. life = "none" /\ UNCHANGED <<lim, cap, held, ret>>
  BY DEF New, NewAsserts, memory
<1>2. cap = 0 /\ held = NULL /\ ret = NoAnswer
  BY <1>1, NothingAllocated DEF RefInv, NoneReturned
<1>3. /\ Contents = <<>> /\ Index(held) = Entries!NoEntry
      /\ Returned = Entries!NoAnswer
  BY <1>2, NothingSeen
<1>4. cap' = 0 /\ held' = NULL /\ ret' = NoAnswer
  BY <1>1, <1>2
<1>5. Contents' = <<>>
  BY <1>4 DEF Contents
<1>6. Index(held)' = Entries!NoEntry
  BY <1>4 DEF Index, Entries!NoEntry
<1>7. Returned' = Entries!NoAnswer
  BY <1>4 DEF Returned, NoAnswer, Answer, Index, NULL,
              Entries!NoAnswer, Entries!Answer, Entries!NoEntry
<1>8. HeldEntry' /\ NoneReturned'
  BY <1>4 DEF HeldEntry, NoneReturned
<1> QED
  BY <1>1, <1>3, <1>5, <1>6, <1>7, <1>8 DEF SeenSame

LEMMA FreeStep ==
  ASSUME Free
  PROVE  RefNext
<1>1. cap' = 0 /\ lim' = 0 /\ held' = NULL /\ ret' = NoAnswer
  BY DEF Free
<1>2. Contents' = <<>>
  BY <1>1 DEF Contents
<1>3. Index(held)' = Entries!NoEntry
  BY <1>1 DEF Index, Entries!NoEntry
<1>4. Returned' = Entries!NoAnswer
  BY <1>1 DEF Returned, NoAnswer, Answer, Index, NULL,
              Entries!NoAnswer, Entries!Answer, Entries!NoEntry
<1>5. HeldEntry' /\ NoneReturned'
  BY <1>1 DEF HeldEntry, NoneReturned
<1> QED
  BY <1>1, <1>2, <1>3, <1>4, <1>5
  DEF RefNext, Entries!Next, Entries!Reset, Contents, Returned

LEMMA BackStep ==
  ASSUME RefInv, Back \/ Underflow
  PROVE  RefNext
<1>1. CASE Back
  <2>1. /\ life = "made" /\ lim > 0 /\ UNCHANGED <<params, lim, memory>>
        /\ Gives("back", <<>>, EntryPtr(lim - 1), held)
    BY <1>1 DEF Back
  <2>2. lim - 1 \in Nat /\ lim - 1 < lim
    BY <2>1, MadeFacts DEF RefInv
  <2>3. /\ Entries!Gives("back", <<>>, lim - 1, Index(held))
        /\ Contents' = Contents /\ HeldEntry' /\ NoneReturned'
    BY <2>1, <2>2, GivesStep
  <2>4. Entries!Back
    BY <2>1, <2>3 DEF Entries!Back, Contents
  <2> QED
    BY <2>3, <2>4 DEF RefNext, Entries!Next
<1>2. CASE Underflow
  <2>1. /\ life = "made" /\ lim = 0
        /\ UNCHANGED <<params, lim, cap, data, mem, held>>
        /\ ret' = Answer("back", <<>>, "COL_ERR_UNDERFLOW", NULL)
    BY <1>2 DEF Underflow, memory
  <2>2. /\ Entries!Fails("back", <<>>, "COL_ERR_UNDERFLOW")
        /\ HeldEntry' /\ NoneReturned'
    BY <2>1, FailsStep
  <2>3. Entries!Back
    BY <2>1, <2>2 DEF Entries!Back
  <2> QED
    BY <2>2, <2>3 DEF RefNext, Entries!Next
<1> QED
  BY <1>1, <1>2

LEMMA OverflowStep ==
  ASSUME RefInv, NEW op, NEW args, NEW n \in Size, Overflow(op, args, n)
  PROVE  Entries!Overflow(op, n, args) /\ HeldEntry' /\ NoneReturned'
<1>1. /\ life = "made" /\ n >= lim
      /\ UNCHANGED <<params, lim, cap, data, mem, held>>
      /\ ret' = Answer(op, args, "COL_ERR_OVERFLOW", NULL)
  BY DEF Overflow, memory
<1> QED
  BY <1>1, FailsStep DEF Entries!Overflow

LEMMA GetStep ==
  ASSUME RefInv, NEW n \in Size, Get(n) \/ Overflow("get", <<n>>, n)
  PROVE  RefNext
<1>1. CASE Get(n)
  <2>1. /\ life = "made" /\ n < lim /\ n \in Nat /\ UNCHANGED <<params, lim, memory>>
        /\ Gives("get", <<n>>, EntryPtr(n), held)
    BY <1>1, Constants DEF Get
  <2>2. /\ Entries!Gives("get", <<n>>, n, Index(held))
        /\ Contents' = Contents /\ HeldEntry' /\ NoneReturned'
    BY <2>1, GivesStep
  <2>3. Entries!Get(n)
    BY <2>1, <2>2 DEF Entries!Get, Contents
  <2> QED
    BY <2>2, <2>3 DEF RefNext, Entries!Next
<1>2. CASE Overflow("get", <<n>>, n)
  BY <1>2, OverflowStep DEF Entries!Get, RefNext, Entries!Next
<1> QED
  BY <1>1, <1>2

LEMMA RefStep ==
  ASSUME SizesFit, RefInv, [Next]_vars
  PROVE  RefInv' /\ (RefNext \/ SeenSame)
<1>1. BufInv'
  BY BufNext DEF RefInv
<1>2. RefNext \/ SeenSame
  <2>1. CASE UNCHANGED vars \/ Aborted
    <3>1. UNCHANGED vars
      BY <2>1 DEF Aborted
    <3>2. /\ UNCHANGED <<lim, cap, mem, alignedSize, held, data, life, ret>>
          /\ HeldEntry /\ NoneReturned
      BY <3>1 DEF vars, RefInv
    <3>3. Contents' = Contents /\ HeldEntry'
      BY <3>2, SameContents, HeldStays
    <3>4. Index(held)' = Index(held) /\ Returned' = Returned /\ NoneReturned'
      BY <3>2 DEF Index, Returned, NoneReturned
    <3> QED
      BY <3>2, <3>3, <3>4 DEF SeenSame
  <2>2. CASE Free \/ Clear \/ Back \/ Underflow \/ EmplaceBack
    BY <2>2, FreeStep, ClearStep, BackStep, EmplaceBackStep
  <2>3. CASE Refused("emplace_back", <<>>, lim + 1)
    <3>1. lim + 1 \in Nat
      BY <2>3, MadeFacts DEF Refused, RefInv
    <3> QED
      BY <2>3, <3>1, RefusedStep DEF RefNext, Entries!Next
  <2>4. ASSUME NEW a \in Align, New(a) \/ NewAsserts(a)
        PROVE  SeenSame
    BY <2>4, NewStep
  <2>5. ASSUME NEW n \in Size, Reserve(n) \/ SetLim(n) \/ Get(n) \/ Overflow("get", <<n>>, n)
        PROVE  RefNext
    BY <2>5, ReserveStep, SetLimStep, GetStep
  <2>6. ASSUME NEW n \in Size, Refused("reserve", <<n>>, n)
        PROVE  RefNext
    <3>1. n \in Nat
      BY Constants
    <3> QED
      BY <2>6, <3>1, RefusedStep DEF RefNext, Entries!Next
  <2>7. ASSUME NEW n \in Size, NEW c \in Byte, Memset(n, c)
        PROVE  RefNext
    BY <2>7, MemsetStep
  <2>8. ASSUME NEW n \in Size, NEW c \in Byte, Overflow("memset", <<n, c>>, n)
        PROVE  RefNext
    BY <2>8, OverflowStep DEF Entries!Memset, RefNext, Entries!Next
  <2>9. ASSUME NEW c \in Byte, Write(c)
        PROVE  RefNext
    BY <2>9, WriteStep
  <2> QED
    BY <2>1, <2>2, <2>3, <2>4, <2>5, <2>6, <2>7, <2>8, <2>9 DEF Next
<1> QED
  BY <1>1, <1>2 DEF RefNext, SeenSame, RefInv

(* Where no byte size wraps, the buffer implements IceEntries: entries keep  *)
(* what is written to them when the buffer grows and its limit goes up and   *)
(* down, and pointers lead to the entries they were given out for.           *)
THEOREM BufRefinesEntries ==
  ASSUME SizesFit
  PROVE  Spec => RefinesEntries
<1>1. Init => RefInv /\ Entries!Init
  <2> SUFFICES ASSUME Init PROVE RefInv /\ Entries!Init
    OBVIOUS
  <2>1. BufInv /\ cap = 0 /\ held = NULL /\ ret = NoAnswer /\ lim = 0
    BY BufInit DEF Init
  <2> QED
    BY <2>1, NothingSeen DEF RefInv, Entries!Init, Contents, Returned
<1>2. RefInv /\ [Next]_vars => RefInv' /\ [Entries!Next]_(Entries!vars)
  <2> SUFFICES ASSUME RefInv, [Next]_vars
               PROVE  RefInv' /\ [Entries!Next]_(Entries!vars)
    OBVIOUS
  <2>1. RefInv' /\ (RefNext \/ SeenSame)
    BY RefStep
  <2>2. SeenSame => UNCHANGED Entries!vars
    BY DEF SeenSame, Entries!vars, Contents, Returned
  <2> QED
    BY <2>1, <2>2 DEF RefNext
<1> QED
  BY <1>1, <1>2, PTL DEF Spec, RefinesEntries, Entries!Spec
=============================================================================
