---------------------- MODULE IceStackAllocatorProofs ----------------------
(***************************************************************************)
(* What is proved about IceStackAllocator.  The sizes are not restricted:  *)
(* the arena stays in order even for the requests that wrap to 0.          *)
(***************************************************************************)
EXTENDS IceStackAllocator, TLAPS

LEMMA RoundedIsAligned ==
  ASSUME NEW n \in Nat
  PROVE  ice_align_up(n) \in Nat /\ ice_align_up(n) % PTR_ALIGN = 0
<1> DEFINE m == (n + (PTR_ALIGN - 1)) % SizeMod
<1>1. SizeMod \in Nat \ {0}
  BY StackAssumption
<1>2. m \in Nat
  BY <1>1 DEF PTR_ALIGN
<1> HIDE DEF m
<1>3. m - (m % 8) \in Nat /\ (m - (m % 8)) % 8 = 0
  BY <1>2
<1> QED
  BY <1>3 DEF ice_align_up, m, PTR_ALIGN

(* Without an allocator there are no blocks.                                 *)
NoStrays == ~alive => blocks = {} /\ buf = NULL /\ offset = 0 /\ size = 0

StackInv == TypeOK /\ PartsApart /\ PointersInArena /\ NoStrays

LEMMA Addresses ==
  Base \in Nat /\ Arena = Base + 16 /\ Arena # NULL /\ Base + Struct = Arena + 8
BY StackAssumption DEF Arena, Struct, WordSize, NULL

LEMMA NothingThere ==
  ASSUME alive = FALSE, offset = 0, size = 0, buf = NULL, blocks = {},
         pc \in {"running", "undefined"}
  PROVE  StackInv
<1>1. 0 % PTR_ALIGN = 0 /\ 0 \in Nat /\ 0 \in 0 .. 0
  BY DEF PTR_ALIGN
<1>2. TypeOK
  BY <1>1, Zenon DEF TypeOK
<1>3. PartsApart
  BY <1>1 DEF PartsApart
<1> QED
  BY <1>2, <1>3 DEF StackInv, PointersInArena, NoStrays

LEMMA StackInit == Init => StackInv
BY NothingThere DEF Init

LEMMA NewInv ==
  ASSUME StackInv, NEW n \in NewSize, New(n)
  PROVE  StackInv'
<1>1. n \in Nat
  BY StackAssumption
<1>2. ice_align_up(n) \in Nat /\ ice_align_up(n) % PTR_ALIGN = 0
  BY <1>1, RoundedIsAligned
<1>3. blocks = {}
  BY DEF StackInv, NoStrays, New
<1> QED
  BY <1>2, <1>3
     DEF New, StackInv, TypeOK, PartsApart, PointersInArena, NoStrays

LEMMA FreeInv ==
  ASSUME StackInv, Free
  PROVE  StackInv'
<1>1. 0 % PTR_ALIGN = 0 /\ 0 \in Nat /\ 0 \in 0 .. 0
  BY DEF PTR_ALIGN
<1>2. TypeOK'
  BY <1>1, Zenon DEF Free, StackInv, TypeOK
<1>3. PartsApart'
  BY <1>1 DEF Free, PartsApart
<1> QED
  BY <1>2, <1>3 DEF Free, StackInv, PointersInArena, NoStrays

(* Cutting a block off.  What buf is afterwards does not matter, as long as  *)
(* it was not mended.                                                        *)
LEMMA TakeInv ==
  ASSUME StackInv, alive, NEW n \in Size, Take(n),
         UNCHANGED <<alive, size>>,
         buf' \in {NULL, buf}, pc' \in {"running", "undefined"}
  PROVE  StackInv'
<1> DEFINE r == ice_align_up(n)
           b == [ptr |-> buf + offset, from |-> offset, room |-> r, asked |-> n]
<1>1. /\ n \in Nat /\ r \in Nat /\ r % 8 = 0
  BY StackAssumption, RoundedIsAligned DEF PTR_ALIGN
<1>2. /\ offset \in Nat /\ size \in Nat /\ offset <= size
      /\ r <= size - offset
      /\ offset' = offset + r /\ blocks' = blocks \cup {b}
  BY DEF StackInv, TypeOK, Take, HasRoom
<1>3. buf \in Nat /\ buf' \in {NULL, Arena} \cup Junk
  BY Addresses, StackAssumption DEF StackInv, TypeOK, NULL
<1> HIDE DEF r
<1>4. /\ b \in Block /\ b.from = offset /\ b.room = r
      /\ b.ptr = buf + offset
  BY <1>1, <1>2, <1>3 DEF Block
<1> HIDE DEF b
<1>5. \A c \in blocks : /\ c.from \in Nat /\ c.room \in Nat /\ c.ptr \in Nat
                        /\ c.from % 8 = 0 /\ c.from + c.room <= offset
  BY DEF StackInv, TypeOK, Block, PartsApart, PTR_ALIGN
<1>6. TypeOK'
  BY <1>1, <1>2, <1>3, <1>4 DEF StackInv, TypeOK
<1>7. PartsApart'
  <2>1. offset' % 8 = 0
    BY <1>1, <1>2 DEF StackInv, PartsApart, PTR_ALIGN
  <2>2. \A c \in blocks' : c.from % 8 = 0 /\ c.from + c.room <= offset'
    BY <1>1, <1>2, <1>4, <1>5 DEF StackInv, PartsApart, PTR_ALIGN
  <2>3. \A c, d \in blocks' :
          c # d => c.from + c.room <= d.from \/ d.from + d.room <= c.from
    BY <1>2, <1>4, <1>5 DEF StackInv, PartsApart
  <2> QED
    BY <2>1, <2>2, <2>3 DEF PartsApart, PTR_ALIGN
<1>8. PointersInArena'
  <2> SUFFICES ASSUME buf' = Arena, NEW c \in blocks'
               PROVE  c.ptr = Arena + c.from /\ InHeapBlock(c.ptr, c.room)'
    BY DEF PointersInArena
  <2>1. buf = Arena
    BY Addresses
  <2>2. c.ptr = Arena + c.from
    BY <1>2, <1>4, <2>1 DEF StackInv, PointersInArena
  <2>3. /\ c.from \in Nat /\ c.room \in Nat /\ c.from + c.room <= offset + r
    BY <1>1, <1>2, <1>4, <1>5
  <2> QED
    BY <1>1, <1>2, <2>2, <2>3, Addresses DEF InHeapBlock
<1> QED
  BY <1>6, <1>7, <1>8 DEF StackInv, NoStrays

(* Writing to a block does not mend buf.                                     *)
LEMMA FillInv ==
  ASSUME StackInv, NEW b \in blocks, Fill(b)
  PROVE  StackInv'
<1>1. PICK w \in Junk : Write(b.ptr, b.asked, w)
  BY DEF Fill
<1>2. /\ UNCHANGED <<alive, offset, size, blocks>>
      /\ buf' \in {buf} \cup Junk /\ pc' \in {"running", "undefined"}
      /\ buf' = Arena => buf = Arena
  BY <1>1, StackAssumption DEF Fill, Write
<1>3. alive
  BY DEF StackInv, NoStrays
<1> QED
  BY <1>2, <1>3
     DEF StackInv, TypeOK, PartsApart, PointersInArena, InHeapBlock, NoStrays

LEMMA StackNext == StackInv /\ [Next]_vars => StackInv'
<1> SUFFICES ASSUME StackInv, [Next]_vars
             PROVE  StackInv'
  OBVIOUS
<1>1. CASE UNCHANGED vars
  BY <1>1
     DEF vars, StackInv, TypeOK, PartsApart, PointersInArena, InHeapBlock, NoStrays
<1>2. ASSUME NEW n \in Size, Malloc(n)
      PROVE  StackInv'
  BY <1>2, TakeInv DEF Malloc, StackInv, TypeOK
<1>3. ASSUME NEW n \in Size, Zmalloc(n)
      PROVE  StackInv'
  BY <1>3, TakeInv DEF Zmalloc, Write
<1> QED
  BY <1>1, <1>2, <1>3, NewInv, FreeInv, FillInv DEF Next, Undefined, ReturnsNull

(* The fields of the allocator keep their types, offset stays below size,    *)
(* and the parts of the arena that were handed out are aligned and apart.    *)
THEOREM ArenaInOrder == Spec => [](TypeOK /\ PartsApart)
<1>1. StackInv => TypeOK /\ PartsApart
  BY DEF StackInv
<1> QED
  BY <1>1, StackInit, StackNext, PTL DEF Spec

(* As long as nobody overwrote the field buf, every pointer the allocator    *)
(* returns leads to its own part of the arena and stays in the heap block.   *)
THEOREM PointersLeadIntoArena == Spec => []PointersInArena
<1>1. StackInv => PointersInArena
  BY DEF StackInv
<1> QED
  BY <1>1, StackInit, StackNext, PTL DEF Spec
=============================================================================
