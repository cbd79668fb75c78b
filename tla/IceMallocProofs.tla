-------------------------- MODULE IceMallocProofs --------------------------
(***************************************************************************)
(* What is proved about IceMalloc, for alignments an offset_t can hold.    *)
(***************************************************************************)
EXTENDS IceMalloc, TLAPS

(* The stored distance is at most align + 1: it is not cut off.              *)
OffsetsFit == \A align \in Align : align + 1 < OffsetMod

(* Rounding up: the result is a multiple of align, and the next one.         *)
LEMMA AlignUp ==
  ASSUME NEW num \in Nat, NEW align \in Nat \ {0}, num + (align - 1) < SizeMod,
         NEW r, r = ice_align_up(num, align)
  PROVE  r \in Nat /\ num <= r /\ r <= num + (align - 1) /\ r % align = 0
<1> DEFINE n == num + (align - 1)
<1>1. n \in Nat /\ n % SizeMod = n
  BY MallocAssumption
<1>2. n % align \in 0 .. align - 1
  BY <1>1
<1>3. r = n - (n % align)
  BY <1>1 DEF ice_align_up
<1>4. (n - (n % align)) % align = 0
  BY <1>1
<1> HIDE DEF n
<1>5. r % align = 0
  BY <1>3, <1>4
<1>6. r \in Nat /\ n - (align - 1) <= r /\ r <= n
  BY <1>1, <1>2, <1>3
<1> QED
  BY <1>5, <1>6 DEF n

(* What ice_aligned_malloc makes of malloc's block: the pointer is aligned,  *)
(* free will find the block, and the offset and the bytes are inside it.     *)
LEMMA MemblockOwned ==
  ASSUME OffsetsFit, NEW p \in Address,
         NEW align \in Align, align > 0, NEW size \in Size, size > 0,
         Fits(Request(p, align, size)),
         NEW b, b = Memblock(p, align, size),
         NEW h, h = Request(p, align, size)
  PROVE  /\ h \in [base : Address, size : Nat \ {0}] /\ h.base = p
         /\ b \in [ptr : Nat, offset : Nat, align : Align \ {0}, size : Size \ {0}]
         /\ b.ptr % b.align = 0
         /\ Base(b) = p /\ Owns(h, b)
<1> DEFINE r == ice_align_up(p + PTR_OFFSET_SZ, align)
<1>1. /\ p \in Nat /\ align \in Nat \ {0} /\ size \in Nat \ {0}
      /\ SizeMod \in Nat /\ OffsetMod \in Nat
      /\ size + align + 2 <= SizeMod
  BY MallocAssumption DEF Address, PTR_OFFSET_SZ
<1>2. (size + hdr_size(align)) % SizeMod = size + align + 1
  <2>1. size + hdr_size(align) = size + align + 1
    BY <1>1 DEF hdr_size, PTR_OFFSET_SZ
  <2> QED
    BY <1>1, <2>1
<1>3. h = [base |-> p, size |-> size + align + 1]
  BY <1>2 DEF Request
<1>4. p + size + align + 1 <= SizeMod
  BY <1>1, <1>3 DEF Fits
<1>5. /\ r \in Nat /\ p + 2 <= r /\ r <= p + 2 + (align - 1)
      /\ r % align = 0
  BY <1>1, <1>4, AlignUp DEF PTR_OFFSET_SZ
<1> HIDE DEF r
<1>6. (r - p) % OffsetMod = r - p
  BY <1>1, <1>5 DEF OffsetsFit
<1>7. b = [ptr |-> r, offset |-> r - p, align |-> align, size |-> size]
  BY <1>6 DEF Memblock, r
<1> QED
  BY <1>1, <1>3, <1>5, <1>7 DEF Base, Owns, PTR_OFFSET_SZ
-----------------------------------------------------------------------------
(* The inductive invariant: what malloc gives out does not overlap, every    *)
(* block has one of malloc's to itself, and malloc's blocks are all owned.   *)

HeapApart == \A h, k \in heap : h # k => Apart(h, k)

OwnersDiffer == \A b, c \in blocks : Base(b) = Base(c) => b = c

MallocInv ==
  TypeOK /\ Aligned /\ EveryBlockOwned /\ NothingLeaks /\ HeapApart /\ OwnersDiffer

LEMMA FieldTypes ==
  ASSUME MallocInv
  PROVE  /\ \A h \in heap : h.base \in Nat /\ h.size \in Nat /\ h.size > 0
         /\ \A b \in blocks : b.ptr \in Nat /\ b.offset \in Nat
                             /\ b.size \in Nat /\ b.size > 0
<1>1. heap \subseteq [base : Address, size : Nat \ {0}]
  BY DEF MallocInv, TypeOK
<1>2. blocks \subseteq [ptr : Nat, offset : Nat, align : Align \ {0}, size : Size \ {0}]
  BY DEF MallocInv, TypeOK
<1>3. Size \subseteq Nat /\ Address \subseteq Nat
  BY MallocAssumption DEF Address
<1>4. ASSUME NEW h \in heap
      PROVE  h.base \in Nat /\ h.size \in Nat /\ h.size > 0
  <2>1. h \in [base : Address, size : Nat \ {0}]
    BY <1>1
  <2>2. h.base \in Address /\ h.size \in Nat /\ h.size # 0
    BY <2>1
  <2>3. h.base \in Nat
    BY <1>3, <2>2
  <2> QED
    BY <2>2, <2>3
<1>5. ASSUME NEW b \in blocks
      PROVE  /\ b.ptr \in Nat /\ b.offset \in Nat
             /\ b.size \in Nat /\ b.size > 0
  <2>1. b \in [ptr : Nat, offset : Nat, align : Align \ {0}, size : Size \ {0}]
    BY <1>2
  <2>2. b.ptr \in Nat /\ b.offset \in Nat /\ b.size \in Size /\ b.size # 0
    BY <2>1
  <2>3. b.size \in Nat
    BY <1>3, <2>2
  <2> QED
    BY <2>2, <2>3
<1> QED
  BY <1>4, <1>5

LEMMA MallocInit == Init => MallocInv
BY DEF Init, MallocInv, TypeOK, Aligned, EveryBlockOwned, NothingLeaks, HeapApart,
       OwnersDiffer, NULL

(* A request that malloc grants keeps malloc's blocks apart, and is at an    *)
(* address of its own.                                                       *)
LEMMA GrantApart ==
  ASSUME MallocInv, NEW h \in [base : Address, size : Nat \ {0}], Fits(h)
  PROVE  /\ \A k \in heap : k.base # h.base
         /\ \A g, k \in heap \cup {h} : g # k => Apart(g, k)
<1>1. \A k \in heap : k.base \in Nat /\ k.size \in Nat \ {0}
  BY MallocAssumption DEF MallocInv, TypeOK, Address
<1>2. h.base \in Nat /\ h.size \in Nat \ {0}
  BY MallocAssumption DEF Address
<1>3. \A k \in heap : Apart(h, k) /\ Apart(k, h)
  BY DEF Fits, Apart
<1> QED
  BY <1>1, <1>2, <1>3 DEF MallocInv, HeapApart, Apart

(* Two of malloc's blocks at one address are one block.                      *)
LEMMA BasesDiffer ==
  ASSUME MallocInv, NEW h \in heap, NEW k \in heap, h.base = k.base
  PROVE  h = k
<1>1. h.base \in Nat /\ h.size \in Nat \ {0} /\ k.size \in Nat \ {0}
  BY MallocAssumption DEF MallocInv, TypeOK, Address
<1> QED
  BY <1>1 DEF MallocInv, HeapApart, Apart

(* Giving a block back leaves every other block its own.                     *)
LEMMA ReleasedInv ==
  ASSUME MallocInv, NEW b \in blocks,
         heap' = Released(heap, b), blocks' = blocks \ {b},
         ret' \in Nat, pc' = pc
  PROVE  MallocInv'
<1>1. \A c \in blocks' : c \in blocks /\ Base(c) # Base(b)
  BY DEF MallocInv, OwnersDiffer
<1>2. \A h \in heap' : h \in heap /\ h.base # Base(b)
  BY DEF Released
<1>3. EveryBlockOwned'
  <2>1. SUFFICES ASSUME NEW c \in blocks' PROVE \E h \in heap' : Owns(h, c)
    BY DEF EveryBlockOwned
  <2>2. PICK h \in heap : Owns(h, c)
    BY <1>1 DEF MallocInv, EveryBlockOwned
  <2>3. h \in heap'
    BY <1>1, <2>2 DEF Owns, Released
  <2> QED
    BY <2>2, <2>3
<1>4. NothingLeaks'
  BY <1>2 DEF MallocInv, NothingLeaks
<1> QED
  BY <1>1, <1>2, <1>3, <1>4 DEF MallocInv, TypeOK, Aligned, HeapApart, OwnersDiffer

(* A new block has one of malloc's to itself.                                *)
LEMMA GrantedInv ==
  ASSUME OffsetsFit, MallocInv,
         NEW p \in Address, NEW align \in Align, align > 0,
         NEW size \in Size, size > 0, Fits(Request(p, align, size)),
         heap' = heap \cup {Request(p, align, size)},
         blocks' = blocks \cup {Memblock(p, align, size)},
         ret' = Memblock(p, align, size).ptr, pc' = pc
  PROVE  MallocInv'
<1> DEFINE h == Request(p, align, size)
           b == Memblock(p, align, size)
<1>1. /\ h \in [base : Address, size : Nat \ {0}] /\ h.base = p
      /\ b \in [ptr : Nat, offset : Nat, align : Align \ {0}, size : Size \ {0}]
      /\ b.ptr % b.align = 0
      /\ Base(b) = p /\ Owns(h, b)
  BY MemblockOwned
<1> HIDE DEF h, b
<1>2. heap' = heap \cup {h} /\ blocks' = blocks \cup {b} /\ ret' = b.ptr /\ Fits(h)
  BY DEF h, b
<1>3. /\ \A k \in heap : k.base # p
      /\ \A g, k \in heap' : g # k => Apart(g, k)
  BY <1>1, <1>2, GrantApart
<1>4. \A c \in blocks : Base(c) # p
  BY <1>3 DEF MallocInv, EveryBlockOwned, Owns
<1>5. TypeOK' /\ Aligned'
  BY <1>1, <1>2 DEF MallocInv, TypeOK, Aligned
<1>6. EveryBlockOwned' /\ NothingLeaks'
  BY <1>1, <1>2 DEF MallocInv, EveryBlockOwned, NothingLeaks
<1>7. OwnersDiffer'
  BY <1>1, <1>2, <1>4 DEF MallocInv, OwnersDiffer
<1> QED
  BY <1>3, <1>5, <1>6, <1>7 DEF MallocInv, HeapApart

(* A realloc that moves: the new block has its own, and the old one's went.  *)
LEMMA ReallocMovesInv ==
  ASSUME OffsetsFit, MallocInv, NEW b \in blocks,
         NEW align \in Align, NEW size \in Size, ReallocMoves(b, align, size)
  PROVE  MallocInv'
<1>1. PICK p \in Address :
        /\ Fits(Request(p, align, size))
        /\ heap' = Released(heap \cup {Request(p, align, size)}, b)
        /\ blocks' = (blocks \ {b}) \cup {Memblock(p, align, size)}
        /\ ret' = Memblock(p, align, size).ptr
  BY DEF ReallocMoves
<1> DEFINE h == Request(p, align, size)
           c == Memblock(p, align, size)
<1>2. align > 0 /\ size > 0
  BY MallocAssumption, FieldTypes DEF ReallocMoves
<1>3. /\ h \in [base : Address, size : Nat \ {0}] /\ h.base = p
      /\ c \in [ptr : Nat, offset : Nat, align : Align \ {0}, size : Size \ {0}]
      /\ c.ptr % c.align = 0
      /\ Base(c) = p /\ Owns(h, c)
  BY <1>1, <1>2, MemblockOwned
<1> HIDE DEF h, c
<1>4. /\ heap' = Released(heap \cup {h}, b) /\ blocks' = (blocks \ {b}) \cup {c}
      /\ ret' = c.ptr /\ pc' = pc /\ Fits(h)
  BY <1>1 DEF h, c, ReallocMoves
<1>5. /\ \A k \in heap : k.base # p
      /\ \A g, k \in heap \cup {h} : g # k => Apart(g, k)
  BY <1>3, <1>4, GrantApart
<1>6. \A d \in blocks : Base(d) # p
  BY <1>5 DEF MallocInv, EveryBlockOwned, Owns
<1>7. heap' = {k \in heap : k.base # Base(b)} \cup {h}
  BY <1>3, <1>4, <1>6 DEF Released
<1>8. TypeOK' /\ Aligned'
  BY <1>3, <1>4, <1>7 DEF MallocInv, TypeOK, Aligned
<1>9. \A d \in blocks \ {b} : Base(d) # Base(b)
  BY DEF MallocInv, OwnersDiffer
<1>10. EveryBlockOwned'
  <2>1. SUFFICES ASSUME NEW d \in blocks \ {b} PROVE \E k \in heap' : Owns(k, d)
    BY <1>3, <1>4, <1>7 DEF EveryBlockOwned
  <2>2. PICK k \in heap : Owns(k, d)
    BY DEF MallocInv, EveryBlockOwned
  <2>3. k \in heap'
    BY <1>7, <1>9, <2>2 DEF Owns
  <2> QED
    BY <2>2, <2>3
<1>11. NothingLeaks'
  BY <1>3, <1>4, <1>7 DEF MallocInv, NothingLeaks
<1>12. OwnersDiffer'
  BY <1>3, <1>4, <1>6 DEF MallocInv, OwnersDiffer
<1> QED
  BY <1>5, <1>7, <1>8, <1>10, <1>11, <1>12 DEF MallocInv, HeapApart

(* A realloc in place only makes a block shorter.                            *)
LEMMA ReallocInPlaceInv ==
  ASSUME MallocInv, NEW b \in blocks, NEW size \in Size, ReallocInPlace(b, size)
  PROVE  MallocInv'
<1> DEFINE c == [b EXCEPT !.size = size]
<1>1. /\ size \in Nat /\ 0 < size /\ size <= b.size
      /\ b \in [ptr : Nat, offset : Nat, align : Align \ {0}, size : Size \ {0}]
      /\ blocks' = (blocks \ {b}) \cup {c} /\ ret' = b.ptr
      /\ UNCHANGED <<heap, pc>>
  BY MallocAssumption DEF ReallocInPlace, MallocInv, TypeOK
<1>2. /\ c \in [ptr : Nat, offset : Nat, align : Align \ {0}, size : Size \ {0}]
      /\ c.ptr = b.ptr /\ c.align = b.align /\ c.size = size /\ Base(c) = Base(b)
  BY <1>1 DEF Base
<1> HIDE DEF c
<1>3. TypeOK' /\ Aligned'
  BY <1>1, <1>2 DEF MallocInv, TypeOK, Aligned
<1>4. EveryBlockOwned'
  <2>1. PICK h \in heap : Owns(h, b)
    BY DEF MallocInv, EveryBlockOwned
  <2>2. /\ h.base \in Nat /\ h.size \in Nat /\ b.size \in Nat /\ b.ptr \in Nat
    BY FieldTypes
  <2>3. Owns(h, c)
    BY <1>1, <1>2, <2>1, <2>2 DEF Owns
  <2> QED
    BY <1>1, <2>3 DEF MallocInv, EveryBlockOwned
<1>5. NothingLeaks' /\ OwnersDiffer'
  BY <1>1, <1>2 DEF MallocInv, NothingLeaks, OwnersDiffer, Base
<1> QED
  BY <1>1, <1>3, <1>4, <1>5 DEF MallocInv, HeapApart

LEMMA Untouched ==
  ASSUME MallocInv, UNCHANGED <<heap, blocks>>, ret' \in Nat, pc' \in {pc, "aborted"}
  PROVE  MallocInv'
BY DEF MallocInv, TypeOK, Aligned, EveryBlockOwned, NothingLeaks, HeapApart,
       OwnersDiffer, Base

LEMMA MallocNext == OffsetsFit /\ MallocInv /\ [Next]_vars => MallocInv'
<1> SUFFICES ASSUME OffsetsFit, MallocInv, [Next]_vars
             PROVE  MallocInv'
  OBVIOUS
<1> USE DEF NULL
<1>1. ret \in Nat
  BY DEF MallocInv, TypeOK
<1>2. ASSUME NEW align \in Align, AssertFails(align)
      PROVE  MallocInv'
  BY <1>1, <1>2, Untouched DEF AssertFails
<1>3. CASE ReturnsNull \/ Aborted \/ UNCHANGED vars
  BY <1>1, <1>3, Untouched DEF ReturnsNull, Aborted, vars
<1>4. ASSUME NEW b \in blocks, AlignedFree(b)
      PROVE  MallocInv'
  BY <1>4, ReleasedInv DEF AlignedFree
<1>5. ASSUME NEW align \in Align, NEW size \in Size, Malloc(align, size)
      PROVE  MallocInv'
  BY <1>2, <1>3, <1>5, GrantedInv DEF Malloc
<1>6. ASSUME NEW align \in Align, NEW size \in Size,
             NEW b \in blocks, Realloc(b, align, size)
      PROVE  MallocInv'
  <2>1. CASE ReallocToZero(b, align)
    BY <2>1, ReleasedInv DEF ReallocToZero
  <2>2. CASE ReallocInPlace(b, size)
    BY <2>2, ReallocInPlaceInv
  <2>3. CASE ReallocMoves(b, align, size)
    BY <2>3, ReallocMovesInv
  <2>4. CASE ReallocRefused(b, align, size)
    BY <1>3, <2>4 DEF ReallocRefused
  <2> QED
    BY <1>2, <1>3, <1>6, <2>1, <2>2, <2>3, <2>4 DEF Realloc
<1> QED
  BY <1>3, <1>4, <1>5, <1>6 DEF Next, FreeNull

(* Whatever is allocated, moved and freed in whatever order, the blocks keep *)
(* their types, alignments and owners.                                       *)
THEOREM MallocCorrect ==
  ASSUME OffsetsFit
  PROVE  Spec => []MallocInv
BY MallocInit, MallocNext, PTL DEF Spec

(* Every pointer ice_aligned_malloc, _zmalloc and _realloc return leads      *)
(* ice_aligned_free back to the start of the C library's block, and that     *)
(* block has room for all the caller's bytes.                                *)
THEOREM FreeFindsItsBlock ==
  ASSUME OffsetsFit
  PROVE  Spec => [](EveryBlockOwned /\ Aligned)
<1>1. MallocInv => EveryBlockOwned /\ Aligned
  BY DEF MallocInv
<1> QED
  BY <1>1, MallocCorrect, PTL

(* No block of the C library is lost by a realloc or left behind by a free.  *)
THEOREM NothingIsLost ==
  ASSUME OffsetsFit
  PROVE  Spec => []NothingLeaks
<1>1. MallocInv => NothingLeaks
  BY DEF MallocInv
<1> QED
  BY <1>1, MallocCorrect, PTL

(* The blocks of two callers, and the offsets in front of them, never        *)
(* overlap.                                                                  *)
THEOREM BlocksStayApart ==
  ASSUME OffsetsFit
  PROVE  Spec => []BlocksApart
<1>1. MallocInv => BlocksApart
  <2> SUFFICES ASSUME MallocInv, NEW b \in blocks, NEW c \in blocks, b # c
               PROVE  \/ b.ptr + b.size <= c.ptr - PTR_OFFSET_SZ
                      \/ c.ptr + c.size <= b.ptr - PTR_OFFSET_SZ
    BY DEF BlocksApart
  <2>1. PICK h \in heap : Owns(h, b)
    BY DEF MallocInv, EveryBlockOwned
  <2>2. PICK k \in heap : Owns(k, c)
    BY DEF MallocInv, EveryBlockOwned
  <2>3. Apart(h, k)
    BY <2>1, <2>2 DEF MallocInv, HeapApart, OwnersDiffer, Owns
  <2>4. /\ h.base \in Nat /\ h.size \in Nat /\ k.base \in Nat /\ k.size \in Nat
        /\ b.ptr \in Nat /\ b.size \in Nat /\ c.ptr \in Nat /\ c.size \in Nat
    BY FieldTypes
  <2> QED
    BY <2>1, <2>2, <2>3, <2>4 DEF Owns, Apart, PTR_OFFSET_SZ
<1> QED
  BY <1>1, MallocCorrect, PTL
=============================================================================
