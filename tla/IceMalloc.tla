----------------------------- MODULE IceMalloc -----------------------------
(***************************************************************************)
(* The aligned heap blocks of icemalloc.c.  ice_aligned_malloc asks the C  *)
(* library for more than the caller wants, moves the pointer up to the     *)
(* alignment, and stores how far it moved it in the two bytes in front of  *)
(* the pointer (an offset_t); ice_aligned_free goes back by that much.     *)
(* Addresses and sizes are numbers; what the blocks contain is left out.   *)
(***************************************************************************)
EXTENDS Integers, FiniteSets

CONSTANTS
  AddressBits, OffsetBits,  \* width of size_t and uintptr_t, and of offset_t
  MallocAlign,              \* malloc's own alignment
  Align, Size               \* bound: the alignments and sizes callers pass

SizeMod   == 2 ^ AddressBits
OffsetMod == 2 ^ OffsetBits

PTR_OFFSET_SZ == 2

(* Callers keep clear of SIZE_MAX: the sum size + hdr_size does not wrap.    *)
ASSUME MallocAssumption ==
  /\ AddressBits \in Nat /\ SizeMod \in Nat
  /\ OffsetBits \in Nat /\ OffsetMod \in Nat
  /\ MallocAlign \in Nat \ {0}
  /\ Align \subseteq Nat /\ Size \subseteq Nat
  /\ \A align \in Align, size \in Size : size + align + PTR_OFFSET_SZ <= SizeMod

VARIABLES
  heap,    \* what malloc has given out and not got back: [base, size]
  blocks,  \* what callers hold: [ptr, offset (in front of it), align, size]
  ret,     \* the pointer the last call returned, 0 for NULL
  pc       \* "running", or "aborted" by an assertion

vars == <<heap, blocks, ret, pc>>

NULL == 0

Address == 1 .. SizeMod - 1

(* (align & (align - 1)) == 0                                                *)
PowerOf2OrZero(n) == n = 0 \/ \E e \in 0 .. AddressBits - 1 : n = 2 ^ e

(* (num + (align - 1)) & ~(align - 1), for an align that is a power of 2.    *)
ice_align_up(num, align) ==
  LET n == (num + (align - 1)) % SizeMod IN n - (n % align)

(* Mutant: no room for the offset_t.                                         *)
HdrSizeNoOffset(align) == align - 1

hdr_size(align) == PTR_OFFSET_SZ + (align - 1)

Request(p, align, size) == [base |-> p, size |-> (size + hdr_size(align)) % SizeMod]

(* Mutant: the offset does not count the two bytes it needs itself.          *)
OffsetFromHeader(p, align, size) ==
  LET ptr == ice_align_up(p + PTR_OFFSET_SZ, align)
  IN [ptr |-> ptr, offset |-> (ptr - (p + PTR_OFFSET_SZ)) % OffsetMod,
      align |-> align, size |-> size]

(* ice_align_memblock: the pointer, and the distance cast to offset_t.       *)
Memblock(p, align, size) ==
  LET ptr == ice_align_up(p + PTR_OFFSET_SZ, align)
  IN [ptr |-> ptr, offset |-> (ptr - p) % OffsetMod, align |-> align, size |-> size]

Apart(h, k) == h.base + h.size <= k.base \/ k.base + k.size <= h.base

(* malloc finds room for h.                                                  *)
Fits(h) ==
  /\ h.base % MallocAlign = 0
  /\ h.base + h.size <= SizeMod
  /\ \A k \in heap : Apart(h, k)

(* What free is given for the block b.                                       *)
Base(b) == b.ptr - b.offset

Released(hp, b) == {h \in hp : h.base # Base(b)}
-----------------------------------------------------------------------------
Init == heap = {} /\ blocks = {} /\ ret = NULL /\ pc = "running"

(* IVK_ASSERT(..., "align must be power of 2"): the program stops.           *)
AssertFails(align) ==
  /\ ~PowerOf2OrZero(align)
  /\ pc' = "aborted" /\ UNCHANGED <<heap, blocks, ret>>

ReturnsNull ==
  ret' = NULL /\ UNCHANGED <<heap, blocks, pc>>

(* ice_aligned_malloc, ice_aligned_zmalloc, and ice_aligned_realloc of NULL. *)
(* malloc may fail whenever it is asked.                                     *)
Malloc(align, size) ==
  /\ pc = "running"
  /\ \/ AssertFails(align)
     \/ PowerOf2OrZero(align) /\ ReturnsNull
     \/ /\ PowerOf2OrZero(align) /\ align > 0 /\ size > 0
        /\ \E p \in Address :
             /\ Fits(Request(p, align, size))
             /\ heap' = heap \cup {Request(p, align, size)}
             /\ blocks' = blocks \cup {Memblock(p, align, size)}
             /\ ret' = Memblock(p, align, size).ptr
        /\ UNCHANGED pc

AlignedFree(b) ==
  /\ pc = "running"
  /\ heap' = Released(heap, b) /\ blocks' = blocks \ {b}
  /\ ret' = NULL /\ UNCHANGED pc

FreeNull == pc = "running" /\ ReturnsNull

(* ice_aligned_realloc of a block to 0 bytes frees it.                       *)
ReallocToZero(b, align) ==
  /\ align > 0 /\ PowerOf2OrZero(align)
  /\ heap' = Released(heap, b) /\ blocks' = blocks \ {b}
  /\ ret' = NULL /\ UNCHANGED pc

(* It never shrinks a block, whatever alignment is asked for.                *)
ReallocInPlace(b, size) ==
  /\ 0 < size /\ size <= b.size
  /\ blocks' = (blocks \ {b}) \cup {[b EXCEPT !.size = size]}
  /\ ret' = b.ptr /\ UNCHANGED <<heap, pc>>

(* Mutant: the old block is not freed.                                       *)
ReallocMovesLeak(b, align, size) ==
  /\ size > b.size /\ align > 0 /\ PowerOf2OrZero(align)
  /\ \E p \in Address :
       /\ Fits(Request(p, align, size))
       /\ heap' = heap \cup {Request(p, align, size)}
       /\ blocks' = (blocks \ {b}) \cup {Memblock(p, align, size)}
       /\ ret' = Memblock(p, align, size).ptr
  /\ UNCHANGED pc

(* The new block is there before the old one is freed.                       *)
ReallocMoves(b, align, size) ==
  /\ size > b.size /\ align > 0 /\ PowerOf2OrZero(align)
  /\ \E p \in Address :
       /\ Fits(Request(p, align, size))
       /\ heap' = Released(heap \cup {Request(p, align, size)}, b)
       /\ blocks' = (blocks \ {b}) \cup {Memblock(p, align, size)}
       /\ ret' = Memblock(p, align, size).ptr
  /\ UNCHANGED pc

(* Without memory the caller keeps the old block.                            *)
ReallocRefused(b, align, size) ==
  /\ size > b.size /\ align > 0 /\ PowerOf2OrZero(align)
  /\ ReturnsNull

(* ice_aligned_realloc of a block, with its size as old_size.                *)
Realloc(b, align, size) ==
  /\ pc = "running"
  /\ \/ AssertFails(align)
     \/ align = 0 /\ ReturnsNull
     \/ size = 0 /\ ReallocToZero(b, align)
     \/ align > 0 /\ PowerOf2OrZero(align) /\ ReallocInPlace(b, size)
     \/ ReallocMoves(b, align, size)
     \/ ReallocRefused(b, align, size)

(* The process is gone.                                                      *)
Aborted == pc = "aborted" /\ UNCHANGED vars

Next ==
  \/ FreeNull \/ Aborted
  \/ \E b \in blocks : AlignedFree(b)
  \/ \E align \in Align, size \in Size :
       \/ Malloc(align, size)
       \/ \E b \in blocks : Realloc(b, align, size)

Spec == Init /\ [][Next]_vars
-----------------------------------------------------------------------------
(* Properties.                                                               *)

(* The type of the state.                                                    *)
TypeOK ==
  /\ heap \subseteq [base : Address, size : Nat \ {0}]
  /\ blocks \subseteq [ptr : Nat, offset : Nat, align : Align \ {0}, size : Size \ {0}]
  /\ ret \in Nat
  /\ pc \in {"running", "aborted"}

(* A block has the alignment asked for by the call that placed it.           *)
Aligned == \A b \in blocks : b.ptr % b.align = 0

(* h is the block of the C library b lies in: free finds it by the stored    *)
(* offset, and the offset and all the caller's bytes lie inside it.          *)
Owns(h, b) ==
  /\ h.base = Base(b)
  /\ h.base + PTR_OFFSET_SZ <= b.ptr
  /\ b.ptr + b.size <= h.base + h.size

(* ice_aligned_free and ice_aligned_realloc give malloc's own pointer back   *)
(* to free: the offset was not cut off by its 16 bits, and neither the       *)
(* offset nor the block reach outside of what was malloc'ed.                 *)
EveryBlockOwned == \A b \in blocks : \E h \in heap : Owns(h, b)

(* A realloc that moves, fails, frees or does nothing loses no memory: all   *)
(* that malloc has given out belongs to a block a caller holds.              *)
NothingLeaks == \A h \in heap : \E b \in blocks : Base(b) = h.base

(* No write into a block reaches another block or the offset in front of it. *)
BlocksApart ==
  \A b, c \in blocks :
    b # c => \/ b.ptr + b.size <= c.ptr - PTR_OFFSET_SZ
             \/ c.ptr + c.size <= b.ptr - PTR_OFFSET_SZ
=============================================================================
