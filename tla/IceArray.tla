------------------------------ MODULE IceArray ------------------------------
(***************************************************************************)
(* The arrays of icealignedarray.h: a block of the aligned allocator, and  *)
(* the pointers to elements computed from it.  Type, alignment and length  *)
(* are fixed where the macro is instantiated.                              *)
(***************************************************************************)
EXTENDS Integers

CONSTANTS
  SizeofType,  \* sizeof(type)
  ElemAlign,   \* align
  ArrayLen,    \* len
  SizeMax,     \* SIZE_MAX
  Place        \* the addresses at which ice_aligned_malloc may put the array

(* What ice_aligned_malloc promises, and proves: the address is aligned (see *)
(* IceMalloc).  The array fits a size_t.                                     *)
ASSUME ArrayAssumption ==
  /\ SizeofType \in Nat \ {0} /\ ArrayLen \in Nat /\ SizeMax \in Nat
  /\ ElemAlign \in Nat \ {0} /\ \E n \in 0 .. 63 : ElemAlign = 2 ^ n
  /\ ArrayLen * (SizeofType + ElemAlign) <= SizeMax
  /\ Place \subseteq Nat \ {0} /\ \A p \in Place : p % ElemAlign = 0

VARIABLES
  v, bytes,  \* the array, 0 for NULL, and the size of the block it is
  elements   \* the indexes and pointers _get and _back have handed out

arrayVars == <<v, bytes, elements>>

(* For a power of two.                                                       *)
ice_align_up(num, align) == (num + (align - 1)) - ((num + (align - 1)) % align)

size_aligned == ice_align_up(SizeofType, ElemAlign)

ArrayInit == v = 0 /\ bytes = 0 /\ elements = {}

(* Mutant: room for the elements without their padding.                      *)
NewUnpadded(p) ==
  /\ v = 0 /\ ArrayLen > 0
  /\ v' = p /\ bytes' = ArrayLen * SizeofType
  /\ UNCHANGED elements

(* ice_aligned_malloc gives NULL for a size of 0.                            *)
ArrayNew(p) ==
  /\ v = 0 /\ ArrayLen > 0
  /\ v' = p /\ bytes' = ArrayLen * size_aligned
  /\ UNCHANGED elements

ArrayNewFails == v = 0 /\ UNCHANGED arrayVars

ArrayFree == v' = 0 /\ bytes' = 0 /\ elements' = {}

ArrayGet(i) ==
  /\ v # 0 /\ i < ArrayLen
  /\ elements' = elements \cup {[index |-> i, ptr |-> v + i * size_aligned]}
  /\ UNCHANGED <<v, bytes>>

(* COL_ERR_ILLEGAL_ARGUMENT.                                                 *)
ArrayGetRefused(i) == i >= ArrayLen /\ UNCHANGED arrayVars

(* len - 1 is SIZE_MAX if len is 0.                                          *)
ArrayBack ==
  LET last == (ArrayLen - 1) % (SizeMax + 1)
  IN ArrayGet(last) \/ ArrayGetRefused(last)

ArrayNext ==
  \/ \E p \in Place : ArrayNew(p)
  \/ ArrayNewFails \/ ArrayFree \/ ArrayBack
  \/ \E i \in 0 .. SizeMax : ArrayGet(i) \/ ArrayGetRefused(i)

ArraySpec == ArrayInit /\ [][ArrayNext]_arrayVars
-----------------------------------------------------------------------------
(* Properties.                                                               *)

(* Elements have the alignment asked for, lie in the block and do not        *)
(* overlap, though _new and _get compute the distance between them each for  *)
(* itself.                                                                   *)
ElementsApart ==
  \A e \in elements :
    /\ e.ptr % ElemAlign = 0
    /\ v <= e.ptr /\ e.ptr + SizeofType <= v + bytes
    /\ \A f \in elements : e.index < f.index => e.ptr + SizeofType <= f.ptr
=============================================================================
