------------------------- MODULE IceStackAllocator -------------------------
(***************************************************************************)
(* The stack allocator of icemalloc.h and icemalloc.c: one aligned heap    *)
(* block holds the struct (offset, size, buf) and the arena that blocks    *)
(* are cut from; nothing is given back before the whole arena is.          *)
(*                                                                         *)
(* The struct is 24 bytes long, but the arena starts 16 bytes into it, on  *)
(* the field buf itself.  So a write to the first block changes buf, and   *)
(* the model has the writes: those of ice_stack_zmalloc, and the callers'. *)
(***************************************************************************)
EXTENDS Integers

CONSTANTS
  SizeBits,       \* width of size_t
  Base,           \* the address of the struct
  NewSize, Size,  \* bound: the sizes callers pass to _new, and to the mallocs
  Junk            \* what callers write: never the address of the arena

PTR_ALIGN == 8
WordSize  == 8    \* sizeof(size_t) and sizeof(char *)
SizeMod   == 2 ^ SizeBits
Struct    == 3 * WordSize
Arena     == Base + 2 * WordSize
NULL      == 0

ASSUME StackAssumption ==
  /\ SizeMod \in Nat \ {0} /\ Base \in Nat \ {0} /\ Base % PTR_ALIGN = 0
  /\ NewSize \subseteq Nat /\ Size \subseteq Nat
  /\ \A n \in NewSize : n + Struct + PTR_ALIGN <= SizeMod
  /\ Junk \subseteq Nat /\ Arena \notin Junk

VARIABLES
  alive,              \* the allocator has been made and not freed
  offset, size, buf,  \* the fields of the struct
  blocks,             \* the blocks handed out: [ptr, from (the offset), room, asked]
  pc                  \* "running", or "undefined" after a write elsewhere

vars == <<alive, offset, size, buf, blocks, pc>>

ice_align_up(n) ==
  LET m == (n + (PTR_ALIGN - 1)) % SizeMod IN m - (m % PTR_ALIGN)

(* Bytes from .. from + n - 1 and the field buf have one in common.          *)
CoversBuf(from, n) ==
  n > 0 /\ from < Base + Struct /\ Base + 2 * WordSize < from + n

(* All of them lie in the heap block, behind the fields offset and size.     *)
InHeapBlock(from, n) == from >= Arena /\ from + n <= Base + Struct + size
-----------------------------------------------------------------------------
Init ==
  /\ alive = FALSE /\ offset = 0 /\ size = 0 /\ buf = NULL
  /\ blocks = {} /\ pc = "running"

(* ice_stack_malloc_new, when there is memory.                               *)
New(n) ==
  /\ ~alive /\ alive' = TRUE
  /\ size' = ice_align_up(n) /\ offset' = 0 /\ buf' = Arena
  /\ UNCHANGED <<blocks, pc>>

Free ==
  /\ alive /\ pc = "running" /\ alive' = FALSE
  /\ offset' = 0 /\ size' = 0 /\ buf' = NULL /\ blocks' = {}
  /\ UNCHANGED pc

HasRoom(n) == n > 0 /\ ice_align_up(n) <= size - offset

(* Mutant: the offset advances by what was asked for.                        *)
TakeUnrounded(n) ==
  /\ HasRoom(n)
  /\ offset' = offset + n
  /\ blocks' = blocks \cup {[ptr |-> buf + offset, from |-> offset,
                             room |-> ice_align_up(n), asked |-> n]}

(* Mutant: the pointer is taken after the offset has advanced.               *)
TakeLate(n) ==
  /\ HasRoom(n)
  /\ offset' = offset + ice_align_up(n)
  /\ blocks' = blocks \cup {[ptr |-> buf + offset', from |-> offset,
                             room |-> ice_align_up(n), asked |-> n]}

(* The next block of the arena.                                              *)
Take(n) ==
  /\ HasRoom(n)
  /\ offset' = offset + ice_align_up(n)
  /\ blocks' = blocks \cup {[ptr |-> buf + offset, from |-> offset,
                             room |-> ice_align_up(n), asked |-> n]}

(* n bytes from p on are written; w is what buf holds if it is among them.   *)
(* What a write outside of the arena does is not followed any further.       *)
Write(p, n, w) ==
  /\ buf' = IF CoversBuf(p, n) THEN w ELSE buf
  /\ pc' = IF InHeapBlock(p, n) THEN "running" ELSE "undefined"

Malloc(n) ==
  /\ alive /\ pc = "running"
  /\ Take(n)
  /\ UNCHANGED <<alive, size, buf, pc>>

Zmalloc(n) ==
  /\ alive /\ pc = "running"
  /\ Take(n)
  /\ Write(buf + offset, ice_align_up(n), NULL)
  /\ UNCHANGED <<alive, size>>

ReturnsNull(n) ==
  /\ alive /\ pc = "running" /\ ~HasRoom(n)
  /\ UNCHANGED vars

(* The caller fills a block it was given.                                    *)
Fill(b) ==
  /\ pc = "running"
  /\ \E w \in Junk : Write(b.ptr, b.asked, w)
  /\ UNCHANGED <<alive, offset, size, blocks>>

Undefined == pc = "undefined" /\ UNCHANGED vars

Next ==
  \/ Free \/ Undefined
  \/ \E n \in NewSize : New(n)
  \/ \E n \in Size : Malloc(n) \/ Zmalloc(n) \/ ReturnsNull(n)
  \/ \E b \in blocks : Fill(b)

Spec == Init /\ [][Next]_vars
-----------------------------------------------------------------------------
(* Properties.                                                               *)

Block == [ptr : Nat, from : Nat, room : Nat, asked : Size]

(* The type of the state.                                                    *)
TypeOK ==
  /\ alive \in BOOLEAN
  /\ offset \in 0 .. size /\ size \in Nat /\ size % PTR_ALIGN = 0
  /\ buf \in {NULL, Arena} \cup Junk
  /\ blocks \subseteq Block
  /\ pc \in {"running", "undefined"}

(* The arena is cut up without overlap: each block has its part of it below  *)
(* offset, at an aligned place, whatever was written to the blocks; and so   *)
(* will the next.                                                            *)
PartsApart ==
  /\ offset % PTR_ALIGN = 0
  /\ \A b \in blocks : b.from % PTR_ALIGN = 0 /\ b.from + b.room <= offset
  /\ \A b, c \in blocks :
       b # c => b.from + b.room <= c.from \/ c.from + c.room <= b.from

(* While buf is what _new set it to, every pointer handed out is to the      *)
(* block's part of the arena, and inside the heap block.                     *)
PointersInArena ==
  buf = Arena =>
    \A b \in blocks : b.ptr = Arena + b.from /\ InHeapBlock(b.ptr, b.room)

(* The block starts at buf plus the offset it was cut at (the test of the    *)
(* allocator compares each pointer with alloc->buf after it was given it).   *)
(* It does not: ice_stack_zmalloc clears buf when it clears the first block. *)
PointersFromBuf == \A b \in blocks : b.ptr = buf + b.from
=============================================================================
