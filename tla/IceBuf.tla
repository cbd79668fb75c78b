------------------------------- MODULE IceBuf -------------------------------
(***************************************************************************)
(* The typed buffer of buf_macros.h: entries of one type at a distance of  *)
(* alignedSize bytes in one heap block, of which the first lim are in use. *)
(* Callers get pointers into the block and write through them.  Memory is  *)
(* bytes, and byte sizes have the width of size_t.  Each action is one     *)
(* call, or a caller's write.                                              *)
(***************************************************************************)
EXTENDS Integers

CONSTANTS
  Byte, Garbage,  \* what bytes hold when written, and before
  Block,          \* names of heap blocks, numbers from 1
  SizeofType,     \* sizeof(type)
  Align, Size,    \* bound: the alignments, and indexes and sizes, callers pass
  SizeBits,       \* width of size_t
  MaxBytes        \* bound: there is no memory for a larger block

SizeMod == 2 ^ SizeBits

(* ceil(1.5 * n), exact while n has fewer bits than a double's significand.  *)
Growth(n) == (3 * n + 1) \div 2

(* No size is so large that the grown one is no size_t.                      *)
ASSUME BufAssumption ==
  /\ Garbage \notin Byte
  /\ Block \subseteq Nat \ {0}
  /\ SizeofType \in Nat \ {0}
  /\ Align \subseteq Nat
  /\ SizeMod \in Nat \ {0}
  /\ Size \subseteq Nat /\ \A n \in Size : Growth(n) < SizeMod
  /\ MaxBytes \in Nat /\ MaxBytes < SizeMod

VARIABLES
  life,                           \* "none", "made", or "aborted" by an assertion
  lim, cap, align, alignedSize,   \* as in struct buf
  data,                           \* the block of the entries, 0 for NULL
  mem,                            \* the bytes of that block
  heap,                           \* the live blocks
  held,                           \* a pointer a caller keeps
  ret                             \* the last call, and what it handed to the caller

vars == <<life, lim, cap, align, alignedSize, data, mem, heap, held, ret>>

params == <<life, align, alignedSize>>
memory == <<cap, data, mem, heap>>
-----------------------------------------------------------------------------
Pointer(b, at) == [block |-> b, at |-> at]

NULL == Pointer(0, 0)

NoBytes == [b \in {} |-> Garbage]

Answer(op, args, err, val) ==
  [op |-> op, args |-> args, err |-> err, val |-> val]

NoAnswer == Answer("none", <<>>, "COL_OK", NULL)

PowerOf2OrZero(n) == n = 0 \/ \E e \in 0 .. SizeBits - 1 : n = 2 ^ e

(* num + (align - 1) without its remainder by align, a power of 2.           *)
ice_align_up(num, a) == LET n == num + (a - 1) IN n - (n % a)

(* Where entry i is, behind data.                                            *)
At(i) == (i * alignedSize) % SizeMod

EntryPtr(i) == Pointer(data, At(i))

(* n bytes from at on are set to c.                                          *)
Filled(bytes, at, n, c) ==
  [b \in DOMAIN bytes |-> IF at <= b /\ b < at + n THEN c ELSE bytes[b]]

Init ==
  /\ life = "none" /\ align = 0 /\ alignedSize = 0
  /\ lim = 0 /\ cap = 0 /\ data = 0 /\ mem = NoBytes /\ heap = {}
  /\ held = NULL /\ ret = NoAnswer

(* For an alignment of 0, or without memory, _new returns NULL.              *)
New(a) ==
  /\ life = "none" /\ a > 0 /\ PowerOf2OrZero(a)
  /\ life' = "made" /\ align' = a /\ alignedSize' = ice_align_up(SizeofType, a)
  /\ UNCHANGED <<lim, memory, held, ret>>

(* The assertion of ice_aligned_malloc stops the program.                    *)
NewAsserts(a) ==
  /\ life = "none" /\ ~PowerOf2OrZero(a)
  /\ life' = "aborted"
  /\ UNCHANGED <<lim, align, alignedSize, memory, held, ret>>

Free ==
  /\ life = "made" /\ life' = "none"
  /\ align' = 0 /\ alignedSize' = 0
  /\ lim' = 0 /\ cap' = 0 /\ data' = 0 /\ mem' = NoBytes /\ heap' = heap \ {data}
  /\ held' = NULL /\ ret' = NoAnswer
-----------------------------------------------------------------------------
(* buf_reserve.                                                              *)

(* Mutant: a buffer grows when it is asked for just what it has.             *)
HasRoomStrict(n) == n < cap

HasRoom(n) == n <= cap

TooLarge(c) == c > (SizeMod - 1) \div SizeofType

(* Mutant: the entries are taken to lie side by side.                        *)
BytesUnaligned(c) == (c * SizeofType) % SizeMod

Bytes(c) == (c * alignedSize) % SizeMod

(* Mutant: only the entries in use are copied.                               *)
CopiedToLim(c) ==
  [b \in 0 .. Bytes(c) - 1 |-> IF b < Bytes(lim) THEN mem[b] ELSE Garbage]

(* realloc copies all of the old block and leaves the rest uninitialised.    *)
Copied(c) ==
  [b \in 0 .. Bytes(c) - 1 |-> IF b < Bytes(cap) THEN mem[b] ELSE Garbage]

(* Mutant: the old block is not freed.                                       *)
MovesLeak(c) ==
  /\ Bytes(c) > Bytes(cap) /\ Bytes(c) <= MaxBytes
  /\ \E b \in Block \ heap : data' = b /\ heap' = heap \cup {b}
  /\ mem' = Copied(c)

(* ice_aligned_realloc to a larger block.                                    *)
Moves(c) ==
  /\ Bytes(c) > Bytes(cap) /\ Bytes(c) <= MaxBytes
  /\ \E b \in Block \ heap : data' = b /\ heap' = (heap \ {data}) \cup {b}
  /\ mem' = Copied(c)

(* If the size in bytes has wrapped it may be one that is already there.     *)
StaysPut(c) ==
  /\ 0 < Bytes(c) /\ Bytes(c) <= Bytes(cap)
  /\ UNCHANGED <<data, mem, heap>>

Grows(c) == ~TooLarge(c) /\ (Moves(c) \/ StaysPut(c)) /\ cap' = c

(* A reserve that returns COL_OK.                                            *)
ReserveOK(n) ==
  \/ HasRoom(n) /\ UNCHANGED memory
  \/ ~HasRoom(n) /\ Grows(Growth(n))

(* The caller gives up its pointers when it asks for more than there is.     *)
StillHeld(n) == IF n <= cap THEN held ELSE NULL

(* Too large, or no memory: nothing changes.  A size of 0, to which it may   *)
(* have wrapped, makes ice_aligned_realloc free the block.                   *)
Refused(op, args, n) ==
  /\ life = "made" /\ ~HasRoom(n)
  /\ TooLarge(Growth(n)) \/ Bytes(Growth(n)) = 0 \/ Bytes(Growth(n)) > Bytes(cap)
  /\ heap' = IF ~TooLarge(Growth(n)) /\ Bytes(Growth(n)) = 0
             THEN heap \ {data} ELSE heap
  /\ ret' = Answer(op, args, "COL_ERR_BAD_ALLOC", NULL)
  /\ UNCHANGED <<params, lim, cap, data, mem, held>>

Reserve(n) ==
  /\ life = "made"
  /\ ReserveOK(n)
  /\ held' = StillHeld(n)
  /\ ret' = Answer("reserve", <<n>>, "COL_OK", NULL)
  /\ UNCHANGED <<params, lim>>
-----------------------------------------------------------------------------
(* The caller is given a pointer, and keeps it or the one it has.            *)
Gives(op, args, p, old) ==
  ret' = Answer(op, args, "COL_OK", p) /\ held' \in {old, p}

(* lim >= cap is cut to cap.                                                 *)
UpToCap(n) == IF n >= cap THEN cap ELSE n

(* reserve, set_lim and get; the limit is in the capacity then.              *)
EmplaceBack ==
  /\ life = "made"
  /\ ReserveOK(lim + 1)
  /\ lim' = lim + 1
  /\ Gives("emplace_back", <<>>, Pointer(data', At(lim)), StillHeld(lim + 1))
  /\ UNCHANGED params

Underflow ==
  /\ life = "made" /\ lim = 0
  /\ ret' = Answer("back", <<>>, "COL_ERR_UNDERFLOW", NULL)
  /\ UNCHANGED <<params, lim, memory, held>>

Back ==
  /\ life = "made" /\ lim > 0
  /\ Gives("back", <<>>, EntryPtr(lim - 1), held)
  /\ UNCHANGED <<params, lim, memory>>

Overflow(op, args, i) ==
  /\ life = "made" /\ i >= lim
  /\ ret' = Answer(op, args, "COL_ERR_OVERFLOW", NULL)
  /\ UNCHANGED <<params, lim, memory, held>>

Get(i) ==
  /\ life = "made" /\ i < lim
  /\ Gives("get", <<i>>, EntryPtr(i), held)
  /\ UNCHANGED <<params, lim, memory>>

Memset(i, c) ==
  /\ life = "made" /\ i < lim
  /\ mem' = Filled(mem, At(i), alignedSize, c)
  /\ ret' = Answer("memset", <<i, c>>, "COL_OK", NULL)
  /\ UNCHANGED <<params, lim, cap, data, heap, held>>

SetLim(n) ==
  /\ life = "made"
  /\ lim' = UpToCap(n)
  /\ ret' = Answer("set_lim", <<n>>, "COL_OK", NULL)
  /\ UNCHANGED <<params, memory, held>>

Clear ==
  /\ life = "made"
  /\ lim' = 0
  /\ ret' = Answer("clear", <<>>, "COL_OK", NULL)
  /\ UNCHANGED <<params, memory, held>>

(* The caller writes a whole entry through the pointer it keeps.             *)
Write(c) ==
  /\ held # NULL /\ held.block = data
  /\ mem' = Filled(mem, held.at, SizeofType, c)
  /\ UNCHANGED <<params, lim, cap, data, heap, held, ret>>

(* The process is gone.                                                      *)
Aborted == life = "aborted" /\ UNCHANGED vars

Next ==
  \/ Aborted \/ Free \/ Clear \/ Back \/ Underflow
  \/ EmplaceBack \/ Refused("emplace_back", <<>>, lim + 1)
  \/ \E a \in Align : New(a) \/ NewAsserts(a)
  \/ \E n \in Size :
       \/ Reserve(n) \/ Refused("reserve", <<n>>, n)
       \/ SetLim(n)
       \/ Get(n) \/ Overflow("get", <<n>>, n)
       \/ \E c \in Byte : Memset(n, c) \/ Overflow("memset", <<n, c>>, n)
  \/ \E c \in Byte : Write(c)

Spec == Init /\ [][Next]_vars
-----------------------------------------------------------------------------
(* Properties.                                                               *)

Memory == Byte \cup {Garbage}

(* The type of the state: the block has the bytes the entries need.          *)
TypeOK ==
  /\ life \in {"none", "made", "aborted"}
  /\ cap \in Nat /\ lim \in 0 .. cap
  /\ align \in Nat /\ alignedSize \in Nat
  /\ data \in Block \cup {0} /\ heap \subseteq Block
  /\ mem \in [0 .. Bytes(cap) - 1 -> Memory]
  /\ held \in [block : Block \cup {0}, at : Nat]

(* The buffer's block is live and the only one, after refusals too.          *)
OwnsOneBlock ==
  /\ heap = {data} \ {0}
  /\ data = 0 <=> cap = 0

(* An entry is aligned in its block and inside it, and does not reach into   *)
(* the next.                                                                 *)
InBlock(at) == at + SizeofType <= Bytes(cap)

EntriesInBlock ==
  \A i \in 0 .. cap - 1 :
    /\ At(i) % align = 0 /\ InBlock(At(i))
    /\ i > 0 => At(i - 1) + SizeofType <= At(i)

(* A pointer from _get, _back or _emplace_back is good until a call asks for *)
(* more entries than there is room for, whatever is done to the limit: it    *)
(* leads to an entry of the live block.                                      *)
PointerGood ==
  held # NULL =>
    /\ held.block \in heap /\ held.block = data
    /\ held.at % align = 0 /\ InBlock(held.at)

Entry(i) == [b \in 0 .. SizeofType - 1 |-> mem[At(i) + b]]

Whole(c) == [b \in 0 .. SizeofType - 1 |-> c]

Index(p) == IF p = NULL THEN -1 ELSE p.at \div alignedSize

Entries ==
  INSTANCE IceEntries WITH entries <- [j \in 1 .. cap |-> Entry(j - 1)],
                           held <- Index(held),
                           ret <- [ret EXCEPT !.val = Index(@)]

(* Entries keep what is written to them, in use or not, when the buffer      *)
(* grows and its limit goes up and down, and pointers lead to the entries    *)
(* they were given out for.                                                  *)
RefinesEntries == Entries!Spec
=============================================================================
