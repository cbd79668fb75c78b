------------------------------- MODULE IceVec -------------------------------
(***************************************************************************)
(* The typed vector of vec_macros.h: elements in one heap block that is    *)
(* reallocated as it grows, and two cached iterators, v->begin and v->end. *)
(* Each action is one call.                                                *)
(***************************************************************************)
EXTENDS Integers, Sequences

CONSTANTS
  Value, Garbage, NoValue,  \* element values, uninitialised memory, no result
  Block,                    \* names of heap blocks, numbers from 1
  MaxCap,                   \* bound: there is no memory for more elements
  Index                     \* bound: the indexes and sizes callers pass

ASSUME VecAssumption ==
  /\ Garbage \notin Value /\ NoValue \notin Value
  /\ Block \subseteq Nat \ {0}
  /\ MaxCap \in Nat
  /\ Index \subseteq Nat

VARIABLES
  alive,           \* the vector has been made and not freed
  len, cap,        \* as in struct vec
  data,            \* the block that holds the elements, 0 for NULL
  begin, end,      \* cached iterators: a block and an element offset into it
  cells,           \* contents of the block, cells[j] for j in 0 .. cap-1
  heap,            \* the live blocks
  ret              \* the last call, and its result

vars == <<alive, len, cap, data, begin, end, cells, heap, ret>>

block == <<cap, data, heap>>

Elements == [j \in 1 .. len |-> cells[j - 1]]

List == INSTANCE IceSeq WITH seq <- Elements
-----------------------------------------------------------------------------
Pointer(b, at) == [block |-> b, at |-> at]

NULL == Pointer(0, 0)

NoCells == [j \in {} |-> Garbage]

Answer(op, args, err, val) ==
  [op |-> op, args |-> args, err |-> err, val |-> val]

NoAnswer == Answer("none", <<>>, "COL_OK", NoValue)

Init ==
  /\ alive = FALSE /\ len = 0
  /\ cap = 0 /\ data = 0 /\ heap = {} /\ cells = NoCells
  /\ begin = NULL /\ end = NULL
  /\ ret = NoAnswer

New ==
  /\ ~alive /\ alive' = TRUE
  /\ UNCHANGED <<len, block, cells, begin, end, ret>>

Free ==
  /\ alive /\ alive' = FALSE
  /\ len' = 0 /\ cap' = 0 /\ data' = 0 /\ heap' = heap \ {data}
  /\ cells' = NoCells
  /\ begin' = NULL /\ end' = NULL
  /\ ret' = NoAnswer
-----------------------------------------------------------------------------
(* vec_reserve.                                                              *)

(* ceil(1.5 * n), exact while n has fewer bits than a double's significand.  *)
Growth(n) == (3 * n + 1) \div 2

(* Mutant: one element too few is taken to have room.                        *)
HasRoomStrict(n) == n < cap

HasRoom(n) == n <= cap

(* Mutant: the old block is not freed.                                       *)
ReallocLeak(b) == heap \cup {b}

(* The live blocks after ice_aligned_realloc has moved the elements to b.    *)
Realloc(b) == (heap \ {data}) \cup {b}

(* A reserve that returns COL_OK: nothing to do, or a larger block.          *)
ReserveOK(n) ==
  \/ HasRoom(n) /\ UNCHANGED <<block, begin, end>>
  \/ /\ ~HasRoom(n) /\ Growth(n) <= MaxCap
     /\ cap' = Growth(n)
     /\ \E b \in Block \ heap : data' = b /\ heap' = Realloc(b)
     /\ begin' = NULL /\ end' = NULL

(* Mutant: the old elements are not copied.                                  *)
NotCopied(c) == [j \in 0 .. c - 1 |-> IF c = cap THEN cells[j] ELSE Garbage]

(* What is in the block once the capacity is c: realloc copies all of the    *)
(* old block and leaves the rest uninitialised.                              *)
Copied(c) == [j \in 0 .. c - 1 |-> IF j < cap THEN cells[j] ELSE Garbage]

(* Too large for an object, or no memory.                                    *)
Refused(op, args, n) ==
  /\ alive /\ ~HasRoom(n)
  /\ ret' = Answer(op, args, "COL_ERR_BAD_ALLOC", NoValue)
  /\ UNCHANGED <<alive, len, block, cells, begin, end>>

Reserve(n) ==
  /\ alive
  /\ ReserveOK(n)
  /\ cells' = Copied(cap')
  /\ ret' = Answer("reserve", <<n>>, "COL_OK", NoValue)
  /\ UNCHANGED <<alive, len>>
-----------------------------------------------------------------------------
PushBack(v) ==
  /\ alive
  /\ ReserveOK(len + 1)
  /\ cells' = [Copied(cap') EXCEPT ![len] = v]
  /\ len' = len + 1
  /\ ret' = Answer("push_back", <<v>>, "COL_OK", NoValue)
  /\ UNCHANGED alive

(* Mutant: the element that was last is lost in the move.                    *)
ShiftedUpShort(c, i) ==
  [j \in DOMAIN c |-> IF i < j /\ j < len THEN c[j - 1] ELSE c[j]]

(* memmove of the elements from i on by one; nothing moves if i is past them. *)
ShiftedUp(c, i) ==
  [j \in DOMAIN c |-> IF i < j /\ j <= len THEN c[j - 1] ELSE c[j]]

Insert(i, v) ==
  /\ alive
  /\ ReserveOK(len + 1)
  /\ cells' = [ShiftedUp(Copied(cap'), i) EXCEPT ![IF i < len THEN i ELSE len] = v]
  /\ len' = len + 1
  /\ ret' = Answer("insert", <<i, v>>, "COL_OK", NoValue)
  /\ UNCHANGED alive

Underflow(op, args) ==
  /\ alive /\ len = 0
  /\ ret' = Answer(op, args, "COL_ERR_UNDERFLOW", NoValue)
  /\ UNCHANGED <<alive, len, block, cells, begin, end>>

Illegal(op, args, i) ==
  /\ alive /\ i >= len
  /\ ret' = Answer(op, args, "COL_ERR_ILLEGAL_ARGUMENT", NoValue)
  /\ UNCHANGED <<alive, len, block, cells, begin, end>>

Back ==
  /\ alive /\ len > 0
  /\ ret' = Answer("back", <<>>, "COL_OK", cells[len - 1])
  /\ UNCHANGED <<alive, len, block, cells, begin, end>>

Get(i) ==
  /\ alive /\ i < len
  /\ ret' = Answer("get", <<i>>, "COL_OK", cells[i])
  /\ UNCHANGED <<alive, len, block, cells, begin, end>>

Set(i, v) ==
  /\ alive /\ i < len
  /\ cells' = [cells EXCEPT ![i] = v]
  /\ ret' = Answer("set", <<i, v>>, "COL_OK", NoValue)
  /\ UNCHANGED <<alive, len, block, begin, end>>

(* The memmove takes one element more than there are behind i.  In a full    *)
(* block the last one it takes lies behind the block: g is what it finds.    *)
ShiftedDown(i, g) ==
  [j \in 0 .. cap - 1 |->
     IF i <= j /\ j < len
     THEN IF j + 1 < cap THEN cells[j + 1] ELSE g
     ELSE cells[j]]

Erase(i) ==
  /\ alive /\ i < len
  /\ \E g \in Value \cup {Garbage} : cells' = ShiftedDown(i, g)
  /\ len' = len - 1
  /\ end' = NULL
  /\ ret' = Answer("erase", <<i>>, "COL_OK", NoValue)
  /\ UNCHANGED <<alive, block, begin>>

(* Mutant: the cached end survives.                                          *)
PopBackKeepsEnd(want) ==
  /\ alive /\ len > 0
  /\ len' = len - 1
  /\ ret' = Answer("pop_back", <<want>>, "COL_OK", IF want THEN cells[len - 1] ELSE NoValue)
  /\ UNCHANGED <<alive, block, cells, begin, end>>

(* The caller may pass no place for the element (want = FALSE).              *)
PopBack(want) ==
  /\ alive /\ len > 0
  /\ len' = len - 1
  /\ end' = NULL
  /\ ret' = Answer("pop_back", <<want>>, "COL_OK", IF want THEN cells[len - 1] ELSE NoValue)
  /\ UNCHANGED <<alive, block, cells, begin>>

Clear ==
  /\ alive
  /\ len' = 0 /\ end' = NULL
  /\ ret' = Answer("clear", <<>>, "COL_OK", NoValue)
  /\ UNCHANGED <<alive, block, cells, begin>>

(* vec_begin and vec_end: computed once, then taken from the cache.          *)
CachedBegin == IF begin = NULL THEN Pointer(data, 0) ELSE begin
CachedEnd == IF end = NULL THEN Pointer(data, len) ELSE end

Begin ==
  /\ alive
  /\ begin' = CachedBegin
  /\ ret' = Answer("begin", <<>>, "COL_OK", begin'.at)
  /\ UNCHANGED <<alive, len, block, cells, end>>

(* The result is given as its distance from the first element.               *)
End ==
  /\ alive
  /\ end' = CachedEnd
  /\ ret' = Answer("end", <<>>, "COL_OK", end'.at)
  /\ UNCHANGED <<alive, len, block, cells, begin>>

Next ==
  \/ New \/ Free \/ Clear \/ Begin \/ End
  \/ Back \/ Underflow("back", <<>>)
  \/ \E n \in Index : Reserve(n) \/ Refused("reserve", <<n>>, n)
  \/ \E v \in Value : PushBack(v) \/ Refused("push_back", <<v>>, len + 1)
  \/ \E want \in BOOLEAN : PopBack(want) \/ Underflow("pop_back", <<want>>)
  \/ \E i \in Index :
       \/ Get(i) \/ Illegal("get", <<i>>, i)
       \/ Erase(i) \/ Illegal("erase", <<i>>, i)
  \/ \E i \in Index, v \in Value :
       \/ Insert(i, v) \/ Refused("insert", <<i, v>>, len + 1)
       \/ Set(i, v) \/ Illegal("set", <<i, v>>, i)

Spec == Init /\ [][Next]_vars
-----------------------------------------------------------------------------
(* Properties.                                                               *)

Memory == Value \cup {Garbage}

(* The type of the state; a pointer's offset may be one past the last cell.  *)
TypeOK ==
  /\ alive \in BOOLEAN
  /\ len \in 0 .. cap /\ cap \in 0 .. MaxCap
  /\ data \in Block \cup {0} /\ heap \subseteq Block
  /\ cells \in [0 .. cap - 1 -> Memory]
  /\ begin \in [block : Block \cup {0}, at : 0 .. cap]
  /\ end \in [block : Block \cup {0}, at : 0 .. cap]

(* vec_reserve and vec_free keep the heap straight: the vector's block is    *)
(* live, it is the only one, and there is one whenever there is capacity.    *)
OwnsOneBlock ==
  /\ heap = {data} \ {0}
  /\ data = 0 <=> cap = 0

(* No element is uninitialised memory: neither the realloc of vec_reserve    *)
(* nor the memmoves of vec_insert and vec_erase let it in below len.         *)
ElementsInitialised == \A j \in 0 .. len - 1 : cells[j] \in Value

(* The cached iterators never dangle: they are in the block the elements are *)
(* in now, begin at its start, end not past the last element.                *)
IteratorsSafe ==
  /\ begin = NULL \/ (begin = Pointer(data, 0) /\ data # 0)
  /\ end = NULL \/ (end.block = data /\ data # 0 /\ end.at <= len)

(* What vec_reserve is for: as long as the elements fit in the capacity they *)
(* stay where they are, so pointers to them and iterators stay good.         *)
NoMoveWithinCapacity ==
  [][alive /\ alive' /\ len' <= cap /\ ret'.op # "reserve" => UNCHANGED block]_vars

(* The vector is a sequence, whatever block its elements are in.             *)
RefinesSeq == List!Spec

(* vec_end is one past the last element (the test of the iterators wants     *)
(* end - begin to be the length).  It is not: vec_push_back and vec_insert   *)
(* leave a cached end where it was.                                          *)
EndIsPastLast == ret.op = "end" => ret.val = len
=============================================================================
