---------------------------- MODULE IceVecProofs ----------------------------
(***************************************************************************)
(* What is proved about IceVec.                                            *)
(***************************************************************************)
EXTENDS IceVec, SequenceTheorems, TLAPS

(* The inductive invariant.  A vector that has not been made is all zeros;   *)
(* a cached end is in the block, so the offset of either iterator is a       *)
(* place in it.                                                              *)
NoVector ==
  ~alive => /\ len = 0 /\ cap = 0 /\ data = 0 /\ cells = NoCells
            /\ begin = NULL /\ end = NULL

VecInv == TypeOK /\ OwnsOneBlock /\ ElementsInitialised /\ IteratorsSafe /\ NoVector

LEMMA Constants ==
  /\ Block \subseteq Nat \ {0} /\ MaxCap \in Nat /\ Index \subseteq Nat
  /\ Value \subseteq Memory /\ Garbage \in Memory /\ 0 \notin Block
BY VecAssumption DEF Memory

LEMMA Below == \A n \in Nat : \A m \in 0 .. n : \A j \in 0 .. m - 1 : j \in 0 .. n - 1
OBVIOUS

(* The cells of a vector, and the pointers to them, are well typed.          *)
LEMMA Typed ==
  ASSUME VecInv
  PROVE  /\ len \in Nat /\ cap \in Nat /\ len <= cap /\ cap <= MaxCap
         /\ data \in Block \cup {0} /\ heap = {data} \ {0}
         /\ cells \in [0 .. cap - 1 -> Memory]
BY Constants DEF VecInv, TypeOK, OwnsOneBlock

(* Whatever a call does to the cells, if it does nothing worse to the        *)
(* iterators than to leave or to reset them, nor to the block.               *)
LEMMA SameBlock ==
  ASSUME VecInv, alive, UNCHANGED <<alive, block>>,
         len' \in 0 .. cap, cells' \in [0 .. cap - 1 -> Memory],
         \A j \in 0 .. len' - 1 : cells'[j] \in Value,
         begin' \in {begin, CachedBegin},
         end' = NULL \/ (len <= len' /\ end' \in {end, CachedEnd})
  PROVE  VecInv'
<1>1. /\ alive' = alive /\ cap' = cap /\ data' = data /\ heap' = heap
      /\ len \in Nat /\ cap \in Nat /\ len <= cap /\ cap <= MaxCap
      /\ data \in Block \cup {0}
  BY Typed DEF block
<1>2. NULL = [block |-> 0, at |-> 0] /\ 0 \in 0 .. cap
  BY <1>1 DEF NULL, Pointer
<1>3. /\ begin' = NULL \/ (begin' = Pointer(data, 0) /\ data # 0)
      /\ begin' \in [block : Block \cup {0}, at : 0 .. cap]
  BY <1>1, <1>2 DEF CachedBegin, VecInv, IteratorsSafe, Pointer
<1>4. /\ end' = NULL \/ (end'.block = data /\ data # 0 /\ end'.at <= len')
      /\ end' \in [block : Block \cup {0}, at : 0 .. cap]
  <2>1. CASE end' = NULL
    BY <1>2, <2>1
  <2>2. CASE len <= len' /\ end' = end
    BY <1>1, <2>2 DEF VecInv, IteratorsSafe, TypeOK
  <2>3. CASE len <= len' /\ end' = Pointer(data, len)
    <3>1. data = 0 => len = 0
      BY <1>1 DEF VecInv, OwnsOneBlock
    <3> QED
      BY <1>1, <1>2, <2>3, <3>1 DEF Pointer
  <2> QED
    BY <2>1, <2>2, <2>3 DEF CachedEnd
<1>5. TypeOK'
  BY <1>1, <1>3, <1>4 DEF TypeOK, VecInv
<1>6. OwnsOneBlock'
  BY <1>1 DEF VecInv, OwnsOneBlock
<1>7. ElementsInitialised'
  BY DEF ElementsInitialised
<1>8. IteratorsSafe'
  BY <1>1, <1>3, <1>4 DEF IteratorsSafe, NULL, Pointer
<1> QED
  BY <1>1, <1>5, <1>6, <1>7, <1>8 DEF VecInv, NoVector

(* The capacity after a reserve that returns COL_OK.                         *)
LEMMA ReservedCapacity ==
  ASSUME VecInv, NEW n \in Nat, ReserveOK(n)
  PROVE  cap' \in Nat /\ n <= cap' /\ cap <= cap' /\ cap' <= MaxCap
<1>1. CASE HasRoom(n) /\ UNCHANGED <<block, begin, end>>
  BY <1>1, Typed DEF HasRoom, block
<1>2. CASE ~HasRoom(n) /\ Growth(n) <= MaxCap /\ cap' = Growth(n)
  BY <1>2, Typed DEF HasRoom, Growth
<1> QED
  BY <1>1, <1>2 DEF ReserveOK

(* A call that begins with such a reserve, and takes nothing from the end.   *)
LEMMA Reserved ==
  ASSUME VecInv, alive, UNCHANGED alive, NEW n \in Nat, ReserveOK(n),
         len' \in Nat, len <= len', len' <= cap',
         cells' \in [0 .. cap' - 1 -> Memory],
         \A j \in 0 .. len' - 1 : cells'[j] \in Value
  PROVE  VecInv'
<1>1. CASE HasRoom(n)
  <2>1. UNCHANGED <<block, begin, end>>
    BY <1>1 DEF ReserveOK
  <2>2. cap' = cap
    BY <2>1 DEF block
  <2>3. len' \in 0 .. cap /\ cells' \in [0 .. cap - 1 -> Memory]
    BY <2>2, Typed
  <2>4. begin' \in {begin, CachedBegin} /\ end' \in {end, CachedEnd}
    BY <2>1
  <2> QED
    BY <2>1, <2>3, <2>4, SameBlock
<1>2. CASE ~HasRoom(n)
  <2>1. /\ data' \in Block /\ heap' = (heap \ {data}) \cup {data'}
        /\ begin' = NULL /\ end' = NULL
        /\ cap' \in Nat /\ cap' <= MaxCap /\ cap' # 0
    BY <1>2, Typed, ReservedCapacity DEF ReserveOK, Realloc, HasRoom
  <2>2. heap' = {data'} /\ data' # 0
    BY <2>1, Typed, Constants
  <2>3. begin' \in [block : Block \cup {0}, at : 0 .. cap']
        /\ end' \in [block : Block \cup {0}, at : 0 .. cap']
    BY <2>1 DEF NULL, Pointer
  <2>4. TypeOK'
    <3>1. alive' \in BOOLEAN
      BY DEF VecInv, TypeOK
    <3>2. len' \in 0 .. cap' /\ cap' \in 0 .. MaxCap
      BY <2>1, Constants
    <3>3. data' \in Block \cup {0} /\ heap' \subseteq Block
      BY <2>1, <2>2
    <3> QED
      BY <2>3, <3>1, <3>2, <3>3 DEF TypeOK
  <2>5. OwnsOneBlock'
    BY <2>1, <2>2 DEF OwnsOneBlock
  <2>6. IteratorsSafe'
    BY <2>1 DEF IteratorsSafe, NULL, Pointer
  <2>7. ElementsInitialised'
    BY DEF ElementsInitialised
  <2>8. NoVector'
    BY DEF NoVector
  <2> QED
    BY <2>4, <2>5, <2>6, <2>7, <2>8 DEF VecInv
<1> QED
  BY <1>1, <1>2
-----------------------------------------------------------------------------
(* What the cells are after a reallocation and after the memmoves.           *)

LEMMA CopiedCells ==
  ASSUME VecInv, NEW c \in Nat, cap <= c
  PROVE  /\ Copied(c) \in [0 .. c - 1 -> Memory]
         /\ \A j \in 0 .. len - 1 : j \in 0 .. c - 1 /\ Copied(c)[j] = cells[j]
<1>1. /\ len \in Nat /\ cap \in Nat /\ len <= cap
      /\ cells \in [0 .. cap - 1 -> Memory]
  BY Typed
<1>2. ASSUME NEW j \in 0 .. c - 1
      PROVE  (IF j < cap THEN cells[j] ELSE Garbage) \in Memory
  BY <1>1, Constants
<1>3. Copied(c) \in [0 .. c - 1 -> Memory]
  BY <1>2 DEF Copied
<1>4. ASSUME NEW j \in 0 .. len - 1
      PROVE  j \in 0 .. c - 1 /\ Copied(c)[j] = cells[j]
  <2>1. j \in 0 .. c - 1 /\ j < cap
    BY <1>1
  <2> QED
    BY <2>1 DEF Copied
<1> QED
  BY <1>3, <1>4

(* Where vec_insert puts an element, and what it then leaves in the block.   *)
Place(i) == IF i < len THEN i ELSE len
Inserted(c, i, v) == [ShiftedUp(Copied(c), i) EXCEPT ![Place(i)] = v]

(* The element is at its place p, those from p on are one further up.        *)
LEMMA InsertedCells ==
  ASSUME VecInv, NEW c \in Nat, cap <= c, len < c, NEW i \in Nat, NEW v \in Value,
         NEW p, p = Place(i), NEW new, new = Inserted(c, i, v)
  PROVE  /\ p \in 0 .. len
         /\ new \in [0 .. c - 1 -> Memory]
         /\ \A j \in 0 .. len :
              new[j] = IF j < p THEN cells[j] ELSE IF j = p THEN v ELSE cells[j - 1]
<1>1. /\ len \in Nat /\ cap \in Nat /\ len <= cap
      /\ cells \in [0 .. cap - 1 -> Memory]
  BY Typed
<1>2. p \in 0 .. len /\ p \in 0 .. c - 1 /\ i >= p /\ (p = i \/ p = len)
  BY <1>1 DEF Place
<1> DEFINE old == Copied(c)
<1>3. /\ old \in [0 .. c - 1 -> Memory]
      /\ \A j \in 0 .. len - 1 : j \in 0 .. c - 1 /\ old[j] = cells[j]
  BY CopiedCells
<1> HIDE DEF old
<1> DEFINE up == [j \in 0 .. c - 1 |-> IF i < j /\ j <= len THEN old[j - 1] ELSE old[j]]
<1>4. ShiftedUp(old, i) = up
  BY <1>3 DEF ShiftedUp
<1>5. ASSUME NEW j \in 0 .. c - 1
      PROVE  (IF i < j /\ j <= len THEN old[j - 1] ELSE old[j]) \in Memory
  <2>1. CASE i < j /\ j <= len
    <3>1. j - 1 \in 0 .. c - 1
      BY <2>1
    <3> QED
      BY <1>3, <2>1, <3>1
  <2>2. CASE ~(i < j /\ j <= len)
    BY <1>3, <2>2
  <2> QED
    BY <2>1, <2>2
<1>6. up \in [0 .. c - 1 -> Memory]
  BY <1>5
<1> HIDE DEF up
<1>7. new = [up EXCEPT ![p] = v]
  BY <1>4 DEF old, Inserted
<1>8. new \in [0 .. c - 1 -> Memory]
  BY <1>2, <1>6, <1>7, Constants
<1>9. ASSUME NEW j \in 0 .. len
      PROVE  new[j] = IF j < p THEN cells[j] ELSE IF j = p THEN v ELSE cells[j - 1]
  <2>1. j \in 0 .. c - 1
    BY <1>1
  <2>2. CASE j = p
    <3>1. new[p] = v
      BY <1>2, <1>6, <1>7
    <3>2. ~(j < p)
      BY <1>1, <1>2, <2>2
    <3> QED
      BY <2>2, <3>1, <3>2
  <2>3. CASE j < p
    <3>1. ~(i < j) /\ j \in 0 .. len - 1
      BY <1>1, <1>2, <2>1, <2>3
    <3>2. new[j] = up[j]
      BY <1>2, <1>6, <1>7, <2>1, <2>3
    <3> QED
      BY <1>3, <2>1, <2>3, <3>1, <3>2 DEF up
  <2>4. CASE j > p
    <3>1. i < j /\ j <= len /\ j - 1 \in 0 .. len - 1
      BY <1>1, <1>2, <2>1, <2>4
    <3>2. new[j] = up[j]
      BY <1>2, <1>6, <1>7, <2>1, <2>4
    <3>3. up[j] = old[j - 1]
      BY <2>1, <3>1 DEF up
    <3>4. old[j - 1] = cells[j - 1]
      BY <1>3, <3>1
    <3>5. ~(j < p) /\ j # p
      BY <1>1, <1>2, <2>4
    <3> QED
      BY <3>2, <3>3, <3>4, <3>5
  <2> QED
    BY <1>1, <1>2, <2>2, <2>3, <2>4
<1> QED
  BY <1>2, <1>8, <1>9

(* The elements behind i one further down.  What is read behind the block,   *)
(* g, goes to the cell behind the last element.                              *)
LEMMA ErasedCells ==
  ASSUME VecInv, NEW i \in Nat, i < len, NEW g \in Memory
  PROVE  /\ ShiftedDown(i, g) \in [0 .. cap - 1 -> Memory]
         /\ \A j \in 0 .. len - 2 :
              ShiftedDown(i, g)[j] = IF j < i THEN cells[j] ELSE cells[j + 1]
<1>1. /\ len \in Nat /\ cap \in Nat /\ len <= cap
      /\ cells \in [0 .. cap - 1 -> Memory]
  BY Typed
<1>2. ASSUME NEW j \in 0 .. cap - 1
      PROVE  (IF i <= j /\ j < len
              THEN IF j + 1 < cap THEN cells[j + 1] ELSE g
              ELSE cells[j]) \in Memory
  <2>1. CASE i <= j /\ j < len /\ j + 1 < cap
    <3>1. j + 1 \in 0 .. cap - 1
      BY <1>1, <2>1
    <3> QED
      BY <1>1, <2>1, <3>1
  <2>2. CASE i <= j /\ j < len /\ ~(j + 1 < cap)
    BY <2>2
  <2>3. CASE ~(i <= j /\ j < len)
    BY <1>1, <2>3
  <2> QED
    BY <2>1, <2>2, <2>3
<1>3. ShiftedDown(i, g) \in [0 .. cap - 1 -> Memory]
  BY <1>2 DEF ShiftedDown
<1>4. ASSUME NEW j \in 0 .. len - 2
      PROVE  ShiftedDown(i, g)[j] = IF j < i THEN cells[j] ELSE cells[j + 1]
  <2>1. j \in 0 .. cap - 1 /\ j < len /\ j + 1 < cap
    BY <1>1
  <2> QED
    BY <2>1 DEF ShiftedDown
<1> QED
  BY <1>3, <1>4
-----------------------------------------------------------------------------
(* One lemma per action that changes more than the answer.                   *)

LEMMA VecInit == Init => VecInv
<1> SUFFICES ASSUME Init
             PROVE  VecInv
  OBVIOUS
<1>1. NULL \in [block : Block \cup {0}, at : 0 .. 0] /\ NoCells \in [0 .. 0 - 1 -> Memory]
  BY DEF NULL, Pointer, NoCells
<1>2. TypeOK
  <2>1. alive \in BOOLEAN
    BY Zenon DEF Init
  <2>3. len \in 0 .. cap /\ cap \in 0 .. MaxCap
        /\ data \in Block \cup {0} /\ heap \subseteq Block
    <3>1. 0 \in 0 .. 0 /\ 0 \in 0 .. MaxCap
      BY Constants
    <3> QED
      BY <3>1, Zenon DEF Init
  <2>2. /\ cells \in [0 .. cap - 1 -> Memory]
        /\ begin \in [block : Block \cup {0}, at : 0 .. cap]
        /\ end \in [block : Block \cup {0}, at : 0 .. cap]
    BY <1>1 DEF Init
  <2> QED
    BY <2>1, <2>2, <2>3 DEF TypeOK
<1>3. OwnsOneBlock /\ ElementsInitialised /\ IteratorsSafe /\ NoVector
  BY DEF Init, OwnsOneBlock, ElementsInitialised, IteratorsSafe, NoVector
<1> QED
  BY <1>2, <1>3 DEF VecInv

LEMMA NewInv ==
  ASSUME VecInv, New
  PROVE  VecInv'
BY DEF New, block, VecInv, TypeOK, OwnsOneBlock, ElementsInitialised, IteratorsSafe,
       NoVector

LEMMA FreeInv ==
  ASSUME VecInv, Free
  PROVE  VecInv'
<1>1. /\ alive' = FALSE /\ len' = 0 /\ cap' = 0 /\ data' = 0
      /\ cells' = NoCells /\ begin' = NULL /\ end' = NULL
  BY DEF Free
<1>2. heap' = {}
  BY Typed DEF Free
<1>3. NULL \in [block : Block \cup {0}, at : 0 .. 0] /\ NoCells \in [0 .. 0 - 1 -> Memory]
  BY DEF NULL, Pointer, NoCells
<1>4. TypeOK'
  <2>1. alive' \in BOOLEAN /\ len' \in 0 .. cap' /\ cap' \in 0 .. MaxCap
        /\ data' \in Block \cup {0} /\ heap' \subseteq Block
    <3>1. 0 \in 0 .. 0 /\ 0 \in 0 .. MaxCap
      BY Constants
    <3> QED
      BY <1>1, <1>2, <3>1, Zenon
  <2>2. /\ cells' \in [0 .. cap' - 1 -> Memory]
        /\ begin' \in [block : Block \cup {0}, at : 0 .. cap']
        /\ end' \in [block : Block \cup {0}, at : 0 .. cap']
    BY <1>1, <1>3
  <2> QED
    BY <2>1, <2>2 DEF TypeOK
<1>5. OwnsOneBlock' /\ ElementsInitialised' /\ IteratorsSafe' /\ NoVector'
  BY <1>1, <1>2 DEF OwnsOneBlock, ElementsInitialised, IteratorsSafe, NoVector
<1> QED
  BY <1>4, <1>5 DEF VecInv

LEMMA ReserveInv ==
  ASSUME VecInv, NEW n \in Nat, Reserve(n)
  PROVE  VecInv'
<1>1. alive /\ ReserveOK(n) /\ cells' = Copied(cap') /\ UNCHANGED <<alive, len>>
  BY DEF Reserve
<1>2. cap' \in Nat /\ cap <= cap' /\ len \in Nat /\ len <= cap'
  BY <1>1, ReservedCapacity, Typed
<1>3. /\ Copied(cap') \in [0 .. cap' - 1 -> Memory]
      /\ \A j \in 0 .. len - 1 : Copied(cap')[j] = cells[j]
  BY <1>2, CopiedCells
<1>4. \A j \in 0 .. len' - 1 : cells'[j] \in Value
  BY <1>1, <1>3 DEF VecInv, ElementsInitialised
<1>5. len' = len /\ len <= len
  BY <1>1, <1>2
<1>6. /\ alive' = alive /\ len' \in Nat /\ len <= len' /\ len' <= cap'
      /\ cells' \in [0 .. cap' - 1 -> Memory]
  BY <1>1, <1>2, <1>3, <1>5, Zenon
<1> QED
  BY <1>1, <1>4, <1>6, Reserved

(* The elements after a push_back.                                           *)
LEMMA PushedCells ==
  ASSUME VecInv, NEW v \in Value, PushBack(v)
  PROVE  /\ cells' \in [0 .. cap' - 1 -> Memory] /\ len < cap'
         /\ \A j \in 0 .. len : cells'[j] = IF j < len THEN cells[j] ELSE v
<1>1. ReserveOK(len + 1) /\ cells' = [Copied(cap') EXCEPT ![len] = v]
  BY DEF PushBack
<1>2. len \in Nat /\ cap \in Nat /\ len + 1 \in Nat
  BY Typed
<1>3. cap' \in Nat /\ cap <= cap' /\ len + 1 <= cap'
  BY <1>1, <1>2, ReservedCapacity
<1>4. /\ Copied(cap') \in [0 .. cap' - 1 -> Memory]
      /\ \A j \in 0 .. len - 1 : j \in 0 .. cap' - 1 /\ Copied(cap')[j] = cells[j]
  BY <1>3, CopiedCells
<1>5. len \in 0 .. cap' - 1 /\ len < cap' /\ v \in Memory
  <2>1. \A c \in Nat : len + 1 <= c => len \in 0 .. c - 1 /\ len < c
    BY <1>2
  <2>2. len \in 0 .. cap' - 1 /\ len < cap'
    BY <1>3, <2>1, Zenon
  <2> QED
    BY <2>2, Constants
<1>6. cells' \in [0 .. cap' - 1 -> Memory]
  BY <1>1, <1>4, <1>5
<1>7. ASSUME NEW j \in 0 .. len
      PROVE  cells'[j] = IF j < len THEN cells[j] ELSE v
  <2>1. CASE j < len
    <3>1. j \in 0 .. len - 1 /\ j # len
      BY <1>2, <2>1
    <3>2. cells'[j] = Copied(cap')[j]
      BY <1>1, <1>4, <1>5, <3>1
    <3> QED
      BY <1>4, <2>1, <3>1, <3>2
  <2>2. CASE ~(j < len)
    <3>1. j = len
      BY <1>2, <2>2
    <3> QED
      BY <1>1, <1>4, <1>5, <2>2, <3>1
  <2> QED
    BY <2>1, <2>2
<1> QED
  BY <1>5, <1>6, <1>7

LEMMA PushBackInv ==
  ASSUME VecInv, NEW v \in Value, PushBack(v)
  PROVE  VecInv'
<1>1. alive /\ ReserveOK(len + 1) /\ len' = len + 1 /\ UNCHANGED alive
  BY DEF PushBack
<1>2. len \in Nat /\ len + 1 \in Nat
  BY Typed
<1>3. cap' \in Nat /\ len' <= cap'
  BY <1>1, <1>2, ReservedCapacity
<1>4. \A j \in 0 .. len' - 1 : cells'[j] \in Value
  BY <1>1, <1>2, PushedCells DEF VecInv, ElementsInitialised
<1>5. /\ alive' = alive /\ len' \in Nat /\ len <= len'
      /\ cells' \in [0 .. cap' - 1 -> Memory]
  BY <1>1, <1>2, PushedCells
<1> QED
  BY <1>1, <1>2, <1>3, <1>4, <1>5, Reserved

(* The elements after an insert: at i, or behind the last.                   *)
LEMMA InsertCells ==
  ASSUME VecInv, NEW i \in Nat, NEW v \in Value, Insert(i, v),
         NEW p, p = Place(i)
  PROVE  /\ cells' \in [0 .. cap' - 1 -> Memory] /\ len < cap' /\ p \in 0 .. len
         /\ \A j \in 0 .. len :
              cells'[j] = IF j < p THEN cells[j] ELSE IF j = p THEN v ELSE cells[j - 1]
<1>1. ReserveOK(len + 1) /\ cells' = Inserted(cap', i, v)
  BY DEF Insert, Inserted, Place
<1>2. len \in Nat /\ len + 1 \in Nat
  BY Typed
<1>3. cap' \in Nat /\ cap <= cap' /\ len + 1 <= cap'
  BY <1>1, <1>2, ReservedCapacity
<1>4. len < cap'
  BY <1>2, <1>3
<1>5. /\ p \in 0 .. len /\ cells' \in [0 .. cap' - 1 -> Memory]
      /\ \A j \in 0 .. len :
           cells'[j] = IF j < p THEN cells[j] ELSE IF j = p THEN v ELSE cells[j - 1]
  <2>1. PICK c \in Nat : c = cap' /\ cap <= c /\ len < c
    BY <1>3, <1>4
  <2>2. PICK w : w = cells' /\ w = Inserted(c, i, v)
    BY <1>1, <2>1
  <2>3. /\ p \in 0 .. len /\ w \in [0 .. c - 1 -> Memory]
        /\ \A j \in 0 .. len :
             w[j] = IF j < p THEN cells[j] ELSE IF j = p THEN v ELSE cells[j - 1]
    <3>1. cap <= c /\ len < c /\ w = Inserted(c, i, v)
      BY <2>1, <2>2
    <3> QED
      BY <3>1, InsertedCells
  <2> QED
    BY <2>1, <2>2, <2>3, Zenon
<1> QED
  BY <1>4, <1>5

LEMMA InsertInv ==
  ASSUME VecInv, NEW i \in Nat, NEW v \in Value, Insert(i, v)
  PROVE  VecInv'
<1>1. alive /\ ReserveOK(len + 1) /\ len' = len + 1 /\ UNCHANGED alive
  BY DEF Insert
<1>2. len \in Nat /\ len + 1 \in Nat
  BY Typed
<1>3. cap' \in Nat /\ len' <= cap'
  BY <1>1, <1>2, ReservedCapacity
<1> DEFINE p == Place(i)
<1>4. /\ cells' \in [0 .. cap' - 1 -> Memory] /\ p \in 0 .. len
      /\ \A j \in 0 .. len :
           cells'[j] = IF j < p THEN cells[j] ELSE IF j = p THEN v ELSE cells[j - 1]
  BY InsertCells
<1> HIDE DEF p
<1>5. ASSUME NEW j \in 0 .. len' - 1
      PROVE  cells'[j] \in Value
  <2>1. j \in 0 .. len
    BY <1>1, <1>2
  <2>2. CASE j < p
    BY <1>2, <1>4, <2>1, <2>2 DEF VecInv, ElementsInitialised
  <2>3. CASE j = p
    BY <1>4, <2>1, <2>3
  <2>4. CASE j > p
    <3>1. j - 1 \in 0 .. len - 1 /\ ~(j < p) /\ j # p
      BY <1>2, <1>4, <2>1, <2>4
    <3> QED
      BY <1>4, <2>1, <3>1 DEF VecInv, ElementsInitialised
  <2> QED
    BY <1>4, <2>1, <2>2, <2>3, <2>4
<1>6. alive' = alive /\ len' \in Nat /\ len <= len'
  BY <1>1, <1>2
<1> QED
  BY <1>1, <1>2, <1>3, <1>4, <1>5, <1>6, Reserved

LEMMA EraseInv ==
  ASSUME VecInv, NEW i \in Nat, Erase(i)
  PROVE  VecInv'
<1>1. alive /\ i < len /\ len' = len - 1 /\ end' = NULL /\ UNCHANGED <<alive, block, begin>>
  BY DEF Erase
<1>2. PICK g \in Memory : cells' = ShiftedDown(i, g)
  BY DEF Erase, Memory
<1>3. /\ cells' \in [0 .. cap - 1 -> Memory]
      /\ \A j \in 0 .. len - 2 : cells'[j] = IF j < i THEN cells[j] ELSE cells[j + 1]
  BY <1>1, <1>2, ErasedCells
<1>4. len \in Nat /\ len <= cap /\ cap \in Nat
  BY Typed
<1>5. len' \in 0 .. cap
  BY <1>1, <1>4
<1>6. ASSUME NEW j \in 0 .. len' - 1
      PROVE  cells'[j] \in Value
  <2>1. j \in 0 .. len - 2 /\ j \in 0 .. len - 1 /\ j + 1 \in 0 .. len - 1
    BY <1>1, <1>4
  <2> QED
    BY <1>3, <2>1 DEF VecInv, ElementsInitialised
<1> QED
  BY <1>1, <1>3, <1>5, <1>6, SameBlock

(* Calls that leave the elements alone or take some from the end.            *)
LEMMA FewerInv ==
  ASSUME VecInv, alive, UNCHANGED <<alive, block, cells, begin>>,
         len' \in 0 .. len, end' = NULL \/ (len' = len /\ end' = end)
  PROVE  VecInv'
<1>1. len \in Nat /\ len <= cap /\ cap \in Nat /\ cells \in [0 .. cap - 1 -> Memory]
  BY Typed
<1>2. len' \in 0 .. cap /\ cells' \in [0 .. cap - 1 -> Memory]
  BY <1>1
<1>3. ASSUME NEW j \in 0 .. len' - 1
      PROVE  cells'[j] \in Value
  <2>1. j \in 0 .. len - 1
    BY <1>1, Below, Zenon
  <2> QED
    BY <2>1 DEF VecInv, ElementsInitialised
<1>4. end' = NULL \/ (len <= len' /\ end' \in {end, CachedEnd})
  BY <1>1
<1> QED
  BY <1>2, <1>3, <1>4, SameBlock

LEMMA SetInv ==
  ASSUME VecInv, NEW i \in Nat, NEW v \in Value, Set(i, v)
  PROVE  VecInv'
<1>1. /\ alive /\ i < len /\ cells' = [cells EXCEPT ![i] = v]
      /\ UNCHANGED <<alive, len, block, begin, end>>
  BY DEF Set
<1>2. len \in Nat /\ len <= cap /\ cap \in Nat /\ cells \in [0 .. cap - 1 -> Memory]
  BY Typed
<1>3. cells' \in [0 .. cap - 1 -> Memory]
  BY <1>1, <1>2, Constants
<1>4. \A j \in 0 .. len' - 1 : cells'[j] \in Value
  BY <1>1, <1>2 DEF VecInv, ElementsInitialised
<1>5. len' \in 0 .. cap /\ len <= len'
  BY <1>1, <1>2
<1> QED
  BY <1>1, <1>3, <1>4, <1>5, SameBlock

LEMMA IteratorInv ==
  ASSUME VecInv, Begin \/ End
  PROVE  VecInv'
<1>1. /\ alive /\ UNCHANGED <<alive, len, block, cells>>
      /\ begin' \in {begin, CachedBegin} /\ end' \in {end, CachedEnd}
  BY DEF Begin, End
<1>2. /\ len' \in 0 .. cap /\ cells' \in [0 .. cap - 1 -> Memory] /\ len <= len'
      /\ \A j \in 0 .. len' - 1 : cells'[j] \in Value
  BY <1>1, Typed DEF VecInv, ElementsInitialised
<1> QED
  BY <1>1, <1>2, SameBlock

LEMMA VecNext ==
  ASSUME VecInv, [Next]_vars
  PROVE  VecInv'
<1> USE Constants
<1>1. CASE UNCHANGED vars
  BY <1>1 DEF vars, VecInv, TypeOK, OwnsOneBlock, ElementsInitialised, IteratorsSafe,
              NoVector
<1>2. CASE New
  BY <1>2, NewInv
<1>3. CASE Free
  BY <1>3, FreeInv
<1>4. CASE Begin \/ End
  BY <1>4, IteratorInv
<1>5. CASE Clear
  <2>1. 0 \in 0 .. len
    BY Typed
  <2> QED
    BY <1>5, <2>1, FewerInv DEF Clear
<1>6. ASSUME NEW want \in BOOLEAN, PopBack(want)
      PROVE  VecInv'
  <2>1. len - 1 \in 0 .. len
    BY <1>6, Typed DEF PopBack
  <2> QED
    BY <1>6, <2>1, FewerInv DEF PopBack
<1>7. ASSUME alive, UNCHANGED <<alive, len, block, cells, begin, end>>
      PROVE  VecInv'
  <2>1. len' \in 0 .. len
    BY <1>7, Typed
  <2> QED
    BY <1>7, <2>1, FewerInv
<1>8. ASSUME NEW op, NEW args, NEW n, Underflow(op, args) \/ Illegal(op, args, n) \/ Refused(op, args, n)
      PROVE  VecInv'
  BY <1>7, <1>8 DEF Underflow, Illegal, Refused
<1>9. ASSUME NEW n, Back \/ Get(n)
      PROVE  VecInv'
  BY <1>7, <1>9 DEF Back, Get
<1>10. ASSUME NEW n \in Index, Reserve(n)
       PROVE  VecInv'
  BY <1>10, ReserveInv
<1>11. ASSUME NEW v \in Value, PushBack(v)
       PROVE  VecInv'
  BY <1>11, PushBackInv
<1>12. ASSUME NEW i \in Index, Erase(i)
       PROVE  VecInv'
  BY <1>12, EraseInv
<1>13. ASSUME NEW i \in Index, NEW v \in Value, Insert(i, v) \/ Set(i, v)
       PROVE  VecInv'
  BY <1>13, InsertInv, SetInv
<1> QED
  BY <1>1, <1>2, <1>3, <1>4, <1>5, <1>6, <1>8, <1>9, <1>10, <1>11, <1>12, <1>13 DEF Next
-----------------------------------------------------------------------------
(* What Append, RemoveAt and InsertAt are, element by element.               *)

LEMMA IsAppend ==
  ASSUME NEW S, NEW s \in Seq(S), NEW v \in S, NEW t \in Seq(S), Len(t) = Len(s) + 1,
         \A j \in 1 .. Len(t) : t[j] = IF j <= Len(s) THEN s[j] ELSE v
  PROVE  t = Append(s, v)
<1>1. /\ Append(s, v) \in Seq(S) /\ Len(Append(s, v)) = Len(s) + 1
      /\ \A j \in 1 .. Len(s) : Append(s, v)[j] = s[j]
      /\ Append(s, v)[Len(s) + 1] = v
  BY AppendProperties
<1>2. ASSUME NEW j \in 1 .. Len(t)
      PROVE  t[j] = Append(s, v)[j]
  <2>1. CASE j <= Len(s)
    BY <1>1, <2>1
  <2>2. CASE ~(j <= Len(s))
    <3>1. j = Len(s) + 1
      BY <2>2
    <3> QED
      BY <1>1, <2>2, <3>1
  <2> QED
    BY <2>1, <2>2
<1> QED
  BY <1>1, <1>2, SeqEqual

LEMMA IsRemoveAt ==
  ASSUME NEW S, NEW s \in Seq(S), NEW t \in Seq(S), Len(t) = Len(s) - 1,
         NEW i \in 1 .. Len(s),
         \A j \in 1 .. Len(t) : t[j] = IF j < i THEN s[j] ELSE s[j + 1]
  PROVE  t = List!RemoveAt(s, i)
<1> DEFINE a == SubSeq(s, 1, i - 1)
           b == SubSeq(s, i + 1, Len(s))
<1>1. Len(s) \in Nat /\ \A j \in 1 .. Len(s) : s[j] \in S
  BY ElementOfSeq
<1>2. a \in Seq(S) /\ Len(a) = i - 1 /\ \A j \in 1 .. i - 1 : a[j] = s[j]
  BY <1>1, SubSeqProperties
<1>3. b \in Seq(S) /\ Len(b) = Len(s) - i /\ \A j \in 1 .. Len(s) - i : b[j] = s[i + j]
  BY <1>1, SubSeqProperties
<1> HIDE DEF a, b
<1>4. /\ a \o b \in Seq(S) /\ Len(a \o b) = Len(t)
      /\ \A j \in 1 .. Len(t) : (a \o b)[j] = IF j <= i - 1 THEN a[j] ELSE b[j - (i - 1)]
  <2>1. /\ a \o b \in Seq(S) /\ Len(a \o b) = Len(a) + Len(b)
        /\ \A j \in 1 .. Len(a) + Len(b) :
             (a \o b)[j] = IF j <= Len(a) THEN a[j] ELSE b[j - Len(a)]
    BY <1>2, <1>3, ConcatProperties
  <2>2. Len(a) + Len(b) = Len(t)
    BY <1>1, <1>2, <1>3
  <2> QED
    BY <1>2, <2>1, <2>2
<1>5. ASSUME NEW j \in 1 .. Len(t)
      PROVE  t[j] = (a \o b)[j]
  <2>1. CASE j < i
    <3>1. j <= i - 1 /\ j \in 1 .. i - 1
      BY <1>1, <2>1
    <3> QED
      BY <1>2, <1>4, <2>1, <3>1
  <2>2. CASE ~(j < i)
    <3>1. /\ ~(j <= i - 1) /\ j - (i - 1) \in 1 .. Len(s) - i
          /\ i + (j - (i - 1)) = j + 1
      BY <1>1, <2>2
    <3> QED
      BY <1>3, <1>4, <2>2, <3>1
  <2> QED
    BY <2>1, <2>2
<1>6. t = a \o b
  BY <1>4, <1>5, SeqEqual
<1> QED
  BY <1>6 DEF a, b, List!RemoveAt

LEMMA IsInsertAt ==
  ASSUME NEW S, NEW s \in Seq(S), NEW v \in S, NEW t \in Seq(S), Len(t) = Len(s) + 1,
         NEW i \in 1 .. Len(s),
         \A j \in 1 .. i - 1 : t[j] = s[j], t[i] = v,
         \A j \in i + 1 .. Len(t) : t[j] = s[j - 1]
  PROVE  t = List!InsertAt(s, i, v)
<1> DEFINE a == SubSeq(s, 1, i - 1)
           b == SubSeq(s, i, Len(s))
           u == a \o <<v>>
<1>1. Len(s) \in Nat /\ \A j \in 1 .. Len(s) : s[j] \in S
  BY ElementOfSeq
<1>2. a \in Seq(S) /\ Len(a) = i - 1 /\ \A j \in 1 .. i - 1 : a[j] = s[j]
  BY <1>1, SubSeqProperties
<1>3. b \in Seq(S) /\ Len(b) = Len(s) - i + 1
      /\ \A j \in 1 .. Len(s) - i + 1 : b[j] = s[i + j - 1]
  BY <1>1, SubSeqProperties
<1> HIDE DEF a, b
<1>4. u = Append(a, v)
  BY <1>2, AppendIsConcat
<1> HIDE DEF u
<1>5. u \in Seq(S) /\ Len(u) = i /\ u[i] = v /\ \A j \in 1 .. i - 1 : u[j] = s[j]
  <2>1. /\ Append(a, v) \in Seq(S) /\ Len(Append(a, v)) = Len(a) + 1
        /\ \A j \in 1 .. Len(a) : Append(a, v)[j] = a[j]
        /\ Append(a, v)[Len(a) + 1] = v
    BY <1>2, AppendProperties
  <2>2. Len(a) + 1 = i
    BY <1>2
  <2> QED
    BY <1>2, <1>4, <2>1, <2>2
<1>6. /\ u \o b \in Seq(S) /\ Len(u \o b) = Len(t)
      /\ \A j \in 1 .. Len(t) : (u \o b)[j] = IF j <= i THEN u[j] ELSE b[j - i]
  <2>1. /\ u \o b \in Seq(S) /\ Len(u \o b) = Len(u) + Len(b)
        /\ \A j \in 1 .. Len(u) + Len(b) :
             (u \o b)[j] = IF j <= Len(u) THEN u[j] ELSE b[j - Len(u)]
    BY <1>3, <1>5, ConcatProperties
  <2>2. Len(u) + Len(b) = Len(t)
    BY <1>1, <1>3, <1>5
  <2> QED
    BY <1>5, <2>1, <2>2
<1>7. ASSUME NEW j \in 1 .. Len(t)
      PROVE  t[j] = (u \o b)[j]
  <2>1. CASE j < i
    <3>1. j <= i /\ j \in 1 .. i - 1
      BY <1>1, <2>1
    <3> QED
      BY <1>5, <1>6, <2>1, <3>1
  <2>2. CASE j = i
    <3>1. j <= i
      BY <1>1, <2>2
    <3> QED
      BY <1>5, <1>6, <2>2, <3>1
  <2>3. CASE i < j
    <3>1. /\ ~(j <= i) /\ j \in i + 1 .. Len(t)
          /\ j - i \in 1 .. Len(s) - i + 1 /\ i + (j - i) - 1 = j - 1
      BY <1>1, <2>3
    <3> QED
      BY <1>3, <1>6, <3>1
  <2>4. j < i \/ j = i \/ i < j
    BY <1>1
  <2> QED
    BY <2>1, <2>2, <2>3, <2>4
<1>8. t = u \o b
  BY <1>6, <1>7, SeqEqual
<1> QED
  BY <1>8 DEF a, b, u, List!InsertAt
-----------------------------------------------------------------------------
(* Every reachable state has the invariant.                                  *)
THEOREM VecCorrect == Spec => []VecInv
BY VecInit, VecNext, PTL DEF Spec

(* The vector's block is live and the only one, whatever was reallocated,    *)
(* refused or freed.                                                         *)
THEOREM VecOwnsItsBlock == Spec => []OwnsOneBlock
<1>1. VecInv => OwnsOneBlock
  BY DEF VecInv
<1> QED
  BY <1>1, VecCorrect, PTL

(* No element is ever uninitialised memory, though vec_erase moves one       *)
(* element too many.                                                         *)
THEOREM VecElementsInitialised == Spec => []ElementsInitialised
<1>1. VecInv => ElementsInitialised
  BY DEF VecInv
<1> QED
  BY <1>1, VecCorrect, PTL

(* The cached iterators stay in the block and within the elements.           *)
THEOREM VecIteratorsSafe == Spec => []IteratorsSafe
<1>1. VecInv => IteratorsSafe
  BY DEF VecInv
<1> QED
  BY <1>1, VecCorrect, PTL
(* Elements that fit in the capacity do not move: Spec satisfies the action  *)
(* property that vec_reserve is for.                                         *)
THEOREM VecNoMove == Spec => NoMoveWithinCapacity
<1>1. ASSUME [Next]_vars, alive, alive', len' <= cap, ret'.op # "reserve"
      PROVE  UNCHANGED block
  <2> USE <1>1
  <2>1. CASE UNCHANGED vars
    BY <2>1 DEF vars, block
  <2>2. CASE New \/ Free
    BY <2>2 DEF New, Free
  <2>3. CASE Clear \/ Begin \/ End \/ Back
    BY <2>3 DEF Clear, Begin, End, Back
  <2>4. ASSUME NEW op, NEW args, NEW n, Underflow(op, args) \/ Illegal(op, args, n) \/ Refused(op, args, n)
        PROVE  UNCHANGED block
    BY <2>4 DEF Underflow, Illegal, Refused
  <2>5. ASSUME NEW i, NEW v, Get(i) \/ Set(i, v) \/ Erase(i) \/ PopBack(i)
        PROVE  UNCHANGED block
    BY <2>5 DEF Get, Set, Erase, PopBack
  <2>6. ASSUME NEW n, Reserve(n)
        PROVE  FALSE
    BY <2>6 DEF Reserve, Answer
  <2>7. ASSUME NEW i, NEW v, PushBack(v) \/ Insert(i, v)
        PROVE  UNCHANGED block
    BY <2>7 DEF PushBack, Insert, ReserveOK, HasRoom
  <2> QED
    BY <2>1, <2>2, <2>3, <2>4, <2>5, <2>6, <2>7 DEF Next
<1>2. [Next]_vars => [alive /\ alive' /\ len' <= cap /\ ret'.op # "reserve" => UNCHANGED block]_vars
  BY <1>1
<1> QED
  BY <1>2, PTL DEF Spec, NoMoveWithinCapacity
-----------------------------------------------------------------------------
(* The vector implements the sequence of IceSeq: every action of it is the   *)
(* action of that name there, on Elements.                                   *)

LEMMA CellsAsSeq ==
  ASSUME NEW S, NEW n \in Nat, NEW b \in Nat, n <= b, NEW c \in [0 .. b - 1 -> S],
         NEW s, s = [j \in 1 .. n |-> c[j - 1]]
  PROVE  s \in Seq(S) /\ Len(s) = n /\ \A j \in 1 .. n : s[j] = c[j - 1]
<1>1. ASSUME NEW j \in 1 .. n
      PROVE  c[j - 1] \in S
  <2>1. j - 1 \in 0 .. b - 1
    OBVIOUS
  <2> QED
    BY <2>1
<1>2. s \in [1 .. n -> S]
  BY <1>1
<1>3. s \in Seq(S) /\ Len(s) = n
  BY <1>2
<1> QED
  BY <1>3

LEMMA ElementsFacts ==
  ASSUME VecInv
  PROVE  /\ Elements \in Seq(Memory) /\ Len(Elements) = len /\ len \in Nat
         /\ \A j \in 1 .. len : Elements[j] = cells[j - 1]
<1>1. /\ len \in Nat /\ cap \in Nat /\ len <= cap
      /\ cells \in [0 .. cap - 1 -> Memory]
  BY Typed
<1> QED
  BY <1>1, CellsAsSeq DEF Elements

(* The same in the next state, which has n elements.                         *)
LEMMA NextElements ==
  ASSUME NEW n \in Nat, len' = n, NEW b \in Nat, n <= b,
         NEW c \in [0 .. b - 1 -> Memory], cells' = c
  PROVE  /\ Elements' \in Seq(Memory) /\ Len(Elements') = n
         /\ \A j \in 1 .. n : Elements'[j] = c[j - 1]
<1>1. PICK s : s = [j \in 1 .. n |-> c[j - 1]]
  OBVIOUS
<1>2. s \in Seq(Memory) /\ Len(s) = n /\ \A j \in 1 .. n : s[j] = c[j - 1]
  BY <1>1, CellsAsSeq
<1>3. Elements' = s
  BY <1>1, Zenon DEF Elements
<1> QED
  BY <1>2, <1>3

LEMMA SameElements ==
  ASSUME VecInv, len' = len, NEW c, cells' = c, \A j \in 0 .. len - 1 : c[j] = cells[j]
  PROVE  Elements' = Elements
<1>1. len \in Nat
  BY Typed
<1>2. ASSUME NEW j \in 1 .. len
      PROVE  c[j - 1] = cells[j - 1]
  <2>1. j - 1 \in 0 .. len - 1
    BY <1>1
  <2> QED
    BY <2>1
<1>3. [j \in 1 .. len |-> c[j - 1]] = [j \in 1 .. len |-> cells[j - 1]]
  BY <1>2
<1>4. Elements' = [j \in 1 .. len |-> c[j - 1]]
  BY Zenon DEF Elements
<1> QED
  BY <1>3, <1>4 DEF Elements

LEMMA ReserveElements ==
  ASSUME VecInv, NEW n \in Nat, Reserve(n)
  PROVE  Elements' = Elements
<1>1. ReserveOK(n) /\ cells' = Copied(cap') /\ len' = len
  BY DEF Reserve
<1>2. PICK b \in Nat : b = cap' /\ cap <= b
  BY <1>1, ReservedCapacity
<1>3. \A j \in 0 .. len - 1 : Copied(b)[j] = cells[j]
  <2>1. cap <= b
    BY <1>2
  <2> QED
    BY <2>1, CopiedCells
<1>4. cells' = Copied(b)
  BY <1>1, <1>2
<1> QED
  BY <1>1, <1>3, <1>4, SameElements, Zenon

LEMMA PushBackElements ==
  ASSUME VecInv, NEW v \in Value, PushBack(v)
  PROVE  Elements' = Append(Elements, v)
<1>1. ReserveOK(len + 1) /\ len' = len + 1
  BY DEF PushBack
<1>2. len \in Nat /\ len + 1 \in Nat
  BY Typed
<1>3. PICK b \in Nat : b = cap' /\ len + 1 <= b
  BY <1>1, <1>2, ReservedCapacity
<1>4. PICK c : /\ c = cells' /\ c \in [0 .. b - 1 -> Memory]
               /\ \A j \in 0 .. len : c[j] = IF j < len THEN cells[j] ELSE v
  BY <1>3, PushedCells, Zenon
<1>5. PICK n \in Nat : n = len + 1
  BY <1>2
<1>6. /\ n = len + 1 /\ n <= b /\ c \in [0 .. b - 1 -> Memory]
      /\ \A j \in 0 .. len : c[j] = IF j < len THEN cells[j] ELSE v
  BY <1>3, <1>4, <1>5
<1>7. PICK t : t = Elements'
  OBVIOUS
<1>8. t \in Seq(Memory) /\ Len(t) = n /\ \A j \in 1 .. n : t[j] = c[j - 1]
  BY <1>1, <1>4, <1>5, <1>6, <1>7, NextElements, Zenon
<1>9. ASSUME NEW j \in 1 .. n
      PROVE  t[j] = IF j <= len THEN Elements[j] ELSE v
  <2>1. /\ j - 1 \in 0 .. len /\ (j - 1 < len <=> j <= len)
        /\ (j <= len => j \in 1 .. len)
    BY <1>2, <1>6
  <2> QED
    BY <1>6, <1>8, <2>1, ElementsFacts
<1>10. t = Append(Elements, v)
  <2>1. v \in Memory
    BY Constants
  <2> QED
    BY <1>6, <1>8, <1>9, <2>1, ElementsFacts, IsAppend
<1> QED
  BY <1>7, <1>10

LEMMA InsertElements ==
  ASSUME VecInv, NEW i \in Nat, NEW v \in Value, Insert(i, v)
  PROVE  Elements' = IF i < Len(Elements) THEN List!InsertAt(Elements, i + 1, v)
                                          ELSE Append(Elements, v)
<1>1. ReserveOK(len + 1) /\ len' = len + 1
  BY DEF Insert
<1>2. len \in Nat /\ len + 1 \in Nat /\ v \in Memory
  BY Typed, Constants
<1>3. PICK b \in Nat : b = cap' /\ len + 1 <= b
  BY <1>1, <1>2, ReservedCapacity
<1>4. PICK p : p = Place(i)
  OBVIOUS
<1>5. PICK c : /\ c = cells' /\ c \in [0 .. b - 1 -> Memory]
               /\ \A j \in 0 .. len :
                    c[j] = IF j < p THEN cells[j] ELSE IF j = p THEN v ELSE cells[j - 1]
  <2>1. /\ cells' \in [0 .. cap' - 1 -> Memory]
        /\ \A j \in 0 .. len :
             cells'[j] = IF j < p THEN cells[j] ELSE IF j = p THEN v ELSE cells[j - 1]
    BY <1>4, InsertCells
  <2> QED
    BY <1>3, <2>1, Zenon
<1>6. PICK n \in Nat : n = len + 1
  BY <1>2
<1>7. /\ n = len + 1 /\ n <= b /\ c \in [0 .. b - 1 -> Memory]
      /\ \A j \in 0 .. len :
           c[j] = IF j < p THEN cells[j] ELSE IF j = p THEN v ELSE cells[j - 1]
  BY <1>3, <1>5, <1>6
<1>8. PICK t : t = Elements'
  OBVIOUS
<1>9. t \in Seq(Memory) /\ Len(t) = n /\ \A j \in 1 .. n : t[j] = c[j - 1]
  BY <1>1, <1>5, <1>6, <1>7, <1>8, NextElements, Zenon
<1>10. CASE i < len
  <2>1. p = i /\ i + 1 \in 1 .. len
    BY <1>2, <1>4, <1>10 DEF Place
  <2>2. ASSUME NEW j \in 1 .. n
        PROVE  t[j] = IF j < i + 1 THEN Elements[j] ELSE IF j = i + 1 THEN v ELSE Elements[j - 1]
    <3>1. j - 1 \in 0 .. len /\ t[j] = c[j - 1]
      BY <1>2, <1>7, <1>9
    <3>2. CASE j < i + 1
      <4>1. j - 1 < p /\ j \in 1 .. len
        BY <1>2, <1>10, <2>1, <3>2
      <4> QED
        BY <1>7, <3>1, <3>2, <4>1, ElementsFacts
    <3>3. CASE j = i + 1
      <4>1. j - 1 = p /\ ~(j - 1 < p) /\ ~(j < i + 1)
        BY <2>1, <3>3
      <4> QED
        BY <1>7, <3>1, <3>3, <4>1
    <3>4. CASE i + 1 < j
      <4>1. j - 1 # p /\ ~(j - 1 < p) /\ ~(j < i + 1) /\ j # i + 1 /\ j - 1 \in 1 .. len
        BY <1>2, <1>7, <2>1, <3>4
      <4> QED
        BY <1>7, <3>1, <4>1, ElementsFacts
    <3> QED
      BY <3>2, <3>3, <3>4
  <2>3. t = List!InsertAt(Elements, i + 1, v)
    <3>1. PICK k : k = i + 1
      OBVIOUS
    <3>2. /\ k \in 1 .. Len(Elements) /\ Len(t) = Len(Elements) + 1
          /\ Elements \in Seq(Memory) /\ t \in Seq(Memory) /\ v \in Memory
      BY <1>2, <1>7, <1>9, <2>1, <3>1, ElementsFacts
    <3>3. \A j \in 1 .. k - 1 : t[j] = Elements[j]
      <4>1. \A j \in 1 .. k - 1 : j \in 1 .. n /\ j < i + 1
        BY <1>2, <1>7, <2>1, <3>1
      <4> QED
        BY <2>2, <4>1
    <3>4. t[k] = v
      <4>1. k \in 1 .. n /\ ~(k < i + 1)
        BY <1>2, <1>7, <2>1, <3>1
      <4> QED
        BY <2>2, <3>1, <4>1
    <3>5. \A j \in k + 1 .. Len(t) : t[j] = Elements[j - 1]
      <4>1. \A j \in k + 1 .. Len(t) : j \in 1 .. n /\ ~(j < i + 1) /\ j # i + 1
        BY <1>2, <1>7, <1>9, <2>1, <3>1
      <4> QED
        BY <2>2, <4>1
    <3>6. t = List!InsertAt(Elements, k, v)
      BY <3>2, <3>3, <3>4, <3>5, IsInsertAt
    <3> QED
      BY <3>1, <3>6
  <2> QED
    BY <1>8, <1>10, <2>3, ElementsFacts
<1>11. CASE ~(i < len)
  <2>1. p = len
    BY <1>4, <1>11 DEF Place
  <2>2. ASSUME NEW j \in 1 .. n
        PROVE  t[j] = IF j <= len THEN Elements[j] ELSE v
    <3>1. /\ j - 1 \in 0 .. len /\ (j - 1 < len <=> j <= len)
          /\ (~(j <= len) => j - 1 = len) /\ (j <= len => j \in 1 .. len)
      BY <1>2, <1>7
    <3> QED
      BY <1>7, <1>9, <2>1, <3>1, ElementsFacts
  <2>3. t = Append(Elements, v)
    BY <1>2, <1>7, <1>9, <2>2, ElementsFacts, IsAppend
  <2> QED
    BY <1>8, <1>11, <2>3, ElementsFacts
<1> QED
  BY <1>10, <1>11

LEMMA EraseElements ==
  ASSUME VecInv, NEW i \in Nat, Erase(i)
  PROVE  Elements' = List!RemoveAt(Elements, i + 1)
<1>1. i < len /\ len' = len - 1
  BY DEF Erase
<1>2. len \in Nat /\ cap \in Nat /\ len <= cap
  BY Typed
<1>3. PICK g \in Memory : cells' = ShiftedDown(i, g)
  BY DEF Erase, Memory
<1>4. PICK c : c = cells' /\ c = ShiftedDown(i, g)
  BY <1>3
<1>5. PICK n \in Nat : n = len - 1
  BY <1>1, <1>2
<1>6. i < len /\ n = len - 1 /\ n <= cap
  BY <1>1, <1>2, <1>5
<1>7. /\ c \in [0 .. cap - 1 -> Memory]
      /\ \A j \in 0 .. len - 2 : c[j] = IF j < i THEN cells[j] ELSE cells[j + 1]
  <2>1. i < len /\ c = ShiftedDown(i, g)
    BY <1>1, <1>4
  <2> QED
    BY <2>1, ErasedCells
<1>8. PICK t : t = Elements'
  OBVIOUS
<1>9. t \in Seq(Memory) /\ Len(t) = n /\ \A j \in 1 .. n : t[j] = c[j - 1]
  BY <1>1, <1>2, <1>4, <1>5, <1>6, <1>7, <1>8, NextElements, Zenon
<1>10. PICK k : k = i + 1
  OBVIOUS
<1>11. ASSUME NEW j \in 1 .. n
       PROVE  t[j] = IF j < k THEN Elements[j] ELSE Elements[j + 1]
  <2>1. /\ j - 1 \in 0 .. len - 2 /\ (j - 1 < i <=> j < k) /\ j \in 1 .. len
        /\ j + 1 \in 1 .. len /\ (j - 1) + 1 = j /\ (j + 1) - 1 = j
    BY <1>2, <1>6, <1>10
  <2>2. Elements[j] = cells[j - 1] /\ Elements[j + 1] = cells[j]
    BY <2>1, ElementsFacts
  <2> QED
    BY <1>7, <1>9, <2>1, <2>2
<1>12. /\ k \in 1 .. Len(Elements) /\ Len(t) = Len(Elements) - 1
       /\ Elements \in Seq(Memory)
  BY <1>2, <1>6, <1>9, <1>10, ElementsFacts
<1>13. t = List!RemoveAt(Elements, k)
  BY <1>9, <1>11, <1>12, IsRemoveAt
<1> QED
  BY <1>8, <1>10, <1>13

(* pop_back and clear take elements from the end and leave the other cells.  *)
LEMMA FewerElements ==
  ASSUME VecInv, NEW n \in Nat, n <= len, len' = n, cells' = cells
  PROVE  Elements' = SubSeq(Elements, 1, n)
<1>1. len \in Nat /\ cap \in Nat /\ len <= cap /\ cells \in [0 .. cap - 1 -> Memory]
  BY Typed
<1>2. PICK t : t = Elements'
  OBVIOUS
<1>3. n <= cap
  BY <1>1
<1>4. t \in Seq(Memory) /\ Len(t) = n /\ \A j \in 1 .. n : t[j] = cells[j - 1]
  BY <1>1, <1>2, <1>3, NextElements, Zenon
<1>5. /\ Elements \in Seq(Memory) /\ Len(Elements) = len
      /\ \A j \in 1 .. n : j \in 1 .. len /\ Elements[j] = cells[j - 1]
  BY <1>1, ElementsFacts
<1>6. \A j \in 1 .. n : Elements[j] \in Memory
  BY <1>5, ElementOfSeq
<1>7. /\ SubSeq(Elements, 1, n) \in Seq(Memory) /\ Len(SubSeq(Elements, 1, n)) = n
      /\ \A j \in 1 .. n : SubSeq(Elements, 1, n)[j] = Elements[j]
  BY <1>6, SubSeqProperties
<1>8. t = SubSeq(Elements, 1, n)
  BY <1>4, <1>5, <1>7, SeqEqual
<1> QED
  BY <1>2, <1>8

LEMMA SetElements ==
  ASSUME VecInv, NEW i \in Nat, NEW v \in Value, Set(i, v)
  PROVE  Elements' = List!ReplaceAt(Elements, i + 1, v)
<1>1. i < len /\ len' = len /\ cells' = [cells EXCEPT ![i] = v]
  BY DEF Set
<1>2. len \in Nat /\ cap \in Nat /\ len <= cap /\ v \in Memory
      /\ cells \in [0 .. cap - 1 -> Memory]
  BY Typed, Constants
<1>3. PICK c : c = cells' /\ c = [cells EXCEPT ![i] = v]
  BY <1>1
<1>4. i < len /\ c = [cells EXCEPT ![i] = v]
  BY <1>1, <1>3
<1>5. c \in [0 .. cap - 1 -> Memory]
  BY <1>2, <1>4
<1>6. PICK t : t = Elements'
  OBVIOUS
<1>7. t \in Seq(Memory) /\ Len(t) = len /\ \A j \in 1 .. len : t[j] = c[j - 1]
  BY <1>1, <1>2, <1>3, <1>5, <1>6, NextElements, Zenon
<1>8. PICK k : k = i + 1
  OBVIOUS
<1>9. /\ k \in 1 .. len /\ Elements \in Seq(Memory) /\ Len(Elements) = len
      /\ \A j \in 1 .. len : Elements[j] = cells[j - 1]
  BY <1>2, <1>4, <1>8, ElementsFacts
<1>10. ASSUME NEW j \in 1 .. len
       PROVE  t[j] = IF j = k THEN v ELSE Elements[j]
  <2>1. j - 1 \in 0 .. cap - 1 /\ (j - 1 = i <=> j = k)
    BY <1>2, <1>8
  <2> QED
    BY <1>2, <1>4, <1>7, <1>9, <2>1
<1>11. /\ [Elements EXCEPT ![k] = v] \in Seq(Memory)
       /\ Len([Elements EXCEPT ![k] = v]) = len
       /\ \A j \in 1 .. len : [Elements EXCEPT ![k] = v][j] = IF j = k THEN v ELSE Elements[j]
  BY <1>2, <1>9, ExceptSeq
<1>12. t = [Elements EXCEPT ![k] = v]
  BY <1>7, <1>10, <1>11, SeqEqual
<1> QED
  BY <1>6, <1>8, <1>12 DEF List!ReplaceAt

LEMMA SequenceStep ==
  ASSUME VecInv, [Next]_vars
  PROVE  [List!Next]_(List!vars)
<1> USE DEF Answer, List!Answer
<1>0. /\ Elements \in Seq(Memory) /\ Len(Elements) = len /\ len \in Nat
      /\ \A j \in 1 .. len : Elements[j] = cells[j - 1]
      /\ Index \subseteq Nat
  BY ElementsFacts, Constants
<1>1. len' = len /\ cells' = cells => Elements' = Elements
  BY DEF Elements
<1>2. Elements = <<>> <=> len = 0
  BY <1>0
<1>3. CASE UNCHANGED vars \/ New
  BY <1>1, <1>3 DEF vars, New, List!vars
<1>4. CASE Free
  <2>1. Elements' = <<>>
    <3>1. [j \in 1 .. 0 |-> NoCells[j - 1]] = <<>>
      OBVIOUS
    <3> QED
      BY <1>4, <3>1, Zenon DEF Free, Elements
  <2> QED
    BY <1>4, <2>1 DEF Free, NoAnswer, List!NoAnswer, List!Reset, List!Next
<1>5. CASE Clear
  <2>1. SubSeq(Elements, 1, 0) = <<>>
    BY SubSeqEmpty
  <2>2. len' = 0 /\ cells' = cells /\ ret' = Answer("clear", <<>>, "COL_OK", NoValue)
    BY <1>5 DEF Clear
  <2>3. Elements' = <<>>
    BY <1>0, <2>1, <2>2, FewerElements
  <2> QED
    BY <2>2, <2>3 DEF List!Clear, List!Next
<1>6. CASE Begin
  <2>1. CachedBegin.at = 0
    BY DEF CachedBegin, Pointer, VecInv, IteratorsSafe
  <2> QED
    BY <1>1, <1>6, <2>1 DEF Begin, List!Begin, List!Next
<1>7. CASE End
  <2>1. CachedEnd.at \in 0 .. Len(Elements)
    BY <1>0 DEF CachedEnd, Pointer, VecInv, IteratorsSafe, TypeOK
  <2> QED
    BY <1>1, <1>7, <2>1 DEF End, List!End, List!Next
<1>8. CASE Back \/ Underflow("back", <<>>)
  <2>1. CASE Back
    <3>1. Elements # <<>> /\ List!Last(Elements) = cells[len - 1]
      BY <1>0, <1>2, <2>1 DEF Back, List!Last
    <3> QED
      BY <1>1, <2>1, <3>1 DEF Back, List!Back, List!Next
  <2>2. CASE Underflow("back", <<>>)
    BY <1>1, <1>2, <2>2 DEF Underflow, List!Back, List!Next
  <2> QED
    BY <1>8, <2>1, <2>2
<1>9. ASSUME NEW n \in Index, Reserve(n) \/ Refused("reserve", <<n>>, n)
      PROVE  List!Next
  <2>1. CASE Reserve(n)
    <3>1. Elements' = Elements
      BY <1>0, <2>1, ReserveElements
    <3> QED
      BY <2>1, <3>1 DEF Reserve, List!Reserve, List!Next
  <2>2. CASE Refused("reserve", <<n>>, n)
    BY <1>1, <2>2 DEF Refused, List!Refused, List!Next
  <2> QED
    BY <1>9, <2>1, <2>2
<1>10. ASSUME NEW v \in Value, PushBack(v) \/ Refused("push_back", <<v>>, len + 1)
       PROVE  List!Next
  <2>1. CASE PushBack(v)
    <3>1. Elements' = Append(Elements, v)
      BY <2>1, PushBackElements
    <3> QED
      BY <2>1, <3>1 DEF PushBack, List!PushBack, List!Next
  <2>2. CASE Refused("push_back", <<v>>, len + 1)
    BY <1>1, <2>2 DEF Refused, List!Refused, List!Next
  <2> QED
    BY <1>10, <2>1, <2>2
<1>11. ASSUME NEW want \in BOOLEAN, PopBack(want) \/ Underflow("pop_back", <<want>>)
       PROVE  List!Next
  <2>1. CASE PopBack(want)
    <3>1. /\ len > 0 /\ len' = len - 1 /\ cells' = cells
          /\ ret' = Answer("pop_back", <<want>>, "COL_OK", IF want THEN cells[len - 1] ELSE NoValue)
      BY <2>1 DEF PopBack
    <3>2. PICK n \in Nat : n = len - 1 /\ n <= len /\ n = Len(Elements) - 1
      BY <1>0, <3>1
    <3>3. Elements' = List!Front(Elements)
      BY <3>1, <3>2, FewerElements, Zenon DEF List!Front
    <3>4. Elements # <<>> /\ List!Last(Elements) = cells[len - 1]
      BY <1>0, <1>2, <3>1 DEF List!Last
    <3> QED
      BY <3>1, <3>3, <3>4 DEF List!PopBack, List!Next
  <2>2. CASE Underflow("pop_back", <<want>>)
    BY <1>1, <1>2, <2>2 DEF Underflow, List!PopBack, List!Next
  <2> QED
    BY <1>11, <2>1, <2>2
<1>12. ASSUME NEW op, NEW args, NEW i \in Index, Illegal(op, args, i)
       PROVE  List!Illegal(op, i, args)
  BY <1>0, <1>1, <1>12 DEF Illegal, List!Illegal
<1>13. ASSUME NEW i \in Index,
              \/ Get(i) \/ Illegal("get", <<i>>, i)
              \/ Erase(i) \/ Illegal("erase", <<i>>, i)
       PROVE  List!Next
  <2>1. CASE Get(i)
    <3>1. i < len /\ Elements[i + 1] = cells[i]
      BY <1>0, <2>1 DEF Get
    <3> QED
      BY <1>0, <1>1, <2>1, <3>1 DEF Get, List!Get, List!Next
  <2>2. CASE Erase(i)
    <3>1. i < Len(Elements) /\ Elements' = List!RemoveAt(Elements, i + 1)
      BY <1>0, <2>2, EraseElements DEF Erase
    <3> QED
      BY <2>2, <3>1 DEF Erase, List!Erase, List!Next
  <2>3. CASE Illegal("get", <<i>>, i) \/ Illegal("erase", <<i>>, i)
    BY <1>12, <2>3 DEF List!Get, List!Erase, List!Next
  <2> QED
    BY <1>13, <2>1, <2>2, <2>3
<1>14. ASSUME NEW i \in Index, NEW v \in Value,
              \/ Insert(i, v) \/ Refused("insert", <<i, v>>, len + 1)
              \/ Set(i, v) \/ Illegal("set", <<i, v>>, i)
       PROVE  List!Next
  <2>1. CASE Insert(i, v)
    <3>1. Elements' = IF i < Len(Elements) THEN List!InsertAt(Elements, i + 1, v)
                                           ELSE Append(Elements, v)
      BY <1>0, <2>1, InsertElements
    <3> QED
      BY <2>1, <3>1 DEF Insert, List!Insert, List!Next
  <2>2. CASE Set(i, v)
    <3>1. i < Len(Elements) /\ Elements' = List!ReplaceAt(Elements, i + 1, v)
      BY <1>0, <2>2, SetElements DEF Set
    <3> QED
      BY <2>2, <3>1 DEF Set, List!Set, List!Next
  <2>3. CASE Refused("insert", <<i, v>>, len + 1)
    BY <1>1, <2>3 DEF Refused, List!Refused, List!Next
  <2>4. CASE Illegal("set", <<i, v>>, i)
    BY <1>12, <2>4 DEF List!Set, List!Next
  <2> QED
    BY <1>14, <2>1, <2>2, <2>3, <2>4
<1> QED
  BY <1>3, <1>4, <1>5, <1>6, <1>7, <1>8, <1>9, <1>10, <1>11, <1>13, <1>14 DEF Next

(* The vector is a sequence: push_back appends, insert and erase move the    *)
(* rest up and down, and what the calls return is what is in it.             *)
THEOREM VecRefinesSeq == Spec => RefinesSeq
<1>1. Init => List!Init
  <2>1. [j \in 1 .. 0 |-> NoCells[j - 1]] = <<>>
    OBVIOUS
  <2> QED
    BY <2>1, Zenon DEF Init, List!Init, Elements, NoAnswer, List!NoAnswer, Answer, List!Answer
<1> QED
  BY <1>1, SequenceStep, VecCorrect, PTL DEF Spec, RefinesSeq, List!Spec
=============================================================================
