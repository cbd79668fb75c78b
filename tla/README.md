# iew_c_essentials in TLA+

A verification project for iew_c_essentials, a small C library of containers
(typed vectors, buffers and hash tables made by macros), the memory allocators
below them, and helpers for strings, hashes and bits. Source paths are relative
to the repository's root (`src/` here).

The library starts no threads and has no locks. What makes it hard is of
another kind: allocations that fail half-way through an operation, state that is
cached and must be reset by every operation that moves memory, loops that change
the table they walk over, long sequences of legal calls, and numbers at the edge
of their width. The models are built around these.

## 1. Inventory

### Typed hash tables: `ice_hash_table_macros.h`

*State*: a heap struct `{entries, capacity, length}`; `entries` is a heap block
of `capacity` entries `{hash, key, value}`, `hash = 0` marks a free one.
*Operations*: `_new`, `_free`, `_get`, `_put`, `_erase`, `_length`, `_each`;
static helpers `_set_entry`, `_expand`, `_fix_up`.
*Interactions*: `_put` of `nullValue` is `_erase`; `_put` calls `_expand` when
the table is half full; `_erase` calls `_fix_up`, and both helpers re-insert
through `_set_entry`, with and without the counter; `_each` calls the program back. Hash and null values come from
the instantiation; memory from `ice_zmalloc` and `ice_free`.
*Hard*: open addressing with linear probing and deletion without tombstones;
clusters that wrap past the last slot; doubling; `_each`, whose callback may change
the table under the loop; an allocation that fails between the check and the insert; loops whose only bound is that the table has a free slot;
an assertion that comes after the table has grown.
*Correct when*: it is a partial map from keys to values; each stored entry is
found by the probe from its home; no key twice; `length` counts; never more than
half full, so each call returns; nothing leaks.

### Typed vectors: `vec_macros.h`, instances `vec_*.h`/`.c`

*State*: `{len, cap, data, begin, end}`; `begin` and `end` cache the iterators.
*Operations*: `_new`, `_free`, `_reserve`, `_push_back`, `_insert`, `_back`,
`_pop_back`, `_get`, `_set`, `_erase`, `_clear`, `_len`, `_begin`, `_end`, `_each`,
`_each_reverse`, `_search`.
*Interactions*: growing calls go through `_reserve`, that through
`ice_aligned_realloc`; `_each`, `_each_reverse` and `_search` call the program
back with the vector itself.
*Hard*: stale cached iterators; memmoves; failing growth; callbacks that change
the vector under the loop; `SIZE_MAX` where an index is decremented.
*Correct when*: it is a sequence; its one block is live; no element is
uninitialised; iterators never dangle; elements do not move while they fit.

### Typed buffers: `buf_macros.h`

*State*: `{lim, cap, align, alignedSize, data}`. *Operations*: `_new`, `_free`,
`_reserve`, `_back`, `_emplace_back`, `_get`, `_memset`, `_lim`, `_set_lim`,
`_clear`, `_empty`, `_data`, `_each`, `_each_reverse`, `_search`.
*Interactions*: hands out *pointers* to entries, of an alignment chosen at run
time; memory as for vectors.
*Hard*: pointers that outlive a growing call; entries exposed by `_set_lim` that
nobody wrote; a byte size that wraps; an iteration in reverse of nothing.
*Correct when*: `lim <= cap`; entries are apart, aligned and inside the block;
what was written to an entry is kept when the buffer grows.

### Aligned heap blocks: `icemalloc.h`, `icemalloc.c`

*State*: the C library's heap, and 16 bits in front of each block with the
distance to what `malloc` returned. *Operations*: `ice_aligned_malloc`, `_zmalloc`,
`_realloc`, `_free` (and `ice_aligned_realloc_pessimistic`, never called).
*Hard*: the distance does not fit 16 bits for large alignments; the header must
leave room for the worst rounding; realloc has six ways out, each of which must
free exactly the right block.
*Correct when*: `free` gets what `malloc` returned; blocks are aligned, apart and
inside what was malloc'ed; nothing leaks.

### Stack allocator: `icemalloc.h`, `icemalloc.c`

*State*: `{offset, size, buf}` at the start of one aligned heap block, the arena
behind it. *Operations*: `ice_stack_malloc_new`, `ice_stack_malloc`,
`ice_stack_zmalloc`, `ice_stack_malloc_free`.
*Hard*: the arena begins on the field `buf` itself, so callers overwrite it; the
check of the remaining room is an unsigned subtraction.
*Correct when*: blocks are apart, aligned and in the arena; too large a request
is refused.

### UTF-8 strings: `icestring.h`, `icestring.c`

*State*: none of the library's own; each string is a heap block its caller keeps.
*Operations*: `str_of`, `str_nbof`, `str_of_empty`, `str_free`, `str_append`,
`str_substring`; `str_len`, `str_size`, `str_index_rune`, `str_index_string`.
*Interactions*: memory as for vectors; `utf8.h`, fetched by the build, walks over
codepoints.
*Hard*: positions are given in codepoints and kept in bytes; the byte for the final 0;
`str_append` frees a block between measuring and copying.
*Correct when*: in codepoints each call does what its name says; every block ends with
a 0 that is inside of it; nothing leaks.

### The others

* *FNV hashes* (`icehash.h`, `icehash.c`): no state; unrolled loops over 1, 4 and 8
  bytes, chained by the caller from field to field. Correct when equal to the fold of
  the FNV step over the bytes, losing no bit of them. They give 0, the hash the tables
  refuse, for some keys.
* *Bit helpers* (`ice_bits.h`): no state; logarithm, leading and trailing zeros, a loop
  whose body is the caller's. Correct when the loop visits each set bit once and the
  helpers agree on where bits are.
* *Aligned arrays* (`icealignedarray.h`): a block of the aligned allocator, of a length
  fixed at compile time; `_new`, `_free`, `_len`, `_get`, `_back`, `_each` and
  `_each_reverse`. Correct when elements are aligned, apart and in the block, though
  `_new` and `_get` compute their distance each for itself.
* *Logging* (`icelogging.c`), *Build*: see section 12.

## 2. Plan

| module | what it is |
|---|---|
| `IceMap`, `IceHashTable` | abstract map; the table |
| `IceHashEach`, `IceHashTableProofs` | the table with `_each` running over it; proofs about both |
| `IceSeq`, `IceVec`, `IceVecProofs` | abstract sequence; the vector; its proofs |
| `IceEntries`, `IceBuf`, `IceBufProofs` | what a buffer promises; the buffer in bytes; its proofs |
| `IceMalloc`, `IceMallocProofs` | aligned blocks; proofs |
| `IceStackAllocator`, `IceStackAllocatorProofs` | arena; proofs |
| `IceEach`, `IceEachProofs` | `_each`, `_each_reverse`, `_search` of vectors, buffers and arrays, with callbacks that change them; proofs |
| `IceText`, `IceString`, `IceStringProofs` | abstract texts; the strings in bytes and blocks; proofs |
| `IceWords`, `IceBits`, `IceHash` | shifts, `&` and `^` on words; the bit helpers; the hashes |
| `IceArray` | the addresses of array elements |
| `IceHelpersProofs` | proofs about the helpers, the arrays and the hashes |

All of the plan is carried out. `IceHashEach` composes: it EXTENDS `IceHashTable` and takes
the table's own actions as what a callback does. `MCHelpers` runs `IceBits`, `IceHash` and
`IceArray`, one at a time.

Compositions: the containers use what `IceMalloc` promises (a new block apart from
all live ones, or NULL and no change), not its internals; the promise is what
`BlocksApart`, `EveryBlockOwned` and `NothingLeaks` say and `MallocCorrect` proves.

## 3. Hash table

`IceHashTable` (a table) and `IceMap` (what it promises). A step is a call, but
for the calls that change the table in a loop; there `pc` says where the call is:

| `pc` | meaning | code |
|---|---|---|
| `unallocated` | no table | |
| `new` | inside `ht_new`, the struct allocated, the entries not | 78-101 |
| `idle` | between calls | |
| `fixup` | in the loop of `ht_fix_up`, called from `ht_erase` | 154-175 |
| `expand` | in the loop of `ht_expand`, called from `ht_put` | 199-227 |
| `aborted` | `IVK_ASSERT` has stopped the program | |

`index` and `next` are the locals of `ht_fix_up`; `i`, `new_entries` those of
`ht_expand`; `arg` what the `ht_put` in progress goes on with. The probing loops do not
change anything, so they are one relation, `ProbeEnds(e, cap, hash, key, s)`: the
probe from the home slot passes used slots of other keys only and stops at `s`. A
probe that would run for ever has no such `s`; the call would have no step, and
`ProbesEnd` excludes it. `& (capacity - 1)` is `% capacity`, the capacity being a
power of two by assumption and by doubling. The overflow check of `ht_expand`
(lines 201-204) is subsumed by `MaxCapacity`, the capacity beyond which there is
no memory; `PutRefused` may happen at any growth.

**Run `hash_table`** (47 220 states). Capacities 2, 4 and 8; five keys. Two share
the last slot of every table as their home, so their cluster wraps; one lives in
the wrapped part; one leaves the cluster when the table doubles; one has the
forbidden hash 0. `nullKey` is an ordinary key, as in instances with integer keys.
This covers every shape a cluster at load 1/2 takes: empty, wrapping, merged from
two homes, split by doubling.

* `ChainsIntact`, `CopyExact`, `FixUpInv`: probing finds what is stored, before,
  after and inside the loops of `ht_fix_up` and `ht_expand`.
* `KeysUnique`, `LengthExact`: no key twice, `length` exact at each step of each loop.
* `LoadBound`: never over half full, so each probe has an end.
* `BlocksBalanced`: nothing leaks and nothing is freed twice.
* `RefinesMap`: slots do not show. Each call, refused ones included, does what
  the map does with these arguments (`ret` keeps them), and gives its result; the
  steps of the loops are stutters.
* `OpsReturn`: each call returns (liveness).

*Fairness*: `WF_vars(Internal)`, on the steps a call takes by itself once begun.
The thread inside a call is not blocked by anything in the library, so it goes on.
There is none on the calls: nothing makes the program call.

**Proved** (`IceHashTableProofs`; for every set of keys and values, hash function,
initial power-of-two capacity and `MaxCapacity`). `TableCorrect` is
`Spec => []TableInv`; every invariant of the run follows from it, and so do the type invariant, that each entry
is under its own hash (`HashesKept`) and that every probe ends (`ProbesEnd`) (`TypeCorrect`,
`ChainsStayIntact`, `KeysStayUnique`, `HashesAreKept`, `LengthCounts`, `LoadStaysBounded`, `CopyIsExact`,
`FixUpIsRight`, `ProbesAlwaysEnd`, `BlocksStayBalanced`). `TableIsAMap` is
`Spec => RefinesMap`: the table is a map, each step of it a step of the map or a stutter.

The argument. `ChainsIntact` alone is not inductive: after the erased slot is cleared
the entries behind it cannot all be found. `FixUpInv` says what is true instead: the
entries `ht_fix_up` is done with can be found; the others can be found if one
ignores the gaps in the part it is done with; and there is a free slot ahead that stops
it. When it stops, the free slot at `next` shields everything beyond it, and
`ChainsIntact` is back. That a free slot exists at all follows from `LengthExact` and
`LoadBound` by counting, hence these are in the invariant. For `ht_expand`,
`CopyExact` ties the new table to the part of the old one already copied. With
the table in order, `Bindings` reads one value per key, and each action maps to its
abstract one; a probe ends where it does by choosing a free slot of least
distance (well-founded induction on distances, by a library theorem without an
operator parameter).

### `ht_each`

`IceHashEach` adds the loop of `ht_each` to the table: `each` is `none`, `test` (at the loop's
condition) or `called` (in the callback), `at` the index, `given` the copy of the entry the callback was
called with. In the callback every call of the table may happen, `ht_new` and `ht_free` aside,
with all the steps of `ht_fix_up` and `ht_expand`, so that `capacity`, `entries` and every slot
can be others when it returns. `visits` and `stayed` are history: how often each key was called for,
and which keys have had one and the same slot since the loop began.

**Run `hash_each`** (87 659 states): four keys, two of which have the last slot of every
table as their home, so that one of them wraps to a slot the loop has passed, while the third
moves when the table doubles, and the fourth has the forbidden hash; capacities 2, 4 and 8, one value, one error, failing allocations.

* `EachOnce`: a key that keeps its slot is visited at most once, and exactly once by a loop
  that returns `COL_OK`. "Keeps its slot" is needed for both halves: a callback that makes the table grow has keys
  visited again, and one that erases lets `ht_fix_up` move keys to slots already passed, and
  they are bound and never visited. A callback that reads, or updates, moves nothing.
* `EachGivesBindings` (action property): each call is for a key that is bound then, with its value.
* `EachEnds` (liveness): the loop ends, though callbacks may double the capacity it runs to.

*Fairness*: the steps a call takes by itself and the steps of the loop are weakly fair, as above. A
callback that returns is strongly fair (`SF_eachVars(CallbackReturns)`): it can return whenever it is between two calls
of the table, which it is again and again, and a callback that made calls for ever would not
be one of a loop that ends.

**Proved** (also in `IceHashTableProofs`; for every table and callback): `EachVisitsOnce` and `CallbacksGetBindings` from
`HashEachCorrect`, `EachSpec => []EachInv`. `EachInv` has `TypeOK` and `TableInv`, whose proofs are about the table's actions and so hold
for those of a callback, and says where the visits are: a key that stayed has been visited once if its slot
is below `at`, or at `at` with the callback running, and never otherwise. `WalkedTableIsAMap`: the table walked over is still a map.

## 4. Vector

`IceVec` (the vector in memory) and `IceSeq` (the sequence it promises). One action
a call; `_reserve` is `ReserveOK` within those that call it, and `Refused` where it
fails. A pointer is a block and an offset into it; `cells` is the whole block,
with `Garbage` for memory nobody wrote. `ice_aligned_realloc` always moves when it
grows: line 80 of `icemalloc.c` returns the same block for a smaller size only, and
`_reserve` only grows. `ShiftedDown` takes the element behind the block as any value,
as the memmove of `_erase` moves one element more than there is (line 195).

**Run `vec`** (135 806 states). Two element values, capacities 0, 2, 3 and 5, two
blocks (the old and the new of a realloc); indexes first, second, last but one of a
full vector and past the end, which as sizes to reserve are none, fits, grows and
is refused. Enough for two reallocations with elements to move, memmoves of up to four,
and the memmove of `_erase` from a full block.

* `OwnsOneBlock`: the block is live and the only one, after refusals too.
* `ElementsInitialised`: no garbage below `len`, despite the memmove above.
* `IteratorsSafe`: a cached iterator never dangles or passes the end.
* `NoMoveWithinCapacity` (action property): elements that fit stay where they are.
* `RefinesSeq`: each call does to the sequence what it should, refusals nothing.

**Run `vec_end`** is violated and is a finding: `vec_end` should be one past the last
element (the test of the iterators has `end - begin == length`), but
`_push_back` and `_insert` leave a cached `end` where it was unless they reallocate.
`push, end, push, end` gives 1 for two elements. So `IceSeq` promises of `_end`
only that it is not past the last element.

**Proved** (`IceVecProofs`; for every set of values, blocks and indexes and every
amount of memory): `VecOwnsItsBlock`, `VecElementsInitialised`, `VecIteratorsSafe`
and `VecNoMove` from `VecCorrect`, `Spec => []VecInv`. `VecInv` is the
conjunction of the type invariant, the run's invariants and one more, `NoVector`: a vector that has not been
made is all zeros, so that `_new` starts empty. The parts need each other: that a
cached end is inside the block uses that `len` is, and that there is a block
whenever there is an element. `VecRefinesSeq` is `Spec => RefinesSeq`: what the
memmoves leave in the cells (`InsertedCells`, `ErasedCells`) is, read as a sequence,
what `InsertAt` and `RemoveAt` give (`IsInsertAt`, `IsRemoveAt`), element by element.

## 5. Buffer

`IceBuf` (the buffer in memory) and `IceEntries` (what it promises). Memory is
*bytes*: `mem` is the content of the one block, an entry has `SizeofType` bytes
and starts at a multiple of `alignedSize`, and every byte size is taken modulo
2^`SizeBits`, as `size_t` has it. `held` is a pointer a caller got from `_get`, `_back`
or `_emplace_back` and keeps; `Write` is the caller filling the entry it leads to. The
caller is bound by one rule: it gives its pointer up when it asks for more entries
than there is room for (`StillHeld`), and only then; it may go on using one whose entry
`_set_lim` or `_clear` has put out of use. The assertion of `ice_aligned_malloc` on
the alignment stops the program. `StaysPut`, and the free in `Refused`, are the ways of
`ice_aligned_realloc` for a size that is no larger, and for 0; only a size that
wraps leads there.

**Run `buf`** (72 714 states). Entries of 3 bytes, at distances of 3 (alignment 1) and 4
(alignment 4, a byte of padding); alignments 0 and 3 are refused and asserted.
Memory for 20 bytes: the capacity goes 0, 2, 5 entry by entry, or 0, 5 at once. One
byte value and `garbage` tell a written entry from an unwritten one; an entry written
with the wrong stride or copied in part is a mixture of both, which no entry of
`IceEntries` is. Size 40 is too large for an object; at 5 entries memory ends.

* `OwnsOneBlock`: the block is live and the only one, after refusals too.
* `EntriesInBlock`: entries are aligned, apart and inside the block.
* `PointerGood`: the caller's pointer leads to an entry of the live block.
* `RefinesEntries`: entries keep what is written to them, whether the limit is above or
  below them at the time, through growth and refusals; a pointer leads to the entry it
  was given out for.

The instance, like the proofs, stays clear of sizes that wrap. `_reserve` checks the new
capacity against `SIZE_MAX / sizeof(type)` but allocates `alignedSize` bytes for each entry
(lines 117 and 122), so between the two limits the product wraps, `_reserve` returns `COL_OK` with a
small block, and `_get` gives pointers behind it. With `SizeBits` 6, 17 entries of 4
bytes make 68, that is 4 bytes; with 64 bits, 12 bytes aligned to 64 wrap from 2^58
entries on. Past the limit `_get` returns `COL_ERR_OVERFLOW`, as its test wants; its comment (line
51) announces `COL_ERR_UNDERFLOW`.

**Proved** (`IceBufProofs`; for every type, alignment and width): `BufOwnsItsBlock`,
`PointersStayGood` and `EntriesLieInBlock`, from `BufCorrect`, `Spec => []BufInv`. The
hypothesis `SizesFit` says that the sizes callers reserve, once grown, fit a
`size_t` in bytes or are refused, and that memory is so small that half as much again
fits one, too; it is needed, as the example above shows. The invariant adds `NoWrap`: the
capacity in bytes, as an integer, is no more than memory has, so that it is what
`Bytes` computes. `EntriesInBlock` follows from it.

`BufRefinesEntries` proves the refinement under the same hypothesis. What must be added to
`BufInv` is that the caller's pointer is the address of an entry (`HeldEntry`), so that dividing
its distance by `alignedSize` gives that entry back, and that nothing was returned without a
buffer (`NoneReturned`), so that `_new`, which sets the divisor, is a stutter. The entries are slices
of the block: slices of different entries are apart even with their padding (`EntriesApart`), so a
write changes one entry (`WrittenContents`), and growing copies the bytes below `Bytes(cap)`, in
which all the old slices lie (`GrownContents`).

## 6. Aligned heap blocks

`IceMalloc`: `heap` is what `malloc` has given out, `blocks` what callers hold.
Addresses and sizes are numbers of `AddressBits`, the stored distance is cut to
`OffsetBits`; contents are left out. `malloc` may return any free, `MallocAlign`-aligned
address, or NULL. The assertion on the alignment stops the program (`aborted`).

**Run `malloc`** (22 186 states): addresses of 5 bits, distances of 4,
alignments 0, 1, 3 (asserted), 4, 8 around malloc's own 4, sizes 0, 1 and 6: two blocks
fit at a time, in every relative position, with every distance the rounding gives.
`EveryBlockOwned` (free finds the block, the caller's bytes and the
distance lie in it), `NothingLeaks`, `BlocksApart`.

**Proved** (`IceMallocProofs`): `MallocCorrect` is `Spec => []MallocInv` with
all the invariants of the run, and `Aligned`, that blocks have the alignment asked for (`FreeFindsItsBlock`, `NothingIsLost`, `BlocksStayApart`),
under two hypotheses: `MallocAssumption`, that callers stay clear of `SIZE_MAX`, so
`size + hdr_size` does not wrap, and `OffsetsFit`, that alignments fit the 16
bits. The second is needed: the distance to a pointer aligned to 65 536 can be 65 536, 0 is
stored for it, and `ice_aligned_free` gives `free` an address it never returned; all
the code asks of an alignment is that it be a power of 2. The invariant adds to the run's
that no two live blocks of the C library overlap and that a caller's block has
exactly one of them, which is why freeing one never takes another's away.

## 7. Stack allocator

`IceStackAllocator`: the three fields, and the blocks handed out, with their
pointer and the offset they were cut at. The struct is 24 bytes and the arena
starts 16 into it (`icemalloc.h:86`), so the first 8 bytes of the first block
*are* the field `buf`. Writes are therefore in the model: `ice_stack_zmalloc`
clears what it hands out, and `Fill` is a caller filling a block. What `buf` then
holds is any of `Junk`, the values of interest; a write outside of the heap block
ends in `undefined`.

**Run `stack`** (136 198 states): arenas of 0, 8 and 24 bytes, requests of 0, 1, 9 and
the largest size there is, which rounds up to 0 and is granted with no room at
all. `PartsApart`: offsets stay aligned and the parts apart, whatever was asked for and
written. `PointersInArena`: as long as `buf` is intact, so are the pointers.
**Run `stack_buf`** (violated, finding): the tests of the allocator compare each
pointer with `alloc->buf` plus its offset, but after an `ice_stack_zmalloc` of the first
block `buf` is 0.

**Proved** (`IceStackAllocatorProofs`): `ArenaInOrder` and `PointersLeadIntoArena`, from
`StackInv`, the run's invariants, the types and that no blocks exist without an allocator.
`StackAssumption`: the size given to `_new` does not wrap, and no caller happens to
write the arena's own address over `buf`. The sizes of requests are not restricted.

## 8. Iteration

`IceEach` is the loops that call back. A callback is the caller's code: while it runs it
may change the container any number of times (`CallbackChanges`), then it returns, with an error
or without. So a loop is not one action; `pc` is `test` at the loop's condition,
`called` while a callback of the loop runs, `last` in the extra call of `_each_reverse` for index 0,
`idle` otherwise. The container is a sequence, `seq`, which is what `IceVec` and `IceBuf`
are proved or checked to be; `kind` says which changes there are (`VecChange`, `BufChange`, and for an array writes only)
and on which side of the error `_search` looks at the match. `visits` is history: for each call
the index, the length at that moment, whether the predicate wants the element, and the error.

**Run `each`** (45 503 states). Up to 3 elements of two values, one wanted; a `size_t`
of 2 bits, so that an index can be past every element, and wraps. Every change of length is possible under every loop at every call.

* `ForwardInRange`: `_each` and `_search` never pass an index without an element.
* `EachVisitsAll`: an `_each` without error has called for every index there is at its
  end, pushed ones included, in order.
* `ReverseVisitsAll`: `_each_reverse` has called for what there was at its start, last to first.
* `ErrorEndsLoop`: no call after an error, and that error is returned.
* `SearchFindsFirst`: the first match, or the length.
* `LoopEnds` (liveness): each loop ends.

*Fairness*: `WF_vars(Loop)`: the thread in the loop goes on, and a callback, being asked to
do something for one element, returns. There is none on what callbacks change: that they need not.

**Run `each_reverse_empty`** is violated and is a finding: `_each_reverse` of an empty
vector starts at `SIZE_MAX`. The comment there explains the extra call "for the first element"
and overlooks that there may be none.

**Proved** (`IceEachProofs`; for containers and a `size_t` of any size, whatever callbacks do): every
invariant of the run, from `EachCorrect`, `Spec => []EachInv` (`ForwardStaysInRange`, `EachIsComplete`,
`ReverseIsComplete`, `FirstErrorEnds`, `SearchIsFirst`). `EachInv` adds where a loop is after so many calls: the index of a forward loop
is the number of calls returned (`ForwardPlace`); that of a reverse loop, if there was an
element at its start, and the number of calls add up to the length at the start (`ReversePlace`), which is why
the extra call for 0 is the last one missing; and a search has gone on only from elements that did not match (`SearchPlace`). Callbacks
disturb none of it: it is about `visits`, and `seq` is looked at again only by the test of the loop.

## 9. Strings

`IceString` (bytes in blocks) and `IceText` (sequences of codepoints). A caller keeps each string
in a variable; `mem` is the live blocks, with the size asked for and the bytes written.
`Walk(s)` is the loop over codepoints that `str_codepoint_byte_pos`, `str_index_string` and
`utf8len` have in common: at which byte it is after `n` rounds, each an `Advance`; `Length(s)` is the round in which it ends, and
`Chars(s, n)` are the bytes between two rounds. `str_rune_to_chars` is translated with
divisions for its shifts and ranges for its masks. Of `utf8.h` there is `Step` (how far to the next codepoint), `Codepoint`
and `CString` (up to the first 0), modelled from their use. Callers keep two rules: `str_nbof` does not
cut a codepoint (the header counts bytes and does not say what becomes of one that is cut), and no string is
appended to itself (`str_append` frees the old block before it copies from `s`; the header says that `s`
"can be safely used after str_append", and not that `s` must be another string).

**Run `string`** (2234 states, up to the names of variables and blocks). Two variables, literals of one
and two bytes a codepoint, two of which begin with the same byte, and the empty one; blocks of up to 5 bytes,
so that what was appended is appended again and cut. Positions and sizes before, in, at
and past the end, in either order. Searched for are also the first and last codepoint of each length in bytes.

* `BlocksOwned`: each block is one variable's, and no variable holds a freed one, after refusals either.
* `WellFormed`: what is in a block is UTF-8, and its 0 is inside.
* `QuestionsInCodepoints`: lengths and searches are what they would be in codepoints.
* `RefinesText`: so are the strings made, cut and appended, with the arguments of each call.

**Proved** (`IceStringProofs`; for any variables, literals, codepoints of Unicode, positions, blocks and memory, and strings of
any length): the three invariants and the refinement, `BlocksStayOwned`, `StringsStayWellFormed`, `QuestionsStayInCodepoints`
and `StringRefinesText`, from `StringCorrect`, `Spec => []StringInv`. `WellFormed` is not inductive by itself: `str_append` joins what `CString` finds
in two blocks, which is right only if there is nothing behind the 0 that counts. `StringInv` says instead that each block is exactly
the bytes of whole codepoints with a 0 behind them, and has `BlocksOwned` to know which block goes when one is moved.

The argument. `Spells(s, q, t)` says that the bytes `s` are those of the codepoints `t`, the one at index `n` beginning at `q[n]`; the
rest of the module is about it. One codepoint first: `str_rune_to_chars` and `utf8codepoint` are inverse, and the leading byte
tells the length (`RuneLength`, `RuneDecoded`, by the four lengths). Then strings: the loop is at `q[n]` after `n` rounds (`WalkSpelled`), so it counts, decodes and
measures what is spelled; whatever is UTF-8 spells something (`Spelling`); what is cut at codepoints and what is joined spells what it should (`CutSpelled`,
`JoinSpelled`); and bytes are a prefix if and only if codepoints are (`PrefixSpelled`: two codepoints that begin with
the same bytes have the same length and so are the same), which is why searching bytes from codepoint to codepoint finds codepoints. With
these each call is one step of `IceText`. The inductions over the length are made by hand, from a least counterexample (`LeastNumber`, by the library's
theorems on well-founded relations that have no operator parameter), and that the recursive `Walk` exists at all is
`Recursion`.

## 10. Helpers

`IceWords` has what C does with the bits of a word of any width, as recursive functions: shifts to the right, and `&` and `^` as the word
whose bits are those of the set. `IceBits` is the loop of `ForEachBitPos_uint32`, step by step because its body is the caller's, and the
three functions as operators: leading zeros as the builtin counts them, trailing zeros by the shifts of the
code. Words have `WordBits` bits and `Negated` is the unsigned `-w`. The body ends or breaks out; a `continue` in it
would skip the removal of the bit, and the loop would not end.

`IceHash` is the hashes: `fnv_byte1`, `fnv_byte4` and `fnv_byte8` are the unrolled loops, the others hash the bytes a number has in
memory (`InMemory`), two's complement and the representation of a float included. 32a and 64a are one model with another width and
prime; a step is a caller hashing one more field of a structure, whose bytes `hashed` keeps as they are in memory.

`IceArray` is the block of an array and the pointers `_get` and `_back` compute. For a length of 0, `_new` returns `NULL` (the aligned
allocator refuses 0 bytes) and `_back` asks `_get` for `SIZE_MAX`, which is refused.

**Run `helpers`** (5628 states): all words of 6 bits; fields of 1, 4 and 8 bytes in structures of up to 10 bytes (`MaxBytes`, one field of
8 bytes and more, or two of 4), numbers at the ends of their ranges, bytes of 3 bits, hashes of 5 and 7; an array of 3 elements of 3 bytes
aligned to 4. The helpers have no state that outlives a call, so small widths lose nothing but the constants, and the proofs are for every
width and every odd prime. Deadlock is not checked: a structure has `MaxBytes` bytes.

* `EachBitOnce`: the body runs for the set bits in ascending order, each once, and the helpers agree with the first and the last.
* `HashIsFold`: field by field and unrolled is what the fnv library's loop over the bytes gives.
* `OneByteApart`: structures that differ in a single byte have different hashes.
* `ElementsApart`: array elements are aligned, apart and inside the block.

**Proved** (`IceHelpersProofs`), each for every value of the constants:

* `BitsVisitedOnce`: `EachBitOnce` for every width. `BitsInv` says that the positions are the bits before the `Rest`, the bits still to come.
  That `w & -w` is the lowest bit (`LowestBit`) is by induction on the shifts of `w` and `-w`: up to the lowest bit of `w` they add up to a
  power of two, and behind it to one less, so that no further bit is set in both. The number of leading zeros counts the powers of two
  above the word (`Logarithm`), the trailing zeros its factors two (`TrailingFactors`).
* `HashAlwaysFold`: the hash is that of the loop over the bytes. The invariant says that `h` is the last of the hashes of the beginnings of
  `hashed`; `ReachedAppend` is one byte, `ReachedByte4` and `ReachedByte8` the unrolled functions.
* `BytesStayApart`: one step of the hash is injective in the byte and in the hash (`StepKeeps`), since `^` loses nothing (`XorKeeps`) and
  nor does the product with an odd number modulo a power of two (`OddProductKeeps`); so two hashes that part never meet again while the
  bytes are the same. That the primes are odd and that a hash is no narrower than a byte is assumed of the constants, and true of both hashes.
* `ArrayElementsApart`, for every type, length and power-of-two alignment: what is rounded up is a multiple of the alignment, no less than
  the type, so multiples of it by an index are apart and end in the block.

What a shift, a word or a hash is in each place is a recursive function; `Recursion` shows once that there are such functions, from the
least number of a set.

## 11. What is proved and what is only checked

Proved for all values of the constants: all safety of the hash table, with its
refinement of the map; all safety of the vector, with its refinement of the sequence; all
invariants of the buffer (where sizes do not wrap), with its refinement of the entries; all
safety of the strings, with their refinement of the texts; all invariants of the heap blocks (where distances fit), of the stack allocator, of the loops with callbacks, `ht_each` included, and of the helpers: bits, hashes and arrays.
The type invariants are parts of what is proved, so no run repeats them.
Only model-checked: `OpsReturn`, `LoopEnds` and `EachEnds` (liveness under fairness is out of the prover's
reach, as is `ENABLED`); and the runs
that end in a violation, which are counterexamples. No RECURSIVE operator occurs in a module that has theorems, and nothing
is proved by an induction principle with an operator parameter: recursion is by recursive functions, and induction by least numbers.

Assumptions on constants are named (`HashTableAssumption`, `VecAssumption`,
`BufAssumption`, `MallocAssumption`, `StackAssumption`, `EachAssumption`, `HashEachAssumption`, `StringAssumption`, `LiteralAssumption`,
`BitsAssumption`, `HashAssumption`, `ArrayAssumption`); TLC evaluates each for the run's values. `LiteralAssumption` is that sources are saved as UTF-8; `StringAssumption` has codepoints in `Unicode`,
the 17 planes that four bytes of UTF-8 are for, without 0.

## 12. Not modelled

* A callback of `ht_each` that frees the table, or walks over it itself (which reads only).
* `vec_reserve` with sizes near 2^64 / 1.5, where the conversion from `double`
  is undefined: no text of the repository says what should happen.
* `ice_aligned_realloc_pessimistic`: nothing calls it.
* A realloc in place keeps the alignment the block has, even if the caller asks
  for more; `Aligned` is about the call that placed the block.
* The vector instances: a line of macro each.
* Logging writes to stderr and keeps no state. The build matters in one way only:
  `CMakeLists.txt:6` sets `ENABLE_DEBUG`, so `IVK_ASSERT` is on, and the models stop
  where it fails.
* `utf8.h` and the C library are not in the repository. Of the latter `malloc`
  and `free` appear, as `Fits` and `Released`; of the former three functions, in `IceString`.

## 13. Running

    tlc -config MCHashTable.cfg MCHashTable        # likewise the other cfgs
    tlapm IceHashTableProofs.tla                   # likewise the other proofs

`PROJECT.json` lists the components, the runs with their properties, the mutant
that shows each property can fail, the lines each definition stands for, the
hazards, the findings and the theorems.
