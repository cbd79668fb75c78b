---------------------------- MODULE IceHashTable ----------------------------
(***************************************************************************)
(* The hash table of ice_hash_table_macros.h: open addressing with linear  *)
(* probing, a table kept at most half full, deletion that re-inserts the   *)
(* rest of the cluster (ht_fix_up), and doubling (ht_expand).              *)
(*                                                                         *)
(* One action stands for one call, except where the code loops over the    *)
(* table while it changes it: each iteration of the loops of ht_fix_up and *)
(* ht_expand is a step of its own, and so is each allocation of ht_new.    *)
(* The probing loops, which only read, are the relation ProbeEnds.  A      *)
(* probe that never ends has no successor; ProbesEnd says that no call     *)
(* meets one.                                                              *)
(***************************************************************************)
EXTENDS Integers, FiniteSets

CONSTANTS
  Key, NullKey,           \* keyType, and the nullKey an erased entry holds
  Value, NullValue,       \* valueType without nullValue, and nullValue
  fnHashCode,             \* the hash function the macro is instantiated with
  InitialCapacity,        \* HASHTABLE_INITIAL_CAPACITY
  MaxCapacity             \* bound: ice_zmalloc has no memory for a larger table

(* The initial capacity is a power of two (16), so hash & (capacity - 1) is  *)
(* hash % capacity.  nullKey may be an ordinary key: no entry is told apart  *)
(* by its key.  nullValue is not storable: ht_put takes it as a removal.     *)
ASSUME HashTableAssumption ==
  /\ \E n \in 1 .. 63 : InitialCapacity = 2 ^ n
  /\ InitialCapacity \in Nat /\ InitialCapacity >= 2
  /\ MaxCapacity \in Nat /\ MaxCapacity >= InitialCapacity
  /\ fnHashCode \in [Key -> Nat]
  /\ NullValue \notin Value

VARIABLES
  entries, capacity, length,  \* struct ht_T; entries[s] for s in 0 .. capacity-1
  pc,                         \* where the current call is
  index, next,                \* locals of ht_fix_up
  i, new_entries, arg,        \* locals of ht_expand and of the put that called it
  blocks,                     \* number of heap blocks the table holds
  ret                         \* the last call, and the result it handed to the caller

vars == <<entries, capacity, length, pc, index, next, i, new_entries, arg,
          blocks, ret>>

table   == <<entries, capacity, length>>
fixing  == <<index, next>>
growing == <<i, new_entries, arg>>
-----------------------------------------------------------------------------
(* Entries and slots.                                                        *)

HASHTABLE_INVALID_KEY == 0

Entry == [hash : Nat, key : Key \cup {NullKey}, value : Value \cup {NullValue}]

(* What erase leaves behind.  The zeroed entry of a new table differs in the *)
(* key and the value, which are never read while hash is 0.                  *)
EmptyEntry ==
  [hash |-> HASHTABLE_INVALID_KEY, key |-> NullKey, value |-> NullValue]

Slots(cap) == 0 .. cap - 1

Used(e, s) == e[s].hash # HASHTABLE_INVALID_KEY

EmptyTable(cap) == [s \in Slots(cap) |-> EmptyEntry]

NoTable == [s \in {} |-> EmptyEntry]

UsedSlots(e) == {s \in DOMAIN e : Used(e, s)}

(* What a table means to its caller: the value it stores with each key.      *)
Bindings(e) ==
  [k \in Key |->
     IF \E s \in UsedSlots(e) : e[s].key = k
     THEN e[CHOOSE s \in UsedSlots(e) : e[s].key = k].value
     ELSE NullValue]

Map == INSTANCE IceMap WITH map <- Bindings(entries)

NoArg == [key |-> NullKey, value |-> NullValue]

(* Mutant: the index advances by two.                                        *)
SuccSkips(s, cap) == (s + 2) % cap

(* index = hash & (capacity - 1) and index = (index + 1) & (capacity - 1).   *)
Home(hash, cap) == hash % cap
Succ(s, cap) == (s + 1) % cap

(* How many times a probe that starts at slot s advances to be at slot t.    *)
Dist(s, t, cap) == IF t >= s THEN t - s ELSE t + cap - s

(* Mutant: the loop does not compare keys, it runs to the first free slot.   *)
ProbeEndsFree(e, cap, hash, key, s) ==
  /\ ~Used(e, s)
  /\ \A t \in Slots(cap) :
       Dist(Home(hash, cap), t, cap) < Dist(Home(hash, cap), s, cap)
         => Used(e, t)

(* The probing loop: from the home slot, past the used slots that hold other *)
(* keys, to slot s, which holds key or is free.                              *)
ProbeEnds(e, cap, hash, key, s) ==
  /\ Used(e, s) => e[s].key = key
  /\ \A t \in Slots(cap) :
       Dist(Home(hash, cap), t, cap) < Dist(Home(hash, cap), s, cap)
         => Used(e, t) /\ e[t].key # key

(* Mutant: an update leaves the old value.                                   *)
SetEntryOnce(e, s, hash, key, value) ==
  IF Used(e, s) THEN e
  ELSE [e EXCEPT ![s] = [hash |-> hash, key |-> key, value |-> value]]

(* ht_set_entry: an entry of the same key keeps its hash, a free slot is     *)
(* given all three fields.                                                   *)
SetEntry(e, s, hash, key, value) ==
  [e EXCEPT ![s] = [hash |-> IF Used(e, s) THEN e[s].hash ELSE hash,
                    key |-> key, value |-> value]]

(* Mutant: pLength is incremented for an update too.                         *)
LengthAlwaysGrows(e, s) == length + 1

(* pLength is incremented for an insert only.                                *)
LengthAfterSet(e, s) == IF Used(e, s) THEN length ELSE length + 1
-----------------------------------------------------------------------------
Init ==
  /\ entries = NoTable /\ capacity = 0 /\ length = 0
  /\ pc = "unallocated"
  /\ index = 0 /\ next = 0
  /\ i = 0 /\ new_entries = NoTable /\ arg = NoArg
  /\ blocks = 0
  /\ ret = Map!NoAnswer

(* ht_new: the struct first, then the zeroed entries; without memory for the *)
(* entries the struct is freed again.                                        *)
New ==
  /\ pc = "unallocated"
  /\ pc' = "new" /\ blocks' = blocks + 1
  /\ UNCHANGED <<table, fixing, growing, ret>>

NewEntries ==
  /\ pc = "new"
  /\ entries' = EmptyTable(InitialCapacity)
  /\ capacity' = InitialCapacity /\ length' = 0
  /\ pc' = "idle" /\ blocks' = blocks + 1
  /\ UNCHANGED <<fixing, growing, ret>>

(* Mutant: the struct is not freed when there are no entries.                *)
NewFailsLeak ==
  /\ pc = "new"
  /\ pc' = "unallocated"
  /\ UNCHANGED <<table, fixing, growing, blocks, ret>>

NewFails ==
  /\ pc = "new"
  /\ pc' = "unallocated" /\ blocks' = blocks - 1
  /\ UNCHANGED <<table, fixing, growing, ret>>

(* ht_free gives back the entries and the struct.                            *)
Free ==
  /\ pc = "idle"
  /\ entries' = NoTable /\ capacity' = 0 /\ length' = 0
  /\ pc' = "unallocated" /\ blocks' = blocks - 2
  /\ ret' = Map!NoAnswer
  /\ UNCHANGED <<fixing, growing>>

(* IVK_ASSERT(hash != 0): the program stops.                                 *)
AssertFails(k) ==
  /\ fnHashCode[k] = HASHTABLE_INVALID_KEY
  /\ pc' = "aborted"

Get(k) ==
  /\ pc = "idle"
  /\ \/ /\ fnHashCode[k] # HASHTABLE_INVALID_KEY
        /\ \E s \in Slots(capacity) :
             /\ ProbeEnds(entries, capacity, fnHashCode[k], k, s)
             /\ ret' = Map!Answer("get", k, NullValue,
                                IF Used(entries, s) THEN entries[s].value
                                ELSE NullValue)
        /\ UNCHANGED pc
     \/ AssertFails(k) /\ UNCHANGED ret
  /\ UNCHANGED <<table, fixing, growing, blocks>>

(* ht_erase, called by the program (op = "erase") or by a put of nullValue:  *)
(* the entry is cleared, and what follows it is left to FixUpStep.           *)
EraseFound(op, k, s) ==
  /\ ProbeEnds(entries, capacity, fnHashCode[k], k, s)
  /\ Used(entries, s)
  /\ ret' = Map!Answer(op, k, NullValue, entries[s].value)
  /\ entries' = [entries EXCEPT ![s] = EmptyEntry]
  /\ length' = length - 1
  /\ index' = s /\ next' = Succ(s, capacity)
  /\ pc' = "fixup"
  /\ UNCHANGED <<capacity, growing, blocks>>

EraseMissing(op, k, s) ==
  /\ ProbeEnds(entries, capacity, fnHashCode[k], k, s)
  /\ ~Used(entries, s)
  /\ ret' = Map!Answer(op, k, NullValue, NullValue)
  /\ UNCHANGED <<table, pc, fixing, growing, blocks>>

EraseCall(op, k) ==
  /\ pc = "idle"
  /\ \/ /\ fnHashCode[k] # HASHTABLE_INVALID_KEY
        /\ \E s \in Slots(capacity) : EraseFound(op, k, s) \/ EraseMissing(op, k, s)
     \/ /\ AssertFails(k)
        /\ UNCHANGED <<table, fixing, growing, blocks, ret>>

Erase(k) == EraseCall("erase", k)

PutNull(k) == EraseCall("put", k)

(* The last part of ht_put: the hash is checked only here, after the table   *)
(* may have grown.  e and cap are the entries and the capacity from now on.  *)
PutEntry(e, cap, k, v) ==
  \/ /\ fnHashCode[k] # HASHTABLE_INVALID_KEY
     /\ \E s \in Slots(cap) :
          /\ ProbeEnds(e, cap, fnHashCode[k], k, s)
          /\ entries' = SetEntry(e, s, fnHashCode[k], k, v)
          /\ length' = LengthAfterSet(e, s)
          /\ ret' = Map!Answer("put", k, v,
                             IF Used(e, s) THEN e[s].value ELSE NullValue)
     /\ pc' = "idle"
  \/ /\ AssertFails(k)
     /\ entries' = e
     /\ UNCHANGED <<length, ret>>

(* Mutant: the table gets one entry more than half of it.                    *)
NeedsExpandLate == length > capacity \div 2

NeedsExpand == length >= capacity \div 2

PutInPlace(k, v) ==
  /\ pc = "idle" /\ ~NeedsExpand
  /\ PutEntry(entries, capacity, k, v)
  /\ UNCHANGED <<capacity, fixing, growing, blocks>>

(* ht_expand finds no memory: ht_put returns nullValue and nothing changes.  *)
PutRefused(k, v) ==
  /\ pc = "idle" /\ NeedsExpand
  /\ ret' = Map!Answer("put", k, v, NullValue)
  /\ UNCHANGED <<table, pc, fixing, growing, blocks>>

ExpandStart(k, v) ==
  /\ pc = "idle" /\ NeedsExpand
  /\ 2 * capacity <= MaxCapacity
  /\ new_entries' = EmptyTable(2 * capacity)
  /\ i' = 0 /\ arg' = [key |-> k, value |-> v]
  /\ pc' = "expand" /\ blocks' = blocks + 1
  /\ UNCHANGED <<table, fixing, ret>>

(* Mutant: an entry is copied to the slot it has in the old table.           *)
ExpandStepInPlace ==
  /\ pc = "expand" /\ i < capacity
  /\ i' = i + 1
  /\ new_entries' = [new_entries EXCEPT ![i] = entries[i]]
  /\ UNCHANGED <<table, pc, fixing, arg, blocks, ret>>

(* One iteration of the copying loop.  set_entry is given no pLength.        *)
ExpandStep ==
  /\ pc = "expand" /\ i < capacity
  /\ i' = i + 1
  /\ \/ ~Used(entries, i) /\ UNCHANGED new_entries
     \/ /\ Used(entries, i)
        /\ \E s \in Slots(2 * capacity) :
             /\ ProbeEnds(new_entries, 2 * capacity, entries[i].hash, entries[i].key, s)
             /\ new_entries' = SetEntry(new_entries, s, entries[i].hash,
                                        entries[i].key, entries[i].value)
  /\ UNCHANGED <<table, pc, fixing, arg, blocks, ret>>

(* The old entries are freed, the new ones take their place, and the put     *)
(* that wanted the room goes on.                                             *)
ExpandDone ==
  /\ pc = "expand" /\ i = capacity
  /\ capacity' = 2 * capacity
  /\ PutEntry(new_entries, 2 * capacity, arg.key, arg.value)
  /\ i' = 0 /\ new_entries' = NoTable /\ arg' = NoArg
  /\ blocks' = blocks - 1
  /\ UNCHANGED fixing

(* Mutant: next is not advanced.                                             *)
FixUpStuck ==
  LET e == entries[next]
      cleared == [entries EXCEPT ![next] = EmptyEntry]
  IN /\ pc = "fixup" /\ Used(entries, next)
     /\ \E s \in Slots(capacity) :
          /\ ProbeEnds(cleared, capacity, e.hash, e.key, s)
          /\ entries' = SetEntry(cleared, s, e.hash, e.key, e.value)
     /\ UNCHANGED <<capacity, length, pc, index, next, growing, blocks, ret>>

(* One iteration of ht_fix_up: the entry at next is taken out and set again, *)
(* in the first slot its probe finds free.                                   *)
FixUpStep ==
  LET e == entries[next]
      cleared == [entries EXCEPT ![next] = EmptyEntry]
  IN /\ pc = "fixup" /\ Used(entries, next)
     /\ \E s \in Slots(capacity) :
          /\ ProbeEnds(cleared, capacity, e.hash, e.key, s)
          /\ entries' = SetEntry(cleared, s, e.hash, e.key, e.value)
     /\ next' = Succ(next, capacity)
     /\ UNCHANGED <<capacity, length, pc, index, growing, blocks, ret>>

(* Mutant: the fix-up stops before the end of the cluster.                   *)
FixUpStops ==
  /\ pc = "fixup"
  /\ pc' = "idle" /\ index' = 0 /\ next' = 0
  /\ UNCHANGED <<table, growing, blocks, ret>>

(* ... until next is a free slot; ht_erase then returns.                     *)
FixUpDone ==
  /\ pc = "fixup" /\ ~Used(entries, next)
  /\ pc' = "idle" /\ index' = 0 /\ next' = 0
  /\ UNCHANGED <<table, growing, blocks, ret>>

(* The process is gone.                                                      *)
Aborted == pc = "aborted" /\ UNCHANGED vars

(* The steps a call takes by itself once it has begun.                       *)
Internal ==
  NewEntries \/ NewFails \/ ExpandStep \/ ExpandDone \/ FixUpStep \/ FixUpDone

Next ==
  \/ New \/ Free \/ Internal \/ Aborted
  \/ \E k \in Key : Get(k) \/ Erase(k) \/ PutNull(k)
  \/ \E k \in Key, v \in Value :
       PutInPlace(k, v) \/ PutRefused(k, v) \/ ExpandStart(k, v)

(* A thread that is inside a call keeps running it; nothing makes the        *)
(* program call.                                                             *)
Spec == Init /\ [][Next]_vars /\ WF_vars(Internal)
-----------------------------------------------------------------------------
(* Properties.                                                               *)

InCall == {"new", "expand", "fixup"}

(* The type of the state: the table spans its capacity, and the locals have  *)
(* values inside their loops.  That length and blocks stay counts, although  *)
(* they are decremented unchecked, is LengthExact and BlocksBalanced.        *)
TypeOK ==
  /\ capacity \in 0 .. MaxCapacity /\ length \in Int
  /\ entries \in [Slots(capacity) -> Entry]
  /\ pc \in {"unallocated", "idle", "aborted"} \cup InCall
  /\ pc \in {"unallocated", "new"} => capacity = 0
  /\ pc \in {"idle", "expand", "fixup"} => capacity >= 2
  /\ index \in Nat /\ next \in Nat
  /\ pc = "fixup" => index \in Slots(capacity) /\ next \in Slots(capacity)
  /\ i \in Nat
  /\ new_entries \in [Slots(IF pc = "expand" THEN 2 * capacity ELSE 0) -> Entry]
  /\ pc = "expand" => i <= capacity /\ 2 * capacity <= MaxCapacity
  /\ arg \in [key : Key \cup {NullKey}, value : Value \cup {NullValue}]
  /\ pc = "expand" => arg.key \in Key /\ arg.value \in Value
  /\ blocks \in Int

(* The probe path of the entry in slot s has no free slot before s.          *)
PathUsed(e, cap, s) ==
  \A t \in Slots(cap) :
    Dist(Home(e[s].hash, cap), t, cap) < Dist(Home(e[s].hash, cap), s, cap)
      => Used(e, t)

Reachable(e, cap) == \A s \in UsedSlots(e) : PathUsed(e, cap, s)

(* Linear probing finds what is stored: between calls, and while ht_expand   *)
(* reads the table, no free slot lies between an entry's home and the entry, *)
(* whatever was erased before (ht_fix_up) and however often the table was    *)
(* doubled (ht_expand).                                                      *)
ChainsIntact == pc \in {"idle", "expand"} => Reachable(entries, capacity)

(* An entry keeps the hash of its own key wherever it is moved: ht_fix_up    *)
(* and ht_expand do not compute it again.                                    *)
HashesKeptIn(e) ==
  \A s \in UsedSlots(e) : e[s].key \in Key /\ e[s].hash = fnHashCode[e[s].key]

HashesKept == HashesKeptIn(entries) /\ HashesKeptIn(new_entries)

(* No key is stored twice, not even between the iterations of the loops.     *)
KeysUniqueIn(e) ==
  \A s, t \in UsedSlots(e) : e[s].key = e[t].key => s = t

KeysUnique == KeysUniqueIn(entries) /\ KeysUniqueIn(new_entries)

(* length, which ht_put, ht_erase and ht_fix_up each handle in their own way *)
(* (set_entry is told to count or not to), is the number of used slots.      *)
LengthExact == length = Cardinality(UsedSlots(entries))

(* The table never gets more than half full: the check of ht_put comes       *)
(* before the insert, and a refused ht_expand inserts nothing.               *)
LoadBound == 2 * length <= capacity

(* Every probe of the next call comes to an end: no loop of _get, _put or    *)
(* _erase runs round the table for ever.                                     *)
ProbesEnd ==
  pc = "idle" =>
    \A k \in Key : \E s \in Slots(capacity) :
      ProbeEnds(entries, capacity, fnHashCode[k], k, s)

(* Nothing leaks: a table holds its struct and its entries, and the second   *)
(* entries only while ht_expand copies; what fails gives back what it took.  *)
BlocksBalanced ==
  pc # "aborted" =>
    blocks = CASE pc = "unallocated" -> 0
               [] pc = "new" -> 1
               [] pc = "expand" -> 3
               [] OTHER -> 2

(* While ht_expand copies, the new table holds the entries below i and no    *)
(* others, each where probing finds it.                                      *)
CopyExact ==
  pc = "expand" =>
    /\ Reachable(new_entries, 2 * capacity)
    /\ {new_entries[s] : s \in UsedSlots(new_entries)}
         = {entries[s] : s \in UsedSlots(entries) \cap 0 .. i - 1}
    /\ Cardinality(UsedSlots(new_entries))
         = Cardinality(UsedSlots(entries) \cap 0 .. i - 1)

(* Slots from the erased one up to, but without, next: ht_fix_up is done     *)
(* with them.                                                                *)
Fixed(s) == Dist(index, s, capacity) < Dist(index, next, capacity)

(* Why ht_fix_up is right.  The entries it is done with can be found; the    *)
(* others can be found but for the slots it is done with; and a free slot    *)
(* ahead will stop it before it comes round to where it began.               *)
FixUpInv ==
  pc = "fixup" =>
    /\ index # next
    /\ \A s \in UsedSlots(entries) :
         IF Fixed(s) THEN PathUsed(entries, capacity, s)
         ELSE \A t \in Slots(capacity) :
                Dist(Home(entries[s].hash, capacity), t, capacity)
                  < Dist(Home(entries[s].hash, capacity), s, capacity)
                => Used(entries, t) \/ Fixed(t)
    /\ \E s \in Slots(capacity) : ~Used(entries, s) /\ ~Fixed(s)

(* The table is a map: slots, clusters and doubling do not show.             *)
RefinesMap == Map!Spec

(* Every call returns: the loops of ht_fix_up and ht_expand come to an end.  *)
OpsReturn == (pc \in InCall) ~> (pc \notin InCall)
=============================================================================
