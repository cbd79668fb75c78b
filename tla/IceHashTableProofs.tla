-------------------------- MODULE IceHashTableProofs --------------------------
(***************************************************************************)
(* What holds of the hash table for every set of keys, every hash function *)
(* and every capacity, and of ht_each for every table and every callback.  *)
(***************************************************************************)
EXTENDS IceHashEach, FiniteSetTheorems, WellFoundedInduction, TLAPS

(* The home of a hash, and the slot after a slot, lie in the table.          *)
LEMMA HomeIsSlot ==
  ASSUME NEW cap \in Nat, cap >= 2, NEW hash \in Nat
  PROVE  Home(hash, cap) \in Slots(cap)
BY DEF Home, Slots

LEMMA SuccIsNext ==
  ASSUME NEW cap \in Nat, cap >= 2, NEW s \in Slots(cap)
  PROVE  /\ Succ(s, cap) \in Slots(cap)
         /\ Succ(s, cap) = IF s = cap - 1 THEN 0 ELSE s + 1
BY DEF Succ, Slots

LEMMA EmptyTableType ==
  ASSUME NEW cap \in Nat
  PROVE  EmptyTable(cap) \in [Slots(cap) -> Entry]
BY HashTableAssumption DEF EmptyTable, Entry, EmptyEntry, HASHTABLE_INVALID_KEY

LEMMA SetEntryType ==
  ASSUME NEW cap, NEW e \in [Slots(cap) -> Entry], NEW s \in Slots(cap),
         NEW hash \in Nat, NEW key \in Key \cup {NullKey},
         NEW value \in Value \cup {NullValue}
  PROVE  SetEntry(e, s, hash, key, value) \in [Slots(cap) -> Entry]
BY DEF SetEntry, Entry
-----------------------------------------------------------------------------
(* Type correctness.                                                         *)

(* What ht_put leaves when it sets the entry in a table of capacity cap.     *)
LEMMA PutEntryType ==
  ASSUME NEW cap \in Nat, NEW e \in [Slots(cap) -> Entry],
         NEW k \in Key, NEW v \in Value, length \in Int,
         PutEntry(e, cap, k, v)
  PROVE  /\ entries' \in [Slots(cap) -> Entry]
         /\ length' \in Int
         /\ pc' \in {"idle", "aborted"}
<1> fnHashCode[k] \in Nat
  BY HashTableAssumption
<1>1. CASE \E s \in Slots(cap) :
             /\ entries' = SetEntry(e, s, fnHashCode[k], k, v)
             /\ length' = LengthAfterSet(e, s)
             /\ pc' = "idle"
  BY <1>1, SetEntryType DEF LengthAfterSet
<1>2. CASE pc' = "aborted" /\ entries' = e /\ length' = length
  BY <1>2
<1> QED
  BY <1>1, <1>2 DEF PutEntry, AssertFails

LEMMA TypeInit == Init => TypeOK
BY HashTableAssumption
   DEF Init, TypeOK, NoTable, NoArg, Slots, InCall

LEMMA TypeNext == TypeOK /\ [Next]_vars => TypeOK'
<1> SUFFICES ASSUME TypeOK, [Next]_vars PROVE TypeOK'
  OBVIOUS
<1> USE DEF TypeOK, InCall
<1>1. CASE New
  BY <1>1 DEF New, table, fixing, growing
<1>2. CASE NewEntries
  BY <1>2, EmptyTableType, HashTableAssumption DEF NewEntries, fixing, growing
<1>3. CASE NewFails
  BY <1>3 DEF NewFails, table, fixing, growing
<1>4. CASE Free
  BY <1>4 DEF Free, fixing, growing, NoTable, Slots
<1>5. CASE ExpandStep
  <2>1. CASE ~Used(entries, i) /\ UNCHANGED new_entries
    BY <1>5, <2>1 DEF ExpandStep, table, fixing
  <2>2. ASSUME NEW s \in Slots(2 * capacity),
               new_entries' = SetEntry(new_entries, s, entries[i].hash,
                                       entries[i].key, entries[i].value)
        PROVE  TypeOK'
    <3>1. entries[i] \in Entry
      BY <1>5 DEF ExpandStep, Slots
    <3>2. new_entries' \in [Slots(2 * capacity) -> Entry]
      BY <1>5, <2>2, <3>1, SetEntryType DEF ExpandStep, Entry
    <3> QED
      BY <1>5, <3>2 DEF ExpandStep, table, fixing
  <2> QED
    BY <1>5, <2>1, <2>2 DEF ExpandStep
<1>6. CASE ExpandDone
  <2>1. /\ entries' \in [Slots(2 * capacity) -> Entry]
        /\ length' \in Int
        /\ pc' \in {"idle", "aborted"}
    BY <1>6, PutEntryType DEF ExpandDone
  <2> QED
    BY <1>6, <2>1, HashTableAssumption
       DEF ExpandDone, fixing, NoTable, NoArg, Slots
<1>7. CASE FixUpStep
  <2> DEFINE e == entries[next]
             cleared == [entries EXCEPT ![next] = EmptyEntry]
  <2>1. e \in Entry /\ cleared \in [Slots(capacity) -> Entry]
    BY <1>7, HashTableAssumption
       DEF FixUpStep, Entry, EmptyEntry, HASHTABLE_INVALID_KEY
  <2>2. entries' \in [Slots(capacity) -> Entry]
    <3>1. PICK s \in Slots(capacity) :
            entries' = SetEntry(cleared, s, e.hash, e.key, e.value)
      BY <1>7 DEF FixUpStep
    <3>2. /\ e.hash \in Nat /\ e.key \in Key \cup {NullKey}
          /\ e.value \in Value \cup {NullValue}
      BY <2>1 DEF Entry
    <3> HIDE DEF e, cleared
    <3> QED
      BY <2>1, <3>1, <3>2, SetEntryType
  <2>3. Succ(next, capacity) \in Slots(capacity) /\ capacity \in Nat
    BY <1>7, SuccIsNext DEF FixUpStep
  <2> QED
    BY <1>7, <2>2, <2>3 DEF FixUpStep, growing, Slots
<1>8. CASE FixUpDone
  BY <1>8 DEF FixUpDone, table, growing
<1>9. CASE Aborted
  BY <1>9 DEF Aborted, vars
<1>10. ASSUME NEW k \in Key, Get(k)
       PROVE  TypeOK'
  BY <1>10 DEF Get, AssertFails, table, fixing, growing
<1>11. ASSUME NEW op, NEW k \in Key, EraseCall(op, k)
       PROVE  TypeOK'
  <2>0. pc = "idle"
    BY <1>11 DEF EraseCall
  <2>1. ASSUME NEW s \in Slots(capacity), EraseFound(op, k, s)
        PROVE  TypeOK'
    <3>1. Succ(s, capacity) \in Slots(capacity) /\ s \in Nat
      BY <2>0, SuccIsNext DEF Slots
    <3>2. entries' \in [Slots(capacity) -> Entry]
      BY <2>1, HashTableAssumption
         DEF EraseFound, Entry, EmptyEntry, HASHTABLE_INVALID_KEY
    <3> QED
      BY <2>0, <2>1, <3>1, <3>2 DEF EraseFound, growing, Slots
  <2>2. CASE \E s \in Slots(capacity) : EraseMissing(op, k, s)
    BY <2>2 DEF EraseMissing, table, fixing, growing
  <2>3. CASE AssertFails(k) /\ UNCHANGED <<table, fixing, growing, blocks, ret>>
    BY <2>0, <2>3 DEF AssertFails, table, fixing, growing
  <2> QED
    BY <1>11, <2>1, <2>2, <2>3 DEF EraseCall
<1>12. ASSUME NEW k \in Key, NEW v \in Value, PutInPlace(k, v)
       PROVE  TypeOK'
  <2>1. /\ entries' \in [Slots(capacity) -> Entry]
        /\ length' \in Int
        /\ pc' \in {"idle", "aborted"}
    BY <1>12, PutEntryType DEF PutInPlace
  <2> QED
    BY <1>12, <2>1 DEF PutInPlace, fixing, growing
<1>13. ASSUME NEW k \in Key, NEW v \in Value, PutRefused(k, v)
       PROVE  TypeOK'
  BY <1>13 DEF PutRefused, table, fixing, growing
<1>14. ASSUME NEW k \in Key, NEW v \in Value, ExpandStart(k, v)
       PROVE  TypeOK'
  BY <1>14, EmptyTableType DEF ExpandStart, table, fixing
<1>15. CASE UNCHANGED vars
  BY <1>15 DEF vars
<1> QED
  BY <1>1, <1>2, <1>3, <1>4, <1>5, <1>6, <1>7, <1>8, <1>9, <1>10, <1>11,
     <1>12, <1>13, <1>14, <1>15
     DEF Next, Internal, Erase, PutNull

(* Whatever the program calls and whatever allocation fails, the table, its  *)
(* capacity and the locals of the loops keep their types.                    *)
THEOREM TypeCorrect == Spec => []TypeOK
BY TypeInit, TypeNext, PTL DEF Spec
-----------------------------------------------------------------------------
(* Setting one entry.                                                        *)

Bound(hash, key, value) == [hash |-> hash, key |-> key, value |-> value]

(* A probe meets each slot once, so it meets them in one order.              *)
LEMMA ProbeOrder ==
  ASSUME NEW cap \in Nat, NEW h \in Slots(cap),
         NEW s \in Slots(cap), NEW t \in Slots(cap)
  PROVE  Dist(h, s, cap) < Dist(h, t, cap) \/ Dist(h, t, cap) < Dist(h, s, cap) \/ s = t
BY DEF Dist, Slots

(* set_entry changes slot s only, and s is used afterwards.                  *)
LEMMA SetEntryShape ==
  ASSUME NEW cap \in Nat, NEW e \in [Slots(cap) -> Entry], NEW s \in Slots(cap),
         NEW hash \in Nat \ {0}, NEW key, NEW value,
         Used(e, s) => e[s].hash = hash,
         NEW f, f = SetEntry(e, s, hash, key, value)
  PROVE  /\ DOMAIN f = Slots(cap)
         /\ f[s] = Bound(hash, key, value)
         /\ \A t \in Slots(cap) : t # s => f[t] = e[t]
         /\ \A t \in Slots(cap) : Used(f, t) <=> Used(e, t) \/ t = s
         /\ UsedSlots(e) \subseteq Slots(cap)
         /\ UsedSlots(f) = UsedSlots(e) \cup {s}
BY DEF SetEntry, Bound, Used, UsedSlots, HASHTABLE_INVALID_KEY, Entry

(* In a table in which probing works, a probe that ends at a free slot shows *)
(* that the key is not stored: whatever holds the key is where it ends.      *)
LEMMA ProbeFindsKey ==
  ASSUME NEW cap \in Nat, cap >= 2, NEW e \in [Slots(cap) -> Entry],
         HashesKeptIn(e), KeysUniqueIn(e), Reachable(e, cap),
         NEW k \in Key, NEW s \in Slots(cap),
         ProbeEnds(e, cap, fnHashCode[k], k, s),
         NEW t \in UsedSlots(e), e[t].key = k
  PROVE  t = s
<1> DEFINE h == Home(fnHashCode[k], cap)
<1>1. h \in Slots(cap) /\ t \in Slots(cap) /\ Used(e, t)
  BY HomeIsSlot, HashTableAssumption DEF UsedSlots
<1>2. ~(Dist(h, t, cap) < Dist(h, s, cap))
  BY <1>1 DEF ProbeEnds
<1>3. ~(Dist(h, s, cap) < Dist(h, t, cap))
  <2>1. SUFFICES ASSUME Dist(h, s, cap) < Dist(h, t, cap) PROVE FALSE
    OBVIOUS
  <2>2. Used(e, s)
    BY <2>1, <1>1 DEF Reachable, PathUsed, HashesKeptIn
  <2>3. s \in UsedSlots(e) /\ e[s].key = k
    BY <2>2 DEF UsedSlots, ProbeEnds
  <2>4. s = t
    BY <2>3 DEF KeysUniqueIn
  <2> QED
    BY <1>1, <2>1, <2>4 DEF Dist, Slots
<1> QED
  BY <1>1, <1>2, <1>3, ProbeOrder

(* ... and then setting the entry there keeps the table one in which keys    *)
(* are unique and keep their hashes,                                         *)
LEMMA SetEntryKeepsKeys ==
  ASSUME NEW cap \in Nat, NEW e \in [Slots(cap) -> Entry],
         HashesKeptIn(e), KeysUniqueIn(e),
         NEW k \in Key, fnHashCode[k] # 0, NEW value, NEW s \in Slots(cap),
         \A t \in UsedSlots(e) : e[t].key = k => t = s,
         Used(e, s) => e[s].key = k,
         NEW f, f = SetEntry(e, s, fnHashCode[k], k, value)
  PROVE  HashesKeptIn(f) /\ KeysUniqueIn(f)
<1>1. fnHashCode[k] \in Nat \ {0}
  BY HashTableAssumption
<1>2. Used(e, s) => e[s].hash = fnHashCode[k]
  BY DEF HashesKeptIn, UsedSlots
<1>3. /\ f[s] = Bound(fnHashCode[k], k, value)
      /\ \A t \in Slots(cap) : t # s => f[t] = e[t]
      /\ UsedSlots(e) \subseteq Slots(cap)
      /\ UsedSlots(f) = UsedSlots(e) \cup {s}
  BY <1>1, <1>2, SetEntryShape
<1>4. HashesKeptIn(f)
  BY <1>3 DEF HashesKeptIn, Bound
<1>5. ASSUME NEW t \in UsedSlots(f), NEW u \in UsedSlots(f), f[t].key = f[u].key
      PROVE  t = u
  BY <1>3, <1>5 DEF KeysUniqueIn, Bound
<1> QED
  BY <1>4, <1>5 DEF KeysUniqueIn

(* and in which probing works.                                               *)
LEMMA SetEntryKeepsPaths ==
  ASSUME NEW cap \in Nat, NEW e \in [Slots(cap) -> Entry],
         HashesKeptIn(e), Reachable(e, cap),
         NEW k \in Key, fnHashCode[k] # 0, NEW value, NEW s \in Slots(cap),
         ProbeEnds(e, cap, fnHashCode[k], k, s),
         NEW f, f = SetEntry(e, s, fnHashCode[k], k, value)
  PROVE  Reachable(f, cap)
<1>1. fnHashCode[k] \in Nat \ {0}
  BY HashTableAssumption
<1>2. Used(e, s) => e[s].hash = fnHashCode[k]
  BY DEF HashesKeptIn, UsedSlots, ProbeEnds
<1>3. /\ f[s] = Bound(fnHashCode[k], k, value)
      /\ \A t \in Slots(cap) : t # s => f[t] = e[t]
      /\ \A t \in Slots(cap) : Used(f, t) <=> Used(e, t) \/ t = s
      /\ UsedSlots(e) \subseteq Slots(cap)
      /\ UsedSlots(f) = UsedSlots(e) \cup {s}
  BY <1>1, <1>2, SetEntryShape
<1>4. PathUsed(f, cap, s)
  BY <1>3 DEF PathUsed, ProbeEnds, Bound
<1>5. ASSUME NEW t \in UsedSlots(e), t # s
      PROVE  PathUsed(f, cap, t)
  BY <1>3, <1>5 DEF PathUsed, Reachable
<1> QED
  BY <1>3, <1>4, <1>5 DEF Reachable
-----------------------------------------------------------------------------
(* One iteration of ht_fix_up.                                               *)

(* Slots ahead of next, seen from the erased slot, lie between next and the  *)
(* free slot that will stop the loop, or further on.  A path that leads past *)
(* next to a slot that is done with would have to lead past a free slot.     *)
LEMMA FixedPathAvoidsNext ==
  ASSUME NEW cap \in Nat, NEW x \in Slots(cap), NEW n \in Slots(cap),
         NEW free \in Slots(cap), NEW h \in Slots(cap), NEW t \in Slots(cap),
         Dist(x, t, cap) < Dist(x, n, cap),
         ~(Dist(x, free, cap) < Dist(x, n, cap)), free # n,
         ~(Dist(h, free, cap) < Dist(h, t, cap)), free # t
  PROVE  ~(Dist(h, n, cap) < Dist(h, t, cap))
BY DEF Dist, Slots

(* A path that leads from a slot that is done with to one that is not leads  *)
(* past next.                                                                *)
LEMMA UnfixedPathMeetsNext ==
  ASSUME NEW cap \in Nat, NEW x \in Slots(cap), NEW n \in Slots(cap),
         NEW h \in Slots(cap), NEW t \in Slots(cap), NEW u \in Slots(cap),
         Dist(x, u, cap) < Dist(x, n, cap),
         ~(Dist(x, t, cap) < Dist(x, n, cap)), t # n,
         Dist(h, u, cap) < Dist(h, t, cap)
  PROVE  Dist(h, n, cap) < Dist(h, t, cap)
BY DEF Dist, Slots

(* When next advances, the slot it leaves is done with.                      *)
LEMMA FixedAdvances ==
  ASSUME NEW cap \in Nat, cap >= 2, NEW x \in Slots(cap), NEW n \in Slots(cap),
         NEW free \in Slots(cap),
         ~(Dist(x, free, cap) < Dist(x, n, cap)), free # n
  PROVE  /\ x # Succ(n, cap)
         /\ \A t \in Slots(cap) :
              Dist(x, t, cap) < Dist(x, Succ(n, cap), cap)
                <=> Dist(x, t, cap) < Dist(x, n, cap) \/ t = n
<1>1. /\ Succ(n, cap) \in Slots(cap)
      /\ Succ(n, cap) = IF n = cap - 1 THEN 0 ELSE n + 1
  BY SuccIsNext
<1>2. x # Succ(n, cap)
  BY <1>1 DEF Dist, Slots
<1>3. Dist(x, Succ(n, cap), cap) = Dist(x, n, cap) + 1
  BY <1>1, <1>2 DEF Dist, Slots
<1> QED
  BY <1>2, <1>3 DEF Dist, Slots
-----------------------------------------------------------------------------
(* The inductive invariant.                                                  *)

TableInv ==
  /\ HashesKept /\ KeysUnique
  /\ ChainsIntact /\ CopyExact /\ FixUpInv
  /\ LengthExact /\ LoadBound

LEMMA UsedSlotsFinite ==
  ASSUME NEW cap \in Nat, NEW e \in [Slots(cap) -> Entry]
  PROVE  /\ UsedSlots(e) \subseteq Slots(cap)
         /\ IsFiniteSet(UsedSlots(e))
         /\ Cardinality(UsedSlots(e)) \in Nat
<1>1. UsedSlots(e) \subseteq Slots(cap)
  BY DEF UsedSlots
<1>2. IsFiniteSet(Slots(cap))
  BY FS_Interval DEF Slots
<1> QED
  BY <1>1, <1>2, FS_Subset, FS_CardinalityType

(* A table that is not full has a free slot.                                 *)
LEMMA FreeSlot ==
  ASSUME NEW cap \in Nat, NEW e \in [Slots(cap) -> Entry],
         Cardinality(UsedSlots(e)) < cap
  PROVE  \E s \in Slots(cap) : ~Used(e, s)
<1>1. UsedSlots(e) \subseteq Slots(cap) /\ DOMAIN e = Slots(cap)
  BY UsedSlotsFinite
<1>2. Cardinality(Slots(cap)) = cap
  BY FS_Interval DEF Slots
<1>3. UsedSlots(e) # Slots(cap)
  BY <1>2
<1> QED
  BY <1>1, <1>3 DEF UsedSlots

(* The last part of ht_put, in a table that has room for one more entry.     *)
LEMMA PutEntryInv ==
  ASSUME NEW cap \in Nat, cap >= 2, NEW e \in [Slots(cap) -> Entry],
         HashesKeptIn(e), KeysUniqueIn(e), Reachable(e, cap),
         length = Cardinality(UsedSlots(e)), 2 * (length + 1) <= cap,
         NEW k \in Key, NEW v \in Value, PutEntry(e, cap, k, v)
  PROVE  /\ HashesKeptIn(entries') /\ KeysUniqueIn(entries')
         /\ Reachable(entries', cap)
         /\ length' = Cardinality(UsedSlots(entries'))
         /\ 2 * length' <= cap
<1>1. length \in Nat /\ IsFiniteSet(UsedSlots(e))
  BY UsedSlotsFinite
<1>2. CASE entries' = e /\ length' = length
  BY <1>1, <1>2
<1>3. ASSUME fnHashCode[k] # 0,
             NEW s \in Slots(cap),
             ProbeEnds(e, cap, fnHashCode[k], k, s),
             entries' = SetEntry(e, s, fnHashCode[k], k, v),
             length' = LengthAfterSet(e, s)
      PROVE  /\ HashesKeptIn(entries') /\ KeysUniqueIn(entries')
             /\ Reachable(entries', cap)
             /\ length' = Cardinality(UsedSlots(entries'))
             /\ 2 * length' <= cap
  <2>1. \A t \in UsedSlots(e) : e[t].key = k => t = s
    BY <1>3, ProbeFindsKey
  <2>2. Used(e, s) => e[s].key = k /\ e[s].hash = fnHashCode[k]
    BY <1>3 DEF ProbeEnds, HashesKeptIn, UsedSlots
  <2>3. HashesKeptIn(entries') /\ KeysUniqueIn(entries')
    BY <1>3, <2>1, <2>2, SetEntryKeepsKeys
  <2>4. Reachable(entries', cap)
    BY <1>3, SetEntryKeepsPaths
  <2>5. UsedSlots(entries') = UsedSlots(e) \cup {s}
    BY <1>3, <2>2, SetEntryShape, HashTableAssumption
  <2>6. Cardinality(UsedSlots(entries'))
          = IF Used(e, s) THEN length ELSE length + 1
    BY <1>1, <2>5, FS_AddElement DEF UsedSlots
  <2> QED
    BY <1>1, <1>3, <2>3, <2>4, <2>6 DEF LengthAfterSet
<1> QED
  BY <1>2, <1>3 DEF PutEntry, HASHTABLE_INVALID_KEY

LEMMA EraseFoundInv ==
  ASSUME TypeOK, TableInv, pc = "idle",
         NEW op, NEW k \in Key, NEW s \in Slots(capacity), EraseFound(op, k, s)
  PROVE  TableInv'
<1>1. /\ capacity \in Nat /\ capacity >= 2 /\ length \in Int
      /\ entries \in [Slots(capacity) -> Entry]
      /\ new_entries \in [{} -> Entry] /\ UNCHANGED new_entries
      /\ capacity' = capacity /\ length' = length - 1 /\ pc' = "fixup"
      /\ index' = s /\ next' = Succ(s, capacity)
  BY DEF TypeOK, EraseFound, growing, Slots
<1>2. /\ entries' = [entries EXCEPT ![s] = EmptyEntry]
      /\ DOMAIN entries' = Slots(capacity)
      /\ Used(entries, s)
  BY <1>1 DEF EraseFound
<1>3. /\ ~Used(entries', s)
      /\ \A t \in Slots(capacity) : t # s => entries'[t] = entries[t]
      /\ \A t \in Slots(capacity) : Used(entries', t) <=> Used(entries, t) /\ t # s
  BY <1>1, <1>2 DEF Used, EmptyEntry
<1>4. UsedSlots(entries') = UsedSlots(entries) \ {s} /\ s \in UsedSlots(entries)
  BY <1>1, <1>2, <1>3 DEF UsedSlots
<1>5. HashesKept'
  BY <1>1, <1>3, <1>4 DEF TableInv, HashesKept, HashesKeptIn, UsedSlots
<1>6. KeysUnique'
  BY <1>1, <1>3, <1>4 DEF TableInv, KeysUnique, KeysUniqueIn, UsedSlots
<1>7. IsFiniteSet(UsedSlots(entries)) /\ length = Cardinality(UsedSlots(entries))
  BY <1>1, UsedSlotsFinite DEF TableInv, LengthExact
<1>8. LengthExact'
  BY <1>1, <1>4, <1>7, FS_RemoveElement DEF LengthExact
<1>9. LoadBound'
  BY <1>1 DEF TableInv, LoadBound
<1>10. FixUpInv'
  <2>1. PICK free \in Slots(capacity) : ~Used(entries, free)
    BY <1>1, <1>7, FreeSlot DEF TableInv, LoadBound
  <2>2. s \in Slots(capacity)
        /\ Succ(s, capacity) = IF s = capacity - 1 THEN 0 ELSE s + 1
    BY <1>1, SuccIsNext
  <2>3. s # Succ(s, capacity) /\ Dist(s, Succ(s, capacity), capacity) = 1
    BY <1>1, <2>2 DEF Dist, Slots
  <2>4. \A t \in Slots(capacity) :
          Dist(s, t, capacity) < Dist(s, Succ(s, capacity), capacity) <=> t = s
    BY <1>1, <2>2, <2>3 DEF Dist, Slots
  <2>5. ASSUME NEW t \in UsedSlots(entries), t # s
        PROVE  \A u \in Slots(capacity) :
                 Dist(Home(entries'[t].hash, capacity), u, capacity)
                   < Dist(Home(entries'[t].hash, capacity), t, capacity)
                 => Used(entries', u) \/ u = s
    <3>1. PathUsed(entries, capacity, t) /\ entries'[t] = entries[t]
      BY <1>1, <1>3, <2>5 DEF TableInv, ChainsIntact, Reachable, UsedSlots
    <3> QED
      BY <1>3, <3>1 DEF PathUsed
  <2>6. ~Used(entries', free) /\ free # s
    BY <1>2, <1>3, <2>1
  <2> QED
    BY <1>1, <1>4, <2>1, <2>3, <2>4, <2>5, <2>6 DEF FixUpInv, Fixed, UsedSlots
<1> QED
  BY <1>1, <1>5, <1>6, <1>8, <1>9, <1>10 DEF TableInv, ChainsIntact, CopyExact

LEMMA FixUpStepInv ==
  ASSUME TypeOK, TableInv, FixUpStep
  PROVE  TableInv'
<1> DEFINE e == entries[next]
           cleared == [entries EXCEPT ![next] = EmptyEntry]
<1>1. /\ capacity \in Nat /\ capacity >= 2 /\ length \in Int
      /\ entries \in [Slots(capacity) -> Entry]
      /\ new_entries \in [{} -> Entry] /\ UNCHANGED new_entries
      /\ index \in Slots(capacity) /\ next \in Slots(capacity)
      /\ capacity' = capacity /\ length' = length /\ pc = "fixup" /\ pc' = "fixup"
      /\ index' = index /\ next' = Succ(next, capacity)
      /\ Used(entries, next)
  BY DEF TypeOK, FixUpStep, growing, Slots
<1>2. /\ cleared \in [Slots(capacity) -> Entry]
      /\ ~Used(cleared, next)
      /\ \A t \in Slots(capacity) : t # next => cleared[t] = entries[t]
      /\ \A t \in Slots(capacity) : Used(cleared, t) <=> Used(entries, t) /\ t # next
      /\ UsedSlots(cleared) = UsedSlots(entries) \ {next}
      /\ next \in UsedSlots(entries)
  BY <1>1, HashTableAssumption
     DEF Used, EmptyEntry, Entry, HASHTABLE_INVALID_KEY, UsedSlots
<1>3. e.key \in Key /\ e.hash = fnHashCode[e.key] /\ e.hash \in Nat \ {0}
  BY <1>1, <1>2, HashTableAssumption
     DEF TableInv, HashesKept, HashesKeptIn, Used, HASHTABLE_INVALID_KEY
<1>4. HashesKeptIn(cleared) /\ KeysUniqueIn(cleared)
      /\ \A t \in UsedSlots(cleared) : cleared[t].key # e.key
  BY <1>1, <1>2
     DEF TableInv, HashesKept, HashesKeptIn, KeysUnique, KeysUniqueIn, UsedSlots
<1>5. PICK s \in Slots(capacity) :
        /\ ProbeEnds(cleared, capacity, e.hash, e.key, s)
        /\ entries' = SetEntry(cleared, s, e.hash, e.key, e.value)
  BY DEF FixUpStep
<1> DEFINE h == Home(e.hash, capacity)
<1>6. h \in Slots(capacity)
  BY <1>1, <1>3, HomeIsSlot
<1>7. ~Used(cleared, s)
  BY <1>2, <1>4, <1>5 DEF ProbeEnds, UsedSlots
<1> HIDE DEF e, cleared, h
<1>8. /\ entries'[s] = Bound(e.hash, e.key, e.value)
      /\ DOMAIN entries' = Slots(capacity)
      /\ \A t \in Slots(capacity) : t # s => entries'[t] = cleared[t]
      /\ \A t \in Slots(capacity) : Used(entries', t) <=> Used(cleared, t) \/ t = s
      /\ UsedSlots(entries') = UsedSlots(cleared) \cup {s}
      /\ UsedSlots(cleared) \subseteq Slots(capacity)
  BY <1>1, <1>2, <1>3, <1>5, <1>7, SetEntryShape
<1>9. HashesKept' /\ KeysUnique'
  <2>1. HashesKeptIn(entries') /\ KeysUniqueIn(entries')
    BY <1>1, <1>2, <1>3, <1>4, <1>5, <1>7, SetEntryKeepsKeys
  <2> QED
    BY <1>1, <2>1 DEF TableInv, HashesKept, KeysUnique
<1>10. LengthExact' /\ LoadBound'
  <2>1. /\ IsFiniteSet(UsedSlots(entries))
        /\ length = Cardinality(UsedSlots(entries)) /\ length \in Nat
    BY <1>1, UsedSlotsFinite DEF TableInv, LengthExact
  <2>2. IsFiniteSet(UsedSlots(cleared)) /\ Cardinality(UsedSlots(cleared)) = length - 1
    BY <1>2, <2>1, FS_RemoveElement
  <2>3. s \notin UsedSlots(cleared)
    BY <1>7 DEF UsedSlots
  <2>4. Cardinality(UsedSlots(cleared) \cup {s}) = Cardinality(UsedSlots(cleared)) + 1
    BY <2>2, <2>3, FS_AddElement
  <2>5. Cardinality(UsedSlots(entries')) = length
    BY <1>8, <2>1, <2>2, <2>4
  <2> QED
    BY <1>1, <2>5 DEF TableInv, LengthExact, LoadBound
<1>11. PICK free \in Slots(capacity) :
         /\ ~Used(entries, free) /\ free # next
         /\ ~(Dist(index, free, capacity) < Dist(index, next, capacity))
  BY <1>1 DEF TableInv, FixUpInv, Fixed
<1>12. /\ index # next'
       /\ \A t \in Slots(capacity) :
            Dist(index, t, capacity) < Dist(index, next', capacity)
              <=> Dist(index, t, capacity) < Dist(index, next, capacity) \/ t = next
  BY <1>1, <1>11, FixedAdvances
<1>13. s = next \/ Dist(index, s, capacity) < Dist(index, next, capacity)
  <2>1. s = next \/ Dist(h, s, capacity) < Dist(h, next, capacity)
    BY <1>1, <1>2, <1>5, <1>6, ProbeOrder DEF ProbeEnds, h
  <2>2. CASE s # next
    <3>1. ~Used(entries, s)
      BY <1>2, <1>7, <2>2
    <3>2. ~Fixed(next)
      BY <1>1 DEF Fixed, Dist, Slots
    <3> QED
      BY <1>1, <1>2, <2>1, <2>2, <3>1, <3>2 DEF TableInv, FixUpInv, Fixed, h, e
  <2> QED
    BY <2>2
<1>14. FixUpInv'
  <2>1. ~Used(entries', free)
        /\ ~(Dist(index, free, capacity) < Dist(index, next', capacity))
    BY <1>2, <1>8, <1>11, <1>12, <1>13
  <2>2. ASSUME NEW t \in UsedSlots(entries'),
               Dist(index, t, capacity) < Dist(index, next', capacity)
        PROVE  PathUsed(entries', capacity, t)
    <3>1. CASE t = s
      BY <1>5, <1>8, <3>1 DEF PathUsed, ProbeEnds, Bound
    <3>2. CASE t # s
      <4>1. /\ t \in Slots(capacity) /\ Used(entries, t) /\ t # next
            /\ entries'[t] = entries[t]
            /\ Dist(index, t, capacity) < Dist(index, next, capacity)
            /\ t \in UsedSlots(entries)
        BY <1>2, <1>8, <1>12, <2>2, <3>2 DEF UsedSlots
      <4> DEFINE g == Home(entries[t].hash, capacity)
      <4>2. PathUsed(entries, capacity, t)
        BY <1>1, <4>1 DEF TableInv, FixUpInv, Fixed
      <4>3. g \in Slots(capacity)
        BY <1>1, <4>1, HomeIsSlot DEF Entry
      <4>4. ~(Dist(g, free, capacity) < Dist(g, t, capacity)) /\ free # t
        BY <1>11, <4>1, <4>2 DEF PathUsed
      <4>5. ~(Dist(g, next, capacity) < Dist(g, t, capacity))
        BY <1>1, <1>11, <4>1, <4>3, <4>4, FixedPathAvoidsNext
      <4> QED
        BY <1>2, <1>8, <4>1, <4>2, <4>5 DEF PathUsed
    <3> QED
      BY <3>1, <3>2
  <2>3. ASSUME NEW t \in UsedSlots(entries'),
               ~(Dist(index, t, capacity) < Dist(index, next', capacity)),
               NEW u \in Slots(capacity),
               Dist(Home(entries'[t].hash, capacity), u, capacity)
                 < Dist(Home(entries'[t].hash, capacity), t, capacity)
        PROVE  \/ Used(entries', u)
               \/ Dist(index, u, capacity) < Dist(index, next', capacity)
    <3>1. /\ t \in UsedSlots(entries) /\ t # s /\ t # next
          /\ entries'[t] = entries[t]
          /\ ~(Dist(index, t, capacity) < Dist(index, next, capacity))
      BY <1>2, <1>8, <1>12, <1>13, <2>3, <1>1 DEF UsedSlots
    <3>2. Used(entries, u) \/ Dist(index, u, capacity) < Dist(index, next, capacity)
      BY <1>1, <2>3, <3>1 DEF TableInv, FixUpInv, Fixed
    <3> QED
      BY <1>2, <1>8, <1>12, <3>2
  <2> QED
    BY <1>1, <1>12, <2>1, <2>2, <2>3 DEF FixUpInv, Fixed
<1> QED
  BY <1>1, <1>9, <1>10, <1>14 DEF TableInv, ChainsIntact, CopyExact

LEMMA FixUpDoneInv ==
  ASSUME TypeOK, TableInv, FixUpDone
  PROVE  TableInv'
<1>1. /\ capacity \in Nat /\ capacity >= 2
      /\ entries \in [Slots(capacity) -> Entry]
      /\ index \in Slots(capacity) /\ next \in Slots(capacity)
      /\ UNCHANGED <<entries, capacity, length, new_entries>>
      /\ pc = "fixup" /\ pc' = "idle"
      /\ ~Used(entries, next)
  BY DEF TypeOK, FixUpDone, table, growing
<1>2. ASSUME NEW t \in UsedSlots(entries)
      PROVE  PathUsed(entries, capacity, t)
  <2>1. CASE Fixed(t)
    BY <1>1, <2>1 DEF TableInv, FixUpInv
  <2>2. CASE ~Fixed(t)
    <3> DEFINE h == Home(entries[t].hash, capacity)
    <3>1. /\ t \in Slots(capacity) /\ t # next
          /\ h \in Slots(capacity)
      BY <1>1, HomeIsSlot DEF UsedSlots, Entry
    <3>2. \A u \in Slots(capacity) :
            Dist(h, u, capacity) < Dist(h, t, capacity) => Used(entries, u) \/ Fixed(u)
      BY <1>1, <2>2 DEF TableInv, FixUpInv
    <3>3. ~(Dist(h, next, capacity) < Dist(h, t, capacity))
      BY <1>1, <3>2 DEF Fixed, Dist, Slots
    <3>4. ASSUME NEW u \in Slots(capacity),
                 Dist(h, u, capacity) < Dist(h, t, capacity)
          PROVE  ~Fixed(u)
      BY <1>1, <2>2, <3>1, <3>3, <3>4, UnfixedPathMeetsNext DEF Fixed
    <3> QED
      BY <3>2, <3>4 DEF PathUsed
  <2> QED
    BY <2>1, <2>2
<1> QED
  BY <1>1, <1>2
     DEF TableInv, HashesKept, KeysUnique, ChainsIntact, Reachable, CopyExact,
         FixUpInv, LengthExact, LoadBound
-----------------------------------------------------------------------------
(* ht_expand.                                                                *)

LEMMA NothingUsed ==
  /\ \A cap \in Nat :
       UsedSlots(EmptyTable(cap)) = {} /\ DOMAIN EmptyTable(cap) = Slots(cap)
  /\ UsedSlots(NoTable) = {}
BY DEF UsedSlots, Used, EmptyTable, EmptyEntry, NoTable

LEMMA ExpandStartInv ==
  ASSUME TypeOK, TableInv, NEW k \in Key, NEW v \in Value, ExpandStart(k, v)
  PROVE  TableInv'
<1>1. /\ capacity \in Nat
      /\ UNCHANGED <<entries, capacity, length>>
      /\ pc = "idle" /\ pc' = "expand" /\ i' = 0
      /\ UsedSlots(new_entries') = {}
  BY NothingUsed DEF TypeOK, ExpandStart, table
<1>2. CopyExact'
  BY <1>1, FS_EmptySet DEF CopyExact, Reachable
<1> QED
  BY <1>1, <1>2
     DEF TableInv, HashesKept, HashesKeptIn, KeysUnique, KeysUniqueIn, ChainsIntact,
         FixUpInv, LengthExact, LoadBound

LEMMA ExpandStepInv ==
  ASSUME TypeOK, TableInv, ExpandStep
  PROVE  TableInv'
<1> DEFINE e == entries[i]
           cap == 2 * capacity
           done == UsedSlots(entries) \cap 0 .. i - 1
           done2 == UsedSlots(entries) \cap 0 .. i
<1>1. /\ capacity \in Nat /\ capacity >= 2
      /\ i \in Slots(capacity) /\ i' = i + 1 /\ i' - 1 = i
      /\ entries \in [Slots(capacity) -> Entry]
      /\ new_entries \in [Slots(cap) -> Entry]
      /\ UNCHANGED <<entries, capacity, length>>
      /\ pc = "expand" /\ pc' = "expand"
  BY DEF TypeOK, ExpandStep, table, Slots
<1>2. /\ Reachable(new_entries, cap)
      /\ {new_entries[s] : s \in UsedSlots(new_entries)} = {entries[s] : s \in done}
      /\ Cardinality(UsedSlots(new_entries)) = Cardinality(done)
      /\ HashesKeptIn(new_entries) /\ KeysUniqueIn(new_entries)
      /\ HashesKeptIn(entries) /\ KeysUniqueIn(entries)
  BY <1>1 DEF TableInv, CopyExact, HashesKept, KeysUnique
<1>3. SUFFICES /\ HashesKeptIn(new_entries') /\ KeysUniqueIn(new_entries')
               /\ Reachable(new_entries', cap)
               /\ {new_entries'[s] : s \in UsedSlots(new_entries')}
                    = {entries[s] : s \in done2}
               /\ Cardinality(UsedSlots(new_entries')) = Cardinality(done2)
  BY <1>1
     DEF TableInv, CopyExact, HashesKept, KeysUnique, ChainsIntact, FixUpInv,
         LengthExact, LoadBound
<1>4. CASE ~Used(entries, i) /\ UNCHANGED new_entries
  <2>1. done2 = done
    BY <1>1, <1>4 DEF UsedSlots, Slots
  <2> QED
    BY <1>2, <1>4, <2>1
<1>5. ASSUME Used(entries, i), NEW s \in Slots(cap),
             ProbeEnds(new_entries, cap, e.hash, e.key, s),
             new_entries' = SetEntry(new_entries, s, e.hash, e.key, e.value)
      PROVE  /\ HashesKeptIn(new_entries') /\ KeysUniqueIn(new_entries')
             /\ Reachable(new_entries', cap)
             /\ {new_entries'[t] : t \in UsedSlots(new_entries')}
                  = {entries[t] : t \in done2}
             /\ Cardinality(UsedSlots(new_entries')) = Cardinality(done2)
  <2>1. i \in UsedSlots(entries) /\ e \in Entry
    BY <1>1, <1>5 DEF UsedSlots
  <2>2. /\ e.key \in Key /\ e.hash = fnHashCode[e.key]
        /\ e.hash \in Nat \ {0}
        /\ e = Bound(e.hash, e.key, e.value)
    BY <1>2, <1>5, <2>1
       DEF HashesKeptIn, Used, HASHTABLE_INVALID_KEY, Entry, Bound
  <2>3. \A t \in UsedSlots(new_entries) : new_entries[t].key # e.key
    <3> SUFFICES ASSUME NEW t \in UsedSlots(new_entries), new_entries[t].key = e.key
                 PROVE  FALSE
      OBVIOUS
    <3>1. PICK u \in done : new_entries[t] = entries[u]
      BY <1>2
    <3>2. u = i
      BY <1>2, <2>1, <3>1 DEF KeysUniqueIn
    <3> QED
      BY <1>1, <3>1, <3>2 DEF Slots
  <2>4. ~Used(new_entries, s) /\ s \notin UsedSlots(new_entries)
    BY <1>1, <1>5, <2>3 DEF ProbeEnds, UsedSlots
  <2>5. cap \in Nat /\ cap >= 2
    BY <1>1
  <2> HIDE DEF e, cap
  <2>6. /\ new_entries'[s] = Bound(e.hash, e.key, e.value)
        /\ \A t \in Slots(cap) : t # s => new_entries'[t] = new_entries[t]
        /\ UsedSlots(new_entries) \subseteq Slots(cap)
        /\ UsedSlots(new_entries') = UsedSlots(new_entries) \cup {s}
    BY <1>1, <1>5, <2>2, <2>4, <2>5, SetEntryShape
  <2>7. HashesKeptIn(new_entries') /\ KeysUniqueIn(new_entries')
    BY <1>1, <1>2, <1>5, <2>2, <2>3, <2>4, <2>5, SetEntryKeepsKeys
  <2>8. Reachable(new_entries', cap)
    BY <1>1, <1>2, <1>5, <2>2, <2>5, SetEntryKeepsPaths
  <2>9. done2 = done \cup {i} /\ i \notin done
    BY <1>1, <2>1 DEF Slots
  <2>10. {new_entries'[t] : t \in UsedSlots(new_entries')} = {entries[t] : t \in done2}
    <3>1. \A t \in UsedSlots(new_entries) : new_entries'[t] = new_entries[t]
      BY <2>4, <2>6
    <3>2. {new_entries'[t] : t \in UsedSlots(new_entries')}
            = {new_entries[t] : t \in UsedSlots(new_entries)} \cup {e}
      BY <2>2, <2>6, <3>1
    <3>3. {entries[t] : t \in done2} = {entries[t] : t \in done} \cup {e}
      BY <2>9 DEF e
    <3> QED
      BY <1>2, <3>2, <3>3
  <2>11. Cardinality(UsedSlots(new_entries')) = Cardinality(done2)
    <3>1. IsFiniteSet(UsedSlots(new_entries))
      BY <1>1, <2>5, UsedSlotsFinite
    <3>2. IsFiniteSet(done)
      BY <1>1, UsedSlotsFinite, FS_Subset
    <3> HIDE DEF done, done2
    <3>3. Cardinality(UsedSlots(new_entries) \cup {s})
            = Cardinality(UsedSlots(new_entries)) + 1
      BY <2>4, <3>1, FS_AddElement
    <3>4. Cardinality(done \cup {i}) = Cardinality(done) + 1
      BY <2>9, <3>2, FS_AddElement
    <3> QED
      BY <1>2, <2>6, <2>9, <3>3, <3>4
  <2> QED
    BY <2>7, <2>8, <2>10, <2>11
<1> QED
  BY <1>4, <1>5 DEF ExpandStep

LEMMA ExpandDoneInv ==
  ASSUME TypeOK, TableInv, ExpandDone
  PROVE  TableInv'
<1>1. /\ capacity \in Nat /\ capacity >= 2 /\ length \in Int
      /\ entries \in [Slots(capacity) -> Entry]
      /\ new_entries \in [Slots(2 * capacity) -> Entry]
      /\ arg.key \in Key /\ arg.value \in Value
      /\ pc = "expand" /\ i = capacity /\ capacity' = 2 * capacity
      /\ new_entries' = NoTable
      /\ PutEntry(new_entries, 2 * capacity, arg.key, arg.value)
  BY DEF TypeOK, ExpandDone
<1>2. UsedSlots(entries) \cap 0 .. i - 1 = UsedSlots(entries)
  BY <1>1 DEF UsedSlots, Slots
<1>3. length = Cardinality(UsedSlots(new_entries))
  BY <1>1, <1>2 DEF TableInv, LengthExact, CopyExact
<1>4. /\ HashesKeptIn(new_entries) /\ KeysUniqueIn(new_entries)
      /\ Reachable(new_entries, 2 * capacity)
  BY <1>1 DEF TableInv, HashesKept, KeysUnique, CopyExact
<1>5. 2 * capacity \in Nat /\ 2 * capacity >= 2 /\ 2 * (length + 1) <= 2 * capacity
  BY <1>1 DEF TableInv, LoadBound
<1>6. /\ HashesKeptIn(entries') /\ KeysUniqueIn(entries')
      /\ Reachable(entries', 2 * capacity)
      /\ length' = Cardinality(UsedSlots(entries'))
      /\ 2 * length' <= 2 * capacity
  BY <1>1, <1>3, <1>4, <1>5, PutEntryInv
<1>7. pc' \in {"idle", "aborted"}
  BY <1>1 DEF PutEntry, AssertFails
<1> QED
  BY <1>1, <1>6, <1>7, NothingUsed
     DEF TableInv, HashesKept, HashesKeptIn, KeysUnique, KeysUniqueIn, ChainsIntact,
         CopyExact, FixUpInv, LengthExact, LoadBound
-----------------------------------------------------------------------------
(* The other operations, and the invariant.                                  *)

LEMMA PutInPlaceInv ==
  ASSUME TypeOK, TableInv, NEW k \in Key, NEW v \in Value, PutInPlace(k, v)
  PROVE  TableInv'
<1>1. /\ capacity \in Nat /\ capacity >= 2 /\ length \in Int
      /\ entries \in [Slots(capacity) -> Entry]
      /\ pc = "idle" /\ ~(length >= capacity \div 2)
      /\ UNCHANGED <<capacity, new_entries>>
      /\ PutEntry(entries, capacity, k, v)
  BY DEF TypeOK, PutInPlace, NeedsExpand, growing
<1>2. 2 * (length + 1) <= capacity
  BY <1>1
<1>3. /\ HashesKeptIn(entries) /\ KeysUniqueIn(entries)
      /\ Reachable(entries, capacity)
      /\ length = Cardinality(UsedSlots(entries))
  BY <1>1 DEF TableInv, HashesKept, KeysUnique, ChainsIntact, LengthExact
<1>4. /\ HashesKeptIn(entries') /\ KeysUniqueIn(entries')
      /\ Reachable(entries', capacity)
      /\ length' = Cardinality(UsedSlots(entries'))
      /\ 2 * length' <= capacity
  BY <1>1, <1>2, <1>3, PutEntryInv
<1>5. pc' \in {"idle", "aborted"}
  BY <1>1 DEF PutEntry, AssertFails
<1> QED
  BY <1>1, <1>4, <1>5
     DEF TableInv, HashesKept, KeysUnique, ChainsIntact, CopyExact, FixUpInv,
         LengthExact, LoadBound

(* Steps that leave the table alone, with the call still where it was or at  *)
(* a place where there is no table.                                          *)
LEMMA TableUntouched ==
  ASSUME TableInv,
         UNCHANGED <<entries, capacity, length, new_entries, index, next, i>>,
         pc' = pc \/ pc' \notin {"idle", "expand", "fixup"}
  PROVE  TableInv'
<1>1. CASE pc' = pc
  BY <1>1
     DEF TableInv, HashesKept, KeysUnique, ChainsIntact, CopyExact, FixUpInv, Fixed,
         LengthExact, LoadBound
<1>2. CASE pc' \notin {"idle", "expand", "fixup"}
  BY <1>2
     DEF TableInv, HashesKept, KeysUnique, ChainsIntact, CopyExact, FixUpInv,
         LengthExact, LoadBound
<1> QED
  BY <1>1, <1>2

(* A table without entries, before and after its life and when it is new.    *)
LEMMA TableEmptied ==
  ASSUME UsedSlots(entries) = {}, UsedSlots(new_entries) = {},
         length = 0, capacity \in Nat, pc \notin {"expand", "fixup"}
  PROVE  TableInv
<1>1. Cardinality({}) = 0
  BY FS_EmptySet
<1>2. Reachable(entries, capacity)
  BY DEF Reachable
<1> QED
  BY <1>1, <1>2
     DEF TableInv, HashesKept, HashesKeptIn, KeysUnique, KeysUniqueIn, ChainsIntact,
         CopyExact, FixUpInv, LengthExact, LoadBound

LEMMA TableInit == Init => TableInv
BY NothingUsed, TableEmptied DEF Init

LEMMA NewEntriesInv ==
  ASSUME TypeOK, NewEntries
  PROVE  TableInv'
<1>1. /\ entries' = EmptyTable(InitialCapacity) /\ length' = 0
      /\ capacity' = InitialCapacity /\ InitialCapacity \in Nat
      /\ pc' = "idle" /\ UNCHANGED new_entries
      /\ new_entries \in [{} -> Entry]
  BY HashTableAssumption DEF TypeOK, NewEntries, growing, Slots
<1>2. UsedSlots(entries') = {} /\ UsedSlots(new_entries') = {}
  BY <1>1, NothingUsed DEF UsedSlots
<1>3. Cardinality({}) = 0
  BY FS_EmptySet
<1>4. Reachable(entries', capacity')
  BY <1>2 DEF Reachable
<1> QED
  BY <1>1, <1>2, <1>3, <1>4
     DEF TableInv, HashesKept, HashesKeptIn, KeysUnique, KeysUniqueIn, ChainsIntact,
         CopyExact, FixUpInv, LengthExact, LoadBound

LEMMA FreeInv ==
  ASSUME TypeOK, Free
  PROVE  TableInv'
<1>1. /\ entries' = NoTable /\ length' = 0 /\ capacity' = 0
      /\ pc' = "unallocated" /\ UNCHANGED new_entries
      /\ new_entries \in [{} -> Entry]
  BY DEF TypeOK, Free, growing, Slots
<1>2. UsedSlots(entries') = {} /\ UsedSlots(new_entries') = {}
  BY <1>1, NothingUsed DEF UsedSlots
<1>3. Cardinality({}) = 0
  BY FS_EmptySet
<1> QED
  BY <1>1, <1>2, <1>3
     DEF TableInv, HashesKept, HashesKeptIn, KeysUnique, KeysUniqueIn, ChainsIntact,
         CopyExact, FixUpInv, LengthExact, LoadBound

LEMMA EraseCallInv ==
  ASSUME TypeOK, TableInv, NEW op, NEW k \in Key, EraseCall(op, k)
  PROVE  TableInv'
<1>1. CASE \E s \in Slots(capacity) : EraseFound(op, k, s)
  BY <1>1, EraseFoundInv DEF EraseCall
<1>2. CASE \E s \in Slots(capacity) : EraseMissing(op, k, s)
  BY <1>2, TableUntouched DEF EraseMissing, table, fixing, growing
<1>3. CASE AssertFails(k) /\ UNCHANGED <<table, fixing, growing>>
  BY <1>3, TableUntouched DEF AssertFails, table, fixing, growing
<1> QED
  BY <1>1, <1>2, <1>3 DEF EraseCall

LEMMA GetInv ==
  ASSUME TableInv, NEW k \in Key, Get(k)
  PROVE  TableInv'
<1>1. UNCHANGED <<entries, capacity, length, new_entries, index, next, i>>
  BY DEF Get, table, fixing, growing
<1>2. pc' = pc \/ pc' = "aborted"
  BY DEF Get, AssertFails
<1> QED
  BY <1>1, <1>2, TableUntouched

LEMMA TableNext == TypeOK /\ TableInv /\ [Next]_vars => TableInv'
<1> SUFFICES ASSUME TypeOK, TableInv, [Next]_vars
             PROVE  TableInv'
  OBVIOUS
<1>1. CASE New
  BY <1>1, TableUntouched DEF New, table, fixing, growing
<1>2. CASE NewEntries
  BY <1>2, NewEntriesInv
<1>3. CASE NewFails
  BY <1>3, TableUntouched DEF NewFails, table, fixing, growing
<1>4. CASE Free
  BY <1>4, FreeInv
<1>5. CASE ExpandStep
  BY <1>5, ExpandStepInv
<1>6. CASE ExpandDone
  BY <1>6, ExpandDoneInv
<1>7. CASE FixUpStep
  BY <1>7, FixUpStepInv
<1>8. CASE FixUpDone
  BY <1>8, FixUpDoneInv
<1>9. CASE Aborted \/ UNCHANGED vars
  BY <1>9, TableUntouched DEF Aborted, vars
<1>10. CASE \E k \in Key : Get(k)
  BY <1>10, GetInv
<1>11. CASE \E k \in Key : Erase(k) \/ PutNull(k)
  BY <1>11, EraseCallInv DEF Erase, PutNull
<1>12. CASE \E k \in Key, v \in Value : PutInPlace(k, v)
  BY <1>12, PutInPlaceInv
<1>13. CASE \E k \in Key, v \in Value : PutRefused(k, v)
  BY <1>13, TableUntouched DEF PutRefused, table, fixing, growing
<1>14. CASE \E k \in Key, v \in Value : ExpandStart(k, v)
  BY <1>14, ExpandStartInv
<1> QED
  BY <1>1, <1>2, <1>3, <1>4, <1>5, <1>6, <1>7, <1>8, <1>9, <1>10, <1>11,
     <1>12, <1>13, <1>14
     DEF Next, Internal

(* Everything TableInv says holds of every table: the conjuncts need each    *)
(* other, so they are proved together.                                       *)
THEOREM TableCorrect == Spec => []TableInv
BY TypeCorrect, TableInit, TableNext, PTL DEF Spec

(* A probe never walks past an entry it could have found: between calls no   *)
(* free slot lies between the home of an entry and the entry, which is what  *)
(* ht_fix_up repairs after an erase and ht_expand builds anew.               *)
THEOREM ChainsStayIntact == Spec => []ChainsIntact
<1>1. TableInv => ChainsIntact
  BY DEF TableInv
<1> QED
  BY <1>1, TableCorrect, PTL

(* No sequence of puts, erases and expansions stores a key in two slots.     *)
THEOREM KeysStayUnique == Spec => []KeysUnique
<1>1. TableInv => KeysUnique
  BY DEF TableInv
<1> QED
  BY <1>1, TableCorrect, PTL

(* The hash an entry stores is always the hash of the key it stores.         *)
THEOREM HashesAreKept == Spec => []HashesKept
<1>1. TableInv => HashesKept
  BY DEF TableInv
<1> QED
  BY <1>1, TableCorrect, PTL

(* The counter that ht_set_entry and ht_erase maintain is the number of      *)
(* entries.                                                                  *)
THEOREM LengthCounts == Spec => []LengthExact
<1>1. TableInv => LengthExact
  BY DEF TableInv
<1> QED
  BY <1>1, TableCorrect, PTL

(* However calls fail, collide or move entries, half of the table is free:   *)
(* the load factor that ht_put tests is never exceeded.                      *)
THEOREM LoadStaysBounded == Spec => []LoadBound
<1>1. TableInv => LoadBound
  BY DEF TableInv
<1> QED
  BY <1>1, TableCorrect, PTL

(* At every iteration of the copying loop of ht_expand the new table holds   *)
(* exactly the entries the loop has passed, where probing finds them.        *)
THEOREM CopyIsExact == Spec => []CopyExact
<1>1. TableInv => CopyExact
  BY DEF TableInv
<1> QED
  BY <1>1, TableCorrect, PTL

(* At every iteration of ht_fix_up the slots it has passed are repaired, the *)
(* others break off only at those, and a free slot is still ahead.           *)
THEOREM FixUpIsRight == Spec => []FixUpInv
<1>1. TableInv => FixUpInv
  BY DEF TableInv
<1> QED
  BY <1>1, TableCorrect, PTL

(* Of any slots, one is the first that a probe from h meets.                 *)
LEMMA FirstMet ==
  ASSUME NEW cap \in Nat, NEW h \in Slots(cap),
         NEW S \in SUBSET Slots(cap), S # {}
  PROVE  \E s \in S : \A t \in S : ~(Dist(h, t, cap) < Dist(h, s, cap))
<1> DEFINE D == {Dist(h, s, cap) : s \in S}
<1>1. D \subseteq Nat
  BY DEF Dist, Slots
<1>2. PICK m \in D : \A n \in D : <<n, m>> \notin OpToRel(<, Nat)
  <2>1. D # {}
    OBVIOUS
  <2> HIDE DEF D
  <2> QED
    BY <1>1, <2>1, WFMin, NatLessThanWellFounded, Zenon
<1>3. \A n \in D : ~(n < m)
  BY <1>1, <1>2 DEF OpToRel
<1>4. PICK s \in S : m = Dist(h, s, cap)
  BY <1>2
<1> QED
  BY <1>3, <1>4

(* A probe in a table with a free slot comes to an end.                      *)
LEMMA ProbeHasEnd ==
  ASSUME NEW cap \in Nat, cap >= 2, NEW e \in [Slots(cap) -> Entry],
         NEW free \in Slots(cap), ~Used(e, free), NEW k \in Key
  PROVE  \E s \in Slots(cap) : ProbeEnds(e, cap, fnHashCode[k], k, s)
<1> DEFINE h == Home(fnHashCode[k], cap)
           S == {s \in Slots(cap) : Used(e, s) => e[s].key = k}
<1>1. h \in Slots(cap)
  BY HomeIsSlot, HashTableAssumption
<1>2. S \in SUBSET Slots(cap) /\ S # {}
  OBVIOUS
<1>3. PICK s \in S : \A t \in S : ~(Dist(h, t, cap) < Dist(h, s, cap))
  BY <1>1, <1>2, FirstMet
<1> QED
  BY <1>3 DEF ProbeEnds

(* Since the table is never full, no probing loop runs round it for ever.    *)
THEOREM ProbesAlwaysEnd == Spec => []ProbesEnd
<1>1. TypeOK /\ TableInv => ProbesEnd
  <2> SUFFICES ASSUME TypeOK, TableInv, pc = "idle", NEW k \in Key
               PROVE  \E s \in Slots(capacity) :
                        ProbeEnds(entries, capacity, fnHashCode[k], k, s)
    BY DEF ProbesEnd
  <2>1. /\ capacity \in Nat /\ capacity >= 2 /\ length \in Int
        /\ entries \in [Slots(capacity) -> Entry]
    BY DEF TypeOK
  <2>2. Cardinality(UsedSlots(entries)) < capacity
    BY <2>1, UsedSlotsFinite DEF TableInv, LengthExact, LoadBound
  <2>3. PICK free \in Slots(capacity) : ~Used(entries, free)
    BY <2>1, <2>2, FreeSlot
  <2> QED
    BY <2>1, <2>3, ProbeHasEnd
<1> QED
  BY <1>1, TypeCorrect, TableCorrect, PTL

(* A table holds two blocks between calls and none before and after its      *)
(* life, whichever allocation of ht_new or ht_expand fails.                  *)
THEOREM BlocksStayBalanced == Spec => []BlocksBalanced
<1>1. Init => BlocksBalanced
  BY DEF Init, BlocksBalanced
<1>2. BlocksBalanced /\ [Next]_vars => BlocksBalanced'
  BY DEF BlocksBalanced, Next, Internal, vars, New, NewEntries, NewFails, Free, Get,
         EraseCall, Erase, PutNull, EraseFound, EraseMissing, AssertFails, PutEntry,
         PutInPlace, PutRefused, ExpandStart, ExpandStep, ExpandDone, FixUpStep,
         FixUpDone, Aborted
<1> QED
  BY <1>1, <1>2, PTL DEF Spec
-----------------------------------------------------------------------------
(* The table as a map.                                                       *)

(* What Bindings says of a key that is stored, and of one that is not.       *)
LEMMA BindingOfStored ==
  ASSUME NEW e, KeysUniqueIn(e), NEW s \in UsedSlots(e), e[s].key \in Key
  PROVE  Bindings(e)[e[s].key] = e[s].value
<1>1. \A t \in UsedSlots(e) : e[t].key = e[s].key => t = s
  BY DEF KeysUniqueIn
<1>2. (CHOOSE t \in UsedSlots(e) : e[t].key = e[s].key) = s
  BY <1>1
<1> QED
  BY <1>2 DEF Bindings

LEMMA BindingOfMissing ==
  ASSUME NEW e, NEW k \in Key, \A s \in UsedSlots(e) : e[s].key # k
  PROVE  Bindings(e)[k] = NullValue
BY DEF Bindings

LEMMA BindingsIsFunction ==
  ASSUME NEW e
  PROVE  DOMAIN Bindings(e) = Key /\ Bindings(e) = [k \in Key |-> Bindings(e)[k]]
BY DEF Bindings

(* Two tables that hold the same entries mean the same, whatever the slots.  *)
LEMMA SameEntriesSameBindings ==
  ASSUME NEW e, NEW f, KeysUniqueIn(e), KeysUniqueIn(f),
         {e[s] : s \in UsedSlots(e)} = {f[s] : s \in UsedSlots(f)}
  PROVE  Bindings(e) = Bindings(f)
<1>1. ASSUME NEW k \in Key
      PROVE  Bindings(e)[k] = Bindings(f)[k]
  <2>1. CASE \E s \in UsedSlots(e) : e[s].key = k
    <3>1. PICK s \in UsedSlots(e) : e[s].key = k
      BY <2>1
    <3>2. PICK t \in UsedSlots(f) : f[t] = e[s]
      OBVIOUS
    <3> QED
      BY <3>1, <3>2, BindingOfStored
  <2>2. CASE \A s \in UsedSlots(e) : e[s].key # k
    <3>1. \A t \in UsedSlots(f) : \E s \in UsedSlots(e) : f[t] = e[s]
      OBVIOUS
    <3> QED
      BY <2>2, <3>1, BindingOfMissing
  <2> QED
    BY <2>1, <2>2
<1> QED
  BY <1>1, BindingsIsFunction

Rebound(bindings, k, value) == [bindings EXCEPT ![k] = value]

(* Setting an entry binds its key and no other.                              *)
LEMMA SetEntryBinds ==
  ASSUME NEW cap \in Nat, NEW e \in [Slots(cap) -> Entry],
         HashesKeptIn(e), KeysUniqueIn(e),
         NEW k \in Key, fnHashCode[k] # 0, NEW value, NEW s \in Slots(cap),
         \A t \in UsedSlots(e) : e[t].key = k => t = s,
         Used(e, s) => e[s].key = k,
         NEW f, f = SetEntry(e, s, fnHashCode[k], k, value)
  PROVE  Bindings(f) = Rebound(Bindings(e), k, value)
<1>1. fnHashCode[k] \in Nat \ {0}
  BY HashTableAssumption
<1>2. Used(e, s) => e[s].hash = fnHashCode[k]
  BY DEF HashesKeptIn, UsedSlots
<1>3. /\ f[s] = Bound(fnHashCode[k], k, value)
      /\ \A t \in Slots(cap) : t # s => f[t] = e[t]
      /\ UsedSlots(e) \subseteq Slots(cap)
      /\ UsedSlots(f) = UsedSlots(e) \cup {s}
  BY <1>1, <1>2, SetEntryShape
<1>4. KeysUniqueIn(f)
  BY SetEntryKeepsKeys
<1>5. Bindings(f)[k] = value
  BY <1>3, <1>4, BindingOfStored DEF Bound
<1>6. ASSUME NEW j \in Key, j # k
      PROVE  Bindings(f)[j] = Bindings(e)[j]
  <2>1. CASE \E t \in UsedSlots(e) : e[t].key = j
    <3>1. PICK t \in UsedSlots(e) : e[t].key = j
      BY <2>1
    <3>2. t # s
      BY <1>6, <3>1 DEF UsedSlots
    <3>3. t \in UsedSlots(f) /\ f[t] = e[t]
      BY <1>3, <3>2
    <3> QED
      BY <1>4, <3>1, <3>3, BindingOfStored
  <2>2. CASE \A t \in UsedSlots(e) : e[t].key # j
    <3>1. \A t \in UsedSlots(f) : f[t].key # j
      BY <1>3, <1>6, <2>2 DEF Bound
    <3> QED
      BY <2>2, <3>1, BindingOfMissing
  <2> QED
    BY <2>1, <2>2
<1> QED
  BY <1>5, <1>6, BindingsIsFunction DEF Rebound

(* Clearing an entry unbinds its key and no other.                           *)
LEMMA RemovalUnbinds ==
  ASSUME NEW e, KeysUniqueIn(e), NEW s \in UsedSlots(e), e[s].key \in Key,
         NEW f, UsedSlots(f) = UsedSlots(e) \ {s},
         \A t \in UsedSlots(f) : f[t] = e[t]
  PROVE  Bindings(f) = [Bindings(e) EXCEPT ![e[s].key] = NullValue]
<1>1. UsedSlots(f) = UsedSlots(e) \ {s} /\ \A t \in UsedSlots(f) : f[t] = e[t]
  OBVIOUS
<1>2. KeysUniqueIn(f)
  BY <1>1 DEF KeysUniqueIn
<1>3. Bindings(f)[e[s].key] = NullValue
  <2>1. \A t \in UsedSlots(f) : f[t].key # e[s].key
    BY <1>1 DEF KeysUniqueIn
  <2> QED
    BY <2>1, BindingOfMissing
<1>4. ASSUME NEW j \in Key, j # e[s].key
      PROVE  Bindings(f)[j] = Bindings(e)[j]
  <2>1. CASE \E t \in UsedSlots(e) : e[t].key = j
    <3>1. PICK t \in UsedSlots(e) : e[t].key = j
      BY <2>1
    <3>2. t \in UsedSlots(f) /\ f[t] = e[t]
      BY <1>1, <1>4, <3>1
    <3> QED
      BY <1>2, <3>1, <3>2, BindingOfStored
  <2>2. CASE \A t \in UsedSlots(e) : e[t].key # j
    <3>1. \A t \in UsedSlots(f) : f[t].key # j
      BY <1>1, <2>2
    <3> QED
      BY <2>2, <3>1, BindingOfMissing
  <2> QED
    BY <2>1, <2>2
<1> QED
  BY <1>3, <1>4, BindingsIsFunction

(* What a probe finds is what the key is bound to.                           *)
LEMMA ProbeReadsBinding ==
  ASSUME NEW cap \in Nat, cap >= 2, NEW e \in [Slots(cap) -> Entry],
         HashesKeptIn(e), KeysUniqueIn(e), Reachable(e, cap),
         NEW k \in Key, NEW s \in Slots(cap),
         ProbeEnds(e, cap, fnHashCode[k], k, s)
  PROVE  Bindings(e)[k] = IF Used(e, s) THEN e[s].value ELSE NullValue
<1>1. CASE Used(e, s)
  <2>1. s \in UsedSlots(e) /\ e[s].key = k
    BY <1>1 DEF UsedSlots, ProbeEnds
  <2> QED
    BY <1>1, <2>1, BindingOfStored
<1>2. CASE ~Used(e, s)
  <2>1. \A t \in UsedSlots(e) : e[t].key # k
    BY <1>2, ProbeFindsKey DEF UsedSlots
  <2> QED
    BY <1>2, <2>1, BindingOfMissing
<1> QED
  BY <1>1, <1>2

(* The last part of ht_put is a put of the map, or the assertion's abort.    *)
LEMMA PutEntryRefines ==
  ASSUME NEW cap \in Nat, cap >= 2, NEW e \in [Slots(cap) -> Entry],
         HashesKeptIn(e), KeysUniqueIn(e), Reachable(e, cap),
         Bindings(e) = Bindings(entries),
         NEW k \in Key, NEW v \in Value, PutEntry(e, cap, k, v)
  PROVE  Map!Put(k, v) \/ UNCHANGED Map!vars
<1>1. CASE entries' = e /\ UNCHANGED ret
  BY <1>1 DEF Map!vars
<1>2. ASSUME fnHashCode[k] # 0,
             NEW s \in Slots(cap),
             ProbeEnds(e, cap, fnHashCode[k], k, s),
             entries' = SetEntry(e, s, fnHashCode[k], k, v),
             ret' = Map!Answer("put", k, v, IF Used(e, s) THEN e[s].value ELSE NullValue)
      PROVE  Map!Put(k, v)
  <2>1. \A t \in UsedSlots(e) : e[t].key = k => t = s
    BY <1>2, ProbeFindsKey
  <2>2. Used(e, s) => e[s].key = k
    BY <1>2 DEF ProbeEnds
  <2>3. Bindings(entries') = Rebound(Bindings(e), k, v)
    BY <1>2, <2>1, <2>2, SetEntryBinds
  <2>4. ret' = Map!Answer("put", k, v, Bindings(e)[k])
    BY <1>2, ProbeReadsBinding
  <2> QED
    BY <2>3, <2>4 DEF Map!Put, Rebound
<1> QED
  BY <1>1, <1>2 DEF PutEntry, HASHTABLE_INVALID_KEY

LEMMA PutInPlaceRefines ==
  ASSUME TypeOK, TableInv, NEW k \in Key, NEW v \in Value, PutInPlace(k, v)
  PROVE  Map!Put(k, v) \/ UNCHANGED Map!vars
<1>1. /\ capacity \in Nat /\ capacity >= 2 /\ pc = "idle"
      /\ entries \in [Slots(capacity) -> Entry]
      /\ PutEntry(entries, capacity, k, v)
  BY DEF TypeOK, PutInPlace
<1>2. /\ HashesKeptIn(entries) /\ KeysUniqueIn(entries)
      /\ Reachable(entries, capacity)
  BY <1>1 DEF TableInv, HashesKept, KeysUnique, ChainsIntact
<1> QED
  BY <1>1, <1>2, PutEntryRefines

LEMMA ExpandDoneRefines ==
  ASSUME TypeOK, TableInv, ExpandDone
  PROVE  Map!Put(arg.key, arg.value) \/ UNCHANGED Map!vars
<1>1. /\ capacity \in Nat /\ capacity >= 2
      /\ 2 * capacity \in Nat /\ 2 * capacity >= 2
      /\ entries \in [Slots(capacity) -> Entry]
      /\ new_entries \in [Slots(2 * capacity) -> Entry]
      /\ arg.key \in Key /\ arg.value \in Value
      /\ pc = "expand" /\ i = capacity
      /\ PutEntry(new_entries, 2 * capacity, arg.key, arg.value)
  BY DEF TypeOK, ExpandDone
<1>2. UsedSlots(entries) \cap 0 .. i - 1 = UsedSlots(entries)
  BY <1>1 DEF UsedSlots, Slots
<1>3. /\ HashesKeptIn(new_entries) /\ KeysUniqueIn(new_entries)
      /\ Reachable(new_entries, 2 * capacity)
      /\ KeysUniqueIn(entries)
      /\ {new_entries[s] : s \in UsedSlots(new_entries)}
           = {entries[s] : s \in UsedSlots(entries)}
  BY <1>1, <1>2 DEF TableInv, HashesKept, KeysUnique, CopyExact
<1>4. Bindings(new_entries) = Bindings(entries)
  BY <1>3, SameEntriesSameBindings
<1> QED
  BY <1>1, <1>3, <1>4, PutEntryRefines

(* An erase unbinds the key at once; the fix-up that follows does not show.  *)
LEMMA EraseCallRefines ==
  ASSUME TypeOK, TableInv, NEW op \in {"erase", "put"}, NEW k \in Key, EraseCall(op, k)
  PROVE  \/ /\ Bindings(entries)' = [Bindings(entries) EXCEPT ![k] = NullValue]
            /\ ret' = Map!Answer(op, k, NullValue, Bindings(entries)[k])
         \/ UNCHANGED Map!vars
<1>1. CASE UNCHANGED <<table, ret>>
  BY <1>1 DEF table, Map!vars
<1>2. ASSUME pc = "idle",
             NEW s \in Slots(capacity), EraseFound(op, k, s) \/ EraseMissing(op, k, s)
      PROVE  /\ Bindings(entries)' = [Bindings(entries) EXCEPT ![k] = NullValue]
             /\ ret' = Map!Answer(op, k, NullValue, Bindings(entries)[k])
  <2>1. /\ capacity \in Nat /\ capacity >= 2
        /\ entries \in [Slots(capacity) -> Entry]
        /\ HashesKeptIn(entries) /\ KeysUniqueIn(entries)
        /\ Reachable(entries, capacity)
        /\ ProbeEnds(entries, capacity, fnHashCode[k], k, s)
    BY <1>2
       DEF TypeOK, TableInv, HashesKept, KeysUnique, ChainsIntact, EraseFound, EraseMissing
  <2>2. Bindings(entries)[k] = IF Used(entries, s) THEN entries[s].value ELSE NullValue
    BY <2>1, ProbeReadsBinding
  <2>3. CASE EraseFound(op, k, s)
    <3>1. /\ entries' = [entries EXCEPT ![s] = EmptyEntry]
          /\ Used(entries, s) /\ entries[s].key = k /\ s \in UsedSlots(entries)
      BY <2>1, <2>3 DEF EraseFound, ProbeEnds, UsedSlots
    <3>2. /\ UsedSlots(entries') = UsedSlots(entries) \ {s}
          /\ \A t \in UsedSlots(entries') : entries'[t] = entries[t]
      BY <2>1, <3>1 DEF UsedSlots, Used, EmptyEntry
    <3>3. ret' = Map!Answer(op, k, NullValue, entries[s].value)
      BY <2>3 DEF EraseFound
    <3>4. Bindings(entries') = [Bindings(entries) EXCEPT ![entries[s].key] = NullValue]
      <4> HIDE DEF Bindings
      <4> QED
        BY <2>1, <3>1, <3>2, RemovalUnbinds, Zenon
    <3> QED
      BY <2>2, <3>1, <3>3, <3>4
  <2>4. CASE EraseMissing(op, k, s)
    <3>1. ~Used(entries, s) /\ entries' = entries /\ ret' = Map!Answer(op, k, NullValue, NullValue)
      BY <2>4 DEF EraseMissing, table
    <3> QED
      BY <2>2, <3>1, BindingsIsFunction
  <2> QED
    BY <1>2, <2>3, <2>4
<1> QED
  BY <1>1, <1>2 DEF EraseCall

LEMMA FixUpStepRefines ==
  ASSUME TypeOK, TableInv, FixUpStep
  PROVE  UNCHANGED Map!vars
<1> DEFINE e == entries[next]
           cleared == [entries EXCEPT ![next] = EmptyEntry]
<1>1. /\ capacity \in Nat /\ entries \in [Slots(capacity) -> Entry]
      /\ next \in Slots(capacity) /\ Used(entries, next)
      /\ next \in UsedSlots(entries) /\ UNCHANGED ret
  BY DEF TypeOK, FixUpStep, UsedSlots
<1>2. HashesKeptIn(entries) /\ KeysUniqueIn(entries)
  BY DEF TableInv, HashesKept, KeysUnique
<1>3. /\ cleared \in [Slots(capacity) -> Entry]
      /\ UsedSlots(cleared) = UsedSlots(entries) \ {next}
      /\ \A t \in UsedSlots(cleared) : cleared[t] = entries[t]
  BY <1>1, HashTableAssumption
     DEF Used, EmptyEntry, Entry, HASHTABLE_INVALID_KEY, UsedSlots
<1>4. e.key \in Key /\ e.hash = fnHashCode[e.key] /\ fnHashCode[e.key] # 0
  BY <1>1, <1>2 DEF HashesKeptIn, Used, HASHTABLE_INVALID_KEY
<1>5. PICK s \in Slots(capacity) :
        /\ ProbeEnds(cleared, capacity, e.hash, e.key, s)
        /\ entries' = SetEntry(cleared, s, e.hash, e.key, e.value)
  BY DEF FixUpStep
<1> HIDE DEF cleared
<1>6. /\ HashesKeptIn(cleared) /\ KeysUniqueIn(cleared)
      /\ \A t \in UsedSlots(cleared) : cleared[t].key # e.key
  BY <1>1, <1>2, <1>3 DEF HashesKeptIn, KeysUniqueIn
<1>7. Bindings(cleared) = [Bindings(entries) EXCEPT ![e.key] = NullValue]
  BY <1>1, <1>2, <1>3, <1>4, RemovalUnbinds
<1>8. Used(cleared, s) => cleared[s].key = e.key
  BY <1>5 DEF ProbeEnds
<1>9. Bindings(entries') = Rebound(Bindings(cleared), e.key, e.value)
  BY <1>1, <1>3, <1>4, <1>5, <1>6, <1>8, SetEntryBinds
<1>10. Bindings(entries)[e.key] = e.value
  BY <1>1, <1>2, <1>4, BindingOfStored
<1>11. Bindings(entries') = Bindings(entries)
  BY <1>4, <1>7, <1>9, <1>10, BindingsIsFunction DEF Rebound
<1> QED
  BY <1>1, <1>11 DEF Map!vars

LEMMA GetRefines ==
  ASSUME TypeOK, TableInv, NEW k \in Key, Get(k)
  PROVE  Map!Get(k) \/ UNCHANGED Map!vars
<1>1. entries' = entries /\ pc = "idle"
  BY DEF Get, table
<1>2. CASE UNCHANGED ret
  BY <1>1, <1>2 DEF Map!vars
<1>3. ASSUME NEW s \in Slots(capacity),
             ProbeEnds(entries, capacity, fnHashCode[k], k, s),
             ret' = Map!Answer("get", k, NullValue, IF Used(entries, s)
                                         THEN entries[s].value ELSE NullValue)
      PROVE  Map!Get(k)
  <2>1. Bindings(entries)[k] = IF Used(entries, s) THEN entries[s].value ELSE NullValue
    BY <1>1, <1>3, ProbeReadsBinding
       DEF TypeOK, TableInv, HashesKept, KeysUnique, ChainsIntact
  <2> QED
    BY <1>1, <1>3, <2>1 DEF Map!Get
<1> QED
  BY <1>2, <1>3 DEF Get

(* A table without used slots binds nothing.                                 *)
LEMMA EmptyBindsNothing ==
  ASSUME NEW e, UsedSlots(e) = {}
  PROVE  Bindings(e) = Map!Nothing
BY DEF Bindings, Map!Nothing

LEMMA MapInit == Init => Map!Init
BY NothingUsed, EmptyBindsNothing DEF Init, Map!Init

LEMMA MapNext == TypeOK /\ TableInv /\ [Next]_vars => [Map!Next]_(Map!vars)
<1> SUFFICES ASSUME TypeOK, TableInv, [Next]_vars
             PROVE  Map!Next \/ UNCHANGED Map!vars
  OBVIOUS
<1>1. CASE \/ New \/ NewFails \/ FixUpDone \/ ExpandStep \/ Aborted \/ UNCHANGED vars
           \/ \E k \in Key, v \in Value : ExpandStart(k, v)
  BY <1>1
     DEF New, NewFails, FixUpDone, ExpandStep, Aborted, vars, ExpandStart, table, Map!vars
<1>2. CASE NewEntries
  <2>1. /\ entries' = EmptyTable(InitialCapacity) /\ UNCHANGED ret
        /\ UsedSlots(entries') = {} /\ UsedSlots(entries) = {}
    BY <1>2, NothingUsed, HashTableAssumption DEF NewEntries, TypeOK, UsedSlots, Slots
  <2> QED
    BY <2>1, EmptyBindsNothing DEF Map!vars
<1>3. CASE Free
  <2>1. UsedSlots(entries') = {} /\ ret' = Map!NoAnswer
    BY <1>3, NothingUsed DEF Free
  <2> QED
    BY <2>1, EmptyBindsNothing DEF Map!Next, Map!Reset
<1>4. CASE ExpandDone
  <2>1. arg.key \in Key /\ arg.value \in Value
    BY <1>4 DEF TypeOK, ExpandDone
  <2> QED
    BY <1>4, <2>1, ExpandDoneRefines DEF Map!Next
<1>5. CASE FixUpStep
  BY <1>5, FixUpStepRefines
<1>6. ASSUME NEW k \in Key, Get(k)
      PROVE  Map!Next \/ UNCHANGED Map!vars
  BY <1>6, GetRefines DEF Map!Next
<1>7. ASSUME NEW k \in Key, Erase(k)
      PROVE  Map!Next \/ UNCHANGED Map!vars
  BY <1>7, EraseCallRefines DEF Erase, Map!Next, Map!Erase
<1>8. ASSUME NEW k \in Key, PutNull(k)
      PROVE  Map!Next \/ UNCHANGED Map!vars
  BY <1>8, EraseCallRefines DEF PutNull, Map!Next, Map!Put
<1>9. ASSUME NEW k \in Key, NEW v \in Value, PutInPlace(k, v)
      PROVE  Map!Next \/ UNCHANGED Map!vars
  BY <1>9, PutInPlaceRefines DEF Map!Next
<1>10. ASSUME NEW k \in Key, NEW v \in Value, PutRefused(k, v)
       PROVE  Map!Next \/ UNCHANGED Map!vars
  BY <1>10 DEF PutRefused, table, Map!Next, Map!PutRefused
<1> QED
  BY <1>1, <1>2, <1>3, <1>4, <1>5, <1>6, <1>7, <1>8, <1>9, <1>10 DEF Next, Internal

(* The table implements the map: every operation changes the bindings and    *)
(* answers as the map does, whatever collides, is erased, moved by ht_fix_up *)
(* or copied by ht_expand, and whatever allocation fails.                    *)
THEOREM TableIsAMap == Spec => RefinesMap
BY MapInit, MapNext, TypeCorrect, TableCorrect, PTL DEF Spec, RefinesMap, Map!Spec
-----------------------------------------------------------------------------
(* ht_each.  The callback may put and erase, so the loop can only rely on    *)
(* what a table always satisfies, TableInv, and on the keys that keep their  *)
(* slots.                                                                    *)

(* The loop and its callbacks take steps of the table only.                  *)
LEMMA EachTakesTableSteps == [EachNext]_eachVars => [Next]_vars
BY DEF EachNext, eachVars, OutsideCall, CallbackCall, EachStart, EachLoop, EachSkip,
       EachCall, EachDone, CallbackReturns, EachStop, Aborted, Calls, Next

(* So the table is the table of IceHashTable, inside of the loop and out of  *)
(* it.                                                                       *)
LEMMA EachKeepsTable == EachSpec => [](TypeOK /\ TableInv)
<1>1. EachInit => TypeOK /\ TableInv
  BY TypeInit, TableInit DEF EachInit
<1>2. TypeOK /\ TableInv /\ [EachNext]_eachVars => (TypeOK /\ TableInv)'
  BY TypeNext, TableNext, EachTakesTableSteps
<1> QED
  BY <1>1, <1>2, PTL DEF EachSpec
-----------------------------------------------------------------------------
(* No used slot holds nullValue.                                             *)

ValuesStoredIn(e) == \A s \in UsedSlots(e) : e[s].value \in Value

ValuesStored == ValuesStoredIn(entries) /\ ValuesStoredIn(new_entries)

LEMMA SetEntryStoresValue ==
  ASSUME NEW e, ValuesStoredIn(e), NEW s \in DOMAIN e, NEW hash, NEW key,
         NEW value \in Value
  PROVE  ValuesStoredIn(SetEntry(e, s, hash, key, value))
<1> DEFINE f == SetEntry(e, s, hash, key, value)
<1>1. DOMAIN f = DOMAIN e /\ f[s].value = value
  BY DEF SetEntry
<1>2. \A t \in DOMAIN e : t # s => f[t] = e[t]
  BY DEF SetEntry
<1>3. ASSUME NEW t \in UsedSlots(f)
      PROVE  f[t].value \in Value
  BY <1>1, <1>2 DEF ValuesStoredIn, UsedSlots, Used
<1> QED
  BY <1>3 DEF ValuesStoredIn

(* Clearing a slot takes nothing else away.                                  *)
LEMMA ClearingKeepsValues ==
  ASSUME NEW e, ValuesStoredIn(e), NEW s \in DOMAIN e
  PROVE  ValuesStoredIn([e EXCEPT ![s] = EmptyEntry])
BY DEF ValuesStoredIn, UsedSlots, Used, EmptyEntry, HASHTABLE_INVALID_KEY

LEMMA PutEntryStoresValue ==
  ASSUME NEW cap, NEW e \in [Slots(cap) -> Entry], ValuesStoredIn(e),
         NEW k, NEW v \in Value, PutEntry(e, cap, k, v)
  PROVE  ValuesStoredIn(entries')
<1>1. CASE entries' = e
  BY <1>1
<1>2. ASSUME NEW s \in Slots(cap), entries' = SetEntry(e, s, fnHashCode[k], k, v)
      PROVE  ValuesStoredIn(entries')
  BY <1>2, SetEntryStoresValue
<1> QED
  BY <1>1, <1>2 DEF PutEntry

LEMMA ValuesInit == Init => ValuesStored
BY DEF Init, ValuesStored, ValuesStoredIn, NoTable, UsedSlots

LEMMA EmptyStoresNothing ==
  ASSUME NEW cap
  PROVE  ValuesStoredIn(EmptyTable(cap)) /\ ValuesStoredIn(NoTable)
BY DEF EmptyTable, EmptyEntry, NoTable, ValuesStoredIn, UsedSlots, Used

LEMMA ValuesNext == TypeOK /\ ValuesStored /\ [Next]_vars => ValuesStored'
<1> SUFFICES ASSUME TypeOK, ValuesStored, [Next]_vars PROVE ValuesStored'
  OBVIOUS
<1> USE DEF ValuesStored
<1>1. CASE UNCHANGED <<entries, new_entries>>
  BY <1>1 DEF ValuesStoredIn, UsedSlots, Used
<1>2. CASE NewEntries
  BY <1>2, EmptyStoresNothing DEF NewEntries, growing
<1>3. CASE Free
  BY <1>3, EmptyStoresNothing DEF Free, growing
<1>4. ASSUME NEW op, NEW k \in Key, NEW s \in Slots(capacity), EraseFound(op, k, s)
      PROVE  ValuesStored'
  BY <1>4, ClearingKeepsValues DEF EraseFound, growing, TypeOK
<1>5. ASSUME NEW k \in Key, NEW v \in Value, PutInPlace(k, v)
      PROVE  ValuesStored'
  BY <1>5, PutEntryStoresValue DEF PutInPlace, growing, TypeOK
<1>6. ASSUME NEW k \in Key, NEW v \in Value, ExpandStart(k, v)
      PROVE  ValuesStored'
  BY <1>6, EmptyStoresNothing DEF ExpandStart, table
<1>7. CASE ExpandStep
  <2>1. entries' = entries /\ ValuesStoredIn(entries)
    BY <1>7 DEF ExpandStep, table
  <2>2. CASE UNCHANGED new_entries
    BY <2>1, <2>2
  <2>3. ASSUME NEW s \in Slots(2 * capacity), Used(entries, i),
               new_entries' = SetEntry(new_entries, s, entries[i].hash,
                                       entries[i].key, entries[i].value)
        PROVE  ValuesStored'
    <3>1. i \in UsedSlots(entries) /\ s \in DOMAIN new_entries
      BY <1>7, <2>3 DEF ExpandStep, TypeOK, UsedSlots, Slots
    <3>2. entries[i].value \in Value
      BY <3>1, <2>1 DEF ValuesStoredIn
    <3> QED
      BY <2>1, <2>3, <3>1, <3>2, SetEntryStoresValue
  <2> QED
    BY <1>7, <2>2, <2>3 DEF ExpandStep
<1>8. CASE ExpandDone
  BY <1>8, PutEntryStoresValue, EmptyStoresNothing DEF ExpandDone, TypeOK
<1>9. CASE FixUpStep
  <2> DEFINE e == entries[next]
             cleared == [entries EXCEPT ![next] = EmptyEntry]
  <2>1. PICK s \in Slots(capacity) :
          entries' = SetEntry(cleared, s, e.hash, e.key, e.value)
    BY <1>9 DEF FixUpStep
  <2>2. next \in UsedSlots(entries) /\ s \in DOMAIN cleared
    BY <1>9 DEF FixUpStep, TypeOK, UsedSlots
  <2>3. ValuesStoredIn(cleared) /\ e.value \in Value
    BY <2>2, ClearingKeepsValues DEF ValuesStoredIn, UsedSlots
  <2>4. new_entries' = new_entries
    BY <1>9 DEF FixUpStep, growing
  <2> HIDE DEF cleared
  <2> QED
    BY <2>1, <2>2, <2>3, <2>4, SetEntryStoresValue
<1> QED
  BY <1>1, <1>2, <1>3, <1>4, <1>5, <1>6, <1>7, <1>8, <1>9
     DEF Next, Internal, vars, New, NewFails, FixUpDone, Aborted, Get, Erase, PutNull,
         EraseCall, EraseMissing, PutRefused, table, growing
-----------------------------------------------------------------------------
(* The loop.                                                                 *)

LEMMA EachTypeInit == EachInit => EachTypeOK
BY DEF EachInit, EachTypeOK, NoArg, NoVisits

(* The steps of a call that begins on an idle table leave it idle, aborted   *)
(* or inside of ht_fix_up or ht_expand.                                      *)
LEMMA CallsKeepTable ==
  ASSUME pc \in {"idle", "fixup", "expand", "aborted"}, Internal \/ Calls
  PROVE  pc' \in {"idle", "fixup", "expand", "aborted"}
BY DEF Internal, Calls, NewEntries, NewFails, ExpandStep, ExpandDone, FixUpStep, FixUpDone,
       Get, Erase, PutNull, EraseCall, EraseFound, EraseMissing, AssertFails, PutInPlace,
       PutEntry, PutRefused, ExpandStart

LEMMA EachTypeNext ==
  TypeOK /\ TableInv /\ EachTypeOK /\ [EachNext]_eachVars => EachTypeOK'
<1> SUFFICES ASSUME TypeOK, TableInv, EachTypeOK, [EachNext]_eachVars PROVE EachTypeOK'
  OBVIOUS
<1> USE DEF EachTypeOK
<1>1. CASE OutsideCall
  BY <1>1 DEF OutsideCall, NoArg, NoVisits
<1>2. CASE CallbackCall
  BY <1>2, CallsKeepTable DEF CallbackCall
<1>3. CASE EachStart
  BY <1>3 DEF EachStart, NoArg, NoVisits, vars
<1>4. CASE EachSkip
  BY <1>4 DEF EachSkip, vars
<1>5. CASE EachCall
  <2>1. at \in UsedSlots(entries) /\ entries[at] \in Entry /\ entries[at].key \in Key
    BY <1>5 DEF EachCall, EachHasMore, TypeOK, TableInv, HashesKept, HashesKeptIn,
                UsedSlots, Slots
  <2>2. given' \in [key : Key \cup {NullKey}, value : Value \cup {NullValue}]
    BY <1>5, <2>1 DEF EachCall, Entry
  <2>3. visits' \in [Key -> 0 .. 2]
    BY <1>5, <2>1 DEF EachCall
  <2> QED
    BY <1>5, <2>2, <2>3 DEF EachCall, vars
<1>6. CASE EachDone
  BY <1>6 DEF EachDone, vars
<1>7. CASE CallbackReturns
  BY <1>7 DEF CallbackReturns, vars, NoArg
<1>8. CASE UNCHANGED eachVars
  BY <1>8 DEF eachVars, loop, vars
<1> QED
  BY <1>1, <1>2, <1>3, <1>4, <1>5, <1>6, <1>7, <1>8
     DEF EachNext, EachLoop, EachStop, Aborted, eachVars

(* The slot the loop has passed: before the index, or at it in the callback. *)
Passed(s) == s < at \/ (s = at /\ each = "called")

(* While the loop runs, a key that has kept its slot has been visited if the *)
(* loop has passed the slot, and then once.                                  *)
VisitsExact ==
  each # "none" =>
    \A k \in stayed : \E s \in UsedSlots(entries) :
      entries[s].key = k /\ visits[k] = IF Passed(s) THEN 1 ELSE 0

EachInv ==
  /\ TypeOK /\ TableInv /\ EachTypeOK
  /\ ValuesStored
  /\ VisitsExact
  /\ each = "none" => EachOnce

LEMMA EachInvInit == EachInit => EachInv
BY TypeInit, TableInit, ValuesInit, EachTypeInit
   DEF EachInit, EachInv, VisitsExact, EachOnce

LEMMA EachInvNext == EachInv /\ [EachNext]_eachVars => EachInv'
<1> SUFFICES ASSUME EachInv, [EachNext]_eachVars PROVE EachInv'
  OBVIOUS
<1>0. /\ TypeOK /\ TableInv /\ EachTypeOK /\ ValuesStored /\ KeysUniqueIn(entries)
      /\ UsedSlots(entries) \subseteq Nat
      /\ \A s \in UsedSlots(entries) : s < capacity
      /\ at \in Nat /\ visits \in [Key -> 0 .. 2] /\ stayed \subseteq Key
      /\ capacity \in Nat
  BY DEF EachInv, TableInv, KeysUnique, TypeOK, EachTypeOK, UsedSlots, Slots
<1>1. (TypeOK /\ TableInv /\ EachTypeOK /\ ValuesStored)'
  BY <1>0, TypeNext, TableNext, EachTypeNext, ValuesNext, EachTakesTableSteps
<1>2. (VisitsExact /\ (each = "none" => EachOnce))'
  <2>1. CASE OutsideCall
    BY <2>1 DEF OutsideCall, VisitsExact, EachOnce
  <2>2. CASE CallbackCall
    <3>1. each = "called" /\ UNCHANGED <<each, at, visits>>
      BY <2>2 DEF CallbackCall
    <3>2. ASSUME NEW k \in stayed'
          PROVE  \E s \in UsedSlots(entries') :
                   entries'[s].key = k /\ visits'[k] = IF Passed(s)' THEN 1 ELSE 0
      <4>1. k \in stayed /\ Stays(k)
        BY <2>2 DEF CallbackCall
      <4>2. PICK s \in UsedSlots(entries) : entries[s].key = k /\ Holds(entries', s, k)
        BY <4>1 DEF Stays, Holds
      <4>3. PICK t \in UsedSlots(entries) :
              entries[t].key = k /\ visits[k] = IF Passed(t) THEN 1 ELSE 0
        BY <3>1, <4>1 DEF EachInv, VisitsExact
      <4>4. t = s
        BY <1>0, <4>2, <4>3 DEF KeysUniqueIn
      <4> QED
        BY <3>1, <4>2, <4>3, <4>4 DEF Holds, Passed
    <3> QED
      BY <3>1, <3>2 DEF VisitsExact
  <2>3. CASE EachStart
    <3>1. /\ entries' = entries /\ each' = "test" /\ at' = 0 /\ visits' = NoVisits
          /\ stayed' = {k \in Key : \E s \in DOMAIN entries : Holds(entries, s, k)}
      BY <2>3 DEF EachStart, vars
    <3>2. ASSUME NEW k \in stayed'
          PROVE  \E s \in UsedSlots(entries') :
                   entries'[s].key = k /\ visits'[k] = IF Passed(s)' THEN 1 ELSE 0
      BY <1>0, <3>1 DEF Holds, NoVisits, Passed
    <3> QED
      BY <3>1, <3>2 DEF VisitsExact
  <2>4. CASE EachSkip
    <3>1. /\ each = "test" /\ ~Used(entries, at) /\ at' = at + 1
          /\ UNCHANGED <<entries, each, visits, stayed>>
      BY <2>4 DEF EachSkip, vars
    <3>2. ASSUME NEW s \in UsedSlots(entries)
          PROVE  Passed(s)' <=> Passed(s)
      <4>1. s \in Nat /\ s # at
        BY <1>0, <3>1 DEF UsedSlots
      <4> QED
        BY <1>0, <3>1, <4>1 DEF Passed
    <3> QED
      BY <3>1, <3>2 DEF EachInv, VisitsExact
  <2>5. CASE EachCall
    <3>1. /\ each = "test" /\ at \in UsedSlots(entries) /\ each' = "called"
          /\ visits' = [visits EXCEPT ![entries[at].key] = IF @ = 0 THEN 1 ELSE 2]
          /\ UNCHANGED <<entries, at, stayed>>
      BY <2>5, <1>0 DEF EachCall, EachHasMore, TypeOK, UsedSlots, Slots, vars
    <3>2. ASSUME NEW k \in stayed
          PROVE  \E s \in UsedSlots(entries) :
                   entries[s].key = k /\ visits'[k] = IF Passed(s)' THEN 1 ELSE 0
      <4>1. PICK s \in UsedSlots(entries) :
              entries[s].key = k /\ visits[k] = IF Passed(s) THEN 1 ELSE 0
        BY <3>1 DEF EachInv, VisitsExact
      <4>2. CASE s = at
        BY <1>0, <3>1, <4>1, <4>2 DEF Passed
      <4>3. CASE s # at
        <5>1. entries[at].key # k
          BY <1>0, <3>1, <4>1, <4>3 DEF KeysUniqueIn
        <5>2. visits'[k] = visits[k]
          BY <1>0, <3>1, <5>1
        <5>3. Passed(s)' <=> Passed(s)
          BY <3>1, <4>3 DEF Passed
        <5> QED
          BY <4>1, <5>2, <5>3
      <4> QED
        BY <4>2, <4>3
    <3> QED
      BY <3>1, <3>2 DEF VisitsExact
  <2>6. CASE EachDone
    <3>1. /\ each = "test" /\ ~(at < capacity) /\ each' = "none"
          /\ UNCHANGED <<visits, stayed>>
      BY <2>6 DEF EachDone, EachHasMore
    <3>2. ASSUME NEW s \in UsedSlots(entries)
          PROVE  Passed(s)
      <4>1. s \in Nat /\ s < capacity
        BY <1>0
      <4> QED
        BY <1>0, <3>1, <4>1 DEF Passed
    <3>3. \A k \in stayed : visits[k] = 1
      BY <3>1, <3>2 DEF EachInv, VisitsExact
    <3> QED
      BY <3>1, <3>3 DEF VisitsExact, EachOnce
  <2>7. CASE CallbackReturns
    <3>1. each = "called" /\ UNCHANGED <<entries, visits, stayed>>
      BY <2>7 DEF CallbackReturns, vars
    <3>2. CASE each' = "test" /\ at' = at + 1
      <4>1. ASSUME NEW s \in UsedSlots(entries)
            PROVE  Passed(s)' <=> Passed(s)
        <5>1. s \in Nat
          BY <1>0
        <5> QED
          BY <1>0, <3>1, <3>2, <5>1 DEF Passed
      <4> QED
        BY <3>1, <3>2, <4>1 DEF EachInv, VisitsExact
    <3>3. CASE each' = "none" /\ err' \in Errors
      <4>1. \A k \in stayed : visits[k] <= 1
        BY <3>1 DEF EachInv, VisitsExact
      <4> QED
        BY <3>1, <3>3, <4>1, HashEachAssumption DEF VisitsExact, EachOnce
    <3> QED
      BY <2>7, <3>2, <3>3 DEF CallbackReturns
  <2>8. CASE UNCHANGED eachVars
    BY <2>8 DEF eachVars, loop, vars, EachInv, VisitsExact, EachOnce, Passed
  <2> QED
    BY <2>1, <2>2, <2>3, <2>4, <2>5, <2>6, <2>7, <2>8
       DEF EachNext, EachLoop, EachStop, Aborted, eachVars
<1> QED
  BY <1>1, <1>2 DEF EachInv

(* The inductive invariant of the loop, together with that of the table it   *)
(* walks over, for every behaviour of the callbacks.                         *)
THEOREM HashEachCorrect == EachSpec => []EachInv
BY EachInvInit, EachInvNext, PTL DEF EachSpec

(* A key that keeps its slot is visited once: no reader is shown an entry    *)
(* twice or misses one, whatever other entries come and go.                  *)
THEOREM EachVisitsOnce == EachSpec => []EachOnce
<1>1. EachInv => EachOnce
  <2> SUFFICES ASSUME EachInv, each # "none" PROVE \A k \in stayed : visits[k] <= 1
    BY DEF EachInv, EachOnce
  <2> QED
    BY DEF EachInv, VisitsExact
<1> QED
  BY <1>1, HashEachCorrect, PTL

(* The callback is called with what the table says of the key at that time.  *)
THEOREM CallbacksGetBindings == EachSpec => EachGivesBindings
<1>1. EachInv /\ [EachNext]_eachVars =>
        (each' = "called" /\ each = "test" =>
           /\ given'.key \in Key /\ given'.value # NullValue
           /\ given'.value = Bindings(entries)[given'.key])
  <2> SUFFICES ASSUME EachInv, [EachNext]_eachVars, each' = "called", each = "test"
               PROVE  /\ given'.key \in Key /\ given'.value # NullValue
                      /\ given'.value = Bindings(entries)[given'.key]
    OBVIOUS
  <2>1. EachCall
    BY DEF EachNext, EachLoop, OutsideCall, CallbackCall, EachStart, EachSkip, EachDone,
           CallbackReturns, EachStop, eachVars, loop
  <2>2. at \in UsedSlots(entries)
    BY <2>1 DEF EachCall, EachHasMore, EachInv, EachTypeOK, TypeOK, UsedSlots, Slots
  <2>3. entries[at].key \in Key /\ entries[at].value \in Value /\ KeysUniqueIn(entries)
    BY <2>2 DEF EachInv, TableInv, HashesKept, HashesKeptIn, KeysUnique, ValuesStored,
                ValuesStoredIn
  <2>4. given'.key = entries[at].key /\ given'.value = entries[at].value
    BY <2>1 DEF EachCall
  <2> QED
    BY <2>2, <2>3, <2>4, BindingOfStored, HashTableAssumption
<1> QED
  BY <1>1, HashEachCorrect, PTL DEF EachSpec, EachGivesBindings

(* With loops and callbacks the table is still the map of IceMap.            *)
THEOREM WalkedTableIsAMap == EachSpec => RefinesMap
<1>1. EachInit => Map!Init
  BY MapInit DEF EachInit
<1>2. TypeOK /\ TableInv /\ [EachNext]_eachVars => [Map!Next]_(Map!vars)
  BY MapNext, EachTakesTableSteps
<1> QED
  BY <1>1, <1>2, EachKeepsTable, PTL DEF EachSpec, RefinesMap, Map!Spec
=============================================================================
