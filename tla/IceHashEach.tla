---------------------------- MODULE IceHashEach ----------------------------
(***************************************************************************)
(* ht_each of ice_hash_table_macros.h, over the table of IceHashTable.     *)
(* The callback is the caller's code: it may get, put and erase in the     *)
(* table that is being walked over, so that ht_expand and ht_fix_up move   *)
(* entries under the loop, and it may return an error.                     *)
(***************************************************************************)
EXTENDS IceHashTable

CONSTANT Errors    \* the errors callbacks return

ASSUME HashEachAssumption == "COL_OK" \notin Errors

VARIABLES
  each,     \* ht_each: not running ("none"), at the test of its loop, or in
            \* the callback ("called")
  at,       \* the index of the loop
  given,    \* the copy of the entry that the callback was called with
  err,      \* what the last ht_each returned, "none" before
  visits,   \* how many calls each key got, two standing for more, ...
  stayed    \* ... and the keys that have kept their slot since ht_each began

loop == <<each, at, given, err, visits, stayed>>

eachVars == <<vars, loop>>

NoVisits == [k \in Key |-> 0]

EachInit ==
  /\ Init
  /\ each = "none" /\ at = 0 /\ given = NoArg /\ err = "none"
  /\ visits = NoVisits /\ stayed = {}
-----------------------------------------------------------------------------
(* The table, between loops and from within the callback.                    *)

Holds(e, s, k) == s \in UsedSlots(e) /\ e[s].key = k

(* The key has had the same slot before and after the step.                  *)
Stays(k) == \E s \in UsedSlots(entries) : Holds(entries, s, k) /\ Holds(entries', s, k)

Calls ==
  \/ \E k \in Key : Get(k) \/ Erase(k) \/ PutNull(k)
  \/ \E k \in Key, v \in Value :
       PutInPlace(k, v) \/ PutRefused(k, v) \/ ExpandStart(k, v)

(* Calls of the program outside of ht_each; what the last one did is         *)
(* forgotten.                                                                *)
OutsideCall ==
  /\ each = "none"
  /\ New \/ Free \/ Internal \/ Calls
  /\ given' = NoArg /\ err' = "none" /\ visits' = NoVisits /\ stayed' = {}
  /\ UNCHANGED <<each, at>>

(* Calls of the callback: all but ht_free, which would leave ht_each without *)
(* a table.                                                                  *)
CallbackCall ==
  /\ each = "called"
  /\ Internal \/ Calls
  /\ stayed' = {k \in stayed : Stays(k)}
  /\ UNCHANGED <<each, at, given, err, visits>>
-----------------------------------------------------------------------------
(* The loop.                                                                 *)

EachStart ==
  /\ pc = "idle" /\ each = "none"
  /\ each' = "test" /\ at' = 0 /\ given' = NoArg /\ err' = "none"
  /\ visits' = NoVisits
  /\ stayed' = {k \in Key : \E s \in DOMAIN entries : Holds(entries, s, k)}
  /\ UNCHANGED vars

(* Mutant: the last slot is left out.                                        *)
EachHasMoreShort == at + 1 < capacity

(* The capacity is read anew in each iteration.                              *)
EachHasMore == at < capacity

EachSkip ==
  /\ each = "test" /\ EachHasMore /\ ~Used(entries, at)
  /\ at' = at + 1
  /\ UNCHANGED <<vars, each, given, err, visits, stayed>>

(* Mutant: free slots are not told from used ones.                           *)
EachCallAny ==
  /\ each = "test" /\ EachHasMore
  /\ each' = "called"
  /\ given' = [key |-> entries[at].key, value |-> entries[at].value]
  /\ visits' = [visits EXCEPT ![entries[at].key] = IF @ = 0 THEN 1 ELSE 2]
  /\ UNCHANGED <<vars, at, err, stayed>>

EachCall ==
  /\ each = "test" /\ EachHasMore /\ Used(entries, at)
  /\ each' = "called"
  /\ given' = [key |-> entries[at].key, value |-> entries[at].value]
  /\ visits' = [visits EXCEPT ![entries[at].key] = IF @ = 0 THEN 1 ELSE 2]
  /\ UNCHANGED <<vars, at, err, stayed>>

(* Mutant: after a call the loop does not go on to the next slot.            *)
CallbackReturnsStuck ==
  /\ each = "called" /\ pc = "idle"
  /\ each' = "test"
  /\ UNCHANGED <<vars, at, given, err, visits, stayed>>

(* An error ends the loop.                                                   *)
CallbackReturns ==
  /\ each = "called" /\ pc = "idle"
  /\ \/ each' = "test" /\ at' = at + 1 /\ UNCHANGED err
     \/ each' = "none" /\ err' \in Errors /\ UNCHANGED at
  /\ given' = NoArg
  /\ UNCHANGED <<vars, visits, stayed>>

EachDone ==
  /\ each = "test" /\ ~EachHasMore
  /\ each' = "none" /\ err' = "COL_OK"
  /\ UNCHANGED <<vars, at, given, visits, stayed>>

(* The steps ht_each takes by itself.                                        *)
EachLoop == EachSkip \/ EachCall \/ EachDone

EachStop == Aborted /\ UNCHANGED loop

EachNext ==
  OutsideCall \/ CallbackCall \/ EachStart \/ EachLoop \/ CallbackReturns \/ EachStop

(* A thread inside a call keeps running it.  A callback comes to its return  *)
(* again and again, between the calls it makes; in the end it returns.       *)
EachSpec ==
  /\ EachInit /\ [][EachNext]_eachVars
  /\ WF_eachVars(Internal /\ (OutsideCall \/ CallbackCall))
  /\ WF_eachVars(EachLoop)
  /\ SF_eachVars(CallbackReturns)
-----------------------------------------------------------------------------
(* Properties.                                                               *)

(* The type of the state: a loop runs over a table that is there and, but    *)
(* for the calls of its callback, is not in the middle of a call.            *)
EachTypeOK ==
  /\ each \in {"none", "test", "called"}
  /\ each = "test" => pc = "idle"
  /\ each = "called" => pc \in {"idle", "fixup", "expand", "aborted"}
  /\ at \in Nat
  /\ given \in [key : Key \cup {NullKey}, value : Value \cup {NullValue}]
  /\ err \in Errors \cup {"none", "COL_OK"}
  /\ visits \in [Key -> 0 .. 2]
  /\ stayed \subseteq Key

(* Whatever the callback does to the table, a key that keeps its slot is     *)
(* visited no more than once, and exactly once by a loop that returns        *)
(* COL_OK.  So a callback that only reads, updates, or inserts without       *)
(* growth sees what was in the table, all of it, and once.                   *)
EachOnce ==
  \A k \in stayed :
    /\ visits[k] <= 1
    /\ each = "none" /\ err = "COL_OK" => visits[k] = 1

(* Each call of the callback is for a key that is bound at that time, with   *)
(* the value it is bound to: no free, erased or out of date entry is handed  *)
(* out, though the callbacks before may have moved every one of them.        *)
EachGivesBindings ==
  [][each' = "called" /\ each = "test" =>
       /\ given'.key \in Key /\ given'.value # NullValue
       /\ given'.value = Bindings(entries)[given'.key]]_eachVars

(* ht_each ends if its callbacks return: those that put cannot keep it going *)
(* for ever, memory being finite.                                            *)
EachEnds == each # "none" ~> (each = "none" \/ pc = "aborted")
=============================================================================
