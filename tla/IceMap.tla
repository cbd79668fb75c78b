------------------------------- MODULE IceMap -------------------------------
(***************************************************************************)
(* What a table made by makeHashTableApi promises its caller: a partial    *)
(* map from keys to values.  The operations and their results are those    *)
(* of ht_<name>_get, _put and _erase; slots, probing, capacity and         *)
(* rehashing are not visible here.                                         *)
(***************************************************************************)
CONSTANTS Key, Value, NullValue

VARIABLES map,  \* the value bound to each key, NullValue for none
          ret   \* the last call, and the result it handed to the caller

vars == <<map, ret>>

Nothing == [k \in Key |-> NullValue]

Answer(op, k, v, result) ==
  [op |-> op, key |-> k, value |-> v, result |-> result]

NoAnswer == [op |-> "none"]

Init == map = Nothing /\ ret = NoAnswer

(* _new and _free start and end the life of a table, and drop every binding. *)
Reset == map' = Nothing /\ ret' = NoAnswer

Get(k) == ret' = Answer("get", k, NullValue, map[k]) /\ UNCHANGED map

(* _put binds the key, or unbinds it when given nullValue, and returns the   *)
(* value it was bound to before.                                             *)
Put(k, v) ==
  /\ map' = [map EXCEPT ![k] = v]
  /\ ret' = Answer("put", k, v, map[k])

(* A _put the table has no memory for changes nothing and returns nullValue: *)
(* the caller cannot tell it from the first binding of a key.                *)
PutRefused(k, v) == ret' = Answer("put", k, v, NullValue) /\ UNCHANGED map

Erase(k) ==
  /\ map' = [map EXCEPT ![k] = NullValue]
  /\ ret' = Answer("erase", k, NullValue, map[k])

Next ==
  \/ Reset
  \/ \E k \in Key : Get(k) \/ Erase(k)
  \/ \E k \in Key, v \in Value : PutRefused(k, v)
  \/ \E k \in Key, v \in Value \cup {NullValue} : Put(k, v)

Spec == Init /\ [][Next]_vars
=============================================================================
