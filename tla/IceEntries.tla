----------------------------- MODULE IceEntries -----------------------------
(***************************************************************************)
(* What a buffer made by makeBufOfTypeApi promises its caller: entries     *)
(* that keep what is written to them, the first lim of them in use, and    *)
(* pointers that lead to the entry they were given out for.  Bytes,        *)
(* alignment and blocks of memory are not visible here.                    *)
(***************************************************************************)
EXTENDS Integers, Sequences

CONSTANTS
  Byte, Whole(_),  \* byte values, and the entry that has one in all its bytes
  Size             \* the indexes and sizes callers pass

VARIABLES
  entries,  \* the contents of all entries there is room for
  lim,      \* the number of entries in use
  held,     \* the entry a pointer of the caller leads to
  ret       \* the last call, and what it handed to the caller

vars == <<entries, lim, held, ret>>

NoEntry == -1

Answer(op, args, err, val) ==
  [op |-> op, args |-> args, err |-> err, val |-> val]

NoAnswer == Answer("none", <<>>, "COL_OK", NoEntry)

Init == entries = <<>> /\ lim = 0 /\ held = NoEntry /\ ret = NoAnswer

Reset == entries' = <<>> /\ lim' = 0 /\ held' = NoEntry /\ ret' = NoAnswer

Done(op, args) == ret' = Answer(op, args, "COL_OK", NoEntry)

Fails(op, args, err) ==
  ret' = Answer(op, args, err, NoEntry) /\ UNCHANGED <<entries, lim, held>>

(* There is room for n entries now; those there were are what they were.     *)
Extended(n) ==
  IF n <= Len(entries) THEN UNCHANGED entries
  ELSE Len(entries') >= n /\ SubSeq(entries', 1, Len(entries)) = entries

(* Growing ends the life of the pointers handed out before.                  *)
StillHeld(n) == IF n <= Len(entries) THEN held ELSE NoEntry

Refused(op, args, n) == n > Len(entries) /\ Fails(op, args, "COL_ERR_BAD_ALLOC")

Reserve(n) ==
  Extended(n) /\ held' = StillHeld(n) /\ Done("reserve", <<n>>) /\ UNCHANGED lim

(* The caller is given the entry e, and may go on with the pointer it has.   *)
Gives(op, args, e, old) ==
  ret' = Answer(op, args, "COL_OK", e) /\ held' \in {old, e}

EmplaceBack ==
  /\ Extended(lim + 1) /\ lim' = lim + 1
  /\ Gives("emplace_back", <<>>, lim, StillHeld(lim + 1))

Back ==
  \/ lim = 0 /\ Fails("back", <<>>, "COL_ERR_UNDERFLOW")
  \/ lim > 0 /\ Gives("back", <<>>, lim - 1, held) /\ UNCHANGED <<entries, lim>>

Overflow(op, i, args) == i >= lim /\ Fails(op, args, "COL_ERR_OVERFLOW")

Get(i) ==
  \/ Overflow("get", i, <<i>>)
  \/ i < lim /\ Gives("get", <<i>>, i, held) /\ UNCHANGED <<entries, lim>>

Memset(i, c) ==
  \/ Overflow("memset", i, <<i, c>>)
  \/ /\ i < lim /\ entries' = [entries EXCEPT ![i + 1] = Whole(c)]
     /\ Done("memset", <<i, c>>) /\ UNCHANGED <<lim, held>>

(* The limit goes no further than there is room.                             *)
SetLim(n) ==
  /\ lim' = IF n < Len(entries) THEN n ELSE Len(entries)
  /\ Done("set_lim", <<n>>) /\ UNCHANGED <<entries, held>>

Clear == lim' = 0 /\ Done("clear", <<>>) /\ UNCHANGED <<entries, held>>

(* The caller writes through the pointer it holds.                           *)
Write(c) ==
  /\ held # NoEntry /\ entries' = [entries EXCEPT ![held + 1] = Whole(c)]
  /\ UNCHANGED <<lim, held, ret>>

Next ==
  \/ Reset \/ EmplaceBack \/ Refused("emplace_back", <<>>, lim + 1) \/ Back \/ Clear
  \/ \E n \in Size :
       \/ Reserve(n) \/ Refused("reserve", <<n>>, n) \/ SetLim(n) \/ Get(n)
       \/ \E c \in Byte : Memset(n, c)
  \/ \E c \in Byte : Write(c)

Spec == Init /\ [][Next]_vars
=============================================================================
