------------------------------- MODULE IceSeq -------------------------------
(***************************************************************************)
(* What a vector made by makeVecOfTypeApi promises its caller: a sequence. *)
(* Indexes count from 0 as in the code.  Memory, capacity and where the    *)
(* elements lie are not visible here.                                      *)
(***************************************************************************)
EXTENDS SequencesExt

CONSTANTS Value, Index, NoValue

VARIABLES seq,  \* the elements
          ret   \* the last call, and what it handed to the caller

vars == <<seq, ret>>

Answer(op, args, err, val) ==
  [op |-> op, args |-> args, err |-> err, val |-> val]

NoAnswer == Answer("none", <<>>, "COL_OK", NoValue)

Init == seq = <<>> /\ ret = NoAnswer

Reset == seq' = <<>> /\ ret' = NoAnswer

(* A call that may need memory fails without it and changes nothing.         *)
Refused(op, args) ==
  ret' = Answer(op, args, "COL_ERR_BAD_ALLOC", NoValue) /\ UNCHANGED seq

Reserve(n) == ret' = Answer("reserve", <<n>>, "COL_OK", NoValue) /\ UNCHANGED seq

PushBack(v) ==
  seq' = Append(seq, v) /\ ret' = Answer("push_back", <<v>>, "COL_OK", NoValue)

(* An insert past the end appends.                                           *)
Insert(i, v) ==
  /\ seq' = IF i < Len(seq) THEN InsertAt(seq, i + 1, v) ELSE Append(seq, v)
  /\ ret' = Answer("insert", <<i, v>>, "COL_OK", NoValue)

Back ==
  /\ ret' = IF seq = <<>> THEN Answer("back", <<>>, "COL_ERR_UNDERFLOW", NoValue)
                          ELSE Answer("back", <<>>, "COL_OK", Last(seq))
  /\ UNCHANGED seq

PopBack(want) ==
  \/ /\ seq = <<>>
     /\ ret' = Answer("pop_back", <<want>>, "COL_ERR_UNDERFLOW", NoValue)
     /\ UNCHANGED seq
  \/ /\ seq # <<>>
     /\ seq' = Front(seq)
     /\ ret' = Answer("pop_back", <<want>>, "COL_OK", IF want THEN Last(seq) ELSE NoValue)

Illegal(op, i, args) ==
  /\ i >= Len(seq)
  /\ ret' = Answer(op, args, "COL_ERR_ILLEGAL_ARGUMENT", NoValue)
  /\ UNCHANGED seq

Get(i) ==
  \/ Illegal("get", i, <<i>>)
  \/ i < Len(seq) /\ ret' = Answer("get", <<i>>, "COL_OK", seq[i + 1]) /\ UNCHANGED seq

Set(i, v) ==
  \/ Illegal("set", i, <<i, v>>)
  \/ /\ i < Len(seq)
     /\ seq' = ReplaceAt(seq, i + 1, v)
     /\ ret' = Answer("set", <<i, v>>, "COL_OK", NoValue)

Erase(i) ==
  \/ Illegal("erase", i, <<i>>)
  \/ /\ i < Len(seq)
     /\ seq' = RemoveAt(seq, i + 1)
     /\ ret' = Answer("erase", <<i>>, "COL_OK", NoValue)

Clear == seq' = <<>> /\ ret' = Answer("clear", <<>>, "COL_OK", NoValue)

Begin == ret' = Answer("begin", <<>>, "COL_OK", 0) /\ UNCHANGED seq

(* The vector only promises that nothing but elements lies between _begin    *)
(* and _end, not that all of them do.                                        *)
End == \E n \in 0 .. Len(seq) : ret' = Answer("end", <<>>, "COL_OK", n) /\ UNCHANGED seq

Next ==
  \/ Reset \/ Back \/ Clear \/ Begin \/ End
  \/ \E n \in Index : Reserve(n) \/ Refused("reserve", <<n>>)
  \/ \E v \in Value : PushBack(v) \/ Refused("push_back", <<v>>)
  \/ \E want \in BOOLEAN : PopBack(want)
  \/ \E i \in Index : Get(i) \/ Erase(i)
  \/ \E i \in Index, v \in Value :
       Insert(i, v) \/ Refused("insert", <<i, v>>) \/ Set(i, v)

Spec == Init /\ [][Next]_vars
=============================================================================
