--------------------------- MODULE IceEachProofs ---------------------------
(***************************************************************************)
(* What is proved about IceEach: the safety of the loops, whatever their   *)
(* callbacks do.                                                           *)
(***************************************************************************)
EXTENDS IceEach, SequenceTheorems, TLAPS

(* The inductive invariant: where each loop is after so many calls.          *)

(* No call has failed but, of a loop that is over, the last.                 *)
Phases ==
  /\ op = "none" => pc = "idle" /\ visits = <<>>
  /\ pc = "last" => op = "each_reverse"
  /\ pc \in {"called", "last"} => visits # <<>>
  /\ pc # "idle" => \A k \in DOMAIN visits : visits[k].err = "COL_OK"

(* A forward loop calls for 0, 1, 2 and so on, below the length.             *)
ForwardPlace ==
  op \in {"each", "search"} =>
    /\ \A k \in DOMAIN visits : visits[k].at = k - 1 /\ k <= MaxLen
    /\ pc = "test" => i = Len(visits)
    /\ pc = "called" => i = Len(visits) - 1

(* A reverse loop, if there is an element at its start, counts down to 0.    *)
ReversePlace ==
  op = "each_reverse" =>
    /\ visits = <<>> => pc = "test" /\ i = LastIndex
    /\ visits # <<>> /\ visits[1].len > 0 =>
         /\ \A k \in DOMAIN visits : visits[k].at = visits[1].len - k
         /\ pc = "test" => i + 1 = visits[1].len - Len(visits)
         /\ pc = "called" => i = visits[1].len - Len(visits) /\ i > 0
         /\ pc = "last" => Len(visits) = visits[1].len

(* A search goes on only from an element that is not wanted.                 *)
SearchPlace ==
  op = "search" =>
    \A k \in DOMAIN visits : k < Len(visits) \/ pc = "test" => ~visits[k].hit

EachInv ==
  /\ TypeOK /\ Phases /\ ForwardPlace /\ ReversePlace /\ SearchPlace
  /\ ForwardInRange /\ EachVisitsAll /\ ReverseVisitsAll /\ ErrorEndsLoop
  /\ SearchFindsFirst
-----------------------------------------------------------------------------
LEMMA Constants ==
  /\ SizeMax \in Nat /\ MaxLen \in Nat /\ 1 <= MaxLen /\ MaxLen <= SizeMax
  /\ "COL_OK" \notin Errors /\ Kind \subseteq {"vec", "buf", "arr"}
  /\ Index = 0 .. SizeMax /\ NoIndex \notin Index
BY EachAssumption DEF Index

LEMMA Bounds == SizeMax \in Nat /\ MaxLen \in Nat /\ 1 <= MaxLen /\ MaxLen <= SizeMax
BY Constants

(* Arithmetic in size_t, where it does not wrap and anyway.                  *)
LEMMA Wrapping ==
  /\ \A x \in Int : x % (SizeMax + 1) \in Index
  /\ \A x \in Index : x % (SizeMax + 1) = x
BY Constants

(* A call is recorded behind the calls before it.                            *)
LEMMA RecordedIs ==
  ASSUME visits \in Seq(Calls), NEW c \in Calls, Recorded(c)
  PROVE  /\ visits' \in Seq(Calls) /\ visits' # <<>>
         /\ \A k \in DOMAIN visits' :
              visits'[k] = IF k \in DOMAIN visits THEN visits[k] ELSE c
         /\ Len(visits) <= SizeMax => Len(visits') = Len(visits) + 1
<1>1. CASE Len(visits) <= SizeMax
  <2>1. PICK w : w = visits'
    OBVIOUS
  <2>2. w = Append(visits, c)
    BY <1>1, <2>1 DEF Recorded
  <2>3. /\ w \in Seq(Calls) /\ Len(w) = Len(visits) + 1 /\ w # <<>>
        /\ \A k \in 1 .. Len(w) : w[k] = IF k <= Len(visits) THEN visits[k] ELSE c
    BY <2>2, AppendProperties
  <2>4. DOMAIN w = 1 .. Len(w) /\ DOMAIN visits = 1 .. Len(visits) /\ Len(visits) \in Nat
    BY <2>3, LenProperties
  <2>5. \A k \in DOMAIN w : w[k] = IF k \in DOMAIN visits THEN visits[k] ELSE c
    BY <2>3, <2>4
  <2> QED
    BY <2>1, <2>3, <2>5
<1>2. CASE ~(Len(visits) <= SizeMax)
  <2>1. visits' = visits
    BY <1>2 DEF Recorded
  <2>2. visits # <<>>
    BY <1>2, Constants
  <2> QED
    BY <1>2, <2>1, <2>2
<1> QED
  BY <1>1, <1>2

(* The error that was returned is noted at the last call.                    *)
LEMMA ReturnedIs ==
  ASSUME visits \in Seq(Calls), visits # <<>>,
         NEW err \in Errors \cup {"COL_OK"}, Returned(err)
  PROVE  /\ visits' \in Seq(Calls) /\ visits' # <<>>
         /\ Len(visits') = Len(visits) /\ DOMAIN visits' = DOMAIN visits
         /\ \A k \in DOMAIN visits :
              /\ visits'[k].at = visits[k].at /\ visits'[k].len = visits[k].len
              /\ visits'[k].hit = visits[k].hit
              /\ visits'[k].err = IF k = Len(visits) THEN err ELSE visits[k].err
<1>1. PICK n : n = Len(visits)
  OBVIOUS
<1>2. n \in Nat /\ n > 0 /\ DOMAIN visits = 1 .. n
  BY <1>1, LenProperties, EmptySeq
<1>3. PICK w : w = visits'
  OBVIOUS
<1>4. PICK c : c = [visits[n] EXCEPT !.err = err]
  OBVIOUS
<1>5. visits[n] \in Calls
  BY <1>2, ElementOfSeq, <1>1
<1>6. /\ c \in Calls /\ c.at = visits[n].at /\ c.len = visits[n].len
      /\ c.hit = visits[n].hit /\ c.err = err
  BY <1>4, <1>5 DEF Calls
<1>7. w = [visits EXCEPT ![n] = c]
  BY <1>1, <1>3, <1>4 DEF Returned
<1>8. w \in Seq(Calls) /\ Len(w) = n
  BY <1>1, <1>2, <1>6, <1>7, ExceptSeq
<1>9. DOMAIN w = 1 .. n
  BY <1>8, LenProperties
<1>10. \A k \in 1 .. n : w[k] = IF k = n THEN c ELSE visits[k]
  BY <1>2, <1>7
<1> QED
  BY <1>1, <1>2, <1>3, <1>6, <1>8, <1>9, <1>10, EmptySeq

(* What a callback does to a container leaves it one.                        *)
LEMMA ChangeTyped ==
  ASSUME seq \in Seq(Value), Len(seq) <= MaxLen, Change
  PROVE  seq' \in Seq(Value) /\ Len(seq') <= MaxLen
<1>1. PICK n : n = Len(seq)
  OBVIOUS
<1>2. n \in Nat /\ DOMAIN seq = 1 .. n /\ n <= MaxLen
  BY <1>1, LenProperties
<1>3. PICK t : t = seq'
  OBVIOUS
<1>4. SUFFICES t \in Seq(Value) /\ Len(t) <= MaxLen
  BY <1>3
<1>5. ASSUME NEW k \in 1 .. n, NEW v \in Value, t = ReplaceAt(seq, k, v)
      PROVE  t \in Seq(Value) /\ Len(t) <= MaxLen
  BY <1>1, <1>2, <1>5, ExceptSeq DEF ReplaceAt
<1>6. ASSUME NEW v \in Value, n < MaxLen, t = Append(seq, v)
      PROVE  t \in Seq(Value) /\ Len(t) <= MaxLen
  BY <1>1, <1>2, <1>6, AppendProperties, Constants
<1>7. ASSUME NEW k \in 1 .. n, NEW v \in Value, n < MaxLen, t = InsertAt(seq, k, v)
      PROVE  t \in Seq(Value) /\ Len(t) <= MaxLen
  <2>1. PICK a, b, u : a = SubSeq(seq, 1, k - 1) /\ b = SubSeq(seq, k, n) /\ u = <<v>>
    OBVIOUS
  <2>2. /\ a \in Seq(Value) /\ Len(a) = k - 1
        /\ b \in Seq(Value) /\ Len(b) = n - k + 1
    BY <1>1, <1>2, <2>1, SubSeqProperties
  <2>3. u \in Seq(Value) /\ Len(u) = 1
    BY <2>1
  <2>4. (a \o u) \in Seq(Value) /\ Len(a \o u) = Len(a) + Len(u)
    BY <2>2, <2>3, ConcatProperties
  <2>5. t = (a \o u) \o b
    BY <1>1, <1>7, <2>1 DEF InsertAt
  <2>6. t \in Seq(Value) /\ Len(t) = Len(a \o u) + Len(b)
    BY <2>2, <2>4, <2>5, ConcatProperties
  <2> QED
    BY <1>2, <1>7, <2>2, <2>3, <2>4, <2>6, Constants
<1>8. ASSUME NEW k \in 1 .. n, t = RemoveAt(seq, k)
      PROVE  t \in Seq(Value) /\ Len(t) <= MaxLen
  <2>1. PICK a, b : a = SubSeq(seq, 1, k - 1) /\ b = SubSeq(seq, k + 1, n)
    OBVIOUS
  <2>2. /\ a \in Seq(Value) /\ Len(a) = k - 1
        /\ b \in Seq(Value) /\ Len(b) = n - k
    BY <1>1, <1>2, <2>1, SubSeqProperties
  <2>3. t = a \o b
    BY <1>1, <1>8, <2>1 DEF RemoveAt
  <2>4. t \in Seq(Value) /\ Len(t) = Len(a) + Len(b)
    BY <2>2, <2>3, ConcatProperties
  <2> QED
    BY <1>2, <2>2, <2>4, Constants
<1>9. ASSUME NEW m \in 0 .. MaxLen, t \in [1 .. m -> Value]
      PROVE  t \in Seq(Value) /\ Len(t) <= MaxLen
  BY <1>9, IsASeq, Constants
<1>10. t = <<>> => t \in Seq(Value) /\ Len(t) <= MaxLen
  BY EmptySeq, Constants
<1>11. Written \/ Pushed => t \in Seq(Value) /\ Len(t) <= MaxLen
  BY <1>1, <1>2, <1>3, <1>5, <1>6 DEF Written, Pushed
<1>12. VecChange => t \in Seq(Value) /\ Len(t) <= MaxLen
  BY <1>1, <1>2, <1>3, <1>7, <1>8, <1>10, <1>11 DEF VecChange
<1>13. BufChange => t \in Seq(Value) /\ Len(t) <= MaxLen
  BY <1>3, <1>9, <1>11 DEF BufChange
<1> QED
  BY <1>11, <1>12, <1>13 DEF Change
(* The type and the places of a loop that has made no call yet.              *)
LEMMA NoCallsYet == <<>> \in Seq(Calls) /\ Len(<<>>) = 0 /\ DOMAIN <<>> = {}
BY EmptySeq, LenProperties

LEMMA NoResultTyped ==
  /\ NoResult \in [err : Errors \cup {"COL_OK"}, index : Index \cup {NoIndex}]
  /\ NoResult.err = "COL_OK"
BY DEF NoResult, Result

LEMMA InitEach == Init => EachInv
<1> SUFFICES ASSUME Init PROVE EachInv
  OBVIOUS
<1>1. /\ kind \in Kind /\ op = "none" /\ pc = "idle" /\ i = 0 /\ visits = <<>>
      /\ ret = NoResult
  BY DEF Init
<1>2. seq \in Seq(Value) /\ Len(seq) <= MaxLen
  <2>1. CASE kind = "arr"
    BY <2>1, IsASeq, Constants DEF Init
  <2>2. CASE kind # "arr"
    BY <2>2, EmptySeq, Constants DEF Init
  <2> QED
    BY <2>1, <2>2
<1>3. TypeOK
  BY <1>1, <1>2, NoCallsYet, NoResultTyped, Constants DEF TypeOK
<1>4. Phases /\ ForwardPlace /\ ReversePlace /\ SearchPlace
  BY <1>1, NoCallsYet DEF Phases, ForwardPlace, ReversePlace, SearchPlace
<1>5. ForwardInRange /\ EachVisitsAll /\ ReverseVisitsAll /\ SearchFindsFirst
  BY <1>1 DEF ForwardInRange, EachVisitsAll, ReverseVisitsAll, SearchFindsFirst, ReturnedOK
<1>6. ErrorEndsLoop
  BY <1>1, NoCallsYet, NoResultTyped DEF ErrorEndsLoop
<1> QED
  BY <1>3, <1>4, <1>5, <1>6 DEF EachInv

(* Between loops the caller changes the container, and forgets the last loop. *)
LEMMA CallerStep == EachInv /\ CallerChanges => EachInv'
<1> SUFFICES ASSUME EachInv, CallerChanges PROVE EachInv'
  OBVIOUS
<1>1. /\ kind' = kind /\ op' = "none" /\ pc' = "idle" /\ i' = 0 /\ visits' = <<>>
      /\ ret' = NoResult
  BY DEF CallerChanges
<1>2. seq' \in Seq(Value) /\ Len(seq') <= MaxLen
  BY ChangeTyped DEF CallerChanges, EachInv, TypeOK
<1>3. TypeOK'
  BY <1>1, <1>2, NoCallsYet, NoResultTyped, Constants DEF EachInv, TypeOK
<1>4. Phases' /\ ForwardPlace' /\ ReversePlace' /\ SearchPlace'
  BY <1>1, NoCallsYet DEF Phases, ForwardPlace, ReversePlace, SearchPlace
<1>5. ForwardInRange' /\ EachVisitsAll' /\ ReverseVisitsAll' /\ SearchFindsFirst'
  BY <1>1 DEF ForwardInRange, EachVisitsAll, ReverseVisitsAll, SearchFindsFirst, ReturnedOK
<1>6. ErrorEndsLoop'
  BY <1>1, NoCallsYet, NoResultTyped DEF ErrorEndsLoop
<1> QED
  BY <1>3, <1>4, <1>5, <1>6 DEF EachInv

(* A callback may change the container: what has been promised of the calls  *)
(* is about the lengths at the time, or is asked for when the loop is over.  *)
LEMMA CallbackStep == EachInv /\ CallbackChanges => EachInv'
<1> SUFFICES ASSUME EachInv, CallbackChanges PROVE EachInv'
  OBVIOUS
<1>1. /\ UNCHANGED <<kind, op, pc, i, visits, ret>>
      /\ pc \in {"called", "last"} /\ visits # <<>>
  BY DEF CallbackChanges, EachInv, Phases
<1>2. seq' \in Seq(Value) /\ Len(seq') <= MaxLen
  BY ChangeTyped DEF CallbackChanges, EachInv, TypeOK
<1>3. TypeOK'
  BY <1>1, <1>2 DEF EachInv, TypeOK
<1>4. Phases' /\ ForwardPlace' /\ ReversePlace' /\ SearchPlace'
  BY <1>1 DEF EachInv, Phases, ForwardPlace, ReversePlace, SearchPlace
<1>5. ForwardInRange' /\ EachVisitsAll' /\ ReverseVisitsAll' /\ SearchFindsFirst'
  BY <1>1 DEF EachInv, ForwardInRange, EachVisitsAll, ReverseVisitsAll,
              SearchFindsFirst, ReturnedOK
<1>6. ErrorEndsLoop'
  BY <1>1 DEF EachInv, ErrorEndsLoop
<1> QED
  BY <1>3, <1>4, <1>5, <1>6 DEF EachInv

(* A loop begins with its index where it should be.                          *)
LEMMA StartStep ==
  ASSUME EachInv,
         \/ Start("each", 0) \/ Start("search", 0)
         \/ Start("each_reverse", LastIndex)
  PROVE  EachInv'
<1>1. /\ UNCHANGED <<kind, seq>> /\ pc' = "test" /\ visits' = <<>> /\ ret' = NoResult
      /\ op' \in {"each", "search", "each_reverse"}
      /\ op' # "each_reverse" => i' = 0
      /\ op' = "each_reverse" => i' = LastIndex
  BY DEF Start
<1>2. LastIndex \in Index
  BY Wrapping, LenProperties DEF EachInv, TypeOK, LastIndex
<1>3. LastIndex' = LastIndex
  BY <1>1 DEF LastIndex
<1>4. TypeOK'
  BY <1>1, <1>2, NoCallsYet, NoResultTyped, Constants DEF EachInv, TypeOK
<1>5. Phases' /\ SearchPlace' /\ ForwardPlace'
  BY <1>1, NoCallsYet DEF Phases, ForwardPlace, SearchPlace
<1>6. ReversePlace'
  BY <1>1, <1>3, NoCallsYet DEF ReversePlace
<1>7. ForwardInRange' /\ EachVisitsAll' /\ ReverseVisitsAll' /\ SearchFindsFirst'
  BY <1>1, NoCallsYet
     DEF ForwardInRange, EachVisitsAll, ReverseVisitsAll, SearchFindsFirst, ReturnedOK
<1>8. ErrorEndsLoop'
  BY <1>1, NoCallsYet DEF ErrorEndsLoop
<1> QED
  BY <1>4, <1>5, <1>6, <1>7, <1>8 DEF EachInv
(* A call is for the element at the index, if there is one.                  *)
LEMMA VisitIs ==
  ASSUME EachInv, NEW at \in Index
  PROVE  /\ Visit(at) \in Calls /\ Visit(at).at = at /\ Visit(at).len = Len(seq)
         /\ Visit(at).err = "COL_OK" /\ Len(seq) \in 0 .. MaxLen
<1>1. Len(seq) \in 0 .. MaxLen
  BY LenProperties, Constants DEF EachInv, TypeOK
<1>2. (at < Len(seq) /\ seq[at + 1] \in Wanted) \in BOOLEAN
  OBVIOUS
<1> QED
  BY <1>1, <1>2 DEF Visit, Calls

LEMMA CallStep == EachInv /\ Call => EachInv'
<1> SUFFICES ASSUME EachInv, Call PROVE EachInv'
  OBVIOUS
<1>1. /\ UNCHANGED <<kind, seq, op, i, ret>> /\ pc = "test" /\ pc' = "called"
      /\ HasMore /\ Recorded(Visit(i)) /\ i \in Index /\ visits \in Seq(Calls)
  BY DEF Call, EachInv, TypeOK
<1>2. PICK c, w : c = Visit(i) /\ w = visits'
  OBVIOUS
<1>3. /\ c \in Calls /\ c.at = i /\ c.len = Len(seq) /\ c.err = "COL_OK"
      /\ Len(seq) \in 0 .. MaxLen
  BY <1>1, <1>2, VisitIs
<1>4. /\ w \in Seq(Calls) /\ w # <<>>
      /\ \A k \in DOMAIN w : w[k] = IF k \in DOMAIN visits THEN visits[k] ELSE c
      /\ Len(visits) <= SizeMax => Len(w) = Len(visits) + 1
  BY <1>1, <1>2, <1>3, RecordedIs
<1>5. /\ DOMAIN w = 1 .. Len(w) /\ Len(w) \in Nat /\ Len(w) > 0
      /\ DOMAIN visits = 1 .. Len(visits) /\ Len(visits) \in Nat
      /\ visits # <<>> => Len(visits) > 0
  BY <1>1, <1>4, LenProperties, EmptySeq
<1>6. TypeOK'
  BY <1>1, <1>2, <1>4 DEF EachInv, TypeOK
<1>7. Phases'
  <2>1. \A k \in DOMAIN w : w[k].err = "COL_OK"
    BY <1>1, <1>3, <1>4 DEF EachInv, Phases
  <2> QED
    BY <1>1, <1>2, <1>4, <2>1 DEF EachInv, Phases
<1>8. ASSUME op \in {"each", "search"}
      PROVE  /\ Len(w) = Len(visits) + 1 /\ i = Len(visits)
             /\ \A k \in DOMAIN w : w[k].at = k - 1 /\ k <= MaxLen /\ w[k].at < w[k].len
  <2>1. i = Len(visits) /\ i < Len(seq)
    BY <1>1, <1>8 DEF EachInv, ForwardPlace, HasMore
  <2>2. Len(w) = Len(visits) + 1
    <3>1. Len(visits) <= SizeMax
      BY <1>3, <1>5, <2>1, Bounds
    <3> QED
      BY <1>4, <3>1
  <2>3. \A k \in DOMAIN visits :
          visits[k].at = k - 1 /\ k <= MaxLen /\ visits[k].at < visits[k].len
    BY <1>8 DEF EachInv, ForwardPlace, ForwardInRange
  <2>4. ASSUME NEW k \in DOMAIN w, k \notin DOMAIN visits
        PROVE  w[k] = c /\ k = Len(visits) + 1
    BY <1>4, <1>5, <2>2, <2>4
  <2>5. \A k \in DOMAIN w : k \in DOMAIN visits => w[k] = visits[k]
    BY <1>4
  <2>6. ASSUME NEW k \in DOMAIN w
        PROVE  w[k].at = k - 1 /\ k <= MaxLen /\ w[k].at < w[k].len
    <3>1. CASE k \in DOMAIN visits
      BY <2>3, <2>5, <3>1
    <3>2. CASE k \notin DOMAIN visits
      <4>1. w[k] = c /\ k = Len(visits) + 1
        BY <2>4, <3>2
      <4>2. k = i + 1 /\ w[k].at = i /\ w[k].len = Len(seq)
        BY <1>3, <2>1, <4>1
      <4> QED
        BY <1>1, <1>3, <2>1, <4>2, Bounds, Constants
    <3> QED
      BY <3>1, <3>2
  <2> QED
    BY <2>1, <2>2, <2>6
<1>9. ForwardPlace' /\ ForwardInRange'
  <2>1. \A m, n \in Nat : n = m + 1 => m = n - 1
    OBVIOUS
  <2>2. op \in {"each", "search"} => i = Len(w) - 1
    BY <1>5, <1>8, <2>1
  <2> QED
    BY <1>1, <1>2, <1>8, <2>2 DEF ForwardPlace, ForwardInRange
<1>10. ReversePlace'
  <2> SUFFICES ASSUME op = "each_reverse", w[1].len > 0
               PROVE  /\ \A k \in DOMAIN w : w[k].at = w[1].len - k
                      /\ i = w[1].len - Len(w) /\ i > 0
    BY <1>1, <1>2, <1>4 DEF ReversePlace
  <2>1. i > 0
    BY <1>1 DEF HasMore
  <2>2. CASE visits = <<>>
    <3>1. Len(visits) = 0 /\ DOMAIN visits = {} /\ Len(w) = 1 /\ w[1] = c
      BY <1>4, <1>5, <2>2, NoCallsYet, Constants
    <3>2. i = LastIndex
      BY <2>2 DEF EachInv, ReversePlace
    <3>3. Len(seq) - 1 \in Index
      BY <1>3, <3>1, Constants
    <3>4. i = Len(seq) - 1
      BY <3>2, <3>3, Wrapping DEF LastIndex
    <3> QED
      BY <1>3, <1>4, <1>5, <2>1, <3>1, <3>4
  <2>3. CASE visits # <<>>
    <3>1. 1 \in DOMAIN visits /\ w[1] = visits[1] /\ visits[1] \in Calls
      <4>1. Len(visits) > 0 /\ 1 \in DOMAIN visits
        BY <1>5, <2>3
      <4>2. 1 \in DOMAIN w
        BY <1>5
      <4>3. visits[1] \in Calls
        BY <1>1, <1>5, <4>1, ElementOfSeq
      <4> QED
        BY <1>4, <4>1, <4>2, <4>3
    <3>2. PICK n : n = visits[1].len
      OBVIOUS
    <3>3. n \in 0 .. MaxLen /\ n > 0 /\ w[1].len = n
      BY <3>1, <3>2 DEF Calls
    <3>4. /\ \A k \in DOMAIN visits : visits[k].at = n - k
          /\ i + 1 = n - Len(visits)
      BY <1>1, <2>3, <3>2, <3>3 DEF EachInv, ReversePlace
    <3>5. Len(w) = Len(visits) + 1
      <4>1. Len(visits) <= SizeMax
        BY <1>1, <1>5, <3>3, <3>4, Bounds, Constants
      <4> QED
        BY <1>4, <4>1
    <3>6. ASSUME NEW k \in DOMAIN w
          PROVE  w[k].at = n - k
      <4>1. CASE k \in DOMAIN visits
        BY <1>4, <3>4, <4>1
      <4>2. CASE k \notin DOMAIN visits
        <5>1. w[k] = c /\ k = Len(visits) + 1
          BY <1>4, <1>5, <3>5, <4>2
        <5> QED
          BY <1>1, <1>3, <1>5, <3>3, <3>4, <5>1, Constants
      <4> QED
        BY <4>1, <4>2
    <3>7. i = n - Len(w)
      BY <1>1, <1>5, <3>3, <3>4, <3>5, Constants
    <3> QED
      BY <2>1, <3>3, <3>6, <3>7
  <2> QED
    BY <2>2, <2>3
<1>11. SearchPlace'
  <2> SUFFICES ASSUME op = "search", NEW k \in DOMAIN w, k < Len(w)
               PROVE  ~w[k].hit
    BY <1>1, <1>2 DEF SearchPlace
  <2>1. k \in DOMAIN visits
    BY <1>5, <1>8
  <2> QED
    BY <1>1, <1>4, <2>1 DEF EachInv, SearchPlace
<1>12. EachVisitsAll' /\ ReverseVisitsAll' /\ SearchFindsFirst'
  BY <1>1 DEF EachVisitsAll, ReverseVisitsAll, SearchFindsFirst, ReturnedOK
<1>13. ErrorEndsLoop'
  BY <1>1, <1>2, <1>7 DEF ErrorEndsLoop, Phases
<1> QED
  BY <1>6, <1>7, <1>9, <1>10, <1>11, <1>12, <1>13 DEF EachInv
(* The extra call is for index 0, and the last index before it was 1: after  *)
(* it, one call for each element of the start has been made.                 *)
LEMMA ExtraCallStep == EachInv /\ ExtraCall => EachInv'
<1> SUFFICES ASSUME EachInv, ExtraCall PROVE EachInv'
  OBVIOUS
<1>1. /\ UNCHANGED <<kind, seq, op, i, ret>> /\ pc = "test" /\ pc' = "last"
      /\ op = "each_reverse" /\ i = 0 /\ Recorded(Visit(0))
      /\ visits \in Seq(Calls) /\ 0 \in Index
  BY Constants DEF ExtraCall, HasMore, EachInv, TypeOK
<1>2. PICK c, w : c = Visit(0) /\ w = visits'
  OBVIOUS
<1>3. /\ c \in Calls /\ c.at = 0 /\ c.len = Len(seq) /\ c.err = "COL_OK"
      /\ Len(seq) \in 0 .. MaxLen
  BY <1>1, <1>2, VisitIs
<1>4. /\ w \in Seq(Calls) /\ w # <<>>
      /\ \A k \in DOMAIN w : w[k] = IF k \in DOMAIN visits THEN visits[k] ELSE c
      /\ Len(visits) <= SizeMax => Len(w) = Len(visits) + 1
  BY <1>1, <1>2, <1>3, RecordedIs
<1>5. /\ DOMAIN w = 1 .. Len(w) /\ Len(w) \in Nat /\ Len(w) > 0
      /\ DOMAIN visits = 1 .. Len(visits) /\ Len(visits) \in Nat
      /\ visits # <<>> => Len(visits) > 0
  BY <1>1, <1>4, LenProperties, EmptySeq
<1>6. TypeOK'
  BY <1>1, <1>2, <1>4 DEF EachInv, TypeOK
<1>7. Phases'
  <2>1. \A k \in DOMAIN w : w[k].err = "COL_OK"
    BY <1>1, <1>3, <1>4 DEF EachInv, Phases
  <2> QED
    BY <1>1, <1>2, <1>4, <2>1 DEF EachInv, Phases
<1>8. ReversePlace'
  <2> SUFFICES ASSUME w[1].len > 0
               PROVE  /\ \A k \in DOMAIN w : w[k].at = w[1].len - k
                      /\ Len(w) = w[1].len
    BY <1>1, <1>2, <1>4 DEF ReversePlace
  <2>1. CASE visits = <<>>
    <3>1. Len(visits) = 0 /\ DOMAIN visits = {}
      BY <2>1, NoCallsYet
    <3>2. Len(w) = 1
      BY <1>4, <3>1, Bounds
    <3>3. w[1] = c
      BY <1>4, <1>5, <3>1, <3>2
    <3>4. LastIndex = 0
      BY <1>1, <2>1 DEF EachInv, ReversePlace
    <3>5. Len(seq) - 1 \in Index
      BY <1>3, <3>3, Bounds, Constants
    <3>6. Len(seq) = 1
      <4>1. LastIndex = Len(seq) - 1
        BY <3>5, Wrapping DEF LastIndex
      <4> QED
        BY <1>3, <3>4, <4>1
    <3> QED
      BY <1>3, <1>5, <3>2, <3>3, <3>6
  <2>2. CASE visits # <<>>
    <3>1. 1 \in DOMAIN visits /\ w[1] = visits[1] /\ visits[1] \in Calls
      <4>1. Len(visits) > 0 /\ 1 \in DOMAIN visits
        BY <1>5, <2>2
      <4>2. 1 \in DOMAIN w
        BY <1>5
      <4>3. visits[1] \in Calls
        BY <1>1, <1>5, <4>1, ElementOfSeq
      <4> QED
        BY <1>4, <4>1, <4>2, <4>3
    <3>2. PICK n : n = visits[1].len
      OBVIOUS
    <3>3. n \in 0 .. MaxLen /\ n > 0 /\ w[1].len = n
      BY <3>1, <3>2 DEF Calls
    <3>4. /\ \A k \in DOMAIN visits : visits[k].at = n - k
          /\ 1 = n - Len(visits)
      BY <1>1, <2>2, <3>2, <3>3 DEF EachInv, ReversePlace
    <3>5. Len(visits) <= SizeMax /\ Len(visits) + 1 = n
      BY <1>5, <3>3, <3>4, Bounds
    <3>6. Len(w) = n
      BY <1>4, <3>5
    <3>7. ASSUME NEW k \in DOMAIN w
          PROVE  w[k].at = n - k
      <4>1. CASE k \in DOMAIN visits
        BY <1>4, <3>4, <4>1
      <4>2. CASE k \notin DOMAIN visits
        <5>1. w[k] = c
          BY <1>4, <4>2
        <5>2. k = n
          BY <1>5, <3>5, <3>6, <4>2
        <5> QED
          BY <1>3, <3>3, <5>1, <5>2
      <4> QED
        BY <4>1, <4>2
    <3> QED
      BY <3>3, <3>6, <3>7
  <2> QED
    BY <2>1, <2>2
<1>9. ForwardPlace' /\ SearchPlace' /\ ForwardInRange'
  BY <1>1 DEF ForwardPlace, SearchPlace, ForwardInRange
<1>10. EachVisitsAll' /\ ReverseVisitsAll' /\ SearchFindsFirst'
  BY <1>1 DEF EachVisitsAll, ReverseVisitsAll, SearchFindsFirst, ReturnedOK
<1>11. ErrorEndsLoop'
  BY <1>1, <1>2, <1>7 DEF ErrorEndsLoop, Phases
<1> QED
  BY <1>6, <1>7, <1>8, <1>9, <1>10, <1>11 DEF EachInv

(* A forward loop that is over has come to the length there is now.          *)
LEMMA FinishStep == EachInv /\ Finish => EachInv'
<1> SUFFICES ASSUME EachInv, Finish PROVE EachInv'
  OBVIOUS
<1>1. /\ UNCHANGED <<kind, seq, op, i, visits>> /\ pc = "test" /\ pc' = "idle"
      /\ op \in {"each", "search"} /\ ~(i < Len(seq))
      /\ ret' = [err |-> "COL_OK", index |-> IF op = "search" THEN Len(seq) ELSE NoIndex]
  BY DEF Finish, HasMore, Result, EachInv, TypeOK, Phases
<1>2. Len(seq) \in 0 .. MaxLen /\ Len(seq) \in Index /\ Len(visits) \in Nat
      /\ DOMAIN visits = 1 .. Len(visits)
  BY LenProperties, Constants DEF EachInv, TypeOK
<1>3. i = Len(visits) /\ (\A k \in DOMAIN visits : visits[k].at = k - 1)
  BY <1>1 DEF EachInv, ForwardPlace
<1>4. /\ ret'.err = "COL_OK" /\ ret'.index = (IF op = "search" THEN Len(seq) ELSE NoIndex)
      /\ ret' \in [err : Errors \cup {"COL_OK"}, index : Index \cup {NoIndex}]
  BY <1>1, <1>2
<1>5. TypeOK'
  BY <1>1, <1>4 DEF EachInv, TypeOK
<1>6. Phases' /\ ForwardPlace' /\ ReversePlace' /\ ForwardInRange'
  BY <1>1 DEF EachInv, Phases, ForwardPlace, ReversePlace, ForwardInRange
<1>7. SearchPlace'
  BY <1>1 DEF EachInv, SearchPlace
<1>8. EachVisitsAll'
  <2>1. Len(visits) >= Len(seq)
    BY <1>1, <1>2, <1>3
  <2> QED
    BY <1>1, <1>3, <2>1 DEF EachVisitsAll, ReturnedOK
<1>9. ReverseVisitsAll'
  BY <1>1 DEF ReverseVisitsAll, ReturnedOK
<1>10. SearchFindsFirst'
  <2>1. op = "search" => ret'.index = Len(seq) /\ (\A k \in DOMAIN visits : ~visits[k].hit)
    BY <1>1, <1>4 DEF EachInv, SearchPlace
  <2> QED
    BY <1>1, <2>1 DEF SearchFindsFirst, ReturnedOK
<1>11. ErrorEndsLoop'
  <2>1. \A k \in DOMAIN visits : visits[k].err = "COL_OK"
    BY <1>1 DEF EachInv, Phases
  <2>2. visits # <<>> => Len(visits) \in DOMAIN visits
    BY <1>2, EmptySeq DEF EachInv, TypeOK
  <2> QED
    BY <1>1, <1>4, <2>1, <2>2 DEF ErrorEndsLoop, Last
<1> QED
  BY <1>5, <1>6, <1>7, <1>8, <1>9, <1>10, <1>11 DEF EachInv
(* What every return of a callback does to the calls recorded.               *)
LEMMA AnyReturn ==
  ASSUME EachInv, pc \in {"called", "last"},
         NEW err \in Errors \cup {"COL_OK"}, Returned(err), UNCHANGED <<kind, seq, op>>
  PROVE  /\ visits' \in Seq(Calls) /\ visits' # <<>> /\ visits # <<>>
         /\ Len(visits') = Len(visits) /\ DOMAIN visits' = DOMAIN visits
         /\ DOMAIN visits = 1 .. Len(visits) /\ Len(visits) \in Nat /\ Len(visits) > 0
         /\ \A k \in DOMAIN visits :
              /\ visits'[k].at = visits[k].at /\ visits'[k].len = visits[k].len
              /\ visits'[k].hit = visits[k].hit
              /\ visits'[k].err = IF k = Len(visits) THEN err ELSE "COL_OK"
         /\ ForwardInRange'
<1>1. visits \in Seq(Calls) /\ visits # <<>>
  BY DEF EachInv, TypeOK, Phases
<1>2. \A k \in DOMAIN visits : visits[k].err = "COL_OK"
  BY DEF EachInv, Phases
<1>3. DOMAIN visits = 1 .. Len(visits) /\ Len(visits) \in Nat /\ Len(visits) > 0
  BY <1>1, LenProperties, EmptySeq
<1>4. /\ visits' \in Seq(Calls) /\ visits' # <<>>
      /\ Len(visits') = Len(visits) /\ DOMAIN visits' = DOMAIN visits
      /\ \A k \in DOMAIN visits :
              /\ visits'[k].at = visits[k].at /\ visits'[k].len = visits[k].len
              /\ visits'[k].hit = visits[k].hit
              /\ visits'[k].err = IF k = Len(visits) THEN err ELSE visits[k].err
  BY <1>1, ReturnedIs
<1>5. ForwardInRange'
  BY <1>4 DEF EachInv, ForwardInRange
<1> QED
  BY <1>1, <1>2, <1>3, <1>4, <1>5

(* The loop goes on: its index is where the next call belongs.               *)
LEMMA ContinueStep ==
  ASSUME EachInv, pc = "called", Returned("COL_OK"), UNCHANGED <<kind, seq, op>>, Continue,
         op = "search" => ~visits[Len(visits)].hit
  PROVE  EachInv'
<1>1. PICK w, j : w = visits' /\ j = i'
  OBVIOUS
<1>2. /\ w \in Seq(Calls) /\ w # <<>> /\ visits # <<>>
      /\ Len(w) = Len(visits) /\ DOMAIN w = DOMAIN visits
      /\ DOMAIN visits = 1 .. Len(visits) /\ Len(visits) \in Nat /\ Len(visits) > 0
      /\ \A k \in DOMAIN visits :
           /\ w[k].at = visits[k].at /\ w[k].len = visits[k].len
           /\ w[k].hit = visits[k].hit /\ w[k].err = "COL_OK"
      /\ ForwardInRange'
  BY <1>1, AnyReturn
<1>3. /\ UNCHANGED <<kind, seq, op, ret>> /\ pc' = "test"
      /\ i \in Index /\ op \in {"each", "search", "each_reverse"}
      /\ op # "each_reverse" => j = (i + 1) % (SizeMax + 1)
      /\ op = "each_reverse" => j = (i - 1) % (SizeMax + 1)
  BY <1>1 DEF Continue, EachInv, TypeOK, Phases
<1>4. j \in Index
  <2>1. i + 1 \in Int /\ i - 1 \in Int
    BY <1>3, Constants
  <2> QED
    BY <1>3, <2>1, Wrapping
<1>5. TypeOK'
  BY <1>1, <1>2, <1>3, <1>4 DEF EachInv, TypeOK
<1>6. Phases'
  BY <1>1, <1>2, <1>3 DEF EachInv, Phases
<1>7. ForwardPlace'
  <2>1. ASSUME op \in {"each", "search"}
        PROVE  j = Len(visits)
    <3>1. i = Len(visits) - 1 /\ Len(visits) <= MaxLen
      BY <1>2, <2>1 DEF EachInv, ForwardPlace
    <3>2. i + 1 = Len(visits) /\ Len(visits) \in Index
      BY <1>2, <3>1, Bounds, Constants
    <3> QED
      BY <1>3, <2>1, <3>2, Wrapping
  <2>2. op \in {"each", "search"} =>
          \A k \in DOMAIN visits : w[k].at = k - 1 /\ k <= MaxLen
    BY <1>2 DEF EachInv, ForwardPlace
  <2> QED
    BY <1>1, <1>2, <1>3, <2>1, <2>2 DEF ForwardPlace
<1>8. ReversePlace'
  <2> SUFFICES ASSUME op = "each_reverse", w[1].len > 0
               PROVE  /\ \A k \in DOMAIN w : w[k].at = w[1].len - k
                      /\ j + 1 = w[1].len - Len(w)
    BY <1>1, <1>2, <1>3 DEF ReversePlace
  <2>1. PICK n : n = visits[1].len
    OBVIOUS
  <2>2. 1 \in DOMAIN visits /\ visits[1] \in Calls
    BY <1>2, ElementOfSeq DEF EachInv, TypeOK
  <2>3. w[1].len = n /\ n > 0 /\ n \in 0 .. MaxLen
    BY <1>2, <2>1, <2>2 DEF Calls
  <2>4. /\ \A k \in DOMAIN visits : visits[k].at = n - k
        /\ i = n - Len(visits) /\ i > 0
    BY <1>2, <2>1, <2>3 DEF EachInv, ReversePlace
  <2>5. i - 1 \in Index /\ (i - 1) + 1 = n - Len(visits)
    BY <1>2, <1>3, <2>3, <2>4, Bounds, Constants
  <2>6. j = i - 1
    BY <1>3, <2>5, Wrapping
  <2> QED
    BY <1>2, <2>3, <2>4, <2>5, <2>6
<1>9. SearchPlace'
  <2>1. ASSUME op = "search", NEW k \in DOMAIN visits
        PROVE  ~visits[k].hit
    <3>1. k < Len(visits) \/ k = Len(visits)
      BY <1>2
    <3> QED
      BY <2>1, <3>1 DEF EachInv, SearchPlace
  <2> QED
    BY <1>1, <1>2, <1>3, <2>1 DEF SearchPlace
<1>10. EachVisitsAll' /\ ReverseVisitsAll' /\ SearchFindsFirst'
  BY <1>3 DEF EachVisitsAll, ReverseVisitsAll, SearchFindsFirst, ReturnedOK
<1>11. ErrorEndsLoop'
  BY <1>1, <1>2, <1>3 DEF ErrorEndsLoop
<1> QED
  BY <1>2, <1>5, <1>6, <1>7, <1>8, <1>9, <1>10, <1>11 DEF EachInv

(* The loop returns what the callback returned; without an error only after  *)
(* the extra call, or from a search that has found its element.              *)
LEMMA ReturnStep ==
  ASSUME EachInv, pc \in {"called", "last"},
         NEW err \in Errors \cup {"COL_OK"}, Returned(err), UNCHANGED <<kind, seq, op>>,
         NEW index \in Index \cup {NoIndex}, Return(err, index),
         err = "COL_OK" =>
           \/ pc = "last"
           \/ op = "search" /\ index = i /\ visits[Len(visits)].hit
  PROVE  EachInv'
<1>1. PICK w : w = visits'
  OBVIOUS
<1>2. /\ w \in Seq(Calls) /\ w # <<>> /\ visits # <<>>
      /\ Len(w) = Len(visits) /\ DOMAIN w = DOMAIN visits
      /\ DOMAIN visits = 1 .. Len(visits) /\ Len(visits) \in Nat /\ Len(visits) > 0
      /\ \A k \in DOMAIN visits :
           /\ w[k].at = visits[k].at /\ w[k].len = visits[k].len
           /\ w[k].hit = visits[k].hit
           /\ w[k].err = IF k = Len(visits) THEN err ELSE "COL_OK"
      /\ ForwardInRange'
  BY <1>1, AnyReturn
<1>3. /\ UNCHANGED <<kind, seq, op, i>> /\ pc' = "idle"
      /\ ret' = [err |-> err, index |-> index] /\ ret'.err = err /\ ret'.index = index
      /\ op \in {"each", "search", "each_reverse"}
      /\ pc = "last" => op = "each_reverse"
  BY DEF Return, Result, EachInv, TypeOK, Phases
<1>4. TypeOK'
  <2>1. ret' \in [err : Errors \cup {"COL_OK"}, index : Index \cup {NoIndex}]
    BY <1>3
  <2> QED
    BY <1>1, <1>2, <1>3, <2>1 DEF EachInv, TypeOK
<1>5. Phases'
  BY <1>3 DEF Phases
<1>6. ForwardPlace'
  BY <1>1, <1>2, <1>3 DEF EachInv, ForwardPlace
<1>7. 1 \in DOMAIN visits /\ w[1].len = visits[1].len
  BY <1>2
<1>8. ReversePlace'
  BY <1>1, <1>2, <1>3, <1>7 DEF EachInv, ReversePlace
<1>9. SearchPlace'
  BY <1>1, <1>2, <1>3 DEF EachInv, SearchPlace
<1>10. EachVisitsAll'
  BY <1>3 DEF EachVisitsAll, ReturnedOK
<1>11. ReverseVisitsAll'
  <2>1. ASSUME op = "each_reverse", err = "COL_OK", visits[1].len > 0
        PROVE  /\ Len(visits) = visits[1].len
               /\ \A k \in DOMAIN visits : visits[k].at = visits[1].len - k
    BY <1>2, <2>1 DEF EachInv, ReversePlace
  <2> QED
    BY <1>1, <1>2, <1>3, <1>7, <2>1 DEF ReverseVisitsAll, ReturnedOK
<1>12. SearchFindsFirst'
  <2> SUFFICES ASSUME op = "search", err = "COL_OK"
               PROVE  \E n \in DOMAIN w :
                        /\ w[n].hit /\ index = w[n].at
                        /\ \A k \in DOMAIN w : w[k].at < index => ~w[k].hit
    BY <1>1, <1>3 DEF SearchFindsFirst, ReturnedOK
  <2>1. index = i /\ visits[Len(visits)].hit /\ pc = "called"
    BY <1>3
  <2>2. /\ i = Len(visits) - 1
        /\ \A k \in DOMAIN visits : visits[k].at = k - 1
    BY <2>1 DEF EachInv, ForwardPlace
  <2>3. ASSUME NEW k \in DOMAIN w, w[k].at < index
        PROVE  ~w[k].hit
    <3>1. k < Len(visits)
      BY <1>2, <2>1, <2>2, <2>3
    <3> QED
      BY <1>2, <3>1 DEF EachInv, SearchPlace
  <2>4. Len(visits) \in DOMAIN w /\ w[Len(visits)].hit /\ w[Len(visits)].at = index
    BY <1>2, <2>1, <2>2
  <2> QED
    BY <2>3, <2>4
<1>13. ErrorEndsLoop'
  <2>1. Len(w) \in DOMAIN visits
    BY <1>2
  <2> QED
    BY <1>1, <1>2, <1>3, <2>1 DEF ErrorEndsLoop, Last
<1> QED
  BY <1>2, <1>4, <1>5, <1>6, <1>8, <1>9, <1>10, <1>11, <1>12, <1>13 DEF EachInv

LEMMA CallbackReturnsStep ==
  ASSUME EachInv, NEW err \in Errors \cup {"COL_OK"}, CallbackReturns(err)
  PROVE  EachInv'
<1>1. /\ op # "search" /\ Returned(err) /\ UNCHANGED <<kind, seq, op>>
      /\ NoIndex \in Index \cup {NoIndex}
  BY DEF CallbackReturns
<1>2. CASE pc = "called" /\ err = "COL_OK" /\ Continue
  BY <1>1, <1>2, ContinueStep
<1>3. CASE pc = "called" /\ err # "COL_OK" /\ Return(err, NoIndex)
  BY <1>1, <1>3, ReturnStep
<1>4. CASE pc = "last" /\ Return(err, NoIndex)
  BY <1>1, <1>4, ReturnStep
<1> QED
  BY <1>2, <1>3, <1>4 DEF CallbackReturns

LEMMA PredicateReturnsStep ==
  ASSUME EachInv, NEW err \in Errors \cup {"COL_OK"}, PredicateReturns(err)
  PROVE  EachInv'
<1>1. PICK match \in BOOLEAN :
        /\ SearchAnswer(err, match)
        /\ match => visits[Len(visits)].hit
        /\ err = "COL_OK" => (match <=> visits[Len(visits)].hit)
  <2>1. visits[Len(visits)].hit \in BOOLEAN
    <3>1. visits \in Seq(Calls) /\ visits # <<>>
      BY DEF PredicateReturns, EachInv, TypeOK, Phases
    <3>2. Len(visits) \in 1 .. Len(visits)
      BY <3>1, LenProperties, EmptySeq
    <3>3. visits[Len(visits)] \in Calls
      BY <3>1, <3>2, ElementOfSeq
    <3> QED
      BY <3>3 DEF Calls
  <2>2. CASE SearchAnswer(err, visits[Len(visits)].hit)
    BY <2>1, <2>2
  <2>3. CASE err # "COL_OK" /\ SearchAnswer(err, FALSE)
    BY <2>3
  <2> QED
    BY <2>2, <2>3 DEF PredicateReturns
<1>2. /\ op = "search" /\ pc = "called" /\ Returned(err) /\ UNCHANGED <<kind, seq, op>>
      /\ i \in Index \cup {NoIndex} /\ NoIndex \in Index \cup {NoIndex}
  BY DEF PredicateReturns, EachInv, TypeOK
<1>3. \/ match /\ Return(err, i)
      \/ err # "COL_OK" /\ Return(err, NoIndex)
      \/ err = "COL_OK" /\ ~match /\ Continue
  BY <1>1 DEF SearchAnswer
<1>4. CASE match /\ Return(err, i)
  BY <1>1, <1>2, <1>4, ReturnStep
<1>5. CASE err # "COL_OK" /\ Return(err, NoIndex)
  BY <1>2, <1>5, ReturnStep
<1>6. CASE err = "COL_OK" /\ ~match /\ Continue
  BY <1>1, <1>2, <1>6, ContinueStep
<1> QED
  BY <1>3, <1>4, <1>5, <1>6

LEMMA NextEach == EachInv /\ [Next]_vars => EachInv'
<1> SUFFICES ASSUME EachInv, [Next]_vars PROVE EachInv'
  OBVIOUS
<1>1. CASE Each \/ Search \/ EachReverse
  BY <1>1, StartStep DEF Each, Search, EachReverse
<1>2. CASE CallerChanges
  BY <1>2, CallerStep
<1>3. CASE CallbackChanges
  BY <1>3, CallbackStep
<1>4. CASE Loop
  <2>1. CASE Call
    BY <2>1, CallStep
  <2>2. CASE ExtraCall
    BY <2>2, ExtraCallStep
  <2>3. CASE Finish
    BY <2>3, FinishStep
  <2>4. ASSUME NEW err \in Errors \cup {"COL_OK"}, CallbackReturns(err) \/ PredicateReturns(err)
        PROVE  EachInv'
    BY <2>4, CallbackReturnsStep, PredicateReturnsStep
  <2> QED
    BY <1>4, <2>1, <2>2, <2>3, <2>4 DEF Loop
<1>5. CASE UNCHANGED vars
  <2>1. UNCHANGED <<kind, seq, op, pc, i, visits, ret>>
    BY <1>5 DEF vars
  <2> QED
    BY <2>1 DEF EachInv, TypeOK, Phases, ForwardPlace, ReversePlace, SearchPlace, LastIndex,
                ForwardInRange, EachVisitsAll, ReverseVisitsAll, ErrorEndsLoop,
                SearchFindsFirst, ReturnedOK
<1> QED
  BY <1>1, <1>2, <1>3, <1>4, <1>5 DEF Next

(* In every execution the loops are where the invariant says.                *)
THEOREM EachCorrect == Spec => []EachInv
<1>1. Init => EachInv
  BY InitEach
<1>2. EachInv /\ [Next]_vars => EachInv'
  BY NextEach
<1> QED
  BY <1>1, <1>2, PTL DEF Spec

(* _each and _search are in range at each call, whatever callbacks do.       *)
THEOREM ForwardStaysInRange == Spec => []ForwardInRange
<1>1. EachInv => ForwardInRange
  BY DEF EachInv
<1> QED
  BY <1>1, EachCorrect, PTL

(* _each visits every element there is at its end, once and in order.        *)
THEOREM EachIsComplete == Spec => []EachVisitsAll
<1>1. EachInv => EachVisitsAll
  BY DEF EachInv
<1> QED
  BY <1>1, EachCorrect, PTL

(* _each_reverse visits what there was at its start, from last to first.     *)
THEOREM ReverseIsComplete == Spec => []ReverseVisitsAll
<1>1. EachInv => ReverseVisitsAll
  BY DEF EachInv
<1> QED
  BY <1>1, EachCorrect, PTL

(* The first error of a callback ends the loop and is what it returns.       *)
THEOREM FirstErrorEnds == Spec => []ErrorEndsLoop
<1>1. EachInv => ErrorEndsLoop
  BY DEF EachInv
<1> QED
  BY <1>1, EachCorrect, PTL

(* _search finds the first element its predicate matched.                    *)
THEOREM SearchIsFirst == Spec => []SearchFindsFirst
<1>1. EachInv => SearchFindsFirst
  BY DEF EachInv
<1> QED
  BY <1>1, EachCorrect, PTL
=============================================================================
