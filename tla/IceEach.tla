------------------------------ MODULE IceEach ------------------------------
(***************************************************************************)
(* The loops that call back: _each, _each_reverse and _search of vectors   *)
(* (vec_macros.h) and buffers (buf_macros.h), _each and _each_reverse of   *)
(* arrays (icealignedarray.h).  A callback is the caller's code: it may    *)
(* change the container under the loop, and return an error.  The          *)
(* container is a sequence, which is what IceVec and IceBuf implement.     *)
(***************************************************************************)
EXTENDS Integers, SequencesExt

CONSTANTS
  Value, Wanted,    \* elements, and those a predicate of _search matches
  Kind,             \* the kinds of container, of "vec", "buf" and "arr"
  Errors,           \* the errors callbacks return
  NoIndex,          \* *pIndex has not been written
  SizeMax,          \* the largest size_t
  MaxLen            \* bound: there is no memory for more elements

ASSUME EachAssumption ==
  /\ Wanted \subseteq Value
  /\ Kind \subseteq {"vec", "buf", "arr"}
  /\ "COL_OK" \notin Errors
  /\ SizeMax \in Nat /\ MaxLen \in 1 .. SizeMax
  /\ NoIndex \notin 0 .. SizeMax

VARIABLES
  kind, seq,  \* the container
  op, pc,     \* the loop, and where it is: at its test, in a call, in the
              \* extra call of _each_reverse, or over ("idle")
  i,          \* the loop's index
  visits,     \* the calls so far: the index, and the length at that moment,
              \* whether the element was wanted, and the error returned
  ret         \* what the last loop returned, and *pIndex

vars == <<kind, seq, op, pc, i, visits, ret>>

Result(err, index) == [err |-> err, index |-> index]

NoResult == Result("COL_OK", NoIndex)

(* A new container is empty; an array always has all of its elements.        *)
Init ==
  /\ kind \in Kind
  /\ IF kind = "arr" THEN seq \in [1 .. MaxLen -> Value] ELSE seq = <<>>
  /\ op = "none" /\ pc = "idle" /\ i = 0 /\ visits = <<>> /\ ret = NoResult
-----------------------------------------------------------------------------
(* The container.                                                            *)

Written == \E k \in DOMAIN seq, v \in Value : seq' = ReplaceAt(seq, k, v)

Pushed == Len(seq) < MaxLen /\ \E v \in Value : seq' = Append(seq, v)

(* push_back, set, insert, erase, pop_back and clear.                        *)
VecChange ==
  \/ Pushed \/ Written
  \/ /\ Len(seq) < MaxLen
     /\ \E k \in DOMAIN seq, v \in Value : seq' = InsertAt(seq, k, v)
  \/ \E k \in DOMAIN seq : seq' = RemoveAt(seq, k)
  \/ seq' = <<>>

(* emplace_back, a write through a pointer, and set_lim, which uncovers      *)
(* whatever was written in the entries before.                               *)
BufChange ==
  \/ Pushed \/ Written
  \/ \E n \in 0 .. MaxLen : \E s \in [1 .. n -> Value] :
       /\ \A k \in DOMAIN s \cap DOMAIN seq : s[k] = seq[k]
       /\ seq' = s

Change ==
  \/ kind = "vec" /\ VecChange
  \/ kind = "buf" /\ BufChange
  \/ kind = "arr" /\ Written

(* The caller, between two loops.                                            *)
CallerChanges ==
  /\ pc = "idle"
  /\ Change
  /\ op' = "none" /\ i' = 0 /\ visits' = <<>> /\ ret' = NoResult
  /\ UNCHANGED <<kind, pc>>

CallbackChanges ==
  /\ pc \in {"called", "last"}
  /\ Change
  /\ UNCHANGED <<kind, op, pc, i, visits, ret>>
-----------------------------------------------------------------------------
(* The loops.                                                                *)

Start(o, at) ==
  /\ pc = "idle"
  /\ op' = o /\ pc' = "test" /\ i' = at
  /\ visits' = <<>> /\ ret' = NoResult
  /\ UNCHANGED <<kind, seq>>

Each == Start("each", 0)
Search == kind # "arr" /\ Start("search", 0)

(* The last index, in size_t: for an empty container it wraps.               *)
LastIndex == (Len(seq) - 1) % (SizeMax + 1)

EachReverse == Start("each_reverse", LastIndex)

(* Mutants: one index too many; the length is read once, before the loop;    *)
(* the reverse loop tests i >= 0, which size_t always is.                    *)
HasMoreOffByOne == IF op = "each_reverse" THEN i > 0 ELSE i <= Len(seq)
HasMoreCached ==
  CASE op = "each_reverse" -> i > 0
    [] visits = <<>> -> i < Len(seq)
    [] OTHER -> i < visits[1].len
HasMoreUnsigned == IF op = "each_reverse" THEN i >= 0 ELSE i < Len(seq)

(* The test of the loop; the length is read anew each time.                  *)
HasMore == IF op = "each_reverse" THEN i > 0 ELSE i < Len(seq)

Visit(at) ==
  [at |-> at, len |-> Len(seq), err |-> "COL_OK",
   hit |-> at < Len(seq) /\ seq[at + 1] \in Wanted]

(* No loop makes more calls than a size_t has values; were there more, they  *)
(* would not be recorded.                                                    *)
Recorded(visit) ==
  visits' = IF Len(visits) <= SizeMax THEN Append(visits, visit) ELSE visits

Call ==
  /\ pc = "test" /\ HasMore
  /\ pc' = "called"
  /\ Recorded(Visit(i))
  /\ UNCHANGED <<kind, seq, op, i, ret>>

(* Mutant: the loop is all there is, so the first element is left out.       *)
ExtraCallForgotten ==
  /\ pc = "test" /\ op = "each_reverse" /\ ~HasMore
  /\ pc' = "idle"
  /\ UNCHANGED <<kind, seq, op, i, visits, ret>>

(* After the loop of _each_reverse: the call for index 0.                    *)
ExtraCall ==
  /\ pc = "test" /\ op = "each_reverse" /\ ~HasMore
  /\ pc' = "last"
  /\ Recorded(Visit(0))
  /\ UNCHANGED <<kind, seq, op, i, ret>>

(* The loop is over and no callback has returned an error.                   *)
Finish ==
  /\ pc = "test" /\ op # "each_reverse" /\ ~HasMore
  /\ pc' = "idle"
  /\ ret' = Result("COL_OK", IF op = "search" THEN Len(seq) ELSE NoIndex)
  /\ UNCHANGED <<kind, seq, op, i, visits>>

Return(err, index) ==
  /\ pc' = "idle" /\ ret' = Result(err, index)
  /\ UNCHANGED i

(* The index wraps like any size_t.                                          *)
Continue ==
  /\ pc' = "test"
  /\ i' = (IF op = "each_reverse" THEN i - 1 ELSE i + 1) % (SizeMax + 1)
  /\ UNCHANGED ret

Returned(err) == visits' = [visits EXCEPT ![Len(visits)].err = err]

(* Mutant: the error does not end the loop.                                  *)
CallbackReturnsIgnored(err) ==
  /\ op # "search"
  /\ \/ pc = "called" /\ Continue
     \/ pc = "last" /\ Return(err, NoIndex)
  /\ Returned(err)
  /\ UNCHANGED <<kind, seq, op>>

CallbackReturns(err) ==
  /\ op # "search"
  /\ \/ pc = "called" /\ err = "COL_OK" /\ Continue
     \/ pc = "called" /\ err # "COL_OK" /\ Return(err, NoIndex)
     \/ pc = "last" /\ Return(err, NoIndex)
  /\ Returned(err)
  /\ UNCHANGED <<kind, seq, op>>

(* Mutant: the match is asked for after the index has moved on.              *)
AnswerLate(err, match) ==
  CASE err # "COL_OK" -> Return(err, NoIndex)
    [] err = "COL_OK" /\ match -> Return(err, i + 1)
    [] OTHER -> Continue

(* A vector looks at the match before the error, a buffer after it.          *)
SearchAnswer(err, match) ==
  CASE match /\ (kind = "vec" \/ err = "COL_OK") -> Return(err, i)
    [] err # "COL_OK" /\ ~(kind = "vec" /\ match) -> Return(err, NoIndex)
    [] OTHER -> Continue

(* A predicate that fails may do so before it has looked at the element.     *)
PredicateReturns(err) ==
  /\ op = "search" /\ pc = "called"
  /\ LET hit == visits[Len(visits)].hit
     IN \/ SearchAnswer(err, hit)
        \/ err # "COL_OK" /\ hit /\ SearchAnswer(err, FALSE)
  /\ Returned(err)
  /\ UNCHANGED <<kind, seq, op>>

Loop ==
  \/ Call \/ ExtraCall \/ Finish
  \/ \E err \in Errors \cup {"COL_OK"} : CallbackReturns(err) \/ PredicateReturns(err)

Next ==
  \/ Each \/ EachReverse \/ Search
  \/ CallerChanges \/ CallbackChanges
  \/ Loop

(* The loop runs on by itself, and callbacks return.                         *)
Spec == Init /\ [][Next]_vars /\ WF_vars(Loop)
-----------------------------------------------------------------------------
(* Properties.                                                               *)

Index == 0 .. SizeMax

Calls == [at : Index, len : 0 .. MaxLen, hit : BOOLEAN, err : Errors \cup {"COL_OK"}]

(* The type of the state: the index is a size_t and the container fits.      *)
TypeOK ==
  /\ kind \in Kind
  /\ seq \in Seq(Value) /\ Len(seq) <= MaxLen
  /\ op \in {"none", "each", "each_reverse", "search"}
  /\ pc \in {"idle", "test", "called", "last"}
  /\ i \in Index
  /\ visits \in Seq(Calls)
  /\ ret \in [err : Errors \cup {"COL_OK"}, index : Index \cup {NoIndex}]

ReturnedOK(o) == op = o /\ pc = "idle" /\ ret.err = "COL_OK"

(* _each and _search never hand a callback an index at which there is no     *)
(* element, though callbacks erase, pop, clear and lower the limit under the *)
(* loop.                                                                     *)
ForwardInRange ==
  op \in {"each", "search"} => \A k \in DOMAIN visits : visits[k].at < visits[k].len

(* An _each that returns COL_OK has called back for every index there is     *)
(* now, those that callbacks have pushed during the loop included, each one  *)
(* once and in order.                                                        *)
EachVisitsAll ==
  ReturnedOK("each") =>
    /\ Len(visits) >= Len(seq)
    /\ \A k \in DOMAIN visits : visits[k].at = k - 1

(* An _each_reverse that returns COL_OK has called back for the indexes of   *)
(* the elements there were at its start, from the last down to the first.    *)
ReverseVisitsAll ==
  ReturnedOK("each_reverse") =>
    /\ visits # <<>>
    /\ visits[1].len > 0 =>
         /\ Len(visits) = visits[1].len
         /\ \A k \in DOMAIN visits : visits[k].at = visits[1].len - k

(* After a callback has returned an error it is not called again, and the    *)
(* loop returns that error and no other.                                     *)
ErrorEndsLoop ==
  /\ \A k \in DOMAIN visits : k < Len(visits) => visits[k].err = "COL_OK"
  /\ pc = "idle" => ret.err = IF visits = <<>> THEN "COL_OK" ELSE Last(visits).err

(* A _search that returns COL_OK gives the first index whose element the     *)
(* predicate matched when it was asked, and the length if it matched none.   *)
SearchFindsFirst ==
  ReturnedOK("search") =>
    \/ /\ ret.index = Len(seq)
       /\ \A k \in DOMAIN visits : ~visits[k].hit
    \/ \E n \in DOMAIN visits :
         /\ visits[n].hit /\ ret.index = visits[n].at
         /\ \A k \in DOMAIN visits : visits[k].at < ret.index => ~visits[k].hit

(* Every loop ends if its callbacks return: those that push cannot keep it   *)
(* going for ever, memory being finite.                                      *)
LoopEnds == pc # "idle" ~> pc = "idle"

(* What the comment in _each_reverse wants of the extra call: that it is for *)
(* the first element, and so of all calls that they are for elements.  Not   *)
(* so when there is none.                                                    *)
ReverseInRange ==
  op = "each_reverse" /\ pc \in {"called", "last"} /\ Len(visits) = 1 =>
    visits[1].at < visits[1].len
=============================================================================
