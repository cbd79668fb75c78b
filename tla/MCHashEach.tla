----------------------------- MODULE MCHashEach -----------------------------
(***************************************************************************)
(* A small instance of IceHashEach.  Two keys have the last slot of every  *)
(* table as their home, so that one of them wraps to a slot the loop has   *)
(* passed; c moves when the table doubles; z has the hash code that stops  *)
(* the program, in a callback, too.                                        *)
(***************************************************************************)
EXTENDS IceHashEach

CONSTANTS a, b, c, z

MCHash == [k \in Key |-> CASE k = c -> 11 [] k = z -> 0 [] OTHER -> 15]
=============================================================================
