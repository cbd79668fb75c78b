------------------------------- MODULE MCVec -------------------------------
(***************************************************************************)
(* A small instance of IceVec: two blocks, the fewest a realloc needs, and *)
(* room for the capacities 2, 3 and 5.  The indexes are the first, the     *)
(* second and the last but one of a full vector, and one past any; as      *)
(* sizes to reserve they are none, fits at once, grows, and is refused.    *)
(***************************************************************************)
EXTENDS IceVec

MCBlock == 1 .. 2
MCIndex == {0, 1, 3, 5}
=============================================================================
