---------------------------- MODULE MCHashTable ----------------------------
(***************************************************************************)
(* A small instance of IceHashTable.  The hash codes give a cluster of one *)
(* home that wraps past the last slot of every table up to MaxCapacity     *)
(* (a, b), a home inside the wrapped part of it (d), one that leaves it    *)
(* when the table doubles from 4 to 8 (c), and one key whose hash is the   *)
(* invalid one (z).                                                        *)
(***************************************************************************)
EXTENDS IceHashTable

CONSTANTS a, b, c, d, z

MCHash ==
  [k \in Key |-> CASE k \in {a, b} -> 15
                   [] k = c -> 11
                   [] k = d -> 8
                   [] OTHER -> 0]
=============================================================================
