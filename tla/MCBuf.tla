------------------------------- MODULE MCBuf -------------------------------
(***************************************************************************)
(* Small instances of IceBuf: entries of 3 bytes at distances of 3 and 4,  *)
(* room for 5 of them, alignments that _new refuses (0) and asserts (3),   *)
(* and a size that is too large for any type.                              *)
(***************************************************************************)
EXTENDS IceBuf

MCBlock == 1 .. 2
MCAlign == {0, 1, 3, 4}
MCSize  == {0, 3, 40}
=============================================================================
