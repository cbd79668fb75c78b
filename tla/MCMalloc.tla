----------------------------- MODULE MCMalloc -----------------------------
(***************************************************************************)
(* Small instances of IceMalloc: addresses of 5 bits, an offset_t of 4     *)
(* bits, a malloc that aligns to 4.  MCAlign has alignments below, at and  *)
(* above malloc's, the zero and one that is no power of 2.                 *)
(***************************************************************************)
EXTENDS IceMalloc

MCAlign == {0, 1, 3, 4, 8}
MCSize  == {0, 1, 6}
=============================================================================
