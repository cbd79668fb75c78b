------------------------------ MODULE MCEach ------------------------------
(***************************************************************************)
(* A small instance of IceEach: all three kinds of container, at most      *)
(* three elements, one of two values wanted, and a size_t of two bits,     *)
(* which holds every length and, as the largest index, one that is past    *)
(* every element.                                                          *)
(***************************************************************************)
EXTENDS IceEach

MCErrors == {"COL_ERR_ILLEGAL_ARGUMENT"}
=============================================================================
