----------------------------- MODULE MCString -----------------------------
(***************************************************************************)
(* A small instance of IceString: two variables and, for str_append, a     *)
(* block more.  The literals are the empty string, "a" with e acute, and e *)
(* grave, which shares its first byte with e acute.  Searched for are      *)
(* these and the first and the last codepoint of each length in bytes.     *)
(***************************************************************************)
EXTENDS IceString

MCBytes == [l \in Literal |->
  CASE l = "empty" -> <<>>
    [] l = "ae" -> <<97, 195, 169>>
    [] l = "e" -> <<195, 168>>]

MCRune == {97, 232, 233, 1, 127, 128, 2047, 2048, 65535, 65536, 1114111}

Symmetry == Permutations(Handle) \cup Permutations(Block)
=============================================================================
