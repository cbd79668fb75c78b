----------------------------- MODULE MCHelpers -----------------------------
(***************************************************************************)
(* Small instances of IceBits, IceHash and IceArray, one helper at a time. *)
(***************************************************************************)
EXTENDS IceBits, IceHash, IceArray

VARIABLE helper  \* the helper that runs

MCFnv == {[bits |-> 5, prime |-> 19], [bits |-> 7, prime |-> 51]}
MCSigned == {-1, -1027}

MCInit == helper \in {"bits", "hash", "array"} /\ BitsInit /\ HashInit /\ ArrayInit

MCNext ==
  /\ \/ helper = "bits" /\ BitsNext /\ UNCHANGED <<hashVars, arrayVars>>
     \/ helper = "hash" /\ HashNext /\ UNCHANGED <<bitsVars, arrayVars>>
     \/ helper = "array" /\ ArrayNext /\ UNCHANGED <<bitsVars, hashVars>>
  /\ UNCHANGED helper

MCSpec == MCInit /\ [][MCNext]_<<helper, bitsVars, hashVars, arrayVars>>
=============================================================================
