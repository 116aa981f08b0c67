---------------------------- MODULE MCOqsKeyRefs ----------------------------
(* Small instances of OqsKeyRefs for TLC.  No symmetry set: the instance   *)
(* is checked for liveness too.                                            *)
EXTENDS OqsKeyRefs, TLC
=============================================================================
