-------------------------- MODULE MCOqsKeyMaterial --------------------------
(* Small instances of OqsKeyMaterial for TLC.                              *)
EXTENDS OqsKeyMaterial, TLC

Symmetry == Permutations(Slots) \cup Permutations(Ids)
=============================================================================
