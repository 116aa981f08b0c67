----------------------------- MODULE MCOqsSigCtx -----------------------------
(* Small instances of OqsSigCtx for TLC.                                   *)
EXTENDS OqsSigCtx, TLC

CONSTANTS c1, c2

Peers == Permutations(Ctxs)       (* sound when all slots have one build   *)
Texts == Permutations(Chunks) \cup Permutations(Strs) \cup Permutations(Mds)
Alike == Peers \cup Texts
=============================================================================
