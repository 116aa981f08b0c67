---------------------------- MODULE MCOqsProvider ----------------------------
(* Small instances of OqsProvider for TLC: one table, with a name OpenSSL  *)
(* 3.5 implements between two that it does not, and a name of another      *)
(* table that can fail to be registered.                                   *)
EXTENDS OqsProvider, TLC

CONSTANTS sig, own, mldsa, hybrid, kem

MCListed  == sig :> <<own, mldsa, hybrid>>
MCOidList == <<own, kem>>
Symmetry  == Permutations(Instances) \cup Permutations(Threads) \cup Permutations(Blocks)
=============================================================================
