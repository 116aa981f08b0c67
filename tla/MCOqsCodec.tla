------------------------------ MODULE MCOqsCodec ------------------------------
(* Small instances of OqsCodec for TLC: a signature algorithm, a hybrid of *)
(* it, and a group name of another family of hybrids.                      *)
EXTENDS OqsCodec, TLC

(* oqsx_hybsig_init goes by the prefix of the name, which a hybrid name    *)
(* shows; other algorithms do not look at it.                              *)
MadeByName ==
  [a \in Algs |-> [n \in Names |-> IF a = "mldsa44" THEN a ELSE IF n = "mldsa44" THEN Null ELSE n]]

Symmetry == Permutations(Slots) \cup Permutations(Pairs)
=============================================================================
