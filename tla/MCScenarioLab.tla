--------------------------- MODULE MCScenarioLab ---------------------------
(* Small instances of ScenarioLab for TLC: a profile of depth 2 and one of *)
(* depth 3, and two scenarios that share a profile but not a group.        *)
EXTENDS ScenarioLab, TLC

CONSTANTS pa, pb, sa, sb, sc, x25519, mlkem

MCChainOf == (sa :> pa) @@ (sb :> pb) @@ (sc :> pb)
MCGroupOf == (sa :> x25519) @@ (sb :> x25519) @@ (sc :> mlkem)
=============================================================================
