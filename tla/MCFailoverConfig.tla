-------------------------- MODULE MCFailoverConfig --------------------------
(* TLC instance of FailoverConfig.                                         *)
EXTENDS FailoverConfig, TLC

CONSTANTS c1, c2, t1, t2

Symmetry == Permutations({t1, t2})
=============================================================================
