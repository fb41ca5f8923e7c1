-------------------------- MODULE MCRiskStateStore --------------------------
(* RiskStateStore for TLC.                                                 *)
EXTENDS RiskStateStore, TLC

MixedResults == {-3, 1}

Symmetry == Permutations(Exits)
=============================================================================
