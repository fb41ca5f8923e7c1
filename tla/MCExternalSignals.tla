------------------------- MODULE MCExternalSignals -------------------------
(* ExternalSignals for TLC.                                                *)
EXTENDS ExternalSignals, TLC

Symmetry == Permutations(Deliveries) \cup Permutations(Symbols)
=============================================================================
