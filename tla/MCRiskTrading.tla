---------------------------- MODULE MCRiskTrading ----------------------------
(* RiskTrading for TLC: three short days and results that reach every      *)
(* limit within a handful of trades.                                       *)
EXTENDS RiskTrading

SmallResults == {-3, -1, 0, 2}
=============================================================================
