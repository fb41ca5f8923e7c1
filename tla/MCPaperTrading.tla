--------------------------- MODULE MCPaperTrading ---------------------------
(* PaperTrading for TLC: bars that reach the stop as well as the last      *)
(* target, the first target only, and both targets.                        *)
EXTENDS PaperTrading, TLC

EventfulBars == {<<1, 4>>, <<2, 3>>, <<2, 4>>}

\* ... and bars that do nothing, or reach the stop and no target.
AllBars == EventfulBars \cup {<<2, 2>>, <<1, 2>>}

Symmetry == Permutations(Strategies)
=============================================================================
