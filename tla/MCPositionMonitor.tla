------------------------- MODULE MCPositionMonitor -------------------------
(* A LONG trade with a stop, a SHORT one with a stop and a target.  A breach of
   the target always finds the other trade's stop breached, too. *)
EXTENDS PositionMonitor, TLC

CONSTANTS t1, t2, r1

MCLevel ==
    <<t1, "stop_loss_hit">> :> 2 @@ <<t2, "take_profit_hit">> :> 1 @@ <<t2, "stop_loss_hit">> :> 3
=============================================================================
