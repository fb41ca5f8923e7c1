----------------------------- MODULE RiskEngine -----------------------------
(***************************************************************************)
(* services/risk_engine/engine.py: class RiskEngine as a value type.       *)
(*                                                                         *)
(* An engine is a record; each method that changes state is an operator    *)
(* from an engine (and the caller's `now') to an engine, each method that  *)
(* only reads is a predicate.  The state machines that own an engine       *)
(* (RiskTrading, RiskStateStore, PaperTrading) EXTEND this module.         *)
(*                                                                         *)
(* Instants are natural numbers, DayLen of them to a UTC calendar day.     *)
(* Percentages and equity are integers; `equity *= 1 + pnl/100' truncates. *)
(***************************************************************************)
EXTENDS Integers

CONSTANTS
    DayLen,             \* instants in one UTC calendar day
    MaxDailyLoss,       \* config.max_daily_loss_pct
    MaxDrawdown,        \* config.max_drawdown_pct
    MaxPositions,       \* config.max_positions
    MaxDailyTrades,     \* config.max_daily_trades
    CooldownLosses,     \* config.cooldown_consecutive_losses
    CooldownLen,        \* config.cooldown_minutes, in instants
    BreakevenResets,    \* config.breakeven_resets_consecutive_losses
    InitialEquity       \* initial_equity

ASSUME ConfigAssumption ==
    /\ DayLen \in Nat \ {0}
    /\ MaxDailyLoss \in Nat \ {0}
    /\ MaxDrawdown \in Nat \ {0}
    /\ MaxPositions \in Nat \ {0}
    /\ MaxDailyTrades \in Nat \ {0}
    /\ CooldownLosses \in Nat \ {0}
    /\ CooldownLen \in Nat
    /\ BreakevenResets \in BOOLEAN
    /\ InitialEquity \in Nat \ {0}

\* Python's None, for last_loss_time and cooldown_until: before every instant.
None == -1

Day(t) == t \div DayLen

(* RiskState, together with the private _trade_date.  current_drawdown_pct *)
(* is a function of the two equities (see Breached) and is not a field.    *)
Engine ==
    [ tradeDate    : Nat,
      dailyPnl     : Int,
      dailyTrades  : Nat,
      equity       : Int,
      peak         : Int,
      losses       : Nat,            \* consecutive_losses
      lastLoss     : Nat \cup {None},
      cooldownEnd  : Nat \cup {None},   \* cooldown_until
      kill         : BOOLEAN,        \* kill_switch
      positions    : Nat ]           \* positions_open

NewEngine(now) ==
    [ tradeDate |-> Day(now), dailyPnl |-> 0, dailyTrades |-> 0,
      equity |-> InitialEquity, peak |-> InitialEquity,
      losses |-> 0, lastLoss |-> None, cooldownEnd |-> None,
      kill |-> FALSE, positions |-> 0 ]

\* Mutation: the counters are cleared on every call, new day or not.
ResetOnEveryCall(e, now) ==
    [e EXCEPT !.dailyPnl = 0, !.dailyTrades = 0, !.tradeDate = Day(now)]

\* Mutation: the day's loss outlives its day.
ResetKeepsLoss(e, now) ==
    IF e.tradeDate = Day(now) THEN e
    ELSE [e EXCEPT !.dailyTrades = 0, !.tradeDate = Day(now)]

\* Mutation: the day's number of trades outlives its day.
ResetKeepsTrades(e, now) ==
    IF e.tradeDate = Day(now) THEN e
    ELSE [e EXCEPT !.dailyPnl = 0, !.tradeDate = Day(now)]

(* The caller's `now' decides the day: any change of day, forwards or      *)
(* backwards, zeroes the two daily counters.                               *)
ResetDaily(e, now) ==
    IF e.tradeDate = Day(now) THEN e
    ELSE [e EXCEPT !.dailyPnl = 0, !.dailyTrades = 0, !.tradeDate = Day(now)]

DailyLimitHit(e) == e.dailyPnl <= -MaxDailyLoss

CoolingDown(e, now) ==
    /\ e.losses >= CooldownLosses
    /\ e.cooldownEnd # None
    /\ now < e.cooldownEnd

(* get_risk_status: the status of an engine whose day has been rolled.     *)
RiskStatus(e, now) ==
    CASE e.kill -> "HARD_KILL"
      [] ~e.kill /\ DailyLimitHit(e) -> "DAILY_LIMIT"
      [] ~e.kill /\ ~DailyLimitHit(e) /\ CoolingDown(e, now) -> "COOLDOWN"
      [] OTHER -> "ACTIVE"

\* Mutation: can_trade forgets the daily loss limit.
CanTradeDespiteLoss(e, now) ==
    /\ ~e.kill
    /\ e.dailyTrades < MaxDailyTrades
    /\ e.positions < MaxPositions
    /\ ~CoolingDown(e, now)

\* Mutation: one trade a day too many.
CanTradeOneMore(e, now) ==
    /\ ~e.kill
    /\ ~DailyLimitHit(e)
    /\ e.dailyTrades <= MaxDailyTrades
    /\ e.positions < MaxPositions
    /\ ~CoolingDown(e, now)

(* can_trade: the verdict on an engine whose day has been rolled.          *)
CanTrade(e, now) ==
    /\ ~e.kill
    /\ ~DailyLimitHit(e)
    /\ e.dailyTrades < MaxDailyTrades
    /\ e.positions < MaxPositions
    /\ ~CoolingDown(e, now)

(* current_drawdown_pct >= max_drawdown_pct.  While peak_equity is not     *)
(* positive the percentage keeps its initial value, 0.                     *)
Breached(equity, peak) ==
    /\ peak > 0
    /\ (peak - equity) * 100 >= MaxDrawdown * peak

AppliedTo(equity, pnl) == (equity * (100 + pnl)) \div 100

Larger(x, y) == IF x > y THEN x ELSE y

(* The streak after a result: a loss extends it and, from the Nth on, sets *)
(* the end of the cooldown; a win, or a breakeven when so configured,      *)
(* clears both.                                                            *)
WithStreak(e, pnl, now) ==
    IF pnl < 0 THEN
        [e EXCEPT !.losses = @ + 1,
                  !.lastLoss = now,
                  !.cooldownEnd = IF e.losses + 1 >= CooldownLosses
                                  THEN now + CooldownLen ELSE @]
    ELSE IF pnl > 0 \/ BreakevenResets THEN
        [e EXCEPT !.losses = 0, !.cooldownEnd = None]
    ELSE e

\* Mutation: the drawdown test looks at the equity before the trade.
RecordThenCheckOldEquity(e, pnl, now) ==
    LET equity == AppliedTo(e.equity, pnl)
    IN  [WithStreak(ResetDaily(e, now), pnl, now) EXCEPT
            !.dailyPnl    = @ + pnl,
            !.dailyTrades = @ + 1,
            !.equity      = equity,
            !.peak        = Larger(equity, e.peak),
            !.kill        = @ \/ Breached(e.equity, e.peak)]

(* record_trade_result.  The kill is armed here and never disarmed.        *)
RecordTradeResult(e, pnl, now) ==
    LET rolled == ResetDaily(e, now)
        equity == AppliedTo(e.equity, pnl)
        peak   == Larger(equity, e.peak)
    IN  [WithStreak(rolled, pnl, now) EXCEPT
            !.dailyPnl    = @ + pnl,
            !.dailyTrades = @ + 1,
            !.equity      = equity,
            !.peak        = peak,
            !.kill        = @ \/ Breached(equity, peak)]

ActivateKillSwitch(e) == [e EXCEPT !.kill = TRUE]

ResetHardKill(e) ==
    [e EXCEPT !.kill = FALSE, !.losses = 0, !.cooldownEnd = None]

RecordPositionOpen(e) == [e EXCEPT !.positions = @ + 1]

RecordPositionClose(e) == [e EXCEPT !.positions = Larger(0, @ - 1)]
=============================================================================
