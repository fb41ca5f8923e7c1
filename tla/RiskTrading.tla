----------------------------- MODULE RiskTrading -----------------------------
(***************************************************************************)
(* One RiskEngine and the trader that owns it, in one thread of control:   *)
(* the paper trader (services/paper_trader/engine.py) and the backtester   *)
(* (services/backtester/engine.py) both ask can_trade before they open a   *)
(* position and report the result of every position they close.  The       *)
(* caller's clock never runs backwards here; RiskStateStore is about the   *)
(* callers whose clock does.                                               *)
(***************************************************************************)
EXTENDS RiskEngine

CONSTANTS
    Results,        \* the pnl_pct a closed position may report
    WorstLoss,      \* no result is below -WorstLoss
    MaxTime         \* bound: the last instant of a behaviour

ASSUME ResultsAssumption ==
    /\ Results \subseteq Int
    /\ WorstLoss \in Nat
    /\ \A r \in Results : r >= -WorstLoss
    /\ MaxTime \in Nat

VARIABLES
    now,            \* the trader's clock
    eng,            \* its RiskEngine
    realised,       \* history: sum of the results reported since midnight
    results,        \* history: number of the results reported since midnight
    override        \* history: an operator has reset the kill since the last result

vars == <<now, eng, realised, results, override>>

TypeOK ==
    /\ now \in Nat
    /\ eng \in Engine
    /\ realised \in Int
    /\ results \in Nat
    /\ override \in BOOLEAN

Init ==
    /\ now = 0
    /\ eng = NewEngine(0)
    /\ realised = 0
    /\ results = 0
    /\ override = FALSE

Midnight == Day(now') # Day(now)

Tick ==
    /\ now < MaxTime
    /\ now' = now + 1
    /\ realised' = IF Midnight THEN 0 ELSE realised
    /\ results'  = IF Midnight THEN 0 ELSE results
    /\ UNCHANGED <<eng, override>>

(* A call that only looks -- get_status, get_risk_status, or a can_trade   *)
(* that the caller does not act on -- still rolls the day.                 *)
Ask ==
    /\ eng' = ResetDaily(eng, now)
    /\ UNCHANGED <<now, realised, results, override>>

OpenPosition ==
    /\ CanTrade(ResetDaily(eng, now), now)
    /\ eng' = RecordPositionOpen(ResetDaily(eng, now))
    /\ UNCHANGED <<now, realised, results, override>>

(* _close_remaining: record_trade_result, then record_position_close.      *)
ClosePosition(pnl) ==
    /\ eng.positions > 0
    /\ eng' = RecordPositionClose(RecordTradeResult(eng, pnl, now))
    /\ realised' = realised + pnl
    /\ results' = results + 1
    /\ override' = FALSE
    /\ UNCHANGED now

OperatorKill ==
    /\ eng' = ActivateKillSwitch(eng)
    /\ UNCHANGED <<now, realised, results, override>>

OperatorReset ==
    /\ eng' = ResetHardKill(eng)
    /\ override' = TRUE
    /\ UNCHANGED <<now, realised, results>>

Next ==
    \/ Tick
    \/ Ask
    \/ OpenPosition
    \/ \E pnl \in Results : ClosePosition(pnl)
    \/ OperatorKill
    \/ OperatorReset

Spec == Init /\ [][Next]_vars

-----------------------------------------------------------------------------
(* The engine stops new positions at the daily loss limit (can_trade), so  *)
(* a day's realised loss can exceed the limit by no more than what the     *)
(* positions already open can lose -- whether or not they were opened on   *)
(* an earlier day, whose counters reset_daily has discarded.               *)
DailyLossBounded == realised > -(MaxDailyLoss + MaxPositions * WorstLoss)

(* daily_trades counts closed positions while can_trade gates the opening  *)
(* of them: a day closes fewer than MaxDailyTrades + MaxPositions.         *)
DailyTradesBounded == results < MaxDailyTrades + MaxPositions

(* A drawdown breach arms the hard kill (record_trade_result) and nothing  *)
(* but reset_hard_kill lifts it: an engine in breach and not killed is one *)
(* an operator has reset since the last result.                            *)
BreachKills == Breached(eng.equity, eng.peak) => eng.kill \/ override

(* The first instant by which neither automatic block can still hold: the  *)
(* next midnight and the end of any cooldown have both passed.             *)
ResumeTime == Larger((Day(now) + 1) * DayLen, eng.cooldownEnd)

(* DAILY_LIMIT and COOLDOWN end by themselves: an engine that is not       *)
(* killed and has a free position slot will trade again at ResumeTime,     *)
(* with no call to it in between (a shared flag once made a bad day end a  *)
(* backtest for good: record_trade_result, "Phase 2.5 bug").               *)
BlocksExpire ==
    ~eng.kill /\ eng.positions < MaxPositions =>
        CanTrade(ResetDaily(eng, ResumeTime), ResumeTime)

(* A position is never opened within the cooldown that starts at the most  *)
(* recent loss of a streak (record_trade_result moves cooldown_until with  *)
(* every further loss), nor on a killed engine.                            *)
OpensOnlyWhenAllowed ==
    [][eng'.positions > eng.positions =>
        /\ ~eng.kill
        /\ eng.losses >= CooldownLosses => now >= eng.lastLoss + CooldownLen]_vars

(* Once a day's realised loss has reached the limit and nothing is left    *)
(* open, nothing opens and the loss stands until midnight: the class       *)
(* comment has DAILY_LIMIT reset "on the next UTC calendar day", never     *)
(* earlier.                                                                *)
DailyLimitLasts ==
    [][/\ realised <= -MaxDailyLoss
       /\ eng.positions = 0
       /\ Day(now') = Day(now)
       => realised' <= -MaxDailyLoss /\ eng'.positions = 0]_vars
=============================================================================
