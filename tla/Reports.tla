------------------------------ MODULE Reports ------------------------------
(***************************************************************************)
(* What is read off the tables and decides or is shown: the health of the  *)
(* model from its recent paper trades (model_monitor/monitor.py), the      *)
(* account and the signals (portfolio/service.py), and the rows of a       *)
(* candle series (data_quality/validator.py).                              *)
(***************************************************************************)
EXTENDS Integers, Sequences, FiniteSets, FiniteSetsExt, SequencesExt

CONSTANTS
    MinTrades,  \* MIN_TRADES_FOR_EVALUATION
    Lookback,   \* LOOKBACK_TRADES
    Reference   \* DRAWDOWN_REFERENCE_EQUITY

ASSUME ReportsAssumption == MinTrades \in Nat \ {0} /\ Lookback \in Nat /\ Reference \in Int

Total(s) == FoldSeq(LAMBDA x, sum : x + sum, 0, s)

-----------------------------------------------------------------------------
(* evaluate_model_health: the P&L of the closed AI paper trades, oldest first. *)
Recent(pnls) == SubSeq(pnls, Len(pnls) - Min({Lookback, Len(pnls)}) + 1, Len(pnls))

FactorBelow(pnls, tenths) ==
    LET won == Total([n \in DOMAIN pnls |-> Max({pnls[n], 0})])
        lost == Total([n \in DOMAIN pnls |-> Max({-pnls[n], 0})])
    IN  lost > 0 /\ 10 * won < tenths * lost

(* From the highest equity so far: no other gives a larger drawdown. *)
DrawdownReaches(pnls, percent) ==
    LET equity == [n \in 0..Len(pnls) |-> Reference + Total(SubSeq(pnls, 1, n))]
    IN  \E m, n \in 0..Len(pnls) : m <= n /\ 100 * (equity[m] - equity[n]) >= percent * equity[m]

(* WARNING, DEGRADED, DISABLED: profit factor in tenths, drawdown in percent. *)
Thresholds == <<<<10, 10>>, <<7, 15>>, <<4, 25>>>>

(* One class has at least nine tenths of the recent predictions. *)
Drifted(predictions) ==
    LET total == MapThenSumSet(LAMBDA c : predictions[c], DOMAIN predictions)
    IN  total >= MinTrades /\ \E c \in DOMAIN predictions : 10 * predictions[c] >= 9 * total

(* 0 is HEALTHY, 3 is DISABLED; a drift makes a warning of HEALTHY. *)
Health(pnls, predictions) ==
    LET recent == Recent(pnls)
        breached == {k \in DOMAIN Thresholds :
                        /\ Len(recent) >= MinTrades
                        /\ \/ FactorBelow(recent, Thresholds[k][1])
                           \/ DrawdownReaches(recent, Thresholds[k][2])}
    IN  Max({0} \cup breached \cup IF Drifted(predictions) THEN {1} ELSE {})

-----------------------------------------------------------------------------
(* The account: rows of trades in the order of their exit time, in days; a
   partially closed trade has none (0) until it is closed. *)
Booked(trades) == {n \in DOMAIN trades : trades[n].status \in {"CLOSED", "PARTIALLY_CLOSED"}}
Column(trades, field) == [n \in DOMAIN trades |-> trades[n][field]]
Earned(trades, rows) == SumFunctionOnSet(Column(trades, "pnl"), rows)

Performance(trades) ==
    LET booked == Booked(trades)
    IN  [total |-> Earned(trades, booked),
         won |-> Earned(trades, {n \in booked : trades[n].pnl > 0}),
         lost |-> -Earned(trades, {n \in booked : trades[n].pnl < 0})]

(* A point per booked trade. *)
Curve(trades, initial) ==
    [n \in Booked(trades) |-> initial + Earned(trades, {m \in Booked(trades) : m <= n})]

(* get_pnl_breakdown by periods of so many days; it raises if one has no exit time. *)
Period(day, days) == day \div days

Raises(trades) == \E n \in Booked(trades) : trades[n].exit = 0

Breakdown(trades, days) ==
    LET In(k) == {n \in Booked(trades) : Period(trades[n].exit, days) = k}
        periods == {Period(trades[n].exit, days) : n \in Booked(trades)}
    IN  [k \in periods |->
            [net |-> Earned(trades, In(k)),
             gross |-> Earned(trades, In(k)) + SumFunctionOnSet(Column(trades, "fees"), In(k)),
             trades |-> Cardinality(In(k))]]

(* reconcile_account *)
Theoretical(trades, initial, deposits, withdrawals) ==
    initial + deposits - withdrawals + Earned(trades, Booked(trades))

Mismatch(snapshot, theoretical, tolerance) == snapshot - theoretical \notin -tolerance..tolerance

-----------------------------------------------------------------------------
(* The outcomes of signals: what all of them would have earned, and of those
   that are resolved, what the user's and the missed ones would have. *)
With(outcomes, results) == {n \in DOMAIN outcomes : outcomes[n].outcome \in results}
Resolved(outcomes) == With(outcomes, {"WIN", "LOSS"})

Summary(outcomes, rows) ==
    [count |-> Cardinality(rows), pct |-> SumFunctionOnSet(Column(outcomes, "pct"), rows),
     wins |-> Cardinality(rows \cap With(outcomes, {"WIN"}))]

SignalPerformance(outcomes) ==
    LET wins == With(outcomes, {"WIN"})
        losses == With(outcomes, {"LOSS"})
    IN  [count |-> Cardinality(wins) + Cardinality(losses),
         pct |-> SumFunctionOnSet(Column(outcomes, "pct"), wins \cup losses), wins |-> Cardinality(wins)]

UserTaken(outcomes) == Summary(outcomes, {n \in Resolved(outcomes) : outcomes[n].taken})
Missed(outcomes) == Summary(outcomes, {n \in Resolved(outcomes) : ~outcomes[n].taken})

-----------------------------------------------------------------------------
(* A row of candles: check_invalid_ohlc, and the reasons label_quality gives. *)
Invalid(c) ==
    \/ c.high < Max({c.open, c.close, c.low}) \/ c.low > Min({c.open, c.close, c.high})
    \/ c.high < c.low \/ Min({c.open, c.high, c.low, c.close}) <= 0 \/ c.volume < 0

Reasons(c) ==
    {r \in {"high_below_max", "low_above_min", "high_less_than_low", "non_positive_price", "negative_volume"} :
        CASE r = "high_below_max" -> c.high < Max({c.open, c.close, c.low})
          [] r = "low_above_min" -> c.low > Min({c.open, c.close, c.high})
          [] r = "high_less_than_low" -> c.high < c.low
          [] r = "non_positive_price" -> \E p \in {c.open, c.high, c.low, c.close} : p <= 0
          [] r = "negative_volume" -> c.volume < 0}
=============================================================================
