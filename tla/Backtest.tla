------------------------------ MODULE Backtest ------------------------------
(***************************************************************************)
(* Three replays of the same bars: the backtester's event loop             *)
(* (backtester/engine.py), the outcome of a signal                         *)
(* (signal_engine/outcome_evaluator.py) and the triple-barrier label of a  *)
(* bar (ml/labeling.py).                                                   *)
(*                                                                         *)
(* Bar i of the loop is at time 2i; funding events fall on a bar's time or *)
(* between two.  Quantity and leverage are 1, the risk engine's verdict is *)
(* an input (RiskTrading has the engine) and so is the strategy's.         *)
(***************************************************************************)
EXTENDS Integers, Sequences, FiniteSets, FiniteSetsExt, SequencesExt

CONSTANTS
    Bars,           \* the bars that occur: open, high, low, close
    Events,         \* times of the real funding rates
    Slip, Fee,      \* slippage per fill and fee per fill, in price units
    Risk, Reward,   \* sl_atr_multiple and tp_atr_multiple, of an ATR of 1
    Horizon,        \* max_horizon_bars of outcomes, horizon_bars of labels
    MaxBars         \* bound: bars

ASSUME BacktestAssumption ==
    /\ Bars \subseteq [open : Int, high : Int, low : Int, close : Int]
    /\ IsFiniteSet(Events) /\ Events \subseteq Int
    /\ Risk \in Nat /\ Reward \in Nat /\ Horizon \in Nat /\ Slip \in Nat /\ Fee \in Nat

VARIABLES
    bars, pending, trade, trades, equity, curve,
    settled,        \* funding events the pointer has passed
    over

vars == <<bars, pending, trade, trades, equity, curve, settled, over>>

NoSignal == [side |-> "NO_TRADE"]
NoTrade == [status |-> "none"]
Initial == 0

Sign(side) == IF side = "LONG" THEN 1 ELSE -1

(* A signal decided at bar i: its levels are those of the close, one ATR being 1. *)
Signal(side, i, close) ==
    [side |-> side, at |-> i, sl |-> close - Sign(side) * Risk,
     tp |-> close + Sign(side) * Reward]

Signals(i, close) == {Signal("LONG", i, close), Signal("SHORT", i, close)}

HitStop(s, b) == IF s.side = "LONG" THEN b.low <= s.sl ELSE b.high >= s.sl
HitTarget(s, b) == IF s.side = "LONG" THEN b.high >= s.tp ELSE b.low <= s.tp

-----------------------------------------------------------------------------
(* The backtester. *)
Init ==
    /\ bars = <<>> /\ pending = NoSignal /\ trade = NoTrade /\ trades = <<>>
    /\ equity = Initial /\ curve = <<>> /\ settled = {} /\ over = FALSE

(* A pending order fills at the bar's open, unless the risk engine refuses. *)
Fill(b, i) ==
    [status |-> "open", sig |-> pending, entry |-> b.open + Sign(pending.side) * Slip,
     filled |-> i, funding |-> 0]

Due(i) == {e \in Events : e <= 2 * i} \ settled

(* Mutation: an event at the instant of the fill is charged. *)
ExposedAtFill(t, i) == {e \in Due(i) : 2 * t.filled <= e}

Exposed(t, i) == {e \in Due(i) : 2 * t.filled < e}

(* Longs pay a positive rate, shorts receive it. *)
Funded(t, i) ==
    IF t = NoTrade THEN t
    ELSE [t EXCEPT !.funding = @ + Sign(t.sig.side) * Cardinality(Exposed(t, i))]

(* A stop fills at the open if the bar has gapped through it. *)
StopFill(s, b) ==
    LET gapped == IF s.side = "LONG" THEN b.open <= s.sl ELSE b.open >= s.sl
    IN  (IF gapped THEN b.open ELSE s.sl) - Sign(s.side) * Slip

(* Mutation: the target is looked at first. *)
ExitTargetFirst(t, b) ==
    IF HitTarget(t.sig, b)
    THEN [reason |-> "take_profit", price |-> t.sig.tp - Sign(t.sig.side) * Slip]
    ELSE [reason |-> "stop_loss", price |-> StopFill(t.sig, b)]

(* The stop wins a bar that touches both. *)
Exit(t, b) ==
    IF HitStop(t.sig, b)
    THEN [reason |-> "stop_loss", price |-> StopFill(t.sig, b)]
    ELSE [reason |-> "take_profit", price |-> t.sig.tp - Sign(t.sig.side) * Slip]

Exits(t, b) == t # NoTrade /\ (HitStop(t.sig, b) \/ HitTarget(t.sig, b))

Closed(t, exit, i) ==
    [sig |-> t.sig, filled |-> t.filled, closed |-> i, reason |-> exit.reason,
     funding |-> t.funding,
     pnl |-> Sign(t.sig.side) * (exit.price - t.entry) - 2 * Fee - t.funding]

(* One iteration of run(): fill, funding, exit, the strategy's next signal. *)
Step(b, allowed, signal) ==
    LET i == Len(bars) + 1
        fills == pending # NoSignal /\ trade = NoTrade /\ allowed
        t == Funded(IF fills THEN Fill(b, i) ELSE trade, i)
        ends == Exits(t, b)
        c == Closed(t, Exit(t, b), i)
        left == IF ends THEN NoTrade ELSE t
    IN  /\ bars' = Append(bars, b)
        /\ settled' = settled \cup Due(i)
        /\ trade' = left
        /\ trades' = IF ends THEN Append(trades, c) ELSE trades
        /\ equity' = IF ends THEN equity + c.pnl ELSE equity
        /\ curve' = Append(curve, equity')
        /\ pending' = IF left = NoTrade THEN signal ELSE IF trade = NoTrade THEN NoSignal ELSE pending

OnBar ==
    /\ ~over /\ Len(bars) < MaxBars
    /\ \E b \in Bars, allowed \in BOOLEAN :
          /\ pending = NoSignal => allowed
          /\ \E signal \in {NoSignal} \cup Signals(Len(bars) + 1, b.close) : Step(b, allowed, signal)
    /\ UNCHANGED over

(* What is open at the end of the data closes at the last close, unslipped. *)
EndOfData ==
    /\ ~over /\ bars # <<>>
    /\ over' = TRUE
    /\ IF trade = NoTrade THEN UNCHANGED <<trades, equity, curve>>
       ELSE LET c == Closed(trade, [reason |-> "end_of_data", price |-> Last(bars).close], Len(bars))
            IN  /\ trades' = Append(trades, c)
                /\ equity' = equity + c.pnl
                /\ curve' = Append(curve, equity')
    /\ trade' = NoTrade
    /\ UNCHANGED <<bars, pending, settled>>

Next == OnBar \/ EndOfData

-----------------------------------------------------------------------------
(* The outcome evaluator: the first of at most `horizon` candles to touch a level. *)
Resolve(s, candles, horizon) ==
    LET touched == {n \in DOMAIN candles : /\ n <= horizon
                                           /\ HitStop(s, candles[n]) \/ HitTarget(s, candles[n])}
    IN  CASE touched # {} -> IF HitStop(s, candles[Min(touched)]) THEN "LOSS" ELSE "WIN"
          [] touched = {} /\ Len(candles) >= horizon -> "EXPIRED"
          [] OTHER -> "PENDING"

(* min_risk_reward *)
Worthwhile == 2 * Reward >= 3 * Risk

(* The label of bar t: a hypothetical long and a hypothetical short from the
   next bar's open, over that bar and `horizon` more. *)
Label(t, horizon) ==
    LET window == SubSeq(bars, t + 1, t + 1 + horizon)
        Favourable(side) == Resolve(Signal(side, t, window[1].open), window, horizon + 1) = "WIN"
    IN  CASE Worthwhile /\ Favourable("LONG") /\ ~Favourable("SHORT") -> "LONG"
          [] Worthwhile /\ Favourable("SHORT") /\ ~Favourable("LONG") -> "SHORT"
          [] OTHER -> "NO_TRADE"

Labelled(t) == t + 1 + Horizon <= Len(bars)

(* _compile_results: what a result says of its trades and of its curve.  A trade
   that breaks even is a loss; without one the gross loss is 1. *)
Gained(rows) == SumFunctionOnSet([n \in DOMAIN trades |-> trades[n].pnl], rows)

(* A run lasts since the last trade that was not of its kind. *)
LongestRun(rows) ==
    LET Run(n) == n - Max({0} \cup (1..n \ rows))
    IN  Max({0} \cup {Run(n) : n \in DOMAIN trades})

Drawdown(values) ==
    LET Peak(i) == Max({values[j] : j \in 1..i})
    IN  Max({Peak(i) - values[i] : i \in DOMAIN values})

Compiled ==
    LET won == {n \in DOMAIN trades : trades[n].pnl > 0}
        lost == DOMAIN trades \ won
    IN  [wins |-> Cardinality(won), losses |-> Cardinality(lost), total |-> Gained(DOMAIN trades),
         profit |-> Gained(won), loss |-> IF lost = {} THEN 1 ELSE -Gained(lost),
         drawdown |-> IF trades = <<>> THEN 0 ELSE Drawdown(curve),
         winning |-> LongestRun(won), losing |-> LongestRun(lost)]

(* check_result_sanity of the result of the run: every equity is that of a prefix of the trades. *)
ResultSane ==
    LET earned == [n \in 0..Len(trades) |-> Initial + Gained(1..n)]
        falls == {earned[p[1]] - earned[p[2]] :
                     p \in {q \in (0..Len(trades)) \X (0..Len(trades)) : q[1] <= q[2]}}
    IN  /\ equity = earned[Len(trades)]
        /\ \A n \in DOMAIN trades : trades[n].filled <= trades[n].closed
        /\ \A i \in DOMAIN curve : \E n \in 0..Len(trades) : curve[i] = earned[n]
        /\ Compiled.total = equity - Initial
        /\ Compiled.losses > 0 => Compiled.profit - Compiled.loss = Compiled.total
        /\ Compiled.drawdown = Max(falls)
        /\ Compiled.wins > 0 /\ Compiled.losses > 0 => Compiled.winning + Compiled.losing <= Len(trades)

-----------------------------------------------------------------------------
(* The exit of a trade and the outcome shown of its signal agree; they part
   only past the evaluator's horizon, or when the data end first. *)
OutcomeAgrees(c) ==
    LET outcome == Resolve(c.sig, SubSeq(bars, c.sig.at + 1, Len(bars)), Horizon)
    IN  CASE c.closed - c.sig.at > Horizon -> outcome = "EXPIRED"
          [] c.closed - c.sig.at <= Horizon /\ c.reason = "stop_loss" -> outcome = "LOSS"
          [] c.closed - c.sig.at <= Horizon /\ c.reason = "take_profit" -> outcome = "WIN"
          [] OTHER -> outcome \in {"PENDING", "EXPIRED"}

(* The label says a trade's side exactly if the trade takes its profit within
   the horizon, unless the reward is never worth the risk.  Both have the same
   levels if the entry does not gap. *)
LabelAgrees(c) ==
    Worthwhile /\ Labelled(c.sig.at) /\ bars[c.filled].open = bars[c.sig.at].close =>
        (Label(c.sig.at, Horizon) = c.sig.side
            <=> c.reason = "take_profit" /\ c.closed <= c.filled + Horizon)

(* "Stop-loss wins ties ... consistently applied everywhere in this codebase"
   (outcome_evaluator.py:9): what the backtester does with a signal is what the
   evaluator and the labels say of it, and no bar is good for both sides
   (labeling.py:65). *)
ReplaysAgree == \A n \in DOMAIN trades : OutcomeAgrees(trades[n]) /\ LabelAgrees(trades[n])

(* Each trade has paid or received each funding event after its fill and up to
   the bar that ended it, once (engine.py:261). *)
FundingIsExact ==
    \A n \in DOMAIN trades :
        LET c == trades[n]
        IN  c.funding = Sign(c.sig.side)
                * Cardinality({e \in Events : 2 * c.filled < e /\ e <= 2 * c.closed})
=============================================================================
