------------------------------ MODULE Features ------------------------------
(***************************************************************************)
(* What strategies and models are given besides the bars: the market       *)
(* regime, by the detector and by its vectorised form                      *)
(* (signal_engine/regime.py), swings, daily trend, funding and             *)
(* liquidations as of a bar (feature_engine, multi_strategy_signals.py),   *)
(* and the rows a model is trained on (ml_pipeline.py).                    *)
(***************************************************************************)
EXTENDS Integers, Sequences, FiniteSets, FiniteSetsExt, SequencesExt

-----------------------------------------------------------------------------
(* A row of features, past the first 50: ratio is realized_vol_10 over
   realized_vol_50, atr is the ATR over its mean, each "high", "low",
   "normal" or "unknown"; ema is the sign of ema_50 - ema_200, structure
   that of uptrend over downtrend. *)
Levels3 == {"high", "normal", "low"}
Rows == [ratio : Levels3 \cup {"unknown"}, atr : Levels3, ema : {-1, 0, 1}, structure : {-1, 0, 1},
         adx : {"below 20", "between", "above 25"}, liquidated : BOOLEAN, narrow : BOOLEAN,
         consolidation : BOOLEAN]

(* _detect_volatility_regime: a normal ratio goes on to the ATR. *)
Volatility(r) == IF r.ratio \in {"high", "low"} THEN r.ratio ELSE r.atr

(* _detect_trend_regime *)
Trend(r) == IF r.ema # 0 /\ r.adx = "above 25" THEN r.ema ELSE r.structure

Named(volatility, r) ==
    CASE volatility = "high" -> IF r.liquidated THEN "POST_LIQUIDATION" ELSE "HIGH_VOLATILITY"
      [] volatility = "low" -> IF r.narrow THEN "BREAKOUT" ELSE "LOW_VOLATILITY"
      [] OTHER -> CASE Trend(r) = 1 -> "TRENDING_BULLISH"
                    [] Trend(r) = -1 -> "TRENDING_BEARISH"
                    [] OTHER -> IF r.adx = "below 20" \/ r.consolidation THEN "RANGING" ELSE "UNCERTAIN"

(* MarketRegimeDetector.detect *)
Detect(r) == Named(Volatility(r), r)

(* Mutation: an unknown ratio is a normal one. *)
DetectSeriesBlind(r) == Named(IF r.ratio = "unknown" THEN "normal" ELSE r.ratio, r)

(* detect_regime_series: the ATR stands in for an unknown ratio only. *)
DetectSeries(r) == Named(IF r.ratio = "unknown" THEN r.atr ELSE r.ratio, r)

-----------------------------------------------------------------------------
(* _detect_swings: the high of bar i - k, stamped on bar i, if no bar within k is higher; 0 if not. *)
Swing(highs, k, i) ==
    LET pivot == i - k
    IN  IF pivot > k /\ i <= Len(highs) /\ highs[pivot] = Max({highs[j] : j \in pivot - k..i})
        THEN highs[pivot] ELSE 0

(* Mutation: a swing is stamped on its own bar. *)
StampedUncentred(highs, k) == [i \in DOMAIN highs |-> Swing(highs, k, i + k)]

Stamped(highs, k) == [i \in DOMAIN highs |-> Swing(highs, k, i)]

(* detect_market_structure: 1 if the last swing is above the one before, -1 below, 0 otherwise. *)
Direction(swings, i) ==
    LET seen == SelectSeq(SubSeq(swings, 1, i), LAMBDA x : x > 0)
        n == Len(seen)
    IN  CASE n >= 2 /\ seen[n] > seen[n - 1] -> 1
          [] n >= 2 /\ seen[n] < seen[n - 1] -> -1
          [] OTHER -> 0

(* precompute_swing_structure marks a fractal from the bars on both sides of it;
   swing_structure_signal at bar i reads the last one two bars back, or 0. *)
Fractal(highs, width, j) ==
    /\ j - width >= 1 /\ j + width <= Len(highs)
    /\ \A m \in 1..width : highs[j] > highs[j - m] /\ highs[j] > highs[j + m]

FractalRead(highs, width, i) ==
    LET marked == {j \in 1..i - 2 : Fractal(highs, width, j)}
    IN  IF marked = {} THEN 0 ELSE highs[Max(marked)]

(* attach_daily_trend_filter: bars open at every hour, days at every sixth; the
   day whose trend the bar opening at `open` is given, -1 if none.  The day
   matched by the strict as-of join carries the trend of the day before it. *)
DailyBar == 6
TrendOfDay(open) ==
    LET matched == {d \in 0..open : DailyBar * d < open}
    IN  IF matched = {} THEN -1 ELSE Max(matched) - 1

(* _asof_merge_value: the last reading at or before the bar's opening, -1 if none. *)
Reading(readings, open) == Max({-1} \cup {e \in readings : e <= open})

(* _bucket_sum: a liquidation counts for the first bar opening at or after it, -1 if none. *)
Bucket(event, opens) ==
    LET later == {o \in opens : event <= o} IN IF later = {} THEN -1 ELSE Min(later)

-----------------------------------------------------------------------------
(* Train, validation and test rows, as intervals of row numbers from 0. *)
Interval(from, to) == from..to - 1

(* chronological_split_with_embargo; the percentages are truncated to rows. *)
ChronologicalSplit(n, trainRows, valRows, embargo) ==
    LET valStart == trainRows + embargo
        valEnd == valStart + valRows
    IN  [train |-> Interval(0, trainRows), val |-> Interval(valStart, valEnd),
         test |-> Interval(valEnd + embargo, n)]

(* rolling_walk_forward_windows: fold k, if it ends within the n rows. *)
Fold(k, trainRows, valRows, testRows, step, embargo) ==
    LET start == k * step
        valStart == start + trainRows + embargo
        testStart == valStart + valRows + embargo
    IN  [train |-> Interval(start, start + trainRows), val |-> Interval(valStart, valStart + valRows),
         test |-> Interval(testStart, testStart + testRows)]

(* run_single_combo and run_ml_walk_forward: `barrier_config.horizon_bars + 2`. *)
Embargo(horizon) == horizon + 2

(* DatasetLoader.create_walk_forward_splits, and the last part of a fold's training
   rows the validator tunes on: nothing separates it from the rest. *)
LoaderFold(k, trainRows, testRows, step, embargo) ==
    LET start == k * step
        tuned == start + (85 * trainRows) \div 100
        testStart == start + trainRows + embargo
    IN  [train |-> Interval(start, tuned), val |-> Interval(tuned, start + trainRows),
         test |-> Interval(testStart, testStart + testRows)]

(* The row, besides its own, that create_labels reads for row t; a row whose
   label would read past the end is labelled 0 and kept. *)
LoaderLabelReads(t, forward, n) == {t + forward} \cap Interval(0, n)

(* split_chronological and chronological_split: fractions of n, in percent. *)
Parts(n, train, val) ==
    [train |-> Interval(0, (n * train) \div 100),
     val |-> Interval((n * train) \div 100, (n * (train + val)) \div 100),
     test |-> Interval((n * (train + val)) \div 100, n)]

(* walk_forward_on_oos: the folds of the out-of-sample rows; the last takes the rest. *)
OosFold(i, n, folds) == Interval(i * (n \div folds), IF i = folds - 1 THEN n ELSE (i + 1) * (n \div folds))

(* attribute_trades_to_regime: the bar whose regime a trade entered at `time` is given. *)
RegimeBar(opens, time) == Max({-1} \cup {o \in opens : o <= time})

(* The rows whose prices the label of row t may depend on. *)
LabelReads(t, horizon) == t + 1..t + 1 + horizon

(* No label a model is fitted or tuned on depends on a row it is judged on. *)
Purged(split, horizon) ==
    /\ \A t \in split.train : LabelReads(t, horizon) \cap (split.val \cup split.test) = {}
    /\ \A t \in split.val : LabelReads(t, horizon) \cap split.test = {}
=============================================================================
