----------------------------- MODULE Strategies -----------------------------
(***************************************************************************)
(* What each strategy reads of the last two bars, when it signals, and the *)
(* levels it gives: the registry's strategies and the baselines, the       *)
(* candidates of the research scripts, the two model-driven signals.       *)
(*                                                                         *)
(* A side is 1 (LONG) or -1 (SHORT); every rule is written for a side s.   *)
(* Prices are in half ATRs.  osc is whatever the rule compares with fixed  *)
(* thresholds, counted from its neutral value and scaled to units a rule   *)
(* tells apart; gate stands for the thresholds that must hold for either   *)
(* side.  The number of bars a rule needs, its NaN tests and "ATR > 0" are *)
(* the one field ready.                                                    *)
(***************************************************************************)
EXTENDS Integers, Sequences, FiniteSets, FiniteSetsExt, SequencesExt

Sides == {1, -1}

(* A field of the bars that has a version for each side. *)
Of(s, long, short) == IF s = 1 THEN long ELSE short

Prior(v, s) == Of(s, v.pupper, v.plower)      \* the channel of the previous bar
Band(v, s) == Of(s, v.upper, v.lower)         \* the band of this bar
Pulled(v, s) == Of(s, v.plow, v.phigh)        \* how far the previous bar pulled back

Above(x, y, s) == s * (x - y) > 0

CrossedLine(v, s) == ~Above(v.pclose, v.pline, s) /\ Above(v.close, v.line, s)

CrossedLevel(v, level, s) == s * v.posc <= level /\ s * v.osc > level

-----------------------------------------------------------------------------
(* The rules of ml/evaluation/multi_strategy_signals.py. *)
MomentumBreakout(v, s) == v.gate /\ Above(v.close, Prior(v, s), s)

(* The previous close may lie a tenth of a percent, taken as one unit, beyond its EMA. *)
EmaPullback(v, s) ==
    /\ v.trend = s
    /\ ~Above(Pulled(v, s), v.pline, s) /\ s * (v.pclose - v.pline) >= -1
    /\ Above(v.close, v.line, s) /\ s * v.osc > -1

VwapReversion(v, s) ==
    /\ s * (v.close - v.line) < -5
    /\ Above(v.close - v.line, v.pclose - v.pline, s)

RsiBollinger(v, s) ==
    /\ Above(Prior(v, -s), v.pclose, s) /\ ~Above(Band(v, -s), v.close, s)
    /\ s * v.posc < -2

Supertrend(v, s) == v.ptrend = -s /\ v.trend = s

MacdMomentum(v, s) == v.trend = s /\ CrossedLevel(v, 0, s)

EmaStructure(v, s) ==
    v.gate /\ v.trend = s /\ ~Above(Pulled(v, s), v.pline, s) /\ Above(v.close, v.line, s)

AtrBreakout(v, s) == v.gate /\ Above(v.close, Band(v, s), s)

MtfTrend(v, s) == v.gate /\ v.trend = s /\ Above(v.close, Prior(v, s), s)

ZscoreReversion(v, s) == s * v.posc < -2 /\ Above(v.osc, v.posc, s)

(* upper and lower are the extremes of the closes since the level, here Prior. *)
StructureRetest(v, s) ==
    /\ Above(Band(v, s), Prior(v, s), s)
    /\ s * (v.close - Prior(v, s)) \in 0..1

KamaTrend(v, s) == CrossedLine(v, s) /\ v.trend = s

RangeExpansion(v, s) == v.gate /\ Above(v.close, Prior(v, s), s)

(* "not hma_rising": a flat average lets a SHORT through. *)
HmaTrend(v, s) == CrossedLine(v, s) /\ (v.line > v.pline <=> s = 1)

-----------------------------------------------------------------------------
(* ml/evaluation/baselines.py *)
EmaCrossover(v, s) == CrossedLevel(v, 0, s)
RsiBaseline(v, s) == s * v.posc < -2 /\ s * v.osc >= -2
TrendFollowing(v, s) == v.gate /\ Above(v.close, Prior(v, s), s)

(* The candidates of scripts/research_v3_discovery.py that are not above. *)
Chandelier(v, s) == ~Above(v.pclose, Prior(v, s), s) /\ Above(v.close, Band(v, s), s)
MomentumAccel(v, s) == v.trend = s /\ CrossedLevel(v, 1, s)
MultiMomentum(v, s) == v.trend = s /\ v.ptrend = s /\ s * v.osc > 0
VolAdjMomentum(v, s) == CrossedLevel(v, 3, s)
CompressionExpansion(v, s) == v.gate /\ Above(v.close, Band(v, s), s)
BreakoutPullback(v, s) ==
    Above(Band(v, s), Prior(v, s), s) /\ Above(v.close, v.line, s) /\ Above(v.close, Prior(v, s), s)
PureBollinger(v, s) == Above(Prior(v, -s), v.pclose, s) /\ ~Above(Band(v, -s), v.close, s)
VolBandReversion(v, s) == s * v.osc < -2
SwingBreakout(v, s) == Above(v.close, Prior(v, s), s)
HtfPullback(v, s) ==
    v.trend = s /\ ~Above(Pulled(v, s), v.pline, s) /\ Above(v.close, v.line, s) /\ s * v.osc > -1
HtfVolMomentum(v, s) == v.gate /\ CrossedLevel(v, 2, s)

(* Funding leaves an extreme: a LONG after the low one. *)
FundingReversion(v, s) == s * v.posc <= -2 /\ s * v.osc > -2

-----------------------------------------------------------------------------
(* SignalEngine._determine_signal_type, in percent: osc and posc are the
   probabilities of a long and a short, trend the regime's. *)
SignalType(v, s) ==
    LET p == Of(s, v.osc, v.posc)
        q == Of(-s, v.osc, v.posc)
    IN  v.gate /\ p >= 55 /\ p - q >= 15 /\ v.trend # -s

(* make_ml_signal_func: in percent; the expected value is in hundredths of R
   for the label's 2:1 barrier. *)
ExpectedValue(p) == 2 * p - (100 - p) - 5
MlSignal(v, s) ==
    LET p == Of(s, v.osc, v.posc)
        q == Of(-s, v.osc, v.posc)
    IN  p >= 45 /\ p > q /\ ExpectedValue(p) >= 15

-----------------------------------------------------------------------------
(* Stop and targets at fixed distances from the entry, which is the close. *)
Levels(v, s, stop, targets) ==
    [side |-> s, entry |-> v.close, stop |-> v.close - s * stop,
     targets |-> [n \in DOMAIN targets |-> v.close + s * targets[n]]]

AtrLevels(v, s) == Levels(v, s, 4, <<3, 5, 7>>)
ReversionLevels(v, s) == Levels(v, s, 3, <<2, 4, 6>>)
BaselineLevels(v, s) == Levels(v, s, 4, <<6>>)
EngineLevels(v, s) == Levels(v, s, 4, <<4, 6, 10>>)
BarrierLevels(v, s) == Levels(v, s, 2, <<4, 6, 8>>)

(* Mutation: the stop is on the side of the targets. *)
VwapLevelsFlipped(v, s) ==
    [side |-> s, entry |-> v.close, stop |-> v.close + s * 3, targets |-> <<v.line, v.line + s>>]

VwapLevels(v, s) ==
    [side |-> s, entry |-> v.close, stop |-> v.close - s * 3, targets |-> <<v.line, v.line + s>>]

BollingerLevels(v, s) ==
    [side |-> s, entry |-> v.close,
     stop |-> Of(s, Min({v.plow, v.close - 3}), Max({v.phigh, v.close + 3})),
     targets |-> <<v.mid, Band(v, s)>>]

PureBollingerLevels(v, s) ==
    [side |-> s, entry |-> v.close, stop |-> v.close - s * 3, targets |-> <<v.mid, Band(v, s)>>]

SupertrendLevels(v, s) ==
    [Levels(v, s, 0, <<3, 5, 8>>) EXCEPT !.stop = v.line]

-----------------------------------------------------------------------------
(* MULTI_STRATEGY_REGISTRY, the baselines and the candidates: rule and levels. *)
Rule(id, v, s) ==
    CASE id = "S01" -> MomentumBreakout(v, s)   [] id = "S02" -> EmaPullback(v, s)
      [] id = "S03" -> VwapReversion(v, s)      [] id = "S04" -> RsiBollinger(v, s)
      [] id = "S05" -> TrendFollowing(v, s)     [] id = "S06" -> Supertrend(v, s)
      [] id = "S07" -> MacdMomentum(v, s)       [] id = "S08" -> EmaStructure(v, s)
      [] id = "S09" -> AtrBreakout(v, s)        [] id = "S10" -> MtfTrend(v, s)
      [] id = "S11" -> ZscoreReversion(v, s)    [] id = "S12" -> StructureRetest(v, s)
      [] id = "V3_KAMA" -> KamaTrend(v, s)      [] id = "V3_RANGE" -> RangeExpansion(v, s)
      [] id = "V3_HMA" -> HmaTrend(v, s)        [] id = "ema_crossover" -> EmaCrossover(v, s)
      [] id = "rsi_strategy" -> RsiBaseline(v, s)
      [] id = "chandelier" -> Chandelier(v, s)  [] id = "momentum_accel" -> MomentumAccel(v, s)
      [] id = "multi_momentum" -> MultiMomentum(v, s)
      [] id = "vol_adj" -> VolAdjMomentum(v, s) [] id = "compression" -> CompressionExpansion(v, s)
      [] id = "breakout_pullback" -> BreakoutPullback(v, s)
      [] id = "pure_bb" -> PureBollinger(v, s)  [] id = "vol_band" -> VolBandReversion(v, s)
      [] id = "swing" -> SwingBreakout(v, s)    [] id = "htf_pullback" -> HtfPullback(v, s)
      [] id = "htf_vol" -> HtfVolMomentum(v, s) [] id = "funding" -> FundingReversion(v, s)
      [] id = "engine" -> SignalType(v, s)      [] id = "ml_model" -> MlSignal(v, s)

Reverting == {"S11", "vol_band", "funding"}
Baselines == {"S05", "ema_crossover", "rsi_strategy"}

LevelsOf(id, v, s) ==
    CASE id = "S03" -> VwapLevels(v, s)
      [] id = "S04" -> BollingerLevels(v, s)
      [] id = "pure_bb" -> PureBollingerLevels(v, s)
      [] id = "S06" -> SupertrendLevels(v, s)
      [] id = "engine" -> EngineLevels(v, s)
      [] id = "ml_model" -> BarrierLevels(v, s)
      [] id \in Reverting -> ReversionLevels(v, s)
      [] id \in Baselines -> BaselineLevels(v, s)
      [] OTHER -> AtrLevels(v, s)

(* _rr_quality looks at distances only. *)
Quality(sig) ==
    LET Dist(a, b) == IF a > b THEN a - b ELSE b - a
        risk == Dist(sig.entry, sig.stop)
        reward == 2 * Dist(sig.targets[1], sig.entry)
    IN  CASE risk > 0 /\ reward >= 5 * risk -> "HIGH"
          [] risk > 0 /\ reward >= 3 * risk /\ reward < 5 * risk -> "MEDIUM"
          [] OTHER -> "LOW"

(* RuleBasedMultiStrategy.generate: the signals of a view, at most one; LONG
   if both sides' conditions hold. *)
Generate(id, v) ==
    LET sides == {s \in Sides : v.ready /\ Rule(id, v, s)}
    IN  {[levels |-> LevelsOf(id, v, s), quality |-> Quality(LevelsOf(id, v, s))] :
            s \in {s \in sides : s = 1 \/ 1 \notin sides}}
=============================================================================
