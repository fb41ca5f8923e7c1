------------------------------ MODULE Research ------------------------------
(***************************************************************************)
(* The parts of the system that compute from data they are given: the      *)
(* replays of Backtest, which take steps, and the functions of Strategies, *)
(* Features, Indicators, Decisions and Reports, each asked one question    *)
(* per behaviour.                                                          *)
(***************************************************************************)
EXTENDS Backtest, Strategies, Features, Indicators, Decisions, Reports

CONSTANT Questions  \* a function to sets of records; kind says which operator is asked

(* What the callers see to: numbers, a low that is not above the close nor the
   close above the high, bands around their mean unless the last closes are all
   the same, the parser's words, steps and prices that are not 0, some candles. *)
Posed(q) ==
    /\ q.kind = "view" =>
          /\ {q.view.close, q.view.plow, q.view.phigh, q.view.line} \subseteq Int
          /\ {q.view.lower, q.view.mid, q.view.upper} \subseteq Int
          /\ q.id \in {"S04", "pure_bb"} =>
                (q.view.lower < q.view.mid /\ q.view.mid < q.view.upper) \/ q.view.close = q.view.mid
    /\ q.kind = "message" =>
          /\ q.message.words \subseteq DOMAIN Keywords /\ q.message.tps \in [1..3 -> Int]
          /\ {q.message.entry, q.message.stop, q.message.tp} \subseteq Int
    /\ q.kind = "highs" => q.highs \in Seq(Int)
    /\ q.kind = "bars" =>
          /\ q.bars \in Seq([high : Int, low : Int, close : Int])
          /\ q.width \in Seq(Nat) /\ Len(q.width) = Len(q.bars)
          /\ \A i \in DOMAIN q.bars : q.bars[i].low <= q.bars[i].close /\ q.bars[i].close <= q.bars[i].high
    /\ q.kind = "open" => q.open \in Nat /\ q.times \subseteq Int /\ IsFiniteSet(q.times)
    /\ q.kind = "split" => {q.n, q.train, q.val, q.horizon} \subseteq Nat
    /\ q.kind = "order" =>
          /\ {q.order.price, q.order.target, q.order.step} \subseteq Nat \ {0}
          /\ {q.order.min, q.order.max, q.order.minNotional} \subseteq Nat
          /\ {q.order.leverage, q.order.maxLeverage} \subseteq Nat
    /\ q.kind = "positions" => q.local \in Seq(Range(q.local)) /\ q.exchange \in Seq(Range(q.exchange))
    /\ q.kind = "signals" => q.signals \in Seq([same : BOOLEAN, apart : Nat, off : Nat])
    /\ q.kind = "row" => q.row \in Rows
    /\ q.kind = "candle" => q.candle \in [open : Int, high : Int, low : Int, close : Int, volume : Int]
    /\ q.kind = "volumes" =>
          /\ q.rows \in Seq([price : Int, volume : Int, day : Int])
          /\ \A i, j \in DOMAIN q.rows : i < j => q.rows[i].day <= q.rows[j].day
    /\ q.kind = "books" => q.trades \in Seq([status : STRING, pnl : Int, fees : Int, exit : Nat])
    /\ q.kind = "outcomes" => q.outcomes \in Seq([outcome : STRING, taken : BOOLEAN, pct : Int])
    /\ q.kind = "series" => q.times \in Seq(Int) /\ q.times # <<>>
    /\ q.kind = "record" =>
          /\ q.pnls \in Seq(Int)
          /\ IsFiniteSet(DOMAIN q.predictions) /\ \A c \in DOMAIN q.predictions : q.predictions[c] \in Nat
    /\ q.kind = "grid" => q.floor \in Int /\ q.results \in Seq([trades : Nat, factor : Int, drawdown : Int])

ASSUME ResearchAssumption == \A n \in DOMAIN Questions : \A q \in Questions[n] : Posed(q)

VARIABLE question

allVars == <<vars, question>>

Replay == [kind |-> "replay"]

ResearchInit ==
    /\ Init
    /\ question = Replay \/ \E n \in DOMAIN Questions : question \in Questions[n]

ResearchNext == question = Replay /\ Next /\ UNCHANGED question

ResearchSpec == ResearchInit /\ [][ResearchNext]_allVars

Asked(kind) == question.kind = kind

-----------------------------------------------------------------------------
Ordered(sig) ==
    \A n \in DOMAIN sig.targets :
        sig.side * (sig.targets[n] - (IF n = 1 THEN sig.entry ELSE sig.targets[n - 1])) > 0

Supports(st, b) == st.direction * (2 * b.close - Line(st)) >= 0

(* A signal's stop lies on its losing side and its targets, in order, on the
   other: everything that trades it takes that for granted, and _rr_quality,
   which looks at distances, does not notice.  Two exceptions: a Supertrend stop
   is the line, which supports the price (indicators.py:174) unless the bar is
   taller than the bands are wide; targets at the bands are behind an entry that
   has passed them (multi_strategy_signals.py:213).  A message's targets need
   not be in order (parser.py:135), but the live gate refuses none of them for
   its structure (gates.py:94). *)
LevelsOrdered ==
    /\ Asked("bars") =>
          LET width == question.width
              line == SupertrendRows(question.bars, width)
          IN  \A i \in DOMAIN line :
                  line[i].ready /\ 2 * width[i] >= question.bars[i].high - question.bars[i].low
                      => Supports(line[i], question.bars[i])
    /\ Asked("view") =>
          \A signal \in Generate(question.id, question.view) :
              LET sig == signal.levels
                  s == sig.side
                  passed == question.id \in {"S04", "pure_bb"} /\ ~Above(question.view.mid, sig.entry, s)
              IN  /\ question.id # "S06" => s * (sig.entry - sig.stop) > 0
                  /\ ~passed => Ordered(sig)
    /\ Asked("message") =>
          LET msg == Parse(question.message)
          IN  msg.status = "VALID" =>
                  /\ msg.targets # {}
                  /\ \A tp \in msg.targets : StructureValid(msg.side, msg.entry, msg.stop, tp)

Averages(s, i) == <<Sma(s, 3, i), Wma(s, 3, i), RawHma(s, 3, i), Momentum(s, 3, i), Efficiency(s, 3, i)>>

Movement(bs, width, i) ==
    <<TrueRange(bs, i), DirectionalMovement(bs, i), SupertrendRows(bs, SubSeq(width, 1, Len(bs)))[i]>>

(* What a bar is given is known by then: it does not change when bars are
   appended (structure.py:5, research_v3_discovery.py:403), it comes from days
   that are over, and not from older ones than need be (a week's gap would be a
   fault too), from readings and liquidations up to the bar's opening; and no label a
   model is fitted or tuned on reads a row it is judged on (ml_pipeline.py:27). *)
NoLookahead ==
    /\ Asked("highs") =>
          LET highs == question.highs
              known(i) == SubSeq(highs, 1, i)
              stamped == Stamped(highs, 1)
          IN  \A i \in DOMAIN highs :
                  /\ stamped[i] = Stamped(known(i), 1)[i]
                  /\ Direction(stamped, i) = Direction(Stamped(known(i), 1), i)
                  /\ FractalRead(highs, 2, i) = FractalRead(known(i), 2, i)
                  /\ Averages(highs, i) = Averages(known(i), i)
    /\ Asked("bars") =>
          LET bs == question.bars
          IN  \A i \in DOMAIN bs : Movement(bs, question.width, i) = Movement(SubSeq(bs, 1, i), question.width, i)
    /\ Asked("open") =>
          LET open == question.open
          IN  /\ DailyBar * (TrendOfDay(open) + 1) \in open - DailyBar - 1..open
              /\ Reading(question.times, open) <= open
              /\ RegimeBar(question.times, open) <= open
              /\ \A e \in question.times : e > open => Bucket(e, {open}) = -1
    /\ Asked("split") =>
          LET e == Embargo(question.horizon)
          IN  /\ Purged(ChronologicalSplit(question.n, question.train, question.val, e), question.horizon)
              /\ \A k \in 0..2 : Purged(Fold(k, question.train, question.val, 2, 2, e), question.horizon)
              /\ \A k \in 0..2 :
                    LET fold == LoaderFold(k, question.train, 2, 2, e)
                    IN  \A t \in fold.train \cup fold.val :
                            LoaderLabelReads(t, question.horizon, question.n) \cap fold.test = {}
              /\ LET parts == Parts(question.n, 10 * question.train, 10 * question.val)
                     oos == Cardinality(parts.test)
                     folds == question.horizon + 1
                 IN  /\ \A i \in Interval(0, oos) : \E k \in Interval(0, folds) : i \in OosFold(k, oos, folds)
                     /\ \A j, k \in Interval(0, folds) : j < k => OosFold(j, oos, folds) \cap OosFold(k, oos, folds) = {}
                     /\ \A t \in parts.train \cup parts.val : \A u \in parts.test : t < u

(* What is computed twice comes out the same.  "Vectorized equivalent" (regime.py:114):
   the detector that runs live and the one that labels backtests name the same
   regime, but for a normal volatility ratio with an ATR that is not.  A row is
   given a reason if and only if it is no candle (validator.py:137).  Totals, curve,
   breakdown and expected equity count the same trades (service.py:194), what
   the user took and what he missed is all there was (service.py:118).  The VWAP
   that starts at midnight is what the running one has gained since then
   (indicators.py:157).  The results of a replay are those its trades give, and
   none is refused as impossible (sanity_checks.py:25). *)
TwinsAgree ==
    /\ Asked("replay") /\ over => ResultSane
    /\ Asked("row") =>
          LET r == question.row
          IN  (r.ratio = "normal" /\ r.atr # "normal") \/ Detect(r) = DetectSeries(r)
    /\ Asked("candle") =>
          LET c == question.candle
              candle == {c.open, c.close} \subseteq c.low..c.high /\ c.low > 0 /\ c.volume >= 0
          IN  Invalid(c) = ~candle /\ (Reasons(c) = {}) = candle
    /\ Asked("volumes") =>
          LET rows == question.rows
          IN  \A i \in DOMAIN rows : \A j \in {0} \cup 1..i - 1 :
                  LET before == IF j = 0 THEN <<0, 0>> ELSE RunningVwap(rows, j)
                  IN  rows[i].day # (IF j = 0 THEN 0 ELSE rows[j].day) /\ rows[j + 1].day = rows[i].day =>
                          \A n \in 1..2 : SessionVwap(rows, i)[n] + before[n] = RunningVwap(rows, i)[n]
    /\ Asked("books") =>
          LET rows == question.trades
              total == Performance(rows).total
          IN  /\ Performance(rows).won - Performance(rows).lost = total
              /\ Booked(rows) # {} =>
                    ~Mismatch(Curve(rows, 10)[Max(Booked(rows))] + 3 - 1, Theoretical(rows, 10, 3, 1), 0)
              /\ ~Raises(rows) => \A days \in {1, 7} :
                    /\ SumFunction(Column(Breakdown(rows, days), "net")) = total
                    /\ SumFunction(Column(Breakdown(rows, days), "trades")) = Cardinality(Booked(rows))
    /\ Asked("outcomes") =>
          LET all == SignalPerformance(question.outcomes)
          IN  \A f \in DOMAIN all : UserTaken(question.outcomes)[f] + Missed(question.outcomes)[f] = all[f]

(* The quantity ordered can be traded and costs the margin within a tenth; no
   quantity that can be traded on the instrument's grid is nearer, and an order
   is refused only if none is near enough, but for a grid that starts beyond the
   quantity above the target or stops before the one below it (sizing.py:89).  A trade is given
   to one signal, and a further signal takes it over or leaves it in doubt but
   never gives it to a third (matcher.py:74).  Parameters with too few trades are
   kept only if all have too few, and no others earn more (research_v2_rigorous.py:143). *)
ChoicesAreBest ==
    /\ Asked("order") =>
          LET o == question.order
              q == Sized(o)
              grid == {n * o.step : n \in 1..o.max}
              near == {r \in grid : Tradeable(o, r) /\ 10 * Deviation(o, r) <= o.target}
          IN  IF q > 0 THEN q \in near /\ \A r \in near : Deviation(o, q) <= Deviation(o, r)
              ELSE o.active /\ o.leverage <= o.maxLeverage =>
                      \A r \in near : r > Max(Rounded(o)) \/ r < Min(Rounded(o))
    /\ Asked("signals") =>
          LET signals == question.signals
          IN  /\ Cardinality(Match(signals)) <= 1
              /\ Match(signals) \subseteq Match(Front(signals)) \cup {Len(signals)}
    /\ Asked("grid") =>
          LET results == question.results
              kept == results[Selected(results, question.floor)]
          IN  \A n \in DOMAIN results : results[n].trades >= question.floor =>
                  kept.trades >= question.floor /\ kept.factor >= results[n].factor

(* The same position, as far as both sides know it. *)
Alike(p, q) ==
    /\ p.symbol = q.symbol /\ p.side = q.side
    /\ BothKnown(p.quantity, q.quantity) => p.quantity = q.quantity

Hidden(ps, n) == \E k \in DOMAIN ps : k > n /\ ps[k].symbol = ps[n].symbol

Accounted(ps, qs) ==
    \A n \in DOMAIN ps : Hidden(ps, n) \/ \E k \in DOMAIN qs : Alike(ps[n], qs[k])

(* A reconciliation without mismatch means that what the exchange holds is in the
   database and what the database holds is at the exchange, side and known
   quantity alike; all it passes over is a row that a later one of its symbol
   hides (reconciliation.py:51).  A quality report counts every candle a series
   lacks between its ends; coverage is full only if none is, or if as many are
   there twice (validator.py:53), and never for a single candle (132).  A trade that had earned more would never have made
   the model's health worse, and a drift alone never stops it (monitor.py:101). *)
ReportsAreTrue ==
    /\ Asked("positions") =>
          LET local == question.local
              exchange == question.exchange
          IN  Consistent(local, exchange) => Accounted(local, exchange) /\ Accounted(exchange, local)
    /\ Asked("series") =>
          LET ts == question.times
              several == Cardinality(Times(ts)) > 1
          IN  /\ several => MissingCount(ts) + Cardinality(Times(ts)) = ExpectedCount(ts)
              /\ FullyCovered(ts) <=> several /\ MissingCount(ts) <= DuplicateCount(ts)
    /\ Asked("record") =>
          LET pnls == question.pnls
              health == Health(pnls, question.predictions)
          IN  /\ \A n \in DOMAIN pnls : Health([pnls EXCEPT ![n] = @ + 1], question.predictions) <= health
              /\ health \in {Health(pnls, [c \in DOMAIN question.predictions |-> 0]), 1}
=============================================================================
