----------------------------- MODULE Decisions -----------------------------
(***************************************************************************)
(* Questions that are asked of data and change nothing: how much to order  *)
(* (live_execution/sizing.py), whether a message is a trade                *)
(* (telegram_signals/parser.py), which signal a manual trade follows       *)
(* (signal_matching/matcher.py), which parameters to keep, whether the     *)
(* exchange and the database hold the same positions                       *)
(* (live_execution/reconciliation.py), and what a candle series lacks      *)
(* (data_quality/validator.py).                                            *)
(***************************************************************************)
EXTENDS Integers, Sequences, FiniteSets, FiniteSetsExt, SequencesExt

Dist(a, b) == IF a > b THEN a - b ELSE b - a

-----------------------------------------------------------------------------
(* An order: the price, the notional the margin pays for at the leverage, and
   the instrument.  Notionals are price times quantity. *)
Tradeable(o, q) == q > 0 /\ q \in o.min..o.max /\ q * o.price >= o.minNotional

(* _round_to_increment of target / price: down and up. *)
Rounded(o) ==
    LET steps == o.target \div (o.price * o.step)
        exact == o.target % (o.price * o.step) = 0
    IN  {steps * o.step, IF exact THEN steps * o.step ELSE (steps + 1) * o.step}

Deviation(o, q) == Dist(q * o.price, o.target)

(* Mutation: the quantity is rounded down only. *)
CandidatesDown(o) == {q \in {Min(Rounded(o))} : Tradeable(o, q)}

Candidates(o) == {q \in Rounded(o) : Tradeable(o, q)}

(* The quantity to order, 0 if the order is refused. *)
Sized(o) ==
    LET best == Min({q \in Candidates(o) : \A r \in Candidates(o) : Deviation(o, q) <= Deviation(o, r)})
    IN  CASE ~o.active \/ o.leverage > o.maxLeverage -> 0
          [] Candidates(o) = {} -> 0
          [] 10 * Deviation(o, best) > o.target -> 0
          [] OTHER -> best

-----------------------------------------------------------------------------
(* A message: the keywords found, whether its symbol is one, whether it is
   supported, the numbers found (0 if none; tps has TP1 to TP3, tp a bare one). *)
Keywords == [LONG |-> 1, BUY |-> 1, SHORT |-> -1, SELL |-> -1]

Parse(msg) ==
    LET side == Keywords[CHOOSE w \in msg.words : TRUE]
        tps == IF msg.tps = <<0, 0, 0>> THEN <<msg.tp, 0, 0>> ELSE msg.tps
        targets == {tps[n] : n \in DOMAIN tps} \ {0}
        Status(s) == [status |-> s]
    IN  CASE ~msg.symbol -> Status("INVALID")
          [] msg.symbol /\ Cardinality(msg.words) > 1 -> Status("AMBIGUOUS")
          [] msg.symbol /\ msg.words = {} -> Status("INCOMPLETE")
          [] OTHER ->
               CASE ~msg.supported -> Status("UNSUPPORTED_SYMBOL")
                 [] msg.supported /\ (msg.entry = 0 \/ msg.stop = 0 \/ tps[1] = 0) -> Status("INCOMPLETE")
                 [] OTHER ->
                      IF /\ side * (msg.entry - msg.stop) > 0
                         /\ \A tp \in targets : side * (tp - msg.entry) > 0
                      THEN [status |-> "VALID", side |-> side, entry |-> msg.entry,
                            stop |-> msg.stop, targets |-> targets]
                      ELSE Status("INVALID")

(* validate_sl_tp_structure, of the live gates. *)
StructureValid(side, entry, stop, tp) ==
    IF side = 1 THEN stop < entry /\ entry < tp ELSE stop > entry /\ entry > tp

-----------------------------------------------------------------------------
(* Signals near a trade: same says whether symbol and direction are the trade's,
   apart is the distance in time, off that in price, in tenths of what is
   tolerated.  Confidences are in twentieths, the margin of 0.15 is three. *)
Confidence(s) == 20 - s.apart - s.off

MatchCandidates(signals) ==
    {n \in DOMAIN signals : signals[n].same /\ signals[n].apart <= 10 /\ signals[n].off <= 10}

(* pick_confident_match: at most one. *)
Match(signals) ==
    {n \in MatchCandidates(signals) :
        \A m \in MatchCandidates(signals) \ {n} : Confidence(signals[n]) - Confidence(signals[m]) >= 3}

-----------------------------------------------------------------------------
(* select_best_params: the results on the validation rows, one per combination of
   the grid.  A combination needs enough trades; if none has them the first one
   is kept, though it need not be the documented default. *)
Selected(results, floor) ==
    LET eligible == {n \in DOMAIN results : results[n].trades >= floor}
        Better(n, m) == \/ results[n].factor > results[m].factor
                        \/ /\ results[n].factor = results[m].factor
                           /\ results[n].drawdown < results[m].drawdown
    IN  IF eligible = {} THEN 1
        ELSE Min({n \in eligible : \A m \in eligible : ~Better(m, n)})

-----------------------------------------------------------------------------
(* Positions are records of symbol, side, quantity and price (in percent of a
   unit); both lists are keyed by symbol, the last row of a symbol winning. *)
Symbols(ps) == {ps[n].symbol : n \in DOMAIN ps}
BySymbol(ps, x) == ps[Max({n \in DOMAIN ps : ps[n].symbol = x})]

(* Mutation: the exchange's symbols are not looked through. *)
UnexpectedNone(local, exchange) == {}

Unexpected(local, exchange) == Symbols(exchange) \ Symbols(local)

Missing(local, exchange) == Symbols(local) \ Symbols(exchange)

(* A quantity or price that one side does not know is not compared. *)
Unknown == -1
BothKnown(a, b) == Unknown \notin {a, b}

(* Prices may differ by half a percent. *)
Mismatched(local, exchange) ==
    {x \in Symbols(local) \cap Symbols(exchange) :
        LET l == BySymbol(local, x)
            e == BySymbol(exchange, x)
        IN  \/ l.side # e.side
            \/ BothKnown(l.quantity, e.quantity) /\ l.quantity # e.quantity
            \/ /\ BothKnown(l.price, e.price) /\ l.price > 0
               /\ 200 * Dist(l.price, e.price) > l.price}

Consistent(local, exchange) ==
    Unexpected(local, exchange) \cup Missing(local, exchange) \cup Mismatched(local, exchange) = {}

-----------------------------------------------------------------------------
(* A candle series: the numbers of its candles, in any order, perhaps twice.
   check_gaps counts what is missing between two neighbours. *)
Times(ts) == {ts[n] : n \in DOMAIN ts}

GapAfter(ts, t) == Min({u \in Times(ts) : u > t}) - t - 1

Gaps(ts) == {t \in Times(ts) \ {Max(Times(ts))} : GapAfter(ts, t) > 0}
MissingCount(ts) == FoldSet(LAMBDA t, n : GapAfter(ts, t) + n, 0, Gaps(ts))
DuplicateCount(ts) == Len(ts) - Cardinality(Times(ts))

(* A period that ends when it starts expects nothing. *)
ExpectedCount(ts) ==
    LET start == Min(Times(ts))
        end == Max(Times(ts))
    IN  IF end <= start THEN 0 ELSE end - start + 1

(* coverage_pct counts rows, and is 100 if there are enough of them; it is 0 where
   none is expected. *)
FullyCovered(ts) == ExpectedCount(ts) > 0 /\ Len(ts) >= ExpectedCount(ts)
=============================================================================
