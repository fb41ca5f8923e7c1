----------------------------- MODULE MCResearch -----------------------------
EXTENDS Research

(* Bars around 10: quiet ones, ones that reach a level, both, or gap past one. *)
Bar(o, h, l, c) == [open |-> o, high |-> h, low |-> l, close |-> c]
MCBars == {Bar(10, 10, 10, 10), Bar(10, 12, 10, 11), Bar(10, 11, 9, 10), Bar(10, 10, 8, 10),
           Bar(10, 12, 8, 10), Bar(12, 13, 12, 13), Bar(7, 8, 7, 8)}
MCEvents == {4, 5, 6, 8}

(* What each strategy reads. *)
Reads ==
    [S01 |-> {"close", "pupper", "plower", "gate"},
     S02 |-> {"close", "pclose", "plow", "phigh", "line", "pline", "trend", "osc"},
     S03 |-> {"close", "pclose", "line", "pline"},
     S04 |-> {"close", "pclose", "plow", "phigh", "plower", "pupper", "lower", "upper", "mid", "posc"},
     S05 |-> {"close", "pupper", "plower", "gate"},
     S06 |-> {"close", "line", "trend", "ptrend"},
     S07 |-> {"close", "trend", "osc", "posc"},
     S08 |-> {"close", "pclose", "plow", "phigh", "line", "pline", "trend", "gate"},
     S09 |-> {"close", "lower", "upper", "gate"},
     S10 |-> {"close", "pupper", "plower", "trend", "gate"},
     S11 |-> {"close", "osc", "posc"},
     S12 |-> {"close", "pupper", "plower", "upper", "lower"},
     V3_KAMA |-> {"close", "pclose", "line", "pline", "trend"},
     V3_RANGE |-> {"close", "pupper", "plower", "gate"},
     V3_HMA |-> {"close", "pclose", "line", "pline"},
     ema_crossover |-> {"close", "osc", "posc"},
     rsi_strategy |-> {"close", "osc", "posc"},
     chandelier |-> {"close", "pclose", "pupper", "plower", "upper", "lower"},
     momentum_accel |-> {"close", "trend", "osc", "posc"},
     multi_momentum |-> {"close", "trend", "ptrend", "osc"},
     vol_adj |-> {"close", "osc", "posc"},
     compression |-> {"close", "lower", "upper", "gate"},
     breakout_pullback |-> {"close", "pupper", "plower", "upper", "lower", "line"},
     pure_bb |-> {"close", "pclose", "plower", "pupper", "lower", "upper", "mid"},
     vol_band |-> {"close", "osc"},
     swing |-> {"close", "pupper", "plower"},
     htf_pullback |-> {"close", "pclose", "plow", "phigh", "line", "pline", "trend", "osc"},
     htf_vol |-> {"close", "osc", "posc", "gate"},
     funding |-> {"close", "osc", "posc"},
     engine |-> {"close", "gate", "osc", "posc", "trend"},
     ml_model |-> {"close", "osc", "posc"}]

Probabilities == {"engine", "ml_model"}

(* A field read takes the values of a small range, one not read a single one. *)
Prices(id, f, low, high) ==
    CASE f \notin Reads[id] -> {IF f \in {"plow", "lower", "plower"} THEN low
                                ELSE IF f \in {"phigh", "upper", "pupper"} THEN high ELSE 10}
      [] f \in Reads[id] -> IF Cardinality(Reads[id]) > 6 THEN {low, 10, high} ELSE {low, 9, 10, 11, high}

Oscillator(id, f) ==
    CASE f \notin Reads[id] -> {0}
      [] id \in Probabilities -> {20, 45, 46, 55, 75}
      [] f \in Reads[id] /\ id \notin Probabilities -> -4..4

Sane(id, v) ==
    /\ v.plow <= v.pclose /\ v.pclose <= v.phigh
    /\ id # "chandelier" => v.lower < v.upper /\ v.plower < v.pupper
    /\ "mid" \in Reads[id] => v.lower < v.mid /\ v.mid < v.upper
    /\ id \in Probabilities => v.osc + v.posc <= 100

Views(id) ==
    LET P(f) == Prices(id, f, 4, 16)
        Sign3(f) == IF f \in Reads[id] THEN {-1, 0, 1} ELSE {0}
    IN  {v \in [ready : {TRUE}, gate : IF "gate" \in Reads[id] THEN BOOLEAN ELSE {TRUE},
                close : P("close"), pclose : P("pclose"), plow : P("plow"), phigh : P("phigh"),
                line : P("line"), pline : P("pline"), lower : P("lower"), upper : P("upper"),
                plower : P("plower"), pupper : P("pupper"), mid : P("mid"),
                osc : Oscillator(id, "osc"), posc : Oscillator(id, "posc"),
                trend : Sign3("trend"), ptrend : Sign3("ptrend")] : Sane(id, v)}

Messages ==
    [symbol : BOOLEAN, supported : BOOLEAN,
     words : {{}, {"LONG"}, {"SELL"}, {"BUY", "LONG"}, {"LONG", "SHORT"}},
     entry : {0, 10}, stop : {0, 8, 10, 12}, tp : {0, 12},
     tps : {<<0, 0, 0>>, <<12, 0, 0>>, <<8, 7, 0>>, <<12, 8, 0>>, <<0, 12, 13>>, <<13, 12, 14>>}]

Orders ==
    [price : {1, 3, 7}, target : {20, 50, 100}, step : {1, 2, 5}, min : {1, 4, 15}, max : {6, 60, 95},
     minNotional : {0, 21, 52}, active : BOOLEAN, leverage : {10}, maxLeverage : {5, 20}]

Positions ==
    LET p == [symbol : {"A", "B"}, side : {1, -1}, quantity : {1, 2, Unknown},
              price : {1000, 1004, 1006, 0, Unknown}]
        first == {x \in p : x.price = 1000 /\ x.quantity # Unknown}
        last == {x \in p : x.price \in {1000, 1006} /\ x.quantity # Unknown}
    IN  {<<>>} \cup {<<x>> : x \in p} \cup {<<x, y>> : x \in first, y \in last}

(* Trades, in the order of their exit time; days 6 and 7 are in different weeks. *)
Rows3 == {t \in [status : {"OPEN", "PARTIALLY_CLOSED", "CLOSED", "CANCELLED"}, pnl : {-2, 1}, fees : {1}, exit : {0, 6, 7}] :
             t.exit = 0 <=> t.status \in {"OPEN", "PARTIALLY_CLOSED"}}
SortedBy(s, field) == \A i, j \in DOMAIN s : i < j => s[i][field] <= s[j][field]

OutcomesOfSignals == [outcome : {"WIN", "LOSS", "EXPIRED", "NO_TRADE", "PENDING"}, taken : BOOLEAN, pct : {-1, 2}]

(* Bars whose widths are known from the first or the second bar on. *)
Candles == {b \in [high : 1..4, low : 1..4, close : 1..4] : b.low <= b.close /\ b.close <= b.high}

(* Two bars to a day, the first day perhaps half over. *)
Rows4 ==
    LET days == {<<1, 1, 2, 2>>, <<1, 2, 2, 3>>}
    IN  {[n \in 1..4 |-> [price |-> p[n], volume |-> v[n], day |-> d[n]]] :
            p \in [1..4 -> 1..2], v \in [1..4 -> 0..2], d \in days}

Others ==
    [message |-> [kind : {"message"}, message : Messages],
     highs |-> [kind : {"highs"}, highs : [1..7 -> 1..3]],
     bars |-> [kind : {"bars"}, bars : [1..3 -> Candles], width : {<<1, 1, 1>>, <<2, 2, 2>>, <<0, 2, 1>>}],
     volumes |-> [kind : {"volumes"}, rows : Rows4],
     open |-> [kind : {"open"}, open : 7..14, times : SUBSET {5, 8, 10, 13}],
     split |-> [kind : {"split"}, n : {12, 20}, train : 0..7, val : 0..3, horizon : 0..3],
     row |-> [kind : {"row"}, row : Rows],
     order |-> [kind : {"order"}, order : Orders],
     positions |-> [kind : {"positions"}, local : Positions, exchange : Positions],
     series |-> [kind : {"series"}, times : UNION {[1..n -> 1..6] : n \in 1..4}],
     candle |-> [kind : {"candle"}, candle : [open : 0..3, high : 0..3, low : 0..3, close : 0..3, volume : {-1, 0}]],
     books |-> [kind : {"books"}, trades : {ts \in UNION {[1..n -> Rows3] : n \in 0..3} : SortedBy(ts, "exit")}],
     outcomes |-> [kind : {"outcomes"}, outcomes : UNION {[1..n -> OutcomesOfSignals] : n \in 0..3}],
     signals |-> [kind : {"signals"}, signals : UNION {[1..n -> [same : BOOLEAN, apart : {0, 4}, off : {1, 3, 8, 11}]] : n \in 1..3}],
     grid |-> [kind : {"grid"}, floor : {15}, results : [1..3 -> [trades : {14, 15, 20}, factor : 1..2, drawdown : 1..2]]],
     record |-> [kind : {"record"}, pnls : UNION {[1..n -> -3..3] : n \in 0..4}, predictions : [{"LONG", "SHORT"} -> 0..2]]]

MCQuestions ==
    Others @@ [id \in DOMAIN Reads |-> [kind : {"view"}, id : {id}, view : Views(id)]]
=============================================================================
