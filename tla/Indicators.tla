----------------------------- MODULE Indicators -----------------------------
(***************************************************************************)
(* Indicators of feature_engine/indicators.py, as far as the order of bars *)
(* matters: which bars a value reads, sessions, and the recursive bands of *)
(* the Supertrend.  A series is a sequence; a mean is given by its         *)
(* numerator, a ratio by both numbers.  Exponential averages are inputs.   *)
(***************************************************************************)
EXTENDS Integers, Sequences, FiniteSets, FiniteSetsExt, SequencesExt

LOCAL Abs(x) == IF x < 0 THEN -x ELSE x
LOCAL Sum(s) == FoldSeq(LAMBDA x, sum : x + sum, 0, s)

(* rolling(n): nothing before row n. *)
Window(s, n, i) == IF i < n THEN <<>> ELSE SubSeq(s, i - n + 1, i)

Sma(s, n, i) == Sum(Window(s, n, i))

(* Weights 1 to n, the newest row the heaviest. *)
Wma(s, n, i) == Sum([k \in DOMAIN Window(s, n, i) |-> k * Window(s, n, i)[k]])
Weights(n) == (n * (n + 1)) \div 2

(* The series whose WMA is the HMA: 2 wma(n / 2) - wma(n), over one denominator. *)
RawHma(s, n, i) ==
    LET half == Max({1, n \div 2})
    IN  IF i < n THEN 0 ELSE 2 * Wma(s, half, i) * Weights(n) - Wma(s, n, i) * Weights(half)

Momentum(s, n, i) == IF i <= n THEN 0 ELSE s[i] - s[i - n]

(* The efficiency ratio of the KAMA: the net move over the sum of all moves. *)
Efficiency(s, n, i) ==
    IF i <= n THEN <<0, 1>>
    ELSE <<Abs(s[i] - s[i - n]), Sum([k \in 1..n |-> Abs(s[i - n + k] - s[i - n + k - 1])])>>

-----------------------------------------------------------------------------
(* Of the first bar only high - low is known. *)
TrueRange(bars, i) ==
    LET b == bars[i]
        spans == IF i = 1 THEN {} ELSE {Abs(b.high - bars[i - 1].close), Abs(b.low - bars[i - 1].close)}
    IN  Max({b.high - b.low} \cup spans)

(* +DM and -DM: the larger of the two moves, if it is one. *)
DirectionalMovement(bars, i) ==
    LET up == IF i = 1 THEN 0 ELSE bars[i].high - bars[i - 1].high
        down == IF i = 1 THEN 0 ELSE bars[i - 1].low - bars[i].low
    IN  <<IF up > down THEN Max({up, 0}) ELSE 0, IF down > up THEN Max({down, 0}) ELSE 0>>

-----------------------------------------------------------------------------
(* VWAP of a bar's price, over the bars given: turnover and volume. *)
Vwap(rows, bars) ==
    <<SumFunctionOnSet([k \in DOMAIN rows |-> rows[k].price * rows[k].volume], bars),
      SumFunctionOnSet([k \in DOMAIN rows |-> rows[k].volume], bars)>>

(* vwap never starts again, *)
RunningVwap(rows, i) == Vwap(rows, 1..i)

(* vwap_session does so at each midnight: the bars of its day up to the bar. *)
SessionVwap(rows, i) == Vwap(rows, {k \in 1..i : rows[k].day = rows[i].day})

-----------------------------------------------------------------------------
(* supertrend: `width` is the multiple of the ATR per bar, 0 while there is none.
   Bands and line are twice their value, since they start from (high + low) / 2. *)
Fresh(bars, width, i) ==
    LET middle == bars[i].high + bars[i].low
    IN  [ready |-> TRUE, upper |-> middle + 2 * width[i], lower |-> middle - 2 * width[i], direction |-> 1]

(* A band moves towards the price only, unless the bar before closed beyond it. *)
Tightened(last, basic, close) ==
    [last EXCEPT !.upper = IF basic.upper < @ \/ 2 * close > @ THEN basic.upper ELSE @,
                 !.lower = IF basic.lower > @ \/ 2 * close < @ THEN basic.lower ELSE @]

Turned(bands, close) ==
    [bands EXCEPT !.direction = IF @ = 1 THEN IF 2 * close < bands.lower THEN -1 ELSE 1
                                ELSE IF 2 * close > bands.upper THEN 1 ELSE -1]

SupertrendRows(bars, width) ==
    LET row[i \in DOMAIN bars] ==
          CASE width[i] = 0 -> [ready |-> FALSE, direction |-> 1]
            [] width[i] > 0 /\ (i = 1 \/ ~row[i - 1].ready) -> Fresh(bars, width, i)
            [] OTHER -> Turned(Tightened(row[i - 1], Fresh(bars, width, i), bars[i - 1].close), bars[i].close)
    IN  row

Line(st) == IF st.direction = 1 THEN st.lower ELSE st.upper
=============================================================================
