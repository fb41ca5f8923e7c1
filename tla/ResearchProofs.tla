--------------------------- MODULE ResearchProofs ---------------------------
(***************************************************************************)
(* Proofs about what is computed from data, for any candles, prices, bands, *)
(* widths, instruments and lengths.                                        *)
(*                                                                         *)
(* A replay takes steps: ReplayInv says what it has got right when it has  *)
(* gone through the bars so far, for the pending signal, the open trade    *)
(* and every closed one, and its closed trades are then compared with the  *)
(* tracker's outcome and the labels; BalanceInv says that the equity is    *)
(* what these have earned, and the curve the balances that led to it.  The *)
(* other parts answer one question per behaviour: the question is one the  *)
(* callers can ask (ResearchAssumption) and does not change, so that what  *)
(* is left to show is a lemma about the operator that is asked.  What      *)
(* Supertrend and the replay compute row by row is shown by the least row  *)
(* that would be wrong (Smallest).                                         *)
(***************************************************************************)
EXTENDS Research, FiniteSetTheorems, SequenceTheorems, WellFoundedInduction, TLAPS

(* A set of natural numbers has a least one. *)
LEMMA Smallest ==
    ASSUME NEW T \in SUBSET Nat, T # {}
    PROVE  \E x \in T : \A y \in T : x <= y
<1> DEFINE R == StrictSubsetOrdering(Nat)
           F == {0..x : x \in T}
<1>1. IsWellFoundedOn(R, FiniteSubsetsOf(Nat))
  BY FS_StrictSubsetOrderingWellFounded
<1>2. F \subseteq FiniteSubsetsOf(Nat)
  <2>1. \A x \in T : 0..x \in SUBSET Nat /\ IsFiniteSet(0..x)
    BY FS_Interval
  <2> QED
    BY <2>1 DEF FiniteSubsetsOf
<1>3. F # {}
  OBVIOUS
<1>4. PICK m \in F : \A g \in F : <<g, m>> \notin R
  <2> HIDE DEF R, F
  <2> QED
    BY <1>1, <1>2, <1>3, WFMin
<1>5. PICK x \in T : m = 0..x
  OBVIOUS
<1>6. ASSUME NEW y \in T, y < x
      PROVE  FALSE
  <2>1. 0..y \in F /\ 0..y \in SUBSET Nat /\ 0..x \in SUBSET Nat
    OBVIOUS
  <2>2. 0..y \subseteq 0..x /\ x \in 0..x /\ x \notin 0..y
    BY <1>6
  <2>3. <<0..y, 0..x>> \in R
    BY <2>1, <2>2 DEF StrictSubsetOrdering
  <2> QED
    BY <1>4, <1>5, <2>1, <2>3
<1> QED
  BY <1>6

(* The least of a set of numbers is the one that is not above any. *)
LEMMA MinIs ==
    ASSUME NEW T, NEW k \in T, k \in Int, \A j \in T : j \in Int /\ k <= j
    PROVE  Min(T) = k
<1>1. ASSUME NEW x \in T, \A y \in T : x <= y
      PROVE  x = k
  <2>1. x \in Int /\ x <= k /\ k <= x
    BY <1>1
  <2> QED
    BY <2>1
<1>2. \E x \in T : \A y \in T : x <= y
  OBVIOUS
<1>3. Min(T) \in T /\ \A y \in T : Min(T) <= y
  BY <1>2 DEF Min
<1> QED
  BY <1>1, <1>3

(* The greatest is the one that is not below any. *)
LEMMA MaxIs ==
    ASSUME NEW T, NEW k \in T, k \in Int, \A j \in T : j \in Int /\ j <= k
    PROVE  Max(T) = k
<1>1. ASSUME NEW x \in T, \A y \in T : x >= y
      PROVE  x = k
  <2>1. x \in Int /\ x <= k /\ k <= x
    BY <1>1
  <2> QED
    BY <2>1
<1>2. \E x \in T : \A y \in T : x >= y
  OBVIOUS
<1>3. Max(T) \in T /\ \A y \in T : Max(T) >= y
  BY <1>2 DEF Max
<1> QED
  BY <1>1, <1>3

(* A set of numbers between two bounds has a greatest one. *)
LEMMA MaxOfRange ==
    ASSUME NEW a \in Int, NEW b \in Int, NEW T \in SUBSET (a..b), T # {}
    PROVE  Max(T) \in T /\ \A x \in T : x <= Max(T)
<1> DEFINE D == {b - x : x \in T}
<1>0. \A x \in T : x \in Int /\ a <= x /\ x <= b
  OBVIOUS
<1>1. D \in SUBSET Nat /\ D # {}
  <2>1. ASSUME NEW x \in T
        PROVE  b - x \in Nat
    BY <1>0
  <2> QED
    BY <2>1
<1>2. PICK d \in D : \A y \in D : d <= y
  <2> HIDE DEF D
  <2> QED
    BY <1>1, Smallest
<1>3. PICK k \in T : d = b - k
  OBVIOUS
<1>4. ASSUME NEW x \in T
      PROVE  x <= k
  <2>1. b - x \in D
    OBVIOUS
  <2>2. d <= b - x
    BY <1>2, <2>1
  <2>3. x \in Int /\ k \in Int
    OBVIOUS
  <2> QED
    BY <1>3, <2>2, <2>3
<1>5. Max(T) = k
  BY <1>0, <1>4, MaxIs
<1> QED
  BY <1>4, <1>5

-----------------------------------------------------------------------------
(* What the replay knows of the bars bs when n of them have been gone through. *)
Decided(bs, s, at) ==
    /\ at \in DOMAIN bs
    /\ \E side \in {"LONG", "SHORT"} : s = Signal(side, at, bs[at].close)

Touches(s, b) == HitStop(s, b) \/ HitTarget(s, b)

Untouched(bs, s, n) == \A j \in s.at + 1..n : ~Touches(s, bs[j])

Charged(c, n) == {e \in Events : 2 * c.filled < e /\ e <= 2 * n}

Exact(c, n) == c.funding = Sign(c.sig.side) * Cardinality(Charged(c, n))

(* A trade that is open after n bars. *)
Running(bs, t, n) ==
    /\ t = [status |-> "open", sig |-> t.sig, entry |-> t.entry, filled |-> t.filled, funding |-> t.funding]
    /\ t.sig.at \in Nat /\ t.filled = t.sig.at + 1
    /\ t.sig.side \in {"LONG", "SHORT"} /\ Decided(bs, t.sig, t.sig.at)
    /\ t.funding \in Int /\ Exact(t, n) /\ Untouched(bs, t.sig, n)

(* A trade that has ended. *)
Ended(bs, c, done) ==
    /\ c.sig.at \in Nat /\ c.filled = c.sig.at + 1 /\ c.closed \in c.filled..Len(bs)
    /\ Decided(bs, c.sig, c.sig.at) /\ Exact(c, c.closed)
    /\ Untouched(bs, c.sig, c.closed - 1)
    /\ \/ c.reason = "stop_loss" /\ HitStop(c.sig, bs[c.closed])
       \/ c.reason = "take_profit" /\ ~HitStop(c.sig, bs[c.closed]) /\ HitTarget(c.sig, bs[c.closed])
       \/ /\ c.reason = "end_of_data" /\ done /\ c.closed = Len(bs)
          /\ Untouched(bs, c.sig, c.closed)

ReplayInv ==
    /\ bars \in Seq(Bars) /\ over \in BOOLEAN
    /\ settled = IF bars = <<>> THEN {} ELSE {e \in Events : e <= 2 * Len(bars)}
    /\ pending # NoSignal => trade = NoTrade /\ Decided(bars, pending, Len(bars))
    /\ trade # NoTrade => Running(bars, trade, Len(bars)) /\ trade.filled <= Len(bars)
    /\ \E S : trades \in Seq(S)
    /\ \A n \in DOMAIN trades : Ended(bars, trades[n], over)

-----------------------------------------------------------------------------
(* The two sides, as factors. *)
LEMMA Signs == /\ \A side : Sign(side) \in {1, -1}
               /\ Sign("LONG") = 1 /\ Sign("SHORT") = -1
BY DEF Sign

(* Events of a longer run: those of the shorter one and those since. *)
LEMMA ChargedOn ==
    ASSUME NEW c, c.filled \in Int, NEW n \in Nat, c.filled <= n + 1, NEW since,
           since = {e \in Events : e <= 2 * (n + 1) /\ ~(e <= 2 * n) /\ 2 * c.filled < e}
    PROVE  /\ Cardinality(Charged(c, n + 1)) = Cardinality(Charged(c, n)) + Cardinality(since)
           /\ Cardinality(Charged(c, n)) \in Nat /\ Cardinality(since) \in Nat
<1> DEFINE old == Charged(c, n)
           new == Charged(c, n + 1)
<1>1. since \in SUBSET Events /\ old \in SUBSET Events
  BY DEF Charged
<1>2. IsFiniteSet(since) /\ IsFiniteSet(old)
  BY <1>1, BacktestAssumption, FS_Subset
<1>3. ASSUME NEW e \in Events
      PROVE  e \in new <=> e \in old \/ e \in since
  <2>1. e \in Int
    BY BacktestAssumption
  <2> QED
    BY <2>1 DEF Charged
<1>4. new = old \cup since /\ old \cap since = {}
  <2>1. new \subseteq Events
    BY DEF Charged
  <2>2. old \cap since = {}
    BY DEF Charged
  <2> QED
    BY <1>1, <1>3, <2>1, <2>2
<1> HIDE DEF old, new
<1>5. Cardinality(old) \in Nat /\ Cardinality(since) \in Nat /\ Cardinality(old \cap since) = 0
  BY <1>2, <1>4, FS_CardinalityType, FS_EmptySet
<1>6. Cardinality(old \cup since) = Cardinality(old) + Cardinality(since) - Cardinality(old \cap since)
  BY <1>2, FS_Union
<1>7. Cardinality(new) = Cardinality(old) + Cardinality(since)
  BY <1>4, <1>5, <1>6
<1> QED
  BY <1>5, <1>7 DEF old, new

(* A bar more changes nothing of the bars that were. *)
LEMMA BarsGrow ==
    ASSUME bars \in Seq(Bars), NEW b \in Bars, bars' = Append(bars, b)
    PROVE  /\ bars' \in Seq(Bars) /\ Len(bars) \in Nat /\ Len(bars') = Len(bars) + 1
           /\ DOMAIN bars = 1..Len(bars) /\ DOMAIN bars' = 1..Len(bars) + 1
           /\ \A j \in 1..Len(bars) : bars'[j] = bars[j]
           /\ bars'[Len(bars) + 1] = b
<1>1. bars' \in Seq(Bars) /\ Len(bars') = Len(bars) + 1
  BY AppendProperties
<1> QED
  BY <1>1, AppendProperties, LenProperties

(* What was said of the bars that were stays true of them. *)
LEMMA DecidedStays ==
    ASSUME bars \in Seq(Bars), NEW b \in Bars, bars' = Append(bars, b), NEW s, NEW at,
           Decided(bars, s, at)
    PROVE  Decided(bars', s, at)
BY BarsGrow DEF Decided

(* No bar so far has touched a level, and this one does not either. *)
LEMMA UntouchedStays ==
    ASSUME bars \in Seq(Bars), NEW b \in Bars, bars' = Append(bars, b), NEW s, s.at \in Nat,
           NEW n \in Int, n <= Len(bars), Untouched(bars, s, n)
    PROVE  Untouched(bars', s, n)
<1>1. ASSUME NEW j \in s.at + 1..n
      PROVE  ~Touches(s, bars'[j])
  <2>1. j \in 1..Len(bars)
    BY BarsGrow
  <2>2. bars'[j] = bars[j]
    BY <2>1, BarsGrow
  <2> QED
    BY <2>2 DEF Untouched
<1> QED
  BY <1>1 DEF Untouched

(* A trade that has ended before the data has: nothing of it changes. *)
LEMMA EndedStays ==
    ASSUME bars \in Seq(Bars), NEW b \in Bars, bars' = Append(bars, b), NEW c, Ended(bars, c, FALSE)
    PROVE  Ended(bars', c, FALSE)
<1>1. /\ Len(bars) \in Nat /\ Len(bars') = Len(bars) + 1
      /\ c.sig.at \in Nat /\ c.filled = c.sig.at + 1 /\ c.closed \in c.filled..Len(bars)
  BY BarsGrow DEF Ended
<1>2. c.closed \in 1..Len(bars) /\ c.closed \in c.filled..Len(bars')
  BY <1>1
<1>3. bars'[c.closed] = bars[c.closed]
  BY <1>2, BarsGrow
<1>4. Decided(bars', c.sig, c.sig.at)
  BY DecidedStays DEF Ended
<1>5. Untouched(bars', c.sig, c.closed - 1)
  <2>1. c.closed - 1 \in Int /\ c.closed - 1 <= Len(bars) /\ Untouched(bars, c.sig, c.closed - 1)
    BY <1>1, <1>2 DEF Ended
  <2> HIDE DEF Untouched
  <2> QED
    BY <1>1, <2>1, UntouchedStays
<1> QED
  BY <1>1, <1>2, <1>3, <1>4, <1>5 DEF Ended

(* A trade that runs has paid for n bars; the events due at the next bar are
   what it has to pay to have paid for that one too. *)
LEMMA FundedRuns ==
    ASSUME NEW bs, NEW n \in Nat, settled = {e \in Events : e <= 2 * n},
           NEW t, Running(bs, t, n), t.filled <= n + 1
    PROVE  /\ Funded(t, n + 1).sig = t.sig /\ Funded(t, n + 1).filled = t.filled
           /\ Funded(t, n + 1) # NoTrade
           /\ Funded(t, n + 1) = [status |-> "open", sig |-> t.sig, entry |-> t.entry, filled |-> t.filled,
                                  funding |-> Funded(t, n + 1).funding]
           /\ Funded(t, n + 1).funding \in Int /\ Exact(Funded(t, n + 1), n + 1)
<1> DEFINE since == {e \in Events : e <= 2 * (n + 1) /\ ~(e <= 2 * n) /\ 2 * t.filled < e}
           g == Sign(t.sig.side)
           f == t.funding + g * Cardinality(since)
           u == [status |-> "open", sig |-> t.sig, entry |-> t.entry, filled |-> t.filled, funding |-> f]
<1>1. t = [status |-> "open", sig |-> t.sig, entry |-> t.entry, filled |-> t.filled, funding |-> t.funding]
  BY DEF Running
<1>2. t # NoTrade
  BY <1>1 DEF NoTrade
<1>3. Exposed(t, n + 1) = since
  BY DEF Exposed, Due
<1>4. Funded(t, n + 1) = [t EXCEPT !.funding = @ + g * Cardinality(Exposed(t, n + 1))]
  BY <1>2 DEF Funded
<1>5. Funded(t, n + 1) = u
  <2> HIDE DEF since, g
  <2> QED
    BY <1>1, <1>3, <1>4
<1>6. g \in {1, -1} /\ t.funding \in Int /\ t.filled \in Int
  BY Signs DEF Running
<1>7. /\ Cardinality(Charged(t, n + 1)) = Cardinality(Charged(t, n)) + Cardinality(since)
      /\ Cardinality(Charged(t, n)) \in Nat /\ Cardinality(since) \in Nat
  <2> HIDE DEF since
  <2>1. since = {e \in Events : e <= 2 * (n + 1) /\ ~(e <= 2 * n) /\ 2 * t.filled < e}
    BY DEF since
  <2> QED
    BY <1>6, <2>1, ChargedOn
<1>8. t.funding = g * Cardinality(Charged(t, n))
  BY DEF Running, Exact
<1>9. f \in Int /\ f = g * Cardinality(Charged(t, n + 1))
  <2> DEFINE x == Cardinality(since)
             y == Cardinality(Charged(t, n))
             z == Cardinality(Charged(t, n + 1))
             w == t.funding
  <2>1. x \in Nat /\ y \in Nat /\ z = y + x /\ w = g * y /\ w \in Int /\ (g = 1 \/ g = -1)
    BY <1>6, <1>7, <1>8
  <2> SUFFICES w + g * x \in Int /\ w + g * x = g * z
    OBVIOUS
  <2> HIDE DEF x, y, z, w, g
  <2>2. CASE g = 1
    BY <2>1, <2>2
  <2>3. CASE g = -1
    BY <2>1, <2>3
  <2> QED
    BY <2>1, <2>2, <2>3
<1>10. Charged(u, n + 1) = Charged(t, n + 1) /\ Sign(u.sig.side) = g /\ u.funding = f
  BY DEF Charged
<1>11. Exact(u, n + 1)
  <2> HIDE DEF f, g, u
  <2> QED
    BY <1>9, <1>10 DEF Exact
<1>12. u.sig = t.sig /\ u.filled = t.filled /\ u.funding = f /\ u.status = "open" /\ u # NoTrade
  BY DEF NoTrade
<1>13. u = [status |-> "open", sig |-> t.sig, entry |-> t.entry, filled |-> t.filled, funding |-> u.funding]
  BY <1>12
<1> HIDE DEF u, f
<1> QED
  BY <1>5, <1>9, <1>11, <1>12, <1>13

(* An order that fills at the next bar has nothing to pay yet. *)
LEMMA FillRuns ==
    ASSUME NEW bs, NEW n \in Nat, NEW b \in Bars, pending # NoSignal, Decided(bs, pending, n)
    PROVE  /\ Running(bs, Fill(b, n + 1), n) /\ Fill(b, n + 1).filled = n + 1
           /\ Fill(b, n + 1).sig = pending
<1> DEFINE t == Fill(b, n + 1)
<1>1. PICK side \in {"LONG", "SHORT"} : pending = Signal(side, n, bs[n].close)
  BY DEF Decided
<1>2. pending.at = n /\ pending.side = side
  BY <1>1 DEF Signal
<1>3. /\ t.sig = pending /\ t.filled = n + 1 /\ t.funding = 0
      /\ t = [status |-> "open", sig |-> t.sig, entry |-> t.entry, filled |-> t.filled, funding |-> t.funding]
  BY DEF Fill
<1> HIDE DEF t
<1>4. Charged(t, n) = {}
  <2>1. ASSUME NEW e \in Charged(t, n)
        PROVE  FALSE
    <3>1. e \in Int /\ 2 * (n + 1) < e /\ e <= 2 * n
      BY <1>3, BacktestAssumption DEF Charged
    <3> QED
      BY <3>1
  <2> QED
    BY <2>1
<1>5. Cardinality(Charged(t, n)) = 0 /\ Sign(t.sig.side) \in {1, -1}
  BY <1>4, FS_EmptySet, Signs
<1>6. Exact(t, n)
  BY <1>3, <1>5 DEF Exact
<1>7. Untouched(bs, t.sig, n)
  BY <1>2, <1>3 DEF Untouched
<1>8. Decided(bs, t.sig, t.sig.at)
  BY <1>2, <1>3
<1>9. Running(bs, t, n)
  BY <1>2, <1>3, <1>6, <1>7, <1>8 DEF Running
<1> QED
  BY <1>3, <1>9 DEF t

(* One iteration: fill, funding, exit, the next signal. *)
LEMMA StepKeeps ==
    ASSUME ReplayInv, ~over, over' = over, NEW b \in Bars, NEW allowed \in BOOLEAN,
           NEW signal \in {NoSignal} \cup Signals(Len(bars) + 1, b.close),
           Step(b, allowed, signal)
    PROVE  ReplayInv'
<1> DEFINE n == Len(bars)
           i == n + 1
           fills == pending # NoSignal /\ trade = NoTrade /\ allowed
           m == IF fills THEN Fill(b, i) ELSE trade
           t == Funded(m, i)
           ends == Exits(t, b)
           c == Closed(t, Exit(t, b), i)
           left == IF ends THEN NoTrade ELSE t
<1>1. /\ bars' = Append(bars, b)
      /\ settled' = settled \cup Due(i)
      /\ trade' = left
      /\ trades' = IF ends THEN Append(trades, c) ELSE trades
      /\ pending' = IF left = NoTrade THEN signal ELSE IF trade = NoTrade THEN NoSignal ELSE pending
  BY DEF Step
<1>0. n # 0 => bars # <<>>
  OBVIOUS
<1>2. /\ bars \in Seq(Bars) /\ over = FALSE /\ (n # 0 => settled = {e \in Events : e <= 2 * n})
      /\ pending # NoSignal => trade = NoTrade /\ Decided(bars, pending, n)
      /\ trade # NoTrade => Running(bars, trade, n) /\ trade.filled <= n
      /\ \A k \in DOMAIN trades : Ended(bars, trades[k], FALSE)
  BY <1>0 DEF ReplayInv
<1>3. PICK S : trades \in Seq(S)
  BY DEF ReplayInv
<1>4. /\ bars' \in Seq(Bars) /\ n \in Nat /\ Len(bars') = i
      /\ DOMAIN bars = 1..n /\ DOMAIN bars' = 1..i
      /\ \A j \in 1..n : bars'[j] = bars[j]
      /\ bars'[i] = b
  BY <1>1, <1>2, BarsGrow
<1>5. settled' = {e \in Events : e <= 2 * i}
  <2>1. ASSUME NEW e \in Events
        PROVE  e <= 2 * n => e <= 2 * i
    BY <1>4, BacktestAssumption
  <2>2. settled \subseteq {e \in Events : e <= 2 * n}
    BY DEF ReplayInv
  <2> QED
    BY <1>1, <2>1, <2>2 DEF Due
\* What runs into the bar has been decided, and no bar before has touched it.
<1>6. m # NoTrade => Running(bars', m, n) /\ m.filled <= i /\ n # 0
  <2>1. CASE fills
    <3>0. n # 0
      BY <1>2, <1>4, <2>1 DEF Decided
    <3>1. Decided(bars', pending, n)
      BY <1>1, <1>2, <2>1, DecidedStays
    <3>2. m = Fill(b, i)
      BY <2>1
    <3> HIDE DEF fills, m
    <3> QED
      BY <1>4, <2>1, <3>0, <3>1, <3>2, FillRuns DEF fills
  <2>2. CASE ~fills /\ trade # NoTrade
    <3>1. Running(bars, trade, n) /\ trade.filled <= n
      BY <1>2, <2>2
    <3>2. trade.sig.at \in Nat /\ Untouched(bars, trade.sig, n) /\ Decided(bars, trade.sig, trade.sig.at)
      BY <3>1 DEF Running
    <3>3. Untouched(bars', trade.sig, n)
      BY <1>1, <1>2, <1>4, <3>2, UntouchedStays
    <3>4. Decided(bars', trade.sig, trade.sig.at)
      BY <1>1, <1>2, <3>2, DecidedStays
    <3>5. Running(bars', trade, n) /\ trade.filled <= i /\ n # 0
      BY <1>4, <3>1, <3>2, <3>3, <3>4 DEF Running
    <3> QED
      BY <2>2, <3>5
  <2>3. CASE ~fills /\ trade = NoTrade
    BY <2>3
  <2> QED
    BY <2>1, <2>2, <2>3
<1> HIDE DEF m, fills
<1>7. m = NoTrade => t = NoTrade
  BY DEF Funded
<1>8. m # NoTrade =>
        /\ t.sig = m.sig /\ t.filled = m.filled /\ t # NoTrade
        /\ t = [status |-> "open", sig |-> t.sig, entry |-> t.entry, filled |-> t.filled, funding |-> t.funding]
        /\ t.funding \in Int /\ Exact(t, i)
  <2> SUFFICES ASSUME m # NoTrade
               PROVE  /\ t.sig = m.sig /\ t.filled = m.filled /\ t # NoTrade
                      /\ t = [status |-> "open", sig |-> t.sig, entry |-> t.entry, filled |-> t.filled,
                              funding |-> t.funding]
                      /\ t.funding \in Int /\ Exact(t, i)
    OBVIOUS
  <2>0. Running(bars', m, n) /\ m.filled <= i /\ n \in Nat /\ n # 0
    BY <1>4, <1>6
  <2>1. Running(bars', m, n) /\ m.filled <= i /\ n \in Nat /\ settled = {e \in Events : e <= 2 * n}
    BY <1>2, <2>0
  <2>2. /\ t.sig = m.sig /\ t.filled = m.filled /\ t # NoTrade
        /\ t = [status |-> "open", sig |-> m.sig, entry |-> m.entry, filled |-> m.filled, funding |-> t.funding]
        /\ t.funding \in Int /\ Exact(t, i)
    BY <2>1, FundedRuns
  <2>3. t.entry = m.entry
    BY <2>2
  <2> QED
    BY <2>2, <2>3
<1>9. m # NoTrade =>
        /\ t.sig.at \in Nat /\ t.filled = t.sig.at + 1 /\ t.filled <= i
        /\ t.sig.side \in {"LONG", "SHORT"} /\ Decided(bars', t.sig, t.sig.at)
        /\ Untouched(bars', t.sig, n)
  BY <1>6, <1>8 DEF Running
<1> HIDE DEF t
<1>10. ends <=> m # NoTrade /\ Touches(t.sig, b)
  BY <1>7, <1>8 DEF Exits, Touches
<1>11. ends => Ended(bars', c, FALSE)
  <2> SUFFICES ASSUME ends
               PROVE  Ended(bars', c, FALSE)
    OBVIOUS
  <2>1. m # NoTrade /\ Touches(t.sig, b)
    BY <1>10
  <2>2. c.sig = t.sig /\ c.filled = t.filled /\ c.closed = i /\ c.funding = t.funding
        /\ c.reason = Exit(t, b).reason
    BY DEF Closed
  <2>3. IF HitStop(t.sig, b) THEN c.reason = "stop_loss"
        ELSE c.reason = "take_profit" /\ HitTarget(t.sig, b)
    BY <2>1, <2>2 DEF Exit, Touches
  <2>4. Exact(c, i)
    <3>1. Charged(c, i) = Charged(t, i)
      BY <2>2 DEF Charged
    <3> HIDE DEF c
    <3> QED
      BY <1>8, <2>1, <2>2, <3>1 DEF Exact
  <2>5. c.closed \in c.filled..Len(bars') /\ c.closed - 1 = n
    BY <1>4, <1>9, <2>1, <2>2
  <2> HIDE DEF c
  <2> QED
    BY <1>4, <1>9, <2>1, <2>2, <2>3, <2>4, <2>5 DEF Ended
<1>12. \A k \in DOMAIN trades' : Ended(bars', trades'[k], FALSE)
  <2>1. \A k \in DOMAIN trades : Ended(bars', trades[k], FALSE)
    BY <1>1, <1>2, EndedStays
  <2>2. CASE ends
    <3> DEFINE C == S \cup {c}
    <3>0. trades' = Append(trades, c)
      BY <1>1, <2>2
    <3>1. trades \in Seq(C) /\ c \in C
      BY <1>3
    <3> HIDE DEF c, C
    <3>2. /\ DOMAIN trades = 1..Len(trades) /\ Len(trades) \in Nat
          /\ DOMAIN trades' = 1..Len(trades) + 1
          /\ \A k \in 1..Len(trades) : trades'[k] = trades[k]
          /\ trades'[Len(trades) + 1] = c
      BY <3>0, <3>1, AppendProperties, LenProperties
    <3>3. ASSUME NEW k \in 1..Len(trades) + 1
          PROVE  Ended(bars', trades'[k], FALSE)
      <4>1. CASE k = Len(trades) + 1
        BY <1>11, <2>2, <3>2, <4>1
      <4>2. CASE k # Len(trades) + 1
        <5>1. k \in 1..Len(trades)
          BY <3>2, <4>2
        <5> QED
          BY <2>1, <3>2, <5>1
      <4> QED
        BY <4>1, <4>2
    <3> QED
      BY <3>2, <3>3
  <2>3. CASE ~ends
    BY <1>1, <2>1, <2>3
  <2> QED
    BY <2>2, <2>3
<1>13. \E T : trades' \in Seq(T)
  <2>1. CASE ends
    <3>1. trades \in Seq(S \cup {c}) /\ c \in S \cup {c}
      BY <1>3
    <3>2. trades' \in Seq(S \cup {c})
      BY <1>1, <2>1, <3>1, AppendProperties
    <3> QED
      BY <3>2
  <2>2. CASE ~ends
    BY <1>1, <1>3, <2>2
  <2> QED
    BY <2>1, <2>2
<1>14. trade' # NoTrade => Running(bars', trade', i) /\ trade'.filled <= i
  <2> SUFFICES ASSUME trade' # NoTrade
               PROVE  Running(bars', trade', i) /\ trade'.filled <= i
    OBVIOUS
  <2>1. trade' = t /\ m # NoTrade /\ ~Touches(t.sig, b)
    BY <1>1, <1>7, <1>10
  <2>2. Untouched(bars', t.sig, i)
    <3>1. ASSUME NEW j \in t.sig.at + 1..i
          PROVE  ~Touches(t.sig, bars'[j])
      <4>1. CASE j = i
        BY <1>4, <2>1, <4>1
      <4>2. CASE j # i
        <5>1. j \in t.sig.at + 1..n
          BY <1>4, <1>9, <2>1, <4>2
        <5> QED
          BY <1>9, <2>1, <5>1 DEF Untouched
      <4> QED
        BY <4>1, <4>2
    <3> QED
      BY <3>1 DEF Untouched
  <2> QED
    BY <1>8, <1>9, <2>1, <2>2 DEF Running
<1>15. pending' # NoSignal => trade' = NoTrade /\ Decided(bars', pending', i)
  <2> SUFFICES ASSUME pending' # NoSignal
               PROVE  trade' = NoTrade /\ Decided(bars', pending', i)
    OBVIOUS
  <2>1. CASE left = NoTrade
    <3>1. pending' = signal /\ signal \in Signals(i, b.close) /\ trade' = NoTrade
      BY <1>1, <2>1
    <3>2. PICK side \in {"LONG", "SHORT"} : pending' = Signal(side, i, b.close)
      BY <3>1 DEF Signals
    <3>3. i \in DOMAIN bars' /\ bars'[i].close = b.close
      BY <1>4
    <3> QED
      BY <3>1, <3>2, <3>3 DEF Decided
  <2>2. CASE left # NoTrade
    BY <1>1, <1>2, <2>2
  <2> QED
    BY <2>1, <2>2
<1>16. bars' # <<>>
  BY <1>4
<1> QED
  BY <1>2, <1>4, <1>5, <1>12, <1>13, <1>14, <1>15, <1>16 DEF ReplayInv

(* What is open when the data end is closed with them. *)
LEMMA EndKeeps ==
    ASSUME ReplayInv, EndOfData
    PROVE  ReplayInv'
<1> DEFINE n == Len(bars)
           c == Closed(trade, [reason |-> "end_of_data", price |-> Last(bars).close], n)
<1>1. /\ over = FALSE /\ over' = TRUE /\ trade' = NoTrade
      /\ UNCHANGED <<bars, pending, settled>>
      /\ trade = NoTrade => trades' = trades
      /\ trade # NoTrade => trades' = Append(trades, c)
  BY DEF EndOfData, ReplayInv
<1>2. n \in Nat
  BY LenProperties DEF ReplayInv
<1>3. \A k \in DOMAIN trades : Ended(bars, trades[k], TRUE)
  BY <1>1 DEF ReplayInv, Ended
<1>4. trade # NoTrade => Ended(bars, c, TRUE)
  <2> SUFFICES ASSUME trade # NoTrade
               PROVE  Ended(bars, c, TRUE)
    OBVIOUS
  <2>1. Running(bars, trade, n) /\ trade.filled <= n
    BY DEF ReplayInv
  <2>2. c.sig = trade.sig /\ c.filled = trade.filled /\ c.closed = n /\ c.funding = trade.funding
        /\ c.reason = "end_of_data"
    BY DEF Closed
  <2> HIDE DEF c
  <2>3. Exact(c, n)
    <3>1. Charged(c, n) = Charged(trade, n)
      BY <2>2 DEF Charged
    <3> QED
      BY <2>1, <2>2, <3>1 DEF Exact, Running
  <2>4. Untouched(bars, c.sig, n) /\ Untouched(bars, c.sig, n - 1)
    BY <1>2, <2>1, <2>2 DEF Running, Untouched
  <2> QED
    BY <1>2, <2>1, <2>2, <2>3, <2>4 DEF Ended, Running
<1>5. PICK S : trades \in Seq(S)
  BY DEF ReplayInv
<1> DEFINE C == S \cup {c}
<1>6. trades \in Seq(C) /\ c \in C
  BY <1>5
<1> HIDE DEF c, C
<1>7. trades' \in Seq(C) /\ \A k \in DOMAIN trades' : Ended(bars, trades'[k], TRUE)
  <2>1. CASE trade = NoTrade
    BY <1>1, <1>3, <1>6, <2>1
  <2>2. CASE trade # NoTrade
    <3>1. /\ trades' \in Seq(C)
          /\ DOMAIN trades = 1..Len(trades) /\ Len(trades) \in Nat
          /\ DOMAIN trades' = 1..Len(trades) + 1
          /\ \A k \in 1..Len(trades) : trades'[k] = trades[k]
          /\ trades'[Len(trades) + 1] = c
      BY <1>1, <1>6, <2>2, AppendProperties, LenProperties
    <3>2. ASSUME NEW k \in 1..Len(trades) + 1
          PROVE  Ended(bars, trades'[k], TRUE)
      <4>1. CASE k = Len(trades) + 1
        BY <1>4, <2>2, <3>1, <4>1
      <4>2. CASE k # Len(trades) + 1
        <5>1. k \in 1..Len(trades)
          BY <3>1, <4>2
        <5> QED
          BY <1>3, <3>1, <5>1
      <4> QED
        BY <4>1, <4>2
    <3> QED
      BY <3>1, <3>2
  <2> QED
    BY <2>1, <2>2
<1>8. pending' # NoSignal => Decided(bars', pending', Len(bars'))
  BY <1>1 DEF ReplayInv
<1> QED
  BY <1>1, <1>7, <1>8 DEF ReplayInv

(* Before the first bar nothing is pending and nothing runs. *)
LEMMA ReplayInitially == Init => ReplayInv
<1> SUFFICES ASSUME Init
             PROVE  ReplayInv
  OBVIOUS
<1>1. bars = <<>> /\ bars \in Seq(Bars) /\ Len(bars) = 0
  BY DEF Init
<1>2. trades = <<>> /\ DOMAIN trades = {} /\ trades \in Seq({})
  BY DEF Init
<1>3. settled = {} 
  BY DEF Init
<1> QED
  BY <1>1, <1>2, <1>3 DEF Init, ReplayInv

(* So it is of every step of a replay. *)
LEMMA ReplayStep == ReplayInv /\ [Next]_vars => ReplayInv'
<1> SUFFICES ASSUME ReplayInv, [Next]_vars
             PROVE  ReplayInv'
  OBVIOUS
<1>1. CASE OnBar
  <2>1. PICK b \in Bars : \E allowed \in BOOLEAN :
          /\ pending = NoSignal => allowed
          /\ \E signal \in {NoSignal} \cup Signals(Len(bars) + 1, b.close) : Step(b, allowed, signal)
    BY <1>1 DEF OnBar
  <2>2. PICK allowed \in BOOLEAN :
          \E signal \in {NoSignal} \cup Signals(Len(bars) + 1, b.close) : Step(b, allowed, signal)
    BY <2>1
  <2>3. PICK signal \in {NoSignal} \cup Signals(Len(bars) + 1, b.close) : Step(b, allowed, signal)
    BY <2>2
  <2>4. ~over /\ over' = over
    BY <1>1 DEF OnBar
  <2> QED
    BY <2>3, <2>4, StepKeeps
<1>2. CASE EndOfData
  BY <1>2, EndKeeps
<1>3. CASE UNCHANGED vars
  BY <1>3 DEF vars, ReplayInv
<1> QED
  BY <1>1, <1>2, <1>3 DEF Next

-----------------------------------------------------------------------------
(* The first candle to touch a level decides, if it comes within the horizon;
   without one the outcome is open, or expired. *)
LEMMA FirstTouchDecides ==
    ASSUME NEW s, NEW candles, NEW L \in Nat, Len(candles) = L, DOMAIN candles = 1..L,
           NEW horizon \in Nat
    PROVE  /\ \A k \in 1..L :
                  k <= horizon /\ Touches(s, candles[k]) /\ (\A j \in 1..k - 1 : ~Touches(s, candles[j])) =>
                      Resolve(s, candles, horizon) = IF HitStop(s, candles[k]) THEN "LOSS" ELSE "WIN"
           /\ (\A j \in 1..L : j <= horizon => ~Touches(s, candles[j])) =>
                  Resolve(s, candles, horizon) = IF L >= horizon THEN "EXPIRED" ELSE "PENDING"
<1> DEFINE touched == {n \in DOMAIN candles : /\ n <= horizon
                                              /\ HitStop(s, candles[n]) \/ HitTarget(s, candles[n])}
<1>1. Resolve(s, candles, horizon) =
        CASE touched # {} -> IF HitStop(s, candles[Min(touched)]) THEN "LOSS" ELSE "WIN"
          [] touched = {} /\ Len(candles) >= horizon -> "EXPIRED"
          [] OTHER -> "PENDING"
  BY DEF Resolve
<1>2. \A n : n \in touched <=> n \in 1..L /\ n <= horizon /\ Touches(s, candles[n])
  BY DEF Touches
<1> HIDE DEF touched
<1>3. ASSUME NEW k \in 1..L, k <= horizon, Touches(s, candles[k]), \A j \in 1..k - 1 : ~Touches(s, candles[j])
      PROVE  Resolve(s, candles, horizon) = IF HitStop(s, candles[k]) THEN "LOSS" ELSE "WIN"
  <2>1. k \in touched
    BY <1>2, <1>3
  <2>2. ASSUME NEW j \in touched
        PROVE  j \in Int /\ k <= j
    <3>1. j \in 1..L /\ Touches(s, candles[j])
      BY <1>2
    <3>2. ~(j < k)
      <4>1. j < k => j \in 1..k - 1
        BY <3>1
      <4> QED
        BY <1>3, <3>1, <4>1
    <3> QED
      BY <3>1, <3>2
  <2>3. Min(touched) = k
    BY <2>1, <2>2, MinIs
  <2> QED
    BY <1>1, <2>1, <2>3
<1>4. ASSUME \A j \in 1..L : j <= horizon => ~Touches(s, candles[j])
      PROVE  Resolve(s, candles, horizon) = IF L >= horizon THEN "EXPIRED" ELSE "PENDING"
  <2>1. touched = {}
    BY <1>2, <1>4
  <2> QED
    BY <1>1, <2>1
<1> QED
  BY <1>3, <1>4

(* What an ended trade's signal has done over the bars from the next one on,
   the window being `last` bars that are known and the horizon not longer. *)
LEMMA OutcomeOfEnded ==
    ASSUME bars \in Seq(Bars), NEW c, Ended(bars, c, over), NEW last \in 0..Len(bars), c.sig.at <= last,
           NEW horizon \in Nat, last < Len(bars) => horizon <= last - c.sig.at
    PROVE  LET outcome == Resolve(c.sig, SubSeq(bars, c.sig.at + 1, last), horizon)
           IN  /\ c.closed - c.sig.at > horizon =>
                      outcome = IF last - c.sig.at >= horizon THEN "EXPIRED" ELSE "PENDING"
               /\ c.closed - c.sig.at <= horizon /\ c.reason = "stop_loss" => outcome = "LOSS"
               /\ c.closed - c.sig.at <= horizon /\ c.reason = "take_profit" => outcome = "WIN"
               /\ c.reason \notin {"stop_loss", "take_profit"} => outcome \in {"PENDING", "EXPIRED"}
<1> DEFINE a == c.sig.at
           L == last - a
           window == SubSeq(bars, a + 1, last)
           k == c.closed - a
           outcome == Resolve(c.sig, window, horizon)
<1>1. /\ Len(bars) \in Nat /\ a \in Nat /\ c.closed \in a + 1..Len(bars) /\ L \in Nat
      /\ \A j \in a + 1..last : bars[j] \in Bars
  <2>1. Len(bars) \in Nat /\ a \in Nat /\ c.closed \in a + 1..Len(bars) /\ L \in Nat
    BY LenProperties DEF Ended
  <2>2. \A j \in 1..Len(bars) : bars[j] \in Bars
    BY ElementOfSeq
  <2> QED
    BY <2>1, <2>2
<1>2. /\ Len(window) = L /\ DOMAIN window = 1..L
      /\ \A n \in 1..L : window[n] = bars[a + n]
  <2>1. /\ window \in Seq(Bars)
        /\ Len(window) = IF a + 1 <= last THEN last - (a + 1) + 1 ELSE 0
        /\ \A n \in 1..last - (a + 1) + 1 : window[n] = bars[a + 1 + n - 1]
    <3>1. a + 1 \in Int /\ last \in Int
      BY <1>1
    <3> HIDE DEF a
    <3> QED
      BY <1>1, <3>1, SubSeqProperties
  <2>2. last - (a + 1) + 1 = L /\ (IF a + 1 <= last THEN last - (a + 1) + 1 ELSE 0) = L
    BY <1>1, SMTT(30)
  <2>3. \A n \in 1..L : a + 1 + n - 1 = a + n
    BY <1>1
  <2> HIDE DEF window, L
  <2>4. Len(window) = L
    BY <2>1, <2>2
  <2>5. DOMAIN window = 1..L
    BY <2>1, <2>4, LenProperties
  <2> QED
    BY <2>1, <2>2, <2>3, <2>4, <2>5
<1>3. \A n \in 1..L : a + n < c.closed => ~Touches(c.sig, window[n])
  <2> TAKE n \in 1..L
  <2>1. a + n < c.closed => a + n \in c.sig.at + 1..c.closed - 1
    BY <1>1, SMTT(30)
  <2>2. Untouched(bars, c.sig, c.closed - 1)
    BY DEF Ended
  <2> QED
    BY <1>2, <2>1, <2>2 DEF Untouched
<1>4. k \in Nat /\ k >= 1 /\ (k <= horizon => k \in 1..L)
  <2>1. last \in Nat /\ (last < Len(bars) \/ last = Len(bars))
    BY <1>1
  <2>2. k \in Nat /\ k >= 1
    BY <1>1, SMTT(30)
  <2>3. CASE last = Len(bars)
    BY <1>1, <2>2, <2>3
  <2>4. CASE last < Len(bars)
    <3>1. horizon <= L
      BY <2>4
    <3> HIDE DEF k, L
    <3> QED
      BY <1>1, <2>2, <3>1
  <2> QED
    BY <2>1, <2>2, <2>3, <2>4
<1>5. k \in 1..L => window[k] = bars[c.closed]
  <2>1. a + k = c.closed
    BY <1>1
  <2> QED
    BY <1>2, <2>1
<1>6. c.reason \in {"stop_loss", "take_profit"} =>
        /\ Touches(c.sig, bars[c.closed])
        /\ HitStop(c.sig, bars[c.closed]) <=> c.reason = "stop_loss"
  BY DEF Ended, Touches
<1>7. c.reason \notin {"stop_loss", "take_profit"} => \A n \in 1..L : ~Touches(c.sig, window[n])
  <2> SUFFICES ASSUME c.reason \notin {"stop_loss", "take_profit"}, NEW n \in 1..L
               PROVE  ~Touches(c.sig, window[n])
    OBVIOUS
  <2>1. Untouched(bars, c.sig, c.closed) /\ c.closed = Len(bars)
    BY DEF Ended
  <2>2. a + n \in c.sig.at + 1..c.closed
    <3>1. n \in Int /\ 1 <= n /\ n <= last - a /\ last <= Len(bars) /\ last \in Int
      BY <1>1
    <3>2. a \in Int /\ Len(bars) \in Int /\ c.closed = Len(bars) /\ c.sig.at = a
      BY <1>1, <2>1
    <3> HIDE DEF a
    <3> QED
      BY <3>1, <3>2
  <2>3. ~Touches(c.sig, bars[a + n])
    BY <2>1, <2>2 DEF Untouched
  <2> HIDE DEF window, L
  <2> QED
    BY <1>2, <2>3
<1>8. /\ \A n \in 1..L :
             n <= horizon /\ Touches(c.sig, window[n]) /\ (\A j \in 1..n - 1 : ~Touches(c.sig, window[j])) =>
                 outcome = IF HitStop(c.sig, window[n]) THEN "LOSS" ELSE "WIN"
      /\ (\A j \in 1..L : j <= horizon => ~Touches(c.sig, window[j])) =>
             outcome = IF L >= horizon THEN "EXPIRED" ELSE "PENDING"
  <2> HIDE DEF window, L
  <2> QED
    BY <1>1, <1>2, FirstTouchDecides
<1>9. ASSUME k > horizon
      PROVE  outcome = IF L >= horizon THEN "EXPIRED" ELSE "PENDING"
  <2>1. \A j \in 1..L : j <= horizon => a + j < c.closed
    BY <1>1, <1>9
  <2> HIDE DEF window, L, outcome
  <2> QED
    BY <1>3, <1>8, <2>1
<1>10. ASSUME k <= horizon, c.reason \in {"stop_loss", "take_profit"}
       PROVE  outcome = IF c.reason = "stop_loss" THEN "LOSS" ELSE "WIN"
  <2>1. k \in 1..L /\ \A j \in 1..k - 1 : j \in 1..L /\ a + j < c.closed
    BY <1>1, <1>4, <1>10, SMTT(30)
  <2> HIDE DEF window, L, outcome, k
  <2> QED
    BY <1>3, <1>5, <1>6, <1>8, <1>10, <2>1
<1>11. c.reason \notin {"stop_loss", "take_profit"} => outcome \in {"PENDING", "EXPIRED"}
  <2> HIDE DEF window, L, outcome
  <2> QED
    BY <1>7, <1>8
<1> HIDE DEF outcome, window
<1> QED
  BY <1>9, <1>10, <1>11 DEF outcome, window

(* The evaluator's verdict on a signal is the backtester's exit. *)
LEMMA OutcomesAgree ==
    ASSUME ReplayInv, NEW c, Ended(bars, c, over)
    PROVE  OutcomeAgrees(c)
<1>1. /\ bars \in Seq(Bars) /\ Len(bars) \in Nat /\ Horizon \in Nat /\ c.sig.at \in Nat
      /\ c.closed \in c.sig.at + 1..Len(bars) /\ c.sig.at <= Len(bars)
  BY LenProperties, BacktestAssumption DEF ReplayInv, Ended
<1> DEFINE outcome == Resolve(c.sig, SubSeq(bars, c.sig.at + 1, Len(bars)), Horizon)
<1>2. /\ c.closed - c.sig.at > Horizon =>
             outcome = IF Len(bars) - c.sig.at >= Horizon THEN "EXPIRED" ELSE "PENDING"
      /\ c.closed - c.sig.at <= Horizon /\ c.reason = "stop_loss" => outcome = "LOSS"
      /\ c.closed - c.sig.at <= Horizon /\ c.reason = "take_profit" => outcome = "WIN"
      /\ c.reason \notin {"stop_loss", "take_profit"} => outcome \in {"PENDING", "EXPIRED"}
  BY <1>1, OutcomeOfEnded
<1>3. c.closed - c.sig.at > Horizon => Len(bars) - c.sig.at >= Horizon
  BY <1>1
<1>4. c.closed - c.sig.at > Horizon <=> ~(c.closed - c.sig.at <= Horizon)
  BY <1>1
<1> HIDE DEF outcome
<1> QED
  BY <1>2, <1>3, <1>4 DEF OutcomeAgrees, outcome

(* No window is good for both sides if a target is not nearer than a stop. *)
LEMMA OneSideWins ==
    ASSUME NEW L \in Nat, NEW window, Len(window) = L, DOMAIN window = 1..L,
           \A n \in 1..L : window[n].low \in Int /\ window[n].high \in Int,
           NEW at, NEW p \in Int, NEW horizon \in Nat, Worthwhile,
           Resolve(Signal("LONG", at, p), window, horizon) = "WIN",
           Resolve(Signal("SHORT", at, p), window, horizon) = "WIN"
    PROVE  FALSE
<1> DEFINE long == Signal("LONG", at, p)
           short == Signal("SHORT", at, p)
<1>1. /\ \A b : HitStop(long, b) <=> b.low <= p - Risk
      /\ \A b : HitTarget(long, b) <=> b.high >= p + Reward
      /\ \A b : HitStop(short, b) <=> b.high >= p + Risk
      /\ \A b : HitTarget(short, b) <=> b.low <= p - Reward
  BY BacktestAssumption DEF HitStop, HitTarget, Signal, Sign
<1>2. Risk <= Reward /\ Risk \in Nat /\ Reward \in Nat
  BY BacktestAssumption DEF Worthwhile
<1> HIDE DEF long, short
<1>3. ASSUME NEW s, Resolve(s, window, horizon) = "WIN"
      PROVE  \E k \in 1..L : /\ HitTarget(s, window[k]) /\ ~HitStop(s, window[k])
                             /\ \A j \in 1..k - 1 : ~Touches(s, window[j])
  <2>1. \E j \in 1..L : j <= horizon /\ Touches(s, window[j])
    BY <1>3, FirstTouchDecides
  <2>2. PICK k \in Nat : /\ k \in 1..L /\ k <= horizon /\ Touches(s, window[k])
                         /\ \A j \in 0..k - 1 : ~(j \in 1..L /\ j <= horizon /\ Touches(s, window[j]))
    <3> DEFINE T == {j \in 1..L : j <= horizon /\ Touches(s, window[j])}
    <3>1. T # {} /\ T \subseteq Nat
      BY <2>1
    <3> HIDE DEF T
    <3>2. PICK k \in T : \A j \in T : k <= j
      BY <3>1, Smallest
    <3>3. k \in Nat /\ \A j \in 0..k - 1 : j \notin T
      BY <3>1, <3>2
    <3> QED
      BY <3>2, <3>3 DEF T
  <2>3. \A j \in 1..k - 1 : ~Touches(s, window[j])
    <3> TAKE j \in 1..k - 1
    <3>1. j \in 0..k - 1 /\ j \in 1..L /\ j <= horizon
      BY <2>2
    <3> QED
      BY <2>2, <3>1
  <2>4. Resolve(s, window, horizon) = IF HitStop(s, window[k]) THEN "LOSS" ELSE "WIN"
    BY <2>2, <2>3, FirstTouchDecides
  <2>5. ~HitStop(s, window[k])
    BY <1>3, <2>4
  <2> QED
    BY <2>2, <2>3, <2>5 DEF Touches
<1>4. PICK k \in 1..L : /\ HitTarget(long, window[k]) /\ ~HitStop(long, window[k])
                        /\ \A j \in 1..k - 1 : ~Touches(long, window[j])
  BY <1>3 DEF long
<1>5. PICK m \in 1..L : /\ HitTarget(short, window[m]) /\ ~HitStop(short, window[m])
                        /\ \A j \in 1..m - 1 : ~Touches(short, window[j])
  BY <1>3 DEF short
<1>6. CASE k <= m
  <2>1. HitStop(short, window[k])
    BY <1>1, <1>2, <1>4
  <2>2. k < m => k \in 1..m - 1
    BY <1>6
  <2>3. k < m \/ k = m
    BY <1>6
  <2> QED
    BY <1>5, <2>1, <2>2, <2>3 DEF Touches
<1>7. CASE m <= k
  <2>1. HitStop(long, window[m])
    BY <1>1, <1>2, <1>5
  <2>2. m < k => m \in 1..k - 1
    BY <1>7
  <2>3. m < k \/ k = m
    BY <1>7
  <2> QED
    BY <1>4, <2>1, <2>2, <2>3 DEF Touches
<1> QED
  BY <1>6, <1>7

(* The label of a bar is the side of a trade that takes its profit in time. *)
LEMMA LabelsAgree ==
    ASSUME ReplayInv, NEW c, Ended(bars, c, over)
    PROVE  LabelAgrees(c)
<1> SUFFICES ASSUME Worthwhile, Labelled(c.sig.at), bars[c.filled].open = bars[c.sig.at].close
             PROVE  Label(c.sig.at, Horizon) = c.sig.side
                        <=> c.reason = "take_profit" /\ c.closed <= c.filled + Horizon
  BY DEF LabelAgrees
<1> DEFINE a == c.sig.at
           last == a + 1 + Horizon
           window == SubSeq(bars, a + 1, last)
           p == bars[a].close
           Favourable(side) == Resolve(Signal(side, a, window[1].open), window, Horizon + 1) = "WIN"
<1>1. /\ bars \in Seq(Bars) /\ Len(bars) \in Nat /\ Horizon \in Nat /\ a \in Nat
      /\ c.closed \in a + 1..Len(bars) /\ c.filled = a + 1 /\ last <= Len(bars) /\ a \in 1..Len(bars)
  BY LenProperties, BacktestAssumption DEF ReplayInv, Ended, Decided, Labelled
<1>2. PICK side \in {"LONG", "SHORT"} : c.sig = Signal(side, a, p)
  BY DEF Ended, Decided
<1>3. /\ Len(window) = Horizon + 1 /\ DOMAIN window = 1..Horizon + 1
      /\ \A n \in 1..Horizon + 1 : window[n] = bars[a + n] /\ window[n] \in Bars
  <2>0. a + 1 \in Int /\ last \in Int /\ \A j \in a + 1..last : bars[j] \in Bars
    BY <1>1, ElementOfSeq
  <2>1. /\ window \in Seq(Bars)
        /\ Len(window) = IF a + 1 <= last THEN last - (a + 1) + 1 ELSE 0
        /\ \A n \in 1..last - (a + 1) + 1 : window[n] = bars[a + 1 + n - 1]
    <3> HIDE DEF a, last
    <3> QED
      BY <2>0, SubSeqProperties
  <2>2. last - (a + 1) + 1 = Horizon + 1 /\ (IF a + 1 <= last THEN last - (a + 1) + 1 ELSE 0) = Horizon + 1
    BY <1>1
  <2>3. \A n \in 1..Horizon + 1 : a + 1 + n - 1 = a + n /\ a + n \in a + 1..last
    BY <1>1, SMTT(30)
  <2> HIDE DEF window, last
  <2>4. Len(window) = Horizon + 1 /\ DOMAIN window = 1..Horizon + 1
    BY <2>1, <2>2, LenProperties
  <2>5. ASSUME NEW n \in 1..Horizon + 1
        PROVE  window[n] = bars[a + n] /\ window[n] \in Bars
    <3>1. window[n] = bars[a + 1 + n - 1]
      BY <2>1, <2>2
    <3>2. a + 1 + n - 1 = a + n /\ bars[a + n] \in Bars
      BY <2>0, <2>3
    <3> HIDE DEF a
    <3> QED
      BY <3>1, <3>2
  <2> QED
    BY <2>4, <2>5
<1>4. window[1].open = p /\ p \in Int
  <2>1. window[1] = bars[a + 1]
    <3>1. 1 \in 1..Horizon + 1
      BY <1>1
    <3> HIDE DEF window
    <3> QED
      BY <1>3, <3>1
  <2>2. bars[a] \in Bars
    BY <1>1, ElementOfSeq
  <2> QED
    BY <1>1, <2>1, <2>2, BacktestAssumption
<1>5. Label(a, Horizon) =
        CASE Worthwhile /\ Favourable("LONG") /\ ~Favourable("SHORT") -> "LONG"
          [] Worthwhile /\ Favourable("SHORT") /\ ~Favourable("LONG") -> "SHORT"
          [] OTHER -> "NO_TRADE"
  BY DEF Label
<1>6. ~(Favourable("LONG") /\ Favourable("SHORT"))
  <2> SUFFICES ASSUME Resolve(Signal("LONG", a, p), window, Horizon + 1) = "WIN",
                      Resolve(Signal("SHORT", a, p), window, Horizon + 1) = "WIN"
               PROVE  FALSE
    BY <1>4
  <2>1. \A n \in 1..Horizon + 1 : window[n].low \in Int /\ window[n].high \in Int
    BY <1>3, BacktestAssumption
  <2>2. Horizon + 1 \in Nat
    BY <1>1
  <2> HIDE DEF a, p, window
  <2> QED
    BY <1>3, <1>4, <2>1, <2>2, OneSideWins
<1>7. Favourable(side) <=> c.reason = "take_profit" /\ c.closed <= c.filled + Horizon
  <2>1. Favourable(side) <=> Resolve(c.sig, window, Horizon + 1) = "WIN"
    BY <1>2, <1>4
  <2> DEFINE outcome == Resolve(c.sig, window, Horizon + 1)
  <2>2. /\ c.closed - a > Horizon + 1 =>
               outcome = IF last - a >= Horizon + 1 THEN "EXPIRED" ELSE "PENDING"
        /\ c.closed - a <= Horizon + 1 /\ c.reason = "stop_loss" => outcome = "LOSS"
        /\ c.closed - a <= Horizon + 1 /\ c.reason = "take_profit" => outcome = "WIN"
        /\ c.reason \notin {"stop_loss", "take_profit"} => outcome \in {"PENDING", "EXPIRED"}
    <3>1. last \in 0..Len(bars) /\ a <= last /\ Horizon + 1 \in Nat /\ (last < Len(bars) => Horizon + 1 <= last - a)
      BY <1>1
    <3> HIDE DEF last
    <3> QED
      BY <1>1, <3>1, OutcomeOfEnded
  <2>3. c.closed <= c.filled + Horizon <=> c.closed - a <= Horizon + 1
    BY <1>1
  <2>4. c.closed - a > Horizon + 1 <=> ~(c.closed - a <= Horizon + 1)
    BY <1>1
  <2> HIDE DEF outcome, window, last
  <2> QED
    BY <2>1, <2>2, <2>3, <2>4 DEF outcome
<1>8. c.sig.side = side
  BY <1>2 DEF Signal
<1> HIDE DEF Favourable, window
<1> QED
  BY <1>5, <1>6, <1>7, <1>8

(* A behaviour that asks another question takes no step. *)
LEMMA ReplayHolds == ResearchSpec => []ReplayInv
<1>1. ResearchInit => ReplayInv
  BY ReplayInitially DEF ResearchInit
<1>2. ReplayInv /\ [ResearchNext]_allVars => ReplayInv'
  BY ReplayStep DEF ResearchNext, allVars
<1> QED
  BY <1>1, <1>2, PTL DEF ResearchSpec

(* What the backtester does with a signal is what the evaluator and the label
   say of it, whatever the bars, the horizon, the levels and the slippage. *)
THEOREM ReplaysSayTheSame == ResearchSpec => []ReplaysAgree
<1>1. ReplayInv => ReplaysAgree
  BY OutcomesAgree, LabelsAgree DEF ReplayInv, ReplaysAgree
<1> QED
  BY <1>1, ReplayHolds, PTL

(* Every trade has paid each funding event of its life once, whatever the
   events and however long the bars. *)
THEOREM EachEventPaidOnce == ResearchSpec => []FundingIsExact
<1>1. ReplayInv => FundingIsExact
  <2> SUFFICES ASSUME ReplayInv, NEW n \in DOMAIN trades
               PROVE  trades[n].funding = Sign(trades[n].sig.side)
                        * Cardinality({e \in Events : 2 * trades[n].filled < e /\ e <= 2 * trades[n].closed})
    BY DEF FundingIsExact
  <2>1. Ended(bars, trades[n], over)
    BY DEF ReplayInv
  <2> QED
    BY <2>1 DEF Ended, Exact, Charged
<1> QED
  BY <1>1, ReplayHolds, PTL

-----------------------------------------------------------------------------
(* Distances that grow give targets in order, and a stop at a distance is behind the entry. *)
Growing(d) ==
    \A n \in DOMAIN d : /\ n \in Nat /\ d[n] \in Int
                        /\ n = 1 => d[n] > 0
                        /\ n # 1 => n - 1 \in DOMAIN d /\ d[n - 1] \in Int /\ d[n - 1] < d[n]

(* A table of growing distances gives ordered levels. *)
LEMMA FixedDistances ==
    ASSUME NEW v, v.close \in Int, NEW s \in Sides, NEW stop \in Int, NEW d, Growing(d)
    PROVE  LET sig == Levels(v, s, stop, d)
           IN  /\ sig.side = s /\ sig.entry = v.close /\ sig.stop = v.close - s * stop
               /\ Ordered(sig)
               /\ stop > 0 => s * (sig.entry - sig.stop) > 0
<1> DEFINE sig == Levels(v, s, stop, d)
           e == v.close
<1>1. /\ sig.side = s /\ sig.entry = e /\ sig.stop = e - s * stop
      /\ sig.targets = [n \in DOMAIN d |-> e + s * d[n]]
  BY DEF Levels
<1>2. e \in Int /\ (s = 1 \/ s = -1)
  BY DEF Sides
<1> HIDE DEF sig, e
<1>3. ASSUME NEW n \in DOMAIN sig.targets
      PROVE  sig.side * (sig.targets[n] - (IF n = 1 THEN sig.entry ELSE sig.targets[n - 1])) > 0
  <2>1. n \in DOMAIN d /\ sig.targets[n] = e + s * d[n] /\ n \in Nat /\ d[n] \in Int
    BY <1>1 DEF Growing
  <2>2. CASE n = 1
    <3>1. d[n] > 0 /\ sig.entry = e
      BY <1>1, <2>1, <2>2 DEF Growing
    <3> QED
      BY <1>1, <1>2, <2>1, <2>2, <3>1
  <2>3. CASE n # 1
    <3>1. n - 1 \in DOMAIN d /\ d[n - 1] \in Int /\ d[n - 1] < d[n]
      BY <2>1, <2>3 DEF Growing
    <3>2. sig.targets[n - 1] = e + s * d[n - 1]
      BY <1>1, <3>1
    <3> DEFINE x == d[n]
               y == d[n - 1]
               X == sig.targets[n]
               Y == sig.targets[n - 1]
    <3>3. x \in Int /\ y \in Int /\ y < x /\ X = e + s * x /\ Y = e + s * y
      BY <2>1, <3>1, <3>2
    <3>4. s * (X - Y) > 0
      <4> HIDE DEF x, y, X, Y
      <4> QED
        BY <1>2, <3>3
    <3> QED
      BY <1>1, <2>3, <3>4
  <2> QED
    BY <2>2, <2>3
<1>4. stop > 0 => s * (sig.entry - sig.stop) > 0
  BY <1>1, <1>2
<1> QED
  BY <1>1, <1>3, <1>4 DEF Ordered, sig, e

(* The five tables of distances. *)
LEMMA Tables ==
    Growing(<<3, 5, 7>>) /\ Growing(<<2, 4, 6>>) /\ Growing(<<6>>) /\ Growing(<<4, 6, 10>>)
        /\ Growing(<<4, 6, 8>>) /\ Growing(<<3, 5, 8>>)
<1>1. ASSUME NEW a \in Int, NEW b \in Int, NEW c \in Int, 0 < a, a < b, b < c
      PROVE  Growing(<<a, b, c>>)
  <2>1. DOMAIN <<a, b, c>> = 1..3 /\ <<a, b, c>>[1] = a /\ <<a, b, c>>[2] = b /\ <<a, b, c>>[3] = c
    OBVIOUS
  <2> DEFINE d == <<a, b, c>>
  <2>2. DOMAIN d = 1..3 /\ d[1] = a /\ d[2] = b /\ d[3] = c
    BY <2>1
  <2> HIDE DEF d
  <2>3. ASSUME NEW n \in DOMAIN d
        PROVE  n \in {1, 2, 3}
    BY <2>2
  <2>4. Growing(d)
    BY <1>1, <2>2, <2>3 DEF Growing
  <2> QED
    BY <2>4 DEF d
<1>2. Growing(<<6>>)
  BY DEF Growing
<1> QED
  BY <1>1, <1>2

(* Two targets that a band gives. *)
LEMMA BandTargets ==
    ASSUME NEW sig, NEW s \in Sides, sig.side = s, sig.entry \in Int, NEW m \in Int, NEW b \in Int,
           sig.targets = <<m, b>>, s * (m - sig.entry) > 0, s * (b - m) > 0
    PROVE  Ordered(sig)
<1>1. DOMAIN sig.targets = 1..2 /\ sig.targets[1] = m /\ sig.targets[2] = b
  OBVIOUS
<1>2. ASSUME NEW n \in DOMAIN sig.targets
      PROVE  n = 1 \/ (n = 2 /\ n - 1 = 1)
  BY <1>1
<1> QED
  BY <1>1, <1>2 DEF Ordered

(* A strategy's levels. *)
LEMMA ViewOrdered ==
    ASSUME NEW q, Posed(q), q.kind = "view", NEW signal \in Generate(q.id, q.view)
    PROVE  LET sig == signal.levels
               s == sig.side
               passed == q.id \in {"S04", "pure_bb"} /\ ~Above(q.view.mid, sig.entry, s)
           IN  /\ q.id # "S06" => s * (sig.entry - sig.stop) > 0
               /\ ~passed => Ordered(sig)
<1> DEFINE v == q.view
           sig == signal.levels
<1>1. PICK s \in Sides : Rule(q.id, v, s) /\ sig = LevelsOf(q.id, v, s)
  BY DEF Generate
<1>2. /\ v.close \in Int /\ v.plow \in Int /\ v.phigh \in Int /\ v.line \in Int
      /\ v.lower \in Int /\ v.mid \in Int /\ v.upper \in Int
      /\ q.id \in {"S04", "pure_bb"} => (v.lower < v.mid /\ v.mid < v.upper) \/ v.close = v.mid
      /\ s = 1 \/ s = -1
  BY DEF Posed, Sides
<1> SUFFICES /\ sig.side = s
             /\ q.id # "S06" => s * (sig.entry - sig.stop) > 0
             /\ ~(q.id \in {"S04", "pure_bb"} /\ ~Above(v.mid, sig.entry, s)) => Ordered(sig)
  OBVIOUS
<1> HIDE DEF v, sig
<1>3. CASE q.id = "S03"
  <2>1. sig = VwapLevels(v, s)
    BY <1>1, <1>3 DEF LevelsOf, Reverting, Baselines
  <2>2. VwapReversion(v, s)
    BY <1>1, <1>3 DEF Rule
  <2>3. /\ sig.side = s /\ sig.entry = v.close /\ sig.stop = v.close - s * 3
        /\ sig.targets = <<v.line, v.line + s>>
    BY <2>1 DEF VwapLevels
  <2>4. s * (v.close - v.line) < -5
    BY <2>2 DEF VwapReversion
  <2>5. s * (v.line - v.close) > 0 /\ s * ((v.line + s) - v.line) > 0 /\ s * (v.close - sig.stop) > 0
    BY <1>2, <2>3, <2>4
  <2>6. Ordered(sig)
    BY <1>2, <2>3, <2>5, BandTargets
  <2> QED
    BY <2>3, <2>5, <2>6
<1>4. CASE q.id \in {"S04", "pure_bb"}
  <2> DEFINE stop == Of(s, Min({v.plow, v.close - 3}), Max({v.phigh, v.close + 3}))
  <2>1. s * (v.close - stop) > 0
    <3>1. Min({v.plow, v.close - 3}) <= v.close - 3 /\ Min({v.plow, v.close - 3}) \in Int
      BY <1>2, MinIs
    <3>2. Max({v.phigh, v.close + 3}) >= v.close + 3 /\ Max({v.phigh, v.close + 3}) \in Int
      BY <1>2, MaxIs
    <3> QED
      BY <1>2, <3>1, <3>2 DEF Of
  <2>2. /\ sig.side = s /\ sig.entry = v.close /\ sig.targets = <<v.mid, Band(v, s)>>
        /\ sig.stop = stop \/ sig.stop = v.close - s * 3
    <3>1. CASE q.id = "S04"
      <4>1. sig = BollingerLevels(v, s)
        BY <1>1, <3>1 DEF LevelsOf, Reverting, Baselines
      <4> QED
        BY <4>1 DEF BollingerLevels
    <3>2. CASE q.id = "pure_bb"
      <4>1. sig = PureBollingerLevels(v, s)
        BY <1>1, <3>2 DEF LevelsOf, Reverting, Baselines
      <4> QED
        BY <4>1 DEF PureBollingerLevels
    <3> QED
      BY <1>4, <3>1, <3>2
  <2> HIDE DEF stop
  <2>3. s * (sig.entry - sig.stop) > 0
    BY <1>2, <2>1, <2>2
  <2>4. ASSUME Above(v.mid, v.close, s)
        PROVE  Ordered(sig)
    <3>1. s * (v.mid - v.close) > 0
      BY <2>4 DEF Above
    <3>2. v.lower < v.mid /\ v.mid < v.upper
      BY <1>2, <1>4, <3>1
    <3>3. Band(v, s) \in Int /\ s * (Band(v, s) - v.mid) > 0
      BY <1>2, <3>2 DEF Band, Of
    <3> QED
      BY <1>2, <2>2, <3>1, <3>3, BandTargets
  <2> QED
    BY <1>4, <2>2, <2>3, <2>4
<1>5. CASE q.id = "S06"
  <2>1. sig = [Levels(v, s, 0, <<3, 5, 8>>) EXCEPT !.stop = v.line]
    BY <1>1, <1>5 DEF LevelsOf, Reverting, Baselines, SupertrendLevels
  <2> DEFINE lv == Levels(v, s, 0, <<3, 5, 8>>)
  <2>2. lv.side = s /\ lv.entry = v.close /\ Ordered(lv)
    BY <1>2, FixedDistances, Tables
  <2>3. sig.side = lv.side /\ sig.entry = lv.entry /\ sig.targets = lv.targets
    BY <2>1 DEF Levels
  <2> HIDE DEF lv
  <2>4. Ordered(sig)
    BY <2>2, <2>3 DEF Ordered
  <2> QED
    BY <1>5, <2>2, <2>3, <2>4
<1>6. CASE q.id \notin {"S03", "S04", "pure_bb", "S06"}
  <2>1. sig \in {EngineLevels(v, s), BarrierLevels(v, s), ReversionLevels(v, s), BaselineLevels(v, s), AtrLevels(v, s)}
    <3>1. CASE q.id \in Reverting
      BY <1>1, <3>1 DEF LevelsOf, Reverting, Baselines
    <3>2. CASE q.id \in Baselines
      BY <1>1, <3>2 DEF LevelsOf, Reverting, Baselines
    <3>3. CASE q.id \in {"engine", "ml_model"}
      BY <1>1, <3>3 DEF LevelsOf, Reverting, Baselines
    <3>4. CASE q.id \notin Reverting \cup Baselines \cup {"engine", "ml_model"}
      BY <1>1, <1>6, <3>4 DEF LevelsOf
    <3> QED
      BY <3>1, <3>2, <3>3, <3>4
  <2>2. \E stop, d : stop \in {2, 3, 4} /\ Growing(d) /\ sig = Levels(v, s, stop, d)
    BY <2>1, Tables DEF EngineLevels, BarrierLevels, ReversionLevels, BaselineLevels, AtrLevels
  <2>3. PICK stop, d : stop \in {2, 3, 4} /\ Growing(d) /\ sig = Levels(v, s, stop, d)
    BY <2>2
  <2>4. stop \in Int /\ stop > 0
    BY <2>3
  <2> QED
    BY <1>2, <2>3, <2>4, FixedDistances
<1> QED
  BY <1>3, <1>4, <1>5, <1>6

(* A message that is a trade. *)
LEMMA MessageOrdered ==
    ASSUME NEW q, Posed(q), q.kind = "message", Parse(q.message).status = "VALID"
    PROVE  LET msg == Parse(q.message)
           IN  /\ msg.targets # {}
               /\ \A tp \in msg.targets : StructureValid(msg.side, msg.entry, msg.stop, tp)
<1> DEFINE m == q.message
           side == Keywords[CHOOSE w \in m.words : TRUE]
           tps == IF m.tps = <<0, 0, 0>> THEN <<m.tp, 0, 0>> ELSE m.tps
           targets == {tps[n] : n \in DOMAIN tps} \ {0}
           valid == [status |-> "VALID", side |-> side, entry |-> m.entry, stop |-> m.stop, targets |-> targets]
<1>1. /\ m.words \subseteq DOMAIN Keywords /\ m.tps \in [1..3 -> Int]
      /\ m.entry \in Int /\ m.stop \in Int /\ m.tp \in Int
  BY DEF Posed
<1>2. tps \in [1..3 -> Int]
  BY <1>1
<1> HIDE DEF tps
<1>3. targets \subseteq Int
  BY <1>2
<1>4. ~(m.words = {}) => side = 1 \/ side = -1
  <2>1. ~(m.words = {}) => (CHOOSE w \in m.words : TRUE) \in m.words
    OBVIOUS
  <2>2. \A w \in DOMAIN Keywords : Keywords[w] = 1 \/ Keywords[w] = -1
    BY DEF Keywords
  <2> HIDE DEF m
  <2> QED
    BY <1>1, <2>1, <2>2
<1>5. /\ Parse(m) = valid /\ m.words # {} /\ tps[1] # 0
      /\ side * (m.entry - m.stop) > 0 /\ \A tp \in targets : side * (tp - m.entry) > 0
  <2> DEFINE Status(s) == [status |-> s]
             good == side * (m.entry - m.stop) > 0 /\ \A tp \in targets : side * (tp - m.entry) > 0
  <2>1. Parse(m) =
          CASE ~m.symbol -> Status("INVALID")
            [] m.symbol /\ Cardinality(m.words) > 1 -> Status("AMBIGUOUS")
            [] m.symbol /\ m.words = {} -> Status("INCOMPLETE")
            [] OTHER ->
                 CASE ~m.supported -> Status("UNSUPPORTED_SYMBOL")
                   [] m.supported /\ (m.entry = 0 \/ m.stop = 0 \/ tps[1] = 0) -> Status("INCOMPLETE")
                   [] OTHER -> IF good THEN valid ELSE Status("INVALID")
    BY DEF Parse, tps
  <2>2. \A s \in {"INVALID", "AMBIGUOUS", "INCOMPLETE", "UNSUPPORTED_SYMBOL"} : Parse(m) # Status(s)
    OBVIOUS
  <2> HIDE DEF m, side, valid, good, Status
  <2>3. m.words # {}
    <3>0. m.words = {} => ~(Cardinality(m.words) > 1)
      BY FS_EmptySet
    <3> QED
      BY <2>1, <2>2, <3>0
  <2> QED
    BY <2>1, <2>2, <2>3 DEF good
<1>6. valid.targets = targets /\ valid.side = side /\ valid.entry = m.entry /\ valid.stop = m.stop
  OBVIOUS
<1>7. tps[1] \in targets
  BY <1>2, <1>5
<1>8. side = 1 \/ side = -1
  BY <1>4, <1>5
<1> HIDE DEF m, side, targets, valid
<1>9. ASSUME NEW tp \in targets
      PROVE  StructureValid(side, m.entry, m.stop, tp)
  <2>1. tp \in Int /\ side * (tp - m.entry) > 0 /\ side * (m.entry - m.stop) > 0
    BY <1>3, <1>5
  <2> QED
    BY <1>1, <1>8, <2>1 DEF StructureValid
<1> QED
  BY <1>5, <1>6, <1>7, <1>9 DEF m

(* Row i of the Supertrend, from the row before it. *)
SupertrendRow(bs, width, row, i) ==
    CASE width[i] = 0 -> [ready |-> FALSE, direction |-> 1]
      [] width[i] > 0 /\ (i = 1 \/ ~row[i - 1].ready) -> Fresh(bs, width, i)
      [] OTHER -> Turned(Tightened(row[i - 1], Fresh(bs, width, i), bs[i - 1].close), bs[i].close)

AreRows(bs, width, row, n) == row = [i \in 1..n |-> SupertrendRow(bs, width, row, i)]

(* A row reads its bar, the bar before, its width and the row before. *)
LEMMA RowReads ==
    ASSUME NEW bs, NEW width, NEW row, NEW bs2, NEW width2, NEW row2, NEW i \in Nat,
           width[i] \in Nat, width2[i] = width[i], bs2[i] = bs[i],
           i # 1 => bs2[i - 1] = bs[i - 1] /\ row2[i - 1] = row[i - 1]
    PROVE  SupertrendRow(bs, width, row, i) = SupertrendRow(bs2, width2, row2, i)
<1>1. Fresh(bs, width, i) = Fresh(bs2, width2, i)
  BY DEF Fresh
<1>2. CASE width[i] = 0
  BY <1>2 DEF SupertrendRow
<1>3. CASE width[i] > 0 /\ i = 1
  BY <1>1, <1>3 DEF SupertrendRow
<1>4. CASE width[i] > 0 /\ i # 1
  BY <1>1, <1>4 DEF SupertrendRow
<1> QED
  BY <1>2, <1>3, <1>4

(* The rows exist: each is made from the one before. *)
LEMMA RowsExist ==
    ASSUME NEW bs, NEW width, NEW N \in Nat, \A i \in 1..N : width[i] \in Nat
    PROVE  \E row : AreRows(bs, width, row, N)
<1> DEFINE T == {n \in 0..N : ~\E row : AreRows(bs, width, row, n)}
<1> SUFFICES ASSUME T # {}
             PROVE  FALSE
  <2>1. N \in 0..N
    OBVIOUS
  <2> QED
    BY <2>1
<1>1. T \in SUBSET Nat
  OBVIOUS
<1>2. PICK n \in T : \A m \in T : n <= m
  <2> HIDE DEF T
  <2> QED
    BY <1>1, Smallest
<1>3. n \in 0..N /\ ~\E row : AreRows(bs, width, row, n)
  OBVIOUS
<1>4. CASE n = 0
  <2>1. 1..n = {}
    BY <1>4
  <2>2. [i \in 1..n |-> 0] = [i \in 1..n |-> SupertrendRow(bs, width, [j \in 1..n |-> 0], i)]
    BY <2>1
  <2> QED
    BY <1>3, <2>2 DEF AreRows
<1>5. CASE n # 0
  <2>1. n - 1 \in 0..N /\ n - 1 \notin T
    BY <1>2, <1>3, <1>5
  <2>2. PICK f : AreRows(bs, width, f, n - 1)
    BY <2>1
  <2> DEFINE g == [i \in 1..n |-> IF i < n THEN f[i] ELSE SupertrendRow(bs, width, f, i)]
  <2>3. \A i \in 1..n - 1 : g[i] = f[i] /\ f[i] = SupertrendRow(bs, width, f, i)
    <3>1. \A i \in 1..n - 1 : i \in 1..n /\ i < n
      BY <1>3
    <3>2. \A i \in 1..n - 1 : g[i] = f[i]
      BY <3>1
    <3> DEFINE e == [i \in 1..n - 1 |-> SupertrendRow(bs, width, f, i)]
    <3>3. \A i \in 1..n - 1 : e[i] = SupertrendRow(bs, width, f, i)
      OBVIOUS
    <3>4. f = e
      BY <2>2 DEF AreRows
    <3> HIDE DEF g, e
    <3> QED
      BY <3>2, <3>3, <3>4
  <2>4. n \in 1..n /\ g[n] = SupertrendRow(bs, width, f, n)
    BY <1>3, <1>5
  <2>5. DOMAIN g = 1..n /\ g = [i \in 1..n |-> g[i]]
    OBVIOUS
  <2> HIDE DEF g, T
  <2>6. ASSUME NEW i \in 1..n
        PROVE  g[i] = SupertrendRow(bs, width, g, i)
    <3>1. width[i] \in Nat /\ i \in Nat
      BY <1>3
    <3>2. i # 1 => i - 1 \in 1..n - 1
      BY <1>3
    <3>3. SupertrendRow(bs, width, f, i) = SupertrendRow(bs, width, g, i)
      BY <2>3, <3>1, <3>2, RowReads
    <3>4. i = n \/ i \in 1..n - 1
      BY <1>3
    <3> QED
      BY <2>3, <2>4, <3>3, <3>4
  <2>7. AreRows(bs, width, g, n)
    BY <2>5, <2>6 DEF AreRows
  <2> QED
    BY <1>3, <2>7
<1> QED
  BY <1>4, <1>5

(* SupertrendRows is the one function that solves the recursion for these bars. *)
LEMMA SupertrendIsRows ==
    ASSUME NEW bs, NEW width, NEW N \in Nat, DOMAIN bs = 1..N, \A i \in 1..N : width[i] \in Nat
    PROVE  AreRows(bs, width, SupertrendRows(bs, width), N)
<1>1. \E row : row = [i \in DOMAIN bs |-> SupertrendRow(bs, width, row, i)]
  <2>1. PICK row : AreRows(bs, width, row, N)
    BY RowsExist
  <2>2. row = [i \in DOMAIN bs |-> SupertrendRow(bs, width, row, i)]
    BY <2>1, Zenon DEF AreRows
  <2> QED
    BY <2>2
<1>2. SupertrendRows(bs, width) = CHOOSE row : row = [i \in DOMAIN bs |-> SupertrendRow(bs, width, row, i)]
  BY DEF SupertrendRows, SupertrendRow
<1> DEFINE st == SupertrendRows(bs, width)
<1>3. st = [i \in DOMAIN bs |-> SupertrendRow(bs, width, st, i)]
  <2> HIDE DEF st
  <2> QED
    BY <1>1, <1>2 DEF st
<1> QED
  BY <1>3 DEF AreRows

(* A solution, at one of its rows. *)
LEMMA AreRowsAt ==
    ASSUME NEW bs, NEW width, NEW row, NEW N, AreRows(bs, width, row, N), NEW n \in 1..N
    PROVE  row[n] = SupertrendRow(bs, width, row, n)
<1> DEFINE f == [i \in 1..N |-> SupertrendRow(bs, width, row, i)]
<1>1. f[n] = SupertrendRow(bs, width, row, n)
  OBVIOUS
<1>2. row = f
  BY Zenon DEF AreRows
<1> HIDE DEF f
<1> QED
  BY <1>1, <1>2

(* The rows of the bars up to bar i are those of all bars. *)
LEMMA RowsOfPrefix ==
    ASSUME NEW bs, NEW width, NEW row, NEW N \in Nat, AreRows(bs, width, row, N),
           NEW bs2, NEW width2, NEW row2, NEW M \in 0..N, AreRows(bs2, width2, row2, M),
           \A i \in 1..M : width[i] \in Nat /\ width2[i] = width[i] /\ bs2[i] = bs[i]
    PROVE  \A i \in 1..M : row2[i] = row[i]
<1> DEFINE T == {i \in 1..M : row2[i] # row[i]}
<1> SUFFICES ASSUME T # {}
             PROVE  FALSE
  OBVIOUS
<1>1. T \in SUBSET Nat
  OBVIOUS
<1>2. PICK n \in T : \A m \in T : n <= m
  <2> HIDE DEF T
  <2> QED
    BY <1>1, Smallest
<1>3. n \in 1..M /\ row2[n] # row[n]
  OBVIOUS
<1>4. n # 1 => n - 1 \in 1..M /\ row2[n - 1] = row[n - 1]
  BY <1>2, <1>3
<1>5. row[n] = SupertrendRow(bs, width, row, n) /\ row2[n] = SupertrendRow(bs2, width2, row2, n)
  <2>1. n \in 1..N
    BY <1>3
  <2>2. row[n] = SupertrendRow(bs, width, row, n)
    BY <2>1, AreRowsAt
  <2>3. row2[n] = SupertrendRow(bs2, width2, row2, n)
    BY <1>3, AreRowsAt
  <2> QED
    BY <2>2, <2>3
<1>6. n # 1 => bs2[n - 1] = bs[n - 1]
  BY <1>4
<1>7. SupertrendRow(bs, width, row, n) = SupertrendRow(bs2, width2, row2, n)
  BY <1>3, <1>4, <1>6, RowReads
<1> QED
  BY <1>3, <1>5, <1>7

(* A row has bands, as soon as there is a width. *)
Bands == [ready : BOOLEAN, upper : Int, lower : Int, direction : {1, -1}]

Banded(st) == st.ready \in BOOLEAN /\ (st.ready => st \in Bands)

(* The bands of a bar, before the rows above are looked at. *)
LEMMA FreshBands ==
    ASSUME NEW bs, NEW width, NEW i, bs[i].high \in Int, bs[i].low \in Int, width[i] \in Nat
    PROVE  LET st == Fresh(bs, width, i)
           IN  /\ st \in Bands /\ st.ready /\ st.direction = 1
               /\ st.upper = (bs[i].high + bs[i].low) + 2 * width[i]
               /\ st.lower = (bs[i].high + bs[i].low) - 2 * width[i]
<1> DEFINE u == (bs[i].high + bs[i].low) + 2 * width[i]
           l == (bs[i].high + bs[i].low) - 2 * width[i]
           r == [ready |-> TRUE, upper |-> u, lower |-> l, direction |-> 1]
<1>1. Fresh(bs, width, i) = r
  BY Zenon DEF Fresh
<1>2. u \in Int /\ l \in Int
  OBVIOUS
<1> HIDE DEF u, l
<1>3. r \in Bands
  BY <1>2 DEF Bands
<1>4. r.ready /\ r.direction = 1 /\ r.upper = u /\ r.lower = l
  OBVIOUS
<1> QED
  BY <1>1, <1>3, <1>4 DEF u, l

(* Bands that are tightened: their type and fields. *)
LEMMA TightenedBands ==
    ASSUME NEW last \in Bands, last.ready, NEW basic, basic.upper \in Int, basic.lower \in Int, NEW close \in Int
    PROVE  LET st == Tightened(last, basic, close)
           IN  /\ st \in Bands /\ st.ready /\ st.direction = last.direction
               /\ st.upper = IF basic.upper < last.upper \/ 2 * close > last.upper THEN basic.upper ELSE last.upper
               /\ st.lower = IF basic.lower > last.lower \/ 2 * close < last.lower THEN basic.lower ELSE last.lower
<1> DEFINE u == IF basic.upper < last.upper \/ 2 * close > last.upper THEN basic.upper ELSE last.upper
           l == IF basic.lower > last.lower \/ 2 * close < last.lower THEN basic.lower ELSE last.lower
           r == [last EXCEPT !.upper = u, !.lower = l]
<1>1. Tightened(last, basic, close) = r
  BY DEF Tightened
<1>2. u \in Int /\ l \in Int
  BY DEF Bands
<1> HIDE DEF u, l
<1>3. r \in Bands /\ r.upper = u /\ r.lower = l /\ r.direction = last.direction
  BY <1>2 DEF Bands
<1>4. r.ready
  BY <1>2 DEF Bands
<1> HIDE DEF r
<1> QED
  BY <1>1, <1>3, <1>4 DEF u, l

(* Bands whose direction is set: their type and fields. *)
LEMMA TurnedBands ==
    ASSUME NEW bands \in Bands, bands.ready, NEW close \in Int
    PROVE  LET st == Turned(bands, close)
           IN  /\ st \in Bands /\ st.ready /\ st.upper = bands.upper /\ st.lower = bands.lower
               /\ st.direction = IF bands.direction = 1 THEN IF 2 * close < bands.lower THEN -1 ELSE 1
                                 ELSE IF 2 * close > bands.upper THEN 1 ELSE -1
<1> DEFINE d == IF bands.direction = 1 THEN IF 2 * close < bands.lower THEN -1 ELSE 1
                ELSE IF 2 * close > bands.upper THEN 1 ELSE -1
           r == [bands EXCEPT !.direction = d]
<1>1. Turned(bands, close) = r
  BY DEF Turned
<1>2. d \in {1, -1}
  OBVIOUS
<1> HIDE DEF d
<1>3. r \in Bands /\ r.direction = d /\ r.upper = bands.upper /\ r.lower = bands.lower
  BY <1>2 DEF Bands
<1>4. r.ready
  BY <1>2 DEF Bands
<1> HIDE DEF r
<1> QED
  BY <1>1, <1>3, <1>4 DEF d

(* One row: it has bands if the row before has, and its line supports the price
   if the bar is not taller than the bands are wide. *)
LEMMA RowSupports ==
    ASSUME NEW bs, NEW width, NEW row, NEW i \in Nat, width[i] \in Nat, i # 1 => Banded(row[i - 1]),
           bs[i].high \in Int, bs[i].low \in Int, bs[i].close \in Int, i # 1 => bs[i - 1].close \in Int,
           bs[i].low <= bs[i].close, bs[i].close <= bs[i].high
    PROVE  LET st == SupertrendRow(bs, width, row, i)
           IN  /\ Banded(st)
               /\ st.ready /\ 2 * width[i] >= bs[i].high - bs[i].low => Supports(st, bs[i])
<1> DEFINE b == bs[i]
           w == width[i]
           st == SupertrendRow(bs, width, row, i)
           fresh == Fresh(bs, width, i)
<1>1. CASE w = 0
  <2>1. st = [ready |-> FALSE, direction |-> 1]
    BY <1>1 DEF SupertrendRow
  <2> QED
    BY <2>1 DEF Banded
<1>2. /\ fresh \in Bands /\ Banded(fresh) /\ fresh.ready /\ fresh.direction = 1 /\ w \in Nat
      /\ fresh.upper = (b.high + b.low) + 2 * w /\ fresh.lower = (b.high + b.low) - 2 * w
      /\ fresh.upper \in Int /\ fresh.lower \in Int /\ b.high \in Int /\ b.low \in Int /\ b.close \in Int
      /\ b.low <= b.close /\ b.close <= b.high
  <2>1. /\ fresh \in Bands /\ fresh.ready /\ fresh.direction = 1
        /\ fresh.upper = (b.high + b.low) + 2 * w /\ fresh.lower = (b.high + b.low) - 2 * w
    BY FreshBands
  <2> HIDE DEF fresh
  <2> QED
    BY <2>1 DEF Banded, Bands
<1>3. 2 * w >= b.high - b.low => fresh.lower <= 2 * b.close /\ 2 * b.close <= fresh.upper
  BY <1>2
<1>4. CASE w > 0 /\ (i = 1 \/ ~row[i - 1].ready)
  <2>1. st = fresh
    BY <1>4 DEF SupertrendRow
  <2>2. 2 * w >= b.high - b.low => Supports(fresh, b)
    <3>1. 2 * w >= b.high - b.low => 2 * b.close - fresh.lower >= 0 /\ 2 * b.close - fresh.lower \in Int
      BY <1>2, <1>3
    <3> HIDE DEF fresh, b, w
    <3> QED
      BY <1>2, <3>1 DEF Supports, Line
  <2> HIDE DEF fresh, b, w, st
  <2>3. Banded(st) /\ (2 * w >= b.high - b.low => Supports(st, b))
    BY <1>2, <2>1, <2>2
  <2> QED
    BY <2>3 DEF b, w, st
<1>5. CASE w > 0 /\ i # 1 /\ row[i - 1].ready
  <2> DEFINE last == row[i - 1]
             close == bs[i - 1].close
             bands == Tightened(last, fresh, close)
  <2>1. st = Turned(bands, b.close)
    BY <1>5 DEF SupertrendRow
  <2>2. last \in Bands /\ last.ready /\ close \in Int
    BY <1>5 DEF Banded
  <2> HIDE DEF fresh, b, w, last, close, st
  <2>3. /\ bands \in Bands /\ bands.ready /\ bands.direction = last.direction
        /\ bands.upper = IF fresh.upper < last.upper \/ 2 * close > last.upper THEN fresh.upper ELSE last.upper
        /\ bands.lower = IF fresh.lower > last.lower \/ 2 * close < last.lower THEN fresh.lower ELSE last.lower
    <3>1. fresh.upper \in Int /\ fresh.lower \in Int
      BY <1>2
    <3> QED
      BY <2>2, <3>1, TightenedBands, Zenon
  <2> HIDE DEF bands
  <2>4. /\ st \in Bands /\ st.ready /\ st.upper = bands.upper /\ st.lower = bands.lower
        /\ st.direction = IF bands.direction = 1 THEN IF 2 * b.close < bands.lower THEN -1 ELSE 1
                          ELSE IF 2 * b.close > bands.upper THEN 1 ELSE -1
    BY <1>2, <2>1, <2>3, TurnedBands, ZenonT(40)
  \* Both bands kept lie on either side of the last close; a fresh one lies beyond this bar's.
  <2>5. 2 * w >= b.high - b.low =>
          (2 * b.close < bands.lower => 2 * b.close <= bands.upper) /\
          (2 * b.close > bands.upper => bands.lower <= 2 * b.close)
    <3>1. last.upper \in Int /\ last.lower \in Int
      BY <2>2 DEF Bands
    <3> QED
      BY <1>2, <1>3, <2>2, <2>3, <3>1
  <2>6. bands.upper \in Int /\ bands.lower \in Int /\ bands.direction \in {1, -1}
    BY <2>3 DEF Bands
  <2>7. 2 * w >= b.high - b.low => Supports(st, b)
    BY <1>2, <2>4, <2>5, <2>6 DEF Supports, Line
  <2>8. Banded(st)
    BY <2>4 DEF Banded, Bands
  <2> QED
    BY <2>7, <2>8 DEF st, b, w
<1> QED
  BY <1>1, <1>2, <1>4, <1>5

(* So of all rows. *)
LEMMA BarsSupported ==
    ASSUME NEW q, Posed(q), q.kind = "bars"
    PROVE  LET line == SupertrendRows(q.bars, q.width)
           IN  \A i \in DOMAIN line :
                   line[i].ready /\ 2 * q.width[i] >= q.bars[i].high - q.bars[i].low => Supports(line[i], q.bars[i])
<1> DEFINE bs == q.bars
           width == q.width
           N == Len(bs)
           line == SupertrendRows(bs, width)
           T == {i \in 1..N : ~Banded(line[i])}
<1>1. /\ N \in Nat /\ DOMAIN bs = 1..N
      /\ \A i \in 1..N : /\ width[i] \in Nat /\ bs[i].high \in Int /\ bs[i].low \in Int /\ bs[i].close \in Int
                         /\ bs[i].low <= bs[i].close /\ bs[i].close <= bs[i].high
  <2>1. /\ bs \in Seq([high : Int, low : Int, close : Int]) /\ width \in Seq(Nat) /\ Len(width) = N
        /\ \A i \in DOMAIN bs : bs[i].low <= bs[i].close /\ bs[i].close <= bs[i].high
    BY DEF Posed
  <2>2. N \in Nat /\ DOMAIN bs = 1..N
    BY <2>1, LenProperties
  <2>3. \A i \in 1..N : bs[i] \in [high : Int, low : Int, close : Int] /\ width[i] \in Nat
    BY <2>1, ElementOfSeq
  <2> QED
    BY <2>1, <2>2, <2>3
<1> HIDE DEF bs, width, N
<1>2. AreRows(bs, width, line, N)
  BY <1>1, SupertrendIsRows
<1>3. DOMAIN line = 1..N /\ \A i \in 1..N : line[i] = SupertrendRow(bs, width, line, i)
  <2> HIDE DEF line
  <2> QED
    BY <1>2 DEF AreRows
<1> HIDE DEF line
<1>4. T = {}
  <2> SUFFICES ASSUME T # {}
               PROVE  FALSE
    OBVIOUS
  <2>1. T \in SUBSET Nat
    BY <1>1
  <2>2. PICK n \in T : \A m \in T : n <= m
    <3> HIDE DEF T
    <3> QED
      BY <2>1, Smallest
  <2>3. n \in 1..N /\ ~Banded(line[n])
    OBVIOUS
  <2>4. n # 1 => n - 1 \in 1..N /\ Banded(line[n - 1])
    BY <1>1, <2>2, <2>3
  <2>5. Banded(SupertrendRow(bs, width, line, n))
    BY <1>1, <2>3, <2>4, RowSupports
  <2> QED
    BY <1>3, <2>3, <2>5
<1>5. ASSUME NEW i \in 1..N
      PROVE  line[i].ready /\ 2 * width[i] >= bs[i].high - bs[i].low => Supports(line[i], bs[i])
  <2>1. i # 1 => i - 1 \in 1..N /\ Banded(line[i - 1])
    BY <1>1, <1>4
  <2>2. LET st == SupertrendRow(bs, width, line, i)
        IN  st.ready /\ 2 * width[i] >= bs[i].high - bs[i].low => Supports(st, bs[i])
    BY <1>1, <2>1, RowSupports
  <2> QED
    BY <1>3, <2>2
<1> QED
  BY <1>3, <1>5 DEF line, bs, width, N

(* Only questions the callers can ask are asked. *)
LEMMA QuestionsArePosed == ResearchSpec => [](question = Replay \/ Posed(question))
<1> DEFINE P == question = Replay \/ Posed(question)
<1>1. ResearchInit => P
  BY ResearchAssumption DEF ResearchInit
<1>2. P /\ [ResearchNext]_allVars => P'
  BY DEF ResearchNext, allVars
<1> HIDE DEF P
<1>3. ResearchSpec => []P
  BY <1>1, <1>2, PTL DEF ResearchSpec
<1> QED
  BY <1>3 DEF P

(* Every strategy's stop and targets, every message that is accepted and every
   row of a Supertrend: on their sides, whatever the prices, bands and widths. *)
THEOREM LevelsInOrder == ResearchSpec => []LevelsOrdered
<1>1. question = Replay \/ Posed(question) => LevelsOrdered
  <2>1. CASE question = Replay
    <3>1. question.kind = "replay"
      BY <2>1 DEF Replay
    <3> QED
      BY <3>1 DEF LevelsOrdered, Asked
  <2>2. CASE Posed(question)
    <3>1. CASE question.kind = "view"
      BY <2>2, <3>1, ViewOrdered DEF LevelsOrdered, Asked
    <3>2. CASE question.kind = "message"
      BY <2>2, <3>2, MessageOrdered DEF LevelsOrdered, Asked
    <3>3. CASE question.kind = "bars"
      BY <2>2, <3>3, BarsSupported DEF LevelsOrdered, Asked
    <3>4. CASE question.kind \notin {"view", "message", "bars"}
      BY <3>4 DEF LevelsOrdered, Asked
    <3> QED
      BY <3>1, <3>2, <3>3, <3>4
  <2> QED
    BY <2>1, <2>2
<1> QED
  BY <1>1, QuestionsArePosed, PTL

-----------------------------------------------------------------------------
(* Three intervals that lie an embargo apart are purged: the label of row t  *)
(* reads up to row t + 1 + horizon, the next part starts at the earliest     *)
(* horizon + 2 rows after the last row of the one before                     *)
(* (ml_pipeline.py:109).                                                     *)
LEMMA EmbargoPurges ==
    ASSUME NEW horizon \in Nat, NEW a \in Nat, NEW b \in Nat, NEW c \in Nat,
           NEW d \in Nat, NEW e \in Nat, NEW f \in Nat,
           b + Embargo(horizon) <= c, d + Embargo(horizon) <= e, c <= d
    PROVE  Purged([train |-> Interval(a, b), val |-> Interval(c, d), test |-> Interval(e, f)], horizon)
<1> DEFINE split == [train |-> Interval(a, b), val |-> Interval(c, d), test |-> Interval(e, f)]
<1>1. \A t \in Interval(a, b) : LabelReads(t, horizon) \cap (Interval(c, d) \cup Interval(e, f)) = {}
  <2> SUFFICES ASSUME NEW t \in a..b - 1, NEW r \in t + 1..t + 1 + horizon
               PROVE  r \notin c..d - 1 /\ r \notin e..f - 1
    BY DEF Interval, LabelReads
  <2> QED
    BY DEF Embargo
<1>2. \A t \in Interval(c, d) : LabelReads(t, horizon) \cap Interval(e, f) = {}
  <2> SUFFICES ASSUME NEW t \in c..d - 1, NEW r \in t + 1..t + 1 + horizon
               PROVE  r \notin e..f - 1
    BY DEF Interval, LabelReads
  <2> QED
    BY DEF Embargo
<1> QED
  BY <1>1, <1>2 DEF Purged

(* The 60/20/20 split of run_single_combo, for every number of rows and     *)
(* every share given to training and validation.                            *)
THEOREM SplitPurged ==
    ASSUME NEW horizon \in Nat, NEW n \in Nat, NEW trainRows \in Nat, NEW valRows \in Nat
    PROVE  Purged(ChronologicalSplit(n, trainRows, valRows, Embargo(horizon)), horizon)
<1> DEFINE v == trainRows + Embargo(horizon)
           t == v + valRows + Embargo(horizon)
<1>1. v \in Nat /\ v + valRows \in Nat /\ t \in Nat /\ 0 \in Nat
  BY DEF Embargo
<1>2. trainRows + Embargo(horizon) <= v /\ (v + valRows) + Embargo(horizon) <= t /\ v <= v + valRows
  BY DEF Embargo
<1> HIDE DEF v, t
<1>3. Purged([train |-> Interval(0, trainRows), val |-> Interval(v, v + valRows), test |-> Interval(t, n)], horizon)
  BY <1>1, <1>2, EmbargoPurges
<1> QED
  BY <1>3 DEF ChronologicalSplit, v, t

(* Each fold of the walk-forward validation, for every size of its windows,  *)
(* every step between folds and every fold.                                  *)
THEOREM FoldsPurged ==
    ASSUME NEW horizon \in Nat, NEW k \in Nat, NEW step \in Nat,
           NEW trainRows \in Nat, NEW valRows \in Nat, NEW testRows \in Nat
    PROVE  Purged(Fold(k, trainRows, valRows, testRows, step, Embargo(horizon)), horizon)
<1> DEFINE s == k * step
           v == s + trainRows + Embargo(horizon)
           t == v + valRows + Embargo(horizon)
<1>1. s \in Nat
  OBVIOUS
<1> HIDE DEF s
<1>2. s + trainRows \in Nat /\ v \in Nat /\ v + valRows \in Nat /\ t \in Nat /\ t + testRows \in Nat
  BY <1>1 DEF Embargo
<1>3. /\ (s + trainRows) + Embargo(horizon) <= v
      /\ (v + valRows) + Embargo(horizon) <= t
      /\ v <= v + valRows
  BY <1>1 DEF Embargo
<1> HIDE DEF v, t
<1>4. Purged([train |-> Interval(s, s + trainRows), val |-> Interval(v, v + valRows),
              test |-> Interval(t, t + testRows)], horizon)
  BY <1>1, <1>2, <1>3, EmbargoPurges
<1> QED
  BY <1>4 DEF Fold, s, v, t

(* The first i of a sequence. *)
LEMMA Known ==
    ASSUME NEW S, NEW s \in Seq(S), NEW i \in 1..Len(s)
    PROVE  LET known == SubSeq(s, 1, i)
           IN  /\ known \in Seq(S) /\ Len(known) = i /\ DOMAIN known = 1..i
               /\ \A j \in 1..i : known[j] = s[j]
               /\ \A j \in 1..Len(s) : s[j] \in S
               /\ DOMAIN s = 1..Len(s) /\ Len(s) \in Nat
<1>1. DOMAIN s = 1..Len(s) /\ Len(s) \in Nat /\ \A j \in 1..Len(s) : s[j] \in S
  BY LenProperties, ElementOfSeq
<1>2. 1 \in Int /\ i \in Int /\ 1 <= i /\ \A j \in 1..i : s[j] \in S
  BY <1>1
<1> DEFINE known == SubSeq(s, 1, i)
<1>3. /\ known \in Seq(S)
      /\ Len(known) = IF 1 <= i THEN i - 1 + 1 ELSE 0
      /\ \A j \in 1..i - 1 + 1 : known[j] = s[1 + j - 1]
  BY <1>2, SubSeqProperties
<1> HIDE DEF known
<1>4. Len(known) = i /\ DOMAIN known = 1..i
  BY <1>2, <1>3, LenProperties
<1>5. \A j \in 1..i : known[j] = s[j]
  <2> TAKE j \in 1..i
  <2>1. j \in 1..i - 1 + 1 /\ 1 + j - 1 = j
    BY <1>2
  <2> QED
    BY <1>3, <2>1
<1> QED
  BY <1>1, <1>3, <1>4, <1>5 DEF known

(* Two subsequences of the same elements are the same. *)
LEMMA SameSubSeq ==
    ASSUME NEW s, NEW t, NEW m \in Int, NEW n \in Int, \A j \in m..n : t[j] = s[j]
    PROVE  SubSeq(t, m, n) = SubSeq(s, m, n)
<1> DEFINE S == {s[j] : j \in m..n}
           a == SubSeq(s, m, n)
           b == SubSeq(t, m, n)
<1>1. \A j \in m..n : s[j] \in S /\ t[j] \in S
  OBVIOUS
<1> HIDE DEF S
<1>2. /\ a \in Seq(S) /\ Len(a) = (IF m <= n THEN n - m + 1 ELSE 0)
      /\ \A i \in 1..n - m + 1 : a[i] = s[m + i - 1]
  BY <1>1, SubSeqProperties
<1>3. /\ b \in Seq(S) /\ Len(b) = (IF m <= n THEN n - m + 1 ELSE 0)
      /\ \A i \in 1..n - m + 1 : b[i] = t[m + i - 1]
  BY <1>1, SubSeqProperties
<1> HIDE DEF a, b
<1>4. ASSUME NEW i \in 1..Len(a)
      PROVE  b[i] = a[i]
  <2>1. i \in 1..n - m + 1 /\ m + i - 1 \in m..n
    BY <1>2
  <2> QED
    BY <1>2, <1>3, <2>1
<1>5. a = b
  BY <1>2, <1>3, <1>4, SeqEqual
<1> QED
  BY <1>5 DEF a, b

-----------------------------------------------------------------------------
(* What is read of the highs up to a bar. *)
LEMMA SwingKnown ==
    ASSUME NEW highs \in Seq(Int), NEW i \in 1..Len(highs), NEW j \in 1..i
    PROVE  Swing(SubSeq(highs, 1, i), 1, j) = Swing(highs, 1, j)
<1> DEFINE known == SubSeq(highs, 1, i)
<1>1. /\ Len(known) = i /\ Len(highs) \in Nat /\ i \in Nat /\ i <= Len(highs)
      /\ \A m \in 1..i : known[m] = highs[m]
  BY Known
<1> HIDE DEF known
<1>2. j \in Int /\ j <= Len(highs) /\ j <= Len(known)
  BY <1>1
<1>3. CASE j - 1 > 1
  <2>1. \A m \in j - 1 - 1..j : m \in 1..i
    BY <1>1, <1>3
  <2>2. j - 1 \in 1..i
    BY <1>1, <1>3
  <2>3. {known[m] : m \in j - 1 - 1..j} = {highs[m] : m \in j - 1 - 1..j} /\ known[j - 1] = highs[j - 1]
    BY <1>1, <2>1, <2>2
  <2> QED
    BY <1>2, <1>3, <2>3 DEF Swing, known
<1>4. CASE ~(j - 1 > 1)
  BY <1>4 DEF Swing, known
<1> QED
  BY <1>3, <1>4

(* Stamped swings, and the structure read off them. *)
LEMMA SwingsKnown ==
    ASSUME NEW highs \in Seq(Int), NEW i \in 1..Len(highs)
    PROVE  LET known == SubSeq(highs, 1, i)
           IN  /\ Stamped(highs, 1)[i] = Stamped(known, 1)[i]
               /\ Direction(Stamped(highs, 1), i) = Direction(Stamped(known, 1), i)
<1> DEFINE known == SubSeq(highs, 1, i)
           a == Stamped(highs, 1)
           b == Stamped(known, 1)
<1>1. DOMAIN known = 1..i /\ DOMAIN highs = 1..Len(highs) /\ i \in Nat /\ Len(highs) \in Nat
  BY Known
<1>2. ASSUME NEW j \in 1..i
      PROVE  a[j] = b[j]
  <2>1. j \in DOMAIN highs /\ j \in DOMAIN known
    BY <1>1
  <2>2. a[j] = Swing(highs, 1, j)
    BY <2>1 DEF Stamped
  <2>3. b[j] = Swing(known, 1, j)
    BY <2>1 DEF Stamped
  <2> QED
    BY <2>2, <2>3, SwingKnown
<1> HIDE DEF a, b, known
<1>3. a[i] = b[i]
  BY <1>1, <1>2
<1>4. SubSeq(a, 1, i) = SubSeq(b, 1, i)
  BY <1>1, <1>2, SameSubSeq
<1>5. Direction(a, i) = Direction(b, i)
  BY <1>4 DEF Direction
<1> QED
  BY <1>3, <1>5 DEF a, b, known

(* A fractal two bars back has both its sides in the bars up to now. *)
LEMMA FractalKnown ==
    ASSUME NEW highs \in Seq(Int), NEW i \in 1..Len(highs)
    PROVE  FractalRead(highs, 2, i) = FractalRead(SubSeq(highs, 1, i), 2, i)
<1> DEFINE known == SubSeq(highs, 1, i)
           here == {j \in 1..i - 2 : Fractal(highs, 2, j)}
           there == {j \in 1..i - 2 : Fractal(known, 2, j)}
<1>1. /\ Len(known) = i /\ i \in Nat /\ i <= Len(highs) /\ Len(highs) \in Nat
      /\ \A m \in 1..i : known[m] = highs[m]
  BY Known
<1> HIDE DEF known
<1>2. ASSUME NEW j \in 1..i - 2
      PROVE  Fractal(highs, 2, j) <=> Fractal(known, 2, j)
  <2>1. CASE j - 2 >= 1
    <3>1. j + 2 <= Len(highs) /\ j + 2 <= Len(known) /\ j \in 1..i
      BY <1>1
    <3>2. \A m \in 1..2 : j - m \in 1..i /\ j + m \in 1..i
      BY <1>1, <2>1
    <3>3. known[j] = highs[j] /\ \A m \in 1..2 : known[j - m] = highs[j - m] /\ known[j + m] = highs[j + m]
      BY <1>1, <3>1, <3>2
    <3> QED
      BY <3>1, <3>3 DEF Fractal
  <2>2. CASE ~(j - 2 >= 1)
    BY <2>2 DEF Fractal
  <2> QED
    BY <2>1, <2>2
<1>3. here = there
  BY <1>2
<1>4. here # {} => Max(here) \in 1..i
  <2> SUFFICES ASSUME here # {}
               PROVE  Max(here) \in 1..i
    OBVIOUS
  <2>1. here \subseteq 1..i - 2 /\ i - 2 \in Int
    BY <1>1
  <2>2. \A j \in 1..i - 2 : j \in 1..i
    BY <1>1
  <2> HIDE DEF here
  <2>3. 1 \in Int /\ here \in SUBSET (1..i - 2)
    BY <2>1
  <2>4. Max(here) \in here
    BY <2>1, <2>3, MaxOfRange
  <2> QED
    BY <2>1, <2>2, <2>4
<1> HIDE DEF here, there
<1>5. (IF here = {} THEN 0 ELSE highs[Max(here)]) = (IF there = {} THEN 0 ELSE known[Max(there)])
  BY <1>1, <1>3, <1>4
<1>6. /\ FractalRead(highs, 2, i) = IF here = {} THEN 0 ELSE highs[Max(here)]
      /\ FractalRead(known, 2, i) = IF there = {} THEN 0 ELSE known[Max(there)]
  BY DEF FractalRead, here, there
<1>7. FractalRead(highs, 2, i) = FractalRead(known, 2, i)
  BY <1>5, <1>6
<1> QED
  BY <1>7 DEF known

(* The averages at a bar read a window that ends there. *)
LEMMA AveragesKnown ==
    ASSUME NEW s \in Seq(Int), NEW i \in 1..Len(s)
    PROVE  Averages(s, i) = Averages(SubSeq(s, 1, i), i)
<1> DEFINE known == SubSeq(s, 1, i)
<1>1. i \in Nat /\ \A m \in 1..i : known[m] = s[m]
  BY Known
<1> HIDE DEF known
<1>2. ASSUME NEW n \in 1..3
      PROVE  Window(s, n, i) = Window(known, n, i)
  <2>1. CASE i < n
    BY <2>1 DEF Window
  <2>2. CASE ~(i < n)
    <3>0. n \in Int /\ n <= i
      BY <1>1, <2>2
    <3>1. i - n + 1 \in Int /\ i \in Int /\ \A j \in i - n + 1..i : j \in 1..i
      BY <1>1, <3>0
    <3>2. SubSeq(known, i - n + 1, i) = SubSeq(s, i - n + 1, i)
      <4> DEFINE m == i - n + 1
      <4>1. m \in Int /\ i \in Int /\ \A j \in m..i : known[j] = s[j]
        BY <1>1, <3>1
      <4> HIDE DEF m
      <4>2. SubSeq(known, m, i) = SubSeq(s, m, i)
        BY <4>1, SameSubSeq
      <4> QED
        BY <4>2 DEF m
    <3> QED
      BY <2>2, <3>2 DEF Window
  <2> QED
    BY <2>1, <2>2
<1>3. ASSUME NEW n \in 1..3
      PROVE  Sma(s, n, i) = Sma(known, n, i) /\ Wma(s, n, i) = Wma(known, n, i)
  BY <1>2 DEF Sma, Wma
<1>4. Max({1, 3 \div 2}) = 1
  <2>1. {1, 3 \div 2} = {1}
    OBVIOUS
  <2>2. Max({1}) = 1
    <3> DEFINE T == {1}
    <3>1. 1 \in T /\ 1 \in Int /\ \A j \in T : j \in Int /\ j <= 1
      OBVIOUS
    <3> HIDE DEF T
    <3>2. Max(T) = 1
      BY <3>1, MaxIs
    <3> QED
      BY <3>2 DEF T
  <2> QED
    BY <2>1, <2>2
<1>5. RawHma(s, 3, i) = RawHma(known, 3, i)
  <2>1. Wma(s, 1, i) = Wma(known, 1, i) /\ Wma(s, 3, i) = Wma(known, 3, i)
    BY <1>3
  <2> QED
    BY <1>4, <2>1 DEF RawHma
<1>6. Momentum(s, 3, i) = Momentum(known, 3, i)
  <2>1. ~(i <= 3) => i - 3 \in 1..i /\ i \in 1..i
    BY <1>1
  <2> QED
    BY <1>1, <2>1 DEF Momentum
<1>7. Efficiency(s, 3, i) = Efficiency(known, 3, i)
  <2>1. CASE i <= 3
    BY <2>1 DEF Efficiency
  <2>2. CASE ~(i <= 3)
    <3>1. /\ i - 3 \in 1..i /\ i \in 1..i
          /\ \A k \in 1..3 : i - 3 + k \in 1..i /\ i - 3 + k - 1 \in 1..i
      BY <1>1, <2>2
    <3>2. /\ known[i] = s[i] /\ known[i - 3] = s[i - 3]
          /\ \A k \in 1..3 : known[i - 3 + k] = s[i - 3 + k] /\ known[i - 3 + k - 1] = s[i - 3 + k - 1]
      BY <1>1, <3>1
    <3> QED
      BY <2>2, <3>2 DEF Efficiency
  <2> QED
    BY <2>1, <2>2
<1>8. Sma(s, 3, i) = Sma(known, 3, i) /\ Wma(s, 3, i) = Wma(known, 3, i)
  BY <1>3
<1>9. Averages(s, i) = Averages(known, i)
  BY <1>5, <1>6, <1>7, <1>8 DEF Averages
<1> QED
  BY <1>9 DEF known

(* What is read of the bars up to a bar: this bar, the one before, the rows before. *)
LEMMA MovementKnown ==
    ASSUME NEW q, Posed(q), q.kind = "bars", NEW i \in DOMAIN q.bars
    PROVE  Movement(q.bars, q.width, i) = Movement(SubSeq(q.bars, 1, i), q.width, i)
<1> DEFINE bs == q.bars
           N == Len(bs)
           width == q.width
           known == SubSeq(bs, 1, i)
           whole == SubSeq(width, 1, N)
           part == SubSeq(width, 1, i)
<1>1. bs \in Seq([high : Int, low : Int, close : Int]) /\ width \in Seq(Nat) /\ Len(width) = N
  BY DEF Posed
<1>2. i \in 1..N /\ N \in Nat /\ DOMAIN bs = 1..N
  BY <1>1, LenProperties
<1> HIDE DEF bs, width, N
<1>3. /\ Len(known) = i /\ DOMAIN known = 1..i /\ i \in Nat
      /\ \A j \in 1..i : known[j] = bs[j]
  <2>1. i \in 1..Len(bs)
    BY <1>2 DEF N
  <2> QED
    BY <1>1, <2>1, Known
<1>4. /\ \A j \in 1..N : whole[j] = width[j] /\ width[j] \in Nat
      /\ \A j \in 1..i : part[j] = width[j]
  <2>1. i \in 1..Len(width) /\ N \in 1..Len(width) /\ Len(width) = N
    BY <1>1, <1>2
  <2>2. /\ \A j \in 1..i : part[j] = width[j]
        /\ \A j \in 1..Len(width) : width[j] \in Nat
    BY <1>1, <2>1, Known, ZenonT(30)
  <2>3. \A j \in 1..N : whole[j] = width[j]
    BY <1>1, <2>1, Known, ZenonT(30)
  <2> HIDE DEF whole, part
  <2> QED
    BY <2>1, <2>2, <2>3
<1> HIDE DEF known, whole, part
<1>5. i # 1 => i - 1 \in 1..i
  BY <1>2
<1>6. i \in 1..i
  BY <1>2
<1>7. known[i] = bs[i] /\ (i # 1 => known[i - 1] = bs[i - 1])
  BY <1>3, <1>5, <1>6
<1>8. TrueRange(bs, i) = TrueRange(known, i)
  <2>1. CASE i = 1
    BY <1>7, <2>1 DEF TrueRange
  <2>2. CASE i # 1
    BY <1>7, <2>2 DEF TrueRange
  <2> QED
    BY <2>1, <2>2
<1>9. DirectionalMovement(bs, i) = DirectionalMovement(known, i)
  <2>1. CASE i = 1
    BY <2>1 DEF DirectionalMovement
  <2>2. CASE i # 1
    BY <1>7, <2>2 DEF DirectionalMovement
  <2> QED
    BY <2>1, <2>2
<1>10. SupertrendRows(bs, whole)[i] = SupertrendRows(known, part)[i]
  <2>1. AreRows(bs, whole, SupertrendRows(bs, whole), N)
    <3>1. \A j \in 1..N : whole[j] \in Nat
      BY <1>4
    <3> QED
      BY <1>2, <3>1, SupertrendIsRows
  <2>2. \A j \in 1..i : part[j] \in Nat /\ whole[j] \in Nat /\ part[j] = whole[j] /\ known[j] = bs[j]
    BY <1>2, <1>3, <1>4
  <2>3. AreRows(known, part, SupertrendRows(known, part), i)
    BY <1>3, <2>2, SupertrendIsRows
  <2>4. i \in 0..N
    BY <1>2
  <2> DEFINE a == SupertrendRows(bs, whole)
             b == SupertrendRows(known, part)
  <2> HIDE DEF a, b
  <2>5. \A j \in 1..i : b[j] = a[j]
    BY <1>2, <2>1, <2>2, <2>3, <2>4, RowsOfPrefix DEF a, b
  <2> QED
    BY <1>6, <2>5 DEF a, b
<1>11. /\ Movement(bs, width, i) = <<TrueRange(bs, i), DirectionalMovement(bs, i), SupertrendRows(bs, whole)[i]>>
       /\ Movement(known, width, i) =
              <<TrueRange(known, i), DirectionalMovement(known, i), SupertrendRows(known, part)[i]>>
  BY <1>3 DEF Movement, whole, part, N
<1>12. Movement(bs, width, i) = Movement(known, width, i)
  BY <1>8, <1>9, <1>10, <1>11
<1> QED
  BY <1>12 DEF bs, width, known

-----------------------------------------------------------------------------
(* What is joined to a bar by time. *)
LEMMA DayIsOver ==
    ASSUME NEW open \in Nat
    PROVE  DailyBar * (TrendOfDay(open) + 1) \in open - DailyBar - 1..open
<1> DEFINE matched == {d \in 0..open : DailyBar * d < open}
<1>1. DailyBar = 6
  BY DEF DailyBar
<1>2. TrendOfDay(open) = IF matched = {} THEN -1 ELSE Max(matched) - 1
  BY DEF TrendOfDay
<1>3. matched \in SUBSET (0..open) /\ 0 \in Int /\ open \in Int
  OBVIOUS
<1>4. CASE matched = {}
  <2>1. 0 \in 0..open /\ 0 \notin matched
    BY <1>4
  <2>2. open = 0
    BY <1>1, <2>1
  <2> QED
    BY <1>1, <1>2, <1>4, <2>2
<1>5. CASE matched # {}
  <2> DEFINE d == Max(matched)
  <2>1. d \in matched /\ \A e \in matched : e <= d
    <3> HIDE DEF matched
    <3> QED
      BY <1>3, <1>5, MaxOfRange
  <2>2. TrendOfDay(open) = d - 1
    BY <1>2, <1>5
  <2>3. d \in 0..open /\ 6 * d < open
    BY <1>1, <2>1
  <2> HIDE DEF d
  <2>4. open <= 6 * (d + 1)
    <3>1. d + 1 \in matched => d + 1 <= d
      BY <2>1
    <3>2. d + 1 \notin matched
      BY <2>3, <3>1
    <3> QED
      BY <1>1, <2>3, <3>2
  <2> QED
    BY <1>1, <2>2, <2>3, <2>4
<1> QED
  BY <1>4, <1>5

(* The reading, regime and liquidations of a bar: none is later than its opening. *)
LEMMA ReadingIsPast ==
    ASSUME NEW open \in Nat, NEW times, times \subseteq Int, IsFiniteSet(times)
    PROVE  /\ Reading(times, open) <= open
           /\ RegimeBar(times, open) <= open
           /\ \A e \in times : e > open => Bucket(e, {open}) = -1
<1> DEFINE T == {-1} \cup {e \in times : e <= open}
           U == {e \in T : e >= -1}
<1>1. U \in SUBSET (-1..open) /\ -1 \in U /\ -1 \in Int /\ open \in Int
  <2>1. ASSUME NEW e \in U
        PROVE  e \in -1..open
    <3>1. e \in Int /\ -1 <= e /\ e <= open
      OBVIOUS
    <3> QED
      BY <3>1
  <2>2. -1 \in T /\ -1 >= -1
    OBVIOUS
  <2>3. -1 \in U
    BY <2>2
  <2>4. -1 \in Int /\ open \in Int
    OBVIOUS
  <2> HIDE DEF U
  <2> QED
    BY <2>1, <2>3, <2>4
<1>2. Max(U) \in U /\ \A x \in U : x <= Max(U)
  <2> HIDE DEF U
  <2> QED
    BY <1>1, MaxOfRange
<1>3. Max(U) \in T /\ Max(U) \in Int /\ -1 <= Max(U) /\ Max(U) <= open
  <2> DEFINE k == Max(U)
  <2>1. k \in U
    BY <1>2
  <2> HIDE DEF k
  <2>2. k \in T /\ k \in Int /\ -1 <= k /\ k <= open
    BY <2>1
  <2> QED
    BY <2>2 DEF k
<1>4. Max(T) = Max(U)
  <2> DEFINE k == Max(U)
  <2>1. k \in T /\ k \in Int /\ \A x \in U : x <= k
    BY <1>2, <1>3
  <2>2. -1 <= k
    BY <1>3
  <2> HIDE DEF k, U
  <2>3. ASSUME NEW x \in T
        PROVE  x \in Int /\ x <= k
    <3>1. x \in Int
      OBVIOUS
    <3>2. x >= -1 => x <= k
      BY <2>1 DEF U
    <3> QED
      BY <2>1, <2>2, <3>1, <3>2
  <2> HIDE DEF T
  <2>4. Max(T) = k
    BY <2>1, <2>3, MaxIs
  <2> QED
    BY <2>4 DEF k
<1>5. Max(T) <= open
  BY <1>3, <1>4
<1>6. Reading(times, open) = Max(T) /\ RegimeBar(times, open) = Max(T)
  BY DEF Reading, RegimeBar
<1>7. ASSUME NEW e \in times, e > open
      PROVE  Bucket(e, {open}) = -1
  <2>1. e \in Int
    OBVIOUS
  <2>2. {o \in {open} : e <= o} = {}
    BY <1>7, <2>1
  <2> QED
    BY <2>2 DEF Bucket
<1> HIDE DEF T
<1> QED
  BY <1>5, <1>6, <1>7

-----------------------------------------------------------------------------
(* The loader's folds: the label of a training or tuning row is read before the
   test rows begin. *)
LEMMA LoaderApart ==
    ASSUME NEW horizon \in Nat, NEW k \in Nat, NEW train \in Nat, NEW n \in Nat,
           NEW fold, fold = LoaderFold(k, train, 2, 2, Embargo(horizon)),
           NEW t \in fold.train \cup fold.val
    PROVE  LoaderLabelReads(t, horizon, n) \cap fold.test = {}
<1> DEFINE s == k * 2
           tuned == s + (85 * train) \div 100
<1>1. /\ fold.train = s..tuned - 1 /\ fold.val = tuned..s + train - 1
      /\ fold.test = (s + train) + (horizon + 2)..((s + train) + (horizon + 2)) + 2 - 1
  BY DEF LoaderFold, Interval, Embargo
<1>2. s \in Nat /\ tuned \in Nat /\ tuned <= s + train
  BY SMT
<1> HIDE DEF s, tuned
<1>3. t \in Int /\ t < s + train
  BY <1>1, <1>2
<1>4. t + horizon \notin fold.test
  BY <1>1, <1>2, <1>3
<1> QED
  BY <1>4 DEF LoaderLabelReads

(* A product does not fall when a factor rises. *)
LEMMA Monotone ==
    ASSUME NEW a \in Nat, NEW b \in Nat, NEW q \in Nat, a <= b
    PROVE  a * q <= b * q /\ a * q \in Nat /\ b * q \in Nat
<1> DEFINE d == b - a
<1>1. d \in Nat /\ b = a + d
  OBVIOUS
<1> HIDE DEF d
<1>2. b * q = a * q + d * q /\ d * q >= 0 /\ a * q \in Nat /\ d * q \in Nat
  BY <1>1
<1> QED
  BY <1>2

(* Fractions of n rows: the parts follow each other. *)
LEMMA PartsFollow ==
    ASSUME NEW n \in Nat, NEW train \in Nat, NEW val \in Nat
    PROVE  LET parts == Parts(n, 10 * train, 10 * val)
           IN  /\ \A t \in parts.train \cup parts.val : \A u \in parts.test : t < u
               /\ Cardinality(parts.test) \in Nat
<1> DEFINE parts == Parts(n, 10 * train, 10 * val)
           x == n * (10 * train)
           y == n * (10 * train + 10 * val)
           a == x \div 100
           b == y \div 100
<1>1. /\ parts.train = 0..a - 1 /\ parts.val = a..b - 1 /\ parts.test = b..n - 1
  BY DEF Parts, Interval
<1>2. x \in Nat /\ y \in Nat /\ x <= y
  <2> DEFINE p == 10 * train
             r == 10 * train + 10 * val
  <2>1. p \in Nat /\ r \in Nat /\ p <= r
    OBVIOUS
  <2> HIDE DEF p, r
  <2>2. p * n <= r * n /\ p * n \in Nat /\ r * n \in Nat
    BY <2>1, Monotone
  <2>3. p * n = n * p /\ r * n = n * r
    BY <2>1
  <2>4. n * p \in Nat /\ n * r \in Nat /\ n * p <= n * r
    BY <2>2, <2>3
  <2> QED
    BY <2>4 DEF p, r
<1> HIDE DEF x, y
<1>3. a \in Int /\ b \in Int /\ a <= b
  BY <1>2
<1> HIDE DEF a, b, parts
<1>4. \A t \in parts.train \cup parts.val : \A u \in parts.test : t < u
  BY <1>1, <1>3
<1>5. Cardinality(parts.test) \in Nat
  <2>1. IsFiniteSet(b..n - 1)
    <3>1. n - 1 \in Int
      OBVIOUS
    <3> QED
      BY <1>3, <3>1, FS_Interval
  <2> QED
    BY <1>1, <2>1, FS_CardinalityType
<1> QED
  BY <1>4, <1>5 DEF parts

(* The folds of the rows out of sample are apart and leave out none. *)
LEMMA FoldsCover ==
    ASSUME NEW oos \in Nat, NEW folds \in Nat, folds > 0
    PROVE  /\ \A i \in Interval(0, oos) : \E k \in Interval(0, folds) : i \in OosFold(k, oos, folds)
           /\ \A j, k \in Interval(0, folds) : j < k => OosFold(j, oos, folds) \cap OosFold(k, oos, folds) = {}
<1> DEFINE q == oos \div folds
<1>1. q \in Nat
  OBVIOUS
<1> HIDE DEF q
<1>2. \A k : OosFold(k, oos, folds) = k * q..(IF k = folds - 1 THEN oos ELSE (k + 1) * q) - 1
  BY DEF OosFold, Interval, q
<1>3. ASSUME NEW i \in 0..oos - 1
      PROVE  \E k \in 0..folds - 1 : i \in OosFold(k, oos, folds)
  <2> DEFINE T == {k \in 0..folds - 1 : k * q <= i}
  <2>1. 0 \in T /\ T \in SUBSET (0..folds - 1) /\ 0 \in Int /\ folds - 1 \in Int
    BY <1>1
  <2> DEFINE k == Max(T)
  <2>2. k \in T /\ \A m \in T : m <= k
    <3> HIDE DEF T
    <3> QED
      BY <2>1, MaxOfRange
  <2> HIDE DEF k
  <2>3. k \in 0..folds - 1 /\ k * q <= i
    BY <2>2
  <2>4. k # folds - 1 => i < (k + 1) * q
    <3> SUFFICES ASSUME k # folds - 1
                 PROVE  i < (k + 1) * q
      OBVIOUS
    <3>1. k + 1 \in 0..folds - 1 /\ k + 1 \notin T
      BY <2>2, <2>3
    <3> DEFINE z == (k + 1) * q
    <3>2. z \in Nat /\ i \in Nat /\ ~(z <= i)
      BY <1>1, <2>3, <3>1
    <3> HIDE DEF z
    <3>3. i < z
      BY <3>2
    <3> QED
      BY <3>3 DEF z
  <2> DEFINE a == k * q
             c == (k + 1) * q
  <2>5. a \in Int /\ c \in Int /\ a <= i /\ i \in Int /\ i < oos /\ (k # folds - 1 => i < c)
    BY <1>1, <2>3, <2>4
  <2> HIDE DEF a, c
  <2>6. i \in a..(IF k = folds - 1 THEN oos ELSE c) - 1
    BY <2>5
  <2>7. i \in OosFold(k, oos, folds)
    BY <1>2, <2>6 DEF a, c
  <2> QED
    BY <2>3, <2>7
<1>4. ASSUME NEW j \in 0..folds - 1, NEW k \in 0..folds - 1, j < k
      PROVE  OosFold(j, oos, folds) \cap OosFold(k, oos, folds) = {}
  <2>1. j + 1 \in Nat /\ k \in Nat /\ j + 1 <= k /\ j # folds - 1
    BY <1>4
  <2> DEFINE a == j * q
             b == (j + 1) * q
             c == k * q
             d == IF k = folds - 1 THEN oos ELSE (k + 1) * q
  <2>2. b <= c /\ b \in Nat /\ c \in Nat
    BY <1>1, <2>1, Monotone
  <2>3. OosFold(j, oos, folds) = a..b - 1 /\ OosFold(k, oos, folds) = c..d - 1
    BY <1>2, <2>1
  <2> HIDE DEF a, b, c, d
  <2>4. (a..b - 1) \cap (c..d - 1) = {}
    BY <2>2
  <2> QED
    BY <2>3, <2>4
<1> QED
  BY <1>3, <1>4 DEF Interval

(* No label reads a row of a later part, in any of the ways rows are parted. *)
LEMMA PartedApart ==
    ASSUME NEW q, Posed(q), q.kind = "split"
    PROVE  LET e == Embargo(q.horizon)
           IN  /\ Purged(ChronologicalSplit(q.n, q.train, q.val, e), q.horizon)
               /\ \A k \in 0..2 : Purged(Fold(k, q.train, q.val, 2, 2, e), q.horizon)
               /\ \A k \in 0..2 :
                     LET fold == LoaderFold(k, q.train, 2, 2, e)
                     IN  \A t \in fold.train \cup fold.val : LoaderLabelReads(t, q.horizon, q.n) \cap fold.test = {}
               /\ LET parts == Parts(q.n, 10 * q.train, 10 * q.val)
                      oos == Cardinality(parts.test)
                      folds == q.horizon + 1
                  IN  /\ \A i \in Interval(0, oos) : \E k \in Interval(0, folds) : i \in OosFold(k, oos, folds)
                      /\ \A j, k \in Interval(0, folds) :
                             j < k => OosFold(j, oos, folds) \cap OosFold(k, oos, folds) = {}
                      /\ \A t \in parts.train \cup parts.val : \A u \in parts.test : t < u
<1>1. q.n \in Nat /\ q.train \in Nat /\ q.val \in Nat /\ q.horizon \in Nat
  BY DEF Posed
<1>2. Purged(ChronologicalSplit(q.n, q.train, q.val, Embargo(q.horizon)), q.horizon)
  BY <1>1, SplitPurged
<1>3. ASSUME NEW k \in 0..2
      PROVE  Purged(Fold(k, q.train, q.val, 2, 2, Embargo(q.horizon)), q.horizon)
  <2>1. k \in Nat /\ 2 \in Nat
    OBVIOUS
  <2> QED
    BY <1>1, <2>1, FoldsPurged
<1>4. ASSUME NEW k \in 0..2
      PROVE  LET fold == LoaderFold(k, q.train, 2, 2, Embargo(q.horizon))
             IN  \A t \in fold.train \cup fold.val : LoaderLabelReads(t, q.horizon, q.n) \cap fold.test = {}
  <2>1. k \in Nat
    OBVIOUS
  <2> QED
    BY <1>1, <2>1, LoaderApart
<1> DEFINE parts == Parts(q.n, 10 * q.train, 10 * q.val)
           oos == Cardinality(parts.test)
           folds == q.horizon + 1
<1>5. oos \in Nat /\ \A t \in parts.train \cup parts.val : \A u \in parts.test : t < u
  BY <1>1, PartsFollow
<1>6. folds \in Nat /\ folds > 0
  BY <1>1
<1> HIDE DEF oos, folds
<1>7. /\ \A i \in Interval(0, oos) : \E k \in Interval(0, folds) : i \in OosFold(k, oos, folds)
      /\ \A j, k \in Interval(0, folds) : j < k => OosFold(j, oos, folds) \cap OosFold(k, oos, folds) = {}
  BY <1>5, <1>6, FoldsCover
<1> HIDE DEF parts
<1> QED
  BY <1>2, <1>3, <1>4, <1>5, <1>7 DEF oos, folds, parts

(* What a bar is given is known by then, and no label reads what its model is
   judged on: whatever the series, widths, times and sizes of the parts. *)
THEOREM NothingIsForeseen == ResearchSpec => []NoLookahead
<1>1. question = Replay \/ Posed(question) => NoLookahead
  <2>1. CASE question = Replay
    <3>1. question.kind = "replay"
      BY <2>1 DEF Replay
    <3> QED
      BY <3>1 DEF NoLookahead, Asked
  <2>2. CASE Posed(question)
    <3>1. CASE question.kind = "highs"
      <4>1. question.highs \in Seq(Int)
        BY <2>2, <3>1 DEF Posed
      <4>2. DOMAIN question.highs = 1..Len(question.highs)
        BY <4>1, LenProperties
      <4>3. ASSUME NEW i \in DOMAIN question.highs
            PROVE  LET highs == question.highs
                       known == SubSeq(highs, 1, i)
                   IN  /\ Stamped(highs, 1)[i] = Stamped(known, 1)[i]
                       /\ Direction(Stamped(highs, 1), i) = Direction(Stamped(known, 1), i)
                       /\ FractalRead(highs, 2, i) = FractalRead(known, 2, i)
                       /\ Averages(highs, i) = Averages(known, i)
        <5>1. i \in 1..Len(question.highs)
          BY <4>2
        <5> QED
          BY <4>1, <5>1, SwingsKnown, FractalKnown, AveragesKnown
      <4> QED
        BY <3>1, <4>3 DEF NoLookahead, Asked
    <3>2. CASE question.kind = "bars"
      BY <2>2, <3>2, MovementKnown DEF NoLookahead, Asked
    <3>3. CASE question.kind = "open"
      <4>1. question.open \in Nat /\ question.times \subseteq Int /\ IsFiniteSet(question.times)
        BY <2>2, <3>3 DEF Posed
      <4> QED
        BY <3>3, <4>1, DayIsOver, ReadingIsPast DEF NoLookahead, Asked
    <3>4. CASE question.kind = "split"
      BY <2>2, <3>4, PartedApart DEF NoLookahead, Asked
    <3>5. CASE question.kind \notin {"highs", "bars", "open", "split"}
      BY <3>5 DEF NoLookahead, Asked
    <3> QED
      BY <3>1, <3>2, <3>3, <3>4, <3>5
  <2> QED
    BY <2>1, <2>2
<1> QED
  BY <1>1, QuestionsArePosed, PTL

-----------------------------------------------------------------------------
(* The least of a set of natural numbers is one of them. *)
LEMMA MinOf ==
    ASSUME NEW T \in SUBSET Nat, T # {}
    PROVE  Min(T) \in T /\ \A x \in T : Min(T) <= x
<1>1. PICK k \in T : \A x \in T : k <= x
  BY Smallest
<1>2. k \in Int /\ \A x \in T : x \in Int /\ k <= x
  BY <1>1
<1>3. Min(T) = k
  BY <1>2, MinIs
<1> QED
  BY <1>1, <1>3

(* A quantity nearer the target is no further from it. *)
LEMMA Nearer ==
    ASSUME NEW x \in Nat, NEW y \in Nat, NEW t \in Nat, (x <= y /\ y <= t) \/ (t <= y /\ y <= x)
    PROVE  Dist(y, t) <= Dist(x, t)
BY DEF Dist

(* Division with a remainder. *)
LEMMA Divided ==
    ASSUME NEW t \in Nat, NEW c \in Nat \ {0}
    PROVE  t \div c \in Nat /\ t = c * (t \div c) + (t % c) /\ t % c \in 0..c - 1
<1>1. t \div c \in Nat
  OBVIOUS
<1>2. t % c \in 0..c - 1
  OBVIOUS
<1>3. t = c * (t \div c) + (t % c)
  OBVIOUS
<1> QED
  BY <1>1, <1>2, <1>3

(* The two quantities on the grid next to the target. *)
LEMMA GridAround ==
    ASSUME NEW o, o.price \in Nat \ {0}, o.step \in Nat \ {0}, o.target \in Nat
    PROVE  \E m, u \in Nat :
               /\ m = u \/ u = m + 1
               /\ Rounded(o) = {m * o.step, u * o.step}
               /\ (m * o.step) * o.price <= o.target /\ o.target <= (u * o.step) * o.price
<1> DEFINE c == o.price * o.step
           t == o.target
           m == t \div c
           exact == t % c = 0
           u == IF exact THEN m ELSE m + 1
<1>1. c \in Nat \ {0}
  <2> DEFINE p == o.price
             s == o.step
  <2>1. p \in Nat /\ s \in Nat /\ p > 0 /\ s > 0
    OBVIOUS
  <2> HIDE DEF p, s
  <2>2. 1 * s <= p * s /\ p * s \in Nat
    BY <2>1, Monotone
  <2>3. p * s \in Nat /\ p * s > 0
    BY <2>1, <2>2
  <2> QED
    BY <2>3 DEF p, s
<1>2. \A x : (x * o.step) * o.price = x * c \/ x \notin Int
  <2> DEFINE p == o.price
             s == o.step
  <2>1. p \in Int /\ s \in Int
    OBVIOUS
  <2> HIDE DEF p, s
  <2>2. ASSUME NEW x \in Int
        PROVE  (x * s) * p = x * (p * s)
    BY <2>1
  <2> QED
    BY <2>2 DEF p, s
<1>3. Rounded(o) = {m * o.step, IF exact THEN m * o.step ELSE (m + 1) * o.step}
  BY DEF Rounded
<1> HIDE DEF c
<1>4. m \in Nat /\ t = c * m + (t % c) /\ t % c \in 0..c - 1
  <2>1. t \in Nat
    OBVIOUS
  <2> HIDE DEF t
  <2> QED
    BY <1>1, <2>1, Divided
<1>5. m * c = c * m /\ m * c \in Nat /\ (m + 1) * c = c * m + c
  BY <1>1, <1>4
<1> HIDE DEF m
<1>6. m * c <= t
  BY <1>1, <1>4, <1>5
<1>7. t <= u * c
  <2>1. CASE exact
    <3>1. t = c * m
      BY <1>1, <1>4, <1>5, <2>1
    <3> QED
      BY <1>5, <2>1, <3>1
  <2>2. CASE ~exact
    <3>1. t <= c * m + c
      BY <1>1, <1>4, <1>5
    <3> QED
      BY <1>5, <2>2, <3>1
  <2> QED
    BY <2>1, <2>2
<1>8. u \in Nat /\ (m = u \/ u = m + 1) /\ Rounded(o) = {m * o.step, u * o.step}
  BY <1>3, <1>4
<1> HIDE DEF u, t
<1>9. (m * o.step) * o.price <= t /\ t <= (u * o.step) * o.price
  BY <1>2, <1>4, <1>6, <1>7, <1>8
<1> QED
  BY <1>4, <1>8, <1>9 DEF t

(* An order: the quantity is the best of those that can be traded. *)
LEMMA OrderIsBest ==
    ASSUME NEW q, Posed(q), q.kind = "order"
    PROVE  LET o == q.order
               size == Sized(o)
               grid == {n * o.step : n \in 1..o.max}
               near == {r \in grid : Tradeable(o, r) /\ 10 * Deviation(o, r) <= o.target}
           IN  IF size > 0 THEN size \in near /\ \A r \in near : Deviation(o, size) <= Deviation(o, r)
               ELSE o.active /\ o.leverage <= o.maxLeverage =>
                       \A r \in near : r > Max(Rounded(o)) \/ r < Min(Rounded(o))
<1> DEFINE o == q.order
           p == o.price
           s == o.step
           t == o.target
           grid == {n * s : n \in 1..o.max}
           near == {r \in grid : Tradeable(o, r) /\ 10 * Deviation(o, r) <= t}
           B == {x \in Candidates(o) : \A r \in Candidates(o) : Deviation(o, x) <= Deviation(o, r)}
           best == Min(B)
<1>0. o.leverage \in Nat /\ o.maxLeverage \in Nat
  BY DEF Posed
<1>1. /\ p \in Nat /\ s \in Nat /\ t \in Nat /\ p > 0 /\ s > 0
      /\ o.min \in Nat /\ o.max \in Nat /\ o.minNotional \in Nat
  BY DEF Posed
<1>2. PICK m, u \in Nat : /\ m = u \/ u = m + 1
                          /\ Rounded(o) = {m * s, u * s}
                          /\ (m * s) * p <= t /\ t <= (u * s) * p
  BY <1>1, GridAround
<1> DEFINE F == m * s
           U == u * s
<1>3. F \in Nat /\ U \in Nat /\ F <= U
  BY <1>1, <1>2, Monotone
<1>4. Rounded(o) = {F, U} /\ F * p <= t /\ t <= U * p
  BY <1>2
<1>5. ASSUME NEW r \in grid
      PROVE  r \in Nat /\ (r <= F \/ U <= r)
  <2>1. PICK n \in 1..o.max : r = n * s
    OBVIOUS
  <2>2. n \in Nat /\ (n <= m \/ u <= n)
    BY <1>1, <1>2
  <2>3. n <= m => r <= F
    BY <1>1, <2>1, <2>2, Monotone
  <2>4. u <= n => U <= r
    BY <1>1, <2>1, <2>2, Monotone
  <2>5. r \in Nat
    BY <1>1, <2>1, <2>2
  <2> QED
    BY <2>2, <2>3, <2>4, <2>5
<1>6. \A x \in Nat : x * p \in Nat
  BY <1>1
<1>7. \A x, y \in Nat : x <= y => x * p <= y * p
  BY <1>1, Monotone
<1>8. \A x : Tradeable(o, x) <=> x > 0 /\ x \in o.min..o.max /\ x * p >= o.minNotional
  BY DEF Tradeable
<1>9. \A x : Deviation(o, x) = Dist(x * p, t)
  BY DEF Deviation
<1>10. \A x \in Nat : Deviation(o, x) \in Int
  BY <1>1, <1>6, <1>9 DEF Dist
<1>11. Candidates(o) = {x \in {F, U} : Tradeable(o, x)}
  BY <1>4 DEF Candidates
<1>12. Sized(o) = CASE ~o.active \/ o.leverage > o.maxLeverage -> 0
                    [] Candidates(o) = {} -> 0
                    [] 10 * Deviation(o, best) > o.target -> 0
                    [] OTHER -> best
  BY DEF Sized
<1> HIDE DEF o, p, s, t, F, U, grid
<1>13. Candidates(o) # {} => best \in B /\ best \in Nat
  <2> SUFFICES ASSUME Candidates(o) # {}
               PROVE  best \in B /\ best \in Nat
    OBVIOUS
  <2>1. \A x \in Candidates(o) : x \in Nat /\ Deviation(o, x) \in Int
    BY <1>3, <1>10, <1>11
  <2>2. B # {}
    <3>1. CASE F \in Candidates(o) /\ U \in Candidates(o)
      <4>1. Deviation(o, F) <= Deviation(o, U) \/ Deviation(o, U) <= Deviation(o, F)
        BY <2>1, <3>1
      <4>2. Deviation(o, F) <= Deviation(o, F) /\ Deviation(o, U) <= Deviation(o, U)
        BY <2>1, <3>1
      <4>3. \A x \in Candidates(o) : x = F \/ x = U
        BY <1>11
      <4>4. F \in B \/ U \in B
        BY <3>1, <4>1, <4>2, <4>3
      <4> QED
        BY <4>4
    <3>2. ASSUME NEW x \in Candidates(o), \A y \in Candidates(o) : y = x
          PROVE  B # {}
      <4>1. Deviation(o, x) <= Deviation(o, x)
        BY <2>1
      <4> QED
        BY <3>2, <4>1
    <3> QED
      BY <1>11, <3>1, <3>2
  <2>3. B \in SUBSET Nat
    BY <2>1
  <2> HIDE DEF B
  <2>4. best \in B
    BY <2>2, <2>3, MinOf
  <2> QED
    BY <2>3, <2>4
<1> HIDE DEF best
\* What can be traded further off makes what is nearer tradeable, if anything next to the target is.
<1>14. ASSUME Candidates(o) # {}, NEW r \in near
       PROVE  \E x \in Candidates(o) : Deviation(o, x) <= Deviation(o, r)
  <2>1. PICK x \in Candidates(o) : TRUE
    BY <1>14
  <2>2. x \in {F, U} /\ x \in o.min..o.max /\ x * p >= o.minNotional /\ x > 0
    BY <1>8, <1>11, <2>1
  <2>3. r \in o.min..o.max /\ r * p >= o.minNotional /\ r > 0 /\ r \in Nat /\ (r <= F \/ U <= r)
    BY <1>5, <1>8
  <2>4. F * p \in Nat /\ U * p \in Nat /\ r * p \in Nat
    BY <1>3, <1>6, <2>3
  <2>5. CASE r <= F
    <3>1. r * p <= F * p
      BY <1>3, <1>7, <2>3, <2>5
    <3>2. F \in o.min..o.max /\ F > 0
      BY <1>1, <1>3, <2>2, <2>3, <2>5
    <3>3. F * p >= o.minNotional
      BY <1>1, <2>3, <2>4, <3>1
    <3>4. F \in Candidates(o)
      BY <1>8, <1>11, <3>2, <3>3
    <3>5. Deviation(o, F) <= Deviation(o, r)
      BY <1>1, <1>4, <1>9, <2>4, <3>1, Nearer
    <3> QED
      BY <3>4, <3>5
  <2>6. CASE U <= r
    <3>1. U * p <= r * p
      BY <1>3, <1>7, <2>3, <2>6
    <3>2. x * p <= U * p /\ x \in Nat /\ x * p \in Nat
      BY <1>3, <1>6, <1>7, <2>2
    <3>3. U \in o.min..o.max /\ U > 0
      BY <1>1, <1>3, <2>2, <2>3, <2>6
    <3>4. U * p >= o.minNotional
      BY <1>1, <2>2, <2>4, <3>2
    <3>5. U \in Candidates(o)
      BY <1>8, <1>11, <3>3, <3>4
    <3>6. Deviation(o, U) <= Deviation(o, r)
      BY <1>1, <1>4, <1>9, <2>4, <3>1, Nearer
    <3> QED
      BY <3>5, <3>6
  <2> QED
    BY <2>3, <2>5, <2>6
<1>15. ASSUME Candidates(o) # {}, NEW r \in near
       PROVE  Deviation(o, best) <= Deviation(o, r)
  <2>1. PICK x \in Candidates(o) : Deviation(o, x) <= Deviation(o, r)
    BY <1>14, <1>15
  <2>2. best \in B /\ Deviation(o, best) <= Deviation(o, x)
    BY <1>13, <1>15, <2>1
  <2>3. best \in Nat /\ x \in Nat /\ r \in Nat
    BY <1>3, <1>5, <1>11, <1>13, <1>15, <2>1
  <2> QED
    BY <1>10, <2>1, <2>2, <2>3
<1>16. ASSUME Sized(o) > 0
       PROVE  Sized(o) \in near /\ \A r \in near : Deviation(o, Sized(o)) <= Deviation(o, r)
  <2>1. Candidates(o) # {} /\ ~(10 * Deviation(o, best) > o.target) /\ Sized(o) = best
    BY <1>12, <1>16
  <2>2. best \in Candidates(o) /\ best \in Nat
    BY <1>13, <2>1
  <2>3. best \in {F, U} /\ Tradeable(o, best)
    BY <1>11, <2>2
  <2>4. best \in grid
    <3>1. PICK n \in {m, u} : best = n * s
      BY <2>3 DEF F, U
    <3>2. n \in Nat /\ best > 0 /\ best <= o.max /\ s \in Nat /\ s > 0
      BY <1>1, <1>2, <1>8, <2>3
    <3>3. n # 0
      BY <3>1, <3>2
    <3>4. n * 1 <= n * s
      BY <3>2
    <3>5. n \in 1..o.max
      BY <1>1, <2>2, <3>1, <3>2, <3>3, <3>4
    <3> QED
      BY <3>1, <3>5 DEF grid
  <2>5. 10 * Deviation(o, best) <= t
    BY <1>1, <1>10, <2>1, <2>2 DEF t
  <2> QED
    BY <1>15, <2>1, <2>3, <2>4, <2>5
<1>17. ASSUME ~(Sized(o) > 0), o.active, o.leverage <= o.maxLeverage, NEW r \in near
       PROVE  r > Max(Rounded(o)) \/ r < Min(Rounded(o))
  <2>1. Max({F, U}) = U /\ Min({F, U}) = F
    <3>1. \A j \in {F, U} : j \in Int /\ j <= U /\ F <= j
      BY <1>3
    <3>2. F \in Int /\ U \in Int
      BY <1>3
    <3> QED
      BY <3>1, <3>2, MaxIs, MinIs
  <2>2. r \in Nat /\ (r <= F \/ U <= r) /\ Tradeable(o, r) /\ 10 * Deviation(o, r) <= t
    BY <1>5
  <2>3. r \notin {F, U}
    <3> SUFFICES ASSUME r \in {F, U}
                 PROVE  FALSE
      OBVIOUS
    <3>1. r \in Candidates(o)
      BY <1>11, <2>2
    <3>2. best \in Candidates(o) /\ best \in Nat /\ Deviation(o, best) <= Deviation(o, r)
      BY <1>13, <1>15, <3>1
    <3>3. best > 0
      BY <1>8, <1>11, <3>2
    <3>4. ~(10 * Deviation(o, best) > o.target)
      BY <1>1, <1>10, <2>2, <3>2 DEF t
    <3>5. Sized(o) = best
      <4>1. ~(o.leverage > o.maxLeverage)
        BY <1>0, <1>17
      <4> QED
        BY <1>12, <1>17, <3>1, <3>4, <4>1
    <3> QED
      BY <1>17, <3>3, <3>5
  <2> QED
    BY <1>3, <1>4, <2>1, <2>2, <2>3
<1> HIDE DEF near
<1>18. IF Sized(o) > 0 THEN Sized(o) \in near /\ \A r \in near : Deviation(o, Sized(o)) <= Deviation(o, r)
       ELSE o.active /\ o.leverage <= o.maxLeverage =>
               \A r \in near : r > Max(Rounded(o)) \/ r < Min(Rounded(o))
  BY <1>16, <1>17
<1> QED
  BY <1>18 DEF near, grid, o, s, t

(* A trade is given to one signal at most, and a further signal takes it over or
   leaves it in doubt. *)
LEMMA OneSignalMatches ==
    ASSUME NEW signals \in Seq([same : BOOLEAN, apart : Nat, off : Nat])
    PROVE  /\ Cardinality(Match(signals)) <= 1
           /\ Match(signals) \subseteq Match(Front(signals)) \cup {Len(signals)}
<1> DEFINE front == Front(signals)
           N == Len(signals)
           Elsewhere(s, n) == MatchCandidates(s) \ {n}
<1>1. N \in Nat /\ DOMAIN signals = 1..N
  OBVIOUS
<1>2. \A n \in DOMAIN signals : Confidence(signals[n]) \in Int
  <2> SUFFICES ASSUME NEW n \in DOMAIN signals
               PROVE  Confidence(signals[n]) \in Int
    OBVIOUS
  <2>1. signals[n] \in [same : BOOLEAN, apart : Nat, off : Nat]
    BY <1>1, ElementOfSeq
  <2>2. signals[n].apart \in Nat /\ signals[n].off \in Nat
    BY <2>1
  <2> QED
    BY <2>2 DEF Confidence
<1>3. Match(signals) \subseteq MatchCandidates(signals) /\ MatchCandidates(signals) \subseteq DOMAIN signals
  BY DEF Match, MatchCandidates
<1>4. Cardinality(Match(signals)) <= 1
  <2>1. ASSUME NEW n \in Match(signals), NEW m \in Match(signals)
        PROVE  n = m
    <3> SUFFICES ASSUME n # m
                 PROVE  FALSE
      OBVIOUS
    <3>1. m \in MatchCandidates(signals) \ {n} /\ n \in MatchCandidates(signals) \ {m}
      BY <1>3
    <3>2. /\ Confidence(signals[n]) - Confidence(signals[m]) >= 3
          /\ Confidence(signals[m]) - Confidence(signals[n]) >= 3
      BY <3>1 DEF Match
    <3> QED
      BY <1>2, <1>3, <3>2
  <2>2. CASE Match(signals) = {}
    BY <2>2, FS_EmptySet
  <2>3. CASE Match(signals) # {}
    <3>1. PICK n \in Match(signals) : TRUE
      BY <2>3
    <3>2. Match(signals) = {n}
      BY <2>1, <3>1
    <3>3. Cardinality({n}) = 1
      BY FS_Singleton
    <3> QED
      BY <3>2, <3>3
  <2> QED
    BY <2>2, <2>3
<1>5. CASE N = 0
  BY <1>1, <1>3, <1>4, <1>5
<1>6. CASE N > 0
  <2>1. /\ DOMAIN front = 1..N - 1
        /\ \A n \in 1..N - 1 : front[n] = signals[n]
    BY <1>1, <1>6, SubSeqProperties DEF Front
  <2> HIDE DEF front
  <2>2. \A n \in 1..N - 1 : n \in MatchCandidates(front) <=> n \in MatchCandidates(signals)
    BY <1>1, <2>1, SMTT(30) DEF MatchCandidates
  <2>3. MatchCandidates(front) \subseteq 1..N - 1
    BY <2>1 DEF MatchCandidates
  <2>4. ASSUME NEW n \in Match(signals), n # N
        PROVE  n \in Match(front)
    <3>1. n \in 1..N - 1 /\ n \in MatchCandidates(front)
      BY <1>1, <1>3, <2>2, <2>4
    <3>2. ASSUME NEW m \in MatchCandidates(front) \ {n}
          PROVE  Confidence(front[n]) - Confidence(front[m]) >= 3
      <4>1. m \in 1..N - 1 /\ m \in MatchCandidates(signals) \ {n}
        BY <2>2, <2>3
      <4>2. Confidence(signals[n]) - Confidence(signals[m]) >= 3
        BY <4>1 DEF Match
      <4> QED
        BY <2>1, <3>1, <4>1, <4>2
    <3> QED
      BY <3>1, <3>2 DEF Match
  <2> QED
    BY <1>4, <2>4 DEF front
<1> QED
  BY <1>1, <1>5, <1>6

(* Of some first ones that satisfy a condition, and can be compared, one is
   beaten by none. *)
LEMMA OneIsUnbeaten ==
    ASSUME NEW results, NEW N \in Nat, NEW E \in SUBSET (1..N), E # {},
           \A n \in E : results[n].factor \in Int /\ results[n].drawdown \in Int
    PROVE  \E n \in E : \A m \in E : ~(\/ results[m].factor > results[n].factor
                                       \/ /\ results[m].factor = results[n].factor
                                          /\ results[m].drawdown < results[n].drawdown)
<1> DEFINE Better(m, n) == \/ results[m].factor > results[n].factor
                           \/ /\ results[m].factor = results[n].factor
                              /\ results[m].drawdown < results[n].drawdown
           Best(n, k) == n \in E /\ n <= k /\ \A m \in E : m <= k => ~Better(m, n)
           Failing == {k \in 0..N : (\E n \in E : n <= k) /\ ~(\E n \in E : Best(n, k))}
<1>1. ASSUME NEW n \in E
      PROVE  ~Better(n, n)
  <2>1. results[n].factor \in Int /\ results[n].drawdown \in Int
    OBVIOUS
  <2> QED
    BY <2>1
<1>2. \A a, b, c \in E : Better(a, b) /\ ~Better(c, b) => ~Better(c, a)
  OBVIOUS
<1> HIDE DEF Better
<1>3. Failing = {}
  <2> SUFFICES ASSUME Failing # {}
               PROVE  FALSE
    OBVIOUS
  <2>1. PICK k \in Failing : \A x \in Failing : k <= x
    <3>1. Failing \in SUBSET Nat
      OBVIOUS
    <3> HIDE DEF Failing
    <3> QED
      BY <3>1, Smallest
  <2>2. k \in 0..N /\ (\E n \in E : n <= k) /\ ~(\E n \in E : Best(n, k))
    OBVIOUS
  <2>3. k > 0 /\ k - 1 \in 0..N /\ k - 1 \notin Failing
    <3>1. PICK n \in E : n <= k
      BY <2>2
    <3>2. k \in 0..N /\ n \in 1..N
      BY <2>2
    <3>3. k > 0 /\ k - 1 \in 0..N /\ ~(k <= k - 1)
      BY <3>1, <3>2
    <3> HIDE DEF Failing
    <3> QED
      BY <2>1, <3>3
  <2>4. CASE ~(\E n \in E : n <= k - 1)
    <3>1. PICK n \in E : n <= k
      BY <2>2
    <3>2. \A m \in E : m <= k => m = n
      BY <2>2, <2>4, <3>1
    <3> QED
      BY <1>1, <2>2, <3>1, <3>2
  <2>5. CASE \E n \in E : n <= k - 1
    <3>1. PICK n \in E : Best(n, k - 1)
      BY <2>3, <2>5
    <3>2. CASE k \in E /\ Better(k, n)
      <4>1. ASSUME NEW m \in E, m <= k
            PROVE  ~Better(m, k)
        <5>1. m = k \/ m <= k - 1
          BY <2>2, <4>1
        <5> QED
          BY <1>1, <1>2, <3>1, <3>2, <5>1
      <4> QED
        BY <2>2, <3>2, <4>1
    <3>3. CASE k \notin E \/ ~Better(k, n)
      <4>1. ASSUME NEW m \in E, m <= k
            PROVE  ~Better(m, n)
        <5>1. m = k \/ m <= k - 1
          BY <2>2, <4>1
        <5> QED
          BY <3>1, <3>3, <5>1
      <4>2. n <= k
        BY <2>2, <3>1
      <4> QED
        BY <2>2, <3>1, <4>1, <4>2
    <3> QED
      BY <3>2, <3>3
  <2> QED
    BY <2>4, <2>5
<1>4. PICK e \in E : TRUE
  OBVIOUS
<1>5. N \in 0..N /\ e <= N
  OBVIOUS
<1>6. \E n \in E : Best(n, N)
  BY <1>3, <1>5
<1>7. \A m \in E : m <= N
  OBVIOUS
<1>8. \E n \in E : \A m \in E : ~Better(m, n)
  BY <1>6, <1>7
<1> QED
  BY <1>8 DEF Better

(* The combination that is kept has enough trades if any has, and earns most. *)
LEMMA KeptIsBest ==
    ASSUME NEW results \in Seq([trades : Nat, factor : Int, drawdown : Int]), NEW floor \in Int,
           NEW n \in DOMAIN results, results[n].trades >= floor
    PROVE  LET kept == results[Selected(results, floor)]
           IN  kept.trades >= floor /\ kept.factor >= results[n].factor
<1> DEFINE E == {k \in DOMAIN results : results[k].trades >= floor}
           Better(m, k) == \/ results[m].factor > results[k].factor
                           \/ /\ results[m].factor = results[k].factor
                              /\ results[m].drawdown < results[k].drawdown
           B == {k \in E : \A m \in E : ~Better(m, k)}
           s == Selected(results, floor)
<1>1. Len(results) \in Nat /\ DOMAIN results = 1..Len(results)
  OBVIOUS
<1>2. n \in E /\ E \subseteq 1..Len(results)
  BY <1>1
<1>3. \A k \in E : results[k].factor \in Int /\ results[k].drawdown \in Int
  <2> SUFFICES ASSUME NEW k \in DOMAIN results
               PROVE  results[k].factor \in Int /\ results[k].drawdown \in Int
    OBVIOUS
  <2>1. results[k] \in [trades : Nat, factor : Int, drawdown : Int]
    BY <1>1, ElementOfSeq
  <2> QED
    BY <2>1
<1>4. s = Min(B)
  BY <1>2 DEF Selected
<1> HIDE DEF s
<1>5. B # {}
  <2> HIDE DEF E
  <2>1. \E k \in E : \A m \in E : ~Better(m, k)
    BY <1>1, <1>2, <1>3, OneIsUnbeaten
  <2> QED
    BY <2>1
<1>6. B \in SUBSET Nat
  BY <1>1
<1>7. s \in B
  <2> HIDE DEF B
  <2> QED
    BY <1>4, <1>5, <1>6, MinOf
<1>8. s \in E /\ ~Better(n, s)
  BY <1>2, <1>7
<1>9. results[s].factor \in Int /\ results[n].factor \in Int
  BY <1>2, <1>3, <1>8
<1>10. results[s].trades >= floor /\ results[s].factor >= results[n].factor
  BY <1>8, <1>9, SMTT(30)
<1> QED
  BY <1>10 DEF s

(* Order sizes, matched signals and selected parameters: whatever the
   instrument, however many signals and combinations there are. *)
THEOREM ChosenIsBest == ResearchSpec => []ChoicesAreBest
<1>1. question = Replay \/ Posed(question) => ChoicesAreBest
  <2>1. CASE question = Replay
    <3>1. question.kind = "replay"
      BY <2>1 DEF Replay
    <3> QED
      BY <3>1 DEF ChoicesAreBest, Asked
  <2>2. CASE Posed(question)
    <3>1. CASE question.kind = "order"
      BY <2>2, <3>1, OrderIsBest DEF ChoicesAreBest, Asked
    <3>2. CASE question.kind = "signals"
      <4>1. question.signals \in Seq([same : BOOLEAN, apart : Nat, off : Nat])
        BY <2>2, <3>2 DEF Posed
      <4> QED
        BY <3>2, <4>1, OneSignalMatches DEF ChoicesAreBest, Asked
    <3>3. CASE question.kind = "grid"
      <4>1. /\ question.results \in Seq([trades : Nat, factor : Int, drawdown : Int])
            /\ question.floor \in Int
        BY <2>2, <3>3 DEF Posed
      <4> QED
        BY <3>3, <4>1, KeptIsBest DEF ChoicesAreBest, Asked
    <3>4. CASE question.kind \notin {"order", "signals", "grid"}
      BY <3>4 DEF ChoicesAreBest, Asked
    <3> QED
      BY <3>1, <3>2, <3>3, <3>4
  <2> QED
    BY <2>1, <2>2
<1> QED
  BY <1>1, QuestionsArePosed, PTL

-----------------------------------------------------------------------------
(* A family of subsets of a finite set that has every set of which it has all
   sets that lack one element has them all. *)
LEMMA SubsetInduction ==
    ASSUME NEW D, IsFiniteSet(D), NEW G,
           \A t \in SUBSET D : (\A x \in t : t \ {x} \in G) => t \in G
    PROVE  SUBSET D \subseteq G
<1> DEFINE Sizes == {Cardinality(t) : t \in (SUBSET D) \ G}
<1> SUFFICES ASSUME (SUBSET D) \ G # {}
             PROVE  FALSE
  OBVIOUS
<1>1. \A t \in SUBSET D : IsFiniteSet(t) /\ Cardinality(t) \in Nat
  BY FS_Subset, FS_CardinalityType
<1>2. Sizes \in SUBSET Nat /\ Sizes # {}
  BY <1>1
<1>3. PICK k \in Sizes : \A m \in Sizes : k <= m
  <2> HIDE DEF Sizes
  <2> QED
    BY <1>2, Smallest
<1>4. PICK t \in (SUBSET D) \ G : k = Cardinality(t)
  OBVIOUS
<1>5. ASSUME NEW x \in t
      PROVE  t \ {x} \in G
  <2>1. t \ {x} \in SUBSET D /\ Cardinality(t \ {x}) = Cardinality(t) - 1
    BY <1>1, FS_RemoveElement
  <2>2. t \ {x} \notin G => Cardinality(t \ {x}) \in Sizes
    BY <2>1
  <2> HIDE DEF Sizes
  <2>3. Cardinality(t \ {x}) \in Sizes => Cardinality(t) <= Cardinality(t) - 1
    BY <1>3, <1>4, <2>1
  <2>4. Cardinality(t) \in Nat
    BY <1>1
  <2> QED
    BY <2>2, <2>3, <2>4
<1> QED
  BY <1>4, <1>5

(* The folds of the community modules, for a sum of the values of g over a set:
   one element of it is taken at a time. *)
Taken(t) == CHOOSE x \in t : TRUE

Unfolded(g, h, t) == IF t = {} THEN 0 ELSE g[Taken(t)] + h[t \ {Taken(t)}]

IsFold(g, D, h) == h = [t \in SUBSET D |-> Unfolded(g, h, t)]

(* The fold at one set. *)
LEMMA FoldAt ==
    ASSUME NEW g, NEW D, NEW h, IsFold(g, D, h), NEW t \in SUBSET D
    PROVE  h[t] = Unfolded(g, h, t)
<1> DEFINE f == [u \in SUBSET D |-> Unfolded(g, h, u)]
<1>1. f[t] = Unfolded(g, h, t)
  OBVIOUS
<1>2. h = f
  BY Zenon DEF IsFold
<1> HIDE DEF f
<1> QED
  BY <1>1, <1>2

(* A fold exists over every finite set. *)
LEMMA FoldExists ==
    ASSUME NEW g, NEW D, IsFiniteSet(D)
    PROVE  \E h : IsFold(g, D, h)
<1> DEFINE N == Cardinality(D)
           Upto(n) == {t \in SUBSET D : Cardinality(t) <= n}
           Folds(n, h) == h = [t \in Upto(n) |-> Unfolded(g, h, t)]
           T == {n \in 0..N : ~\E h : Folds(n, h)}
<1>1. \A t \in SUBSET D : IsFiniteSet(t) /\ Cardinality(t) \in 0..N
  BY FS_Subset, FS_CardinalityType
<1>2. N \in Nat
  BY FS_CardinalityType
<1>3. T = {}
  <2> SUFFICES ASSUME T # {}
               PROVE  FALSE
    OBVIOUS
  <2>1. PICK n \in T : \A m \in T : n <= m
    <3>1. T \in SUBSET Nat
      BY <1>2
    <3> HIDE DEF T
    <3> QED
      BY <3>1, Smallest
  <2>2. n \in 0..N /\ ~\E h : Folds(n, h)
    OBVIOUS
  <2>3. CASE n = 0
    <3>1. \A t \in Upto(n) : t = {}
      <4> SUFFICES ASSUME NEW t \in Upto(n)
                   PROVE  t = {}
        OBVIOUS
      <4>1. IsFiniteSet(t) /\ Cardinality(t) = 0
        BY <1>1, <2>3
      <4> QED
        BY <4>1, FS_EmptySet
    <3> DEFINE h == [t \in Upto(n) |-> 0]
    <3>2. \A t \in Upto(n) : Unfolded(g, h, t) = 0
      BY <3>1 DEF Unfolded
    <3>3. Folds(n, h)
      BY <3>2
    <3> QED
      BY <2>2, <3>3
  <2>4. CASE n # 0
    <3>1. n - 1 \in 0..N /\ ~(n <= n - 1) /\ n \in Nat
      BY <1>2, <2>2, <2>4
    <3>2. n - 1 \notin T
      <4> HIDE DEF T
      <4> QED
        BY <2>1, <3>1
    <3>3. PICK f : Folds(n - 1, f)
      BY <3>1, <3>2
    <3> DEFINE h == [t \in Upto(n) |-> Unfolded(g, f, t)]
    <3>4. Upto(n - 1) \subseteq Upto(n)
      BY <1>1, <3>1
    <3>5. \A t \in Upto(n - 1) : f[t] = Unfolded(g, f, t)
      <4> DEFINE e == [t \in Upto(n - 1) |-> Unfolded(g, f, t)]
      <4>1. \A t \in Upto(n - 1) : e[t] = Unfolded(g, f, t)
        OBVIOUS
      <4>2. f = e
        BY <3>3
      <4> HIDE DEF e
      <4> QED
        BY <4>1, <4>2
    <3>6. \A t \in Upto(n) : h[t] = Unfolded(g, f, t)
      OBVIOUS
    <3>7. \A t \in Upto(n - 1) : h[t] = f[t]
      <4> HIDE DEF h
      <4> QED
        BY <3>4, <3>5, <3>6
    <3>8. \A t \in Upto(n) : t # {} => t \ {Taken(t)} \in Upto(n - 1)
      <4> SUFFICES ASSUME NEW t \in Upto(n), t # {}
                   PROVE  t \ {Taken(t)} \in Upto(n - 1)
        OBVIOUS
      <4>1. Taken(t) \in t /\ t \in SUBSET D
        BY DEF Taken
      <4>2. Cardinality(t \ {Taken(t)}) = Cardinality(t) - 1
        BY <1>1, <4>1, FS_RemoveElement
      <4>3. Cardinality(t) \in Int /\ Cardinality(t) <= n
        BY <1>1
      <4>4. Cardinality(t) - 1 <= n - 1
        BY <3>1, <4>3
      <4> QED
        BY <4>1, <4>2, <4>4
    <3>9. DOMAIN h = Upto(n)
      OBVIOUS
    <3> HIDE DEF h
    <3>10. \A t \in Upto(n) : Unfolded(g, h, t) = h[t]
      BY <3>6, <3>7, <3>8 DEF Unfolded
    <3> HIDE DEF Upto
    <3>11. Folds(n, [t \in Upto(n) |-> h[t]])
      <4> DEFINE e == [t \in Upto(n) |-> h[t]]
      <4>1. e = h
        BY <3>6, <3>9 DEF h
      <4>2. e = [t \in Upto(n) |-> Unfolded(g, h, t)]
        BY <3>10
      <4> QED
        BY <4>1, <4>2
    <3> QED
      BY <2>2, <3>11
  <2> QED
    BY <2>3, <2>4
<1>4. N \in 0..N /\ N \notin T
  <2> HIDE DEF T, N
  <2> QED
    BY <1>2, <1>3
<1>5. PICK h : Folds(N, h)
  BY <1>4
<1>6. Upto(N) = SUBSET D
  BY <1>1
<1>7. IsFold(g, D, h)
  <2> HIDE DEF Upto, N
  <2> QED
    BY <1>5, <1>6 DEF IsFold
<1> QED
  BY <1>7

(* A fold is a sum: it does not matter which element is taken first. *)
LEMMA FoldSums ==
    ASSUME NEW D, IsFiniteSet(D), NEW g, \A x \in D : g[x] \in Int,
           NEW h, IsFold(g, D, h)
    PROVE  \A t \in SUBSET D : h[t] \in Int /\ \A x \in t : h[t] = g[x] + h[t \ {x}]
<1> DEFINE Sums(t) == h[t] \in Int /\ \A x \in t : h[t] = g[x] + h[t \ {x}]
           G == {t \in SUBSET D : \A u \in SUBSET t : Sums(u)}
<1>1. ASSUME NEW t \in SUBSET D, \A x \in t : t \ {x} \in G
      PROVE  t \in G
  <2>1. \A x \in t : \A u \in SUBSET (t \ {x}) : Sums(u)
    BY <1>1
  <2>2. Sums(t)
    <3>1. CASE t = {}
      <4>1. h[t] = 0
        BY <3>1, FoldAt DEF Unfolded
      <4> QED
        BY <3>1, <4>1
    <3>2. CASE t # {}
      <4> DEFINE p == Taken(t)
      <4>1. p \in t
        BY <3>2 DEF Taken
      <4>2. h[t] = g[p] + h[t \ {p}]
        <5>1. h[t] = Unfolded(g, h, t)
          BY FoldAt
        <5> QED
          BY <3>2, <5>1 DEF Unfolded
      <4> HIDE DEF p
      <4>3. g[p] \in Int /\ h[t \ {p}] \in Int
        BY <2>1, <4>1
      <4>4. ASSUME NEW x \in t, x # p
            PROVE  h[t] = g[x] + h[t \ {x}]
        <5> DEFINE r == (t \ {x}) \ {p}
        <5>1. r = (t \ {p}) \ {x} /\ x \in t \ {p} /\ p \in t \ {x}
          BY <4>1, <4>4
        <5>2. Sums(t \ {p}) /\ Sums(t \ {x}) /\ Sums(r)
          BY <2>1, <4>1
        <5>3. h[t \ {p}] = g[x] + h[r] /\ h[t \ {x}] = g[p] + h[r]
          BY <5>1, <5>2
        <5>4. h[r] \in Int /\ g[x] \in Int
          BY <5>2
        <5> HIDE DEF r, Sums
        <5> QED
          BY <4>2, <4>3, <5>3, <5>4
      <4>5. h[t] \in Int
        BY <4>2, <4>3
      <4> QED
        BY <4>2, <4>4, <4>5
    <3> QED
      BY <3>1, <3>2
  <2>3. ASSUME NEW u \in SUBSET t
        PROVE  Sums(u)
    <3>1. CASE u = t
      BY <2>2, <3>1
    <3>2. CASE u # t
      <4>1. PICK x \in t : u \in SUBSET (t \ {x})
        BY <3>2
      <4> QED
        BY <2>1, <4>1
    <3> QED
      BY <3>1, <3>2
  <2> HIDE DEF Sums
  <2> QED
    BY <2>3
<1>2. SUBSET D \subseteq G
  <2> HIDE DEF G
  <2> QED
    BY <1>1, SubsetInduction
<1> QED
  BY <1>2

(* A finite set of numbers lies between two of them. *)
LEMMA FiniteIsBounded ==
    ASSUME NEW D, IsFiniteSet(D), D \subseteq Int
    PROVE  \E a, b \in Int : D \subseteq a..b
<1> DEFINE G == {t \in SUBSET D : \E a, b \in Int : t \subseteq a..b}
<1>1. ASSUME NEW t \in SUBSET D, \A x \in t : t \ {x} \in G
      PROVE  t \in G
  <2>1. CASE t = {}
    <3>1. t \subseteq 0..0
      BY <2>1
    <3> QED
      BY <3>1
  <2>2. CASE t # {}
    <3>1. PICK x \in t : TRUE
      BY <2>2
    <3>2. PICK a, b \in Int : t \ {x} \subseteq a..b
      BY <1>1, <3>1
    <3> DEFINE c == IF x < a THEN x ELSE a
               d == IF b < x THEN x ELSE b
    <3>3. x \in Int /\ c \in Int /\ d \in Int
      BY <3>1
    <3>4. x \in c..d /\ a..b \subseteq c..d
      BY <3>3
    <3>5. t \subseteq c..d
      BY <3>2, <3>4
    <3> HIDE DEF c, d
    <3> QED
      BY <3>3, <3>5
  <2> QED
    BY <2>1, <2>2
<1>2. SUBSET D \subseteq G
  <2> HIDE DEF G
  <2> QED
    BY <1>1, SubsetInduction
<1> QED
  BY <1>2

(* And has a least element. *)
LEMMA MinOfRange ==
    ASSUME NEW a \in Int, NEW b \in Int, NEW T \in SUBSET (a..b), T # {}
    PROVE  Min(T) \in T /\ \A x \in T : Min(T) <= x
<1> DEFINE D == {x - a : x \in T}
<1>0. \A x \in T : x \in Int /\ a <= x /\ x <= b
  OBVIOUS
<1>1. D \in SUBSET Nat /\ D # {}
  <2>1. ASSUME NEW x \in T
        PROVE  x - a \in Nat
    BY <1>0
  <2> QED
    BY <2>1
<1>2. PICK d \in D : \A y \in D : d <= y
  <2> HIDE DEF D
  <2> QED
    BY <1>1, Smallest
<1>3. PICK k \in T : d = k - a
  OBVIOUS
<1>4. ASSUME NEW x \in T
      PROVE  k <= x
  <2>1. x - a \in D
    OBVIOUS
  <2>2. d <= x - a
    BY <1>2, <2>1
  <2>3. x \in Int /\ k \in Int
    OBVIOUS
  <2> QED
    BY <1>3, <2>2, <2>3
<1>5. Min(T) = k
  BY <1>0, <1>4, MinIs
<1> QED
  BY <1>4, <1>5

(* What check_gaps counts is a fold over the candles before a gap. *)
LEMMA MissingIsFold ==
    ASSUME NEW ts, IsFiniteSet(Gaps(ts))
    PROVE  \E h : /\ IsFold([t \in Gaps(ts) |-> GapAfter(ts, t)], Gaps(ts), h)
                  /\ MissingCount(ts) = h[Gaps(ts)]
<1> DEFINE D == Gaps(ts)
           g == [t \in D |-> GapAfter(ts, t)]
           Row(h, s) == IF s = {} THEN 0
                        ELSE GapAfter(ts, CHOOSE x \in s : TRUE) + h[s \ {CHOOSE x \in s : TRUE}]
           Counts(h) == h = [s \in SUBSET D |-> Row(h, s)]
           m == CHOOSE h : Counts(h)
<1>1. MissingCount(ts) = m[D]
  BY DEF MissingCount, FoldSet, MapThenFoldSet
<1>2. ASSUME NEW h, NEW s \in SUBSET D
      PROVE  Row(h, s) = Unfolded(g, h, s)
  <2>1. s # {} => Taken(s) \in D
    BY DEF Taken
  <2>2. s # {} => g[Taken(s)] = GapAfter(ts, Taken(s))
    BY <2>1
  <2> HIDE DEF g, D
  <2> QED
    BY <2>2 DEF Unfolded, Taken
<1> HIDE DEF g, D, Row
<1>3. \A h : [s \in SUBSET D |-> Row(h, s)] = [s \in SUBSET D |-> Unfolded(g, h, s)]
  BY <1>2
<1>4. \A h : Counts(h) <=> IsFold(g, D, h)
  BY <1>3 DEF IsFold
<1>5. \E h : Counts(h)
  <2>1. \E h : IsFold(g, D, h)
    BY FoldExists DEF D
  <2> QED
    BY <1>4, <2>1
<1> HIDE DEF Counts
<1>6. Counts(m)
  BY <1>5
<1> HIDE DEF m
<1>7. IsFold(g, D, m)
  BY <1>4, <1>6
<1> QED
  BY <1>1, <1>7 DEF g, D

(* What a series lacks between its ends and what it has are all there is, but
   nothing is expected of a single candle. *)
LEMMA GapsCounted ==
    ASSUME NEW ts \in Seq(Int), ts # <<>>
    PROVE  /\ MissingCount(ts) \in Nat /\ Cardinality(Times(ts)) \in Nat
           /\ IF Cardinality(Times(ts)) > 1
              THEN ExpectedCount(ts) > 0 /\ MissingCount(ts) + Cardinality(Times(ts)) = ExpectedCount(ts)
              ELSE ExpectedCount(ts) = 0
<1> DEFINE S == Times(ts)
           lo == Min(S)
           hi == Max(S)
           After(t) == Min({u \in S : u > t})
           D == Gaps(ts)
           g == [t \in D |-> GapAfter(ts, t)]
           Holes(T) == {u \in lo..hi : \E t \in T : t < u /\ u < After(t)}
<1>1. IsFiniteSet(S) /\ S \subseteq Int /\ S # {}
  <2> DEFINE N == 1..Len(ts)
  <2>1. ts \in Surjection(N, S)
    BY DEF Times, Surjection
  <2>2. IsFiniteSet(N)
    BY FS_Interval
  <2>3. IsFiniteSet(S)
    <3> HIDE DEF N, S
    <3> QED
      BY <2>1, <2>2, FS_Surjection
  <2>4. S \subseteq Int
    BY ElementOfSeq DEF Times
  <2>5. ts[1] \in S
    BY EmptySeq DEF Times
  <2> QED
    BY <2>3, <2>4, <2>5
<1>2. /\ lo \in S /\ hi \in S /\ lo \in Int /\ hi \in Int
      /\ \A u \in S : lo <= u /\ u <= hi
  <2>1. PICK a, b \in Int : S \subseteq a..b
    BY <1>1, FiniteIsBounded
  <2> HIDE DEF S
  <2>2. lo \in S /\ \A u \in S : lo <= u
    BY <1>1, <2>1, MinOfRange
  <2>3. hi \in S /\ \A u \in S : u <= hi
    BY <1>1, <2>1, MaxOfRange
  <2> QED
    BY <1>1, <2>2, <2>3
<1>3. ExpectedCount(ts) = IF hi <= lo THEN 0 ELSE hi - lo + 1
  BY DEF ExpectedCount
<1>4. \A t : GapAfter(ts, t) = After(t) - t - 1
  BY DEF GapAfter
<1>5. D = {t \in S \ {hi} : GapAfter(ts, t) > 0}
  BY DEF Gaps
<1> HIDE DEF S, lo, hi
<1>6. ASSUME NEW t \in S, t # hi
      PROVE  After(t) \in S /\ t < After(t) /\ \A u \in S : u > t => After(t) <= u
  <2> DEFINE Later == {u \in S : u > t}
  <2>1. hi \in Later
    BY <1>1, <1>2, <1>6
  <2>2. Later \subseteq lo..hi
    <3>1. S \subseteq lo..hi
      BY <1>1, <1>2
    <3> QED
      BY <3>1
  <2>3. \A u : u \in Later <=> u \in S /\ u > t
    OBVIOUS
  <2> HIDE DEF Later
  <2>4. Min(Later) \in Later /\ \A u \in Later : Min(Later) <= u
    BY <1>2, <2>1, <2>2, MinOfRange
  <2>5. t \in Int /\ Min(Later) \in Int
    BY <1>1, <2>3, <2>4
  <2>6. Min(Later) \in S /\ t < Min(Later) /\ \A u \in S : u > t => Min(Later) <= u
    BY <2>3, <2>4, <2>5
  <2> QED
    BY <2>6 DEF Later
<1> HIDE DEF After
<1>7. \A t \in D : t \in S /\ t # hi /\ t \in Int /\ After(t) \in Int
  BY <1>1, <1>5, <1>6
<1>8. IsFiniteSet(D)
  <2>1. D \subseteq S
    BY <1>5
  <2> HIDE DEF D
  <2> QED
    BY <1>1, <2>1, FS_Subset
<1>9. PICK h : IsFold(g, D, h) /\ MissingCount(ts) = h[D]
  BY <1>8, MissingIsFold
<1>10. \A t \in D : g[t] = After(t) - t - 1 /\ g[t] \in Int
  BY <1>4, <1>7
<1> HIDE DEF D, g
<1>11. \A T : IsFiniteSet(Holes(T))
  <2> SUFFICES ASSUME NEW T
               PROVE  IsFiniteSet(Holes(T))
    OBVIOUS
  <2>1. IsFiniteSet(lo..hi) /\ Holes(T) \subseteq lo..hi
    BY <1>2, FS_Interval
  <2> HIDE DEF Holes
  <2> QED
    BY <2>1, FS_Subset
<1> DEFINE G == {T \in SUBSET D : h[T] = Cardinality(Holes(T))}
<1>12. ASSUME NEW T \in SUBSET D, \A x \in T : T \ {x} \in G
       PROVE  T \in G
  <2>1. CASE T = {}
    <3>1. h[T] = 0
      <4>1. h[T] = Unfolded(g, h, T)
        BY <1>9, FoldAt
      <4> QED
        BY <2>1, <4>1 DEF Unfolded
    <3>2. Holes(T) = {}
      BY <2>1
    <3>3. Cardinality(Holes(T)) = 0
      BY <3>2, FS_EmptySet
    <3> QED
      BY <3>1, <3>3
  <2>2. CASE T # {}
    <3> DEFINE p == Taken(T)
               Rest == T \ {p}
               Hole == p + 1..After(p) - 1
    <3>1. p \in T
      BY <2>2 DEF Taken
    <3>2. h[T] = g[p] + h[Rest]
      <4>1. h[T] = Unfolded(g, h, T)
        BY <1>9, FoldAt
      <4> QED
        BY <2>2, <4>1 DEF Unfolded
    <3> HIDE DEF p
    <3>3. h[Rest] = Cardinality(Holes(Rest))
      BY <1>12, <3>1
    <3>4. p \in D /\ p \in S /\ p # hi /\ p \in Int /\ After(p) \in Int /\ After(p) \in S
      BY <1>6, <1>7, <3>1
    <3>5. p < After(p) /\ lo <= p /\ After(p) <= hi
      <4>1. p < After(p)
        BY <1>6, <3>4
      <4>2. lo <= p /\ After(p) <= hi
        BY <1>2, <3>4
      <4> QED
        BY <4>1, <4>2
    <3>6. IsFiniteSet(Hole) /\ Cardinality(Hole) = After(p) - p - 1
      <4> DEFINE n == After(p)
                 a == p + 1
                 b == n - 1
      <4>1. n \in Int /\ a \in Int /\ b \in Int
        BY <3>4
      <4>2. (IF a > b THEN 0 ELSE b - a + 1) = n - p - 1
        <5>1. p \in Int /\ p < n
          BY <3>4, <3>5
        <5> HIDE DEF n
        <5> QED
          BY <4>1, <5>1
      <4>3. IsFiniteSet(a..b) /\ Cardinality(a..b) = IF a > b THEN 0 ELSE b - a + 1
        <5> HIDE DEF a, b
        <5> QED
          BY <4>1, FS_Interval
      <4> QED
        BY <4>2, <4>3
    <3>7. Holes(T) = Holes(Rest) \cup Hole
      <4>1. ASSUME NEW u \in Holes(T)
            PROVE  u \in Holes(Rest) \cup Hole
        <5>1. PICK t \in T : t < u /\ u < After(t)
          OBVIOUS
        <5>2. CASE t = p
          <6>1. u \in Hole
            BY <1>2, <3>4, <5>1, <5>2
          <6> QED
            BY <6>1
        <5>3. CASE t # p
          BY <5>1, <5>3
        <5> QED
          BY <5>2, <5>3
      <4>2. ASSUME NEW u \in Hole
            PROVE  u \in Holes(T)
        <5>1. u \in lo..hi /\ p < u /\ u < After(p)
          BY <1>2, <3>4, <3>5
        <5> QED
          BY <3>1, <5>1
      <4>3. Holes(Rest) \subseteq Holes(T)
        OBVIOUS
      <4> HIDE DEF Holes, Hole
      <4> QED
        BY <4>1, <4>2, <4>3
    <3>8. Holes(Rest) \cap Hole = {}
      <4> SUFFICES ASSUME NEW u \in Holes(Rest), u \in Hole
                   PROVE  FALSE
        OBVIOUS
      <4>1. PICK t \in Rest : t < u /\ u < After(t)
        OBVIOUS
      <4>2. p < u /\ u < After(p) /\ u \in Int
        BY <3>4
      <4>3. t # p /\ t \in S /\ t # hi /\ t \in Int /\ After(t) \in Int
        BY <1>7, <4>1
      <4>4. CASE t < p
        <5>1. After(t) <= p
          BY <1>6, <3>4, <4>3, <4>4
        <5> QED
          BY <3>4, <4>1, <4>2, <4>3, <5>1
      <4>5. CASE p < t
        <5>1. After(p) <= t
          BY <1>6, <3>4, <4>3, <4>5
        <5> QED
          BY <3>4, <4>1, <4>2, <4>3, <5>1
      <4> QED
        BY <3>4, <4>3, <4>4, <4>5
    <3> HIDE DEF Holes, Hole
    <3>9. Cardinality(Holes(T)) = Cardinality(Holes(Rest)) + Cardinality(Hole) - Cardinality({})
      BY <1>11, <3>6, <3>7, <3>8, FS_Union
    <3>10. Cardinality({}) = 0 /\ Cardinality(Holes(Rest)) \in Nat
      BY <1>11, FS_EmptySet, FS_CardinalityType
    <3>11. h[T] = Cardinality(Holes(T))
      <4> DEFINE c == Cardinality(Holes(Rest))
                 k == After(p) - p - 1
      <4>1. k \in Int /\ c \in Int
        BY <3>4, <3>10
      <4>2. h[T] = k + c
        BY <1>10, <3>2, <3>3, <3>4
      <4>3. Cardinality(Holes(T)) = c + k
        <5> HIDE DEF c, k
        <5>1. Cardinality(Holes(T)) = c + k - 0
          BY <3>6, <3>9, <3>10 DEF c, k
        <5> QED
          BY <4>1, <5>1
      <4> HIDE DEF c, k
      <4> QED
        BY <4>1, <4>2, <4>3
    <3> QED
      BY <3>11
  <2> QED
    BY <2>1, <2>2
<1>13. h[D] = Cardinality(Holes(D))
  <2> HIDE DEF Holes
  <2>1. SUBSET D \subseteq G
    <3> HIDE DEF G
    <3> QED
      BY <1>8, <1>12, SubsetInduction
  <2>2. D \in SUBSET D
    OBVIOUS
  <2> QED
    BY <2>1, <2>2
<1>14. Holes(D) \cap S = {}
  <2> SUFFICES ASSUME NEW u \in S, u \in Holes(D)
               PROVE  FALSE
    OBVIOUS
  <2>1. PICK t \in D : t < u /\ u < After(t)
    OBVIOUS
  <2>2. t \in S /\ t # hi /\ t \in Int /\ After(t) \in Int /\ u \in Int
    BY <1>1, <1>7
  <2>3. After(t) <= u
    BY <1>6, <2>1, <2>2
  <2> QED
    BY <2>1, <2>2, <2>3
<1>15. Holes(D) \cup S = lo..hi
  <2>1. ASSUME NEW u \in lo..hi, u \notin S
        PROVE  u \in Holes(D)
    <3> DEFINE Before == {x \in S : x < u}
    <3>1. lo \in Before /\ Before \in SUBSET (lo..hi)
      <4>1. lo \in S /\ lo < u
        BY <1>2, <2>1
      <4>2. S \subseteq lo..hi
        BY <1>1, <1>2
      <4> QED
        BY <4>1, <4>2
    <3>2. Max(Before) \in Before /\ \A x \in Before : x <= Max(Before)
      <4> HIDE DEF Before
      <4> QED
        BY <1>2, <3>1, MaxOfRange
    <3> DEFINE t == Max(Before)
    <3>3. t \in S /\ t < u /\ \A x \in S : x < u => x <= t
      BY <3>2
    <3> HIDE DEF t, Before
    <3>4. t \in Int /\ u \in Int /\ t # hi
      BY <1>1, <1>2, <2>1, <3>3
    <3>5. After(t) \in S /\ t < After(t)
      BY <1>6, <3>3, <3>4
    <3>6. After(t) \in Int /\ ~(After(t) < u) /\ After(t) # u
      <4>1. After(t) \in Int
        BY <1>1, <3>5
      <4>2. After(t) < u => After(t) <= t
        BY <3>3, <3>5
      <4>3. After(t) # u
        BY <2>1, <3>5
      <4> QED
        BY <3>4, <3>5, <4>1, <4>2, <4>3
    <3>7. u < After(t)
      BY <3>4, <3>6
    <3>8. GapAfter(ts, t) > 0
      BY <1>4, <3>3, <3>4, <3>6, <3>7
    <3>9. t \in D
      BY <1>5, <3>3, <3>4, <3>8
    <3> QED
      BY <3>3, <3>7, <3>9
  <2>2. S \subseteq lo..hi /\ Holes(D) \subseteq lo..hi
    BY <1>1, <1>2
  <2> HIDE DEF Holes
  <2> QED
    BY <2>1, <2>2
<1> HIDE DEF Holes
<1>16. Cardinality(lo..hi) = hi - lo + 1
  BY <1>2, FS_Interval
<1>17. Cardinality(lo..hi) = Cardinality(Holes(D)) + Cardinality(S) - Cardinality({})
  BY <1>1, <1>11, <1>14, <1>15, FS_Union
<1>18. Cardinality({}) = 0 /\ Cardinality(Holes(D)) \in Nat /\ Cardinality(S) \in Nat
  BY <1>1, <1>11, FS_EmptySet, FS_CardinalityType
<1>19. Cardinality(Holes(D)) + Cardinality(S) = hi - lo + 1
  <2>1. Cardinality(Holes(D)) + Cardinality(S) - 0 = hi - lo + 1
    BY <1>16, <1>17, <1>18
  <2> QED
    BY <1>2, <1>18, <2>1
<1> DEFINE c == Cardinality(S)
           m == Cardinality(Holes(D))
<1>20. m \in Nat /\ c \in Nat /\ m + c = hi - lo + 1
  BY <1>18, <1>19
<1>21. c <= 1 => hi <= lo
  <2>1. CASE c = 0
    BY <1>1, <2>1, FS_EmptySet
  <2>2. CASE c = 1
    <3>1. PICK x : S = {x}
      BY <1>1, <2>2, FS_Singleton
    <3> QED
      BY <1>2, <3>1
  <2> QED
    BY <1>20, <2>1, <2>2
<1>22. MissingCount(ts) = m
  BY <1>9, <1>13
<1> HIDE DEF c, m
<1>23. IF c > 1 THEN ExpectedCount(ts) > 0 /\ m + c = ExpectedCount(ts) ELSE ExpectedCount(ts) = 0
  BY <1>2, <1>3, <1>20, <1>21
<1> QED
  BY <1>20, <1>22, <1>23 DEF c, S

(* Looking up the symbol of a row that no later one hides gives that row. *)
LEMMA LastIsFound ==
    ASSUME NEW S, NEW ps \in Seq(S), NEW n \in DOMAIN ps, ~Hidden(ps, n)
    PROVE  BySymbol(ps, ps[n].symbol) = ps[n]
<1> DEFINE Same == {i \in DOMAIN ps : ps[i].symbol = ps[n].symbol}
<1>1. n \in Same /\ n \in Int
  OBVIOUS
<1>2. \A j \in Same : j \in Int /\ j <= n
  BY DEF Hidden
<1> HIDE DEF Same
<1>3. Max(Same) = n
  BY <1>1, <1>2, MaxIs
<1> QED
  BY <1>3 DEF BySymbol, Same

(* Looking up a symbol that occurs gives one of its rows. *)
LEMMA SomeIsFound ==
    ASSUME NEW S, NEW ps \in Seq(S), NEW x \in Symbols(ps)
    PROVE  \E k \in DOMAIN ps : ps[k].symbol = x /\ BySymbol(ps, x) = ps[k]
<1> DEFINE Same == {i \in DOMAIN ps : ps[i].symbol = x}
           l == Len(ps)
<1>1. Same # {} /\ Same \in SUBSET (1..l) /\ l \in Int /\ 1 \in Int
  BY DEF Symbols
<1>2. \A k \in Same : k \in DOMAIN ps /\ ps[k].symbol = x
  OBVIOUS
<1>3. BySymbol(ps, x) = ps[Max(Same)]
  BY DEF BySymbol
<1> HIDE DEF Same, l
<1>4. Max(Same) \in Same
  BY <1>1, MaxOfRange
<1> QED
  BY <1>2, <1>3, <1>4

(* What one side holds, the other holds, unless a later row hides it. *)
LEMMA ReconciledIsSame ==
    ASSUME NEW S, NEW local \in Seq(S), NEW T, NEW exchange \in Seq(T), Consistent(local, exchange)
    PROVE  Accounted(local, exchange) /\ Accounted(exchange, local)
<1>1. Symbols(local) = Symbols(exchange) /\ Mismatched(local, exchange) = {}
  BY DEF Consistent, Unexpected, Missing
<1>2. ASSUME NEW x \in Symbols(local)
      PROVE  LET l == BySymbol(local, x)
                 e == BySymbol(exchange, x)
             IN  l.side = e.side /\ (BothKnown(l.quantity, e.quantity) => l.quantity = e.quantity)
  BY <1>1 DEF Mismatched
<1>3. ASSUME NEW n \in DOMAIN local, ~Hidden(local, n)
      PROVE  \E k \in DOMAIN exchange : Alike(local[n], exchange[k])
  <2> DEFINE x == local[n].symbol
  <2>1. x \in Symbols(local)
    BY DEF Symbols
  <2>2. BySymbol(local, x) = local[n]
    BY <1>3, LastIsFound
  <2>3. PICK k \in DOMAIN exchange : exchange[k].symbol = x /\ BySymbol(exchange, x) = exchange[k]
    BY <1>1, <2>1, SomeIsFound
  <2> QED
    BY <1>2, <2>1, <2>2, <2>3 DEF Alike
<1>4. ASSUME NEW n \in DOMAIN exchange, ~Hidden(exchange, n)
      PROVE  \E k \in DOMAIN local : Alike(exchange[n], local[k])
  <2> DEFINE x == exchange[n].symbol
  <2>1. x \in Symbols(local)
    BY <1>1 DEF Symbols
  <2>2. BySymbol(exchange, x) = exchange[n]
    BY <1>4, LastIsFound
  <2>3. PICK k \in DOMAIN local : local[k].symbol = x /\ BySymbol(local, x) = local[k]
    BY <2>1, SomeIsFound
  <2>4. BothKnown(exchange[n].quantity, local[k].quantity) => BothKnown(local[k].quantity, exchange[n].quantity)
    BY DEF BothKnown
  <2> QED
    BY <1>2, <2>1, <2>2, <2>3, <2>4 DEF Alike
<1> QED
  BY <1>3, <1>4 DEF Accounted

(* A series covered by enough rows lacks no more candles than it has twice. *)
LEMMA CoverageCounted ==
    ASSUME NEW ts \in Seq(Int), ts # <<>>
    PROVE  FullyCovered(ts) <=> Cardinality(Times(ts)) > 1 /\ MissingCount(ts) <= DuplicateCount(ts)
<1> DEFINE c == Cardinality(Times(ts))
           m == MissingCount(ts)
           e == ExpectedCount(ts)
           l == Len(ts)
<1>1. IF c > 1 THEN e > 0 /\ m + c = e ELSE e = 0
  BY GapsCounted
<1>2. c \in Int /\ m \in Int /\ e \in Int /\ l \in Int
  <2>1. c \in Nat /\ m \in Nat
    BY GapsCounted
  <2>2. l \in Nat
    OBVIOUS
  <2> HIDE DEF c, m, e, l
  <2> QED
    BY <1>1, <2>1, <2>2
<1>3. FullyCovered(ts) <=> e > 0 /\ l >= e
  BY DEF FullyCovered
<1>4. DuplicateCount(ts) = l - c
  BY DEF DuplicateCount
<1> HIDE DEF c, m, e, l
<1>5. e > 0 /\ l >= e <=> c > 1 /\ m <= l - c
  BY <1>1, <1>2
<1> QED
  BY <1>3, <1>4, <1>5 DEF c, m

(* The total of a sequence is a fold over its indices. *)
LEMMA TotalIsFold ==
    ASSUME NEW s \in Seq(Int)
    PROVE  /\ IsFiniteSet(DOMAIN s) /\ \A n \in DOMAIN s : s[n] \in Int
           /\ \E h : IsFold(s, DOMAIN s, h) /\ Total(s) = h[DOMAIN s]
<1> DEFINE D == DOMAIN s
           Counts(h) == IsFold(s, D, h)
           m == CHOOSE h : Counts(h)
<1>1. IsFiniteSet(D)
  <2> DEFINE l == Len(s)
  <2>1. D = 1..l /\ l \in Int /\ 1 \in Int
    OBVIOUS
  <2> HIDE DEF D, l
  <2> QED
    BY <2>1, FS_Interval
<1>2. \A n \in D : s[n] \in Int
  BY ElementOfSeq
<1>3. Total(s) = m[D]
  BY DEF Total, FoldSeq, FoldFunction, FoldFunctionOnSet, MapThenFoldSet, IsFold, Unfolded, Taken
<1>4. \E h : Counts(h)
  BY <1>1, FoldExists
<1> HIDE DEF Counts
<1>5. Counts(m)
  BY <1>4
<1> HIDE DEF m
<1>6. IsFold(s, D, m)
  BY <1>5 DEF Counts
<1> QED
  BY <1>1, <1>2, <1>3, <1>6

(* Of two sums over the same set, that of the larger values is the larger one. *)
LEMMA FoldsOrdered ==
    ASSUME NEW f, NEW g, NEW D, NEW E, IsFiniteSet(D), IsFiniteSet(E),
           NEW h, IsFold(f, D, h), NEW k, IsFold(g, E, k),
           NEW T, T \subseteq D, T \subseteq E,
           \A x \in D : f[x] \in Int, \A x \in E : g[x] \in Int, \A x \in T : f[x] <= g[x]
    PROVE  h[T] \in Int /\ k[T] \in Int /\ h[T] <= k[T]
<1> DEFINE G == {t \in SUBSET T : h[t] \in Int /\ k[t] \in Int /\ h[t] <= k[t]}
<1>1. ASSUME NEW t \in SUBSET T, \A x \in t : t \ {x} \in G
      PROVE  t \in G
  <2>1. t \in SUBSET D /\ t \in SUBSET E
    OBVIOUS
  <2>2. h[t] = Unfolded(f, h, t) /\ k[t] = Unfolded(g, k, t)
    BY <2>1, FoldAt
  <2>3. CASE t = {}
    <3>1. h[t] = 0 /\ k[t] = 0
      BY <2>2, <2>3 DEF Unfolded
    <3> QED
      BY <3>1
  <2>4. CASE t # {}
    <3> DEFINE p == Taken(t)
               r == t \ {p}
    <3>1. p \in t
      BY <2>4 DEF Taken
    <3>2. h[t] = f[p] + h[r] /\ k[t] = g[p] + k[r]
      BY <2>2, <2>4 DEF Unfolded
    <3> HIDE DEF p
    <3>3. f[p] \in Int /\ g[p] \in Int /\ f[p] <= g[p]
      BY <3>1
    <3>4. h[r] \in Int /\ k[r] \in Int /\ h[r] <= k[r]
      BY <1>1, <3>1
    <3> HIDE DEF r
    <3>5. h[t] \in Int /\ k[t] \in Int /\ h[t] <= k[t]
      BY <3>2, <3>3, <3>4
    <3> QED
      BY <3>5
  <2> QED
    BY <2>3, <2>4
<1>2. IsFiniteSet(T)
  BY FS_Subset
<1>3. SUBSET T \subseteq G
  <2> HIDE DEF G
  <2> QED
    BY <1>1, <1>2, SubsetInduction
<1>4. T \in SUBSET T
  OBVIOUS
<1> QED
  BY <1>3, <1>4

(* The same of totals. *)
LEMMA TotalGrows ==
    ASSUME NEW f \in Seq(Int), NEW g \in Seq(Int), DOMAIN f = DOMAIN g, \A n \in DOMAIN f : f[n] <= g[n]
    PROVE  Total(f) \in Int /\ Total(g) \in Int /\ Total(f) <= Total(g)
<1>1. PICK h : IsFold(f, DOMAIN f, h) /\ Total(f) = h[DOMAIN f]
  BY TotalIsFold
<1>2. PICK k : IsFold(g, DOMAIN g, k) /\ Total(g) = k[DOMAIN g]
  BY TotalIsFold
<1> DEFINE D == DOMAIN f
<1>3. /\ IsFiniteSet(D) /\ \A n \in D : f[n] \in Int /\ g[n] \in Int
      /\ DOMAIN g = D
  BY TotalIsFold
<1> HIDE DEF D
<1>4. h[D] \in Int /\ k[D] \in Int /\ h[D] <= k[D]
  <2>1. \A n \in D : f[n] <= g[n]
    BY DEF D
  <2>2. IsFold(f, D, h) /\ IsFold(g, D, k)
    BY <1>1, <1>2, <1>3 DEF D
  <2> QED
    BY <1>3, <2>1, <2>2, FoldsOrdered
<1> QED
  BY <1>1, <1>2, <1>3, <1>4 DEF D

(* A total is one value and the total of the others. *)
LEMMA FoldWithout ==
    ASSUME NEW D, IsFiniteSet(D), NEW g, \A x \in D : g[x] \in Int, NEW h, IsFold(g, D, h), NEW i \in D
    PROVE  h[D] = g[i] + h[D \ {i}]
<1>1. \A t \in SUBSET D : h[t] \in Int /\ \A x \in t : h[t] = g[x] + h[t \ {x}]
  BY FoldSums
<1>2. D \in SUBSET D
  OBVIOUS
<1> QED
  BY <1>1, <1>2

(* One more at one place is one more in the sum, *)
LEMMA FoldRaised ==
    ASSUME NEW D, IsFiniteSet(D), NEW f, NEW g, NEW h, IsFold(f, D, h), NEW k, IsFold(g, D, k),
           \A n \in D : f[n] \in Int, \A n \in D : g[n] \in Int,
           NEW i \in D, g[i] = f[i] + 1, \A n \in D : n # i => g[n] = f[n]
    PROVE  h[D] \in Int /\ k[D] = h[D] + 1
<1> DEFINE T == D \ {i}
<1>1. h[T] \in Int /\ k[T] \in Int /\ h[T] <= k[T]
  <2>1. T \subseteq D /\ \A n \in T : f[n] <= g[n]
    OBVIOUS
  <2> HIDE DEF T
  <2> QED
    BY <2>1, FoldsOrdered
<1>2. k[T] <= h[T]
  <2>1. T \subseteq D /\ \A n \in T : g[n] <= f[n]
    OBVIOUS
  <2> HIDE DEF T
  <2> QED
    BY <2>1, FoldsOrdered
<1>3. h[D] = f[i] + h[T]
  BY FoldWithout
<1>4. k[D] = g[i] + k[T]
  BY FoldWithout
<1>5. f[i] \in Int
  OBVIOUS
<1> HIDE DEF T
<1> QED
  <2> DEFINE a == h[T]
             b == k[T]
             c == f[i]
  <2>1. a = b /\ a \in Int /\ c \in Int
    BY <1>1, <1>2, <1>5
  <2>2. h[D] = c + a /\ k[D] = (c + 1) + b
    BY <1>3, <1>4
  <2> HIDE DEF a, b, c
  <2> QED
    BY <2>1, <2>2

(* and in the total. *)
LEMMA TotalRaised ==
    ASSUME NEW f \in Seq(Int), NEW g \in Seq(Int), DOMAIN f = DOMAIN g, NEW i \in DOMAIN f,
           g[i] = f[i] + 1, \A n \in DOMAIN f : n # i => g[n] = f[n]
    PROVE  Total(f) \in Int /\ Total(g) = Total(f) + 1
<1>1. PICK h : IsFold(f, DOMAIN f, h) /\ Total(f) = h[DOMAIN f]
  BY TotalIsFold
<1>2. PICK k : IsFold(g, DOMAIN g, k) /\ Total(g) = k[DOMAIN g]
  BY TotalIsFold
<1>3. /\ IsFiniteSet(DOMAIN f) /\ (\A n \in DOMAIN f : f[n] \in Int)
      /\ IsFiniteSet(DOMAIN g) /\ (\A n \in DOMAIN g : g[n] \in Int)
  BY TotalIsFold
<1> DEFINE D == DOMAIN f
<1>4. DOMAIN g = D /\ i \in D
  OBVIOUS
<1>5. IsFold(f, D, h) /\ IsFold(g, D, k)
  BY <1>1, <1>2, <1>4
<1>6. h[D] \in Int /\ k[D] = h[D] + 1
  BY <1>3, <1>4, <1>5, FoldRaised
<1> QED
  BY <1>1, <1>2, <1>4, <1>6

(* The larger of a number and 0. *)
LEMMA PositivePart ==
    ASSUME NEW x \in Int
    PROVE  Max({x, 0}) = IF x >= 0 THEN x ELSE 0
<1> DEFINE T == {x, 0}
           k == IF x >= 0 THEN x ELSE 0
<1>1. k \in T /\ k \in Int /\ \A j \in T : j \in Int /\ j <= k
  OBVIOUS
<1> HIDE DEF T, k
<1>2. Max(T) = k
  BY <1>1, MaxIs
<1> QED
  BY <1>2 DEF T, k

(* A profit factor is not lower for P&Ls that are not. *)
LEMMA FactorGrows ==
    ASSUME NEW p \in Seq(Int), NEW q \in Seq(Int), DOMAIN p = DOMAIN q, \A n \in DOMAIN p : p[n] <= q[n],
           NEW tenths \in Nat, FactorBelow(q, tenths)
    PROVE  FactorBelow(p, tenths)
<1> DEFINE D == DOMAIN p
           Won(s) == [n \in DOMAIN s |-> Max({s[n], 0})]
           Lost(s) == [n \in DOMAIN s |-> Max({-s[n], 0})]
<1>1. \A n \in D : p[n] \in Int /\ q[n] \in Int /\ p[n] <= q[n]
  BY ElementOfSeq
<1>2. \A n \in D : /\ Won(p)[n] = (IF p[n] >= 0 THEN p[n] ELSE 0)
                   /\ Won(q)[n] = (IF q[n] >= 0 THEN q[n] ELSE 0)
  BY <1>1, PositivePart
<1>3. \A n \in D : /\ Lost(p)[n] = (IF -p[n] >= 0 THEN -p[n] ELSE 0)
                   /\ Lost(q)[n] = (IF -q[n] >= 0 THEN -q[n] ELSE 0)
  <2> SUFFICES ASSUME NEW n \in D
               PROVE  /\ Lost(p)[n] = (IF -p[n] >= 0 THEN -p[n] ELSE 0)
                      /\ Lost(q)[n] = (IF -q[n] >= 0 THEN -q[n] ELSE 0)
    OBVIOUS
  <2>1. -p[n] \in Int /\ -q[n] \in Int
    BY <1>1
  <2>2. /\ Max({-p[n], 0}) = (IF -p[n] >= 0 THEN -p[n] ELSE 0)
        /\ Max({-q[n], 0}) = (IF -q[n] >= 0 THEN -q[n] ELSE 0)
    BY <2>1, PositivePart
  <2> QED
    BY <2>2
<1>4. DOMAIN Won(p) = D /\ DOMAIN Won(q) = D /\ DOMAIN Lost(p) = D /\ DOMAIN Lost(q) = D
  OBVIOUS
<1>5. \A n \in D : /\ Won(p)[n] \in Int /\ Won(q)[n] \in Int /\ Won(p)[n] <= Won(q)[n]
                   /\ Lost(p)[n] \in Int /\ Lost(q)[n] \in Int /\ Lost(q)[n] <= Lost(p)[n]
  <2> SUFFICES ASSUME NEW n \in D
               PROVE  /\ Won(p)[n] \in Int /\ Won(q)[n] \in Int /\ Won(p)[n] <= Won(q)[n]
                      /\ Lost(p)[n] \in Int /\ Lost(q)[n] \in Int /\ Lost(q)[n] <= Lost(p)[n]
    OBVIOUS
  <2> DEFINE x == p[n]
             y == q[n]
  <2>1. x \in Int /\ y \in Int /\ x <= y
    BY <1>1
  <2>2. Won(p)[n] = (IF x >= 0 THEN x ELSE 0) /\ Won(q)[n] = (IF y >= 0 THEN y ELSE 0)
    BY <1>2
  <2>3. Lost(p)[n] = (IF -x >= 0 THEN -x ELSE 0) /\ Lost(q)[n] = (IF -y >= 0 THEN -y ELSE 0)
    BY <1>3
  <2> HIDE DEF Won, Lost, D, x, y
  <2> QED
    BY <2>1, <2>2, <2>3
<1>6. Won(p) \in Seq(Int) /\ Won(q) \in Seq(Int) /\ Lost(p) \in Seq(Int) /\ Lost(q) \in Seq(Int)
  <2>1. \A f : DOMAIN f = D /\ (\A n \in D : f[n] \in Int) /\ f = [n \in D |-> f[n]] => f \in Seq(Int)
    <3>1. D = 1..Len(p) /\ Len(p) \in Nat
      OBVIOUS
    <3> HIDE DEF D
    <3>2. [D -> Int] \subseteq Seq(Int)
      BY <3>1, SeqDef
    <3>3. \A f : f = [n \in D |-> f[n]] /\ (\A n \in D : f[n] \in Int) => f \in [D -> Int]
      BY Zenon
    <3> QED
      BY <3>2, <3>3
  <2>2. Won(p) = [n \in D |-> Won(p)[n]] /\ Won(q) = [n \in D |-> Won(q)[n]]
    OBVIOUS
  <2>3. Lost(p) = [n \in D |-> Lost(p)[n]] /\ Lost(q) = [n \in D |-> Lost(q)[n]]
    OBVIOUS
  <2> HIDE DEF Won, Lost, D
  <2> QED
    BY <1>4, <1>5, <2>1, <2>2, <2>3
<1> DEFINE wp == Total(Won(p))
           wq == Total(Won(q))
           lp == Total(Lost(p))
           lq == Total(Lost(q))
<1>7. lq > 0 /\ 10 * wq < tenths * lq
  BY DEF FactorBelow
<1>8. FactorBelow(p, tenths) <=> lp > 0 /\ 10 * wp < tenths * lp
  BY DEF FactorBelow
<1> HIDE DEF Won, Lost
<1>9. wp \in Int /\ wq \in Int /\ wp <= wq
  BY <1>4, <1>5, <1>6, TotalGrows
<1>10. lq \in Int /\ lp \in Int /\ lq <= lp
  BY <1>4, <1>5, <1>6, TotalGrows
<1> HIDE DEF wp, wq, lp, lq
<1>11. tenths * lq <= tenths * lp
  <2>1. lq \in Nat /\ lp \in Nat
    BY <1>7, <1>10
  <2>2. lq * tenths <= lp * tenths /\ lq * tenths = tenths * lq /\ lp * tenths = tenths * lp
    BY <1>10, <2>1, Monotone
  <2> QED
    BY <2>2
<1>12. tenths * lq \in Int /\ tenths * lp \in Int
  BY <1>10
<1> DEFINE a == tenths * lq
           b == tenths * lp
<1> HIDE DEF a, b
<1>13. a \in Int /\ b \in Int /\ a <= b /\ 10 * wq < a
  BY <1>7, <1>11, <1>12 DEF a, b
<1>14. 10 * wp < b
  BY <1>9, <1>13
<1>15. lp > 0
  BY <1>7, <1>10
<1> QED
  BY <1>8, <1>14, <1>15 DEF b

(* P&Ls of which one is higher. *)
Raised(p, q, i) == DOMAIN p = DOMAIN q /\ i \in DOMAIN p /\ q[i] = p[i] + 1 /\ \A n \in DOMAIN p : n # i => q[n] = p[n]

(* The first n elements. *)
LEMMA Prefix ==
    ASSUME NEW p \in Seq(Int), NEW n \in 0..Len(p)
    PROVE  /\ SubSeq(p, 1, n) \in Seq(Int) /\ DOMAIN SubSeq(p, 1, n) = 1..n
           /\ \A j \in 1..n : SubSeq(p, 1, n)[j] = p[j]
<1> DEFINE r == SubSeq(p, 1, n)
<1>1. n \in Int /\ 1 \in Int /\ (\A j \in 1..n : p[j] \in Int) /\ n >= 0
  BY ElementOfSeq
<1>2. /\ r \in Seq(Int) /\ Len(r) = (IF 1 <= n THEN n - 1 + 1 ELSE 0)
      /\ \A j \in 1..n - 1 + 1 : r[j] = p[1 + j - 1]
  BY <1>1, SubSeqProperties
<1> HIDE DEF r
<1>3. Len(r) = n /\ \A j \in 1..n : 1 + j - 1 = j /\ j \in 1..n - 1 + 1
  BY <1>1, <1>2
<1>4. DOMAIN r = 1..Len(r)
  BY <1>2, LenProperties
<1>5. \A j \in 1..n : r[j] = p[j]
  BY <1>2, <1>3
<1> QED
  BY <1>2, <1>3, <1>4, <1>5 DEF r

(* Every equity from that trade on is higher by as much. *)
LEMMA EquityRaised ==
    ASSUME NEW p \in Seq(Int), NEW q \in Seq(Int), NEW i, Raised(p, q, i), NEW n \in 0..Len(p)
    PROVE  /\ Total(SubSeq(p, 1, n)) \in Int
           /\ Total(SubSeq(q, 1, n)) = Total(SubSeq(p, 1, n)) + (IF i <= n THEN 1 ELSE 0)
<1> DEFINE r == SubSeq(p, 1, n)
           s == SubSeq(q, 1, n)
<1>1. Len(q) = Len(p) /\ DOMAIN p = 1..Len(p) /\ Len(p) \in Nat /\ i \in 1..Len(p)
  BY LenProperties DEF Raised
<1>2. n \in 0..Len(q)
  BY <1>1
<1>3. /\ r \in Seq(Int) /\ DOMAIN r = 1..n
      /\ \A j \in 1..n : r[j] = p[j]
  BY Prefix
<1>4. /\ s \in Seq(Int) /\ DOMAIN s = 1..n
      /\ \A j \in 1..n : s[j] = q[j]
  BY <1>2, Prefix
<1>5. \A j \in 1..n : j \in DOMAIN p
  BY <1>1
<1> HIDE DEF r, s
<1>6. CASE i <= n
  <2>1. i \in 1..n
    BY <1>1, <1>6
  <2>2. i \in DOMAIN r /\ s[i] = r[i] + 1 /\ \A j \in DOMAIN r : j # i => s[j] = r[j]
    BY <1>3, <1>4, <1>5, <2>1 DEF Raised
  <2>3. Total(r) \in Int /\ Total(s) = Total(r) + 1
    BY <1>3, <1>4, <2>2, TotalRaised
  <2> QED
    BY <1>6, <2>3 DEF r, s
<1>7. CASE ~(i <= n)
  <2>1. \A j \in 1..n : j # i
    BY <1>7
  <2>2. \A j \in 1..n : s[j] = r[j]
    BY <1>3, <1>4, <1>5, <2>1 DEF Raised
  <2>3. s = [j \in 1..n |-> s[j]] /\ r = [j \in 1..n |-> r[j]]
    BY <1>3, <1>4, LenProperties
  <2>4. s = r
    BY <2>2, <2>3
  <2>5. \A j \in DOMAIN r : r[j] \in Int
    BY <1>3, TotalIsFold
  <2>6. Total(r) \in Int
    <3>1. \A j \in DOMAIN r : r[j] <= r[j]
      BY <2>5
    <3> QED
      BY <1>3, <3>1, TotalGrows
  <2>7. Total(r) + (IF i <= n THEN 1 ELSE 0) = Total(r)
    BY <1>7, <2>6
  <2> QED
    BY <2>4, <2>6, <2>7 DEF r, s
<1> QED
  BY <1>6, <1>7

(* So no drawdown is deeper. *)
LEMMA DrawdownFalls ==
    ASSUME NEW p \in Seq(Int), NEW q \in Seq(Int), NEW i, Raised(p, q, i), NEW percent \in Nat,
           DrawdownReaches(q, percent)
    PROVE  DrawdownReaches(p, percent)
<1> DEFINE eq(s) == [n \in 0..Len(s) |-> Reference + Total(SubSeq(s, 1, n))]
<1>1. Len(q) = Len(p) /\ Len(p) \in Nat
  BY LenProperties DEF Raised
<1>2. PICK m, n \in 0..Len(q) : m <= n /\ 100 * (eq(q)[m] - eq(q)[n]) >= percent * eq(q)[m]
  BY DEF DrawdownReaches
<1>3. m \in 0..Len(p) /\ n \in 0..Len(p) /\ m <= n /\ m \in Nat /\ n \in Nat
  BY <1>1, <1>2
<1>4. eq(p)[m] = Reference + Total(SubSeq(p, 1, m)) /\ eq(p)[n] = Reference + Total(SubSeq(p, 1, n))
  BY <1>3
<1>5. eq(q)[m] = Reference + Total(SubSeq(q, 1, m)) /\ eq(q)[n] = Reference + Total(SubSeq(q, 1, n))
  BY <1>1, <1>3
<1> DEFINE a == eq(p)[m]
           b == eq(p)[n]
           d == IF i <= m THEN 1 ELSE 0
           e == IF i <= n THEN 1 ELSE 0
<1>6. Reference \in Int
  BY ReportsAssumption
<1>7. a \in Int /\ b \in Int /\ eq(q)[m] = a + d /\ eq(q)[n] = b + e
  <2>1. /\ Total(SubSeq(p, 1, m)) \in Int /\ Total(SubSeq(q, 1, m)) = Total(SubSeq(p, 1, m)) + d
        /\ Total(SubSeq(p, 1, n)) \in Int /\ Total(SubSeq(q, 1, n)) = Total(SubSeq(p, 1, n)) + e
    BY <1>3, EquityRaised
  <2> DEFINE x == Total(SubSeq(p, 1, m))
             y == Total(SubSeq(p, 1, n))
             xx == eq(q)[m]
             yy == eq(q)[n]
  <2>2. a = Reference + x /\ b = Reference + y
    BY <1>4
  <2>3. xx = Reference + (x + d) /\ yy = Reference + (y + e)
    BY <1>5, <2>1
  <2>4. x \in Int /\ y \in Int /\ d \in Int /\ e \in Int
    BY <2>1
  <2> HIDE DEF x, y, xx, yy, a, b, d, e
  <2> QED
    BY <1>6, <2>2, <2>3, <2>4 DEF xx, yy
<1>8. d \in {0, 1} /\ e \in {0, 1} /\ d <= e
  BY <1>3 DEF Raised
<1>9. 100 * ((a + d) - (b + e)) >= percent * (a + d)
  BY <1>2, <1>7
<1>10. DrawdownReaches(p, percent) <=> \E k, l \in 0..Len(p) : k <= l /\ 100 * (eq(p)[k] - eq(p)[l]) >= percent * eq(p)[k]
  BY DEF DrawdownReaches
<1> HIDE DEF a, b, d, e
<1>11. percent * (a + d) >= percent * a
  <2>1. CASE d = 0
    BY <1>7, <2>1
  <2>2. CASE d = 1
    <3>1. percent * (a + 1) = percent * a + percent
      BY <1>7
    <3>2. percent * a \in Int
      BY <1>7
    <3> QED
      BY <2>2, <3>1, <3>2
  <2> QED
    BY <1>8, <2>1, <2>2
<1>12. 100 * (a - b) >= percent * a
  <2> DEFINE u == percent * (a + d)
             v == percent * a
  <2>1. u \in Int /\ v \in Int
    BY <1>7, <1>8
  <2> HIDE DEF u, v
  <2>2. 100 * ((a + d) - (b + e)) >= u /\ u >= v
    BY <1>9, <1>11 DEF u, v
  <2>3. 100 * (a - b) >= v
    BY <1>7, <1>8, <2>1, <2>2
  <2> QED
    BY <2>3 DEF v
<1> QED
  BY <1>3, <1>10, <1>12 DEF a, b

(* The trades that are looked at: as many, and at most one of them is higher. *)
LEMMA RecentRaised ==
    ASSUME NEW p \in Seq(Int), NEW q \in Seq(Int), NEW i, Raised(p, q, i)
    PROVE  /\ Recent(p) \in Seq(Int) /\ Recent(q) \in Seq(Int)
           /\ DOMAIN Recent(p) = DOMAIN Recent(q) /\ Len(Recent(p)) = Len(Recent(q))
           /\ Recent(q) = Recent(p) \/ \E j : Raised(Recent(p), Recent(q), j)
<1> DEFINE L == Len(p)
           k == Min({Lookback, L})
           a == L - k
           r == Recent(p)
           s == Recent(q)
<1>1. Len(q) = L /\ L \in Nat /\ DOMAIN p = 1..L /\ DOMAIN q = 1..L /\ i \in 1..L
  BY LenProperties DEF Raised
<1>2. k \in 0..L
  <2>1. Lookback \in Nat
    BY ReportsAssumption
  <2> HIDE DEF L
  <2> DEFINE T == {Lookback, L}
  <2>2. T \in SUBSET Nat /\ T # {} /\ L \in T
    BY <1>1, <2>1
  <2> HIDE DEF T
  <2>3. Min(T) \in T /\ Min(T) <= L
    BY <2>2, MinOf
  <2>4. Min(T) \in Nat
    BY <2>2, <2>3
  <2> QED
    BY <1>1, <2>3, <2>4 DEF T
<1>3. r = SubSeq(p, a + 1, L) /\ s = SubSeq(q, a + 1, L)
  BY <1>1 DEF Recent
<1>4. \A n \in 1..L : p[n] \in Int /\ q[n] \in Int
  BY <1>1, ElementOfSeq
<1> HIDE DEF L, k
<1>5. a \in Nat /\ a + 1 \in Int /\ L \in Int /\ a <= L /\ \A n \in a + 1..L : n \in 1..L
  BY <1>1, <1>2
<1>6. L - (a + 1) + 1 = k /\ (IF a + 1 <= L THEN L - (a + 1) + 1 ELSE 0) = k
  BY <1>1, <1>2
<1>7. \A n \in 1..k : a + 1 + n - 1 = a + n /\ a + n \in 1..L
  BY <1>1, <1>2
<1> HIDE DEF a, r, s
<1>8. r \in Seq(Int) /\ Len(r) = k /\ \A n \in 1..k : r[n] = p[a + n]
  BY <1>3, <1>4, <1>5, <1>6, <1>7, SubSeqProperties, SMTT(30)
<1>9. s \in Seq(Int) /\ Len(s) = k /\ \A n \in 1..k : s[n] = q[a + n]
  BY <1>3, <1>4, <1>5, <1>6, <1>7, SubSeqProperties, SMTT(30)
<1>10. DOMAIN r = 1..k /\ DOMAIN s = 1..k
  BY <1>8, <1>9, LenProperties
<1>11. CASE i > a
  <2> DEFINE j == i - a
  <2>1. j \in 1..k /\ a + j = i
    BY <1>1, <1>2, <1>5, <1>11 DEF a
  <2>2. \A n \in 1..k : n # j => a + n # i
    BY <1>1, <1>5, <2>1
  <2> HIDE DEF j
  <2>3. s[j] = r[j] + 1 /\ \A n \in 1..k : n # j => s[n] = r[n]
    BY <1>1, <1>7, <1>8, <1>9, <2>1, <2>2 DEF Raised
  <2>4. Raised(r, s, j)
    BY <1>10, <2>1, <2>3 DEF Raised
  <2> QED
    BY <1>8, <1>9, <1>10, <2>4 DEF r, s
<1>12. CASE ~(i > a)
  <2>1. \A n \in 1..k : a + n # i
    BY <1>1, <1>2, <1>5, <1>12
  <2>2. \A n \in 1..k : s[n] = r[n]
    BY <1>1, <1>7, <1>8, <1>9, <2>1 DEF Raised
  <2>3. s = r
    BY <1>8, <1>9, <2>2, SeqEqual
  <2> QED
    BY <1>8, <1>9, <1>10, <2>3 DEF r, s
<1> QED
  BY <1>11, <1>12

(* The thresholds that are passed. *)
Breached(pnls) ==
    {k \in DOMAIN Thresholds :
        /\ Len(Recent(pnls)) >= MinTrades
        /\ \/ FactorBelow(Recent(pnls), Thresholds[k][1])
           \/ DrawdownReaches(Recent(pnls), Thresholds[k][2])}

(* None is passed that was not. *)
LEMMA BreachesFall ==
    ASSUME NEW p \in Seq(Int), NEW q \in Seq(Int), NEW i, Raised(p, q, i)
    PROVE  Breached(q) \subseteq Breached(p)
<1> DEFINE r == Recent(p)
           s == Recent(q)
<1>1. /\ r \in Seq(Int) /\ s \in Seq(Int) /\ DOMAIN r = DOMAIN s /\ Len(r) = Len(s)
      /\ s = r \/ \E j : Raised(r, s, j)
  BY RecentRaised
<1>2. \A k \in DOMAIN Thresholds : Thresholds[k][1] \in Nat /\ Thresholds[k][2] \in Nat
  <2>1. DOMAIN Thresholds = 1..3
    BY DEF Thresholds
  <2>2. Thresholds[1] = <<10, 10>> /\ Thresholds[2] = <<7, 15>> /\ Thresholds[3] = <<4, 25>>
    BY DEF Thresholds
  <2>3. \A k \in 1..3 : k = 1 \/ k = 2 \/ k = 3
    OBVIOUS
  <2> QED
    BY <2>1, <2>2, <2>3
<1> HIDE DEF r, s
<1>3. CASE s = r
  BY <1>3 DEF Breached, r, s
<1>4. ASSUME NEW j, Raised(r, s, j)
      PROVE  Breached(q) \subseteq Breached(p)
  <2>1. \A n \in DOMAIN r : r[n] \in Int
    BY <1>1, TotalIsFold
  <2>2. \A n \in DOMAIN r : r[n] <= s[n]
    <3> SUFFICES ASSUME NEW n \in DOMAIN r
                 PROVE  r[n] <= s[n]
      OBVIOUS
    <3>1. r[n] \in Int /\ (s[n] = r[n] + 1 \/ s[n] = r[n])
      BY <1>4, <2>1 DEF Raised
    <3> QED
      BY <3>1
  <2>3. \A t \in Nat : FactorBelow(s, t) => FactorBelow(r, t)
    BY <1>1, <2>2, FactorGrows
  <2>4. \A t \in Nat : DrawdownReaches(s, t) => DrawdownReaches(r, t)
    BY <1>1, <1>4, DrawdownFalls
  <2> QED
    BY <1>1, <1>2, <2>3, <2>4 DEF Breached, r, s
<1> QED
  BY <1>1, <1>3, <1>4

(* Predictions of which there are none do not drift. *)
LEMMA NoneIsNoDrift ==
    ASSUME NEW C, IsFiniteSet(C)
    PROVE  ~Drifted([c \in C |-> 0])
<1> DEFINE z == [c \in C |-> 0]
           total == MapThenSumSet(LAMBDA c : z[c], C)
           Counts(h) == IsFold(z, C, h)
           m == CHOOSE h : Counts(h)
<1>1. DOMAIN z = C /\ \A c \in C : z[c] = 0
  OBVIOUS
<1>2. total = m[C]
  BY DEF MapThenSumSet, MapThenFoldSet, IsFold, Unfolded, Taken
<1>3. Drifted(z) => total >= MinTrades
  BY <1>1 DEF Drifted
<1>4. \E h : Counts(h)
  BY FoldExists
<1> HIDE DEF Counts
<1>5. Counts(m)
  BY <1>4
<1> HIDE DEF m, total
<1>6. IsFold(z, C, m)
  BY <1>5 DEF Counts
<1> HIDE DEF z
<1> DEFINE G == {t \in SUBSET C : m[t] = 0}
<1>7. ASSUME NEW t \in SUBSET C, \A x \in t : t \ {x} \in G
      PROVE  t \in G
  <2>1. m[t] = Unfolded(z, m, t)
    BY <1>6, FoldAt
  <2>2. CASE t = {}
    BY <2>1, <2>2 DEF Unfolded
  <2>3. CASE t # {}
    <3> DEFINE c == Taken(t)
    <3>1. c \in t
      BY <2>3 DEF Taken
    <3>2. m[t] = z[c] + m[t \ {c}]
      BY <2>1, <2>3 DEF Unfolded
    <3> HIDE DEF c
    <3>3. z[c] = 0 /\ m[t \ {c}] = 0
      BY <1>1, <1>7, <3>1
    <3>4. m[t] = 0
      BY <3>2, <3>3
    <3> QED
      BY <3>4
  <2> QED
    BY <2>2, <2>3
<1>8. m[C] = 0
  <2>1. SUBSET C \subseteq G
    <3> HIDE DEF G
    <3> QED
      BY <1>7, SubsetInduction
  <2>2. C \in SUBSET C
    OBVIOUS
  <2> QED
    BY <2>1, <2>2
<1>9. MinTrades \in Nat /\ MinTrades > 0
  BY ReportsAssumption
<1>10. ~(total >= MinTrades)
  BY <1>2, <1>8, <1>9
<1> QED
  BY <1>3, <1>10 DEF z

(* The greatest of two sets of warnings. *)
LEMMA Worst ==
    ASSUME NEW T, NEW U, T \subseteq U, U \subseteq 0..3, 0 \in T
    PROVE  /\ Max(T) \in T /\ Max(U) \in U /\ Max(T) <= Max(U)
           /\ U \subseteq T \cup {1} => Max(U) \in {Max(T), 1}
<1>0. T \in SUBSET (0..3) /\ U \in SUBSET (0..3) /\ T # {} /\ U # {} /\ 0 \in Int /\ 3 \in Int
  OBVIOUS
<1>1. Max(T) \in T /\ \A x \in T : x <= Max(T)
  BY <1>0, MaxOfRange
<1>2. Max(U) \in U /\ \A x \in U : x <= Max(U)
  BY <1>0, MaxOfRange
<1>3. Max(T) \in 0..3 /\ Max(U) \in 0..3 /\ Max(T) <= Max(U)
  BY <1>0, <1>1, <1>2
<1>4. ASSUME U \subseteq T \cup {1}, Max(U) # 1
      PROVE  Max(U) = Max(T)
  <2>1. Max(U) \in T
    BY <1>2, <1>4
  <2>2. Max(U) <= Max(T)
    BY <1>1, <2>1
  <2> QED
    BY <1>3, <2>2
<1> QED
  BY <1>1, <1>2, <1>3, <1>4

(* The health of the model: not worse for trades that earned more, and a drift
   is a warning at most. *)
LEMMA HealthIsFair ==
    ASSUME NEW p \in Seq(Int), NEW predictions, IsFiniteSet(DOMAIN predictions)
    PROVE  /\ \A i \in DOMAIN p : Health([p EXCEPT ![i] = @ + 1], predictions) <= Health(p, predictions)
           /\ Health(p, predictions) \in {Health(p, [c \in DOMAIN predictions |-> 0]), 1}
<1> DEFINE Drift(f) == IF Drifted(f) THEN {1} ELSE {}
           Warnings(s, f) == {0} \cup Breached(s) \cup Drift(f)
           none == [c \in DOMAIN predictions |-> 0]
<1>1. \A s, f : Health(s, f) = Max(Warnings(s, f))
  BY DEF Health, Breached
<1>2. \A s, f : Warnings(s, f) \subseteq 0..3 /\ 0 \in Warnings(s, f)
  <2>1. \A s : Breached(s) \subseteq 1..3
    <3>1. DOMAIN Thresholds = 1..3
      BY DEF Thresholds
    <3> QED
      BY <3>1 DEF Breached
  <2>2. 1..3 \subseteq 0..3 /\ {0, 1} \subseteq 0..3
    OBVIOUS
  <2> QED
    BY <2>1, <2>2
<1>3. ASSUME NEW i \in DOMAIN p
      PROVE  Health([p EXCEPT ![i] = @ + 1], predictions) <= Health(p, predictions)
  <2> DEFINE q == [p EXCEPT ![i] = p[i] + 1]
  <2>1. q = [p EXCEPT ![i] = @ + 1]
    OBVIOUS
  <2>2. DOMAIN q = DOMAIN p /\ q[i] = p[i] + 1 /\ \A n \in DOMAIN p : n # i => q[n] = p[n]
    OBVIOUS
  <2>3. q \in Seq(Int)
    <3>1. p[i] \in Int
      BY ElementOfSeq
    <3>2. p[i] + 1 \in Int /\ i \in 1..Len(p)
      BY <3>1
    <3> QED
      BY <3>2, ExceptSeq
  <2> HIDE DEF q
  <2>4. Raised(p, q, i)
    BY <2>2 DEF Raised
  <2>5. Breached(q) \subseteq Breached(p)
    BY <2>3, <2>4, BreachesFall
  <2>6. Warnings(q, predictions) \subseteq Warnings(p, predictions)
    BY <2>5
  <2> HIDE DEF Warnings
  <2>7. Max(Warnings(q, predictions)) <= Max(Warnings(p, predictions))
    BY <1>2, <2>6, Worst
  <2> QED
    BY <1>1, <2>1, <2>7
<1>4. ~Drifted(none)
  BY NoneIsNoDrift
<1>5. /\ Warnings(p, none) \subseteq Warnings(p, predictions)
      /\ Warnings(p, predictions) \subseteq Warnings(p, none) \cup {1}
  BY <1>4
<1> HIDE DEF Warnings, none
<1>6. Max(Warnings(p, predictions)) \in {Max(Warnings(p, none)), 1}
  BY <1>2, <1>5, Worst
<1>7. Health(p, predictions) \in {Health(p, none), 1}
  BY <1>1, <1>6
<1> QED
  BY <1>3, <1>7 DEF none

(* Reconciliations, quality reports and the model's health: whatever the
   positions, candles and trades. *)
THEOREM ReportsCanBeTrusted == ResearchSpec => []ReportsAreTrue
<1>1. question = Replay \/ Posed(question) => ReportsAreTrue
  <2>1. CASE question = Replay
    <3>1. question.kind = "replay"
      BY <2>1 DEF Replay
    <3> QED
      BY <3>1 DEF ReportsAreTrue, Asked
  <2>2. CASE Posed(question)
    <3>1. CASE question.kind = "positions"
      <4>1. question.local \in Seq(Range(question.local)) /\ question.exchange \in Seq(Range(question.exchange))
        BY <2>2, <3>1 DEF Posed
      <4> QED
        BY <3>1, <4>1, ReconciledIsSame DEF ReportsAreTrue, Asked
    <3>2. CASE question.kind = "series"
      <4>1. question.times \in Seq(Int) /\ question.times # <<>>
        BY <2>2, <3>2 DEF Posed
      <4> QED
        BY <3>2, <4>1, GapsCounted, CoverageCounted, Zenon DEF ReportsAreTrue, Asked
    <3>3. CASE question.kind = "record"
      <4>1. question.pnls \in Seq(Int) /\ IsFiniteSet(DOMAIN question.predictions)
        BY <2>2, <3>3 DEF Posed
      <4> QED
        BY <3>3, <4>1, HealthIsFair DEF ReportsAreTrue, Asked
    <3>4. CASE question.kind \notin {"positions", "series", "record"}
      BY <3>4 DEF ReportsAreTrue, Asked
    <3> QED
      BY <3>1, <3>2, <3>3, <3>4
  <2> QED
    BY <2>1, <2>2
<1> QED
  BY <1>1, QuestionsArePosed, PTL

-----------------------------------------------------------------------------
(* A sum is a fold over the set it is taken of. *)
LEMMA SumIsFold ==
    ASSUME NEW g, NEW T, IsFiniteSet(T)
    PROVE  \E h : IsFold(g, T, h) /\ SumFunctionOnSet(g, T) = h[T]
<1> DEFINE Counts(h) == IsFold(g, T, h)
           m == CHOOSE h : Counts(h)
<1>1. SumFunctionOnSet(g, T) = m[T]
  BY DEF SumFunctionOnSet, FoldFunctionOnSet, MapThenFoldSet, IsFold, Unfolded, Taken
<1>2. \E h : Counts(h)
  BY FoldExists
<1> HIDE DEF Counts
<1>3. Counts(m)
  BY <1>2
<1> HIDE DEF m
<1> QED
  BY <1>1, <1>3 DEF Counts

(* It is a number, and 0 if there is nothing to add. *)
LEMMA SumIs ==
    ASSUME NEW g, NEW T, IsFiniteSet(T), \A x \in T : g[x] \in Int
    PROVE  /\ SumFunctionOnSet(g, T) \in Int
           /\ T = {} => SumFunctionOnSet(g, T) = 0
<1>1. PICK h : IsFold(g, T, h) /\ SumFunctionOnSet(g, T) = h[T]
  BY SumIsFold
<1>2. h[T] \in Int
  BY <1>1, FoldSums
<1>3. h[T] = Unfolded(g, h, T)
  BY <1>1, FoldAt
<1> QED
  BY <1>1, <1>2, <1>3 DEF Unfolded

(* It depends on the values only. *)
LEMMA SumSame ==
    ASSUME NEW f, NEW g, NEW T, IsFiniteSet(T), \A x \in T : f[x] \in Int /\ g[x] = f[x]
    PROVE  SumFunctionOnSet(f, T) = SumFunctionOnSet(g, T)
<1>1. PICK h : IsFold(f, T, h) /\ SumFunctionOnSet(f, T) = h[T]
  BY SumIsFold
<1>2. PICK k : IsFold(g, T, k) /\ SumFunctionOnSet(g, T) = k[T]
  BY SumIsFold
<1>3. (\A x \in T : f[x] \in Int /\ g[x] \in Int /\ f[x] <= g[x] /\ g[x] <= f[x]) /\ T \subseteq T
  OBVIOUS
<1>4. h[T] \in Int /\ k[T] \in Int /\ h[T] <= k[T]
  BY <1>1, <1>2, <1>3, FoldsOrdered
<1>5. k[T] <= h[T]
  BY <1>1, <1>2, <1>3, FoldsOrdered
<1> QED
  BY <1>1, <1>2, <1>4, <1>5

(* It is one value and the sum of the others. *)
LEMMA SumWithout ==
    ASSUME NEW g, NEW T, IsFiniteSet(T), \A x \in T : g[x] \in Int, NEW i \in T
    PROVE  SumFunctionOnSet(g, T) = g[i] + SumFunctionOnSet(g, T \ {i})
<1> DEFINE R == T \ {i}
<1>1. PICK h : IsFold(g, T, h) /\ SumFunctionOnSet(g, T) = h[T]
  BY SumIsFold
<1>2. IsFiniteSet(R) /\ R \subseteq T /\ R \subseteq R /\ \A x \in R : g[x] \in Int /\ g[x] <= g[x]
  BY FS_Subset
<1>3. h[T] = g[i] + h[R]
  <2>1. IsFold(g, T, h)
    BY <1>1
  <2> HIDE DEF R
  <2>2. h[T] = g[i] + h[T \ {i}]
    BY <2>1, FoldWithout
  <2> QED
    BY <2>2 DEF R
<1> HIDE DEF R
<1>4. PICK k : IsFold(g, R, k) /\ SumFunctionOnSet(g, R) = k[R]
  BY <1>2, SumIsFold
<1>5. h[R] \in Int /\ k[R] \in Int /\ h[R] <= k[R]
  BY <1>1, <1>2, <1>4, FoldsOrdered
<1>6. k[R] <= h[R]
  BY <1>1, <1>2, <1>4, FoldsOrdered
<1>7. k[R] = h[R]
  BY <1>5, <1>6
<1>8. SumFunctionOnSet(g, T) = g[i] + SumFunctionOnSet(g, R)
  BY <1>1, <1>3, <1>4, <1>7
<1> QED
  BY <1>8 DEF R

(* Of two sets that do not meet, the sums add up. *)
LEMMA SumOfBoth ==
    ASSUME NEW g, NEW A, NEW B, IsFiniteSet(A), IsFiniteSet(B), A \cap B = {},
           \A x \in A \cup B : g[x] \in Int
    PROVE  SumFunctionOnSet(g, A \cup B) = SumFunctionOnSet(g, A) + SumFunctionOnSet(g, B)
<1> DEFINE Both(t) == SumFunctionOnSet(g, A \cup t) = SumFunctionOnSet(g, A) + SumFunctionOnSet(g, t)
           G == {t \in SUBSET B : Both(t)}
<1>1. ASSUME NEW t \in SUBSET B, \A x \in t : t \ {x} \in G
      PROVE  t \in G
  <2>1. /\ IsFiniteSet(t) /\ IsFiniteSet(A \cup t)
        /\ (\A x \in t : g[x] \in Int) /\ (\A x \in A \cup t : g[x] \in Int) /\ (\A x \in A : g[x] \in Int)
    BY FS_Subset, FS_Union
  <2>2. CASE t = {}
    <3>1. SumFunctionOnSet(g, t) = 0 /\ SumFunctionOnSet(g, A) \in Int
      BY <2>1, <2>2, SumIs
    <3>2. SumFunctionOnSet(g, A \cup t) = SumFunctionOnSet(g, A)
      <4>1. A \cup t = A
        BY <2>2
      <4> QED
        BY <4>1, Zenon
    <3> QED
      BY <3>1, <3>2
  <2>3. CASE t # {}
    <3>1. PICK x \in t : TRUE
      BY <2>3
    <3> DEFINE r == t \ {x}
    <3>2. x \in A \cup t /\ (A \cup t) \ {x} = A \cup r
      BY <3>1
    <3>3. SumFunctionOnSet(g, A \cup t) = g[x] + SumFunctionOnSet(g, A \cup r)
      BY <2>1, <3>2, SumWithout
    <3>4. SumFunctionOnSet(g, t) = g[x] + SumFunctionOnSet(g, r)
      BY <2>1, <3>1, SumWithout
    <3>5. SumFunctionOnSet(g, A \cup r) = SumFunctionOnSet(g, A) + SumFunctionOnSet(g, r)
      BY <1>1, <3>1
    <3>6. IsFiniteSet(r) /\ \A y \in r : g[y] \in Int
      BY <2>1, FS_Subset
    <3> HIDE DEF r
    <3>7. SumFunctionOnSet(g, A) \in Int /\ SumFunctionOnSet(g, r) \in Int /\ g[x] \in Int
      BY <2>1, <3>1, <3>6, SumIs
    <3> QED
      BY <3>3, <3>4, <3>5, <3>7
  <2> QED
    BY <2>2, <2>3
<1>2. SUBSET B \subseteq G
  <2> HIDE DEF G
  <2> QED
    BY <1>1, SubsetInduction
<1> QED
  BY <1>2

(* Sorted by a key, the sums of the heaps add up to the sum of all. *)
LEMMA SumByKey ==
    ASSUME NEW g, NEW T, IsFiniteSet(T), \A x \in T : g[x] \in Int,
           NEW K, IsFiniteSet(K), NEW key, \A x \in T : key[x] \in K,
           NEW heap, \A k \in K : heap[k] \subseteq T /\ \A x \in T : x \in heap[k] <=> key[x] = k,
           NEW heaps, \A k \in K : heaps[k] = SumFunctionOnSet(g, heap[k])
    PROVE  SumFunctionOnSet(heaps, K) = SumFunctionOnSet(g, T)
<1> DEFINE Under(t) == {x \in T : key[x] \in t}
           G == {t \in SUBSET K : SumFunctionOnSet(heaps, t) = SumFunctionOnSet(g, Under(t))}
<1>1. \A t : IsFiniteSet(Under(t)) /\ \A x \in Under(t) : g[x] \in Int
  BY FS_Subset
<1>2. \A k \in K : heaps[k] \in Int
  <2> SUFFICES ASSUME NEW k \in K
               PROVE  heaps[k] \in Int
    OBVIOUS
  <2>1. heap[k] = Under({k}) /\ heaps[k] = SumFunctionOnSet(g, heap[k])
    OBVIOUS
  <2>2. SumFunctionOnSet(g, Under({k})) \in Int
    <3> HIDE DEF Under
    <3> QED
      BY <1>1, SumIs
  <2> QED
    BY <2>1, <2>2
<1>3. ASSUME NEW t \in SUBSET K, \A k \in t : t \ {k} \in G
      PROVE  t \in G
  <2>1. IsFiniteSet(t) /\ \A k \in t : heaps[k] \in Int
    BY <1>2, FS_Subset
  <2>2. CASE t = {}
    <3>0. Under(t) = {}
      BY <2>2
    <3>1. Under(t) = {} /\ IsFiniteSet(Under(t)) /\ \A x \in Under(t) : g[x] \in Int
      <4> HIDE DEF Under
      <4> QED
        BY <3>0, FS_EmptySet
    <3> HIDE DEF Under
    <3>2. SumFunctionOnSet(heaps, t) = 0 /\ SumFunctionOnSet(g, Under(t)) = 0
      BY <2>1, <2>2, <3>1, SumIs
    <3> QED
      BY <3>2
  <2>3. CASE t # {}
    <3>1. PICK k \in t : TRUE
      BY <2>3
    <3> DEFINE r == t \ {k}
               h == heap[k]
               rest == Under(r)
    <3>2. SumFunctionOnSet(heaps, t) = heaps[k] + SumFunctionOnSet(heaps, r)
      BY <2>1, <3>1, SumWithout
    <3>3. SumFunctionOnSet(heaps, r) = SumFunctionOnSet(g, Under(r))
      BY <1>3, <3>1
    <3>4. Under(t) = h \cup rest /\ h \cap rest = {} /\ h = Under({k})
      BY <3>1
    <3>5. IsFiniteSet(h) /\ IsFiniteSet(rest) /\ \A x \in h \cup rest : g[x] \in Int
      <4>1. \A u : IsFiniteSet(Under(u)) /\ \A x \in Under(u) : g[x] \in Int
        BY <1>1
      <4> HIDE DEF h, Under, r
      <4> QED
        BY <3>4, <4>1 DEF rest
    <3>6. heaps[k] = SumFunctionOnSet(g, h)
      BY <3>1
    <3> HIDE DEF h, rest, Under, r
    <3>7. SumFunctionOnSet(g, h \cup rest) = SumFunctionOnSet(g, h) + SumFunctionOnSet(g, rest)
      <4>1. \A A, B : /\ IsFiniteSet(A) /\ IsFiniteSet(B) /\ A \cap B = {}
                      /\ \A x \in A \cup B : g[x] \in Int
                      => SumFunctionOnSet(g, A \cup B) = SumFunctionOnSet(g, A) + SumFunctionOnSet(g, B)
        BY SumOfBoth
      <4>2. IsFiniteSet(h) /\ IsFiniteSet(rest) /\ h \cap rest = {} /\ \A x \in h \cup rest : g[x] \in Int
        BY <3>4, <3>5
      <4> QED
        BY <4>1, <4>2, Zenon
    <3>8. SumFunctionOnSet(g, Under(t)) = SumFunctionOnSet(g, h \cup rest)
      BY <3>4, Zenon
    <3> QED
      BY <3>2, <3>3, <3>6, <3>7, <3>8 DEF rest
  <2> QED
    BY <2>2, <2>3
<1>4. SUBSET K \subseteq G
  <2> HIDE DEF G
  <2> QED
    BY <1>3, SubsetInduction
<1>5. Under(K) = T
  OBVIOUS
<1>6. K \in G
  <2> HIDE DEF G
  <2> QED
    BY <1>4
<1> QED
  BY <1>5, <1>6

(* A set's size is the sum of as many ones. *)
LEMMA SizeIsSum ==
    ASSUME NEW g, NEW T, IsFiniteSet(T), \A x \in T : g[x] = 1
    PROVE  SumFunctionOnSet(g, T) = Cardinality(T)
<1> DEFINE G == {t \in SUBSET T : SumFunctionOnSet(g, t) = Cardinality(t)}
<1>1. ASSUME NEW t \in SUBSET T, \A x \in t : t \ {x} \in G
      PROVE  t \in G
  <2>1. IsFiniteSet(t) /\ \A x \in t : g[x] \in Int
    BY FS_Subset
  <2>2. CASE t = {}
    <3>1. SumFunctionOnSet(g, t) = 0 /\ Cardinality(t) = 0
      BY <2>1, <2>2, SumIs, FS_EmptySet
    <3> QED
      BY <3>1
  <2>3. CASE t # {}
    <3>1. PICK x \in t : TRUE
      BY <2>3
    <3>2. SumFunctionOnSet(g, t) = g[x] + SumFunctionOnSet(g, t \ {x}) /\ g[x] = 1
      BY <2>1, <3>1, SumWithout
    <3>3. SumFunctionOnSet(g, t \ {x}) = Cardinality(t \ {x})
      BY <1>1, <3>1
    <3>4. Cardinality(t \ {x}) = Cardinality(t) - 1 /\ Cardinality(t) \in Nat
      BY <2>1, <3>1, FS_RemoveElement, FS_CardinalityType
    <3> QED
      BY <3>2, <3>3, <3>4
  <2> QED
    BY <2>2, <2>3
<1>2. SUBSET T \subseteq G
  <2> HIDE DEF G
  <2> QED
    BY <1>1, SubsetInduction
<1> QED
  BY <1>2

-----------------------------------------------------------------------------
(* A finite set of numbers has a greatest and a least one. *)
LEMMA FiniteExtremes ==
    ASSUME NEW T, IsFiniteSet(T), T \subseteq Int, T # {}
    PROVE  /\ Max(T) \in T /\ \A x \in T : x <= Max(T)
           /\ Min(T) \in T /\ \A x \in T : Min(T) <= x
<1>1. PICK a \in Int, b \in Int : T \subseteq a..b
  BY FiniteIsBounded
<1>2. T \in SUBSET (a..b)
  BY <1>1
<1> QED
  BY <1>2, MaxOfRange, MinOfRange

(* The two detectors name a row alike. *)
LEMMA DetectorsAgree ==
    ASSUME NEW q, Posed(q), q.kind = "row", ~(q.row.ratio = "normal" /\ q.row.atr # "normal")
    PROVE  Detect(q.row) = DetectSeries(q.row)
<1>1. q.row.ratio \in {"high", "low", "normal", "unknown"}
  <2>1. q.row \in Rows
    BY DEF Posed
  <2> QED
    BY <2>1 DEF Rows, Levels3
<1>2. Volatility(q.row) = IF q.row.ratio = "unknown" THEN q.row.atr ELSE q.row.ratio
  BY <1>1 DEF Volatility
<1> QED
  BY <1>1, <1>2 DEF Detect, DetectSeries

(* A row of candles is refused, and given a reason, if and only if it is none. *)
LEMMA CandlesJudged ==
    ASSUME NEW q, Posed(q), q.kind = "candle"
    PROVE  LET c == q.candle
               candle == {c.open, c.close} \subseteq c.low..c.high /\ c.low > 0 /\ c.volume >= 0
           IN  Invalid(c) = ~candle /\ (Reasons(c) = {}) = candle
<1> DEFINE c == q.candle
           o == c.open
           h == c.high
           l == c.low
           e == c.close
           v == c.volume
           candle == {o, e} \subseteq l..h /\ l > 0 /\ v >= 0
<1>1. o \in Int /\ h \in Int /\ l \in Int /\ e \in Int /\ v \in Int
  BY DEF Posed
<1>2. /\ Max({o, e, l}) \in {o, e, l} /\ \A x \in {o, e, l} : x <= Max({o, e, l})
      /\ Min({o, e, h}) \in {o, e, h} /\ \A x \in {o, e, h} : Min({o, e, h}) <= x
      /\ Min({o, h, l, e}) \in {o, h, l, e} /\ \A x \in {o, h, l, e} : Min({o, h, l, e}) <= x
  <2>1. IsFiniteSet({o, e, l}) /\ IsFiniteSet({o, e, h}) /\ IsFiniteSet({o, h, l, e})
    <3>1. ASSUME NEW x, NEW y, NEW z
          PROVE  IsFiniteSet({x, y, z})
      <4>1. IsFiniteSet({} \cup {x})
        BY FS_EmptySet, FS_AddElement
      <4>2. IsFiniteSet(({} \cup {x}) \cup {y})
        BY <4>1, FS_AddElement
      <4>3. IsFiniteSet((({} \cup {x}) \cup {y}) \cup {z})
        BY <4>2, FS_AddElement
      <4>4. (({} \cup {x}) \cup {y}) \cup {z} = {x, y, z}
        OBVIOUS
      <4> QED
        BY <4>3, <4>4, Zenon
    <3>2. IsFiniteSet({o, h, l} \cup {e}) /\ {o, h, l} \cup {e} = {o, h, l, e}
      <4>1. IsFiniteSet({o, h, l})
        BY <3>1
      <4>2. IsFiniteSet({o, h, l} \cup {e})
        BY <4>1, FS_AddElement
      <4> QED
        BY <4>2
    <3> QED
      BY <3>1, <3>2, Zenon
  <2>2. {o, e, l} \subseteq Int /\ {o, e, h} \subseteq Int /\ {o, h, l, e} \subseteq Int
    BY <1>1
  <2> HIDE DEF o, h, l, e
  <2>3. {o, e, l} # {} /\ {o, e, h} # {} /\ {o, h, l, e} # {}
    OBVIOUS
  <2> QED
    BY <2>1, <2>2, <2>3, FiniteExtremes
<1> DEFINE top == Max({o, e, l})
           bottom == Min({o, e, h})
           least == Min({o, h, l, e})
           bad == h < top \/ l > bottom \/ h < l \/ least <= 0 \/ v < 0
<1>3. Invalid(c) <=> bad
  BY DEF Invalid
<1>4. Reasons(c) = {} <=> ~(h < top \/ l > bottom \/ h < l \/ (o <= 0 \/ h <= 0 \/ l <= 0 \/ e <= 0) \/ v < 0)
  BY DEF Reasons
<1> HIDE DEF c, o, h, l, e, v, top, bottom, least
<1>5. top \in {o, e, l} /\ o <= top /\ e <= top /\ l <= top
  BY <1>2 DEF top
<1>6. bottom \in {o, e, h} /\ bottom <= o /\ bottom <= e /\ bottom <= h
  BY <1>2 DEF bottom
<1>7. least \in {o, h, l, e} /\ least <= o /\ least <= h /\ least <= l /\ least <= e
  BY <1>2 DEF least
<1>8. candle <=> l <= o /\ o <= h /\ l <= e /\ e <= h /\ l > 0 /\ v >= 0
  BY <1>1
<1> HIDE DEF candle
<1>9. bad <=> ~candle
  BY <1>1, <1>5, <1>6, <1>7, <1>8
<1>10. (o <= 0 \/ h <= 0 \/ l <= 0 \/ e <= 0) <=> least <= 0
  BY <1>1, <1>7
<1>11. (Invalid(c) <=> ~candle) /\ (Reasons(c) = {} <=> candle)
  BY <1>3, <1>4, <1>9, <1>10
<1> QED
  BY <1>11 DEF candle, c, o, h, l, e, v, Invalid


(* What the VWAP of a day has gained since midnight. *)
LEMMA SessionsGain ==
    ASSUME NEW q, Posed(q), q.kind = "volumes",
           NEW i \in DOMAIN q.rows, NEW j \in {0} \cup 1..i - 1,
           q.rows[i].day # (IF j = 0 THEN 0 ELSE q.rows[j].day), q.rows[j + 1].day = q.rows[i].day,
           NEW n \in 1..2
    PROVE  SessionVwap(q.rows, i)[n] + (IF j = 0 THEN <<0, 0>> ELSE RunningVwap(q.rows, j))[n]
               = RunningVwap(q.rows, i)[n]
<1> DEFINE rows == q.rows
           session == {k \in 1..i : rows[k].day = rows[i].day}
           turnover == [k \in DOMAIN rows |-> rows[k].price * rows[k].volume]
           volume == [k \in DOMAIN rows |-> rows[k].volume]
<1>1. /\ DOMAIN rows = 1..Len(rows) /\ Len(rows) \in Nat
      /\ \A k \in DOMAIN rows : rows[k].price \in Int /\ rows[k].volume \in Int /\ rows[k].day \in Int
      /\ \A k, l \in DOMAIN rows : k < l => rows[k].day <= rows[l].day
  <2> DEFINE Row == [price : Int, volume : Int, day : Int]
  <2>1. rows \in Seq(Row)
    BY DEF Posed
  <2>2. \A k, l \in DOMAIN rows : k < l => rows[k].day <= rows[l].day
    BY DEF Posed
  <2> HIDE DEF rows
  <2>3. DOMAIN rows = 1..Len(rows) /\ Len(rows) \in Nat
    BY <2>1
  <2>4. \A k \in DOMAIN rows : rows[k] \in Row
    <3> HIDE DEF Row
    <3> QED
      BY <2>1
  <2> QED
    BY <2>2, <2>3, <2>4
<1>2. i \in DOMAIN rows /\ rows[i].day # (IF j = 0 THEN 0 ELSE rows[j].day) /\ rows[j + 1].day = rows[i].day
  OBVIOUS
<1>3. /\ SessionVwap(rows, i) = <<SumFunctionOnSet(turnover, session), SumFunctionOnSet(volume, session)>>
      /\ \A m : RunningVwap(rows, m) = <<SumFunctionOnSet(turnover, 1..m), SumFunctionOnSet(volume, 1..m)>>
  BY DEF SessionVwap, RunningVwap, Vwap
<1>4. \A k \in DOMAIN rows : turnover[k] \in Int /\ volume[k] \in Int
  <2> HIDE DEF rows
  <2> QED
    BY <1>1
<1> HIDE DEF turnover, volume, rows
<1>5. i \in Nat /\ j \in Nat /\ j < i /\ i <= Len(rows)
  BY <1>1, <1>2
<1>6. session = j + 1..i
  <2>1. \A k \in 1..j : rows[k].day # rows[i].day
    <3> SUFFICES ASSUME NEW k \in 1..j
                 PROVE  rows[k].day # rows[i].day
      OBVIOUS
    <3>1. j # 0 /\ j \in DOMAIN rows /\ k \in DOMAIN rows /\ rows[j].day # rows[i].day
      BY <1>1, <1>2, <1>5
    <3>2. rows[j].day <= rows[i].day
      BY <1>1, <1>2, <1>5, <3>1
    <3>3. k = j \/ rows[k].day <= rows[j].day
      <4>1. k = j \/ k < j
        BY <1>5
      <4> QED
        BY <1>1, <3>1, <4>1
    <3> QED
      BY <1>1, <1>2, <3>1, <3>2, <3>3
  <2>2. \A k \in j + 1..i : rows[k].day = rows[i].day
    <3> SUFFICES ASSUME NEW k \in j + 1..i
                 PROVE  rows[k].day = rows[i].day
      OBVIOUS
    <3>1. k \in DOMAIN rows /\ j + 1 \in DOMAIN rows
      BY <1>1, <1>5
    <3>2. j + 1 = k \/ rows[j + 1].day <= rows[k].day
      <4>1. j + 1 = k \/ j + 1 < k
        BY <1>5
      <4> QED
        BY <1>1, <3>1, <4>1
    <3>3. k = i \/ rows[k].day <= rows[i].day
      <4>1. k = i \/ k < i
        BY <1>5
      <4> QED
        BY <1>1, <1>2, <3>1, <4>1
    <3> QED
      BY <1>1, <1>2, <3>1, <3>2, <3>3
  <2> QED
    BY <1>5, <2>1, <2>2
<1> HIDE DEF session
<1>7. ASSUME NEW g, \A k \in DOMAIN rows : g[k] \in Int
      PROVE  /\ SumFunctionOnSet(g, session) + SumFunctionOnSet(g, 1..j) = SumFunctionOnSet(g, 1..i)
             /\ j = 0 => SumFunctionOnSet(g, 1..j) = 0
             /\ SumFunctionOnSet(g, session) \in Int
  <2>1. /\ IsFiniteSet(1..j) /\ IsFiniteSet(session) /\ (1..j) \cap session = {}
        /\ (1..j) \cup session = 1..i /\ 1..i \subseteq DOMAIN rows
    <3>1. IsFiniteSet(1..j) /\ IsFiniteSet(j + 1..i)
      BY <1>5, FS_Interval
    <3> QED
      BY <1>1, <1>5, <1>6, <3>1
  <2>2. (\A k \in (1..j) \cup session : g[k] \in Int) /\ (\A k \in 1..j : g[k] \in Int)
        /\ (\A k \in session : g[k] \in Int)
    BY <1>7, <2>1
  <2>3. SumFunctionOnSet(g, (1..j) \cup session) = SumFunctionOnSet(g, 1..j) + SumFunctionOnSet(g, session)
    BY <2>1, <2>2, SumOfBoth
  <2>4. SumFunctionOnSet(g, (1..j) \cup session) = SumFunctionOnSet(g, 1..i)
    BY <2>1, Zenon
  <2>5. /\ SumFunctionOnSet(g, 1..j) \in Int /\ SumFunctionOnSet(g, session) \in Int
        /\ 1..j = {} => SumFunctionOnSet(g, 1..j) = 0
    BY <2>1, <2>2, SumIs
  <2> QED
    BY <2>3, <2>4, <2>5
<1> DEFINE before == IF j = 0 THEN <<0, 0>> ELSE RunningVwap(rows, j)
<1>8. /\ before[1] = IF j = 0 THEN 0 ELSE SumFunctionOnSet(turnover, 1..j)
      /\ before[2] = IF j = 0 THEN 0 ELSE SumFunctionOnSet(volume, 1..j)
  BY <1>3
<1> HIDE DEF before
<1>9. SessionVwap(rows, i)[n] + before[n] = RunningVwap(rows, i)[n]
  <2>1. CASE n = 1
    <3>1. SumFunctionOnSet(turnover, session) + SumFunctionOnSet(turnover, 1..j) = SumFunctionOnSet(turnover, 1..i)
          /\ (j = 0 => SumFunctionOnSet(turnover, 1..j) = 0) /\ SumFunctionOnSet(turnover, session) \in Int
      BY <1>4, <1>7
    <3>2. before[1] = SumFunctionOnSet(turnover, 1..j)
      BY <1>8, <3>1
    <3>3. /\ SessionVwap(rows, i)[1] = SumFunctionOnSet(turnover, session)
          /\ RunningVwap(rows, i)[1] = SumFunctionOnSet(turnover, 1..i)
      BY <1>3
    <3> QED
      BY <2>1, <3>1, <3>2, <3>3
  <2>2. CASE n = 2
    <3>1. SumFunctionOnSet(volume, session) + SumFunctionOnSet(volume, 1..j) = SumFunctionOnSet(volume, 1..i)
          /\ (j = 0 => SumFunctionOnSet(volume, 1..j) = 0) /\ SumFunctionOnSet(volume, session) \in Int
      BY <1>4, <1>7
    <3>2. before[2] = SumFunctionOnSet(volume, 1..j)
      BY <1>8, <3>1
    <3>3. /\ SessionVwap(rows, i)[2] = SumFunctionOnSet(volume, session)
          /\ RunningVwap(rows, i)[2] = SumFunctionOnSet(volume, 1..i)
      BY <1>3
    <3> QED
      BY <2>2, <3>1, <3>2, <3>3
  <2> QED
    BY <2>1, <2>2
<1> QED
  BY <1>9 DEF before, rows

(* Nothing but zeros adds up to 0. *)
LEMMA SumOfZeros ==
    ASSUME NEW g, NEW T, IsFiniteSet(T), \A x \in T : g[x] = 0
    PROVE  SumFunctionOnSet(g, T) = 0
<1> DEFINE G == {t \in SUBSET T : SumFunctionOnSet(g, t) = 0}
<1>1. ASSUME NEW t \in SUBSET T, \A x \in t : t \ {x} \in G
      PROVE  t \in G
  <2>1. IsFiniteSet(t) /\ \A x \in t : g[x] \in Int
    BY FS_Subset
  <2>2. CASE t = {}
    <3>1. SumFunctionOnSet(g, t) = 0
      BY <2>1, <2>2, SumIs
    <3> QED
      BY <3>1
  <2>3. CASE t # {}
    <3>1. PICK x \in t : TRUE
      BY <2>3
    <3>2. SumFunctionOnSet(g, t) = g[x] + SumFunctionOnSet(g, t \ {x}) /\ g[x] = 0
      BY <2>1, <3>1, SumWithout
    <3>3. SumFunctionOnSet(g, t \ {x}) = 0
      BY <1>1, <3>1
    <3> QED
      BY <3>2, <3>3
  <2> QED
    BY <2>2, <2>3
<1>2. SUBSET T \subseteq G
  <2> HIDE DEF G
  <2> QED
    BY <1>1, SubsetInduction
<1> QED
  BY <1>2

(* Totals, curve, expected equity and breakdown count the same trades. *)
LEMMA BooksAgree ==
    ASSUME NEW q, Posed(q), q.kind = "books"
    PROVE  LET rows == q.trades
               total == Performance(rows).total
           IN  /\ Performance(rows).won - Performance(rows).lost = total
               /\ Booked(rows) # {} =>
                     ~Mismatch(Curve(rows, 10)[Max(Booked(rows))] + 3 - 1, Theoretical(rows, 10, 3, 1), 0)
               /\ ~Raises(rows) => \A days \in {1, 7} :
                     /\ SumFunction(Column(Breakdown(rows, days), "net")) = total
                     /\ SumFunction(Column(Breakdown(rows, days), "trades")) = Cardinality(Booked(rows))
<1> DEFINE rows == q.trades
           T == Booked(rows)
           pnl == Column(rows, "pnl")
           total == SumFunctionOnSet(pnl, T)
<1>1. /\ DOMAIN rows = 1..Len(rows) /\ Len(rows) \in Nat
      /\ \A n \in DOMAIN rows : rows[n].pnl \in Int /\ rows[n].exit \in Nat
  <2> DEFINE Row == [status : STRING, pnl : Int, fees : Int, exit : Nat]
  <2>1. rows \in Seq(Row)
    BY DEF Posed
  <2> HIDE DEF rows
  <2>2. DOMAIN rows = 1..Len(rows) /\ Len(rows) \in Nat
    BY <2>1
  <2>3. \A n \in DOMAIN rows : rows[n] \in Row
    <3> HIDE DEF Row
    <3> QED
      BY <2>1
  <2> QED
    BY <2>2, <2>3
<1> HIDE DEF rows
<1>2. /\ T \subseteq DOMAIN rows /\ IsFiniteSet(T) /\ T \subseteq Int
      /\ \A n \in T : pnl[n] \in Int /\ pnl[n] = rows[n].pnl
  <2>1. T \subseteq DOMAIN rows
    BY DEF Booked
  <2>2. IsFiniteSet(1..Len(rows))
    BY <1>1, FS_Interval
  <2> HIDE DEF T
  <2>3. IsFiniteSet(T)
    BY <1>1, <2>1, <2>2, FS_Subset
  <2> QED
    BY <1>1, <2>1, <2>3 DEF Column
<1>3. total \in Int
  <2> HIDE DEF T, pnl
  <2> QED
    BY <1>2, SumIs
<1>4. Performance(rows).won - Performance(rows).lost = total /\ Performance(rows).total = total
  <2> DEFINE won == {n \in T : pnl[n] > 0}
             lost == {n \in T : pnl[n] < 0}
             even == {n \in T : pnl[n] = 0}
  <2>1. /\ Performance(rows).won = SumFunctionOnSet(pnl, won)
        /\ Performance(rows).lost = -SumFunctionOnSet(pnl, lost)
        /\ Performance(rows).total = total
    <3>1. won = {n \in T : rows[n].pnl > 0} /\ lost = {n \in T : rows[n].pnl < 0}
      BY <1>2
    <3> HIDE DEF won, lost, T
    <3> QED
      BY <3>1 DEF Performance, Earned, T
  <2>2. /\ IsFiniteSet(won) /\ IsFiniteSet(lost) /\ IsFiniteSet(even)
        /\ \A n \in won \cup (lost \cup even) : pnl[n] \in Int
    <3> HIDE DEF T, pnl
    <3> QED
      BY <1>2, FS_Subset
  <2>3. /\ won \cup (lost \cup even) = T /\ won \cap (lost \cup even) = {} /\ lost \cap even = {}
        /\ \A n \in even : pnl[n] = 0
    <3> HIDE DEF T, pnl
    <3> QED
      BY <1>2
  <2> HIDE DEF won, lost, even, pnl
  <2>4. IsFiniteSet(lost \cup even)
    BY <2>2, FS_Union
  <2>5. SumFunctionOnSet(pnl, lost \cup even) = SumFunctionOnSet(pnl, lost) + SumFunctionOnSet(pnl, even)
    BY <2>2, <2>3, SumOfBoth
  <2>6. SumFunctionOnSet(pnl, won \cup (lost \cup even))
            = SumFunctionOnSet(pnl, won) + SumFunctionOnSet(pnl, lost \cup even)
    BY <2>2, <2>3, <2>4, SumOfBoth
  <2>7. SumFunctionOnSet(pnl, even) = 0
    BY <2>2, <2>3, SumOfZeros
  <2>8. SumFunctionOnSet(pnl, won) \in Int /\ SumFunctionOnSet(pnl, lost) \in Int
    BY <2>2, SumIs
  <2>9. SumFunctionOnSet(pnl, won \cup (lost \cup even)) = total
    BY <2>3, Zenon
  <2> HIDE DEF total
  <2> QED
    BY <2>1, <2>5, <2>6, <2>7, <2>8, <2>9
<1>5. ASSUME T # {}
      PROVE  ~Mismatch(Curve(rows, 10)[Max(T)] + 3 - 1, Theoretical(rows, 10, 3, 1), 0)
  <2>1. Max(T) \in T /\ \A n \in T : n <= Max(T)
    <3> HIDE DEF T
    <3> QED
      BY <1>2, <1>5, FiniteExtremes
  <2> DEFINE last == Max(T)
             upTo == {m \in T : m <= last}
  <2>2. upTo = T
    BY <2>1
  <2>3. Curve(rows, 10)[last] = 10 + SumFunctionOnSet(pnl, upTo)
    BY <2>1 DEF Curve, Earned
  <2>4. SumFunctionOnSet(pnl, upTo) = total
    BY <2>2, Zenon
  <2>5. Theoretical(rows, 10, 3, 1) = (10 + 3 - 1) + total
    BY <1>3 DEF Theoretical, Earned
  <2> DEFINE shown == Curve(rows, 10)[last]
             expected == Theoretical(rows, 10, 3, 1)
  <2> HIDE DEF total, upTo, shown, expected
  <2>6. shown = 10 + total /\ expected = 12 + total
    BY <1>3, <2>3, <2>4, <2>5 DEF shown, expected
  <2>7. (shown + 3 - 1) - expected = 0 /\ 0 \in -0..0
    BY <1>3, <2>6
  <2>8. ~Mismatch(shown + 3 - 1, expected, 0)
    BY <2>7 DEF Mismatch
  <2> QED
    BY <2>8 DEF shown, expected, last
<1>6. ASSUME ~Raises(rows), NEW days \in {1, 7}
      PROVE  /\ SumFunction(Column(Breakdown(rows, days), "net")) = total
             /\ SumFunction(Column(Breakdown(rows, days), "trades")) = Cardinality(T)
  <2> DEFINE key == [n \in T |-> Period(rows[n].exit, days)]
             K == {Period(rows[n].exit, days) : n \in T}
             nets == Column(Breakdown(rows, days), "net")
             sizes == Column(Breakdown(rows, days), "trades")
             ones == [n \in T |-> 1]
             heap == [k \in K |-> {n \in T : key[n] = k}]
  <2>1. \A k \in K : /\ {n \in T : Period(rows[n].exit, days) = k} = heap[k]
                     /\ heap[k] \subseteq T /\ \A n \in T : n \in heap[k] <=> key[n] = k
    <3> HIDE DEF K, T
    <3> QED
      OBVIOUS
  <2>2. /\ DOMAIN nets = K /\ DOMAIN sizes = K
        /\ \A k \in K : nets[k] = SumFunctionOnSet(pnl, heap[k]) /\ sizes[k] = Cardinality(heap[k])
    <3>1. DOMAIN Breakdown(rows, days) = K
      BY DEF Breakdown
    <3>2. ASSUME NEW k \in K
          PROVE  /\ Breakdown(rows, days)[k].net = SumFunctionOnSet(pnl, {n \in T : Period(rows[n].exit, days) = k})
                 /\ Breakdown(rows, days)[k].trades = Cardinality({n \in T : Period(rows[n].exit, days) = k})
      BY <3>2 DEF Breakdown, Earned
    <3>3. \A k \in K : /\ Breakdown(rows, days)[k].net = SumFunctionOnSet(pnl, heap[k])
                       /\ Breakdown(rows, days)[k].trades = Cardinality(heap[k])
      <4> SUFFICES ASSUME NEW k \in K
                   PROVE  /\ Breakdown(rows, days)[k].net = SumFunctionOnSet(pnl, heap[k])
                          /\ Breakdown(rows, days)[k].trades = Cardinality(heap[k])
        BY Zenon
      <4> DEFINE h == {n \in T : Period(rows[n].exit, days) = k}
      <4>1. h = heap[k]
        BY <2>1, Zenon
      <4>2. Breakdown(rows, days)[k].net = SumFunctionOnSet(pnl, h) /\ Breakdown(rows, days)[k].trades = Cardinality(h)
        BY <3>2, Zenon
      <4> HIDE DEF K, T, key, pnl, heap, h
      <4> QED
        BY <4>1, <4>2, Zenon
    <3> HIDE DEF K, T, key, pnl, heap
    <3> QED
      BY <3>1, <3>3 DEF Column
  <2>3. IsFiniteSet(K) /\ \A n \in T : key[n] \in K
    <3> HIDE DEF T
    <3>1. \A n \in T : key[n] \in K
      OBVIOUS
    <3>2. key \in Surjection(T, K)
      BY DEF Surjection
    <3> HIDE DEF key, K
    <3>3. IsFiniteSet(K)
      BY <1>2, <3>2, FS_Surjection
    <3> QED
      BY <3>1, <3>3
  <2>4. SumFunctionOnSet(nets, K) = SumFunctionOnSet(pnl, T)
    <3> HIDE DEF K, T, key, heap, pnl, nets, sizes
    <3> QED
      BY <1>2, <2>1, <2>2, <2>3, SumByKey
  <2>5. SumFunctionOnSet(sizes, K) = SumFunctionOnSet(ones, T)
    <3>1. \A n \in T : ones[n] \in Int
      OBVIOUS
    <3>2. ASSUME NEW k \in K
          PROVE  sizes[k] = SumFunctionOnSet(ones, heap[k])
      <4>1. IsFiniteSet(heap[k]) /\ \A n \in heap[k] : ones[n] = 1
        <5>1. \A n \in T : ones[n] = 1
          OBVIOUS
        <5> HIDE DEF T, K, heap, ones
        <5> QED
          BY <1>2, <2>1, <3>2, <5>1, FS_Subset
      <4> HIDE DEF K, T, ones, heap, sizes
      <4>2. SumFunctionOnSet(ones, heap[k]) = Cardinality(heap[k])
        BY <4>1, SizeIsSum
      <4> QED
        BY <2>2, <3>2, <4>2
    <3> HIDE DEF K, T, key, heap, ones, nets, sizes
    <3> QED
      BY <1>2, <2>1, <2>3, <3>1, <3>2, SumByKey
  <2>6. SumFunctionOnSet(ones, T) = Cardinality(T)
    <3>1. \A n \in T : ones[n] = 1
      OBVIOUS
    <3> HIDE DEF T, ones
    <3> QED
      BY <1>2, <3>1, SizeIsSum
  <2>7. SumFunction(nets) = SumFunctionOnSet(nets, K) /\ SumFunction(sizes) = SumFunctionOnSet(sizes, K)
    <3> HIDE DEF nets, sizes, K
    <3> QED
      BY <2>2 DEF SumFunction, FoldFunction, SumFunctionOnSet
  <2> QED
    BY <2>4, <2>5, <2>6, <2>7
<1> HIDE DEF total, T
<1>7. /\ Performance(rows).won - Performance(rows).lost = Performance(rows).total
      /\ T # {} => ~Mismatch(Curve(rows, 10)[Max(T)] + 3 - 1, Theoretical(rows, 10, 3, 1), 0)
      /\ ~Raises(rows) => \A days \in {1, 7} :
            /\ SumFunction(Column(Breakdown(rows, days), "net")) = Performance(rows).total
            /\ SumFunction(Column(Breakdown(rows, days), "trades")) = Cardinality(T)
  BY <1>4, <1>5, <1>6
<1> QED
  BY <1>7 DEF T, rows

(* What the user took and what was missed is all there was. *)
LEMMA OutcomesAddUp ==
    ASSUME NEW q, Posed(q), q.kind = "outcomes"
    PROVE  LET all == SignalPerformance(q.outcomes)
           IN  \A f \in DOMAIN all : UserTaken(q.outcomes)[f] + Missed(q.outcomes)[f] = all[f]
<1> DEFINE outcomes == q.outcomes
           wins == With(outcomes, {"WIN"})
           losses == With(outcomes, {"LOSS"})
           resolved == Resolved(outcomes)
           took == {n \in resolved : outcomes[n].taken}
           left == {n \in resolved : ~outcomes[n].taken}
           pct == Column(outcomes, "pct")
<1>1. DOMAIN outcomes = 1..Len(outcomes) /\ Len(outcomes) \in Nat /\ \A n \in DOMAIN outcomes : pct[n] \in Int
  <2> DEFINE Row == [outcome : STRING, taken : BOOLEAN, pct : Int]
  <2>1. outcomes \in Seq(Row)
    BY DEF Posed
  <2> HIDE DEF outcomes
  <2>2. DOMAIN outcomes = 1..Len(outcomes) /\ Len(outcomes) \in Nat
    BY <2>1
  <2>3. \A n \in DOMAIN outcomes : outcomes[n] \in Row
    <3> HIDE DEF Row
    <3> QED
      BY <2>1
  <2>4. \A r \in Row : r.pct \in Int
    OBVIOUS
  <2> HIDE DEF Row
  <2> QED
    BY <2>2, <2>3, <2>4 DEF Column
<1> HIDE DEF outcomes
<1>2. resolved = wins \cup losses /\ wins \cap losses = {} /\ resolved \subseteq DOMAIN outcomes
  BY DEF Resolved, With
<1>3. took \cup left = resolved /\ took \cap left = {}
  <2> HIDE DEF resolved
  <2> QED
    BY Zenon
<1>4. /\ IsFiniteSet(wins) /\ IsFiniteSet(losses) /\ IsFiniteSet(took) /\ IsFiniteSet(left)
      /\ IsFiniteSet(took \cap wins) /\ IsFiniteSet(left \cap wins)
      /\ \A n \in resolved : pct[n] \in Int
  <2> HIDE DEF wins, losses, resolved, took, left, pct
  <2>1. IsFiniteSet(DOMAIN outcomes)
    BY <1>1, FS_Interval
  <2>2. IsFiniteSet(resolved)
    BY <1>2, <2>1, FS_Subset
  <2> QED
    BY <1>1, <1>2, <1>3, <2>2, FS_Subset
<1> DEFINE Shown(rows) == [count |-> Cardinality(rows), pct |-> SumFunctionOnSet(pct, rows),
                           wins |-> Cardinality(rows \cap wins)]
<1>5. /\ UserTaken(outcomes) = Shown(took) /\ Missed(outcomes) = Shown(left)
      /\ SignalPerformance(outcomes) = [count |-> Cardinality(wins) + Cardinality(losses),
                                        pct |-> SumFunctionOnSet(pct, wins \cup losses), wins |-> Cardinality(wins)]
  BY DEF UserTaken, Missed, Summary, SignalPerformance
<1> HIDE DEF wins, losses, resolved, took, left, pct
<1>6. Cardinality(took) + Cardinality(left) = Cardinality(wins) + Cardinality(losses)
  <2>1. Cardinality(took \cup left) = Cardinality(took) + Cardinality(left) - Cardinality(took \cap left)
    BY <1>4, FS_Union
  <2>2. Cardinality(wins \cup losses) = Cardinality(wins) + Cardinality(losses) - Cardinality(wins \cap losses)
    BY <1>4, FS_Union
  <2>3. Cardinality(took \cup left) = Cardinality(wins \cup losses)
    <3>1. took \cup left = wins \cup losses
      BY <1>2, <1>3
    <3> QED
      BY <3>1, Zenon
  <2>4. Cardinality(took \cap left) = 0 /\ Cardinality(wins \cap losses) = 0
    BY <1>2, <1>3, FS_EmptySet
  <2>5. /\ Cardinality(took) \in Nat /\ Cardinality(left) \in Nat
        /\ Cardinality(wins) \in Nat /\ Cardinality(losses) \in Nat
    BY <1>4, FS_CardinalityType
  <2> QED
    BY <2>1, <2>2, <2>3, <2>4, <2>5
<1>7. Cardinality(took \cap wins) + Cardinality(left \cap wins) = Cardinality(wins)
  <2> DEFINE a == took \cap wins
             b == left \cap wins
  <2>1. a \cup b = wins /\ a \cap b = {} /\ IsFiniteSet(a) /\ IsFiniteSet(b)
    BY <1>2, <1>3, <1>4
  <2> HIDE DEF a, b
  <2>2. Cardinality(a \cup b) = Cardinality(a) + Cardinality(b) - Cardinality(a \cap b)
    BY <2>1, FS_Union
  <2>3. Cardinality(a \cap b) = 0
    BY <2>1, FS_EmptySet
  <2>4. Cardinality(a) \in Nat /\ Cardinality(b) \in Nat
    BY <2>1, FS_CardinalityType
  <2>5. Cardinality(a) + Cardinality(b) = Cardinality(wins)
    <3>1. Cardinality(a \cup b) = Cardinality(wins)
      BY <2>1, Zenon
    <3> QED
      BY <2>2, <2>3, <2>4, <3>1
  <2> QED
    BY <2>5 DEF a, b
<1>8. SumFunctionOnSet(pct, took) + SumFunctionOnSet(pct, left) = SumFunctionOnSet(pct, wins \cup losses)
  <2>1. SumFunctionOnSet(pct, took \cup left) = SumFunctionOnSet(pct, took) + SumFunctionOnSet(pct, left)
    BY <1>3, <1>4, SumOfBoth
  <2>2. took \cup left = wins \cup losses
    BY <1>2, <1>3
  <2>3. SumFunctionOnSet(pct, took \cup left) = SumFunctionOnSet(pct, wins \cup losses)
    BY <2>2, Zenon
  <2> QED
    BY <2>1, <2>3
<1>9. ASSUME NEW f \in {"count", "pct", "wins"}
      PROVE  UserTaken(outcomes)[f] + Missed(outcomes)[f] = SignalPerformance(outcomes)[f]
  <2> DEFINE mine == UserTaken(outcomes)
             others == Missed(outcomes)
             all == SignalPerformance(outcomes)
  <2>1. mine.count = Cardinality(took) /\ others.count = Cardinality(left) /\ all.count = Cardinality(wins) + Cardinality(losses)
    <3>1. mine.count = Cardinality(took)
      BY <1>5
    <3>2. others.count = Cardinality(left)
      BY <1>5
    <3>3. all.count = Cardinality(wins) + Cardinality(losses)
      BY <1>5
    <3> QED
      BY <3>1, <3>2, <3>3
  <2>2. mine.pct = SumFunctionOnSet(pct, took) /\ others.pct = SumFunctionOnSet(pct, left) /\ all.pct = SumFunctionOnSet(pct, wins \cup losses)
    <3>1. mine.pct = SumFunctionOnSet(pct, took)
      BY <1>5
    <3>2. others.pct = SumFunctionOnSet(pct, left)
      BY <1>5
    <3>3. all.pct = SumFunctionOnSet(pct, wins \cup losses)
      BY <1>5
    <3> QED
      BY <3>1, <3>2, <3>3
  <2>3. mine.wins = Cardinality(took \cap wins) /\ others.wins = Cardinality(left \cap wins) /\ all.wins = Cardinality(wins)
    <3>1. mine.wins = Cardinality(took \cap wins)
      BY <1>5
    <3>2. others.wins = Cardinality(left \cap wins)
      BY <1>5
    <3>3. all.wins = Cardinality(wins)
      BY <1>5
    <3> QED
      BY <3>1, <3>2, <3>3
  <2> HIDE DEF mine, others, all
  <2>4. mine.count + others.count = all.count /\ mine.pct + others.pct = all.pct
        /\ mine.wins + others.wins = all.wins
    BY <1>6, <1>7, <1>8, <2>1, <2>2, <2>3
  <2>5. mine[f] + others[f] = all[f]
    BY <1>9, <2>4
  <2> QED
    BY <2>5 DEF mine, others, all
<1>10. DOMAIN SignalPerformance(outcomes) = {"count", "pct", "wins"}
  BY DEF SignalPerformance
<1> QED
  BY <1>9, <1>10 DEF outcomes

-----------------------------------------------------------------------------
(* What the first n trades of a list have earned. *)
Balance(ts, n) == SumFunctionOnSet([k \in DOMAIN ts |-> ts[k].pnl], 1..n)

(* Every point of a curve is such a balance, none is skipped, and their order is that of the trades. *)
Traces(pos, cs, ts) ==
    /\ pos \in [1..Len(cs) -> 0..Len(ts)]
    /\ \A i \in 1..Len(cs) : cs[i] = Balance(ts, pos[i])
    /\ \A i, j \in 1..Len(cs) : i <= j => pos[i] <= pos[j]
    /\ cs # <<>> => \A n \in 0..Len(ts) : \E i \in 1..Len(cs) : pos[i] = n

Listed(ts) == Len(ts) \in Nat /\ DOMAIN ts = 1..Len(ts) /\ \A k \in DOMAIN ts : ts[k].pnl \in Int

BalanceInv ==
    /\ trade # NoTrade => trade.entry \in Int
    /\ \A n \in DOMAIN trades : trades[n].pnl \in Int
    /\ equity = Balance(trades, Len(trades))
    /\ curve \in Seq(Int)
    /\ (curve = <<>> => bars = <<>>) /\ (bars = <<>> => trades = <<>>)
    /\ \E pos : Traces(pos, curve, trades)

(* A trade more changes no earlier balance, and the last one by what it earned. *)
LEMMA BalanceGrows ==
    ASSUME NEW ts, NEW us, Listed(ts), Listed(us), Len(us) = Len(ts) + 1,
           \A k \in 1..Len(ts) : us[k] = ts[k]
    PROVE  /\ \A n \in 0..Len(ts) : Balance(us, n) = Balance(ts, n) /\ Balance(ts, n) \in Int
           /\ Balance(us, Len(us)) = Balance(ts, Len(ts)) + us[Len(us)].pnl
<1> DEFINE L == Len(ts)
           old == [k \in DOMAIN ts |-> ts[k].pnl]
           new == [k \in DOMAIN us |-> us[k].pnl]
<1>1. /\ L \in Nat /\ Len(us) = L + 1
      /\ \A k \in 1..L : old[k] \in Int /\ new[k] = old[k]
      /\ \A k \in 1..L + 1 : new[k] \in Int
      /\ new[L + 1] = us[L + 1].pnl
  BY DEF Listed
<1>2. \A ms, n : Balance(ms, n) = SumFunctionOnSet([k \in DOMAIN ms |-> ms[k].pnl], 1..n)
  BY DEF Balance
<1>3. \A n : Balance(us, n) = SumFunctionOnSet(new, 1..n) /\ Balance(ts, n) = SumFunctionOnSet(old, 1..n)
  BY <1>2
<1> HIDE DEF old, new
<1>4. ASSUME NEW n \in 0..L
      PROVE  SumFunctionOnSet(new, 1..n) = SumFunctionOnSet(old, 1..n) /\ SumFunctionOnSet(old, 1..n) \in Int
  <2>1. IsFiniteSet(1..n)
    BY FS_Interval
  <2>2. 1..n \subseteq 1..L
    BY <1>1
  <2>3. \A k \in 1..n : old[k] \in Int /\ new[k] = old[k]
    BY <1>1, <2>2
  <2> QED
    BY <2>1, <2>3, SumSame, SumIs
<1>5. SumFunctionOnSet(new, 1..L + 1) = new[L + 1] + SumFunctionOnSet(new, 1..L)
  <2> HIDE DEF L
  <2>1. L + 1 \in 1..L + 1 /\ (1..L + 1) \ {L + 1} = 1..L /\ IsFiniteSet(1..L + 1)
    <3>1. L + 1 \in Int
      BY <1>1
    <3>2. IsFiniteSet(1..L + 1)
      BY <3>1, FS_Interval
    <3> QED
      BY <1>1, <3>2
  <2>2. SumFunctionOnSet(new, 1..L + 1) = new[L + 1] + SumFunctionOnSet(new, (1..L + 1) \ {L + 1})
    <3> DEFINE U == 1..L + 1
    <3>1. IsFiniteSet(U) /\ L + 1 \in U /\ \A k \in U : new[k] \in Int
      BY <1>1, <2>1 DEF L
    <3> HIDE DEF U
    <3>2. SumFunctionOnSet(new, U) = new[L + 1] + SumFunctionOnSet(new, U \ {L + 1})
      BY <3>1, SumWithout
    <3> QED
      BY <3>2 DEF U
  <2>3. SumFunctionOnSet(new, (1..L + 1) \ {L + 1}) = SumFunctionOnSet(new, 1..L)
    BY <2>1, Zenon
  <2> QED
    BY <2>2, <2>3
<1>6. L \in 0..L
  BY <1>1
<1>7. Balance(us, L + 1) = Balance(ts, L) + us[L + 1].pnl
  <2>1. Balance(us, L + 1) = new[L + 1] + Balance(ts, L) /\ Balance(ts, L) \in Int
    BY <1>3, <1>4, <1>5, <1>6
  <2> QED
    BY <1>1, <2>1
<1>8. Balance(us, Len(us)) = Balance(us, L + 1) /\ us[Len(us)].pnl = us[L + 1].pnl
  BY <1>1
<1> QED
  BY <1>3, <1>4, <1>7, <1>8

(* The curve gets the balance as its next point. *)
LEMMA CurveGrows ==
    ASSUME NEW cs, cs \in Seq(Int), NEW ts, NEW us, Listed(ts), Listed(us), NEW pos, Traces(pos, cs, ts),
           us = ts \/ (Len(us) = Len(ts) + 1 /\ \A k \in 1..Len(ts) : us[k] = ts[k]),
           cs = <<>> => us = ts /\ Len(ts) = 0,
           NEW e, e = Balance(us, Len(us)), e \in Int
    PROVE  /\ Append(cs, e) \in Seq(Int) /\ Append(cs, e) # <<>>
           /\ \E p : Traces(p, Append(cs, e), us)
<1> DEFINE m == Len(cs)
           ds == Append(cs, e)
           p == [i \in 1..m + 1 |-> IF i = m + 1 THEN Len(us) ELSE pos[i]]
<1>1. /\ ds \in Seq(Int) /\ m \in Nat /\ Len(ds) = m + 1 /\ ds # <<>>
      /\ \A i \in 1..m : ds[i] = cs[i]
      /\ ds[m + 1] = e
      /\ cs # <<>> <=> m # 0
  BY AppendProperties, LenProperties
<1>2. /\ Len(ts) \in Nat /\ Len(us) \in Nat /\ Len(ts) <= Len(us)
      /\ \A n \in 0..Len(ts) : Balance(us, n) = Balance(ts, n)
      /\ \A n \in 0..Len(us) : n \in 0..Len(ts) \/ n = Len(us)
  <2>1. CASE us = ts
    <3>1. \A n : Balance(us, n) = Balance(ts, n)
      BY <2>1, Zenon
    <3>2. Len(us) = Len(ts) /\ Len(ts) \in Nat
      BY <2>1, Zenon DEF Listed
    <3> QED
      BY <3>1, <3>2
  <2>2. CASE us # ts
    <3>1. Len(us) = Len(ts) + 1 /\ \A k \in 1..Len(ts) : us[k] = ts[k]
      BY <2>2
    <3>2. \A n \in 0..Len(ts) : Balance(us, n) = Balance(ts, n)
      BY <3>1, BalanceGrows
    <3> QED
      BY <3>1, <3>2 DEF Listed
  <2> QED
    BY <2>1, <2>2
<1> HIDE DEF ds
<1>3. /\ \A i \in 1..m : pos[i] \in 0..Len(ts) /\ cs[i] = Balance(ts, pos[i])
      /\ \A i, j \in 1..m : i <= j => pos[i] <= pos[j]
      /\ m # 0 => \A n \in 0..Len(ts) : \E i \in 1..m : pos[i] = n
  BY <1>1 DEF Traces
<1>4. /\ DOMAIN p = 1..m + 1 /\ p[m + 1] = Len(us)
      /\ \A i \in 1..m : p[i] = pos[i] /\ p[i] \in 0..Len(ts)
      /\ p \in [1..m + 1 -> 0..Len(us)]
  <2>1. \A i \in 1..m + 1 : i \in 1..m \/ i = m + 1
    BY <1>1
  <2>2. \A i \in 1..m : i # m + 1 /\ i \in 1..m + 1
    BY <1>1
  <2>3. m + 1 \in 1..m + 1 /\ Len(us) \in 0..Len(us) /\ \A n \in 0..Len(ts) : n \in 0..Len(us)
    BY <1>1, <1>2
  <2> QED
    BY <1>3, <2>1, <2>2, <2>3
<1> HIDE DEF p
<1>5. \A i \in 1..m + 1 : ds[i] = Balance(us, p[i])
  <2> SUFFICES ASSUME NEW i \in 1..m + 1
               PROVE  ds[i] = Balance(us, p[i])
    OBVIOUS
  <2>1. CASE i = m + 1
    BY <1>1, <1>4, <2>1
  <2>2. CASE i # m + 1
    <3>1. i \in 1..m
      BY <1>1, <2>2
    <3>2. Balance(us, pos[i]) = Balance(ts, pos[i])
      BY <1>2, <1>3, <3>1
    <3> QED
      BY <1>1, <1>3, <1>4, <3>1, <3>2
  <2> QED
    BY <2>1, <2>2
<1>6. \A i, j \in 1..m + 1 : i <= j => p[i] <= p[j]
  <2> SUFFICES ASSUME NEW i \in 1..m + 1, NEW j \in 1..m + 1, i <= j
               PROVE  p[i] <= p[j]
    OBVIOUS
  <2>1. CASE j = m + 1
    <3>1. p[i] \in 0..Len(us)
      BY <1>4
    <3> QED
      BY <1>2, <1>4, <2>1, <3>1
  <2>2. CASE j # m + 1
    <3>1. i \in 1..m /\ j \in 1..m
      BY <1>1, <2>2
    <3> QED
      BY <1>3, <1>4, <3>1
  <2> QED
    BY <2>1, <2>2
<1>7. \A n \in 0..Len(us) : \E i \in 1..m + 1 : p[i] = n
  <2> SUFFICES ASSUME NEW n \in 0..Len(us)
               PROVE  \E i \in 1..m + 1 : p[i] = n
    OBVIOUS
  <2>1. CASE n = Len(us)
    <3>1. m + 1 \in 1..m + 1
      BY <1>1
    <3> QED
      BY <1>4, <2>1, <3>1
  <2>2. CASE n # Len(us)
    <3>1. n \in 0..Len(ts)
      BY <1>2, <2>2
    <3>2. m # 0
      BY <1>1, <1>2, <2>2
    <3>3. PICK i \in 1..m : pos[i] = n
      BY <1>3, <3>1, <3>2
    <3>4. i \in 1..m + 1
      BY <1>1
    <3> QED
      BY <1>4, <3>3, <3>4
  <2> QED
    BY <2>1, <2>2
<1>8. Traces(p, ds, us)
  BY <1>1, <1>4, <1>5, <1>6, <1>7 DEF Traces
<1> QED
  BY <1>1, <1>8 DEF ds

(* What runs into a bar has levels, an entry and a charge that are numbers. *)
LEMMA FundedIsPriced ==
    ASSUME ReplayInv, BalanceInv, NEW b \in Bars, NEW allowed \in BOOLEAN,
           NEW m, m = IF pending # NoSignal /\ trade = NoTrade /\ allowed THEN Fill(b, Len(bars) + 1) ELSE trade,
           NEW t, t = Funded(m, Len(bars) + 1)
    PROVE  /\ m = NoTrade => t = NoTrade
           /\ m # NoTrade => /\ bars # <<>> /\ t # NoTrade
                             /\ t.entry \in Int /\ t.funding \in Int /\ t.sig.sl \in Int /\ t.sig.tp \in Int
<1> DEFINE n == Len(bars)
<1>1. m = NoTrade => t = NoTrade
  BY DEF Funded
<1>2. bars \in Seq(Bars) /\ n \in Nat /\ DOMAIN bars = 1..n /\ \A i \in 1..n : bars[i] \in Bars
  <2>1. bars \in Seq(Bars)
    BY DEF ReplayInv
  <2> QED
    BY <2>1, LenProperties, ElementOfSeq
<1>3. b.open \in Int /\ \A i \in 1..n : bars[i].close \in Int
  BY <1>2, BacktestAssumption
<1> SUFFICES ASSUME m # NoTrade
             PROVE  /\ bars # <<>> /\ t # NoTrade
                    /\ t.entry \in Int /\ t.funding \in Int /\ t.sig.sl \in Int /\ t.sig.tp \in Int
  BY <1>1
<1>4. Running(bars, m, n) /\ m.filled <= n + 1 /\ n # 0 /\ m.entry \in Int
  <2>1. CASE m = trade
    <3>1. Running(bars, trade, n) /\ trade.filled <= n /\ trade.entry \in Int
      BY <2>1 DEF ReplayInv, BalanceInv
    <3>2. trade.filled = trade.sig.at + 1 /\ trade.sig.at \in Nat
      BY <3>1 DEF Running
    <3> QED
      BY <1>2, <2>1, <3>1, <3>2
  <2>2. CASE m # trade
    <3>1. m = Fill(b, n + 1) /\ pending # NoSignal
      BY <2>2
    <3>2. Decided(bars, pending, n)
      BY <3>1 DEF ReplayInv
    <3>3. n # 0
      BY <1>2, <3>2 DEF Decided
    <3>4. Running(bars, m, n) /\ m.filled = n + 1
      BY <1>2, <3>1, <3>2, FillRuns
    <3>5. m.entry = b.open + Sign(pending.side) * Slip
      BY <3>1 DEF Fill
    <3>6. m.entry \in Int
      <4>1. Sign(pending.side) \in {1, -1} /\ Slip \in Nat
        BY Signs, BacktestAssumption
      <4> QED
        BY <1>3, <3>5, <4>1
    <3> QED
      BY <1>2, <3>3, <3>4, <3>6
  <2> QED
    BY <2>1, <2>2
<1>5. bars # <<>> /\ settled = {e \in Events : e <= 2 * n}
  <2>1. bars # <<>>
    BY <1>4
  <2> QED
    BY <2>1 DEF ReplayInv
<1>6. t # NoTrade /\ t.sig = m.sig /\ t.funding \in Int /\ t.entry = m.entry
  <2> HIDE DEF n
  <2>1. /\ t # NoTrade /\ t.sig = m.sig /\ t.funding \in Int
        /\ t = [status |-> "open", sig |-> m.sig, entry |-> m.entry, filled |-> m.filled, funding |-> t.funding]
    BY <1>2, <1>4, <1>5, FundedRuns DEF n
  <2>2. t.entry = m.entry
    BY <2>1
  <2> QED
    BY <2>1, <2>2
<1>7. m.sig.sl \in Int /\ m.sig.tp \in Int
  <2>1. Decided(bars, m.sig, m.sig.at)
    BY <1>4 DEF Running
  <2>2. PICK at \in DOMAIN bars : \E side \in {"LONG", "SHORT"} : m.sig = Signal(side, at, bars[at].close)
    BY <2>1 DEF Decided
  <2>3. PICK side \in {"LONG", "SHORT"} : m.sig = Signal(side, at, bars[at].close)
    BY <2>2
  <2> DEFINE close == bars[at].close
             g == Sign(side)
  <2>4. m.sig.sl = close - g * Risk /\ m.sig.tp = close + g * Reward
    BY <2>3 DEF Signal
  <2>5. close \in Int /\ g \in {1, -1} /\ Risk \in Nat /\ Reward \in Nat
    BY <1>2, <1>3, Signs, BacktestAssumption
  <2> HIDE DEF close, g
  <2> QED
    BY <2>4, <2>5
<1> QED
  BY <1>4, <1>5, <1>6, <1>7

(* So it ends at a price, *)
LEMMA ExitIsPriced ==
    ASSUME NEW t, t.sig.sl \in Int, t.sig.tp \in Int, NEW b \in Bars
    PROVE  Exit(t, b).price \in Int
<1> DEFINE g == Sign(t.sig.side)
<1>1. b.open \in Int /\ g \in {1, -1} /\ Slip \in Nat
  BY Signs, BacktestAssumption
<1>2. /\ StopFill(t.sig, b) \in {b.open - g * Slip, t.sig.sl - g * Slip}
      /\ Exit(t, b).price \in {StopFill(t.sig, b), t.sig.tp - g * Slip}
  <2>1. StopFill(t.sig, b) \in {b.open - g * Slip, t.sig.sl - g * Slip}
    BY DEF StopFill
  <2> HIDE DEF g
  <2>2. Exit(t, b).price \in {StopFill(t.sig, b), t.sig.tp - g * Slip}
    BY DEF Exit, g
  <2> QED
    BY <2>1, <2>2
<1> HIDE DEF g
<1> QED
  BY <1>1, <1>2

(* and has earned a number. *)
LEMMA ClosedIsPriced ==
    ASSUME NEW t, t.entry \in Int, t.funding \in Int, NEW exit, exit.price \in Int, NEW i
    PROVE  Closed(t, exit, i).pnl \in Int
<1> DEFINE g == Sign(t.sig.side)
<1>1. Closed(t, exit, i).pnl = g * (exit.price - t.entry) - 2 * Fee - t.funding
  BY DEF Closed
<1>2. g \in {1, -1} /\ Fee \in Nat
  BY Signs, BacktestAssumption
<1> HIDE DEF g
<1> QED
  BY <1>1, <1>2

(* Trades that are at most one more, and a curve with the balance as its next point. *)
LEMMA BalanceKept ==
    ASSUME ReplayInv, BalanceInv, NEW us, NEW c,
           us = trades \/ (bars # <<>> /\ us = Append(trades, c) /\ c.pnl \in Int),
           NEW e, e = IF us = trades THEN equity ELSE equity + c.pnl
    PROVE  /\ Listed(us) /\ e = Balance(us, Len(us))
           /\ Append(curve, e) \in Seq(Int) /\ Append(curve, e) # <<>>
           /\ \E p : Traces(p, Append(curve, e), us)
<1>1. PICK S : trades \in Seq(S)
  BY DEF ReplayInv
<1>2. Listed(trades)
  <2>1. Len(trades) \in Nat /\ DOMAIN trades = 1..Len(trades)
    BY <1>1, LenProperties
  <2> QED
    BY <2>1 DEF BalanceInv, Listed
<1>3. Len(trades) \in Int
  BY <1>2 DEF Listed
<1>4. equity = Balance(trades, Len(trades)) /\ equity \in Int
  <2> DEFINE old == [k \in DOMAIN trades |-> trades[k].pnl]
  <2>1. Balance(trades, Len(trades)) = SumFunctionOnSet(old, 1..Len(trades))
    BY DEF Balance
  <2>2. IsFiniteSet(1..Len(trades)) /\ \A k \in 1..Len(trades) : old[k] \in Int
    <3>1. IsFiniteSet(1..Len(trades))
      BY <1>3, FS_Interval
    <3> QED
      BY <1>2, <3>1 DEF Listed
  <2> HIDE DEF old
  <2>3. SumFunctionOnSet(old, 1..Len(trades)) \in Int
    BY <2>2, SumIs
  <2>4. equity = Balance(trades, Len(trades))
    BY DEF BalanceInv
  <2> QED
    BY <2>1, <2>3, <2>4
<1>5. us # trades => /\ Listed(us) /\ Len(us) = Len(trades) + 1 /\ us[Len(us)] = c /\ bars # <<>> /\ c.pnl \in Int
                     /\ \A k \in 1..Len(trades) : us[k] = trades[k]
  <2> SUFFICES ASSUME us # trades
               PROVE  /\ Listed(us) /\ Len(us) = Len(trades) + 1 /\ us[Len(us)] = c /\ bars # <<>> /\ c.pnl \in Int
                      /\ \A k \in 1..Len(trades) : us[k] = trades[k]
    OBVIOUS
  <2> DEFINE C == S \cup {c}
  <2>1. trades \in Seq(C) /\ c \in C /\ us = Append(trades, c)
    BY <1>1
  <2> HIDE DEF C
  <2>2. /\ Len(us) = Len(trades) + 1 /\ Len(trades) \in Nat /\ us \in Seq(C)
        /\ us[Len(trades) + 1] = c
        /\ \A k \in 1..Len(trades) : us[k] = trades[k]
    BY <2>1, AppendProperties, LenProperties
  <2>3. DOMAIN us = 1..Len(us)
    BY <2>2, LenProperties
  <2>4. \A k \in DOMAIN us : us[k].pnl \in Int
    <3> SUFFICES ASSUME NEW k \in DOMAIN us
                 PROVE  us[k].pnl \in Int
      OBVIOUS
    <3>1. k \in 1..Len(trades) \/ k = Len(trades) + 1
      BY <2>2, <2>3
    <3> QED
      BY <1>2, <2>2, <3>1 DEF Listed
  <2> QED
    BY <2>2, <2>3, <2>4 DEF Listed
<1>6. Listed(us) /\ e = Balance(us, Len(us)) /\ e \in Int
  <2>1. CASE us = trades
    <3>1. Balance(us, Len(us)) = Balance(trades, Len(trades)) /\ Listed(us)
      BY <1>2, <2>1, Zenon
    <3> QED
      BY <1>4, <2>1, <3>1
  <2>2. CASE us # trades
    <3>1. Balance(us, Len(us)) = Balance(trades, Len(trades)) + us[Len(us)].pnl
      BY <1>2, <1>5, <2>2, BalanceGrows
    <3> QED
      BY <1>4, <1>5, <2>2, <3>1
  <2> QED
    BY <2>1, <2>2
<1>7. curve = <<>> => us = trades /\ Len(trades) = 0
  <2> SUFFICES ASSUME curve = <<>>
               PROVE  us = trades /\ Len(trades) = 0
    OBVIOUS
  <2>1. bars = <<>> /\ trades = <<>>
    BY DEF BalanceInv
  <2> QED
    BY <1>5, <2>1
<1>8. curve \in Seq(Int) /\ \E pos : Traces(pos, curve, trades)
  BY DEF BalanceInv
<1>9. PICK pos : Traces(pos, curve, trades)
  BY <1>8
<1>10. us = trades \/ (Len(us) = Len(trades) + 1 /\ \A k \in 1..Len(trades) : us[k] = trades[k])
  BY <1>5
<1> QED
  BY <1>2, <1>6, <1>7, <1>8, <1>9, <1>10, CurveGrows

(* Before the first bar nothing is earned, and the curve is empty. *)
LEMMA BalanceInitially == Init => BalanceInv
<1> SUFFICES ASSUME Init
             PROVE  BalanceInv
  OBVIOUS
<1>1. /\ bars = <<>> /\ trades = <<>> /\ curve = <<>> /\ trade = NoTrade /\ equity = 0
      /\ Len(trades) = 0 /\ Len(curve) = 0 /\ DOMAIN trades = {} /\ curve \in Seq(Int)
  BY DEF Init, Initial
<1>2. Balance(trades, Len(trades)) = 0
  <2> DEFINE none == [k \in DOMAIN trades |-> trades[k].pnl]
  <2>1. Balance(trades, Len(trades)) = SumFunctionOnSet(none, 1..Len(trades))
    BY DEF Balance
  <2>2. 1..Len(trades) = {} /\ IsFiniteSet({}) /\ \A x \in {} : none[x] \in Int
    BY <1>1, FS_EmptySet
  <2> HIDE DEF none
  <2>3. SumFunctionOnSet(none, {}) = 0
    BY <2>2, SumIs
  <2>4. SumFunctionOnSet(none, 1..Len(trades)) = SumFunctionOnSet(none, {})
    BY <2>2, Zenon
  <2> QED
    BY <2>1, <2>3, <2>4
<1>3. Traces([i \in {} |-> 0], curve, trades)
  <2>1. 1..Len(curve) = {}
    BY <1>1
  <2>2. [i \in {} |-> 0] \in [1..Len(curve) -> 0..Len(trades)]
    BY <2>1
  <2> QED
    BY <1>1, <2>1, <2>2 DEF Traces
<1> QED
  BY <1>1, <1>2, <1>3 DEF BalanceInv

(* Of the state after a step: its balance is the equity, its curve has it as last point. *)
LEMMA BalanceAfter ==
    ASSUME ReplayInv, BalanceInv, NEW c,
           trades' = trades \/ (bars # <<>> /\ trades' = Append(trades, c) /\ c.pnl \in Int),
           equity' = IF trades' = trades THEN equity ELSE equity + c.pnl,
           curve' = Append(curve, equity'), trade' # NoTrade => trade'.entry \in Int,
           bars' = <<>> => trades' = <<>>
    PROVE  BalanceInv'
<1>1. /\ Listed(trades') /\ equity' = Balance(trades', Len(trades'))
      /\ curve' \in Seq(Int) /\ curve' # <<>>
      /\ \E p : Traces(p, curve', trades')
  <2> DEFINE us == trades'
             e == equity'
  <2>1. /\ us = trades \/ (bars # <<>> /\ us = Append(trades, c) /\ c.pnl \in Int)
        /\ e = IF us = trades THEN equity ELSE equity + c.pnl
    OBVIOUS
  <2> HIDE DEF us, e
  <2>2. /\ Listed(us) /\ e = Balance(us, Len(us))
        /\ Append(curve, e) \in Seq(Int) /\ Append(curve, e) # <<>>
        /\ \E p : Traces(p, Append(curve, e), us)
    BY <2>1, BalanceKept
  <2> QED
    BY <2>2 DEF us, e
<1> QED
  BY <1>1 DEF BalanceInv, Listed

(* A step of a replay keeps the books. *)
LEMMA BalanceStep == ReplayInv /\ BalanceInv /\ [Next]_vars => BalanceInv'
<1> SUFFICES ASSUME ReplayInv, BalanceInv, [Next]_vars
             PROVE  BalanceInv'
  OBVIOUS
<1>0. PICK S : trades \in Seq(S)
  BY DEF ReplayInv
<1>1. CASE OnBar
  <2>1. PICK b \in Bars : \E allowed \in BOOLEAN :
          /\ pending = NoSignal => allowed
          /\ \E signal \in {NoSignal} \cup Signals(Len(bars) + 1, b.close) : Step(b, allowed, signal)
    BY <1>1 DEF OnBar
  <2>2. PICK allowed \in BOOLEAN :
          \E signal \in {NoSignal} \cup Signals(Len(bars) + 1, b.close) : Step(b, allowed, signal)
    BY <2>1
  <2>3. PICK signal \in {NoSignal} \cup Signals(Len(bars) + 1, b.close) : Step(b, allowed, signal)
    BY <2>2
  <2> DEFINE i == Len(bars) + 1
             m == IF pending # NoSignal /\ trade = NoTrade /\ allowed THEN Fill(b, i) ELSE trade
             t == Funded(m, i)
             ends == Exits(t, b)
             c == Closed(t, Exit(t, b), i)
  <2>4. /\ bars' = Append(bars, b)
        /\ trade' = IF ends THEN NoTrade ELSE t
        /\ trades' = IF ends THEN Append(trades, c) ELSE trades
        /\ equity' = IF ends THEN equity + c.pnl ELSE equity
        /\ curve' = Append(curve, equity')
    BY <2>3 DEF Step
  <2>5. /\ m = NoTrade => t = NoTrade
        /\ m # NoTrade => /\ bars # <<>> /\ t # NoTrade
                          /\ t.entry \in Int /\ t.funding \in Int /\ t.sig.sl \in Int /\ t.sig.tp \in Int
    <3>1. m = IF pending # NoSignal /\ trade = NoTrade /\ allowed THEN Fill(b, Len(bars) + 1) ELSE trade
      OBVIOUS
    <3>2. t = Funded(m, Len(bars) + 1)
      OBVIOUS
    <3> HIDE DEF m, t
    <3> QED
      BY <3>1, <3>2, FundedIsPriced
  <2>6. ends => t # NoTrade
    BY DEF Exits
  <2> HIDE DEF m, t, ends
  <2>7. ends => bars # <<>> /\ c.pnl \in Int
    <3> SUFFICES ASSUME ends
                 PROVE  bars # <<>> /\ c.pnl \in Int
      OBVIOUS
    <3>1. bars # <<>> /\ t.entry \in Int /\ t.funding \in Int /\ t.sig.sl \in Int /\ t.sig.tp \in Int
      BY <2>5, <2>6
    <3>2. Exit(t, b).price \in Int
      BY <3>1, ExitIsPriced
    <3> QED
      BY <3>1, <3>2, ClosedIsPriced
  <2> HIDE DEF c
  <2>8. trades' = trades \/ (bars # <<>> /\ trades' = Append(trades, c) /\ c.pnl \in Int)
    BY <2>4, <2>7
  <2>9. Append(trades, c) # trades
    <3> DEFINE C == S \cup {c}
    <3>1. trades \in Seq(C) /\ c \in C
      BY <1>0
    <3> HIDE DEF C
    <3>2. Len(Append(trades, c)) = Len(trades) + 1 /\ Len(trades) \in Nat
      BY <3>1, AppendProperties, LenProperties
    <3> QED
      BY <3>2
  <2>10. equity' = IF trades' = trades THEN equity ELSE equity + c.pnl
    BY <2>4, <2>9
  <2>11. trade' # NoTrade => trade'.entry \in Int
    BY <2>4, <2>5
  <2>12. bars' # <<>>
    <3>1. bars \in Seq(Bars)
      BY DEF ReplayInv
    <3>2. Len(bars') = Len(bars) + 1 /\ Len(bars) \in Nat
      BY <2>4, <3>1, AppendProperties, LenProperties
    <3> QED
      BY <3>2
  <2> QED
    BY <2>4, <2>8, <2>10, <2>11, <2>12, BalanceAfter
<1>2. CASE EndOfData
  <2> DEFINE c == Closed(trade, [reason |-> "end_of_data", price |-> Last(bars).close], Len(bars))
  <2>1. /\ bars # <<>> /\ bars' = bars /\ trade' = NoTrade
        /\ trade = NoTrade => UNCHANGED <<trades, equity, curve>>
        /\ trade # NoTrade => /\ trades' = Append(trades, c) /\ equity' = equity + c.pnl
                              /\ curve' = Append(curve, equity')
    BY <1>2 DEF EndOfData
  <2>2. CASE trade = NoTrade
    BY <2>1, <2>2 DEF BalanceInv
  <2>3. CASE trade # NoTrade
    <3>1. trade.entry \in Int /\ trade.funding \in Int
      BY <2>3 DEF ReplayInv, BalanceInv, Running
    <3>2. Last(bars).close \in Int
      <4>1. bars \in Seq(Bars)
        BY DEF ReplayInv
      <4>2. Len(bars) \in Nat /\ Len(bars) # 0
        BY <2>1, <4>1, LenProperties
      <4>3. bars[Len(bars)] \in Bars
        BY <4>1, <4>2, ElementOfSeq
      <4> QED
        BY <4>3, BacktestAssumption DEF Last
    <3>3. c.pnl \in Int
      <4> DEFINE exit == [reason |-> "end_of_data", price |-> Last(bars).close]
      <4>1. exit.price \in Int
        BY <3>2
      <4> HIDE DEF exit
      <4>2. Closed(trade, exit, Len(bars)).pnl \in Int
        BY <3>1, <4>1, ClosedIsPriced
      <4> QED
        BY <4>2 DEF exit
    <3> HIDE DEF c
    <3>4. Append(trades, c) # trades
      <4> DEFINE C == S \cup {c}
      <4>1. trades \in Seq(C) /\ c \in C
        BY <1>0
      <4> HIDE DEF C
      <4>2. Len(Append(trades, c)) = Len(trades) + 1 /\ Len(trades) \in Nat
        BY <4>1, AppendProperties, LenProperties
      <4> QED
        BY <4>2
    <3>5. trades' = trades \/ (bars # <<>> /\ trades' = Append(trades, c) /\ c.pnl \in Int)
      BY <2>1, <2>3, <3>3
    <3>6. equity' = IF trades' = trades THEN equity ELSE equity + c.pnl
      BY <2>1, <2>3, <3>4
    <3> QED
      BY <2>1, <2>3, <3>5, <3>6, BalanceAfter
  <2> QED
    BY <2>2, <2>3
<1>3. CASE UNCHANGED vars
  BY <1>3 DEF vars, BalanceInv
<1> QED
  BY <1>1, <1>2, <1>3 DEF Next

(* Two runs of different kinds have no trade in common. *)
LEMMA RunsApart ==
    ASSUME NEW L \in Nat, DOMAIN trades = 1..L, NEW won, NEW lost, won \cap lost = {},
           won \subseteq 1..L, lost \subseteq 1..L
    PROVE  LongestRun(won) + LongestRun(lost) <= L
<1>1. ASSUME NEW rows, rows \subseteq 1..L
      PROVE  \E a, n \in 0..L : a <= n /\ LongestRun(rows) = n - a /\ \A k \in a + 1..n : k \in rows
  <2> DEFINE Since(n) == {0} \cup (1..n \ rows)
             Run(n) == n - Max(Since(n))
             runs == {0} \cup {Run(n) : n \in DOMAIN trades}
  <2>1. LongestRun(rows) = Max(runs)
    BY DEF LongestRun
  <2>2. ASSUME NEW n \in 1..L
        PROVE  Max(Since(n)) \in 0..n /\ \A k \in Max(Since(n)) + 1..n : k \in rows
    <3>1. Since(n) \in SUBSET (0..n) /\ Since(n) # {} /\ n \in Int /\ 0 \in Int
      OBVIOUS
    <3>2. \A k \in 1..n : k \in rows \/ k \in Since(n)
      OBVIOUS
    <3> DEFINE s == Since(n)
    <3> HIDE DEF Since, s
    <3>3. Max(s) \in s /\ \A x \in s : x <= Max(s)
      BY <3>1, MaxOfRange DEF s
    <3>4. s \subseteq 0..n /\ \A k \in 1..n : k \in rows \/ k \in s
      BY <3>1, <3>2 DEF s
    <3>5. Max(s) \in 0..n /\ \A k \in Max(s) + 1..n : k \in rows
      <4>1. Max(s) \in 0..n
        BY <3>3, <3>4
      <4>2. ASSUME NEW k \in Max(s) + 1..n
            PROVE  k \in rows
        <5>1. k \in 1..n /\ ~(k <= Max(s))
          BY <4>1
        <5> QED
          BY <3>3, <3>4, <5>1
      <4> QED
        BY <4>1, <4>2
    <3> QED
      BY <3>5 DEF s
  <2>3. \A n \in 1..L : Run(n) \in 0..L
    <3> HIDE DEF Since
    <3> QED
      BY <2>2
  <2>4. Max(runs) \in runs
    <3>1. runs \in SUBSET (0..L) /\ runs # {}
      <4> HIDE DEF Run
      <4> QED
        BY <2>3
    <3>2. 0 \in Int /\ L \in Int
      OBVIOUS
    <3> HIDE DEF runs
    <3> QED
      BY <3>1, <3>2, MaxOfRange
  <2>5. CASE Max(runs) = 0
    <3>1. 0 \in 0..L /\ \A k \in 0 + 1..0 : k \in rows
      OBVIOUS
    <3> HIDE DEF runs
    <3> QED
      BY <2>1, <2>5, <3>1
  <2>6. CASE Max(runs) # 0
    <3>1. PICK n \in 1..L : Max(runs) = Run(n)
      BY <2>4, <2>6
    <3> DEFINE a == Max(Since(n))
    <3>2. LongestRun(rows) = n - a
      BY <2>1, <3>1
    <3>3. a \in 0..n /\ \A k \in a + 1..n : k \in rows
      BY <2>2
    <3> HIDE DEF a
    <3>4. a \in 0..L /\ n \in 0..L /\ a <= n
      BY <3>3
    <3> QED
      BY <3>2, <3>3, <3>4
  <2> QED
    BY <2>5, <2>6
<1>2. PICK a, n \in 0..L : a <= n /\ LongestRun(won) = n - a /\ \A k \in a + 1..n : k \in won
  BY <1>1
<1>3. PICK b, m \in 0..L : b <= m /\ LongestRun(lost) = m - b /\ \A k \in b + 1..m : k \in lost
  BY <1>1
<1>4. (n - a) + (m - b) <= L
  <2>1. CASE a = n \/ b = m
    BY <1>2, <1>3, <2>1
  <2>2. CASE a < n /\ b < m
    <3>1. n <= b \/ m <= a
      <4> SUFFICES ASSUME ~(n <= b), ~(m <= a)
                   PROVE  FALSE
        OBVIOUS
      <4>1. CASE n <= m
        <5>1. n \in a + 1..n /\ n \in b + 1..m
          BY <2>2, <4>1
        <5> QED
          BY <1>2, <1>3, <5>1
      <4>2. CASE ~(n <= m)
        <5>1. m \in a + 1..n /\ m \in b + 1..m
          BY <2>2, <4>2
        <5> QED
          BY <1>2, <1>3, <5>1
      <4> QED
        BY <4>1, <4>2
    <3> QED
      BY <1>2, <1>3, <3>1
  <2> QED
    BY <1>2, <1>3, <2>1, <2>2
<1> QED
  BY <1>2, <1>3, <1>4

(* The deepest fall of a curve is that of the balances it traces. *)
LEMMA FallsAreTraced ==
    ASSUME NEW cs, NEW ts, NEW pos, Traces(pos, cs, ts),
           Len(cs) \in Nat, Len(cs) # 0, DOMAIN cs = 1..Len(cs), \A i \in DOMAIN cs : cs[i] \in Int,
           NEW L \in Nat, Len(ts) = L, NEW earned,
           \A n \in 0..L : earned[n] = Balance(ts, n) /\ earned[n] \in Int,
           NEW F, \A f : f \in F <=> \E m, n \in 0..L : m <= n /\ f = earned[m] - earned[n]
    PROVE  Drawdown(cs) = Max(F)
<1> DEFINE M == Len(cs)
           Before(i) == {cs[j] : j \in 1..i}
           Peak(i) == Max(Before(i))
           Fall == [i \in 1..M |-> Peak(i) - cs[i]]
           D == {Peak(i) - cs[i] : i \in DOMAIN cs}
<1>1. /\ M \in Nat /\ M # 0 /\ DOMAIN cs = 1..M
      /\ \A i \in 1..M : cs[i] \in Int
  OBVIOUS
<1>2. /\ \A i \in 1..M : pos[i] \in 0..L /\ cs[i] = earned[pos[i]]
      /\ \A i, j \in 1..M : i <= j => pos[i] <= pos[j]
      /\ \A n \in 0..L : \E i \in 1..M : pos[i] = n
  <2>1. cs # <<>>
    BY <1>1
  <2> QED
    BY <2>1 DEF Traces
<1>3. \A f : f \in F <=> \E m, n \in 0..L : m <= n /\ f = earned[m] - earned[n]
  OBVIOUS
<1>4. ASSUME NEW i \in 1..M
      PROVE  Peak(i) \in Int /\ (\E j \in 1..i : Peak(i) = cs[j]) /\ \A j \in 1..i : cs[j] <= Peak(i)
  <2>1. 1..i \subseteq 1..M /\ i \in 1..i /\ i \in Int
    BY <1>1
  <2>2. Before(i) \subseteq Int /\ Before(i) # {} /\ \A j \in 1..i : cs[j] \in Before(i)
    BY <1>1, <2>1
  <2>3. IsFiniteSet(Before(i))
    <3> DEFINE g == [j \in 1..i |-> cs[j]]
    <3>1. g \in Surjection(1..i, Before(i))
      BY DEF Surjection
    <3>2. IsFiniteSet(1..i)
      BY <2>1, FS_Interval
    <3> HIDE DEF g, Before
    <3> QED
      BY <3>1, <3>2, FS_Surjection
  <2>4. \A x \in Before(i) : \E j \in 1..i : x = cs[j]
    OBVIOUS
  <2> HIDE DEF Before
  <2>5. Peak(i) \in Before(i) /\ \A x \in Before(i) : x <= Peak(i)
    BY <2>2, <2>3, FiniteExtremes
  <2> HIDE DEF Peak
  <2> QED
    BY <2>2, <2>4, <2>5
<1> HIDE DEF Peak
<1>5. ASSUME NEW i \in 1..M
      PROVE  Peak(i) - cs[i] \in F
  <2>1. PICK j \in 1..i : Peak(i) = cs[j]
    BY <1>4
  <2>2. j \in 1..M /\ j <= i
    BY <1>1
  <2>3. pos[j] \in 0..L /\ pos[i] \in 0..L /\ pos[j] <= pos[i] /\ Peak(i) - cs[i] = earned[pos[j]] - earned[pos[i]]
    BY <1>2, <2>1, <2>2
  <2> QED
    BY <1>3, <2>3
<1>6. ASSUME NEW f \in F
      PROVE  \E i \in 1..M : f <= Peak(i) - cs[i]
  <2>1. PICK m, n \in 0..L : m <= n /\ f = earned[m] - earned[n]
    BY <1>3
  <2>2. PICK i \in 1..M : pos[i] = n
    BY <1>2
  <2>3. \E j \in 1..i : cs[j] = earned[m]
    <3>1. CASE m = n
      <4>1. i \in 1..i
        BY <1>1
      <4> QED
        BY <1>2, <2>2, <3>1, <4>1
    <3>2. CASE m # n
      <4>1. PICK j \in 1..M : pos[j] = m
        BY <1>2
      <4>2. ~(i <= j)
        <5> SUFFICES ASSUME i <= j
                     PROVE  FALSE
          OBVIOUS
        <5>1. pos[i] <= pos[j]
          BY <1>2
        <5>2. n <= m /\ m <= n /\ m # n
          BY <2>1, <2>2, <3>2, <4>1, <5>1
        <5> QED
          BY <5>2
      <4>3. j \in 1..i
        BY <1>1, <4>2
      <4> QED
        BY <1>2, <4>1, <4>3
    <3> QED
      BY <3>1, <3>2
  <2>4. earned[m] <= Peak(i) /\ Peak(i) \in Int
    BY <1>4, <2>3
  <2>5. cs[i] = earned[n] /\ earned[n] \in Int /\ earned[m] \in Int
    BY <1>2, <2>2
  <2> QED
    BY <2>1, <2>4, <2>5
<1>7. D \subseteq Int /\ D # {} /\ IsFiniteSet(D)
  <2>1. \A i \in 1..M : Peak(i) - cs[i] \in Int
    BY <1>1, <1>4
  <2>2. 1 \in 1..M
    BY <1>1
  <2>3. Fall \in Surjection(1..M, D)
    BY <1>1 DEF Surjection
  <2>4. IsFiniteSet(1..M)
    BY <1>1, FS_Interval
  <2>5. IsFiniteSet(D)
    <3> HIDE DEF D, Fall, M
    <3> QED
      BY <2>3, <2>4, FS_Surjection
  <2> QED
    BY <1>1, <2>1, <2>2, <2>5
<1>8. /\ \A d \in D : d \in F
      /\ \A i \in 1..M : Peak(i) - cs[i] \in D
  BY <1>1, <1>5
<1>9. Drawdown(cs) = Max(D)
  BY DEF Drawdown, Peak
<1> HIDE DEF D
<1>10. Max(D) \in D /\ \A d \in D : d <= Max(D)
  BY <1>7, FiniteExtremes
<1> DEFINE deepest == Max(D)
<1>11. deepest \in F /\ deepest \in Int
  BY <1>7, <1>8, <1>10
<1>12. \A f \in F : f \in Int /\ f <= deepest
  <2> SUFFICES ASSUME NEW f \in F
               PROVE  f \in Int /\ f <= deepest
    OBVIOUS
  <2>1. f \in Int
    BY <1>3
  <2>2. PICK i \in 1..M : f <= Peak(i) - cs[i]
    BY <1>6
  <2>3. Peak(i) - cs[i] \in D /\ Peak(i) - cs[i] \in Int /\ Peak(i) - cs[i] <= deepest
    BY <1>7, <1>8, <1>10
  <2> HIDE DEF deepest
  <2> QED
    BY <1>11, <2>1, <2>2, <2>3
<1> HIDE DEF deepest
<1>13. Max(F) = deepest
  BY <1>11, <1>12, MaxIs
<1> QED
  BY <1>9, <1>13 DEF deepest

(* The result of a replay is what its trades give, and passes its checks. *)
LEMMA ResultIsSane ==
    ASSUME ReplayInv, BalanceInv
    PROVE  ResultSane
<1> DEFINE L == Len(trades)
           pnl == [n \in DOMAIN trades |-> trades[n].pnl]
           earned == [n \in 0..L |-> Initial + Gained(1..n)]
           won == {n \in DOMAIN trades : trades[n].pnl > 0}
           lost == DOMAIN trades \ won
<1>1. L \in Nat /\ DOMAIN trades = 1..L /\ \A n \in 1..L : pnl[n] \in Int
  <2>1. PICK S : trades \in Seq(S)
    BY DEF ReplayInv
  <2>2. L \in Nat /\ DOMAIN trades = 1..L
    BY <2>1, LenProperties
  <2> QED
    BY <2>2 DEF BalanceInv
<1>2. \A rows : Gained(rows) = SumFunctionOnSet(pnl, rows)
  BY DEF Gained
<1>3. ASSUME NEW rows, rows \subseteq 1..L
      PROVE  IsFiniteSet(rows) /\ Gained(rows) \in Int
  <2>1. IsFiniteSet(1..L)
    BY <1>1, FS_Interval
  <2>2. IsFiniteSet(rows) /\ \A n \in rows : pnl[n] \in Int
    BY <1>1, <1>3, <2>1, FS_Subset
  <2> HIDE DEF pnl
  <2> QED
    BY <1>2, <2>2, SumIs
<1>4. \A n \in 0..L : earned[n] = Balance(trades, n) /\ earned[n] \in Int
  <2> SUFFICES ASSUME NEW n \in 0..L
               PROVE  earned[n] = Balance(trades, n) /\ earned[n] \in Int
    OBVIOUS
  <2>1. 1..n \subseteq 1..L
    BY <1>1
  <2>2. Gained(1..n) \in Int
    BY <1>3, <2>1
  <2>3. Gained(1..n) = Balance(trades, n)
    BY DEF Gained, Balance
  <2> QED
    BY <2>2, <2>3 DEF Initial
<1>5. equity = earned[L] /\ equity = Gained(DOMAIN trades)
  <2>1. L \in 0..L
    BY <1>1
  <2>2. equity = Balance(trades, L)
    BY DEF BalanceInv
  <2>3. Gained(1..L) = Balance(trades, L) /\ Gained(DOMAIN trades) = Gained(1..L)
    <3>1. Gained(1..L) = Balance(trades, L)
      BY DEF Gained, Balance
    <3> QED
      BY <1>1, <3>1, Zenon
  <2> QED
    BY <1>4, <2>1, <2>2, <2>3
<1>6. \A n \in DOMAIN trades : trades[n].filled <= trades[n].closed
  <2> SUFFICES ASSUME NEW n \in DOMAIN trades
               PROVE  trades[n].filled <= trades[n].closed
    OBVIOUS
  <2>1. Ended(bars, trades[n], over)
    BY DEF ReplayInv
  <2>2. bars \in Seq(Bars)
    BY DEF ReplayInv
  <2>3. Len(bars) \in Nat
    BY <2>2, LenProperties
  <2>4. trades[n].closed \in trades[n].filled..Len(bars) /\ trades[n].filled = trades[n].sig.at + 1
        /\ trades[n].sig.at \in Nat
    BY <2>1 DEF Ended
  <2> QED
    BY <2>3, <2>4
<1>7. PICK pos : Traces(pos, curve, trades)
  BY DEF BalanceInv
<1>8. \A i \in DOMAIN curve : \E n \in 0..L : curve[i] = earned[n]
  <2>1. curve \in Seq(Int)
    BY DEF BalanceInv
  <2>2. DOMAIN curve = 1..Len(curve)
    BY <2>1, LenProperties
  <2> HIDE DEF earned
  <2> QED
    BY <1>4, <1>7, <2>2 DEF Traces
<1>9. Compiled.total = equity - Initial
  <2>1. Compiled.total = Gained(DOMAIN trades)
    BY DEF Compiled
  <2>2. equity \in Int
    BY <1>3, <1>5, <1>1
  <2> QED
    BY <1>5, <2>1, <2>2 DEF Initial
<1>10. won \subseteq 1..L /\ lost \subseteq 1..L /\ won \cap lost = {} /\ won \cup lost = DOMAIN trades
  BY <1>1
<1>11. Compiled.losses > 0 => Compiled.profit - Compiled.loss = Compiled.total
  <2> SUFFICES ASSUME Compiled.losses > 0
               PROVE  Compiled.profit - Compiled.loss = Compiled.total
    OBVIOUS
  <2>1. /\ Compiled.losses = Cardinality(lost) /\ Compiled.profit = Gained(won)
        /\ Compiled.total = Gained(DOMAIN trades)
        /\ Compiled.loss = IF lost = {} THEN 1 ELSE -Gained(lost)
    BY DEF Compiled
  <2>2. lost # {}
    BY <2>1, FS_EmptySet
  <2>3. Gained(DOMAIN trades) = Gained(won) + Gained(lost)
    <3>1. IsFiniteSet(won) /\ IsFiniteSet(lost) /\ \A n \in won \cup lost : pnl[n] \in Int
      BY <1>1, <1>3, <1>10
    <3> HIDE DEF won, lost, pnl
    <3>2. SumFunctionOnSet(pnl, won \cup lost) = SumFunctionOnSet(pnl, won) + SumFunctionOnSet(pnl, lost)
      BY <1>10, <3>1, SumOfBoth
    <3>3. Gained(won \cup lost) = Gained(DOMAIN trades)
      BY <1>10, Zenon
    <3> QED
      BY <1>2, <3>2, <3>3
  <2>4. Gained(won) \in Int /\ Gained(lost) \in Int
    <3> HIDE DEF won, lost
    <3> QED
      BY <1>3, <1>10
  <2> HIDE DEF won, lost
  <2> QED
    BY <2>1, <2>2, <2>3, <2>4
<1> DEFINE falls == {earned[p[1]] - earned[p[2]] : p \in {q \in (0..L) \X (0..L) : q[1] <= q[2]}}
<1>12. Compiled.drawdown = Max(falls)
  <2>1. Compiled.drawdown = IF trades = <<>> THEN 0 ELSE Drawdown(curve)
    BY DEF Compiled
  <2>2. CASE trades = <<>>
    <3>1. L = 0
      BY <2>2
    <3>2. \A n \in 0..L : earned[n] \in Int /\ n = 0
      BY <1>4, <3>1
    <3>3. ASSUME NEW f \in falls
          PROVE  f = 0
      <4>1. PICK p \in {q \in (0..L) \X (0..L) : q[1] <= q[2]} : f = earned[p[1]] - earned[p[2]]
        OBVIOUS
      <4>2. p[1] = 0 /\ p[2] = 0
        BY <3>1
      <4>3. earned[0] \in Int
        BY <3>1, <3>2
      <4> HIDE DEF earned
      <4> QED
        BY <4>1, <4>2, <4>3
    <3>4. 0 \in falls
      <4> DEFINE p == <<0, 0>>
      <4>1. p \in {q \in (0..L) \X (0..L) : q[1] <= q[2]}
        BY <3>1
      <4>2. earned[p[1]] - earned[p[2]] = 0
        <5>1. earned[0] \in Int /\ p[1] = 0 /\ p[2] = 0
          BY <3>1, <3>2
        <5> HIDE DEF p, earned
        <5> QED
          BY <5>1
      <4> HIDE DEF p, earned
      <4> QED
        BY <4>1, <4>2
    <3> HIDE DEF falls
    <3>5. \A f \in falls : f \in Int /\ f <= 0
      BY <3>3
    <3>6. Max(falls) = 0
      BY <3>4, <3>5, MaxIs
    <3> QED
      BY <2>1, <2>2, <3>6
  <2>3. CASE trades # <<>>
    <3>1. curve \in Seq(Int) /\ curve # <<>>
      BY <2>3 DEF BalanceInv
    <3>2. \A f : f \in falls <=> \E m, n \in 0..L : m <= n /\ f = earned[m] - earned[n]
      <4>1. ASSUME NEW f \in falls
            PROVE  \E m, n \in 0..L : m <= n /\ f = earned[m] - earned[n]
        <5>1. PICK p \in {q \in (0..L) \X (0..L) : q[1] <= q[2]} : f = earned[p[1]] - earned[p[2]]
          OBVIOUS
        <5>2. p[1] \in 0..L /\ p[2] \in 0..L /\ p[1] <= p[2]
          OBVIOUS
        <5> QED
          BY <5>1, <5>2
      <4>2. ASSUME NEW f, NEW m \in 0..L, NEW n \in 0..L, m <= n, f = earned[m] - earned[n]
            PROVE  f \in falls
        <5> DEFINE p == <<m, n>>
        <5>1. p \in (0..L) \X (0..L) /\ p[1] = m /\ p[2] = n
          OBVIOUS
        <5>2. p \in {q \in (0..L) \X (0..L) : q[1] <= q[2]}
          BY <4>2, <5>1
        <5>3. f = earned[p[1]] - earned[p[2]]
          BY <4>2, <5>1
        <5> HIDE DEF p
        <5> QED
          BY <5>2, <5>3
      <4> QED
        BY <4>1, <4>2
    <3>4. Len(curve) \in Nat /\ Len(curve) # 0 /\ DOMAIN curve = 1..Len(curve)
          /\ \A i \in DOMAIN curve : curve[i] \in Int
      BY <3>1, LenProperties, ElementOfSeq
    <3> DEFINE F == falls
    <3> HIDE DEF earned, F
    <3>3. Drawdown(curve) = Max(F)
      <4>1. \A f : f \in F <=> \E m, n \in 0..L : m <= n /\ f = earned[m] - earned[n]
        BY <3>2 DEF F
      <4>2. L \in Nat /\ L = Len(trades) /\ \A n \in 0..L : earned[n] = Balance(trades, n) /\ earned[n] \in Int
        BY <1>1, <1>4
      <4> HIDE DEF falls, L
      <4> QED
        BY <1>7, <3>4, <4>1, <4>2, FallsAreTraced
    <3> QED
      BY <2>1, <2>3, <3>3 DEF F
  <2> QED
    BY <2>2, <2>3
<1>13. Compiled.winning + Compiled.losing <= L
  <2>1. Compiled.winning = LongestRun(won) /\ Compiled.losing = LongestRun(lost)
    BY DEF Compiled
  <2> HIDE DEF won, lost
  <2>2. LongestRun(won) + LongestRun(lost) <= L
    BY <1>1, <1>10, RunsApart
  <2> QED
    BY <2>1, <2>2
<1> QED
  BY <1>5, <1>6, <1>8, <1>9, <1>11, <1>12, <1>13 DEF ResultSane

(* A behaviour that asks another question has no trades. *)
LEMMA BalanceHolds == ResearchSpec => [](ReplayInv /\ BalanceInv)
<1>1. ResearchInit => BalanceInv
  BY BalanceInitially DEF ResearchInit
<1>2. ReplayInv /\ BalanceInv /\ [ResearchNext]_allVars => BalanceInv'
  BY BalanceStep DEF ResearchNext, allVars
<1> QED
  BY <1>1, <1>2, ReplayHolds, PTL DEF ResearchSpec

(* What is computed twice comes out the same: the result and its checks, the
   two detectors, the two judges of a candle, the two VWAPs, the tables of the
   account and those of the signals. *)
THEOREM TwinsSayTheSame == ResearchSpec => []TwinsAgree
<1>1. ReplayInv /\ BalanceInv /\ (question = Replay \/ Posed(question)) => TwinsAgree
  <2> SUFFICES ASSUME ReplayInv, BalanceInv, question = Replay \/ Posed(question)
               PROVE  TwinsAgree
    OBVIOUS
  <2>1. Asked("replay") /\ over => ResultSane
    BY ResultIsSane
  <2>2. Asked("row") => LET r == question.row
                        IN  (r.ratio = "normal" /\ r.atr # "normal") \/ Detect(r) = DetectSeries(r)
    BY DetectorsAgree DEF Asked, Replay
  <2>3. Asked("candle") =>
          LET c == question.candle
              candle == {c.open, c.close} \subseteq c.low..c.high /\ c.low > 0 /\ c.volume >= 0
          IN  Invalid(c) = ~candle /\ (Reasons(c) = {}) = candle
    BY CandlesJudged DEF Asked, Replay
  <2>4. Asked("volumes") =>
          LET rows == question.rows
          IN  \A i \in DOMAIN rows : \A j \in {0} \cup 1..i - 1 :
                  LET before == IF j = 0 THEN <<0, 0>> ELSE RunningVwap(rows, j)
                  IN  rows[i].day # (IF j = 0 THEN 0 ELSE rows[j].day) /\ rows[j + 1].day = rows[i].day =>
                          \A n \in 1..2 : SessionVwap(rows, i)[n] + before[n] = RunningVwap(rows, i)[n]
    <3> SUFFICES ASSUME Asked("volumes"), NEW i \in DOMAIN question.rows, NEW j \in {0} \cup 1..i - 1,
                        question.rows[i].day # (IF j = 0 THEN 0 ELSE question.rows[j].day),
                        question.rows[j + 1].day = question.rows[i].day, NEW n \in 1..2
                 PROVE  SessionVwap(question.rows, i)[n]
                          + (IF j = 0 THEN <<0, 0>> ELSE RunningVwap(question.rows, j))[n]
                            = RunningVwap(question.rows, i)[n]
      BY Zenon
    <3>1. Posed(question) /\ question.kind = "volumes"
      BY DEF Asked, Replay
    <3> QED
      BY <3>1, SessionsGain
  <2>5. Asked("books") =>
          LET rows == question.trades
              total == Performance(rows).total
          IN  /\ Performance(rows).won - Performance(rows).lost = total
              /\ Booked(rows) # {} =>
                    ~Mismatch(Curve(rows, 10)[Max(Booked(rows))] + 3 - 1, Theoretical(rows, 10, 3, 1), 0)
              /\ ~Raises(rows) => \A days \in {1, 7} :
                    /\ SumFunction(Column(Breakdown(rows, days), "net")) = total
                    /\ SumFunction(Column(Breakdown(rows, days), "trades")) = Cardinality(Booked(rows))
    BY BooksAgree DEF Asked, Replay
  <2>6. Asked("outcomes") =>
          LET all == SignalPerformance(question.outcomes)
          IN  \A f \in DOMAIN all : UserTaken(question.outcomes)[f] + Missed(question.outcomes)[f] = all[f]
    BY OutcomesAddUp DEF Asked, Replay
  <2> QED
    BY <2>1, <2>2, <2>3, <2>4, <2>5, <2>6, Zenon DEF TwinsAgree
<1> QED
  BY <1>1, BalanceHolds, QuestionsArePosed, PTL
=============================================================================
