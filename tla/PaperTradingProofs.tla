------------------------- MODULE PaperTradingProofs -------------------------
(***************************************************************************)
(* Theorems about PaperTrading, for every set of strategies and bars and   *)
(* every configuration of the risk engine.                                 *)
(*                                                                         *)
(* The tick changes all positions in memory before it mirrors the first    *)
(* event, so that no property of the table is inductive by itself.  Books  *)
(* relates a set of open positions and a sequence of pending events to the *)
(* table, and is preserved by each thing process_candle can do to one      *)
(* position; the loop is then an induction over the positions, of which    *)
(* the state between two of its turns -- those managed, those not yet, the *)
(* events so far -- is one more state where Books holds.                   *)
(***************************************************************************)
EXTENDS PaperTrading, FiniteSetTheorems, TLAPS

-----------------------------------------------------------------------------
(* Induction, from the well-foundedness of the subsets of a finite set.    *)

\* A nonempty set of numbers has a least one.
LEMMA Smallest ==
    ASSUME NEW T \in SUBSET Nat, T # {}
    PROVE  \E x \in T : \A y \in T : x <= y
<1> DEFINE R == StrictSubsetOrdering(Nat)
           F == {0..x : x \in T}
<1>1. IsWellFoundedOn(R, FiniteSubsetsOf(Nat))
  BY FS_StrictSubsetOrderingWellFounded
<1>2. F \subseteq FiniteSubsetsOf(Nat)
  <2>1. \A x \in T : 0..x \in SUBSET Nat /\ IsFiniteSet(0..x)
    BY FS_Interval
  <2> QED
    BY <2>1 DEF FiniteSubsetsOf
<1>3. F # {}
  OBVIOUS
<1>4. PICK m \in F : \A g \in F : <<g, m>> \notin R
  <2> HIDE DEF R, F
  <2> QED
    BY <1>1, <1>2, <1>3, WFMin
<1>5. PICK x \in T : m = 0..x
  OBVIOUS
<1>6. ASSUME NEW y \in T, y < x
      PROVE  FALSE
  <2>1. 0..y \in F /\ 0..y \in SUBSET Nat /\ 0..x \in SUBSET Nat
    OBVIOUS
  <2>2. 0..y \subseteq 0..x /\ x \in 0..x /\ x \notin 0..y
    BY <1>6
  <2>3. <<0..y, 0..x>> \in R
    BY <2>1, <2>2 DEF StrictSubsetOrdering
  <2> QED
    BY <1>4, <1>5, <2>1, <2>3
<1> QED
  BY <1>6

\* A set that has 0 and every successor has every number.
LEMMA SetInduction ==
    ASSUME NEW S, 0 \in S, \A n \in Nat : n \in S => n + 1 \in S
    PROVE  Nat \subseteq S
<1> SUFFICES ASSUME Nat \ S # {}
             PROVE  FALSE
  OBVIOUS
<1>1. PICK x \in Nat \ S : \A y \in Nat \ S : x <= y
  BY Smallest
<1>2. x - 1 \in Nat \ S
  BY <1>1
<1> QED
  BY <1>1, <1>2

-----------------------------------------------------------------------------
(* The risk engine's slots (engine.py).                                    *)

\* The day of an instant.
LEMMA DayType == \A t \in Nat : Day(t) \in Nat
BY ConfigAssumption DEF Day

\* A new engine has no slot taken.
LEMMA NewEngineFacts ==
    ASSUME NEW t \in Nat
    PROVE  NewEngine(t) \in Engine /\ NewEngine(t).positions = 0
<1>1. Day(t) \in Nat
  BY DayType
<1> QED
  BY <1>1, ConfigAssumption DEF NewEngine, Engine, None

\* A change of day keeps the slots.
LEMMA ResetDailyFacts ==
    ASSUME NEW e \in Engine, NEW t \in Nat
    PROVE  ResetDaily(e, t) \in Engine /\ ResetDaily(e, t).positions = e.positions
<1>1. PICK d \in Nat : d = Day(t)
  BY DayType
<1>2. e \in Engine
  OBVIOUS
<1>3. CASE e.tradeDate = Day(t)
  BY <1>3 DEF ResetDaily
<1>4. CASE e.tradeDate # Day(t)
  <2> DEFINE r == ResetDaily(e, t)
  <2>1. /\ r = [e EXCEPT !.dailyPnl = 0, !.dailyTrades = 0, !.tradeDate = d]
        /\ 0 \in Int /\ 0 \in Nat
    BY <1>1, <1>4 DEF ResetDaily
  <2> HIDE DEF r
  <2> QED
    BY <1>1, <1>2, <2>1 DEF Engine, r
<1> QED
  BY <1>3, <1>4

\* So does a streak.
LEMMA StreakFacts ==
    ASSUME NEW e \in Engine, NEW t \in Nat, NEW pnl \in Int
    PROVE  /\ WithStreak(e, pnl, t) \in Engine
           /\ WithStreak(e, pnl, t).positions = e.positions
<1> DEFINE w == WithStreak(e, pnl, t)
<1> SUFFICES w \in Engine /\ w.positions = e.positions
  OBVIOUS
<1>1. CASE pnl < 0
  <2> DEFINE end == IF e.losses + 1 >= CooldownLosses
                    THEN t + CooldownLen ELSE e.cooldownEnd
  <2>1. end \in Nat \cup {None} /\ e.losses + 1 \in Nat /\ e \in Engine
    BY ConfigAssumption DEF Engine
  <2>2. w = [e EXCEPT !.losses = e.losses + 1, !.lastLoss = t, !.cooldownEnd = end]
    BY <1>1 DEF WithStreak, Engine
  <2> HIDE DEF end, w
  <2> QED
    BY <2>1, <2>2 DEF Engine
<1>2. CASE ~(pnl < 0) /\ (pnl > 0 \/ BreakevenResets)
  <2>1. w = [e EXCEPT !.losses = 0, !.cooldownEnd = None] /\ e \in Engine
    BY <1>2 DEF WithStreak
  <2> HIDE DEF w
  <2> QED
    BY <2>1 DEF Engine
<1>3. CASE ~(pnl < 0) /\ ~(pnl > 0 \/ BreakevenResets)
  BY <1>3 DEF WithStreak
<1> QED
  BY <1>1, <1>2, <1>3

\* A closed trade frees one slot (_close_remaining's two calls).
LEMMA CloseFacts ==
    ASSUME NEW e \in Engine, NEW t \in Nat, NEW pnl \in Int
    PROVE  LET c == RecordPositionClose(RecordTradeResult(e, pnl, t))
           IN  c \in Engine /\ c.positions = Larger(0, e.positions - 1)
<1> DEFINE w == WithStreak(ResetDaily(e, t), pnl, t)
           worth == AppliedTo(e.equity, pnl)
           peak == Larger(worth, e.peak)
           k == w.kill \/ Breached(worth, peak)
           slots == Larger(0, w.positions - 1)
           c == RecordPositionClose(RecordTradeResult(e, pnl, t))
<1>1. w \in Engine /\ w.positions = e.positions
  BY ResetDailyFacts, StreakFacts
<1>2. worth \in Int /\ peak \in Int /\ Breached(worth, peak) \in BOOLEAN
  BY DEF AppliedTo, Larger, Engine, Breached
<1>3. slots \in Nat /\ slots = Larger(0, e.positions - 1)
  BY <1>1 DEF Larger, Engine
<1> HIDE DEF w, worth, peak, slots
<1>4. k \in BOOLEAN
  BY <1>1, <1>2 DEF Engine
<1>5. c = [w EXCEPT !.dailyPnl = @ + pnl, !.dailyTrades = @ + 1,
                    !.equity = worth, !.peak = peak, !.kill = k,
                    !.positions = slots]
  BY <1>1 DEF RecordPositionClose, RecordTradeResult, w, worth, peak, slots, Engine
<1> HIDE DEF k, c
<1>6. c.positions = slots
  BY <1>1, <1>5 DEF Engine
<1>7. c \in Engine
  <2>1. w.dailyPnl + pnl \in Int /\ w.dailyTrades + 1 \in Nat
    BY <1>1 DEF Engine
  <2> QED
    BY <1>1, <1>2, <1>3, <1>4, <1>5, <2>1 DEF Engine
<1> QED
  BY <1>3, <1>6, <1>7 DEF c

\* An opened position takes one.
LEMMA OpenFacts ==
    ASSUME NEW e \in Engine
    PROVE  /\ RecordPositionOpen(e) \in Engine
           /\ RecordPositionOpen(e).positions = e.positions + 1
<1>1. e \in Engine
  OBVIOUS
<1> QED
  BY <1>1 DEF RecordPositionOpen, Engine

-----------------------------------------------------------------------------
(* One turn of process_candle's loop (engine.py:84-100).                   *)

\* What the loop carries from turn to turn.
Managed ==
    [positions : Seq(Position), eng : Engine, equity : Int, events : Seq(Event)]

\* A position waits for its first target with two units, for its last with one.
Sound(p) == p.next + p.left = Units + 1

\* The event of a closed position, and of a partly closed one.
Ended(p, e) ==
    /\ e \in Event /\ e.kind = "exit"
    /\ e.id = p.id /\ e.sig = p.sig /\ e.units = p.left

Taken(p, e) ==
    /\ e \in Event /\ e.kind = "partial_exit"
    /\ e.id = p.id /\ e.sig = p.sig /\ e.units = 1

\* Two targets, one unit each.
LEMMA UnitsFacts ==
    /\ Units = 2 /\ Targets[1] = 3 /\ Targets[2] = 4
    /\ Stop \in Int /\ Targets[Units] \in Int
BY DEF Units, Targets, Stop

\* A result is a number.
LEMMA GainType ==
    ASSUME NEW level \in Int, NEW n \in Int
    PROVE  Gain(level, n) \in Int
BY DEF Gain, Entry, PctPerLevel

\* So is the money it makes.
LEMMA MoneyType ==
    ASSUME NEW p \in Position, NEW pct \in Int
    PROVE  Money(p, pct) \in Int
<1>1. p \in Position
  OBVIOUS
<1>2. p.notional \in Int
  BY <1>1 DEF Position
<1>3. pct * p.notional \in Int
  BY <1>2
<1> QED
  BY <1>3 DEF Money

\* _close_remaining takes the position out, frees its slot, tells its units.
LEMMA CloseStep ==
    ASSUME NEW acc \in Managed, NEW p \in Position, NEW level \in Int,
           candle.n \in Nat
    PROVE  LET r == CloseRemaining(acc, p, level)
           IN  /\ r \in Managed /\ r.positions = acc.positions
               /\ r.eng.positions = Larger(0, acc.eng.positions - 1)
               /\ \E e : Ended(p, e) /\ r.events = Append(acc.events, e)
<1> DEFINE gain == Gain(level, p.left)
           engine == RecordPositionClose(RecordTradeResult(acc.eng, p.pnl + gain, Now))
           money == acc.equity + Money(p, gain)
           event == [kind |-> "exit", id |-> p.id, sig |-> p.sig,
                     units |-> p.left, pnl |-> p.pnl + gain]
           r == CloseRemaining(acc, p, level)
<1>0. acc \in Managed /\ p \in Position /\ level \in Int /\ candle.n \in Nat
  OBVIOUS
<1>1. /\ acc.positions \in Seq(Position) /\ acc.eng \in Engine
      /\ acc.equity \in Int /\ acc.events \in Seq(Event)
      /\ p.left \in 1..Units /\ p.pnl \in Int /\ p.id \in Ids /\ p.sig \in SignalIds
  BY <1>0 DEF Managed, Position
<1>2. gain \in Int
  <2>1. p.left \in Int
    BY <1>1, UnitsFacts
  <2> QED
    BY <1>0, <2>1, GainType
<1>3. money \in Int
  <2>1. Money(p, gain) \in Int
    <3> HIDE DEF gain
    <3> QED
      BY <1>0, <1>2, MoneyType
  <2> QED
    BY <1>1, <2>1
<1>4. engine \in Engine /\ engine.positions = Larger(0, acc.eng.positions - 1)
  <2>1. p.pnl + gain \in Int
    BY <1>1, <1>2
  <2> HIDE DEF gain
  <2> QED
    BY <1>0, <1>1, <2>1, CloseFacts DEF Now
<1>5. Ended(p, event)
  BY <1>1, <1>2 DEF Ended, Event
<1>6. event \in Event
  BY <1>5 DEF Ended
<1>7. r = [acc EXCEPT !.equity = money, !.eng = engine,
                      !.events = Append(acc.events, event)]
  BY <1>0 DEF CloseRemaining, Managed
<1> HIDE DEF money, engine, event, r
<1>8. /\ r.positions = acc.positions /\ r.eng = engine
      /\ r.events = Append(acc.events, event) /\ r \in Managed
  <2>1. Append(acc.events, event) \in Seq(Event)
    BY <1>1, <1>6
  <2> QED
    BY <1>0, <1>1, <1>3, <1>4, <1>6, <1>7, <2>1 DEF Managed
<1> QED
  BY <1>4, <1>5, <1>8 DEF r

\* _partial_exit keeps the position with its last unit and tells the first.
LEMMA PartialStep ==
    ASSUME NEW acc \in Managed, NEW p \in Position, Sound(p), p.next # Units
    PROVE  LET r == PartialExit(acc, p)
               q == AfterPartial(p)
           IN  /\ r \in Managed /\ r.positions = acc.positions /\ r.eng = acc.eng
               /\ \E e : Taken(p, e) /\ r.events = Append(acc.events, e)
               /\ p.left = 2 /\ q \in Position /\ Sound(q) /\ q.left = 1
               /\ q.id = p.id /\ q.sig = p.sig
<1> DEFINE gain == Gain(Targets[p.next], 1)
           money == acc.equity + Money(p, gain)
           event == [kind |-> "partial_exit", id |-> p.id, sig |-> p.sig,
                     units |-> 1, pnl |-> gain]
           r == PartialExit(acc, p)
           q == AfterPartial(p)
<1>0. acc \in Managed /\ p \in Position
  OBVIOUS
<1>1. /\ acc.positions \in Seq(Position) /\ acc.eng \in Engine
      /\ acc.equity \in Int /\ acc.events \in Seq(Event)
      /\ p.left = 2 /\ p.next = 1 /\ p.pnl \in Int
      /\ p.id \in Ids /\ p.sig \in SignalIds
  BY <1>0, UnitsFacts DEF Managed, Position, Sound
<1>2. gain \in Int
  BY <1>1, UnitsFacts, GainType
<1>3. money \in Int
  <2>1. Money(p, gain) \in Int
    <3> HIDE DEF gain
    <3> QED
      BY <1>0, <1>2, MoneyType
  <2> QED
    BY <1>1, <2>1
<1>4. Taken(p, event)
  BY <1>1, <1>2, UnitsFacts DEF Taken, Event
<1>5. event \in Event
  BY <1>4 DEF Taken
<1>6. r = [acc EXCEPT !.equity = money, !.events = Append(acc.events, event)]
  BY <1>0 DEF PartialExit, Managed
<1>7. q = [p EXCEPT !.next = 2, !.left = 1, !.pnl = p.pnl + gain]
  BY <1>0, <1>1 DEF AfterPartial, Position
<1> HIDE DEF money, event, r, gain, q
<1>8. /\ r.positions = acc.positions /\ r.eng = acc.eng
      /\ r.events = Append(acc.events, event) /\ r \in Managed
  <2>1. Append(acc.events, event) \in Seq(Event)
    BY <1>1, <1>5
  <2> QED
    BY <1>0, <1>1, <1>3, <1>5, <1>6, <2>1 DEF Managed
<1>9. /\ q \in Position /\ q.left = 1 /\ q.next = 2
      /\ q.id = p.id /\ q.sig = p.sig
  <2>1. 2 \in 1..Units /\ 1 \in 1..Units /\ p.pnl + gain \in Int
    BY <1>1, <1>2, UnitsFacts
  <2> QED
    BY <1>0, <1>7, <2>1 DEF Position
<1> QED
  BY <1>1, <1>4, <1>8, <1>9, UnitsFacts DEF r, q, Sound

\* What one turn does to a position: it is kept, closed, reduced to its last
\* unit, or the latter and then the former.
Kept(acc, p, r) ==
    /\ r.positions = Append(acc.positions, p)
    /\ r.events = acc.events
    /\ r.eng.positions = acc.eng.positions

Gone(acc, p, r) ==
    /\ r.positions = acc.positions
    /\ r.eng.positions = Larger(0, acc.eng.positions - 1)
    /\ \E e : Ended(p, e) /\ r.events = Append(acc.events, e)

Rest(p, q) ==
    /\ p.left = Units /\ q.left = 1 /\ q \in Position /\ Sound(q)
    /\ q.id = p.id /\ q.sig = p.sig

Reduced(acc, p, r) ==
    \E q, e :
        /\ Rest(p, q) /\ Taken(p, e)
        /\ r.positions = Append(acc.positions, q)
        /\ r.events = Append(acc.events, e)
        /\ r.eng.positions = acc.eng.positions

ReducedAndGone(acc, p, r) ==
    \E m \in Managed : \E q, e :
        /\ Rest(p, q) /\ Taken(p, e)
        /\ m.positions = acc.positions
        /\ m.events = Append(acc.events, e)
        /\ m.eng.positions = acc.eng.positions
        /\ Gone(m, q, r)

\* _keep leaves everything else as it is.
LEMMA KeepStep ==
    ASSUME NEW acc \in Managed, NEW p \in Position
    PROVE  /\ Keep(acc, p) \in Managed
           /\ Keep(acc, p).positions = Append(acc.positions, p)
           /\ Keep(acc, p).eng = acc.eng /\ Keep(acc, p).events = acc.events
<1> DEFINE kept == Append(acc.positions, p)
           r == Keep(acc, p)
<1>1. acc \in Managed /\ p \in Position
  OBVIOUS
<1>2. kept \in Seq(Position)
  BY <1>1 DEF Managed
<1>3. r = [acc EXCEPT !.positions = kept]
  BY <1>1 DEF Keep, Managed
<1> HIDE DEF kept, r
<1>4. r \in Managed /\ r.positions = kept /\ r.eng = acc.eng /\ r.events = acc.events
  BY <1>1, <1>2, <1>3 DEF Managed
<1> QED
  BY <1>4 DEF kept, r

\* So _close_remaining is one of them.
LEMMA CloseGone ==
    ASSUME NEW acc \in Managed, NEW p \in Position, NEW level \in Int,
           candle.n \in Nat
    PROVE  /\ CloseRemaining(acc, p, level) \in Managed
           /\ Gone(acc, p, CloseRemaining(acc, p, level))
<1> DEFINE r == CloseRemaining(acc, p, level)
<1>1. /\ r \in Managed /\ r.positions = acc.positions
      /\ r.eng.positions = Larger(0, acc.eng.positions - 1)
      /\ \E e : Ended(p, e) /\ r.events = Append(acc.events, e)
  BY CloseStep
<1> HIDE DEF r
<1>2. Gone(acc, p, r)
  BY <1>1 DEF Gone
<1> QED
  BY <1>1, <1>2 DEF r

\* One turn of the loop, for a position that is sound.
LEMMA ManageStep ==
    ASSUME NEW acc \in Managed, NEW p \in Position, Sound(p), candle.n \in Nat
    PROVE  LET r == ManageFirst(acc, p, candle)
           IN  /\ r \in Managed
               /\ \/ Kept(acc, p, r)
                  \/ Gone(acc, p, r)
                  \/ Reduced(acc, p, r)
                  \/ ReducedAndGone(acc, p, r)
<1> DEFINE r == ManageFirst(acc, p, candle)
           last == Targets[Units]
<1>0. acc \in Managed /\ p \in Position /\ candle.n \in Nat
  OBVIOUS
<1>1. Stop \in Int /\ last \in Int
  BY UnitsFacts
<1>2. CASE StopHit(candle)
  <2>1. r = CloseRemaining(acc, p, Stop)
    BY <1>2 DEF ManageFirst
  <2> HIDE DEF r, last
  <2> QED
    BY <1>0, <1>1, <2>1, CloseGone DEF r
<1>3. CASE ~StopHit(candle) /\ ~TargetHit(p, candle)
  <2>1. r = Keep(acc, p)
    BY <1>3 DEF ManageFirst
  <2> HIDE DEF r, last
  <2> QED
    BY <1>0, <2>1, KeepStep DEF Kept, r
<1>4. CASE ~StopHit(candle) /\ TargetHit(p, candle) /\ p.next = Units
  <2>1. r = CloseRemaining(acc, p, last)
    BY <1>4 DEF ManageFirst
  <2> HIDE DEF r, last
  <2> QED
    BY <1>0, <1>1, <2>1, CloseGone DEF r
<1>5. CASE ~StopHit(candle) /\ TargetHit(p, candle) /\ p.next # Units
  <2> DEFINE m == PartialExit(acc, p)
             q == AfterPartial(p)
  <2>1. /\ m \in Managed /\ m.positions = acc.positions /\ m.eng = acc.eng
        /\ \E e : Taken(p, e) /\ m.events = Append(acc.events, e)
        /\ p.left = 2 /\ q \in Position /\ Sound(q) /\ q.left = 1
        /\ q.id = p.id /\ q.sig = p.sig
    BY <1>0, <1>5, PartialStep
  <2>2. r = IF TargetHit(q, candle) THEN CloseRemaining(m, q, last)
            ELSE Keep(m, q)
    BY <1>5 DEF ManageFirst
  <2> HIDE DEF r, m, q, last
  <2>3. PICK e : Taken(p, e) /\ m.events = Append(acc.events, e)
    BY <2>1
  <2>4. Rest(p, q)
    BY <2>1, UnitsFacts DEF Rest
  <2>5. CASE TargetHit(q, candle)
    <3>1. r = CloseRemaining(m, q, last)
      BY <2>2, <2>5
    <3>2. r \in Managed /\ Gone(m, q, r)
      BY <1>0, <1>1, <2>1, <3>1, CloseGone
    <3>3. ReducedAndGone(acc, p, r)
      BY <2>1, <2>3, <2>4, <3>2 DEF ReducedAndGone
    <3> QED
      BY <3>2, <3>3 DEF r
  <2>6. CASE ~TargetHit(q, candle)
    <3>1. r = Keep(m, q)
      BY <2>2, <2>6
    <3>2. /\ r \in Managed /\ r.positions = Append(m.positions, q)
          /\ r.eng = m.eng /\ r.events = m.events
      BY <2>1, <3>1, KeepStep
    <3>3. Reduced(acc, p, r)
      BY <2>1, <2>3, <2>4, <3>2 DEF Reduced
    <3> QED
      BY <3>2, <3>3 DEF r
  <2> QED
    BY <2>5, <2>6
<1> QED
  BY <1>2, <1>3, <1>4, <1>5

-----------------------------------------------------------------------------
(* The inductive invariant.                                                *)

Repeated(i, ev) == \E k \in 1..Len(ev) : ev[k].id = i

\* What the pending events will do to their rows, told apart by trade: at
\* most one partial exit and then one exit, of units the row still has.
Pending(ev) ==
    /\ \A k \in 1..Len(ev) : ev[k].id <= counter
    /\ \A j, k \in 1..Len(ev) :
          j < k /\ ev[j].id = ev[k].id =>
              ev[j].kind = "partial_exit" /\ ev[k].kind = "exit" /\ ev[k].units = 1
    /\ \A k \in 1..Len(ev) : Durable(ev[k].id) =>
          LET row == trades[ev[k].id]
          IN  /\ row.status # "CLOSED"
              /\ row.exited + ev[k].units <= Units
              /\ ev[k].kind = "partial_exit" =>
                    row.status = "OPEN" /\ row.exited = 0 /\ ev[k].units = 1

\* The rows of the open positions P lag behind them by the pending events.
Lagging(P, ev) ==
    \A p \in P :
        /\ \A k \in 1..Len(ev) : ev[k].id = p.id =>
              ev[k].kind = "partial_exit" /\ p.left = 1
        /\ Durable(p.id) =>
              /\ trades[p.id].exited <= Units - p.left
              /\ trades[p.id].status # "CLOSED"
              /\ p.left = Units => trades[p.id].status = "OPEN"

\* No row is of a trade to come, or has more exits than its quantity.
Past == \A i \in Ids : Durable(i) => i <= counter /\ trades[i].exited <= Units

Books(P, ev) == Pending(ev) /\ Lagging(P, ev) /\ Past

\* With no fault, the rows of the open positions P differ from them by the
\* pending events and by nothing else, and the other rows are of trades that
\* are closed, or that a pending event closes.
Agreed(P, ev) ==
    /\ \A p \in P :
          /\ Durable(p.id)
          /\ trades[p.id].sig = p.sig
          /\ IF Repeated(p.id, ev) THEN trades[p.id].exited = 0
             ELSE trades[p.id].exited = Units - p.left
    /\ \A i \in Ids : Live(i) =>
          \/ \E p \in P : p.id = i
          \/ \E k \in 1..Len(ev) : ev[k].id = i /\ ev[k].kind = "exit"

Faultless == ~CanAbort /\ MaxRestarts = 0 /\ Databases = {"sqlite"}

\* The open positions that have a row, unless something failed: all but the
\* one that open_position has just appended.
Recorded ==
    {positions[j] : j \in 1..(IF pc = "persist" THEN Len(positions) - 1
                                                ELSE Len(positions))}

Memory ==
    /\ \A j \in 1..Len(positions) :
          Sound(positions[j]) /\ positions[j].id <= counter
    /\ \A j, k \in 1..Len(positions) :
          j # k => positions[j].id # positions[k].id

Stage ==
    /\ pc = "mirror" <=> events # <<>>
    /\ pc = "load" => candle.n >= 1
    /\ pc \in {"mirror", "gate", "enrich", "persist"} => bar >= 1
    /\ pc = "persist" =>
          /\ positions # <<>>
          /\ Last(positions).left = Units
          /\ restarts = 0 =>
                Last(positions).id = counter /\ trades[counter] = NoTrade

IInv ==
    /\ TypeOK
    /\ SlotsAgree
    /\ Memory
    /\ Stage
    /\ restarts = 0 => Books(ToSet(positions), events)
    /\ Faultless => Agreed(Recorded, events)

-----------------------------------------------------------------------------
(* The books through one turn of the loop.                                 *)

\* A sequence with one more element.
LEMMA Appended ==
    ASSUME NEW S, NEW q \in Seq(S), NEW x \in S
    PROVE  /\ Append(q, x) \in Seq(S)
           /\ Len(Append(q, x)) = Len(q) + 1
           /\ Append(q, x) # <<>>
           /\ \A k \in 1..Len(q) : Append(q, x)[k] = q[k]
           /\ Append(q, x)[Len(q) + 1] = x
           /\ 1..Len(Append(q, x)) = 1..Len(q) \cup {Len(q) + 1}
           /\ ToSet(Append(q, x)) = ToSet(q) \cup {x}
<1> DEFINE a == Append(q, x)
<1>1. /\ a \in Seq(S) /\ Len(a) = Len(q) + 1 /\ a # <<>>
      /\ \A k \in 1..Len(q) : a[k] = q[k]
      /\ a[Len(q) + 1] = x
      /\ DOMAIN a = 1..Len(a) /\ DOMAIN q = 1..Len(q) /\ Len(q) \in Nat
  OBVIOUS
<1> HIDE DEF a
<1>2. 1..Len(a) = 1..Len(q) \cup {Len(q) + 1}
  BY <1>1
<1>3. ToSet(a) = ToSet(q) \cup {x}
  BY <1>1, <1>2 DEF ToSet
<1> QED
  BY <1>1, <1>2, <1>3 DEF a

\* What the rows hold, of the types.
LEMMA RowType ==
    ASSUME TypeOK, NEW i \in Ids, Durable(i)
    PROVE  /\ trades[i] \in Row /\ trades[i].exited \in Nat
           /\ trades[i].status \in {"OPEN", "PARTIALLY_CLOSED", "CLOSED"}
<1>1. trades[i] \in Row
  BY DEF TypeOK, Durable
<1> QED
  BY <1>1 DEF Row

\* A position that is closed leaves the books right (_close_remaining).
LEMMA BooksGone ==
    ASSUME TypeOK, NEW R \in SUBSET Position, NEW p \in Position,
           NEW ev \in Seq(Event), NEW e, Ended(p, e),
           p.id <= counter, \A r \in R : r.id # p.id,
           Books(R \cup {p}, ev)
    PROVE  Books(R, Append(ev, e))
<1> DEFINE f == Append(ev, e)
           n == Len(ev)
<1>0. p \in Position /\ ev \in Seq(Event)
  OBVIOUS
<1>1. /\ e.kind = "exit" /\ e.id = p.id /\ e.units = p.left /\ e \in Event
      /\ p.id \in Ids /\ p.left \in 1..2
  BY <1>0, UnitsFacts DEF Ended, Position
<1>2. /\ n \in Nat /\ Len(f) = n + 1 /\ 1..Len(f) = 1..n \cup {n + 1}
      /\ \A k \in 1..n : f[k] = ev[k]
      /\ f[n + 1] = e
  BY <1>0, <1>1, Appended
<1> HIDE DEF f
<1>3. /\ Pending(ev) /\ Lagging(R \cup {p}, ev) /\ Past
  BY DEF Books
<1>4. \A k \in 1..n : ev[k].id = p.id => ev[k].kind = "partial_exit" /\ p.left = 1
  BY <1>3 DEF Lagging
<1>5. Durable(p.id) => /\ trades[p.id].exited <= 2 - p.left
                       /\ trades[p.id].status # "CLOSED"
                       /\ trades[p.id].exited \in Nat
  BY <1>1, <1>3, RowType, UnitsFacts DEF Lagging
<1>6. Pending(f)
  <2>1. \A k \in 1..Len(f) : f[k].id <= counter
    BY <1>1, <1>2, <1>3 DEF Pending
  <2>2. ASSUME NEW j \in 1..Len(f), NEW k \in 1..Len(f), j < k, f[j].id = f[k].id
        PROVE  f[j].kind = "partial_exit" /\ f[k].kind = "exit" /\ f[k].units = 1
    <3>1. j \in 1..n
      BY <1>2, <2>2
    <3>2. CASE k \in 1..n
      BY <1>2, <1>3, <2>2, <3>1, <3>2 DEF Pending
    <3>3. CASE k = n + 1
      BY <1>1, <1>2, <1>4, <2>2, <3>1, <3>3
    <3> QED
      BY <1>2, <3>2, <3>3
  <2>3. ASSUME NEW k \in 1..Len(f), Durable(f[k].id)
        PROVE  LET row == trades[f[k].id]
               IN  /\ row.status # "CLOSED"
                   /\ row.exited + f[k].units <= Units
                   /\ f[k].kind = "partial_exit" =>
                         row.status = "OPEN" /\ row.exited = 0 /\ f[k].units = 1
    <3>1. CASE k \in 1..n
      <4>1. f[k] = ev[k]
        BY <1>2, <3>1
      <4> QED
        BY <1>3, <2>3, <3>1, <4>1 DEF Pending
    <3>2. CASE k = n + 1
      BY <1>1, <1>2, <1>5, <2>3, <3>2, UnitsFacts
    <3> QED
      BY <1>2, <3>1, <3>2
  <2> QED
    BY <2>1, <2>2, <2>3 DEF Pending
<1>7. Lagging(R, f)
  <2>1. ASSUME NEW r \in R
        PROVE  /\ \A k \in 1..Len(f) : f[k].id = r.id =>
                     f[k].kind = "partial_exit" /\ r.left = 1
               /\ Durable(r.id) =>
                     /\ trades[r.id].exited <= Units - r.left
                     /\ trades[r.id].status # "CLOSED"
                     /\ r.left = Units => trades[r.id].status = "OPEN"
    <3>1. r.id # p.id
      BY <2>1
    <3>2. \A k \in 1..Len(f) : f[k].id = r.id =>
              f[k].kind = "partial_exit" /\ r.left = 1
      BY <1>1, <1>2, <1>3, <3>1 DEF Lagging
    <3> QED
      BY <1>3, <3>2 DEF Lagging
  <2> QED
    BY <2>1 DEF Lagging
<1> QED
  BY <1>3, <1>6, <1>7 DEF Books, f

\* So does one reduced to its last unit (_partial_exit).
LEMMA BooksReduced ==
    ASSUME TypeOK, NEW R \in SUBSET Position, NEW p \in Position, NEW q,
           NEW ev \in Seq(Event), NEW e, Taken(p, e), Rest(p, q),
           p.id <= counter, \A r \in R : r.id # p.id,
           Books(R \cup {p}, ev)
    PROVE  Books(R \cup {q}, Append(ev, e))
<1> DEFINE f == Append(ev, e)
           n == Len(ev)
<1>0. p \in Position /\ ev \in Seq(Event) /\ q \in Position
  BY DEF Rest
<1>1. /\ e.kind = "partial_exit" /\ e.id = p.id /\ e.units = 1 /\ e \in Event
      /\ p.id \in Ids /\ p.left = 2 /\ q.left = 1 /\ q.id = p.id
  BY <1>0, UnitsFacts DEF Taken, Position, Rest
<1>2. /\ n \in Nat /\ Len(f) = n + 1 /\ 1..Len(f) = 1..n \cup {n + 1}
      /\ \A k \in 1..n : f[k] = ev[k]
      /\ f[n + 1] = e
  BY <1>0, <1>1, Appended
<1> HIDE DEF f
<1>3. /\ Pending(ev) /\ Lagging(R \cup {p}, ev) /\ Past
  BY DEF Books
<1>4. \A k \in 1..n : ev[k].id # p.id
  BY <1>1, <1>3 DEF Lagging
<1>5. Durable(p.id) => trades[p.id].exited = 0 /\ trades[p.id].status = "OPEN"
  <2>1. Durable(p.id) => trades[p.id].exited \in Nat
    BY <1>1, RowType
  <2>2. Durable(p.id) => trades[p.id].exited <= 0 /\ trades[p.id].status = "OPEN"
    BY <1>1, <1>3, UnitsFacts DEF Lagging
  <2> QED
    BY <2>1, <2>2
<1>6. Pending(f)
  <2>1. \A k \in 1..Len(f) : f[k].id <= counter
    BY <1>1, <1>2, <1>3 DEF Pending
  <2>2. ASSUME NEW j \in 1..Len(f), NEW k \in 1..Len(f), j < k, f[j].id = f[k].id
        PROVE  f[j].kind = "partial_exit" /\ f[k].kind = "exit" /\ f[k].units = 1
    <3>1. j \in 1..n
      BY <1>2, <2>2
    <3>2. k \in 1..n
      BY <1>1, <1>2, <1>4, <2>2, <3>1
    <3> QED
      BY <1>2, <1>3, <2>2, <3>1, <3>2 DEF Pending
  <2>3. ASSUME NEW k \in 1..Len(f), Durable(f[k].id)
        PROVE  LET row == trades[f[k].id]
               IN  /\ row.status # "CLOSED"
                   /\ row.exited + f[k].units <= Units
                   /\ f[k].kind = "partial_exit" =>
                         row.status = "OPEN" /\ row.exited = 0 /\ f[k].units = 1
    <3>1. CASE k \in 1..n
      <4>1. f[k] = ev[k]
        BY <1>2, <3>1
      <4> QED
        BY <1>3, <2>3, <3>1, <4>1 DEF Pending
    <3>2. CASE k = n + 1
      BY <1>1, <1>2, <1>5, <2>3, <3>2, UnitsFacts
    <3> QED
      BY <1>2, <3>1, <3>2
  <2> QED
    BY <2>1, <2>2, <2>3 DEF Pending
<1>7. Lagging(R \cup {q}, f)
  <2>1. ASSUME NEW r \in R \cup {q}
        PROVE  /\ \A k \in 1..Len(f) : f[k].id = r.id =>
                     f[k].kind = "partial_exit" /\ r.left = 1
               /\ Durable(r.id) =>
                     /\ trades[r.id].exited <= Units - r.left
                     /\ trades[r.id].status # "CLOSED"
                     /\ r.left = Units => trades[r.id].status = "OPEN"
    <3>1. CASE r \in R
      <4>1. r.id # p.id
        BY <3>1
      <4>2. \A k \in 1..Len(f) : f[k].id = r.id =>
                f[k].kind = "partial_exit" /\ r.left = 1
        BY <1>1, <1>2, <1>3, <3>1, <4>1 DEF Lagging
      <4> QED
        BY <1>3, <3>1, <4>2 DEF Lagging
    <3>2. CASE r = q
      <4>1. \A k \in 1..Len(f) : f[k].id = r.id =>
                f[k].kind = "partial_exit" /\ r.left = 1
        BY <1>1, <1>2, <1>4, <3>2
      <4> QED
        BY <1>1, <1>5, <3>2, <4>1, UnitsFacts
    <3> QED
      BY <3>1, <3>2
  <2> QED
    BY <2>1 DEF Lagging
<1> QED
  BY <1>3, <1>6, <1>7 DEF Books, f

\* With no fault, the rows of the other positions still agree with them ...
LEMMA AgreedGone ==
    ASSUME NEW R \in SUBSET Position, NEW p \in Position,
           NEW ev \in Seq(Event), NEW e, Ended(p, e), \A r \in R : r.id # p.id,
           Agreed(R \cup {p}, ev)
    PROVE  Agreed(R, Append(ev, e))
<1> DEFINE f == Append(ev, e)
           n == Len(ev)
<1>0. ev \in Seq(Event)
  OBVIOUS
<1>1. e.kind = "exit" /\ e.id = p.id /\ e \in Event
  BY DEF Ended
<1>2. /\ n \in Nat /\ Len(f) = n + 1 /\ 1..Len(f) = 1..n \cup {n + 1}
      /\ \A k \in 1..n : f[k] = ev[k]
      /\ f[n + 1] = e
  BY <1>0, <1>1, Appended
<1> HIDE DEF f
<1>3. ASSUME NEW r \in R
      PROVE  /\ Durable(r.id)
             /\ trades[r.id].sig = r.sig
             /\ IF Repeated(r.id, f) THEN trades[r.id].exited = 0
                ELSE trades[r.id].exited = Units - r.left
  <2>1. r.id # p.id
    BY <1>3
  <2>2. Repeated(r.id, f) <=> Repeated(r.id, ev)
    BY <1>1, <1>2, <2>1 DEF Repeated
  <2> QED
    BY <1>3, <2>2 DEF Agreed
<1>4. ASSUME NEW i \in Ids, Live(i)
      PROVE  \/ \E r \in R : r.id = i
             \/ \E k \in 1..Len(f) : f[k].id = i /\ f[k].kind = "exit"
  <2>1. CASE i = p.id
    <3>1. n + 1 \in 1..Len(f) /\ f[n + 1].id = i /\ f[n + 1].kind = "exit"
      BY <1>1, <1>2, <2>1
    <3> QED
      BY <3>1
  <2>2. CASE \E r \in R \cup {p} : r.id = i /\ i # p.id
    BY <2>2
  <2>3. CASE \E k \in 1..n : ev[k].id = i /\ ev[k].kind = "exit"
    <3>1. PICK k \in 1..n : ev[k].id = i /\ ev[k].kind = "exit"
      BY <2>3
    <3>2. k \in 1..Len(f) /\ f[k].id = i /\ f[k].kind = "exit"
      BY <1>2, <3>1
    <3> QED
      BY <3>2
  <2> QED
    BY <1>4, <2>1, <2>2, <2>3 DEF Agreed
<1> QED
  BY <1>3, <1>4 DEF Agreed, f

\* ... and the row of a reduced one waits for its event.
LEMMA AgreedReduced ==
    ASSUME TypeOK, NEW R \in SUBSET Position, NEW p \in Position, NEW q,
           NEW ev \in Seq(Event), NEW e, Taken(p, e), Rest(p, q),
           \A r \in R : r.id # p.id,
           Books(R \cup {p}, ev),
           Agreed(R \cup {p}, ev)
    PROVE  Agreed(R \cup {q}, Append(ev, e))
<1> DEFINE f == Append(ev, e)
           n == Len(ev)
<1>0. ev \in Seq(Event)
  OBVIOUS
<1>1. /\ e.kind = "partial_exit" /\ e.id = p.id /\ e \in Event
      /\ p.left = 2 /\ q.left = 1 /\ q.id = p.id /\ q.sig = p.sig
  BY UnitsFacts DEF Taken, Rest
<1>2. /\ n \in Nat /\ Len(f) = n + 1 /\ 1..Len(f) = 1..n \cup {n + 1}
      /\ \A k \in 1..n : f[k] = ev[k]
      /\ f[n + 1] = e
  BY <1>0, <1>1, Appended
<1> HIDE DEF f
<1>3. ~Repeated(p.id, ev)
  BY <1>1 DEF Books, Lagging, Repeated
<1>4. Durable(p.id) /\ trades[p.id].sig = p.sig /\ trades[p.id].exited = 0
  BY <1>1, <1>3, UnitsFacts DEF Agreed
<1>5. ASSUME NEW r \in R \cup {q}
      PROVE  /\ Durable(r.id)
             /\ trades[r.id].sig = r.sig
             /\ IF Repeated(r.id, f) THEN trades[r.id].exited = 0
                ELSE trades[r.id].exited = Units - r.left
  <2>1. CASE r \in R
    <3>1. r.id # p.id
      BY <2>1
    <3>2. Repeated(r.id, f) <=> Repeated(r.id, ev)
      BY <1>1, <1>2, <3>1 DEF Repeated
    <3> QED
      BY <2>1, <3>2 DEF Agreed
  <2>2. CASE r = q
    <3>1. n + 1 \in 1..Len(f) /\ f[n + 1].id = q.id
      BY <1>1, <1>2
    <3>2. Repeated(r.id, f)
      BY <2>2, <3>1 DEF Repeated
    <3> QED
      BY <1>1, <1>4, <2>2, <3>2
  <2> QED
    BY <2>1, <2>2
<1>6. ASSUME NEW i \in Ids, Live(i)
      PROVE  \/ \E r \in R \cup {q} : r.id = i
             \/ \E k \in 1..Len(f) : f[k].id = i /\ f[k].kind = "exit"
  <2>1. CASE \E r \in R \cup {p} : r.id = i
    BY <1>1, <2>1
  <2>2. CASE \E k \in 1..n : ev[k].id = i /\ ev[k].kind = "exit"
    <3>1. PICK k \in 1..n : ev[k].id = i /\ ev[k].kind = "exit"
      BY <2>2
    <3>2. k \in 1..Len(f) /\ f[k].id = i /\ f[k].kind = "exit"
      BY <1>2, <3>1
    <3> QED
      BY <3>2
  <2> QED
    BY <1>6, <2>1, <2>2 DEF Agreed
<1> QED
  BY <1>5, <1>6 DEF Agreed, f

-----------------------------------------------------------------------------
(* The loop: an induction over the positions.                              *)

Untouched(k) == {positions[j] : j \in k + 1..Len(positions)}

\* What holds of the loop after its first k turns.
Turned(k, acc) ==
    /\ acc \in Managed
    /\ acc.eng.positions = Len(acc.positions) + (Len(positions) - k)
    /\ Len(acc.positions) <= k
    /\ \A a \in 1..Len(acc.positions) :
          /\ Sound(acc.positions[a])
          /\ \E j \in 1..k : acc.positions[a].id = positions[j].id
    /\ \A a, b \in 1..Len(acc.positions) :
          a # b => acc.positions[a].id # acc.positions[b].id
    /\ restarts = 0 => Books(ToSet(acc.positions) \cup Untouched(k), acc.events)
    /\ Faultless => Agreed(ToSet(acc.positions) \cup Untouched(k), acc.events)

\* The turn of position k + 1 keeps it so.
LEMMA Turn ==
    ASSUME TypeOK, Memory, NEW k \in 0..Len(positions), k < Len(positions),
           Faultless => restarts = 0,
           NEW acc, Turned(k, acc)
    PROVE  Turned(k + 1, ManageFirst(acc, positions[k + 1], candle))
<1> DEFINE p == positions[k + 1]
           n == Len(positions)
           r == ManageFirst(acc, p, candle)
           A == ToSet(acc.positions)
           R == A \cup Untouched(k + 1)
<1> SUFFICES Turned(k + 1, r)
  OBVIOUS
<1>1. /\ positions \in Seq(Position) /\ n \in Nat /\ k \in Nat /\ k + 1 \in 1..n
      /\ candle.n \in Nat /\ counter \in Nat /\ acc \in Managed
      /\ acc.positions \in Seq(Position) /\ acc.events \in Seq(Event)
      /\ acc.eng.positions \in Nat
  <2>1. positions \in Seq(Position) /\ counter \in 0..MaxTrades /\ candle \in Candle
    BY DEF TypeOK
  <2>2. acc \in Managed
    BY DEF Turned
  <2>3. n \in Nat /\ k \in Nat /\ k + 1 \in 1..n
    BY <2>1
  <2>4. candle.n \in Nat /\ counter \in Nat
    BY <2>1, PaperAssumption DEF Candle
  <2>5. /\ acc.positions \in Seq(Position) /\ acc.events \in Seq(Event)
        /\ acc.eng \in Engine
    BY <2>2 DEF Managed
  <2>6. acc.eng.positions \in Nat
    BY <2>5 DEF Engine
  <2> QED
    BY <2>1, <2>2, <2>3, <2>4, <2>5, <2>6
<1>2. p \in Position /\ Sound(p) /\ p.id <= counter /\ p.id \in Ids
  <2>1. p \in Position
    BY <1>1
  <2>2. Sound(p) /\ p.id <= counter
    BY <1>1 DEF Memory
  <2> QED
    BY <2>1, <2>2 DEF Position
<1>3. r \in Managed /\ \/ Kept(acc, p, r)
                       \/ Gone(acc, p, r)
                       \/ Reduced(acc, p, r)
                       \/ ReducedAndGone(acc, p, r)
  BY <1>1, <1>2, ManageStep
<1>4. \A j \in 1..n : j # k + 1 => positions[j].id # p.id
  BY <1>1 DEF Memory
<1>5. \A a \in 1..Len(acc.positions) : acc.positions[a].id # p.id
  <2>1. ASSUME NEW a \in 1..Len(acc.positions)
        PROVE  acc.positions[a].id # p.id
    <3>1. PICK j \in 1..k : acc.positions[a].id = positions[j].id
      BY <2>1 DEF Turned
    <3>2. j \in 1..n /\ j # k + 1
      BY <1>1
    <3> QED
      BY <1>4, <3>1, <3>2
  <2> QED
    BY <2>1
<1>6. Untouched(k) = Untouched(k + 1) \cup {p}
  BY <1>1 DEF Untouched
<1>7. R \subseteq Position /\ \A x \in R : x.id # p.id
  <2>1. A \subseteq Position /\ \A x \in A : x.id # p.id
    BY <1>1, <1>5 DEF ToSet
  <2>2. Untouched(k + 1) \subseteq Position
    BY <1>1 DEF Untouched
  <2>3. \A x \in Untouched(k + 1) : x.id # p.id
    BY <1>1, <1>4 DEF Untouched
  <2> QED
    BY <2>1, <2>2, <2>3
<1>8. A \cup Untouched(k) = R \cup {p}
  BY <1>6
<1>9. /\ restarts = 0 => Books(R \cup {p}, acc.events)
      /\ Faultless => Agreed(R \cup {p}, acc.events)
  BY <1>8 DEF Turned
<1> HIDE DEF p, r, R
\* A closed position, and one reduced before.
<1>10. ASSUME NEW q, q \in Position, q.id = p.id, NEW m \in Managed,
              m.positions = acc.positions, m.eng.positions = acc.eng.positions,
              Gone(m, q, r),
              restarts = 0 => Books(R \cup {q}, m.events),
              Faultless => Agreed(R \cup {q}, m.events)
       PROVE  Turned(k + 1, r)
  <2>1. PICK e : Ended(q, e) /\ r.events = Append(m.events, e)
    BY <1>10 DEF Gone
  <2>2. r.positions = acc.positions /\ ToSet(r.positions) = A
    BY <1>10 DEF Gone
  <2>3. m.events \in Seq(Event)
    BY <1>10 DEF Managed
  <2>4. \A x \in R : x.id # q.id
    BY <1>7, <1>10
  <2>5. restarts = 0 => Books(R, r.events)
    BY <1>2, <1>7, <1>10, <2>1, <2>3, <2>4, BooksGone
  <2>6. Faultless => Agreed(R, r.events)
    BY <1>7, <1>10, <2>1, <2>3, <2>4, AgreedGone
  <2>7. r.eng.positions = Len(r.positions) + (n - (k + 1))
    <3>1. acc.eng.positions = Len(acc.positions) + (n - k) /\ Len(acc.positions) \in Nat
      BY <1>1 DEF Turned
    <3>2. r.eng.positions = Larger(0, acc.eng.positions - 1)
      BY <1>10 DEF Gone
    <3> QED
      BY <1>1, <2>2, <3>1, <3>2 DEF Larger
  <2>8. \A a \in 1..Len(r.positions) :
           /\ Sound(r.positions[a])
           /\ \E j \in 1..(k + 1) : r.positions[a].id = positions[j].id
    BY <1>1, <2>2 DEF Turned
  <2>9. \A a, b \in 1..Len(r.positions) :
           a # b => r.positions[a].id # r.positions[b].id
    BY <2>2 DEF Turned
  <2>10. ToSet(r.positions) \cup Untouched(k + 1) = R
    BY <2>2 DEF R
  <2>11. Len(r.positions) <= k + 1
    BY <1>1, <2>2 DEF Turned
  <2> QED
    BY <1>3, <2>5, <2>6, <2>7, <2>8, <2>9, <2>10, <2>11 DEF Turned
\* One that is kept, whole or reduced.
<1>11. ASSUME NEW q, q \in Position, Sound(q), q.id = p.id,
              r.positions = Append(acc.positions, q),
              r.eng.positions = acc.eng.positions,
              restarts = 0 => Books(R \cup {q}, r.events),
              Faultless => Agreed(R \cup {q}, r.events)
       PROVE  Turned(k + 1, r)
  <2>1. /\ Len(r.positions) = Len(acc.positions) + 1
        /\ 1..Len(r.positions) = 1..Len(acc.positions) \cup {Len(acc.positions) + 1}
        /\ \A a \in 1..Len(acc.positions) : r.positions[a] = acc.positions[a]
        /\ r.positions[Len(acc.positions) + 1] = q
        /\ ToSet(r.positions) = A \cup {q}
    BY <1>1, <1>11, Appended
  <2>2. r.eng.positions = Len(r.positions) + (n - (k + 1))
    <3>1. acc.eng.positions = Len(acc.positions) + (n - k) /\ Len(acc.positions) \in Nat
      BY <1>1 DEF Turned
    <3> QED
      BY <1>1, <1>11, <2>1, <3>1
  <2>3. ASSUME NEW a \in 1..Len(r.positions)
        PROVE  /\ Sound(r.positions[a])
               /\ \E j \in 1..(k + 1) : r.positions[a].id = positions[j].id
    <3>1. CASE a \in 1..Len(acc.positions)
      <4>1. /\ Sound(acc.positions[a])
            /\ \E j \in 1..k : acc.positions[a].id = positions[j].id
        BY <3>1 DEF Turned
      <4>2. 1..k \subseteq 1..(k + 1)
        BY <1>1
      <4> QED
        BY <2>1, <3>1, <4>1, <4>2
    <3>2. CASE a = Len(acc.positions) + 1
      <4>1. k + 1 \in 1..(k + 1) /\ r.positions[a].id = positions[k + 1].id
        BY <1>1, <1>11, <2>1, <3>2 DEF p
      <4> QED
        BY <1>11, <2>1, <3>2, <4>1
    <3> QED
      BY <2>1, <3>1, <3>2
  <2>4. \A a, b \in 1..Len(r.positions) :
           a # b => r.positions[a].id # r.positions[b].id
    BY <1>5, <1>11, <2>1 DEF Turned
  <2>5. ToSet(r.positions) \cup Untouched(k + 1) = R \cup {q}
    BY <2>1 DEF R
  <2>6. Len(r.positions) <= k + 1
    BY <1>1, <2>1 DEF Turned
  <2> QED
    BY <1>3, <1>11, <2>2, <2>3, <2>4, <2>5, <2>6 DEF Turned
\* What the reduction itself does to the books.
<1>12. ASSUME NEW q, NEW e, Rest(p, q), Taken(p, e)
       PROVE  /\ restarts = 0 => Books(R \cup {q}, Append(acc.events, e))
              /\ Faultless => Agreed(R \cup {q}, Append(acc.events, e))
  <2>1. /\ R \in SUBSET Position /\ p \in Position /\ acc.events \in Seq(Event)
        /\ p.id <= counter /\ \A x \in R : x.id # p.id
    BY <1>1, <1>2, <1>7
  <2>2. ASSUME restarts = 0
        PROVE  Books(R \cup {q}, Append(acc.events, e))
    <3>1. Books(R \cup {p}, acc.events)
      BY <1>9, <2>2
    <3> QED
      BY <1>12, <2>1, <3>1, BooksReduced
  <2>3. ASSUME Faultless
        PROVE  Agreed(R \cup {q}, Append(acc.events, e))
    <3>1. Books(R \cup {p}, acc.events) /\ Agreed(R \cup {p}, acc.events)
      BY <1>9, <2>3
    <3> QED
      BY <1>12, <2>1, <3>1, AgreedReduced
  <2> QED
    BY <2>2, <2>3
<1>13. CASE Kept(acc, p, r)
  BY <1>2, <1>9, <1>11, <1>13 DEF Kept
<1>14. CASE Gone(acc, p, r)
  BY <1>1, <1>2, <1>9, <1>10, <1>14
<1>15. CASE Reduced(acc, p, r)
  <2>1. PICK q, e :
           /\ Rest(p, q) /\ Taken(p, e)
           /\ r.positions = Append(acc.positions, q)
           /\ r.events = Append(acc.events, e)
           /\ r.eng.positions = acc.eng.positions
    BY <1>15 DEF Reduced
  <2>2. restarts = 0 => Books(R \cup {q}, r.events)
    BY <1>12, <2>1
  <2>3. Faultless => Agreed(R \cup {q}, r.events)
    BY <1>12, <2>1
  <2> QED
    BY <1>11, <2>1, <2>2, <2>3 DEF Rest
<1>16. CASE ReducedAndGone(acc, p, r)
  <2>1. PICK m, q, e :
           /\ m \in Managed
           /\ Rest(p, q) /\ Taken(p, e)
           /\ m.positions = acc.positions
           /\ m.events = Append(acc.events, e)
           /\ m.eng.positions = acc.eng.positions
           /\ Gone(m, q, r)
    BY <1>16 DEF ReducedAndGone
  <2>2. restarts = 0 => Books(R \cup {q}, m.events)
    BY <1>12, <2>1
  <2>3. Faultless => Agreed(R \cup {q}, m.events)
    BY <1>12, <2>1
  <2> QED
    BY <1>10, <2>1, <2>2, <2>3 DEF Rest
<1> QED
  BY <1>3, <1>13, <1>14, <1>15, <1>16

Loop(f, c) ==
    f = [k \in 0..Len(positions) |->
            IF k = 0 THEN Unmanaged ELSE ManageFirst(f[k - 1], positions[k], c)]

\* process_candle's recursion defines a function.
LEMMA LoopExists ==
    ASSUME NEW c, Len(positions) \in Nat
    PROVE  \E f : Loop(f, c)
<1> DEFINE Body(f, k) ==
               IF k = 0 THEN Unmanaged ELSE ManageFirst(f[k - 1], positions[k], c)
           Upto(n) == \E f : f = [k \in 0..n |-> Body(f, k)]
           G == {n \in Nat : Upto(n)}
<1>1. 0 \in G
  <2> DEFINE f == [k \in 0..0 |-> Unmanaged]
  <2>1. f = [k \in 0..0 |-> Body(f, k)]
    OBVIOUS
  <2> QED
    BY <2>1
<1>2. ASSUME NEW n \in Nat, n \in G
      PROVE  n + 1 \in G
  <2>1. PICK f : f = [k \in 0..n |-> Body(f, k)]
    BY <1>2
  <2> DEFINE g == [k \in 0..(n + 1) |->
                      IF k = n + 1 THEN ManageFirst(f[n], positions[n + 1], c)
                      ELSE f[k]]
  <2>2. ASSUME NEW k \in 0..(n + 1)
        PROVE  g[k] = Body(g, k)
    <3>1. CASE k = n + 1
      BY <3>1
    <3>2. CASE k # n + 1
      <4>1. k \in 0..n
        BY <3>2
      <4>2. g[k] = f[k] /\ (k # 0 => g[k - 1] = f[k - 1])
        BY <4>1
      <4>3. f[k] = Body(f, k)
        BY <2>1, <4>1
      <4> HIDE DEF g
      <4> QED
        BY <4>2, <4>3
    <3> QED
      BY <3>1, <3>2
  <2>3. g = [k \in 0..(n + 1) |-> g[k]]
    OBVIOUS
  <2> HIDE DEF g
  <2>4. g = [k \in 0..(n + 1) |-> Body(g, k)]
    BY <2>2, <2>3
  <2>5. Upto(n + 1)
    BY <2>4
  <2> HIDE DEF Upto
  <2> QED
    BY <2>5
<1> HIDE DEF G
<1>3. Nat \subseteq G
  BY <1>1, <1>2, SetInduction
<1>4. Upto(Len(positions))
  BY <1>3 DEF G
<1> QED
  BY <1>4 DEF Loop

\* ... and every state of the loop is as Turned says.
LEMMA EveryTurn ==
    ASSUME TypeOK, Memory, Faultless => restarts = 0,
           Turned(0, Unmanaged),
           NEW f, Loop(f, candle),
           NEW n \in 0..Len(positions)
    PROVE  Turned(n, f[n])
<1> DEFINE G == {k \in Nat : k <= Len(positions) => Turned(k, f[k])}
<1>1. positions \in Seq(Position) /\ Len(positions) \in Nat
  BY DEF TypeOK
<1>2. \A k \in 0..Len(positions) :
         f[k] = IF k = 0 THEN Unmanaged
                ELSE ManageFirst(f[k - 1], positions[k], candle)
  BY DEF Loop
<1>3. 0 \in G
  <2>1. f[0] = Unmanaged
    BY <1>1, <1>2
  <2> QED
    BY <2>1
<1>4. ASSUME NEW k \in Nat, k \in G
      PROVE  k + 1 \in G
  <2>1. SUFFICES ASSUME k + 1 <= Len(positions)
                 PROVE  Turned(k + 1, f[k + 1])
    OBVIOUS
  <2>2. k \in 0..Len(positions) /\ k < Len(positions) /\ Turned(k, f[k])
    BY <1>1, <1>4, <2>1
  <2>3. f[k + 1] = ManageFirst(f[k], positions[k + 1], candle)
    <3>1. k + 1 \in 0..Len(positions) /\ k + 1 # 0 /\ (k + 1) - 1 = k
      BY <1>1, <2>1
    <3> QED
      BY <1>2, <3>1
  <2> QED
    BY <2>2, <2>3, Turn
<1> HIDE DEF G
<1>5. Nat \subseteq G
  BY <1>3, <1>4, SetInduction
<1> QED
  BY <1>1, <1>5 DEF G

\* What the loop leaves.
LEMMA ProcessCandleFacts ==
    ASSUME IInv, pc = "load"
    PROVE  Turned(Len(positions), ProcessCandle(candle))
<1> DEFINE f == CHOOSE f : Loop(f, candle)
           n == Len(positions)
<1>1. /\ TypeOK /\ Memory /\ positions \in Seq(Position) /\ n \in Nat
      /\ eng \in Engine /\ equity \in Int
  BY DEF IInv, TypeOK
<1>2. Loop(f, candle)
  BY <1>1, LoopExists
<1>3. ProcessCandle(candle) = f[n]
  BY DEF ProcessCandle, Loop
<1>4. Faultless => restarts = 0
  BY <1>1 DEF Faultless, TypeOK
<1>5. Turned(0, Unmanaged)
  <2> DEFINE u == Unmanaged
  <2>1. /\ u.positions = <<>> /\ u.eng = eng /\ u.equity = equity
        /\ u.events = <<>> /\ u \in Managed /\ Len(u.positions) = 0
        /\ ToSet(u.positions) = {}
    <3>1. /\ <<>> \in Seq(Position) /\ <<>> \in Seq(Event)
          /\ ToSet(<<>>) = {}
      BY DEF ToSet
    <3> QED
      BY <1>1, <3>1 DEF Unmanaged, Managed
  <2>2. Untouched(0) = ToSet(positions)
    BY <1>1 DEF Untouched, ToSet
  <2>3. events = <<>>
    BY DEF IInv, Stage
  <2>4. Recorded = ToSet(positions)
    BY <1>1 DEF Recorded, ToSet
  <2>5. u.eng.positions = 0 + (n - 0)
    BY <1>1, <2>1 DEF IInv, SlotsAgree
  <2>6. /\ restarts = 0 => Books(Untouched(0), u.events)
        /\ Faultless => Agreed(Untouched(0), u.events)
    BY <2>1, <2>2, <2>3, <2>4 DEF IInv
  <2>7. \A a : a \notin 1..Len(u.positions)
    BY <2>1
  <2> HIDE DEF u
  <2>8. ToSet(u.positions) \cup Untouched(0) = Untouched(0)
    BY <2>1
  <2>9. u.eng.positions = Len(u.positions) + (Len(positions) - 0)
    BY <2>1, <2>5
  <2>10. Len(u.positions) <= 0
    BY <2>1
  <2>11. Turned(0, u)
    BY <2>1, <2>6, <2>7, <2>8, <2>9, <2>10 DEF Turned
  <2> QED
    BY <2>11 DEF u
<1> HIDE DEF f
<1> QED
  BY <1>1, <1>2, <1>3, <1>4, <1>5, EveryTurn

-----------------------------------------------------------------------------
(* The types, action by action.                                            *)

\* What mirroring an event does to a row (persistence.py:87-107).
LEMMA MirroredFacts ==
    ASSUME NEW row \in Row, NEW e \in Event
    PROVE  /\ Mirrored(row, e) \in Row
           /\ Mirrored(row, e).sig = row.sig
           /\ Mirrored(row, e).exited = row.exited + e.units
           /\ Mirrored(row, e).status =
                  IF e.kind = "partial_exit" THEN "PARTIALLY_CLOSED" ELSE "CLOSED"
<1> DEFINE m == Mirrored(row, e)
           exits == row.exited + e.units
<1>1. row \in Row /\ e \in Event /\ e.sig \in SignalIds /\ e.units \in Nat
  BY UnitsFacts DEF Event
<1>2. exits \in Nat
  BY <1>1 DEF Row
<1>3. CASE e.kind = "partial_exit"
  <2>1. m = [row EXCEPT !.status = "PARTIALLY_CLOSED", !.exited = exits]
    BY <1>3 DEF Mirrored, Row
  <2> HIDE DEF m, exits
  <2>2. m \in Row /\ m.sig = row.sig /\ m.exited = exits /\ m.status = "PARTIALLY_CLOSED"
    BY <1>1, <1>2, <2>1 DEF Row
  <2> QED
    BY <1>3, <2>2 DEF m, exits
<1>4. CASE e.kind # "partial_exit"
  <2>1. m = [row EXCEPT !.status = "CLOSED", !.exited = exits, !.result = e.sig]
    BY <1>4 DEF Mirrored, Row
  <2> HIDE DEF m, exits
  <2>2. m \in Row /\ m.sig = row.sig /\ m.exited = exits /\ m.status = "CLOSED"
    BY <1>1, <1>2, <2>1 DEF Row
  <2> QED
    BY <1>4, <2>2 DEF m, exits
<1> QED
  BY <1>3, <1>4

\* The head of the pending events, and the others.
LEMMA Pop ==
    ASSUME TypeOK, events # <<>>
    PROVE  LET e == Head(events)
               rest == Tail(events)
           IN  /\ Len(events) \in Nat /\ 1 \in 1..Len(events)
               /\ e = events[1] /\ e \in Event /\ rest \in Seq(Event)
               /\ Len(rest) = Len(events) - 1
               /\ \A k \in 1..Len(rest) :
                     k + 1 \in 1..Len(events) /\ rest[k] = events[k + 1]
<1>1. events \in Seq(Event)
  BY DEF TypeOK
<1> QED
  BY <1>1

\* What MirrorEvent does to the table.
LEMMA MirrorFacts ==
    ASSUME TypeOK, events # <<>>, MirrorEvent
    PROVE  LET e == Head(events)
           IN  /\ trades' \in [Ids -> Row \cup {NoTrade}]
               /\ \A i \in Ids : (trades'[i] # NoTrade) <=> Durable(i)
               /\ \A i \in Ids : i # e.id => trades'[i] = trades[i]
               /\ Durable(e.id) =>
                     /\ trades'[e.id].sig = trades[e.id].sig
                     /\ trades'[e.id].exited = trades[e.id].exited + e.units
                     /\ trades'[e.id].status =
                           IF e.kind = "partial_exit" THEN "PARTIALLY_CLOSED"
                           ELSE "CLOSED"
<1> DEFINE e == Head(events)
<1>1. e \in Event
  BY Pop
<1>2. e.id \in Ids /\ trades \in [Ids -> Row \cup {NoTrade}]
  BY <1>1 DEF Event, TypeOK
<1>3. CASE trades[e.id] = NoTrade
  <2>1. trades' = trades
    BY <1>3 DEF MirrorEvent
  <2> HIDE DEF e
  <2> QED
    BY <1>2, <1>3, <2>1 DEF Durable, e
<1>4. CASE trades[e.id] # NoTrade
  <2> DEFINE m == Mirrored(trades[e.id], e)
  <2>1. trades' = [trades EXCEPT ![e.id] = m]
    BY <1>4 DEF MirrorEvent
  <2>2. trades[e.id] \in Row
    BY <1>2, <1>4
  <2>3. /\ m \in Row /\ m.sig = trades[e.id].sig
        /\ m.exited = trades[e.id].exited + e.units
        /\ m.status = IF e.kind = "partial_exit" THEN "PARTIALLY_CLOSED" ELSE "CLOSED"
    BY <1>1, <2>2, MirroredFacts
  <2> HIDE DEF e, m
  <2>4. m # NoTrade
    BY <2>3, PaperAssumption
  <2>5. trades'[e.id] = m /\ \A i \in Ids : i # e.id => trades'[i] = trades[i]
    BY <1>2, <2>1
  <2>6. trades' \in [Ids -> Row \cup {NoTrade}]
    BY <1>2, <2>1, <2>3
  <2>7. \A i \in Ids : (trades'[i] # NoTrade) <=> Durable(i)
    BY <1>2, <1>4, <2>4, <2>5 DEF Durable
  <2> QED
    BY <2>3, <2>5, <2>6, <2>7 DEF e
<1> QED
  BY <1>3, <1>4

\* The position open_position appends.
Opened(s) ==
    [id |-> counter + 1, sig |-> <<bar, s>>, next |-> 1, left |-> Units,
     pnl |-> 0, notional |-> (eng.equity * Share) \div 100]

\* It is whole, and has the next id (engine.py:126-142).
LEMMA OpenedFacts ==
    ASSUME TypeOK, bar >= 1, NEW s \in todo, counter < MaxTrades
    PROVE  /\ Opened(s) \in Position /\ Sound(Opened(s))
           /\ Opened(s).id = counter + 1 /\ Opened(s).left = Units
           /\ Opened(s).sig = <<bar, s>>
<1>1. /\ eng \in Engine /\ bar \in 1..MaxCandle /\ s \in Strategies
      /\ counter \in 0..MaxTrades /\ Share \in Int
  BY PaperAssumption DEF TypeOK
<1>2. eng.equity * Share \in Int
  BY <1>1 DEF Engine
<1>3. (eng.equity * Share) \div 100 \in Int
  BY <1>2
<1>4. <<bar, s>> \in SignalIds
  BY <1>1 DEF SignalIds
<1>5. counter + 1 \in Ids
  BY <1>1, PaperAssumption DEF Ids
<1>6. 1 \in 1..Units /\ Units \in 1..Units
  BY UnitsFacts
<1> QED
  BY <1>3, <1>4, <1>5, <1>6, UnitsFacts DEF Opened, Position, Sound

\* The engine after a signal was tried.
LEMMA TriedFacts ==
    ASSUME TypeOK
    PROVE  /\ Now \in Nat
           /\ ResetDaily(eng, Now) \in Engine
           /\ ResetDaily(eng, Now).positions = eng.positions
           /\ RecordPositionOpen(ResetDaily(eng, Now)) \in Engine
           /\ RecordPositionOpen(ResetDaily(eng, Now)).positions = eng.positions + 1
<1>1. eng \in Engine /\ Now \in Nat
  BY PaperAssumption DEF TypeOK, Candle, Now
<1>2. /\ ResetDaily(eng, Now) \in Engine
      /\ ResetDaily(eng, Now).positions = eng.positions
  BY <1>1, ResetDailyFacts
<1> QED
  BY <1>1, <1>2, OpenFacts

\* The position persist_paper_open is about.
LEMMA LastFacts ==
    ASSUME TypeOK, positions # <<>>
    PROVE  /\ Len(positions) \in Nat /\ Len(positions) \in 1..Len(positions)
           /\ Last(positions) = positions[Len(positions)]
           /\ Last(positions) \in Position
           /\ Last(positions).id \in Ids /\ Last(positions).sig \in SignalIds
<1>1. positions \in Seq(Position)
  BY DEF TypeOK
<1>2. /\ Len(positions) \in Nat /\ Len(positions) \in 1..Len(positions)
      /\ Last(positions) = positions[Len(positions)]
      /\ Last(positions) \in Position
  BY <1>1 DEF Last
<1> QED
  BY <1>2 DEF Position

\* The row it inserts.
Inserted(p) == [sig |-> p.sig, status |-> "OPEN", exited |-> 0, result |-> <<>>]

\* It is a row.
LEMMA InsertedFacts ==
    ASSUME NEW p \in Position
    PROVE  Inserted(p) \in Row /\ Inserted(p) # NoTrade
<1>1. p \in Position
  OBVIOUS
<1>2. p.sig \in SignalIds
  BY <1>1 DEF Position
<1>3. Inserted(p) \in Row
  BY <1>2 DEF Inserted, Row
<1> QED
  BY <1>3, PaperAssumption

\* Every step keeps the types.
LEMMA TypeStep ==
    ASSUME IInv, [Next]_vars
    PROVE  TypeOK'
<1>0. TypeOK /\ Stage
  BY DEF IInv
<1> USE DEF tables, memory, job
<1>1. CASE NewCandle
  <2>1. PICK b \in Bars, fires \in SUBSET Strategies :
           candle' = [n |-> candle.n + 1, low |-> b[1], high |-> b[2], fires |-> fires]
    BY <1>1 DEF NewCandle
  <2>2. candle.n + 1 \in 0..MaxCandle
    BY <1>0, <1>1, PaperAssumption DEF NewCandle, TypeOK, Candle
  <2>3. b[1] \in 1..2 /\ b[2] \in 2..4
    BY PaperAssumption
  <2>4. candle' \in Candle
    BY <2>1, <2>2, <2>3 DEF Candle
  <2> QED
    BY <1>0, <1>1, <2>4 DEF NewCandle, TypeOK
<1>2. CASE GenerateSignals
  <2>1. candle \in Candle /\ signals \in [1..MaxCandle -> SUBSET Strategies]
    BY <1>0 DEF TypeOK
  <2>2. candle.fires \in SUBSET Strategies
    BY <2>1 DEF Candle
  <2>3. signals' \in [1..MaxCandle -> SUBSET Strategies]
    BY <1>2, <2>1, <2>2 DEF GenerateSignals
  <2> QED
    BY <1>0, <1>2, <2>3 DEF GenerateSignals, TypeOK
<1>3. CASE LoadAndManage
  <2> DEFINE done == ProcessCandle(candle)
  <2>1. Turned(Len(positions), done)
    BY <1>3, ProcessCandleFacts DEF LoadAndManage
  <2>2. done \in Managed
    BY <2>1 DEF Turned
  <2>3. /\ positions' = done.positions /\ eng' = done.eng
        /\ equity' = done.equity /\ events' = done.events
        /\ pc' \in {"gate", "mirror"}
    BY <1>3 DEF LoadAndManage
  <2> HIDE DEF done
  <2>4. /\ positions' \in Seq(Position) /\ eng' \in Engine
        /\ equity' \in Int /\ events' \in Seq(Event)
    BY <2>2, <2>3 DEF Managed
  <2>5. bar' = candle.n /\ candle.n \in 0..MaxCandle
    BY <1>0, <1>3 DEF LoadAndManage, TypeOK, Candle
  <2> QED
    BY <1>0, <1>3, <2>3, <2>4, <2>5 DEF LoadAndManage, TypeOK
<1>4. CASE MirrorEvent
  <2>1. events # <<>>
    BY <1>0, <1>4 DEF MirrorEvent, Stage
  <2>2. trades' \in [Ids -> Row \cup {NoTrade}]
    BY <1>0, <1>4, <2>1, MirrorFacts
  <2>3. events' \in Seq(Event)
    BY <1>0, <1>4, <2>1, Pop DEF MirrorEvent
  <2>4. pc' \in {"gate", "mirror"}
    BY <1>4 DEF MirrorEvent
  <2> QED
    BY <1>0, <1>4, <2>2, <2>3, <2>4 DEF MirrorEvent, TypeOK
<1>5. CASE MirrorRefused
  BY <1>0, <1>5 DEF MirrorRefused, TypeOK
<1>6. CASE ModelGate
  <2>1. bar \in 1..MaxCandle
    BY <1>0, <1>6, PaperAssumption DEF ModelGate, Stage, TypeOK
  <2>2. todo' \subseteq Strategies /\ pc' \in {"idle", "enrich"}
    BY <1>0, <1>6, <2>1 DEF ModelGate, TypeOK
  <2> QED
    BY <1>0, <1>6, <2>2 DEF ModelGate, TypeOK
<1>7. CASE TrySignal
  <2>1. PICK s \in todo : OpenPosition(s) \/ RefusePosition(s)
    BY <1>7 DEF TrySignal
  <2>2. CASE OpenPosition(s)
    <3>1. bar >= 1
      BY <1>0, <1>7 DEF TrySignal, Stage
    <3>2. /\ counter < MaxTrades /\ counter' = counter + 1 /\ pc' = "persist"
          /\ positions' = Append(positions, Opened(s)) /\ todo' = todo
          /\ eng' = RecordPositionOpen(ResetDaily(eng, Now))
      BY <2>2 DEF OpenPosition, Opened
    <3>3. Opened(s) \in Position
      BY <1>0, <3>1, <3>2, OpenedFacts
    <3>4. positions' \in Seq(Position)
      BY <1>0, <3>2, <3>3 DEF TypeOK
    <3>5. eng' \in Engine
      BY <1>0, <3>2, TriedFacts
    <3>6. counter' \in 0..MaxTrades
      BY <1>0, <3>2, PaperAssumption DEF TypeOK
    <3> QED
      BY <1>0, <1>7, <3>2, <3>4, <3>5, <3>6 DEF TrySignal, TypeOK
  <2>3. CASE RefusePosition(s)
    <3>1. eng' \in Engine
      BY <1>0, <2>3, TriedFacts DEF RefusePosition
    <3>2. todo' \subseteq Strategies /\ pc' \in {"idle", "enrich"}
      BY <1>0, <2>3 DEF RefusePosition, NextPc, TypeOK
    <3> QED
      BY <1>0, <1>7, <2>3, <3>1, <3>2 DEF TrySignal, RefusePosition, TypeOK
  <2> QED
    BY <2>1, <2>2, <2>3
<1>8. CASE PersistOpen
  <2> DEFINE p == Last(positions)
  <2>1. p \in Position /\ p.id \in Ids
    BY <1>0, <1>8, LastFacts DEF PersistOpen, Stage
  <2>2. trades' = trades \/ trades' = [trades EXCEPT ![p.id] = Inserted(p)]
    BY <1>8 DEF PersistOpen, Inserted
  <2>3. todo' \subseteq Strategies /\ pc' \in {"idle", "enrich"}
    BY <1>0, <1>8 DEF PersistOpen, NextPc, TypeOK
  <2> HIDE DEF p
  <2>4. trades' \in [Ids -> Row \cup {NoTrade}]
    BY <1>0, <2>1, <2>2, InsertedFacts DEF TypeOK
  <2> QED
    BY <1>0, <1>8, <2>3, <2>4 DEF PersistOpen, TypeOK
<1>9. CASE Abort
  BY <1>0, <1>9 DEF Abort, TypeOK
<1>10. CASE Restart
  <2>1. NewEngine(Now) \in Engine
    BY <1>0, TriedFacts, NewEngineFacts
  <2>2. restarts' \in 0..MaxRestarts /\ 0 \in 0..MaxTrades /\ 0 \in 0..MaxCandle
    BY <1>0, <1>10, PaperAssumption DEF Restart, TypeOK
  <2>3. InitialEquity \in Int
    BY ConfigAssumption
  <2> QED
    BY <1>0, <1>10, <2>1, <2>2, <2>3 DEF Restart, TypeOK
<1>11. CASE UNCHANGED vars
  BY <1>0, <1>11 DEF vars, TypeOK
<1> QED
  BY <1>1, <1>2, <1>3, <1>4, <1>5, <1>6, <1>7, <1>8, <1>9, <1>10, <1>11
     DEF Next, JobStep

-----------------------------------------------------------------------------
(* The memory, action by action.                                           *)

\* The steps that leave the paper trader's memory alone.
Elsewhere ==
    \/ NewCandle \/ GenerateSignals \/ MirrorEvent \/ MirrorRefused
    \/ ModelGate \/ PersistOpen \/ Abort \/ UNCHANGED vars

\* The others are process_candle, open_position and a restart.
LEMMA Actions ==
    ASSUME [Next]_vars
    PROVE  \/ Elsewhere
           \/ LoadAndManage
           \/ \E s \in todo : TrySignal /\ OpenPosition(s)
           \/ \E s \in todo : TrySignal /\ RefusePosition(s)
           \/ Restart
<1>1. TrySignal => \E s \in todo : OpenPosition(s) \/ RefusePosition(s)
  BY DEF TrySignal
<1>2. Next \/ UNCHANGED vars
  OBVIOUS
<1> QED
  BY <1>1, <1>2 DEF Next, JobStep, Elsewhere

\* No position, id or slot changes in them.
LEMMA ElsewhereFacts ==
    ASSUME Elsewhere
    PROVE  positions' = positions /\ counter' = counter /\ eng' = eng
BY DEF Elsewhere, NewCandle, GenerateSignals, MirrorEvent, MirrorRefused,
       ModelGate, PersistOpen, Abort, vars, memory

\* open_position takes a slot that can_trade found free (engine.py:109-144).
LEMMA SlotsStep ==
    ASSUME IInv, [Next]_vars
    PROVE  SlotsAgree'
<1>0. /\ TypeOK /\ SlotsAgree /\ positions \in Seq(Position)
      /\ Len(positions) \in Nat /\ MaxPositions \in Nat \ {0}
  BY ConfigAssumption DEF IInv, TypeOK
<1>1. CASE Elsewhere
  BY <1>0, <1>1, ElsewhereFacts DEF SlotsAgree
<1>2. CASE LoadAndManage
  <2> DEFINE done == ProcessCandle(candle)
  <2>1. Turned(Len(positions), done)
    BY <1>2, ProcessCandleFacts DEF LoadAndManage
  <2>2. positions' = done.positions /\ eng' = done.eng
    BY <1>2 DEF LoadAndManage
  <2> HIDE DEF done
  <2>3. /\ done.positions \in Seq(Position)
        /\ done.eng.positions = Len(done.positions) + (Len(positions) - Len(positions))
    BY <2>1 DEF Turned, Managed
  <2>4. eng'.positions = Len(positions')
    BY <1>0, <2>2, <2>3
  <2>5. Len(positions') <= Len(positions)
    BY <2>1, <2>2 DEF Turned
  <2> QED
    BY <1>0, <2>2, <2>3, <2>4, <2>5 DEF SlotsAgree
<1>3. ASSUME NEW s \in todo, OpenPosition(s)
      PROVE  SlotsAgree'
  <2>1. /\ positions' = Append(positions, Opened(s))
        /\ eng' = RecordPositionOpen(ResetDaily(eng, Now))
        /\ CanTrade(ResetDaily(eng, Now), Now)
    BY <1>3 DEF OpenPosition, Opened
  <2>2. Len(positions') = Len(positions) + 1
    BY <1>0, <2>1
  <2>3. eng'.positions = eng.positions + 1 /\ eng.positions < MaxPositions
    BY <1>0, <2>1, TriedFacts DEF CanTrade
  <2> QED
    BY <1>0, <2>2, <2>3 DEF SlotsAgree
<1>4. ASSUME NEW s \in todo, RefusePosition(s)
      PROVE  SlotsAgree'
  <2>1. positions' = positions /\ eng' = ResetDaily(eng, Now)
    BY <1>4 DEF RefusePosition
  <2> QED
    BY <1>0, <2>1, TriedFacts DEF SlotsAgree
<1>5. CASE Restart
  <2>1. eng'.positions = 0 /\ positions' = <<>>
    BY <1>0, <1>5, TriedFacts, NewEngineFacts DEF Restart
  <2> QED
    BY <1>0, <2>1 DEF SlotsAgree
<1> QED
  BY <1>1, <1>2, <1>3, <1>4, <1>5, Actions

\* Trade ids are taken from the counter, one each.
LEMMA MemoryStep ==
    ASSUME IInv, [Next]_vars
    PROVE  Memory'
<1>0. /\ TypeOK /\ Memory /\ positions \in Seq(Position)
      /\ Len(positions) \in Nat /\ counter \in Nat
  BY PaperAssumption DEF IInv, TypeOK
<1>1. CASE Elsewhere
  BY <1>0, <1>1, ElsewhereFacts DEF Memory
<1>2. CASE LoadAndManage
  <2> DEFINE done == ProcessCandle(candle)
  <2>1. Turned(Len(positions), done)
    BY <1>2, ProcessCandleFacts DEF LoadAndManage
  <2>2. positions' = done.positions /\ counter' = counter
    BY <1>2 DEF LoadAndManage
  <2> HIDE DEF done
  <2>3. ASSUME NEW a \in 1..Len(done.positions)
        PROVE  Sound(done.positions[a]) /\ done.positions[a].id <= counter
    <3>1. PICK j \in 1..Len(positions) : done.positions[a].id = positions[j].id
      BY <2>1 DEF Turned
    <3> QED
      BY <1>0, <2>1, <3>1 DEF Turned, Memory
  <2>4. \A a, b \in 1..Len(done.positions) :
           a # b => done.positions[a].id # done.positions[b].id
    BY <2>1 DEF Turned
  <2> QED
    BY <2>2, <2>3, <2>4 DEF Memory
<1>3. ASSUME NEW s \in todo, OpenPosition(s), TrySignal
      PROVE  Memory'
  <2> DEFINE p == Opened(s)
             n == Len(positions)
  <2>1. positions' = Append(positions, p) /\ counter' = counter + 1 /\ counter < MaxTrades
    BY <1>3 DEF OpenPosition, Opened
  <2>2. bar >= 1
    BY <1>3 DEF TrySignal, IInv, Stage
  <2>3. p \in Position /\ Sound(p) /\ p.id = counter + 1
    BY <1>0, <2>1, <2>2, OpenedFacts
  <2> HIDE DEF p
  <2>4. /\ 1..Len(positions') = 1..n \cup {n + 1}
        /\ \A k \in 1..n : positions'[k] = positions[k]
        /\ positions'[n + 1] = p
    BY <1>0, <2>1, <2>3, Appended
  <2>5. \A k \in 1..n : positions[k].id \in Nat /\ positions[k].id <= counter
    <3> SUFFICES ASSUME NEW k \in 1..n
                 PROVE  positions[k].id \in Nat /\ positions[k].id <= counter
      OBVIOUS
    <3>1. positions[k] \in Position
      BY <1>0
    <3>2. positions[k].id \in Nat
      BY <3>1 DEF Position, Ids
    <3>3. positions[k].id <= counter
      BY <1>0 DEF Memory
    <3> QED
      BY <3>2, <3>3
  <2>6. \A j \in 1..Len(positions') :
           Sound(positions'[j]) /\ positions'[j].id <= counter'
    BY <1>0, <2>1, <2>3, <2>4, <2>5 DEF Memory
  <2>7. \A j, k \in 1..Len(positions') :
           j # k => positions'[j].id # positions'[k].id
    <3>1. counter \in Nat
      BY <1>0 DEF TypeOK
    <3> SUFFICES ASSUME NEW j \in 1..n \cup {n + 1}, NEW k \in 1..n \cup {n + 1}, j # k
                 PROVE  positions'[j].id # positions'[k].id
      BY <2>4
    <3>2. CASE j \in 1..n /\ k \in 1..n
      BY <1>0, <2>4, <3>2 DEF Memory
    <3>3. CASE j \in 1..n /\ k = n + 1
      BY <2>3, <2>4, <2>5, <3>1, <3>3
    <3>4. CASE j = n + 1 /\ k \in 1..n
      BY <2>3, <2>4, <2>5, <3>1, <3>4
    <3> QED
      BY <3>2, <3>3, <3>4
  <2> QED
    BY <2>6, <2>7 DEF Memory
<1>4. ASSUME NEW s \in todo, RefusePosition(s)
      PROVE  Memory'
  BY <1>0, <1>4 DEF RefusePosition, Memory
<1>5. CASE Restart
  BY <1>5 DEF Restart, Memory
<1> QED
  BY <1>1, <1>2, <1>3, <1>4, <1>5, Actions

\* A position is appended only to be persisted next, before anything else.
LEMMA StageStep ==
    ASSUME IInv, [Next]_vars
    PROVE  Stage'
<1>0. TypeOK /\ Stage
  BY DEF IInv
<1> USE DEF memory, tables, job
<1>1. CASE NewCandle
  BY <1>0, <1>1, PaperAssumption DEF NewCandle, Stage, TypeOK, Candle
<1>2. CASE GenerateSignals
  <2>1. candle.n \in Int
    BY <1>0, PaperAssumption DEF TypeOK, Candle
  <2> QED
    BY <1>0, <1>2, <2>1 DEF GenerateSignals, Stage
<1>3. CASE LoadAndManage
  BY <1>0, <1>3 DEF LoadAndManage, Stage
<1>4. CASE MirrorEvent
  BY <1>0, <1>4 DEF MirrorEvent, Stage
<1>5. CASE MirrorRefused
  BY <1>0, <1>5 DEF MirrorRefused, Stage
<1>6. CASE ModelGate
  BY <1>0, <1>6 DEF ModelGate, Stage
<1>7. ASSUME NEW s \in todo, TrySignal, OpenPosition(s)
      PROVE  Stage'
  <2> DEFINE p == Opened(s)
  <2>1. /\ positions' = Append(positions, p) /\ counter' = counter + 1
        /\ counter < MaxTrades /\ pc' = "persist"
    BY <1>7 DEF OpenPosition, Opened
  <2>2. /\ bar >= 1 /\ events = <<>> /\ bar' = bar /\ events' = events
        /\ trades' = trades /\ restarts' = restarts
    BY <1>0, <1>7 DEF TrySignal, Stage
  <2>3. p \in Position /\ p.id = counter + 1 /\ p.left = Units
    BY <1>0, <2>1, <2>2, OpenedFacts
  <2> HIDE DEF p
  <2>4. positions' # <<>> /\ Last(positions') = p
    <3>1. positions \in Seq(Position)
      BY <1>0 DEF TypeOK
    <3>2. Len(Append(positions, p)) = Len(positions) + 1 /\ Len(positions) \in Nat
          /\ Append(positions, p)[Len(positions) + 1] = p
      BY <2>3, <3>1
    <3> QED
      BY <2>1, <3>2 DEF Last
  <2>5. restarts = 0 => trades[counter + 1] = NoTrade
    <3>1. counter + 1 \in Ids /\ ~(counter + 1 <= counter)
      BY <1>0, <2>1, PaperAssumption DEF TypeOK, Ids
    <3> QED
      BY <3>1 DEF IInv, Books, Past, Durable
  <2> QED
    BY <2>1, <2>2, <2>3, <2>4, <2>5 DEF Stage
<1>8. ASSUME NEW s \in todo, TrySignal, RefusePosition(s)
      PROVE  Stage'
  BY <1>0, <1>8 DEF TrySignal, RefusePosition, NextPc, Stage
<1>9. CASE PersistOpen
  BY <1>0, <1>9 DEF PersistOpen, NextPc, Stage
<1>10. CASE Abort
  BY <1>0, <1>10 DEF Abort, Stage
<1>11. CASE Restart
  BY <1>11 DEF Restart, Stage
<1>12. CASE UNCHANGED vars
  BY <1>0, <1>12 DEF vars, Stage
<1> QED
  BY <1>1, <1>2, <1>3, <1>4, <1>5, <1>6, <1>7, <1>8, <1>9, <1>10, <1>11, <1>12,
     Actions DEF Elsewhere

-----------------------------------------------------------------------------
(* The books, action by action.                                            *)

\* The steps that change neither the positions, nor the table, nor what is
\* pending.
Quiet ==
    \/ NewCandle \/ GenerateSignals \/ ModelGate
    \/ \E s \in todo : TrySignal /\ RefusePosition(s)
    \/ UNCHANGED vars

\* Each of them is a read, a refusal or someone else's write.
LEMMA QuietFacts ==
    ASSUME Quiet
    PROVE  /\ positions' = positions /\ counter' = counter /\ trades' = trades
           /\ events' = events /\ restarts' = restarts
BY DEF Quiet, NewCandle, GenerateSignals, ModelGate, TrySignal, RefusePosition,
       vars, memory, tables, job

\* The others.
LEMMA Steps ==
    ASSUME [Next]_vars
    PROVE  \/ Quiet
           \/ LoadAndManage
           \/ MirrorEvent
           \/ MirrorRefused \/ Abort
           \/ \E s \in todo : TrySignal /\ OpenPosition(s)
           \/ PersistOpen
           \/ Restart
BY Actions DEF Elsewhere, Quiet

\* Books of the next state, when the table stands still.
LEMMA BooksStill ==
    ASSUME trades' = trades, counter' = counter,
           NEW P, P = ToSet(positions'), NEW ev, ev = events', Books(P, ev)
    PROVE  Books(ToSet(positions), events)'
BY DEF Books, Pending, Lagging, Past, Durable

\* An event that is dropped leaves its row behind, and no worse.
LEMMA BooksDropped ==
    ASSUME NEW P, NEW ev, Books(P, ev)
    PROVE  Books(P, <<>>)
<1>1. \A k : k \notin 1..Len(<<>>)
  OBVIOUS
<1> QED
  BY <1>1 DEF Books, Pending, Lagging

\* One event is mirrored: the others of its trade still fit the row.
LEMMA BooksMirror ==
    ASSUME TypeOK, events # <<>>, MirrorEvent, Books(ToSet(positions), events)
    PROVE  Books(ToSet(positions), events)'
<1> DEFINE e == Head(events)
           n == Len(events)
           P == ToSet(positions)
<1>1. /\ n \in Nat /\ 1 \in 1..n /\ e = events[1] /\ e \in Event
      /\ Len(events') = n - 1
      /\ \A k \in 1..Len(events') :
            k + 1 \in 1..n /\ events'[k] = events[k + 1]
  BY Pop DEF MirrorEvent
<1>2. /\ \A i \in Ids : (trades'[i] # NoTrade) <=> Durable(i)
      /\ \A i \in Ids : i # e.id => trades'[i] = trades[i]
      /\ Durable(e.id) =>
            /\ trades'[e.id].exited = trades[e.id].exited + e.units
            /\ trades'[e.id].status =
                  IF e.kind = "partial_exit" THEN "PARTIALLY_CLOSED" ELSE "CLOSED"
  BY MirrorFacts
<1>3. positions' = positions /\ counter' = counter
  BY DEF MirrorEvent, memory
<1>4. events \in Seq(Event) /\ positions \in Seq(Position)
  BY DEF TypeOK
<1>5. e.id \in Ids /\ e.kind \in {"partial_exit", "exit"} /\ e.units \in 1..2
  BY <1>1, UnitsFacts DEF Event
<1>6. \A k \in 1..n : events[k] \in Event /\ events[k].id \in Ids
  <2>1. \A k \in 1..n : events[k] \in Event
    BY <1>4
  <2> QED
    BY <2>1 DEF Event
<1>7. Pending(events) /\ Lagging(P, events) /\ Past
  BY DEF Books
<1>8. \A p \in P : p \in Position /\ p.id \in Ids /\ p.left \in 1..2
  <2>1. \A p \in P : p \in Position
    BY <1>4 DEF ToSet
  <2> QED
    BY <2>1, UnitsFacts DEF Position
<1>9. Durable(e.id) => /\ trades[e.id].exited + e.units <= 2
                       /\ trades[e.id].exited \in Nat
                       /\ e.kind = "partial_exit" =>
                             trades[e.id].exited = 0 /\ e.units = 1
  BY <1>1, <1>5, <1>7, RowType, UnitsFacts DEF Pending
<1> HIDE DEF e, n, P
<1>10. Pending(events)'
  <2>1. \A k \in 1..Len(events') : events'[k].id <= counter'
    BY <1>1, <1>3, <1>7 DEF Pending, n
  <2>2. ASSUME NEW j \in 1..Len(events'), NEW k \in 1..Len(events'),
               j < k, events'[j].id = events'[k].id
        PROVE  /\ events'[j].kind = "partial_exit" /\ events'[k].kind = "exit"
               /\ events'[k].units = 1
    <3>1. /\ j + 1 \in 1..n /\ k + 1 \in 1..n /\ j + 1 < k + 1
          /\ events'[j] = events[j + 1] /\ events'[k] = events[k + 1]
      BY <1>1, <2>2
    <3> QED
      BY <1>7, <2>2, <3>1 DEF Pending, n
  <2>3. ASSUME NEW k \in 1..Len(events'), trades'[events'[k].id] # NoTrade
        PROVE  LET row == trades'[events'[k].id]
               IN  /\ row.status # "CLOSED"
                   /\ row.exited + events'[k].units <= Units
                   /\ events'[k].kind = "partial_exit" =>
                         row.status = "OPEN" /\ row.exited = 0 /\ events'[k].units = 1
    <3>1. /\ k + 1 \in 1..n /\ 1 < k + 1
          /\ events'[k] = events[k + 1] /\ events[k + 1].id \in Ids
      BY <1>1, <1>6
    <3>2. Durable(events[k + 1].id)
      BY <1>2, <2>3, <3>1
    <3>3. CASE events[k + 1].id # e.id
      <4>1. trades'[events'[k].id] = trades[events[k + 1].id]
        BY <1>2, <3>1, <3>3
      <4> QED
        BY <1>7, <3>1, <3>2, <4>1 DEF Pending, n
    <3>4. CASE events[k + 1].id = e.id
      <4>1. /\ e.kind = "partial_exit" /\ events[k + 1].kind = "exit"
            /\ events[k + 1].units = 1
        BY <1>1, <1>7, <3>1, <3>4 DEF Pending, n
      <4>2. /\ trades'[e.id].exited = 1
            /\ trades'[e.id].status = "PARTIALLY_CLOSED"
        BY <1>2, <1>9, <3>2, <3>4, <4>1
      <4> QED
        BY <3>1, <3>4, <4>1, <4>2, UnitsFacts
    <3> QED
      BY <3>3, <3>4
  <2> QED
    BY <2>1, <2>2, <2>3 DEF Pending, Durable
<1>11. Lagging(P, events)'
  <2>1. P' = P
    BY <1>3 DEF P
  <2>2. ASSUME NEW p \in P
        PROVE  /\ \A k \in 1..Len(events') : events'[k].id = p.id =>
                     events'[k].kind = "partial_exit" /\ p.left = 1
               /\ trades'[p.id] # NoTrade =>
                     /\ trades'[p.id].exited <= Units - p.left
                     /\ trades'[p.id].status # "CLOSED"
                     /\ p.left = Units => trades'[p.id].status = "OPEN"
    <3>1. \A k \in 1..Len(events') : events'[k].id = p.id =>
              events'[k].kind = "partial_exit" /\ p.left = 1
      BY <1>1, <1>7, <2>2 DEF Lagging, n
    <3>2. CASE p.id # e.id
      <4>1. trades'[p.id] = trades[p.id]
        BY <1>2, <1>8, <2>2, <3>2
      <4> QED
        BY <1>7, <2>2, <3>1, <4>1 DEF Lagging, Durable
    <3>3. CASE p.id = e.id
      <4>1. e.kind = "partial_exit" /\ p.left = 1
        BY <1>1, <1>7, <2>2, <3>3 DEF Lagging, n
      <4>2. trades'[p.id] # NoTrade => Durable(e.id)
        BY <1>2, <1>8, <2>2, <3>3
      <4>3. trades'[p.id] # NoTrade =>
               trades'[p.id].exited = 1 /\ trades'[p.id].status = "PARTIALLY_CLOSED"
        BY <1>2, <1>9, <3>3, <4>1, <4>2
      <4> QED
        BY <3>1, <4>1, <4>3, UnitsFacts
    <3> QED
      BY <3>2, <3>3
  <2> QED
    BY <2>1, <2>2 DEF Lagging, Durable
<1>12. Past'
  <2>1. ASSUME NEW i \in Ids, trades'[i] # NoTrade
        PROVE  i <= counter' /\ trades'[i].exited <= Units
    BY <1>2, <1>3, <1>7, <1>9, <2>1, UnitsFacts DEF Past
  <2> QED
    BY <2>1 DEF Past, Durable
<1> QED
  BY <1>10, <1>11, <1>12 DEF Books, P

\* The position and its row, not yet there, agree (engine.py:104-152).
LEMMA BooksOpen ==
    ASSUME IInv, restarts = 0, NEW s \in todo, TrySignal, OpenPosition(s)
    PROVE  Books(ToSet(positions), events)'
<1> DEFINE p == Opened(s)
           P == ToSet(positions)
<1>0. TypeOK /\ positions \in Seq(Position) /\ Stage /\ counter \in Nat
  BY PaperAssumption DEF IInv, TypeOK
<1>1. positions' = Append(positions, p) /\ counter' = counter + 1 /\ counter < MaxTrades
  BY DEF OpenPosition, Opened
<1>2. events = <<>> /\ events' = events /\ trades' = trades /\ bar >= 1
  BY <1>0 DEF TrySignal, Stage, tables
<1>3. p \in Position /\ p.id = counter + 1
  BY <1>0, <1>1, <1>2, OpenedFacts
<1> HIDE DEF p
<1>4. ToSet(positions') = P \cup {p}
  BY <1>0, <1>1, <1>3, Appended
<1>5. Lagging(P, events) /\ Past
  BY DEF IInv, Books
<1>6. trades[p.id] = NoTrade
  <2>1. p.id \in Ids /\ ~(p.id <= counter)
    BY <1>0, <1>1, <1>3 DEF Position
  <2> QED
    BY <1>5, <2>1 DEF Past, Durable
<1>7. \A k : k \notin 1..Len(events')
  BY <1>2
<1>8. \A q \in P \cup {p} :
         trades'[q.id] # NoTrade =>
             /\ trades'[q.id].exited <= Units - q.left
             /\ trades'[q.id].status # "CLOSED"
             /\ q.left = Units => trades'[q.id].status = "OPEN"
  BY <1>2, <1>5, <1>6 DEF Lagging, Durable
<1> HIDE DEF P
<1>9. Lagging(ToSet(positions), events)'
  BY <1>4, <1>7, <1>8 DEF Lagging, Durable
<1>10. Pending(events)'
  BY <1>7 DEF Pending
<1>11. Past'
  <2>1. \A i \in Ids : i \in Nat
    BY DEF Ids
  <2> QED
    BY <1>0, <1>1, <1>2, <1>5, <2>1 DEF Past, Durable
<1> QED
  BY <1>9, <1>10, <1>11 DEF Books

\* The row is inserted as its position was opened (persistence.py:42-73).
LEMMA BooksPersist ==
    ASSUME IInv, restarts = 0, PersistOpen
    PROVE  Books(ToSet(positions), events)'
<1> DEFINE p == Last(positions)
           P == ToSet(positions)
           n == Len(positions)
<1>0. TypeOK /\ positions \in Seq(Position) /\ Stage /\ counter \in Nat /\ Memory
  BY PaperAssumption DEF IInv, TypeOK
<1>1. /\ positions # <<>> /\ events = <<>> /\ p.left = Units
      /\ p.id = counter /\ trades[counter] = NoTrade
  BY <1>0 DEF PersistOpen, Stage
<1>2. n \in 1..n /\ p = positions[n] /\ p \in Position /\ p.id \in Ids
  BY <1>0, <1>1, LastFacts
<1>3. /\ positions' = positions /\ counter' = counter /\ events' = events
      /\ trades' = [trades EXCEPT ![p.id] = Inserted(p)]
  BY <1>1 DEF PersistOpen, memory, Inserted
<1> HIDE DEF p
<1>4. /\ trades'[p.id] = Inserted(p)
      /\ \A i \in Ids : i # p.id => trades'[i] = trades[i]
  BY <1>0, <1>2, <1>3 DEF TypeOK
<1>5. Lagging(P, events) /\ Past
  BY DEF IInv, Books
<1>6. \A k : k \notin 1..Len(events')
  BY <1>1, <1>3
<1>7. Inserted(p).exited = 0 /\ Inserted(p).status = "OPEN"
  BY DEF Inserted
<1>8. ASSUME NEW q \in P, trades'[q.id] # NoTrade
      PROVE  /\ trades'[q.id].exited <= Units - q.left
             /\ trades'[q.id].status # "CLOSED"
             /\ q.left = Units => trades'[q.id].status = "OPEN"
  <2>1. PICK j \in 1..n : q = positions[j]
    BY <1>0, <1>8 DEF ToSet
  <2>2. q \in Position
    BY <1>0, <2>1
  <2>3. q.id \in Ids /\ q.left \in 1..2
    BY <2>2, UnitsFacts DEF Position
  <2>4. CASE q.id = p.id
    BY <1>4, <1>7, <2>3, <2>4, UnitsFacts
  <2>5. CASE q.id # p.id
    BY <1>4, <1>5, <1>8, <2>3, <2>5 DEF Lagging, Durable
  <2> QED
    BY <2>4, <2>5
<1>9. Lagging(ToSet(positions), events)'
  <2>1. ToSet(positions') = P
    BY <1>3
  <2> HIDE DEF P
  <2> QED
    BY <1>6, <1>8, <2>1 DEF Lagging, Durable
<1>10. Pending(events)'
  BY <1>6 DEF Pending
<1>11. Past'
  <2>1. ASSUME NEW i \in Ids, trades'[i] # NoTrade
        PROVE  i <= counter' /\ trades'[i].exited <= Units
    <3>1. CASE i = p.id
      BY <1>0, <1>1, <1>3, <1>4, <1>7, <3>1, UnitsFacts
    <3>2. CASE i # p.id
      BY <1>3, <1>4, <1>5, <2>1, <3>2 DEF Past, Durable
    <3> QED
      BY <3>1, <3>2
  <2> QED
    BY <2>1 DEF Past, Durable
<1> QED
  BY <1>9, <1>10, <1>11 DEF Books

\* Until a restart, every step keeps the books.
LEMMA BooksStep ==
    ASSUME IInv, [Next]_vars, restarts' = 0
    PROVE  Books(ToSet(positions), events)'
<1>0. TypeOK /\ Stage /\ restarts \in Nat
  BY PaperAssumption DEF IInv, TypeOK
<1>1. restarts = 0
  <2>1. CASE Restart
    BY <1>0, <2>1 DEF Restart
  <2>2. CASE ~Restart
    BY <2>2 DEF Next, JobStep, NewCandle, GenerateSignals, LoadAndManage,
       MirrorEvent, MirrorRefused, ModelGate, TrySignal, PersistOpen, Abort,
       vars, job
  <2> QED
    BY <2>1, <2>2
<1>2. Books(ToSet(positions), events)
  BY <1>1 DEF IInv
<1>3. CASE Quiet
  BY <1>2, <1>3, QuietFacts, BooksStill
<1>4. CASE LoadAndManage
  <2> DEFINE done == ProcessCandle(candle)
  <2>1. Turned(Len(positions), done)
    BY <1>4, ProcessCandleFacts DEF LoadAndManage
  <2>2. /\ positions' = done.positions /\ events' = done.events
        /\ trades' = trades /\ counter' = counter
    BY <1>4 DEF LoadAndManage, tables
  <2> HIDE DEF done
  <2>3. Untouched(Len(positions)) = {}
    <3>1. Len(positions) \in Nat
      BY <1>0 DEF TypeOK
    <3> QED
      BY <3>1 DEF Untouched
  <2>4. Books(ToSet(done.positions), done.events)
    BY <1>1, <2>1, <2>3 DEF Turned
  <2> QED
    BY <2>2, <2>4, BooksStill
<1>5. CASE MirrorEvent
  BY <1>0, <1>2, <1>5, BooksMirror DEF MirrorEvent, Stage
<1>6. CASE MirrorRefused \/ Abort
  <2>1. /\ positions' = positions /\ events' = <<>>
        /\ trades' = trades /\ counter' = counter
    BY <1>6 DEF MirrorRefused, Abort, memory, tables
  <2>2. Books(ToSet(positions), <<>>)
    BY <1>2, BooksDropped
  <2> QED
    BY <2>1, <2>2, BooksStill
<1>7. ASSUME NEW s \in todo, TrySignal, OpenPosition(s)
      PROVE  Books(ToSet(positions), events)'
  BY <1>1, <1>7, BooksOpen
<1>8. CASE PersistOpen
  BY <1>1, <1>8, BooksPersist
<1>9. CASE Restart
  BY <1>0, <1>9 DEF Restart
<1> QED
  BY <1>3, <1>4, <1>5, <1>6, <1>7, <1>8, <1>9, Steps

-----------------------------------------------------------------------------
(* The agreement of the rows, action by action, when nothing fails.        *)

\* Every open position has its row, but between open and persist.
LEMMA RecordedFacts ==
    ASSUME positions \in Seq(Position), pc # "persist"
    PROVE  Recorded = ToSet(positions)
BY DEF Recorded, ToSet

\* Agreement of the next state, when the table stands still.
LEMMA AgreedStill ==
    ASSUME trades' = trades,
           NEW P, P = Recorded', NEW ev, ev = events', Agreed(P, ev)
    PROVE  Agreed(Recorded, events)'
BY DEF Agreed, Live, Durable, Repeated

\* One event is mirrored: its row now shows what the position has left.
LEMMA AgreedMirror ==
    ASSUME TypeOK, events # <<>>, MirrorEvent, NEW P, P = ToSet(positions),
           Books(P, events), Agreed(P, events), Recorded' = P
    PROVE  Agreed(Recorded, events)'
<1> DEFINE e == Head(events)
           n == Len(events)
<1>1. /\ n \in Nat /\ 1 \in 1..n /\ e = events[1] /\ e \in Event
      /\ Len(events') = n - 1
      /\ \A k \in 1..Len(events') :
            k + 1 \in 1..n /\ events'[k] = events[k + 1]
  BY Pop DEF MirrorEvent
<1>2. /\ \A i \in Ids : (trades'[i] # NoTrade) <=> Durable(i)
      /\ \A i \in Ids : i # e.id => trades'[i] = trades[i]
      /\ Durable(e.id) =>
            /\ trades'[e.id].sig = trades[e.id].sig
            /\ trades'[e.id].exited = trades[e.id].exited + e.units
            /\ trades'[e.id].status =
                  IF e.kind = "partial_exit" THEN "PARTIALLY_CLOSED" ELSE "CLOSED"
  BY MirrorFacts
<1>3. \A p \in P : p \in Position /\ p.id \in Ids
  <2>1. \A p \in P : p \in Position
    BY DEF TypeOK, ToSet
  <2> QED
    BY <2>1 DEF Position
<1>4. e.kind \in {"partial_exit", "exit"} /\ e.id \in Ids
  BY <1>1 DEF Event
<1>5. Pending(events) /\ Lagging(P, events)
  BY DEF Books
<1> HIDE DEF e, n
<1>6. \A k \in 1..n : k # 1 => k - 1 \in 1..Len(events') /\ events'[k - 1] = events[k]
  BY <1>1
<1>7. ASSUME NEW p \in P
      PROVE  /\ trades'[p.id] # NoTrade
             /\ trades'[p.id].sig = p.sig
             /\ IF \E k \in 1..Len(events') : events'[k].id = p.id
                THEN trades'[p.id].exited = 0
                ELSE trades'[p.id].exited = Units - p.left
  <2>1. /\ Durable(p.id) /\ trades[p.id].sig = p.sig
        /\ IF Repeated(p.id, events) THEN trades[p.id].exited = 0
           ELSE trades[p.id].exited = Units - p.left
    BY <1>7 DEF Agreed
  <2>2. CASE p.id # e.id
    <3>1. trades'[p.id] = trades[p.id]
      BY <1>2, <1>3, <1>7, <2>2
    <3>2. (\E k \in 1..Len(events') : events'[k].id = p.id) <=> Repeated(p.id, events)
      <4>1. ASSUME NEW k \in 1..Len(events'), events'[k].id = p.id
            PROVE  Repeated(p.id, events)
        BY <1>1, <4>1 DEF Repeated, n
      <4>2. ASSUME NEW k \in 1..n, events[k].id = p.id
            PROVE  \E j \in 1..Len(events') : events'[j].id = p.id
        BY <1>1, <1>6, <2>2, <4>2
      <4> QED
        BY <4>1, <4>2 DEF Repeated, n
    <3> QED
      BY <2>1, <3>1, <3>2 DEF Durable
  <2>3. CASE p.id = e.id
    <3>1. e.kind = "partial_exit" /\ p.left = 1
      BY <1>1, <1>5, <2>3 DEF Lagging, n
    <3>2. trades[e.id].exited = 0 /\ e.units = 1
      BY <1>1, <1>5, <2>1, <2>3, <3>1 DEF Pending, n
    <3>3. ~ \E k \in 1..Len(events') : events'[k].id = p.id
      <4>1. SUFFICES ASSUME NEW k \in 1..Len(events'), events'[k].id = p.id
                     PROVE  FALSE
        OBVIOUS
      <4>2. k + 1 \in 1..n /\ 1 < k + 1 /\ events[k + 1].id = p.id
        BY <1>1, <4>1
      <4>3. events[k + 1].kind = "exit"
        BY <1>1, <1>5, <2>3, <4>2 DEF Pending, n
      <4>4. events[k + 1].kind = "partial_exit"
        BY <1>5, <4>2 DEF Lagging, n
      <4> QED
        BY <4>3, <4>4
    <3>4. trades'[e.id].exited = 1 /\ trades'[e.id].sig = trades[e.id].sig
      BY <1>2, <2>1, <2>3, <3>2
    <3>5. trades'[p.id] # NoTrade
      BY <1>2, <1>3, <2>1
    <3> QED
      BY <2>1, <2>3, <3>1, <3>3, <3>4, <3>5, UnitsFacts
  <2> QED
    BY <2>2, <2>3
<1>8. ASSUME NEW i \in Ids, trades'[i] # NoTrade, trades'[i].status # "CLOSED"
      PROVE  \/ \E p \in P : p.id = i
             \/ \E k \in 1..Len(events') : events'[k].id = i /\ events'[k].kind = "exit"
  <2>1. Durable(i)
    BY <1>2, <1>8
  <2>2. i = e.id => e.kind = "partial_exit"
    BY <1>2, <1>8, <2>1
  <2>3. trades[i].status # "CLOSED"
    <3>1. CASE i = e.id
      BY <1>1, <1>5, <2>1, <3>1 DEF Pending, n
    <3>2. CASE i # e.id
      BY <1>2, <1>8, <3>2
    <3> QED
      BY <3>1, <3>2
  <2>4. CASE \E p \in P : p.id = i
    BY <2>4
  <2>5. CASE \E k \in 1..n : events[k].id = i /\ events[k].kind = "exit"
    <3>1. PICK k \in 1..n : events[k].id = i /\ events[k].kind = "exit"
      BY <2>5
    <3>2. k # 1
      BY <1>1, <2>2, <3>1
    <3> QED
      BY <1>6, <3>1, <3>2
  <2> QED
    BY <2>1, <2>3, <2>4, <2>5 DEF Agreed, Live, n
<1> QED
  BY <1>7, <1>8 DEF Agreed, Live, Durable, Repeated

\* The row of the new position is inserted.
LEMMA AgreedPersist ==
    ASSUME IInv, restarts = 0, PersistOpen, Agreed(Recorded, events)
    PROVE  Agreed(Recorded, events)'
<1> DEFINE p == Last(positions)
           n == Len(positions)
           Q == Recorded
<1>0. TypeOK /\ positions \in Seq(Position) /\ Stage /\ Memory
  BY DEF IInv, TypeOK
<1>1. /\ positions # <<>> /\ events = <<>> /\ p.left = Units
      /\ p.id = counter /\ trades[counter] = NoTrade /\ pc = "persist"
  BY <1>0 DEF PersistOpen, Stage
<1>2. n \in Nat /\ n \in 1..n /\ p = positions[n] /\ p \in Position /\ p.id \in Ids
  BY <1>0, <1>1, LastFacts
<1>3. /\ positions' = positions /\ events' = events /\ pc' # "persist"
      /\ trades' = [trades EXCEPT ![p.id] = Inserted(p)]
  BY <1>1 DEF PersistOpen, memory, Inserted, NextPc
<1> HIDE DEF p
<1>4. /\ trades'[p.id] = Inserted(p)
      /\ \A i \in Ids : i # p.id => trades'[i] = trades[i]
  BY <1>0, <1>2, <1>3 DEF TypeOK
<1>5. /\ Inserted(p).exited = 0 /\ Inserted(p).sig = p.sig /\ Inserted(p) # NoTrade
  BY <1>2, InsertedFacts DEF Inserted
<1>6. Recorded' = Q \cup {p}
  <2>1. Recorded' = ToSet(positions)
    BY <1>0, <1>3 DEF Recorded, ToSet
  <2>2. ToSet(positions) = {positions[j] : j \in 1..n - 1} \cup {positions[n]}
    BY <1>0, <1>2 DEF ToSet
  <2> QED
    BY <1>1, <1>2, <2>1, <2>2 DEF Recorded
<1>7. \A q \in Q : q.id # p.id /\ q.id \in Ids
  <2>1. ASSUME NEW j \in 1..n - 1
        PROVE  positions[j].id # p.id /\ positions[j].id \in Ids
    <3>1. j \in 1..n /\ j # n
      BY <1>2
    <3>2. positions[j] \in Position
      BY <1>0, <3>1
    <3> QED
      BY <1>0, <1>2, <3>1, <3>2 DEF Memory, Position
  <2> QED
    BY <1>1, <2>1 DEF Recorded
<1>8. \A k : k \notin 1..Len(events') /\ k \notin 1..Len(events)
  BY <1>1, <1>3
<1> HIDE DEF Q
<1>9. ASSUME NEW q \in Q \cup {p}
      PROVE  /\ trades'[q.id] # NoTrade
             /\ trades'[q.id].sig = q.sig
             /\ trades'[q.id].exited = Units - q.left
  <2>1. CASE q = p
    BY <1>1, <1>4, <1>5, <2>1, UnitsFacts
  <2>2. CASE q \in Q
    <3>1. trades'[q.id] = trades[q.id]
      BY <1>4, <1>7, <2>2
    <3>2. ~Repeated(q.id, events)
      BY <1>8 DEF Repeated
    <3> QED
      BY <2>2, <3>1, <3>2 DEF Agreed, Durable, Q
  <2> QED
    BY <2>1, <2>2
<1>10. ASSUME NEW i \in Ids, trades'[i] # NoTrade, trades'[i].status # "CLOSED"
       PROVE  \E q \in Q \cup {p} : q.id = i
  <2>1. CASE i = p.id
    BY <2>1
  <2>2. CASE i # p.id
    <3>1. Live(i)
      BY <1>4, <1>10, <2>2 DEF Live, Durable
    <3> QED
      BY <1>8, <3>1 DEF Agreed, Q
  <2> QED
    BY <2>1, <2>2
<1> QED
  BY <1>6, <1>8, <1>9, <1>10 DEF Agreed, Live, Durable, Repeated

\* With no fault, every step keeps the rows in agreement.
LEMMA AgreedStep ==
    ASSUME IInv, [Next]_vars, Faultless
    PROVE  Agreed(Recorded, events)'
<1>0. /\ TypeOK /\ Stage /\ restarts = 0 /\ database = "sqlite" /\ MaxRestarts = 0
      /\ positions \in Seq(Position)
  BY DEF IInv, TypeOK, Faultless
<1>1. Agreed(Recorded, events) /\ Books(ToSet(positions), events)
  BY <1>0 DEF IInv
<1>2. CASE Quiet
  <2>1. positions' = positions /\ trades' = trades /\ events' = events
    BY <1>2, QuietFacts
  <2>2. pc' = pc \/ (pc # "persist" /\ pc' # "persist")
    BY <1>2 DEF Quiet, NewCandle, GenerateSignals, ModelGate, TrySignal,
       RefusePosition, NextPc, vars, job
  <2>3. Recorded' = Recorded
    BY <2>1, <2>2 DEF Recorded
  <2> QED
    BY <1>1, <2>1, <2>3, AgreedStill
<1>3. CASE LoadAndManage
  <2> DEFINE done == ProcessCandle(candle)
  <2>1. Turned(Len(positions), done)
    BY <1>3, ProcessCandleFacts DEF LoadAndManage
  <2>2. /\ positions' = done.positions /\ events' = done.events
        /\ trades' = trades /\ pc' # "persist"
    BY <1>3 DEF LoadAndManage, tables
  <2> HIDE DEF done
  <2>3. Untouched(Len(positions)) = {} /\ positions' \in Seq(Position)
    <3>1. Len(positions) \in Nat
      BY <1>0
    <3> QED
      BY <2>1, <2>2, <3>1 DEF Untouched, Turned, Managed
  <2>4. Agreed(ToSet(done.positions), done.events)
    BY <2>1, <2>3 DEF Turned
  <2>5. Recorded' = ToSet(positions')
    BY <2>2, <2>3 DEF Recorded, ToSet
  <2> QED
    BY <2>2, <2>4, <2>5, AgreedStill
<1>4. CASE MirrorEvent
  <2>1. events # <<>> /\ positions' = positions /\ pc # "persist" /\ pc' # "persist"
    BY <1>0, <1>4 DEF MirrorEvent, Stage, memory
  <2>2. Recorded = ToSet(positions) /\ Recorded' = ToSet(positions)
    BY <1>0, <2>1, RecordedFacts DEF Recorded, ToSet
  <2> QED
    BY <1>0, <1>1, <1>4, <2>1, <2>2, AgreedMirror
<1>5. CASE MirrorRefused \/ Abort
  BY <1>0, <1>5 DEF MirrorRefused, Abort, Fits, Faultless
<1>6. ASSUME NEW s \in todo, TrySignal, OpenPosition(s)
      PROVE  Agreed(Recorded, events)'
  <2>1. /\ positions' = Append(positions, Opened(s)) /\ pc = "enrich"
        /\ pc' = "persist" /\ trades' = trades /\ events' = events
        /\ counter < MaxTrades /\ bar >= 1
    BY <1>0, <1>6 DEF OpenPosition, Opened, TrySignal, tables, Stage
  <2>2. Opened(s) \in Position
    BY <1>0, <2>1, OpenedFacts
  <2>3. /\ Len(positions') = Len(positions) + 1 /\ Len(positions) \in Nat
        /\ \A k \in 1..Len(positions) : positions'[k] = positions[k]
    BY <1>0, <2>1, <2>2, Appended
  <2>4. Recorded' = {positions'[j] : j \in 1..Len(positions') - 1}
    BY <2>1 DEF Recorded
  <2>5. Recorded = {positions[j] : j \in 1..Len(positions)}
    BY <2>1 DEF Recorded
  <2>6. Recorded' = Recorded
    BY <2>3, <2>4, <2>5
  <2> QED
    BY <1>1, <2>1, <2>6, AgreedStill
<1>7. CASE PersistOpen
  BY <1>0, <1>1, <1>7, AgreedPersist
<1>8. CASE Restart
  BY <1>0, <1>8 DEF Restart
<1> QED
  BY <1>2, <1>3, <1>4, <1>5, <1>6, <1>7, <1>8, Steps

-----------------------------------------------------------------------------
(* The theorems.                                                           *)

\* The invariant holds at first: nothing is open, pending or in the table.
LEMMA InitInv == Init => IInv
<1> SUFFICES ASSUME Init
             PROVE  IInv
  OBVIOUS
<1>1. TypeOK
  <2>1. NewEngine(0) \in Engine
    BY NewEngineFacts
  <2>2. NoCandle \in Candle
    BY PaperAssumption DEF NoCandle, Candle
  <2>3. /\ 0 \in 0..MaxCandle /\ 0 \in 0..MaxTrades /\ 0 \in 0..MaxRestarts
        /\ InitialEquity \in Int
    BY PaperAssumption, ConfigAssumption
  <2>4. /\ signals \in [1..MaxCandle -> SUBSET Strategies]
        /\ trades \in [Ids -> Row \cup {NoTrade}]
    BY DEF Init
  <2> QED
    BY <2>1, <2>2, <2>3, <2>4 DEF Init, TypeOK
<1>2. SlotsAgree
  BY NewEngineFacts, ConfigAssumption DEF Init, SlotsAgree
<1>3. Memory /\ Stage
  BY DEF Init, Memory, Stage
<1>4. ToSet(positions) = {} /\ Recorded = {}
  BY DEF Init, ToSet, Recorded
<1>5. \A i \in Ids : ~Durable(i)
  BY DEF Init, Durable
<1>6. Books({}, events) /\ Agreed({}, events)
  BY <1>5 DEF Init, Books, Pending, Lagging, Past, Agreed, Live
<1> QED
  BY <1>1, <1>2, <1>3, <1>4, <1>6 DEF IInv

\* ... and every step of the job, the candles, the watchdog and the process
\* keeps it.
LEMMA NextInv == IInv /\ [Next]_vars => IInv'
<1> SUFFICES ASSUME IInv, [Next]_vars
             PROVE  IInv'
  OBVIOUS
<1>1. TypeOK' /\ SlotsAgree' /\ Memory' /\ Stage'
  BY TypeStep, SlotsStep, MemoryStep, StageStep
<1>2. restarts' = 0 => Books(ToSet(positions), events)'
  BY BooksStep
<1>3. Faultless => Agreed(Recorded, events)'
  BY AgreedStep
<1>4. Faultless' <=> Faultless
  BY DEF Faultless
<1> QED
  BY <1>1, <1>2, <1>3, <1>4 DEF IInv

\* The inductive invariant holds in every state the paper trader, its mirror
\* and its job can reach.
THEOREM Invariance == Spec => []IInv
BY InitInv, NextInv, PTL DEF Spec

\* In particular every variable keeps its type.
THEOREM TypeCorrect == Spec => []TypeOK
<1>1. IInv => TypeOK
  BY DEF IInv
<1> QED
  BY <1>1, Invariance, PTL

\* positions_open counts the open positions and never exceeds
\* max_concurrent_positions, whatever is aborted or restarted
\* (engine.py:109-144 and 178-224).
THEOREM SlotsAreCounted == Spec => []SlotsAgree
<1>1. IInv => SlotsAgree
  BY DEF IInv
<1> QED
  BY <1>1, Invariance, PTL

\* Until a restart, no row shows an exit its position has not made, or a
\* trade as closed that is open, at any await (jobs.py: ai_paper_trading_job).
THEOREM TableLagsMemory == Spec => []TableNeverAhead
<1>1. IInv => TableNeverAhead
  <2> SUFFICES ASSUME IInv, restarts = 0, NEW k \in DOMAIN positions,
                      Durable(positions[k].id)
               PROVE  /\ trades[positions[k].id].exited <= Units - positions[k].left
                      /\ trades[positions[k].id].status # "CLOSED"
    BY DEF TableNeverAhead
  <2>1. positions[k] \in ToSet(positions)
    BY DEF ToSet
  <2> QED
    BY <2>1 DEF IInv, Books, Lagging
<1> QED
  BY <1>1, Invariance, PTL

\* Until a restart, a row goes from open to partly closed to closed, stays as
\* it was closed, and never has more exits than its quantity
\* (persistence.py:87-107).
THEOREM RowsOnlyMoveForward == Spec => RowsMoveForward
<1> DEFINE P == restarts = 0 => \A i \in Ids : Durable(i) =>
                  /\ Durable(i)'
                  /\ trades'[i].exited <= Units
                  /\ trades[i].status = "CLOSED" => trades'[i] = trades[i]
                  /\ trades[i].status = "PARTIALLY_CLOSED" => trades'[i].status # "OPEN"
<1>1. IInv /\ [Next]_vars => [P]_vars
  <2> SUFFICES ASSUME IInv, [Next]_vars, restarts = 0, NEW i \in Ids, Durable(i)
               PROVE  /\ trades'[i] # NoTrade
                      /\ trades'[i].exited <= Units
                      /\ trades[i].status = "CLOSED" => trades'[i] = trades[i]
                      /\ trades[i].status = "PARTIALLY_CLOSED" =>
                            trades'[i].status # "OPEN"
    BY DEF Durable
  <2>1. TypeOK /\ Stage /\ Pending(events) /\ Past
    BY DEF IInv, Books
  <2>2. trades[i] # NoTrade /\ trades[i].exited <= Units
    BY <2>1 DEF Past, Durable
  <2>3. CASE trades' = trades
    BY <2>2, <2>3
  <2>4. CASE MirrorEvent
    <3> DEFINE e == Head(events)
    <3>1. events # <<>>
      BY <2>1, <2>4 DEF MirrorEvent, Stage
    <3>2. 1 \in 1..Len(events) /\ e = events[1] /\ e \in Event
      BY <2>1, <3>1, Pop
    <3>3. /\ (trades'[i] # NoTrade)
          /\ i # e.id => trades'[i] = trades[i]
          /\ Durable(e.id) =>
                /\ trades'[e.id].exited = trades[e.id].exited + e.units
                /\ trades'[e.id].status =
                      IF e.kind = "partial_exit" THEN "PARTIALLY_CLOSED" ELSE "CLOSED"
      BY <2>1, <2>4, <3>1, MirrorFacts
    <3> HIDE DEF e
    <3>4. Durable(e.id) => /\ trades[e.id].status # "CLOSED"
                           /\ trades[e.id].exited + e.units <= Units
      BY <2>1, <3>2 DEF Pending
    <3>5. CASE i = e.id
      BY <3>3, <3>4, <3>5
    <3>6. CASE i # e.id
      BY <2>2, <3>3, <3>6
    <3> QED
      BY <3>5, <3>6
  <2>5. CASE PersistOpen
    <3> DEFINE p == Last(positions)
    <3>1. p.id \in Ids
      BY <2>1, <2>5, LastFacts DEF PersistOpen, Stage
    <3>2. \/ trades' = trades
          \/ trades[p.id] = NoTrade /\ trades' = [trades EXCEPT ![p.id] = Inserted(p)]
      BY <2>5 DEF PersistOpen, Inserted
    <3> HIDE DEF p
    <3>3. trades'[i] = trades[i]
      BY <2>1, <2>2, <3>1, <3>2 DEF TypeOK
    <3> QED
      BY <2>2, <3>3
  <2>6. MirrorEvent \/ PersistOpen \/ trades' = trades
    BY DEF Next, JobStep, NewCandle, GenerateSignals, LoadAndManage,
       MirrorRefused, ModelGate, TrySignal, Abort, Restart, vars, tables
  <2> QED
    BY <2>3, <2>4, <2>5, <2>6
<1> QED
  BY <1>1, Invariance, PTL DEF Spec, RowsMoveForward

\* When nothing fails -- no abort, no restart, no database that refuses the
\* status -- the table and the memory hold the same open trades between two
\* ticks, for the same signals and the same quantities (live_state.py).
THEOREM MirrorIsExact == Spec => [](Faultless => MirrorAgrees)
<1>1. IInv => (Faultless => MirrorAgrees)
  <2> SUFFICES ASSUME IInv, Faultless, pc \in {"idle", "load"}
               PROVE  /\ \A i \in Ids : Live(i) <=> i \in OpenIds
                      /\ \A k \in DOMAIN positions :
                            /\ trades[positions[k].id].sig = positions[k].sig
                            /\ trades[positions[k].id].exited
                                   = Units - positions[k].left
    BY DEF MirrorAgrees
  <2> DEFINE P == ToSet(positions)
  <2>1. TypeOK /\ positions \in Seq(Position) /\ events = <<>> /\ restarts = 0
    BY DEF IInv, TypeOK, Stage, Faultless
  <2>2. Recorded = P
    BY <2>1, RecordedFacts
  <2>3. Agreed(P, events) /\ Lagging(P, events)
    BY <2>1, <2>2 DEF IInv, Books
  <2>4. OpenIds = {p.id : p \in P}
    BY DEF OpenIds, ToSet
  <2>5. \A k : k \notin 1..Len(events)
    BY <2>1
  <2>6. \A k \in DOMAIN positions : positions[k] \in P
    BY DEF ToSet
  <2> HIDE DEF P
  <2>7. \A p \in P : /\ Live(p.id) /\ trades[p.id].sig = p.sig
                     /\ trades[p.id].exited = Units - p.left
    BY <2>3, <2>5 DEF Agreed, Lagging, Live, Repeated
  <2>8. \A i \in Ids : Live(i) => i \in OpenIds
    BY <2>3, <2>4, <2>5 DEF Agreed
  <2> QED
    BY <2>4, <2>6, <2>7, <2>8
<1> QED
  BY <1>1, Invariance, PTL
=============================================================================
