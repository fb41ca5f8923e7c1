------------------------ MODULE RiskStateStoreProofs ------------------------
(***************************************************************************)
(* Theorems about RiskStateStore, for every set of requests, any number of *)
(* them at once, any backdating and every configuration of the engine.     *)
(*                                                                         *)
(* Two invariants.  IInv holds whatever happens: no engine, in the row or  *)
(* in a request's hands, knows of more exits of its day than were answered *)
(* for, the request's own included.  Orderly holds while requests come one *)
(* at a time (disorder = {}): the row knows of all of them, and the one    *)
(* request in flight works on the row as it still is.                      *)
(***************************************************************************)
EXTENDS RiskStateStore, FiniteSetTheorems, TLAPS

Touched == {r \in Requests : pc[r] # "new"}

\* The exits answered for whose exit_time is on the given day.
Done(day) == {r \in Exits : pc[r] = "done" /\ Day(stamp[r]) = day}

RowUndercounts ==
    row # NoRow => row.dailyTrades <= Cardinality(Done(row.tradeDate))

EngineUndercounts ==
    /\ \A r \in Exits : pc[r] \in {"loaded", "checked"} =>
          /\ engine[r].tradeDate = Day(stamp[r])
          /\ engine[r].dailyTrades <= Cardinality(Done(Day(stamp[r]))) + 1
    /\ \A r \in Resets : pc[r] \in {"loaded", "checked"} =>
          engine[r].dailyTrades <= Cardinality(Done(engine[r].tradeDate))

IInv ==
    /\ IsFiniteSet(Touched)
    /\ TypeOK
    /\ RowUndercounts
    /\ EngineUndercounts

\* The row counts every exit of its day; later days have none yet.
RowCounts ==
    /\ row = NoRow => \A r \in Exits : pc[r] # "done"
    /\ row # NoRow =>
          /\ row.tradeDate <= Day(now)
          /\ row.dailyTrades = Cardinality(Done(row.tradeDate))
          /\ \A r \in Exits : pc[r] = "done" => Day(stamp[r]) <= row.tradeDate

OneInFlight == \A r, s \in InFlight : r = s

\* The request in flight works on the row as it is, and has added itself.
EngineCounts ==
    /\ \A r \in Exits \cap InFlight :
          /\ stamp[r] <= now
          /\ row # NoRow => row.tradeDate <= Day(stamp[r])
          /\ pc[r] = "checked" => seen[r] = row
          /\ pc[r] # "closed" =>
                /\ engine[r].tradeDate = Day(stamp[r])
                /\ engine[r].dailyTrades = Cardinality(Done(Day(stamp[r]))) + 1
    /\ \A r \in Resets \cap InFlight :
          /\ pc[r] = "checked" => seen[r] = row
          /\ IF row = NoRow
             THEN engine[r].dailyTrades = 0 /\ engine[r].tradeDate <= Day(now)
             ELSE /\ engine[r].dailyTrades = row.dailyTrades
                  /\ engine[r].tradeDate = row.tradeDate

Orderly == disorder = {} => RowCounts /\ OneInFlight /\ EngineCounts

-----------------------------------------------------------------------------
(* The calendar and the engine's operations.                               *)

\* An instant belongs to a day, and days follow the instants' order.
LEMMA DayFacts ==
    /\ \A t \in Nat : Day(t) \in Nat
    /\ \A s, t \in Nat : s <= t => Day(s) <= Day(t)
BY ConfigAssumption DEF Day

\* A new engine belongs to the day and has counted nothing (engine.py).
LEMMA NewEngineFacts ==
    ASSUME NEW t \in Nat
    PROVE  /\ NewEngine(t) \in Engine
           /\ NewEngine(t).tradeDate = Day(t) /\ NewEngine(t).dailyTrades = 0
<1>1. Day(t) \in Nat
  BY DayFacts
<1> QED
  BY <1>1, ConfigAssumption DEF NewEngine, Engine, None

\* A change of day zeroes the counter, and nothing else does.
LEMMA ResetDailyFacts ==
    ASSUME NEW e \in Engine, NEW t \in Nat
    PROVE  LET r == ResetDaily(e, t)
           IN  /\ r \in Engine /\ r.tradeDate = Day(t)
               /\ r.dailyTrades = IF e.tradeDate = Day(t) THEN e.dailyTrades ELSE 0
               /\ r.losses = e.losses /\ r.kill = e.kill
               /\ r.cooldownEnd = e.cooldownEnd
<1>1. PICK d \in Nat : d = Day(t)
  BY DayFacts
<1>2. CASE e.tradeDate = Day(t)
  BY <1>2 DEF ResetDaily
<1>3. CASE e.tradeDate # Day(t)
  <2> DEFINE r == ResetDaily(e, t)
  <2>0. e \in Engine /\ d \in Nat /\ 0 \in Int /\ 0 \in Nat
    OBVIOUS
  <2>1. r = [e EXCEPT !.dailyPnl = 0, !.dailyTrades = 0, !.tradeDate = d]
    BY <1>1, <1>3 DEF ResetDaily
  <2> HIDE DEF r
  <2> QED
    BY <1>1, <1>3, <2>0, <2>1 DEF Engine, r
<1> QED
  BY <1>2, <1>3

\* record_trade_result adds one to the count of the result's day.
LEMMA RecordFacts ==
    ASSUME NEW e \in Engine, NEW t \in Nat, NEW pnl \in Int
    PROVE  LET c == RecordTradeResult(e, pnl, t)
           IN  /\ c \in Engine /\ c.tradeDate = Day(t)
               /\ c.dailyTrades =
                     (IF e.tradeDate = Day(t) THEN e.dailyTrades ELSE 0) + 1
<1> DEFINE r == ResetDaily(e, t)
           w == WithStreak(r, pnl, t)
           equity == AppliedTo(e.equity, pnl)
           peak == Larger(equity, e.peak)
           c == RecordTradeResult(e, pnl, t)
<1>1. /\ r \in Engine /\ r.tradeDate = Day(t)
      /\ r.dailyTrades = IF e.tradeDate = Day(t) THEN e.dailyTrades ELSE 0
  BY ResetDailyFacts
<1>2. equity \in Int /\ peak \in Int /\ Breached(equity, peak) \in BOOLEAN
  BY DEF AppliedTo, Larger, Engine, Breached
<1> HIDE DEF r, equity, peak
<1>3. /\ w \in Engine
      /\ w.tradeDate = r.tradeDate /\ w.dailyTrades = r.dailyTrades
  <2>1. CASE pnl < 0
    <3> DEFINE end == IF r.losses + 1 >= CooldownLosses
                      THEN t + CooldownLen ELSE r.cooldownEnd
    <3>1. end \in Nat \cup {None} /\ r.losses + 1 \in Nat
      BY <1>1, ConfigAssumption DEF Engine
    <3>2. w = [r EXCEPT !.losses = r.losses + 1, !.lastLoss = t, !.cooldownEnd = end]
      BY <2>1, <1>1 DEF WithStreak, Engine
    <3> HIDE DEF end, w
    <3> QED
      BY <1>1, <3>1, <3>2 DEF Engine
  <2>2. CASE ~(pnl < 0) /\ (pnl > 0 \/ BreakevenResets)
    <3>1. w = [r EXCEPT !.losses = 0, !.cooldownEnd = None]
      BY <2>2 DEF WithStreak
    <3> HIDE DEF w
    <3> QED
      BY <1>1, <3>1 DEF Engine
  <2>3. CASE ~(pnl < 0) /\ ~(pnl > 0 \/ BreakevenResets)
    BY <2>3, <1>1 DEF WithStreak
  <2> QED
    BY <2>1, <2>2, <2>3
<1> DEFINE k == w.kill \/ Breached(equity, peak)
<1>k. k \in BOOLEAN
  BY <1>2, <1>3 DEF Engine
<1> HIDE DEF w
<1>4. c = [w EXCEPT !.dailyPnl = @ + pnl, !.dailyTrades = @ + 1,
                    !.equity = equity, !.peak = peak, !.kill = k]
  BY <1>3 DEF RecordTradeResult, w, r, equity, peak, Engine
<1> HIDE DEF k, c
<1>5. c.tradeDate = w.tradeDate /\ c.dailyTrades = w.dailyTrades + 1
  BY <1>3, <1>4 DEF Engine
<1>6. c \in Engine
  <2>1. w.dailyPnl + pnl \in Int /\ w.dailyTrades + 1 \in Nat
    BY <1>3 DEF Engine
  <2> QED
    BY <1>2, <1>3, <1>k, <1>4, <2>1 DEF Engine
<1> QED
  BY <1>1, <1>3, <1>5, <1>6 DEF r, c

\* reset-hard-kill leaves the day and its count alone.
LEMMA HardResetFacts ==
    ASSUME NEW e \in Engine
    PROVE  /\ ResetHardKill(e) \in Engine
           /\ ResetHardKill(e).tradeDate = e.tradeDate
           /\ ResetHardKill(e).dailyTrades = e.dailyTrades
<1>1. e \in Engine
  OBVIOUS
<1> QED
  BY <1>1 DEF ResetHardKill, Engine

-----------------------------------------------------------------------------
(* Types, and how the sets counted change.                                 *)

\* The sets counted are finite: only requests that arrived are in them.
LEMMA SetsFinite ==
    ASSUME IsFiniteSet(Touched)
    PROVE  /\ IsFiniteSet(InFlight) /\ Cardinality(InFlight) \in Nat
           /\ \A day : IsFiniteSet(Done(day)) /\ Cardinality(Done(day)) \in Nat
<1>1. InFlight \in SUBSET Touched
  BY DEF InFlight, Touched
<1>2. \A day : Done(day) \in SUBSET Touched
  BY DEF Done, Touched, Requests
<1> QED
  BY <1>1, <1>2, FS_Subset, FS_CardinalityType

\* The engine a request works on: the row's, or a new one.
LEMMA EngineOfType ==
    ASSUME TypeOK
    PROVE  EngineOf(row) \in Engine /\ now \in Nat
<1>1. now \in Nat
  BY StoreAssumption DEF TypeOK
<1> QED
  BY <1>1, NewEngineFacts DEF EngineOf, TypeOK

\* A request that arrives is one more in flight; the others only leave.
LEMMA FlightMoves ==
    ASSUME TypeOK, IsFiniteSet(Touched), [Next]_vars
    PROVE  /\ pc' \in [Requests -> Stages]
           /\ IsFiniteSet(Touched') /\ Cardinality(InFlight') <= MaxInFlight
<1>1. ASSUME NEW r \in Requests, Arrives(r), NEW at \in {"closed", "loaded"},
             pc' = [pc EXCEPT ![r] = at]
      PROVE  /\ IsFiniteSet(Touched') /\ Cardinality(InFlight') <= MaxInFlight
             /\ pc' \in [Requests -> Stages]
  <2>1. /\ InFlight' = InFlight \cup {r} /\ Touched' = Touched \cup {r}
        /\ pc' \in [Requests -> Stages]
    BY <1>1 DEF InFlight, Touched, TypeOK, Stages, Arrives
  <2>2. /\ IsFiniteSet(Touched')
        /\ Cardinality(InFlight') <= Cardinality(InFlight) + 1
        /\ Cardinality(InFlight') \in Nat
    <3>1. IsFiniteSet(InFlight \cup {r}) /\ IsFiniteSet(Touched \cup {r})
      BY SetsFinite, FS_AddElement
    <3>2. \/ Cardinality(InFlight \cup {r}) = Cardinality(InFlight)
          \/ Cardinality(InFlight \cup {r}) = Cardinality(InFlight) + 1
      BY SetsFinite, FS_AddElement
    <3> QED
      BY <2>1, <3>1, <3>2, SetsFinite
  <2> QED
    BY <1>1, <2>1, <2>2, SetsFinite, StoreAssumption DEF Arrives
<1>2. ASSUME InFlight' \subseteq InFlight, Touched' = Touched
      PROVE  IsFiniteSet(Touched') /\ Cardinality(InFlight') <= MaxInFlight
  <2>1. /\ Cardinality(InFlight') <= Cardinality(InFlight)
        /\ Cardinality(InFlight') \in Nat
    BY <1>2, SetsFinite, FS_Subset, FS_CardinalityType
  <2> QED
    BY <1>2, <2>1, SetsFinite, StoreAssumption DEF TypeOK
<1>3. ASSUME NEW r \in Requests,
             \/ r \in Exits /\ LoadForExit(r)
             \/ CheckRow(r) \/ Write(r)
      PROVE  /\ InFlight' \subseteq InFlight /\ Touched' = Touched
             /\ pc' \in [Requests -> Stages]
  <2>1. PICK at \in {"loaded", "checked", "done", "error"} :
            pc' = [pc EXCEPT ![r] = at] /\ r \in InFlight
    BY <1>3 DEF LoadForExit, Load, CheckRow, Write, InFlight
  <2> QED
    BY <2>1 DEF InFlight, Touched, TypeOK, Stages
<1>4. CASE Crash
  <2>1. /\ InFlight' \subseteq InFlight /\ Touched' = Touched
        /\ pc' \in [Requests -> Stages]
    BY <1>4 DEF Crash, InFlight, Touched, TypeOK, Stages
  <2> QED
    BY <1>2, <2>1
<1>5. CASE Tick \/ UNCHANGED vars
  <2>1. pc' = pc
    BY <1>5 DEF Tick, vars
  <2> QED
    BY <1>2, <2>1 DEF InFlight, Touched, TypeOK
<1>6. ASSUME NEW r \in Exits, CloseTrade(r)
      PROVE  /\ IsFiniteSet(Touched') /\ Cardinality(InFlight') <= MaxInFlight
             /\ pc' \in [Requests -> Stages]
  BY <1>1, <1>6 DEF CloseTrade, Requests
<1>7. ASSUME NEW r \in Resets, LoadForReset(r)
      PROVE  /\ IsFiniteSet(Touched') /\ Cardinality(InFlight') <= MaxInFlight
             /\ pc' \in [Requests -> Stages]
  BY <1>1, <1>7 DEF LoadForReset, Load, Requests
<1> QED
  BY <1>2, <1>3, <1>4, <1>5, <1>6, <1>7 DEF Next, Requests

\* Every step keeps the types (state_store.py, journal.py:140-162).
LEMMA NextType ==
    TypeOK /\ IsFiniteSet(Touched) /\ [Next]_vars
        => TypeOK' /\ IsFiniteSet(Touched')
<1> SUFFICES ASSUME TypeOK, IsFiniteSet(Touched), [Next]_vars
             PROVE  TypeOK' /\ IsFiniteSet(Touched')
  OBVIOUS
<1> DEFINE Values ==
      /\ now \in 0..MaxTime
      /\ row \in Engine \/ row = NoRow
      /\ stamp \in [Exits -> Nat]
      /\ seen \in [Requests -> Engine \cup {NoRow}]
      /\ engine \in [Requests -> Engine]
      /\ disorder \subseteq Disorders
<1>0. Values
  BY DEF TypeOK
<1>1. ASSUME NEW r \in Exits, CloseTrade(r)
      PROVE  Values'
  <2>1. PICK back \in 0..MaxBackdate :
            now >= back /\ stamp' = [stamp EXCEPT ![r] = now - back]
    BY <1>1 DEF CloseTrade
  <2>2. now - back \in Nat
    BY <1>0, <2>1, StoreAssumption
  <2>3. disorder' \subseteq Disorders
    BY <1>0, <1>1 DEF CloseTrade, Overlap, Disorders
  <2> QED
    BY <1>0, <1>1, <2>1, <2>2, <2>3 DEF CloseTrade
<1>2. ASSUME NEW r \in Exits, LoadForExit(r)
      PROVE  Values'
  <2>1. PICK pnl \in Results :
            Load(r, RecordTradeResult(EngineOf(row), pnl, stamp[r]))
    BY <1>2 DEF LoadForExit
  <2>2. RecordTradeResult(EngineOf(row), pnl, stamp[r]) \in Engine
    BY <1>0, StoreAssumption, EngineOfType, RecordFacts
  <2> QED
    BY <1>0, <1>2, <2>1, <2>2 DEF LoadForExit, Load
<1>3. ASSUME NEW r \in Resets, LoadForReset(r)
      PROVE  Values'
  <2>1. ResetHardKill(EngineOf(row)) \in Engine
    BY EngineOfType, HardResetFacts
  <2> QED
    BY <1>0, <1>3, <2>1 DEF LoadForReset, Load, Overlap, Disorders
<1>4. ASSUME NEW r \in Requests, CheckRow(r) \/ Write(r)
      PROVE  Values'
  BY <1>0, <1>4 DEF CheckRow, Write
<1>5. ASSUME Crash \/ Tick \/ UNCHANGED vars
      PROVE  Values'
  <2>1. CASE Crash
    BY <1>0, <2>1 DEF Crash, Disorders
  <2>2. CASE Tick
    BY <1>0, <2>2, StoreAssumption DEF Tick
  <2>3. CASE UNCHANGED vars
    BY <1>0, <2>3 DEF vars
  <2> QED
    BY <1>5, <2>1, <2>2, <2>3
<1> QED
  BY <1>1, <1>2, <1>3, <1>4, <1>5, FlightMoves DEF TypeOK, Next

\* Exits answered for stay so; a write answers for one (journal.py:152).
LEMMA DoneMoves ==
    ASSUME TypeOK, [Next]_vars
    PROVE  \/ \A day : Done(day)' = Done(day)
           \/ \E r \in Exits : /\ Write(r) /\ pc'[r] = "done"
                               /\ \A day : Done(day)' =
                                     IF Day(stamp[r]) = day
                                     THEN Done(day) \cup {r} ELSE Done(day)
<1>1. ASSUME NEW r \in Exits, CloseTrade(r)
      PROVE  \A day : Done(day)' = Done(day)
  BY <1>1 DEF CloseTrade, Arrives, Done, TypeOK, Requests
<1>2. ASSUME NEW r \in Requests, LoadForExit(r) \/ LoadForReset(r) \/ CheckRow(r)
      PROVE  \A day : Done(day)' = Done(day)
  BY <1>2 DEF LoadForExit, LoadForReset, Arrives, Load, CheckRow, Done, TypeOK,
              Requests
<1>3. ASSUME NEW r \in Requests, Write(r), r \notin Exits \/ pc'[r] # "done"
      PROVE  \A day : Done(day)' = Done(day)
  BY <1>3 DEF Write, Done, TypeOK, Requests
<1>4. ASSUME NEW r \in Exits, Write(r), pc'[r] = "done"
      PROVE  \A day : Done(day)' = IF Day(stamp[r]) = day
                                   THEN Done(day) \cup {r} ELSE Done(day)
  BY <1>4 DEF Write, Done, TypeOK, Requests
<1>5. CASE Crash
  BY <1>5 DEF Crash, Done, InFlight, Requests, TypeOK
<1>6. CASE Tick \/ UNCHANGED vars
  BY <1>6 DEF Tick, vars, Done
<1> QED
  BY <1>1, <1>2, <1>3, <1>4, <1>5, <1>6 DEF Next, Requests

\* A day's exits answered for never become fewer, and a write adds its own.
LEMMA DoneGrows ==
    ASSUME TypeOK, IsFiniteSet(Touched), [Next]_vars
    PROVE  /\ \A day : /\ Cardinality(Done(day)) \in Nat
                       /\ Cardinality(Done(day)') \in Nat
                       /\ Cardinality(Done(day)) <= Cardinality(Done(day)')
           /\ \A r \in Exits : \A day :
                 Write(r) /\ pc'[r] = "done" /\ Day(stamp[r]) = day =>
                     Cardinality(Done(day)') = Cardinality(Done(day)) + 1
<1>1. ASSUME NEW day, NEW r \in Exits, Done(day)' = Done(day) \cup {r}
      PROVE  /\ Cardinality(Done(day)') \in Nat
             /\ Cardinality(Done(day)) <= Cardinality(Done(day)')
             /\ r \notin Done(day) =>
                   Cardinality(Done(day)') = Cardinality(Done(day)) + 1
  <2>1. IsFiniteSet(Done(day)) /\ Cardinality(Done(day)) \in Nat
    BY SetsFinite
  <2>2. Cardinality(Done(day) \cup {r}) =
            IF r \in Done(day) THEN Cardinality(Done(day))
            ELSE Cardinality(Done(day)) + 1
    BY <2>1, FS_AddElement
  <2> QED
    BY <1>1, <2>1, <2>2
<1>2. ASSUME NEW day
      PROVE  /\ Cardinality(Done(day)) \in Nat
             /\ Cardinality(Done(day)') \in Nat
             /\ Cardinality(Done(day)) <= Cardinality(Done(day)')
  <2>1. CASE Done(day)' = Done(day)
    BY <2>1, SetsFinite
  <2>2. CASE \E r \in Exits : Done(day)' = Done(day) \cup {r}
    BY <1>1, <2>2, SetsFinite
  <2> QED
    BY <2>1, <2>2, DoneMoves
<1>3. ASSUME NEW r \in Exits, NEW day,
             Write(r), pc'[r] = "done", Day(stamp[r]) = day
      PROVE  Cardinality(Done(day)') = Cardinality(Done(day)) + 1
  <2>1. Done(day)' = Done(day) \cup {r} /\ r \notin Done(day)
    BY <1>3 DEF Write, Done, TypeOK, Requests
  <2> QED
    BY <1>1, <2>1
<1> QED
  BY <1>1, <1>2, <1>3

\* Only a write changes the row, to the engine of the request that writes.
LEMMA RowMoves ==
    ASSUME TypeOK, [Next]_vars, row' # row
    PROVE  \E r \in Requests : /\ Write(r) /\ pc[r] = "checked" /\ pc'[r] = "done"
                              /\ row' = engine[r] /\ row' \in Engine
                              /\ stamp' = stamp
<1>1. PICK r \in Requests : Write(r)
  BY DEF Next, vars, CloseTrade, LoadForExit, LoadForReset, Load, CheckRow,
         Crash, Tick, Requests
<1> QED
  BY <1>1 DEF Write, TypeOK

\* An engine in a request's hands was loaded now or is as it was.
LEMMA EngineMoves ==
    ASSUME TypeOK, [Next]_vars, NEW q \in Requests,
           pc'[q] \in {"loaded", "checked"}
    PROVE  \/ /\ pc[q] \in {"loaded", "checked"} /\ engine'[q] = engine[q]
              /\ q \in Exits => stamp'[q] = stamp[q]
           \/ q \in Exits /\ LoadForExit(q)
           \/ q \in Resets /\ LoadForReset(q)
<1>1. ASSUME NEW r \in Exits, CloseTrade(r)
      PROVE  q # r /\ pc'[q] = pc[q] /\ engine' = engine
             /\ (q \in Exits => stamp'[q] = stamp[q])
  BY <1>1 DEF CloseTrade, TypeOK, Requests
<1>2. ASSUME NEW r \in Requests, CheckRow(r) \/ Write(r)
      PROVE  pc[q] \in {"loaded", "checked"} /\ engine' = engine /\ stamp' = stamp
  BY <1>2 DEF CheckRow, Write, TypeOK, Requests
<1>3. ASSUME NEW r \in Requests, r # q,
             LoadForExit(r) \/ LoadForReset(r)
      PROVE  pc'[q] = pc[q] /\ engine'[q] = engine[q] /\ stamp' = stamp
  BY <1>3 DEF LoadForExit, LoadForReset, Load, TypeOK
<1>4. CASE Crash
  BY <1>4 DEF Crash, InFlight, TypeOK
<1>5. CASE Tick \/ UNCHANGED vars
  BY <1>5 DEF Tick, vars
<1> QED
  BY <1>1, <1>2, <1>3, <1>4, <1>5 DEF Next, Requests

-----------------------------------------------------------------------------
(* Nothing is counted twice.                                               *)

\* Whatever overlaps, an engine knows of no more exits than were answered
\* for when it was loaded (state_store.py:25-59).
LEMMA NextUndercounts ==
    TypeOK /\ IsFiniteSet(Touched) /\ RowUndercounts /\ EngineUndercounts
    /\ [Next]_vars => RowUndercounts' /\ EngineUndercounts'
<1> SUFFICES ASSUME TypeOK, IsFiniteSet(Touched), RowUndercounts,
                    EngineUndercounts, [Next]_vars
             PROVE  RowUndercounts' /\ EngineUndercounts'
  OBVIOUS
<1> DEFINE e0 == EngineOf(row)
<1>0. /\ e0 \in Engine /\ now \in Nat
      /\ e0.dailyTrades <= Cardinality(Done(e0.tradeDate))
      /\ e0.dailyTrades \in Nat /\ e0.tradeDate \in Nat
  <2>1. e0 \in Engine /\ now \in Nat
    BY EngineOfType
  <2>2. CASE row = NoRow
    <3>1. e0.dailyTrades = 0
      BY <2>1, <2>2, NewEngineFacts DEF EngineOf
    <3> QED
      BY <2>1, <3>1, SetsFinite DEF Engine
  <2>3. CASE row # NoRow
    BY <2>1, <2>3 DEF EngineOf, RowUndercounts, Engine
  <2> QED
    BY <2>2, <2>3
<1> HIDE DEF e0
<1>1. RowUndercounts'
  <2> SUFFICES ASSUME row' # NoRow
               PROVE  row'.dailyTrades <= Cardinality(Done(row.tradeDate)')
    BY DEF RowUndercounts
  <2>1. PICK day : day = row'.tradeDate
    OBVIOUS
  <2>2. Done(row.tradeDate)' = Done(day)'
    BY <2>1 DEF Done
  <2>3. CASE row' = row
    <3>1. row.dailyTrades \in Nat /\ row.dailyTrades <= Cardinality(Done(day))
      BY <2>1, <2>3 DEF TypeOK, Engine, RowUndercounts
    <3>2. /\ Cardinality(Done(day)) \in Nat /\ Cardinality(Done(day)') \in Nat
          /\ Cardinality(Done(day)) <= Cardinality(Done(day)')
      BY DoneGrows
    <3> QED
      BY <2>2, <2>3, <3>1, <3>2
  <2>4. CASE row' # row
    <3>1. PICK r \in Requests :
              /\ Write(r) /\ pc[r] = "checked" /\ pc'[r] = "done"
              /\ row' = engine[r] /\ row' \in Engine
      BY <2>4, RowMoves
    <3>2. row'.dailyTrades \in Nat
      BY <3>1 DEF Engine
    <3>3. CASE r \in Exits
      <4>1. /\ Day(stamp[r]) = day
            /\ row'.dailyTrades <= Cardinality(Done(day)) + 1
        BY <2>1, <3>1, <3>3 DEF EngineUndercounts
      <4>2. Cardinality(Done(day)') = Cardinality(Done(day)) + 1
        BY <3>1, <3>3, <4>1, DoneGrows
      <4> QED
        BY <2>2, <4>1, <4>2
    <3>4. CASE r \in Resets
      <4>1. row'.dailyTrades <= Cardinality(Done(day))
        BY <2>1, <3>1, <3>4 DEF EngineUndercounts
      <4>2. /\ Cardinality(Done(day)) \in Nat /\ Cardinality(Done(day)') \in Nat
            /\ Cardinality(Done(day)) <= Cardinality(Done(day)')
        BY DoneGrows
      <4> QED
        BY <2>2, <3>2, <4>1, <4>2
    <3> QED
      BY <3>3, <3>4 DEF Requests
  <2> QED
    BY <2>3, <2>4
<1>2. ASSUME NEW r \in Exits, pc'[r] \in {"loaded", "checked"}
      PROVE  /\ engine'[r].tradeDate = Day(stamp'[r])
             /\ engine'[r].dailyTrades <= Cardinality(Done(Day(stamp[r]))') + 1
  <2>0. PICK day : day = Day(stamp'[r])
    OBVIOUS
  <2>1. Done(Day(stamp[r]))' = Done(day)'
    BY <2>0 DEF Done, Day
  <2>2. /\ Cardinality(Done(day)) \in Nat /\ Cardinality(Done(day)') \in Nat
        /\ Cardinality(Done(day)) <= Cardinality(Done(day)')
    BY DoneGrows
  <2>3. CASE /\ pc[r] \in {"loaded", "checked"} /\ engine'[r] = engine[r]
             /\ stamp'[r] = stamp[r]
    <3>1. /\ engine[r].tradeDate = day /\ engine[r].dailyTrades \in Nat
          /\ engine[r].dailyTrades <= Cardinality(Done(day)) + 1
      BY <2>0, <2>3 DEF EngineUndercounts, TypeOK, Engine, Requests
    <3> QED
      BY <2>0, <2>1, <2>2, <2>3, <3>1
  <2>4. CASE LoadForExit(r)
    <3>1. PICK pnl \in Results :
              engine'[r] = RecordTradeResult(e0, pnl, stamp[r]) /\ stamp' = stamp
      BY <2>4 DEF LoadForExit, Load, TypeOK, Requests, e0
    <3>2. stamp[r] \in Nat /\ pnl \in Int
      BY StoreAssumption DEF TypeOK
    <3>3. /\ engine'[r].tradeDate = day
          /\ engine'[r].dailyTrades =
                (IF e0.tradeDate = day THEN e0.dailyTrades ELSE 0) + 1
      <4> DEFINE c == RecordTradeResult(e0, pnl, stamp[r])
      <4>1. /\ c.tradeDate = Day(stamp[r])
            /\ c.dailyTrades =
                  (IF e0.tradeDate = Day(stamp[r]) THEN e0.dailyTrades ELSE 0) + 1
        BY <1>0, <3>2, RecordFacts
      <4> HIDE DEF c
      <4> QED
        BY <2>0, <3>1, <4>1 DEF c
    <3> QED
      BY <1>0, <2>0, <2>1, <2>2, <3>3
  <2>5. r \in Requests /\ r \notin Resets
    BY StoreAssumption DEF Requests
  <2> QED
    BY <1>2, <2>3, <2>4, <2>5, EngineMoves
<1>3. ASSUME NEW r \in Resets, pc'[r] \in {"loaded", "checked"}
      PROVE  engine'[r].dailyTrades <= Cardinality(Done(engine[r].tradeDate)')
  <2>0. PICK day : day = engine'[r].tradeDate
    OBVIOUS
  <2>1. Done(engine[r].tradeDate)' = Done(day)'
    BY <2>0 DEF Done
  <2>2. /\ Cardinality(Done(day)) \in Nat /\ Cardinality(Done(day)') \in Nat
        /\ Cardinality(Done(day)) <= Cardinality(Done(day)')
    BY DoneGrows
  <2>3. CASE pc[r] \in {"loaded", "checked"} /\ engine'[r] = engine[r]
    <3>1. /\ engine[r].dailyTrades \in Nat
          /\ engine[r].dailyTrades <= Cardinality(Done(day))
      BY <2>0, <2>3 DEF EngineUndercounts, TypeOK, Engine, Requests
    <3> QED
      BY <2>0, <2>1, <2>2, <2>3, <3>1
  <2>4. CASE LoadForReset(r)
    <3>1. engine'[r] = ResetHardKill(e0)
      BY <2>4 DEF LoadForReset, Load, TypeOK, Requests, e0
    <3>2. engine'[r].tradeDate = e0.tradeDate /\ engine'[r].dailyTrades = e0.dailyTrades
      BY <1>0, <3>1, HardResetFacts
    <3> QED
      BY <1>0, <2>0, <2>1, <2>2, <3>2
  <2>5. r \in Requests /\ r \notin Exits
    BY StoreAssumption DEF Requests
  <2> QED
    BY <1>3, <2>3, <2>4, <2>5, EngineMoves
<1> QED
  BY <1>1, <1>2, <1>3 DEF EngineUndercounts

-----------------------------------------------------------------------------
(* One at a time, everything is counted.                                   *)

\* What a loaded engine counts on a day no earlier than the row's: the exits
\* answered for on that day (load_risk_engine, reset_daily).
LEMMA CountOfDay ==
    ASSUME TypeOK, IsFiniteSet(Touched), RowCounts,
           NEW day \in Nat, row # NoRow => row.tradeDate <= day
    PROVE  Cardinality(Done(day)) =
              IF EngineOf(row).tradeDate = day THEN EngineOf(row).dailyTrades ELSE 0
<1>1. ASSUME Done(day) = {}
      PROVE  Cardinality(Done(day)) = 0
  BY <1>1, FS_EmptySet
<1>2. CASE row = NoRow
  <2>1. EngineOf(row).dailyTrades = 0
    BY <1>2, EngineOfType, NewEngineFacts DEF EngineOf
  <2>2. Done(day) = {}
    BY <1>2 DEF RowCounts, Done
  <2> QED
    BY <1>1, <2>1, <2>2
<1>3. CASE row # NoRow
  <2>1. EngineOf(row) = row /\ row.tradeDate \in Nat
    BY <1>3 DEF EngineOf, TypeOK, Engine
  <2>2. CASE row.tradeDate = day
    BY <1>3, <2>1, <2>2 DEF RowCounts
  <2>3. CASE row.tradeDate # day
    <3>1. \A r \in Exits : pc[r] = "done" => Day(stamp[r]) # day
      <4>1. \A r \in Exits : Day(stamp[r]) \in Nat
        BY DayFacts DEF TypeOK
      <4> QED
        BY <1>3, <2>1, <2>3, <4>1 DEF RowCounts
    <3>2. Done(day) = {}
      BY <3>1 DEF Done
    <3> QED
      BY <1>1, <2>1, <2>3, <3>2
  <2> QED
    BY <2>2, <2>3
<1> QED
  BY <1>2, <1>3

\* The row's count stands while no request is answered.
LEMMA RowStands ==
    ASSUME TypeOK, RowCounts, row' = row, now' \in Nat, now <= now',
           \A r \in Exits : pc'[r] = "done" <=> pc[r] = "done",
           \A r \in Exits : pc[r] = "done" => stamp'[r] = stamp[r]
    PROVE  RowCounts' /\ \A day : Done(day)' = Done(day)
<1>1. \A day : Done(day)' = Done(day)
  BY DEF Done
<1>2. ASSUME row = NoRow
      PROVE  RowCounts'
  BY <1>2 DEF RowCounts
<1>3. ASSUME row # NoRow
      PROVE  RowCounts'
  <2>1. /\ now \in Nat /\ Day(now) \in Nat /\ Day(now') \in Nat
        /\ Day(now) <= Day(now') /\ row.tradeDate \in Nat
    BY <1>3, DayFacts, StoreAssumption DEF TypeOK, Engine
  <2>2. row'.tradeDate <= Day(now')
    BY <1>3, <2>1 DEF RowCounts
  <2>3. Done(row.tradeDate)' = Done(row.tradeDate)
    BY DEF Done
  <2>4. row'.dailyTrades = Cardinality(Done(row.tradeDate)')
    BY <1>3, <2>3 DEF RowCounts
  <2>5. \A r \in Exits : pc'[r] = "done" => Day(stamp'[r]) <= row'.tradeDate
    BY <1>3 DEF RowCounts
  <2> QED
    BY <1>3, <2>2, <2>4, <2>5 DEF RowCounts
<1> QED
  BY <1>1, <1>2, <1>3

\* One at a time: each request works on the row as it is, so that the exit's
\* engine counts the row's exits and its own (journal.py:140-162).
LEMMA NextOrderly ==
    TypeOK /\ IsFiniteSet(Touched) /\ Orderly /\ [Next]_vars => Orderly'
<1> SUFFICES ASSUME TypeOK, IsFiniteSet(Touched), Orderly, [Next]_vars,
                    disorder' = {}
             PROVE  RowCounts' /\ OneInFlight' /\ EngineCounts'
  BY DEF Orderly
<1>0. /\ disorder = {} /\ now \in Nat /\ now' \in Nat /\ now <= now'
      /\ stamp \in [Exits -> Nat] /\ pc \in [Requests -> Stages]
      /\ Exits \subseteq Requests /\ Resets \subseteq Requests
      /\ Exits \cap Resets = {}
      /\ TypeOK'
  <2>1. disorder = {}
    BY DEF Next, vars, CloseTrade, LoadForExit, LoadForReset, Load, CheckRow,
           Write, Crash, Tick
  <2>2. TypeOK' /\ now \in Nat /\ now' \in Nat
    BY NextType, StoreAssumption DEF TypeOK
  <2>3. now <= now'
    BY <2>2 DEF Next, vars, CloseTrade, LoadForExit, LoadForReset, Load,
                CheckRow, Write, Crash, Tick
  <2> QED
    BY <2>1, <2>2, <2>3, StoreAssumption DEF TypeOK, Requests
<1>i. RowCounts /\ OneInFlight /\ EngineCounts
  BY <1>0 DEF Orderly
<1>1. ASSUME NEW r \in Exits, CloseTrade(r)
      PROVE  RowCounts' /\ OneInFlight' /\ EngineCounts'
  <2>1. InFlight = {}
    BY <1>0, <1>1 DEF CloseTrade, Overlap
  <2>2. PICK back \in 0..MaxBackdate :
            /\ now >= back /\ Day(now - back) = Day(now)
            /\ stamp' = [stamp EXCEPT ![r] = now - back]
    BY <1>0, <1>1 DEF CloseTrade
  <2>3. /\ InFlight' = {r} /\ pc' = [pc EXCEPT ![r] = "closed"]
        /\ row' = row /\ now' = now /\ pc[r] = "new"
    BY <1>0, <1>1, <2>1 DEF CloseTrade, InFlight, Arrives
  <2>4. RowCounts'
    BY <1>0, <1>i, <2>2, <2>3, RowStands
  <2>5. now - back \in Nat /\ now - back <= now
    BY <1>0, <2>2, StoreAssumption
  <2>6. row # NoRow => row.tradeDate <= Day(now - back)
    BY <1>i, <2>2 DEF RowCounts
  <2>7. EngineCounts'
    BY <1>0, <2>2, <2>3, <2>5, <2>6 DEF EngineCounts, Day
  <2> QED
    BY <2>3, <2>4, <2>7 DEF OneInFlight
<1>2. ASSUME NEW r \in Exits, LoadForExit(r)
      PROVE  RowCounts' /\ OneInFlight' /\ EngineCounts'
  <2>1. PICK pnl \in Results :
            Load(r, RecordTradeResult(EngineOf(row), pnl, stamp[r]))
    BY <1>2 DEF LoadForExit
  <2> DEFINE c == RecordTradeResult(EngineOf(row), pnl, stamp[r])
  <2>2. PICK day \in Nat : day = Day(stamp[r])
    BY <1>0, DayFacts
  <2>3. /\ pc[r] = "closed" /\ pc' = [pc EXCEPT ![r] = "loaded"]
        /\ engine' = [engine EXCEPT ![r] = c]
        /\ row' = row /\ now' = now /\ stamp' = stamp
    BY <1>2, <2>1 DEF LoadForExit, Load
  <2>f. InFlight = {r} /\ InFlight' = {r}
    <3>1. InFlight = {r}
      BY <1>0, <1>i, <2>3 DEF InFlight, OneInFlight
    <3> QED
      BY <1>0, <2>3, <3>1 DEF InFlight
  <2>4. /\ stamp[r] <= now /\ (row # NoRow => row.tradeDate <= day)
    BY <1>0, <1>i, <2>2, <2>3, <2>f DEF EngineCounts
  <2>5. /\ c.tradeDate = day /\ c.dailyTrades = Cardinality(Done(day)) + 1
    <3>1. Cardinality(Done(day)) =
              IF EngineOf(row).tradeDate = day THEN EngineOf(row).dailyTrades ELSE 0
      BY <1>i, <2>4, CountOfDay
    <3>2. EngineOf(row) \in Engine /\ pnl \in Int /\ stamp[r] \in Nat
      BY <1>0, EngineOfType, StoreAssumption
    <3>3. /\ c.tradeDate = day
          /\ c.dailyTrades = (IF EngineOf(row).tradeDate = day
                              THEN EngineOf(row).dailyTrades ELSE 0) + 1
      BY <2>2, <3>2, RecordFacts
    <3> QED
      BY <3>1, <3>3
  <2> HIDE DEF c
  <2>6. RowCounts' /\ Done(day)' = Done(day)
    BY <1>0, <1>i, <2>3, RowStands
  <2>7. Done(Day(stamp[r]))' = Done(day)'
    BY <2>2, <2>3 DEF Done, Day
  <2>8. engine'[r] = c /\ pc'[r] = "loaded"
    BY <1>0, <2>3 DEF TypeOK
  <2>9. EngineCounts'
    <3>1. /\ stamp'[r] <= now' /\ (row' # NoRow => row'.tradeDate <= Day(stamp'[r]))
          /\ engine'[r].tradeDate = Day(stamp'[r])
          /\ engine'[r].dailyTrades = Cardinality(Done(Day(stamp[r]))') + 1
      BY <2>2, <2>3, <2>4, <2>5, <2>6, <2>7, <2>8
    <3> QED
      BY <1>0, <2>f, <2>8, <3>1 DEF EngineCounts, Day
  <2> QED
    BY <2>f, <2>6, <2>9 DEF OneInFlight
<1>3. ASSUME NEW r \in Resets, LoadForReset(r)
      PROVE  RowCounts' /\ OneInFlight' /\ EngineCounts'
  <2> DEFINE c == ResetHardKill(EngineOf(row))
  <2>1. InFlight = {}
    BY <1>0, <1>3 DEF LoadForReset, Overlap
  <2>2. /\ pc[r] = "new" /\ pc' = [pc EXCEPT ![r] = "loaded"]
        /\ engine' = [engine EXCEPT ![r] = c]
        /\ row' = row /\ now' = now /\ stamp' = stamp
    BY <1>3 DEF LoadForReset, Load, Arrives
  <2>3. InFlight' = {r}
    BY <1>0, <2>1, <2>2 DEF InFlight
  <2>4. /\ c.tradeDate = EngineOf(row).tradeDate
        /\ c.dailyTrades = EngineOf(row).dailyTrades
    BY EngineOfType, HardResetFacts
  <2> HIDE DEF c
  <2>5. IF row = NoRow THEN c.dailyTrades = 0 /\ c.tradeDate <= Day(now)
        ELSE c.dailyTrades = row.dailyTrades /\ c.tradeDate = row.tradeDate
    <3>1. CASE row = NoRow
      <4>1. NewEngine(now).tradeDate = Day(now) /\ NewEngine(now).dailyTrades = 0
            /\ Day(now) \in Nat
        BY <1>0, NewEngineFacts, DayFacts
      <4> QED
        BY <2>4, <3>1, <4>1 DEF EngineOf
    <3>2. CASE row # NoRow
      BY <2>4, <3>2 DEF EngineOf
    <3> QED
      BY <3>1, <3>2
  <2>6. RowCounts'
    BY <1>0, <1>i, <2>2, RowStands
  <2>7. engine'[r] = c /\ pc'[r] = "loaded"
    BY <1>0, <2>2 DEF TypeOK
  <2>8. EngineCounts'
    BY <1>0, <2>2, <2>3, <2>5, <2>7 DEF EngineCounts, Day
  <2> QED
    BY <2>3, <2>6, <2>8 DEF OneInFlight
<1>4. ASSUME NEW r \in Requests, CheckRow(r)
      PROVE  RowCounts' /\ OneInFlight' /\ EngineCounts'
  <2>1. /\ pc[r] = "loaded" /\ pc' = [pc EXCEPT ![r] = "checked"]
        /\ seen' = [seen EXCEPT ![r] = row]
        /\ engine' = engine /\ row' = row /\ now' = now /\ stamp' = stamp
    BY <1>4 DEF CheckRow
  <2>2. InFlight = {r} /\ InFlight' = {r}
    <3>1. InFlight = {r}
      BY <1>0, <1>i, <2>1 DEF InFlight, OneInFlight
    <3> QED
      BY <1>0, <2>1, <3>1 DEF InFlight
  <2>3. seen'[r] = row
    BY <1>0, <2>1 DEF TypeOK
  <2>4. RowCounts' /\ (\A day : Done(day)' = Done(day))
    BY <1>0, <1>i, <2>1, RowStands
  <2>5. ASSUME r \in Exits
        PROVE  Done(Day(stamp[r]))' = Done(Day(stamp[r]))
    BY <1>0, <2>1 DEF Done, Day
  <2>6. EngineCounts'
    BY <1>0, <1>i, <2>1, <2>2, <2>3, <2>5 DEF EngineCounts, Day
  <2> QED
    BY <2>2, <2>4, <2>6 DEF OneInFlight
<1>5. ASSUME NEW r \in Requests, Write(r)
      PROVE  RowCounts' /\ OneInFlight' /\ EngineCounts'
  <2>1. pc[r] = "checked" /\ stamp' = stamp /\ now' = now
    BY <1>5 DEF Write
  <2>2. InFlight = {r}
    BY <1>0, <1>i, <2>1 DEF InFlight, OneInFlight
  <2>3. seen[r] = row /\ engine[r] \in Engine /\ NoRow \notin Engine
    BY <1>0, <1>i, <2>1, <2>2, StoreAssumption DEF EngineCounts, Requests, TypeOK
  <2>4. pc' = [pc EXCEPT ![r] = "done"] /\ row' = engine[r]
    BY <1>5, <2>3 DEF Write
  <2>5. InFlight' = {}
    BY <1>0, <2>2, <2>4 DEF InFlight
  <2>6. OneInFlight' /\ EngineCounts'
    BY <2>5 DEF OneInFlight, EngineCounts
  <2>7. PICK day \in Nat : day = engine[r].tradeDate
    BY <2>3 DEF Engine
  <2>8. Done(row.tradeDate)' = Done(day)' /\ row' # NoRow
    BY <2>3, <2>4, <2>7 DEF Done
  <2>9. CASE r \in Exits
    <3>1. /\ stamp[r] <= now /\ stamp[r] \in Nat /\ Day(stamp[r]) = day
          /\ (row # NoRow => row.tradeDate <= day)
          /\ engine[r].dailyTrades = Cardinality(Done(day)) + 1
      BY <1>0, <1>i, <2>1, <2>2, <2>7, <2>9 DEF EngineCounts
    <3>2. row'.dailyTrades = Cardinality(Done(day)')
      BY <1>0, <1>5, <2>4, <2>9, <3>1, DoneGrows DEF TypeOK
    <3>3. row'.tradeDate <= Day(now')
      BY <1>0, <2>1, <2>4, <2>7, <3>1, DayFacts
    <3>4. ASSUME NEW q \in Exits, pc'[q] = "done"
          PROVE  Day(stamp'[q]) <= row'.tradeDate
      <4>1. CASE q = r
        BY <2>1, <2>4, <2>7, <3>1, <4>1
      <4>2. CASE q # r
        <5>1. /\ pc[q] = "done" /\ row # NoRow /\ Day(stamp[q]) <= row.tradeDate
          BY <1>0, <1>i, <2>4, <3>4, <4>2 DEF RowCounts
        <5>2. Day(stamp[q]) \in Nat /\ row.tradeDate \in Nat
          BY <1>0, <5>1, DayFacts DEF TypeOK, Engine
        <5> QED
          BY <2>1, <2>4, <2>7, <3>1, <5>1, <5>2
      <4> QED
        BY <4>1, <4>2
    <3> QED
      BY <2>6, <2>8, <3>2, <3>3, <3>4 DEF RowCounts, Day
  <2>10. CASE r \in Resets
    <3>1. \A d : Done(d)' = Done(d)
      BY <1>0, <2>1, <2>4, <2>10 DEF Done
    <3>2. ASSUME row = NoRow
          PROVE  /\ row'.tradeDate <= Day(now')
                 /\ row'.dailyTrades = Cardinality(Done(day))
                 /\ \A q \in Exits : pc'[q] # "done"
      <4>1. Done(day) = {} /\ \A q \in Exits : pc'[q] # "done"
        BY <1>0, <1>i, <2>4, <2>10, <3>2 DEF RowCounts, Done
      <4> QED
        BY <1>i, <2>1, <2>2, <2>4, <2>10, <3>2, <4>1, FS_EmptySet DEF EngineCounts
    <3>3. ASSUME row # NoRow
          PROVE  /\ row'.tradeDate <= Day(now')
                 /\ row'.dailyTrades = Cardinality(Done(day))
                 /\ \A q \in Exits : pc'[q] = "done" =>
                       Day(stamp'[q]) <= row'.tradeDate
      <4>1. /\ row'.tradeDate = row.tradeDate /\ row'.dailyTrades = row.dailyTrades
            /\ day = row.tradeDate
        BY <1>i, <2>2, <2>4, <2>7, <2>10, <3>3 DEF EngineCounts
      <4>2. \A q \in Exits : pc'[q] = "done" => pc[q] = "done"
        BY <1>0, <2>4, <2>10
      <4> QED
        BY <1>i, <2>1, <3>3, <4>1, <4>2 DEF RowCounts
    <3> QED
      BY <2>6, <2>8, <3>1, <3>2, <3>3 DEF RowCounts, Day
  <2> QED
    BY <2>9, <2>10 DEF Requests
<1>6. CASE Crash
  BY <1>0, <1>6 DEF Crash
<1>7. CASE Tick \/ UNCHANGED vars
  <2>1. /\ pc' = pc /\ row' = row /\ stamp' = stamp
        /\ seen' = seen /\ engine' = engine
    BY <1>7 DEF Tick, vars
  <2>2. RowCounts'
    BY <1>0, <1>i, <2>1, RowStands
  <2>3. InFlight' = InFlight
    BY <2>1 DEF InFlight
  <2>4. Day(now) \in Nat /\ Day(now') \in Nat /\ Day(now) <= Day(now')
    BY <1>0, DayFacts
  <2>5. EngineCounts'
    <3>1. ASSUME NEW r \in Exits \cap InFlight
          PROVE  stamp[r] <= now' /\ Done(Day(stamp[r]))' = Done(Day(stamp[r]))
      <4>1. stamp[r] <= now /\ stamp[r] \in Nat
        BY <1>0, <1>i DEF EngineCounts
      <4> QED
        BY <1>0, <2>1, <4>1 DEF Done, Day
    <3>2. ASSUME NEW r \in Resets \cap InFlight, row = NoRow
          PROVE  engine[r].tradeDate <= Day(now')
      <4>1. engine[r].tradeDate <= Day(now) /\ engine[r].tradeDate \in Nat
        BY <1>0, <1>i, <3>2 DEF EngineCounts, TypeOK, Engine
      <4> QED
        BY <2>4, <4>1
    <3> QED
      BY <1>i, <2>1, <2>3, <3>1, <3>2 DEF EngineCounts, Day
  <2> QED
    BY <1>i, <2>2, <2>3, <2>5 DEF OneInFlight
<1> QED
  BY <1>1, <1>2, <1>3, <1>4, <1>5, <1>6, <1>7 DEF Next

-----------------------------------------------------------------------------
(* The theorems.                                                           *)

\* Before the first request nothing is counted.
LEMMA InitInv == Init => IInv /\ Orderly
<1> SUFFICES ASSUME Init PROVE IInv /\ Orderly
  OBVIOUS
<1>1. Touched = {} /\ InFlight = {}
  BY DEF Init, Touched, InFlight
<1>2. Idle \in Engine
  BY NewEngineFacts DEF Idle
<1>3. IsFiniteSet({}) /\ Cardinality({}) = 0
  BY FS_EmptySet
<1>4. TypeOK /\ IsFiniteSet(Touched)
  BY <1>1, <1>2, <1>3, StoreAssumption DEF Init, TypeOK, Stages
<1>5. RowUndercounts /\ EngineUndercounts
  BY DEF Init, RowUndercounts, EngineUndercounts, Requests
<1>6. RowCounts /\ OneInFlight /\ EngineCounts
  BY <1>1 DEF Init, RowCounts, OneInFlight, EngineCounts, Requests
<1> QED
  BY <1>4, <1>5, <1>6 DEF IInv, Orderly

\* IInv and Orderly are inductive.
THEOREM Invariance == Spec => [](IInv /\ Orderly)
<1>1. IInv /\ Orderly /\ [Next]_vars => (IInv /\ Orderly)'
  BY NextType, NextUndercounts, NextOrderly DEF IInv
<1> QED
  BY InitInv, <1>1, PTL DEF Spec

\* Every request always holds well-typed engines and rows, and the server
\* never has more than MaxInFlight of them (state_store.py, journal.py:140).
THEOREM TypeCorrect == Spec => []TypeOK
BY Invariance, PTL DEF IInv

\* What the dashboard would count today (load_risk_engine, reset_daily).
LEMMA TodaysCount ==
    ASSUME TypeOK
    PROVE  /\ Day(now) \in Nat /\ ClosedToday = Done(Day(now))
           /\ ResetDaily(EngineOf(row), now).dailyTrades =
                 IF EngineOf(row).tradeDate = Day(now)
                 THEN EngineOf(row).dailyTrades ELSE 0
BY EngineOfType, DayFacts, ResetDailyFacts DEF ClosedToday, Done

\* Whatever requests overlap, die or are backdated, the day's count never
\* exceeds the exits of the day the server answered for
\* (state_store.py:25-59, journal.py:140-162).
THEOREM CountNeverExceeds == Spec => []NeverOvercounts
<1>1. IInv => NeverOvercounts
  <2> SUFFICES ASSUME IInv
               PROVE  NeverOvercounts
    OBVIOUS
  <2>1. Cardinality(ClosedToday) \in Nat
    BY TodaysCount, SetsFinite DEF IInv
  <2>2. CASE EngineOf(row).tradeDate # Day(now)
    BY <2>1, <2>2, TodaysCount DEF NeverOvercounts, IInv
  <2>3. CASE EngineOf(row).tradeDate = Day(now) /\ row = NoRow
    <3>1. EngineOf(row).dailyTrades = 0
      BY <2>3, EngineOfType, NewEngineFacts DEF IInv, EngineOf
    <3> QED
      BY <2>1, <2>3, <3>1, TodaysCount DEF NeverOvercounts, IInv
  <2>4. CASE EngineOf(row).tradeDate = Day(now) /\ row # NoRow
    <3>1. EngineOf(row).dailyTrades <= Cardinality(Done(Day(now)))
      BY <2>4 DEF IInv, RowUndercounts, EngineOf
    <3> QED
      BY <2>4, <3>1, TodaysCount DEF NeverOvercounts, IInv
  <2> QED
    BY <2>2, <2>3, <2>4
<1> QED
  BY <1>1, Invariance, PTL

\* While requests come one at a time and report today's exits, the day's count
\* is the number of exits of the day the server answered for.
THEOREM CountIsExact == Spec => []EveryCloseCounted
<1>1. IInv /\ Orderly => EveryCloseCounted
  <2> SUFFICES ASSUME IInv, Orderly, disorder = {}
               PROVE  ResetDaily(EngineOf(row), now).dailyTrades
                        = Cardinality(ClosedToday)
    BY DEF EveryCloseCounted
  <2>1. RowCounts /\ TypeOK /\ IsFiniteSet(Touched)
    BY DEF Orderly, IInv
  <2>2. row # NoRow => row.tradeDate <= Day(now)
    BY <2>1 DEF RowCounts
  <2> QED
    BY <2>1, <2>2, TodaysCount, CountOfDay
<1> QED
  BY <1>1, Invariance, PTL
=============================================================================
