-------------------------- MODULE RiskTradingProofs --------------------------
(* Theorems about RiskTrading, for every configuration, set of results and *)
(* length of day.                                                          *)
EXTENDS RiskTrading, TLAPS

-----------------------------------------------------------------------------
(* The inductive invariant.                                                *)

\* The engine's day never runs ahead of the clock, and its daily counters
\* are today's once its day is today; before that, nothing closed today.
CountersAgree ==
    /\ eng.tradeDate <= Day(now)
    /\ eng.tradeDate = Day(now) => /\ eng.dailyPnl = realised
                                   /\ eng.dailyTrades = results
    /\ eng.tradeDate # Day(now) => realised = 0 /\ results = 0

\* What the open positions may still lose is already set aside.
Budget ==
    /\ eng.positions <= MaxPositions
    /\ realised - WorstLoss * eng.positions
         > -(MaxDailyLoss + WorstLoss * MaxPositions)
    /\ results + eng.positions < MaxDailyTrades + MaxPositions

StreakSetsCooldown ==
    eng.losses >= CooldownLosses =>
        eng.lastLoss \in Nat /\ eng.cooldownEnd = eng.lastLoss + CooldownLen

IInv ==
    /\ TypeOK
    /\ CountersAgree
    /\ Budget
    /\ StreakSetsCooldown
    /\ BreachKills

-----------------------------------------------------------------------------
(* Facts about the calendar and the engine's operations.                   *)

\* An instant belongs to a day, and days follow the instants' order.
LEMMA DayFacts ==
    /\ \A t \in Nat : Day(t) \in Nat
    /\ \A s, t \in Nat : s <= t => Day(s) <= Day(t)
    /\ \A t \in Nat, k \in Nat : t >= k * DayLen => Day(t) >= k
<1>1. \A t \in Nat : Day(t) \in Nat
  BY ConfigAssumption DEF Day
<1>2. \A t \in Nat, k \in Nat : t >= k * DayLen => Day(t) >= k
  BY ConfigAssumption DEF Day
<1>3. \A s, t \in Nat : s <= t => Day(s) <= Day(t)
  BY ConfigAssumption DEF Day
<1> QED BY <1>1, <1>2, <1>3

\* reset_daily touches the day and the two daily counters, nothing else.
LEMMA ResetDailyFacts ==
    ASSUME NEW e \in Engine, NEW t \in Nat
    PROVE  LET r == ResetDaily(e, t)
           IN  /\ r \in Engine
               /\ r.tradeDate = Day(t)
               /\ r.dailyPnl = IF e.tradeDate = Day(t) THEN e.dailyPnl ELSE 0
               /\ r.dailyTrades = IF e.tradeDate = Day(t) THEN e.dailyTrades ELSE 0
               /\ r.equity = e.equity /\ r.peak = e.peak
               /\ r.losses = e.losses /\ r.lastLoss = e.lastLoss
               /\ r.cooldownEnd = e.cooldownEnd
               /\ r.kill = e.kill /\ r.positions = e.positions
<1>1. PICK d \in Nat : d = Day(t)
  BY DayFacts
<1>2. CASE e.tradeDate = Day(t)
  BY <1>2 DEF ResetDaily
<1>3. CASE e.tradeDate # Day(t)
  <2> DEFINE r == ResetDaily(e, t)
  <2>0. e \in Engine /\ d \in Nat /\ 0 \in Int /\ 0 \in Nat
    OBVIOUS
  <2>1. r = [e EXCEPT !.dailyPnl = 0, !.dailyTrades = 0, !.tradeDate = d]
    BY <1>1, <1>3 DEF ResetDaily
  <2> HIDE DEF r
  <2>2. r \in Engine
    BY <2>0, <2>1 DEF Engine
  <2>3. /\ r.tradeDate = d /\ r.dailyPnl = 0 /\ r.dailyTrades = 0
        /\ r.equity = e.equity /\ r.peak = e.peak
        /\ r.losses = e.losses /\ r.lastLoss = e.lastLoss
        /\ r.cooldownEnd = e.cooldownEnd
        /\ r.kill = e.kill /\ r.positions = e.positions
    BY <2>0, <2>1 DEF Engine
  <2> QED BY <1>1, <1>3, <2>2, <2>3 DEF r
<1> QED BY <1>2, <1>3

\* What record_trade_result followed by record_position_close leaves.
LEMMA CloseFacts ==
    ASSUME NEW e \in Engine, NEW t \in Nat, NEW pnl \in Int, e.positions > 0
    PROVE  LET r == ResetDaily(e, t)
               c == RecordPositionClose(RecordTradeResult(e, pnl, t))
           IN  /\ c \in Engine
               /\ c.tradeDate = Day(t)
               /\ c.dailyPnl = r.dailyPnl + pnl
               /\ c.dailyTrades = r.dailyTrades + 1
               /\ c.positions = e.positions - 1
               /\ c.kill = (e.kill \/ Breached(c.equity, c.peak))
               /\ pnl < 0 =>
                    /\ c.losses = e.losses + 1
                    /\ c.lastLoss = t
                    /\ c.losses >= CooldownLosses => c.cooldownEnd = t + CooldownLen
               /\ pnl >= 0 =>
                    \/ c.losses = 0
                    \/ /\ c.losses = e.losses /\ c.lastLoss = e.lastLoss
                       /\ c.cooldownEnd = e.cooldownEnd
<1> DEFINE r == ResetDaily(e, t)
           w == WithStreak(r, pnl, t)
           c == RecordPositionClose(RecordTradeResult(e, pnl, t))
           equity == AppliedTo(e.equity, pnl)
           peak == Larger(equity, e.peak)
<1>1. /\ r \in Engine /\ r.tradeDate = Day(t)
      /\ r.losses = e.losses /\ r.lastLoss = e.lastLoss
      /\ r.cooldownEnd = e.cooldownEnd /\ r.kill = e.kill
      /\ r.positions = e.positions
  BY ResetDailyFacts
<1>2. equity \in Int /\ peak \in Int /\ Breached(equity, peak) \in BOOLEAN
  BY DEF AppliedTo, Larger, Engine, Breached
<1> HIDE DEF r, equity, peak
<1>3. /\ w \in Engine
      /\ w.tradeDate = r.tradeDate /\ w.dailyPnl = r.dailyPnl
      /\ w.dailyTrades = r.dailyTrades
      /\ w.kill = r.kill /\ w.positions = r.positions
  <2>1. CASE pnl < 0
    <3> DEFINE end == IF r.losses + 1 >= CooldownLosses
                      THEN t + CooldownLen ELSE r.cooldownEnd
    <3>1. end \in Nat \cup {None} /\ r.losses + 1 \in Nat
      BY <1>1, ConfigAssumption DEF Engine
    <3>2. w = [r EXCEPT !.losses = r.losses + 1, !.lastLoss = t, !.cooldownEnd = end]
      BY <2>1, <1>1 DEF WithStreak, Engine
    <3> HIDE DEF end, w
    <3> QED BY <1>1, <3>1, <3>2 DEF Engine
  <2>2. CASE ~(pnl < 0) /\ (pnl > 0 \/ BreakevenResets)
    <3>1. w = [r EXCEPT !.losses = 0, !.cooldownEnd = None]
      BY <2>2 DEF WithStreak
    <3> HIDE DEF w
    <3> QED BY <1>1, <3>1 DEF Engine
  <2>3. CASE ~(pnl < 0) /\ ~(pnl > 0 \/ BreakevenResets)
    BY <2>3, <1>1 DEF WithStreak
  <2> QED BY <2>1, <2>2, <2>3
<1>4. /\ pnl < 0 =>
           /\ w.losses = r.losses + 1 /\ w.lastLoss = t
           /\ w.losses >= CooldownLosses => w.cooldownEnd = t + CooldownLen
      /\ pnl >= 0 =>
           \/ w.losses = 0
           \/ w = r
  BY <1>1, ConfigAssumption DEF WithStreak, Engine
<1> DEFINE k == w.kill \/ Breached(equity, peak)
<1>k. k \in BOOLEAN
  BY <1>2, <1>3 DEF Engine
<1> HIDE DEF w
<1>5. c = [w EXCEPT !.dailyPnl = @ + pnl, !.dailyTrades = @ + 1,
                    !.equity = equity, !.peak = peak, !.kill = k,
                    !.positions = Larger(0, w.positions - 1)]
  BY <1>3 DEF RecordPositionClose, RecordTradeResult, w, r, equity, peak, Engine
<1> HIDE DEF k, c
<1>6. Larger(0, w.positions - 1) = e.positions - 1
  BY <1>1, <1>3 DEF Larger, Engine
<1>7. /\ c.tradeDate = w.tradeDate /\ c.dailyPnl = w.dailyPnl + pnl
      /\ c.dailyTrades = w.dailyTrades + 1
      /\ c.equity = equity /\ c.peak = peak
      /\ c.losses = w.losses /\ c.lastLoss = w.lastLoss
      /\ c.cooldownEnd = w.cooldownEnd
      /\ c.positions = e.positions - 1
  BY <1>3, <1>5, <1>6 DEF Engine
<1>8. c.kill = k
  BY <1>3, <1>5 DEF Engine
<1>9. c \in Engine
  <2>1. w.dailyPnl + pnl \in Int /\ w.dailyTrades + 1 \in Nat
    BY <1>3 DEF Engine
  <2>2. e.positions - 1 \in Nat
    BY DEF Engine
  <2> QED BY <1>2, <1>3, <1>k, <1>5, <1>6, <2>1, <2>2 DEF Engine
<1> QED
  BY <1>1, <1>3, <1>4, <1>7, <1>8, <1>9 DEF r, c, k

-----------------------------------------------------------------------------
(* Initial states satisfy the invariant and every step preserves it.       *)

\* A new engine with no position meets every part of the invariant.
LEMMA InitEstablishes == Init => IInv
<1> SUFFICES ASSUME Init PROVE IInv
  OBVIOUS
<1>1. Day(0) \in Nat
  BY DayFacts
<1>2. eng \in Engine
  BY <1>1, ConfigAssumption DEF Init, NewEngine, Engine
<1>3. TypeOK
  <2>1. now \in Nat /\ realised \in Int /\ results \in Nat
    BY DEF Init
  <2>2. override \in BOOLEAN
    BY Zenon DEF Init
  <2> QED BY <1>2, <2>1, <2>2 DEF TypeOK
<1>4. CountersAgree
  BY <1>1 DEF Init, NewEngine, CountersAgree
<1>5. Budget
  <2>1. WorstLoss * 0 = 0 /\ WorstLoss * MaxPositions \in Nat
    BY ResultsAssumption, ConfigAssumption
  <2> QED BY <2>1, ConfigAssumption DEF Init, NewEngine, Budget
<1>6. StreakSetsCooldown
  BY ConfigAssumption DEF Init, NewEngine, StreakSetsCooldown
<1>7. BreachKills
  <2>1. (InitialEquity - InitialEquity) * 100 = 0 /\ MaxDrawdown * InitialEquity > 0
    BY ConfigAssumption
  <2>2. ~Breached(InitialEquity, InitialEquity)
    BY <2>1, ConfigAssumption DEF Breached
  <2>3. eng.equity = InitialEquity /\ eng.peak = InitialEquity
    BY DEF Init, NewEngine
  <2> QED BY <2>2, <2>3 DEF BreachKills
<1> QED BY <1>3, <1>4, <1>5, <1>6, <1>7 DEF IInv

\* Time passing: a new day starts with nothing realised.
LEMMA TickPreserves == IInv /\ Tick => IInv'
<1> SUFFICES ASSUME IInv, Tick PROVE IInv'
  OBVIOUS
<1> USE DEF IInv
<1>1. Day(now) \in Nat /\ Day(now + 1) \in Nat /\ Day(now) <= Day(now + 1)
  BY DayFacts DEF TypeOK
<1>2. TypeOK'
  BY DEF TypeOK, Tick
<1>3. CountersAgree'
  <2>1. eng.tradeDate \in Nat
    BY DEF TypeOK, Engine
  <2> QED BY <1>1, <2>1 DEF Tick, Midnight, CountersAgree
<1>4. Budget'
  <2>1. eng.positions \in Nat
    BY DEF TypeOK, Engine
  <2>2. WorstLoss * eng.positions <= WorstLoss * MaxPositions
    BY <2>1, ResultsAssumption, ConfigAssumption DEF Budget
  <2>3. WorstLoss * eng.positions \in Nat /\ WorstLoss * MaxPositions \in Nat
    BY <2>1, ResultsAssumption, ConfigAssumption
  <2>4. CASE Midnight
    BY <2>1, <2>2, <2>3, <2>4, ConfigAssumption DEF Tick, Budget
  <2>5. CASE ~Midnight
    BY <2>5 DEF Tick, Budget
  <2> QED BY <2>4, <2>5
<1>5. (StreakSetsCooldown /\ BreachKills)'
  BY DEF Tick, StreakSetsCooldown, BreachKills
<1> QED BY <1>2, <1>3, <1>4, <1>5

\* Rolling the day leaves an engine whose counters are today's.
LEMMA RolledCounters ==
    ASSUME IInv
    PROVE  LET r == ResetDaily(eng, now)
           IN  r.dailyPnl = realised /\ r.dailyTrades = results
BY ResetDailyFacts DEF IInv, TypeOK, CountersAgree

\* A call that only looks rolls the day and nothing else.
LEMMA AskPreserves == IInv /\ Ask => IInv'
<1> SUFFICES ASSUME IInv, Ask PROVE IInv'
  OBVIOUS
<1> USE DEF IInv
<1>1. Day(now) \in Nat
  BY DayFacts DEF TypeOK
<1>2. /\ eng' \in Engine /\ eng'.tradeDate = Day(now)
      /\ eng'.equity = eng.equity /\ eng'.peak = eng.peak
      /\ eng'.losses = eng.losses /\ eng'.lastLoss = eng.lastLoss
      /\ eng'.cooldownEnd = eng.cooldownEnd
      /\ eng'.kill = eng.kill /\ eng'.positions = eng.positions
  BY ResetDailyFacts DEF Ask, TypeOK
<1>3. eng'.dailyPnl = realised /\ eng'.dailyTrades = results
  BY RolledCounters DEF Ask
<1>4. TypeOK' /\ CountersAgree'
  BY <1>1, <1>2, <1>3 DEF Ask, TypeOK, CountersAgree
<1>5. Budget'
  BY <1>2 DEF Ask, Budget
<1>6. StreakSetsCooldown' /\ BreachKills'
  BY <1>2 DEF Ask, StreakSetsCooldown, BreachKills
<1> QED BY <1>4, <1>5, <1>6

\* Opening: can_trade has just seen today's counters and a free slot.
LEMMA OpenPreserves == IInv /\ OpenPosition => IInv'
<1> SUFFICES ASSUME IInv, OpenPosition PROVE IInv'
  OBVIOUS
<1> USE DEF IInv
<1> DEFINE r == ResetDaily(eng, now)
<1>1. Day(now) \in Nat
  BY DayFacts DEF TypeOK
<1>2. /\ r \in Engine /\ r.tradeDate = Day(now)
      /\ r.equity = eng.equity /\ r.peak = eng.peak
      /\ r.losses = eng.losses /\ r.lastLoss = eng.lastLoss
      /\ r.cooldownEnd = eng.cooldownEnd
      /\ r.kill = eng.kill /\ r.positions = eng.positions
  BY ResetDailyFacts DEF TypeOK
<1>3. r.dailyPnl = realised /\ r.dailyTrades = results
  BY RolledCounters
<1>4. /\ ~(realised <= -MaxDailyLoss)
      /\ results < MaxDailyTrades
      /\ eng.positions < MaxPositions
  BY <1>2, <1>3 DEF OpenPosition, CanTrade, DailyLimitHit
<1>5. eng' = [r EXCEPT !.positions = @ + 1]
  BY DEF OpenPosition, RecordPositionOpen
<1> HIDE DEF r
<1>6. /\ eng' \in Engine /\ eng'.tradeDate = Day(now)
      /\ eng'.dailyPnl = realised /\ eng'.dailyTrades = results
      /\ eng'.equity = eng.equity /\ eng'.peak = eng.peak
      /\ eng'.losses = eng.losses /\ eng'.lastLoss = eng.lastLoss
      /\ eng'.cooldownEnd = eng.cooldownEnd
      /\ eng'.kill = eng.kill /\ eng'.positions = eng.positions + 1
  BY <1>2, <1>3, <1>5 DEF Engine
<1>7. TypeOK' /\ CountersAgree'
  BY <1>1, <1>6 DEF OpenPosition, TypeOK, CountersAgree
<1>8. Budget'
  <2>1. eng.positions \in Nat /\ realised \in Int /\ results \in Nat
    BY DEF TypeOK, Engine
  <2>2. WorstLoss * (eng.positions + 1) <= WorstLoss * MaxPositions
    BY <2>1, <1>4, ResultsAssumption, ConfigAssumption
  <2>3. WorstLoss * (eng.positions + 1) \in Nat /\ WorstLoss * MaxPositions \in Nat
    BY <2>1, ResultsAssumption, ConfigAssumption
  <2>4. realised' = realised /\ results' = results
    BY DEF OpenPosition
  <2> QED BY <1>4, <1>6, <2>1, <2>2, <2>3, <2>4, ConfigAssumption DEF Budget
<1>9. StreakSetsCooldown' /\ BreachKills'
  BY <1>6 DEF OpenPosition, StreakSetsCooldown, BreachKills
<1> QED BY <1>7, <1>8, <1>9

\* Closing: the position's worst loss was set aside when it was opened.
LEMMA ClosePreserves ==
    ASSUME IInv, NEW pnl \in Results, ClosePosition(pnl)
    PROVE  IInv'
<1> USE DEF IInv
<1> DEFINE r == ResetDaily(eng, now)
<1>1. /\ pnl \in Int /\ pnl >= -WorstLoss
      /\ eng \in Engine /\ now \in Nat /\ eng.positions > 0
      /\ Day(now) \in Nat
  BY ResultsAssumption, DayFacts DEF TypeOK, ClosePosition
<1>2. r.dailyPnl = realised /\ r.dailyTrades = results
  BY RolledCounters
<1>3. /\ eng' \in Engine
      /\ eng'.tradeDate = Day(now)
      /\ eng'.dailyPnl = realised + pnl
      /\ eng'.dailyTrades = results + 1
      /\ eng'.positions = eng.positions - 1
      /\ eng'.kill = (eng.kill \/ Breached(eng'.equity, eng'.peak))
      /\ pnl < 0 =>
           /\ eng'.losses = eng.losses + 1
           /\ eng'.lastLoss = now
           /\ eng'.losses >= CooldownLosses => eng'.cooldownEnd = now + CooldownLen
      /\ pnl >= 0 =>
           \/ eng'.losses = 0
           \/ /\ eng'.losses = eng.losses /\ eng'.lastLoss = eng.lastLoss
              /\ eng'.cooldownEnd = eng.cooldownEnd
  BY <1>1, <1>2, CloseFacts DEF ClosePosition
<1> HIDE DEF r
<1>4. /\ realised' = realised + pnl /\ results' = results + 1
      /\ now' = now /\ override' = FALSE
  BY DEF ClosePosition
<1>5. TypeOK'
  <2>1. realised' \in Int /\ results' \in Nat
    BY <1>1, <1>4 DEF TypeOK
  <2>2. override' \in BOOLEAN
    BY <1>4, Zenon
  <2> QED BY <1>1, <1>3, <1>4, <2>1, <2>2 DEF TypeOK
<1>6. CountersAgree'
  BY <1>1, <1>3, <1>4 DEF CountersAgree
<1>7. Budget'
  <2>1. /\ eng.positions \in Nat \ {0} /\ realised \in Int /\ results \in Nat
    BY <1>1 DEF TypeOK, Engine
  <2>2. WorstLoss * (eng.positions - 1) = WorstLoss * eng.positions - WorstLoss
    BY <2>1, ResultsAssumption
  <2>3. WorstLoss * eng.positions \in Nat /\ WorstLoss * MaxPositions \in Nat
    BY <2>1, ResultsAssumption, ConfigAssumption
  <2> QED
    BY <1>1, <1>3, <1>4, <2>1, <2>2, <2>3, ResultsAssumption, ConfigAssumption
    DEF Budget
<1>8. StreakSetsCooldown'
  BY <1>1, <1>3, ConfigAssumption DEF StreakSetsCooldown
<1>9. BreachKills'
  BY <1>3, Zenon DEF BreachKills
<1> QED BY <1>5, <1>6, <1>7, <1>8, <1>9

\* The operator's two calls touch the kill, the streak and the cooldown.
LEMMA OperatorPreserves == IInv /\ (OperatorKill \/ OperatorReset) => IInv'
<1> USE DEF IInv
<1>1. ASSUME IInv, OperatorKill PROVE IInv'
  <2>1. eng \in Engine /\ eng' = [eng EXCEPT !.kill = TRUE]
    BY <1>1 DEF OperatorKill, ActivateKillSwitch, TypeOK
  <2>2. /\ eng' \in Engine /\ eng'.tradeDate = eng.tradeDate
        /\ eng'.dailyPnl = eng.dailyPnl /\ eng'.dailyTrades = eng.dailyTrades
        /\ eng'.positions = eng.positions /\ eng'.losses = eng.losses
        /\ eng'.lastLoss = eng.lastLoss /\ eng'.cooldownEnd = eng.cooldownEnd
        /\ eng'.equity = eng.equity /\ eng'.peak = eng.peak
        /\ eng'.kill
    BY <2>1 DEF Engine
  <2>3. UNCHANGED <<now, realised, results, override>>
    BY <1>1 DEF OperatorKill
  <2>4. TypeOK' /\ CountersAgree' /\ Budget'
    BY <1>1, <2>2, <2>3 DEF TypeOK, CountersAgree, Budget
  <2>5. StreakSetsCooldown' /\ BreachKills'
    BY <1>1, <2>2, <2>3 DEF StreakSetsCooldown, BreachKills
  <2> QED BY <2>4, <2>5
<1>2. ASSUME IInv, OperatorReset PROVE IInv'
  <2>1. eng \in Engine
        /\ eng' = [eng EXCEPT !.kill = FALSE, !.losses = 0, !.cooldownEnd = None]
    BY <1>2 DEF OperatorReset, ResetHardKill, TypeOK
  <2>2. /\ eng' \in Engine /\ eng'.tradeDate = eng.tradeDate
        /\ eng'.dailyPnl = eng.dailyPnl /\ eng'.dailyTrades = eng.dailyTrades
        /\ eng'.positions = eng.positions /\ eng'.losses = 0
    BY <2>1 DEF Engine
  <2>3. UNCHANGED <<now, realised, results>> /\ override' = TRUE
    BY <1>2 DEF OperatorReset
  <2>4. override' \in BOOLEAN
    BY <2>3, Zenon
  <2>5. TypeOK' /\ CountersAgree' /\ Budget'
    BY <1>2, <2>2, <2>3, <2>4 DEF TypeOK, CountersAgree, Budget
  <2>6. StreakSetsCooldown'
    BY <1>2, <2>2, <2>3, ConfigAssumption DEF StreakSetsCooldown
  <2>7. BreachKills'
    BY <2>3, Zenon DEF BreachKills
  <2> QED BY <2>5, <2>6, <2>7
<1> QED BY <1>1, <1>2

\* Every step, the stuttering one included, preserves the invariant.
LEMMA StepPreserves == IInv /\ [Next]_vars => IInv'
<1>1. ASSUME IInv, UNCHANGED vars PROVE IInv'
  BY <1>1 DEF IInv, vars, TypeOK, CountersAgree, Budget, StreakSetsCooldown,
              BreachKills
<1> QED
  BY <1>1, TickPreserves, AskPreserves, OpenPreserves, ClosePreserves,
     OperatorPreserves DEF Next

\* The inductive invariant holds throughout: what RiskEngine's methods keep.
THEOREM Invariance == Spec => []IInv
BY InitEstablishes, StepPreserves, PTL DEF Spec

-----------------------------------------------------------------------------
(* What follows for the trader.                                            *)

\* The variables stay in their types under every method of the engine.
THEOREM TypeCorrect == Spec => []TypeOK
BY Invariance, PTL DEF IInv

\* can_trade bounds what a calendar day can lose: by the limit, plus the
\* worst the MaxPositions positions that may already be open can do.
THEOREM LossBoundedEachDay == Spec => []DailyLossBounded
<1>1. IInv => DailyLossBounded
  <2> SUFFICES ASSUME IInv PROVE DailyLossBounded
    OBVIOUS
  <2>1. eng.positions \in Nat /\ realised \in Int
    BY DEF IInv, TypeOK, Engine
  <2>2. WorstLoss * eng.positions \in Nat /\ WorstLoss * MaxPositions \in Nat
        /\ WorstLoss * MaxPositions = MaxPositions * WorstLoss
    BY <2>1, ResultsAssumption, ConfigAssumption
  <2> QED BY <2>1, <2>2, ConfigAssumption DEF IInv, Budget, DailyLossBounded
<1> QED BY <1>1, Invariance, PTL

\* can_trade bounds the number of positions a calendar day can close.
THEOREM TradesBoundedEachDay == Spec => []DailyTradesBounded
<1>1. IInv => DailyTradesBounded
  <2> SUFFICES ASSUME IInv PROVE DailyTradesBounded
    OBVIOUS
  <2>1. eng.positions \in Nat /\ results \in Nat
    BY DEF IInv, TypeOK, Engine
  <2> QED BY <2>1, ConfigAssumption DEF IInv, Budget, DailyTradesBounded
<1> QED BY <1>1, Invariance, PTL

\* record_trade_result leaves no drawdown breach without a hard kill, and
\* only reset_hard_kill lifts it.
THEOREM BreachAlwaysKills == Spec => []BreachKills
BY Invariance, PTL DEF IInv

\* Neither DAILY_LIMIT nor COOLDOWN stops can_trade for good.
THEOREM BlocksAlwaysExpire == Spec => []BlocksExpire
<1>1. IInv => BlocksExpire
  <2> SUFFICES ASSUME IInv, ~eng.kill, eng.positions < MaxPositions
               PROVE  CanTrade(ResetDaily(eng, ResumeTime), ResumeTime)
    BY DEF BlocksExpire
  <2> DEFINE t == ResumeTime
             r == ResetDaily(eng, t)
  <2>1. eng \in Engine /\ now \in Nat /\ Day(now) \in Nat
    BY DayFacts DEF IInv, TypeOK
  <2>2. eng.cooldownEnd \in Int
    BY <2>1 DEF Engine, None
  <2>3. (Day(now) + 1) * DayLen \in Nat
    BY <2>1, ConfigAssumption
  <2>4. t \in Nat /\ t >= (Day(now) + 1) * DayLen /\ t >= eng.cooldownEnd
    BY <2>2, <2>3 DEF ResumeTime, Larger
  <2> HIDE DEF t
  <2>5. Day(t) >= Day(now) + 1
    BY <2>1, <2>4, DayFacts
  <2>6. eng.tradeDate # Day(t)
    <3>1. eng.tradeDate \in Nat /\ eng.tradeDate <= Day(now) /\ Day(t) \in Nat
      BY <2>1, <2>4, DayFacts DEF IInv, CountersAgree, Engine
    <3> QED BY <2>1, <2>5, <3>1
  <2>7. /\ r.dailyPnl = 0 /\ r.dailyTrades = 0 /\ r.positions = eng.positions
        /\ r.losses = eng.losses /\ r.cooldownEnd = eng.cooldownEnd
        /\ r.kill = eng.kill
    BY <2>1, <2>4, <2>6, ResetDailyFacts
  <2>8. ~CoolingDown(r, t)
    BY <2>2, <2>4, <2>7 DEF CoolingDown
  <2>9. ~DailyLimitHit(r)
    BY <2>7, ConfigAssumption DEF DailyLimitHit
  <2> QED BY <2>7, <2>8, <2>9, ConfigAssumption DEF CanTrade, t
<1> QED BY <1>1, Invariance, PTL

\* No position is opened on a killed engine or within the cooldown of the
\* latest loss of a streak.
THEOREM OpeningIsGated == Spec => OpensOnlyWhenAllowed
<1> DEFINE Gated == eng'.positions > eng.positions =>
                      /\ ~eng.kill
                      /\ eng.losses >= CooldownLosses =>
                           now >= eng.lastLoss + CooldownLen
<1>1. ASSUME IInv, Next PROVE Gated
  <2>0. eng \in Engine /\ now \in Nat /\ eng.positions \in Nat
    BY <1>1 DEF IInv, TypeOK, Engine
  <2>1. CASE OpenPosition
    <3> DEFINE r == ResetDaily(eng, now)
    <3>1. /\ r.kill = eng.kill /\ r.losses = eng.losses
          /\ r.cooldownEnd = eng.cooldownEnd
      BY <2>0, ResetDailyFacts
    <3>2. ~r.kill /\ ~CoolingDown(r, now)
      BY <2>1 DEF OpenPosition, CanTrade
    <3> HIDE DEF r
    <3>3. eng.losses >= CooldownLosses => eng.cooldownEnd = eng.lastLoss + CooldownLen
                                          /\ eng.cooldownEnd \in Nat
      BY <1>1, <2>0, ConfigAssumption DEF IInv, StreakSetsCooldown
    <3> QED BY <2>0, <3>1, <3>2, <3>3 DEF CoolingDown, None
  <2>2. CASE Tick
    BY <2>0, <2>2 DEF Tick
  <2>3. CASE Ask
    BY <2>0, <2>3, ResetDailyFacts DEF Ask
  <2>4. ASSUME NEW pnl \in Results, ClosePosition(pnl) PROVE Gated
    <3>1. eng'.positions = eng.positions - 1
      BY <2>0, <2>4, CloseFacts, ResultsAssumption DEF ClosePosition
    <3> QED BY <2>0, <3>1
  <2>5. CASE OperatorKill \/ OperatorReset
    <3>1. eng'.positions = eng.positions
      BY <2>0, <2>5 DEF OperatorKill, OperatorReset, ActivateKillSwitch,
                        ResetHardKill, Engine
    <3> QED BY <2>0, <3>1
  <2> QED BY <1>1, <2>1, <2>2, <2>3, <2>4, <2>5 DEF Next
<1>2. IInv /\ [Next]_vars => [Gated]_vars
  BY <1>1
<1> QED BY <1>2, Invariance, PTL DEF Spec, OpensOnlyWhenAllowed

\* At the daily limit with nothing open, can_trade opens nothing and the
\* loss stands until midnight.
THEOREM DailyLimitLastsItsDay == Spec => DailyLimitLasts
<1> DEFINE Lasts == /\ realised <= -MaxDailyLoss
                    /\ eng.positions = 0
                    /\ Day(now') = Day(now)
                    => realised' <= -MaxDailyLoss /\ eng'.positions = 0
<1>1. ASSUME IInv, Next, realised <= -MaxDailyLoss, eng.positions = 0,
             Day(now') = Day(now)
      PROVE  realised' <= -MaxDailyLoss /\ eng'.positions = 0
  <2>0. eng \in Engine /\ now \in Nat
    BY <1>1 DEF IInv, TypeOK
  <2>1. ~OpenPosition
    <3>1. ResetDaily(eng, now).dailyPnl = realised
      BY <1>1, RolledCounters
    <3> QED BY <1>1, <3>1 DEF OpenPosition, CanTrade, DailyLimitHit
  <2>2. \A pnl \in Results : ~ClosePosition(pnl)
    BY <1>1 DEF ClosePosition
  <2>3. CASE Tick
    BY <1>1, <2>3 DEF Tick, Midnight
  <2>4. CASE Ask
    BY <1>1, <2>0, <2>4, ResetDailyFacts DEF Ask
  <2>5. CASE OperatorKill \/ OperatorReset
    BY <1>1, <2>0, <2>5 DEF OperatorKill, OperatorReset, ActivateKillSwitch,
                            ResetHardKill, Engine
  <2> QED BY <1>1, <2>1, <2>2, <2>3, <2>4, <2>5 DEF Next
<1>2. IInv /\ [Next]_vars => [Lasts]_vars
  BY <1>1
<1> QED BY <1>2, Invariance, PTL DEF Spec, DailyLimitLasts
=============================================================================
