---------------------------- MODULE PaperTrading ----------------------------
(***************************************************************************)
(* AI paper trading: the in-memory PaperTrader                             *)
(* (services/paper_trader/engine.py), its mirror in the trades table       *)
(* (services/paper_trader/persistence.py) and the job that drives both     *)
(* (services/scheduler/jobs.py: ai_paper_trading_job, called by            *)
(* services/scheduler/runner.py: run_once_signal_generation).              *)
(*                                                                         *)
(* The job is one thread, but each database call is an await: there the    *)
(* watchdog may cancel it, an error may end it, the process may die, and   *)
(* candle ingestion may store a new candle.                                *)
(*                                                                         *)
(* One kind of trade stands for all: a LONG with prices as levels, entry   *)
(* 2, stop 1, targets 3 and 4, and two units of quantity, one per target.  *)
(* A level is PctPerLevel percent for one of the two units.                *)
(***************************************************************************)
EXTENDS RiskEngine, Sequences, SequencesExt, FiniteSets

CONSTANTS
    Strategies,     \* the production-eligible strategies
    Bars,           \* the <<low, high>> a candle may have, as levels
    Share,          \* a position's notional, in percent of the engine's equity
    MaxCandle,      \* bound: candles in a behaviour
    MaxTrades,      \* bound: trade ids in a behaviour
    CanAbort,       \* whether a watchdog timeout or an error may end the job
    MaxRestarts,    \* bound: process restarts in a behaviour
    Databases,      \* the databases the project runs on: see Fits
    NoTrade         \* no row with that trade_id

Entry == 2
Stop == 1
Targets == <<3, 4>>
Units == Len(Targets)
PctPerLevel == 1

Ids == 1..MaxTrades
SignalIds == (1..MaxCandle) \X Strategies    \* one signal per candle and strategy

Candle == [n : 0..MaxCandle, low : 1..2, high : 2..4, fires : SUBSET Strategies]

Position ==
    [id : Ids, sig : SignalIds, next : 1..Units, left : 1..Units,
     pnl : Int, notional : Int]

Event ==
    [kind : {"partial_exit", "exit"}, id : Ids, sig : SignalIds,
     units : 1..Units, pnl : Int]

Row ==
    [sig : SignalIds, status : {"OPEN", "PARTIALLY_CLOSED", "CLOSED"},
     exited : Nat, result : SignalIds \cup {<<>>}]

ASSUME PaperAssumption ==
    /\ Bars \subseteq (1..2) \X (2..4)
    /\ Share \in 1..100
    /\ MaxCandle \in Nat /\ MaxTrades \in Nat
    /\ CanAbort \in BOOLEAN /\ MaxRestarts \in Nat
    /\ Databases \subseteq {"postgresql", "sqlite"}
    /\ NoTrade \notin Row

VARIABLES
    database,       \* the database the process is connected to
    candle,         \* the newest closed candle in the candles table
    signals,        \* the signals table: the strategies with a row, per candle
    positions,      \* memory: PaperTrader.positions, in insertion order
    counter,        \* memory: trade_counter
    eng,            \* memory: risk_engine
    equity,         \* memory: PaperTrader.equity
    trades,         \* the trades table, by trade_id
    pc,             \* the job's next await
    bar,            \* the timestamp of the job's last_candle
    events,         \* the job's events still to be mirrored
    todo,           \* the job's signals still to be tried
    restarts        \* restarts so far

memory == <<positions, counter, eng, equity>>
tables == <<database, candle, signals, trades>>
job == <<pc, bar, events, todo, restarts>>
vars == <<database, candle, signals, positions, counter, eng, equity, trades,
          pc, bar, events, todo, restarts>>

NoCandle == [n |-> 0, low |-> 2, high |-> 2, fires |-> {}]

TypeOK ==
    /\ database \in Databases
    /\ candle \in Candle
    /\ bar \in 0..MaxCandle
    /\ signals \in [1..MaxCandle -> SUBSET Strategies]
    /\ positions \in Seq(Position)
    /\ counter \in 0..MaxTrades
    /\ eng \in Engine
    /\ equity \in Int
    /\ trades \in [Ids -> Row \cup {NoTrade}]
    /\ pc \in {"idle", "load", "mirror", "gate", "enrich", "persist"}
    /\ events \in Seq(Event)
    /\ todo \subseteq Strategies
    /\ restarts \in 0..MaxRestarts

Now == candle.n         \* utcnow(), at the grain of candles

Init ==
    /\ database \in Databases
    /\ candle = NoCandle
    /\ signals = [n \in 1..MaxCandle |-> {}]
    /\ positions = <<>> /\ counter = 0
    /\ eng = NewEngine(0) /\ equity = InitialEquity
    /\ trades = [i \in Ids |-> NoTrade]
    /\ pc = "idle" /\ bar = 0 /\ events = <<>> /\ todo = {}
    /\ restarts = 0

-----------------------------------------------------------------------------
(* Candles arrive at any time (candle_ingestion_job runs in its own loop). *)
NewCandle ==
    /\ candle.n < MaxCandle
    /\ \E b \in Bars, fires \in SUBSET Strategies :
          candle' = [n |-> candle.n + 1, low |-> b[1], high |-> b[2], fires |-> fires]
    /\ UNCHANGED <<database, signals, trades, memory, job>>

(* notification_logs.message_type is String(20), signal_alert:<signal_id>  *)
(* is longer: PostgreSQL refuses the row of the first new signal's alert.  *)
AlertRefused == database = "postgresql" /\ candle.fires \ signals[candle.n] # {}

(* The first half of the tick, signal_generation_job: the strategies that  *)
(* fire on the newest candle have a signal row (at most one each), and the *)
(* new ones are alerted.  A refused alert ends the tick.                   *)
GenerateSignals ==
    /\ pc = "idle"
    /\ candle.n > 0
    /\ signals' = [signals EXCEPT ![candle.n] = candle.fires]
    /\ pc' = IF AlertRefused THEN "idle" ELSE "load"
    /\ UNCHANGED <<database, candle, trades, memory, bar, events, todo, restarts>>

Gain(level, units) == (level - Entry) * units * PctPerLevel

Money(p, pct) == (pct * p.notional) \div 100

\* Mutation: the risk engine is not told that the slot is free.
CloseKeepsSlot(acc, p, level) ==
    LET gain == Gain(level, p.left)
    IN  [acc EXCEPT
            !.equity = @ + Money(p, gain),
            !.eng = RecordTradeResult(@, p.pnl + gain, Now),
            !.events = Append(@, [kind |-> "exit", id |-> p.id, sig |-> p.sig,
                                  units |-> p.left, pnl |-> p.pnl + gain])]

\* Mutation: the closed position stays among the open ones.
CloseKeepsPosition(acc, p, level) ==
    [acc EXCEPT
        !.positions = Append(@, p),
        !.eng = RecordPositionClose(RecordTradeResult(@, p.pnl, Now)),
        !.events = Append(@, [kind |-> "exit", id |-> p.id, sig |-> p.sig,
                              units |-> p.left, pnl |-> p.pnl])]

(* _close_remaining: the trade's total, as a percentage of its notional,   *)
(* goes to the risk engine on the real clock.                              *)
CloseRemaining(acc, p, level) ==
    LET gain == Gain(level, p.left)
    IN  [acc EXCEPT
            !.equity = @ + Money(p, gain),
            !.eng = RecordPositionClose(RecordTradeResult(@, p.pnl + gain, Now)),
            !.events = Append(@, [kind |-> "exit", id |-> p.id, sig |-> p.sig,
                                  units |-> p.left, pnl |-> p.pnl + gain])]

(* _partial_exit closes one unit at the target p waits for.                *)
PartialExit(acc, p) ==
    [acc EXCEPT
        !.equity = @ + Money(p, Gain(Targets[p.next], 1)),
        !.events = Append(@, [kind |-> "partial_exit", id |-> p.id, sig |-> p.sig,
                              units |-> 1, pnl |-> Gain(Targets[p.next], 1)])]

AfterPartial(p) ==
    [p EXCEPT !.next = @ + 1, !.left = @ - 1,
              !.pnl = @ + Gain(Targets[p.next], 1)]

Keep(acc, p) == [acc EXCEPT !.positions = Append(@, p)]

StopHit(c) == c.low <= Stop
TargetHit(p, c) == c.high >= Targets[p.next]

\* Mutation: once a target is taken the stop no longer protects the rest.
ManageStopOnlyFirst(acc, p, c) ==
    IF StopHit(c) /\ p.next = 1 THEN CloseRemaining(acc, p, Stop)
    ELSE IF ~TargetHit(p, c) THEN Keep(acc, p)
    ELSE IF p.next = Units THEN CloseRemaining(acc, p, Targets[Units])
    ELSE Keep(PartialExit(acc, p), AfterPartial(p))

(* process_candle's loop body: the stop first, for all that remains; then  *)
(* each target in turn, the last of them for all that remains.             *)
ManageFirst(acc, p, c) ==
    IF StopHit(c) THEN CloseRemaining(acc, p, Stop)
    ELSE IF ~TargetHit(p, c) THEN Keep(acc, p)
    ELSE IF p.next = Units THEN CloseRemaining(acc, p, Targets[Units])
    ELSE LET q == AfterPartial(p)
         IN  IF TargetHit(q, c)
             THEN CloseRemaining(PartialExit(acc, p), q, Targets[Units])
             ELSE Keep(PartialExit(acc, p), q)

(* process_candle over the positions in order: those kept, the engine, the *)
(* equity and the events so far.                                           *)
Unmanaged == [positions |-> <<>>, eng |-> eng, equity |-> equity, events |-> <<>>]

ProcessCandle(c) ==
    LET managed[k \in 0..Len(positions)] ==
            IF k = 0 THEN Unmanaged
            ELSE ManageFirst(managed[k - 1], positions[k], c)
    IN  managed[Len(positions)]

(* The last candle is read; every open position is managed at once.        *)
LoadAndManage ==
    /\ pc = "load"
    /\ LET done == ProcessCandle(candle)
       IN  /\ positions' = done.positions
           /\ eng' = done.eng
           /\ equity' = done.equity
           /\ events' = done.events
           /\ pc' = IF done.events = <<>> THEN "gate" ELSE "mirror"
    /\ bar' = candle.n
    /\ UNCHANGED <<tables, counter, todo, restarts>>

(* What one event changes in its row.                                      *)
Mirrored(row, e) ==
    IF e.kind = "partial_exit"
    THEN [row EXCEPT !.status = "PARTIALLY_CLOSED", !.exited = @ + e.units]
    ELSE [row EXCEPT !.status = "CLOSED", !.exited = @ + e.units, !.result = e.sig]

\* Mutation: the first event ends the loop.
MirrorFirstEvent ==
    /\ pc = "mirror"
    /\ LET e == Head(events)
       IN  trades' = IF trades[e.id] = NoTrade THEN trades
                     ELSE [trades EXCEPT ![e.id] = Mirrored(@, e)]
    /\ events' = <<>>
    /\ pc' = "gate"
    /\ UNCHANGED <<database, candle, signals, memory, bar, todo, restarts>>

\* Mutation: a mirrored event may be mirrored again.
MirrorAgain ==
    /\ pc = "mirror"
    /\ LET e == Head(events)
       IN  trades' = IF trades[e.id] = NoTrade THEN trades
                     ELSE [trades EXCEPT ![e.id] = Mirrored(@, e)]
    /\ \/ events' = events /\ pc' = "mirror"
       \/ events' = Tail(events) /\ pc' = "gate"
    /\ UNCHANGED <<database, candle, signals, memory, bar, todo, restarts>>

(* Trade.status is String(10) and "PARTIALLY_CLOSED" has 16 characters:    *)
(* PostgreSQL refuses the row, SQLite, which the tests use, takes it.      *)
Fits(e) == database = "sqlite" \/ e.kind = "exit"

(* persist_paper_event, one event and one commit at a time.  A missing row *)
(* is skipped.                                                             *)
MirrorEvent ==
    /\ pc = "mirror"
    /\ LET e == Head(events)
       IN  IF trades[e.id] = NoTrade THEN UNCHANGED trades
           ELSE Fits(e) /\ trades' = [trades EXCEPT ![e.id] = Mirrored(@, e)]
    /\ events' = Tail(events)
    /\ pc' = IF Tail(events) = <<>> THEN "gate" ELSE "mirror"
    /\ UNCHANGED <<database, candle, signals, memory, bar, todo, restarts>>

(* ... and a status the column refuses is an exception, which ends the job. *)
MirrorRefused ==
    /\ pc = "mirror"
    /\ trades[Head(events).id] # NoTrade
    /\ ~Fits(Head(events))
    /\ events' = <<>>
    /\ pc' = "idle"
    /\ UNCHANGED <<tables, memory, bar, todo, restarts>>

(* evaluate_model_health may refuse new positions; otherwise every signal  *)
(* of the last candle is selected, new this tick or not.                   *)
ModelGate ==
    /\ pc = "gate"
    /\ \/ /\ pc' = "idle"
          /\ UNCHANGED todo
       \/ /\ todo' = signals[bar]
          /\ pc' = IF signals[bar] = {} THEN "idle" ELSE "enrich"
    /\ UNCHANGED <<tables, memory, bar, events, restarts>>

NextPc(rest) == IF rest = {} THEN "idle" ELSE "enrich"

(* open_position, after the await that enriches the signal.                *)
OpenPosition(s) ==
    /\ CanTrade(ResetDaily(eng, Now), Now)
    /\ counter < MaxTrades
    /\ counter' = counter + 1
    /\ positions' = Append(positions,
           [id |-> counter + 1, sig |-> <<bar, s>>, next |-> 1, left |-> Units,
            pnl |-> 0, notional |-> (eng.equity * Share) \div 100])
    /\ eng' = RecordPositionOpen(ResetDaily(eng, Now))
    /\ pc' = "persist"
    /\ UNCHANGED todo

RefusePosition(s) ==
    /\ ~CanTrade(ResetDaily(eng, Now), Now)
    /\ eng' = ResetDaily(eng, Now)
    /\ todo' = todo \ {s}
    /\ pc' = NextPc(todo \ {s})
    /\ UNCHANGED <<counter, positions>>

TrySignal ==
    /\ pc = "enrich"
    /\ \E s \in todo : OpenPosition(s) \/ RefusePosition(s)
    /\ UNCHANGED <<tables, equity, bar, events, restarts>>

(* persist_paper_open: an INSERT, which an existing trade_id refuses; the  *)
(* exception ends the job.                                                 *)
PersistOpen ==
    /\ pc = "persist"
    /\ LET p == Last(positions)
       IN  \/ /\ trades[p.id] = NoTrade
              /\ trades' = [trades EXCEPT ![p.id] =
                    [sig |-> p.sig, status |-> "OPEN", exited |-> 0, result |-> <<>>]]
              /\ todo' = todo \ {p.sig[2]}
              /\ pc' = NextPc(todo \ {p.sig[2]})
           \/ /\ trades[p.id] # NoTrade
              /\ todo' = {}
              /\ pc' = "idle"
              /\ UNCHANGED trades
    /\ UNCHANGED <<database, candle, signals, memory, bar, events, restarts>>

(* The watchdog cancels the job, or an await of it raises.                 *)
Abort ==
    /\ CanAbort
    /\ pc # "idle"
    /\ pc' = "idle" /\ events' = <<>> /\ todo' = {}
    /\ UNCHANGED <<tables, memory, bar, restarts>>

Restart ==
    /\ restarts < MaxRestarts
    /\ restarts' = restarts + 1
    /\ positions' = <<>> /\ counter' = 0
    /\ eng' = NewEngine(Now) /\ equity' = InitialEquity
    /\ pc' = "idle" /\ bar' = 0 /\ events' = <<>> /\ todo' = {}
    /\ UNCHANGED tables

JobStep ==
    \/ GenerateSignals
    \/ LoadAndManage
    \/ MirrorEvent
    \/ MirrorRefused
    \/ ModelGate
    \/ TrySignal
    \/ PersistOpen

Next == NewCandle \/ JobStep \/ Abort \/ Restart

Spec == Init /\ [][Next]_vars

(* The scheduler's loop never stops calling the job, and each await of the *)
(* job that is not aborted returns.                                        *)
FairSpec == Spec /\ WF_vars(JobStep)

-----------------------------------------------------------------------------
OpenIds == {positions[i].id : i \in DOMAIN positions}
Durable(i) == trades[i] # NoTrade
Live(i) == Durable(i) /\ trades[i].status # "CLOSED"

(* Between two ticks the trades table and the paper trader's memory hold   *)
(* the same open trades, for the same signals and the same quantities      *)
(* (live_state.py: "every open/partial-exit/close event is mirrored").     *)
MirrorAgrees ==
    pc \in {"idle", "load"} =>
        /\ \A i \in Ids : Live(i) <=> i \in OpenIds
        /\ \A k \in DOMAIN positions :
              LET p == positions[k]
              IN  /\ trades[p.id].sig = p.sig
                  /\ trades[p.id].exited = Units - p.left

(* Until a restart, the table may lag behind memory and never runs ahead   *)
(* of it: what it shows as exited has left the position, and a trade it    *)
(* shows as closed is not open, whatever is aborted.                       *)
TableNeverAhead ==
    restarts = 0 => \A k \in DOMAIN positions :
        LET p == positions[k]
        IN  Durable(p.id) => /\ trades[p.id].exited <= Units - p.left
                             /\ trades[p.id].status # "CLOSED"

(* Until a restart, a row's status only moves forward, its exits never     *)
(* exceed its quantity, and a closed row is final (persist_paper_event is  *)
(* called once per event, in the order of the events).                     *)
RowsMoveForward ==
    [][restarts = 0 => \A i \in Ids : Durable(i) =>
          /\ Durable(i)'
          /\ trades'[i].exited <= Units
          /\ trades[i].status = "CLOSED" => trades'[i] = trades[i]
          /\ trades[i].status = "PARTIALLY_CLOSED" => trades'[i].status # "OPEN"]_vars

(* positions_open is the number of open positions, and it is within the    *)
(* limit, across aborts and restarts (open_position and _close_remaining   *)
(* change the two together, between awaits).                               *)
SlotsAgree ==
    /\ eng.positions = Len(positions)
    /\ eng.positions <= MaxPositions

(* A trade whose stop the newest candle has reached is closed in the       *)
(* table, unless another candle comes first.                               *)
StopsAreExecuted ==
    \A i \in Ids, n \in 1..MaxCandle :
        (Live(i) /\ candle.n = n /\ StopHit(candle))
            ~> (~Live(i) \/ candle.n # n)
=============================================================================
