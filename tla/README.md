# AlphaOne AI in TLA+

TLA+ models of the parts of AlphaOne AI that decide about trades, the TLC
runs that check them on small instances, and theorems about them that TLAPS
checks for every value of the constants. Source paths are relative to `src/`.

AlphaOne is one Python process: a FastAPI application that also runs the
scheduler, the Telegram bot and the market-data sockets on one event loop, over
one database (PostgreSQL in production, SQLite in the tests). Nothing runs in
parallel, but every database or network call is an `await`, and at an `await`
any other coroutine may run, the scheduler's watchdog may cancel the one that
waits, the call may raise, and the process may die. The modules below make
each such `await` a step of its own and everything between two of them one
atomic step.

## 1. Inventory

| Component | State | Operations | Talks to | What is hard | What makes it correct |
|---|---|---|---|---|---|
| Risk engine, `services/risk_engine/engine.py` | day, daily P&L and count, equity, peak, loss streak, cooldown, hard kill, open positions | `can_trade`, `record_trade_result`, `record_position_open/close`, `reset_daily`, kill and reset | called by paper trader, backtester, state store | daily counters that belong to the day of the last call; limits asked before opening, counted after closing | budget, cooldown and kill hold as long as they should, no longer, and cannot be passed |
| Risk state store, `risk_engine/state_store.py`, `apps/api/routers/journal.py`, `risk.py` | one `bot_state` row holding a whole engine | load, one method, save; exit and reset requests | journal, risk engine | read-modify-write over several awaits without a lock; trade committed before its result is fed; user-supplied times | every close counted once, no result twice |
| AI paper trading, `services/paper_trader/*`, `scheduler/jobs.py` | positions, counter, engine and equity in memory; `signals`, `candles`, `trades` in the database | manage on a candle, open on a signal, mirror events | risk engine, scheduler, signal generation | memory changes before rows do; watchdog, errors, restart | table never ahead of memory, slots agree, stops executed |
| Live execution, `services/live_execution/*` | `live_executions`, the emergency stop | `process_live_execution_candidate`, activate and clear the stop | wiring, gates, order client | concurrent workers, retries, a worker that dies, a stop set in the middle | one record per candidate, at most one submission, never unverified, the stop stops |
| External Telegram signals, `services/telegram_signals/*`, `risk_engine/fixed_margin.py` | messages, parsed signals, Telegram paper trades | ingest, parse, offer to live, check budget, open | bot and MTProto listener, live execution, journal | duplicates, edits out of order, two transports, count-then-insert, midnight | edits forward, budget and one trade per symbol up to the deliveries in flight |
| Trade journal and CoinDCX sync, `services/trade_journal/*`, `exchange/coindcx_sync.py` | `trades`, `trade_executions`, `sync_events` | entry, exit, cancel; create, update, close from the exchange | journal router, scheduler, risk state store | two exits of one trade, exit against cancel, a commit in the middle of a sync, an HTTP error answered by the empty list | never more exited than open; P&L is that of the executions; one open row per position |
| Scheduler, `services/scheduler/runner.py`, `circuit_breaker.py` | a breaker per job, heartbeat | one loop per job, watchdog, nested AI job | every job | cancellation bypasses the breaker; a loop that dies | loops keep ticking, backoffs are kept, breakers close again |
| Live market data, `services/market_data/coindcx_ws.py`, `live_state.py` | connection, last tick, last notified status, ping task | connect, disconnect, tick, freshness | sockets, bot | callbacks that await in the middle of a transition | alerts alternate, one ping loop, a server that stays up is found |
| Candle ingestion, `services/market_data/ingestion.py`, `binance.py` | `candles` | plan, page, upsert | scheduler, scripts | two ingesters, aborted fills, the forming candle | nothing missing that no plan left out |
| Signal generation, `services/signal_engine/multi_strategy_engine.py`, `live_signal.py`, `live_breakout.py` | `signals` | evaluate, deduplicate, insert, alert | ingestion, bot, paper trading | check-then-insert on two paths; alert after commit | one signal per strategy and candle, one alert per signal |
| Position monitor, `services/position_monitor/monitor.py` | `notification_log` | find breaches, deduplicate, commit, send | scheduler, request, bot | recorded before sent, check-then-insert | each breach alerted once, none forgotten |
| Backtester, signal outcomes, labels | bars replayed, trades, equity | one bar | strategies, risk engine | the order of funding, fill, exit within a bar; three loops for one question | the three agree; each funding event paid once |
| Strategies, regimes, features, parser, sizing, matching, parameter selection, reconciliation, data quality, portfolio, model monitor | none of their own | read and compute | tables | edges: bands behind the entry, rounding, a join that reads the future, a row counted twice | levels on their sides, no look-ahead, twins agree, the choice is the best, a report says what is there |
| AI orchestrator, exchange clients, bot commands, scanner, read-only routers, schema, `ml/` training, `apps/web` | none, or caches | read, format, send | | numbers and I/O, not order | see 6 |

`PROJECT.json` lists every component with its status and every hazard at the
line where it bites.

## 2. Modules

    RiskEngine ---- RiskTrading ------- RiskTradingProofs
        |   \------ RiskStateStore ---- RiskStateStoreProofs
        \---------- PaperTrading ------ PaperTradingProofs
    ExecutionLedger <== LiveExecution ---- LiveExecutionProofs
        \--------- ExternalSignals ---------------\
    CandleIngestion -- SignalPipeline ------------- SignalProofs
    TradeJournal --- TradeJournalProofs
    Scheduler, MarketFeed, PositionMonitor -------- SchedulerProofs
    Backtest, Strategies, Features, Indicators, Decisions, Reports -- Research
                                                        \-- ResearchProofs

(single lines: EXTENDS or INSTANCE; `<==`: is implemented by)

**RiskEngine** is `class RiskEngine` as a value: a record per engine, an
operator per method. Instants are natural numbers, `DayLen` of them to a UTC
day; percentages and equity are integers. `validate_trade` and
`calculate_position_size` keep no state and are left out.

**RiskTrading** is one engine and the trader that owns it. `OpenPosition` asks
`can_trade` first, `ClosePosition` reports a result and frees the slot as
`PaperTrader._close_remaining` does, `Ask` is any call that only reads (and
still rolls the day), the operator may kill and reset at any time. The history
variables `realised` and `results` say what was lost and closed since midnight
by the clock, independently of the engine's own counters.

**RiskStateStore** is the engine the dashboard shows. A request is a sequence
of awaits: the exit endpoint commits the trade (`CloseTrade`), loads the row
into an engine of its own and applies `record_trade_result` (`LoadForExit`),
reads the row again in `save_risk_engine` (`CheckRow`) and writes the whole
engine back (`Write`). The second read finds what is committed by then --
`load_risk_engine` keeps no reference to the row and SQLAlchemy's identity map is
weak -- and decides whether an UPDATE is sent: one that changes nothing is not. `disorder` records what kept the requests of a behaviour from being
transactions: overlap, a crash, an exit time in the past.

**PaperTrading** is the tick `run_once_signal_generation`: signal rows, then
`ai_paper_trading_job`, which manages every open position against the last
candle in memory (`LoadAndManage`), mirrors the resulting events one commit at
a time (`MirrorEvent`, `MirrorRefused`), may be told by the model monitor to
open nothing (`ModelGate`), and opens a position per signal in memory
(`TrySignal`) before it inserts its row (`PersistOpen`). `Abort` is a watchdog
timeout or an error at any await, `Restart` the end of the process. One LONG
with two targets and two units of quantity stands for every trade: SHORT is
its mirror image, and with two targets both the slice and the final exit
occur. Database types matter twice: `Trade.status` is `String(10)` (`Fits`), and
the log row of an alert does not fit `String(20)`, so on PostgreSQL a tick that
persists a new signal ends at its alert and the paper job waits for the next
one (`AlertRefused`).

**ExecutionLedger** is what `executor.py` promises, one variable per promise:
one record per idempotency key, one call of the order client at most, a
rejection that stays. **LiveExecution** is the code: each worker's awaits in
`process_live_execution_candidate`, the emergency stop read by the gate, the
order client that always raises, a failure at any await. It implements
ExecutionLedger under the mapping `Fate` (no row is absent, REJECTED is
rejected, every other status pending).

**ExternalSignals** is a delivery's way through
`process_incoming_channel_message`, composed with the ledger: `OfferLive`,
`AttemptLive` and `RejectLive` are ledger steps whose keys are the deliveries,
because `idempotency_key` is computed from the id of the signal a delivery
makes. Around it run the AI job, which spends the same daily budget without
asking for it, the operator, who closes trades through the journal, and the
clock. Prices and parsing are one verdict here; the parser is in Decisions.

**TradeJournal** is the journal, the requests that drive it and the account
sync that fills it from the exchange, whose user buys and sells behind its
back. `record_exit` is three awaits (`ExitRead`, `ExitSum`, `ExitWrite`), a
cancellation two, a sync one per call: `SyncFetch` (an HTTP error is the empty
list), `SyncRead`, `SyncLookup` per vanished position, which may go through
the same `ExitSum` and `ExitWrite`, and so commits the sync's session in the
middle, and `SyncCommit`. Two syncs may overlap, the scheduler's and one that
`POST /accounts/sync` asks for. `raced` records which rows were written from
an outdated read, `crossed` which positions one sync created a row for while
another had found them without one. `Refused` is a row whose exit `record_exit`
turns down: part of it has been exited, and the sync asks for all the fills. A unit of quantity earns a unit of P&L, so
P&L can be compared with what was exited.

**Scheduler** has a loop per job with its sleep, its tick under the watchdog,
its circuit breaker and its `finally`; the AI job runs inside the signal job's
tick behind a breaker of its own (`Nest`, `Unnest`). Time is counted down.
`Weather` lets calls raise or hang and stop doing so. A tick that the watchdog
cancels still has to close its client, and `wait_for` waits for it without a
limit: such a loop is `closing`, and in `overdue` until its next tick. The
database session, which every tick closes as well, is assumed to close.

**MarketFeed** is the public socket: the supervisor of the first connection,
the library's own reconnection after it, the connect and disconnect handlers
as tasks of their own (`Join`, `Notify`, `Callback`), the ping loops, and the
age of the last message and of the last traded price.

**CandleIngestion** plans a fill from the oldest and newest candle stored,
stores page after page and stops at the forming candle. **SignalPipeline**
adds the paths that turn candles into signals: `Load`, `Ask` (the dedup
question), `Insert`, `Notify`, each an await. An alert is `sent`, or `missed` when
`_send` has swallowed what Telegram raised; `logged` counts the rows that say
"sent" of either, and `NotifyFails` is an alert whose row is not written.
`excused` collects the candles a plan leaves out, `raced` the signals that two paths
both found missing before either inserted.

**PositionMonitor** is `check_positions` by the scheduler's loop and by
requests: `StartCheck` reads the price, `Read` the trades, `Ask` the notification
log once per breach, `Commit` inserts, `Send` calls Telegram. `RowRefused` is the
flush of a row that PostgreSQL does not take.

**Backtest** replays bars: `Step` is one iteration of `Backtester.run` (fill,
funding, exit, next signal), `EndOfData` its end; `Resolve` is the outcome
evaluator and `Label` the triple-barrier label on the same bars, `Compiled` what the
result says of its trades and curve. **Strategies**
has a rule per strategy (what it reads of two bars, the side, the levels);
**Features** the two regime detectors, swings, joins of daily trend, funding and
liquidations, splits and folds; **Indicators** which rows an average, a
movement or a VWAP reads, and the recursive bands of the Supertrend; **Decisions** sizing, the message parser, the
structure gate, matching, parameter selection, reconciliation and gaps;
**Reports** the model's health, the views of account and signals, row labels.
**Research** asks each of these functions one question per behaviour, all
questions of bounded sets (MCResearch), while Backtest takes steps. To a rule,
indicator values are inputs: it is checked for every combination of them that
two bars can show.

MC modules only give values: sets of results, candles, messages and views, and
symmetry over requests, strategies, deliveries and symbols, none of which is
compared by anything but equality in any module or property used with it.

## 3. Runs

| Run | Instance | Shows |
|---|---|---|
| `risk` | 2 slots, 2 trades a day, streak of 2, results -3..2, 6 instants in days of 3 | `DailyLossBounded`, `DailyTradesBounded`: what a day can lose or close beyond its limit is what was already open. `BreachKills`: a breach is never without a kill unless an operator reset it since. `BlocksExpire`: no automatic block needs a human. `DailyLimitLasts`: a used-up day stays used up until midnight. |
| `store` | 3 exits, 1 reset, 2 in flight, exits up to an instant back, crashes | `NeverOvercounts`: the day's count is at most the exits of the day, whatever happens; `EveryCloseCounted`: it is exactly those, at every moment, as long as requests come one at a time |
| `paper_steady` | SQLite, 1 slot, 1 strategy, 3 candles, 2 trades | `MirrorAgrees` between ticks; `StopsAreExecuted`: a stop the newest candle reaches is executed and its row closed |
| `paper_faults` | both databases, 2 slots, 2 strategies, 2 candles, aborts, 1 restart | `TableNeverAhead`, `RowsMoveForward`: an aborted tick loses rows' updates but never invents one; `SlotsAgree` throughout |
| `live` | 2 workers, 2 keys, contract verified or not, stop toggled | `LedgerSpec`, `StopDrains`, and under fairness `EveryRowDecided` |
| `external` | 3 deliveries of one message, edits 0..2, 2 in flight, 2 symbols, 2 days, 1 AI trade | `DailyEntriesBounded`, `OpenTradesBounded`: the excess over the budget, and over one trade per symbol, is bounded by the deliveries in flight; `EditsMoveForward` |
| `journal` | an INR-margined instrument, 2 requests, 2 syncs, quantities up to 2, 2 days, 3 moves of the environment | `ClosedIsSoldOut` always; `BooksAgree`: only a lost race spoils the books; `OneOpenRowPerPosition` through aborted and overlapping syncs, but for positions in `crossed`; under fairness `VanishedIsNoticed`, but for rows partly exited before |
| `scheduler` | 2 loops and the nested job, threshold 2, backoffs 1..3 | `HeartbeatTells` that a loop is dead or in a `close()` that outlasted the watchdog, and only that; `BackoffKept`; under fairness `Recovers` |
| `market` | 2 handler tasks, 3 drops | `AlertsAlternate` as long as handlers do not overlap; under fairness `FeedConnects` |
| `signals` | 4 candles, the signals of one of them followed, job and script, pages of 1, lookback 1, 2 strategies, closed and live path, both databases, 1 fault | `HolesAreExcused`, `OneSignalPerCandle` up to the race of the two paths, `AlertedOnce`: offered at most once, logged unless cut short or refused; under fairness `CandlesArrive` |
| `position` | a LONG and a SHORT, 3 prices, the loop and a request, both databases, 1 fault | `OneAlertPerBreach` up to the race; under fairness `BreachesAreReported`, or refused |
| `research` | 7 kinds of bar, 4 bars, funding on and between bars; every view of 31 rules; messages, orders, positions, series, trades, outcomes, histories of up to 4; bars and widths for the Supertrend, rows of two days for the VWAP | `ReplaysAgree`, `FundingIsExact`, `LevelsOrdered`, `NoLookahead`, `TwinsAgree`, `ChoicesAreBest`, `ReportsAreTrue` |

Bounds are small because the interesting cases are: two slots already let a
day overrun its limit; two requests already lose an update; two trades, the
second after the first's slot is free, already reuse an id; two workers race
for a key and a third adds nothing the proofs do not cover; three deliveries of
one message give every order of a post and two edits, and three trades a day
are one more than a single delivery at a time allows with a budget of one. Two
requests and two syncs are every pair of writers of a trade row; three moves
buy, sell and exit (or cancel, or end a sync). Backoffs double and reach their maximum with two failures
past the threshold. Three drops leave a connection after an overlap; pages of
one candle put an abort between any two. Four bars are enough for a signal, a
fill, a funding event and an exit with one bar to spare, so a horizon of two
can end before, with and after the trade.
Where `CHECK_DEADLOCK` is off the system may stop: all requests answered, all
deliveries handled, the last candle or bar of the bound reached.

`crowd` in ExternalSignals, `disorder` in RiskStateStore, `raced`, `crossed`,
`overlap`, `lost` and `excused` elsewhere are history variables: they let one run state
what holds when requests come one at a time and what still holds when they do
not, instead of excluding the second case.

**Fairness.** `paper_steady` assumes weak fairness of the job's steps: the
scheduler's loop never stops ticking, and an await that is not aborted returns.
It does not assume that the job runs between two candles, so `StopsAreExecuted`
excuses a stop that another candle overtook (`process_candle` sees only the
last one). `live` assumes that each worker's next step, when its await has
returned, is taken by the event loop; `journal`, `scheduler`, `market`,
`signals` and `position` assume the same of the loops that `runner.py` starts
and of what they await, and that timers run out. Requests, operators, orders,
prices, failures and the exchange are never assumed to act or not to act:
`Recovers` and `FeedConnects` are conditional on an exchange that answers again.

Each property of a passing run has a mutant in `PROJECT.json`: a named variant of
a modelled operation, next to it in its module (comment "Mutation"), under
which the property fails.

## 4. Theorems

A component's theorems are in a module of its own; SignalProofs has both sources
of signals, SchedulerProofs the three services that run as long as the process,
ResearchProofs everything that is computed from data.

**RiskTradingProofs**, for every configuration, set of results and day length.
The properties are not inductive: they speak of the day by the clock, the engine
of the day of its last call. `IInv` adds `CountersAgree` (the engine's counters are
today's once its day is today, and nothing has closed today before that),
`Budget` (what the open positions may still lose and count is set aside when
they are opened, so a close only spends what was reserved) and
`StreakSetsCooldown` (a running streak fixes the cooldown's end). Then
`LossBoundedEachDay`, `TradesBoundedEachDay`, `BreachAlwaysKills`,
`BlocksAlwaysExpire`, `OpeningIsGated`, `DailyLimitLastsItsDay` follow.
Assumed of the constants: lengths and limits are positive, no result is below
`-WorstLoss`.

**LiveExecutionProofs**, for every set of workers and keys and either value of
the contract flag. `IInv` says that a row past its INSERT has at most one
owner (`OneOwner`), whose stage fixes its status (`RowFollowsOwner`), that calls
are only made for attempted rows (`CallsFollowRow`), that approval implies
verification, and that a worker that attempted under the stop has no older
reading of it (`LateHasReread`). From it, `StopAlwaysDrains`, and
`ImplementsLedger`: initial states map to initial states, and every step is a
ledger step of one key or changes no fate. `OneOwner` is what the unique index
gives; without it (mutant `InsertNotUnique`) a second worker takes a row back
from REJECTED.

**SchedulerProofs**, for every set of loops, interval, watchdog, threshold and
backoff. `HeartbeatTells` follows from `OnSchedule`: the age of a heartbeat and
what is left of the sleep or of the watchdog never add up to more than an
interval and the watchdog's time, wherever the loop stands, unless its last tick
went on after the watchdog, which only a loop that closes a client does. `BackoffKept`
follows from `Breakers` (a breaker at its threshold is not closed, one on trial
has no wait left) and `OnlyTickCalls`: a job's call begins in a step that has
asked its breaker. Mutant `TimeOutAndWait` breaks the first, `CanAttemptAnytime`
the second. For the feed, with any number of handler tasks and drops,
`AlertsTakeTurns`: that the list of alerts alternates is not inductive, since an
alert is sent after awaits. `InTurn` says what a handler has read still holds
when it acts on it, `Alternating` that the status notified last gives the parity
of the list; both only `~overlap`, as the property. For the monitor
`BreachReportedOnce`: what `OneAlertPerBreach` says of one key (`Alerts`) counts the
checks that are about to write or send with the rows; with `Refusals` (PostgreSQL
refuses, and has no row) and the types it is inductive.

**RiskStateStoreProofs**, for every set of requests, any number of them in
flight, any backdating and every configuration. Two invariants. `IInv`: neither
the row nor a copy that a request holds knows of more exits of its day than
were answered for, the request's own included (`RowUndercounts`,
`EngineUndercounts`); it gives `CountNeverExceeds`. A copy may be one ahead of
the answers, so the property of the row alone is not inductive. `Orderly`: with
`disorder` empty the row knows of every exit, there is one request in flight,
and it still sees the row it loaded; it gives `CountIsExact`. Both properties
turned out stronger than the runs had stated them: the count is bounded by the
exits of the day, not by all exits, and is exact between the awaits too.

**PaperTradingProofs**, for every set of strategies and bars, every limit, both
databases, aborts and restarts. The tick changes all positions before the first
event reaches its row, so nothing said of rows and positions alone survives a
step. `Books` says it of rows, positions and pending events together: of a
trade at most one partial exit and then its exit is pending, of units the row
still has (`Pending`), a row lags behind its position by just those (`Lagging`),
and no row is of a trade to come (`Past`). `ProcessCandle` loops over the
positions; lemma `Turn` shows that one turn preserves `Books` of the positions
managed, those not yet managed and the events so far, and the loop is an
induction over the positions. Then `SlotsAreCounted`, `TableLagsMemory` and
`RowsOnlyMoveForward`. `MirrorIsExact` needs the converse as well (`Agreed`:
nothing else differs), which is true while nothing fails. Failures are
constants of the model, so it reads `Faultless => MirrorAgrees`, with exactly the
constants of run `paper_steady`; without that hypothesis it is false, as
PostgreSQL alone shows. Before a restart `restarts = 0` is part of the properties
and of `Books`: afterwards ids are handed out again.

**SignalProofs**. Ingestion, for every lookback, page size, set of scripts and
number of candles and faults: `HolesAreLeftOut`. A fill in progress is a promise:
between the first stored candle and where a range stands, everything is stored
or excused (`Passed`), whatever the other ingester stores meanwhile. `NoHole`
and `Passed` of every planned range are inductive together. The proof
corrected `Excuses`, the candles a plan leaves out for good: with and without
rows in the table they are not the same. Signals, for every set of paths, registry and baseline: `OneSignal` and
`SignalsAlertedOnce`. `Asked` says that only the closed-candle path looks for
another strategy than the baseline; `Counted` that the rows of a signal and the
paths that have found none and are about to insert (`Asking`) are one together,
unless two of them overlapped, which happens to the baseline only; `Accounted`
that every row is logged, held by the path that inserted it, or lost, and that
those held have not been offered to Telegram.

External signals, for every set of deliveries, messages and symbols,
every budget. A check passed is a promise of a row some awaits later, so the
rows that a property counts are not inductive: the invariant counts the promises
with them. `Bidders` are the open trades of a symbol and the deliveries that found
none, `Spenders` a day's entries and the deliveries let past the budget, `Runners`
a day's entries and every delivery with a signal of it, for days gone by, when
nobody parses such a signal any more. All of them were in flight together, hence
`OpenTradesAreBounded` (by `crowd`) and `DailyEntriesAreBounded` (by the budget plus
two `crowd`s, one on each side of midnight). `EditsOnlyMoveForward` needs
`EditIsNewer`: the delivery that found its message still compares with what is
stored. `UsesLedger`: seen through `OfferLive`, `AttemptLive` and `RejectLive`,
the pipeline is an ExecutionLedger.

**TradeJournalProofs**, for every set of instruments, requests and syncs, every
quantity. `IInv` says of each job what it knows of the row it will write, which
holds as long as no other job has written it (`Knows`, `Remembers`, for the rows
a sync has yet to close); what it holds even of an outdated row (`At`: it never
exits more than it thinks is left, and thinks no less exited than was, which
is all `ClosedIsSoldOut` needs); and that of two jobs about to feed a trade one is out
of date (`OneFeeds`). From it `ClosedMeansSoldOut` and `BooksAreRight`.
`OneRowPerPosition` needs a second invariant, `Tracked`: what a sync is about
to create has no open row, unless a race was lost or two syncs had found that.

**ResearchProofs**, for all candles, prices, bands, widths, instruments, tables
and lengths of series. The replay is the only part that takes steps. `ReplayInv`
says what holds after n bars of the pending signal, of the open trade (it has paid the
events since its fill, and no bar since its signal has touched a level) and of
every closed one (its last bar is the first that touched one, or the last of the
data). From it `EachEventPaidOnce` (`FundingIsExact`) and, comparing the trade's
exit with the first touch in the evaluator's and the label's windows,
`ReplaysSayTheSame` (`ReplaysAgree`). `LabelAgrees` needs `Worthwhile`: below the
minimum reward to risk every label is NO_TRADE, whatever the trade did.
`BalanceInv` says that the equity is what the closed trades have earned, and that
the curve traces the balances of their prefixes: in order, none left out, from the
first on. It is what makes the drawdown of the curve the deepest fall between any
two balances (`FallsAreTraced`), whatever bars passed between two exits.

A behaviour that asks another question takes no step, and `Posed` says what the
callers can ask: types, a positive price and step, bands in order or a close on
the middle one, a nonempty series. `ResearchAssumption` has TLC check it of the
instance's questions. What is left is a lemma per operator. `LevelsInOrder`: each
table of levels gives ordered ones; a Supertrend row supports the price unless
the bar is taller than the bands are wide (`RowSupports`; the rows are the one
solution of their recursion, `SupertrendIsRows`). `NothingIsForeseen`: swings, fractals, averages and Supertrend rows of a prefix
are those of the series; days, readings and regimes joined to a bar are over; no
label of a part or fold reads a row of a later one (`SplitPurged`, `FoldsPurged`
and the loader's, by `EmbargoPurges`: a label reads up to `horizon + 1` rows
ahead), and the folds out of sample are apart and leave out none. `ChosenIsBest`:
sizing, matching, selection. `ReportsCanBeTrusted`: without mismatches, what one
side holds the other holds, with the same side and, where both know it, quantity,
except rows that a later one of their symbol hides; of several candles, gaps and
rows add up to the expected count, and a single one is never covered; a higher P&L
never worsens the model's health, neither by its profit factor nor by a
drawdown. `TwinsSayTheSame`: both detectors name a regime alike, a row has a reason
if and only if it is no candle, the session's VWAP is a difference of two running
ones, totals, curve and breakdown of the account count the same trades, taken and
missed signals are all there were, and a replay's result is what its trades give
(`ResultIsSane`). Sums are folds over sets of indices; lemmas `FoldExists`, `FoldSums`
and `SubsetInduction` show that the order does not matter, `SumOfBoth` and `SumByKey`
that a set may be split, in two or by a key.

Three attempts failed for a good reason. `ChoicesAreBest` said that a refused
order has no tradeable quantity nearer than the two it tries; it is false where
the grid stops before the one below the target, and the run's orders now
include such a grid. Two CASEs of Backtest had arms that overlapped, where TLA+
leaves open which is taken. And the profit factor and the account's tables were computed with SelectSeq,
which is built into the prover without rules; they now sum positive parts, or over
the set of the rows that count.

`TypeOK` is proved of RiskTrading, RiskStateStore, PaperTrading, LiveExecution,
ExternalSignals and TradeJournal (`TypeCorrect`), and is in none of their runs; the
types of the other modules are conjuncts of their invariants. Assumed of the constants is only what the modules'
ASSUMEs say: numbers are numbers, sets of requests, syncs and exits do not
meet, `Instruments` is finite, "no row" is not a row.

Where a model loops over data (`ProcessCandle` over positions, `Filled` over the
exchange's fills, the rows of the Supertrend) it is a recursive function, and what it computes is proved by
induction: the library's induction theorems take operators, but that the subsets of a finite
set are well-founded does not, and lemmas `Smallest` and `SetInduction` derive
induction over sets of numbers from it.

Model-checked only: liveness, which TLAPS does not support
(`StopsAreExecuted`, `EveryRowDecided`, `VanishedIsNoticed`, `Recovers`,
`FeedConnects`, `CandlesArrive`, `BreachesAreReported`). Every other property of a
run is a theorem.

## 5. Where the code and its documentation part

Differences met while modelling. They are in the modules as the code has them,
and the properties are stated so that they hold of the code.

* Two overlapping exits: the first arms the hard kill, the second, loaded
  before, writes it away (`state_store.py:85`). `engine.py` says it never
  auto-resets. An exit reported for yesterday clears today's counters in the
  dashboard's engine (`journal.py:159`).
* `trade_counter` starts over with the process (`paper_trader/engine.py:126`); the
  new position's exit closes the old trade's row.
* `PARTIALLY_CLOSED` does not fit `String(10)` (`models.py:323`): on PostgreSQL
  every partial exit ends the tick and leaves the row behind the position. The
  same holds for Telegram trade ids (`TG-<uuid>` is 39 characters, the column
  30): no such row is ever stored there.
* `notification_logs.message_type` is `String(20)` (`models.py:514`), and every
  deduplication key is longer. On PostgreSQL no breach of a stop or target is ever
  reported: each check ends at the row, which comes before the message
  (`position_monitor/monitor.py:101`). A signal's alert goes out first
  (`signal_engine/notify.py:56`), then its row is refused, and the run's other
  signals, already committed, are never alerted. `_send` swallows what Telegram
  raises (`telegram/bot.py:354`): such an alert is logged as sent.
* "Can therefore never block that job's loop forever" (`runner.py:19`): a `close()`
  that hangs in the `finally` of a cancelled tick does, since `wait_for` waits for
  it, and one that raises ends the loop. The heartbeat shows both.
* A position that disappears is closed by its real fills (`coindcx_sync.py:12`),
  unless part of it was exited before: the exit asked for is `min(total, quantity)`
  of the whole trade (`coindcx_sync.py:122`), which `record_exit` refuses in every
  sync when it is more than what is left. Fills of the same day are counted again
  by the next sync.
* An edit that arrives before its post is stored without its time stamp
  (`ingestion.py:76`): any edit delivered later replaces it, an older one too.
* A series of one candle has an expected count and a coverage of 0
  (`data_quality/validator.py:132`). A reconciliation does not compare a quantity
  or price that is `None` on either side (`reconciliation.py:83`).
* A message delivered twice is stored once and parsed twice (`ingestion.py:74`);
  the second signal has an idempotency key of its own. Telegram positions are
  put into a trader whose `process_candle` nothing calls.
* Two overlapping syncs that both find a position without a row both create one:
  no index is unique on `exchange_position_id` (`models.py:348`), though
  `coindcx_sync.py:3` says the sync updates the database idempotently. Of the
  two rows only the one the query returns last is looked at from then on
  (`coindcx_sync.py:148`): the other stays as it is when the position closes.
* `HALF_OPEN` allows every call (`circuit_breaker.py:58`), where the comment says
  one trial. A job that always hangs never opens its breaker.
* A mark price refreshes `received_at`, so a feed can be LIVE with an old traded
  price (`live_breakout.py:125` takes it for the current one).
* `detect_regime_series` is called equivalent and is not: a normal volatility
  ratio ends its classification (`regime.py:113`). Live regimes are UNCERTAIN,
  since the candles given to the detector carry no indicator columns.
* The parameter selection documented as a grid search on the training rows
  never reads them, and falls back to the grid's first combination rather than
  to the documented default (`research_v2_rigorous.py:143`).
* `create_labels` drops no rows, since its default is 0 and not NaN: the last
  rows are labelled as if nothing followed them (`ml/datasets/loader.py:63`). The
  inner validation split of `ml/evaluation/validator.py` has no embargo.
* `get_pnl_breakdown` raises on a partly closed trade, which has no exit time
  (`portfolio/service.py:206`).
* `check_ordering` runs after sorting, and coverage counts duplicates
  (`data_quality/validator.py`). POSITION_LIMIT_OK and NO_CONFLICTING_POSITION
  count rows with a status nothing writes (`gates.py:189`).
* A naive UTC datetime is sent to Binance as a local one (`binance.py:75`); the
  model is of a host in UTC, as the containers are.
* The tick after an entry manages the position against the candle it was entered
  on (`jobs.py:137`); a signal whose position has closed may be traded again while
  its candle is the last (`jobs.py:149`); the paper trader feeds its engine the
  return on the position's notional (`docs/known_limitations.md:407` has the same
  fault, fixed in the backtester).

## 6. Not modelled

Exponential averages and deviations, P&L to the cent, the evidence the AI orchestrator weighs,
training and the statistics of reports, formatting and message texts, bot
commands, HTTP and websocket protocols, the exchange clients' caches, the
scanner (one screen over one snapshot), the web front end, read-only routers,
migrations (run once, offline). In the modules: `PaperTrader.pause/resume`, which
nothing calls; positions of SHORT trades and of one or three targets in
PaperTrading; a journal exit of a trade the paper trader still holds; `sync_trade_fills`,
which only adds audit rows; funding and open-interest backfills, which have the
shape of the candles'; the account socket, which nothing starts; more than one
process (the deployment runs one).

## 7. Plan

Everything the code decides by order, failure or an edge of its inputs is
modelled, and every safety property of a run is a theorem. What is left is what
§6 lists.
