--------------------------- MODULE SignalPipeline ---------------------------
(***************************************************************************)
(* From candles to alerts: ingestion, the three paths that turn candles    *)
(* into signals, and the alert of each signal.  The closed-candle job      *)
(* (signal_engine/multi_strategy_engine.py) evaluates every eligible       *)
(* strategy in turn, the live job (live_breakout.py) the baseline on the   *)
(* forming candle, the request (live_signal.py) the baseline on the newest *)
(* candle; the instance runs the first two.  Each asks whether the signal  *)
(* exists, then inserts it; no index forbids two.  A strategy's verdict is *)
(* an input.                                                               *)
(***************************************************************************)
EXTENDS CandleIngestion

CONSTANTS
    Paths,          \* of {"closed", "live", "request"}, those that run
    Registry,       \* the eligible strategies of the timeframe, in order
    Baseline,       \* the strategy the live job and the request evaluate
    Followed,       \* bound: candles whose signals are followed
    Databases       \* the databases the project runs on: see Notify

ASSUME PipelineAssumption ==
    /\ IsFiniteSet(Paths) /\ Registry \in Seq({Registry[n] : n \in DOMAIN Registry})
    /\ Databases \subseteq {"postgresql", "sqlite"}

VARIABLES
    database,   \* the database of the deployment
    rows,       \* <<strategy, candle>> |-> its LONG or SHORT rows in signals
    logged,     \* <<strategy, candle>> |-> its notification_logs rows, status sent
    sent,       \* <<strategy, candle>> |-> alerts Telegram has taken
    missed,     \* <<strategy, candle>> |-> alerts Telegram has not taken
    path,       \* per path: candle, strategies to ask for, rows to alert
    raced,      \* history: signals a path found missing that another was inserting
    lost        \* history: signals whose path ended before their alert was logged

alerts == <<logged, sent, missed>>
signalVars == <<database, rows, alerts, path, raced, lost>>
pipelineVars == <<ingestVars, signalVars>>

Strategies == {Registry[n] : n \in DOMAIN Registry}
Keys == Strategies \X Candles

(* asked: the question for Head(todo) is answered, its row not yet inserted. *)
Idle == [candle |-> 0, todo |-> <<>>, asked |-> FALSE, held |-> <<>>]

PipelineInit ==
    /\ IngestInit
    /\ database \in Databases
    /\ rows = [k \in Keys |-> 0]
    /\ logged = rows /\ sent = rows /\ missed = rows
    /\ path = [p \in Paths |-> Idle]
    /\ raced = {} /\ lost = {}

Ingestion == IngestNext /\ UNCHANGED signalVars

-----------------------------------------------------------------------------
Newest == Max(stored)

(* The bucket of the live price, or the newest candle of the table. *)
CandleOf(p) == IF p = "live" THEN clock ELSE Newest

(* The strategies on LONG or SHORT, in the order of the registry. *)
Findings ==
    LET Picks == UNION {[1..n -> DOMAIN Registry] : n \in 1..Len(Registry)}
    IN  {[n \in DOMAIN f |-> Registry[f[n]]] :
            f \in {f \in Picks : \A m, n \in DOMAIN f : m < n => f[m] < f[n]}}

Finding(candle, found) == [Idle EXCEPT !.candle = candle, !.todo = found]

(* A run that finds something.  The candle is the newest of the table; the live *)
(* job's is the forming one, if it follows that.  A pause, a feed that is not   *)
(* live and too short a history make it one that finds none.                    *)
Load(p) ==
    /\ path[p] = Idle /\ stored # {} /\ CandleOf(p) \in Followed
    /\ p = "live" => CandleOf(p) = Newest + 1
    /\ \E found \in Findings :
          /\ p # "closed" => \A n \in DOMAIN found : found[n] = Baseline
          /\ path' = [path EXCEPT ![p] = Finding(CandleOf(p), found)]
    /\ UNCHANGED <<ingestVars, database, rows, alerts, raced, lost>>

Key(p) == <<Head(path[p].todo), path[p].candle>>
Held(p) == {<<path[p].held[n], path[p].candle>> : n \in DOMAIN path[p].held}

(* A path whose last strategy is done and last alert sent is over. *)
Over(r) == IF r.todo = <<>> /\ r.held = <<>> THEN Idle ELSE r

Skipped(r) == [r EXCEPT !.todo = Tail(@)]
Inserting(r) == [Skipped(r) EXCEPT !.asked = FALSE, !.held = Append(@, Head(r.todo))]
Alerting(r) == [r EXCEPT !.held = Tail(@)]

(* The paths that have found no row of k and not yet inserted one. *)
Asking(k) == {p \in Paths : path[p].asked /\ Key(p) = k}

(* Mutation: the rows of the candle are not looked for. *)
ExistingNone(p) == 0

Existing(p) == rows[Key(p)]

(* Is there a row?  Two make scalar_one_or_none raise, which ends the path. *)
Ask(p) ==
    /\ path[p].todo # <<>> /\ ~path[p].asked
    /\ path' = [path EXCEPT ![p] =
                  CASE Existing(p) = 0 -> [path[p] EXCEPT !.asked = TRUE]
                    [] Existing(p) = 1 -> Over(Skipped(path[p]))
                    [] OTHER -> Idle]
    /\ lost' = IF Existing(p) > 1 THEN lost \cup Held(p) ELSE lost
    /\ raced' = IF Existing(p) = 0 /\ Asking(Key(p)) # {} THEN raced \cup {Key(p)} ELSE raced
    /\ UNCHANGED <<ingestVars, database, rows, alerts>>

Insert(p) ==
    /\ path[p].asked
    /\ rows' = [rows EXCEPT ![Key(p)] = @ + 1]
    /\ path' = [path EXCEPT ![p] = Inserting(path[p])]
    /\ UNCHANGED <<ingestVars, database, alerts, raced, lost>>

Oldest(p) == <<Head(path[p].held), path[p].candle>>

(* send_signal: _send catches and logs whatever Telegram raises. *)
Send(k, taken) ==
    /\ sent' = [sent EXCEPT ![k] = @ + IF taken THEN 1 ELSE 0]
    /\ missed' = [missed EXCEPT ![k] = @ + IF taken THEN 0 ELSE 1]

Faults(taken, logging) == (IF taken THEN 0 ELSE 1) + (IF logging THEN 0 ELSE 1)

Alert(p, taken, logging) ==
    /\ path[p].todo = <<>> /\ path[p].held # <<>>
    /\ faults + Faults(taken, logging) <= MaxFaults
    /\ faults' = faults + Faults(taken, logging)
    /\ Send(Oldest(p), taken)
    /\ UNCHANGED <<clock, stored, ingest, excused, database, rows, raced>>

(* Mutation: only the path's last signal is logged. *)
NotifyLast(p) ==
    /\ \E taken \in BOOLEAN : Alert(p, taken, TRUE)
    /\ database = "sqlite"
    /\ logged' = [logged EXCEPT ![<<path[p].held[Len(path[p].held)], path[p].candle>>] = @ + 1]
    /\ path' = [path EXCEPT ![p] = Idle]
    /\ UNCHANGED lost

(* After the last strategy, an alert for each row the path has inserted, logged
   as sent whether Telegram has taken it or not. *)
Notify(p) ==
    /\ \E taken \in BOOLEAN : Alert(p, taken, TRUE)
    /\ database = "sqlite"
    /\ logged' = [logged EXCEPT ![Oldest(p)] = @ + 1]
    /\ path' = [path EXCEPT ![p] = Over(Alerting(path[p]))]
    /\ UNCHANGED lost

(* The message is out and its log row is not: the path ends in between, or the
   row is refused.  message_type is String(20), "signal_alert:<signal_id>" has
   29 characters: PostgreSQL refuses it every time, which ends the path. *)
NotifyFails(p) ==
    /\ \E taken \in BOOLEAN : Alert(p, taken, database = "postgresql")
    /\ lost' = lost \cup Held(p)
    /\ path' = [path EXCEPT ![p] = Idle]
    /\ UNCHANGED logged

(* An error, the watchdog or the end of the process, at any await. *)
PathFails(p) ==
    /\ path[p] # Idle /\ faults < MaxFaults
    /\ faults' = faults + 1
    /\ lost' = lost \cup Held(p)
    /\ path' = [path EXCEPT ![p] = Idle]
    /\ UNCHANGED <<clock, stored, ingest, excused, database, rows, alerts, raced>>

-----------------------------------------------------------------------------
PathStep(p) == Load(p) \/ Ask(p) \/ Insert(p) \/ Notify(p) \/ NotifyFails(p)

PipelineNext == Ingestion \/ \E p \in Paths : PathStep(p) \/ PathFails(p)

(* The scheduler's ingestion loop goes on; nothing is assumed of the rest. *)
PipelineFairness == WF_pipelineVars(JobStep /\ UNCHANGED signalVars)

PipelineSpec == PipelineInit /\ [][PipelineNext]_pipelineVars /\ PipelineFairness
-----------------------------------------------------------------------------
(* "One signal per strategy per candle" (live_signal.py:16) holds unless two
   paths have both found none before either inserted, which happens to the
   baseline only; then there are at most as many rows as paths, however long the
   candle stays the newest. *)
OneSignalPerCandle ==
    \A k \in Keys :
        /\ k \notin raced => rows[k] <= 1
        /\ k[1] # Baseline => k \notin raced
        /\ rows[k] <= Cardinality(Paths)

(* A row is offered to Telegram at most once and logged as sent only if it was.
   Once its path has ended it is logged, taken by Telegram or not, unless the
   path was cut short or refused the log row (jobs.py:96): the next run finds
   the signal and keeps silent about it. *)
AlertedOnce ==
    \A k \in Keys :
        /\ sent[k] + missed[k] <= rows[k]
        /\ logged[k] <= sent[k] + missed[k]
        /\ (k \notin lost /\ \A p \in Paths : k \notin Held(p)) => logged[k] = rows[k]
=============================================================================
