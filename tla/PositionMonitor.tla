-------------------------- MODULE PositionMonitor --------------------------
(***************************************************************************)
(* Exit alerts (services/position_monitor/monitor.py).  The scheduler's    *)
(* loop and any number of GET /journal/exit-alerts requests compare the    *)
(* open trades with the latest price and report each breach of a stop or   *)
(* target once: the notification table says which have been reported.      *)
(*                                                                         *)
(* A check asks the table about one breach after the other, inserts what   *)
(* is new, commits, and only then sends.  Each of these is an await, and   *)
(* no index keeps two checks from inserting the same key.                  *)
(***************************************************************************)
EXTENDS Integers, FiniteSets

CONSTANTS
    Trades, Long,   \* manual trades of the symbol; those that are LONG
    Level,          \* the price per key: a trade and which of its levels it is
    Prices,
    Loop, Requests, \* who checks
    Databases,      \* the databases the project runs on: see Refuses
    MaxFaults       \* bound: checks cut off

Reasons == {"stop_loss_hit", "take_profit_hit"}

ASSUME PositionMonitorAssumption ==
    /\ Long \subseteq Trades /\ DOMAIN Level \subseteq Trades \X Reasons
    /\ Loop \notin Requests /\ IsFiniteSet(Requests) /\ MaxFaults \in Nat
    /\ Databases \subseteq {"postgresql", "sqlite"}

VARIABLES
    database,       \* the database of the deployment
    price,          \* the close of the newest candle
    open,           \* trades that are OPEN or PARTIALLY_CLOSED
    log,            \* per key, rows of notification_logs
    check,          \* per checker: where it awaits, alerts not yet asked about, new ones
    sent,           \* per key, messages sent
    lost,           \* history: per key, rows whose message was not sent
    raced,          \* history: keys two checks have found new at once
    refused,        \* history: the database has refused a row
    faults

monitorVars == <<database, price, open, log, check, sent, lost, raced, refused, faults>>
histories == <<lost, raced, refused, faults>>

Checkers == {Loop} \cup Requests

Keys == DOMAIN Level
Idle == [pc |-> "idle", price |-> 0, todo |-> {}, new |-> {}]

Reached(k, p) == IF (k[1] \in Long) = (k[2] = "stop_loss_hit") THEN p <= Level[k] ELSE p >= Level[k]

(* _check_trade: of a trade that has reached both, the stop is reported. *)
Breached(k, p) ==
    /\ Reached(k, p)
    /\ \A j \in Keys : j[1] = k[1] /\ j[2] = "stop_loss_hit" => j = k \/ ~Reached(j, p)

MonitorInit ==
    /\ database \in Databases /\ price \in Prices /\ open = Trades
    /\ log = [k \in Keys |-> 0] /\ sent = log /\ lost = log
    /\ check = [c \in Checkers |-> Idle]
    /\ raced = {} /\ refused = FALSE /\ faults = 0

-----------------------------------------------------------------------------
PriceMoves ==
    /\ price' \in Prices \ {price}
    /\ UNCHANGED <<database, open, log, check, sent, histories>>

TradeCloses(t) ==
    /\ t \in open
    /\ open' = open \ {t}
    /\ UNCHANGED <<database, price, log, check, sent, histories>>

(* The price, then the open trades: get_or_create_default_account and
   get_open_trades run between the two. *)
StartCheck(c) ==
    /\ check[c] = Idle
    /\ check' = [check EXCEPT ![c] = [pc |-> "read", price |-> price, todo |-> {}, new |-> {}]]
    /\ UNCHANGED <<database, price, open, log, sent, histories>>

Read(c) ==
    /\ check[c].pc = "read"
    /\ LET breached == {k \in Keys : k[1] \in open /\ Breached(k, check[c].price)}
       IN  check' = [check EXCEPT ![c] = [pc |-> "ask", price |-> 0, todo |-> breached, new |-> {}]]
    /\ UNCHANGED <<database, price, open, log, sent, histories>>

Uncommitted(k) == {c \in Checkers : check[c].pc = "ask" /\ k \in check[c].new}

Asked(r, k) == [r EXCEPT !.todo = @ \ {k}]
Found(r, k) == [r EXCEPT !.new = @ \cup {k}]
Committed(r) == [r EXCEPT !.pc = "send"]
Told(r, k) == [r EXCEPT !.new = @ \ {k}]

(* notification_logs.message_type is String(20), "exit_alert:<trade_id>:<reason>"
   is longer: PostgreSQL refuses the row when it is flushed, SQLite takes it. *)
Refuses(c) == database = "postgresql" /\ check[c].new # {}

(* Mutation: the table is not asked. *)
AskNothing(c) ==
    /\ check[c].pc = "ask" /\ ~Refuses(c)
    /\ \E k \in check[c].todo :
          /\ check' = [check EXCEPT ![c].todo = @ \ {k}, ![c].new = @ \cup {k}]
          /\ raced' = IF Uncommitted(k) = {} THEN raced ELSE raced \cup {k}
    /\ UNCHANGED <<database, price, open, log, sent, lost, refused, faults>>

(* Mutation: scalar_one: a key that is there once ends the check. *)
AskOrRaise(c) ==
    /\ check[c].pc = "ask" /\ ~Refuses(c)
    /\ \E k \in check[c].todo :
          /\ check' = [check EXCEPT ![c] = IF log[k] > 0 THEN Idle
                                           ELSE Found(Asked(check[c], k), k)]
          /\ raced' = IF log[k] > 0 \/ Uncommitted(k) = {} THEN raced ELSE raced \cup {k}
    /\ UNCHANGED <<database, price, open, log, sent, lost, refused, faults>>

(* _already_alerted: scalar_one_or_none raises when the key is there twice, which
   ends the check and rolls its inserts back. *)
Ask(c) ==
    /\ check[c].pc = "ask" /\ ~Refuses(c)
    /\ \E k \in check[c].todo :
          /\ check' = [check EXCEPT ![c] = CASE log[k] > 1 -> Idle
                                              [] log[k] = 1 -> Asked(check[c], k)
                                              [] OTHER -> Found(Asked(check[c], k), k)]
          /\ raced' = IF log[k] > 0 \/ Uncommitted(k) = {} THEN raced ELSE raced \cup {k}
    /\ UNCHANGED <<database, price, open, log, sent, lost, refused, faults>>

Commit(c) ==
    /\ check[c].pc = "ask" /\ check[c].todo = {} /\ ~Refuses(c)
    /\ log' = [k \in Keys |-> log[k] + IF k \in check[c].new THEN 1 ELSE 0]
    /\ check' = [check EXCEPT ![c] = IF check[c].new = {} THEN Idle ELSE Committed(check[c])]
    /\ UNCHANGED <<database, price, open, sent, histories>>

(* The next question flushes what has been added, as the commit does: a row that
   is refused ends the check. *)
RowRefused(c) ==
    /\ check[c].pc = "ask" /\ Refuses(c)
    /\ refused' = TRUE
    /\ check' = [check EXCEPT ![c] = Idle]
    /\ UNCHANGED <<database, price, open, log, sent, lost, raced, faults>>

(* _send catches what Telegram raises. *)
Deliver(k) ==
    \/ sent' = [sent EXCEPT ![k] = @ + 1] /\ UNCHANGED <<lost, faults>>
    \/ /\ faults < MaxFaults /\ faults' = faults + 1
       /\ lost' = [lost EXCEPT ![k] = @ + 1]
       /\ UNCHANGED sent

(* One alert after the other. *)
Send(c) ==
    /\ check[c].pc = "send"
    /\ \E k \in check[c].new :
          /\ check' = [check EXCEPT ![c] = IF check[c].new = {k} THEN Idle ELSE Told(check[c], k)]
          /\ Deliver(k)
    /\ UNCHANGED <<database, price, open, log, raced, refused>>

(* The watchdog, a database error or the end of the process. *)
Abort(c) ==
    /\ check[c] # Idle /\ faults < MaxFaults
    /\ faults' = faults + 1
    /\ check' = [check EXCEPT ![c] = Idle]
    /\ lost' = [k \in Keys |-> lost[k] + IF check[c].pc = "send" /\ k \in check[c].new THEN 1 ELSE 0]
    /\ UNCHANGED <<database, price, open, log, sent, raced, refused>>

CheckStep(c) == Read(c) \/ Ask(c) \/ Commit(c) \/ RowRefused(c) \/ Send(c)

MonitorNext ==
    \/ PriceMoves
    \/ \E t \in Trades : TradeCloses(t)
    \/ \E c \in Checkers : StartCheck(c) \/ CheckStep(c) \/ Abort(c)

(* The loop comes round; what has been awaited returns. *)
MonitorFairness == WF_monitorVars(StartCheck(Loop)) /\ \A c \in Checkers : WF_monitorVars(CheckStep(c))

MonitorSpec == MonitorInit /\ [][MonitorNext]_monitorVars /\ MonitorFairness

-----------------------------------------------------------------------------
MonitorTypeOK ==
    /\ database \in Databases /\ price \in Prices /\ open \subseteq Trades
    /\ log \in [Keys -> Nat] /\ sent \in [Keys -> Nat] /\ lost \in [Keys -> Nat]
    /\ check \in [Checkers -> [pc : {"idle", "read", "ask", "send"}, price : Prices \cup {0},
                             todo : SUBSET Keys, new : SUBSET Keys]]
    /\ raced \subseteq Keys /\ refused \in BOOLEAN /\ faults \in 0..MaxFaults

Sending(k) == {c \in Checkers : check[c].pc = "send" /\ k \in check[c].new}

(* Every row stands for one message: sent, being sent or lost with the check
   that wrote it.  A breach is reported twice only if two checks asked about it
   before either had committed (monitor.py:13).  A database that refuses one row
   takes none, and nobody is ever told of a breach. *)
OneAlertPerBreach ==
    \A k \in Keys :
        /\ log[k] = sent[k] + lost[k] + Cardinality(Sending(k))
        /\ k \notin raced => log[k] + Cardinality(Uncommitted(k)) <= 1
        /\ refused => log[k] = 0

(* A breach that lasts is reported, unless its message is lost, or a key is in
   the table twice: as long as that one is breached, every check ends when it
   asks about it (monitor.py:71).  On PostgreSQL it leads to a refused row
   instead, its own or that of a breach asked about before it (models.py:514). *)
BreachesAreReported ==
    \A k \in Keys :
        k[1] \in open /\ Breached(k, price) ~>
            \/ sent[k] > 0 \/ lost[k] > 0
            \/ k[1] \notin open \/ ~Breached(k, price)
            \/ \E j \in Keys : log[j] > 1
            \/ refused
=============================================================================
