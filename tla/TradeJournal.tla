---------------------------- MODULE TradeJournal ----------------------------
(***************************************************************************)
(* The trade journal (services/trade_journal), the requests that drive it  *)
(* (apps/api/routers/journal.py) and the account sync that fills it from   *)
(* CoinDCX (services/exchange/coindcx_sync.py).                            *)
(*                                                                         *)
(* The exchange is the environment: its user buys and sells, and it shows  *)
(* a position per instrument and the fills of an instrument since a day.   *)
(* A request or a sync reads rows, awaits, and writes them back later from *)
(* what it read; nothing locks a trade in between.  An instrument is       *)
(* <<base, margin currency>>, and so is the symbol a trade row keeps.      *)
(***************************************************************************)
EXTENDS Integers, Sequences, FiniteSets, SequencesExt

CONSTANTS
    Instruments,    \* instruments the account holds positions in
    Clients,        \* concurrent requests to the journal
    Syncs,          \* concurrent account syncs
    Qty,            \* bound: size of a position, of a trade, of an order
    MaxDay,         \* bound: days
    MaxMoves        \* bound: moves of the environment (orders, requests, faults)

ASSUME JournalAssumption ==
    /\ Qty \in Nat \ {0} /\ MaxDay \in Nat /\ MaxMoves \in Nat
    /\ IsFiniteSet(Instruments)
    /\ Clients \cap Syncs = {}

VARIABLES
    fills,      \* the exchange's fills, in order: [on, side, qty, day]
    day,
    trades,     \* rows of the trades table, and what their executions add up to
    job,        \* per request or sync: the rows it has read to write, where it stands
    sync,       \* per sync: the session it has not committed
    raced,      \* history: trades written from a row another commit had replaced
    crossed,    \* history: positions that one sync created a row for, and that
                \* another one had already found without a row
    moves       \* moves left to the environment

vars == <<fills, day, trades, job, sync, raced, crossed, moves>>

Jobs == Clients \cup Syncs
Days == 0..MaxDay

OpenStatuses == {"OPEN", "PARTIALLY_CLOSED"}
ClosedStatuses == {"CLOSED", "PARTIALLY_CLOSED"}     \* as the portfolio counts

-----------------------------------------------------------------------------
(* The exchange as the read-only provider shows it. *)

Filled(on, side, from) ==
    LET counts(f) == f.on = on /\ f.side = side /\ f.day >= from
        total[k \in 0..Len(fills)] ==
            IF k = 0 THEN 0
            ELSE total[k - 1] + (IF counts(fills[k]) THEN fills[k].qty ELSE 0)
    IN  total[Len(fills)]

Held(on) == Filled(on, "buy", 0) - Filled(on, "sell", 0)

Normalize(symbol) == <<symbol[1], "INR">>      \* the default margin currency
Denormalize(instrument) == instrument          \* keeps the instrument's own

ClosingSide(side) == IF side = "LONG" THEN "sell" ELSE "buy"

-----------------------------------------------------------------------------
(* Rows, and what a job holds of them. *)

Row(src, on, side, qty) ==
    [src |-> src, on |-> on, side |-> side, qty |-> qty, status |-> "OPEN",
     since |-> day, pnl |-> 0, exitDay |-> -1,
     exited |-> 0, fed |-> 0]

Idle == [pc |-> "idle", t |-> 0, qty |-> 0, pnl |-> 0, closed |-> 0,
         reads |-> {}, stale |-> {}]
(* A sync that record_exit returns to. *)
Returned(j, stale) == [Idle EXCEPT !.pc = "close", !.reads = job[j].reads, !.stale = stale]

NoSync == [seen |-> [on \in Instruments |-> 0], new |-> {}, touch |-> {},
           todo |-> {}, pnl |-> <<>>]

Init ==
    /\ fills = <<>> /\ day = 0 /\ trades = <<>>
    /\ job = [j \in Jobs |-> Idle] /\ sync = [s \in Syncs |-> NoSync]
    /\ raced = {} /\ crossed = {} /\ moves = MaxMoves

Spend == moves > 0 /\ moves' = moves - 1

(* Mutation: partly closed rows are not looked for. *)
OpenSyncedWhole(on) == {t \in DOMAIN trades : /\ trades[t].src = "COINDCX_SYNC"
                                              /\ trades[t].on = on
                                              /\ trades[t].status = "OPEN"}

OpenSynced(on) == {t \in DOMAIN trades : /\ trades[t].src = "COINDCX_SYNC"
                                         /\ trades[t].on = on
                                         /\ trades[t].status \in OpenStatuses}

(* What committing a sync's session adds to the table. *)
Created(s) ==
    LET Side(on) == IF sync[s].seen[on] > 0 THEN "LONG" ELSE "SHORT"
        Size(on) == IF sync[s].seen[on] > 0 THEN sync[s].seen[on] ELSE - sync[s].seen[on]
        New(on) == Row("COINDCX_SYNC", Denormalize(on), Side(on), Size(on))
    IN  SetToSeq({New(on) : on \in sync[s].new})

Flushed(table, s) ==
    [t \in DOMAIN table |-> IF t \in sync[s].touch THEN [table[t] EXCEPT !.since = day]
                                                   ELSE table[t]] \o Created(s)

Crosses(s) ==
    crossed' = crossed \cup {on \in sync[s].new :
                                 \E r \in Syncs \ {s} : on \in sync[r].new}

(* A commit of job j to trade t: every other job that has read t is out of date. *)
Outdates(j, t, own) ==
    job' = [k \in Jobs |->
              IF k = j THEN own
              ELSE IF t \in job[k].reads THEN [job[k] EXCEPT !.stale = @ \cup {t}]
              ELSE job[k]]

ActsOn(j, t) == raced' = IF t \in job[j].stale THEN raced \cup {t} ELSE raced

-----------------------------------------------------------------------------
(* The environment. *)

UserTrades(on, side, q) ==
    /\ Spend
    /\ LET held == Held(on) + (IF side = "buy" THEN q ELSE - q)
       IN  held \in -Qty..Qty
    /\ fills' = Append(fills, [on |-> on, side |-> side, qty |-> q, day |-> day])
    /\ UNCHANGED <<day, trades, job, sync, raced, crossed>>

NextDay ==
    /\ Spend /\ day < MaxDay /\ day' = day + 1
    /\ UNCHANGED <<fills, trades, job, sync, raced, crossed>>

-----------------------------------------------------------------------------
(* Requests to the journal. *)

OpenTrade(on, side, q) ==
    /\ Spend
    /\ trades' = Append(trades, Row("MANUAL", on, side, q))
    /\ UNCHANGED <<fills, day, job, sync, raced, crossed>>

(* record_exit reads the row first and refuses what is already final. *)
ExitRead(c, t, q) ==
    /\ job[c].pc = "idle" /\ Spend
    /\ trades[t].status \in OpenStatuses
    /\ job' = [job EXCEPT ![c] = [Idle EXCEPT !.pc = "sum", !.t = t, !.qty = q,
                                              !.pnl = trades[t].pnl,
                                              !.reads = {t}]]
    /\ UNCHANGED <<fills, day, trades, sync, raced, crossed>>

(* It then adds up the executions, in another await. *)
ExitSum(j) ==
    /\ job[j].pc = "sum"
    /\ LET closed == trades[job[j].t].exited
       IN  job' = [job EXCEPT ![j] =
                     IF @.qty <= trades[@.t].qty - closed
                     THEN [@ EXCEPT !.pc = "write", !.closed = closed]
                     ELSE IF j \in Syncs THEN Returned(j, job[j].stale) ELSE Idle]
    /\ UNCHANGED <<fills, day, trades, sync, raced, crossed, moves>>

(* Mutation: the exit that leaves one unit closes the trade. *)
ExitedOffByOne(row, w) ==
    LET full == w.qty + 1 >= row.qty - w.closed
    IN  [row EXCEPT !.exited = @ + w.qty, !.pnl = w.pnl + w.qty,
                    !.status = IF full THEN "CLOSED" ELSE "PARTIALLY_CLOSED",
                    !.exitDay = IF full THEN day ELSE @]

(* The execution is inserted; the row's totals come from what was read.  A *)
(* unit closed earns one unit of P&L.                                      *)
Exited(row, w) ==
    LET full == w.qty >= row.qty - w.closed
    IN  [row EXCEPT !.exited = @ + w.qty, !.pnl = w.pnl + w.qty,
                    !.status = IF full THEN "CLOSED" ELSE "PARTIALLY_CLOSED",
                    !.exitDay = IF full THEN day ELSE @]

ExitWrite(j) ==
    /\ job[j].pc = "write"
    /\ LET written == [trades EXCEPT ![job[j].t] = Exited(@, job[j])]
       IN  IF j \in Syncs
           THEN /\ trades' = Flushed(written, j)
                /\ sync' = [sync EXCEPT ![j].new = {}, ![j].touch = {}]
                /\ Crosses(j)
           ELSE trades' = written /\ UNCHANGED <<sync, crossed>>
    /\ ActsOn(j, job[j].t)
    /\ LET back == Returned(j, job[j].stale \ {job[j].t})
       IN  Outdates(j, job[j].t, IF j \in Syncs THEN back
                                 ELSE [back EXCEPT !.pc = "feed", !.t = job[j].t])
    /\ UNCHANGED <<fills, day, moves>>

(* The request reads the row again and feeds a closed trade to the risk engine. *)
ExitFeed(c) ==
    /\ job[c].pc = "feed"
    /\ trades' = [trades EXCEPT ![job[c].t].fed = IF trades[job[c].t].status = "CLOSED"
                                                  THEN @ + 1 ELSE @]
    /\ ActsOn(c, job[c].t)
    /\ job' = [job EXCEPT ![c] = Idle]
    /\ UNCHANGED <<fills, day, sync, crossed, moves>>

(* Mutation: a partly closed trade may be cancelled. *)
CancelReadPartial(c, t) ==
    /\ job[c].pc = "idle" /\ Spend
    /\ trades[t].status \in OpenStatuses
    /\ job' = [job EXCEPT ![c] = [Idle EXCEPT !.pc = "cancel", !.t = t, !.reads = {t}]]
    /\ UNCHANGED <<fills, day, trades, sync, raced, crossed>>

CancelRead(c, t) ==
    /\ job[c].pc = "idle" /\ Spend
    /\ trades[t].status = "OPEN"
    /\ job' = [job EXCEPT ![c] = [Idle EXCEPT !.pc = "cancel", !.t = t, !.reads = {t}]]
    /\ UNCHANGED <<fills, day, trades, sync, raced, crossed>>

CancelWrite(c) ==
    /\ job[c].pc = "cancel"
    /\ trades' = [trades EXCEPT ![job[c].t].status = "CANCELLED", ![job[c].t].exitDay = day]
    /\ ActsOn(c, job[c].t)
    /\ Outdates(c, job[c].t, Idle)
    /\ UNCHANGED <<fills, day, sync, crossed, moves>>

-----------------------------------------------------------------------------
(* The account sync, one await after the other. *)

SyncIs(s, pc) == job[s].pc = pc
SyncTo(s, pc) == job' = [job EXCEPT ![s].pc = pc]

(* Only an account whose balance was answered gets here.  The provider       *)
(* answers an HTTP error with the empty list.                                *)
SyncFetch(s) ==
    /\ SyncIs(s, "idle")
    /\ \/ /\ sync' = [sync EXCEPT ![s].seen = [on \in Instruments |-> Held(on)]]
          /\ UNCHANGED moves
       \/ /\ Spend
          /\ sync' = [sync EXCEPT ![s].seen = NoSync.seen]
    /\ SyncTo(s, "read")
    /\ UNCHANGED <<fills, day, trades, raced, crossed>>

(* One open row per position is looked at, whichever the query returns last. *)
SyncRead(s) ==
    /\ SyncIs(s, "read")
    /\ \E tracked \in {f \in [Instruments -> {0} \cup DOMAIN trades] :
                         \A on \in Instruments :
                            IF OpenSynced(on) = {} THEN f[on] = 0 ELSE f[on] \in OpenSynced(on)} :
         LET live == {on \in Instruments : sync[s].seen[on] # 0}
             gone == {tracked[on] : on \in Instruments \ live} \ {0}
         IN  /\ sync' = [sync EXCEPT ![s] =
                  [@ EXCEPT !.new = {on \in live : tracked[on] = 0},
                            !.touch = {tracked[on] : on \in live} \ {0},
                            !.todo = gone, !.pnl = [t \in gone |-> trades[t].pnl]]]
             /\ job' = [job EXCEPT ![s].pc = "close", ![s].reads = gone]
    /\ UNCHANGED <<fills, day, trades, raced, crossed, moves>>

(* Mutation: only fills after the day the position was last seen count. *)
SyncLookupLater(s, t) ==
    /\ SyncIs(s, "close") /\ t \in sync[s].todo
    /\ sync' = [sync EXCEPT ![s].todo = @ \ {t}]
    /\ LET total == Filled(Normalize(trades[t].on), ClosingSide(trades[t].side), trades[t].since + 1)
           qty == IF total < trades[t].qty THEN total ELSE trades[t].qty
       IN  IF total > 0
           THEN job' = [job EXCEPT ![s] = [@ EXCEPT !.pc = "sum", !.t = t, !.qty = qty,
                                                    !.pnl = sync[s].pnl[t]]]
           ELSE UNCHANGED job
    /\ UNCHANGED <<fills, day, trades, raced, crossed, moves>>

(* A position that disappeared: its closing fills since the day it was last  *)
(* seen, asked for by symbol; none, or an HTTP error, leaves the trade open. *)
SyncLookup(s, t) ==
    /\ SyncIs(s, "close") /\ t \in sync[s].todo
    /\ sync' = [sync EXCEPT ![s].todo = @ \ {t}]
    /\ LET total == Filled(Normalize(trades[t].on), ClosingSide(trades[t].side), trades[t].since)
           qty == IF total < trades[t].qty THEN total ELSE trades[t].qty
       IN  \/ /\ total > 0 /\ UNCHANGED moves
              /\ job' = [job EXCEPT ![s] = [@ EXCEPT !.pc = "sum", !.t = t, !.qty = qty,
                                                     !.pnl = sync[s].pnl[t]]]
           \/ total = 0 /\ UNCHANGED <<job, moves>>
           \/ Spend /\ UNCHANGED job
    /\ UNCHANGED <<fills, day, trades, raced, crossed>>

SyncCommit(s) ==
    /\ SyncIs(s, "close") /\ sync[s].todo = {}
    /\ trades' = Flushed(trades, s) /\ Crosses(s)
    /\ sync' = [sync EXCEPT ![s] = NoSync]
    /\ job' = [job EXCEPT ![s] = Idle]
    /\ UNCHANGED <<fills, day, raced, moves>>

(* An exception, the watchdog or the process ends the sync at an await: the  *)
(* session is rolled back, what record_exit committed stays.                 *)
SyncAbort(s) ==
    /\ job[s].pc # "idle" /\ Spend
    /\ job' = [job EXCEPT ![s] = Idle]
    /\ sync' = [sync EXCEPT ![s] = NoSync]
    /\ UNCHANGED <<fills, day, trades, raced, crossed>>

-----------------------------------------------------------------------------
SyncStep(s) ==
    \/ SyncFetch(s) \/ SyncRead(s) \/ SyncCommit(s)
    \/ \E t \in DOMAIN trades : SyncLookup(s, t)
    \/ ExitSum(s) \/ ExitWrite(s)

ClientStep(c) ==
    \/ ExitSum(c) \/ ExitWrite(c) \/ ExitFeed(c) \/ CancelWrite(c)

Environment ==
    \/ \E on \in Instruments, q \in 1..Qty :
          (\E side \in {"buy", "sell"} : UserTrades(on, side, q))
          \/ OpenTrade(on, "LONG", q)
    \/ NextDay
    \/ \E c \in Clients, t \in DOMAIN trades :
          CancelRead(c, t) \/ \E q \in 1..Qty : ExitRead(c, t, q)
    \/ \E s \in Syncs : SyncAbort(s)

Next ==
    \/ Environment
    \/ \E c \in Clients : ClientStep(c)
    \/ \E s \in Syncs : SyncStep(s)

(* The scheduler syncs every 30 s; nothing makes the environment act. *)
Fairness == \A s \in Syncs : WF_vars(SyncStep(s))

Spec == Init /\ [][Next]_vars /\ Fairness
-----------------------------------------------------------------------------
(* The portfolio's view of the table (services/portfolio/service.py). *)

Counted == {t \in DOMAIN trades : trades[t].status \in ClosedStatuses}

UserPnl == MapThenSumSet(LAMBDA t : trades[t].pnl, Counted)

-----------------------------------------------------------------------------
(* Type invariant. *)
Fill == [on : Instruments, side : {"buy", "sell"}, qty : 1..Qty, day : Days]

Trade == [src : {"MANUAL", "COINDCX_SYNC"}, on : Instruments,
          side : {"LONG", "SHORT"}, qty : 1..Qty,
          status : OpenStatuses \cup {"CLOSED", "CANCELLED"},
          since : Days, pnl : Int, exitDay : Days \cup {-1},
          exited : Nat, fed : Nat]

Work == [pc : {"idle", "read", "close", "sum", "write", "feed", "cancel"},
         t : Nat, qty : 0..Qty, pnl : Int, closed : Nat,
         reads : SUBSET Nat, stale : SUBSET Nat]

Session == [seen : [Instruments -> -Qty..Qty], new : SUBSET Instruments,
            touch : SUBSET Nat, todo : SUBSET Nat,
            pnl : UNION {[T -> Int] : T \in SUBSET Nat}]

TypeOK ==
    /\ fills \in Seq(Fill) /\ day \in Days /\ trades \in Seq(Trade)
    /\ job \in [Jobs -> Work] /\ sync \in [Syncs -> Session]
    /\ moves \in 0..MaxMoves
    /\ raced \subseteq DOMAIN trades /\ crossed \subseteq Instruments
    /\ \A j \in Jobs :
          job[j].reads \subseteq DOMAIN trades /\ job[j].stale \subseteq job[j].reads

(* However exits, cancellations and syncs overlap, a row the journal reports
   as CLOSED has executions for its whole quantity (journal.py:125, the last
   exit is the one that leaves nothing open). *)
ClosedIsSoldOut ==
    \A t \in DOMAIN trades : trades[t].status = "CLOSED" => trades[t].exited >= trades[t].qty

(* Only a lost race spoils the books: a trade no commit of which was made from
   an outdated read has executions within its quantity, a status that says how
   much of it is left, the P&L of its executions, a cancellation that discards
   none, and its result fed to the risk engine once (journal.py:120, 145, 170;
   routers/journal.py:152). *)
BooksAgree ==
    \A t \in DOMAIN trades \ raced :
        LET row == trades[t]
        IN  /\ row.exited <= row.qty
            /\ row.pnl = row.exited
            /\ row.fed <= 1
            /\ CASE row.status = "CLOSED" -> row.exited = row.qty
                 [] row.status = "PARTIALLY_CLOSED" -> row.exited \in 1..row.qty - 1
                 [] OTHER -> row.exited = 0

(* A position of the exchange is tracked by one open row, whatever syncs were
   aborted between their commits; only two syncs that overlap, the scheduler's
   and a request's (accounts.py:118), and both miss the row, may each create
   one (coindcx_sync.py:142-164). *)
OneOpenRowPerPosition ==
    raced = {} => \A on \in Instruments \ crossed :
        Cardinality({t \in DOMAIN trades : /\ trades[t].src = "COINDCX_SYNC" /\ trades[t].on = on
                                           /\ trades[t].status \in OpenStatuses}) <= 1

(* A tracked position that is gone, and whose closing fills are in the window
   the sync asks for, does not stay open in the journal (coindcx_sync.py:166);
   of two rows of one position only the last of the query is looked at (148).
   Against coindcx_sync.py:12 the trade is not closed when part of it has been
   exited already and the fills are for more than what is left: record_exit
   refuses, in every sync, the exit of the whole quantity (122). *)
Closable(t) == LET row == trades[t]
               IN  Filled(Normalize(row.on), ClosingSide(row.side), row.since)

Vanished(on) ==
    /\ raced = {} /\ on \notin crossed /\ Held(on) = 0
    /\ \E t \in OpenSynced(on) : Closable(t) > 0

Refused(on) ==
    \E t \in OpenSynced(on) :
        /\ trades[t].status = "PARTIALLY_CLOSED"
        /\ Closable(t) > trades[t].qty - trades[t].exited

VanishedIsNoticed == \A on \in Instruments : Vanished(on) ~> ~Vanished(on) \/ Refused(on)
=============================================================================
