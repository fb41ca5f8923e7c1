--------------------------- MODULE RiskStateStore ---------------------------
(***************************************************************************)
(* services/risk_engine/state_store.py and its writers, the journal's exit *)
(* endpoint (apps/api/routers/journal.py) and the risk router's            *)
(* reset-hard-kill (apps/api/routers/risk.py).                             *)
(*                                                                         *)
(* The dashboard's RiskEngine is one bot_state row.  A request loads it    *)
(* into an engine of its own, applies one method, and writes the whole     *)
(* engine back, each database call an await at which other requests run;   *)
(* no lock and no version column ties the write to the load.               *)
(***************************************************************************)
EXTENDS RiskEngine, FiniteSets

CONSTANTS
    Exits,          \* requests that close a trade in full
    Resets,         \* requests to reset the hard kill
    Results,        \* equity-relative pnl_pct a closed trade may have
    MaxInFlight,    \* how many requests the server handles at once
    MaxBackdate,    \* how far in the past ExitTradeIn.timestamp may lie
    CanCrash,       \* whether the process may die between two awaits
    MaxTime,        \* bound: the last instant of a behaviour
    NoRow           \* no bot_state row yet

ASSUME StoreAssumption ==
    /\ Results \subseteq Int
    /\ MaxInFlight \in Nat /\ MaxBackdate \in Nat /\ MaxTime \in Nat
    /\ CanCrash \in BOOLEAN
    /\ Exits \cap Resets = {}
    /\ NoRow \notin Engine

Requests == Exits \cup Resets

VARIABLES
    now,            \* UTC wall clock
    row,            \* the bot_state row, or NoRow
    pc,             \* where each request is
    stamp,          \* trade.exit_time of each exit
    seen,           \* the row each request's session is about to write over
    engine,         \* the engine each request will write back
    disorder        \* history: what has kept requests from being transactions

vars == <<now, row, pc, stamp, seen, engine, disorder>>

Idle == NewEngine(0)

Disorders == {"overlap", "crash", "backdate"}

Stages == {"new", "closed", "loaded", "checked", "done", "error", "died"}

InFlight == {r \in Requests : pc[r] \in {"closed", "loaded", "checked"}}

TypeOK ==
    /\ now \in 0..MaxTime
    /\ row \in Engine \/ row = NoRow
    /\ pc \in [Requests -> Stages]
    /\ stamp \in [Exits -> Nat]
    /\ seen \in [Requests -> Engine \cup {NoRow}]
    /\ engine \in [Requests -> Engine]
    /\ Cardinality(InFlight) <= MaxInFlight
    /\ disorder \subseteq Disorders

Init ==
    /\ now = 0
    /\ row = NoRow
    /\ pc = [r \in Requests |-> "new"]
    /\ stamp = [r \in Exits |-> 0]
    /\ seen = [r \in Requests |-> NoRow]
    /\ engine = [r \in Requests |-> Idle]
    /\ disorder = {}

(* The engine in a row; load_risk_engine builds a new one for no row.      *)
EngineOf(value) == IF value = NoRow THEN NewEngine(now) ELSE value

\* A request arrives: the server takes no more than MaxInFlight at a time.
Arrives(r) ==
    /\ pc[r] = "new"
    /\ Cardinality(InFlight) < MaxInFlight

Overlap == IF InFlight = {} THEN {} ELSE {"overlap"}

(* record_exit commits the trade as CLOSED, at the time the user gives.    *)
CloseTrade(r) ==
    /\ Arrives(r)
    /\ \E back \in 0..MaxBackdate :
          /\ now >= back
          /\ stamp' = [stamp EXCEPT ![r] = now - back]
          /\ disorder' = disorder \cup Overlap \cup
                 (IF Day(now - back) = Day(now) THEN {} ELSE {"backdate"})
    /\ pc' = [pc EXCEPT ![r] = "closed"]
    /\ UNCHANGED <<now, row, seen, engine>>

Load(r, updated) ==
    /\ engine' = [engine EXCEPT ![r] = updated]
    /\ pc' = [pc EXCEPT ![r] = "loaded"]
    /\ UNCHANGED <<now, row, stamp, seen>>

LoadForExit(r) ==
    /\ pc[r] = "closed"
    /\ \E pnl \in Results :
          Load(r, RecordTradeResult(EngineOf(row), pnl, stamp[r]))
    /\ UNCHANGED disorder

LoadForReset(r) ==
    /\ Arrives(r)
    /\ Load(r, ResetHardKill(EngineOf(row)))
    /\ disorder' = disorder \cup Overlap

(* save_risk_engine reads the row again.  load_risk_engine kept no         *)
(* reference to what it found and the session's identity map is weak, so   *)
(* what is committed by now is what the session sees.                      *)
CheckRow(r) ==
    /\ pc[r] = "loaded"
    /\ seen' = [seen EXCEPT ![r] = row]
    /\ pc' = [pc EXCEPT ![r] = "checked"]
    /\ UNCHANGED <<now, row, stamp, engine, disorder>>

\* Mutation: the changed value of an existing row is never sent.
WriteInsertsOnly(r) ==
    /\ pc[r] = "checked"
    /\ row' = IF row = NoRow THEN engine[r] ELSE row
    /\ pc' = [pc EXCEPT ![r] = "done"]
    /\ UNCHANGED <<now, stamp, seen, engine, disorder>>

(* The commit.  Without a row to update it is an INSERT, which the key's   *)
(* uniqueness refuses if a row has appeared; an UPDATE that changes        *)
(* nothing the session knows of is not sent at all.                        *)
Write(r) ==
    /\ pc[r] = "checked"
    /\ \/ /\ seen[r] = NoRow /\ row # NoRow
          /\ pc' = [pc EXCEPT ![r] = "error"]
          /\ UNCHANGED row
       \/ /\ seen[r] # NoRow \/ row = NoRow
          /\ row' = IF seen[r] = engine[r] THEN row ELSE engine[r]
          /\ pc' = [pc EXCEPT ![r] = "done"]
    /\ UNCHANGED <<now, stamp, seen, engine, disorder>>

(* The process dies: requests in flight are gone, what is committed stays. *)
Crash ==
    /\ CanCrash
    /\ InFlight # {}
    /\ pc' = [r \in Requests |-> IF r \in InFlight THEN "died" ELSE pc[r]]
    /\ disorder' = disorder \cup {"crash"}
    /\ UNCHANGED <<now, row, stamp, seen, engine>>

Tick ==
    /\ now < MaxTime
    /\ now' = now + 1
    /\ UNCHANGED <<row, pc, stamp, seen, engine, disorder>>

Next ==
    \/ \E r \in Exits : CloseTrade(r) \/ LoadForExit(r)
    \/ \E r \in Resets : LoadForReset(r)
    \/ \E r \in Requests : CheckRow(r) \/ Write(r)
    \/ Crash
    \/ Tick

Spec == Init /\ [][Next]_vars

-----------------------------------------------------------------------------
ClosedToday == {r \in Exits : pc[r] = "done" /\ Day(stamp[r]) = Day(now)}

(* While requests come one at a time and report today's exits, every       *)
(* closed trade the server answered for is in the day's count, once        *)
(* (exit_manual_trade feeds record_trade_result).                          *)
EveryCloseCounted ==
    disorder = {} =>
        ResetDaily(EngineOf(row), now).dailyTrades = Cardinality(ClosedToday)

(* Lost updates, crashes and backdated exits lose results but never count  *)
(* one twice, nor one the server did not answer for.                       *)
NeverOvercounts ==
    ResetDaily(EngineOf(row), now).dailyTrades <= Cardinality(ClosedToday)
=============================================================================
