-------------------------- MODULE CandleIngestion --------------------------
(***************************************************************************)
(* Candle ingestion (services/market_data/ingestion.py) by the scheduler's *)
(* job and by the download script, over one candles table.                 *)
(*                                                                         *)
(* Candles of the timeframe are numbered; the one that is forming is       *)
(* `clock`, those before it are closed.  A backfill first plans up to two  *)
(* ranges from the oldest and newest candle stored, then stores page after *)
(* page.  INSERT ... ON CONFLICT DO NOTHING makes storing a set union.     *)
(***************************************************************************)
EXTENDS Integers, Sequences, FiniteSets, FiniteSetsExt

CONSTANTS
    Job, Script,    \* the scheduler's ingester, the operator's scripts
    Lookback,       \* CANDLE_INGESTION_LOOKBACK_HOURS, in candles
    PageLimit,      \* page_limit
    Scripts,        \* bound: first candles a script may be asked for
    MaxCandle,      \* bound: candles
    MaxFaults       \* bound: aborted ingestions and signal jobs

ASSUME IngestionAssumption ==
    Lookback \in Nat /\ PageLimit \in Nat \ {0} /\ Scripts \subseteq Nat \ {0} /\ MaxCandle \in Nat

VARIABLES
    clock, stored,
    ingest,     \* per ingester: the ranges it still has to fill, its position
    excused,    \* history: candles a plan may leave out for good
    faults

ingestVars == <<clock, stored, ingest, excused, faults>>

Ingesters == {Job, Script}
Candles == 1..MaxCandle
NoPlan == <<>>

(* The range's candles are since..last; `while since < range_end` stops at stop, *)
(* which is now for a forward range and the last candle itself for a history one. *)
Span(from, last, stop) == [since |-> from, last |-> last, stop |-> stop]

MinStored == Min(stored)
MaxStored == Max(stored)

(* Mutation: the candle after the newest one is taken for stored, too. *)
ForwardFromTwo(start) ==
    IF stored # {} /\ MaxStored + 2 > start THEN MaxStored + 2 ELSE start

ForwardFrom(start) ==
    IF stored # {} /\ MaxStored + 1 > start THEN MaxStored + 1 ELSE start

Plan(start) ==
    LET history == stored # {} /\ start < MinStored
        from == ForwardFrom(start)
    IN  (IF history THEN <<Span(start, MinStored - 1, MinStored - 1)>> ELSE <<>>)
        \o (IF from <= clock THEN <<Span(from, clock, clock + 1)>> ELSE <<>>)

Excuses(start) ==
    IF stored = {} THEN 1..start - 1
    ELSE start..MinStored - 1 \cup MaxStored + 1..start - 1

IngestInit ==
    /\ clock \in 1..MaxCandle - 1 /\ stored = {}
    /\ ingest = [i \in Ingesters |-> NoPlan]
    /\ excused = {} /\ faults = 0

CandleCloses ==
    /\ clock < MaxCandle
    /\ clock' = clock + 1
    /\ UNCHANGED <<stored, ingest, excused, faults>>

(* min and max are read once, before any page. *)
Backfill(i, start) ==
    /\ ingest[i] = NoPlan /\ Plan(start) # <<>>
    /\ ingest' = [ingest EXCEPT ![i] = Plan(start)]
    /\ excused' = excused \cup Excuses(start)
    /\ UNCHANGED <<clock, stored, faults>>

(* now - lookback, rounded up to a candle. *)
JobTick == Backfill(Job, Max({1, clock - Lookback}))
ScriptRuns == \E start \in Scripts : Backfill(Script, start)

(* A still forming candle is never stored. *)
Complete(page) == {c \in page : c < clock}

(* ON CONFLICT DO NOTHING. *)
WithRows(candles) == stored \cup candles

Inserted(page) == WithRows(Complete(page))

(* One page, or the end of the range: at its end, or at the live edge. *)
Page(i) ==
    /\ ingest[i] # NoPlan
    /\ LET r == Head(ingest[i])
           page == {c \in r.since..r.since + PageLimit - 1 : c <= r.last}
           done == r.since >= r.stop \/ Complete(page) = {}
       IN  /\ stored' = IF done THEN stored ELSE Inserted(page)
           /\ ingest' = [ingest EXCEPT ![i] = IF done THEN Tail(@)
                                              ELSE <<[r EXCEPT !.since = Max(Complete(page)) + 1]>> \o Tail(@)]
    /\ UNCHANGED <<clock, excused, faults>>

(* An exchange error, the watchdog, the end of the process. *)
IngestFails(i) ==
    /\ ingest[i] # NoPlan /\ faults < MaxFaults
    /\ ingest' = [ingest EXCEPT ![i] = NoPlan]
    /\ faults' = faults + 1
    /\ UNCHANGED <<clock, stored, excused>>

JobStep == JobTick \/ Page(Job)

IngestNext ==
    \/ CandleCloses \/ JobTick \/ ScriptRuns
    \/ \E i \in Ingesters : Page(i) \/ IngestFails(i)

-----------------------------------------------------------------------------
Holes == {c \in Candles : stored # {} /\ c \in Min(stored)..Max(stored) /\ c \notin stored}

(* However ingestions overlap and whatever ends them, a candle is missing
   between two stored ones only if a plan left it out: one that started after
   it, past the lookback, or one that was filling history behind what was
   stored (ingestion.py:196).  Resuming forward loses nothing, and what is
   stored is closed. *)
HolesAreExcused == Holes \subseteq excused /\ \A c \in stored : c < clock

(* Every closed candle arrives, in spite of the aborted ticks, unless a plan has
   left it out (ingestion.py:225). *)
CandlesArrive ==
    \A c \in Candles :
        c < clock ~> c \in stored \cup excused \/ (stored # {} /\ Min(stored) > c)
=============================================================================
