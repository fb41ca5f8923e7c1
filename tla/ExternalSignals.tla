--------------------------- MODULE ExternalSignals ---------------------------
(***************************************************************************)
(* services/telegram_signals: what process_incoming_channel_message        *)
(* (pipeline.py) does with each delivery of a channel message -- store it  *)
(* (ingestion.py), parse it into an ExternalSignal, offer it to the live   *)
(* executor, and open a paper trade within the shared daily budget         *)
(* (paper_execution.py, risk_engine/fixed_margin.py).                      *)
(*                                                                         *)
(* The bot and the MTProto listener each start a handler per delivery, in  *)
(* a database session of its own; every database or network call is an     *)
(* await.  The live executor is the ledger LiveExecution implements; its   *)
(* keys are the signals', and a delivery makes one signal at most, so both *)
(* are named by the delivery.                                              *)
(***************************************************************************)
EXTENDS Naturals, FiniteSets

CONSTANTS
    Deliveries,     \* updates Telegram delivers, new or repeated
    Messages,       \* channel messages
    Symbols,        \* supported symbols
    MaxEdit,        \* bound: edits of one message
    MaxInFlight,    \* how many deliveries are handled at once
    DailyTradeMax,  \* DAILY_TRADE_MAX
    MaxAi,          \* bound: AI trades of one day, after which there are none
    MaxDay,         \* bound: the last day of a behaviour
    AutomaticTrading,   \* settings.automatic_trading_enabled
    Verified,       \* see ExecutionLedger
    Database,       \* "postgresql" or "sqlite": see Persist
    NoMessage, NoSignal, NoUpdate

ASSUME ExternalAssumption ==
    /\ MaxEdit \in Nat /\ MaxAi \in Nat /\ MaxDay \in Nat
    /\ MaxInFlight \in Nat \ {0} /\ DailyTradeMax \in Nat \ {0}
    /\ AutomaticTrading \in BOOLEAN /\ Verified \subseteq BOOLEAN
    /\ Database \in {"postgresql", "sqlite"}
    /\ NoMessage \notin [text : 0..MaxEdit, edit : 0..MaxEdit]

VARIABLES
    today,          \* UTC calendar day
    messages,       \* external_telegram_messages: text and edit stamp
    signals,        \* external_signals that are VALID, by delivery
    trades,         \* TELEGRAM_EXTERNAL trades rows: OPEN or CLOSED
    aiTrades,       \* number of AI_PAPER rows entered on each day
    ledger, calls, verified,    \* the live executor
    pc,             \* each delivery's next await
    update,         \* what each delivery brings: message and edit stamp
    row,            \* the message row as each delivery's session holds it
    crowd           \* history: the most deliveries ever in flight at once

executor == <<ledger, calls, verified>>
delivery == <<pc, update, row, crowd>>
tables == <<messages, signals, trades, aiTrades>>
vars == <<today, messages, signals, trades, aiTrades, ledger, calls, verified,
          pc, update, row, crowd>>

Executor == INSTANCE ExecutionLedger WITH Keys <- Deliveries

Edits == 0..MaxEdit     \* 0 is the original post

Message == [text : Edits, edit : Edits]

Update == [message : Messages, edit : Edits]

Signal == [message : Messages, text : Edits, symbol : Symbols, day : 0..MaxDay]

Working ==
    {"find", "edit", "insert", "parse", "live", "decide", "open", "budget",
     "persist"}

TypeOK ==
    /\ today \in 0..MaxDay
    /\ messages \in [Messages -> Message \cup {NoMessage}]
    /\ signals \in [Deliveries -> Signal \cup {NoSignal}]
    /\ trades \in [Deliveries -> {"none", "OPEN", "CLOSED"}]
    /\ aiTrades \in [0..MaxDay -> 0..MaxAi]
    /\ pc \in [Deliveries -> Working \cup {"new", "ended"}]
    /\ update \in [Deliveries -> Update \cup {NoUpdate}]
    /\ row \in [Deliveries -> Message \cup {NoMessage}]
    /\ \A d \in Deliveries :
          /\ pc[d] \in {"find", "insert", "edit", "parse"}
                => update[d] \in Update
          /\ pc[d] \in {"edit", "parse"} => row[d] \in Message
          /\ pc[d] \in {"live", "decide", "open", "budget", "persist"}
                => signals[d] \in Signal
    /\ crowd \in 0..MaxInFlight

Init ==
    /\ today = 0
    /\ messages = [m \in Messages |-> NoMessage]
    /\ signals = [d \in Deliveries |-> NoSignal]
    /\ trades = [d \in Deliveries |-> "none"]
    /\ aiTrades = [t \in 0..MaxDay |-> 0]
    /\ Executor!Init
    /\ pc = [d \in Deliveries |-> "new"]
    /\ update = [d \in Deliveries |-> NoUpdate]
    /\ row = [d \in Deliveries |-> NoMessage]
    /\ crowd = 0

-----------------------------------------------------------------------------
Goto(d, stage) == pc' = [pc EXCEPT ![d] = stage]

\* The message is not looked at again.
Forget(d) ==
    /\ update' = [update EXCEPT ![d] = NoUpdate]
    /\ row' = [row EXCEPT ![d] = NoMessage]

Larger(a, b) == IF a > b THEN a ELSE b

InFlight == {d \in Deliveries : pc[d] \in Working}

(* Telegram delivers a post or an edit, perhaps once more than before, and *)
(* perhaps an edit of a message it never delivered.                        *)
Deliver(d) ==
    /\ pc[d] = "new"
    /\ Cardinality(InFlight) < MaxInFlight
    /\ \E m \in Messages, e \in Edits :
          update' = [update EXCEPT ![d] = [message |-> m, edit |-> e]]
    /\ crowd' = Larger(crowd, Cardinality(InFlight) + 1)
    /\ Goto(d, "find")
    /\ UNCHANGED <<today, tables, executor, row>>

\* Mutation: an edit is taken whatever its time.
FindTakesAnyEdit(d) ==
    /\ pc[d] = "find"
    /\ LET found == messages[update[d].message]
       IN  /\ row' = [row EXCEPT ![d] = found]
           /\ Goto(d, IF found = NoMessage THEN "insert"
                      ELSE IF update[d].edit > 0 THEN "edit" ELSE "parse")
    /\ UNCHANGED <<today, tables, executor, update, crowd>>

(* ingest_message: a known message is taken as it is, unless this is an    *)
(* edit newer than the one stored.                                         *)
FindMessage(d) ==
    /\ pc[d] = "find"
    /\ LET found == messages[update[d].message]
       IN  /\ row' = [row EXCEPT ![d] = found]
           /\ Goto(d, IF found = NoMessage THEN "insert"
                      ELSE IF update[d].edit > found.edit THEN "edit"
                      ELSE "parse")
    /\ UNCHANGED <<today, tables, executor, update, crowd>>

EditMessage(d) ==
    /\ pc[d] = "edit"
    /\ LET edited == [text |-> update[d].edit, edit |-> update[d].edit]
       IN  /\ messages' = [messages EXCEPT ![update[d].message] = edited]
           /\ row' = [row EXCEPT ![d] = edited]
    /\ Goto(d, "parse")
    /\ UNCHANGED <<today, signals, trades, aiTrades,
                   executor, update, crowd>>

(* A new message is stored with the delivered text and no edit stamp; the  *)
(* unique index refuses it if the other transport was faster, and nothing  *)
(* catches that exception.                                                 *)
InsertMessage(d) ==
    /\ pc[d] = "insert"
    /\ LET new == [text |-> update[d].edit, edit |-> 0]
       IN  IF messages[update[d].message] = NoMessage
           THEN /\ messages' = [messages EXCEPT ![update[d].message] = new]
                /\ row' = [row EXCEPT ![d] = new]
                /\ Goto(d, "parse")
                /\ UNCHANGED update
           ELSE Goto(d, "ended") /\ Forget(d) /\ UNCHANGED messages
    /\ UNCHANGED <<today, signals, trades, aiTrades,
                   executor, crowd>>

(* process_message: the text the session holds is parsed and its entry     *)
(* compared with the market; what is not VALID ends here.                  *)
ParseMessage(d) ==
    /\ pc[d] = "parse"
    /\ \/ /\ \E s \in Symbols :
                signals' = [signals EXCEPT ![d] =
                    [message |-> update[d].message, text |-> row[d].text,
                     symbol |-> s, day |-> today]]
          /\ Goto(d, IF AutomaticTrading THEN "live" ELSE "open")
       \/ Goto(d, "ended") /\ UNCHANGED signals
    /\ Forget(d)
    /\ UNCHANGED <<today, messages, trades, aiTrades,
                   executor, crowd>>

\* maybe_attempt_live_execution, on the ledger.
OfferLive(d) ==
    /\ pc[d] = "live"
    /\ Executor!Receive(d)
    /\ Goto(d, "decide")
    /\ UNCHANGED <<today, tables, update, row, crowd>>

AttemptLive(d) ==
    /\ pc[d] = "decide"
    /\ Executor!Attempt(d)
    /\ UNCHANGED <<today, tables, delivery>>

RejectLive(d) ==
    /\ pc[d] = "decide"
    /\ Executor!Reject(d)
    /\ Goto(d, "open")
    /\ UNCHANGED <<today, tables, update, row, crowd>>

OpenTrades(s) ==
    {d \in Deliveries : trades[d] = "OPEN" /\ signals[d].symbol = s}

\* Mutation: the trader's other symbols are looked up instead.
FindOpenElsewhere(d) ==
    /\ pc[d] = "open"
    /\ Goto(d, IF \E s \in Symbols \ {signals[d].symbol} : OpenTrades(s) # {}
               THEN "ended" ELSE "budget")
    /\ UNCHANGED <<today, tables, executor, update, row, crowd>>

(* execute_valid_signal: get_open_paper_trade first ...                    *)
FindOpen(d) ==
    /\ pc[d] = "open"
    /\ Goto(d, IF OpenTrades(signals[d].symbol) # {} THEN "ended" ELSE "budget")
    /\ UNCHANGED <<today, tables, executor, update, row, crowd>>

Entries(day) ==
    {d \in Deliveries : trades[d] # "none" /\ signals[d].day = day}

\* Mutation: only the trades still open count.
TradesTodayOpen ==
    Cardinality({d \in Entries(today) : trades[d] = "OPEN"}) + aiTrades[today]

(* get_daily_trade_budget: today's entries of both sources.                *)
TradesToday == Cardinality(Entries(today)) + aiTrades[today]

(* ... then check_fixed_margin_trade, which also refuses when there is no  *)
(* USDT/INR rate.  The position put in memory here is read by nothing.     *)
CheckBudget(d) ==
    /\ pc[d] = "budget"
    /\ \/ TradesToday < DailyTradeMax /\ Goto(d, "persist")
       \/ Goto(d, "ended")
    /\ UNCHANGED <<today, tables, executor, update, row, crowd>>

(* persist_paper_open, with the signal's created_at as entry time (the     *)
(* trade_id then set on the signal is read by nothing here).  The          *)
(* trade_id "TG-<uuid>" has 39 characters, the column is String(30):       *)
(* PostgreSQL refuses the row, SQLite, which the tests use, takes it.      *)
Persist(d) ==
    /\ pc[d] = "persist"
    /\ IF Database = "sqlite"
       THEN trades' = [trades EXCEPT ![d] = "OPEN"] /\ Goto(d, "ended")
       ELSE Goto(d, "ended") /\ UNCHANGED trades
    /\ UNCHANGED <<today, messages, signals, aiTrades,
                   executor, update, row, crowd>>

(* A database or network call raises, or the handler is cancelled.         *)
Fail(d) ==
    /\ pc[d] \in Working
    /\ Goto(d, "ended")
    /\ Forget(d)
    /\ UNCHANGED <<today, tables, executor, crowd>>

(* The journal's exit endpoint closes a trade; nothing else closes one     *)
(* that came from Telegram.                                                *)
CloseTrade(d) ==
    /\ trades[d] = "OPEN"
    /\ trades' = [trades EXCEPT ![d] = "CLOSED"]
    /\ UNCHANGED <<today, messages, signals, aiTrades,
                   executor, delivery>>

(* ai_paper_trading_job opens trades without asking for the budget.        *)
AiTrade ==
    /\ \A day \in 0..today : aiTrades[day] < MaxAi
    /\ aiTrades' = [aiTrades EXCEPT ![today] = @ + 1]
    /\ UNCHANGED <<today, messages, signals, trades,
                   executor, delivery>>

Midnight ==
    /\ today < MaxDay
    /\ today' = today + 1
    /\ UNCHANGED <<tables, executor, delivery>>

Step(d) ==
    \/ FindMessage(d)
    \/ EditMessage(d)
    \/ InsertMessage(d)
    \/ ParseMessage(d)
    \/ OfferLive(d)
    \/ AttemptLive(d)
    \/ RejectLive(d)
    \/ FindOpen(d)
    \/ CheckBudget(d)
    \/ Persist(d)

Next ==
    \/ \E d \in Deliveries : Deliver(d) \/ Step(d) \/ Fail(d) \/ CloseTrade(d)
    \/ AiTrade
    \/ Midnight

Spec == Init /\ [][Next]_vars

-----------------------------------------------------------------------------
(* The budget is counted in the table and spent some awaits later, on the  *)
(* day the signal was parsed: a day's Telegram entries can exceed          *)
(* DAILY_TRADE_MAX, but by less than twice the deliveries ever in flight   *)
(* together -- one crowd past the check at once, one that parses before    *)
(* midnight and is counted after it (get_daily_trade_budget: "hard         *)
(* ceiling").                                                              *)
DailyEntriesBounded ==
    \A day \in 0..MaxDay :
        Cardinality(Entries(day)) < DailyTradeMax + 2 * Larger(crowd, 1)

(* A symbol has at most as many open Telegram trades as deliveries have    *)
(* been in flight together: one, if they come one at a time                *)
(* (execute_valid_signal looks for an open trade before it opens).         *)
OpenTradesBounded ==
    \A s \in Symbols : Cardinality(OpenTrades(s)) <= crowd

(* Its text is an edit's, stored as though it were the post's: an edit     *)
(* delivered before its post loses its time stamp.                         *)
Unstamped(message) == message.text > message.edit

(* As long as deliveries come one at a time, in whatever order Telegram    *)
(* delivers them, no step puts an older text in the place of a newer one   *)
(* (ingest_message compares the time stamps) -- except once for a message  *)
(* whose first delivery was an edit, which any later edit replaces.  No    *)
(* step makes a stored message one of those.                               *)
EditsMoveForward ==
    [][crowd <= 1 => \A m \in Messages : messages[m] # NoMessage =>
          /\ messages'[m] # NoMessage
          /\ messages'[m].text >= messages[m].text \/ Unstamped(messages[m])
          /\ Unstamped(messages'[m]) => messages'[m] = messages[m]]_vars
=============================================================================
