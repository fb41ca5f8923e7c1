---------------------------- MODULE MarketFeed ----------------------------
(***************************************************************************)
(* The live market-data feed: the public CoinDCX socket                    *)
(* (services/market_data/coindcx_ws.py), the supervisor of its first       *)
(* connection and its alerts (live_state.py).                              *)
(*                                                                         *)
(* The socket library connects again by itself after a drop; it runs the   *)
(* connect handler in a task of its own, so a drop can be handled while    *)
(* the handler of the connect before it still awaits.  Ages count instants *)
(* since a message, up to one past the limit; Never before the first.      *)
(***************************************************************************)
EXTENDS Integers, Sequences, FiniteSets

CONSTANTS
    Handlers,       \* tasks that run a connect or disconnect handler
    StaleAfter,     \* DEFAULT_STALE_AFTER
    MaxDrops        \* bound: times the server drops the connection

ASSUME MarketFeedAssumption == StaleAfter \in Nat /\ MaxDrops \in Nat /\ IsFiniteSet(Handlers)

VARIABLES
    up,         \* environment: the server accepts connections
    drops,      \* connections it has dropped
    supervisor, \* where the startup retry task stands
    attempt,    \* its failed attempts, as far as they change the delay
    connected,  \* _connected; the library's own state is the same at every await
    ever,       \* _ever_connected
    notified,   \* _last_notified_status
    ping,       \* whether _ping_task refers to a running loop
    orphans,    \* ping loops nothing refers to any more
    handler,    \* per task: where its handler awaits, and the status it has read
    alerts,     \* alerts sent
    age,        \* of the last message, and of the last traded price
    overlap     \* history: a handler has started while another was running

feedVars == <<up, drops, supervisor, attempt, connected, ever, notified, ping, orphans,
            handler, alerts, age, overlap>>
socket == <<connected, ever, notified, ping, orphans, handler, alerts, overlap>>
startup == <<supervisor, attempt>>
server == <<up, drops>>

Never == StaleAfter + 2
Delays == 5                 \* Len(STARTUP_RETRY_DELAYS_SECONDS)

Free == [pc |-> "free", old |-> "NONE", new |-> "NONE"]
At(pc) == [Free EXCEPT !.pc = pc]
Busy == {h \in Handlers : handler[h].pc # "free"}

Status == IF connected THEN "LIVE" ELSE "DISCONNECTED"

FeedInit ==
    /\ up \in BOOLEAN /\ drops = 0
    /\ supervisor = "off" /\ attempt = 0
    /\ connected = FALSE /\ ever = FALSE /\ notified = "NONE"
    /\ ping = FALSE /\ orphans = 0
    /\ handler = [h \in Handlers |-> Free]
    /\ alerts = <<>> /\ overlap = FALSE
    /\ age = [message |-> Never, price |-> Never]

ServerChanges ==
    /\ up' = ~up /\ (connected => up')
    /\ UNCHANGED <<drops, startup, socket, age>>

-----------------------------------------------------------------------------
(* The supervisor of the first connection. *)

StartFeed ==
    /\ supervisor = "off"
    /\ supervisor' = "trying"
    /\ UNCHANGED <<server, attempt, socket, age>>

Handle(h, pc) ==
    /\ handler[h] = Free
    /\ handler' = [handler EXCEPT ![h] = At(pc)]
    /\ overlap' = (overlap \/ Busy # {})

Connected(h) ==
    /\ up /\ ~connected
    /\ connected' = TRUE /\ ever' = TRUE
    /\ Handle(h, "join")
    /\ UNCHANGED <<notified, ping, orphans, alerts>>

(* connect() returns or raises; the supervisor is done at the first success. *)
FirstConnect(h) ==
    /\ supervisor = "trying"
    /\ Connected(h)
    /\ supervisor' = "done"
    /\ UNCHANGED <<server, attempt, age>>

FirstConnectFails ==
    /\ supervisor = "trying" /\ ~up
    /\ supervisor' = "waiting"
    /\ attempt' = IF attempt < Delays - 1 THEN attempt + 1 ELSE attempt
    /\ UNCHANGED <<server, socket, age>>

(* Mutation: the retries end with the list of delays. *)
RetryUntilExhausted ==
    /\ supervisor = "waiting"
    /\ supervisor' = IF attempt < Delays - 1 THEN "trying" ELSE "done"
    /\ UNCHANGED <<server, attempt, socket, age>>

Retry ==
    /\ supervisor = "waiting"
    /\ supervisor' = "trying"
    /\ UNCHANGED <<server, attempt, socket, age>>

(* The library's own reconnection, after a first success only. *)
Reconnect(h) ==
    /\ supervisor = "done" /\ ever
    /\ Connected(h)
    /\ UNCHANGED <<server, startup, age>>

-----------------------------------------------------------------------------
(* The handlers. *)

(* Mutation: the ping loop is not cancelled. *)
DroppedKeepsPing(h) ==
    /\ connected /\ drops < MaxDrops
    /\ drops' = drops + 1
    /\ up' \in BOOLEAN
    /\ connected' = FALSE
    /\ Handle(h, "notify")
    /\ UNCHANGED <<startup, ever, notified, ping, orphans, alerts, age>>

Dropped(h) ==
    /\ connected /\ drops < MaxDrops
    /\ drops' = drops + 1
    /\ up' \in BOOLEAN
    /\ connected' = FALSE
    /\ ping' = FALSE
    /\ Handle(h, "notify")
    /\ UNCHANGED <<startup, ever, notified, orphans, alerts, age>>

(* Both channels are joined, then the ping loop is created; an emit on a *)
(* connection that is gone raises and ends the handler.                  *)
Join(h) ==
    /\ handler[h].pc = "join"
    /\ \/ /\ handler' = [handler EXCEPT ![h] = At("notify")]
          /\ orphans' = IF ping THEN orphans + 1 ELSE orphans
          /\ ping' = TRUE
       \/ /\ ~connected
          /\ handler' = [handler EXCEPT ![h] = Free]
          /\ UNCHANGED <<ping, orphans>>
    /\ UNCHANGED <<server, startup, connected, ever, notified, alerts, age, overlap>>

(* The status is compared with the last one notified before the callback. *)
Notify(h) ==
    /\ handler[h].pc = "notify"
    /\ IF notified \notin {"NONE", Status}
       THEN /\ handler' = [handler EXCEPT ![h] = [pc |-> "callback", old |-> notified, new |-> Status]]
            /\ UNCHANGED notified
       ELSE /\ handler' = [handler EXCEPT ![h] = Free]
            /\ notified' = Status
    /\ UNCHANGED <<server, startup, connected, ever, ping, orphans, alerts, age, overlap>>

(* Audit row, then the alert, then the assignment; a refused row ends it all. *)
Callback(h) ==
    /\ handler[h].pc = "callback"
    /\ \/ /\ alerts' = Append(alerts, handler[h].new)
          /\ notified' = handler[h].new
       \/ UNCHANGED <<alerts, notified>>
    /\ handler' = [handler EXCEPT ![h] = Free]
    /\ UNCHANGED <<server, startup, connected, ever, ping, orphans, age, overlap>>

(* A loop wakes up, finds the socket disconnected and ends. *)
PingEnds ==
    /\ ~connected /\ (orphans > 0 \/ ping)
    /\ IF orphans > 0 THEN orphans' = orphans - 1 /\ UNCHANGED ping
                      ELSE ping' = FALSE /\ UNCHANGED orphans
    /\ UNCHANGED <<server, startup, connected, ever, notified, handler, alerts, age, overlap>>

-----------------------------------------------------------------------------
(* Messages and their freshness. *)

PriceMessage ==
    /\ connected
    /\ age' = [message |-> 0, price |-> 0]
    /\ UNCHANGED <<server, startup, socket>>

(* A mark price is a message too: it moves received_at, not the traded price. *)
MarkPriceMessage ==
    /\ connected
    /\ age' = [age EXCEPT !.message = 0]
    /\ UNCHANGED <<server, startup, socket>>

Older(a) == IF a <= StaleAfter THEN a + 1 ELSE a

AgesGrow ==
    /\ age' = [k \in DOMAIN age |-> Older(age[k])]
    /\ UNCHANGED <<server, startup, socket>>

ConnectionStatus ==
    IF ~connected THEN IF ever THEN "DISCONNECTED" ELSE "UNAVAILABLE"
    ELSE IF age.message = Never THEN "UNAVAILABLE"
    ELSE IF age.message <= StaleAfter THEN "LIVE" ELSE "STALE"

-----------------------------------------------------------------------------
HandlerStep(h) == Join(h) \/ Notify(h) \/ Callback(h)

Connecting == FirstConnectFails \/ Retry \/ \E h \in Handlers : FirstConnect(h) \/ Reconnect(h)

FeedNext ==
    \/ ServerChanges \/ StartFeed \/ Connecting
    \/ \E h \in Handlers : Dropped(h) \/ HandlerStep(h)
    \/ PingEnds \/ PriceMessage \/ MarkPriceMessage \/ AgesGrow

(* The event loop resumes handlers and timers; the server may do as it likes. *)
FeedFairness ==
    /\ WF_feedVars(StartFeed) /\ WF_feedVars(Connecting) /\ WF_feedVars(PingEnds)
    /\ \A h \in Handlers : WF_feedVars(HandlerStep(h))

FeedSpec == FeedInit /\ [][FeedNext]_feedVars /\ FeedFairness
-----------------------------------------------------------------------------
(* Type invariant. *)
FeedTypeOK ==
    /\ supervisor \in {"off", "trying", "waiting", "done"} /\ attempt \in 0..Delays - 1
    /\ notified \in {"NONE", "LIVE", "DISCONNECTED"}
    /\ \A i \in DOMAIN alerts : alerts[i] \in {"LIVE", "DISCONNECTED"}
    /\ orphans \in 0..MaxDrops /\ \A k \in DOMAIN age : age[k] \in 0..Never

(* As long as each handler ends before the next starts, alerts alternate, the
   first one is of a loss, none announces the first connection, and a
   connection has one ping loop (coindcx_ws.py:219, live_state.py:69): whatever
   was refused, dropped or reconnected meanwhile. *)
AlertsAlternate ==
    ~overlap =>
        /\ \A i \in DOMAIN alerts : alerts[i] = IF i % 2 = 1 THEN "DISCONNECTED" ELSE "LIVE"
        /\ connected => orphans = 0

(* A server that stays up is found, whether the first attempt met it or the
   hundredth (live_state.py:126): the supervisor never gives up and the library
   takes over from it. *)
FeedConnects == <>[]up => <>[]connected
=============================================================================
