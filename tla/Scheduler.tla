----------------------------- MODULE Scheduler -----------------------------
(***************************************************************************)
(* The background scheduler (services/scheduler/runner.py) and its circuit *)
(* breakers (circuit_breaker.py): one loop per job, every tick under a     *)
(* watchdog, every job behind a breaker of its own.  The AI paper trading  *)
(* job has a breaker and no loop: it runs inside the signal job's tick.    *)
(*                                                                         *)
(* Instants are not kept but counted down: what is left of a sleep, of the *)
(* watchdog's patience, of a backoff.                                      *)
(***************************************************************************)
EXTENDS Integers

CONSTANTS
    Loops,          \* names of the loops start() creates
    Closing,        \* loops whose tick closes its client in a finally
    Signal, AI,     \* the loop that nests a job, and the nested job
    Interval,       \* loop |-> its sleep between two ticks
    Timeout,        \* JOB_TICK_TIMEOUT_SECONDS
    Threshold,      \* failure_threshold
    Base,           \* base_backoff_seconds
    MaxBackoff      \* max_backoff_seconds

ASSUME SchedulerAssumption ==
    /\ Closing \subseteq Loops /\ Signal \in Loops \ Closing /\ AI \notin Loops
    /\ Interval \in [Loops -> Nat \ {0}] /\ Timeout \in Nat \ {0}
    /\ Threshold \in Nat \ {0} /\ Base \in Nat \ {0} /\ MaxBackoff \in Nat \ {0}

VARIABLES
    running,    \* SchedulerRunner._running
    loop,       \* per loop: where its task stands, and the time left there
    since,      \* per loop: seconds_since_last_tick of the heartbeat
    breaker,    \* per job: state, consecutive failures, time to next_retry_at
    fine,       \* environment: FALSE while calls may raise or hang
    overdue     \* history: loops whose last tick went on after the watchdog

vars == <<running, loop, since, breaker, fine, overdue>>

Jobs == Loops \cup {AI}

Lower(a, b) == IF a < b THEN a ELSE b

-----------------------------------------------------------------------------
(* The circuit breaker. *)

Fresh == [state |-> "CLOSED", failures |-> 0, wait |-> 0]

Backoff(failures) ==
    Lower(Base * 2^(failures - Threshold), MaxBackoff)

(* More failures than this wait no longer: the counter stops here. *)
Saturated == Threshold + MaxBackoff

(* Mutation: an open breaker tries again at once. *)
CanAttemptAnytime(b) == TRUE

(* Mutation: an open breaker never tries again. *)
CanAttemptNever(b) == b.state # "OPEN"

CanAttempt(b) == b.state = "OPEN" => b.wait = 0

Attempting(b) == IF b.state = "OPEN" THEN [b EXCEPT !.state = "HALF_OPEN"] ELSE b

Failed(b) ==
    LET f == Lower(b.failures + 1, Saturated)
    IN  IF f >= Threshold THEN [state |-> "OPEN", failures |-> f, wait |-> Backoff(f)]
                          ELSE [b EXCEPT !.failures = f]

-----------------------------------------------------------------------------
Off == [pc |-> "off", left |-> 0]
Asleep(l) == [pc |-> "sleep", left |-> Interval[l]]

Init ==
    /\ running = FALSE
    /\ loop = [l \in Loops |-> Off]
    /\ since = [l \in Loops |-> 0]
    /\ breaker = [b \in Jobs |-> Fresh]
    /\ fine = TRUE /\ overdue = {}

Weather == fine' = ~fine /\ UNCHANGED <<running, loop, since, breaker, overdue>>

Start ==
    /\ ~running
    /\ running' = TRUE
    /\ loop' = [l \in Loops |-> [pc |-> "sleep", left |-> 0]]
    /\ since' = [l \in Loops |-> 0] /\ overdue' = {}
    /\ UNCHANGED <<breaker, fine>>

(* Every task is cancelled; a tick ends at its await and records nothing. *)
Stop ==
    /\ running
    /\ running' = FALSE
    /\ loop' = [l \in Loops |-> Off]
    /\ UNCHANGED <<since, breaker, fine, overdue>>

(* An iteration: the heartbeat first, then the job unless its circuit is open. *)
Tick(l) ==
    /\ loop[l] = [pc |-> "sleep", left |-> 0]
    /\ since' = [since EXCEPT ![l] = 0] /\ overdue' = overdue \ {l}
    /\ IF CanAttempt(breaker[l])
       THEN /\ breaker' = [breaker EXCEPT ![l] = Attempting(@)]
            /\ loop' = [loop EXCEPT ![l] = [pc |-> "job", left |-> Timeout]]
       ELSE /\ loop' = [loop EXCEPT ![l] = Asleep(l)]
            /\ UNCHANGED breaker
    /\ UNCHANGED <<running, fine>>

(* What follows a tick's body: the finally, or the sleep. *)
Over(l) ==
    IF l \in Closing THEN [loop EXCEPT ![l].pc = "close"]
                     ELSE [loop EXCEPT ![l] = Asleep(l)]

(* An account sync that is answered with an error status succeeds as well. *)
Succeed(l) ==
    /\ loop[l].pc = "job" /\ l # Signal
    /\ breaker' = [breaker EXCEPT ![l] = Fresh]
    /\ loop' = Over(l)
    /\ UNCHANGED <<running, since, fine, overdue>>

Fail(l) ==
    /\ loop[l].pc = "job" /\ ~fine
    /\ breaker' = [breaker EXCEPT ![l] = Failed(@)]
    /\ loop' = Over(l)
    /\ UNCHANGED <<running, since, fine, overdue>>

(* The signal job is done; the nested job is asked for in the same tick. *)
Nest ==
    /\ loop[Signal].pc = "job"
    /\ IF CanAttempt(breaker[AI])
       THEN /\ breaker' = [breaker EXCEPT ![AI] = Attempting(@)]
            /\ loop' = [loop EXCEPT ![Signal].pc = "nested"]
       ELSE /\ breaker' = [breaker EXCEPT ![Signal] = Fresh]
            /\ loop' = Over(Signal)
    /\ UNCHANGED <<running, since, fine, overdue>>

(* Either way the signal job has succeeded. *)
Unnest ==
    /\ loop[Signal].pc = "nested"
    /\ \/ breaker' = [breaker EXCEPT ![AI] = Fresh, ![Signal] = Fresh]
       \/ ~fine /\ breaker' = [breaker EXCEPT ![AI] = Failed(@), ![Signal] = Fresh]
    /\ loop' = Over(Signal)
    /\ UNCHANGED <<running, since, fine, overdue>>

(* Mutation: the cancelled tick is not followed by a sleep of its own. *)
TimeOutAndWait(l) ==
    /\ loop[l].pc \in {"job", "nested", "close"} /\ loop[l].left = 0
    /\ loop' = [loop EXCEPT ![l] = [pc |-> "sleep", left |-> Interval[l] + Timeout]]
    /\ UNCHANGED <<running, since, breaker, fine, overdue>>

(* A body that was cancelled still has its finally before it. *)
Unclosed(l) == l \in Closing /\ loop[l].pc # "close"

(* The watchdog cancels the tick: CancelledError passes every handler.  wait_for
   waits for the cancelled tick, whose close() no one cancels. *)
TimeOut(l) ==
    /\ loop[l].pc \in {"job", "nested", "close"} /\ loop[l].left = 0
    /\ loop' = [loop EXCEPT ![l] = IF Unclosed(l) THEN [pc |-> "closing", left |-> 0] ELSE Asleep(l)]
    /\ overdue' = IF Unclosed(l) THEN overdue \cup {l} ELSE overdue
    /\ UNCHANGED <<running, since, breaker, fine>>

(* close() raising leaves _loop: nothing starts the task again. *)
Close(l) ==
    /\ loop[l].pc \in {"close", "closing"}
    /\ \/ loop' = [loop EXCEPT ![l] = Asleep(l)]
       \/ ~fine /\ loop' = [loop EXCEPT ![l] = [pc |-> "dead", left |-> 0]]
    /\ UNCHANGED <<running, since, breaker, fine, overdue>>

(* A call hangs only while it may; otherwise it returns before the watchdog.  The
   close of a cancelled tick has no watchdog: it may hang for good. *)
Late(l) == \/ loop[l] = [pc |-> "sleep", left |-> 0]
           \/ loop[l].pc \in {"job", "nested", "close"} /\ (fine \/ loop[l].left = 0)

Patience(l) == Interval[l] + Timeout + 1

TimePasses ==
    /\ \A l \in Loops : ~Late(l)
    /\ loop' = [l \in Loops |-> [loop[l] EXCEPT !.left = IF @ > 0 THEN @ - 1 ELSE 0]]
    /\ since' = [l \in Loops |-> Lower(since[l] + 1, Patience(l))]
    /\ breaker' = [b \in Jobs |-> [breaker[b] EXCEPT !.wait = IF @ > 0 THEN @ - 1 ELSE 0]]
    /\ UNCHANGED <<running, fine, overdue>>

-----------------------------------------------------------------------------
LoopStep(l) == Tick(l) \/ Succeed(l) \/ Fail(l) \/ TimeOut(l) \/ Close(l)

NestedStep == Nest \/ Unnest

Next ==
    \/ Start \/ Stop \/ Weather \/ TimePasses \/ NestedStep
    \/ \E l \in Loops : LoopStep(l)

(* Time passes, and the event loop resumes what is due. *)
Fairness ==
    /\ WF_vars(TimePasses) /\ WF_vars(NestedStep)
    /\ \A l \in Loops : WF_vars(loop[l].pc # "closing" /\ LoopStep(l))

Spec == Init /\ [][Next]_vars /\ Fairness
-----------------------------------------------------------------------------
(* Type invariant; a breaker is closed exactly below the threshold. *)
TypeOK ==
    /\ running \in BOOLEAN /\ fine \in BOOLEAN /\ overdue \subseteq Loops
    /\ loop \in [Loops -> [pc : {"off", "sleep", "job", "nested", "close", "closing", "dead"}, left : Nat]]
    /\ \A l \in Loops : since[l] \in 0..Patience(l)
    /\ \A b \in Jobs :
          /\ breaker[b].failures \in 0..Saturated /\ breaker[b].wait \in 0..MaxBackoff
          /\ breaker[b].state = "CLOSED" <=> breaker[b].failures < Threshold

(* What the heartbeat is for (runner.py:238): a loop that has not ticked for an
   interval and the watchdog's time is dead, or the watchdog could not end its
   last tick, however its jobs failed or hung.  Both happen only where the tick
   closes a client in its finally, against "never block that job's loop
   forever" (runner.py:20). *)
HeartbeatTells ==
    running => \A l \in Loops :
        /\ since[l] = Patience(l) => loop[l].pc = "dead" \/ l \in overdue
        /\ loop[l].pc = "dead" \/ l \in overdue => l \in Closing

(* However ticks, the nested job, timeouts and restarts of the scheduler
   interleave, a job that has failed Threshold times in a row is not called
   again before its backoff is over (circuit_breaker.py:49). *)
Calls(b) == IF b = AI THEN loop[Signal].pc = "nested"
                      ELSE loop[b].pc \in {"job", "nested"}

BackoffKept ==
    [][\A b \in Jobs : ~Calls(b) /\ Calls(b)' /\ breaker[b].failures >= Threshold
           => breaker[b].wait = 0]_vars

(* Once calls are answered again and the scheduler is left running, the breaker of
   every job whose loop is not dead or held by a close() is closed for good
   (circuit_breaker.py:60): no breaker is left open or half open by a cancelled
   trial, a skipped tick or the other breaker of the tick. *)
Recovers ==
    \A b \in Jobs :
        (<>[](fine /\ running))
            => <>[](breaker[b].state = "CLOSED" \/ (b # AI /\ loop[b].pc \in {"dead", "closing"}))

=============================================================================
