-------------------------- MODULE SchedulerProofs --------------------------
(***************************************************************************)
(* Theorems about the three services that run for as long as the process:  *)
(* the scheduler with its breakers, the live market feed and the position  *)
(* monitor, for every set of loops, handlers, trades and requests and      *)
(* every interval, limit and number of faults.                             *)
(*                                                                         *)
(* Scheduler.  A loop's heartbeat is as old as the time it has spent since *)
(* its tick, and what it has left bounds what it will still spend, unless  *)
(* its last tick went on after the watchdog: OnSchedule.  A breaker at its *)
(* threshold is not closed, and one on trial has no wait left: Breakers.   *)
(*                                                                         *)
(* Market feed.  While no two handlers overlap, what a handler has read    *)
(* still holds when it acts on it (InTurn), and the status notified last   *)
(* says whether the number of alerts is even (Alternating).                *)
(*                                                                         *)
(* Position monitor.  What is said of one key and of a refused row is      *)
(* inductive (Alerts, Refusals); a step of one check changes by one at     *)
(* most who sends a key or has found it new (Moves).                       *)
(***************************************************************************)
EXTENDS Scheduler, MarketFeed, PositionMonitor, FiniteSetTheorems, SequenceTheorems, TLAPS

Places == {"off", "sleep", "job", "nested", "close", "closing", "dead"}

Types ==
    /\ loop \in [Loops -> [pc : Places, left : Nat]]
    /\ since \in [Loops -> Nat]

OnSchedule ==
    \A l \in Loops :
        /\ loop[l].pc \in {"job", "nested", "close"} => since[l] + loop[l].left <= Timeout
        /\ loop[l].pc = "closing" => l \in overdue
        /\ loop[l].pc = "sleep" => l \in overdue \/ since[l] + loop[l].left <= Interval[l] + Timeout
        /\ loop[l].pc \in {"close", "dead"} \/ l \in overdue => l \in Closing
        /\ running => loop[l].pc # "off"

Sound(b) ==
    /\ b = [state |-> b.state, failures |-> b.failures, wait |-> b.wait]
    /\ b.failures \in Nat
    /\ b.state \in {"CLOSED", "OPEN", "HALF_OPEN"}
    /\ b.state = "CLOSED" => b.failures < Threshold
    /\ b.state = "HALF_OPEN" => b.wait = 0

Breakers ==
    /\ DOMAIN breaker = Jobs
    /\ breaker = [b \in Jobs |-> breaker[b]]
    /\ \A b \in Jobs : Sound(breaker[b])

IInv == Types /\ OnSchedule /\ Breakers

-----------------------------------------------------------------------------
(* What the methods of a breaker leave is sound again (circuit_breaker.py:38). *)
LEMMA FreshSound == Sound(Fresh)
BY SchedulerAssumption DEF Sound, Fresh

(* A breaker that is asked is half open at most once its wait is over
   (circuit_breaker.py:52). *)
LEMMA AttemptingSound == ASSUME NEW b, Sound(b), CanAttempt(b) PROVE Sound(Attempting(b))
<1>1. b = [state |-> b.state, failures |-> b.failures, wait |-> b.wait] BY DEF Sound
<1>2. CASE b.state # "OPEN" BY <1>2 DEF Attempting
<1>3. CASE b.state = "OPEN"
  <2>1. Attempting(b) = [state |-> "HALF_OPEN", failures |-> b.failures, wait |-> b.wait]
        BY <1>1, <1>3 DEF Attempting
  <2>2. b.wait = 0 BY <1>3 DEF CanAttempt
  <2> QED BY <2>1, <2>2 DEF Sound
<1> QED BY <1>2, <1>3

(* A failure opens a breaker that has reached its threshold
   (circuit_breaker.py:68). *)
LEMMA FailedSound == ASSUME NEW b, Sound(b) PROVE Sound(Failed(b))
<1> DEFINE f == Lower(b.failures + 1, Saturated)
<1>1. f \in Nat BY SchedulerAssumption DEF Lower, Saturated, Sound
<1>2. CASE f >= Threshold
  <2>1. Failed(b) = [state |-> "OPEN", failures |-> f, wait |-> Backoff(f)] BY <1>2 DEF Failed
  <2> HIDE DEF f
  <2> QED BY <2>1, <1>1 DEF Sound
<1>3. CASE ~(f >= Threshold)
  <2>1. Failed(b) = [b EXCEPT !.failures = f] BY <1>3 DEF Failed
  <2>2. b = [state |-> b.state, failures |-> b.failures, wait |-> b.wait] BY DEF Sound
  <2> HIDE DEF f
  <2>3. Failed(b) = [state |-> b.state, failures |-> f, wait |-> b.wait] BY <2>1, <2>2
  <2>4. f < Threshold BY <1>1, <1>3, SchedulerAssumption
  <2> QED BY <2>3, <2>4, <1>1 DEF Sound
<1> QED BY <1>2, <1>3

(* Waiting changes nothing but the wait. *)
LEMMA WaitedSound ==
    ASSUME NEW b, Sound(b)
    PROVE  Sound([b EXCEPT !.wait = IF @ > 0 THEN @ - 1 ELSE 0])
<1> DEFINE w == IF b.wait > 0 THEN b.wait - 1 ELSE 0
<1>1. b = [state |-> b.state, failures |-> b.failures, wait |-> b.wait] BY DEF Sound
<1>2. [b EXCEPT !.wait = IF @ > 0 THEN @ - 1 ELSE 0]
        = [state |-> b.state, failures |-> b.failures, wait |-> w] BY <1>1
<1>3. b.wait = 0 => w = 0 OBVIOUS
<1> HIDE DEF w
<1> QED BY <1>2, <1>3 DEF Sound

-----------------------------------------------------------------------------
(* When nothing has been started yet, every loop is off. *)
LEMMA InitIInv == Init => IInv
<1> SUFFICES ASSUME Init PROVE IInv OBVIOUS
<1>1. Types /\ OnSchedule BY DEF Init, Off, Types, OnSchedule, Places
<1>2. Breakers BY FreshSound DEF Init, Breakers
<1> QED BY <1>1, <1>2 DEF IInv

(* A step changes the breaker of one job, or of two, to sound ones. *)
LEMMA BreakerSet ==
    ASSUME Breakers, NEW j \in Jobs, NEW v, Sound(v), breaker' = [breaker EXCEPT ![j] = v]
    PROVE  Breakers'
BY DEF Breakers

(* Every step of the loops, and of the nested job, leaves the breakers sound. *)
LEMMA BreakersStep == IInv /\ [Next]_vars => Breakers'
<1> SUFFICES ASSUME IInv, [Next]_vars PROVE Breakers' OBVIOUS
<1> USE DEF IInv
<1>0. Loops \subseteq Jobs /\ AI \in Jobs /\ Signal \in Loops /\ AI # Signal BY SchedulerAssumption DEF Jobs
<1>1. ASSUME UNCHANGED breaker PROVE Breakers' BY <1>1 DEF Breakers
<1>2. CASE Start BY <1>2, <1>1 DEF Start
<1>3. CASE Stop BY <1>3, <1>1 DEF Stop
<1>4. CASE Weather BY <1>4, <1>1 DEF Weather
<1>5. CASE TimePasses BY <1>5, WaitedSound DEF TimePasses, Breakers
<1>6. CASE Nest
  <2>1. CASE CanAttempt(breaker[AI])
        BY <1>6, <2>1, <1>0, BreakerSet, AttemptingSound DEF Nest, Breakers
  <2>2. CASE ~CanAttempt(breaker[AI])
        BY <1>6, <2>2, <1>0, BreakerSet, FreshSound DEF Nest
  <2> QED BY <2>1, <2>2
<1>7. CASE Unnest
  <2>1. PICK v \in {Fresh, Failed(breaker[AI])} :
          breaker' = [breaker EXCEPT ![AI] = v, ![Signal] = Fresh] BY <1>7 DEF Unnest
  <2>2. Sound(v) /\ Sound(Fresh) BY <1>0, FreshSound, FailedSound DEF Breakers
  <2> QED BY <2>1, <2>2, <1>0 DEF Breakers
<1>8. ASSUME NEW l \in Loops, LoopStep(l) PROVE Breakers'
  <2>1. CASE Tick(l)
    <3>1. CASE CanAttempt(breaker[l])
          BY <2>1, <3>1, <1>0, BreakerSet, AttemptingSound DEF Tick, Breakers
    <3>2. CASE ~CanAttempt(breaker[l]) BY <2>1, <3>2, <1>1 DEF Tick
    <3> QED BY <3>1, <3>2
  <2>2. CASE Succeed(l) BY <2>2, <1>0, BreakerSet, FreshSound DEF Succeed
  <2>3. CASE Fail(l) BY <2>3, <1>0, BreakerSet, FailedSound DEF Fail, Breakers
  <2>4. CASE TimeOut(l) BY <2>4, <1>1 DEF TimeOut
  <2>5. CASE Close(l) BY <2>5, <1>1 DEF Close
  <2> QED BY <1>8, <2>1, <2>2, <2>3, <2>4, <2>5 DEF LoopStep
<1>9. CASE UNCHANGED vars BY <1>9, <1>1 DEF vars
<1> QED BY <1>2, <1>3, <1>4, <1>5, <1>6, <1>7, <1>8, <1>9 DEF Next, NestedStep

-----------------------------------------------------------------------------
(* What one loop is and when it ticked, as OnSchedule wants it. *)
Punctual(l, at, gone, on, late) ==
    /\ at \in [pc : Places, left : Nat] /\ gone \in Nat
    /\ at.pc \in {"job", "nested", "close"} => gone + at.left <= Timeout
    /\ at.pc = "closing" => l \in late
    /\ at.pc = "sleep" => l \in late \/ gone + at.left <= Interval[l] + Timeout
    /\ at.pc \in {"close", "dead"} \/ l \in late => l \in Closing
    /\ on => at.pc # "off"

(* The invariant, said of one loop. *)
LEMMA PunctualLoops ==
    IInv => \A l \in Loops : Punctual(l, loop[l], since[l], running, overdue)
<1> SUFFICES ASSUME Types, OnSchedule, NEW l \in Loops
             PROVE  Punctual(l, loop[l], since[l], running, overdue)
    BY Zenon DEF IInv
<1>1. loop[l] \in [pc : Places, left : Nat] /\ since[l] \in Nat BY DEF Types
<1> QED BY <1>1 DEF OnSchedule, Punctual

(* A step that moves one loop and leaves the rest alone. *)
LEMMA OneMoved ==
    ASSUME Types, OnSchedule, NEW l \in Loops, NEW at, NEW gone, running' = running,
           loop' = [loop EXCEPT ![l] = at], since' = [since EXCEPT ![l] = gone],
           \A k \in Loops \ {l} : k \in overdue' <=> k \in overdue,
           Punctual(l, at, gone, running, overdue')
    PROVE  (Types /\ OnSchedule)'
<1>1. at \in [pc : Places, left : Nat] /\ gone \in Nat BY DEF Punctual
<1>2. Types' BY <1>1 DEF Types
<1>3. ASSUME NEW k \in Loops PROVE Punctual(k, loop'[k], since'[k], running, overdue')
  <2>1. CASE k = l BY <2>1 DEF Types
  <2>2. CASE k # l
    <3>1. loop'[k] = loop[k] /\ since'[k] = since[k] BY <2>2 DEF Types
    <3> QED BY <3>1 DEF Types, OnSchedule, Punctual
  <2> QED BY <2>1, <2>2
<1>4. OnSchedule' BY <1>3 DEF OnSchedule, Punctual
<1> QED BY <1>2, <1>4

(* The loop alone moves, its last tick is as old as it was. *)
LEMMA OneMovedOn ==
    ASSUME Types, OnSchedule, NEW l \in Loops, NEW at, running' = running,
           loop' = [loop EXCEPT ![l] = at], since' = since, overdue' = overdue,
           Punctual(l, at, since[l], running, overdue)
    PROVE  (Types /\ OnSchedule)'
<1>1. since' = [since EXCEPT ![l] = since[l]] BY DEF Types
<1>2. Punctual(l, at, since[l], running, overdue') OBVIOUS
<1>3. \A k \in Loops \ {l} : k \in overdue' <=> k \in overdue OBVIOUS
<1> QED BY <1>1, <1>2, <1>3, OneMoved

(* A tick that is over goes to sleep, or into its finally. *)
LEMMA OverPunctual ==
    ASSUME Types, OnSchedule, NEW l \in Loops, loop[l].pc \in {"job", "nested"}, running' = running,
           loop' = Over(l), since' = since, overdue' = overdue
    PROVE  (Types /\ OnSchedule)'
<1>0. loop[l] \in [pc : Places, left : Nat] /\ since[l] \in Nat /\ Interval[l] \in Nat /\ Timeout \in Nat
      BY SchedulerAssumption DEF Types
<1>0a. since[l] + loop[l].left <= Timeout /\ (l \in overdue => l \in Closing) BY DEF OnSchedule
<1>1. CASE l \in Closing
  <2> DEFINE at == [loop[l] EXCEPT !.pc = "close"]
  <2>1. loop' = [loop EXCEPT ![l] = at] BY <1>1 DEF Over, Types
  <2>2. at = [pc |-> "close", left |-> loop[l].left] BY <1>0
  <2>3. Punctual(l, at, since[l], running, overdue) BY <2>2, <1>0, <1>0a, <1>1 DEF Punctual, Places
  <2> HIDE DEF at
  <2> QED BY <2>1, <2>3, OneMovedOn
<1>2. CASE l \notin Closing
  <2>1. loop' = [loop EXCEPT ![l] = Asleep(l)] BY <1>2 DEF Over
  <2>2. Punctual(l, Asleep(l), since[l], running, overdue)
        BY <1>0, <1>0a, <1>2 DEF Asleep, Punctual, Places
  <2> QED BY <2>1, <2>2, OneMovedOn
<1> QED BY <1>1, <1>2

(* Every step leaves the loops on schedule (runner.py, the watchdog and the sleep). *)
LEMMA ScheduleStep == IInv /\ [Next]_vars => (Types /\ OnSchedule)'
<1> SUFFICES ASSUME IInv, [Next]_vars PROVE (Types /\ OnSchedule)' OBVIOUS
<1>0. Types /\ OnSchedule BY DEF IInv
<1>1. \A l \in Loops : Punctual(l, loop[l], since[l], running, overdue) BY PunctualLoops
<1>2. Timeout \in Nat /\ \A l \in Loops : Interval[l] \in Nat BY SchedulerAssumption
<1>3. ASSUME UNCHANGED <<running, loop, since, overdue>> PROVE (Types /\ OnSchedule)'
      BY <1>0, <1>3 DEF Types, OnSchedule
<1>4. CASE Start BY <1>4, <1>2 DEF Start, Types, OnSchedule, Places
<1>5. CASE Stop BY <1>5, <1>0 DEF Stop, Types, OnSchedule, Places, Off
<1>6. CASE Weather BY <1>6, <1>3 DEF Weather
<1>7. CASE TimePasses
  <2>1. ASSUME NEW l \in Loops PROVE Punctual(l, loop'[l], since'[l], running, overdue)
    <3> DEFINE left == IF loop[l].left > 0 THEN loop[l].left - 1 ELSE 0
               gone == Lower(since[l] + 1, Patience(l))
    <3>1. loop[l] \in [pc : Places, left : Nat] /\ since[l] \in Nat BY <1>0 DEF Types
    <3>2. loop'[l] = [pc |-> loop[l].pc, left |-> left] BY <1>7, <3>1 DEF TimePasses
    <3>3. since'[l] = gone BY <1>7 DEF TimePasses
    <3>4. gone \in Nat /\ gone <= since[l] + 1 BY <3>1, <1>2 DEF Lower, Patience
    <3>5. left \in Nat /\ (loop[l].left > 0 => left = loop[l].left - 1) BY <3>1
    <3>6. ~Late(l) BY <1>7 DEF TimePasses
    <3>8. loop[l].pc \in {"job", "nested", "close"} => loop[l].left > 0 BY <3>1, <3>6 DEF Late
    <3>9. loop[l].pc = "sleep" => loop[l].left > 0
      <4>1. loop[l] = [pc |-> loop[l].pc, left |-> loop[l].left] BY <3>1
      <4>2. loop[l] # [pc |-> "sleep", left |-> 0] BY <3>6 DEF Late
      <4> QED BY <3>1, <4>1, <4>2
    <3> HIDE DEF left, gone
    <3> QED BY <1>1, <1>2, <3>1, <3>2, <3>3, <3>4, <3>5, <3>8, <3>9 DEF Punctual
  <2>2. DOMAIN loop' = Loops /\ DOMAIN since' = Loops /\ running' = running
        /\ overdue' = overdue BY <1>7 DEF TimePasses
  <2>3. loop' = [l \in Loops |-> loop'[l]] /\ since' = [l \in Loops |-> since'[l]] BY <1>7 DEF TimePasses
  <2>4. Types' BY <2>1, <2>3 DEF Types, Punctual
  <2>5. OnSchedule' BY <2>1, <2>2 DEF OnSchedule, Punctual
  <2> QED BY <2>4, <2>5
<1>8. CASE Nest
  <2>0. /\ Signal \in Loops /\ loop[Signal].pc = "job" /\ running' = running
        /\ since' = since /\ overdue' = overdue
        BY <1>8, SchedulerAssumption DEF Nest
  <2>1. CASE CanAttempt(breaker[AI])
    <3> DEFINE at == [loop[Signal] EXCEPT !.pc = "nested"]
    <3>1. loop' = [loop EXCEPT ![Signal] = at] BY <1>8, <2>1, <1>0 DEF Nest, Types
    <3>2. at = [pc |-> "nested", left |-> loop[Signal].left] BY <1>0, <2>0 DEF Types
    <3>3. Punctual(Signal, at, since[Signal], running, overdue) BY <1>1, <2>0, <3>2 DEF Punctual, Places
    <3> HIDE DEF at
    <3> QED BY <1>0, <2>0, <3>1, <3>3, OneMovedOn
  <2>2. CASE ~CanAttempt(breaker[AI])
    <3>1. loop' = Over(Signal) BY <1>8, <2>2 DEF Nest
    <3> QED BY <1>0, <2>0, <3>1, OverPunctual
  <2> QED BY <2>1, <2>2
<1>9. CASE Unnest
  <2>1. Signal \in Loops /\ loop[Signal].pc = "nested" BY <1>9, SchedulerAssumption DEF Unnest
  <2> QED BY <1>9, <1>0, <2>1, OverPunctual DEF Unnest
<1>10. ASSUME NEW l \in Loops, LoopStep(l) PROVE (Types /\ OnSchedule)'
  <2>0. Punctual(l, loop[l], since[l], running, overdue) BY <1>1
  <2>1. CASE Tick(l)
    <3>0. /\ since' = [since EXCEPT ![l] = 0] /\ overdue' = overdue \ {l} /\ running' = running
          /\ l \notin overdue' /\ \A k \in Loops \ {l} : k \in overdue' <=> k \in overdue
          BY <2>1 DEF Tick
    <3>1. CASE CanAttempt(breaker[l])
      <4> DEFINE at == [pc |-> "job", left |-> Timeout]
      <4>1. Punctual(l, at, 0, running, overdue') BY <1>2, <3>0 DEF Punctual, Places
      <4>2. loop' = [loop EXCEPT ![l] = at] BY <2>1, <3>1 DEF Tick
      <4> HIDE DEF at
      <4> QED BY <1>0, <3>0, <4>1, <4>2, OneMoved
    <3>2. CASE ~CanAttempt(breaker[l])
      <4>1. Punctual(l, Asleep(l), 0, running, overdue') BY <1>2, <3>0 DEF Punctual, Places, Asleep
      <4>2. loop' = [loop EXCEPT ![l] = Asleep(l)] BY <2>1, <3>2 DEF Tick
      <4> QED BY <1>0, <3>0, <4>1, <4>2, OneMoved
    <3> QED BY <3>1, <3>2
  <2>2. CASE Succeed(l) BY <2>2, <1>0, OverPunctual DEF Succeed
  <2>3. CASE Fail(l) BY <2>3, <1>0, OverPunctual DEF Fail
  <2>4. CASE TimeOut(l)
    <3>0. /\ loop[l].pc \in {"job", "nested", "close"} /\ since' = since /\ running' = running
          /\ since[l] \in Nat /\ loop[l].left \in Nat
          BY <2>4, <1>0 DEF TimeOut, Types
    <3>1. CASE Unclosed(l)
      <4> DEFINE at == [pc |-> "closing", left |-> 0]
      <4>1. loop' = [loop EXCEPT ![l] = at] /\ overdue' = overdue \cup {l} BY <2>4, <3>1 DEF TimeOut
      <4>2. l \in overdue' /\ \A k \in Loops \ {l} : k \in overdue' <=> k \in overdue BY <4>1
      <4>3. Punctual(l, at, since[l], running, overdue')
            BY <3>0, <3>1, <4>2 DEF Punctual, Places, Unclosed
      <4>4. since' = [since EXCEPT ![l] = since[l]] BY <1>0, <3>0 DEF Types
      <4> HIDE DEF at
      <4> QED BY <1>0, <3>0, <4>1, <4>2, <4>3, <4>4, OneMoved
    <3>2. CASE ~Unclosed(l)
      <4>1. loop' = [loop EXCEPT ![l] = Asleep(l)] /\ overdue' = overdue BY <2>4, <3>2 DEF TimeOut
      <4>2. since[l] <= Timeout BY <1>2, <2>0, <3>0 DEF Punctual
      <4>3. Punctual(l, Asleep(l), since[l], running, overdue)
            BY <1>2, <2>0, <3>0, <4>2 DEF Punctual, Places, Asleep
      <4> QED BY <1>0, <3>0, <4>1, <4>3, OneMovedOn
    <3> QED BY <3>1, <3>2
  <2>5. CASE Close(l)
    <3>0. /\ loop[l].pc \in {"close", "closing"} /\ since' = since /\ running' = running
          /\ overdue' = overdue /\ since[l] \in Nat /\ loop[l].left \in Nat
          BY <2>5, <1>0 DEF Close, Types
    <3>1. PICK at \in {Asleep(l), [pc |-> "dead", left |-> 0]} : loop' = [loop EXCEPT ![l] = at]
          BY <2>5 DEF Close
    <3>2. l \in overdue \/ since[l] <= Timeout BY <1>2, <2>0, <3>0 DEF Punctual
    <3>3. l \in Closing BY <2>0, <3>0 DEF Punctual
    <3>4. Punctual(l, at, since[l], running, overdue)
          BY <1>2, <3>0, <3>2, <3>3 DEF Punctual, Places, Asleep
    <3> QED BY <1>0, <3>0, <3>1, <3>4, OneMovedOn
  <2> QED BY <1>10, <2>1, <2>2, <2>3, <2>4, <2>5 DEF LoopStep
<1>11. CASE UNCHANGED vars BY <1>11, <1>3 DEF vars
<1> QED BY <1>4, <1>5, <1>6, <1>7, <1>8, <1>9, <1>10, <1>11 DEF Next, NestedStep

(* So they always are. *)
LEMMA Invariance == Spec => []IInv
<1>1. IInv /\ [Next]_vars => IInv' BY BreakersStep, ScheduleStep DEF IInv
<1> QED BY InitIInv, <1>1, PTL DEF Spec

-----------------------------------------------------------------------------
(* A loop whose heartbeat is older than an interval and the watchdog's time is
   dead, or its last tick went on after the watchdog, and only a loop that
   closes its client does either (runner.py:112, 224): whatever the number of
   loops, the times, the failures and the calls that hang. *)
THEOREM HeartbeatAlwaysTells == Spec => []HeartbeatTells
<1>1. IInv => HeartbeatTells
  <2> SUFFICES ASSUME IInv, running, NEW l \in Loops
               PROVE  /\ since[l] = Patience(l) => (loop[l].pc = "dead" \/ l \in overdue)
                      /\ (loop[l].pc = "dead" \/ l \in overdue) => l \in Closing
      BY Zenon DEF HeartbeatTells
  <2>1. Punctual(l, loop[l], since[l], running, overdue) BY PunctualLoops
  <2>2. Timeout \in Nat /\ Interval[l] \in Nat BY SchedulerAssumption
  <2>3. ASSUME since[l] = Patience(l) PROVE loop[l].pc = "dead" \/ l \in overdue
    <3>1. since[l] > Interval[l] + Timeout BY <2>2, <2>3 DEF Patience
    <3> QED BY <2>1, <2>2, <3>1 DEF Punctual, Places
  <2> QED BY <2>1, <2>3 DEF Punctual
<1> QED BY <1>1, Invariance, PTL

(* A loop is where it was, unless the step is its own or the nested job's. *)
LEMMA OnlyTickCalls ==
    ASSUME IInv, Next, NEW b \in Jobs, ~Calls(b), Calls(b)'
    PROVE  CanAttempt(breaker[b])
<1>0. /\ Signal \in Loops /\ AI \notin Loops /\ Jobs = Loops \cup {AI}
      /\ \A l \in Loops : loop[l] \in [pc : Places, left : Nat]
      BY SchedulerAssumption DEF IInv, Types, Jobs
<1> DEFINE Quiet(l) == loop'[l].pc = loop[l].pc \/ loop'[l].pc \notin {"job", "nested"}
<1>1. ASSUME \A l \in Loops : Quiet(l) PROVE FALSE
  <2>1. CASE b = AI BY <1>0, <1>1, <2>1 DEF Calls
  <2>2. CASE b # AI
    <3>1. b \in Loops /\ Quiet(b) BY <1>0, <1>1, <2>2
    <3> QED BY <2>2, <3>1 DEF Calls
  <2> QED BY <2>1, <2>2
<1>2. ASSUME NEW l \in Loops, loop' = Over(l) PROVE \A k \in Loops : Quiet(k)
      BY <1>0, <1>2 DEF Over, Asleep, IInv, Types
<1>3. ASSUME UNCHANGED loop PROVE \A k \in Loops : Quiet(k) BY <1>3
<1>4. CASE Start BY <1>1, <1>4 DEF Start
<1>5. CASE Stop BY <1>1, <1>5 DEF Stop, Off
<1>6. CASE Weather BY <1>1, <1>3, <1>6 DEF Weather
<1>7. CASE TimePasses BY <1>0, <1>1, <1>7 DEF TimePasses
<1>8. CASE Nest
  <2>1. CASE CanAttempt(breaker[AI])
    <3>1. loop[Signal].pc = "job" /\ loop' = [loop EXCEPT ![Signal].pc = "nested"]
          BY <1>8, <2>1 DEF Nest
    <3>2. CASE b = AI BY <2>1, <3>2
    <3>3. CASE b = Signal BY <1>0, <3>1, <3>3 DEF Calls
    <3>4. CASE b # AI /\ b # Signal
      <4>1. b \in Loops /\ loop'[b] = loop[b] BY <1>0, <3>1, <3>4 DEF IInv, Types
      <4> QED BY <3>4, <4>1 DEF Calls
    <3> QED BY <3>2, <3>3, <3>4
  <2>2. CASE ~CanAttempt(breaker[AI]) BY <1>0, <1>1, <1>2, <1>8, <2>2 DEF Nest
  <2> QED BY <2>1, <2>2
<1>9. CASE Unnest BY <1>0, <1>1, <1>2, <1>9 DEF Unnest
<1>10. ASSUME NEW l \in Loops, LoopStep(l) PROVE CanAttempt(breaker[b])
  <2>1. CASE Tick(l)
    <3>1. CASE CanAttempt(breaker[l])
      <4>1. loop[l].pc = "sleep" /\ loop' = [loop EXCEPT ![l] = [pc |-> "job", left |-> Timeout]]
            BY <2>1, <3>1 DEF Tick
      <4>2. CASE b = l BY <3>1, <4>2
      <4>3. CASE b = AI
        <5>1. loop'[Signal].pc = "nested" /\ loop[Signal].pc # "nested" BY <4>3 DEF Calls
        <5> QED BY <1>0, <4>1, <5>1 DEF IInv, Types
      <4>4. CASE b # l /\ b # AI
        <5>1. b \in Loops /\ loop'[b] = loop[b] BY <1>0, <4>1, <4>4 DEF IInv, Types
        <5> QED BY <4>4, <5>1 DEF Calls
      <4> QED BY <4>2, <4>3, <4>4
    <3>2. CASE ~CanAttempt(breaker[l])
      <4>1. loop' = [loop EXCEPT ![l] = Asleep(l)] BY <2>1, <3>2 DEF Tick
      <4> QED BY <1>0, <1>1, <4>1 DEF Asleep, IInv, Types
    <3> QED BY <3>1, <3>2
  <2>2. CASE Succeed(l) BY <1>1, <1>2, <2>2 DEF Succeed
  <2>3. CASE Fail(l) BY <1>1, <1>2, <2>3 DEF Fail
  <2>4. CASE TimeOut(l)
    <3>1. PICK at \in {Asleep(l), [pc |-> "closing", left |-> 0]} : loop' = [loop EXCEPT ![l] = at]
          BY <2>4 DEF TimeOut
    <3>2. at.pc \notin {"job", "nested"} BY <3>1 DEF Asleep
    <3> QED BY <1>0, <1>1, <3>1, <3>2 DEF IInv, Types
  <2>5. CASE Close(l)
    <3>1. PICK at \in {Asleep(l), [pc |-> "dead", left |-> 0]} : loop' = [loop EXCEPT ![l] = at]
          BY <2>5 DEF Close
    <3>2. at.pc \notin {"job", "nested"} BY <3>1 DEF Asleep
    <3> QED BY <1>0, <1>1, <3>1, <3>2 DEF IInv, Types
  <2> QED BY <1>10, <2>1, <2>2, <2>3, <2>4, <2>5 DEF LoopStep
<1> QED BY <1>4, <1>5, <1>6, <1>7, <1>8, <1>9, <1>10 DEF Next, NestedStep

(* No call is made to a job that has failed Threshold times in a row before its
   backoff is over (circuit_breaker.py:49), neither by its loop nor by the
   signal job that nests it. *)
THEOREM BackoffAlwaysKept == Spec => BackoffKept
<1> DEFINE Kept == \A b \in Jobs : ~Calls(b) /\ Calls(b)' /\ breaker[b].failures >= Threshold
                                      => breaker[b].wait = 0
<1>1. ASSUME IInv, Next PROVE Kept
  <2> SUFFICES ASSUME NEW b \in Jobs, ~Calls(b), Calls(b)', breaker[b].failures >= Threshold
               PROVE  breaker[b].wait = 0
      OBVIOUS
  <2>1. Sound(breaker[b]) BY <1>1 DEF IInv, Breakers
  <2>2. breaker[b].state # "CLOSED" BY <2>1, SchedulerAssumption DEF Sound
  <2>3. CanAttempt(breaker[b]) BY <1>1, OnlyTickCalls
  <2> QED BY <2>1, <2>2, <2>3 DEF Sound, CanAttempt
<1>2. IInv /\ [Next]_vars => [Kept]_vars BY <1>1
<1> QED BY <1>2, Invariance, PTL DEF Spec, BackoffKept

-----------------------------------------------------------------------------
(* The market feed. *)

Statuses == {"LIVE", "DISCONNECTED"}
Awaits == [pc : {"free", "join", "notify", "callback"}, old : {"NONE"} \cup Statuses,
           new : {"NONE"} \cup Statuses]

FeedShape ==
    /\ handler \in [Handlers -> Awaits]
    /\ connected \in BOOLEAN /\ ping \in BOOLEAN /\ overlap \in BOOLEAN /\ orphans \in Nat
    /\ notified \in {"NONE"} \cup Statuses /\ alerts \in Seq(Statuses)
    /\ \A h \in Handlers : handler[h].pc = "callback" => handler[h].new \in Statuses

(* One handler at a time: what it may count on while it awaits. *)
InTurn(h) ==
    /\ handler[h].pc = "join" => connected /\ ~ping
    /\ handler[h].pc = "callback" =>
          /\ notified # "NONE" /\ handler[h].new = Status /\ handler[h].new # notified
    /\ handler[h].pc # "free" /\ notified = "NONE" => connected /\ handler[h].pc # "callback"

(* The alerts so far, and what has been notified last. *)
Alternating ==
    /\ \A i \in DOMAIN alerts : alerts[i] = IF i % 2 = 1 THEN "DISCONNECTED" ELSE "LIVE"
    /\ notified = "NONE" => alerts = <<>>
    /\ notified = "LIVE" => Len(alerts) % 2 = 0
    /\ notified = "DISCONNECTED" => Len(alerts) % 2 = 1

OneByOne ==
    /\ \A g, h \in Handlers : handler[g].pc # "free" /\ handler[h].pc # "free" => g = h
    /\ \A h \in Handlers : InTurn(h)
    /\ orphans = 0 /\ (~connected => ~ping)
    /\ notified = "NONE" /\ connected => \E h \in Handlers : handler[h].pc # "free"
    /\ Alternating

FeedInv == FeedShape /\ (~overlap => OneByOne)

(* A handler's record, free or about to await. *)
LEMMA AwaitFacts ==
    /\ Free \in Awaits /\ Free.pc = "free"
    /\ \A pc \in {"join", "notify"} : At(pc) \in Awaits /\ At(pc).pc = pc
BY DEF Free, At, Awaits, Statuses

(* Before the first connection no handler runs. *)
LEMMA FeedInitially == FeedInit => FeedInv
<1> SUFFICES ASSUME FeedInit PROVE FeedInv OBVIOUS
<1>1. \A h \in Handlers : handler[h] = Free BY DEF FeedInit
<1>2. handler \in [Handlers -> Awaits] /\ \A h \in Handlers : handler[h].pc = "free"
      BY <1>1, AwaitFacts DEF FeedInit
<1>3. alerts = <<>> /\ alerts \in Seq(Statuses) BY DEF FeedInit
<1>4. FeedShape BY <1>2, <1>3 DEF FeedInit, FeedShape
<1>5. OneByOne BY <1>2, <1>3 DEF FeedInit, OneByOne, InTurn, Alternating
<1> QED BY <1>4, <1>5 DEF FeedInv

(* A handler that starts while none runs is the only one. *)
LEMMA StartsAlone ==
    ASSUME FeedShape, NEW h \in Handlers, NEW pc \in {"join", "notify"}, Handle(h, pc), ~overlap'
    PROVE  /\ ~overlap /\ handler' \in [Handlers -> Awaits] /\ handler'[h].pc = pc
           /\ \A g \in Handlers : handler[g].pc = "free"
           /\ \A g \in Handlers \ {h} : handler'[g].pc = "free"
<1>1. handler' = [handler EXCEPT ![h] = At(pc)] /\ ~overlap /\ Busy = {} BY DEF Handle
<1>2. At(pc) \in Awaits /\ At(pc).pc = pc BY AwaitFacts
<1>3. \A g \in Handlers : handler[g].pc = "free" BY <1>1 DEF Busy
<1> QED BY <1>1, <1>2, <1>3 DEF FeedShape

(* A connection made: by the supervisor, or again by the library. *)
LEMMA ConnectedKeeps ==
    ASSUME FeedInv, NEW h \in Handlers, Connected(h)
    PROVE  FeedInv'
<1>1. /\ Handle(h, "join") /\ ~connected /\ connected' = TRUE
      /\ UNCHANGED <<notified, ping, orphans, alerts>>
      BY DEF Connected
<1>2. FeedShape'
  <2>1. handler' = [handler EXCEPT ![h] = At("join")] /\ overlap' \in BOOLEAN
        BY <1>1 DEF Handle, FeedInv, FeedShape
  <2>2. At("join") \in Awaits /\ At("join").pc = "join" BY AwaitFacts
  <2> QED BY <1>1, <2>1, <2>2 DEF FeedInv, FeedShape
<1>3. ASSUME ~overlap' PROVE OneByOne'
  <2>1. /\ ~overlap /\ handler'[h].pc = "join" /\ \A g \in Handlers \ {h} : handler'[g].pc = "free"
        BY <1>1, <1>3, StartsAlone DEF FeedInv
  <2>2. OneByOne BY <2>1 DEF FeedInv
  <2>3. Alternating' BY <1>1, <2>2 DEF OneByOne, Alternating
  <2>4. \A g \in Handlers : InTurn(g)' BY <1>1, <2>1, <2>2 DEF OneByOne, InTurn
  <2> QED BY <1>1, <2>1, <2>2, <2>3, <2>4 DEF OneByOne
<1> QED BY <1>2, <1>3 DEF FeedInv

(* A connection lost. *)
LEMMA DroppedKeeps ==
    ASSUME FeedInv, NEW h \in Handlers, Dropped(h)
    PROVE  FeedInv'
<1>1. /\ Handle(h, "notify") /\ connected /\ connected' = FALSE /\ ping' = FALSE
      /\ UNCHANGED <<notified, orphans, alerts>>
      BY DEF Dropped
<1>2. FeedShape'
  <2>1. handler' = [handler EXCEPT ![h] = At("notify")] /\ overlap' \in BOOLEAN
        BY <1>1 DEF Handle, FeedInv, FeedShape
  <2>2. At("notify") \in Awaits /\ At("notify").pc = "notify" BY AwaitFacts
  <2> QED BY <1>1, <2>1, <2>2 DEF FeedInv, FeedShape
<1>3. ASSUME ~overlap' PROVE OneByOne'
  <2>1. /\ ~overlap /\ handler'[h].pc = "notify" /\ \A g \in Handlers : handler[g].pc = "free"
        /\ \A g \in Handlers \ {h} : handler'[g].pc = "free"
        BY <1>1, <1>3, StartsAlone DEF FeedInv
  <2>2. OneByOne BY <2>1 DEF FeedInv
  <2>3. notified # "NONE" BY <1>1, <2>1, <2>2 DEF OneByOne
  <2>4. Alternating' BY <1>1, <2>2 DEF OneByOne, Alternating
  <2>5. \A g \in Handlers : InTurn(g)' BY <1>1, <2>1, <2>3 DEF InTurn
  <2> QED BY <1>1, <2>1, <2>2, <2>3, <2>4, <2>5 DEF OneByOne
<1> QED BY <1>2, <1>3 DEF FeedInv

(* Both channels joined, or the connection gone before. *)
LEMMA JoinKeeps ==
    ASSUME FeedInv, NEW h \in Handlers, Join(h)
    PROVE  FeedInv'
<1>1. /\ handler[h].pc = "join"
      /\ UNCHANGED <<connected, notified, alerts, overlap>>
      BY DEF Join
<1>2. FeedShape'
  <2>1. PICK r \in {At("notify"), Free} : handler' = [handler EXCEPT ![h] = r] BY DEF Join
  <2>2. r \in Awaits /\ r.pc \in {"notify", "free"} BY <2>1, AwaitFacts
  <2>3. /\ orphans' = orphans + 1 \/ orphans' = orphans
        /\ ping' = TRUE \/ ping' = ping
        BY DEF Join
  <2>4. ping \in BOOLEAN /\ orphans \in Nat BY DEF FeedInv, FeedShape
  <2>5. orphans' \in Nat BY <2>3, <2>4
  <2>6. ping' \in BOOLEAN BY <2>3, <2>4
  <2> QED BY <1>1, <2>1, <2>2, <2>5, <2>6 DEF FeedInv, FeedShape
<1>3. ASSUME ~overlap' PROVE OneByOne'
  <2>1. OneByOne /\ connected /\ ~ping BY <1>1, <1>3 DEF FeedInv, OneByOne, InTurn
  <2>2. handler' = [handler EXCEPT ![h] = At("notify")] /\ orphans' = orphans /\ ping' = TRUE
        BY <2>1 DEF Join
  <2>3. handler'[h].pc = "notify" /\ \A g \in Handlers \ {h} : handler'[g].pc = "free"
    <3>1. \A g \in Handlers \ {h} : handler[g].pc = "free" BY <1>1, <2>1 DEF OneByOne
    <3> QED BY <2>2, <3>1, AwaitFacts DEF FeedInv, FeedShape
  <2>4. Alternating' BY <1>1, <2>1 DEF OneByOne, Alternating
  <2>5. \A g \in Handlers : InTurn(g)' BY <1>1, <2>1, <2>3 DEF InTurn
  <2> QED BY <1>1, <2>1, <2>2, <2>3, <2>4, <2>5 DEF OneByOne
<1> QED BY <1>2, <1>3 DEF FeedInv

(* The status read, and compared with the last one notified. *)
LEMMA NotifyKeeps ==
    ASSUME FeedInv, NEW h \in Handlers, Notify(h)
    PROVE  FeedInv'
<1> DEFINE call == [pc |-> "callback", old |-> notified, new |-> Status]
           changed == notified \notin {"NONE", Status}
<1>1. /\ handler[h].pc = "notify"
      /\ changed => handler' = [handler EXCEPT ![h] = call] /\ notified' = notified
      /\ ~changed => handler' = [handler EXCEPT ![h] = Free] /\ notified' = Status
      /\ UNCHANGED <<connected, ping, orphans, alerts, overlap>>
      BY DEF Notify
<1>2. Status \in Statuses /\ Status' = Status /\ (Status = "LIVE" <=> connected)
      BY <1>1 DEF Status, Statuses
<1>3. call \in Awaits /\ call.pc = "callback" /\ call.new = Status
      BY <1>2 DEF FeedInv, FeedShape, Awaits
<1> HIDE DEF call
<1>4. FeedShape'
  <2>1. CASE changed BY <1>1, <1>2, <1>3, <2>1 DEF FeedInv, FeedShape
  <2>2. CASE ~changed BY <1>1, <1>2, <2>2, AwaitFacts DEF FeedInv, FeedShape
  <2> QED BY <2>1, <2>2
<1>5. ASSUME ~overlap' PROVE OneByOne'
  <2>1. OneByOne /\ handler \in [Handlers -> Awaits] BY <1>1, <1>5 DEF FeedInv, FeedShape
  <2>2. \A g \in Handlers \ {h} : handler[g].pc = "free" BY <1>1, <2>1 DEF OneByOne
  <2>3. CASE changed
    <3>1. handler'[h] = call /\ \A g \in Handlers \ {h} : handler'[g].pc = "free"
          BY <1>1, <2>1, <2>2, <2>3
    <3>2. Alternating' BY <1>1, <2>1, <2>3 DEF OneByOne, Alternating
    <3>3. \A g \in Handlers : InTurn(g)' BY <1>1, <1>2, <1>3, <2>3, <3>1 DEF InTurn
    <3> QED BY <1>1, <1>3, <2>1, <2>3, <3>1, <3>2, <3>3 DEF OneByOne
  <2>4. CASE ~changed
    <3>1. \A g \in Handlers : handler'[g].pc = "free" BY <1>1, <2>1, <2>2, <2>4, AwaitFacts
    <3>2. notified = "NONE" => connected /\ alerts = <<>>
          BY <1>1, <2>1 DEF OneByOne, InTurn, Alternating
    <3>3. Alternating'
      <4>1. CASE notified = "NONE"
        <5>1. notified' = "LIVE" /\ alerts' = <<>> BY <1>1, <1>2, <2>4, <3>2, <4>1
        <5> QED BY <5>1, EmptySeq DEF Alternating
      <4>2. CASE notified # "NONE"
        <5>1. notified' = notified BY <1>1, <2>4, <4>2
        <5> QED BY <1>1, <2>1, <5>1 DEF OneByOne, Alternating
      <4> QED BY <4>1, <4>2
    <3>4. notified' # "NONE" BY <1>1, <1>2, <2>4 DEF Statuses
    <3>5. \A g \in Handlers : InTurn(g)' BY <3>1 DEF InTurn
    <3> QED BY <1>1, <2>1, <3>1, <3>3, <3>4, <3>5 DEF OneByOne
  <2> QED BY <2>3, <2>4
<1> QED BY <1>4, <1>5 DEF FeedInv

(* The audit row and the alert, or a row refused. *)
LEMMA CallbackKeeps ==
    ASSUME FeedInv, NEW h \in Handlers, Callback(h)
    PROVE  FeedInv'
<1>1. /\ handler[h].pc = "callback" /\ handler' = [handler EXCEPT ![h] = Free]
      /\ UNCHANGED <<connected, ping, orphans, overlap>>
      BY DEF Callback
<1>2. \/ alerts' = Append(alerts, handler[h].new) /\ notified' = handler[h].new
      \/ alerts' = alerts /\ notified' = notified
      BY DEF Callback
<1>3. FeedShape'
  <2>1. handler[h].new \in Statuses /\ alerts \in Seq(Statuses) BY <1>1 DEF FeedInv, FeedShape
  <2>2. notified' \in {"NONE"} \cup Statuses /\ alerts' \in Seq(Statuses)
        BY <1>2, <2>1 DEF FeedInv, FeedShape
  <2> QED BY <1>1, <2>2, AwaitFacts DEF FeedInv, FeedShape
<1>4. ASSUME ~overlap' PROVE OneByOne'
  <2>1. OneByOne /\ handler \in [Handlers -> Awaits] BY <1>1, <1>4 DEF FeedInv, FeedShape
  <2>2. \A g \in Handlers : handler'[g].pc = "free"
        BY <1>1, <2>1, AwaitFacts DEF OneByOne
  <2>3. /\ notified # "NONE" /\ handler[h].new # notified
        /\ handler[h].new \in Statuses /\ notified \in Statuses /\ alerts \in Seq(Statuses)
        BY <1>1, <2>1 DEF OneByOne, InTurn, FeedInv, FeedShape
  <2>4. Alternating'
    <3>1. CASE alerts' = alerts /\ notified' = notified BY <2>1, <3>1 DEF OneByOne, Alternating
    <3>2. CASE alerts' = Append(alerts, handler[h].new) /\ notified' = handler[h].new
      <4> DEFINE n == Len(alerts)
                 s == handler[h].new
      <4>1. /\ n \in Nat /\ DOMAIN alerts = 1..n /\ Len(alerts') = n + 1 /\ DOMAIN alerts' = 1..n + 1
            /\ \A i \in 1..n : alerts'[i] = alerts[i]
            /\ alerts'[n + 1] = s
            BY <2>3, <3>2, AppendProperties, LenProperties
      <4>2. /\ \A i \in 1..n : alerts[i] = IF i % 2 = 1 THEN "DISCONNECTED" ELSE "LIVE"
            /\ notified = "LIVE" => n % 2 = 0
            /\ notified = "DISCONNECTED" => n % 2 = 1
            BY <2>1, <4>1 DEF OneByOne, Alternating
      <4>3. \/ notified = "LIVE" /\ s = "DISCONNECTED"
            \/ notified = "DISCONNECTED" /\ s = "LIVE"
            BY <2>3 DEF Statuses
      <4>4. notified' = s BY <3>2
      <4> HIDE DEF n, s
      <4>5. /\ s = "DISCONNECTED" => (n + 1) % 2 = 1
            /\ s = "LIVE" => (n + 1) % 2 = 0
        <5>1. (n % 2 = 0 => (n + 1) % 2 = 1) /\ (n % 2 = 1 => (n + 1) % 2 = 0) BY <4>1
        <5> QED BY <4>2, <4>3, <5>1
      <4>6. \A i \in DOMAIN alerts' : alerts'[i] = IF i % 2 = 1 THEN "DISCONNECTED" ELSE "LIVE"
        <5> SUFFICES ASSUME NEW i \in 1..n + 1
                     PROVE  alerts'[i] = IF i % 2 = 1 THEN "DISCONNECTED" ELSE "LIVE"
            BY <4>1
        <5>1. CASE i = n + 1 BY <4>1, <4>3, <4>5, <5>1
        <5>2. CASE i # n + 1
          <6>1. i \in 1..n BY <4>1, <5>2
          <6> QED BY <4>1, <4>2, <6>1
        <5> QED BY <5>1, <5>2
      <4> QED BY <4>1, <4>3, <4>4, <4>5, <4>6 DEF Alternating
    <3> QED BY <1>2, <3>1, <3>2
  <2>5. notified' # "NONE" BY <1>2, <2>3 DEF Statuses
  <2>6. \A g \in Handlers : InTurn(g)' BY <2>2 DEF InTurn
  <2> QED BY <1>1, <2>1, <2>2, <2>4, <2>5, <2>6 DEF OneByOne
<1> QED BY <1>3, <1>4 DEF FeedInv

(* A ping loop that finds the socket disconnected. *)
LEMMA PingEndsKeeps ==
    ASSUME FeedInv, PingEnds
    PROVE  FeedInv'
<1>1. /\ ~connected /\ UNCHANGED <<connected, notified, handler, alerts, overlap>>
      /\ (orphans > 0 /\ orphans' = orphans - 1 /\ ping' = ping)
            \/ (ping /\ ping' = FALSE /\ orphans' = orphans)
      BY DEF PingEnds
<1>2. FeedShape'
  <2>1. ping \in BOOLEAN /\ orphans \in Nat BY DEF FeedInv, FeedShape
  <2>2. orphans' \in Nat BY <1>1, <2>1
  <2>3. ping' \in BOOLEAN BY <1>1, <2>1
  <2> QED BY <1>1, <2>2, <2>3 DEF FeedInv, FeedShape
<1>3. ASSUME ~overlap' PROVE OneByOne'
  <2>1. OneByOne /\ ~ping /\ orphans = 0 BY <1>1, <1>3 DEF FeedInv, OneByOne
  <2> QED BY <1>1, <2>1
<1> QED BY <1>2, <1>3 DEF FeedInv

(* So it is of every step. *)
LEMMA FeedInvariance == FeedSpec => []FeedInv
<1>1. ASSUME FeedInv, [FeedNext]_feedVars PROVE FeedInv'
  <2>1. ASSUME UNCHANGED socket PROVE FeedInv'
        BY <1>1, <2>1 DEF socket, FeedInv, FeedShape, OneByOne, InTurn, Alternating, Status
  <2>2. CASE ServerChanges \/ StartFeed \/ FirstConnectFails \/ Retry
        BY <2>1, <2>2 DEF ServerChanges, StartFeed, FirstConnectFails, Retry
  <2>3. CASE PriceMessage \/ MarkPriceMessage \/ AgesGrow
        BY <2>1, <2>3 DEF PriceMessage, MarkPriceMessage, AgesGrow
  <2>4. ASSUME NEW h \in Handlers, FirstConnect(h) \/ Reconnect(h) PROVE FeedInv'
        BY <1>1, <2>4, ConnectedKeeps DEF FirstConnect, Reconnect
  <2>5. ASSUME NEW h \in Handlers, Dropped(h) PROVE FeedInv' BY <1>1, <2>5, DroppedKeeps
  <2>6. ASSUME NEW h \in Handlers, HandlerStep(h) PROVE FeedInv'
        BY <1>1, <2>6, JoinKeeps, NotifyKeeps, CallbackKeeps DEF HandlerStep
  <2>7. CASE PingEnds BY <1>1, <2>7, PingEndsKeeps
  <2>8. CASE UNCHANGED feedVars BY <2>1, <2>8 DEF feedVars, socket
  <2> QED BY <1>1, <2>2, <2>3, <2>4, <2>5, <2>6, <2>7, <2>8 DEF FeedNext, Connecting
<1> QED BY <1>1, FeedInitially, PTL DEF FeedSpec

(* As long as each connect or disconnect handler ends before the next starts,
   alerts of a lost and a found connection take turns and a connection has one
   ping loop (coindcx_ws.py:219, live_state.py:69): whatever the number of
   handlers and drops, the rows refused and the messages in between. *)
THEOREM AlertsTakeTurns == FeedSpec => []AlertsAlternate
<1>1. FeedInv => AlertsAlternate
      BY DEF FeedInv, OneByOne, Alternating, AlertsAlternate
<1> QED BY <1>1, FeedInvariance, PTL

-----------------------------------------------------------------------------
(* The position monitor. *)

Checks == [pc : {"idle", "read", "ask", "send"}, price : Prices \cup {0},
           todo : SUBSET Keys, new : SUBSET Keys]

MonitorTypes ==
    /\ log \in [Keys -> Nat] /\ sent \in [Keys -> Nat] /\ lost \in [Keys -> Nat]
    /\ check \in [Checkers -> Checks]
    /\ price \in Prices /\ open \subseteq Trades
    /\ raced \subseteq Keys /\ refused \in BOOLEAN /\ faults \in 0..MaxFaults

(* What a key's row stands for, and how often it may be there. *)
Accounted(k) ==
    /\ log[k] = sent[k] + lost[k] + Cardinality(Sending(k))
    /\ k \notin raced => log[k] + Cardinality(Uncommitted(k)) <= 1

Alerts == \A k \in Keys : Accounted(k)

(* Rows are refused where none is taken. *)
Refusals ==
    /\ refused => database = "postgresql"
    /\ database = "postgresql" => \A k \in Keys : log[k] = 0

MonitorInv == MonitorTypes /\ Refusals /\ Alerts

One(b) == IF b THEN 1 ELSE 0

(* A set of checkers is finite; when one comes or goes its size follows. *)
LEMMA CheckerCount ==
    ASSUME NEW H \in SUBSET Checkers, NEW G \in SUBSET Checkers, NEW c \in Checkers, H \ {c} = G \ {c}
    PROVE  /\ Cardinality(H) \in Nat /\ Cardinality(G) \in Nat
           /\ Cardinality(G) = Cardinality(H) - One(c \in H) + One(c \in G)
<1>1. IsFiniteSet(Checkers) BY PositionMonitorAssumption, FS_AddElement DEF Checkers
<1>2. /\ IsFiniteSet(H) /\ IsFiniteSet(G) /\ Cardinality(H) \in Nat /\ Cardinality(G) \in Nat
      BY <1>1, FS_Subset, FS_CardinalityType
<1>3. CASE c \in H <=> c \in G
  <2>1. G = H BY <1>3
  <2> QED BY <1>2, <1>3, <2>1 DEF One
<1>4. CASE c \in H /\ c \notin G
  <2>1. G = H \ {c} BY <1>4
  <2>2. Cardinality(G) = Cardinality(H) - 1 BY <1>2, <1>4, <2>1, FS_RemoveElement
  <2> QED BY <1>2, <1>4, <2>2 DEF One
<1>5. CASE c \notin H /\ c \in G
  <2>1. G = H \cup {c} BY <1>5
  <2>2. Cardinality(G) = Cardinality(H) + 1 BY <1>2, <1>5, <2>1, FS_AddElement
  <2> QED BY <1>2, <1>5, <2>2 DEF One
<1> QED BY <1>3, <1>4, <1>5, <1>2

(* What one check's move to r does to the number of those that are sending a
   key, and of those that have found it new. *)
Moves(c, r, k) ==
    /\ Cardinality(Sending(k)) \in Nat /\ Cardinality(Sending(k)') \in Nat
    /\ Cardinality(Uncommitted(k)) \in Nat /\ Cardinality(Uncommitted(k)') \in Nat
    /\ Cardinality(Sending(k)') = Cardinality(Sending(k))
          - One(check[c].pc = "send" /\ k \in check[c].new) + One(r.pc = "send" /\ k \in r.new)
    /\ Cardinality(Uncommitted(k)') = Cardinality(Uncommitted(k))
          - One(check[c].pc = "ask" /\ k \in check[c].new) + One(r.pc = "ask" /\ k \in r.new)

(* A step of one check moves no other. *)
LEMMA CheckEffect ==
    ASSUME MonitorTypes, NEW c \in Checkers, NEW r \in Checks, check' = [check EXCEPT ![c] = r],
           NEW k \in Keys
    PROVE  Moves(c, r, k)
<1>1. check'[c] = r /\ \A d \in Checkers \ {c} : check'[d] = check[d] BY DEF MonitorTypes
<1>2. Sending(k) \in SUBSET Checkers /\ Sending(k)' \in SUBSET Checkers BY DEF Sending
<1>3. Sending(k) \ {c} = Sending(k)' \ {c} BY <1>1 DEF Sending
<1>4. /\ c \in Sending(k) <=> check[c].pc = "send" /\ k \in check[c].new
      /\ c \in Sending(k)' <=> r.pc = "send" /\ k \in r.new
      BY <1>1 DEF Sending
<1>5. Uncommitted(k) \in SUBSET Checkers /\ Uncommitted(k)' \in SUBSET Checkers BY DEF Uncommitted
<1>6. Uncommitted(k) \ {c} = Uncommitted(k)' \ {c} BY <1>1 DEF Uncommitted
<1>7. /\ c \in Uncommitted(k) <=> check[c].pc = "ask" /\ k \in check[c].new
      /\ c \in Uncommitted(k)' <=> r.pc = "ask" /\ k \in r.new
      BY <1>1 DEF Uncommitted
<1>8. /\ Cardinality(Sending(k)) \in Nat /\ Cardinality(Sending(k)') \in Nat
      /\ Cardinality(Sending(k)') = Cardinality(Sending(k)) - One(c \in Sending(k)) + One(c \in Sending(k)')
      BY <1>2, <1>3, CheckerCount
<1>9. /\ Cardinality(Uncommitted(k)) \in Nat /\ Cardinality(Uncommitted(k)') \in Nat
      /\ Cardinality(Uncommitted(k)') = Cardinality(Uncommitted(k))
            - One(c \in Uncommitted(k)) + One(c \in Uncommitted(k)')
      BY <1>5, <1>6, CheckerCount
<1> QED BY <1>4, <1>7, <1>8, <1>9 DEF Moves, One

(* A step that writes no row and is refused none. *)
LEMMA RefusalsStay ==
    ASSUME Refusals, log' = log, refused' = refused, database' = database
    PROVE  Refusals'
BY DEF Refusals

(* A check that moves without a key of its own being sent, lost or found. *)
LEMMA QuietCheck ==
    ASSUME MonitorInv, NEW c \in Checkers, NEW r \in Checks, check' = [check EXCEPT ![c] = r],
           log' = log, sent' = sent, lost' = lost, raced' = raced,
           \A k \in Keys : (r.pc = "send" /\ k \in r.new) <=> (check[c].pc = "send" /\ k \in check[c].new),
           \A k \in Keys : (r.pc = "ask" /\ k \in r.new) => (check[c].pc = "ask" /\ k \in check[c].new)
    PROVE  Alerts'
<1> SUFFICES ASSUME NEW k \in Keys PROVE Accounted(k)' BY DEF Alerts
<1>1. MonitorTypes /\ Accounted(k) BY DEF MonitorInv, Alerts
<1>1a. Moves(c, r, k) BY <1>1, CheckEffect
<1>2. log[k] \in Nat /\ sent[k] \in Nat /\ lost[k] \in Nat BY <1>1 DEF MonitorTypes
<1>3. /\ Cardinality(Sending(k)') = Cardinality(Sending(k))
      /\ Cardinality(Uncommitted(k)') <= Cardinality(Uncommitted(k))
      /\ Cardinality(Uncommitted(k)') \in Nat /\ Cardinality(Uncommitted(k)) \in Nat
      BY <1>1a DEF Moves, One
<1> QED BY <1>1, <1>2, <1>3 DEF Accounted

(* A check that has not begun holds nothing. *)
LEMMA IdleCheck == Idle \in Checks /\ Idle.pc = "idle" /\ Idle.new = {}
BY DEF Idle, Checks

(* What the four updates of a check's record leave. *)
LEMMA AskedCheck ==
    ASSUME NEW r \in Checks, NEW k \in Keys
    PROVE  Asked(r, k) \in Checks /\ Asked(r, k).pc = r.pc /\ Asked(r, k).new = r.new
BY DEF Checks, Asked

(* A key found new. *)
LEMMA FoundCheck ==
    ASSUME NEW r \in Checks, NEW k \in Keys
    PROVE  Found(r, k) \in Checks /\ Found(r, k).pc = r.pc /\ Found(r, k).new = r.new \cup {k}
BY DEF Checks, Found

(* Rows committed. *)
LEMMA CommittedCheck ==
    ASSUME NEW r \in Checks
    PROVE  Committed(r) \in Checks /\ Committed(r).pc = "send" /\ Committed(r).new = r.new
BY DEF Checks, Committed

(* A message gone. *)
LEMMA ToldCheck ==
    ASSUME NEW r \in Checks, NEW k \in Keys
    PROVE  Told(r, k) \in Checks /\ Told(r, k).pc = r.pc /\ Told(r, k).new = r.new \ {k}
BY DEF Checks, Told

(* Before the first check there is no row and no message. *)
LEMMA MonitorInitially == MonitorInit => MonitorInv
<1> SUFFICES ASSUME MonitorInit PROVE MonitorInv OBVIOUS
<1>1. MonitorTypes
  <2>1. refused \in BOOLEAN BY DEF MonitorInit
  <2>2. /\ log \in [Keys -> Nat] /\ sent \in [Keys -> Nat] /\ lost \in [Keys -> Nat]
        /\ check \in [Checkers -> Checks]
        BY IdleCheck DEF MonitorInit
  <2>3. price \in Prices /\ open \subseteq Trades /\ raced \subseteq Keys /\ faults \in 0..MaxFaults
        BY PositionMonitorAssumption DEF MonitorInit
  <2> QED BY <2>1, <2>2, <2>3 DEF MonitorTypes
<1>2. ASSUME NEW k \in Keys PROVE Accounted(k)
  <2>1. Sending(k) = {} /\ Uncommitted(k) = {} BY IdleCheck DEF MonitorInit, Sending, Uncommitted
  <2>2. Cardinality(Sending(k)) = 0 /\ Cardinality(Uncommitted(k)) = 0 BY <2>1, FS_EmptySet
  <2> QED BY <2>2 DEF MonitorInit, Accounted
<1>3. Refusals BY DEF MonitorInit, Refusals
<1> QED BY <1>1, <1>2, <1>3 DEF MonitorInv, Alerts

(* A question to the table. *)
LEMMA AskKeepsAlerts ==
    ASSUME MonitorInv, NEW c \in Checkers, Ask(c)
    PROVE  MonitorInv'
<1>1. PICK k \in check[c].todo :
        /\ check' = [check EXCEPT ![c] = CASE log[k] > 1 -> Idle
                                            [] log[k] = 1 -> Asked(check[c], k)
                                            [] OTHER -> Found(Asked(check[c], k), k)]
        /\ raced' = IF log[k] > 0 \/ Uncommitted(k) = {} THEN raced ELSE raced \cup {k}
      BY DEF Ask
<1>2. /\ check[c].pc = "ask" /\ log' = log /\ sent' = sent /\ lost' = lost
      /\ UNCHANGED <<database, price, open, refused, faults>>
      BY DEF Ask
<1>2a. Refusals' BY <1>2, RefusalsStay DEF MonitorInv
<1>3. MonitorTypes /\ check[c] \in Checks BY DEF MonitorInv, MonitorTypes
<1>4. k \in Keys /\ log[k] \in Nat BY <1>3 DEF MonitorTypes, Checks
<1>5. CASE log[k] > 1
  <2>0. log[k] # 1 BY <1>4, <1>5
  <2>1. check' = [check EXCEPT ![c] = Idle] BY <1>1, <1>5, <2>0
  <2>2. raced' = raced BY <1>1, <1>4, <1>5
  <2>3. Alerts' BY <1>2, <2>1, <2>2, IdleCheck, QuietCheck
  <2>4. MonitorTypes' BY <1>2, <1>3, <2>1, <2>2, IdleCheck DEF MonitorTypes
  <2> QED BY <1>2a, <2>3, <2>4 DEF MonitorInv
<1>6. CASE log[k] = 1
  <2>1. check' = [check EXCEPT ![c] = Asked(check[c], k)] BY <1>1, <1>6
  <2>2. raced' = raced BY <1>1, <1>4, <1>6
  <2>3. Asked(check[c], k) \in Checks /\ Asked(check[c], k).pc = "ask" /\ Asked(check[c], k).new = check[c].new
        BY <1>2, <1>3, <1>4, AskedCheck
  <2>4. Alerts' BY <1>2, <2>1, <2>2, <2>3, QuietCheck
  <2>5. MonitorTypes' BY <1>2, <1>3, <2>1, <2>2, <2>3 DEF MonitorTypes
  <2> QED BY <1>2a, <2>4, <2>5 DEF MonitorInv
<1>7. CASE log[k] = 0
  <2> DEFINE r == Found(Asked(check[c], k), k)
  <2>1. check' = [check EXCEPT ![c] = r] BY <1>1, <1>7
  <2>2. raced' = IF Uncommitted(k) = {} THEN raced ELSE raced \cup {k} BY <1>1, <1>7
  <2>3. r \in Checks /\ r.pc = "ask" /\ r.new = check[c].new \cup {k}
    <3> DEFINE q == Asked(check[c], k)
    <3>1. q \in Checks /\ q.pc = "ask" /\ q.new = check[c].new BY <1>2, <1>3, <1>4, AskedCheck
    <3> HIDE DEF q
    <3>2. Found(q, k) \in Checks /\ Found(q, k).pc = q.pc /\ Found(q, k).new = q.new \cup {k}
          BY <1>4, <3>1, FoundCheck
    <3> QED BY <3>1, <3>2 DEF q
  <2> HIDE DEF r
  <2>4. MonitorTypes' BY <1>2, <1>3, <1>4, <2>1, <2>2, <2>3 DEF MonitorTypes
  <2>5. ASSUME NEW j \in Keys PROVE Accounted(j)'
    <3>1. Accounted(j) /\ log[j] \in Nat /\ sent[j] \in Nat /\ lost[j] \in Nat
          BY <1>3 DEF MonitorInv, Alerts, MonitorTypes
    <3>1a. Moves(c, r, j) BY <1>3, <2>1, <2>3, CheckEffect
    <3>2. /\ Cardinality(Sending(j)') = Cardinality(Sending(j)) /\ Cardinality(Sending(j)) \in Nat
          /\ Cardinality(Uncommitted(j)) \in Nat
          /\ Cardinality(Uncommitted(j)') = Cardinality(Uncommitted(j))
                - One(j \in check[c].new) + One(j \in check[c].new \cup {k})
          BY <1>2, <2>3, <3>1a DEF Moves, One
    <3>3. CASE j # k
      <4>1. Cardinality(Uncommitted(j)') = Cardinality(Uncommitted(j)) BY <3>2, <3>3 DEF One
      <4>2. j \notin raced' => j \notin raced BY <2>2
      <4> QED BY <1>2, <3>1, <3>2, <4>1, <4>2 DEF Accounted
    <3>4. CASE j = k /\ Uncommitted(k) = {}
      <4>1. Cardinality(Uncommitted(j)) = 0 BY <3>4, FS_EmptySet
      <4>2. Cardinality(Uncommitted(j)') <= 1 /\ Cardinality(Uncommitted(j)') \in Nat
            BY <3>2, <4>1 DEF One
      <4> QED BY <1>2, <1>7, <3>1, <3>2, <3>4, <4>2 DEF Accounted
    <3>5. CASE j = k /\ Uncommitted(k) # {}
      <4>1. j \in raced' BY <2>2, <3>5
      <4> QED BY <1>2, <3>1, <3>2, <4>1 DEF Accounted
    <3> QED BY <3>3, <3>4, <3>5
  <2> QED BY <1>2a, <2>4, <2>5 DEF MonitorInv, Alerts
<1> QED BY <1>4, <1>5, <1>6, <1>7

(* A commit: what was found new has a row and is to be sent. *)
LEMMA CommitKeepsAlerts ==
    ASSUME MonitorInv, NEW c \in Checkers, Commit(c)
    PROVE  MonitorInv'
<1> DEFINE r == IF check[c].new = {} THEN Idle ELSE Committed(check[c])
<1>1. MonitorTypes /\ check[c] \in Checks BY DEF MonitorInv, MonitorTypes
<1>2. /\ check[c].pc = "ask" /\ check' = [check EXCEPT ![c] = r]
      /\ log' = [k \in Keys |-> log[k] + IF k \in check[c].new THEN 1 ELSE 0]
      /\ UNCHANGED <<database, price, open, sent, lost, raced, refused, faults>>
      BY DEF Commit, histories
<1>3. r \in Checks /\ r.new = check[c].new /\ (r.pc = "send" \/ (r.pc = "idle" /\ r.new = {}))
  <2>1. CASE check[c].new = {} BY <2>1, IdleCheck
  <2>2. CASE check[c].new # {}
    <3>1. r = Committed(check[c]) BY <2>2
    <3> QED BY <1>1, <3>1, CommittedCheck
  <2> QED BY <2>1, <2>2
<1> HIDE DEF r
<1>4. MonitorTypes'
  <2>1. log' \in [Keys -> Nat]
    <3>1. \A k \in Keys : log[k] + (IF k \in check[c].new THEN 1 ELSE 0) \in Nat
          BY <1>1 DEF MonitorTypes
    <3> QED BY <1>2, <3>1
  <2> QED BY <1>1, <1>2, <1>3, <2>1 DEF MonitorTypes
<1>5. ASSUME NEW j \in Keys PROVE Accounted(j)'
  <2>1. Accounted(j) /\ log[j] \in Nat /\ sent[j] \in Nat /\ lost[j] \in Nat
        BY <1>1 DEF MonitorInv, Alerts, MonitorTypes
  <2>1a. Moves(c, r, j) BY <1>1, <1>2, <1>3, CheckEffect
  <2>2. /\ Cardinality(Sending(j)) \in Nat /\ Cardinality(Uncommitted(j)) \in Nat
        /\ Cardinality(Sending(j)') = Cardinality(Sending(j)) + One(j \in check[c].new)
        /\ Cardinality(Uncommitted(j)') = Cardinality(Uncommitted(j)) - One(j \in check[c].new)
    <3>1. (r.pc = "send" /\ r.new = check[c].new) \/ (r.pc = "idle" /\ check[c].new = {}) BY <1>3
    <3> QED BY <1>2, <2>1a, <3>1 DEF Moves, One
  <2>3. log'[j] = log[j] + One(j \in check[c].new) BY <1>2 DEF One
  <2>4. One(j \in check[c].new) \in {0, 1} BY DEF One
  <2> QED BY <1>2, <2>1, <2>2, <2>3, <2>4 DEF Accounted
<1>6. Refusals'
  <2>1. Refusals BY DEF MonitorInv
  <2>2. ASSUME database = "postgresql", NEW k \in Keys PROVE log'[k] = 0
    <3>1. check[c].new = {} BY <2>2 DEF Commit, Refuses
    <3> QED BY <1>2, <2>1, <2>2, <3>1 DEF Refusals
  <2> QED BY <1>2, <2>1, <2>2 DEF Refusals
<1> QED BY <1>4, <1>5, <1>6 DEF MonitorInv, Alerts

(* A row refused: the check ends, and what it had added is rolled back. *)
LEMMA RefusedKeepsAlerts ==
    ASSUME MonitorInv, NEW c \in Checkers, RowRefused(c)
    PROVE  MonitorInv'
<1>1. MonitorTypes /\ Refusals /\ check[c] \in Checks BY DEF MonitorInv, MonitorTypes
<1>2. /\ check[c].pc = "ask" /\ check' = [check EXCEPT ![c] = Idle]
      /\ database = "postgresql" /\ refused' = TRUE
      /\ UNCHANGED <<database, price, open, log, sent, lost, raced, faults>>
      BY DEF RowRefused, Refuses
<1>3. Alerts' BY <1>2, IdleCheck, QuietCheck
<1>4. MonitorTypes' BY <1>1, <1>2, IdleCheck DEF MonitorTypes
<1>5. Refusals' BY <1>1, <1>2 DEF Refusals
<1> QED BY <1>3, <1>4, <1>5 DEF MonitorInv

(* One message, delivered or refused. *)
LEMMA SendKeepsAlerts ==
    ASSUME MonitorInv, NEW c \in Checkers, Send(c)
    PROVE  MonitorInv'
<1>1. PICK k \in check[c].new :
        /\ check' = [check EXCEPT ![c] = IF check[c].new = {k} THEN Idle ELSE Told(check[c], k)]
        /\ Deliver(k)
      BY DEF Send
<1>2. check[c].pc = "send" /\ log' = log /\ raced' = raced /\ UNCHANGED <<database, price, open, refused>>
      BY DEF Send
<1>3. MonitorTypes /\ check[c] \in Checks BY DEF MonitorInv, MonitorTypes
<1>4. k \in Keys BY <1>3 DEF Checks
<1> DEFINE r == IF check[c].new = {k} THEN Idle ELSE Told(check[c], k)
<1>5. r \in Checks /\ r.new = check[c].new \ {k} /\ (r.pc = "send" \/ (r.pc = "idle" /\ r.new = {}))
  <2>1. CASE check[c].new = {k} BY <2>1, IdleCheck
  <2>2. CASE check[c].new # {k}
    <3>1. r = Told(check[c], k) BY <2>2
    <3> QED BY <1>2, <1>3, <1>4, <3>1, ToldCheck
  <2> QED BY <2>1, <2>2
<1>6. check' = [check EXCEPT ![c] = r] BY <1>1
<1> HIDE DEF r
<1>7. \/ sent' = [sent EXCEPT ![k] = @ + 1] /\ lost' = lost /\ faults' = faults
      \/ lost' = [lost EXCEPT ![k] = @ + 1] /\ sent' = sent /\ faults < MaxFaults /\ faults' = faults + 1
      BY <1>1 DEF Deliver
<1>8. /\ sent' \in [Keys -> Nat] /\ lost' \in [Keys -> Nat]
      /\ \A j \in Keys : sent'[j] + lost'[j] = sent[j] + lost[j] + One(j = k)
  <2>1. sent \in [Keys -> Nat] /\ lost \in [Keys -> Nat] BY <1>3 DEF MonitorTypes
  <2> QED BY <1>4, <1>7, <2>1 DEF One
<1>9. MonitorTypes'
  <2>1. faults' \in 0..MaxFaults BY <1>3, <1>7, PositionMonitorAssumption DEF MonitorTypes
  <2> QED BY <1>2, <1>3, <1>5, <1>6, <1>8, <2>1 DEF MonitorTypes
<1>10. ASSUME NEW j \in Keys PROVE Accounted(j)'
  <2>1. Accounted(j) /\ log[j] \in Nat /\ sent[j] \in Nat /\ lost[j] \in Nat
        BY <1>3 DEF MonitorInv, Alerts, MonitorTypes
  <2>1a. Moves(c, r, j) BY <1>3, <1>5, <1>6, CheckEffect
  <2>2. /\ Cardinality(Sending(j)) \in Nat /\ Cardinality(Uncommitted(j)) \in Nat
        /\ Cardinality(Sending(j)') = Cardinality(Sending(j))
              - One(j \in check[c].new) + One(j \in check[c].new \ {k})
        /\ Cardinality(Uncommitted(j)') = Cardinality(Uncommitted(j))
        BY <1>2, <1>5, <2>1a DEF Moves, One
  <2>3. Cardinality(Sending(j)') = Cardinality(Sending(j)) - One(j = k)
        BY <1>1, <2>2 DEF One
  <2>4. sent'[j] + lost'[j] = sent[j] + lost[j] + One(j = k) /\ sent'[j] \in Nat /\ lost'[j] \in Nat
        BY <1>8
  <2>5. One(j = k) \in {0, 1} BY DEF One
  <2> QED BY <1>2, <2>1, <2>2, <2>3, <2>4, <2>5 DEF Accounted
<1>11. Refusals' BY <1>2, RefusalsStay DEF MonitorInv
<1> QED BY <1>9, <1>10, <1>11 DEF MonitorInv, Alerts

(* A check that ends loses what it has still to send. *)
LEMMA AbortKeepsAlerts ==
    ASSUME MonitorInv, NEW c \in Checkers, Abort(c)
    PROVE  MonitorInv'
<1>1. MonitorTypes /\ check[c] \in Checks BY DEF MonitorInv, MonitorTypes
<1>2. /\ check' = [check EXCEPT ![c] = Idle] /\ faults < MaxFaults /\ faults' = faults + 1
      /\ lost' = [k \in Keys |-> lost[k] + IF check[c].pc = "send" /\ k \in check[c].new THEN 1 ELSE 0]
      /\ UNCHANGED <<database, price, open, log, sent, raced, refused>>
      BY DEF Abort
<1>3. MonitorTypes'
  <2>1. lost' \in [Keys -> Nat]
    <3>1. \A k \in Keys : lost[k] + (IF check[c].pc = "send" /\ k \in check[c].new THEN 1 ELSE 0) \in Nat
          BY <1>1 DEF MonitorTypes
    <3> QED BY <1>2, <3>1
  <2>2. faults' \in 0..MaxFaults BY <1>1, <1>2, PositionMonitorAssumption DEF MonitorTypes
  <2> QED BY <1>1, <1>2, <2>1, <2>2, IdleCheck DEF MonitorTypes
<1>4. ASSUME NEW j \in Keys PROVE Accounted(j)'
  <2>1. Accounted(j) /\ log[j] \in Nat /\ sent[j] \in Nat /\ lost[j] \in Nat
        BY <1>1 DEF MonitorInv, Alerts, MonitorTypes
  <2>1a. Moves(c, Idle, j) BY <1>1, <1>2, IdleCheck, CheckEffect
  <2> DEFINE b == check[c].pc = "send" /\ j \in check[c].new
  <2>2. /\ Cardinality(Sending(j)) \in Nat /\ Cardinality(Uncommitted(j)) \in Nat
        /\ Cardinality(Sending(j)') = Cardinality(Sending(j)) - One(b)
        /\ Cardinality(Uncommitted(j)') \in Nat
        /\ Cardinality(Uncommitted(j)') <= Cardinality(Uncommitted(j))
        BY IdleCheck, <2>1a DEF Moves, One
  <2>3. lost'[j] = lost[j] + One(b) BY <1>2 DEF One
  <2>4. One(b) \in {0, 1} BY DEF One
  <2> HIDE DEF b
  <2> QED BY <1>2, <2>1, <2>2, <2>3, <2>4 DEF Accounted
<1>5. Refusals' BY <1>2, RefusalsStay DEF MonitorInv
<1> QED BY <1>3, <1>4, <1>5 DEF MonitorInv, Alerts

(* Every other step of a check. *)
LEMMA OtherCheckSteps ==
    ASSUME MonitorInv, NEW c \in Checkers, StartCheck(c) \/ Read(c)
    PROVE  MonitorInv'
<1>1. MonitorTypes /\ check[c] \in Checks BY DEF MonitorInv, MonitorTypes
<1>2. PICK r \in Checks : /\ check' = [check EXCEPT ![c] = r] /\ r.new = {}
                          /\ r.pc \in {"read", "ask"}
  <2>1. CASE StartCheck(c)
    <3> DEFINE x == [pc |-> "read", price |-> price, todo |-> {}, new |-> {}]
    <3>1. x \in Checks /\ x.new = {} /\ x.pc = "read" BY <1>1 DEF Checks, MonitorTypes
    <3>2. check' = [check EXCEPT ![c] = x] BY <2>1 DEF StartCheck
    <3> HIDE DEF x
    <3> QED BY <3>1, <3>2
  <2>2. CASE Read(c)
    <3> DEFINE breached == {k \in Keys : k[1] \in open /\ Breached(k, check[c].price)}
               x == [pc |-> "ask", price |-> 0, todo |-> breached, new |-> {}]
    <3>1. breached \subseteq Keys OBVIOUS
    <3>2. check' = [check EXCEPT ![c] = x] BY <2>2 DEF Read
    <3> HIDE DEF breached
    <3>3. x \in Checks BY <3>1 DEF Checks
    <3> QED BY <3>2, <3>3
  <2> QED BY <2>1, <2>2
<1>3. check[c].pc \in {"idle", "read"} BY IdleCheck DEF StartCheck, Read
<1>4. /\ log' = log /\ sent' = sent /\ lost' = lost /\ raced' = raced
      /\ UNCHANGED <<database, price, open, refused, faults>>
      BY DEF StartCheck, Read, histories
<1>5. Alerts' BY <1>2, <1>3, <1>4, QuietCheck
<1>6. MonitorTypes' BY <1>1, <1>2, <1>4 DEF MonitorTypes
<1>7. Refusals' BY <1>4, RefusalsStay DEF MonitorInv
<1> QED BY <1>5, <1>6, <1>7 DEF MonitorInv

(* So every row is always accounted for. *)
LEMMA MonitorInvariance == MonitorSpec => []MonitorInv
<1>1. ASSUME MonitorInv, [MonitorNext]_monitorVars PROVE MonitorInv'
  <2>1. ASSUME UNCHANGED <<database, log, check, sent, lost, raced, refused, faults>>,
               price' \in Prices, open' \subseteq Trades
        PROVE  MonitorInv'
    <3>1. MonitorTypes' BY <1>1, <2>1 DEF MonitorInv, MonitorTypes
    <3>2. Alerts'
          BY <1>1, <2>1 DEF MonitorInv, Alerts, Accounted, Sending, Uncommitted
    <3>3. Refusals' BY <1>1, <2>1, RefusalsStay DEF MonitorInv
    <3> QED BY <3>1, <3>2, <3>3 DEF MonitorInv
  <2>2. CASE PriceMoves
        BY <1>1, <2>1, <2>2 DEF PriceMoves, histories, MonitorInv, MonitorTypes
  <2>3. ASSUME NEW t \in Trades, TradeCloses(t) PROVE MonitorInv'
        BY <1>1, <2>1, <2>3 DEF TradeCloses, histories, MonitorInv, MonitorTypes
  <2>4. ASSUME NEW c \in Checkers, StartCheck(c) \/ CheckStep(c) \/ Abort(c) PROVE MonitorInv'
    <3>1. StartCheck(c) \/ Read(c) \/ Ask(c) \/ Commit(c) \/ RowRefused(c) \/ Send(c) \/ Abort(c)
          BY <2>4 DEF CheckStep
    <3> QED BY <1>1, <3>1, OtherCheckSteps, AskKeepsAlerts, CommitKeepsAlerts, RefusedKeepsAlerts,
               SendKeepsAlerts, AbortKeepsAlerts
  <2>5. CASE UNCHANGED monitorVars
        BY <1>1, <2>1, <2>5 DEF monitorVars, MonitorInv, MonitorTypes
  <2> QED BY <1>1, <2>2, <2>3, <2>4, <2>5 DEF MonitorNext
<1> QED BY <1>1, MonitorInitially, PTL DEF MonitorSpec

(* Every row of the notification table stands for one message, a breach is
   reported twice only when two checks asked about it before either had
   committed (monitor.py:71, 100), and where a row is refused none is ever
   taken (models.py:514): whatever the trades, the levels, the prices, the
   number of requests and the checks cut off. *)
THEOREM BreachReportedOnce == MonitorSpec => []OneAlertPerBreach
<1>1. MonitorInv => OneAlertPerBreach BY DEF MonitorInv, Alerts, Accounted, Refusals, OneAlertPerBreach
<1> QED BY <1>1, MonitorInvariance, PTL
=============================================================================
