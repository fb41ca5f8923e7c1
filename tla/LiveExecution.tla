---------------------------- MODULE LiveExecution ----------------------------
(***************************************************************************)
(* services/live_execution: workers that run                               *)
(* process_live_execution_candidate (executor.py) at the same time, the    *)
(* gates they clear (gates.py), the order client that always refuses       *)
(* (order_client.py) and the operator's emergency stop (kill_switch.py).   *)
(*                                                                         *)
(* A worker is one call; when it has returned it may be called again, with *)
(* the same candidate or another.  Each database call is an await; there   *)
(* it may fail, be cancelled, or die with the process.  Rows are never     *)
(* deleted.                                                                *)
(***************************************************************************)
EXTENDS Naturals

CONSTANTS
    Workers,        \* concurrent calls
    Keys,           \* idempotency keys of the candidates
    Verified,       \* the values ORDER_CONTRACT_VERIFIED may have: FALSE as
                    \* the code stands, TRUE once somebody verifies it
    NoRow,          \* no live_executions row with that key
    NoKey           \* a worker that was never called

ASSUME LiveAssumption ==
    /\ Verified \subseteq BOOLEAN
    /\ NoKey \notin Keys

Statuses ==
    {"RECEIVED", "PARSED", "RISK_APPROVED", "EXECUTION_ATTEMPTED", "REJECTED"}

ASSUME NoRowAssumption == NoRow \notin Statuses

VARIABLES
    verified,       \* ORDER_CONTRACT_VERIFIED
    stop,           \* the emergency stop's bot_state row
    rows,           \* the live_executions table: the status of each key
    pc,             \* each worker's next await
    key,            \* each worker's candidate
    clear,          \* what each worker's EMERGENCY_STOP_CLEAR gate has read
    calls,          \* history: calls of submit_futures_order for each key
    late,           \* history: each worker's attempts since the stop was set
    broken          \* history: keys whose worker failed before the decision

vars == <<verified, stop, rows, pc, key, clear, calls, late, broken>>

\* The stages of the one worker that has inserted the row.
Owning == {"received", "gates", "judge", "approved", "submit", "refused"}

Stages == {"idle", "select", "insert", "lost"} \cup Owning

TypeOK ==
    /\ verified \in BOOLEAN /\ stop \in BOOLEAN
    /\ rows \in [Keys -> Statuses \cup {NoRow}]
    /\ pc \in [Workers -> Stages]
    /\ key \in [Workers -> Keys \cup {NoKey}]
    /\ \A w \in Workers : pc[w] # "idle" => key[w] \in Keys
    /\ clear \in [Workers -> BOOLEAN]
    /\ calls \in [Keys -> Nat]
    /\ late \in [Workers -> Nat]
    /\ broken \subseteq Keys

Init ==
    /\ verified \in Verified
    /\ stop = FALSE
    /\ rows = [k \in Keys |-> NoRow]
    /\ pc = [w \in Workers |-> "idle"]
    /\ key = [w \in Workers |-> NoKey]
    /\ clear = [w \in Workers |-> FALSE]
    /\ calls = [k \in Keys |-> 0]
    /\ late = [w \in Workers |-> 0]
    /\ broken = {}

-----------------------------------------------------------------------------
Goto(w, stage) == pc' = [pc EXCEPT ![w] = stage]

SetStatus(w, status) == rows' = [rows EXCEPT ![key[w]] = status]

Call(w) ==
    /\ pc[w] = "idle"
    /\ \E k \in Keys : key' = [key EXCEPT ![w] = k]
    /\ Goto(w, "select")
    /\ UNCHANGED <<verified, stop, rows, clear, calls, late, broken>>

(* An existing row is returned as it is, decided or not.                   *)
Select(w) ==
    /\ pc[w] = "select"
    /\ Goto(w, IF rows[key[w]] = NoRow THEN "insert" ELSE "idle")
    /\ UNCHANGED <<verified, stop, rows, key, clear, calls, late, broken>>

\* Mutation: idempotency_key without its unique index.
InsertNotUnique(w) ==
    /\ pc[w] = "insert"
    /\ SetStatus(w, "RECEIVED")
    /\ Goto(w, "received")
    /\ UNCHANGED <<verified, stop, key, clear, calls, late, broken>>

(* The INSERT, which the key's unique index refuses if another worker's    *)
(* row has landed.                                                         *)
Insert(w) ==
    /\ pc[w] = "insert"
    /\ IF rows[key[w]] = NoRow
       THEN SetStatus(w, "RECEIVED") /\ Goto(w, "received")
       ELSE UNCHANGED rows /\ Goto(w, "lost")
    /\ UNCHANGED <<verified, stop, key, clear, calls, late, broken>>

(* After the rollback: the winner's row is read and returned.              *)
ReadWinner(w) ==
    /\ pc[w] = "lost"
    /\ Goto(w, "idle")
    /\ UNCHANGED <<verified, stop, rows, key, clear, calls, late, broken>>

MarkParsed(w) ==
    /\ pc[w] = "received"
    /\ SetStatus(w, "PARSED")
    /\ Goto(w, "gates")
    /\ UNCHANGED <<verified, stop, key, clear, calls, late, broken>>

\* Mutation: a stop once seen clear is not read again.
ReadStopOnce(w) ==
    /\ pc[w] = "gates"
    /\ clear' = [clear EXCEPT ![w] = @ \/ ~stop]
    /\ Goto(w, "judge")
    /\ UNCHANGED <<verified, stop, rows, key, calls, late, broken>>

(* The EMERGENCY_STOP_CLEAR gate; gates with awaits of their own follow.   *)
ReadStop(w) ==
    /\ pc[w] = "gates"
    /\ clear' = [clear EXCEPT ![w] = ~stop]
    /\ Goto(w, "judge")
    /\ UNCHANGED <<verified, stop, rows, key, calls, late, broken>>

(* The other gates depend on nothing here (the two that count open live    *)
(* positions look for a status no code writes): any of them may fail.      *)
Approve(w) ==
    /\ pc[w] = "judge"
    /\ clear[w] /\ verified
    /\ SetStatus(w, "RISK_APPROVED")
    /\ Goto(w, "approved")
    /\ UNCHANGED <<verified, stop, key, clear, calls, late, broken>>

\* Mutation: the rejection is set on the object and never committed.
RejectUnsaved(w) ==
    /\ pc[w] = "judge"
    /\ Goto(w, "idle")
    /\ UNCHANGED <<verified, stop, rows, key, clear, calls, late, broken>>

Reject(w) ==
    /\ pc[w] = "judge"
    /\ SetStatus(w, "REJECTED")
    /\ Goto(w, "idle")
    /\ UNCHANGED <<verified, stop, key, clear, calls, late, broken>>

Attempt(w) ==
    /\ pc[w] = "approved"
    /\ SetStatus(w, "EXECUTION_ATTEMPTED")
    /\ Goto(w, "submit")
    /\ late' = [late EXCEPT ![w] = IF stop THEN @ + 1 ELSE @]
    /\ UNCHANGED <<verified, stop, key, clear, calls, broken>>

(* submit_futures_order always raises.                                     *)
Submit(w) ==
    /\ pc[w] = "submit"
    /\ calls' = [calls EXCEPT ![key[w]] = @ + 1]
    /\ Goto(w, "refused")
    /\ UNCHANGED <<verified, stop, rows, key, clear, late, broken>>

RecordRefusal(w) ==
    /\ pc[w] = "refused"
    /\ SetStatus(w, "REJECTED")
    /\ Goto(w, "idle")
    /\ UNCHANGED <<verified, stop, key, clear, calls, late, broken>>

(* A database error, a cancellation or the end of the process.             *)
Fail(w) ==
    /\ pc[w] # "idle"
    /\ broken' = IF pc[w] \in Owning THEN broken \cup {key[w]} ELSE broken
    /\ Goto(w, "idle")
    /\ UNCHANGED <<verified, stop, rows, key, clear, calls, late>>

ActivateStop ==
    /\ ~stop
    /\ stop' = TRUE
    /\ late' = [w \in Workers |-> 0]
    /\ UNCHANGED <<verified, rows, pc, key, clear, calls, broken>>

ClearStop ==
    /\ stop
    /\ stop' = FALSE
    /\ UNCHANGED <<verified, rows, pc, key, clear, calls, late, broken>>

Step(w) ==
    \/ Select(w)
    \/ Insert(w)
    \/ ReadWinner(w)
    \/ MarkParsed(w)
    \/ ReadStop(w)
    \/ Approve(w)
    \/ Reject(w)
    \/ Attempt(w)
    \/ Submit(w)
    \/ RecordRefusal(w)

Next ==
    \/ \E w \in Workers : Call(w) \/ Step(w) \/ Fail(w)
    \/ ActivateStop
    \/ ClearStop

Spec == Init /\ [][Next]_vars

(* The event loop resumes every call whose await has returned.             *)
FairSpec == Spec /\ \A w \in Workers : WF_vars(Step(w))

-----------------------------------------------------------------------------
\* The fate of a candidate whose row says status.
Fate(status) ==
    CASE status = NoRow -> "absent"
      [] status = "REJECTED" -> "rejected"
      [] OTHER -> "pending"

Ledger == INSTANCE ExecutionLedger WITH ledger <- [k \in Keys |-> Fate(rows[k])]

(* Whatever the interleaving, the failures and the repeated calls: one     *)
(* record per candidate, at most one submission and none before the        *)
(* contract is verified, no change of a rejection (executor.py: "never     *)
(* creates a second one and never re-attempts execution for an             *)
(* already-decided candidate").                                            *)
LedgerSpec == Ledger!Spec

(* While the emergency stop stays set, a worker attempts at most the one   *)
(* execution whose gate had read it before; nothing else gets through      *)
(* (kill_switch.py: it "blocks NEW entries, enforced by the gate check").  *)
StopDrains == \A w \in Workers : late[w] <= 1

(* Every candidate ends at REJECTED (executor.py) unless the worker that   *)
(* holds it fails: then no later call with the same key decides it.        *)
EveryRowDecided ==
    \A k \in Keys : rows[k] # NoRow ~> (rows[k] = "REJECTED" \/ k \in broken)
=============================================================================
