--------------------------- MODULE ExecutionLedger ---------------------------
(***************************************************************************)
(* What services/live_execution/executor.py promises of its table: every   *)
(* candidate gets one durable record, is submitted to the exchange client  *)
(* at most once, never before the order contract is verified, and a        *)
(* rejection is final.  LiveExecution implements this specification;       *)
(* ExternalSignals is composed with it.                                    *)
(***************************************************************************)
EXTENDS Naturals

CONSTANTS
    Keys,           \* idempotency keys
    Verified        \* the truth values ORDER_CONTRACT_VERIFIED may have

VARIABLES
    ledger,         \* the fate of each key
    calls,          \* how often submit_futures_order was called for each key
    verified        \* ORDER_CONTRACT_VERIFIED, fixed for the process's life

vars == <<ledger, calls, verified>>

Init ==
    /\ ledger = [k \in Keys |-> "absent"]
    /\ calls = [k \in Keys |-> 0]
    /\ verified \in Verified

Receive(k) ==
    /\ ledger[k] = "absent"
    /\ ledger' = [ledger EXCEPT ![k] = "pending"]
    /\ UNCHANGED <<calls, verified>>

Attempt(k) ==
    /\ verified
    /\ ledger[k] = "pending"
    /\ calls[k] = 0
    /\ calls' = [calls EXCEPT ![k] = 1]
    /\ UNCHANGED <<ledger, verified>>

Reject(k) ==
    /\ ledger[k] = "pending"
    /\ ledger' = [ledger EXCEPT ![k] = "rejected"]
    /\ UNCHANGED <<calls, verified>>

Next == \E k \in Keys : Receive(k) \/ Attempt(k) \/ Reject(k)

Spec == Init /\ [][Next]_vars
=============================================================================
