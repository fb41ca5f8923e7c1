------------------------- MODULE LiveExecutionProofs -------------------------
(* Theorems about LiveExecution, for every set of workers and candidates.  *)
EXTENDS LiveExecution, TLAPS

-----------------------------------------------------------------------------
(* The inductive invariant.                                                *)

\* What the row of an owning worker's candidate says at each stage.
StatusAt ==
    [s \in Owning |->
        CASE s = "received" -> "RECEIVED"
          [] s \in {"gates", "judge"} -> "PARSED"
          [] s = "approved" -> "RISK_APPROVED"
          [] s \in {"submit", "refused"} -> "EXECUTION_ATTEMPTED"]

RowFollowsOwner ==
    \A w \in Workers : pc[w] \in Owning => rows[key[w]] = StatusAt[pc[w]]

OneOwner ==
    \A v, w \in Workers :
        v # w /\ pc[v] \in Owning /\ pc[w] \in Owning => key[v] # key[w]

\* Nothing was submitted for a row still on its way to the submission.
CallsFollowRow ==
    /\ \A k \in Keys :
          calls[k] # 0 => rows[k] \in {"EXECUTION_ATTEMPTED", "REJECTED"}
    /\ \A w \in Workers : pc[w] = "submit" => calls[key[w]] = 0

ApprovedIsVerified ==
    \A w \in Workers : pc[w] \in {"approved", "submit"} => verified

\* A worker that has attempted under the stop holds no earlier reading of it.
LateHasReread ==
    \A w \in Workers : stop /\ late[w] = 1 =>
        /\ pc[w] # "approved"
        /\ pc[w] = "judge" => ~clear[w]

IInv ==
    /\ TypeOK
    /\ RowFollowsOwner
    /\ OneOwner
    /\ CallsFollowRow
    /\ ApprovedIsVerified
    /\ StopDrains
    /\ LateHasReread

\* The statuses StatusAt gives, written out.
LEMMA StatusAtFacts ==
    /\ StatusAt["received"] = "RECEIVED"
    /\ StatusAt["gates"] = "PARSED" /\ StatusAt["judge"] = "PARSED"
    /\ StatusAt["approved"] = "RISK_APPROVED"
    /\ StatusAt["submit"] = "EXECUTION_ATTEMPTED"
    /\ StatusAt["refused"] = "EXECUTION_ATTEMPTED"
    /\ \A s \in Owning : StatusAt[s] \in Statuses \ {"REJECTED"}
BY DEF StatusAt, Owning, Statuses

\* With no row and every worker idle the invariant holds.
LEMMA InitInv == Init => IInv
<1> SUFFICES ASSUME Init PROVE IInv
  OBVIOUS
<1>1. TypeOK
  BY LiveAssumption DEF Init, TypeOK, Stages, Owning
<1>2. \A w \in Workers : pc[w] = "idle"
  BY DEF Init
<1>3. RowFollowsOwner /\ OneOwner /\ ApprovedIsVerified
  BY <1>2 DEF RowFollowsOwner, OneOwner, ApprovedIsVerified, Owning
<1>4. CallsFollowRow /\ StopDrains /\ LateHasReread
  BY <1>2 DEF Init, CallsFollowRow, StopDrains, LateHasReread
<1> QED BY <1>1, <1>3, <1>4 DEF IInv

(* A step of one worker: where it goes, and what its row becomes.          *)
Moves(w, s) == pc' = [pc EXCEPT ![w] = s] /\ UNCHANGED key

\* The owner w moves on to stage s and its row follows.
LEMMA OwnerAdvances ==
    ASSUME TypeOK, RowFollowsOwner, OneOwner, NEW w \in Workers,
           pc[w] \in Owning, NEW s \in Owning, Moves(w, s),
           rows' = [rows EXCEPT ![key[w]] = StatusAt[s]]
    PROVE  RowFollowsOwner' /\ OneOwner'
<1>1. key[w] \in Keys /\ pc' = [pc EXCEPT ![w] = s] /\ key' = key
  BY DEF TypeOK, Moves, Owning
<1>2. \A v \in Workers : pc'[v] = IF v = w THEN s ELSE pc[v]
  BY <1>1 DEF TypeOK
<1>3. ASSUME NEW v \in Workers, pc'[v] \in Owning
      PROVE  rows'[key'[v]] = StatusAt[pc'[v]]
  <2>1. key[v] \in Keys
    BY <1>2, <1>3, <1>1 DEF TypeOK, Owning
  <2>2. CASE v = w
    BY <1>1, <1>2, <2>2 DEF TypeOK
  <2>3. CASE v # w
    <3>1. pc[v] \in Owning /\ pc'[v] = pc[v] /\ key[v] # key[w]
      BY <1>2, <1>3, <2>3 DEF OneOwner
    <3>2. rows'[key[v]] = rows[key[v]]
      BY <3>1, <2>1, <1>1 DEF TypeOK
    <3> QED BY <3>1, <3>2, <1>1 DEF RowFollowsOwner
  <2> QED BY <2>2, <2>3
<1>4. OneOwner'
  BY <1>1, <1>2 DEF OneOwner
<1> QED BY <1>3, <1>4 DEF RowFollowsOwner

\* A worker leaves, or never was in, the stages of an owner; the row it
\* may have owned becomes what it becomes.
LEMMA OwnerLeaves ==
    ASSUME TypeOK, RowFollowsOwner, OneOwner, NEW w \in Workers,
           NEW s \in Stages \ Owning, pc' = [pc EXCEPT ![w] = s],
           \A v \in Workers : v # w => key'[v] = key[v],
           \/ rows' = rows
           \/ /\ pc[w] \in Owning
              /\ \E t : rows' = [rows EXCEPT ![key[w]] = t]
    PROVE  RowFollowsOwner' /\ OneOwner'
<1>1. \A v \in Workers : pc'[v] = IF v = w THEN s ELSE pc[v]
  BY DEF TypeOK
<1>2. \A v \in Workers : pc'[v] \in Owning =>
          v # w /\ pc[v] \in Owning /\ pc'[v] = pc[v] /\ key'[v] = key[v]
  BY <1>1
<1>3. ASSUME NEW v \in Workers, pc'[v] \in Owning
      PROVE  rows'[key'[v]] = StatusAt[pc'[v]]
  <2>1. v # w /\ pc[v] \in Owning /\ pc'[v] = pc[v] /\ key'[v] = key[v]
    BY <1>2, <1>3
  <2>2. rows'[key[v]] = rows[key[v]]
    <3>1. CASE rows' = rows
      BY <3>1
    <3>2. CASE pc[w] \in Owning /\ \E t : rows' = [rows EXCEPT ![key[w]] = t]
      <4>1. key[v] # key[w] /\ key[v] \in Keys
        BY <2>1, <3>2 DEF OneOwner, TypeOK, Owning
      <4> QED BY <4>1, <3>2 DEF TypeOK
    <3> QED BY <3>1, <3>2
  <2> QED BY <2>1, <2>2 DEF RowFollowsOwner
<1>4. OneOwner'
  BY <1>2 DEF OneOwner
<1> QED BY <1>3, <1>4 DEF RowFollowsOwner


\* Every step preserves the inductive invariant.
LEMMA NextInv == IInv /\ [Next]_vars => IInv'
<1> SUFFICES ASSUME IInv, [Next]_vars PROVE IInv'
  OBVIOUS
<1>0. /\ TypeOK /\ RowFollowsOwner /\ OneOwner /\ CallsFollowRow
      /\ ApprovedIsVerified /\ StopDrains /\ LateHasReread
  BY DEF IInv
<1>1. ASSUME NEW w \in Workers, Call(w) PROVE IInv'
  <2>1. TypeOK'
    BY <1>0, <1>1 DEF TypeOK, Call, Goto, SetStatus, Stages, Owning, Statuses
  <2>2. RowFollowsOwner' /\ OneOwner'
    <3>1. pc' = [pc EXCEPT ![w] = "select"] /\ "select" \in Stages \ Owning
      BY <1>1 DEF Call, Goto, Stages, Owning
    <3>2. \A v \in Workers : v # w => key'[v] = key[v]
      BY <1>0, <1>1 DEF Call, TypeOK
    <3>3. rows' = rows
            \/ (pc[w] \in Owning /\ \E t : rows' = [rows EXCEPT ![key[w]] = t])
      BY <1>1 DEF Call, SetStatus, Owning
    <3> QED BY <1>0, <3>1, <3>2, <3>3, OwnerLeaves
  <2>3. CallsFollowRow'
    BY <1>0, <1>1, StatusAtFacts
      DEF CallsFollowRow, RowFollowsOwner, OneOwner, TypeOK, Call, Goto,
          SetStatus, Owning
  <2>4. ApprovedIsVerified'
    BY <1>0, <1>1 DEF ApprovedIsVerified, TypeOK, Call, Goto
  <2>5. StopDrains' /\ LateHasReread'
    BY <1>0, <1>1 DEF StopDrains, LateHasReread, TypeOK, Call, Goto
  <2> QED BY <2>1, <2>2, <2>3, <2>4, <2>5 DEF IInv
<1>2. ASSUME NEW w \in Workers, Select(w) PROVE IInv'
  <2>1. TypeOK'
    BY <1>0, <1>2 DEF TypeOK, Select, Goto, SetStatus, Stages, Owning, Statuses
  <2>2. RowFollowsOwner' /\ OneOwner'
    <3> DEFINE s == IF rows[key[w]] = NoRow THEN "insert" ELSE "idle"
    <3>1. pc' = [pc EXCEPT ![w] = s] /\ s \in Stages \ Owning
      BY <1>2 DEF Select, Goto, Stages, Owning
    <3> HIDE DEF s
    <3>2. rows' = rows /\ key' = key
      BY <1>2 DEF Select
    <3> QED BY <1>0, <3>1, <3>2, OwnerLeaves
  <2>3. CallsFollowRow'
    BY <1>0, <1>2, StatusAtFacts
      DEF CallsFollowRow, RowFollowsOwner, OneOwner, TypeOK, Select, Goto,
          SetStatus, Owning
  <2>4. ApprovedIsVerified'
    BY <1>0, <1>2 DEF ApprovedIsVerified, TypeOK, Select, Goto
  <2>5. StopDrains' /\ LateHasReread'
    BY <1>0, <1>2 DEF StopDrains, LateHasReread, TypeOK, Select, Goto
  <2> QED BY <2>1, <2>2, <2>3, <2>4, <2>5 DEF IInv
<1>3. ASSUME NEW w \in Workers, Insert(w) PROVE IInv'
  <2>1. TypeOK'
    BY <1>0, <1>3 DEF TypeOK, Insert, Goto, SetStatus, Stages, Owning, Statuses
  <2>2. RowFollowsOwner' /\ OneOwner'
    <3>1. CASE rows[key[w]] # NoRow
      <4>1. rows' = rows /\ key' = key /\ pc' = [pc EXCEPT ![w] = "lost"]
        BY <1>3, <3>1 DEF Insert, Goto
      <4>2. "lost" \in Stages \ Owning
        BY DEF Stages, Owning
      <4> QED BY <1>0, <4>1, <4>2, OwnerLeaves
    <3>2. CASE rows[key[w]] = NoRow
      <4>1. /\ pc' = [pc EXCEPT ![w] = "received"] /\ key' = key
            /\ rows' = [rows EXCEPT ![key[w]] = "RECEIVED"]
            /\ pc[w] = "insert" /\ key[w] \in Keys
        BY <1>0, <1>3, <3>2 DEF Insert, Goto, SetStatus, TypeOK
      <4>2. \A v \in Workers : pc'[v] = IF v = w THEN "received" ELSE pc[v]
        BY <1>0, <4>1 DEF TypeOK
      <4>3. \A v \in Workers : pc[v] \in Owning => key[v] # key[w]
        BY <1>0, <3>2, StatusAtFacts, NoRowAssumption DEF RowFollowsOwner
      <4>4. OneOwner'
        BY <1>0, <4>1, <4>2, <4>3 DEF OneOwner
      <4>5. ASSUME NEW v \in Workers, pc'[v] \in Owning
            PROVE  rows'[key'[v]] = StatusAt[pc'[v]]
        <5>1. CASE v = w
          BY <1>0, <4>1, <4>2, <5>1, StatusAtFacts DEF TypeOK
        <5>2. CASE v # w
          BY <1>0, <4>1, <4>2, <4>3, <4>5, <5>2 DEF TypeOK, RowFollowsOwner
        <5> QED BY <5>1, <5>2
      <4> QED BY <4>4, <4>5 DEF RowFollowsOwner
    <3> QED BY <3>1, <3>2
  <2>3. CallsFollowRow'
    <3>1. CASE rows[key[w]] # NoRow
      BY <1>0, <1>3, <3>1 DEF CallsFollowRow, TypeOK, Insert, Goto
    <3>2. CASE rows[key[w]] = NoRow
      <4>1. /\ key[w] \in Keys /\ key' = key /\ calls' = calls
            /\ rows' = [rows EXCEPT ![key[w]] = "RECEIVED"]
            /\ pc' = [pc EXCEPT ![w] = "received"]
        BY <1>0, <1>3, <3>2 DEF Insert, Goto, SetStatus, TypeOK
      <4>2. calls[key[w]] = 0
        BY <1>0, <3>2, <4>1, NoRowAssumption DEF CallsFollowRow, Statuses
      <4>3. \A k \in Keys : calls'[k] # 0 =>
                rows'[k] \in {"EXECUTION_ATTEMPTED", "REJECTED"}
        BY <1>0, <4>1, <4>2 DEF CallsFollowRow, TypeOK
      <4>4. \A v \in Workers : pc'[v] = "submit" => calls'[key'[v]] = 0
        BY <1>0, <4>1 DEF CallsFollowRow, TypeOK
      <4> QED BY <4>3, <4>4 DEF CallsFollowRow
    <3> QED BY <3>1, <3>2
  <2>4. ApprovedIsVerified'
    BY <1>0, <1>3 DEF ApprovedIsVerified, TypeOK, Insert, Goto
  <2>5. StopDrains' /\ LateHasReread'
    BY <1>0, <1>3 DEF StopDrains, LateHasReread, TypeOK, Insert, Goto
  <2> QED BY <2>1, <2>2, <2>3, <2>4, <2>5 DEF IInv
<1>4. ASSUME NEW w \in Workers, ReadWinner(w) PROVE IInv'
  <2>1. TypeOK'
    BY <1>0, <1>4
      DEF TypeOK, ReadWinner, Goto, SetStatus, Stages, Owning, Statuses
  <2>2. RowFollowsOwner' /\ OneOwner'
    <3>1. pc' = [pc EXCEPT ![w] = "idle"] /\ "idle" \in Stages \ Owning
      BY <1>4 DEF ReadWinner, Goto, Stages, Owning
    <3>2. \A v \in Workers : v # w => key'[v] = key[v]
      BY <1>0, <1>4 DEF ReadWinner, TypeOK
    <3>3. rows' = rows
            \/ (pc[w] \in Owning /\ \E t : rows' = [rows EXCEPT ![key[w]] = t])
      BY <1>4 DEF ReadWinner, SetStatus, Owning
    <3> QED BY <1>0, <3>1, <3>2, <3>3, OwnerLeaves
  <2>3. CallsFollowRow'
    BY <1>0, <1>4, StatusAtFacts
      DEF CallsFollowRow, RowFollowsOwner, OneOwner, TypeOK, ReadWinner, Goto,
          SetStatus, Owning
  <2>4. ApprovedIsVerified'
    BY <1>0, <1>4 DEF ApprovedIsVerified, TypeOK, ReadWinner, Goto
  <2>5. StopDrains' /\ LateHasReread'
    BY <1>0, <1>4 DEF StopDrains, LateHasReread, TypeOK, ReadWinner, Goto
  <2> QED BY <2>1, <2>2, <2>3, <2>4, <2>5 DEF IInv
<1>5. ASSUME NEW w \in Workers, MarkParsed(w) PROVE IInv'
  <2>1. TypeOK'
    BY <1>0, <1>5
      DEF TypeOK, MarkParsed, Goto, SetStatus, Stages, Owning, Statuses
  <2>2. RowFollowsOwner' /\ OneOwner'
    <3>1. pc[w] \in Owning /\ "gates" \in Owning /\ Moves(w, "gates")
      BY <1>5 DEF MarkParsed, Goto, Moves, Owning
    <3>2. rows' = [rows EXCEPT ![key[w]] = StatusAt["gates"]]
      BY <1>5, StatusAtFacts DEF MarkParsed, SetStatus
    <3> QED BY <1>0, <3>1, <3>2, OwnerAdvances
  <2>3. CallsFollowRow'
    BY <1>0, <1>5, StatusAtFacts
      DEF CallsFollowRow, RowFollowsOwner, OneOwner, TypeOK, MarkParsed, Goto,
          SetStatus, Owning
  <2>4. ApprovedIsVerified'
    BY <1>0, <1>5 DEF ApprovedIsVerified, TypeOK, MarkParsed, Goto
  <2>5. StopDrains' /\ LateHasReread'
    BY <1>0, <1>5 DEF StopDrains, LateHasReread, TypeOK, MarkParsed, Goto
  <2> QED BY <2>1, <2>2, <2>3, <2>4, <2>5 DEF IInv
<1>6. ASSUME NEW w \in Workers, ReadStop(w) PROVE IInv'
  <2>1. TypeOK'
    BY <1>0, <1>6
      DEF TypeOK, ReadStop, Goto, SetStatus, Stages, Owning, Statuses
  <2>2. RowFollowsOwner' /\ OneOwner'
    <3>1. pc[w] \in Owning /\ "judge" \in Owning /\ Moves(w, "judge")
      BY <1>6 DEF ReadStop, Goto, Moves, Owning
    <3>2. rows' = [rows EXCEPT ![key[w]] = StatusAt["judge"]]
      <4>1. rows' = rows /\ rows[key[w]] = StatusAt["judge"]
        BY <1>0, <1>6, StatusAtFacts DEF ReadStop, RowFollowsOwner, Owning
      <4>2. rows = [rows EXCEPT ![key[w]] = rows[key[w]]]
        BY <1>0 DEF TypeOK
      <4> QED BY <4>1, <4>2
    <3> QED BY <1>0, <3>1, <3>2, OwnerAdvances
  <2>3. CallsFollowRow'
    BY <1>0, <1>6, StatusAtFacts
      DEF CallsFollowRow, RowFollowsOwner, OneOwner, TypeOK, ReadStop, Goto,
          SetStatus, Owning
  <2>4. ApprovedIsVerified'
    BY <1>0, <1>6 DEF ApprovedIsVerified, TypeOK, ReadStop, Goto
  <2>5. StopDrains' /\ LateHasReread'
    BY <1>0, <1>6 DEF StopDrains, LateHasReread, TypeOK, ReadStop, Goto
  <2> QED BY <2>1, <2>2, <2>3, <2>4, <2>5 DEF IInv
<1>7. ASSUME NEW w \in Workers, Approve(w) PROVE IInv'
  <2>1. TypeOK'
    BY <1>0, <1>7 DEF TypeOK, Approve, Goto, SetStatus, Stages, Owning, Statuses
  <2>2. RowFollowsOwner' /\ OneOwner'
    <3>1. pc[w] \in Owning /\ "approved" \in Owning /\ Moves(w, "approved")
      BY <1>7 DEF Approve, Goto, Moves, Owning
    <3>2. rows' = [rows EXCEPT ![key[w]] = StatusAt["approved"]]
      BY <1>7, StatusAtFacts DEF Approve, SetStatus
    <3> QED BY <1>0, <3>1, <3>2, OwnerAdvances
  <2>3. CallsFollowRow'
    BY <1>0, <1>7, StatusAtFacts
      DEF CallsFollowRow, RowFollowsOwner, OneOwner, TypeOK, Approve, Goto,
          SetStatus, Owning
  <2>4. ApprovedIsVerified'
    BY <1>0, <1>7 DEF ApprovedIsVerified, TypeOK, Approve, Goto
  <2>5. StopDrains' /\ LateHasReread'
    BY <1>0, <1>7 DEF StopDrains, LateHasReread, TypeOK, Approve, Goto
  <2> QED BY <2>1, <2>2, <2>3, <2>4, <2>5 DEF IInv
<1>8. ASSUME NEW w \in Workers, Reject(w) PROVE IInv'
  <2>1. TypeOK'
    BY <1>0, <1>8 DEF TypeOK, Reject, Goto, SetStatus, Stages, Owning, Statuses
  <2>2. RowFollowsOwner' /\ OneOwner'
    <3>1. pc' = [pc EXCEPT ![w] = "idle"] /\ "idle" \in Stages \ Owning
      BY <1>8 DEF Reject, Goto, Stages, Owning
    <3>2. \A v \in Workers : v # w => key'[v] = key[v]
      BY <1>0, <1>8 DEF Reject, TypeOK
    <3>3. rows' = rows
            \/ (pc[w] \in Owning /\ \E t : rows' = [rows EXCEPT ![key[w]] = t])
      BY <1>8 DEF Reject, SetStatus, Owning
    <3> QED BY <1>0, <3>1, <3>2, <3>3, OwnerLeaves
  <2>3. CallsFollowRow'
    BY <1>0, <1>8, StatusAtFacts
      DEF CallsFollowRow, RowFollowsOwner, OneOwner, TypeOK, Reject, Goto,
          SetStatus, Owning
  <2>4. ApprovedIsVerified'
    BY <1>0, <1>8 DEF ApprovedIsVerified, TypeOK, Reject, Goto
  <2>5. StopDrains' /\ LateHasReread'
    BY <1>0, <1>8 DEF StopDrains, LateHasReread, TypeOK, Reject, Goto
  <2> QED BY <2>1, <2>2, <2>3, <2>4, <2>5 DEF IInv
<1>9. ASSUME NEW w \in Workers, Attempt(w) PROVE IInv'
  <2>1. TypeOK'
    BY <1>0, <1>9 DEF TypeOK, Attempt, Goto, SetStatus, Stages, Owning, Statuses
  <2>2. RowFollowsOwner' /\ OneOwner'
    <3>1. pc[w] \in Owning /\ "submit" \in Owning /\ Moves(w, "submit")
      BY <1>9 DEF Attempt, Goto, Moves, Owning
    <3>2. rows' = [rows EXCEPT ![key[w]] = StatusAt["submit"]]
      BY <1>9, StatusAtFacts DEF Attempt, SetStatus
    <3> QED BY <1>0, <3>1, <3>2, OwnerAdvances
  <2>3. CallsFollowRow'
    BY <1>0, <1>9, StatusAtFacts
      DEF CallsFollowRow, RowFollowsOwner, OneOwner, TypeOK, Attempt, Goto,
          SetStatus, Owning
  <2>4. ApprovedIsVerified'
    BY <1>0, <1>9 DEF ApprovedIsVerified, TypeOK, Attempt, Goto
  <2>5. StopDrains' /\ LateHasReread'
    BY <1>0, <1>9 DEF StopDrains, LateHasReread, TypeOK, Attempt, Goto
  <2> QED BY <2>1, <2>2, <2>3, <2>4, <2>5 DEF IInv
<1>10. ASSUME NEW w \in Workers, Submit(w) PROVE IInv'
  <2>1. TypeOK'
    BY <1>0, <1>10 DEF TypeOK, Submit, Goto, SetStatus, Stages, Owning, Statuses
  <2>2. RowFollowsOwner' /\ OneOwner'
    <3>1. pc[w] \in Owning /\ "refused" \in Owning /\ Moves(w, "refused")
      BY <1>10 DEF Submit, Goto, Moves, Owning
    <3>2. rows' = [rows EXCEPT ![key[w]] = StatusAt["refused"]]
      <4>1. rows' = rows /\ rows[key[w]] = StatusAt["refused"]
        BY <1>0, <1>10, StatusAtFacts DEF Submit, RowFollowsOwner, Owning
      <4>2. rows = [rows EXCEPT ![key[w]] = rows[key[w]]]
        BY <1>0 DEF TypeOK
      <4> QED BY <4>1, <4>2
    <3> QED BY <1>0, <3>1, <3>2, OwnerAdvances
  <2>3. CallsFollowRow'
    BY <1>0, <1>10, StatusAtFacts
      DEF CallsFollowRow, RowFollowsOwner, OneOwner, TypeOK, Submit, Goto,
          SetStatus, Owning
  <2>4. ApprovedIsVerified'
    BY <1>0, <1>10 DEF ApprovedIsVerified, TypeOK, Submit, Goto
  <2>5. StopDrains' /\ LateHasReread'
    BY <1>0, <1>10 DEF StopDrains, LateHasReread, TypeOK, Submit, Goto
  <2> QED BY <2>1, <2>2, <2>3, <2>4, <2>5 DEF IInv
<1>11. ASSUME NEW w \in Workers, RecordRefusal(w) PROVE IInv'
  <2>1. TypeOK'
    BY <1>0, <1>11
      DEF TypeOK, RecordRefusal, Goto, SetStatus, Stages, Owning, Statuses
  <2>2. RowFollowsOwner' /\ OneOwner'
    <3>1. pc' = [pc EXCEPT ![w] = "idle"] /\ "idle" \in Stages \ Owning
      BY <1>11 DEF RecordRefusal, Goto, Stages, Owning
    <3>2. \A v \in Workers : v # w => key'[v] = key[v]
      BY <1>0, <1>11 DEF RecordRefusal, TypeOK
    <3>3. rows' = rows
            \/ (pc[w] \in Owning /\ \E t : rows' = [rows EXCEPT ![key[w]] = t])
      BY <1>11 DEF RecordRefusal, SetStatus, Owning
    <3> QED BY <1>0, <3>1, <3>2, <3>3, OwnerLeaves
  <2>3. CallsFollowRow'
    BY <1>0, <1>11, StatusAtFacts
      DEF CallsFollowRow, RowFollowsOwner, OneOwner, TypeOK, RecordRefusal,
          Goto, SetStatus, Owning
  <2>4. ApprovedIsVerified'
    BY <1>0, <1>11 DEF ApprovedIsVerified, TypeOK, RecordRefusal, Goto
  <2>5. StopDrains' /\ LateHasReread'
    BY <1>0, <1>11 DEF StopDrains, LateHasReread, TypeOK, RecordRefusal, Goto
  <2> QED BY <2>1, <2>2, <2>3, <2>4, <2>5 DEF IInv
<1>12. ASSUME NEW w \in Workers, Fail(w) PROVE IInv'
  <2>1. TypeOK'
    BY <1>0, <1>12 DEF TypeOK, Fail, Goto, SetStatus, Stages, Owning, Statuses
  <2>2. RowFollowsOwner' /\ OneOwner'
    <3>1. pc' = [pc EXCEPT ![w] = "idle"] /\ "idle" \in Stages \ Owning
      BY <1>12 DEF Fail, Goto, Stages, Owning
    <3>2. \A v \in Workers : v # w => key'[v] = key[v]
      BY <1>0, <1>12 DEF Fail, TypeOK
    <3>3. rows' = rows
            \/ (pc[w] \in Owning /\ \E t : rows' = [rows EXCEPT ![key[w]] = t])
      BY <1>12 DEF Fail, SetStatus, Owning
    <3> QED BY <1>0, <3>1, <3>2, <3>3, OwnerLeaves
  <2>3. CallsFollowRow'
    BY <1>0, <1>12, StatusAtFacts
      DEF CallsFollowRow, RowFollowsOwner, OneOwner, TypeOK, Fail, Goto,
          SetStatus, Owning
  <2>4. ApprovedIsVerified'
    BY <1>0, <1>12 DEF ApprovedIsVerified, TypeOK, Fail, Goto
  <2>5. StopDrains' /\ LateHasReread'
    BY <1>0, <1>12 DEF StopDrains, LateHasReread, TypeOK, Fail, Goto
  <2> QED BY <2>1, <2>2, <2>3, <2>4, <2>5 DEF IInv
<1>13. CASE ActivateStop
  <2>1. TypeOK'
    BY <1>0, <1>13 DEF TypeOK, ActivateStop
  <2>2. RowFollowsOwner' /\ OneOwner' /\ CallsFollowRow' /\ ApprovedIsVerified'
    BY <1>0, <1>13
      DEF RowFollowsOwner, OneOwner, CallsFollowRow, ApprovedIsVerified,
          ActivateStop
  <2>3. StopDrains' /\ LateHasReread'
    BY <1>0, <1>13 DEF StopDrains, LateHasReread, TypeOK, ActivateStop
  <2> QED BY <2>1, <2>2, <2>3 DEF IInv
<1>14. CASE ClearStop
  <2>1. TypeOK'
    BY <1>0, <1>14 DEF TypeOK, ClearStop
  <2>2. RowFollowsOwner' /\ OneOwner' /\ CallsFollowRow' /\ ApprovedIsVerified'
    BY <1>0, <1>14
      DEF RowFollowsOwner, OneOwner, CallsFollowRow, ApprovedIsVerified,
          ClearStop
  <2>3. StopDrains' /\ LateHasReread'
    BY <1>0, <1>14 DEF StopDrains, LateHasReread, TypeOK, ClearStop
  <2> QED BY <2>1, <2>2, <2>3 DEF IInv
<1>15. CASE UNCHANGED vars
  BY <1>0, <1>15
    DEF vars, IInv, TypeOK, RowFollowsOwner, OneOwner, CallsFollowRow,
     ApprovedIsVerified, StopDrains, LateHasReread
<1> QED BY <1>1, <1>2, <1>3, <1>4, <1>5, <1>6, <1>7, <1>8, <1>9, <1>10,
       <1>11, <1>12, <1>13, <1>14, <1>15
      DEF Next, Step

\* The invariant holds throughout.
THEOREM Invariance == Spec => []IInv
BY InitInv, NextInv, PTL DEF Spec

-----------------------------------------------------------------------------
(* Consequences.                                                           *)

\* The fields of the executor, its table and its workers keep their types.
THEOREM TypeCorrect == Spec => []TypeOK
BY Invariance, PTL DEF IInv

\* The emergency stop lets at most one attempt of each worker through,
\* however many calls come while it is set (check_all_live_execution_gates).
THEOREM StopAlwaysDrains == Spec => []StopDrains
BY Invariance, PTL DEF IInv

\* What each status means for its candidate.
LEMMA FateFacts ==
    /\ Fate(NoRow) = "absent"
    /\ Fate("REJECTED") = "rejected"
    /\ \A s \in Statuses \ {"REJECTED"} : Fate(s) = "pending"
BY NoRowAssumption DEF Fate, Statuses

Fates == [k \in Keys |-> Fate(rows[k])]

\* A step that changes no row changes no fate.
LEMMA SameRows == rows' = rows => Fates' = Fates
BY DEF Fates

\* A step on one row changes the fate of that row's key alone.
LEMMA OneRow ==
    ASSUME TypeOK, NEW k \in Keys, NEW s \in Statuses,
           rows' = [rows EXCEPT ![k] = s]
    PROVE  /\ s # "REJECTED" => Fates' = [Fates EXCEPT ![k] = "pending"]
           /\ s = "REJECTED" => Fates' = [Fates EXCEPT ![k] = "rejected"]
<1>1. \A j \in Keys : rows'[j] = IF j = k THEN s ELSE rows[j]
  BY DEF TypeOK
<1>2. Fate(s) = IF s = "REJECTED" THEN "rejected" ELSE "pending"
  BY FateFacts
<1>3. \A j \in Keys : Fate(rows'[j]) = IF j = k THEN Fate(s) ELSE Fate(rows[j])
  BY <1>1
<1>4. Fates' = [j \in Keys |-> IF j = k THEN Fate(s) ELSE Fate(rows[j])]
  BY <1>3 DEF Fates
<1>5. [Fates EXCEPT ![k] = Fate(s)]
        = [j \in Keys |-> IF j = k THEN Fate(s) ELSE Fate(rows[j])]
  BY DEF Fates
<1> QED BY <1>2, <1>4, <1>5

\* The initial state is one of the ledger's.
LEMMA LedgerInit == Init => Ledger!Init
<1> SUFFICES ASSUME Init PROVE Ledger!Init
  OBVIOUS
<1>1. Fates = [k \in Keys |-> "absent"]
  BY FateFacts DEF Init, Fates
<1> QED BY <1>1 DEF Init, Fates, Ledger!Init

\* Every step is a step of the ledger or leaves it as it is.
LEMMA LedgerStep == IInv /\ [Next]_vars => [Ledger!Next]_(Ledger!vars)
<1> SUFFICES ASSUME IInv, [Next]_vars PROVE [Ledger!Next]_(Ledger!vars)
  OBVIOUS
<1>0. /\ TypeOK /\ RowFollowsOwner /\ CallsFollowRow /\ ApprovedIsVerified
  BY DEF IInv
<1>1. ASSUME rows' = rows, calls' = calls, verified' = verified
      PROVE  UNCHANGED Ledger!vars
  BY <1>1, SameRows DEF Fates, Ledger!vars
<1>2. ASSUME NEW w \in Workers, pc[w] \in Owning
      PROVE  /\ key[w] \in Keys
             /\ rows[key[w]] \in Statuses \ {"REJECTED"}
             /\ Fates[key[w]] = "pending"
  <2>1. key[w] \in Keys
    BY <1>0, <1>2 DEF TypeOK, Owning
  <2>2. rows[key[w]] \in Statuses \ {"REJECTED"}
    BY <1>0, <1>2, StatusAtFacts DEF RowFollowsOwner
  <2> QED BY <2>1, <2>2, FateFacts DEF Fates
<1>3. ASSUME NEW w \in Workers, pc[w] \in Owning,
             NEW s \in Statuses \ {"REJECTED"}, SetStatus(w, s),
             calls' = calls, verified' = verified
      PROVE  UNCHANGED Ledger!vars
  <2>1. Fates' = [Fates EXCEPT ![key[w]] = "pending"]
    BY <1>0, <1>2, <1>3, OneRow DEF SetStatus
  <2>2. Fates' = Fates
    BY <1>2, <1>3, <2>1 DEF Fates
  <2> QED BY <1>3, <2>2 DEF Fates, Ledger!vars
<1>4. ASSUME NEW w \in Workers, pc[w] \in Owning, SetStatus(w, "REJECTED"),
             calls' = calls, verified' = verified
      PROVE  Ledger!Next
  <2>1. Fates' = [Fates EXCEPT ![key[w]] = "rejected"]
    BY <1>0, <1>2, <1>4, OneRow DEF SetStatus, Statuses
  <2>2. key[w] \in Keys /\ Fates[key[w]] = "pending"
    BY <1>2, <1>4
  <2>3. Ledger!Reject(key[w])
    BY <1>4, <2>1, <2>2 DEF Fates, Ledger!Reject
  <2> QED BY <2>2, <2>3 DEF Ledger!Next
<1>5. ASSUME NEW w \in Workers, Insert(w) PROVE [Ledger!Next]_(Ledger!vars)
  <2>1. CASE rows[key[w]] # NoRow
    BY <1>1, <1>5, <2>1 DEF Insert
  <2>2. CASE rows[key[w]] = NoRow
    <3>1. /\ key[w] \in Keys /\ calls' = calls /\ verified' = verified
          /\ rows' = [rows EXCEPT ![key[w]] = "RECEIVED"]
      BY <1>0, <1>5, <2>2 DEF Insert, SetStatus, TypeOK
    <3>2. Fates' = [Fates EXCEPT ![key[w]] = "pending"]
      BY <1>0, <3>1, OneRow DEF Statuses
    <3>3. Fates[key[w]] = "absent"
      BY <2>2, <3>1, FateFacts DEF Fates
    <3>4. Ledger!Receive(key[w])
      BY <3>1, <3>2, <3>3 DEF Fates, Ledger!Receive
    <3> QED BY <3>1, <3>4 DEF Ledger!Next
  <2> QED BY <2>1, <2>2
<1>6. ASSUME NEW w \in Workers, Submit(w) PROVE Ledger!Next
  <2>1. /\ pc[w] = "submit" /\ pc[w] \in Owning
        /\ rows' = rows /\ verified' = verified
        /\ calls' = [calls EXCEPT ![key[w]] = calls[key[w]] + 1]
    BY <1>6 DEF Submit, Owning
  <2>2. key[w] \in Keys /\ Fates[key[w]] = "pending"
    BY <1>2, <2>1
  <2>3. verified /\ calls[key[w]] = 0
    BY <1>0, <2>1 DEF ApprovedIsVerified, CallsFollowRow
  <2>4. calls' = [calls EXCEPT ![key[w]] = 1]
    BY <2>1, <2>3
  <2>5. Ledger!Attempt(key[w])
    BY <2>1, <2>2, <2>3, <2>4, SameRows DEF Fates, Ledger!Attempt
  <2> QED BY <2>2, <2>5 DEF Ledger!Next
<1>7. ASSUME NEW w \in Workers,
             Call(w) \/ Select(w) \/ ReadWinner(w) \/ ReadStop(w) \/ Fail(w)
      PROVE  UNCHANGED Ledger!vars
  BY <1>1, <1>7 DEF Call, Select, ReadWinner, ReadStop, Fail
<1>8. ASSUME NEW w \in Workers, MarkParsed(w) \/ Approve(w) \/ Attempt(w)
      PROVE  UNCHANGED Ledger!vars
  <2>1. CASE MarkParsed(w)
    BY <1>3, <2>1 DEF MarkParsed, Owning, Statuses
  <2>2. CASE Approve(w)
    BY <1>3, <2>2 DEF Approve, Owning, Statuses
  <2>3. CASE Attempt(w)
    BY <1>3, <2>3 DEF Attempt, Owning, Statuses
  <2> QED BY <1>8, <2>1, <2>2, <2>3
<1>9. ASSUME NEW w \in Workers, Reject(w) \/ RecordRefusal(w)
      PROVE  Ledger!Next
  <2>1. CASE Reject(w)
    BY <1>4, <2>1 DEF Reject, Owning
  <2>2. CASE RecordRefusal(w)
    BY <1>4, <2>2 DEF RecordRefusal, Owning
  <2> QED BY <1>9, <2>1, <2>2
<1>10. CASE ActivateStop \/ ClearStop \/ UNCHANGED vars
  BY <1>1, <1>10 DEF ActivateStop, ClearStop, vars
<1> QED BY <1>5, <1>6, <1>7, <1>8, <1>9, <1>10 DEF Next, Step

\* The executor implements the ledger: one record per candidate, at most one
\* submission and only with a verified contract, final rejections
\* (process_live_execution_candidate).
THEOREM ImplementsLedger == Spec => LedgerSpec
BY Invariance, LedgerInit, LedgerStep, PTL DEF Spec, LedgerSpec, Ledger!Spec
=============================================================================
