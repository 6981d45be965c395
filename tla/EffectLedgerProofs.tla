-------------------------- MODULE EffectLedgerProofs --------------------------
(***************************************************************************)
(* Proofs about EffectLedger, for any sets of keys, requests, budgets and  *)
(* workers.                                                                *)
(***************************************************************************)
EXTENDS EffectLedger, TLAPS

USE LedgerAssumption DEF NoToken, Tokens

-------------------------------------------------------------------------------
(* Type correctness.                                                        *)

\* The constants the actions write have their types.
LEMMA ConstantTypes ==
  /\ NoRow \in Rows
  /\ NoClaim \in Claims
  /\ Idle \in Work /\ Polling \in Work
BY DEF NoRow, Rows, NoClaim, Claims, EffectState, Findings, Idle, Polling, Work

\* A key without a row counts as one that was never attempted.
LEMMA NoRowColumns ==
  NoRow \in Rows /\ NoRow.state = "ABSENT" /\ NoRow.attempts = 0 /\ NoRow.max = 1
<1>1. NoRow.state = "ABSENT" /\ NoRow.attempts = 0 /\ NoRow.max = 1
  BY DEF NoRow
<1>. QED
  BY <1>1, ConstantTypes

\* Every column update the ledger makes turns a row into a row.
LEMMA RowUpdates ==
  ASSUME NEW r \in Rows, NEW s \in EffectState, NEW n \in Nat, NEW c \in Claims
  PROVE  /\ [r EXCEPT !.state = s] \in Rows
         /\ [r EXCEPT !.state = s, !.claim = c] \in Rows
         /\ [r EXCEPT !.state = s, !.claim = c, !.intent = n] \in Rows
         /\ [r EXCEPT !.state = s, !.attempts = n, !.claim = c] \in Rows
         /\ [r EXCEPT !.state = s, !.intent = n] \in Rows
         /\ [r EXCEPT !.state = s, !.result = n] \in Rows
         /\ \A a \in Requests : [r EXCEPT !.state = s, !.authorization = a] \in Rows
         /\ \A v \in [of : Nat, findings : SUBSET Findings] :
              [r EXCEPT !.state = s, !.verification = v] \in Rows
BY DEF Rows

\* Writing one row keeps the table's type.
LEMMA UpdateType ==
  ASSUME TypeOK, NEW k \in Keys, NEW r \in Rows, Update(k, r)
  PROVE  row' \in [Keys -> Rows]
BY DEF TypeOK, Update

\* The columns of a row.
LEMMA Columns ==
  ASSUME TypeOK, NEW k \in Keys
  PROVE  /\ row[k] \in Rows
         /\ row[k].state \in EffectState \union {"ABSENT"}
         /\ row[k].attempts \in Nat /\ row[k].max \in Nat \ {0}
         /\ row[k].intent \in Nat /\ row[k].result \in Nat
         /\ row[k].claim \in Claims
         /\ RetryOrFail(row[k]) \in EffectState
BY DEF TypeOK, Rows, RetryOrFail, EffectState

\* recover_expired_claims rewrites a row to a row.
LEMMA RecoveredType ==
  ASSUME TypeOK, NEW k \in Keys
  PROVE  Recovered(k) \in Rows
<1>1. "RECOVERY_REQUIRED" \in EffectState
  BY DEF EffectState
<1>. QED
  BY <1>1, Columns, RowUpdates, ConstantTypes DEF Recovered

\* Caller operations keep the types.
LEMMA CallerTypes ==
  ASSUME TypeOK, CallerStep
  PROVE  TypeOK'
<1>1. ASSUME NEW r \in Requests, NEW max \in Budgets, Submit(r, max)
      PROVE  TypeOK'
  <2>1. [NoRow EXCEPT !.state = "PENDING_AUTHORIZATION", !.request = r,
                      !.max = max, !.created = inserted] \in Rows
    BY ConstantTypes DEF Rows, EffectState, TypeOK
  <2>2. row' \in [Keys -> Rows]
    BY <1>1, <2>1, UpdateType DEF Submit
  <2>. QED
    BY <1>1, <2>2 DEF Submit, TypeOK, provider
<1>2. ASSUME NEW k \in Keys, NEW a \in Authorizations, Authorize(k, a)
      PROVE  TypeOK'
  <2>1. a.request \in Requests
    BY DEF Authorizations
  <2>2. \E s \in EffectState :
           Update(k, [row[k] EXCEPT !.state = s, !.authorization = a.request])
    BY <1>2, Zenon DEF Authorize, EffectState
  <2>3. row' \in [Keys -> Rows]
    BY <2>1, <2>2, Columns, RowUpdates, ConstantTypes, UpdateType
  <2>. QED
    BY <1>2, <2>3 DEF Authorize, TypeOK, provider
<1>3. ASSUME NEW k \in Keys, NEW findings \in SUBSET Findings, Verify(k, findings)
      PROVE  TypeOK'
  <2>. DEFINE v == [of |-> row[k].result, findings |-> findings]
  <2>1. v \in [of : Nat, findings : SUBSET Findings]
    BY Columns
  <2>2. \E s \in EffectState :
           Update(k, [row[k] EXCEPT !.state = s, !.verification = v])
    BY <1>3, Zenon DEF Verify, EffectState
  <2>. HIDE DEF v
  <2>3. row' \in [Keys -> Rows]
    BY <2>1, <2>2, Columns, RowUpdates, ConstantTypes, UpdateType
  <2>. QED
    BY <1>3, <2>3 DEF Verify, TypeOK, provider
<1>4. ASSUME NEW k \in Keys, Publish(k) \/ Acknowledge(k)
      PROVE  TypeOK'
  <2>1. \E s \in EffectState : Update(k, [row[k] EXCEPT !.state = s])
    BY <1>4, Zenon DEF Publish, Acknowledge, EffectState
  <2>2. row' \in [Keys -> Rows]
    BY <2>1, Columns, RowUpdates, ConstantTypes, UpdateType
  <2>. QED
    BY <1>4, <2>2 DEF Publish, Acknowledge, TypeOK, provider
<1>. QED
  BY <1>1, <1>2, <1>3, <1>4 DEF CallerStep

\* A worker's memory changes to another worker memory.
LEMMA BecomeType ==
  ASSUME TypeOK, NEW w \in Workers, NEW r \in Work, Become(w, r)
  PROVE  work' \in [Workers -> Work]
BY DEF TypeOK, Become

\* What a worker that holds a claim knows.
LEMMA HolderColumns ==
  ASSUME TypeOK, NEW w \in Workers, Holding(w)
  PROVE  /\ work[w].key \in Keys
         /\ work[w].token \in Tokens
         /\ \A p \in {"claimed", "prepared", "invoked"} :
              [work[w] EXCEPT !.phase = p] \in Work
BY DEF TypeOK, Holding, Work, Idle, Polling

\* Worker operations keep the types.
LEMMA WorkerTypes ==
  ASSUME TypeOK, NEW w \in Workers, WorkerStep(w)
  PROVE  TypeOK'
<1>. USE DEF TypeOK, provider, ledger
<1>1. CASE Poll(w)
  <2>1. row' \in [Keys -> Rows]
    BY <1>1, RecoveredType DEF Poll, RecoverExpiredClaims
  <2>. QED
    BY <1>1, <2>1, ConstantTypes, BecomeType DEF Poll, RecoverExpiredClaims
<1>2. CASE ClaimNothing(w) \/ WorkerStops(w)
  BY <1>2, ConstantTypes, BecomeType DEF ClaimNothing, WorkerStops
<1>3. ASSUME NEW k \in Keys, ClaimCloses(w, k)
      PROVE  TypeOK'
  <2>1. \E s \in EffectState : Update(k, [row[k] EXCEPT !.state = s])
    BY <1>3, Zenon DEF ClaimCloses, EffectState
  <2>2. row' \in [Keys -> Rows]
    BY <2>1, Columns, RowUpdates, ConstantTypes, UpdateType
  <2>. QED
    BY <1>3, <2>2, ConstantTypes, BecomeType DEF ClaimCloses
<1>4. ASSUME NEW k \in Keys, Claim(w, k)
      PROVE  TypeOK'
  <2>. DEFINE attempt == row[k].attempts + 1
              c == [token |-> attempt, worker |-> w]
              h == [phase |-> "claimed", key |-> k, token |-> attempt]
  <2>1. attempt \in Nat \ {0} /\ "CLAIMED" \in EffectState
    BY Columns DEF EffectState
  <2>2. c \in Claims /\ h \in Work
    BY <2>1 DEF Claims, Work
  <2>3. Update(k, [row[k] EXCEPT !.state = "CLAIMED", !.attempts = attempt, !.claim = c])
    BY <1>4 DEF Claim
  <2>4. Become(w, h)
    BY <1>4 DEF Claim
  <2>. HIDE DEF attempt, c, h
  <2>5. row' \in [Keys -> Rows]
    BY <2>1, <2>2, <2>3, Columns, RowUpdates, UpdateType
  <2>6. past' \in [Keys -> SUBSET Deadlines]
    BY <1>4 DEF Claim
  <2>. QED
    BY <1>4, <2>2, <2>4, <2>5, <2>6, BecomeType DEF Claim
<1>5. CASE BeginExecution(w)
  <2>1. Holding(w) /\ "EXECUTING" \in EffectState
    BY <1>5 DEF BeginExecution, Holding, EffectState
  <2>2. row' \in [Keys -> Rows]
    BY <1>5, <2>1, HolderColumns, Columns, RowUpdates, ConstantTypes, UpdateType
       DEF BeginExecution
  <2>. QED
    BY <1>5, <2>1, <2>2, HolderColumns, BecomeType DEF BeginExecution
<1>6. CASE InvokeProvider(w)
  <2>1. Holding(w)
    BY <1>6 DEF InvokeProvider, Holding
  <2>2. wire' \in [Keys -> SUBSET Tokens]
    BY <1>6, <2>1, HolderColumns DEF InvokeProvider
  <2>. QED
    BY <1>6, <2>1, <2>2, HolderColumns, BecomeType DEF InvokeProvider
<1>7. CASE RecordExecution(w)
  <2>1. Holding(w) /\ "EXECUTED" \in EffectState
    BY <1>7 DEF RecordExecution, Holding, EffectState
  <2>2. row' \in [Keys -> Rows]
    BY <1>7, <2>1, HolderColumns, Columns, RowUpdates, ConstantTypes, UpdateType
       DEF RecordExecution, WithResult
  <2>. QED
    BY <1>7, <2>2, ConstantTypes, BecomeType DEF RecordExecution
<1>8. ASSUME NEW b \in BOOLEAN, MarkExecutionFailure(w, b)
      PROVE  TypeOK'
  <2>1. work[w].key \in Keys /\ "RECOVERY_REQUIRED" \in EffectState
    BY <1>8, HolderColumns DEF MarkExecutionFailure, EffectState
  <2>2. \E s \in EffectState :
          \/ Update(work[w].key, [row[work[w].key] EXCEPT !.state = s])
          \/ Update(work[w].key, [row[work[w].key] EXCEPT !.state = s, !.claim = NoClaim])
    BY <1>8, <2>1, Columns DEF MarkExecutionFailure
  <2>3. row' \in [Keys -> Rows]
    BY <2>1, <2>2, Columns, RowUpdates, ConstantTypes, UpdateType
  <2>. QED
    BY <1>8, <2>3, ConstantTypes, BecomeType DEF MarkExecutionFailure
<1>. QED
  BY <1>1, <1>2, <1>3, <1>4, <1>5, <1>6, <1>7, <1>8 DEF WorkerStep

\* The recovery scan, reconciliation and the environment keep the types.
LEMMA OtherTypes ==
  ASSUME TypeOK, Scan \/ \E k \in Keys : Reconcile(k) \/ Environment(k)
  PROVE  TypeOK'
<1>. USE DEF TypeOK, provider, ledger
<1>1. CASE Scan
  BY <1>1, RecoveredType DEF Scan, RecoverExpiredClaims
<1>2. ASSUME NEW k \in Keys, Reconcile(k)
      PROVE  TypeOK'
  <2>1. {"RECOVERY_REQUIRED", "EXECUTED"} \subseteq EffectState
    BY DEF EffectState
  <2>2. CASE ReconcileUnknown(k)
    BY <2>1, <2>2, Columns, RowUpdates, ConstantTypes, UpdateType DEF ReconcileUnknown
  <2>3. CASE ReconcileExecuted(k)
    BY <2>1, <2>3, Columns, RowUpdates, ConstantTypes, UpdateType
       DEF ReconcileExecuted, WithResult
  <2>4. CASE ReconcileNotExecuted(k)
    <3>1. row' \in [Keys -> Rows]
      BY <2>4, Columns, RowUpdates, ConstantTypes, UpdateType DEF ReconcileNotExecuted
    <3>2. fenced' \in [Keys -> SUBSET Tokens]
      BY <2>4, Columns DEF ReconcileNotExecuted
    <3>. QED
      BY <2>4, <3>1, <3>2 DEF ReconcileNotExecuted
  <2>. QED
    BY <1>2, <2>2, <2>3, <2>4 DEF Reconcile
<1>3. ASSUME NEW k \in Keys, Environment(k)
      PROVE  TypeOK'
  BY <1>3 DEF Environment, ProviderApplies, ProviderLoses, DeadlinePasses
<1>. QED
  BY <1>1, <1>2, <1>3

\* The ledger, its workers and the provider keep their types.
THEOREM TypeCorrect == Spec => []TypeOK
<1>1. Init => TypeOK
  BY ConstantTypes DEF Init, TypeOK
<1>2. TypeOK /\ [Next]_vars => TypeOK'
  <2>1. TypeOK /\ UNCHANGED vars => TypeOK'
    BY DEF TypeOK, vars
  <2>. QED
    BY <2>1, CallerTypes, WorkerTypes, OtherTypes DEF Next
<1>. QED
  BY <1>1, <1>2, PTL DEF Spec

-------------------------------------------------------------------------------
(* The life cycle of one row.  Every step of the system changes a row in    *)
(* one of these ways or leaves it alone; what is proved below about rows    *)
(* alone (budget, immutability) is proved about these changes.              *)

Submitted(r, q) ==
  /\ r.state = "ABSENT"
  /\ \E x \in Requests, max \in Budgets, n \in Nat :
       q = [NoRow EXCEPT !.state = "PENDING_AUTHORIZATION", !.request = x,
                         !.max = max, !.created = n]

Decided(r, q) ==
  /\ r.state = "PENDING_AUTHORIZATION"
  /\ \E a \in Requests :
       \/ a = r.request /\ q = [r EXCEPT !.state = "AUTHORIZED", !.authorization = a]
       \/ q = [r EXCEPT !.state = "DENIED", !.authorization = a]

Closed(r, q) ==
  /\ r.state \in {"AUTHORIZED", "FAILED_RETRYABLE"}
  /\ \E s \in {"CANCELLED", "FAILED_TERMINAL"} : q = [r EXCEPT !.state = s]

Taken(r, q) ==
  /\ r.state \in {"AUTHORIZED", "FAILED_RETRYABLE"}
  /\ r.attempts + 1 <= r.max
  /\ \E c \in Claims :
       q = [r EXCEPT !.state = "CLAIMED", !.attempts = r.attempts + 1, !.claim = c]

Begun(r, q) ==
  /\ r.state = "CLAIMED"
  /\ q = [r EXCEPT !.state = "EXECUTING", !.intent = r.claim.token]

Released(r, q) ==
  /\ r.state \in {"CLAIMED", "EXECUTING"}
  /\ q = [r EXCEPT !.state = RetryOrFail(r), !.claim = NoClaim]

Uncertain(r, q) ==
  /\ r.state \in {"CLAIMED", "EXECUTING", "RECOVERY_REQUIRED"}
  /\ q = [r EXCEPT !.state = "RECOVERY_REQUIRED"]

Recorded(r, q) ==
  /\ r.state \in {"EXECUTING", "RECOVERY_REQUIRED"}
  /\ q = [r EXCEPT !.state = "EXECUTED", !.result = r.intent]

Cleared(r, q) ==
  /\ r.state \in {"EXECUTING", "RECOVERY_REQUIRED"}
  /\ q = [r EXCEPT !.state = RetryOrFail(r), !.claim = NoClaim, !.intent = NoToken]

Judged(r, q) ==
  /\ r.state = "EXECUTED"
  /\ \E f \in SUBSET Findings :
       LET v == [of |-> r.result, findings |-> f] IN
       \/ f = Findings /\ q = [r EXCEPT !.state = "VERIFIED", !.verification = v]
       \/ q = [r EXCEPT !.state = "VERIFICATION_FAILED", !.verification = v]

Shown(r, q) ==
  \/ r.state = "VERIFIED" /\ q = [r EXCEPT !.state = "PUBLISHED"]
  \/ r.state = "PUBLISHED" /\ q = [r EXCEPT !.state = "ACKNOWLEDGED"]

\* The changes that concern no execution ...
QuietRowStep(r, q) ==
  \/ q = r
  \/ Submitted(r, q) \/ Decided(r, q) \/ Closed(r, q) \/ Uncertain(r, q)
  \/ Judged(r, q) \/ Shown(r, q)
  \/ Released(r, q) /\ r.state = "CLAIMED"

\* ... and all of them.
RowStep(r, q) ==
  \/ QuietRowStep(r, q)
  \/ Taken(r, q) \/ Begun(r, q) \/ Released(r, q) \/ Recorded(r, q) \/ Cleared(r, q)

\* The steps of the system that make only quiet changes.
QuietWorkerStep(w) ==
  \/ Poll(w) \/ ClaimNothing(w) \/ WorkerStops(w) \/ MarkExecutionFailure(w, FALSE)
  \/ \E k \in Keys : ClaimCloses(w, k)

QuietAction ==
  \/ CallerStep \/ Scan
  \/ \E w \in Workers : QuietWorkerStep(w)
  \/ \E k \in Keys : ReconcileUnknown(k)
  \/ \E k \in Keys, d \in Deadlines : DeadlinePasses(k, d)

\* After an UPDATE, the row it names is the new one and the others are kept.
LEMMA UpdateOne ==
  ASSUME TypeOK, NEW k \in Keys, NEW r, Update(k, r), NEW j \in Keys
  PROVE  row'[j] = IF j = k THEN r ELSE row[j]
BY DEF TypeOK, Update

\* The recovery scan releases a row, makes it uncertain, or keeps it.
LEMMA RecoveredStep ==
  ASSUME NEW j \in Keys
  PROVE  QuietRowStep(row[j], Recovered(j))
BY DEF Recovered, LeaseExpired, QuietRowStep, Released, Uncertain

\* Quiet steps take every row along its life cycle, or leave it alone.
LEMMA QuietRowSteps ==
  ASSUME TypeOK, QuietAction, NEW j \in Keys
  PROVE  QuietRowStep(row[j], row'[j])
<1>0. row'[j] = row[j] => QuietRowStep(row[j], row'[j])
  BY DEF QuietRowStep
<1>1. CASE CallerStep
  <2>1. ASSUME NEW x \in Requests, NEW max \in Budgets, Submit(x, max)
        PROVE  QuietRowStep(row[j], row'[j])
    <3>1. inserted \in Nat /\ KeyOf[x] \in Keys
      BY DEF TypeOK
    <3>2. CASE j = KeyOf[x]
      <4>1. row[j].state = "ABSENT"
        BY <2>1, <3>2 DEF Submit
      <4>2. row'[j] = [NoRow EXCEPT !.state = "PENDING_AUTHORIZATION", !.request = x,
                                    !.max = max, !.created = inserted]
        BY <2>1, <3>1, <3>2, UpdateOne DEF Submit
      <4>. QED
        <5>1. \E y \in Requests, m \in Budgets, n \in Nat :
                row'[j] = [NoRow EXCEPT !.state = "PENDING_AUTHORIZATION", !.request = y,
                                        !.max = m, !.created = n]
          BY <3>1, <4>2
        <5>. QED
          BY <4>1, <5>1, Zenon DEF QuietRowStep, Submitted
    <3>. QED
      BY <1>0, <2>1, <3>1, <3>2, UpdateOne DEF Submit
  <2>2. ASSUME NEW k \in Keys, NEW a \in Authorizations, Authorize(k, a)
        PROVE  QuietRowStep(row[j], row'[j])
    <3>1. a.request \in Requests
      BY DEF Authorizations
    <3>2. CASE j = k
      <4>1. /\ row[j].state = "PENDING_AUTHORIZATION"
            /\ row'[j] = [row[j] EXCEPT
                 !.state = IF ValidFor(a, row[j].request) THEN "AUTHORIZED" ELSE "DENIED",
                 !.authorization = a.request]
        BY <2>2, <3>2, UpdateOne DEF Authorize
      <4>2. CASE ValidFor(a, row[j].request)
        <5>1. a.request = row[j].request
          BY <4>2 DEF ValidFor
        <5>2. row'[j] = [row[j] EXCEPT !.state = "AUTHORIZED", !.authorization = a.request]
          BY <4>1, <4>2, Zenon
        <5>. QED
          BY <3>1, <4>1, <5>1, <5>2, Zenon DEF QuietRowStep, Decided
      <4>3. CASE ~ValidFor(a, row[j].request)
        BY <3>1, <4>1, <4>3, Zenon DEF QuietRowStep, Decided
      <4>. QED
        BY <4>2, <4>3
    <3>. QED
      BY <1>0, <2>2, <3>2, UpdateOne DEF Authorize
  <2>3. ASSUME NEW k \in Keys, NEW f \in SUBSET Findings, Verify(k, f)
        PROVE  QuietRowStep(row[j], row'[j])
    <3>1. CASE j = k
      <4>1. /\ row[j].state = "EXECUTED"
            /\ row'[j] = [row[j] EXCEPT
                 !.state = IF f = Findings THEN "VERIFIED" ELSE "VERIFICATION_FAILED",
                 !.verification = [of |-> row[j].result, findings |-> f]]
        BY <2>3, <3>1, UpdateOne DEF Verify
      <4>. QED
        BY <4>1, Zenon DEF QuietRowStep, Judged
    <3>. QED
      BY <1>0, <2>3, <3>1, UpdateOne DEF Verify
  <2>4. ASSUME NEW k \in Keys, Publish(k) \/ Acknowledge(k)
        PROVE  QuietRowStep(row[j], row'[j])
    BY <1>0, <2>4, UpdateOne DEF Publish, Acknowledge, QuietRowStep, Shown
  <2>. QED
    BY <1>1, <2>1, <2>2, <2>3, <2>4 DEF CallerStep
<1>2. ASSUME NEW w \in Workers, QuietWorkerStep(w)
      PROVE  QuietRowStep(row[j], row'[j])
  <2>1. CASE Poll(w)
    BY <2>1, RecoveredStep DEF Poll, RecoverExpiredClaims
  <2>2. ASSUME NEW k \in Keys, ClaimCloses(w, k)
        PROVE  QuietRowStep(row[j], row'[j])
    BY <1>0, <2>2, UpdateOne DEF ClaimCloses, Oldest, Claimable, QuietRowStep, Closed
  <2>3. CASE MarkExecutionFailure(w, FALSE)
    <3>1. work[w].key \in Keys
      BY <2>3, HolderColumns DEF MarkExecutionFailure
    <3>. QED
      BY <1>0, <2>3, <3>1, UpdateOne DEF MarkExecutionFailure, QuietRowStep, Uncertain
  <2>4. CASE ClaimNothing(w) \/ WorkerStops(w)
    BY <1>0, <2>4 DEF ClaimNothing, WorkerStops, ledger
  <2>. QED
    BY <1>2, <2>1, <2>2, <2>3, <2>4 DEF QuietWorkerStep
<1>3. CASE Scan
  BY <1>3, RecoveredStep DEF Scan, RecoverExpiredClaims
<1>4. ASSUME NEW k \in Keys, ReconcileUnknown(k)
      PROVE  QuietRowStep(row[j], row'[j])
  BY <1>0, <1>4, UpdateOne DEF ReconcileUnknown, QuietRowStep, Uncertain
<1>5. ASSUME NEW k \in Keys, NEW d \in Deadlines, DeadlinePasses(k, d)
      PROVE  QuietRowStep(row[j], row'[j])
  BY <1>0, <1>5 DEF DeadlinePasses
<1>. QED
  BY <1>1, <1>2, <1>3, <1>4, <1>5 DEF QuietAction

\* Every step takes every row along its life cycle, or leaves it alone.
LEMMA RowSteps ==
  ASSUME TypeOK, [Next]_vars, NEW j \in Keys
  PROVE  RowStep(row[j], row'[j])
<1>0. row'[j] = row[j] => RowStep(row[j], row'[j])
  BY DEF RowStep, QuietRowStep
<1>1. CASE QuietAction
  BY <1>1, QuietRowSteps DEF RowStep
<1>2. ASSUME NEW w \in Workers, WorkerStep(w), ~QuietWorkerStep(w)
      PROVE  RowStep(row[j], row'[j])
  <2>1. ASSUME NEW k \in Keys, Claim(w, k)
        PROVE  RowStep(row[j], row'[j])
    <3>1. [token |-> row[k].attempts + 1, worker |-> w] \in Claims
      BY Columns DEF Claims
    <3>. QED
      BY <1>0, <2>1, <3>1, UpdateOne, ZenonT(60) DEF Claim, Oldest, Claimable, RowStep, Taken
  <2>2. CASE BeginExecution(w)
    <3>1. work[w].key \in Keys
      BY <2>2, HolderColumns DEF BeginExecution, Holding
    <3>2. row[work[w].key].claim.token = work[w].token
      BY <2>2 DEF BeginExecution, ClaimMatches
    <3>. QED
      BY <1>0, <2>2, <3>1, <3>2, UpdateOne, ZenonT(60) DEF BeginExecution, RowStep, Begun
  <2>3. CASE RecordExecution(w)
    <3>1. work[w].key \in Keys
      BY <2>3, HolderColumns DEF RecordExecution, Holding
    <3>. QED
      BY <1>0, <2>3, <3>1, UpdateOne, ZenonT(60)
         DEF RecordExecution, Recordable, WithResult, RowStep, Recorded
  <2>4. CASE MarkExecutionFailure(w, TRUE)
    <3>1. work[w].key \in Keys
      BY <2>4, HolderColumns DEF MarkExecutionFailure
    <3>. QED
      BY <1>0, <2>4, <3>1, UpdateOne DEF MarkExecutionFailure, RowStep, Released
  <2>5. CASE InvokeProvider(w)
    BY <1>0, <2>5 DEF InvokeProvider, ledger
  <2>. QED
    BY <1>2, <2>1, <2>2, <2>3, <2>4, <2>5 DEF WorkerStep, QuietWorkerStep
<1>3. ASSUME NEW k \in Keys, ReconcileExecuted(k) \/ ReconcileNotExecuted(k)
      PROVE  RowStep(row[j], row'[j])
  BY <1>0, <1>3, UpdateOne DEF ReconcileExecuted, ReconcileNotExecuted, Recordable,
     WithResult, RowStep, Recorded, Cleared
<1>4. ASSUME NEW k \in Keys, NEW t \in wire[k], ProviderApplies(k, t) \/ ProviderLoses(k, t)
      PROVE  RowStep(row[j], row'[j])
  BY <1>0, <1>4 DEF ProviderApplies, ProviderLoses, ledger
<1>5. CASE UNCHANGED vars
  BY <1>0, <1>5 DEF vars
<1>. QED
  BY <1>1, <1>2, <1>3, <1>4, <1>5 DEF Next, QuietAction, Reconcile, Environment

-------------------------------------------------------------------------------
(* The retry budget.                                                        *)

WithinBudget(r) ==
  /\ r.attempts <= r.max
  /\ r.state \in {"AUTHORIZED", "FAILED_RETRYABLE"} => r.attempts < r.max

\* A row that has an authorization pending has not been attempted.
Fresh(r) == r.state \in {"ABSENT", "PENDING_AUTHORIZATION"} => r.attempts = 0

\* No step of a row's life cycle overdraws its budget.
LEMMA BudgetStep ==
  ASSUME NEW r \in Rows, NEW q \in Rows, RowStep(r, q), WithinBudget(r), Fresh(r)
  PROVE  WithinBudget(q) /\ Fresh(q)
<1>. USE DEF WithinBudget, Fresh, Rows
<1>1. CASE Submitted(r, q)
  BY <1>1 DEF Submitted, NoRow
<1>5. CASE Decided(r, q)
  <2>1. /\ r.state = "PENDING_AUTHORIZATION"
        /\ q.attempts = r.attempts /\ q.max = r.max
        /\ q.state \in {"AUTHORIZED", "DENIED"}
    BY <1>5, ZenonT(60) DEF Decided
  <2>. QED
    BY <2>1
<1>6. CASE Judged(r, q)
  BY <1>6, ZenonT(60) DEF Judged
<1>7. CASE Shown(r, q)
  BY <1>7 DEF Shown
<1>2. CASE Closed(r, q) \/ Taken(r, q)
  BY <1>2, ZenonT(60) DEF Closed, Taken
<1>3. CASE Begun(r, q) \/ Uncertain(r, q) \/ Recorded(r, q)
  BY <1>3, ZenonT(60) DEF Begun, Uncertain, Recorded
<1>4. CASE Released(r, q) \/ Cleared(r, q)
  BY <1>4, ZenonT(60) DEF Released, Cleared, RetryOrFail
<1>. QED
  BY <1>1, <1>2, <1>3, <1>4, <1>5, <1>6, <1>7 DEF RowStep, QuietRowStep

\* A row waiting for an attempt has one left, and no row is attempted more
\* often than its max_attempts: claim() is the only writer of attempts, and
\* every return to FAILED_RETRYABLE compares attempts with the budget.
THEOREM Budget == Spec => []BudgetRespected
<1>. DEFINE BInv == \A k \in Keys : WithinBudget(row[k]) /\ Fresh(row[k])
<1>1. Init => BInv
  <2>1. WithinBudget(NoRow) /\ Fresh(NoRow)
    BY NoRowColumns DEF WithinBudget, Fresh
  <2>. QED
    BY <2>1, Zenon DEF Init
<1>2. TypeOK /\ TypeOK' /\ BInv /\ [Next]_vars => BInv'
  BY RowSteps, BudgetStep DEF TypeOK
<1>3. BInv => BudgetRespected
  BY DEF BudgetRespected, WithinBudget
<1>. QED
  BY <1>1, <1>2, <1>3, TypeCorrect, PTL DEF Spec

-------------------------------------------------------------------------------
(* Exactly-once execution.  ExecInv is the inductive strengthening of       *)
(* AppliedAtMostOnce: every execution that took effect, or still can, is    *)
(* the one the row's intent names, and the row's state admits it.           *)

\* Execution t of k took effect, or nothing but the provider stops it.
Exposed(k, t) ==
  \/ t \in applied[k]
  \/ /\ t \notin fenced[k]
     /\ \/ t \in wire[k]
        \/ \E w \in Workers : work[w] = [phase |-> "prepared", key |-> k, token |-> t]

Exposing == {"EXECUTING", "RECOVERY_REQUIRED"} \union Delivered

\* No call and no worker carries a token that has not been issued yet.
TokensIssued ==
  \A k \in Keys :
    /\ row[k].state = "ABSENT" => row[k].attempts = 0
    /\ \A t \in wire[k] \union applied[k] : t <= row[k].attempts
    /\ \A w \in Workers :
         Holding(w) /\ work[w].key = k => work[w].token <= row[k].attempts

\* An attempt belongs to one worker process.
OneHolder ==
  \A v, w \in Workers :
    /\ Holding(v) /\ Holding(w)
    /\ work[v].key = work[w].key /\ work[v].token = work[w].token
    => v = w

\* A worker that has not called the provider is the only one who could have,
\* and a call that took effect is no longer in flight.
UnsentCalls ==
  /\ \A w \in Workers :
       work[w].phase \in {"claimed", "prepared"} =>
         work[w].token \notin wire[work[w].key] \union applied[work[w].key]
  /\ \A k \in Keys : wire[k] \intersect applied[k] = {}

\* While a row executes, its intent is the claim's own.
IntentOfClaim ==
  \A k \in Keys : row[k].state = "EXECUTING" => row[k].intent = row[k].claim.token

NoStray ==
  \A k \in Keys : \A t \in Tokens :
    Exposed(k, t) => row[k].intent = t /\ row[k].state \in Exposing

\* A recorded result is the receipt of an execution that took effect.
Receipted ==
  \A k \in Keys : row[k].state \in Delivered => row[k].result \in applied[k]

ExecInv == TokensIssued /\ OneHolder /\ UnsentCalls /\ IntentOfClaim /\ NoStray /\ Receipted

\* A change of a row that cannot let a stray execution in.
QuietRow(r, q) ==
  /\ r.attempts <= q.attempts
  /\ q.state = "ABSENT" => q = r
  /\ q.state = "EXECUTING" => q.intent = q.claim.token
  /\ r.state \in Exposing => q.state \in Exposing /\ q.intent = r.intent
  /\ q.state \in Delivered => r.state \in Delivered /\ q.result = r.result

\* Workers may drop what they hold.
OnlyDrops == \A w \in Workers :
  work'[w].phase \in {"claimed", "prepared", "invoked"} => work'[w] = work[w]

\* A step that changes rows quietly and starts no execution keeps ExecInv.
LEMMA QuietStep ==
  ASSUME TypeOK, TypeOK', ExecInv, UNCHANGED provider, OnlyDrops,
         \A j \in Keys : QuietRow(row[j], row'[j])
  PROVE  ExecInv'
<1>. USE DEF ExecInv, OnlyDrops, QuietRow, provider
<1>1. TokensIssued'
  <2>. SUFFICES ASSUME NEW k \in Keys
                PROVE  /\ row'[k].state = "ABSENT" => row'[k].attempts = 0
                       /\ \A t \in wire'[k] \union applied'[k] : t <= row'[k].attempts
                       /\ \A w \in Workers :
                            /\ work'[w].phase \in {"claimed", "prepared", "invoked"}
                            /\ work'[w].key = k
                            => work'[w].token <= row'[k].attempts
    BY DEF TokensIssued, Holding
  <2>1. row[k].attempts \in Nat /\ row'[k].attempts \in Nat
    BY DEF TypeOK, Rows
  <2>2. \A w \in Workers : Holding(w) => work[w].token \in Nat
    BY HolderColumns
  <2>3. \A t \in wire[k] \union applied[k] : t \in Nat
    BY DEF TypeOK
  <2>. QED
    BY <2>1, <2>2, <2>3 DEF TokensIssued, Holding
<1>2. OneHolder'
  BY DEF OneHolder, Holding
<1>3. UnsentCalls'
  BY DEF UnsentCalls
<1>4. IntentOfClaim'
  BY DEF IntentOfClaim
<1>5. NoStray'
  <2>1. \A k \in Keys : \A t \in Tokens : Exposed(k, t)' => Exposed(k, t)
    BY DEF Exposed
  <2>. QED
    BY <2>1 DEF NoStray
<1>6. Receipted'
  BY DEF Receipted
<1>. QED
  BY <1>1, <1>2, <1>3, <1>4, <1>5, <1>6

\* The quiet steps of a row's life cycle let no stray execution in.
LEMMA QuietSteps ==
  ASSUME NEW r \in Rows, NEW q \in Rows,
         r.state = "ABSENT" => r.attempts = 0,
         r.state = "EXECUTING" => r.intent = r.claim.token,
         QuietRowStep(r, q)
  PROVE  QuietRow(r, q)
<1>. USE DEF QuietRow, Rows, Exposing, Delivered
<1>1. CASE q = r
  BY <1>1
<1>2. CASE Submitted(r, q)
  <2>1. q.state = "PENDING_AUTHORIZATION" /\ q.attempts = 0
    BY <1>2, NoRowColumns DEF Submitted
  <2>2. r.state = "ABSENT"
    BY <1>2 DEF Submitted
  <2>. QED
    BY <2>1, <2>2
<1>3. CASE Decided(r, q)
  <2>1. /\ r.state = "PENDING_AUTHORIZATION" /\ q.attempts = r.attempts
        /\ q.state \in {"AUTHORIZED", "DENIED"}
    BY <1>3, ZenonT(60) DEF Decided
  <2>. QED
    BY <2>1
<1>4. CASE Closed(r, q)
  BY <1>4 DEF Closed
<1>5. CASE Uncertain(r, q)
  BY <1>5 DEF Uncertain
<1>6. CASE Judged(r, q)
  <2>1. /\ r.state = "EXECUTED" /\ q.attempts = r.attempts /\ q.intent = r.intent
        /\ q.result = r.result /\ q.state \in {"VERIFIED", "VERIFICATION_FAILED"}
    BY <1>6, ZenonT(60) DEF Judged
  <2>. QED
    BY <2>1
<1>7. CASE Shown(r, q)
  BY <1>7 DEF Shown
<1>8. CASE Released(r, q) /\ r.state = "CLAIMED"
  BY <1>8 DEF Released, RetryOrFail
<1>. QED
  BY <1>1, <1>2, <1>3, <1>4, <1>5, <1>6, <1>7, <1>8 DEF QuietRowStep

\* claim(): the token is new, and nothing of the row is exposed.
LEMMA ClaimKeeps ==
  ASSUME TypeOK, TypeOK', ExecInv, NEW w \in Workers, NEW k \in Keys, Claim(w, k)
  PROVE  ExecInv'
<1>. DEFINE n == row[k].attempts + 1
<1>1. /\ row[k].attempts \in Nat /\ n \in Tokens
      /\ row[k].state \in {"AUTHORIZED", "FAILED_RETRYABLE"}
  BY Columns DEF Claim, Oldest, Claimable
<1>2. /\ row'[k].state = "CLAIMED" /\ row'[k].attempts = n
      /\ \A j \in Keys \ {k} : row'[j] = row[j]
  <2>1. row'[k] = [row[k] EXCEPT !.state = "CLAIMED", !.attempts = n,
                                 !.claim = [token |-> n, worker |-> w]]
    BY UpdateOne DEF Claim
  <2>2. \A j \in Keys \ {k} : row'[j] = row[j]
    BY UpdateOne DEF Claim
  <2>. QED
    BY <2>1, <2>2, Columns DEF Rows
<1>3. /\ work'[w] = [phase |-> "claimed", key |-> k, token |-> n]
      /\ \A v \in Workers \ {w} : work'[v] = work[v]
  BY DEF Claim, Become, TypeOK
<1>4. UNCHANGED <<wire, applied, fenced>> /\ ~Holding(w)
  BY DEF Claim, provider, Holding
<1>. HIDE DEF n
<1>5. TokensIssued'
  <2>1. \A j \in Keys : row[j].attempts \in Nat /\ row[j].attempts <= row'[j].attempts
    BY <1>1, <1>2, Columns DEF n
  <2>2. \A v \in Workers : Holding(v) => work[v].token \in Nat /\ work[v].key \in Keys
    BY HolderColumns
  <2>3. \A j \in Keys : row'[j].attempts \in Nat /\ \A t \in wire[j] \union applied[j] : t \in Nat
    BY DEF TypeOK, Rows
  <2>4. \A j \in Keys : row'[j].state = "ABSENT" => row'[j].attempts = 0
    BY <1>2 DEF ExecInv, TokensIssued
  <2>5. \A j \in Keys : \A t \in wire'[j] \union applied'[j] : t <= row'[j].attempts
    BY <1>4, <2>1, <2>3 DEF ExecInv, TokensIssued
  <2>6. ASSUME NEW j \in Keys, NEW v \in Workers, Holding(v)', work'[v].key = j
        PROVE  work'[v].token <= row'[j].attempts
    <3>1. CASE v = w
      BY <1>1, <1>2, <1>3, <2>6, <3>1
    <3>2. CASE v # w
      <4>1. Holding(v) /\ work[v].key = j /\ work'[v] = work[v]
        BY <1>3, <2>6, <3>2 DEF Holding
      <4>2. work[v].token <= row[j].attempts
        BY <4>1 DEF ExecInv, TokensIssued
      <4>. QED
        BY <2>1, <2>2, <2>3, <4>1, <4>2
    <3>. QED
      BY <3>1, <3>2
  <2>. QED
    BY <2>4, <2>5, <2>6 DEF TokensIssued
<1>6. \A v \in Workers : Holding(v) /\ work[v].key = k => work[v].token # n
  BY <1>1, HolderColumns DEF ExecInv, TokensIssued, n
<1>7. OneHolder'
  BY <1>3, <1>6 DEF ExecInv, OneHolder, Holding
<1>8. UnsentCalls'
  <2>1. n \notin wire[k] \union applied[k]
    BY <1>1 DEF ExecInv, TokensIssued, n
  <2>. QED
    BY <1>3, <1>4, <2>1 DEF ExecInv, UnsentCalls
<1>9. IntentOfClaim'
  BY <1>2 DEF ExecInv, IntentOfClaim
<1>10. NoStray'
  <2>1. ASSUME NEW j \in Keys, NEW t \in Tokens, Exposed(j, t)'
        PROVE  Exposed(j, t)
    BY <1>3, <1>4, <2>1 DEF Exposed
  <2>2. \A t \in Tokens : ~Exposed(k, t)
    BY <1>1 DEF ExecInv, NoStray, Exposing, Delivered
  <2>. QED
    BY <1>2, <2>1, <2>2 DEF ExecInv, NoStray
<1>11. Receipted'
  BY <1>2, <1>4 DEF ExecInv, Receipted, Delivered
<1>. QED
  BY <1>5, <1>7, <1>8, <1>9, <1>10, <1>11 DEF ExecInv

\* begin_execution(): the row was CLAIMED, so nothing else is exposed.
LEMMA BeginKeeps ==
  ASSUME TypeOK, TypeOK', ExecInv, NEW w \in Workers, BeginExecution(w)
  PROVE  ExecInv'
<1>. DEFINE k == work[w].key
            t == work[w].token
<1>1. Holding(w) /\ k \in Keys /\ t \in Tokens /\ row[k].state = "CLAIMED"
  BY HolderColumns DEF BeginExecution, Holding
<1>2. row[k].claim.token = t
  BY DEF BeginExecution, ClaimMatches
<1>3. /\ row'[k].state = "EXECUTING" /\ row'[k].intent = t
      /\ row'[k].claim = row[k].claim /\ row'[k].attempts = row[k].attempts
      /\ \A j \in Keys \ {k} : row'[j] = row[j]
  <2>1. row'[k] = [row[k] EXCEPT !.state = "EXECUTING", !.intent = t]
    BY <1>1, UpdateOne DEF BeginExecution
  <2>2. \A j \in Keys \ {k} : row'[j] = row[j]
    BY <1>1, UpdateOne DEF BeginExecution
  <2>. QED
    BY <1>1, <2>1, <2>2, Columns DEF Rows
<1>4. /\ work'[w].phase = "prepared" /\ work'[w].key = k /\ work'[w].token = t
      /\ work[w].phase = "claimed"
      /\ \A v \in Workers \ {w} : work'[v] = work[v]
  BY <1>1 DEF BeginExecution, Become, TypeOK, Work, Idle, Polling
<1>5. UNCHANGED <<wire, applied, fenced>>
  BY DEF BeginExecution, provider
<1>. HIDE DEF k, t
<1>6. TokensIssued'
  BY <1>1, <1>3, <1>4, <1>5 DEF ExecInv, TokensIssued, Holding, k, t
<1>7. OneHolder'
  BY <1>1, <1>4 DEF ExecInv, OneHolder, Holding, k, t
<1>8. UnsentCalls'
  BY <1>4, <1>5 DEF ExecInv, UnsentCalls, k, t
<1>9. IntentOfClaim'
  BY <1>2, <1>3 DEF ExecInv, IntentOfClaim
<1>10. NoStray'
  <2>1. ASSUME NEW j \in Keys, NEW u \in Tokens, Exposed(j, u)'
        PROVE  Exposed(j, u) \/ (j = k /\ u = t)
    BY <1>4, <1>5, <2>1 DEF Exposed
  <2>2. \A u \in Tokens : ~Exposed(k, u)
    BY <1>1 DEF ExecInv, NoStray, Exposing, Delivered
  <2>. QED
    BY <1>3, <2>1, <2>2 DEF ExecInv, NoStray, Exposing
<1>11. Receipted'
  BY <1>3, <1>5 DEF ExecInv, Receipted, Delivered
<1>. QED
  BY <1>6, <1>7, <1>8, <1>9, <1>10, <1>11 DEF ExecInv

\* Calling the provider: the call was exposed already, or is barred.
LEMMA InvokeKeeps ==
  ASSUME TypeOK, TypeOK', ExecInv, NEW w \in Workers, InvokeProvider(w)
  PROVE  ExecInv'
<1>. DEFINE k == work[w].key
            t == work[w].token
<1>1. Holding(w) /\ k \in Keys /\ t \in Tokens /\ work[w].phase = "prepared"
  BY HolderColumns DEF InvokeProvider, Holding
<1>2. /\ work'[w].phase = "invoked" /\ work'[w].key = k /\ work'[w].token = t
      /\ work[w] = [phase |-> "prepared", key |-> k, token |-> t]
      /\ \A v \in Workers \ {w} : work'[v] = work[v]
  BY <1>1 DEF InvokeProvider, Become, TypeOK, Work, Idle, Polling
<1>3. UNCHANGED <<row, applied, fenced>>
  BY DEF InvokeProvider, ledger
<1>4. /\ wire'[k] = wire[k] \union {t}
      /\ \A j \in Keys \ {k} : wire'[j] = wire[j]
  BY <1>1 DEF InvokeProvider, TypeOK
<1>. HIDE DEF k, t
<1>5. TokensIssued'
  BY <1>1, <1>2, <1>3, <1>4 DEF ExecInv, TokensIssued, Holding, k, t
<1>6. OneHolder'
  BY <1>1, <1>2 DEF ExecInv, OneHolder, Holding, k, t
<1>7. UnsentCalls'
  <2>0. \A j \in Keys : wire'[j] \intersect applied'[j] = {}
    BY <1>1, <1>2, <1>3, <1>4 DEF ExecInv, UnsentCalls
  <2>. SUFFICES ASSUME NEW v \in Workers, work'[v].phase \in {"claimed", "prepared"}
                PROVE  work'[v].token \notin wire'[work'[v].key] \union applied'[work'[v].key]
    BY <2>0 DEF UnsentCalls
  <2>1. v # w /\ work'[v] = work[v] /\ Holding(v) /\ work[v].key \in Keys
    BY <1>2, HolderColumns DEF Holding
  <2>2. work[v].key = k => work[v].token # t
    BY <1>1, <2>1 DEF ExecInv, OneHolder, k, t
  <2>. QED
    BY <1>3, <1>4, <2>1, <2>2 DEF ExecInv, UnsentCalls
<1>8. IntentOfClaim' /\ Receipted'
  BY <1>3 DEF ExecInv, IntentOfClaim, Receipted
<1>9. NoStray'
  <2>1. ASSUME NEW j \in Keys, NEW u \in Tokens, Exposed(j, u)'
        PROVE  Exposed(j, u)
    BY <1>2, <1>3, <1>4, <2>1 DEF Exposed
  <2>. QED
    BY <1>3, <2>1 DEF ExecInv, NoStray
<1>. QED
  BY <1>5, <1>6, <1>7, <1>8, <1>9 DEF ExecInv

\* A call lands or is lost.
LEMMA ProviderKeeps ==
  ASSUME TypeOK, TypeOK', ExecInv, NEW k \in Keys, NEW t \in wire[k],
         ProviderApplies(k, t) \/ ProviderLoses(k, t)
  PROVE  ExecInv'
<1>1. UNCHANGED <<row, work, fenced>>
  BY DEF ProviderApplies, ProviderLoses, ledger
<1>2. /\ wire'[k] = wire[k] \ {t}
      /\ \A j \in Keys \ {k} : wire'[j] = wire[j]
      /\ t \in Tokens
  BY DEF ProviderApplies, ProviderLoses, TypeOK
<1>3. /\ applied'[k] = applied[k] \/ (t \notin fenced[k] /\ applied'[k] = applied[k] \union {t})
      /\ \A j \in Keys \ {k} : applied'[j] = applied[j]
  BY DEF ProviderApplies, ProviderLoses, TypeOK
<1>4. TokensIssued'
  BY <1>1, <1>2, <1>3 DEF ExecInv, TokensIssued, Holding
<1>5. OneHolder' /\ IntentOfClaim'
  BY <1>1 DEF ExecInv, OneHolder, IntentOfClaim, Holding
<1>6. UnsentCalls'
  <2>1. \A v \in Workers : work[v].phase \in {"claimed", "prepared"} => work[v].key \in Keys
    BY HolderColumns DEF Holding
  <2>. QED
    BY <1>1, <1>2, <1>3, <2>1 DEF ExecInv, UnsentCalls
<1>7. NoStray'
  <2>1. ASSUME NEW j \in Keys, NEW u \in Tokens, Exposed(j, u)'
        PROVE  Exposed(j, u)
    BY <1>1, <1>2, <1>3, <2>1 DEF Exposed
  <2>. QED
    BY <1>1, <2>1 DEF ExecInv, NoStray
<1>8. Receipted'
  BY <1>1, <1>3 DEF ExecInv, Receipted
<1>. QED
  BY <1>4, <1>5, <1>6, <1>7, <1>8 DEF ExecInv

\* A result is recorded, by the worker or by reconciliation: the row keeps
\* its intent, and the result is in the provider's books.
LEMMA RecordKeeps ==
  ASSUME TypeOK, TypeOK', ExecInv, UNCHANGED provider, OnlyDrops,
         NEW k \in Keys, NEW t \in applied[k], Recordable(k, t),
         Update(k, WithResult(k, t))
  PROVE  ExecInv'
<1>1. /\ row'[k].state = "EXECUTED" /\ row'[k].intent = row[k].intent
      /\ row'[k].attempts = row[k].attempts /\ row'[k].result = t
      /\ \A j \in Keys \ {k} : row'[j] = row[j]
  <2>1. row'[k] = [row[k] EXCEPT !.state = "EXECUTED", !.result = t]
    BY UpdateOne DEF WithResult
  <2>2. \A j \in Keys \ {k} : row'[j] = row[j]
    BY UpdateOne
  <2>. QED
    BY <2>1, <2>2, Columns DEF Rows
<1>2. TokensIssued'
  BY <1>1 DEF ExecInv, TokensIssued, Holding, OnlyDrops, provider
<1>3. OneHolder' /\ UnsentCalls'
  BY DEF ExecInv, OneHolder, UnsentCalls, Holding, OnlyDrops, provider
<1>4. IntentOfClaim'
  BY <1>1 DEF ExecInv, IntentOfClaim
<1>5. NoStray'
  <2>1. \A j \in Keys : \A u \in Tokens : Exposed(j, u)' => Exposed(j, u)
    BY DEF Exposed, OnlyDrops, provider
  <2>. QED
    BY <1>1, <2>1 DEF ExecInv, NoStray, Exposing, Delivered
<1>6. Receipted'
  BY <1>1 DEF ExecInv, Receipted, provider
<1>. QED
  BY <1>2, <1>3, <1>4, <1>5, <1>6 DEF ExecInv

\* A row is offered again once nothing of it is exposed any more.
LEMMA ReofferKeeps ==
  ASSUME TypeOK, TypeOK', ExecInv, UNCHANGED <<wire, applied>>, OnlyDrops,
         \A j \in Keys : fenced[j] \subseteq fenced'[j],
         NEW k \in Keys, \A t \in Tokens : ~Exposed(k, t)',
         row'[k].state \in {"FAILED_RETRYABLE", "FAILED_TERMINAL"},
         row'[k].attempts = row[k].attempts,
         \A j \in Keys \ {k} : row'[j] = row[j]
  PROVE  ExecInv'
<1>2. TokensIssued'
  BY DEF ExecInv, TokensIssued, Holding, OnlyDrops
<1>3. OneHolder' /\ UnsentCalls'
  BY DEF ExecInv, OneHolder, UnsentCalls, Holding, OnlyDrops
<1>4. IntentOfClaim'
  BY DEF ExecInv, IntentOfClaim
<1>5. NoStray'
  <2>1. \A j \in Keys : \A u \in Tokens : Exposed(j, u)' => Exposed(j, u)
    BY DEF Exposed, OnlyDrops
  <2>. QED
    BY <2>1 DEF ExecInv, NoStray
<1>6. Receipted'
  BY DEF ExecInv, Receipted, Delivered
<1>. QED
  BY <1>2, <1>3, <1>4, <1>5, <1>6 DEF ExecInv

\* mark_execution_failure(provider_not_invoked=True): the worker drops the
\* only execution that could still happen.
LEMMA NotInvokedKeeps ==
  ASSUME TypeOK, TypeOK', ExecInv, NEW w \in Workers, MarkExecutionFailure(w, TRUE)
  PROVE  ExecInv'
<1>0. Holding(w) /\ work[w].key \in Keys /\ work[w].token \in Tokens
  BY HolderColumns DEF MarkExecutionFailure
<1>. PICK k \in Keys, t \in Tokens : k = work[w].key /\ t = work[w].token
  BY <1>0
<1>1. /\ Holding(w) /\ k = work[w].key /\ t = work[w].token
      /\ work[w].phase \in {"claimed", "prepared"}
      /\ row[k].state \in {"CLAIMED", "EXECUTING"}
  BY <1>0 DEF MarkExecutionFailure, Holding
<1>2. row[k].claim.token = t
  BY <1>1 DEF MarkExecutionFailure, ClaimMatches
<1>3. /\ row'[k].state \in {"FAILED_RETRYABLE", "FAILED_TERMINAL"}
      /\ row'[k].attempts = row[k].attempts
      /\ \A j \in Keys \ {k} : row'[j] = row[j]
  <2>1. row'[k] = [row[k] EXCEPT !.state = RetryOrFail(row[k]), !.claim = NoClaim]
    BY <1>1, UpdateOne DEF MarkExecutionFailure
  <2>2. \A j \in Keys \ {k} : row'[j] = row[j]
    BY <1>1, UpdateOne DEF MarkExecutionFailure
  <2>. QED
    BY <1>1, <2>1, <2>2, Columns DEF Rows, RetryOrFail
<1>4. work'[w].phase = "idle" /\ \A v \in Workers \ {w} : work'[v] = work[v]
  BY DEF MarkExecutionFailure, Become, TypeOK, Idle
<1>5. UNCHANGED <<wire, applied, fenced>> /\ OnlyDrops
  BY <1>4 DEF MarkExecutionFailure, provider, OnlyDrops
<1>6. t \notin wire[k] \union applied[k]
  BY <1>1 DEF ExecInv, UnsentCalls
<1>7. \A v \in Workers \ {w} : Holding(v) /\ work[v].key = k => work[v].token # t
  BY <1>1 DEF ExecInv, OneHolder
<1>8. ASSUME NEW u \in Tokens, Exposed(k, u)'
      PROVE  FALSE
  <2>1. Exposed(k, u)
    BY <1>4, <1>5, <1>8 DEF Exposed
  <2>2. row[k].intent = u /\ row[k].state = "EXECUTING"
    BY <1>1, <2>1 DEF ExecInv, NoStray, Exposing, Delivered
  <2>3. u = t
    BY <1>1, <1>2, <2>2 DEF ExecInv, IntentOfClaim
  <2>. QED
    BY <1>4, <1>5, <1>6, <1>7, <1>8, <2>3 DEF Exposed, Holding
<1>. QED
  BY <1>1, <1>3, <1>5, <1>8, ReofferKeeps

\* reconcile_execution(NOT_EXECUTED) against a provider that bars the token.
LEMMA NotExecutedKeeps ==
  ASSUME ProviderFences, TypeOK, TypeOK', ExecInv, NEW k \in Keys, ReconcileNotExecuted(k)
  PROVE  ExecInv'
<1>1. /\ row'[k].state \in {"FAILED_RETRYABLE", "FAILED_TERMINAL"}
      /\ row'[k].attempts = row[k].attempts
      /\ \A j \in Keys \ {k} : row'[j] = row[j]
  <2>1. row'[k] = [row[k] EXCEPT !.state = RetryOrFail(row[k]), !.claim = NoClaim,
                                 !.intent = NoToken]
    BY UpdateOne DEF ReconcileNotExecuted
  <2>2. \A j \in Keys \ {k} : row'[j] = row[j]
    BY UpdateOne DEF ReconcileNotExecuted
  <2>. QED
    BY <2>1, <2>2, Columns DEF Rows, RetryOrFail
<1>2. UNCHANGED <<work, wire, applied>> /\ row[k].intent \notin applied[k]
  BY DEF ReconcileNotExecuted
<1>3. /\ fenced'[k] = fenced[k] \union {row[k].intent}
      /\ \A j \in Keys : fenced[j] \subseteq fenced'[j]
  BY DEF ReconcileNotExecuted, TypeOK
<1>4. ASSUME NEW u \in Tokens, Exposed(k, u)'
      PROVE  FALSE
  <2>1. Exposed(k, u)
    <3>1. \/ u \in applied[k]
          \/ /\ u \notin fenced'[k]
             /\ \/ u \in wire[k]
                \/ \E w \in Workers :
                     work[w] = [phase |-> "prepared", key |-> k, token |-> u]
      BY <1>2, <1>4 DEF Exposed
    <3>. QED
      BY <1>3, <3>1 DEF Exposed
  <2>2. row[k].intent = u
    BY <2>1 DEF ExecInv, NoStray
  <2>. QED
    BY <1>2, <1>3, <1>4, <2>2 DEF Exposed
<1>. QED
  BY <1>1, <1>2, <1>3, <1>4, ReofferKeeps DEF OnlyDrops

\* Every step keeps ExecInv, if the provider bars what it disowned.
LEMMA ExecStep ==
  ASSUME ProviderFences, TypeOK, TypeOK', ExecInv, [Next]_vars
  PROVE  ExecInv'
<1>1. CASE QuietAction
  <2>1. \A j \in Keys : QuietRow(row[j], row'[j])
    BY <1>1, QuietRowSteps, QuietSteps DEF TypeOK, ExecInv, TokensIssued, IntentOfClaim
  <2>2. UNCHANGED provider
    BY <1>1, ZenonT(60) DEF QuietAction, QuietWorkerStep, CallerStep, Scan, RecoverExpiredClaims,
       Submit, Authorize, Verify, Publish, Acknowledge, Poll, ClaimNothing, WorkerStops,
       MarkExecutionFailure, ClaimCloses, ReconcileUnknown, DeadlinePasses
  <2>3. UNCHANGED work \/ \E w \in Workers : Become(w, Idle) \/ Become(w, Polling)
    BY <1>1 DEF QuietAction, QuietWorkerStep, CallerStep, Scan, RecoverExpiredClaims,
       Submit, Authorize, Verify, Publish, Acknowledge, Poll, ClaimNothing, WorkerStops,
       MarkExecutionFailure, ClaimCloses, ReconcileUnknown, DeadlinePasses
  <2>4. OnlyDrops
    BY <2>3 DEF OnlyDrops, Become, TypeOK, Idle, Polling
  <2>. QED
    BY <2>1, <2>2, <2>4, QuietStep
<1>2. ASSUME NEW w \in Workers, RecordExecution(w)
      PROVE  ExecInv'
  <2>1. work[w].key \in Keys
    BY <1>2, HolderColumns DEF RecordExecution, Holding
  <2>2. OnlyDrops /\ UNCHANGED provider
    BY <1>2 DEF RecordExecution, OnlyDrops, Become, TypeOK, Idle
  <2>. QED
    BY <1>2, <2>1, <2>2, RecordKeeps DEF RecordExecution
<1>3. ASSUME NEW k \in Keys, ReconcileExecuted(k)
      PROVE  ExecInv'
  BY <1>3, RecordKeeps DEF ReconcileExecuted, OnlyDrops
<1>4. CASE UNCHANGED vars
  <2>1. \A j \in Keys : QuietRow(row[j], row'[j])
    <3>1. \A j \in Keys : QuietRowStep(row[j], row'[j])
      BY <1>4 DEF vars, QuietRowStep
    <3>. QED
      BY <3>1, QuietSteps DEF TypeOK, ExecInv, TokensIssued, IntentOfClaim
  <2>. QED
    BY <1>4, <2>1, QuietStep DEF vars, provider, OnlyDrops
<1>. QED
  BY <1>1, <1>2, <1>3, <1>4, ClaimKeeps, BeginKeeps, InvokeKeeps, ProviderKeeps,
     NotInvokedKeeps, NotExecutedKeeps
     DEF Next, QuietAction, WorkerStep, QuietWorkerStep, Reconcile, Environment

\* ExecInv holds throughout.
LEMMA ExecInvariant == ASSUME ProviderFences PROVE Spec => []ExecInv
<1>1. Init => ExecInv
  <2>. SUFFICES ASSUME Init PROVE ExecInv
    OBVIOUS
  <2>1. \A w \in Workers : work[w].phase = "idle"
    BY DEF Init, Idle
  <2>2. \A k \in Keys : row[k].state = "ABSENT" /\ row[k].attempts = 0
    BY NoRowColumns DEF Init
  <2>3. \A k \in Keys : wire[k] = {} /\ applied[k] = {}
    BY DEF Init
  <2>4. \A k \in Keys, t \in Tokens : ~Exposed(k, t)
    BY <2>1, <2>3 DEF Exposed
  <2>. QED
    BY <2>1, <2>2, <2>3, <2>4 DEF ExecInv, TokensIssued, OneHolder, UnsentCalls,
       IntentOfClaim, NoStray, Receipted, Holding, Delivered
<1>2. TypeOK /\ TypeOK' /\ ExecInv /\ [Next]_vars => ExecInv'
  BY ExecStep
<1>. QED
  BY <1>1, <1>2, TypeCorrect, PTL DEF Spec

\* Against a provider that bars the executions it disowned, no sequence of
\* crashes, expiries, late calls, retries and reconciliations makes an
\* effect take place twice.
THEOREM AtMostOnce == ASSUME ProviderFences PROVE Spec => []AppliedAtMostOnce
<1>1. TypeOK /\ ExecInv => AppliedAtMostOnce
  <2>. SUFFICES ASSUME TypeOK, ExecInv, NEW k \in Keys, NEW t \in applied[k]
                PROVE  row[k].intent = t
    BY DEF AppliedAtMostOnce
  <2>1. t \in Tokens /\ Exposed(k, t)
    BY DEF TypeOK, Exposed
  <2>. QED
    BY <2>1 DEF ExecInv, NoStray
<1>. QED
  BY <1>1, TypeCorrect, ExecInvariant, PTL

\* A row is offered for another attempt, failed or cancelled only when no
\* execution of it has taken effect or still can.
THEOREM NoBlindRetry == ASSUME ProviderFences PROVE Spec => []RetryOnlyWhenNothingHappened
<1>1. TypeOK /\ ExecInv => RetryOnlyWhenNothingHappened
  <2>. SUFFICES ASSUME TypeOK, ExecInv, NEW k \in Keys,
                       row[k].state \in {"AUTHORIZED", "CLAIMED", "FAILED_RETRYABLE",
                                         "FAILED_TERMINAL", "CANCELLED", "DENIED"}
                PROVE  NothingOutstanding(k)
    BY DEF RetryOnlyWhenNothingHappened
  <2>1. \A t \in Tokens : ~Exposed(k, t)
    BY DEF ExecInv, NoStray, Exposing, Delivered
  <2>2. applied[k] = {} /\ wire[k] \subseteq fenced[k]
    BY <2>1 DEF Exposed, TypeOK
  <2>3. ASSUME NEW w \in Workers, work[w].phase = "prepared", work[w].key = k
        PROVE  work[w].token \in fenced[k]
    <3>1. work[w] = [phase |-> "prepared", key |-> k, token |-> work[w].token]
      BY <2>3 DEF TypeOK, Work, Idle, Polling
    <3>2. work[w].token \in Tokens
      BY <2>3, HolderColumns DEF Holding
    <3>. QED
      BY <2>1, <3>1, <3>2 DEF Exposed
  <2>. QED
    BY <2>2, <2>3 DEF NothingOutstanding
<1>. QED
  BY <1>1, TypeCorrect, ExecInvariant, PTL

-------------------------------------------------------------------------------
(* Durable facts.                                                           *)

Verified == {"VERIFIED", "PUBLISHED", "ACKNOWLEDGED"}

\* Which facts a row carries in which states.
RowFacts(r) ==
  /\ r.state = "ABSENT" => r.request = None
  /\ r.state \in {"ABSENT", "PENDING_AUTHORIZATION"} => r.authorization = None
  /\ r.state \notin {"ABSENT", "PENDING_AUTHORIZATION", "DENIED"}
       => r.authorization = r.request
  /\ r.result # NoToken => r.state \in Delivered
  /\ r.verification.of # NoToken => r.state \in Verified \union {"VERIFICATION_FAILED"}
  /\ r.state \in Verified
       => r.verification = [of |-> r.result, findings |-> Findings]

\* A change of a row that rewrites no fact and leaves no terminal state.
Immutable(r, q) ==
  /\ r.state \in TERMINAL_STATES => q = r
  /\ r.request # None => q.request = r.request
  /\ r.authorization # None => q.authorization = r.authorization
  /\ r.result # NoToken => q.result = r.result
  /\ r.verification.of # NoToken => q.verification = r.verification

\* Every step of a row's life cycle keeps its facts in order and rewrites none.
LEMMA FactStep ==
  ASSUME NEW r \in Rows, NEW q \in Rows, RowStep(r, q), RowFacts(r)
  PROVE  RowFacts(q) /\ Immutable(r, q)
<1>. USE DEF RowFacts, Immutable, Delivered, Verified, TERMINAL_STATES
<1>1. CASE q = r
  BY <1>1
<1>2. CASE Submitted(r, q)
  <2>1. /\ NoRow.authorization = None /\ NoRow.result = 0 /\ NoRow.verification.of = 0
    BY DEF NoRow
  <2>2. /\ r.state = "ABSENT" /\ q.state = "PENDING_AUTHORIZATION"
        /\ q.authorization = None /\ q.result = 0 /\ q.verification.of = 0
    BY <1>2, <2>1, NoRowColumns DEF Submitted, Rows
  <2>. QED
    BY <2>2
<1>3. CASE Decided(r, q)
  <2>1. /\ r.state = "PENDING_AUTHORIZATION"
        /\ q.request = r.request /\ q.result = r.result /\ q.verification = r.verification
        /\ \/ q.state = "AUTHORIZED" /\ q.authorization = r.request
           \/ q.state = "DENIED"
    <3>1. PICK a \in Requests :
            \/ a = r.request /\ q = [r EXCEPT !.state = "AUTHORIZED", !.authorization = a]
            \/ q = [r EXCEPT !.state = "DENIED", !.authorization = a]
      BY <1>3, Zenon DEF Decided
    <3>2. r.state = "PENDING_AUTHORIZATION"
      BY <1>3, Zenon DEF Decided
    <3>3. CASE a = r.request /\ q = [r EXCEPT !.state = "AUTHORIZED", !.authorization = a]
      BY <3>2, <3>3 DEF Rows
    <3>4. CASE q = [r EXCEPT !.state = "DENIED", !.authorization = a]
      BY <3>2, <3>4 DEF Rows
    <3>. QED
      BY <3>1, <3>3, <3>4, Zenon
  <2>. QED
    BY <2>1
<1>4. CASE Closed(r, q) \/ Taken(r, q) \/ Begun(r, q) \/ Uncertain(r, q) \/ Cleared(r, q)
           \/ Released(r, q)
  <2>1. /\ r.state \in {"AUTHORIZED", "FAILED_RETRYABLE", "CLAIMED", "EXECUTING",
                        "RECOVERY_REQUIRED"}
        /\ q.request = r.request /\ q.authorization = r.authorization
        /\ q.result = r.result /\ q.verification = r.verification
        /\ q.state \in {"CANCELLED", "FAILED_TERMINAL", "FAILED_RETRYABLE", "CLAIMED",
                        "EXECUTING", "RECOVERY_REQUIRED"}
    <3>1. CASE Closed(r, q)
      BY <3>1 DEF Closed, Rows
    <3>2. CASE Taken(r, q)
      BY <3>2 DEF Taken, Rows
    <3>3. CASE Begun(r, q) \/ Uncertain(r, q)
      BY <3>3, ZenonT(60) DEF Begun, Uncertain, Rows
    <3>4. CASE Cleared(r, q) \/ Released(r, q)
      BY <3>4, ZenonT(60) DEF Cleared, Released, RetryOrFail, Rows
    <3>. QED
      BY <1>4, <3>1, <3>2, <3>3, <3>4
  <2>. QED
    BY <2>1
<1>5. CASE Recorded(r, q)
  <2>1. /\ r.state \in {"EXECUTING", "RECOVERY_REQUIRED"} /\ q.state = "EXECUTED"
        /\ q.request = r.request /\ q.authorization = r.authorization
        /\ q.verification = r.verification
    BY <1>5 DEF Recorded, Rows
  <2>. QED
    BY <2>1
<1>6. CASE Judged(r, q)
  <2>1. /\ r.state = "EXECUTED" /\ q.request = r.request
        /\ q.authorization = r.authorization /\ q.result = r.result
        /\ \/ q.state = "VERIFIED" /\ q.verification = [of |-> r.result, findings |-> Findings]
           \/ q.state = "VERIFICATION_FAILED"
    <3>0. \A f \in SUBSET Findings :
            [of |-> r.result, findings |-> f] \in [of : Nat, findings : SUBSET Findings]
      BY DEF Rows
    <3>1. PICK f \in SUBSET Findings, v \in [of : Nat, findings : SUBSET Findings] :
            /\ v = [of |-> r.result, findings |-> f]
            /\ \/ f = Findings /\ q = [r EXCEPT !.state = "VERIFIED", !.verification = v]
               \/ q = [r EXCEPT !.state = "VERIFICATION_FAILED", !.verification = v]
      BY <1>6, <3>0, Zenon DEF Judged
    <3>2. r.state = "EXECUTED"
      BY <1>6 DEF Judged
    <3>3. CASE f = Findings /\ q = [r EXCEPT !.state = "VERIFIED", !.verification = v]
      <4>1. v = [of |-> r.result, findings |-> Findings]
        BY <3>1, <3>3, Zenon
      <4>2. /\ q.state = "VERIFIED" /\ q.verification = v /\ q.request = r.request
            /\ q.authorization = r.authorization /\ q.result = r.result
        BY <3>3 DEF Rows
      <4>. QED
        BY <3>2, <4>1, <4>2, Zenon
    <3>4. CASE q = [r EXCEPT !.state = "VERIFICATION_FAILED", !.verification = v]
      BY <3>2, <3>4 DEF Rows
    <3>. QED
      BY <3>1, <3>3, <3>4, Zenon
  <2>. QED
    BY <2>1
<1>7. CASE Shown(r, q)
  <2>1. /\ \/ r.state = "VERIFIED" /\ q.state = "PUBLISHED"
           \/ r.state = "PUBLISHED" /\ q.state = "ACKNOWLEDGED"
        /\ q.request = r.request /\ q.authorization = r.authorization
        /\ q.result = r.result /\ q.verification = r.verification
    BY <1>7 DEF Shown, Rows
  <2>. QED
    BY <2>1
<1>. QED
  BY <1>1, <1>2, <1>3, <1>4, <1>5, <1>6, <1>7 DEF RowStep, QuietRowStep

FactsInv == \A k \in Keys : RowFacts(row[k])

\* Every row carries the facts of its state.
LEMMA FactsInvariant == Spec => []FactsInv
<1>1. Init => FactsInv
  <2>1. /\ NoRow.state = "ABSENT" /\ NoRow.request = None /\ NoRow.authorization = None
        /\ NoRow.result = 0 /\ NoRow.verification.of = 0
    BY DEF NoRow
  <2>2. RowFacts(NoRow)
    BY <2>1 DEF RowFacts, Verified
  <2>. QED
    BY <2>2, Zenon DEF Init, FactsInv
<1>2. TypeOK /\ TypeOK' /\ FactsInv /\ [Next]_vars => FactsInv'
  BY RowSteps, FactStep DEF TypeOK, FactsInv
<1>. QED
  BY <1>1, <1>2, TypeCorrect, PTL DEF Spec

\* No call of the ledger rewrites a stored request, authorization, result or
\* verification, or leaves a terminal state.
THEOREM ImmutableFacts == Spec => FactsAreImmutable
<1>1. TypeOK /\ TypeOK' /\ FactsInv /\ [Next]_vars
        => \A k \in Keys : Immutable(row[k], row'[k])
  BY RowSteps, FactStep DEF TypeOK, FactsInv
<1>2. (\A k \in Keys : Immutable(row[k], row'[k])) =>
        [\A k \in Keys :
           /\ row[k].state \in TERMINAL_STATES => row'[k] = row[k]
           /\ row[k].request # None => row'[k].request = row[k].request
           /\ row[k].authorization # None => row'[k].authorization = row[k].authorization
           /\ row[k].result # NoToken => row'[k].result = row[k].result
           /\ row[k].verification.of # NoToken
                => row'[k].verification = row[k].verification]_vars
  BY Zenon DEF Immutable
<1>. QED
  BY <1>1, <1>2, TypeCorrect, FactsInvariant, PTL DEF Spec, FactsAreImmutable

\* What is published passed an independent verification of the very result
\* the provider gave for the very request that was authorized.
THEOREM Published == ASSUME ProviderFences PROVE Spec => []PublishedIsVerified
<1>1. ExecInv /\ FactsInv => PublishedIsVerified
  BY DEF ExecInv, Receipted, FactsInv, RowFacts, PublishedIsVerified, Delivered, Verified
<1>. QED
  BY <1>1, ExecInvariant, FactsInvariant, PTL

-------------------------------------------------------------------------------
(* Refinement: the ledger implements EffectOutcome.                         *)

\* What callers are told of a row changes at most once.
LEMMA OutcomeStep ==
  ASSUME TypeOK, TypeOK', NEW k \in Keys, RowStep(row[k], row'[k])
  PROVE  Outcome(k)' = Outcome(k) \/ Outcome(k) = "none"
<1>. DEFINE Told == Delivered \union {"DENIED", "CANCELLED", "FAILED_TERMINAL"}
<1>1. CASE row[k].state \notin Told
  BY <1>1 DEF Outcome, Delivered
<1>2. CASE row[k].state \in Told
  <2>1. row'[k] = row[k] \/ (row[k].state \in Delivered /\ row'[k].state \in Delivered)
    <3>1. row'[k] = row[k] \/ Judged(row[k], row'[k]) \/ Shown(row[k], row'[k])
      BY <1>2 DEF RowStep, QuietRowStep, Submitted, Decided, Closed, Taken, Begun, Released,
         Uncertain, Recorded, Cleared, Delivered
    <3>2. CASE Judged(row[k], row'[k])
      <4>1. row[k].state = "EXECUTED" /\ row[k] \in Rows
        BY <3>2, Columns DEF Judged
      <4>2. row'[k].state \in {"VERIFIED", "VERIFICATION_FAILED"}
        BY <3>2, <4>1 DEF Judged, Rows
      <4>. QED
        BY <4>1, <4>2 DEF Delivered
    <3>3. CASE Shown(row[k], row'[k])
      <4>1. row[k] \in Rows
        BY Columns
      <4>. QED
        BY <3>3, <4>1 DEF Shown, Rows, Delivered
    <3>. QED
      BY <3>1, <3>2, <3>3, SMTT(40)
  <2>2. CASE row'[k] = row[k]
    BY <2>2, Zenon DEF Outcome
  <2>3. CASE row[k].state \in Delivered /\ row'[k].state \in Delivered
    <3>1. Outcome(k) = "success"
      BY <2>3 DEF Outcome, Delivered
    <3>2. Outcome(k)' = "success"
      BY <2>3 DEF Outcome, Delivered
    <3>. QED
      BY <3>1, <3>2
  <2>. QED
    BY <2>1, <2>2, <2>3
<1>. QED
  BY <1>1, <1>2

\* Every step of the ledger is a step of EffectOutcome or changes nothing of it.
LEMMA OutcomeSteps ==
  ASSUME TypeOK, TypeOK', ExecInv, ExecInv', [Next]_vars
  PROVE  [Abstract!Next]_(Abstract!vars)
<1>. DEFINE told == [k \in Keys |-> Outcome(k)]
<1>1. ASSUME NEW k \in Keys, NEW t \in wire[k], ProviderApplies(k, t), t \notin fenced[k]
      PROVE  Abstract!Happen(k)
  <2>1. t \in Tokens /\ Exposed(k, t) /\ t \notin applied[k]
    <3>1. t \in Tokens /\ t \notin applied[k]
      BY DEF TypeOK, ExecInv, UnsentCalls
    <3>. QED
      BY <1>1, <3>1 DEF Exposed
  <2>2. row[k].intent = t /\ row[k].state \in Exposing
    BY <2>1 DEF ExecInv, NoStray
  <2>3. applied[k] = {}
    <3>1. \A u \in applied[k] : u \in Tokens /\ Exposed(k, u)
      BY DEF TypeOK, Exposed
    <3>. QED
      BY <2>1, <2>2, <3>1 DEF ExecInv, NoStray
  <2>4. row[k].state \notin Delivered
    BY <2>3 DEF ExecInv, Receipted
  <2>5. Outcome(k) = "none"
    BY <2>2, <2>4 DEF Outcome, Exposing
  <2>6. applied' = [applied EXCEPT ![k] = {t}] /\ applied'[k] = {t}
    BY <1>1, <2>3 DEF ProviderApplies, TypeOK
  <2>7. told' = told
    BY <1>1 DEF ProviderApplies, ledger, Outcome
  <2>. QED
    BY <2>3, <2>5, <2>6, <2>7 DEF Abstract!Happen
<1>2. CASE UNCHANGED applied
  <2>1. ASSUME NEW k \in Keys
        PROVE  /\ Outcome(k)' \in {"none", "success", "failure"}
               /\ Outcome(k)' # Outcome(k) =>
                    /\ Outcome(k) = "none"
                    /\ Outcome(k)' = IF applied[k] = {} THEN "failure" ELSE "success"
    <3>1. Outcome(k)' = Outcome(k) \/ Outcome(k) = "none"
      BY OutcomeStep, RowSteps
    <3>2. Outcome(k)' = "success" => applied[k] # {}
      BY <1>2 DEF ExecInv, Receipted, Outcome
    <3>3. Outcome(k)' = "failure" => applied[k] = {}
      <4>1. \A t \in applied[k] : t \in Tokens /\ Exposed(k, t)'
        BY <1>2 DEF TypeOK, Exposed
      <4>. QED
        BY <4>1 DEF ExecInv, NoStray, Outcome, Exposing, Delivered
    <3>4. Outcome(k)' \in {"none", "success", "failure"} /\ Outcome(k) \in {"none", "success", "failure"}
      BY DEF Outcome
    <3>. QED
      BY <3>1, <3>2, <3>3, <3>4
  <2>2. /\ told' \in [Keys -> {"none", "success", "failure"}]
        /\ \A k \in Keys : told'[k] = Outcome(k)' /\ told[k] = Outcome(k)
    BY <2>1, SMTT(40)
  <2>. HIDE DEF told
  <2>. QED
    BY <1>2, <2>1, <2>2 DEF Abstract!Next, Abstract!Tell, Abstract!Reports, told
<1>3. UNCHANGED applied
      \/ \E k \in Keys : \E t \in wire[k] : ProviderApplies(k, t) /\ t \notin fenced[k]
  BY DEF Next, vars, provider, CallerStep, Submit, Authorize, Verify, Publish, Acknowledge,
     WorkerStep, Poll, ClaimNothing, ClaimCloses, Claim, BeginExecution, InvokeProvider,
     RecordExecution, MarkExecutionFailure, WorkerStops, Scan, RecoverExpiredClaims,
     Reconcile, ReconcileUnknown, ReconcileExecuted, ReconcileNotExecuted,
     Environment, ProviderApplies, ProviderLoses, DeadlinePasses
<1>. QED
  BY <1>1, <1>2, <1>3 DEF Abstract!Next

\* The ledger keeps the promise EffectOutcome states: one effect per key at
\* most, success only for what happened, failure only for what never happens.
THEOREM Refinement == ASSUME ProviderFences PROVE Spec => OutcomeSpec
<1>1. Init => Abstract!Init
  <2>. SUFFICES ASSUME Init PROVE Abstract!Init
    OBVIOUS
  <2>1. \A k \in Keys : Outcome(k) = "none"
    BY NoRowColumns DEF Init, Outcome, Delivered
  <2>. QED
    BY <2>1 DEF Init, Abstract!Init
<1>2. TypeOK /\ TypeOK' /\ ExecInv /\ ExecInv' /\ [Next]_vars
        => [Abstract!Next]_(Abstract!vars)
  BY OutcomeSteps
<1>. QED
  BY <1>1, <1>2, TypeCorrect, ExecInvariant, PTL DEF Spec, OutcomeSpec, Abstract!Spec
===============================================================================
