---------------------------- MODULE DeliveryProofs ----------------------------
(***************************************************************************)
(* Proofs about the components of MCDelivery, for any sets of jobs,        *)
(* supervisors and tasks, any budgets and any bounds: each component's     *)
(* inductive invariant is preserved by its steps, and the safety           *)
(* properties of the suite follow.                                         *)
(***************************************************************************)
EXTENDS MCDelivery, NaturalLemmas, FiniteSetTheorems, SequenceTheorems, TLAPS

-------------------------------------------------------------------------------
(* The supervisor's lease queue.                                            *)

\* Supervisors whose worker ids tell them apart.
DistinctWorkerIds == \A s, t \in Supervisors : WorkerId[s] = WorkerId[t] => s = t

Submitted == {j \in QueueJobs : queued[j].state # "ABSENT"}

\* A row nobody submitted has not been tried.
AbsentUntried == \A j \in QueueJobs : queued[j].state = "ABSENT" => queued[j].attempts = 0

QueueInv ==
  /\ LeaseTypeOK
  /\ IsFiniteSet(Submitted)
  /\ AbsentUntried
  /\ AttemptsWithinBudget

\* What a supervisor has in hand while it is still claiming is its own, and its
\* lease has not lapsed.
ClaimedAreLeased ==
  \A s \in Supervisors : super[s].pc = "claiming" =>
    \A x \in super[s].batch :
      /\ LeasedBy(s, x.job) /\ x.attempt = queued[x.job].attempts
      /\ x.job \notin overdue

\* A row that is leased to a supervisor is at the attempt the supervisor has in hand.
LeaseIsOfAttempt ==
  \A s \in Supervisors : \A x \in super[s].batch :
    LeasedBy(s, x.job) => x.attempt = queued[x.job].attempts

IdleIsEmpty == \A s \in Supervisors : super[s].pc = "idle" => super[s].batch = {}

AttemptInv == IdleIsEmpty /\ ClaimedAreLeased /\ LeaseIsOfAttempt /\ ResultOfLastAttempt

\* The columns of a row, and what RecoveredJob leaves of it.
LEMMA QueueRows ==
  ASSUME LeaseTypeOK, NEW j \in QueueJobs
  PROVE  /\ queued[j] \in JobRows /\ queued[j].attempts \in Nat /\ queued[j].result \in Nat
         /\ queued[j].created \in Nat
         /\ MaxAttempts[j] \in Nat \ {0}
         /\ RecoveredJob(j) \in JobRows
         /\ RecoveredJob(j).attempts = queued[j].attempts
         /\ RecoveredJob(j).state = "ABSENT" <=> queued[j].state = "ABSENT"
<1>1. queued[j] \in JobRows
  BY DEF LeaseTypeOK
<1>2. queued[j].attempts \in Nat /\ queued[j].result \in Nat /\ queued[j].created \in Nat
  BY <1>1 DEF JobRows
<1>3. MaxAttempts[j] \in Nat \ {0}
  BY QueueAssumption
<1>4. RequeueOrFail(queued[j], MaxAttempts[j]) \in {"QUEUED", "ERROR"}
  BY DEF RequeueOrFail
<1>5. RecoveredJob(j) \in JobRows
  BY <1>1, <1>4 DEF JobRows, RecoveredJob, Nobody, Finished
<1>6. /\ RecoveredJob(j).attempts = queued[j].attempts
      /\ RecoveredJob(j).state = "ABSENT" <=> queued[j].state = "ABSENT"
  BY <1>1, <1>4 DEF JobRows, RecoveredJob
<1>. QED
  BY <1>1, <1>2, <1>3, <1>5, <1>6

LEMMA QueueInit == LeaseInit => QueueInv
<1>. SUFFICES ASSUME LeaseInit PROVE QueueInv
  OBVIOUS
<1>1. LeaseTypeOK
  BY DEF LeaseInit, LeaseTypeOK, JobRows, Nobody, Executions
<1>2. Submitted = {}
  BY DEF LeaseInit, Submitted
<1>3. AbsentUntried /\ AttemptsWithinBudget
  BY QueueAssumption DEF LeaseInit, AbsentUntried, AttemptsWithinBudget
<1>. QED
  BY <1>1, <1>2, <1>3, FS_EmptySet DEF QueueInv

\* A step that changes one row, to one that is within its budget, or none.
LEMMA OneRow ==
  ASSUME QueueInv, NEW j \in QueueJobs, NEW r \in JobRows,
         queued' = [queued EXCEPT ![j] = r],
         r.state # "ABSENT",
         r.attempts <= MaxAttempts[j],
         r.state = "QUEUED" => r.attempts < MaxAttempts[j]
  PROVE  /\ queued' \in [QueueJobs -> JobRows]
         /\ IsFiniteSet(Submitted') /\ AbsentUntried' /\ AttemptsWithinBudget'
<1>1. /\ queued' \in [QueueJobs -> JobRows] /\ queued'[j] = r
      /\ \A i \in QueueJobs \ {j} : queued'[i] = queued[i]
  BY DEF QueueInv, LeaseTypeOK
<1>2. Submitted' = Submitted \union {j}
  BY <1>1 DEF Submitted
<1>3. IsFiniteSet(Submitted')
  BY <1>2, FS_AddElement DEF QueueInv
<1>4. AbsentUntried' /\ AttemptsWithinBudget'
  BY <1>1 DEF QueueInv, AbsentUntried, AttemptsWithinBudget
<1>. QED
  BY <1>1, <1>3, <1>4

LEMMA QueueStep == QueueInv /\ [LeaseNext]_queueVars => QueueInv'
<1>. SUFFICES ASSUME QueueInv, [LeaseNext]_queueVars
              PROVE  QueueInv'
  OBVIOUS
<1>. USE QueueAssumption
<1>0. /\ LeaseTypeOK /\ IsFiniteSet(Submitted) /\ AbsentUntried /\ AttemptsWithinBudget
      /\ super \in [Supervisors -> [pc : {"idle", "claiming", "running"}, batch : SUBSET Executions]]
      /\ overdue \subseteq QueueJobs
  BY DEF QueueInv, LeaseTypeOK
<1>Q. ASSUME UNCHANGED queued, overdue' \subseteq QueueJobs,
             super' \in [Supervisors -> [pc : {"idle", "claiming", "running"}, batch : SUBSET Executions]]
      PROVE  QueueInv'
  BY <1>0, <1>Q DEF QueueInv, LeaseTypeOK, Submitted, AbsentUntried, AttemptsWithinBudget
<1>R. ASSUME NEW j \in QueueJobs, NEW r \in JobRows,
             queued' = [queued EXCEPT ![j] = r],
             r.state # "ABSENT",
             r.attempts <= MaxAttempts[j],
             r.state = "QUEUED" => r.attempts < MaxAttempts[j],
             overdue' \subseteq QueueJobs,
             super' \in [Supervisors -> [pc : {"idle", "claiming", "running"}, batch : SUBSET Executions]]
      PROVE  QueueInv'
  BY <1>R, OneRow DEF QueueInv, LeaseTypeOK
<1>1. ASSUME NEW j \in QueueJobs, SubmitJob(j)
      PROVE  QueueInv'
  <2>1. Cardinality(Submitted) + 1 \in Nat
    BY <1>0, FS_CardinalityType
  <2>. DEFINE r == [queued[j] EXCEPT !.state = "QUEUED", !.created = Cardinality(Submitted) + 1]
  <2>2. queued' = [queued EXCEPT ![j] = r]
    BY <1>1, <1>0 DEF SubmitJob, Submitted, LeaseTypeOK, JobRows
  <2>3. queued[j] \in JobRows
    BY QueueRows, <1>0
  <2>4. r \in JobRows
    BY <2>1, <2>3 DEF JobRows
  <2>5. r.state = "QUEUED" /\ r.attempts = 0
    BY <1>0, <1>1, <2>3 DEF SubmitJob, AbsentUntried, JobRows
  <2>. QED
    <3>1. r.state # "ABSENT" /\ r.attempts <= MaxAttempts[j] /\ r.attempts < MaxAttempts[j]
      BY <2>5, QueueRows, <1>0
    <3>. HIDE DEF r
    <3>. QED
      BY <1>R, <2>2, <2>4, <3>1, <1>1, <1>0 DEF SubmitJob
<1>2. ASSUME NEW j \in QueueJobs, LeaseLapses(j)
      PROVE  QueueInv'
  BY <1>0, <1>2, <1>Q DEF LeaseLapses
<1>3. ASSUME NEW s \in Supervisors, StartBatch(s)
      PROVE  QueueInv'
  <2>1. queued' \in [QueueJobs -> JobRows] /\ \A j \in QueueJobs : queued'[j] = RecoveredJob(j)
    BY <1>3, <1>0, QueueRows DEF StartBatch
  <2>2. LeaseTypeOK'
    BY <1>3, <1>0, <2>1 DEF StartBatch, LeaseTypeOK
  <2>3. Submitted' = Submitted
    BY <2>1, <1>0, QueueRows DEF Submitted
  <2>4. AbsentUntried'
    BY <2>1, <1>0, QueueRows DEF AbsentUntried
  <2>5. AttemptsWithinBudget'
    <3>. SUFFICES ASSUME NEW j \in QueueJobs
                  PROVE  /\ RecoveredJob(j).attempts <= MaxAttempts[j]
                         /\ RecoveredJob(j).state = "QUEUED" => RecoveredJob(j).attempts < MaxAttempts[j]
      BY <2>1 DEF AttemptsWithinBudget
    <3>. QED
      BY <1>0, QueueRows DEF AttemptsWithinBudget, RecoveredJob, RequeueOrFail, JobRows
  <2>. QED
    BY <1>0, <2>2, <2>3, <2>4, <2>5 DEF QueueInv
<1>4. ASSUME NEW s \in Supervisors, NEW j \in QueueJobs, ClaimJob(s, j)
      PROVE  QueueInv'
  <2>. DEFINE r == [queued[j] EXCEPT !.state = "RUNNING", !.attempts = @ + 1, !.owner = {WorkerId[s]}]
  <2>1. queued[j] \in JobRows /\ queued[j].attempts \in Nat
    BY QueueRows, <1>0
  <2>2. queued' = [queued EXCEPT ![j] = r]
    BY <1>4, <1>0, <2>1 DEF ClaimJob, LeaseTypeOK, JobRows
  <2>3. r \in JobRows /\ r.state = "RUNNING" /\ r.attempts = queued[j].attempts + 1
    <3>1. {WorkerId[s]} \in SUBSET {WorkerId[t] : t \in Supervisors}
      OBVIOUS
    <3>2. queued[j].attempts + 1 \in Nat
      BY <2>1
    <3>3. r \in JobRows
      BY <2>1, <3>1, <3>2 DEF JobRows, Finished
    <3>4. r.state = "RUNNING" /\ r.attempts = queued[j].attempts + 1
      BY <2>1 DEF JobRows
    <3>. QED
      BY <3>3, <3>4
  <2>4. r.attempts <= MaxAttempts[j]
    BY <1>4, <1>0, <2>1, <2>3 DEF ClaimJob, First, AttemptsWithinBudget
  <2>5. [job |-> j, attempt |-> queued[j].attempts + 1] \in Executions
    BY <2>1 DEF Executions
  <2>6. super' \in [Supervisors -> [pc : {"idle", "claiming", "running"}, batch : SUBSET Executions]]
    BY <1>4, <1>0, <2>5 DEF ClaimJob
  <2>. QED
    BY <1>R, <2>2, <2>3, <2>4, <2>6, <1>4, <1>0 DEF ClaimJob
<1>5. ASSUME NEW s \in Supervisors, StopClaiming(s)
      PROVE  QueueInv'
  BY <1>0, <1>5, <1>Q DEF StopClaiming
<1>6. ASSUME NEW s \in Supervisors, NEW x \in super[s].batch, FinishRefused(s, x)
      PROVE  QueueInv'
  BY <1>0, <1>6, <1>Q DEF FinishRefused
<1>7. ASSUME NEW s \in Supervisors, NEW x \in super[s].batch, NEW v \in Finished, FinishJob(s, x, v)
      PROVE  QueueInv'
  <2>1. x \in Executions /\ x.job \in QueueJobs /\ x.attempt \in Nat
    BY <1>0 DEF Executions
  <2>. DEFINE q == queued[x.job]
              r == [q EXCEPT !.state = IF v = "ERROR" THEN RequeueOrFail(q, MaxAttempts[x.job]) ELSE v,
                             !.owner = Nobody, !.result = x.attempt]
  <2>2. q \in JobRows /\ q.attempts \in Nat /\ MaxAttempts[x.job] \in Nat
    BY <2>1, QueueRows, <1>0
  <2>3. queued' = [queued EXCEPT ![x.job] = r]
    BY <1>7 DEF FinishJob
  <2>4. r \in JobRows /\ r.attempts = q.attempts
    BY <2>1, <2>2 DEF JobRows, Nobody, Finished, RequeueOrFail
  <2>5. r.state # "ABSENT" /\ (r.state = "QUEUED" => r.attempts < MaxAttempts[x.job])
    BY <2>2 DEF JobRows, Finished, RequeueOrFail
  <2>6. r.attempts <= MaxAttempts[x.job]
    BY <2>1, <2>4, <1>0 DEF AttemptsWithinBudget
  <2>7. super' \in [Supervisors -> [pc : {"idle", "claiming", "running"}, batch : SUBSET Executions]]
    BY <1>7, <1>0 DEF FinishJob
  <2>8. overdue' \subseteq QueueJobs
    BY <1>7, <1>0 DEF FinishJob
  <2>. HIDE DEF r, q
  <2>. QED
    BY <1>R, <2>1, <2>3, <2>4, <2>5, <2>6, <2>7, <2>8
<1>8. ASSUME NEW s \in Supervisors, SupervisorDies(s)
      PROVE  QueueInv'
  BY <1>0, <1>8, <1>Q DEF SupervisorDies
<1>9. ASSUME NEW s \in Supervisors, NEW x \in super[s].batch, Heartbeat(s, x)
      PROVE  QueueInv'
  BY <1>0, <1>9, <1>Q DEF Heartbeat
<1>10. CASE UNCHANGED queueVars
  BY <1>0, <1>10, <1>Q DEF queueVars
<1>. QED
  BY <1>1, <1>2, <1>3, <1>4, <1>5, <1>6, <1>7, <1>8, <1>9, <1>10 DEF LeaseNext, SupervisorStep

LEMMA AttemptStart == LeaseInit => AttemptInv
BY DEF LeaseInit, AttemptInv, IdleIsEmpty, ClaimedAreLeased, LeaseIsOfAttempt, ResultOfLastAttempt

\* Steps that leave the table alone, and take nothing new in hand.
LEMMA QuietAttempt ==
  ASSUME AttemptInv, UNCHANGED queued,
         \A s \in Supervisors :
           /\ super'[s].batch \subseteq super[s].batch
           /\ super'[s].pc = "idle" => super'[s].batch = {}
           /\ super'[s].pc = "claiming" => super'[s].batch = {} \/ super[s].pc = "claiming",
         \A s \in Supervisors : super[s].pc = "claiming" =>
           \A x \in super[s].batch : x.job \in overdue' => x.job \in overdue
  PROVE  AttemptInv'
BY DEF AttemptInv, IdleIsEmpty, ClaimedAreLeased, LeaseIsOfAttempt, ResultOfLastAttempt, LeasedBy

LEMMA AttemptStep ==
  ASSUME DistinctWorkerIds, QueueInv, AttemptInv, [LeaseNext]_queueVars
  PROVE  AttemptInv'
<1>0. /\ LeaseTypeOK
      /\ queued \in [QueueJobs -> JobRows]
      /\ super \in [Supervisors -> [pc : {"idle", "claiming", "running"}, batch : SUBSET Executions]]
  BY DEF QueueInv, LeaseTypeOK
<1>I. /\ IdleIsEmpty /\ ClaimedAreLeased /\ LeaseIsOfAttempt /\ ResultOfLastAttempt
  BY DEF AttemptInv
<1>E. \A s \in Supervisors : \A x \in super[s].batch : x.job \in QueueJobs /\ x.attempt \in Nat
  BY <1>0 DEF Executions
<1>1. ASSUME NEW j \in QueueJobs, SubmitJob(j)
      PROVE  AttemptInv'
  <2>1. /\ queued'[j].state = "QUEUED" /\ queued'[j].result = queued[j].result
        /\ queued'[j].attempts = queued[j].attempts
        /\ \A i \in QueueJobs \ {j} : queued'[i] = queued[i]
        /\ overdue' = overdue /\ super' = super
    BY <1>0, <1>1 DEF SubmitJob, JobRows
  <2>2. \A s \in Supervisors, i \in QueueJobs : LeasedBy(s, i)' <=> LeasedBy(s, i)
    BY <1>1, <2>1 DEF LeasedBy, SubmitJob
  <2>3. ClaimedAreLeased' /\ LeaseIsOfAttempt' /\ IdleIsEmpty'
    BY <1>I, <1>E, <2>1, <2>2 DEF ClaimedAreLeased, LeaseIsOfAttempt, IdleIsEmpty, LeasedBy
  <2>4. ResultOfLastAttempt'
    BY <1>I, <1>1, <2>1 DEF ResultOfLastAttempt, SubmitJob
  <2>. QED
    BY <2>3, <2>4 DEF AttemptInv
<1>2. ASSUME NEW j \in QueueJobs, LeaseLapses(j)
      PROVE  AttemptInv'
  BY <1>2, <1>I, QuietAttempt DEF LeaseLapses, IdleIsEmpty
<1>3. ASSUME NEW s \in Supervisors, StartBatch(s)
      PROVE  AttemptInv'
  <2>1. /\ \A j \in QueueJobs : queued'[j] = RecoveredJob(j)
        /\ super'[s].pc = "claiming" /\ super'[s].batch = {}
        /\ \A t \in Supervisors \ {s} : super'[t] = super[t]
        /\ overdue' \subseteq overdue
    BY <1>3, <1>0, <1>I DEF StartBatch, IdleIsEmpty
  <2>2. ASSUME NEW j \in QueueJobs
        PROVE  \/ queued'[j] = queued[j] /\ ~(queued[j].state = "RUNNING" /\ j \in overdue)
               \/ /\ queued[j].state = "RUNNING" /\ j \in overdue
                  /\ queued'[j].state \in {"QUEUED", "ERROR"} /\ queued'[j].result = 0
    <3>1. queued[j] \in JobRows /\ RequeueOrFail(queued[j], MaxAttempts[j]) \in {"QUEUED", "ERROR"}
      BY <1>0 DEF RequeueOrFail
    <3>. QED
      BY <2>1, <3>1 DEF RecoveredJob, JobRows
  <2>3. ResultOfLastAttempt'
    BY <1>I, <2>2 DEF ResultOfLastAttempt
  <2>4. ClaimedAreLeased'
    BY <1>I, <1>E, <2>1, <2>2 DEF ClaimedAreLeased, LeasedBy
  <2>5. LeaseIsOfAttempt' /\ IdleIsEmpty'
    BY <1>I, <1>E, <2>1, <2>2 DEF LeaseIsOfAttempt, LeasedBy, IdleIsEmpty
  <2>. QED
    BY <2>3, <2>4, <2>5 DEF AttemptInv
<1>4. ASSUME NEW s \in Supervisors, NEW j \in QueueJobs, ClaimJob(s, j)
      PROVE  AttemptInv'
  <2>. DEFINE x0 == [job |-> j, attempt |-> queued[j].attempts + 1]
  <2>1. /\ queued[j].state = "QUEUED" /\ super[s].pc = "claiming"
        /\ queued'[j].state = "RUNNING" /\ queued'[j].owner = {WorkerId[s]}
        /\ queued'[j].attempts = queued[j].attempts + 1
        /\ \A i \in QueueJobs \ {j} : queued'[i] = queued[i]
    BY <1>0, <1>4 DEF ClaimJob, First, JobRows
  <2>2. /\ super'[s].pc = "claiming" /\ super'[s].batch = super[s].batch \union {x0}
        /\ \A t \in Supervisors \ {s} : super'[t] = super[t]
        /\ overdue' = overdue \ {j}
    BY <1>0, <1>4 DEF ClaimJob
  <2>3. \A t \in Supervisors \ {s} : WorkerId[t] # WorkerId[s]
    BY DEF DistinctWorkerIds
  <2>4. \A x \in super[s].batch : x.job # j
    BY <1>I, <2>1 DEF ClaimedAreLeased, LeasedBy
  <2>5. ResultOfLastAttempt'
    BY <1>I, <2>1 DEF ResultOfLastAttempt
  <2>6. ClaimedAreLeased'
    <3>. SUFFICES ASSUME NEW t \in Supervisors, super'[t].pc = "claiming", NEW x \in super'[t].batch
                  PROVE  LeasedBy(t, x.job)' /\ x.attempt = queued'[x.job].attempts /\ x.job \notin overdue'
      BY DEF ClaimedAreLeased
    <3>1. CASE t = s /\ x = x0
      BY <3>1, <2>1, <2>2 DEF LeasedBy
    <3>2. CASE x \in super[t].batch
      <4>1. LeasedBy(t, x.job) /\ x.attempt = queued[x.job].attempts /\ x.job \notin overdue
        BY <3>2, <1>I, <2>1, <2>2 DEF ClaimedAreLeased
      <4>2. x.job # j /\ x.job \in QueueJobs
        BY <4>1, <3>2, <2>1, <1>E DEF LeasedBy
      <4>. QED
        BY <4>1, <4>2, <2>1, <2>2 DEF LeasedBy
    <3>. QED
      BY <3>1, <3>2, <2>2
  <2>7. LeaseIsOfAttempt'
    <3>. SUFFICES ASSUME NEW t \in Supervisors, NEW x \in super'[t].batch, LeasedBy(t, x.job)'
                  PROVE  x.attempt = queued'[x.job].attempts
      BY DEF LeaseIsOfAttempt
    <3>1. CASE t = s /\ x = x0
      BY <3>1, <2>1
    <3>2. CASE x \in super[t].batch /\ x.job = j
      <4>1. t = s
        BY <3>2, <2>1, <2>3 DEF LeasedBy
      <4>. QED
        BY <4>1, <3>2, <2>4
    <3>3. CASE x \in super[t].batch /\ x.job # j
      BY <3>3, <1>I, <1>E, <2>1 DEF LeaseIsOfAttempt, LeasedBy
    <3>. QED
      BY <3>1, <3>2, <3>3, <2>2
  <2>8. IdleIsEmpty'
    BY <1>I, <2>2 DEF IdleIsEmpty
  <2>. QED
    BY <2>5, <2>6, <2>7, <2>8 DEF AttemptInv
<1>5. ASSUME NEW s \in Supervisors, StopClaiming(s)
      PROVE  AttemptInv'
  <2>1. /\ super'[s].batch = super[s].batch /\ super'[s].pc # "claiming"
        /\ super'[s].pc = "idle" => super[s].batch = {}
        /\ \A t \in Supervisors \ {s} : super'[t] = super[t]
    BY <1>0, <1>5 DEF StopClaiming
  <2>. QED
    BY <1>5, <1>I, <2>1, QuietAttempt DEF StopClaiming, IdleIsEmpty
<1>7. ASSUME NEW s \in Supervisors, NEW x \in super[s].batch, NEW v \in Finished, FinishJob(s, x, v)
      PROVE  AttemptInv'
  <2>. DEFINE j == x.job
  <2>1. /\ j \in QueueJobs /\ LeasedBy(s, j) /\ super[s].pc = "running"
        /\ queued'[j].state # "RUNNING" /\ queued'[j].result = x.attempt
        /\ queued'[j].attempts = queued[j].attempts
        /\ \A i \in QueueJobs \ {j} : queued'[i] = queued[i]
    BY <1>0, <1>7, <1>E DEF FinishJob, JobRows, RequeueOrFail, Finished
  <2>2. /\ super'[s].batch = super[s].batch \ {x} /\ super'[s].pc # "claiming"
        /\ super'[s].pc = "idle" => super'[s].batch = {}
        /\ \A t \in Supervisors \ {s} : super'[t] = super[t]
        /\ overdue' \subseteq overdue
    BY <1>0, <1>7 DEF FinishJob
  <2>3. ResultOfLastAttempt'
    <3>1. x.attempt = queued[j].attempts
      BY <1>I, <2>1 DEF LeaseIsOfAttempt
    <3>. QED
      BY <3>1, <1>I, <2>1 DEF ResultOfLastAttempt
  <2>4. ASSUME NEW t \in Supervisors \ {s}, NEW y \in super[t].batch, LeasedBy(t, y.job)
        PROVE  y.job # j
    BY <2>1, <2>4 DEF LeasedBy, DistinctWorkerIds
  <2>5. ClaimedAreLeased'
    <3>. SUFFICES ASSUME NEW t \in Supervisors, super'[t].pc = "claiming", NEW y \in super'[t].batch
                  PROVE  LeasedBy(t, y.job)' /\ y.attempt = queued'[y.job].attempts /\ y.job \notin overdue'
      BY DEF ClaimedAreLeased
    <3>1. t # s /\ super[t].pc = "claiming" /\ y \in super[t].batch
      BY <2>2
    <3>2. LeasedBy(t, y.job) /\ y.attempt = queued[y.job].attempts /\ y.job \notin overdue
      BY <3>1, <1>I DEF ClaimedAreLeased
    <3>3. y.job # j /\ y.job \in QueueJobs
      BY <3>1, <3>2, <2>4, <1>E
    <3>. QED
      BY <3>2, <3>3, <2>1, <2>2 DEF LeasedBy
  <2>6. LeaseIsOfAttempt'
    <3>1. \A t \in Supervisors : \A y \in super'[t].batch : y \in super[t].batch
      BY <2>2
    <3>. QED
      BY <1>I, <1>E, <2>1, <3>1 DEF LeaseIsOfAttempt, LeasedBy
  <2>7. IdleIsEmpty'
    BY <1>I, <2>2 DEF IdleIsEmpty
  <2>. QED
    BY <2>3, <2>5, <2>6, <2>7 DEF AttemptInv
<1>8. ASSUME NEW s \in Supervisors, super' = [super EXCEPT ![s] = [pc |-> "idle", batch |-> {}]],
             UNCHANGED <<queued, overdue>>
      PROVE  AttemptInv'
  <2>1. /\ super'[s].batch = {} /\ super'[s].pc = "idle"
        /\ \A t \in Supervisors \ {s} : super'[t] = super[t]
    BY <1>0, <1>8
  <2>. QED
    BY <1>8, <1>I, <2>1, QuietAttempt DEF IdleIsEmpty
<1>9. ASSUME NEW s \in Supervisors, NEW x \in super[s].batch, Heartbeat(s, x)
      PROVE  AttemptInv'
  BY <1>9, <1>I, QuietAttempt DEF Heartbeat, IdleIsEmpty
<1>10. CASE UNCHANGED queueVars
  BY <1>10, <1>I, QuietAttempt DEF queueVars, IdleIsEmpty
<1>. QED
  BY <1>1, <1>2, <1>3, <1>4, <1>5, <1>7, <1>8, <1>9, <1>10
  DEF LeaseNext, SupervisorStep, FinishRefused, SupervisorDies

\* A job is never tried more often than its max_attempts, and one in the queue
\* has an attempt left, for any jobs, budgets and supervisors (supervisor.py,
\* recover_expired, claim_next and finish).
THEOREM BudgetIsKept == LeaseSpec => []AttemptsWithinBudget
<1>1. LeaseInit => QueueInv
  BY QueueInit
<1>2. QueueInv /\ [LeaseNext]_queueVars => QueueInv'
  BY QueueStep
<1>3. QueueInv => AttemptsWithinBudget
  BY DEF QueueInv
<1>. QED
  BY <1>1, <1>2, <1>3, PTL DEF LeaseSpec

\* A closed or requeued job carries the result of its last attempt, when worker
\* ids tell supervisors apart: finish() compares the worker id alone, and that
\* is enough because a lease outlasts the claim loop (supervisor.py, finish).
THEOREM LastAttemptCounts ==
  ASSUME DistinctWorkerIds
  PROVE  LeaseSpec => []ResultOfLastAttempt
<1>1. LeaseInit => QueueInv /\ AttemptInv
  BY QueueInit, AttemptStart
<1>2. QueueInv /\ AttemptInv /\ [LeaseNext]_queueVars => QueueInv' /\ AttemptInv'
  BY QueueStep, AttemptStep
<1>3. AttemptInv => ResultOfLastAttempt
  BY DEF AttemptInv
<1>. QED
  BY <1>1, <1>2, <1>3, PTL DEF LeaseSpec

-------------------------------------------------------------------------------
(* Jobs for an outbound worker.                                             *)

\* The worker's nonce file forgets nothing while it holds at most its cap.
NoncesFit == IsFiniteSet(DeviceJobs) /\ Cardinality(DeviceJobs) <= NonceCap

HeldIsAJob == device.pc # "idle" => device.job \in DeviceJobs
RanIsNoted == \A j \in DeviceJobs : executions[j] > 0 => j \in nonces
NotedBeforeRun == device.pc = "remembered" => device.job \in nonces /\ executions[device.job] = 0
SentHasRun ==
  /\ device.pc \in {"ran", "posted"} => executions[device.job] > 0
  /\ \A j \in transit : executions[j] > 0

QueuedOnce == \A i, k \in DOMAIN outbox : outbox[i] = outbox[k] => i = k
QueuedWasMade == \A i \in DOMAIN outbox : made[outbox[i]] # "none"
AcceptedWasMade == \A j \in accepted : made[j] # "none"

\* What holds of the queue and the device whatever the nonce file forgets.
DeviceShape ==
  OutboundTypeOK /\ IsFiniteSet(nonces) /\ HeldIsAJob /\ QueuedOnce /\ QueuedWasMade

DeviceInv ==
  /\ DeviceShape
  /\ RanIsNoted /\ NotedBeforeRun /\ ExecutedAtMostOnce /\ SentHasRun
  /\ AcceptedWasMade /\ AcceptedIsClosed

LEMMA GreatestKeepsAll ==
  ASSUME NoncesFit, NEW s \in SUBSET DeviceJobs
  PROVE  Greatest(s) = s /\ Cardinality(s) <= NonceCap
<1>1. IsFiniteSet(s) /\ Cardinality(s) <= NonceCap /\ Cardinality(s) \in Nat
  <2>1. IsFiniteSet(DeviceJobs) /\ Cardinality(DeviceJobs) <= NonceCap
    BY DEF NoncesFit
  <2>2. IsFiniteSet(s) /\ Cardinality(s) <= Cardinality(DeviceJobs)
    BY <2>1, FS_Subset
  <2>3. Cardinality(s) \in Nat /\ Cardinality(DeviceJobs) \in Nat /\ NonceCap \in Nat
    BY <2>1, <2>2, FS_CardinalityType, OutboundAssumption
  <2>. QED
    BY <2>1, <2>2, <2>3
<1>2. ASSUME NEW n \in s
      PROVE  Cardinality({m \in s : m > n}) < NonceCap
  <2>. DEFINE above == {m \in s : m > n}
  <2>1. above \subseteq s /\ above # s
    BY OutboundAssumption
  <2>. HIDE DEF above
  <2>2. IsFiniteSet(above) /\ Cardinality(above) <= Cardinality(s)
        /\ (Cardinality(s) = Cardinality(above) => above = s)
    BY <1>1, <2>1, FS_Subset
  <2>3. Cardinality(above) \in Nat
    BY <2>2, FS_CardinalityType
  <2>. QED
    BY <1>1, <2>1, <2>2, <2>3, OutboundAssumption DEF above
<1>. QED
  BY <1>1, <1>2 DEF Greatest

\* The position SelectInSeq finds.
\* The file keeps its cap whatever is stored: above the least of the nonces that
\* stay there are fewer than NonceCap others.
LEMMA GreatestIsBounded ==
  ASSUME NEW s \in SUBSET DeviceJobs, IsFiniteSet(s)
  PROVE  IsFiniteSet(Greatest(s)) /\ Cardinality(Greatest(s)) <= NonceCap
<1>1. Greatest(s) \subseteq s /\ s \subseteq Nat /\ NonceCap \in Nat \ {0}
  BY OutboundAssumption DEF Greatest
<1>2. IsFiniteSet(Greatest(s))
  BY <1>1, FS_Subset
<1>3. CASE Greatest(s) = {}
  BY <1>1, <1>2, <1>3, FS_EmptySet
<1>4. CASE Greatest(s) # {}
  <2>1. PICK n \in Greatest(s) : \A m \in Greatest(s) : n <= m
    <3>1. Greatest(s) \in SUBSET Nat
      BY <1>1
    <3>. QED
      BY <1>4, <3>1, LeastElement
  <2>. DEFINE above == {m \in s : m > n}
  <2>2. Cardinality(above) < NonceCap /\ IsFiniteSet(above) /\ n \notin above
    BY <1>1, <2>1, FS_Subset DEF Greatest
  <2>3. ASSUME NEW m \in Greatest(s)
        PROVE  m \in above \union {n}
    <3>1. m \in s /\ m \in Nat /\ n \in Nat /\ n <= m
      BY <1>1, <2>1
    <3>2. m = n \/ m > n
      BY <3>1
    <3>. QED
      BY <3>1, <3>2
  <2>. HIDE DEF above
  <2>4. IsFiniteSet(above \union {n}) /\ Cardinality(above \union {n}) = Cardinality(above) + 1
    BY <2>2, FS_AddElement
  <2>5. Cardinality(Greatest(s)) <= Cardinality(above \union {n})
    BY <2>3, <2>4, FS_Subset
  <2>6. Cardinality(above) \in Nat /\ Cardinality(Greatest(s)) \in Nat
    BY <1>2, <2>2, FS_CardinalityType
  <2>. QED
    BY <1>1, <1>2, <2>2, <2>4, <2>5, <2>6
<1>. QED
  BY <1>3, <1>4

LEMMA FirstPosition ==
  ASSUME NEW I, I \subseteq Nat, I # {}
  PROVE  Min(I) \in I /\ \A i \in I : Min(I) <= i
BY LeastElement DEF Min

\* next_job drops a prefix of the queue.
LEMMA DropsAPrefix ==
  ASSUME outbox \in Seq(DeviceJobs)
  PROVE  \E k \in 1..(Len(outbox) + 1) : DropLapsedHead = SubSeq(outbox, k, Len(outbox))
<1>1. CASE \E i \in DOMAIN outbox : outbox[i] \notin pastTtl
  <2>. DEFINE I == {i \in 1..Len(outbox) : outbox[i] \notin pastTtl}
  <2>1. I # {} /\ I \subseteq Nat
    BY <1>1
  <2>2. DropLapsedHead = SubSeq(outbox, Min(I), Len(outbox))
    BY <1>1, <2>1 DEF DropLapsedHead, SelectInSeq
  <2>3. Min(I) \in I
    BY <2>1, FirstPosition
  <2>4. PICK k \in 1..Len(outbox) : k = Min(I)
    BY <2>3
  <2>. QED
    <3>1. Len(outbox) \in Nat /\ k \in 1..(Len(outbox) + 1)
      OBVIOUS
    <3>. HIDE DEF I
    <3>2. DropLapsedHead = SubSeq(outbox, k, Len(outbox))
      BY <2>2, <2>4
    <3>. QED
      BY <3>1, <3>2
<1>2. CASE ~\E i \in DOMAIN outbox : outbox[i] \notin pastTtl
  <2>1. <<>> = SubSeq(outbox, Len(outbox) + 1, Len(outbox))
    OBVIOUS
  <2>. QED
    BY <1>2, <2>1 DEF DropLapsedHead
<1>. QED
  BY <1>1, <1>2

\* What is left of the queue after a step: nothing new, and nothing twice.
LEMMA SuffixOfQueue ==
  ASSUME NEW q \in Seq(DeviceJobs), \A i, k \in DOMAIN q : q[i] = q[k] => i = k,
         NEW n \in 1..(Len(q) + 1), NEW r, r = SubSeq(q, n, Len(q))
  PROVE  /\ r \in Seq(DeviceJobs)
         /\ \A i, k \in DOMAIN r : r[i] = r[k] => i = k
         /\ \A i \in DOMAIN r : \E k \in DOMAIN q : r[i] = q[k]
<1>1. r \in Seq(DeviceJobs) /\ Len(r) = Len(q) - n + 1
  OBVIOUS
<1>2. \A i \in DOMAIN r : r[i] = q[n + i - 1] /\ n + i - 1 \in DOMAIN q
  BY <1>1
<1>. QED
  BY <1>1, <1>2

LEMMA RemovedFromQueue ==
  ASSUME NEW q \in Seq(DeviceJobs), \A i, k \in DOMAIN q : q[i] = q[k] => i = k,
         NEW j \in DeviceJobs, Contains(q, j), NEW r, r = RemoveFirst(q, j)
  PROVE  /\ r \in Seq(DeviceJobs)
         /\ \A i, k \in DOMAIN r : r[i] = r[k] => i = k
         /\ \A i \in DOMAIN r : r[i] # j /\ \E k \in DOMAIN q : r[i] = q[k]
<1>. DEFINE I == {i \in 1..Len(q) : q[i] = j}
            n == Min(I)
<1>1. I # {} /\ I \subseteq Nat
  BY DEF Contains
<1>2. n \in 1..Len(q) /\ q[n] = j
  BY <1>1, FirstPosition
<1>3. SelectInSeq(q, LAMBDA v : v = j) = n
  BY <1>1 DEF SelectInSeq
<1>4. r = SubSeq(q, 1, n - 1) \o SubSeq(q, n + 1, Len(q))
  BY <1>3 DEF RemoveFirst, RemoveAt, Contains
<1>. HIDE DEF n
<1>0. n \in Nat /\ Len(q) \in Nat /\ 1 <= n /\ n <= Len(q)
  BY <1>2
<1>5. /\ SubSeq(q, 1, n - 1) \in Seq(DeviceJobs) /\ SubSeq(q, n + 1, Len(q)) \in Seq(DeviceJobs)
      /\ Len(SubSeq(q, 1, n - 1)) = n - 1 /\ Len(SubSeq(q, n + 1, Len(q))) = Len(q) - n
  BY <1>2
<1>6. PICK a, b \in Seq(DeviceJobs) :
        /\ a = SubSeq(q, 1, n - 1) /\ b = SubSeq(q, n + 1, Len(q)) /\ r = a \o b
        /\ Len(a) = n - 1 /\ Len(b) = Len(q) - n
  BY <1>4, <1>5
<1>7. /\ r \in Seq(DeviceJobs) /\ Len(r) = Len(q) - 1
      /\ \A i \in 1..Len(r) : r[i] = IF i <= Len(a) THEN a[i] ELSE b[i - Len(a)]
  <2>1. /\ a \o b \in Seq(DeviceJobs) /\ Len(a \o b) = Len(a) + Len(b)
        /\ \A i \in 1..(Len(a) + Len(b)) : (a \o b)[i] = IF i <= Len(a) THEN a[i] ELSE b[i - Len(a)]
    BY ConcatProperties
  <2>2. Len(a) + Len(b) = Len(q) - 1
    <3>1. Len(a) = n - 1 /\ Len(b) = Len(q) - n
      BY <1>6
    <3>. QED
      BY <1>0, <3>1
  <2>. QED
    BY <1>6, <2>1, <2>2
<1>8. /\ \A i \in 1..(n - 1) : a[i] = q[i]
      /\ \A i \in 1..(Len(q) - n) : b[i] = q[n + i]
  BY <1>2, <1>6
<1>9. \A i \in 1..Len(r) : r[i] = q[IF i < n THEN i ELSE i + 1]
  <2>. TAKE i \in 1..Len(r)
  <2>1. CASE i < n
    <3>1. i <= Len(a) /\ i \in 1..(n - 1)
      BY <1>2, <1>6, <2>1
    <3>. QED
      BY <1>7, <1>8, <2>1, <3>1
  <2>2. CASE ~(i < n)
    <3>1. /\ ~(i <= Len(a)) /\ i - Len(a) = i - (n - 1)
          /\ i - (n - 1) \in 1..(Len(q) - n) /\ n + (i - (n - 1)) = i + 1
      <4>1. i \in Nat /\ 1 <= i /\ i <= Len(q) - 1 /\ n <= i
        BY <1>0, <1>7, <2>2
      <4>2. Len(a) = n - 1
        BY <1>6
      <4>. QED
        BY <1>0, <4>1, <4>2
    <3>2. r[i] = b[i - (n - 1)]
      BY <1>7, <3>1
    <3>3. b[i - (n - 1)] = q[n + (i - (n - 1))]
      BY <1>8, <3>1
    <3>. QED
      BY <3>1, <3>2, <3>3, <2>2
  <2>. QED
    BY <2>1, <2>2
<1>. DEFINE from(i) == IF i < n THEN i ELSE i + 1
<1>10. \A i \in DOMAIN r : from(i) \in DOMAIN q /\ from(i) # n
  BY <1>2, <1>7
<1>11. \A i, k \in DOMAIN r : from(i) = from(k) => i = k
  BY <1>2, <1>7
<1>12. \A i \in DOMAIN r : r[i] = q[from(i)]
  <2>1. DOMAIN r = 1..Len(r)
    BY <1>7
  <2>. QED
    BY <1>9, <2>1
<1>. HIDE DEF from
<1>13. \A i \in DOMAIN r : r[i] # j
  BY <1>2, <1>10, <1>12
<1>14. ASSUME NEW i \in DOMAIN r, NEW k \in DOMAIN r, r[i] = r[k]
       PROVE  i = k
  BY <1>10, <1>11, <1>12, <1>14
<1>. QED
  BY <1>7, <1>10, <1>12, <1>13, <1>14

LEMMA DeviceStart == OutboundInit => DeviceInv
<1>. SUFFICES ASSUME OutboundInit PROVE DeviceInv
  OBVIOUS
<1>1. nonces = {} /\ Cardinality(nonces) = 0 /\ IsFiniteSet(nonces) /\ NonceCap \in Nat
  BY FS_EmptySet, OutboundAssumption DEF OutboundInit
<1>2. OutboundTypeOK
  BY <1>1 DEF OutboundInit, OutboundTypeOK
<1>. QED
  BY <1>1, <1>2 DEF OutboundInit, DeviceShape, DeviceInv, HeldIsAJob, RanIsNoted, NotedBeforeRun,
     ExecutedAtMostOnce, SentHasRun, QueuedOnce, QueuedWasMade, AcceptedWasMade, AcceptedIsClosed

Devices == [commit : Commits, pc : {"idle", "fetched", "remembered", "ran", "posted"},
            job : DeviceJobs \union {0}]

\* What the type invariant says of the device and the queue, for the steps below.
LEMMA DeviceColumns ==
  ASSUME DeviceShape
  PROVE  /\ outbox \in Seq(DeviceJobs) /\ made \in [DeviceJobs -> Commits \union {"none"}]
         /\ pastTtl \subseteq DeviceJobs /\ accepted \subseteq DeviceJobs /\ transit \subseteq DeviceJobs
         /\ nonces \subseteq DeviceJobs /\ Cardinality(nonces) <= NonceCap /\ IsFiniteSet(nonces)
         /\ executions \in [DeviceJobs -> Nat]
         /\ registered \in Commits \union {"none"}
         /\ device \in Devices /\ (device.pc # "idle" => device.job \in DeviceJobs)
         /\ \A i \in DOMAIN outbox : outbox[i] \in DeviceJobs
BY DEF DeviceShape, OutboundTypeOK, HeldIsAJob, Devices

\* Enqueue puts a job at the end that was not in the queue.
LEMMA EnqueuedLast ==
  ASSUME DeviceShape, NEW j \in DeviceJobs, Enqueue(j)
  PROVE  /\ outbox' \in Seq(DeviceJobs) /\ QueuedOnce' /\ QueuedWasMade'
         /\ \A i : Contains(outbox', i) => i = j \/ Contains(outbox, i)
<1>0. outbox \in Seq(DeviceJobs) /\ \A i \in DOMAIN outbox : outbox[i] \in DeviceJobs
  BY DeviceColumns
<1>1. /\ outbox' = Append(outbox, j) /\ made'[j] = registered /\ registered # "none" /\ made[j] = "none"
      /\ \A i \in DeviceJobs \ {j} : made'[i] = made[i]
  BY DeviceColumns DEF Enqueue
<1>2. /\ outbox' \in Seq(DeviceJobs) /\ Len(outbox') = Len(outbox) + 1
      /\ outbox'[Len(outbox) + 1] = j
      /\ \A i \in 1..Len(outbox) : outbox'[i] = outbox[i] /\ outbox[i] \in DeviceJobs
  BY <1>0, <1>1
<1>3. \A i \in 1..Len(outbox) : outbox[i] # j
  BY <1>0, <1>1 DEF DeviceShape, QueuedWasMade
<1>4. \A i \in DOMAIN outbox' : i \in 1..Len(outbox) \/ i = Len(outbox) + 1
  <2>1. Len(outbox) \in Nat /\ DOMAIN outbox' = 1..(Len(outbox) + 1)
    BY <1>0, <1>2
  <2>. QED
    BY <2>1
<1>5. QueuedOnce'
  <2>. SUFFICES ASSUME NEW i \in DOMAIN outbox', NEW k \in DOMAIN outbox', outbox'[i] = outbox'[k]
                PROVE  i = k
    BY DEF QueuedOnce
  <2>1. CASE i = Len(outbox) + 1 \/ k = Len(outbox) + 1
    BY <1>2, <1>3, <1>4, <2>1
  <2>2. CASE i \in 1..Len(outbox) /\ k \in 1..Len(outbox)
    <3>1. outbox[i] = outbox[k]
      BY <1>2, <2>2
    <3>. QED
      BY <2>2, <3>1 DEF DeviceShape, QueuedOnce
  <2>. QED
    BY <1>4, <2>1, <2>2
<1>6. QueuedWasMade'
  <2>. SUFFICES ASSUME NEW i \in DOMAIN outbox'
                PROVE  made'[outbox'[i]] # "none"
    BY DEF QueuedWasMade
  <2>1. CASE i = Len(outbox) + 1
    BY <1>1, <1>2, <2>1
  <2>2. CASE i \in 1..Len(outbox)
    BY <1>0, <1>1, <1>2, <1>3, <2>2 DEF DeviceShape, QueuedWasMade
  <2>. QED
    BY <1>4, <2>1, <2>2
<1>7. ASSUME NEW i, Contains(outbox', i), i # j
      PROVE  Contains(outbox, i)
  <2>1. PICK k \in DOMAIN outbox' : outbox'[k] = i
    BY <1>2, <1>7 DEF Contains
  <2>. QED
    BY <1>2, <1>4, <1>7, <2>1 DEF Contains
<1>. QED
  BY <1>2, <1>5, <1>6, <1>7

\* AcceptResult takes the job out of the queue or leaves the queue alone.
LEMMA AcceptedLeaves ==
  ASSUME DeviceShape, NEW j \in DeviceJobs, AcceptResult(j)
  PROVE  /\ outbox' \in Seq(DeviceJobs) /\ QueuedOnce' /\ QueuedWasMade'
         /\ \A i : Contains(outbox', i) => Contains(outbox, i)
         /\ accepted' # accepted => ~Contains(outbox', j) /\ made[j] # "none" /\ accepted' = accepted \union {j}
<1>0. outbox \in Seq(DeviceJobs) /\ UNCHANGED made /\ QueuedOnce /\ QueuedWasMade
  BY DeviceColumns DEF AcceptResult, DeviceShape
<1>1. CASE Contains(outbox, j) /\ registered = made[j]
  <2>1. outbox' = RemoveFirst(outbox, j) /\ accepted' = accepted \union {j}
    BY <1>1 DEF AcceptResult
  <2>2. \A i, k \in DOMAIN outbox : outbox[i] = outbox[k] => i = k
    BY <1>0 DEF QueuedOnce
  <2>3. /\ outbox' \in Seq(DeviceJobs)
        /\ \A i, k \in DOMAIN outbox' : outbox'[i] = outbox'[k] => i = k
        /\ \A i \in DOMAIN outbox' : outbox'[i] # j /\ \E k \in DOMAIN outbox : outbox'[i] = outbox[k]
    BY <1>0, <1>1, <2>1, <2>2, RemovedFromQueue
  <2>4. QueuedOnce' /\ QueuedWasMade'
    BY <1>0, <2>3 DEF QueuedOnce, QueuedWasMade
  <2>5. made[j] # "none"
    BY <1>0, <1>1 DEF QueuedWasMade, Contains
  <2>6. ~Contains(outbox', j) /\ \A i : Contains(outbox', i) => Contains(outbox, i)
    BY <1>0, <2>3 DEF Contains
  <2>. QED
    BY <2>1, <2>3, <2>4, <2>5, <2>6
<1>2. CASE ~(Contains(outbox, j) /\ registered = made[j])
  <2>1. UNCHANGED <<outbox, accepted>>
    BY <1>2 DEF AcceptResult
  <2>. QED
    BY <1>0, <2>1 DEF QueuedOnce, QueuedWasMade
<1>. QED
  BY <1>1, <1>2

\* A poll drops a prefix and hands out the head.
LEMMA PolledHead ==
  ASSUME DeviceShape, NEW arrives \in BOOLEAN, Poll(arrives)
  PROVE  /\ outbox' \in Seq(DeviceJobs) /\ QueuedOnce' /\ QueuedWasMade'
         /\ \A i : Contains(outbox', i) => Contains(outbox, i)
         /\ device' \in Devices /\ device'.pc \in {"idle", "fetched"}
         /\ device'.pc = "fetched" => device'.job \in DeviceJobs
<1>0. outbox \in Seq(DeviceJobs) /\ UNCHANGED made /\ QueuedOnce /\ QueuedWasMade /\ device \in Devices
  BY DeviceColumns DEF Poll, DeviceShape
<1>1. /\ device.pc = "idle" /\ outbox' = DropLapsedHead
      /\ device' = IF arrives /\ outbox' # <<>>
                   THEN [device EXCEPT !.pc = "fetched", !.job = Head(outbox')] ELSE device
  BY DEF Poll
<1>2. PICK n \in 1..(Len(outbox) + 1) : outbox' = SubSeq(outbox, n, Len(outbox))
  BY <1>0, <1>1, DropsAPrefix
<1>3. \A i, k \in DOMAIN outbox : outbox[i] = outbox[k] => i = k
  BY <1>0 DEF QueuedOnce
<1>4. /\ outbox' \in Seq(DeviceJobs)
      /\ \A i, k \in DOMAIN outbox' : outbox'[i] = outbox'[k] => i = k
      /\ \A i \in DOMAIN outbox' : \E k \in DOMAIN outbox : outbox'[i] = outbox[k]
  <2>1. outbox \in Seq(DeviceJobs)
    BY <1>0
  <2>. DEFINE left == outbox'
  <2>2. n \in 1..(Len(outbox) + 1) /\ left = SubSeq(outbox, n, Len(outbox))
    BY <1>2
  <2>. HIDE DEF left
  <2>3. /\ left \in Seq(DeviceJobs)
        /\ \A i, k \in DOMAIN left : left[i] = left[k] => i = k
        /\ \A i \in DOMAIN left : \E k \in DOMAIN outbox : left[i] = outbox[k]
    BY <1>3, <2>1, <2>2, SuffixOfQueue
  <2>. QED
    BY <2>3 DEF left
<1>5. QueuedOnce' /\ QueuedWasMade'
  BY <1>0, <1>4 DEF QueuedOnce, QueuedWasMade
<1>6. \A i : Contains(outbox', i) => Contains(outbox, i)
  BY <1>0, <1>4 DEF Contains
<1>7. outbox' # <<>> => Head(outbox') \in DeviceJobs
  BY <1>4
<1>8. device' \in Devices /\ device'.pc \in {"idle", "fetched"}
      /\ (device'.pc = "fetched" => device'.job \in DeviceJobs)
  BY <1>0, <1>1, <1>7 DEF Devices
<1>. QED
  BY <1>4, <1>5, <1>6, <1>8


LEMMA ShapeStep == DeviceShape /\ [OutboundNext]_outboundVars => DeviceShape'
<1>. SUFFICES ASSUME DeviceShape, [OutboundNext]_outboundVars PROVE DeviceShape'
  OBVIOUS
<1>0. /\ outbox \in Seq(DeviceJobs) /\ made \in [DeviceJobs -> Commits \union {"none"}]
      /\ pastTtl \subseteq DeviceJobs /\ accepted \subseteq DeviceJobs /\ transit \subseteq DeviceJobs
      /\ nonces \subseteq DeviceJobs /\ Cardinality(nonces) <= NonceCap /\ IsFiniteSet(nonces)
      /\ executions \in [DeviceJobs -> Nat]
      /\ registered \in Commits \union {"none"}
      /\ device \in Devices /\ (device.pc # "idle" => device.job \in DeviceJobs)
  BY DeviceColumns
<1>1. ASSUME UNCHANGED controllerState, device' \in Devices,
             device'.pc # "idle" => device'.job \in DeviceJobs,
             pastTtl' \subseteq DeviceJobs, transit' \subseteq DeviceJobs, nonces' \subseteq DeviceJobs,
             IsFiniteSet(nonces'), Cardinality(nonces') <= NonceCap, executions' \in [DeviceJobs -> Nat]
      PROVE  DeviceShape'
  BY <1>0, <1>1
  DEF controllerState, DeviceShape, OutboundTypeOK, HeldIsAJob, QueuedOnce, QueuedWasMade, Devices
<1>2. ASSUME NEW c \in Commits, RegisterDevice(c)
      PROVE  DeviceShape'
  BY <1>0, <1>2
  DEF RegisterDevice, DeviceShape, OutboundTypeOK, HeldIsAJob, QueuedOnce, QueuedWasMade, Devices
<1>3. ASSUME NEW j \in DeviceJobs, Enqueue(j)
      PROVE  DeviceShape'
  <2>1. outbox' \in Seq(DeviceJobs) /\ QueuedOnce' /\ QueuedWasMade'
    BY <1>3, EnqueuedLast
  <2>2. made' \in [DeviceJobs -> Commits \union {"none"}]
    BY <1>0, <1>3 DEF Enqueue
  <2>. QED
    BY <1>0, <1>3, <2>1, <2>2 DEF Enqueue, DeviceShape, OutboundTypeOK, HeldIsAJob, Devices
<1>4. ASSUME NEW j \in DeviceJobs, AcceptResult(j)
      PROVE  DeviceShape'
  <2>1. outbox' \in Seq(DeviceJobs) /\ QueuedOnce' /\ QueuedWasMade'
    BY <1>4, AcceptedLeaves
  <2>2. accepted' \subseteq DeviceJobs /\ transit' \subseteq DeviceJobs
    BY <1>0, <1>4 DEF AcceptResult
  <2>. QED
    BY <1>0, <1>4, <2>1, <2>2 DEF AcceptResult, DeviceShape, OutboundTypeOK, HeldIsAJob, Devices
<1>5. ASSUME NEW arrives \in BOOLEAN, Poll(arrives)
      PROVE  DeviceShape'
  <2>1. /\ outbox' \in Seq(DeviceJobs) /\ QueuedOnce' /\ QueuedWasMade'
        /\ device' \in Devices /\ device'.pc \in {"idle", "fetched"}
        /\ device'.pc = "fetched" => device'.job \in DeviceJobs
    BY <1>5, PolledHead
  <2>. QED
    BY <1>0, <1>5, <2>1 DEF Poll, DeviceShape, OutboundTypeOK, HeldIsAJob, Devices
<1>6. CASE RejectJob \/ PostEnds
  <2>1. device' = [device EXCEPT !.pc = "idle", !.job = 0]
        /\ UNCHANGED <<controllerState, pastTtl, nonces, transit, executions>>
    BY <1>6 DEF RejectJob, PostEnds, Idle
  <2>2. device' \in Devices /\ device'.pc = "idle"
    BY <1>0, <2>1 DEF Devices
  <2>. QED
    BY <1>0, <1>1, <2>1, <2>2
<1>7. CASE RememberNonce
  <2>1. device.pc = "fetched" /\ device' = [device EXCEPT !.pc = "remembered"]
        /\ nonces' = Greatest(nonces \union {device.job})
        /\ UNCHANGED <<controllerState, pastTtl, transit, executions>>
    BY <1>7 DEF RememberNonce
  <2>2. nonces \union {device.job} \in SUBSET DeviceJobs /\ IsFiniteSet(nonces \union {device.job})
    BY <1>0, <2>1, FS_AddElement
  <2>3. nonces' \subseteq DeviceJobs /\ IsFiniteSet(nonces') /\ Cardinality(nonces') <= NonceCap
    <3>1. nonces' \subseteq nonces \union {device.job}
      BY <2>1 DEF Greatest
    <3>. QED
      BY <2>1, <2>2, <3>1, GreatestIsBounded
  <2>4. device' \in Devices /\ device'.job = device.job
    BY <1>0, <2>1 DEF Devices
  <2>. QED
    BY <1>0, <1>1, <2>1, <2>3, <2>4
<1>8. CASE ExecuteJob
  <2>1. device.pc = "remembered" /\ device' = [device EXCEPT !.pc = "ran"]
        /\ executions' = [executions EXCEPT ![device.job] = @ + 1]
        /\ UNCHANGED <<controllerState, pastTtl, nonces, transit>>
    BY <1>8 DEF ExecuteJob
  <2>2. executions' \in [DeviceJobs -> Nat]
    BY <1>0, <2>1
  <2>3. device' \in Devices /\ device'.job = device.job
    BY <1>0, <2>1 DEF Devices
  <2>. QED
    BY <1>0, <1>1, <2>1, <2>2, <2>3
<1>9. CASE PostResult
  <2>1. device.pc = "ran" /\ device' = [device EXCEPT !.pc = "posted"]
        /\ transit' = transit \union {device.job}
        /\ UNCHANGED <<controllerState, pastTtl, nonces, executions>>
    BY <1>9 DEF PostResult
  <2>2. device' \in Devices /\ device'.job = device.job
    BY <1>0, <2>1 DEF Devices
  <2>. QED
    BY <1>0, <1>1, <2>1, <2>2
<1>10. ASSUME NEW j \in DeviceJobs, PostLost(j) \/ JobLapses(j)
       PROVE  DeviceShape'
  <2>1. transit' \subseteq transit /\ pastTtl' \subseteq DeviceJobs
        /\ UNCHANGED <<controllerState, device, nonces, executions>>
    BY <1>0, <1>10 DEF PostLost, JobLapses
  <2>. QED
    BY <1>0, <1>1, <2>1
<1>11. ASSUME NEW c \in Commits, WorkerRestarts(c)
       PROVE  DeviceShape'
  <2>1. device' = [commit |-> c, pc |-> "idle", job |-> 0]
        /\ UNCHANGED <<controllerState, pastTtl, nonces, transit, executions>>
    BY <1>11 DEF WorkerRestarts
  <2>2. device' \in Devices /\ device'.pc = "idle"
    BY <2>1 DEF Devices
  <2>. QED
    BY <1>0, <1>1, <2>1, <2>2
<1>12. CASE UNCHANGED outboundVars
  BY <1>0, <1>1, <1>12 DEF outboundVars, controllerState
<1>. QED
  BY <1>2, <1>3, <1>4, <1>5, <1>6, <1>7, <1>8, <1>9, <1>10, <1>11, <1>12
  DEF OutboundNext, WorkerStep

\* Steps that leave the device's own record of jobs alone.
LEMMA QuietDevice ==
  ASSUME DeviceInv, UNCHANGED <<device, nonces, executions>>, transit' \subseteq transit
  PROVE  RanIsNoted' /\ NotedBeforeRun' /\ ExecutedAtMostOnce' /\ SentHasRun'
BY DEF DeviceInv, RanIsNoted, NotedBeforeRun, ExecutedAtMostOnce, SentHasRun

\* Steps after which the controller offers nothing it did not offer.
LEMMA QuietController ==
  ASSUME DeviceInv, UNCHANGED <<made, accepted>>,
         \A i : Contains(outbox', i) => Contains(outbox, i),
         \A j \in DeviceJobs : executions[j] > 0 => executions'[j] > 0
  PROVE  AcceptedWasMade' /\ AcceptedIsClosed'
<1>1. accepted \subseteq DeviceJobs
  BY DeviceColumns DEF DeviceInv
<1>. QED
  BY <1>1 DEF DeviceInv, AcceptedWasMade, AcceptedIsClosed

LEMMA DeviceStep ==
  ASSUME NoncesFit, DeviceInv, DeviceShape', [OutboundNext]_outboundVars
  PROVE  DeviceInv'
<1>0. /\ made \in [DeviceJobs -> Commits \union {"none"}]
      /\ accepted \subseteq DeviceJobs /\ transit \subseteq DeviceJobs /\ nonces \subseteq DeviceJobs
      /\ executions \in [DeviceJobs -> Nat] /\ device \in Devices
      /\ (device.pc # "idle" => device.job \in DeviceJobs)
  BY DeviceColumns DEF DeviceInv
<1>I. /\ RanIsNoted /\ NotedBeforeRun /\ ExecutedAtMostOnce /\ SentHasRun
      /\ AcceptedWasMade /\ AcceptedIsClosed /\ DeviceShape
  BY DEF DeviceInv
<1>C. UNCHANGED controllerState => UNCHANGED <<made, accepted>> /\ outbox' = outbox
  BY DEF controllerState
<1>1. ASSUME NEW c \in Commits, RegisterDevice(c)
      PROVE  DeviceInv'
  <2>1. UNCHANGED <<outbox, made, accepted, device, nonces, transit, executions>>
    BY <1>1 DEF RegisterDevice
  <2>. QED
    BY <2>1, QuietDevice, QuietController DEF DeviceInv
<1>2. ASSUME NEW j \in DeviceJobs, Enqueue(j)
      PROVE  DeviceInv'
  <2>1. /\ made'[j] = registered /\ registered # "none" /\ made[j] = "none"
        /\ \A i \in DeviceJobs \ {j} : made'[i] = made[i]
        /\ UNCHANGED <<registered, pastTtl, accepted, device, nonces, transit, executions>>
    BY <1>0, <1>2 DEF Enqueue
  <2>2. j \notin accepted
    BY <1>I, <2>1 DEF AcceptedWasMade
  <2>3. AcceptedWasMade'
    BY <1>0, <1>I, <2>1, <2>2 DEF AcceptedWasMade
  <2>4. \A i : Contains(outbox', i) => i = j \/ Contains(outbox, i)
    BY <1>2, <1>I, EnqueuedLast
  <2>5. AcceptedIsClosed'
    BY <1>I, <2>1, <2>2, <2>4 DEF AcceptedIsClosed
  <2>. QED
    BY <2>1, <2>3, <2>5, QuietDevice DEF DeviceInv
<1>3. ASSUME NEW j \in DeviceJobs, AcceptResult(j)
      PROVE  DeviceInv'
  <2>1. j \in transit /\ transit' = transit \ {j} /\ UNCHANGED <<made, device, nonces, executions>>
    BY <1>3 DEF AcceptResult
  <2>2. /\ \A i : Contains(outbox', i) => Contains(outbox, i)
        /\ accepted' # accepted =>
             ~Contains(outbox', j) /\ made[j] # "none" /\ accepted' = accepted \union {j}
    BY <1>3, <1>I, AcceptedLeaves
  <2>3. executions[j] > 0
    BY <1>I, <2>1 DEF SentHasRun
  <2>4. AcceptedWasMade' /\ AcceptedIsClosed'
    BY <1>I, <2>1, <2>2, <2>3 DEF AcceptedWasMade, AcceptedIsClosed
  <2>. QED
    BY <2>1, <2>4, QuietDevice DEF DeviceInv
<1>4. ASSUME NEW arrives \in BOOLEAN, Poll(arrives)
      PROVE  DeviceInv'
  <2>1. UNCHANGED <<made, accepted, nonces, transit, executions>>
    BY <1>4 DEF Poll
  <2>2. device'.pc \in {"idle", "fetched"} /\ \A i : Contains(outbox', i) => Contains(outbox, i)
    BY <1>4, <1>I, PolledHead
  <2>3. RanIsNoted' /\ NotedBeforeRun' /\ ExecutedAtMostOnce' /\ SentHasRun'
    BY <1>I, <2>1, <2>2 DEF RanIsNoted, NotedBeforeRun, ExecutedAtMostOnce, SentHasRun
  <2>. QED
    BY <2>1, <2>2, <2>3, QuietController DEF DeviceInv
<1>5. ASSUME UNCHANGED <<controllerState, nonces, transit, executions>>, device'.pc = "idle"
      PROVE  DeviceInv'
  <2>1. RanIsNoted' /\ NotedBeforeRun' /\ ExecutedAtMostOnce' /\ SentHasRun'
    BY <1>I, <1>5 DEF RanIsNoted, NotedBeforeRun, ExecutedAtMostOnce, SentHasRun
  <2>. QED
    BY <1>5, <1>C, <2>1, QuietController DEF DeviceInv
<1>6. CASE RejectJob \/ PostEnds \/ \E c \in Commits : WorkerRestarts(c)
  <2>1. UNCHANGED <<controllerState, nonces, transit, executions>>
    BY <1>6 DEF RejectJob, PostEnds, WorkerRestarts
  <2>2. device'.pc = "idle"
    <3>1. Idle(device).pc = "idle"
      BY <1>0 DEF Idle, Devices
    <3>2. device' = Idle(device) \/ \E c \in Commits : device' = [commit |-> c, pc |-> "idle", job |-> 0]
      BY <1>6 DEF RejectJob, PostEnds, WorkerRestarts
    <3>. QED
      BY <3>1, <3>2
  <2>. QED
    BY <1>5, <2>1, <2>2
<1>7. CASE RememberNonce
  <2>1. device.job \in DeviceJobs /\ device.job \notin nonces /\ device.pc = "fetched"
    BY <1>0, <1>7 DEF RememberNonce, ValidJob
  <2>2. nonces \union {device.job} \in SUBSET DeviceJobs
    BY <1>0, <2>1
  <2>3. nonces' = nonces \union {device.job}
    BY <1>7, <2>2, GreatestKeepsAll DEF RememberNonce
  <2>4. device'.pc = "remembered" /\ device'.job = device.job
        /\ UNCHANGED <<controllerState, transit, executions>>
    BY <1>0, <1>7 DEF RememberNonce, Devices
  <2>5. executions[device.job] = 0
    BY <1>0, <1>I, <2>1 DEF RanIsNoted
  <2>6. RanIsNoted' /\ NotedBeforeRun' /\ ExecutedAtMostOnce' /\ SentHasRun'
    BY <1>I, <2>1, <2>3, <2>4, <2>5 DEF RanIsNoted, NotedBeforeRun, ExecutedAtMostOnce, SentHasRun
  <2>. QED
    BY <1>C, <2>4, <2>6, QuietController DEF DeviceInv
<1>8. CASE ExecuteJob
  <2>1. /\ device.job \in DeviceJobs /\ device.job \in nonces /\ executions[device.job] = 0
    BY <1>0, <1>I, <1>8 DEF ExecuteJob, NotedBeforeRun
  <2>2. device'.pc = "ran" /\ device'.job = device.job /\ UNCHANGED <<controllerState, nonces, transit>>
    BY <1>0, <1>8 DEF ExecuteJob, Devices
  <2>3. executions' = [executions EXCEPT ![device.job] = 1]
    BY <1>0, <1>8, <2>1 DEF ExecuteJob
  <2>4. executions'[device.job] = 1 /\ \A j \in DeviceJobs \ {device.job} : executions'[j] = executions[j]
    BY <1>0, <2>1, <2>3
  <2>5. NotedBeforeRun'
    BY <2>2 DEF NotedBeforeRun
  <2>6. RanIsNoted' /\ ExecutedAtMostOnce'
    BY <1>I, <2>1, <2>2, <2>4 DEF RanIsNoted, ExecutedAtMostOnce
  <2>7. \A j \in DeviceJobs : executions[j] > 0 => executions'[j] > 0
    BY <2>4
  <2>8. SentHasRun'
    BY <1>0, <1>I, <2>2, <2>4, <2>7 DEF SentHasRun
  <2>. QED
    BY <1>C, <2>2, <2>5, <2>6, <2>7, <2>8, QuietController DEF DeviceInv
<1>9. CASE PostResult
  <2>1. device.job \in DeviceJobs /\ executions[device.job] > 0
    BY <1>0, <1>I, <1>9 DEF PostResult, SentHasRun
  <2>2. /\ device'.pc = "posted" /\ device'.job = device.job
        /\ transit' = transit \union {device.job}
        /\ UNCHANGED <<controllerState, nonces, executions>>
    BY <1>0, <1>9 DEF PostResult, Devices
  <2>3. RanIsNoted' /\ NotedBeforeRun' /\ ExecutedAtMostOnce' /\ SentHasRun'
    BY <1>I, <2>1, <2>2 DEF RanIsNoted, NotedBeforeRun, ExecutedAtMostOnce, SentHasRun
  <2>. QED
    BY <1>C, <2>2, <2>3, QuietController DEF DeviceInv
<1>10. ASSUME NEW j \in DeviceJobs, PostLost(j) \/ JobLapses(j)
       PROVE  DeviceInv'
  <2>1. transit' \subseteq transit /\ UNCHANGED <<controllerState, device, nonces, executions>>
    BY <1>10 DEF PostLost, JobLapses
  <2>. QED
    BY <1>C, <2>1, QuietDevice, QuietController DEF DeviceInv
<1>11. CASE UNCHANGED outboundVars
  <2>1. UNCHANGED <<outbox, made, accepted, device, nonces, transit, executions>>
    BY <1>11 DEF outboundVars
  <2>. QED
    BY <2>1, QuietDevice, QuietController DEF DeviceInv
<1>. QED
  BY <1>1, <1>2, <1>3, <1>4, <1>6, <1>7, <1>8, <1>9, <1>10, <1>11 DEF OutboundNext, WorkerStep

-------------------------------------------------------------------------------
(* The daemon's task table.                                                 *)

\* The greatest number of attempts a row may show: two for a task that is to be
\* tried again and is not, one more for the one in hand or closed.
AttemptsBounded ==
  \A t \in DaemonTasks :
    taskRow[t].attempts <=
      IF taskRow[t].state \in {"QUEUED", "RETRY_WAIT"} \/ (taskRow[t].state = "RUNNING" /\ inHand # t)
      THEN 3 + daemonDeaths ELSE 4 + daemonDeaths

\* The handler is called once for an attempt; the one just claimed is to come.
CallsBelowAttempts ==
  \A t \in DaemonTasks :
    taskRuns[t] <= taskRow[t].attempts
      /\ (daemon = "claimed" /\ inHand = t => taskRuns[t] < taskRow[t].attempts)

\* The lease of the task in hand is never taken: the daemon recovers between two.
HeldIsRunning == inHand # 0 => taskRow[inHand].state = "RUNNING"

PassIsRecorded == daemon = "passed" => taskEvidence[inHand] = "PASS"
VerifiedHasPass == \A t \in DaemonTasks : taskRow[t].state = "VERIFIED" => taskEvidence[t] = "PASS"
PassIsClosedNext ==
  daemonDeaths = 0 =>
    \A t \in DaemonTasks :
      taskEvidence[t] = "PASS" /\ taskRow[t].state # "VERIFIED" => inHand = t /\ daemon = "passed"

TaskInv ==
  /\ TermuxTypeOK /\ AttemptsBounded /\ CallsBelowAttempts /\ HeldIsRunning
  /\ PassIsRecorded /\ VerifiedHasPass /\ PassIsClosedNext

TaskRows == [state : TaskStates, attempts : 0..(4 + MaxDaemonDeaths),
             lease : {"none", "live", "lapsed"}, backoff : BOOLEAN]

LEMMA TaskColumns ==
  ASSUME TermuxTypeOK
  PROVE  /\ taskRow \in [DaemonTasks -> TaskRows]
         /\ taskEvidence \in [DaemonTasks -> {"none", "PASS", "FAIL"}]
         /\ taskRuns \in [DaemonTasks -> Nat]
         /\ daemon \in {"down", "idle", "claimed", "started", "passed", "failed", "raised"}
         /\ inHand \in DaemonTasks \union {0} /\ 0 \notin DaemonTasks
         /\ (inHand = 0 <=> daemon \in {"down", "idle"})
         /\ daemonDeaths \in 0..MaxDaemonDeaths /\ daemonDeaths \in Nat /\ MaxDaemonDeaths \in Nat
         /\ \A t \in DaemonTasks : taskRow[t].attempts \in Nat /\ taskRuns[t] \in Nat
BY TermuxAssumption DEF TermuxTypeOK, TaskRows

LEMMA TaskStart == TermuxInit => TaskInv
<1>. SUFFICES ASSUME TermuxInit PROVE TaskInv
  OBVIOUS
<1>1. TermuxTypeOK
  BY TermuxAssumption DEF TermuxInit, TermuxTypeOK, TaskStates
<1>. QED
  BY <1>1, TermuxAssumption DEF TermuxInit, TaskInv, AttemptsBounded, CallsBelowAttempts, HeldIsRunning,
     PassIsRecorded, VerifiedHasPass, PassIsClosedNext

\* A row that lost its lease, or none, after recover: nothing but state, lease
\* and backoff may differ, and only a running row changes.
LEMMA RecoveredRow ==
  ASSUME NEW r \in TaskRows
  PROVE  /\ Recovered(r) \in TaskRows /\ Recovered(r).attempts = r.attempts
         /\ Recovered(r).state = r.state \/ (r.state = "RUNNING" /\ Recovered(r).state = "RETRY_WAIT")
BY DEF Recovered, TaskRows, TaskStates

\* The steps that leave the table as it is but for leases and backoffs.
LEMMA QuietTable ==
  ASSUME TaskInv, TermuxTypeOK', UNCHANGED <<taskRuns, taskEvidence, daemon, inHand, daemonDeaths>>,
         \A t \in DaemonTasks :
           taskRow'[t].state = taskRow[t].state /\ taskRow'[t].attempts = taskRow[t].attempts
  PROVE  TaskInv'
BY TaskColumns DEF TaskInv, AttemptsBounded, CallsBelowAttempts, HeldIsRunning,
   PassIsRecorded, VerifiedHasPass, PassIsClosedNext

LEMMA ClaimStep == ASSUME TaskInv, ClaimTask PROVE TaskInv'
<1>. DEFINE rows == [u \in DaemonTasks |-> Recovered(taskRow[u])]
            due == {u \in DaemonTasks : ClaimableTask(rows[u])}
<1>0. TermuxTypeOK
  BY DEF TaskInv
<1>1. /\ daemon = "idle" /\ inHand = 0
      /\ UNCHANGED <<taskEvidence, taskRuns, daemonDeaths>>
  BY <1>0, TaskColumns DEF ClaimTask
<1>2. /\ rows \in [DaemonTasks -> TaskRows]
      /\ \A t \in DaemonTasks :
           /\ rows[t].attempts = taskRow[t].attempts
           /\ rows[t].state = taskRow[t].state
                \/ (taskRow[t].state = "RUNNING" /\ rows[t].state = "RETRY_WAIT")
  BY <1>0, TaskColumns, RecoveredRow
<1>3. /\ due = {} => taskRow' = rows /\ UNCHANGED <<daemon, inHand>>
      /\ due # {} =>
           LET t == CHOOSE u \in due : \A w \in due : u <= w IN
           /\ taskRow' = [rows EXCEPT ![t].state = "RUNNING", ![t].lease = "live", ![t].attempts = @ + 1]
           /\ daemon' = "claimed" /\ inHand' = t
  BY DEF ClaimTask
<1>4. due \subseteq DaemonTasks /\ \A u \in due : rows[u].state \in {"QUEUED", "RETRY_WAIT"}
  BY <1>2 DEF ClaimableTask
<1>. HIDE DEF rows, due
<1>5. \A t \in DaemonTasks : taskRow[t].attempts <= 3 + daemonDeaths \/ taskRow[t].state \in {"VERIFIED", "FAILED"}
  BY <1>0, <1>1, TaskColumns DEF TaskInv, AttemptsBounded, TaskRows, TaskStates
<1>6. CASE due = {}
  <2>1. TermuxTypeOK'
    BY <1>0, <1>1, <1>2, <1>3, <1>6 DEF TermuxTypeOK, TaskRows
  <2>2. AttemptsBounded'
    BY <1>0, <1>1, <1>2, <1>3, <1>5, <1>6, TaskColumns DEF TaskInv, AttemptsBounded
  <2>3. CallsBelowAttempts' /\ HeldIsRunning'
    BY <1>0, <1>1, <1>2, <1>3, <1>6, TaskColumns DEF TaskInv, CallsBelowAttempts, HeldIsRunning
  <2>4. PassIsRecorded' /\ VerifiedHasPass' /\ PassIsClosedNext'
    BY <1>0, <1>1, <1>2, <1>3, <1>6, TaskColumns DEF TaskInv, PassIsRecorded, VerifiedHasPass, PassIsClosedNext
  <2>. QED
    BY <2>1, <2>2, <2>3, <2>4 DEF TaskInv
<1>7. CASE due # {}
  <2>1. PICK t \in due : /\ taskRow' = [rows EXCEPT ![t].state = "RUNNING", ![t].lease = "live",
                                                    ![t].attempts = @ + 1]
                         /\ daemon' = "claimed" /\ inHand' = t
    <3>1. due \in SUBSET Nat
      BY <1>4, TermuxAssumption
    <3>2. \E u \in due : \A w \in due : u <= w
      BY <1>7, <3>1, LeastElement
    <3>. QED
      BY <1>3, <1>7, <3>2
  <2>2. t \in DaemonTasks /\ t # 0 /\ rows[t] \in TaskRows /\ taskRow[t].attempts \in Nat
        /\ rows[t].state \in {"QUEUED", "RETRY_WAIT"} /\ rows[t].attempts = taskRow[t].attempts
        /\ taskRow[t].state # "VERIFIED" /\ taskRow[t].state # "FAILED"
    BY <1>0, <1>2, <1>4, TaskColumns
  <2>3. taskRow[t].attempts <= 3 + daemonDeaths
    BY <1>5, <2>2
  <2>4. rows[t].attempts + 1 \in 0..(4 + MaxDaemonDeaths) /\ rows[t].attempts + 1 <= 4 + daemonDeaths
    BY <1>0, <2>2, <2>3, TaskColumns
  <2>5. /\ taskRow' \in [DaemonTasks -> TaskRows]
        /\ taskRow'[t].state = "RUNNING" /\ taskRow'[t].attempts = taskRow[t].attempts + 1
        /\ \A u \in DaemonTasks \ {t} : taskRow'[u] = rows[u]
    <3>1. taskRow' = [rows EXCEPT ![t] = [state |-> "RUNNING", attempts |-> rows[t].attempts + 1,
                                          lease |-> "live", backoff |-> rows[t].backoff]]
      <4>1. rows[t] = [state |-> rows[t].state, attempts |-> rows[t].attempts,
                       lease |-> rows[t].lease, backoff |-> rows[t].backoff]
        BY <2>2 DEF TaskRows
      <4>. QED
        BY <1>2, <2>1, <2>2, <4>1
    <3>2. [state |-> "RUNNING", attempts |-> rows[t].attempts + 1, lease |-> "live",
           backoff |-> rows[t].backoff] \in TaskRows
      BY <2>2, <2>4 DEF TaskRows, TaskStates
    <3>. QED
      BY <1>2, <2>2, <3>1, <3>2
  <2>6. TermuxTypeOK'
    BY <1>0, <1>1, <2>1, <2>2, <2>5 DEF TermuxTypeOK, TaskRows
  <2>7. AttemptsBounded'
    <3>1. ASSUME NEW u \in DaemonTasks \ {t}
          PROVE  taskRow'[u].attempts <= 3 + daemonDeaths
                   \/ (taskRow'[u].state \in {"VERIFIED", "FAILED"} /\ taskRow'[u].attempts <= 4 + daemonDeaths)
      BY <1>0, <1>2, <1>5, <2>5, TaskColumns DEF TaskInv, AttemptsBounded
    <3>2. taskRow'[t].attempts <= 4 + daemonDeaths
      BY <2>2, <2>4, <2>5
    <3>3. \A u \in DaemonTasks : taskRow'[u].attempts \in Nat
      BY <2>5, TermuxAssumption DEF TaskRows
    <3>. QED
      BY <1>0, <1>1, <2>1, <2>5, <3>1, <3>2, <3>3, TaskColumns DEF AttemptsBounded
  <2>8. CallsBelowAttempts' /\ HeldIsRunning'
    BY <1>0, <1>1, <1>2, <2>1, <2>2, <2>5, TaskColumns DEF TaskInv, CallsBelowAttempts, HeldIsRunning
  <2>9. PassIsRecorded' /\ VerifiedHasPass' /\ PassIsClosedNext'
    BY <1>0, <1>1, <1>2, <2>1, <2>2, <2>5, TaskColumns
    DEF TaskInv, PassIsRecorded, VerifiedHasPass, PassIsClosedNext
  <2>. QED
    BY <2>6, <2>7, <2>8, <2>9 DEF TaskInv
<1>. QED
  BY <1>6, <1>7

\* The task in hand is given up or closed: the last UPDATE of execute_one.
LEMMA CloseStep ==
  ASSUME TaskInv, inHand # 0, daemon # "claimed" \/ UNCHANGED taskRuns,
         NEW s \in {"VERIFIED", "FAILED", "RETRY_WAIT"},
         taskRow' \in [DaemonTasks -> TaskRows],
         taskRow'[inHand].state = s /\ taskRow'[inHand].attempts = taskRow[inHand].attempts,
         \A u \in DaemonTasks \ {inHand} : taskRow'[u] = taskRow[u],
         daemon' = "idle" /\ inHand' = 0 /\ UNCHANGED <<taskEvidence, taskRuns, daemonDeaths>>,
         s = "RETRY_WAIT" => taskRow[inHand].attempts <= 3 + daemonDeaths,
         s = "VERIFIED" <=> daemon = "passed"
  PROVE  TaskInv'
<1>0. TermuxTypeOK
  BY DEF TaskInv
<1>1. inHand \in DaemonTasks /\ taskRow[inHand].state = "RUNNING" /\ 0 \notin DaemonTasks
  BY <1>0, TaskColumns DEF TaskInv, HeldIsRunning
<1>2. TermuxTypeOK'
  BY <1>0, TaskColumns DEF TermuxTypeOK, TaskRows
<1>3. AttemptsBounded'
  <2>1. ASSUME NEW u \in DaemonTasks \ {inHand}
        PROVE  taskRow'[u].attempts <=
                 IF taskRow'[u].state \in {"QUEUED", "RETRY_WAIT", "RUNNING"}
                 THEN 3 + daemonDeaths ELSE 4 + daemonDeaths
    BY <1>0, TaskColumns DEF TaskInv, AttemptsBounded
  <2>2. taskRow'[inHand].attempts <= 4 + daemonDeaths
        /\ (s = "RETRY_WAIT" => taskRow'[inHand].attempts <= 3 + daemonDeaths)
    BY <1>0, <1>1, TaskColumns DEF TaskInv, AttemptsBounded
  <2>3. \A u \in DaemonTasks : taskRow'[u].attempts \in Nat
    BY TermuxAssumption DEF TaskRows
  <2>. QED
    BY <1>0, <1>1, <2>1, <2>2, <2>3, TaskColumns DEF AttemptsBounded
<1>4. CallsBelowAttempts' /\ HeldIsRunning'
  BY <1>0, <1>1, TaskColumns DEF TaskInv, CallsBelowAttempts, HeldIsRunning
<1>5. PassIsRecorded' /\ VerifiedHasPass'
  BY <1>0, <1>1, TaskColumns DEF TaskInv, PassIsRecorded, VerifiedHasPass
<1>6. PassIsClosedNext'
  BY <1>0, <1>1, TaskColumns DEF TaskInv, PassIsClosedNext
<1>. QED
  BY <1>2, <1>3, <1>4, <1>5, <1>6 DEF TaskInv

LEMMA TaskStep == TaskInv /\ [TermuxNext]_termuxVars => TaskInv'
<1>. SUFFICES ASSUME TaskInv, [TermuxNext]_termuxVars PROVE TaskInv'
  OBVIOUS
<1>0. TermuxTypeOK
  BY DEF TaskInv
<1>C. /\ taskRow \in [DaemonTasks -> TaskRows]
      /\ taskEvidence \in [DaemonTasks -> {"none", "PASS", "FAIL"}]
      /\ taskRuns \in [DaemonTasks -> Nat]
      /\ daemon \in {"down", "idle", "claimed", "started", "passed", "failed", "raised"}
      /\ inHand \in DaemonTasks \union {0} /\ 0 \notin DaemonTasks
      /\ (inHand = 0 <=> daemon \in {"down", "idle"})
      /\ daemonDeaths \in 0..MaxDaemonDeaths /\ daemonDeaths \in Nat /\ MaxDaemonDeaths \in Nat
      /\ \A t \in DaemonTasks : taskRow[t].attempts \in Nat /\ taskRuns[t] \in Nat
  BY <1>0, TaskColumns
<1>H. inHand # 0 => inHand \in DaemonTasks /\ taskRow[inHand].state = "RUNNING" /\ taskRow[inHand] \in TaskRows
  BY <1>C DEF TaskInv, HeldIsRunning
<1>1. CASE StartDaemon
  BY <1>0, <1>C, <1>1 DEF StartDaemon, TaskInv, TermuxTypeOK, AttemptsBounded, CallsBelowAttempts,
     HeldIsRunning, PassIsRecorded, VerifiedHasPass, PassIsClosedNext
<1>2. CASE ClaimTask
  BY <1>2, ClaimStep
<1>3. CASE RefuseTask
  <2>1. /\ taskRow' = [taskRow EXCEPT ![inHand].state = "FAILED"] /\ inHand # 0 /\ daemon = "claimed"
        /\ daemon' = "idle" /\ inHand' = 0 /\ UNCHANGED <<taskEvidence, taskRuns, daemonDeaths>>
    BY <1>C, <1>3 DEF RefuseTask
  <2>2. [taskRow[inHand] EXCEPT !.state = "FAILED"] \in TaskRows
    BY <1>H, <2>1 DEF TaskRows, TaskStates
  <2>3. taskRow' \in [DaemonTasks -> TaskRows] /\ taskRow'[inHand].state = "FAILED"
        /\ taskRow'[inHand].attempts = taskRow[inHand].attempts
        /\ \A u \in DaemonTasks \ {inHand} : taskRow'[u] = taskRow[u]
    BY <1>C, <1>H, <2>1, <2>2 DEF TaskRows
  <2>. QED
    BY <2>1, <2>3, CloseStep
<1>4. CASE RunHandler
  <2>1. /\ inHand \in DaemonTasks /\ taskRuns' = [taskRuns EXCEPT ![inHand] = @ + 1]
        /\ daemon = "claimed" /\ daemon' = "started"
        /\ UNCHANGED <<taskRow, taskEvidence, inHand, daemonDeaths>>
    BY <1>C, <1>4 DEF RunHandler
  <2>2. taskRuns' \in [DaemonTasks -> Nat] /\ taskRuns'[inHand] = taskRuns[inHand] + 1
        /\ \A u \in DaemonTasks \ {inHand} : taskRuns'[u] = taskRuns[u]
    BY <1>C, <2>1
  <2>3. CallsBelowAttempts'
    <3>1. taskRuns[inHand] < taskRow[inHand].attempts
      BY <2>1 DEF TaskInv, CallsBelowAttempts
    <3>2. taskRuns'[inHand] <= taskRow[inHand].attempts
      BY <1>C, <2>1, <2>2, <3>1
    <3>. QED
      BY <2>1, <2>2, <3>2 DEF TaskInv, CallsBelowAttempts
  <2>4. TermuxTypeOK'
    BY <1>0, <1>C, <2>1, <2>2 DEF TermuxTypeOK
  <2>. QED
    BY <1>C, <2>1, <2>3, <2>4
    DEF TaskInv, AttemptsBounded, HeldIsRunning, PassIsRecorded, VerifiedHasPass, PassIsClosedNext
<1>5. ASSUME NEW verdict \in {"PASS", "FAIL"}, daemon = "started",
             taskEvidence' = [taskEvidence EXCEPT ![inHand] = verdict],
             daemon' = (IF verdict = "PASS" THEN "passed" ELSE "failed"),
             UNCHANGED <<taskRow, taskRuns, inHand, daemonDeaths>>
      PROVE  TaskInv'
  <2>1. inHand \in DaemonTasks /\ inHand # 0
    BY <1>C, <1>5
  <2>2. /\ taskEvidence' \in [DaemonTasks -> {"none", "PASS", "FAIL"}]
        /\ taskEvidence'[inHand] = verdict
        /\ \A u \in DaemonTasks \ {inHand} : taskEvidence'[u] = taskEvidence[u]
    BY <1>C, <1>5, <2>1
  <2>3. TermuxTypeOK'
    BY <1>0, <1>C, <1>5, <2>1, <2>2 DEF TermuxTypeOK
  <2>4. PassIsRecorded' /\ VerifiedHasPass' /\ PassIsClosedNext'
    BY <1>C, <1>H, <1>5, <2>1, <2>2 DEF TaskInv, PassIsRecorded, VerifiedHasPass, PassIsClosedNext
  <2>. QED
    BY <1>5, <2>3, <2>4 DEF TaskInv, AttemptsBounded, CallsBelowAttempts, HeldIsRunning
<1>6. CASE HandlerRaises
  BY <1>0, <1>C, <1>6 DEF HandlerRaises, TaskInv, TermuxTypeOK, AttemptsBounded, CallsBelowAttempts,
     HeldIsRunning, PassIsRecorded, VerifiedHasPass, PassIsClosedNext
<1>7. CASE SettleTask
  <2>1. PICK s \in {"VERIFIED", "FAILED", "RETRY_WAIT"}, b \in BOOLEAN :
          /\ CloseTask(s, b) /\ daemon \in {"passed", "failed", "raised"}
          /\ s = "VERIFIED" <=> daemon = "passed"
          /\ s = "RETRY_WAIT" => NextAttempts < 5
          /\ UNCHANGED <<taskEvidence, taskRuns, daemonDeaths>>
    BY <1>7 DEF SettleTask
  <2>2. inHand # 0 /\ inHand \in DaemonTasks
    BY <1>C, <2>1
  <2>3. taskRow' = [taskRow EXCEPT ![inHand].state = s, ![inHand].lease = "none", ![inHand].backoff = b]
        /\ daemon' = "idle" /\ inHand' = 0
    BY <2>1 DEF CloseTask
  <2>4. [taskRow[inHand] EXCEPT !.state = s, !.lease = "none", !.backoff = b] \in TaskRows
    BY <1>H, <2>2 DEF TaskRows, TaskStates
  <2>5. taskRow' \in [DaemonTasks -> TaskRows] /\ taskRow'[inHand].state = s
        /\ taskRow'[inHand].attempts = taskRow[inHand].attempts
        /\ \A u \in DaemonTasks \ {inHand} : taskRow'[u] = taskRow[u]
    BY <1>C, <1>H, <2>2, <2>3, <2>4 DEF TaskRows
  <2>6. s = "RETRY_WAIT" => taskRow[inHand].attempts <= 3 + daemonDeaths
    BY <1>C, <2>1, <2>2 DEF NextAttempts
  <2>. QED
    BY <2>1, <2>2, <2>3, <2>5, <2>6, CloseStep
<1>8. CASE DaemonDies
  <2>1. /\ daemon' = "down" /\ inHand' = 0 /\ daemonDeaths' = daemonDeaths + 1
        /\ daemonDeaths' \in 0..MaxDaemonDeaths /\ daemonDeaths' # 0
        /\ UNCHANGED <<taskRow, taskEvidence, taskRuns>>
    BY <1>C, <1>8 DEF DaemonDies
  <2>2. TermuxTypeOK'
    BY <1>0, <2>1 DEF TermuxTypeOK
  <2>3. AttemptsBounded'
    BY <1>C, <2>1 DEF TaskInv, AttemptsBounded
  <2>4. CallsBelowAttempts' /\ HeldIsRunning'
    BY <1>C, <2>1 DEF TaskInv, CallsBelowAttempts, HeldIsRunning
  <2>. QED
    BY <2>1, <2>2, <2>3, <2>4 DEF TaskInv, PassIsRecorded, VerifiedHasPass, PassIsClosedNext
<1>9. ASSUME NEW t \in DaemonTasks, TaskLeaseLapses(t) \/ BackoffPasses(t)
      PROVE  TaskInv'
  <2>1. PICK l \in {"none", "live", "lapsed"}, b \in BOOLEAN :
          taskRow' = [taskRow EXCEPT ![t] = [taskRow[t] EXCEPT !.lease = l, !.backoff = b]]
    <3>1. taskRow[t] \in TaskRows
      BY <1>C
    <3>2. taskRow[t].lease \in {"none", "live", "lapsed"} /\ taskRow[t].backoff \in BOOLEAN
          /\ taskRow[t] = [state |-> taskRow[t].state, attempts |-> taskRow[t].attempts,
                           lease |-> taskRow[t].lease, backoff |-> taskRow[t].backoff]
      BY <3>1 DEF TaskRows
    <3>3. CASE TaskLeaseLapses(t)
      <4>1. taskRow' = [taskRow EXCEPT ![t] = [taskRow[t] EXCEPT !.lease = "lapsed",
                                                                 !.backoff = taskRow[t].backoff]]
        BY <1>C, <3>2, <3>3 DEF TaskLeaseLapses
      <4>. QED
        BY <3>2, <4>1
    <3>4. CASE BackoffPasses(t)
      <4>1. taskRow' = [taskRow EXCEPT ![t] = [taskRow[t] EXCEPT !.lease = taskRow[t].lease,
                                                                 !.backoff = FALSE]]
        BY <1>C, <3>2, <3>4 DEF BackoffPasses
      <4>. QED
        BY <3>2, <4>1
    <3>. QED
      BY <1>9, <3>3, <3>4
  <2>2. UNCHANGED <<taskRuns, taskEvidence, daemon, inHand, daemonDeaths>>
    BY <1>9 DEF TaskLeaseLapses, BackoffPasses
  <2>3. [taskRow[t] EXCEPT !.lease = l, !.backoff = b] \in TaskRows
    BY <1>C DEF TaskRows
  <2>4. taskRow' \in [DaemonTasks -> TaskRows]
        /\ \A u \in DaemonTasks :
             taskRow'[u].state = taskRow[u].state /\ taskRow'[u].attempts = taskRow[u].attempts
    BY <1>C, <2>1, <2>3 DEF TaskRows
  <2>5. TermuxTypeOK'
    BY <1>0, <2>2, <2>4 DEF TermuxTypeOK, TaskRows
  <2>. QED
    BY <2>2, <2>4, <2>5, QuietTable
<1>10. CASE UNCHANGED termuxVars
  BY <1>0, <1>10 DEF termuxVars, TaskInv, TermuxTypeOK, AttemptsBounded, CallsBelowAttempts,
     HeldIsRunning, PassIsRecorded, VerifiedHasPass, PassIsClosedNext
<1>. QED
  BY <1>1, <1>2, <1>3, <1>4, <1>5, <1>6, <1>7, <1>8, <1>9, <1>10
  DEF TermuxNext, DaemonStep, JudgeReturnCode

\* What the invariant says of the calls and of the verdicts.
LEMMA TaskInvImplies == TaskInv => HandlerCallsBounded /\ VerifiedTasksPassed
<1>. SUFFICES ASSUME TaskInv PROVE HandlerCallsBounded /\ VerifiedTasksPassed
  OBVIOUS
<1>0. TermuxTypeOK
  BY DEF TaskInv
<1>1. HandlerCallsBounded
  BY <1>0, TaskColumns DEF TaskInv, AttemptsBounded, CallsBelowAttempts, HandlerCallsBounded
<1>2. VerifiedTasksPassed
  BY DEF TaskInv, VerifiedHasPass, PassIsClosedNext, VerifiedTasksPassed
<1>. QED
  BY <1>1, <1>2


-------------------------------------------------------------------------------
(* The sandbox.                                                             *)

\* Where a command has been started for the validator and is not yet recorded.
Commanded == {"drain", "remove", "record"}

\* The records, the buffers and the validator's number are what evaluate makes them.
EvaluatorShape ==
  /\ records \in Seq([passed : BOOLEAN, complete : BOOLEAN]) /\ kept \in Nat
  /\ IF at = "done" THEN validator = SandboxValidators + 1 ELSE validator <= SandboxValidators

\* A stream leaves the selector when it is read to its end and nobody holds it.
EndedIsEmpty == \A s \in Streams : s \notin watching => pipe[s] = 0 /\ s \notin writers

\* A client the evaluator killed carries the reason, and what was written is
\* kept or still in a pipe as long as no limit cut it.
KilledIsNoted ==
  at \in Commanded /\ client = "killed" => ending.timedOut \/ ending.limited
NothingIsCut ==
  at \in Commanded /\ ~ending.limited => kept + pipe["stdout"] + pipe["stderr"] = written

DrainedBeforeRemoval ==
  /\ at = "drain" => client # "none"
  /\ at \in {"remove", "record"} => watching = {} /\ client \in {"killed", "exited"}

OnlyItsContainer ==
  removeFaults = 0 => containers \subseteq (IF at \in {"drain", "remove"} THEN {validator} ELSE {})

SandboxInv ==
  /\ SandboxTypeOK /\ EvaluatorShape /\ EndedIsEmpty /\ KilledIsNoted /\ NothingIsCut
  /\ DrainedBeforeRemoval /\ OnlyItsContainer /\ OutputWithinLimit /\ PassedIsComplete

LEMMA SandboxColumns ==
  ASSUME SandboxInv
  PROVE  /\ at \in {"probe", "start", "drain", "remove", "record", "done", "unavailable", "failed"}
         /\ validator \in 1..(SandboxValidators + 1) /\ validator \in Nat /\ SandboxValidators \in Nat \ {0}
         /\ containers \subseteq 0..SandboxValidators
         /\ client \in {"none", "runs", "killed", "exited"} /\ exitCode \in {0, 1}
         /\ pipe \in [Streams -> 0..MaxWritten] /\ writers \subseteq Streams /\ watching \subseteq Streams
         /\ pipe["stdout"] \in Nat /\ pipe["stderr"] \in Nat
         /\ written \in 0..MaxWritten /\ written \in Nat /\ MaxWritten \in Nat
         /\ kept \in Nat /\ OutputLimit \in Nat /\ kept <= OutputLimit
         /\ kept + pipe["stdout"] + pipe["stderr"] <= written
         /\ ending \in [timedOut : BOOLEAN, limited : BOOLEAN]
         /\ records \in Seq([passed : BOOLEAN, complete : BOOLEAN])
         /\ Len(records) \in Nat /\ Len(records) < validator + 1
         /\ removeFaults \in 0..MaxRemoveFaults /\ removeFaults \in Nat /\ MaxRemoveFaults \in Nat
BY SandboxAssumption DEF SandboxInv, SandboxTypeOK, EvaluatorShape, OutputWithinLimit, Streams

LEMMA SandboxStart == SandboxInit => SandboxInv
<1>. SUFFICES ASSUME SandboxInit PROVE SandboxInv
  OBVIOUS
<1>1. SandboxTypeOK
  BY SandboxAssumption DEF SandboxInit, SandboxTypeOK, NoEnding, Streams
<1>2. EvaluatorShape /\ OutputWithinLimit
  BY SandboxAssumption DEF SandboxInit, EvaluatorShape, OutputWithinLimit
<1>. QED
  BY <1>1, <1>2 DEF SandboxInit, SandboxInv, EndedIsEmpty, KilledIsNoted, NothingIsCut, Commanded,
     DrainedBeforeRemoval, OnlyItsContainer, PassedIsComplete

\* Steps of the evaluator that leave the command and its output alone.
LEMMA QuietCommand ==
  ASSUME SandboxInv, UNCHANGED childVars, at' \in Commanded => at \in Commanded
  PROVE  EndedIsEmpty' /\ KilledIsNoted' /\ NothingIsCut' /\ OutputWithinLimit'
BY DEF SandboxInv, childVars, EndedIsEmpty, KilledIsNoted, NothingIsCut, OutputWithinLimit

\* Steps of the command and of the reads.
LEMMA QuietEvaluator ==
  ASSUME SandboxInv, UNCHANGED <<at, validator, containers, records, removeFaults>>, kept' \in Nat
  PROVE  EvaluatorShape' /\ OnlyItsContainer' /\ PassedIsComplete'
BY DEF SandboxInv, EvaluatorShape, OnlyItsContainer, PassedIsComplete

\* Removing the container: it is gone, or the removal has failed.
LEMMA RemovesContainer ==
  ASSUME SandboxInv, at \in {"drain", "remove"}, ForceRemove(validator)
  PROVE  /\ containers' \subseteq containers /\ removeFaults' \in 0..MaxRemoveFaults
         /\ removeFaults' = 0 => containers' = {}
BY SandboxColumns DEF ForceRemove, SandboxInv, OnlyItsContainer

\* The evaluator's steps around a command.
LEMMA EvaluatorMoves ==
  ASSUME SandboxInv,
         \/ ProbePasses \/ ProbeFails \/ StartFails \/ Drained \/ WaitExpires \/ RemoveContainer
  PROVE  SandboxInv'
<1>1. /\ UNCHANGED <<childVars, validator, records>>
      /\ at' \in {"start", "unavailable", "remove", "failed", "record"}
      /\ at' \in Commanded => at \in Commanded
      /\ at # "done"
      /\ at' \in {"remove", "record"} => watching = {} /\ client # "runs"
      /\ at' \in {"remove", "record"} => at \in {"drain", "remove"}
  <2>1. CASE ProbePasses \/ ProbeFails \/ StartFails
    BY <2>1 DEF ProbePasses, ProbeFails, StartFails, Commanded
  <2>2. CASE Drained \/ WaitExpires
    BY <2>2 DEF Drained, WaitExpires, Commanded
  <2>3. CASE RemoveContainer
    BY <2>3 DEF RemoveContainer, Commanded, SandboxInv, DrainedBeforeRemoval
  <2>. QED
    BY <2>1, <2>2, <2>3
<1>2. EndedIsEmpty' /\ KilledIsNoted' /\ NothingIsCut' /\ OutputWithinLimit'
  BY <1>1, QuietCommand
<1>3. EvaluatorShape'
  BY <1>1, SandboxColumns DEF EvaluatorShape, SandboxInv, childVars
<1>4. /\ containers' \subseteq 0..SandboxValidators /\ removeFaults' \in 0..MaxRemoveFaults
      /\ OnlyItsContainer'
  <2>1. CASE ProbePasses \/ StartFails
    BY <2>1, SandboxColumns DEF ProbePasses, StartFails, SandboxInv, OnlyItsContainer
  <2>2. CASE ProbeFails
    <3>1. removeFaults = 0 => containers = {}
      BY <2>2 DEF ProbeFails, SandboxInv, OnlyItsContainer
    <3>2. 0 \in 0..SandboxValidators /\ removeFaults + 1 # 0
      BY SandboxColumns
    <3>3. \/ UNCHANGED <<containers, removeFaults>>
          \/ /\ removeFaults < MaxRemoveFaults
             /\ removeFaults' = removeFaults + 1 /\ containers' = containers \union {0}
      BY <2>2 DEF ProbeFails
    <3>4. removeFaults' \in 0..MaxRemoveFaults /\ containers' \subseteq 0..SandboxValidators
      BY <3>2, <3>3, SandboxColumns
    <3>. QED
      BY <3>1, <3>2, <3>3, <3>4 DEF OnlyItsContainer
  <2>3. CASE Drained
    BY <2>3, SandboxColumns DEF Drained, SandboxInv, OnlyItsContainer
  <2>4. CASE WaitExpires \/ RemoveContainer
    BY <2>4, SandboxColumns, RemovesContainer DEF WaitExpires, RemoveContainer, OnlyItsContainer
  <2>. QED
    BY <2>1, <2>2, <2>3, <2>4
<1>5. DrainedBeforeRemoval'
  BY <1>1, SandboxColumns DEF DrainedBeforeRemoval, SandboxInv, childVars
<1>6. SandboxTypeOK'
  BY <1>1, <1>4, SandboxColumns DEF SandboxTypeOK, childVars
<1>7. PassedIsComplete'
  BY <1>1 DEF SandboxInv, PassedIsComplete
<1>. QED
  BY <1>2, <1>3, <1>4, <1>5, <1>6, <1>7 DEF SandboxInv

LEMMA StartStep == ASSUME SandboxInv, StartContainer PROVE SandboxInv'
<1>1. /\ at = "start" /\ at' = "drain" /\ client' = "runs" /\ exitCode' = 0
      /\ containers' = containers \union {validator}
      /\ pipe' = [s \in Streams |-> 0] /\ writers' = Streams /\ watching' = Streams
      /\ kept' = 0 /\ written' = 0 /\ ending' = [timedOut |-> FALSE, limited |-> FALSE]
      /\ UNCHANGED <<validator, records, removeFaults>>
  BY DEF StartContainer, NoEnding
<1>2. validator <= SandboxValidators /\ validator \in 0..SandboxValidators
  BY <1>1, SandboxColumns DEF SandboxInv, EvaluatorShape
<1>3. pipe'["stdout"] = 0 /\ pipe'["stderr"] = 0 /\ pipe' \in [Streams -> 0..MaxWritten]
  BY <1>1, SandboxColumns DEF Streams
<1>4. SandboxTypeOK'
  BY <1>1, <1>2, <1>3, SandboxColumns DEF SandboxTypeOK
<1>5. EvaluatorShape' /\ OnlyItsContainer'
  BY <1>1, <1>2, SandboxColumns DEF EvaluatorShape, SandboxInv, OnlyItsContainer
<1>6. EndedIsEmpty' /\ KilledIsNoted' /\ NothingIsCut' /\ OutputWithinLimit' /\ DrainedBeforeRemoval'
  BY <1>1, <1>3, SandboxColumns
  DEF EndedIsEmpty, KilledIsNoted, NothingIsCut, OutputWithinLimit, DrainedBeforeRemoval
<1>. QED
  BY <1>1, <1>4, <1>5, <1>6 DEF SandboxInv, PassedIsComplete

LEMMA ReadStep == ASSUME SandboxInv, NEW s \in Streams, ReadChunk(s) PROVE SandboxInv'
<1>. DEFINE allowed == Allowed(s, pipe[s])
<1>1. /\ at = "drain" /\ s \in watching /\ pipe[s] > 0
      /\ kept' = kept + allowed /\ pipe' = [pipe EXCEPT ![s] = 0]
      /\ IF pipe[s] > allowed
         THEN /\ ending' = [ending EXCEPT !.limited = TRUE]
              /\ client' = Killed /\ writers' = OpenAfter(Killed)
              /\ exitCode' = IF client = "runs" THEN 1 ELSE exitCode
         ELSE UNCHANGED <<ending, client, writers, exitCode>>
      /\ UNCHANGED <<at, validator, containers, watching, written, records, removeFaults>>
  BY DEF ReadChunk
<1>2. pipe[s] \in Nat /\ pipe[s] \in 0..MaxWritten
  BY SandboxColumns
<1>3. allowed \in Nat /\ allowed <= pipe[s] /\ kept + allowed <= OutputLimit
  <2>1. kept \in Nat /\ OutputLimit \in Nat /\ kept <= OutputLimit
    BY SandboxColumns
  <2>. QED
    BY <1>2, <2>1 DEF Allowed
<1>. HIDE DEF allowed
<1>4. /\ pipe' \in [Streams -> 0..MaxWritten] /\ pipe'[s] = 0
      /\ \A u \in Streams \ {s} : pipe'[u] = pipe[u]
  BY <1>1, SandboxColumns
<1>5. /\ pipe'["stdout"] + pipe'["stderr"] + pipe[s] = pipe["stdout"] + pipe["stderr"]
      /\ pipe'["stdout"] \in Nat /\ pipe'["stderr"] \in Nat
  <2>1. pipe["stdout"] \in Nat /\ pipe["stderr"] \in Nat /\ s \in {"stdout", "stderr"}
    BY SandboxColumns DEF Streams
  <2>. QED
    BY <1>4, <2>1 DEF Streams
<1>6. /\ kept' \in Nat /\ kept' <= OutputLimit
      /\ kept' + pipe'["stdout"] + pipe'["stderr"] <= written
      /\ allowed = pipe[s] /\ ~ending.limited =>
           kept' + pipe'["stdout"] + pipe'["stderr"] = written
  <2>1. /\ kept \in Nat /\ pipe["stdout"] \in Nat /\ pipe["stderr"] \in Nat /\ written \in Nat
        /\ kept + pipe["stdout"] + pipe["stderr"] <= written
    BY SandboxColumns
  <2>2. ~ending.limited => kept + pipe["stdout"] + pipe["stderr"] = written
    BY <1>1 DEF SandboxInv, NothingIsCut, Commanded
  <2>. QED
    BY <1>1, <1>2, <1>3, <1>5, <2>1, <2>2
<1>7. /\ writers' \subseteq writers /\ client' \in {"none", "runs", "killed", "exited"} /\ exitCode' \in {0, 1}
      /\ client' # "none" /\ ending' \in [timedOut : BOOLEAN, limited : BOOLEAN]
      /\ ending.timedOut => ending'.timedOut
      /\ ending.limited => ending'.limited
      /\ pipe[s] > allowed => ending'.limited
      /\ ~(pipe[s] > allowed) => client' = client
  BY <1>1, SandboxColumns DEF Killed, OpenAfter, SandboxInv, DrainedBeforeRemoval
<1>8. SandboxTypeOK'
  BY <1>1, <1>4, <1>6, <1>7, SandboxColumns DEF SandboxTypeOK
<1>9. EndedIsEmpty'
  BY <1>1, <1>4, <1>7 DEF SandboxInv, EndedIsEmpty
<1>10. KilledIsNoted' /\ DrainedBeforeRemoval'
  BY <1>1, <1>7 DEF SandboxInv, KilledIsNoted, DrainedBeforeRemoval, Commanded
<1>11. NothingIsCut'
  BY <1>1, <1>2, <1>3, <1>6, <1>7 DEF NothingIsCut
<1>12. EvaluatorShape' /\ OnlyItsContainer' /\ PassedIsComplete'
  BY <1>1, <1>6, QuietEvaluator
<1>. QED
  BY <1>6, <1>8, <1>9, <1>10, <1>11, <1>12 DEF SandboxInv, OutputWithinLimit

\* The two ways a stream or a client is cut short or ends by itself, with the
\* output left where it is.
LEMMA CommandEnds ==
  ASSUME SandboxInv,
         \/ \E s \in Streams : ReadEnd(s) \/ CloseStream(s)
         \/ DeadlinePasses
         \/ \E c \in {0, 1} : ClientExits(c)
  PROVE  SandboxInv'
<1>1. /\ UNCHANGED <<at, validator, pipe, kept, written, records, removeFaults>>
      /\ writers' \subseteq writers /\ watching' \subseteq watching /\ containers' \subseteq containers
      /\ client' \in {"none", "runs", "killed", "exited"} /\ exitCode' \in {0, 1}
      /\ ending' \in [timedOut : BOOLEAN, limited : BOOLEAN]
      /\ ending'.limited = ending.limited /\ (ending.timedOut => ending'.timedOut)
      /\ client' = "killed" => client = "killed" \/ ending'.timedOut
      /\ \A s \in Streams : s \in watching /\ s \notin watching' => pipe[s] = 0 /\ s \notin writers
      /\ client' = "none" => client = "none"
      /\ client' = "runs" => client = "runs"
  <2>1. CASE \E s \in Streams : ReadEnd(s) \/ CloseStream(s)
    BY <2>1, SandboxColumns DEF ReadEnd, CloseStream
  <2>2. CASE DeadlinePasses
    BY <2>2, SandboxColumns DEF DeadlinePasses, OpenAfter
  <2>3. CASE \E c \in {0, 1} : ClientExits(c)
    BY <2>3, SandboxColumns DEF ClientExits
  <2>. QED
    BY <2>1, <2>2, <2>3
<1>2. SandboxTypeOK'
  BY <1>1, SandboxColumns DEF SandboxTypeOK
<1>3. EvaluatorShape' /\ PassedIsComplete' /\ OnlyItsContainer' /\ OutputWithinLimit'
  BY <1>1 DEF SandboxInv, EvaluatorShape, PassedIsComplete, OnlyItsContainer, OutputWithinLimit
<1>4. EndedIsEmpty' /\ KilledIsNoted' /\ NothingIsCut'
  BY <1>1 DEF SandboxInv, EndedIsEmpty, KilledIsNoted, NothingIsCut
<1>5. DrainedBeforeRemoval'
  BY <1>1, SandboxColumns DEF SandboxInv, DrainedBeforeRemoval
<1>. QED
  BY <1>2, <1>3, <1>4, <1>5 DEF SandboxInv

LEMMA WriteStep == ASSUME SandboxInv, NEW s \in Streams, Write(s) PROVE SandboxInv'
<1>1. /\ client = "runs" /\ s \in writers /\ written < MaxWritten
      /\ pipe' = [pipe EXCEPT ![s] = @ + 1] /\ written' = written + 1
      /\ UNCHANGED <<at, validator, containers, client, exitCode, writers, watching, kept, ending, records,
                     removeFaults>>
  BY DEF Write
<1>2. pipe[s] \in Nat /\ pipe[s] <= written
  BY SandboxColumns DEF Streams
<1>3. /\ pipe' \in [Streams -> 0..MaxWritten] /\ pipe'[s] = pipe[s] + 1
      /\ \A u \in Streams \ {s} : pipe'[u] = pipe[u]
  <2>1. pipe \in [Streams -> 0..MaxWritten] /\ written \in Nat /\ MaxWritten \in Nat
    BY SandboxColumns
  <2>2. pipe[s] + 1 \in 0..MaxWritten
    BY <1>1, <1>2, <2>1
  <2>. QED
    BY <1>1, <2>1, <2>2
<1>4. /\ pipe'["stdout"] + pipe'["stderr"] = pipe["stdout"] + pipe["stderr"] + 1
      /\ pipe'["stdout"] \in Nat /\ pipe'["stderr"] \in Nat
  <2>1. pipe["stdout"] \in Nat /\ pipe["stderr"] \in Nat /\ s \in {"stdout", "stderr"}
    BY SandboxColumns DEF Streams
  <2>. QED
    BY <1>3, <2>1 DEF Streams
<1>5. kept + pipe'["stdout"] + pipe'["stderr"] <= written'
      /\ (kept + pipe["stdout"] + pipe["stderr"] = written => kept + pipe'["stdout"] + pipe'["stderr"] = written')
  <2>1. /\ kept \in Nat /\ pipe["stdout"] \in Nat /\ pipe["stderr"] \in Nat /\ written \in Nat
        /\ kept + pipe["stdout"] + pipe["stderr"] <= written
    BY SandboxColumns
  <2>. QED
    BY <1>1, <1>4, <2>1
<1>6. SandboxTypeOK'
  <2>1. written' \in 0..MaxWritten
    <3>1. written \in Nat /\ MaxWritten \in Nat
      BY SandboxColumns
    <3>. QED
      BY <1>1, <3>1
  <2>2. kept' + pipe'["stdout"] + pipe'["stderr"] <= written'
    BY <1>1, <1>5
  <2>. QED
    BY <1>1, <1>3, <2>1, <2>2, SandboxColumns DEF SandboxTypeOK
<1>7. EvaluatorShape' /\ OnlyItsContainer' /\ PassedIsComplete'
  BY <1>1, SandboxColumns, QuietEvaluator
<1>8. s \in watching
  BY <1>1 DEF SandboxInv, EndedIsEmpty
<1>9. EndedIsEmpty'
  BY <1>1, <1>3, <1>8 DEF SandboxInv, EndedIsEmpty
<1>. QED
  BY <1>1, <1>5, <1>6, <1>7, <1>9
  DEF SandboxInv, KilledIsNoted, NothingIsCut, DrainedBeforeRemoval, OutputWithinLimit

LEMMA RecordStep == ASSUME SandboxInv, Record PROVE SandboxInv'
<1>. DEFINE entry == [passed   |-> exitCode = 0 /\ ~ending.timedOut /\ ~ending.limited,
                      complete |-> kept = written /\ client = "exited"]
<1>1. /\ at = "record" /\ records' = Append(records, entry) /\ validator' = validator + 1
      /\ at' = IF validator = SandboxValidators THEN "done" ELSE "probe"
      /\ client' = "none"
      /\ UNCHANGED <<containers, exitCode, pipe, writers, watching, kept, written, ending, removeFaults>>
  BY DEF Record
<1>2. watching = {} /\ client \in {"killed", "exited"} /\ pipe["stdout"] = 0 /\ pipe["stderr"] = 0
  BY <1>1 DEF SandboxInv, DrainedBeforeRemoval, EndedIsEmpty, Streams
<1>3. entry.passed => entry.complete
  <2>1. ~ending.limited => kept = written
    BY <1>1, <1>2, SandboxColumns DEF SandboxInv, NothingIsCut, Commanded
  <2>2. client = "killed" => ending.timedOut \/ ending.limited
    BY <1>1 DEF SandboxInv, KilledIsNoted, Commanded
  <2>. QED
    BY <1>2, <2>1, <2>2
<1>4. entry \in [passed : BOOLEAN, complete : BOOLEAN]
  OBVIOUS
<1>. HIDE DEF entry
<1>5. /\ records' \in Seq([passed : BOOLEAN, complete : BOOLEAN]) /\ Len(records') = Len(records) + 1
      /\ \A i \in 1..Len(records) : records'[i] = records[i]
      /\ records'[Len(records) + 1] = entry
  BY <1>1, <1>4, SandboxColumns
<1>6. PassedIsComplete'
  <2>. SUFFICES ASSUME NEW i \in DOMAIN records', records'[i].passed
                PROVE  records'[i].complete
    BY DEF PassedIsComplete
  <2>1. i \in 1..(Len(records) + 1)
    BY <1>5
  <2>2. i \in 1..Len(records) \/ i = Len(records) + 1
    BY <2>1, SandboxColumns
  <2>3. \A k \in 1..Len(records) : records[k].passed => records[k].complete
    BY SandboxColumns DEF SandboxInv, PassedIsComplete
  <2>. QED
    BY <1>3, <1>5, <2>2, <2>3
<1>7. validator <= SandboxValidators
  BY <1>1 DEF SandboxInv, EvaluatorShape
<1>8. EvaluatorShape'
  BY <1>1, <1>5, <1>7, SandboxColumns DEF EvaluatorShape
<1>9. SandboxTypeOK'
  <2>1. validator' \in 1..(SandboxValidators + 1) /\ Len(records') < validator' + 1
    <3>1. /\ validator \in Nat /\ validator >= 1 /\ SandboxValidators \in Nat
          /\ Len(records) \in Nat /\ Len(records) < validator + 1
      BY SandboxColumns
    <3>. QED
      BY <1>1, <1>5, <1>7, <3>1
  <2>2. at' \in {"probe", "start", "drain", "remove", "record", "done", "unavailable", "failed"}
    BY <1>1
  <2>. QED
    BY <1>1, <2>1, <2>2, SandboxColumns DEF SandboxTypeOK
<1>10. EndedIsEmpty' /\ KilledIsNoted' /\ NothingIsCut' /\ DrainedBeforeRemoval' /\ OnlyItsContainer'
       /\ OutputWithinLimit'
  BY <1>1 DEF SandboxInv, EndedIsEmpty, KilledIsNoted, NothingIsCut, DrainedBeforeRemoval, OnlyItsContainer,
     OutputWithinLimit, Commanded
<1>. QED
  BY <1>6, <1>8, <1>9, <1>10 DEF SandboxInv

LEMMA SandboxStep == SandboxInv /\ [SandboxNext]_sandboxVars => SandboxInv'
<1>. SUFFICES ASSUME SandboxInv, [SandboxNext]_sandboxVars PROVE SandboxInv'
  OBVIOUS
<1>1. CASE UNCHANGED sandboxVars
  BY <1>1 DEF sandboxVars, SandboxInv, SandboxTypeOK, EvaluatorShape, EndedIsEmpty, KilledIsNoted,
     NothingIsCut, DrainedBeforeRemoval, OnlyItsContainer, OutputWithinLimit, PassedIsComplete
<1>. QED
  BY <1>1, EvaluatorMoves, StartStep, ReadStep, CommandEnds, WriteStep, RecordStep
  DEF SandboxNext, EvaluatorStep

LEMMA SandboxInvImplies == SandboxInv => PassedIsComplete /\ OutputWithinLimit /\ NoContainerLeft
BY DEF SandboxInv, OnlyItsContainer, NoContainerLeft, Ended


-------------------------------------------------------------------------------
(* The suite.  A behaviour takes the steps of one component; the others keep *)
(* what their initial state had.                                            *)

\* What holds of the suite for any constants: every component's own invariant.
SuiteInv ==
  /\ focus \in {"lease", "outbound", "daemon", "sandbox"}
  /\ In("lease", QueueInv) /\ In("outbound", DeviceShape)
  /\ In("daemon", TaskInv) /\ In("sandbox", SandboxInv)

LEMMA SuiteStart == Init => SuiteInv
BY QueueInit, DeviceStart, TaskStart, SandboxStart DEF Init, SuiteInv, In, DeviceInv

LEMMA SuiteStep == SuiteInv /\ [Next]_deliveryVars => SuiteInv'
<1>. SUFFICES ASSUME SuiteInv, [Next]_deliveryVars PROVE SuiteInv'
  OBVIOUS
<1>1. focus' = focus /\ focus \in {"lease", "outbound", "daemon", "sandbox"}
  BY DEF Next, LeaseRuns, OutboundRuns, DaemonRuns, SandboxRuns, deliveryVars, SuiteInv
<1>2. CASE focus = "lease"
  <2>1. QueueInv /\ [LeaseNext]_queueVars
    BY <1>2 DEF SuiteInv, In, Next, LeaseRuns, OutboundRuns, DaemonRuns, SandboxRuns, deliveryVars
  <2>2. QueueInv'
    BY <2>1, QueueStep
  <2>. QED
    BY <1>1, <1>2, <2>2 DEF SuiteInv, In
<1>3. CASE focus = "outbound"
  <2>1. DeviceShape /\ [OutboundNext]_outboundVars
    BY <1>3 DEF SuiteInv, In, Next, LeaseRuns, OutboundRuns, DaemonRuns, SandboxRuns, deliveryVars
  <2>2. DeviceShape'
    BY <2>1, ShapeStep
  <2>. QED
    BY <1>1, <1>3, <2>2 DEF SuiteInv, In
<1>4. CASE focus = "daemon"
  <2>1. TaskInv /\ [TermuxNext]_termuxVars
    BY <1>4 DEF SuiteInv, In, Next, LeaseRuns, OutboundRuns, DaemonRuns, SandboxRuns, deliveryVars
  <2>2. TaskInv'
    BY <2>1, TaskStep
  <2>. QED
    BY <1>1, <1>4, <2>2 DEF SuiteInv, In
<1>5. CASE focus = "sandbox"
  <2>1. SandboxInv /\ [SandboxNext]_sandboxVars
    BY <1>5 DEF SuiteInv, In, Next, LeaseRuns, OutboundRuns, DaemonRuns, SandboxRuns, deliveryVars
  <2>2. SandboxInv'
    BY <2>1, SandboxStep
  <2>. QED
    BY <1>1, <1>5, <2>2 DEF SuiteInv, In
<1>. QED
  BY <1>1, <1>2, <1>3, <1>4, <1>5

\* The supervisors' further invariant, and the device's, hold in the suite under
\* the assumptions they need.
LEMMA AttemptInSuite ==
  ASSUME DistinctWorkerIds, SuiteInv, In("lease", AttemptInv), [Next]_deliveryVars
  PROVE  In("lease", AttemptInv)'
<1>1. focus' = focus
  BY DEF Next, LeaseRuns, OutboundRuns, DaemonRuns, SandboxRuns, deliveryVars
<1>2. CASE focus = "lease"
  <2>1. QueueInv /\ AttemptInv /\ [LeaseNext]_queueVars
    BY <1>2 DEF SuiteInv, In, Next, LeaseRuns, OutboundRuns, DaemonRuns, SandboxRuns, deliveryVars
  <2>2. AttemptInv'
    BY <2>1, AttemptStep
  <2>. QED
    BY <2>2 DEF In
<1>. QED
  BY <1>1, <1>2 DEF In

LEMMA DeviceInSuite ==
  ASSUME NoncesFit, SuiteInv, In("outbound", DeviceInv), [Next]_deliveryVars
  PROVE  In("outbound", DeviceInv)'
<1>1. focus' = focus
  BY DEF Next, LeaseRuns, OutboundRuns, DaemonRuns, SandboxRuns, deliveryVars
<1>2. CASE focus = "outbound"
  <2>1. DeviceInv /\ [OutboundNext]_outboundVars
    BY <1>2 DEF SuiteInv, In, Next, LeaseRuns, OutboundRuns, DaemonRuns, SandboxRuns, deliveryVars
  <2>2. DeviceShape'
    BY <2>1, ShapeStep DEF DeviceInv
  <2>3. DeviceInv'
    BY <2>1, <2>2, DeviceStep
  <2>. QED
    BY <2>3 DEF In
<1>. QED
  BY <1>1, <1>2 DEF In

LEMMA SuiteHolds == Spec => []SuiteInv
BY SuiteStart, SuiteStep, PTL DEF Spec

\* The four components keep the shape of their state and its bounds for any
\* jobs, supervisors, tasks, validators and limits; no more than NonceCap nonces
\* stay in the worker's file (the row updates of supervisor.py, the spool and
\* seen_nonces.json, the tasks table and the sandbox's buffers).
THEOREM TypesHold == Spec => []DeliveryTypesOK
<1>1. SuiteInv => DeliveryTypesOK
  BY DEF SuiteInv, In, DeliveryTypesOK, QueueInv, DeviceShape, TaskInv, SandboxInv
<1>. QED
  BY <1>1, SuiteHolds, PTL

\* No job is tried beyond its budget, the result of a job is that of its last
\* attempt, a daemon's handler is called at most four times and once more for
\* each death of the daemon, and what the table calls VERIFIED has passed
\* (supervisor.py, recover_expired, claim_next and finish; centinal26_daemon.py,
\* recover, claim_next and execute_one).
THEOREM LeasesAreHonoured ==
  ASSUME DistinctWorkerIds
  PROVE  Spec => []LeaseIsHonoured
<1>1. Init => In("lease", AttemptInv)
  BY AttemptStart DEF Init, In
<1>2. SuiteInv /\ In("lease", AttemptInv) /\ [Next]_deliveryVars => In("lease", AttemptInv)'
  BY AttemptInSuite
<1>3. SuiteInv /\ In("lease", AttemptInv) => LeaseIsHonoured
  BY TaskInvImplies DEF SuiteInv, In, QueueInv, AttemptInv, LeaseIsHonoured
<1>. QED
  BY <1>1, <1>2, <1>3, SuiteHolds, PTL DEF Spec

\* A job runs at most once on the device although results are lost, answers are
\* late and the worker dies at any line, as long as the nonce file has not
\* dropped a nonce (outbound_worker.py, the nonce is stored before the run); and
\* a job whose result was accepted has run and is offered to nobody again.
THEOREM JobsRunOnce ==
  ASSUME NoncesFit
  PROVE  Spec => []DeliveredOnce
<1>1. Init => In("outbound", DeviceInv)
  BY DeviceStart DEF Init, In
<1>2. SuiteInv /\ In("outbound", DeviceInv) /\ [Next]_deliveryVars => In("outbound", DeviceInv)'
  BY DeviceInSuite
<1>3. In("outbound", DeviceInv) => DeliveredOnce
  BY DEF In, DeviceInv, DeliveredOnce
<1>. QED
  BY <1>1, <1>2, <1>3, SuiteHolds, PTL DEF Spec

\* A validator recorded as passed came to its end by itself with all it wrote in
\* the record, the buffers keep the limit, and no container is left unless
\* removing one failed, for any number of validators, limits and faults
\* (hard_sandbox.py, _bounded_communicate and evaluate).
THEOREM SandboxContains == Spec => []SandboxIsContained
<1>1. SuiteInv => SandboxIsContained
  BY SandboxInvImplies DEF SuiteInv, In, SandboxIsContained
<1>. QED
  BY <1>1, SuiteHolds, PTL
===============================================================================
