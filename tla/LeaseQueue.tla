------------------------------ MODULE LeaseQueue ------------------------------
(***************************************************************************)
(* The supervisor's durable queue: LeaseQueue and AsyncSupervisor of       *)
(* frost_core/supervisor.py.                                               *)
(*                                                                         *)
(* Every queue method is one SQLite transaction, hence one action.         *)
(* run_batch is several: it recovers, claims up to max_concurrency jobs    *)
(* and runs their handlers concurrently.  A supervisor never extends a     *)
(* lease by itself, so a lease may lapse under a handler that still runs,  *)
(* and finish() compares the worker id and not the attempt.                *)
(***************************************************************************)
EXTENDS Naturals, FiniteSets

CONSTANTS QueueJobs,     \* jobs, one per idempotency key
          Supervisors,   \* AsyncSupervisor processes
          WorkerId,      \* the worker_id each supervisor was given
          Priority,      \* priority of each job
          MaxAttempts,   \* max_attempts of each job
          Concurrency    \* max_concurrency

ASSUME QueueAssumption ==
  /\ Priority \in [QueueJobs -> Nat]
  /\ MaxAttempts \in [QueueJobs -> Nat \ {0}]
  /\ Concurrency \in Nat \ {0}
  /\ DOMAIN WorkerId = Supervisors

VARIABLES queued,   \* the jobs table
          overdue,  \* jobs whose lease_expires has passed
          super     \* each supervisor's run_batch

queueVars == <<queued, overdue, super>>

Finished == {"PASS", "REVIEW", "FAIL", "ERROR"}
Nobody == {}

\* result is the attempt whose handler produced result_json, 0 for none and for
\* the lease_expired marker; created orders submissions.
JobRows == [state : Finished \union {"ABSENT", "QUEUED", "RUNNING"}, attempts : Nat,
            owner : SUBSET {WorkerId[s] : s \in Supervisors}, result : Nat, created : Nat]

\* One execution a supervisor has in hand: the job and the attempt it was claimed as.
Executions == [job : QueueJobs, attempt : Nat]

LeaseTypeOK ==
  /\ queued \in [QueueJobs -> JobRows]
  /\ overdue \subseteq QueueJobs
  /\ super \in [Supervisors -> [pc : {"idle", "claiming", "running"}, batch : SUBSET Executions]]

LeaseInit ==
  /\ queued = [j \in QueueJobs |-> [state |-> "ABSENT", attempts |-> 0, owner |-> Nobody,
                                    result |-> 0, created |-> 0]]
  /\ overdue = {}
  /\ super = [s \in Supervisors |-> [pc |-> "idle", batch |-> {}]]

-------------------------------------------------------------------------------
\* A submission under a known idempotency key returns the row that is there.
SubmitJob(j) ==
  /\ queued[j].state = "ABSENT"
  /\ queued' = [queued EXCEPT ![j].state = "QUEUED",
                  ![j].created = Cardinality({i \in QueueJobs : queued[i].state # "ABSENT"}) + 1]
  /\ UNCHANGED <<overdue, super>>

\* Mutant: the budget is compared off by one.
RequeueOnceMore(r, max) == IF r.attempts <= max THEN "QUEUED" ELSE "ERROR"

\* Where an execution that gave no verdict leaves its job.
RequeueOrFail(r, max) == IF r.attempts < max THEN "QUEUED" ELSE "ERROR"

RecoveredJob(j) ==
  IF queued[j].state = "RUNNING" /\ j \in overdue
  THEN [queued[j] EXCEPT !.state = RequeueOrFail(queued[j], MaxAttempts[j]),
                         !.owner = Nobody, !.result = 0]
  ELSE queued[j]

\* Mutant: a batch claims without looking for expired leases first.
BatchWithoutRecovery(s) ==
  /\ super[s].pc = "idle"
  /\ super' = [super EXCEPT ![s].pc = "claiming"]
  /\ UNCHANGED <<queued, overdue>>

\* recover_expired, the first statement of run_batch.
StartBatch(s) ==
  /\ super[s].pc = "idle"
  /\ queued' = [j \in QueueJobs |-> RecoveredJob(j)]
  /\ overdue' = {j \in overdue : queued[j].state # "RUNNING"}
  /\ super' = [super EXCEPT ![s].pc = "claiming"]

\* ORDER BY priority DESC, created_at, id.
First(j) ==
  /\ queued[j].state = "QUEUED"
  /\ \A i \in QueueJobs \ {j} : queued[i].state = "QUEUED" =>
       \/ Priority[j] > Priority[i]
       \/ Priority[j] = Priority[i] /\ queued[j].created < queued[i].created

ClaimJob(s, j) ==
  /\ super[s].pc = "claiming" /\ Cardinality(super[s].batch) < Concurrency
  /\ First(j)
  /\ queued' = [queued EXCEPT ![j].state = "RUNNING", ![j].attempts = @ + 1,
                              ![j].owner = {WorkerId[s]}]
  /\ overdue' = overdue \ {j}
  /\ super' = [super EXCEPT ![s].batch =
                 @ \union {[job |-> j, attempt |-> queued[j].attempts + 1]}]

\* The batch is full or the queue is empty: the handlers run, or there are none.
StopClaiming(s) ==
  /\ super[s].pc = "claiming"
  /\ \/ Cardinality(super[s].batch) = Concurrency
     \/ \A j \in QueueJobs : queued[j].state # "QUEUED"
  /\ super' = [super EXCEPT ![s].pc = IF super[s].batch = {} THEN "idle" ELSE "running"]
  /\ UNCHANGED <<queued, overdue>>

\* Mutant: finish only asks whether the job is running.
LeasedByAnyone(s, j) == queued[j].state = "RUNNING"

LeasedBy(s, j) == queued[j].state = "RUNNING" /\ queued[j].owner = {WorkerId[s]}

\* A handler returns or raises, and finish() stores its verdict: a handler that
\* is not registered fails the job, one that raises is an ERROR and is retried.
FinishJob(s, x, verdict) ==
  /\ super[s].pc = "running" /\ x \in super[s].batch
  /\ LeasedBy(s, x.job)
  /\ LET r == queued[x.job] IN
       queued' = [queued EXCEPT ![x.job] =
         [r EXCEPT !.state = IF verdict = "ERROR" THEN RequeueOrFail(r, MaxAttempts[x.job])
                             ELSE verdict,
                   !.owner = Nobody, !.result = x.attempt]]
  /\ overdue' = overdue \ {x.job}
  /\ super' = [super EXCEPT ![s].batch = @ \ {x},
                            ![s].pc = IF super[s].batch = {x} THEN "idle" ELSE "running"]

\* finish() refuses: the exception leaves gather and ends the event loop, and
\* with it the other executions of the batch.
FinishRefused(s, x) ==
  /\ super[s].pc = "running" /\ x \in super[s].batch
  /\ ~LeasedBy(s, x.job)
  /\ super' = [super EXCEPT ![s] = [pc |-> "idle", batch |-> {}]]
  /\ UNCHANGED <<queued, overdue>>

\* heartbeat() by a handler that extends its own lease.
Heartbeat(s, x) ==
  /\ super[s].pc = "running" /\ x \in super[s].batch
  /\ LeasedBy(s, x.job) /\ x.job \in overdue
  /\ overdue' = overdue \ {x.job}
  /\ UNCHANGED <<queued, super>>

\* The process dies and is started again; it holds nothing then.
SupervisorDies(s) ==
  /\ super[s].batch # {}
  /\ super' = [super EXCEPT ![s] = [pc |-> "idle", batch |-> {}]]
  /\ UNCHANGED <<queued, overdue>>

\* A lease outlasts the claim loop of the batch it belongs to (lease_seconds is
\* a minute, the loop a few transactions), but not the handlers.
LeaseLapses(j) ==
  /\ queued[j].state = "RUNNING" /\ j \notin overdue
  /\ \A s \in Supervisors : super[s].pc = "claiming" => \A x \in super[s].batch : x.job # j
  /\ overdue' = overdue \union {j}
  /\ UNCHANGED <<queued, super>>

SupervisorStep(s) ==
  \/ StartBatch(s)
  \/ \E j \in QueueJobs : ClaimJob(s, j)
  \/ StopClaiming(s)
  \/ \E x \in super[s].batch :
       FinishRefused(s, x) \/ \E v \in Finished : FinishJob(s, x, v)

LeaseNext ==
  \/ \E j \in QueueJobs : SubmitJob(j) \/ LeaseLapses(j)
  \/ \E s \in Supervisors :
       SupervisorStep(s) \/ SupervisorDies(s) \/ \E x \in super[s].batch : Heartbeat(s, x)

\* Supervisors keep calling run_batch and handlers end; leases run out.
LeaseFairness ==
  /\ \A s \in Supervisors : WF_queueVars(SupervisorStep(s))
  /\ \A j \in QueueJobs : WF_queueVars(LeaseLapses(j))

LeaseSpec == LeaseInit /\ [][LeaseNext]_queueVars

-------------------------------------------------------------------------------
\* A job is never tried more often than its max_attempts, and one that is back
\* in the queue has an attempt left: four places compare the two numbers.
AttemptsWithinBudget ==
  \A j \in QueueJobs :
    /\ queued[j].attempts <= MaxAttempts[j]
    /\ queued[j].state = "QUEUED" => queued[j].attempts < MaxAttempts[j]

\* The result a job carries once it is not running is that of its last attempt:
\* an execution whose lease lapsed and was given to another supervisor is
\* refused, although finish() only compares worker ids.  Needs supervisors with
\* different worker ids, and leases that outlast the claim loop.
ResultOfLastAttempt ==
  \A j \in QueueJobs :
    queued[j].state # "RUNNING" /\ queued[j].result # 0 => queued[j].result = queued[j].attempts

\* Every submitted job is closed, however often handlers fail and supervisors die.
SubmittedJobsClose ==
  \A j \in QueueJobs : queued[j].state = "QUEUED" ~> queued[j].state \in Finished
===============================================================================
