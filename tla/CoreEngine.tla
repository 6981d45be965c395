------------------------------ MODULE CoreEngine ------------------------------
(***************************************************************************)
(* The first engine, Engine with its JobStore and AuditLog of              *)
(* centinal26/core.py.  next_job does not claim: two processes may run the *)
(* same queued job.  AuditLog.append reads the last line and then writes,  *)
(* so overlapping appends link to the same record.  The audit log of the   *)
(* automated pipeline and the device worker's Journal append the same way. *)
(***************************************************************************)
EXTENDS Naturals, FiniteSets, Sequences

CONSTANTS CoreJobs,   \* jobs
          Engines,    \* processes that submit and run jobs
          MaxDeaths   \* bound: processes killed

ASSUME CoreAssumption == IsFiniteSet(Engines) /\ MaxDeaths \in Nat

VARIABLES coreJob,   \* state of each job
          arrival,   \* submitted jobs by created_at
          expired,   \* jobs whose grant has expired
          audit,     \* audit records: for each the record it links to, 0 for the genesis hash
          engine,    \* the call each process is in
          coreRuns,  \* how often the capability of a job was executed
          deaths     \* processes killed so far

coreVars == <<coreJob, arrival, expired, audit, engine, coreRuns, deaths>>

\* Where a call stands: about to run, about to verify, or about to write an audit record.
AuditPoints == {"submitted", "rejected", "start", "failed", "executed", "judged"}
AfterAudit(pc) == CASE pc = "start" -> "run" [] pc = "executed" -> "verify" [] OTHER -> "idle"
AtRest == [pc |-> "idle", job |-> "none", read |-> FALSE, prev |-> 0]

CoreTypeOK ==
  /\ coreJob \in [CoreJobs -> {"absent", "queued", "rejected", "failed", "executed", "verified",
                               "verification_failed"}]
  /\ \A i \in DOMAIN arrival : arrival[i] \in CoreJobs
  /\ expired \subseteq CoreJobs
  /\ \A i \in DOMAIN audit : audit[i] \in 0..(i - 1)
  /\ engine \in [Engines -> [pc : AuditPoints \union {"idle", "run", "ran", "raised", "verify"},
                             job : CoreJobs \union {"none"}, read : BOOLEAN, prev : Nat]]
  /\ coreRuns \in [CoreJobs -> Nat]
  /\ deaths \in 0..MaxDeaths

CoreInit ==
  /\ coreJob = [j \in CoreJobs |-> "absent"] /\ arrival = <<>>
  /\ expired = {} /\ audit = <<>>
  /\ engine = [e \in Engines |-> AtRest]
  /\ coreRuns = [j \in CoreJobs |-> 0]
  /\ deaths = 0

At(e, pc, j) == [engine EXCEPT ![e] = [AtRest EXCEPT !.pc = pc, !.job = j]]

-------------------------------------------------------------------------------
\* submit stores the job under a grant that permits it, then writes the record.
SubmitCore(e, j) ==
  /\ engine[e].pc = "idle" /\ coreJob[j] = "absent" /\ j \notin expired
  /\ coreJob' = [coreJob EXCEPT ![j] = "queued"]
  /\ arrival' = Append(arrival, j)
  /\ engine' = At(e, "submitted", j)
  /\ UNCHANGED <<expired, audit, coreRuns, deaths>>

\* next_job: the oldest queued job, left in the queue.
NextJob ==
  LET queue == {i \in DOMAIN arrival : coreJob[arrival[i]] = "queued"}
  IN  IF queue = {} THEN "none" ELSE arrival[CHOOSE i \in queue : \A k \in queue : i <= k]

\* run_once checks the grant again before it starts.
TakeJob(e) ==
  /\ engine[e].pc = "idle" /\ NextJob # "none"
  /\ IF NextJob \in expired
     THEN /\ coreJob' = [coreJob EXCEPT ![NextJob] = "rejected"]
          /\ engine' = At(e, "rejected", NextJob)
     ELSE /\ engine' = At(e, "start", NextJob)
          /\ UNCHANGED coreJob
  /\ UNCHANGED <<arrival, expired, audit, coreRuns, deaths>>

\* Mutant: the hash of the last record is kept from the first append.
AuditKeepsFirst(e) ==
  /\ engine[e].pc \in AuditPoints /\ ~engine[e].read
  /\ engine' = [engine EXCEPT ![e].read = TRUE, ![e].prev = 0]
  /\ UNCHANGED <<coreJob, arrival, expired, audit, coreRuns, deaths>>

\* AuditLog.append reads the last line ...
AuditReads(e) ==
  /\ engine[e].pc \in AuditPoints /\ ~engine[e].read
  /\ engine' = [engine EXCEPT ![e].read = TRUE, ![e].prev = Len(audit)]
  /\ UNCHANGED <<coreJob, arrival, expired, audit, coreRuns, deaths>>

\* ... and appends a line with its hash.
AuditWrites(e) ==
  /\ engine[e].read
  /\ audit' = Append(audit, engine[e].prev)
  /\ engine' = IF AfterAudit(engine[e].pc) = "idle" THEN [engine EXCEPT ![e] = AtRest]
               ELSE At(e, AfterAudit(engine[e].pc), engine[e].job)
  /\ UNCHANGED <<coreJob, arrival, expired, coreRuns, deaths>>

Execute(e, outcome) ==
  /\ engine[e].pc = "run"
  /\ coreRuns' = [coreRuns EXCEPT ![engine[e].job] = @ + 1]
  /\ engine' = At(e, outcome, engine[e].job)
  /\ UNCHANGED <<coreJob, arrival, expired, audit, deaths>>

\* Mutant: a job that raised goes back to the queue.
RetryFailed(e) ==
  /\ engine[e].pc \in {"ran", "raised"}
  /\ LET state == IF engine[e].pc = "ran" THEN "executed" ELSE "queued" IN
       /\ coreJob' = [coreJob EXCEPT ![engine[e].job] = state]
       /\ engine' = At(e, IF engine[e].pc = "ran" THEN "executed" ELSE "failed", engine[e].job)
  /\ UNCHANGED <<arrival, expired, audit, coreRuns, deaths>>

\* The outcome is stored whatever state the job has by now.
StoreOutcome(e) ==
  /\ engine[e].pc \in {"ran", "raised"}
  /\ LET state == IF engine[e].pc = "ran" THEN "executed" ELSE "failed" IN
       /\ coreJob' = [coreJob EXCEPT ![engine[e].job] = state]
       /\ engine' = At(e, state, engine[e].job)
  /\ UNCHANGED <<arrival, expired, audit, coreRuns, deaths>>

\* A verifier that raises or returns something else fails the job.
VerifyJob(e, passed) ==
  /\ engine[e].pc = "verify"
  /\ coreJob' = [coreJob EXCEPT ![engine[e].job] =
                   IF passed THEN "verified" ELSE "verification_failed"]
  /\ engine' = At(e, "judged", engine[e].job)
  /\ UNCHANGED <<arrival, expired, audit, coreRuns, deaths>>

GrantExpires(j) ==
  /\ j \notin expired
  /\ expired' = expired \union {j}
  /\ UNCHANGED <<coreJob, arrival, audit, engine, coreRuns, deaths>>

EngineDies(e) ==
  /\ engine[e].pc # "idle" /\ deaths < MaxDeaths
  /\ engine' = [engine EXCEPT ![e] = AtRest]
  /\ deaths' = deaths + 1
  /\ UNCHANGED <<coreJob, arrival, expired, audit, coreRuns>>

CoreNext ==
  \/ \E j \in CoreJobs : GrantExpires(j)
  \/ \E e \in Engines :
       \/ \E j \in CoreJobs : SubmitCore(e, j)
       \/ TakeJob(e) \/ AuditReads(e) \/ AuditWrites(e) \/ StoreOutcome(e) \/ EngineDies(e)
       \/ \E outcome \in {"ran", "raised"} : Execute(e, outcome)
       \/ \E passed \in BOOLEAN : VerifyJob(e, passed)

CoreSpec == CoreInit /\ [][CoreNext]_coreVars

-------------------------------------------------------------------------------
\* A job is executed once per process that overlaps, and once more for each
\* death: nothing else makes a job run again.
RunsBounded == \A j \in CoreJobs : coreRuns[j] <= Cardinality(Engines) + deaths

\* The audit chain forks no wider than the processes that append to it.
AuditForksBounded ==
  \A i \in 0..Len(audit) :
    Cardinality({k \in DOMAIN audit : audit[k] = i}) <= Cardinality(Engines)
===============================================================================
