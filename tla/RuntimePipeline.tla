--------------------------- MODULE RuntimePipeline ---------------------------
(***************************************************************************)
(* RuntimeStore, EvidenceStore and AutomatedEngine of                      *)
(* src/centinal26/pipeline.py: the intent-to-state engine, run by any      *)
(* number of processes (auto-daemon, auto-run-once, the chat bridge) on    *)
(* one database and one evidence directory.                                *)
(*                                                                         *)
(* run_once() is a sequence of separately committed steps.  Each read that *)
(* a later write depends on, each commit and each evidence file is one     *)
(* action, and a process may die between any two of them.                  *)
(*                                                                         *)
(* Abstractions.  A job is named by its idempotency key, which is UNIQUE;  *)
(* submitting a key again changes nothing (it deduplicates or raises).     *)
(* All jobs ask for one capability, whose canonical state is what reducers *)
(* make of it: how often each job's output was folded in.  An evidence     *)
(* file is the pair of attempt and kind in its name.  A run_history row is *)
(* the job, the attempt and the outcome it tells.  The audit log records   *)
(* what happened and is read by no step.                                   *)
(***************************************************************************)
EXTENDS Naturals

CONSTANTS Jobs,        \* idempotency keys
          Engines,     \* processes that run AutomatedEngine.run_once
          Capable,     \* the engines at which the capability is registered
          MaxAttempts, \* CapabilitySpec.max_attempts
          HasReducer,  \* CapabilitySpec.reducer is not None
          Lossy,       \* the reducer may return what JSON does not give back as it was
          MaxClaims,   \* bound: claims of one job
          None

ASSUME PipelineAssumption ==
  /\ Capable \subseteq Engines
  /\ MaxAttempts \in Nat \ {0}
  /\ HasReducer \in BOOLEAN
  /\ Lossy \in BOOLEAN
  /\ MaxClaims \in Nat
  /\ None \notin Jobs

VARIABLES job,      \* the jobs table
          inserted, \* jobs inserted so far: orders created_at
          lapsed,   \* running jobs whose lease_until has passed
          expired,  \* jobs whose grant has expired
          canon,    \* the canonical_state row of the capability
          files,    \* files[j]: the evidence files of j
          history,  \* the run_history table
          engine,   \* where each run_once stands and what it holds in memory
          found     \* found[e]: the rows e's recover() has selected

outside == <<inserted, expired>>
vars == <<job, inserted, lapsed, expired, canon, files, history, engine, found>>

Closed == {"verified", "failed", "rejected", "failed_verification",
           "state_diverged", "state_update_failed"}
JobState == {"absent", "queued", "running"} \union Closed

Rows == [state : JobState, attempts : Nat, created : Nat]

Kinds == {"rejected", "execution-failure", "verified-output", "verification-failure",
          "state-divergence", "state-update-failure"}

Values == [Jobs -> Nat]
Empty == [j \in Jobs |-> 0]

\* The statements of run_once at which a process can be interrupted.
Steps == {"idle", "recover", "claim", "reread", "execute", "evidence", "retry",
          "read", "version", "write", "readback", "finish", "record"}

\* kind: the evidence to write or last written; outcome: the state to finish
\* the job in; seen and base: the canonical value and version read before.
Idle == [pc |-> "idle", job |-> None, attempt |-> 0, kind |-> "rejected",
         outcome |-> "absent", seen |-> Empty, base |-> 0]
Memory == [pc : Steps, job : Jobs \union {None}, attempt : Nat, kind : Kinds,
           outcome : JobState, seen : Values, base : Nat]

Init ==
  /\ job = [j \in Jobs |-> [state |-> "absent", attempts |-> 0, created |-> 0]]
  /\ inserted = 0
  /\ lapsed = {} /\ expired = {}
  /\ canon = [value |-> Empty, version |-> 0]
  /\ files = [j \in Jobs |-> {}]
  /\ history = {}
  /\ engine = [e \in Engines |-> Idle]
  /\ found = [e \in Engines |-> {}]

At(e, pc) == engine[e].pc = pc
Become(e, m) == engine' = [engine EXCEPT ![e] = m]

-------------------------------------------------------------------------------
(* Submission, grants and leases.                                           *)

\* AutomatedEngine.submit: the grant is valid and some engine has the capability.
Admitted(j) == j \notin expired /\ Capable # {}

\* RuntimeStore.submit: the INSERT the UNIQUE key admits.
Submit(j) ==
  /\ job[j].state = "absent"
  /\ Admitted(j)
  /\ job' = [job EXCEPT ![j] = [state |-> "queued", attempts |-> 0, created |-> inserted]]
  /\ inserted' = inserted + 1
  /\ UNCHANGED <<lapsed, expired, canon, files, history, engine, found>>

GrantExpires(j) ==
  /\ j \notin expired
  /\ expired' = expired \union {j}
  /\ UNCHANGED <<job, inserted, lapsed, canon, files, history, engine, found>>

LeaseLapses(j) ==
  /\ job[j].state = "running" /\ j \notin lapsed
  /\ lapsed' = lapsed \union {j}
  /\ UNCHANGED <<job, canon, files, history, engine, found, outside>>

-------------------------------------------------------------------------------
(* recover() and claim().                                                   *)

\* Mutant: an exhausted job is left running, with no lease.
RetryStateUnnamed(n) == IF n < MaxAttempts THEN "queued" ELSE "running"

\* The state of a job whose attempt did not come to an end.
RetryState(n) == IF n < MaxAttempts THEN "queued" ELSE "failed"

\* Mutant: expired leases are never selected.
ExpiredNever(j) == FALSE

Expired(j) == job[j].state = "running" /\ j \in lapsed

\* recover(): the SELECT runs in autocommit mode; the new state is computed
\* from the attempts it returned.
RecoverSelect(e) ==
  /\ At(e, "idle")
  /\ found' = [found EXCEPT ![e] = {[job |-> j, to |-> RetryState(job[j].attempts)] :
                                   j \in {i \in Jobs : Expired(i)}}]
  /\ Become(e, [engine[e] EXCEPT !.pc = "recover"])
  /\ UNCHANGED <<job, lapsed, canon, files, history, outside>>

\* recover(): UPDATE ... WHERE id=?, whatever became of the row since.
RecoverWrite(e) ==
  /\ At(e, "recover")
  /\ job' = [j \in Jobs |->
               IF \E f \in found[e] : f.job = j
               THEN [job[j] EXCEPT !.state = (CHOOSE f \in found[e] : f.job = j).to]
               ELSE job[j]]
  /\ lapsed' = lapsed \ {f.job : f \in found[e]}
  /\ found' = [found EXCEPT ![e] = {}]
  /\ Become(e, [engine[e] EXCEPT !.pc = "claim"])
  /\ UNCHANGED <<canon, files, history, outside>>

\* Mutant: everything that is not running is claimed.
QueuedUnlessRunning(j) == job[j].state \notin {"absent", "running"}

Queued(j) == job[j].state = "queued"

\* ORDER BY created_at,id LIMIT 1
Oldest(j) == Queued(j) /\ \A i \in Jobs : Queued(i) => job[j].created <= job[i].created

ClaimNothing(e) ==
  /\ At(e, "claim")
  /\ \A j \in Jobs : ~Queued(j)
  /\ Become(e, Idle)
  /\ UNCHANGED <<job, lapsed, canon, files, history, found, outside>>

\* One BEGIN IMMEDIATE transaction ...
Claim(e, j) ==
  /\ At(e, "claim")
  /\ Oldest(j)
  /\ job[j].attempts < MaxClaims
  /\ job' = [job EXCEPT ![j].state = "running", ![j].attempts = @ + 1]
  /\ lapsed' = lapsed \ {j}
  /\ Become(e, [Idle EXCEPT !.pc = "reread", !.job = j])
  /\ UNCHANGED <<canon, files, history, found, outside>>

\* ... and the claimed row is read again after it has committed.
Reread(e) ==
  /\ At(e, "reread")
  /\ Become(e, [engine[e] EXCEPT !.pc = "execute", !.attempt = job[engine[e].job].attempts])
  /\ UNCHANGED <<job, lapsed, canon, files, history, found, outside>>

-------------------------------------------------------------------------------
(* Execution, verification and evidence.                                    *)

Plan(e, kind, outcome) ==
  /\ Become(e, [engine[e] EXCEPT !.pc = "evidence", !.kind = kind, !.outcome = outcome])
  /\ UNCHANGED <<job, lapsed, canon, files, history, found, outside>>

\* The grant is checked again before execution.
Reject(e) ==
  /\ At(e, "execute")
  /\ e \notin Capable \/ engine[e].job \in expired
  /\ Plan(e, "rejected", "rejected")

Permitted(e) == At(e, "execute") /\ e \in Capable /\ engine[e].job \notin expired

\* The executor raised or ran out of time; retry() decides the outcome.
ExecutionFails(e) == Permitted(e) /\ Plan(e, "execution-failure", "queued")

VerificationFails(e) ==
  Permitted(e) /\ Plan(e, "verification-failure", "failed_verification")

\* Mutant: the canonical state is updated before the evidence is written.
VerificationPassesUnrecorded(e) ==
  /\ Permitted(e)
  /\ Become(e, [engine[e] EXCEPT !.pc = "read", !.kind = "verified-output",
                                 !.outcome = "verified"])
  /\ UNCHANGED <<job, lapsed, canon, files, history, found, outside>>

VerificationPasses(e) == Permitted(e) /\ Plan(e, "verified-output", "verified")

\* Where run_once continues once a file of this kind is on disk.
AfterEvidence(kind) ==
  CASE kind = "execution-failure" -> "retry"
    [] kind = "verified-output" -> IF HasReducer THEN "read" ELSE "finish"
    [] OTHER -> "finish"

\* Mutant: the file is skipped.
WriteNoEvidence(e) ==
  /\ At(e, "evidence")
  /\ Become(e, [engine[e] EXCEPT !.pc = AfterEvidence(engine[e].kind)])
  /\ UNCHANGED <<job, lapsed, canon, files, history, found, outside>>

\* EvidenceStore.write: a path is written once.
WriteEvidence(e) ==
  LET m == engine[e] IN
  /\ At(e, "evidence")
  /\ <<m.attempt, m.kind>> \notin files[m.job]
  /\ files' = [files EXCEPT ![m.job] = @ \union {<<m.attempt, m.kind>>}]
  /\ Become(e, [m EXCEPT !.pc = AfterEvidence(m.kind)])
  /\ UNCHANGED <<job, lapsed, canon, history, found, outside>>

\* The file just written does not verify: the output counts as unverified.
EvidenceIncomplete(e) ==
  LET m == engine[e] IN
  /\ At(e, "evidence")
  /\ m.kind = "verified-output"
  /\ <<m.attempt, m.kind>> \notin files[m.job]
  /\ files' = [files EXCEPT ![m.job] = @ \union {<<m.attempt, m.kind>>}]
  /\ Become(e, [m EXCEPT !.pc = "finish", !.outcome = "failed_verification"])
  /\ UNCHANGED <<job, lapsed, canon, history, found, outside>>

-------------------------------------------------------------------------------
(* The canonical state: get_state, reducer, set_state, read back.           *)

\* Mutant: the reducer starts from an empty state.
ReadNoState(e) ==
  /\ At(e, "read")
  /\ Become(e, [engine[e] EXCEPT !.pc = "version"])
  /\ UNCHANGED <<job, lapsed, canon, files, history, found, outside>>

ReadState(e) ==
  /\ At(e, "read")
  /\ Become(e, [engine[e] EXCEPT !.pc = "version", !.seen = canon.value])
  /\ UNCHANGED <<job, lapsed, canon, files, history, found, outside>>

\* set_state(): the version is read in autocommit mode ...
ReadVersion(e) ==
  /\ At(e, "version")
  /\ Become(e, [engine[e] EXCEPT !.pc = "write", !.base = canon.version])
  /\ UNCHANGED <<job, lapsed, canon, files, history, found, outside>>

\* What the reducer made of the state it was shown.
Reduced(e) == [engine[e].seen EXCEPT ![engine[e].job] = @ + 1]

\* ... and written, with the reduced value, in a transaction of its own.
WriteState(e) ==
  /\ At(e, "write")
  /\ canon' = [value |-> Reduced(e), version |-> engine[e].base + 1]
  /\ Become(e, [engine[e] EXCEPT !.pc = "readback"])
  /\ UNCHANGED <<job, lapsed, files, history, found, outside>>

ReadBack(e) ==
  /\ At(e, "readback")
  /\ canon.value = Reduced(e)
  /\ Become(e, [engine[e] EXCEPT !.pc = "finish"])
  /\ UNCHANGED <<job, lapsed, canon, files, history, found, outside>>

\* Another engine has written since, or json.loads does not undo json.dumps
\* (it does not for tuples and integer keys).
ReadBackDiverges(e) ==
  /\ At(e, "readback")
  /\ Lossy \/ canon.value # Reduced(e)
  /\ Plan(e, "state-divergence", "state_diverged")

\* The reducer, or a statement on the database, raises before or after the
\* new value is committed.  The handler also covers the statements that close
\* a diverged job: one of them raising, it is closed a second time.
StateUpdateRaises(e) ==
  /\ \/ engine[e].pc \in {"read", "version", "write", "readback"}
     \/ /\ engine[e].pc \in {"evidence", "finish", "record"}
        /\ engine[e].outcome = "state_diverged"
  /\ Plan(e, "state-update-failure", "state_update_failed")

-------------------------------------------------------------------------------
(* Closing the attempt.                                                     *)

\* retry(): the attempts are read in autocommit mode.
RetrySelect(e) ==
  /\ At(e, "retry")
  /\ Become(e, [engine[e] EXCEPT !.pc = "finish",
                                 !.outcome = RetryState(job[engine[e].job].attempts)])
  /\ UNCHANGED <<job, lapsed, canon, files, history, found, outside>>

\* finish(): UPDATE ... WHERE id=?, whoever holds the job now.
Finish(e) ==
  /\ At(e, "finish")
  /\ job' = [job EXCEPT ![engine[e].job].state = engine[e].outcome]
  /\ lapsed' = lapsed \ {engine[e].job}
  /\ Become(e, [engine[e] EXCEPT !.pc = "record"])
  /\ UNCHANGED <<canon, files, history, found, outside>>

\* record(), in a transaction of its own.
Record(e) ==
  /\ At(e, "record")
  /\ history' = history \union {[job |-> engine[e].job, attempt |-> engine[e].attempt,
                                outcome |-> engine[e].outcome]}
  /\ Become(e, Idle)
  /\ UNCHANGED <<job, lapsed, canon, files, found, outside>>

\* evolution_status(): the zero_state_divergence condition of the gate.
ZeroDivergence == \A h \in history : h.outcome # "state_diverged"

\* The process dies, or an exception (a FileExistsError of EvidenceStore,
\* say) leaves run_once.
EngineStops(e) ==
  /\ ~At(e, "idle")
  /\ Become(e, Idle)
  /\ found' = [found EXCEPT ![e] = {}]
  /\ UNCHANGED <<job, lapsed, canon, files, history, outside>>

-------------------------------------------------------------------------------

RunOnce(e) ==
  \/ RecoverSelect(e) \/ RecoverWrite(e)
  \/ ClaimNothing(e) \/ (\E j \in Jobs : Claim(e, j)) \/ Reread(e)
  \/ Reject(e) \/ ExecutionFails(e) \/ VerificationFails(e) \/ VerificationPasses(e)
  \/ WriteEvidence(e) \/ EvidenceIncomplete(e)
  \/ ReadState(e) \/ ReadVersion(e) \/ WriteState(e)
  \/ ReadBack(e) \/ ReadBackDiverges(e) \/ StateUpdateRaises(e)
  \/ RetrySelect(e) \/ Finish(e) \/ Record(e)

Next ==
  \/ \E j \in Jobs : Submit(j) \/ GrantExpires(j) \/ LeaseLapses(j)
  \/ \E e \in Engines : RunOnce(e) \/ EngineStops(e)

Spec == Init /\ [][Next]_vars

\* run_forever polls without end (a process that stops is started again), is
\* not killed every single time before it claims, and leases run out.
FairSpec ==
  /\ Spec
  /\ \A e \in Engines : WF_vars(RunOnce(e) \/ EngineStops(e))
  /\ \A e \in Engines : SF_vars(RecoverWrite(e)) /\ SF_vars(\E j \in Jobs : Claim(e, j))
  /\ \A j \in Jobs : WF_vars(LeaseLapses(j))

-------------------------------------------------------------------------------
(* Properties.                                                              *)

\* The tables, the evidence directory and the engines have their types.
TypeOK ==
  /\ job \in [Jobs -> Rows]
  /\ inserted \in Nat
  /\ lapsed \subseteq Jobs /\ expired \subseteq Jobs
  /\ canon \in [value : Values, version : Nat]
  /\ files \in [Jobs -> SUBSET (Nat \X Kinds)]
  /\ history \subseteq [job : Jobs, attempt : Nat, outcome : JobState]
  /\ engine \in [Engines -> Memory]
  /\ found \in [Engines -> SUBSET [job : Jobs, to : {"queued", "failed"}]]

Filed(j, kind) == \E f \in files[j] : f[2] = kind

\* "Canonical state is updated only after verification and evidence-integrity
\* checks pass": whatever engines overlap or die, nothing is folded into the
\* canonical state unless evidence of its verified output is on disk.
StateIsEvidenced ==
  \A j \in Jobs : canon.value[j] > 0 => Filed(j, "verified-output")

\* The evidence that each way of closing a job leaves behind.
Evidence(state) ==
  CASE state = "verified" -> {"verified-output"}
    [] state = "rejected" -> {"rejected"}
    [] state = "state_diverged" -> {"verified-output", "state-divergence"}
    [] state = "state_update_failed" -> {"verified-output", "state-update-failure"}
    [] OTHER -> {}

\* A job that some engine, even a superseded one, has closed as verified,
\* rejected, diverged or not updated has the evidence for it on disk, and so
\* has every run the evolution gate counts.
OutcomesAreEvidenced ==
  /\ \A j \in Jobs, kind \in Kinds : kind \in Evidence(job[j].state) => Filed(j, kind)
  /\ \A h \in history, kind \in Kinds :
       kind \in Evidence(h.outcome) => <<h.attempt, kind>> \in files[h.job]

\* A closed job keeps its outcome; only the handler of a failed state update
\* may replace a divergence.  Holds when one engine runs at a time.
ClosedIsFinal ==
  [][\A j \in Jobs :
       job[j].state \in Closed =>
         \/ job'[j].state = job[j].state
         \/ job[j].state = "state_diverged" /\ job'[j].state = "state_update_failed"]_vars

\* "Canonical state is read back after commit": a job reported verified is
\* reflected in the canonical state.  Holds when one engine executes the
\* capability.
VerifiedIsReflected ==
  \A j \in Jobs : job[j].state = "verified" /\ HasReducer => canon.value[j] > 0

\* Every submitted job is eventually closed, whatever crashes, times out or
\* fails on the way.
JobSettles == \A j \in Jobs : job[j].state = "queued" ~> job[j].state \in Closed

\* pipeline.py:590, "do not replay verified effects": no engine executes a job
\* whose output has already been verified.
VerifiedIsNotReplayed ==
  \A e \in Engines : Permitted(e) => ~Filed(engine[e].job, "verified-output")

\* "Divergence produces preserved evidence and closes the evolution-readiness
\* gate": with a diverged job the gate is closed, unless the engine is about to
\* record the run.
DivergenceClosesGate ==
  \A j \in Jobs :
    job[j].state = "state_diverged" =>
      ~ZeroDivergence \/ \E e \in Engines : At(e, "record")
==============================================================================
