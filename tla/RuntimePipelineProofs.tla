------------------------ MODULE RuntimePipelineProofs ------------------------
(***************************************************************************)
(* Proofs about RuntimePipeline, for any sets of jobs and engines, any     *)
(* retry budget, and engines that overlap and die in any way.              *)
(***************************************************************************)
EXTENDS RuntimePipeline, TLAPS

USE PipelineAssumption

Claimed == Steps \ {"idle", "recover", "claim"}
Reducing == {"read", "version", "write", "readback"}

\* What an engine's memory m owes to the files on disk.
MemoryOK(m) ==
  /\ m.pc \in Claimed => m.job \in Jobs
  /\ m.pc = "evidence" =>
       /\ \A k \in Evidence(m.outcome) \ {m.kind} : <<m.attempt, k>> \in files[m.job]
       /\ m.kind = "verified-output" => m.outcome = "verified"
  /\ m.pc \in Reducing =>
       m.outcome = "verified" /\ <<m.attempt, "verified-output">> \in files[m.job]
  /\ m.pc \in {"finish", "record"} =>
       \A k \in Evidence(m.outcome) : <<m.attempt, k>> \in files[m.job]
  /\ \A j \in Jobs : m.seen[j] > 0 => Filed(j, "verified-output")

MemoriesOK == \A e \in Engines : MemoryOK(engine[e])

PipelineInv == TypeOK /\ MemoriesOK /\ StateIsEvidenced /\ OutcomesAreEvidenced

-------------------------------------------------------------------------------
(* Operators.                                                               *)

\* The constants the actions write have their types.
LEMMA ConstantTypes ==
  /\ Empty \in Values /\ Idle \in Memory
  /\ Idle.pc = "idle" /\ Idle.seen = Empty
  /\ \A n \in Nat : RetryState(n) \in {"queued", "failed"}
BY DEF Empty, Values, Idle, Memory, Steps, Kinds, JobState, RetryState

\* The evidence of each outcome, spelled out.
LEMMA EvidenceOf ==
  /\ Evidence("verified") = {"verified-output"}
  /\ Evidence("rejected") = {"rejected"}
  /\ Evidence("state_diverged") = {"verified-output", "state-divergence"}
  /\ Evidence("state_update_failed") = {"verified-output", "state-update-failure"}
  /\ Evidence("queued") = {} /\ Evidence("failed") = {} /\ Evidence("running") = {}
  /\ Evidence("absent") = {} /\ Evidence("failed_verification") = {}
  /\ \A s : Evidence(s) \subseteq Kinds
BY DEF Evidence, Kinds

\* Columns of an engine's memory.
LEMMA MemoryColumns ==
  ASSUME TypeOK, NEW e \in Engines
  PROVE  /\ engine[e] \in Memory
         /\ engine[e].pc \in Steps /\ engine[e].job \in Jobs \union {None}
         /\ engine[e].attempt \in Nat /\ engine[e].kind \in Kinds
         /\ engine[e].outcome \in JobState /\ engine[e].seen \in Values
         /\ engine[e].base \in Nat
BY SMTT(40) DEF TypeOK, Memory

\* Every update of an engine's memory the steps of run_once make.
LEMMA MemoryUpdates ==
  ASSUME NEW m \in Memory, NEW p \in Steps
  PROVE  /\ [m EXCEPT !.pc = p] \in Memory
         /\ \A j \in Jobs : [m EXCEPT !.pc = p, !.job = j] \in Memory
         /\ \A n \in Nat : [m EXCEPT !.pc = p, !.attempt = n] \in Memory
         /\ \A k \in Kinds, s \in JobState :
              [m EXCEPT !.pc = p, !.kind = k, !.outcome = s] \in Memory
         /\ \A s \in JobState : [m EXCEPT !.pc = p, !.outcome = s] \in Memory
         /\ \A v \in Values : [m EXCEPT !.pc = p, !.seen = v] \in Memory
         /\ \A n \in Nat : [m EXCEPT !.pc = p, !.base = n] \in Memory
BY DEF Memory

\* One engine's memory changes.
LEMMA BecomeEffect ==
  ASSUME TypeOK, NEW e \in Engines, NEW m \in Memory, Become(e, m)
  PROVE  /\ engine' \in [Engines -> Memory]
         /\ engine'[e] = m
         /\ \A d \in Engines \ {e} : engine'[d] = engine[d]
BY DEF TypeOK, Become

\* Files are only added, so what a memory relies on stays on disk.
LEMMA FilesStay ==
  ASSUME NEW m \in Memory, MemoryOK(m), \A j \in Jobs : files[j] \subseteq files'[j]
  PROVE  MemoryOK(m)'
<1>1. \A j \in Jobs : Filed(j, "verified-output") => Filed(j, "verified-output")'
  BY DEF Filed
<1>2. m.pc = "evidence" \/ m.pc \in Reducing \/ m.pc \in {"finish", "record"} => m.job \in Jobs
  BY DEF MemoryOK, Claimed, Steps, Reducing
<1>. QED
  BY <1>1, <1>2 DEF MemoryOK

\* A step of one engine that leaves a memory in good order.
LEMMA EngineStep ==
  ASSUME TypeOK, MemoriesOK, NEW e \in Engines, NEW m \in Memory, Become(e, m),
         MemoryOK(m)', \A j \in Jobs : files[j] \subseteq files'[j]
  PROVE  MemoriesOK' /\ engine' \in [Engines -> Memory]
<1>1. /\ engine' \in [Engines -> Memory]
      /\ engine'[e] = m
      /\ \A d \in Engines \ {e} : engine'[d] = engine[d]
  BY BecomeEffect
<1>2. ASSUME NEW d \in Engines, d # e
      PROVE  MemoryOK(engine[d])'
  <2>1. PICK n \in Memory : n = engine[d]
    BY DEF TypeOK
  <2>2. MemoryOK(n)'
    BY <2>1, FilesStay DEF MemoriesOK
  <2>3. engine'[d] = n
    BY <1>1, <1>2, <2>1
  <2>. QED
    BY <2>2, <2>3
<1>3. MemoryOK(engine[e])'
  BY <1>1
<1>. QED
  BY <1>1, <1>2, <1>3 DEF MemoriesOK

\* Steps that change neither the canonical state nor the tables.
LEMMA QuietTables ==
  ASSUME PipelineInv, UNCHANGED <<job, canon, history>>,
         \A j \in Jobs : files[j] \subseteq files'[j]
  PROVE  StateIsEvidenced' /\ OutcomesAreEvidenced'
<1>1. \A j \in Jobs, k \in Kinds : Filed(j, k) => Filed(j, k)'
  BY DEF Filed
<1>2. "verified-output" \in Kinds
  BY DEF Kinds
<1>3. StateIsEvidenced'
  BY <1>1, <1>2 DEF PipelineInv, StateIsEvidenced
<1>4. OutcomesAreEvidenced'
  <2>1. \A h \in history : h.job \in Jobs
    BY DEF PipelineInv, TypeOK
  <2>. QED
    BY <1>1, <2>1 DEF PipelineInv, OutcomesAreEvidenced
<1>. QED
  BY <1>3, <1>4

\* A step of one engine that changes its memory and, at most, adds files.
LEMMA QuietStep ==
  ASSUME PipelineInv, NEW e \in Engines, NEW m \in Memory, Become(e, m), MemoryOK(m)',
         UNCHANGED <<job, lapsed, canon, history, outside>>,
         files' \in [Jobs -> SUBSET (Nat \X Kinds)],
         \A j \in Jobs : files[j] \subseteq files'[j],
         found' \in [Engines -> SUBSET [job : Jobs, to : {"queued", "failed"}]]
  PROVE  PipelineInv'
<1>1. MemoriesOK' /\ engine' \in [Engines -> Memory]
  BY EngineStep DEF PipelineInv
<1>2. StateIsEvidenced' /\ OutcomesAreEvidenced'
  BY QuietTables
<1>3. TypeOK'
  BY <1>1 DEF PipelineInv, TypeOK, outside
<1>. QED
  BY <1>1, <1>2, <1>3 DEF PipelineInv

\* The same for the steps that change nothing but the memory.
LEMMA ThinkingStep ==
  ASSUME PipelineInv, NEW e \in Engines, NEW m \in Memory, Become(e, m), MemoryOK(m),
         UNCHANGED <<job, lapsed, canon, files, history, found, outside>>
  PROVE  PipelineInv'
<1>1. MemoryOK(m)'
  BY FilesStay
<1>. QED
  BY <1>1, QuietStep DEF PipelineInv, TypeOK

\* An engine that holds nothing owes nothing.
LEMMA IdleOwesNothing == MemoryOK(Idle) /\ MemoryOK(Idle)'
<1>1. \A j \in Jobs : ~(Idle.seen[j] > 0)
  <2>1. \A j \in Jobs : Empty[j] = 0
    BY DEF Empty
  <2>2. \A j \in Jobs : Idle.seen[j] = 0
    BY <2>1, ConstantTypes, Zenon
  <2>3. ~(0 > 0)
    OBVIOUS
  <2>. QED
    BY <2>2, <2>3, Zenon
<1>2. Idle.pc \notin Claimed /\ Idle.pc # "evidence" /\ Idle.pc \notin Reducing
      /\ Idle.pc \notin {"finish", "record"}
  BY ConstantTypes DEF Claimed, Reducing
<1>. QED
  BY <1>1, <1>2 DEF MemoryOK

-------------------------------------------------------------------------------
(* The initial state and the steps outside run_once.                        *)

LEMMA Initially == Init => PipelineInv
<1>. SUFFICES ASSUME Init PROVE PipelineInv
  OBVIOUS
<1>1. TypeOK
  BY ConstantTypes DEF Init, TypeOK, Rows, JobState
<1>2. MemoriesOK
  <2>1. \A e \in Engines : engine[e] = Idle
    BY DEF Init
  <2>. QED
    BY <2>1, IdleOwesNothing DEF MemoriesOK
<1>3. StateIsEvidenced
  BY DEF Init, StateIsEvidenced, Empty
<1>4. OutcomesAreEvidenced
  BY EvidenceOf DEF Init, OutcomesAreEvidenced
<1>. QED
  BY <1>1, <1>2, <1>3, <1>4 DEF PipelineInv

\* A change of the jobs table that engines and files are not party to.
LEMMA JobsStep ==
  ASSUME PipelineInv, UNCHANGED <<canon, files, history>>,
         job' \in [Jobs -> Rows], lapsed' \subseteq Jobs,
         inserted' \in Nat, expired' \subseteq Jobs,
         found' \in [Engines -> SUBSET [job : Jobs, to : {"queued", "failed"}]],
         engine' \in [Engines -> Memory], MemoriesOK',
         \A j \in Jobs : \/ job'[j].state = job[j].state
                         \/ \A k \in Evidence(job'[j].state) : Filed(j, k)
  PROVE  PipelineInv'
<1>1. TypeOK'
  BY DEF PipelineInv, TypeOK
<1>2. StateIsEvidenced'
  BY DEF PipelineInv, StateIsEvidenced, Filed
<1>3. OutcomesAreEvidenced'
  BY DEF PipelineInv, OutcomesAreEvidenced, Filed
<1>. QED
  BY <1>1, <1>2, <1>3 DEF PipelineInv

LEMMA OutsideSteps ==
  ASSUME PipelineInv, NEW j \in Jobs, Submit(j) \/ GrantExpires(j) \/ LeaseLapses(j)
  PROVE  PipelineInv'
<1>1. MemoriesOK' /\ engine' \in [Engines -> Memory]
  <2>1. engine' = engine /\ files' = files
    BY DEF Submit, GrantExpires, LeaseLapses
  <2>. QED
    BY <2>1 DEF PipelineInv, TypeOK, MemoriesOK, MemoryOK, Filed
<1>2. CASE Submit(j)
  <2>1. \A i \in Jobs : job'[i].state = job[i].state \/ job'[i].state = "queued"
    BY <1>2 DEF Submit, PipelineInv, TypeOK
  <2>2. job' \in [Jobs -> Rows] /\ inserted' \in Nat
    BY <1>2 DEF Submit, PipelineInv, TypeOK, Rows, JobState
  <2>. QED
    BY <1>1, <1>2, <2>1, <2>2, EvidenceOf, JobsStep DEF Submit, PipelineInv, TypeOK
<1>3. CASE GrantExpires(j)
  BY <1>1, <1>3, JobsStep DEF GrantExpires, PipelineInv, TypeOK
<1>4. CASE LeaseLapses(j)
  BY <1>1, <1>4, JobsStep DEF LeaseLapses, outside, PipelineInv, TypeOK
<1>. QED
  BY <1>2, <1>3, <1>4

-------------------------------------------------------------------------------
(* Steps of run_once that change the engine's memory only.                  *)

\* What the memory of an engine of a good state says.
LEMMA Held ==
  ASSUME PipelineInv, NEW e \in Engines
  PROVE  MemoryOK(engine[e]) /\ engine[e] \in Memory
BY DEF PipelineInv, MemoriesOK, TypeOK

\* Planning what evidence to write next.
LEMMA PlanStep ==
  ASSUME PipelineInv, NEW e \in Engines, NEW k \in Kinds, NEW s \in JobState,
         engine[e].pc \in Claimed, Plan(e, k, s),
         \A i \in Evidence(s) \ {k} : <<engine[e].attempt, i>> \in files[engine[e].job],
         k = "verified-output" => s = "verified"
  PROVE  PipelineInv'
<1>. DEFINE m == [engine[e] EXCEPT !.pc = "evidence", !.kind = k, !.outcome = s]
<1>1. MemoryOK(engine[e]) /\ engine[e] \in Memory
  BY Held, SMTT(40)
<1>2. m \in Memory
  BY <1>1, MemoryUpdates DEF Steps
<1>3. /\ m.pc = "evidence" /\ m.kind = k /\ m.outcome = s /\ m.job = engine[e].job
      /\ m.attempt = engine[e].attempt /\ m.seen = engine[e].seen
  BY <1>1 DEF Memory
<1>4. Become(e, m) /\ UNCHANGED <<job, lapsed, canon, files, history, found, outside>>
  BY DEF Plan
<1>. HIDE DEF m
<1>5. MemoryOK(m)
  BY <1>1, <1>3 DEF MemoryOK, Reducing
<1>. QED
  BY <1>2, <1>4, <1>5, ThinkingStep

\* Going on to another statement, with the same job and the same verdict.
LEMMA GoOn ==
  ASSUME PipelineInv, NEW e \in Engines, NEW m \in Memory, Become(e, m),
         UNCHANGED <<job, lapsed, canon, files, history, found, outside>>,
         m.job = engine[e].job, m.attempt = engine[e].attempt,
         m.outcome = engine[e].outcome, engine[e].pc \in Claimed,
         m.pc \in Reducing \union {"execute"},
         engine[e].pc \in Reducing \/ m.pc = "execute",
         \A j \in Jobs : m.seen[j] > 0 => Filed(j, "verified-output")
  PROVE  PipelineInv'
<1>1. MemoryOK(m)
  BY Held DEF MemoryOK, Reducing
<1>. QED
  BY <1>1, ThinkingStep

LEMMA SelectingSteps ==
  ASSUME PipelineInv, NEW e \in Engines, RecoverSelect(e) \/ ClaimNothing(e) \/ EngineStops(e)
  PROVE  PipelineInv'
<1>1. MemoryOK(engine[e]) /\ engine[e] \in Memory /\ TypeOK
  BY Held DEF PipelineInv
<1>2. CASE RecoverSelect(e)
  <2>. DEFINE S == {[job |-> j, to |-> RetryState(job[j].attempts)] : j \in {i \in Jobs : Expired(i)}}
  <2>1. PICK m \in Memory : m = [engine[e] EXCEPT !.pc = "recover"]
    BY <1>1, MemoryUpdates DEF Steps
  <2>2. m.pc = "recover" /\ m.seen = engine[e].seen
    BY <1>1, <2>1 DEF Memory
  <2>3. S \subseteq [job : Jobs, to : {"queued", "failed"}]
    <3>1. \A j \in Jobs : job[j].attempts \in Nat
      BY <1>1 DEF TypeOK, Rows
    <3>. QED
      BY <3>1, ConstantTypes
  <2>4. Become(e, m) /\ found' = [found EXCEPT ![e] = S]
        /\ UNCHANGED <<job, lapsed, canon, files, history, outside>>
    BY <1>2, <2>1 DEF RecoverSelect
  <2>. HIDE DEF S
  <2>5. found' \in [Engines -> SUBSET [job : Jobs, to : {"queued", "failed"}]]
    BY <1>1, <2>3, <2>4 DEF TypeOK
  <2>6. MemoryOK(m)'
    <3>1. MemoryOK(m)
      BY <1>1, <2>2 DEF MemoryOK, Claimed, Reducing
    <3>. QED
      BY <2>1, <2>4, <3>1, FilesStay
  <2>. QED
    BY <1>1, <2>1, <2>4, <2>5, <2>6, QuietStep, SMTT(40) DEF TypeOK
<1>3. CASE ClaimNothing(e)
  BY <1>3, ConstantTypes, IdleOwesNothing, ThinkingStep DEF ClaimNothing
<1>4. CASE EngineStops(e)
  <2>1. found' \in [Engines -> SUBSET [job : Jobs, to : {"queued", "failed"}]]
    BY <1>1, <1>4 DEF EngineStops, TypeOK
  <2>. QED
    BY <1>1, <1>4, <2>1, ConstantTypes, IdleOwesNothing, QuietStep DEF EngineStops, TypeOK
<1>. QED
  BY <1>2, <1>3, <1>4

\* Reread, ReadState, ReadVersion, ReadBack and RetrySelect.
LEMMA ReadingSteps ==
  ASSUME PipelineInv, NEW e \in Engines,
         Reread(e) \/ ReadState(e) \/ ReadVersion(e) \/ ReadBack(e) \/ RetrySelect(e)
  PROVE  PipelineInv'
<1>1. MemoryOK(engine[e]) /\ engine[e] \in Memory /\ TypeOK /\ StateIsEvidenced
  BY Held DEF PipelineInv
<1>2. \A j \in Jobs : engine[e].seen[j] > 0 => Filed(j, "verified-output")
  BY <1>1 DEF MemoryOK
<1>3. \A j \in Jobs : job[j].attempts \in Nat
  BY <1>1 DEF TypeOK, Rows
<1>4. engine[e].pc \in Claimed => engine[e].job \in Jobs
  BY <1>1 DEF MemoryOK
<1>5. CASE Reread(e)
  <2>. DEFINE n == job[engine[e].job].attempts
              m == [engine[e] EXCEPT !.pc = "execute", !.attempt = n]
  <2>1. n \in Nat
    BY <1>3, <1>4, <1>5, SMTT(40) DEF Reread, At, Claimed, Steps
  <2>2. m \in Memory
    BY <1>1, <2>1, MemoryUpdates, ZenonT(60) DEF Steps
  <2>3. m.pc = "execute" /\ m.seen = engine[e].seen /\ m.job = engine[e].job
    BY <1>1 DEF Memory
  <2>4. Become(e, m) /\ UNCHANGED <<job, lapsed, canon, files, history, found, outside>>
        /\ engine[e].pc = "reread"
    BY <1>5 DEF Reread, At
  <2>. HIDE DEF m
  <2>5. MemoryOK(m)
    BY <1>2, <1>4, <2>3, <2>4 DEF MemoryOK, Claimed, Reducing, Steps
  <2>. QED
    BY <2>2, <2>4, <2>5, ThinkingStep
<1>6. CASE ReadState(e)
  <2>. DEFINE m == [engine[e] EXCEPT !.pc = "version", !.seen = canon.value]
  <2>1. m \in Memory
    BY <1>1, MemoryUpdates DEF Steps, TypeOK
  <2>2. /\ m.pc = "version" /\ m.seen = canon.value /\ m.job = engine[e].job
        /\ m.attempt = engine[e].attempt /\ m.outcome = engine[e].outcome
    BY <1>1 DEF Memory
  <2>3. Become(e, m) /\ UNCHANGED <<job, lapsed, canon, files, history, found, outside>>
        /\ engine[e].pc = "read"
    BY <1>6 DEF ReadState, At
  <2>. HIDE DEF m
  <2>. QED
    BY <1>1, <2>1, <2>2, <2>3, GoOn DEF Reducing, Claimed, Steps, StateIsEvidenced
<1>7. CASE ReadVersion(e)
  <2>. DEFINE m == [engine[e] EXCEPT !.pc = "write", !.base = canon.version]
  <2>1. m \in Memory
    BY <1>1, MemoryUpdates, ZenonT(60) DEF Steps, TypeOK
  <2>2. /\ m.pc = "write" /\ m.seen = engine[e].seen /\ m.job = engine[e].job
        /\ m.attempt = engine[e].attempt /\ m.outcome = engine[e].outcome
    BY <1>1 DEF Memory
  <2>3. Become(e, m) /\ UNCHANGED <<job, lapsed, canon, files, history, found, outside>>
        /\ engine[e].pc = "version"
    BY <1>7 DEF ReadVersion, At
  <2>. HIDE DEF m
  <2>. QED
    BY <1>2, <2>1, <2>2, <2>3, GoOn, SMTT(40) DEF Reducing, Claimed, Steps
<1>8. CASE ReadBack(e)
  <2>. DEFINE m == [engine[e] EXCEPT !.pc = "finish"]
  <2>1. m \in Memory
    BY <1>1, MemoryUpdates DEF Steps
  <2>2. /\ m.pc = "finish" /\ m.seen = engine[e].seen /\ m.job = engine[e].job
        /\ m.attempt = engine[e].attempt /\ m.outcome = engine[e].outcome
    BY <1>1 DEF Memory
  <2>3. Become(e, m) /\ UNCHANGED <<job, lapsed, canon, files, history, found, outside>>
        /\ engine[e].pc = "readback"
    BY <1>8 DEF ReadBack, At
  <2>. HIDE DEF m
  <2>4. MemoryOK(m)
    BY <1>1, <2>2, <2>3, EvidenceOf DEF MemoryOK, Claimed, Reducing, Steps
  <2>. QED
    BY <2>1, <2>3, <2>4, ThinkingStep
<1>9. CASE RetrySelect(e)
  <2>1. PICK s \in JobState : /\ s = RetryState(job[engine[e].job].attempts)
                              /\ s \in {"queued", "failed"}
    <3>1. RetryState(job[engine[e].job].attempts) \in {"queued", "failed"}
      BY <1>3, <1>4, <1>9, ConstantTypes DEF RetrySelect, At, Claimed, Steps
    <3>2. {"queued", "failed"} \subseteq JobState
      BY SMTT(40) DEF JobState, Closed
    <3>. QED
      BY <3>1, <3>2, Zenon
  <2>. DEFINE m == [engine[e] EXCEPT !.pc = "finish", !.outcome = s]
  <2>2. m \in Memory
    BY <1>1, MemoryUpdates DEF Steps
  <2>3. m.pc = "finish" /\ m.seen = engine[e].seen /\ m.job = engine[e].job /\ m.outcome = s
    BY <1>1 DEF Memory
  <2>4. Become(e, m) /\ UNCHANGED <<job, lapsed, canon, files, history, found, outside>>
        /\ engine[e].pc = "retry"
    BY <1>9, <2>1 DEF RetrySelect, At
  <2>. HIDE DEF m
  <2>5. MemoryOK(m)
    BY <1>2, <1>4, <2>1, <2>3, <2>4, EvidenceOf DEF MemoryOK, Claimed, Reducing, Steps
  <2>. QED
    BY <2>2, <2>4, <2>5, ThinkingStep
<1>. QED
  BY <1>5, <1>6, <1>7, <1>8, <1>9

\* Reject, the three verdicts, ReadBackDiverges and StateUpdateRaises.
LEMMA VerdictSteps ==
  ASSUME PipelineInv, NEW e \in Engines,
         \/ Reject(e) \/ ExecutionFails(e) \/ VerificationFails(e) \/ VerificationPasses(e)
         \/ ReadBackDiverges(e) \/ StateUpdateRaises(e)
  PROVE  PipelineInv'
<1>1. MemoryOK(engine[e])
  BY Held
<1>2. CASE Reject(e)
  BY <1>2, EvidenceOf, PlanStep DEF Reject, At, Claimed, Steps, Kinds, JobState, Closed
<1>3. CASE ExecutionFails(e)
  BY <1>3, EvidenceOf, PlanStep
  DEF ExecutionFails, Permitted, At, Claimed, Steps, Kinds, JobState
<1>4. CASE VerificationFails(e)
  BY <1>4, EvidenceOf, PlanStep
  DEF VerificationFails, Permitted, At, Claimed, Steps, Kinds, JobState, Closed
<1>5. CASE VerificationPasses(e)
  BY <1>5, EvidenceOf, PlanStep
  DEF VerificationPasses, Permitted, At, Claimed, Steps, Kinds, JobState, Closed
<1>6. CASE ReadBackDiverges(e)
  <2>1. <<engine[e].attempt, "verified-output">> \in files[engine[e].job]
    BY <1>1, <1>6 DEF ReadBackDiverges, At, MemoryOK, Reducing
  <2>. QED
    BY <1>6, <2>1, EvidenceOf, PlanStep
    DEF ReadBackDiverges, At, Claimed, Steps, Kinds, JobState, Closed
<1>7. CASE StateUpdateRaises(e)
  <2>1. <<engine[e].attempt, "verified-output">> \in files[engine[e].job]
    BY <1>1, <1>7, EvidenceOf DEF StateUpdateRaises, MemoryOK, Reducing
  <2>2. engine[e].pc \in Claimed
    BY <1>7 DEF StateUpdateRaises, Claimed, Steps
  <2>. QED
    BY <1>7, <2>1, <2>2, EvidenceOf, PlanStep DEF StateUpdateRaises, Kinds, JobState, Closed
<1>. QED
  BY <1>2, <1>3, <1>4, <1>5, <1>6, <1>7

-------------------------------------------------------------------------------
(* Evidence, canonical state and tables.                                    *)

\* Where run_once goes after a file is written.
LEMMA AfterEvidenceOf ==
  ASSUME NEW k \in Kinds
  PROVE  /\ AfterEvidence(k) \in {"retry", "read", "finish"}
         /\ AfterEvidence(k) = "read" => k = "verified-output"
BY DEF AfterEvidence, Kinds

LEMMA EvidenceSteps ==
  ASSUME PipelineInv, NEW e \in Engines, WriteEvidence(e) \/ EvidenceIncomplete(e)
  PROVE  PipelineInv'
<1>1. MemoryOK(engine[e]) /\ engine[e] \in Memory /\ TypeOK
  BY Held DEF PipelineInv
<1>2. PICK o \in Memory : o = engine[e]
  BY <1>1
<1>3. /\ o.job \in Jobs /\ o.attempt \in Nat /\ o.kind \in Kinds /\ o.pc = "evidence"
      /\ o.outcome \in JobState
  BY <1>1, <1>2 DEF WriteEvidence, EvidenceIncomplete, At, MemoryOK, Claimed, Steps, Memory
<1>4. /\ files' = [files EXCEPT ![o.job] = @ \union {<<o.attempt, o.kind>>}]
      /\ UNCHANGED <<job, lapsed, canon, history, found, outside>>
  BY <1>2 DEF WriteEvidence, EvidenceIncomplete
<1>5. /\ files' \in [Jobs -> SUBSET (Nat \X Kinds)]
      /\ \A j \in Jobs : files[j] \subseteq files'[j]
      /\ <<o.attempt, o.kind>> \in files'[o.job]
  BY <1>1, <1>3, <1>4 DEF TypeOK
<1>6. MemoryOK(o)'
  BY <1>1, <1>2, <1>5, FilesStay
<1>7. \A k \in Evidence(o.outcome) : <<o.attempt, k>> \in files'[o.job]
  BY <1>3, <1>5, <1>6 DEF MemoryOK
<1>8. CASE WriteEvidence(e)
  <2>1. PICK p \in {"retry", "read", "finish"} :
          p = AfterEvidence(o.kind) /\ (p = "read" => o.kind = "verified-output")
    BY <1>3, AfterEvidenceOf
  <2>2. PICK m \in Memory : m = [o EXCEPT !.pc = p]
    BY <2>1 DEF Memory, Steps
  <2>3. /\ m.pc = p /\ m.seen = o.seen /\ m.job = o.job /\ m.attempt = o.attempt
        /\ m.outcome = o.outcome
    BY <2>2 DEF Memory
  <2>4. Become(e, m)
    BY <1>2, <1>8, <2>1, <2>2 DEF WriteEvidence
  <2>5. p = "read" => o.outcome = "verified" /\ o.kind = "verified-output"
    BY <1>3, <1>6, <2>1 DEF MemoryOK
  <2>6. MemoryOK(m)'
    BY <1>3, <1>5, <1>6, <1>7, <2>1, <2>3, <2>5 DEF MemoryOK, Reducing
  <2>. QED
    BY <1>1, <1>4, <1>5, <2>4, <2>6, QuietStep DEF TypeOK
<1>9. CASE EvidenceIncomplete(e)
  <2>1. PICK m \in Memory : m = [o EXCEPT !.pc = "finish", !.outcome = "failed_verification"]
    BY MemoryUpdates DEF Steps, JobState, Closed
  <2>2. /\ m.pc = "finish" /\ m.seen = o.seen /\ m.job = o.job
        /\ m.outcome = "failed_verification"
    BY <2>1 DEF Memory
  <2>3. Become(e, m)
    BY <1>2, <1>9, <2>1 DEF EvidenceIncomplete
  <2>4. MemoryOK(m)'
    BY <1>3, <1>6, <2>2, EvidenceOf DEF MemoryOK, Reducing
  <2>. QED
    BY <1>1, <1>4, <1>5, <2>3, <2>4, QuietStep, SMTT(40) DEF TypeOK
<1>. QED
  BY <1>8, <1>9

\* set_state: the reduced value is evidenced, for the value read before was
\* and so is the output that is folded in.
LEMMA StateStep ==
  ASSUME PipelineInv, NEW e \in Engines, WriteState(e)
  PROVE  PipelineInv'
<1>1. MemoryOK(engine[e]) /\ engine[e] \in Memory /\ TypeOK /\ OutcomesAreEvidenced
  BY Held DEF PipelineInv
<1>2. PICK o \in Memory : o = engine[e]
  BY <1>1
<1>3. /\ o.pc = "write" /\ o.job \in Jobs /\ o.seen \in Values /\ o.base \in Nat
      /\ <<o.attempt, "verified-output">> \in files[o.job]
      /\ \A j \in Jobs : o.seen[j] > 0 => Filed(j, "verified-output")
      /\ o.outcome = "verified"
  BY <1>1, <1>2 DEF WriteState, At, MemoryOK, Claimed, Steps, Reducing, Memory
<1>4. Filed(o.job, "verified-output")
  BY <1>3 DEF Filed
<1>5. PICK v \in Values : v = Reduced(e)
  <2>1. Reduced(e) = [o.seen EXCEPT ![o.job] = o.seen[o.job] + 1]
    BY <1>2 DEF Reduced
  <2>2. o.seen[o.job] + 1 \in Nat
    BY <1>3 DEF Values
  <2>3. [o.seen EXCEPT ![o.job] = o.seen[o.job] + 1] \in Values
    BY <1>3, <2>2 DEF Values
  <2>. QED
    BY <2>1, <2>3
<1>6. \A j \in Jobs : v[j] > 0 => Filed(j, "verified-output")
  BY <1>2, <1>3, <1>4, <1>5 DEF Reduced, Values
<1>7. /\ canon' = [value |-> v, version |-> o.base + 1]
      /\ UNCHANGED <<job, lapsed, files, history, found, outside>>
  BY <1>2, <1>5, SMTT(40) DEF WriteState
<1>8. PICK m \in Memory : m = [o EXCEPT !.pc = "readback"]
  BY MemoryUpdates DEF Steps
<1>9. Become(e, m) /\ m.pc = "readback" /\ m.seen = o.seen /\ m.job = o.job
      /\ m.attempt = o.attempt /\ m.outcome = o.outcome
  BY <1>2, <1>8 DEF WriteState, Memory
<1>10. MemoryOK(m)
  BY <1>3, <1>9 DEF MemoryOK, Reducing
<1>11. \A j \in Jobs : files[j] \subseteq files'[j]
  BY <1>7
<1>12. MemoriesOK' /\ engine' \in [Engines -> Memory]
  <2>1. MemoryOK(m)'
    BY <1>10, <1>11, FilesStay
  <2>. QED
    BY <1>9, <1>11, <2>1, EngineStep DEF PipelineInv
<1>13. TypeOK'
  BY <1>1, <1>3, <1>7, <1>12 DEF TypeOK, outside
<1>14. StateIsEvidenced'
  BY <1>6, <1>7 DEF StateIsEvidenced, Filed
<1>15. OutcomesAreEvidenced'
  BY <1>1, <1>7 DEF OutcomesAreEvidenced, Filed
<1>. QED
  BY <1>12, <1>13, <1>14, <1>15 DEF PipelineInv

\* A row of the jobs table gets another state.
LEMMA RowUpdate ==
  ASSUME NEW row \in Rows, NEW s \in JobState
  PROVE  [row EXCEPT !.state = s] \in Rows /\ [row EXCEPT !.state = s].state = s
BY DEF Rows

LEMMA ClaimingSteps ==
  ASSUME PipelineInv, NEW e \in Engines, RecoverWrite(e) \/ \E j \in Jobs : Claim(e, j)
  PROVE  PipelineInv'
<1>1. MemoryOK(engine[e]) /\ engine[e] \in Memory /\ TypeOK
  BY Held DEF PipelineInv
<1>2. CASE RecoverWrite(e)
  <2>1. PICK m \in Memory : m = [engine[e] EXCEPT !.pc = "claim"]
    BY <1>1, MemoryUpdates DEF Steps
  <2>2. m.pc = "claim" /\ m.seen = engine[e].seen
    BY <1>1, <2>1 DEF Memory
  <2>3. Become(e, m) /\ UNCHANGED <<canon, files, history, outside>>
        /\ found' = [found EXCEPT ![e] = {}] /\ lapsed' \subseteq lapsed
    BY <1>2, <2>1 DEF RecoverWrite
  <2>4. MemoryOK(m)
    BY <1>1, <2>2 DEF MemoryOK, Claimed, Reducing
  <2>5. MemoriesOK' /\ engine' \in [Engines -> Memory]
    <3>1. \A j \in Jobs : files[j] \subseteq files'[j]
      BY <2>3
    <3>2. MemoryOK(m)'
      BY <2>4, <3>1, FilesStay
    <3>. QED
      BY <2>3, <3>1, <3>2, EngineStep DEF PipelineInv
  <2>6. \A j \in Jobs :
          \/ job'[j] = job[j]
          \/ \E s \in {"queued", "failed"} : job'[j] = [job[j] EXCEPT !.state = s]
    <3>. SUFFICES ASSUME NEW j \in Jobs, \E f \in found[e] : f.job = j
                  PROVE  \E s \in {"queued", "failed"} : job'[j] = [job[j] EXCEPT !.state = s]
      BY <1>2 DEF RecoverWrite
    <3>. DEFINE c == CHOOSE f \in found[e] : f.job = j
    <3>1. c \in found[e]
      OBVIOUS
    <3>2. c.to \in {"queued", "failed"}
      BY <1>1, <3>1 DEF TypeOK
    <3>3. job'[j] = [job[j] EXCEPT !.state = c.to]
      BY <1>2 DEF RecoverWrite
    <3>. QED
      BY <3>2, <3>3
  <2>7. job' \in [Jobs -> Rows]
    <3>1. \A j \in Jobs : job'[j] \in Rows
      <4>1. {"queued", "failed"} \subseteq JobState
        BY DEF JobState, Closed
      <4>2. \A j \in Jobs : job[j] \in Rows
        BY <1>1 DEF TypeOK
      <4>3. ASSUME NEW j \in Jobs, NEW s \in {"queued", "failed"},
                   job'[j] = [job[j] EXCEPT !.state = s]
            PROVE  job'[j] \in Rows
        <5>1. PICK row \in Rows : row = job[j]
          BY <4>2
        <5>2. s \in JobState
          BY <4>1
        <5>. QED
          BY <4>3, <5>1, <5>2, RowUpdate
      <4>. QED
        BY <2>6, <4>2, <4>3
    <3>2. job' = [j \in Jobs |-> job'[j]]
      BY <1>2 DEF RecoverWrite
    <3>. QED
      BY <3>1, <3>2
  <2>8. \A j \in Jobs : \/ job'[j].state = job[j].state
                        \/ \A k \in Evidence(job'[j].state) : Filed(j, k)
    <3>1. \A j \in Jobs : job[j] \in Rows
      BY <1>1 DEF TypeOK
    <3>2. \A j \in Jobs : job'[j].state = job[j].state \/ job'[j].state \in {"queued", "failed"}
      BY <2>6, <3>1 DEF Rows
    <3>. QED
      BY <3>2, EvidenceOf
  <2>9. found' \in [Engines -> SUBSET [job : Jobs, to : {"queued", "failed"}]]
    BY <1>1, <2>3 DEF TypeOK
  <2>. QED
    BY <1>1, <2>3, <2>5, <2>7, <2>8, <2>9, JobsStep, SMTT(40) DEF TypeOK, outside
<1>3. ASSUME NEW j \in Jobs, Claim(e, j)
      PROVE  PipelineInv'
  <2>1. PICK m \in Memory : m = [Idle EXCEPT !.pc = "reread", !.job = j]
    BY ConstantTypes, MemoryUpdates DEF Steps
  <2>2. m.pc = "reread" /\ m.seen = Idle.seen /\ m.job = j
    BY ConstantTypes, <2>1 DEF Memory
  <2>3. Become(e, m) /\ UNCHANGED <<canon, files, history, found, outside>>
        /\ job' = [job EXCEPT ![j].state = "running", ![j].attempts = @ + 1]
        /\ lapsed' \subseteq lapsed
    BY <1>3, <2>1 DEF Claim
  <2>4. MemoryOK(m)
    BY <2>2, IdleOwesNothing DEF MemoryOK, Reducing
  <2>5. MemoriesOK' /\ engine' \in [Engines -> Memory]
    <3>1. \A i \in Jobs : files[i] \subseteq files'[i]
      BY <2>3
    <3>2. MemoryOK(m)'
      BY <2>4, <3>1, FilesStay
    <3>. QED
      BY <2>3, <3>1, <3>2, EngineStep DEF PipelineInv
  <2>6. job' \in [Jobs -> Rows]
    BY <1>1, <2>3 DEF TypeOK, Rows, JobState
  <2>7. \A i \in Jobs : job'[i].state = job[i].state \/ job'[i].state = "running"
    BY <1>1, <2>3 DEF TypeOK, Rows
  <2>8. \A i \in Jobs : \/ job'[i].state = job[i].state
                        \/ \A k \in Evidence(job'[i].state) : Filed(i, k)
    BY <2>7, EvidenceOf
  <2>. QED
    BY <1>1, <2>3, <2>5, <2>6, <2>8, JobsStep DEF TypeOK, outside
<1>. QED
  BY <1>2, <1>3

\* finish and record, by an engine that may have been superseded long ago.
LEMMA ClosingSteps ==
  ASSUME PipelineInv, NEW e \in Engines, Finish(e) \/ Record(e)
  PROVE  PipelineInv'
<1>1. MemoryOK(engine[e]) /\ engine[e] \in Memory /\ TypeOK
  BY Held DEF PipelineInv
<1>2. PICK o \in Memory : o = engine[e]
  BY <1>1
<1>3. /\ o.job \in Jobs /\ o.attempt \in Nat /\ o.outcome \in JobState
      /\ \A k \in Evidence(o.outcome) : <<o.attempt, k>> \in files[o.job]
  BY <1>1, <1>2 DEF Finish, Record, At, MemoryOK, Claimed, Steps, Memory
<1>4. CASE Finish(e)
  <2>1. PICK m \in Memory : m = [o EXCEPT !.pc = "record"]
    BY MemoryUpdates DEF Steps
  <2>2. /\ m.pc = "record" /\ m.seen = o.seen /\ m.job = o.job
        /\ m.outcome = o.outcome /\ m.attempt = o.attempt
    BY <2>1 DEF Memory
  <2>3. Become(e, m) /\ UNCHANGED <<canon, files, history, found, outside>>
        /\ job' = [job EXCEPT ![o.job].state = o.outcome] /\ lapsed' \subseteq lapsed
    BY <1>2, <1>4, <2>1 DEF Finish
  <2>4. MemoryOK(m)
    BY <1>1, <1>2, <1>3, <2>2 DEF MemoryOK, Reducing
  <2>5. MemoriesOK' /\ engine' \in [Engines -> Memory]
    <3>1. \A i \in Jobs : files[i] \subseteq files'[i]
      BY <2>3
    <3>2. MemoryOK(m)'
      BY <2>4, <3>1, FilesStay
    <3>. QED
      BY <2>3, <3>1, <3>2, EngineStep DEF PipelineInv
  <2>6. job' \in [Jobs -> Rows]
    BY <1>1, <1>3, <2>3 DEF TypeOK, Rows
  <2>7. \A i \in Jobs : \/ job'[i].state = job[i].state
                        \/ i = o.job /\ job'[i].state = o.outcome
    <3>1. PICK r \in Jobs, w \in JobState : r = o.job /\ w = o.outcome
      BY <1>3
    <3>2. job' = [job EXCEPT ![r].state = w]
      BY <2>3, <3>1
    <3>3. \A i \in Jobs : job[i] \in Rows
      BY <1>1 DEF TypeOK
    <3>4. \A i \in Jobs \ {r} : job'[i] = job[i]
      BY <1>1, <3>2 DEF TypeOK
    <3>5. job'[r].state = w
      BY <1>1, <3>2, <3>3 DEF TypeOK, Rows
    <3>. QED
      BY <3>1, <3>4, <3>5
  <2>8. \A i \in Jobs : \/ job'[i].state = job[i].state
                        \/ \A k \in Evidence(job'[i].state) : Filed(i, k)
    <3>1. \A k \in Evidence(o.outcome) : Filed(o.job, k)
      BY <1>3 DEF Filed
    <3>. QED
      BY <2>7, <3>1
  <2>. QED
    BY <1>1, <2>3, <2>5, <2>6, <2>8, JobsStep, SMTT(40) DEF TypeOK, outside
<1>5. CASE Record(e)
  <2>1. PICK h \in [job : Jobs, attempt : Nat, outcome : JobState] :
          h = [job |-> o.job, attempt |-> o.attempt, outcome |-> o.outcome]
    BY <1>3
  <2>2. Become(e, Idle) /\ UNCHANGED <<job, lapsed, canon, files, found, outside>>
        /\ history' = history \union {h}
    BY <1>2, <1>5, <2>1 DEF Record
  <2>3. MemoriesOK' /\ engine' \in [Engines -> Memory]
    <3>1. \A i \in Jobs : files[i] \subseteq files'[i]
      BY <2>2
    <3>. QED
      BY <2>2, <3>1, ConstantTypes, IdleOwesNothing, EngineStep DEF PipelineInv
  <2>4. TypeOK'
    BY <1>1, <2>1, <2>2, <2>3 DEF TypeOK, outside
  <2>5. StateIsEvidenced'
    BY <2>2 DEF PipelineInv, StateIsEvidenced, Filed
  <2>6. OutcomesAreEvidenced'
    <3>1. h.job = o.job /\ h.attempt = o.attempt /\ h.outcome = o.outcome
      BY <2>1
    <3>. QED
      BY <1>3, <2>2, <3>1 DEF PipelineInv, OutcomesAreEvidenced, Filed
  <2>. QED
    BY <2>3, <2>4, <2>5, <2>6 DEF PipelineInv
<1>. QED
  BY <1>4, <1>5

-------------------------------------------------------------------------------
(* Theorems.                                                                *)

\* Every step preserves the invariant.
LEMMA Preserved == PipelineInv /\ [Next]_vars => PipelineInv'
<1>. SUFFICES ASSUME PipelineInv, [Next]_vars PROVE PipelineInv'
  OBVIOUS
<1>1. CASE UNCHANGED vars
  BY <1>1 DEF vars, PipelineInv, TypeOK, MemoriesOK, MemoryOK, StateIsEvidenced,
              OutcomesAreEvidenced, Filed
<1>2. ASSUME NEW j \in Jobs, Submit(j) \/ GrantExpires(j) \/ LeaseLapses(j)
      PROVE  PipelineInv'
  BY <1>2, OutsideSteps
<1>3. ASSUME NEW e \in Engines, RunOnce(e) \/ EngineStops(e)
      PROVE  PipelineInv'
  BY <1>3, SelectingSteps, ReadingSteps, VerdictSteps, EvidenceSteps, StateStep,
     ClaimingSteps, ClosingSteps DEF RunOnce
<1>. QED
  BY <1>1, <1>2, <1>3 DEF Next

\* In every reachable state the tables are well typed, every engine has on
\* disk what its memory relies on, and state and outcomes are evidenced.
THEOREM PipelineInvariant == Spec => []PipelineInv
BY Initially, Preserved, PTL DEF Spec

\* The tables, the evidence directory and the engines keep their types.
THEOREM TypeCorrect == Spec => []TypeOK
<1>1. PipelineInv => TypeOK
  BY DEF PipelineInv
<1>. QED
  BY <1>1, PipelineInvariant, PTL

\* Nothing enters the canonical state before evidence of its verified output is
\* on disk, for any number of jobs and of overlapping and dying engines.
THEOREM StateFollowsEvidence == Spec => []StateIsEvidenced
<1>1. PipelineInv => StateIsEvidenced
  BY DEF PipelineInv
<1>. QED
  BY <1>1, PipelineInvariant, PTL

\* finish() never closes a job, and record() never counts a run, with an
\* outcome whose evidence is missing, even when the lease was lost before.
THEOREM OutcomesFollowEvidence == Spec => []OutcomesAreEvidenced
<1>1. PipelineInv => OutcomesAreEvidenced
  BY DEF PipelineInv
<1>. QED
  BY <1>1, PipelineInvariant, PTL


-------------------------------------------------------------------------------
(* One executor: what is reported verified is in the canonical state.       *)

OneExecutor == \A d, e \in Capable : d = e

\* What the memory m of engine e says of the canonical state.
MemoryReflects(e, m) ==
  /\ m.pc \in Reducing => e \in Capable
  /\ m.pc \in {"evidence", "finish"} /\ m.outcome = "verified" => e \in Capable
  /\ m.pc = "evidence" /\ m.outcome = "verified" => m.kind = "verified-output"
  /\ m.pc \in {"version", "write"} => m.seen = canon.value
  /\ m.pc = "readback" => canon.value[m.job] > 0
  /\ m.pc = "finish" /\ m.outcome = "verified" /\ HasReducer => canon.value[m.job] > 0

MemoriesReflect == \A e \in Engines : MemoryReflects(e, engine[e])

ReflectedInv == PipelineInv /\ MemoriesReflect /\ VerifiedIsReflected


\* A step of one engine that leaves the canonical state where it is.
LEMMA ReflectingStep ==
  ASSUME ReflectedInv, PipelineInv', NEW e \in Engines, NEW m \in Memory, Become(e, m), MemoryReflects(e, m),
         UNCHANGED canon,
         \A j \in Jobs : \/ job'[j].state # "verified" \/ job'[j].state = job[j].state
                         \/ HasReducer => canon.value[j] > 0
  PROVE  ReflectedInv'
<1>1. /\ engine'[e] = m
      /\ \A d \in Engines \ {e} : engine'[d] = engine[d]
  BY BecomeEffect DEF ReflectedInv, PipelineInv
<1>2. ASSUME NEW d \in Engines
      PROVE  MemoryReflects(d, engine[d])'
  <2>1. CASE d = e
    BY <1>1, <2>1 DEF MemoryReflects
  <2>2. CASE d # e
    <3>1. MemoryReflects(d, engine[d])
      BY DEF ReflectedInv, MemoriesReflect
    <3>. QED
      BY <1>1, <2>2, <3>1 DEF MemoryReflects
  <2>. QED
    BY <2>1, <2>2
<1>3. VerifiedIsReflected'
  BY DEF ReflectedInv, VerifiedIsReflected
<1>. QED
  BY <1>2, <1>3 DEF ReflectedInv, MemoriesReflect

LEMMA IdleReflects == ASSUME NEW e PROVE MemoryReflects(e, Idle)
BY ConstantTypes DEF MemoryReflects, Reducing

\* Where an engine of a good state stands.
LEMMA Stands ==
  ASSUME ReflectedInv, NEW e \in Engines
  PROVE  /\ MemoryReflects(e, engine[e]) /\ MemoryOK(engine[e]) /\ engine[e] \in Memory
         /\ engine[e].pc \in Claimed => engine[e].job \in Jobs
BY Held DEF ReflectedInv, MemoriesReflect, MemoryOK

\* Plan, with an outcome that is "verified" only where run_once says so.
LEMMA PlanReflects ==
  ASSUME ReflectedInv, PipelineInv', NEW e \in Engines, NEW k \in Kinds, NEW s \in JobState, Plan(e, k, s),
         s = "verified" => k = "verified-output" /\ e \in Capable
  PROVE  ReflectedInv'
<1>. DEFINE m == [engine[e] EXCEPT !.pc = "evidence", !.kind = k, !.outcome = s]
<1>1. engine[e] \in Memory
  BY Stands
<1>2. m \in Memory
  BY <1>1, MemoryUpdates DEF Steps
<1>3. m.pc = "evidence" /\ m.kind = k /\ m.outcome = s
  BY <1>1 DEF Memory
<1>4. Become(e, m) /\ UNCHANGED <<job, canon>>
  BY DEF Plan
<1>. HIDE DEF m
<1>5. MemoryReflects(e, m)
  BY <1>3 DEF MemoryReflects, Reducing
<1>. QED
  BY <1>2, <1>4, <1>5, ReflectingStep

LEMMA PlanningReflects ==
  ASSUME ReflectedInv, PipelineInv', NEW e \in Engines,
         \/ Reject(e) \/ ExecutionFails(e) \/ VerificationFails(e) \/ VerificationPasses(e)
         \/ ReadBackDiverges(e) \/ StateUpdateRaises(e)
  PROVE  ReflectedInv'
<1>1. CASE VerificationPasses(e)
  <2>1. Plan(e, "verified-output", "verified") /\ e \in Capable
    BY <1>1 DEF VerificationPasses, Permitted
  <2>. QED
    BY <2>1, PlanReflects DEF Kinds, JobState, Closed
<1>2. CASE ~VerificationPasses(e)
  <2>1. PICK k \in Kinds, s \in JobState : Plan(e, k, s) /\ s # "verified"
    BY <1>2 DEF Reject, ExecutionFails, VerificationFails, ReadBackDiverges, StateUpdateRaises,
                Kinds, JobState, Closed
  <2>. QED
    BY <2>1, PlanReflects
<1>. QED
  BY <1>1, <1>2

\* The steps that only go on to another statement.
LEMMA ReadingReflects ==
  ASSUME ReflectedInv, PipelineInv', NEW e \in Engines,
         \/ RecoverSelect(e) \/ RecoverWrite(e) \/ ClaimNothing(e) \/ Reread(e)
         \/ ReadState(e) \/ ReadVersion(e) \/ ReadBack(e) \/ RetrySelect(e) \/ EngineStops(e)
  PROVE  ReflectedInv'
<1>. DEFINE o == engine[e]
<1>1. o \in Memory /\ MemoryReflects(e, o) /\ MemoryOK(o) /\ TypeOK /\ (o.pc \in Claimed => o.job \in Jobs)
  BY Stands DEF ReflectedInv, PipelineInv
<1>2. CASE RecoverSelect(e) \/ RecoverWrite(e)
  <2>1. PICK p \in {"recover", "claim"} : Become(e, [o EXCEPT !.pc = p])
    BY <1>2 DEF RecoverSelect, RecoverWrite
  <2>. DEFINE m == [o EXCEPT !.pc = p]
  <2>2. m \in Memory /\ m.pc = p
    BY <1>1, <2>1 DEF Memory, Steps
  <2>3. UNCHANGED canon /\ \A j \in Jobs : job'[j].state # "verified" \/ job'[j].state = job[j].state
    <3>1. CASE RecoverSelect(e)
      BY <3>1 DEF RecoverSelect
    <3>2. CASE RecoverWrite(e)
      <4>. SUFFICES ASSUME NEW j \in Jobs, \E f \in found[e] : f.job = j
                    PROVE  job'[j].state # "verified"
        BY <3>2 DEF RecoverWrite
      <4>. DEFINE c == CHOOSE f \in found[e] : f.job = j
      <4>1. c \in found[e]
        OBVIOUS
      <4>2. c.to \in {"queued", "failed"}
        BY <1>1, <4>1 DEF TypeOK
      <4>3. job'[j] = [job[j] EXCEPT !.state = c.to]
        BY <3>2 DEF RecoverWrite
      <4>4. job[j] \in Rows
        BY <1>1 DEF TypeOK
      <4>. HIDE DEF c
      <4>5. job'[j].state = c.to
        BY <4>3, <4>4 DEF Rows
      <4>. QED
        BY <4>2, <4>5
    <3>. QED
      BY <1>2, <3>1, <3>2
  <2>. HIDE DEF m
  <2>4. MemoryReflects(e, m)
    BY <2>1, <2>2 DEF MemoryReflects, Reducing
  <2>. QED
    BY <2>1, <2>2, <2>3, <2>4, ReflectingStep DEF m
<1>3. CASE ClaimNothing(e) \/ EngineStops(e)
  <2>1. Become(e, Idle) /\ UNCHANGED <<job, canon>>
    BY <1>3 DEF ClaimNothing, EngineStops
  <2>. QED
    BY <2>1, ConstantTypes, IdleReflects, ReflectingStep
<1>4. CASE Reread(e)
  <2>. DEFINE n == job[o.job].attempts
              m == [o EXCEPT !.pc = "execute", !.attempt = n]
  <2>1. n \in Nat
    <3>1. o.job \in Jobs
      BY <1>1, <1>4 DEF Reread, At, Claimed, Steps
    <3>2. job[o.job] \in Rows
      BY <1>1, <3>1 DEF TypeOK
    <3>. QED
      BY <3>2 DEF Rows
  <2>2. m \in Memory /\ m.pc = "execute"
    BY <1>1, <2>1 DEF Memory, Steps
  <2>3. Become(e, m) /\ UNCHANGED <<job, canon>>
    BY <1>4 DEF Reread
  <2>. HIDE DEF m
  <2>4. MemoryReflects(e, m)
    BY <2>2 DEF MemoryReflects, Reducing
  <2>. QED
    BY <2>2, <2>3, <2>4, ReflectingStep
<1>5. CASE ReadState(e)
  <2>. DEFINE m == [o EXCEPT !.pc = "version", !.seen = canon.value]
  <2>1. m \in Memory /\ m.pc = "version" /\ m.seen = canon.value
    BY <1>1 DEF Memory, Steps, TypeOK
  <2>2. Become(e, m) /\ UNCHANGED <<job, canon>> /\ o.pc = "read"
    BY <1>5 DEF ReadState, At
  <2>. HIDE DEF m
  <2>3. MemoryReflects(e, m)
    BY <1>1, <2>1, <2>2 DEF MemoryReflects, Reducing
  <2>. QED
    BY <2>1, <2>2, <2>3, ReflectingStep
<1>6. CASE ReadVersion(e)
  <2>. DEFINE m == [o EXCEPT !.pc = "write", !.base = canon.version]
  <2>1. m \in Memory /\ m.pc = "write" /\ m.seen = o.seen
    BY <1>1 DEF Memory, Steps, TypeOK
  <2>2. Become(e, m) /\ UNCHANGED <<job, canon>> /\ o.pc = "version"
    BY <1>6 DEF ReadVersion, At
  <2>. HIDE DEF m
  <2>3. MemoryReflects(e, m)
    BY <1>1, <2>1, <2>2 DEF MemoryReflects, Reducing
  <2>. QED
    BY <2>1, <2>2, <2>3, ReflectingStep
<1>7. CASE ReadBack(e)
  <2>. DEFINE m == [o EXCEPT !.pc = "finish"]
  <2>1. m \in Memory /\ m.pc = "finish" /\ m.job = o.job /\ m.outcome = o.outcome
    BY <1>1 DEF Memory, Steps
  <2>2. Become(e, m) /\ UNCHANGED <<job, canon>> /\ o.pc = "readback"
    BY <1>7 DEF ReadBack, At
  <2>. HIDE DEF m
  <2>3. MemoryReflects(e, m)
    BY <1>1, <2>1, <2>2 DEF MemoryReflects, Reducing
  <2>. QED
    BY <2>1, <2>2, <2>3, ReflectingStep
<1>8. CASE RetrySelect(e)
  <2>1. PICK s \in {"queued", "failed"} : s = RetryState(job[o.job].attempts)
    <3>1. o.job \in Jobs
      BY <1>1, <1>8 DEF RetrySelect, At, Claimed, Steps
    <3>2. job[o.job] \in Rows
      BY <1>1, <3>1 DEF TypeOK
    <3>3. job[o.job].attempts \in Nat
      BY <3>2 DEF Rows
    <3>. QED
      BY <3>3, ConstantTypes
  <2>. DEFINE m == [o EXCEPT !.pc = "finish", !.outcome = s]
  <2>2. m \in Memory /\ m.pc = "finish" /\ m.outcome = s
    BY <1>1, <2>1 DEF Memory, Steps, JobState, Closed
  <2>3. Become(e, m) /\ UNCHANGED <<job, canon>>
    BY <1>8, <2>1 DEF RetrySelect
  <2>. HIDE DEF m
  <2>4. MemoryReflects(e, m)
    BY <2>1, <2>2 DEF MemoryReflects, Reducing
  <2>. QED
    BY <2>2, <2>3, <2>4, ReflectingStep
<1>. QED
  BY <1>2, <1>3, <1>4, <1>5, <1>6, <1>7, <1>8


LEMMA ClaimReflects ==
  ASSUME ReflectedInv, PipelineInv', NEW e \in Engines, NEW j \in Jobs, Claim(e, j)
  PROVE  ReflectedInv'
<1>. DEFINE m == [Idle EXCEPT !.pc = "reread", !.job = j]
<1>1. m \in Memory /\ m.pc = "reread"
  BY ConstantTypes DEF Memory, Steps
<1>2. Become(e, m) /\ UNCHANGED canon /\ job' = [job EXCEPT ![j].state = "running", ![j].attempts = @ + 1]
  BY DEF Claim
<1>3. \A i \in Jobs : job'[i].state # "verified" \/ job'[i].state = job[i].state
  <2>1. job \in [Jobs -> Rows]
    BY DEF ReflectedInv, PipelineInv, TypeOK
  <2>. HIDE DEF m
  <2>. QED
    BY <1>2, <2>1 DEF Rows
<1>. HIDE DEF m
<1>4. MemoryReflects(e, m)
  BY <1>1 DEF MemoryReflects, Reducing
<1>. QED
  BY <1>1, <1>2, <1>3, <1>4, ReflectingStep

LEMMA EvidenceReflects ==
  ASSUME ReflectedInv, PipelineInv', NEW e \in Engines, WriteEvidence(e) \/ EvidenceIncomplete(e)
  PROVE  ReflectedInv'
<1>. DEFINE o == engine[e]
<1>1. o \in Memory /\ MemoryReflects(e, o) /\ MemoryOK(o) /\ o.pc = "evidence" /\ o.kind \in Kinds
      /\ UNCHANGED <<job, canon>>
  BY Stands DEF WriteEvidence, EvidenceIncomplete, At, Memory
<1>2. CASE WriteEvidence(e)
  <2>. DEFINE p == AfterEvidence(o.kind)
              m == [o EXCEPT !.pc = p]
  <2>1. /\ p \in {"retry", "read", "finish"} /\ p \in Steps
        /\ p = "read" => o.kind = "verified-output"
        /\ p = "finish" /\ o.kind = "verified-output" => ~HasReducer
    BY <1>1 DEF AfterEvidence, Kinds, Steps
  <2>. HIDE DEF p
  <2>2. m \in Memory /\ m.pc = p /\ m.outcome = o.outcome
    BY <1>1, <2>1 DEF Memory
  <2>3. Become(e, m)
    BY <1>2 DEF WriteEvidence, p
  <2>. HIDE DEF m
  <2>4. MemoryReflects(e, m)
    BY <1>1, <2>1, <2>2 DEF MemoryReflects, MemoryOK, Reducing
  <2>. QED
    BY <1>1, <2>2, <2>3, <2>4, ReflectingStep
<1>3. CASE EvidenceIncomplete(e)
  <2>. DEFINE m == [o EXCEPT !.pc = "finish", !.outcome = "failed_verification"]
  <2>1. m \in Memory /\ m.pc = "finish" /\ m.outcome = "failed_verification"
    BY <1>1 DEF Memory, Steps, JobState, Closed
  <2>2. Become(e, m)
    BY <1>3 DEF EvidenceIncomplete
  <2>. HIDE DEF m
  <2>3. MemoryReflects(e, m)
    BY <2>1 DEF MemoryReflects, Reducing
  <2>. QED
    BY <1>1, <2>1, <2>2, <2>3, ReflectingStep
<1>. QED
  BY <1>2, <1>3

\* finish() reports a job verified only after the state was read back, and
\* record() only tells.
LEMMA ClosingReflects ==
  ASSUME ReflectedInv, PipelineInv', NEW e \in Engines, Finish(e) \/ Record(e)
  PROVE  ReflectedInv'
<1>. DEFINE o == engine[e]
<1>1. o \in Memory /\ MemoryReflects(e, o) /\ job \in [Jobs -> Rows]
  BY Stands DEF ReflectedInv, PipelineInv, TypeOK
<1>2. CASE Finish(e)
  <2>. DEFINE m == [o EXCEPT !.pc = "record"]
  <2>1. m \in Memory /\ m.pc = "record"
    BY <1>1 DEF Memory, Steps
  <2>2. Become(e, m) /\ UNCHANGED canon /\ job' = [job EXCEPT ![o.job].state = o.outcome] /\ o.pc = "finish"
    BY <1>2 DEF Finish, At
  <2>3. o.job \in Jobs
    BY <2>2, Stands DEF Claimed, Steps
  <2>. HIDE DEF m, o
  <2>4. \A j \in Jobs : \/ job'[j].state # "verified" \/ job'[j].state = job[j].state
                        \/ HasReducer => canon.value[j] > 0
    <3>1. \A j \in Jobs : job'[j].state = IF j = o.job THEN o.outcome ELSE job[j].state
      BY <1>1, <2>2, <2>3 DEF Rows
    <3>. QED
      BY <1>1, <2>2, <3>1 DEF MemoryReflects
  <2>5. MemoryReflects(e, m)
    BY <2>1 DEF MemoryReflects, Reducing
  <2>. QED
    BY <2>1, <2>2, <2>4, <2>5, ReflectingStep
<1>3. CASE Record(e)
  <2>1. Become(e, Idle) /\ UNCHANGED <<job, canon>>
    BY <1>3 DEF Record
  <2>. QED
    BY <2>1, ConstantTypes, IdleReflects, ReflectingStep
<1>. QED
  BY <1>2, <1>3

\* set_state by the one executor: the value it read is the one it replaces, and
\* no job that was reflected is dropped.
LEMMA StateReflects ==
  ASSUME OneExecutor, ReflectedInv, PipelineInv', NEW e \in Engines, WriteState(e)
  PROVE  ReflectedInv'
<1>. DEFINE o == engine[e]
            m == [o EXCEPT !.pc = "readback"]
<1>1. /\ o \in Memory /\ MemoryReflects(e, o) /\ MemoryOK(o) /\ TypeOK
      /\ o.pc = "write" /\ o.job \in Jobs /\ e \in Capable /\ o.seen = canon.value
  BY Stands DEF WriteState, At, Claimed, Steps, ReflectedInv, PipelineInv, MemoryReflects, Reducing
<1>2. m \in Memory /\ m.pc = "readback" /\ m.job = o.job
  BY <1>1 DEF Memory, Steps
<1>3. Become(e, m) /\ UNCHANGED job /\ canon' = [value |-> Reduced(e), version |-> o.base + 1]
  BY DEF WriteState
<1>4. /\ canon'.value[o.job] > 0
      /\ \A j \in Jobs : canon.value[j] > 0 => canon'.value[j] > 0
  <2>1. canon.value \in [Jobs -> Nat]
    BY <1>1 DEF TypeOK, Values
  <2>2. canon'.value = [canon.value EXCEPT ![o.job] = @ + 1]
    BY <1>1, <1>3 DEF Reduced
  <2>. HIDE DEF o
  <2>. QED
    BY <1>1, <2>1, <2>2
<1>. HIDE DEF m, o
<1>5. /\ engine'[e] = m
      /\ \A d \in Engines \ {e} : engine'[d] = engine[d]
  BY <1>1, <1>2, <1>3, BecomeEffect
<1>6. ASSUME NEW d \in Engines
      PROVE  MemoryReflects(d, engine[d])'
  <2>1. CASE d = e
    BY <1>1, <1>2, <1>4, <1>5, <2>1 DEF MemoryReflects, Reducing
  <2>2. CASE d # e
    <3>1. /\ MemoryReflects(d, engine[d]) /\ engine'[d] = engine[d]
          /\ engine[d].pc \in Claimed => engine[d].job \in Jobs
      BY <1>5, <2>2, Stands
    <3>2. d \notin Capable
      BY <1>1, <2>2 DEF OneExecutor
    <3>. QED
      BY <1>4, <3>1, <3>2 DEF MemoryReflects, Reducing
  <2>. QED
    BY <2>1, <2>2
<1>7. VerifiedIsReflected'
  BY <1>3, <1>4 DEF ReflectedInv, VerifiedIsReflected
<1>. QED
  BY <1>6, <1>7 DEF ReflectedInv, MemoriesReflect

LEMMA OutsideReflects ==
  ASSUME ReflectedInv, PipelineInv', NEW j \in Jobs, Submit(j) \/ GrantExpires(j) \/ LeaseLapses(j)
  PROVE  ReflectedInv'
<1>1. UNCHANGED <<engine, canon>>
  BY DEF Submit, GrantExpires, LeaseLapses
<1>2. MemoriesReflect'
  BY <1>1 DEF ReflectedInv, MemoriesReflect, MemoryReflects
<1>3. \A i \in Jobs : job'[i].state # "verified" \/ job'[i].state = job[i].state
  <2>1. job \in [Jobs -> Rows]
    BY DEF ReflectedInv, PipelineInv, TypeOK
  <2>. QED
    BY <2>1 DEF Submit, GrantExpires, LeaseLapses, outside
<1>. QED
  BY <1>1, <1>2, <1>3 DEF ReflectedInv, VerifiedIsReflected

LEMMA ReflectedPreserved ==
  ASSUME OneExecutor PROVE ReflectedInv /\ [Next]_vars => ReflectedInv'
<1>. SUFFICES ASSUME ReflectedInv, [Next]_vars PROVE ReflectedInv'
  OBVIOUS
<1>0. PipelineInv'
  BY Preserved DEF ReflectedInv
<1>1. CASE UNCHANGED vars
  BY <1>0, <1>1 DEF vars, ReflectedInv, MemoriesReflect, MemoryReflects, VerifiedIsReflected
<1>2. ASSUME NEW j \in Jobs, Submit(j) \/ GrantExpires(j) \/ LeaseLapses(j)
      PROVE  ReflectedInv'
  BY <1>0, <1>2, OutsideReflects
<1>3. ASSUME NEW e \in Engines, RunOnce(e) \/ EngineStops(e)
      PROVE  ReflectedInv'
  BY <1>0, <1>3, PlanningReflects, ReadingReflects, ClaimReflects, EvidenceReflects, StateReflects,
     ClosingReflects DEF RunOnce
<1>. QED
  BY <1>1, <1>2, <1>3 DEF Next

\* "Canonical state is read back after commit": with one engine that executes
\* the capability, however many others submit, recover, reject and die, a job
\* reported verified is reflected in the canonical state.
THEOREM VerifiedStaysReflected ==
  ASSUME OneExecutor PROVE Spec => []VerifiedIsReflected
<1>1. Init => ReflectedInv
  <2>. SUFFICES ASSUME Init PROVE ReflectedInv
    OBVIOUS
  <2>1. MemoriesReflect
    BY IdleReflects DEF Init, MemoriesReflect
  <2>2. VerifiedIsReflected
    BY DEF Init, VerifiedIsReflected
  <2>. QED
    BY <2>1, <2>2, Initially DEF ReflectedInv
<1>2. ReflectedInv /\ [Next]_vars => ReflectedInv'
  BY ReflectedPreserved
<1>3. ReflectedInv => VerifiedIsReflected
  BY DEF ReflectedInv
<1>. QED
  BY <1>1, <1>2, <1>3, PTL DEF Spec


-------------------------------------------------------------------------------
(* One engine: a job that is closed stays so.                               *)

OneEngine == \A d, e \in Engines : d = e

\* A job an engine works on runs, unless it was closed as diverged and the
\* handler of a failed state update is about to close it again.
MemoryHolds(m) ==
  /\ m.pc \in Claimed \ {"record"} =>
       \/ job[m.job].state = "running"
       \/ /\ m.pc \in {"evidence", "finish"} /\ m.outcome = "state_update_failed"
          /\ job[m.job].state = "state_diverged"
  /\ m.pc = "evidence" /\ m.outcome = "state_update_failed" => m.kind = "state-update-failure"
  /\ m.pc = "record" /\ m.outcome = "state_diverged" => job[m.job].state = "state_diverged"

\* Between the two statements of recover() nothing happens to the rows it selected.
HoldingInv ==
  /\ PipelineInv
  /\ \A e \in Engines : MemoryHolds(engine[e])
  /\ \A e \in Engines : IF At(e, "recover") THEN \A f \in found[e] : job[f.job].state = "running"
                        ELSE found[e] = {}

StaysClosed ==
  \A j \in Jobs :
    job[j].state \in Closed =>
      \/ job'[j].state = job[j].state
      \/ job[j].state = "state_diverged" /\ job'[j].state = "state_update_failed"


\* A step of the one engine.
LEMMA HoldingStep ==
  ASSUME OneEngine, HoldingInv, PipelineInv', NEW e \in Engines, NEW m \in Memory, Become(e, m), MemoryHolds(m)',
         found'[e] = {} \/ (m.pc = "recover" /\ \A f \in found'[e] : job'[f.job].state = "running"),
         m.pc = "recover" => \A f \in found'[e] : job'[f.job].state = "running"
  PROVE  HoldingInv'
<1>1. engine'[e] = m
  BY BecomeEffect DEF HoldingInv, PipelineInv
<1>2. \A d \in Engines : d = e
  BY DEF OneEngine
<1>3. MemoryHolds(engine[e])'
  BY <1>1
<1>4. IF engine'[e].pc = "recover" THEN \A f \in found'[e] : job'[f.job].state = "running" ELSE found'[e] = {}
  BY <1>1
<1>. QED
  BY <1>2, <1>3, <1>4 DEF HoldingInv, At

\* What the engine of a good state holds.
LEMMA Holds ==
  ASSUME HoldingInv, NEW e \in Engines
  PROVE  /\ MemoryHolds(engine[e]) /\ MemoryOK(engine[e]) /\ engine[e] \in Memory /\ TypeOK
         /\ engine[e].pc \in Claimed => engine[e].job \in Jobs
         /\ engine[e].pc # "recover" => found[e] = {}
         /\ engine[e].pc = "recover" => \A f \in found[e] : job[f.job].state = "running"
BY Held DEF HoldingInv, MemoryOK, PipelineInv, At

\* The steps that touch neither the jobs nor what recover() selected.
LEMMA HoldingThought ==
  ASSUME OneEngine, HoldingInv, PipelineInv', NEW e \in Engines, NEW m \in Memory, Become(e, m), MemoryHolds(m),
         m.pc # "recover", UNCHANGED job, engine[e].pc # "recover", UNCHANGED found
  PROVE  HoldingInv' /\ StaysClosed
<1>1. MemoryHolds(m)'
  BY DEF MemoryHolds
<1>2. found'[e] = {}
  BY Holds
<1>. QED
  BY <1>1, <1>2, HoldingStep DEF StaysClosed

LEMMA PlanHolds ==
  ASSUME OneEngine, HoldingInv, PipelineInv', NEW e \in Engines, NEW k \in Kinds, NEW s \in JobState, Plan(e, k, s),
         engine[e].pc \in Claimed,
         \/ job[engine[e].job].state = "running"
         \/ s = "state_update_failed" /\ job[engine[e].job].state = "state_diverged",
         s = "state_update_failed" => k = "state-update-failure"
  PROVE  HoldingInv' /\ StaysClosed
<1>. DEFINE m == [engine[e] EXCEPT !.pc = "evidence", !.kind = k, !.outcome = s]
<1>1. engine[e] \in Memory
  BY Holds
<1>2. m \in Memory
  BY <1>1, MemoryUpdates DEF Steps
<1>3. m.pc = "evidence" /\ m.kind = k /\ m.outcome = s /\ m.job = engine[e].job
  BY <1>1 DEF Memory
<1>4. Become(e, m) /\ UNCHANGED job /\ UNCHANGED found /\ engine[e].pc # "recover"
  BY DEF Plan, Claimed
<1>. HIDE DEF m
<1>5. MemoryHolds(m)
  BY <1>3 DEF MemoryHolds
<1>. QED
  BY <1>2, <1>3, <1>4, <1>5, HoldingThought

LEMMA PlanningHolds ==
  ASSUME OneEngine, HoldingInv, PipelineInv', NEW e \in Engines,
         \/ Reject(e) \/ ExecutionFails(e) \/ VerificationFails(e) \/ VerificationPasses(e)
         \/ ReadBackDiverges(e) \/ StateUpdateRaises(e)
  PROVE  HoldingInv' /\ StaysClosed
<1>. DEFINE o == engine[e]
<1>1. MemoryHolds(o) /\ o \in Memory
  BY Holds
<1>2. CASE StateUpdateRaises(e)
  <2>1. /\ \/ o.pc \in Reducing
           \/ o.pc \in {"evidence", "finish", "record"} /\ o.outcome = "state_diverged"
        /\ o.pc \in Claimed /\ Plan(e, "state-update-failure", "state_update_failed")
    BY <1>2 DEF StateUpdateRaises, Reducing, Claimed, Steps
  <2>2. job[o.job].state = "running" \/ job[o.job].state = "state_diverged"
    BY <1>1, <2>1 DEF MemoryHolds, Reducing, Claimed, Steps
  <2>. QED
    BY <2>1, <2>2, PlanHolds DEF Kinds, JobState, Closed
<1>3. CASE ~StateUpdateRaises(e)
  <2>1. PICK k \in Kinds, s \in JobState : Plan(e, k, s) /\ s # "state_update_failed"
    BY <1>3 DEF Reject, ExecutionFails, VerificationFails, VerificationPasses, ReadBackDiverges,
                Kinds, JobState, Closed
  <2>2. o.pc \in {"execute", "readback"}
    BY <1>3 DEF Reject, ExecutionFails, VerificationFails, VerificationPasses, ReadBackDiverges, Permitted, At
  <2>3. job[o.job].state = "running" /\ o.pc \in Claimed
    BY <1>1, <2>2 DEF MemoryHolds, Claimed, Steps
  <2>. QED
    BY <2>1, <2>3, PlanHolds
<1>. QED
  BY <1>2, <1>3

\* Another statement of the same attempt, while the job runs.
LEMMA GoOnHolds ==
  ASSUME OneEngine, HoldingInv, PipelineInv', NEW e \in Engines, NEW m \in Memory, Become(e, m),
         UNCHANGED job, UNCHANGED found, m.job = engine[e].job, engine[e].pc \in Claimed,
         job[m.job].state = "running", m.pc \notin {"recover", "evidence", "record"}
  PROVE  HoldingInv' /\ StaysClosed
<1>1. MemoryHolds(m)
  BY DEF MemoryHolds
<1>. QED
  BY <1>1, HoldingThought DEF Claimed

LEMMA ReadingHolds ==
  ASSUME OneEngine, HoldingInv, PipelineInv', NEW e \in Engines,
         \/ ClaimNothing(e) \/ EngineStops(e) \/ Reread(e) \/ Record(e)
         \/ ReadState(e) \/ ReadVersion(e) \/ WriteState(e) \/ ReadBack(e) \/ RetrySelect(e)
  PROVE  HoldingInv' /\ StaysClosed
<1>. DEFINE o == engine[e]
<1>1. /\ o \in Memory /\ MemoryHolds(o) /\ TypeOK /\ (o.pc \in Claimed => o.job \in Jobs)
      /\ o.pc # "recover" => found[e] = {}
  BY Holds
<1>2. CASE ClaimNothing(e) \/ Record(e)
  <2>1. Become(e, Idle) /\ UNCHANGED job /\ UNCHANGED found /\ o.pc # "recover"
    BY <1>2 DEF ClaimNothing, Record, At
  <2>2. MemoryHolds(Idle) /\ Idle.pc # "recover"
    BY ConstantTypes DEF MemoryHolds, Claimed
  <2>. QED
    BY <2>1, <2>2, ConstantTypes, HoldingThought
<1>3. CASE EngineStops(e)
  <2>1. Become(e, Idle) /\ UNCHANGED job /\ found' = [found EXCEPT ![e] = {}]
    BY <1>3 DEF EngineStops
  <2>2. MemoryHolds(Idle)' /\ Idle.pc # "recover"
    BY ConstantTypes DEF MemoryHolds, Claimed
  <2>3. found'[e] = {}
    BY <1>1, <2>1 DEF TypeOK
  <2>. QED
    BY <2>1, <2>2, <2>3, ConstantTypes, HoldingStep DEF StaysClosed
<1>4. CASE Reread(e) \/ ReadState(e) \/ ReadVersion(e) \/ WriteState(e) \/ ReadBack(e) \/ RetrySelect(e)
  <2>1. /\ o.pc \in Claimed \ {"record", "evidence", "finish"}
        /\ UNCHANGED job /\ UNCHANGED found
    BY <1>4 DEF Reread, ReadState, ReadVersion, WriteState, ReadBack, RetrySelect, At, Claimed, Steps
  <2>2. job[o.job].state = "running" /\ o.job \in Jobs
    BY <1>1, <2>1 DEF MemoryHolds
  <2>3. job[o.job].attempts \in Nat
    <3>1. job[o.job] \in Rows
      BY <1>1, <2>2 DEF TypeOK
    <3>. QED
      BY <3>1 DEF Rows
  <2>4. \E m \in Memory : Become(e, m) /\ m.job = o.job
                          /\ m.pc \in {"execute", "version", "write", "readback", "finish"}
    <3>1. CASE Reread(e)
      <4>. DEFINE m == [o EXCEPT !.pc = "execute", !.attempt = job[o.job].attempts]
      <4>1. m \in Memory /\ m.job = o.job /\ m.pc = "execute"
        BY <1>1, <2>3 DEF Memory, Steps
      <4>. QED
        BY <3>1, <4>1 DEF Reread
    <3>2. CASE ReadState(e)
      <4>. DEFINE m == [o EXCEPT !.pc = "version", !.seen = canon.value]
      <4>1. m \in Memory /\ m.job = o.job /\ m.pc = "version"
        BY <1>1 DEF Memory, Steps, TypeOK
      <4>. QED
        BY <3>2, <4>1 DEF ReadState
    <3>3. CASE ReadVersion(e)
      <4>. DEFINE m == [o EXCEPT !.pc = "write", !.base = canon.version]
      <4>1. m \in Memory /\ m.job = o.job /\ m.pc = "write"
        BY <1>1 DEF Memory, Steps, TypeOK
      <4>. QED
        BY <3>3, <4>1 DEF ReadVersion
    <3>4. CASE WriteState(e) \/ ReadBack(e)
      <4>1. PICK p \in {"readback", "finish"} : Become(e, [o EXCEPT !.pc = p])
        BY <3>4 DEF WriteState, ReadBack
      <4>. DEFINE m == [o EXCEPT !.pc = p]
      <4>2. m \in Memory /\ m.job = o.job /\ m.pc = p
        BY <1>1, <4>1 DEF Memory, Steps
      <4>. QED
        BY <4>1, <4>2
    <3>5. CASE RetrySelect(e)
      <4>1. PICK s \in {"queued", "failed"} : s = RetryState(job[o.job].attempts)
        BY <2>3, ConstantTypes
      <4>. DEFINE m == [o EXCEPT !.pc = "finish", !.outcome = s]
      <4>2. m \in Memory /\ m.job = o.job /\ m.pc = "finish"
        BY <1>1, <4>1 DEF Memory, Steps, JobState, Closed
      <4>. QED
        BY <3>5, <4>1, <4>2 DEF RetrySelect
    <3>. QED
      BY <1>4, <3>1, <3>2, <3>3, <3>4, <3>5
  <2>. HIDE DEF o
  <2>. QED
    BY <2>1, <2>2, <2>4, GoOnHolds DEF o
<1>. QED
  BY <1>2, <1>3, <1>4

LEMMA EvidenceHolds ==
  ASSUME OneEngine, HoldingInv, PipelineInv', NEW e \in Engines, WriteEvidence(e) \/ EvidenceIncomplete(e)
  PROVE  HoldingInv' /\ StaysClosed
<1>. DEFINE o == engine[e]
<1>1. /\ o \in Memory /\ MemoryHolds(o) /\ MemoryOK(o) /\ o.pc = "evidence" /\ o.kind \in Kinds
      /\ UNCHANGED job /\ UNCHANGED found
  BY Holds DEF WriteEvidence, EvidenceIncomplete, At, Memory
<1>2. \/ job[o.job].state = "running"
      \/ o.kind = "state-update-failure" /\ o.outcome = "state_update_failed" /\ job[o.job].state = "state_diverged"
  BY <1>1 DEF MemoryHolds, Claimed, Steps
<1>3. CASE WriteEvidence(e)
  <2>. DEFINE p == AfterEvidence(o.kind)
              m == [o EXCEPT !.pc = p]
  <2>1. /\ p \in {"retry", "read", "finish"} /\ p \in Steps
        /\ o.kind = "state-update-failure" => p = "finish"
    BY <1>1 DEF AfterEvidence, Kinds, Steps
  <2>. HIDE DEF p
  <2>2. m \in Memory /\ m.pc = p /\ m.outcome = o.outcome /\ m.job = o.job
    BY <1>1, <2>1 DEF Memory
  <2>3. Become(e, m)
    BY <1>3 DEF WriteEvidence, p
  <2>. HIDE DEF m
  <2>4. MemoryHolds(m)
    BY <1>2, <2>1, <2>2 DEF MemoryHolds
  <2>. QED
    BY <1>1, <2>1, <2>2, <2>3, <2>4, HoldingThought
<1>4. CASE EvidenceIncomplete(e)
  <2>. DEFINE m == [o EXCEPT !.pc = "finish", !.outcome = "failed_verification"]
  <2>1. m \in Memory /\ m.pc = "finish" /\ m.outcome = "failed_verification" /\ m.job = o.job
    BY <1>1 DEF Memory, Steps, JobState, Closed
  <2>2. Become(e, m) /\ o.kind = "verified-output"
    BY <1>4 DEF EvidenceIncomplete
  <2>. HIDE DEF m
  <2>3. MemoryHolds(m)
    BY <1>2, <2>1, <2>2 DEF MemoryHolds
  <2>. QED
    BY <1>1, <2>1, <2>2, <2>3, HoldingThought
<1>. QED
  BY <1>3, <1>4

LEMMA TableHolds ==
  ASSUME OneEngine, HoldingInv, PipelineInv', NEW e \in Engines,
         RecoverSelect(e) \/ RecoverWrite(e) \/ Finish(e) \/ \E j \in Jobs : Claim(e, j)
  PROVE  HoldingInv' /\ StaysClosed
<1>. DEFINE o == engine[e]
<1>1. /\ o \in Memory /\ MemoryHolds(o) /\ TypeOK /\ (o.pc \in Claimed => o.job \in Jobs)
      /\ o.pc # "recover" => found[e] = {}
      /\ o.pc = "recover" => \A f \in found[e] : job[f.job].state = "running"
  BY Holds
<1>2. job \in [Jobs -> Rows] /\ found \in [Engines -> SUBSET [job : Jobs, to : {"queued", "failed"}]]
  BY <1>1 DEF TypeOK
<1>3. CASE RecoverSelect(e)
  <2>. PICK m \in Memory : m = [o EXCEPT !.pc = "recover"]
    BY <1>1, MemoryUpdates DEF Steps
  <2>1. m \in Memory /\ m.pc = "recover"
    BY <1>1 DEF Memory
  <2>2. Become(e, m) /\ UNCHANGED job
        /\ found' = [found EXCEPT ![e] = {[job |-> j, to |-> RetryState(job[j].attempts)] :
                                          j \in {i \in Jobs : Expired(i)}}]
    BY <1>3 DEF RecoverSelect
  <2>3. \A f \in found'[e] : job'[f.job].state = "running"
    <3>1. found'[e] = {[job |-> j, to |-> RetryState(job[j].attempts)] : j \in {i \in Jobs : Expired(i)}}
      BY <1>2, <2>2
    <3>. QED
      BY <2>2, <3>1 DEF Expired
  <2>4. MemoryHolds(m)'
    BY <2>1 DEF MemoryHolds, Claimed
  <2>. QED
    BY <2>1, <2>2, <2>3, <2>4, HoldingStep DEF StaysClosed
<1>4. CASE RecoverWrite(e)
  <2>. PICK m \in Memory : m = [o EXCEPT !.pc = "claim"]
    BY <1>1, MemoryUpdates DEF Steps
  <2>1. m \in Memory /\ m.pc = "claim"
    BY <1>1 DEF Memory
  <2>2. Become(e, m) /\ found' = [found EXCEPT ![e] = {}] /\ o.pc = "recover"
    BY <1>4 DEF RecoverWrite, At
  <2>3. found'[e] = {}
    BY <1>2, <2>2
  <2>4. MemoryHolds(m)'
    BY <2>1 DEF MemoryHolds, Claimed
  <2>5. StaysClosed
    <3>. SUFFICES ASSUME NEW j \in Jobs, job[j].state \in Closed PROVE job'[j].state = job[j].state
      BY DEF StaysClosed
    <3>1. ~\E f \in found[e] : f.job = j
      BY <1>1, <2>2 DEF Closed
    <3>. QED
      BY <1>4, <3>1 DEF RecoverWrite
  <2>. QED
    BY <2>1, <2>2, <2>3, <2>4, <2>5, HoldingStep
<1>5. ASSUME NEW j \in Jobs, Claim(e, j) PROVE HoldingInv' /\ StaysClosed
  <2>. DEFINE m == [Idle EXCEPT !.pc = "reread", !.job = j]
  <2>1. m \in Memory /\ m.pc = "reread" /\ m.job = j
    BY ConstantTypes DEF Memory, Steps
  <2>2. /\ Become(e, m) /\ UNCHANGED found /\ o.pc # "recover" /\ job[j].state = "queued"
        /\ job' = [job EXCEPT ![j].state = "running", ![j].attempts = @ + 1]
    BY <1>5 DEF Claim, At, Oldest, Queued
  <2>. HIDE DEF m, o
  <2>3. job'[j].state = "running" /\ \A i \in Jobs \ {j} : job'[i] = job[i]
    BY <1>2, <2>2 DEF Rows
  <2>4. MemoryHolds(m)'
    BY <2>1, <2>3 DEF MemoryHolds
  <2>5. StaysClosed
    BY <2>2, <2>3 DEF StaysClosed, Closed
  <2>. QED
    BY <1>1, <2>1, <2>2, <2>4, <2>5, HoldingStep
<1>6. CASE Finish(e)
  <2>. PICK m \in Memory : m = [o EXCEPT !.pc = "record"]
    BY <1>1, MemoryUpdates DEF Steps
  <2>1. m \in Memory /\ m.pc = "record" /\ m.job = o.job /\ m.outcome = o.outcome
    BY <1>1 DEF Memory
  <2>2. Become(e, m) /\ job' = [job EXCEPT ![o.job].state = o.outcome] /\ o.pc = "finish" /\ UNCHANGED found
    BY <1>6 DEF Finish, At
  <2>3. o.job \in Jobs
    BY <1>1, <2>2 DEF Claimed, Steps
  <2>4. \/ job[o.job].state = "running"
        \/ job[o.job].state = "state_diverged" /\ o.outcome = "state_update_failed"
    BY <1>1, <2>2 DEF MemoryHolds, Claimed, Steps
  <2>. HIDE DEF o
  <2>5. \A i \in Jobs : job'[i].state = IF i = o.job THEN o.outcome ELSE job[i].state
    BY <1>2, <2>2, <2>3 DEF Rows
  <2>6. MemoryHolds(m)'
    BY <2>1, <2>3, <2>5 DEF MemoryHolds
  <2>7. StaysClosed
    BY <2>4, <2>5 DEF StaysClosed, Closed
  <2>. QED
    BY <1>1, <2>1, <2>2, <2>6, <2>7, HoldingStep
<1>. QED
  BY <1>3, <1>4, <1>5, <1>6

LEMMA OutsideHolds ==
  ASSUME HoldingInv, PipelineInv', NEW j \in Jobs, Submit(j) \/ GrantExpires(j) \/ LeaseLapses(j)
  PROVE  HoldingInv' /\ StaysClosed
<1>1. job \in [Jobs -> Rows] /\ UNCHANGED <<engine, found>>
  BY DEF HoldingInv, PipelineInv, TypeOK, Submit, GrantExpires, LeaseLapses
<1>2. \A i \in Jobs : job[i].state # "absent" => job'[i] = job[i]
  BY <1>1 DEF Submit, GrantExpires, LeaseLapses
<1>3. StaysClosed
  BY <1>2 DEF StaysClosed, Closed
<1>4. ASSUME NEW e \in Engines
      PROVE  /\ MemoryHolds(engine[e])'
             /\ IF engine'[e].pc = "recover" THEN \A f \in found'[e] : job'[f.job].state = "running"
                ELSE found'[e] = {}
  <2>1. MemoryHolds(engine[e]) /\ engine[e] \in Memory /\ (engine[e].pc \in Claimed => engine[e].job \in Jobs)
    BY Holds
  <2>2. MemoryHolds(engine[e])'
    BY <1>1, <1>2, <2>1 DEF MemoryHolds, Claimed, Steps
  <2>3. \A f \in found[e] : f.job \in Jobs
    BY DEF HoldingInv, PipelineInv, TypeOK
  <2>4. IF engine[e].pc = "recover" THEN \A f \in found[e] : job[f.job].state = "running" ELSE found[e] = {}
    BY DEF HoldingInv, At
  <2>. QED
    BY <1>1, <1>2, <2>2, <2>3, <2>4
<1>. QED
  BY <1>3, <1>4 DEF HoldingInv, At

LEMMA HoldingPreserved ==
  ASSUME OneEngine
  PROVE  HoldingInv /\ [Next]_vars => HoldingInv' /\ (StaysClosed \/ UNCHANGED vars)
<1>. SUFFICES ASSUME HoldingInv, [Next]_vars PROVE HoldingInv' /\ (StaysClosed \/ UNCHANGED vars)
  OBVIOUS
<1>0. PipelineInv'
  BY Preserved DEF HoldingInv
<1>1. CASE UNCHANGED vars
  BY <1>0, <1>1 DEF vars, HoldingInv, MemoryHolds, At
<1>2. ASSUME NEW j \in Jobs, Submit(j) \/ GrantExpires(j) \/ LeaseLapses(j)
      PROVE  HoldingInv' /\ StaysClosed
  BY <1>0, <1>2, OutsideHolds
<1>3. ASSUME NEW e \in Engines, RunOnce(e) \/ EngineStops(e)
      PROVE  HoldingInv' /\ StaysClosed
  BY <1>0, <1>3, PlanningHolds, ReadingHolds, EvidenceHolds, TableHolds DEF RunOnce
<1>. QED
  BY <1>1, <1>2, <1>3 DEF Next

\* finish() and recover() update rows by id alone, and yet, as long as one engine
\* runs at a time, dies and is started again, a job that is closed is neither
\* requeued nor closed with another outcome, except by the handler of a state
\* update that failed after the divergence was recorded.
THEOREM ClosedStaysClosed ==
  ASSUME OneEngine PROVE Spec => ClosedIsFinal
<1>1. Init => HoldingInv
  <2>. SUFFICES ASSUME Init PROVE HoldingInv
    OBVIOUS
  <2>1. \A e \in Engines : engine[e] = Idle /\ found[e] = {}
    BY DEF Init
  <2>2. MemoryHolds(Idle) /\ Idle.pc # "recover"
    BY ConstantTypes DEF MemoryHolds, Claimed
  <2>. QED
    BY <2>1, <2>2, Initially DEF HoldingInv, At
<1>2. HoldingInv /\ [Next]_vars => HoldingInv'
  BY HoldingPreserved
<1>3. HoldingInv /\ [Next]_vars => [StaysClosed]_vars
  BY HoldingPreserved
<1>. QED
  BY <1>1, <1>2, <1>3, PTL DEF Spec, ClosedIsFinal, StaysClosed
===============================================================================
