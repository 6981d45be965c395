-------------------------- MODULE GovernedWorkProofs --------------------------
(***************************************************************************)
(* Proofs about the components of MCGovernedWork, for any sets of jobs,    *)
(* tasks and processes and any bounds: each component's inductive          *)
(* invariant is preserved by its steps, and what the suite asks of all of  *)
(* them follows.                                                           *)
(***************************************************************************)
EXTENDS AuthorityProofs

-------------------------------------------------------------------------------
(* The core engine.                                                         *)

\* The engines that will still execute job j, and those that have just done so.
Pending(j) == {e \in Engines : engine[e].pc \in {"start", "run"} /\ engine[e].job = j}
Executed(j) == {e \in Engines : engine[e].pc \in {"ran", "raised"} /\ engine[e].job = j}

\* A job that is not queued any more is run by the engines that hold it at most;
\* one that is queued has not been run but by those that are about to store it.
RunsCovered ==
  \A j \in CoreJobs :
    /\ coreRuns[j] + Cardinality(Pending(j)) <= Cardinality(Engines) + deaths
    /\ coreJob[j] \in {"absent", "queued"} => coreRuns[j] <= Cardinality(Executed(j)) + deaths

\* The records that link to position i, and the processes that are about to
\* write another one that does.
Links(i) == {k \in DOMAIN audit : audit[k] = i}
Readers(i) == {e \in Engines : engine[e].read /\ engine[e].prev = i}

ForksCovered ==
  /\ \A e \in Engines : engine[e].read => engine[e].prev \in 0..Len(audit)
  /\ \A i \in 0..Len(audit) : Cardinality(Links(i)) + Cardinality(Readers(i)) <= Cardinality(Engines)

CoreShape ==
  /\ CoreTypeOK
  /\ arrival \in Seq(CoreJobs) /\ audit \in Seq(Nat)
  /\ \A e \in Engines : engine[e].pc # "idle" => engine[e].job \in CoreJobs
  /\ \A e \in Engines : engine[e].read => engine[e].pc \in AuditPoints

CoreInv == CoreShape /\ RunsCovered /\ ForksCovered

Held == [pc : AuditPoints \union {"idle", "run", "ran", "raised", "verify"},
         job : CoreJobs \union {"none"}, read : BOOLEAN, prev : Nat]
Resting(pc, j) == [AtRest EXCEPT !.pc = pc, !.job = j]

\* A part of the engines counts one more with one of them than without it.
LEMMA EnginesCount ==
  ASSUME NEW S \in SUBSET Engines, NEW e
  PROVE  /\ Cardinality(S) \in Nat /\ Cardinality(Engines) \in Nat /\ Cardinality(S) <= Cardinality(Engines)
         /\ Cardinality(S \ {e}) \in Nat
         /\ e \in S => Cardinality(S) = Cardinality(S \ {e}) + 1
         /\ e \notin S => Cardinality(S) = Cardinality(S \ {e})
<1>1. IsFiniteSet(Engines) /\ IsFiniteSet(S) /\ IsFiniteSet(S \ {e})
  BY CoreAssumption, FS_Subset
<1>2. Cardinality(S) \in Nat /\ Cardinality(Engines) \in Nat /\ Cardinality(S \ {e}) \in Nat
  BY <1>1, FS_CardinalityType
<1>3. Cardinality(S) <= Cardinality(Engines)
  BY <1>1, FS_Subset
<1>4. CASE e \in S
  BY <1>1, <1>2, <1>3, <1>4, FS_RemoveElement
<1>5. CASE e \notin S
  <2>1. S \ {e} = S
    BY <1>5
  <2>. QED
    BY <1>2, <1>3, <1>5, <2>1
<1>. QED
  BY <1>4, <1>5

\* Parts of the engines that differ in e at most.
LEMMA EnginesDiffer ==
  ASSUME NEW S \in SUBSET Engines, NEW T \in SUBSET Engines, NEW e, S \ {e} = T \ {e}
  PROVE  /\ Cardinality(S) \in Nat /\ Cardinality(T) \in Nat
         /\ e \in S /\ e \notin T => Cardinality(S) = Cardinality(T) + 1
         /\ (e \in S => e \in T) => Cardinality(S) <= Cardinality(T)
<1>1. /\ Cardinality(S) \in Nat /\ Cardinality(S \ {e}) \in Nat
      /\ e \in S => Cardinality(S) = Cardinality(S \ {e}) + 1
      /\ e \notin S => Cardinality(S) = Cardinality(S \ {e})
  BY EnginesCount
<1>2. /\ Cardinality(T) \in Nat
      /\ e \in T => Cardinality(T) = Cardinality(S \ {e}) + 1
      /\ e \notin T => Cardinality(T) = Cardinality(S \ {e})
  BY EnginesCount
<1>. QED
  BY <1>1, <1>2

LEMMA RestingIsHeld ==
  ASSUME NEW pc \in AuditPoints \union {"idle", "run", "ran", "raised", "verify"}, NEW j \in CoreJobs
  PROVE  /\ Resting(pc, j) \in Held /\ AtRest \in Held
         /\ Resting(pc, j).pc = pc /\ Resting(pc, j).job = j /\ Resting(pc, j).read = FALSE
         /\ AtRest.pc = "idle" /\ AtRest.read = FALSE
  BY DEF Resting, AtRest, Held

\* What a step in which engine e comes to hold m leaves as it was.
LEMMA EngineMoves ==
  ASSUME CoreShape, NEW e \in Engines, NEW m \in Held, engine' = [engine EXCEPT ![e] = m]
  PROVE  /\ engine' \in [Engines -> Held] /\ engine'[e] = m
         /\ \A f \in Engines \ {e} : engine'[f] = engine[f]
         /\ \A i \in Nat :
              /\ Readers(i) \in SUBSET Engines /\ Readers(i)' \in SUBSET Engines
              /\ Readers(i)' \ {e} = Readers(i) \ {e}
              /\ e \in Readers(i)' <=> m.read /\ m.prev = i
<1>1. engine \in [Engines -> Held]
  BY DEF CoreShape, CoreTypeOK, Held
<1>2. engine' \in [Engines -> Held] /\ engine'[e] = m /\ \A f \in Engines \ {e} : engine'[f] = engine[f]
  BY <1>1
<1>. QED
  BY <1>2 DEF Readers

LEMMA JobMoves ==
  ASSUME CoreShape, NEW e \in Engines, NEW m \in Held, engine' = [engine EXCEPT ![e] = m], NEW j \in CoreJobs
  PROVE  /\ Pending(j) \in SUBSET Engines /\ Pending(j)' \in SUBSET Engines
         /\ Pending(j)' \ {e} = Pending(j) \ {e}
         /\ Executed(j) \in SUBSET Engines /\ Executed(j)' \in SUBSET Engines
         /\ Executed(j)' \ {e} = Executed(j) \ {e}
         /\ e \in Pending(j)' <=> m.pc \in {"start", "run"} /\ m.job = j
         /\ e \in Executed(j)' <=> m.pc \in {"ran", "raised"} /\ m.job = j
<1>1. engine' \in [Engines -> Held] /\ engine'[e] = m /\ \A f \in Engines \ {e} : engine'[f] = engine[f]
  BY EngineMoves
<1>. QED
  BY <1>1 DEF Pending, Executed

\* The forks stay covered when nothing is appended and nobody reads the last line.
LEMMA ForksStay ==
  ASSUME CoreInv, NEW e \in Engines, NEW m \in Held, engine' = [engine EXCEPT ![e] = m],
         ~m.read, UNCHANGED audit
  PROVE  ForksCovered'
<1>1. Len(audit) \in Nat
  BY DEF CoreInv, CoreShape
<1>2. ASSUME NEW i \in 0..Len(audit)
      PROVE  Cardinality(Links(i)) + Cardinality(Readers(i)') <= Cardinality(Engines)
  <2>0. /\ Readers(i) \in SUBSET Engines /\ Readers(i)' \in SUBSET Engines
        /\ Readers(i)' \ {e} = Readers(i) \ {e} /\ e \notin Readers(i)'
    <3>1. i \in Nat /\ CoreShape
      BY <1>1 DEF CoreInv
    <3>. QED
      BY <3>1, EngineMoves
  <2>1. Cardinality(Readers(i)') \in Nat /\ Cardinality(Readers(i)) \in Nat
        /\ Cardinality(Readers(i)') <= Cardinality(Readers(i))
    BY <2>0, EnginesDiffer
  <2>2. Cardinality(Links(i)) \in Nat
    <3>1. IsFiniteSet(DOMAIN audit)
      BY <1>1, FS_Interval DEF CoreInv, CoreShape
    <3>. QED
      BY <3>1, FS_Subset, FS_CardinalityType DEF Links
  <2>3. Cardinality(Engines) \in Nat
    BY CoreAssumption, FS_CardinalityType
  <2>4. Cardinality(Links(i)) + Cardinality(Readers(i)) <= Cardinality(Engines)
    BY DEF CoreInv, ForksCovered
  <2>. QED
    BY <2>1, <2>2, <2>3, <2>4
<1>3. \A f \in Engines : engine'[f].read => engine'[f].prev \in 0..Len(audit)
  BY EngineMoves DEF CoreInv, ForksCovered
<1>. QED
  BY <1>2, <1>3 DEF ForksCovered, Links

\* The runs stay covered when the engine that moves comes to no new run and keeps
\* those it has made.
LEMMA RunsStay ==
  ASSUME CoreInv, NEW e \in Engines, NEW m \in Held, engine' = [engine EXCEPT ![e] = m],
         m.pc \in {"start", "run"} => engine[e].pc \in {"start", "run"} /\ engine[e].job = m.job,
         engine[e].pc \in {"ran", "raised"} => m.pc \in {"ran", "raised"} /\ engine[e].job = m.job,
         UNCHANGED <<coreRuns, deaths>>,
         \A j \in CoreJobs : coreJob'[j] \in {"absent", "queued"} => coreJob[j] \in {"absent", "queued"}
  PROVE  RunsCovered'
<1>. SUFFICES ASSUME NEW j \in CoreJobs
              PROVE  /\ coreRuns[j] + Cardinality(Pending(j)') <= Cardinality(Engines) + deaths
                     /\ coreJob'[j] \in {"absent", "queued"} => coreRuns[j] <= Cardinality(Executed(j)') + deaths
  BY DEF RunsCovered
<1>1. /\ Pending(j) \in SUBSET Engines /\ Pending(j)' \in SUBSET Engines /\ Pending(j)' \ {e} = Pending(j) \ {e}
      /\ Executed(j) \in SUBSET Engines /\ Executed(j)' \in SUBSET Engines
      /\ Executed(j)' \ {e} = Executed(j) \ {e}
      /\ e \in Pending(j)' <=> m.pc \in {"start", "run"} /\ m.job = j
      /\ e \in Executed(j)' <=> m.pc \in {"ran", "raised"} /\ m.job = j
  <2>1. CoreShape
    BY DEF CoreInv
  <2>. QED
    BY <2>1, JobMoves
<1>2. e \in Pending(j)' => e \in Pending(j)
  BY <1>1 DEF Pending
<1>3. e \in Executed(j) => e \in Executed(j)'
  BY <1>1 DEF Executed
<1>4. Cardinality(Pending(j)') \in Nat /\ Cardinality(Pending(j)) \in Nat
      /\ Cardinality(Pending(j)') <= Cardinality(Pending(j))
  BY <1>1, <1>2, EnginesDiffer
<1>5. Cardinality(Executed(j)') \in Nat /\ Cardinality(Executed(j)) \in Nat
      /\ Cardinality(Executed(j)) <= Cardinality(Executed(j)')
  BY <1>1, <1>3, EnginesDiffer
<1>6. coreRuns[j] \in Nat /\ deaths \in Nat /\ Cardinality(Engines) \in Nat
  BY CoreAssumption, FS_CardinalityType DEF CoreInv, CoreShape, CoreTypeOK
<1>7. /\ coreRuns[j] + Cardinality(Pending(j)) <= Cardinality(Engines) + deaths
      /\ coreJob[j] \in {"absent", "queued"} => coreRuns[j] <= Cardinality(Executed(j)) + deaths
  BY DEF CoreInv, RunsCovered
<1>. QED
  BY <1>4, <1>5, <1>6, <1>7

\* The shape of the state, step by step.
LEMMA ShapeStays ==
  ASSUME CoreShape, NEW e \in Engines, NEW m \in Held, engine' = [engine EXCEPT ![e] = m],
         m.pc # "idle" => m.job \in CoreJobs, m.read => m.pc \in AuditPoints,
         coreJob' \in [CoreJobs -> {"absent", "queued", "rejected", "failed", "executed", "verified",
                                    "verification_failed"}],
         arrival' \in Seq(CoreJobs), UNCHANGED expired,
         audit' \in Seq(Nat), \A i \in DOMAIN audit' : audit'[i] \in 0..(i - 1),
         coreRuns' \in [CoreJobs -> Nat], deaths' \in 0..MaxDeaths
  PROVE  CoreShape'
<1>1. engine' \in [Engines -> Held] /\ engine'[e] = m /\ \A f \in Engines \ {e} : engine'[f] = engine[f]
  BY EngineMoves
<1>2. \A i \in DOMAIN arrival' : arrival'[i] \in CoreJobs
  OBVIOUS
<1>3. CoreTypeOK'
  BY <1>1, <1>2 DEF CoreTypeOK, CoreShape, Held
<1>. QED
  BY <1>1, <1>3 DEF CoreShape

\* next_job returns a queued job.
LEMMA NextJobIsQueued ==
  ASSUME CoreShape, NextJob # "none"
  PROVE  NextJob \in CoreJobs /\ coreJob[NextJob] = "queued"
<1>. DEFINE queue == {i \in DOMAIN arrival : coreJob[arrival[i]] = "queued"}
<1>1. queue # {} /\ queue \in SUBSET Nat
  BY DEF NextJob, CoreShape
<1>2. PICK i \in queue : \A k \in queue : i <= k
  BY <1>1, LeastElement
<1>3. NextJob = arrival[CHOOSE x \in queue : \A k \in queue : x <= k]
  BY <1>1 DEF NextJob
<1>4. (CHOOSE x \in queue : \A k \in queue : x <= k) \in queue
  BY <1>2
<1>. QED
  BY <1>3, <1>4 DEF CoreShape

\* Submit, a refused job and the verdict: no run begins or ends, and no record is
\* linked to.
LEMMA PlainSteps ==
  ASSUME CoreInv, NEW e \in Engines,
         \/ \E j \in CoreJobs : SubmitCore(e, j)
         \/ \E passed \in BOOLEAN : VerifyJob(e, passed)
  PROVE  CoreInv'
<1>0. CoreShape /\ coreJob \in [CoreJobs -> {"absent", "queued", "rejected", "failed", "executed", "verified",
                                             "verification_failed"}]
      /\ coreRuns \in [CoreJobs -> Nat] /\ deaths \in 0..MaxDeaths
      /\ \A i \in DOMAIN audit : audit[i] \in 0..(i - 1)
  BY DEF CoreInv, CoreShape, CoreTypeOK
<1>1. ASSUME NEW j \in CoreJobs, SubmitCore(e, j) PROVE CoreInv'
  <2>a. PICK m \in Held : m = Resting("submitted", j)
    BY RestingIsHeld DEF AuditPoints
  <2>1. /\ m.pc = "submitted" /\ m.job = j /\ ~m.read
        /\ engine' = [engine EXCEPT ![e] = m]
    <3>1. m.pc = "submitted" /\ m.job = j /\ ~m.read
      BY <2>a, RestingIsHeld DEF AuditPoints
    <3>. QED
      BY <1>1, <2>a, <3>1 DEF SubmitCore, At, Resting
  <2>2. CoreShape'
    <3>1. arrival' \in Seq(CoreJobs)
      BY <1>0, <1>1 DEF SubmitCore, CoreShape
    <3>. QED
      BY <1>0, <1>1, <2>1, <3>1, ShapeStays DEF SubmitCore, AuditPoints, CoreShape
  <2>3. RunsCovered'
    BY <1>0, <1>1, <2>1, RunsStay DEF SubmitCore
  <2>. QED
    BY <1>1, <2>1, <2>2, <2>3, ForksStay DEF SubmitCore, CoreInv
<1>2. ASSUME NEW passed \in BOOLEAN, VerifyJob(e, passed) PROVE CoreInv'
  <2>0. engine[e].job \in CoreJobs
    BY <1>0, <1>2 DEF CoreShape, VerifyJob
  <2>a. PICK m \in Held : m = Resting("judged", engine[e].job)
    BY <2>0, RestingIsHeld DEF AuditPoints
  <2>1. /\ m.pc = "judged" /\ m.job = engine[e].job /\ ~m.read
        /\ engine' = [engine EXCEPT ![e] = m]
    <3>1. m.pc = "judged" /\ m.job = engine[e].job /\ ~m.read
      BY <2>0, <2>a, RestingIsHeld DEF AuditPoints
    <3>. QED
      BY <1>2, <2>a, <3>1 DEF VerifyJob, At, Resting
  <2>2. CoreShape'
    <3>1. coreJob' \in [CoreJobs -> {"absent", "queued", "rejected", "failed", "executed", "verified",
                                     "verification_failed"}]
      BY <1>0, <1>2 DEF VerifyJob
    <3>. QED
      <4>1. UNCHANGED <<arrival, expired, audit, coreRuns, deaths>> /\ arrival \in Seq(CoreJobs) /\ audit \in Seq(Nat)
        BY <1>0, <1>2 DEF VerifyJob, CoreShape
      <4>2. m \in Held /\ (m.pc # "idle" => m.job \in CoreJobs) /\ (m.read => m.pc \in AuditPoints)
        BY <2>0, <2>1
      <4>. QED
        BY <1>0, <2>1, <3>1, <4>1, <4>2, ShapeStays
  <2>3. RunsCovered'
    BY <1>0, <1>2, <2>1, RunsStay DEF VerifyJob
  <2>. QED
    BY <1>2, <2>1, <2>2, <2>3, ForksStay DEF VerifyJob, CoreInv
<1>. QED
  BY <1>1, <1>2

\* An engine takes the oldest job, which stays queued.
LEMMA TakeCovered ==
  ASSUME CoreInv, NEW e \in Engines, TakeJob(e) PROVE CoreInv'
<1>0. CoreShape /\ coreJob \in [CoreJobs -> {"absent", "queued", "rejected", "failed", "executed", "verified",
                                             "verification_failed"}]
      /\ coreRuns \in [CoreJobs -> Nat] /\ deaths \in 0..MaxDeaths
      /\ \A i \in DOMAIN audit : audit[i] \in 0..(i - 1)
  BY DEF CoreInv, CoreShape, CoreTypeOK
<1>. DEFINE t == NextJob
<1>1. t \in CoreJobs /\ coreJob[t] = "queued"
  BY <1>0, NextJobIsQueued DEF TakeJob
<1>. HIDE DEF t
<1>2. CASE t \in expired
  <2>a. PICK m \in Held : m = Resting("rejected", t)
    BY <1>1, RestingIsHeld DEF AuditPoints
  <2>1. /\ m.pc = "rejected" /\ m.job = t /\ ~m.read
        /\ engine' = [engine EXCEPT ![e] = m]
    <3>1. m.pc = "rejected" /\ m.job = t /\ ~m.read
      BY <1>1, <2>a, RestingIsHeld DEF AuditPoints
    <3>. QED
      BY <1>2, <2>a, <3>1 DEF TakeJob, At, Resting, t
  <2>2. coreJob' = [coreJob EXCEPT ![t] = "rejected"]
        /\ UNCHANGED <<arrival, expired, audit, coreRuns, deaths>> /\ engine[e].pc = "idle"
    BY <1>2 DEF TakeJob, t
  <2>3. CoreShape'
    BY <1>0, <1>1, <2>1, <2>2, ShapeStays DEF AuditPoints, CoreShape
  <2>4. RunsCovered'
    BY <1>0, <1>1, <2>1, <2>2, RunsStay
  <2>. QED
    BY <2>1, <2>2, <2>3, <2>4, ForksStay DEF CoreInv
<1>3. CASE t \notin expired
  <2>a. PICK m \in Held : m = Resting("start", t)
    BY <1>1, RestingIsHeld DEF AuditPoints
  <2>1. /\ m.pc = "start" /\ m.job = t /\ ~m.read
        /\ engine' = [engine EXCEPT ![e] = m]
    <3>1. m.pc = "start" /\ m.job = t /\ ~m.read
      BY <1>1, <2>a, RestingIsHeld DEF AuditPoints
    <3>. QED
      BY <1>3, <2>a, <3>1 DEF TakeJob, At, Resting, t
  <2>2. UNCHANGED <<coreJob, arrival, expired, audit, coreRuns, deaths>> /\ engine[e].pc = "idle"
    BY <1>3 DEF TakeJob, t
  <2>3. CoreShape'
    BY <1>0, <1>1, <2>1, <2>2, ShapeStays DEF AuditPoints, CoreShape
  <2>4. ASSUME NEW j \in CoreJobs
        PROVE  /\ coreRuns[j] + Cardinality(Pending(j)') <= Cardinality(Engines) + deaths
               /\ coreJob[j] \in {"absent", "queued"} => coreRuns[j] <= Cardinality(Executed(j)') + deaths
    <3>1. /\ Pending(j) \in SUBSET Engines /\ Pending(j)' \in SUBSET Engines
          /\ Pending(j)' \ {e} = Pending(j) \ {e}
          /\ Executed(j) \in SUBSET Engines /\ Executed(j)' \in SUBSET Engines
          /\ Executed(j)' \ {e} = Executed(j) \ {e}
          /\ e \in Pending(j)' <=> m.pc \in {"start", "run"} /\ m.job = j
          /\ e \in Executed(j)' <=> m.pc \in {"ran", "raised"} /\ m.job = j
      <4>1. CoreShape /\ m \in Held /\ engine' = [engine EXCEPT ![e] = m]
        BY <1>0, <2>1
      <4>. QED
        BY <4>1, JobMoves
    <3>2. e \notin Executed(j) /\ e \notin Executed(j)' /\ e \notin Pending(j)
      BY <2>1, <2>2, <3>1 DEF Executed, Pending
    <3>3. Executed(j)' = Executed(j)
      BY <3>1, <3>2
    <3>4. /\ coreRuns[j] + Cardinality(Pending(j)) <= Cardinality(Engines) + deaths
          /\ coreJob[j] \in {"absent", "queued"} => coreRuns[j] <= Cardinality(Executed(j)) + deaths
      BY DEF CoreInv, RunsCovered
    <3>5. CASE j = t
      <4>1. Cardinality(Pending(j)') + Cardinality(Executed(j)) <= Cardinality(Engines)
            /\ Cardinality(Pending(j)') \in Nat /\ Cardinality(Executed(j)) \in Nat /\ Cardinality(Engines) \in Nat
        <5>1. Pending(j)' \cap Executed(j) = {}
          <6>1. \A f \in Engines \ {e} : engine'[f] = engine[f]
            BY <1>0, <2>1, EngineMoves
          <6>. QED
            BY <3>2, <6>1 DEF Pending, Executed
        <5>2. IsFiniteSet(Engines) /\ IsFiniteSet(Pending(j)') /\ IsFiniteSet(Executed(j))
          BY <3>1, CoreAssumption, FS_Subset
        <5>3. Cardinality(Pending(j)' \cup Executed(j)) = Cardinality(Pending(j)') + Cardinality(Executed(j))
          <6>1. Cardinality(Pending(j)' \cup Executed(j)) = Cardinality(Pending(j)') + Cardinality(Executed(j))
                  - Cardinality(Pending(j)' \cap Executed(j))
            BY <5>2, FS_Union
          <6>2. Cardinality(Pending(j)' \cap Executed(j)) = 0
            BY <5>1, FS_EmptySet
          <6>3. Cardinality(Pending(j)') \in Nat /\ Cardinality(Executed(j)) \in Nat
            BY <5>2, FS_CardinalityType
          <6>. QED
            BY <6>1, <6>2, <6>3
        <5>4. Cardinality(Pending(j)' \cup Executed(j)) <= Cardinality(Engines)
          BY <3>1, <5>2, FS_Subset
        <5>. QED
          BY <5>2, <5>3, <5>4, FS_CardinalityType
      <4>2. coreRuns[j] \in Nat /\ deaths \in Nat
        BY <1>0
      <4>. QED
        BY <1>1, <3>3, <3>4, <3>5, <4>1, <4>2
    <3>6. CASE j # t
      <4>1. Pending(j)' = Pending(j)
        BY <2>1, <3>1, <3>2, <3>6
      <4>. QED
        BY <3>3, <3>4, <4>1
    <3>. QED
      BY <3>5, <3>6
  <2>5. RunsCovered'
    BY <2>2, <2>4 DEF RunsCovered
  <2>. QED
    BY <2>1, <2>2, <2>3, <2>5, ForksStay DEF CoreInv
<1>. QED
  BY <1>2, <1>3

\* The capability is executed: one run more, by one engine less that is to run it.
LEMMA ExecuteCovered ==
  ASSUME CoreInv, NEW e \in Engines, NEW outcome \in {"ran", "raised"}, Execute(e, outcome) PROVE CoreInv'
<1>. DEFINE t == engine[e].job
<1>0. CoreShape /\ coreRuns \in [CoreJobs -> Nat] /\ deaths \in 0..MaxDeaths
  BY DEF CoreInv, CoreShape, CoreTypeOK
<1>1. t \in CoreJobs
  BY <1>0 DEF Execute, CoreShape
<1>2. PICK m \in Held : m = Resting(outcome, t)
  BY <1>1, RestingIsHeld
<1>3. m.pc = outcome /\ m.job = t /\ ~m.read
  BY <1>1, <1>2, RestingIsHeld
<1>4. /\ engine[e].pc = "run" /\ engine' = [engine EXCEPT ![e] = m]
      /\ coreRuns' = [coreRuns EXCEPT ![t] = @ + 1] /\ UNCHANGED <<coreJob, arrival, expired, audit, deaths>>
  BY <1>2 DEF Execute, At, Resting
<1>. HIDE DEF t
<1>5. CoreShape'
  <2>1. coreRuns' \in [CoreJobs -> Nat]
    BY <1>0, <1>1, <1>4
  <2>2. /\ coreJob \in [CoreJobs -> {"absent", "queued", "rejected", "failed", "executed", "verified",
                                     "verification_failed"}]
        /\ arrival \in Seq(CoreJobs) /\ audit \in Seq(Nat) /\ \A i \in DOMAIN audit : audit[i] \in 0..(i - 1)
    BY <1>0 DEF CoreShape, CoreTypeOK
  <2>3. m \in Held /\ (m.pc # "idle" => m.job \in CoreJobs) /\ (m.read => m.pc \in AuditPoints)
    BY <1>1, <1>3
  <2>. QED
    BY <1>0, <1>4, <2>1, <2>2, <2>3, ShapeStays
<1>6. ASSUME NEW j \in CoreJobs
      PROVE  /\ coreRuns'[j] + Cardinality(Pending(j)') <= Cardinality(Engines) + deaths
             /\ coreJob[j] \in {"absent", "queued"} => coreRuns'[j] <= Cardinality(Executed(j)') + deaths
  <2>1. /\ Pending(j) \in SUBSET Engines /\ Pending(j)' \in SUBSET Engines
        /\ Pending(j)' \ {e} = Pending(j) \ {e}
        /\ Executed(j) \in SUBSET Engines /\ Executed(j)' \in SUBSET Engines
        /\ Executed(j)' \ {e} = Executed(j) \ {e}
        /\ e \in Pending(j)' <=> m.pc \in {"start", "run"} /\ m.job = j
        /\ e \in Executed(j)' <=> m.pc \in {"ran", "raised"} /\ m.job = j
    BY <1>0, <1>4, JobMoves
  <2>2. /\ coreRuns[j] + Cardinality(Pending(j)) <= Cardinality(Engines) + deaths
        /\ coreJob[j] \in {"absent", "queued"} => coreRuns[j] <= Cardinality(Executed(j)) + deaths
    BY DEF CoreInv, RunsCovered
  <2>3. coreRuns[j] \in Nat /\ deaths \in Nat /\ Cardinality(Engines) \in Nat
        /\ Cardinality(Pending(j)) \in Nat /\ Cardinality(Pending(j)') \in Nat
        /\ Cardinality(Executed(j)) \in Nat /\ Cardinality(Executed(j)') \in Nat
    BY <1>0, <2>1, CoreAssumption, FS_CardinalityType, EnginesDiffer
  <2>4. CASE j = t
    <3>1. e \in Pending(j) /\ e \notin Pending(j)' /\ e \in Executed(j)' /\ e \notin Executed(j)
      BY <1>3, <1>4, <2>1, <2>4 DEF Pending, Executed, t
    <3>2. Cardinality(Pending(j)) = Cardinality(Pending(j)') + 1
      BY <2>1, <3>1, EnginesDiffer
    <3>3. Cardinality(Executed(j)') = Cardinality(Executed(j)) + 1
      BY <2>1, <3>1, EnginesDiffer
    <3>4. coreRuns'[j] = coreRuns[j] + 1
      BY <1>0, <1>1, <1>4, <2>4
    <3>. QED
      BY <2>2, <2>3, <3>2, <3>3, <3>4
  <2>5. CASE j # t
    <3>1. Pending(j)' = Pending(j) /\ Executed(j)' = Executed(j)
      BY <1>3, <2>1, <2>5 DEF Pending, Executed, t
    <3>2. coreRuns'[j] = coreRuns[j]
      BY <1>0, <1>4, <2>5
    <3>. QED
      BY <2>2, <3>1, <3>2
  <2>. QED
    BY <2>4, <2>5
<1>7. RunsCovered'
  BY <1>4, <1>6 DEF RunsCovered
<1>. QED
  BY <1>3, <1>4, <1>5, <1>7, ForksStay DEF CoreInv

\* The outcome is stored: from here on the job is nobody's to take.
LEMMA StoreCovered ==
  ASSUME CoreInv, NEW e \in Engines, StoreOutcome(e) PROVE CoreInv'
<1>. DEFINE t == engine[e].job
            state == IF engine[e].pc = "ran" THEN "executed" ELSE "failed"
<1>0. CoreShape /\ coreRuns \in [CoreJobs -> Nat] /\ deaths \in 0..MaxDeaths
  BY DEF CoreInv, CoreShape, CoreTypeOK
<1>1. t \in CoreJobs /\ state \in {"executed", "failed"}
  BY <1>0 DEF StoreOutcome, CoreShape
<1>2. PICK m \in Held : m = Resting(state, t)
  BY <1>1, RestingIsHeld DEF AuditPoints
<1>3. m.pc = state /\ m.job = t /\ ~m.read
  BY <1>1, <1>2, RestingIsHeld DEF AuditPoints
<1>4. /\ engine[e].pc \in {"ran", "raised"} /\ engine' = [engine EXCEPT ![e] = m]
      /\ coreJob' = [coreJob EXCEPT ![t] = state] /\ UNCHANGED <<arrival, expired, audit, coreRuns, deaths>>
  BY <1>2 DEF StoreOutcome, At, Resting
<1>. HIDE DEF t, state
<1>5. CoreShape'
  <2>1. /\ coreJob' \in [CoreJobs -> {"absent", "queued", "rejected", "failed", "executed", "verified",
                                     "verification_failed"}]
        /\ arrival \in Seq(CoreJobs) /\ audit \in Seq(Nat) /\ \A i \in DOMAIN audit : audit[i] \in 0..(i - 1)
    BY <1>0, <1>1, <1>4 DEF CoreShape, CoreTypeOK
  <2>2. m \in Held /\ (m.pc # "idle" => m.job \in CoreJobs) /\ (m.read => m.pc \in AuditPoints)
    BY <1>1, <1>3
  <2>. QED
    BY <1>0, <1>4, <2>1, <2>2, ShapeStays
<1>6. ASSUME NEW j \in CoreJobs
      PROVE  /\ coreRuns[j] + Cardinality(Pending(j)') <= Cardinality(Engines) + deaths
             /\ coreJob'[j] \in {"absent", "queued"} => coreRuns[j] <= Cardinality(Executed(j)') + deaths
  <2>1. /\ Pending(j) \in SUBSET Engines /\ Pending(j)' \in SUBSET Engines
        /\ Pending(j)' \ {e} = Pending(j) \ {e}
        /\ Executed(j) \in SUBSET Engines /\ Executed(j)' \in SUBSET Engines
        /\ Executed(j)' \ {e} = Executed(j) \ {e}
        /\ e \in Pending(j)' <=> m.pc \in {"start", "run"} /\ m.job = j
        /\ e \in Executed(j)' <=> m.pc \in {"ran", "raised"} /\ m.job = j
    BY <1>0, <1>4, JobMoves
  <2>2. /\ coreRuns[j] + Cardinality(Pending(j)) <= Cardinality(Engines) + deaths
        /\ coreJob[j] \in {"absent", "queued"} => coreRuns[j] <= Cardinality(Executed(j)) + deaths
    BY DEF CoreInv, RunsCovered
  <2>3. Pending(j)' = Pending(j)
    <3>1. e \notin Pending(j) /\ e \notin Pending(j)'
      BY <1>1, <1>3, <1>4, <2>1 DEF Pending
    <3>. QED
      BY <2>1, <3>1
  <2>4. CASE j = t
    BY <1>0, <1>1, <1>4, <2>2, <2>3, <2>4 DEF CoreShape, CoreTypeOK
  <2>5. CASE j # t
    <3>1. e \notin Executed(j) /\ e \notin Executed(j)'
      BY <1>1, <1>3, <2>1, <2>5 DEF Executed, t
    <3>2. Executed(j)' = Executed(j)
      BY <2>1, <3>1
    <3>3. coreJob'[j] = coreJob[j]
      BY <1>0, <1>4, <2>5 DEF CoreShape, CoreTypeOK
    <3>. QED
      BY <2>2, <2>3, <3>2, <3>3
  <2>. QED
    BY <2>4, <2>5
<1>7. RunsCovered'
  BY <1>4, <1>6 DEF RunsCovered
<1>. QED
  BY <1>3, <1>4, <1>5, <1>7, ForksStay DEF CoreInv

\* A death takes a run along that was made and not stored.
LEMMA DeathCovered ==
  ASSUME CoreInv, NEW e \in Engines, EngineDies(e) PROVE CoreInv'
<1>0. CoreShape /\ coreRuns \in [CoreJobs -> Nat] /\ deaths \in 0..MaxDeaths /\ MaxDeaths \in Nat
  BY CoreAssumption DEF CoreInv, CoreShape, CoreTypeOK
<1>1. AtRest \in Held /\ AtRest.pc = "idle" /\ ~AtRest.read
  BY DEF AtRest, Held
<1>2. PICK m \in Held : m = AtRest
  BY <1>1
<1>3. m.pc = "idle" /\ ~m.read
  BY <1>1, <1>2
<1>4. /\ engine' = [engine EXCEPT ![e] = m] /\ deaths' = deaths + 1 /\ deaths < MaxDeaths
      /\ UNCHANGED <<coreJob, arrival, expired, audit, coreRuns>>
  BY <1>2 DEF EngineDies
<1>5. CoreShape'
  <2>1. /\ coreJob \in [CoreJobs -> {"absent", "queued", "rejected", "failed", "executed", "verified",
                                     "verification_failed"}]
        /\ arrival \in Seq(CoreJobs) /\ audit \in Seq(Nat) /\ \A i \in DOMAIN audit : audit[i] \in 0..(i - 1)
        /\ deaths' \in 0..MaxDeaths
    BY <1>0, <1>4 DEF CoreShape, CoreTypeOK
  <2>2. m \in Held /\ (m.pc # "idle" => m.job \in CoreJobs) /\ (m.read => m.pc \in AuditPoints)
    BY <1>3
  <2>. QED
    BY <1>0, <1>4, <2>1, <2>2, ShapeStays
<1>6. ASSUME NEW j \in CoreJobs
      PROVE  /\ coreRuns[j] + Cardinality(Pending(j)') <= Cardinality(Engines) + deaths'
             /\ coreJob[j] \in {"absent", "queued"} => coreRuns[j] <= Cardinality(Executed(j)') + deaths'
  <2>1. /\ Pending(j) \in SUBSET Engines /\ Pending(j)' \in SUBSET Engines
        /\ Pending(j)' \ {e} = Pending(j) \ {e}
        /\ Executed(j) \in SUBSET Engines /\ Executed(j)' \in SUBSET Engines
        /\ Executed(j)' \ {e} = Executed(j) \ {e}
        /\ e \in Pending(j)' <=> m.pc \in {"start", "run"} /\ m.job = j
        /\ e \in Executed(j)' <=> m.pc \in {"ran", "raised"} /\ m.job = j
    BY <1>0, <1>4, JobMoves
  <2>2. /\ coreRuns[j] + Cardinality(Pending(j)) <= Cardinality(Engines) + deaths
        /\ coreJob[j] \in {"absent", "queued"} => coreRuns[j] <= Cardinality(Executed(j)) + deaths
    BY DEF CoreInv, RunsCovered
  <2>3. coreRuns[j] \in Nat /\ deaths \in Nat /\ Cardinality(Engines) \in Nat
    BY <1>0, CoreAssumption, FS_CardinalityType
  <2>4. Cardinality(Pending(j)') \in Nat /\ Cardinality(Pending(j)) \in Nat
        /\ Cardinality(Pending(j)') <= Cardinality(Pending(j))
    BY <1>3, <2>1, EnginesDiffer
  <2>5. Cardinality(Executed(j)') \in Nat /\ Cardinality(Executed(j)) \in Nat
        /\ Cardinality(Executed(j)) <= Cardinality(Executed(j)') + 1
    <3>1. /\ Cardinality(Executed(j)) \in Nat /\ Cardinality(Executed(j) \ {e}) \in Nat
          /\ e \in Executed(j) => Cardinality(Executed(j)) = Cardinality(Executed(j) \ {e}) + 1
          /\ e \notin Executed(j) => Cardinality(Executed(j)) = Cardinality(Executed(j) \ {e})
      BY <2>1, EnginesCount
    <3>2. Executed(j)' = Executed(j) \ {e}
      BY <1>3, <2>1
    <3>. QED
      BY <3>1, <3>2
  <2>. QED
    BY <1>4, <2>2, <2>3, <2>4, <2>5
<1>7. RunsCovered'
  BY <1>4, <1>6 DEF RunsCovered
<1>. QED
  BY <1>3, <1>4, <1>5, <1>7, ForksStay DEF CoreInv

\* AuditLog.append reads the last line: nothing links to it yet.
LEMMA AuditReadCovered ==
  ASSUME CoreInv, NEW e \in Engines, AuditReads(e) PROVE CoreInv'
<1>0. CoreShape /\ coreRuns \in [CoreJobs -> Nat] /\ deaths \in 0..MaxDeaths /\ Len(audit) \in Nat
      /\ engine[e] \in Held /\ engine[e].pc \in AuditPoints /\ engine[e].pc # "idle"
      /\ engine[e].job \in CoreJobs /\ ~engine[e].read
  BY DEF CoreInv, CoreShape, CoreTypeOK, AuditReads, AuditPoints, Held
<1>1. PICK m \in Held : m = [engine[e] EXCEPT !.read = TRUE, !.prev = Len(audit)]
  BY <1>0 DEF Held
<1>2. m.pc = engine[e].pc /\ m.job = engine[e].job /\ m.read /\ m.prev = Len(audit)
  BY <1>0, <1>1 DEF Held
<1>3. engine' = [engine EXCEPT ![e] = m] /\ UNCHANGED <<coreJob, arrival, expired, audit, coreRuns, deaths>>
  <2>1. engine' = [engine EXCEPT ![e].read = TRUE, ![e].prev = Len(audit)]
    BY DEF AuditReads
  <2>. QED
    BY <1>0, <1>1, <2>1 DEF AuditReads, CoreShape, CoreTypeOK
<1>4. CoreShape'
  <2>1. /\ coreJob \in [CoreJobs -> {"absent", "queued", "rejected", "failed", "executed", "verified",
                                     "verification_failed"}]
        /\ arrival \in Seq(CoreJobs) /\ audit \in Seq(Nat) /\ \A i \in DOMAIN audit : audit[i] \in 0..(i - 1)
    BY <1>0 DEF CoreShape, CoreTypeOK
  <2>2. m \in Held /\ (m.pc # "idle" => m.job \in CoreJobs) /\ (m.read => m.pc \in AuditPoints)
    BY <1>0, <1>2
  <2>. QED
    BY <1>0, <1>3, <2>1, <2>2, ShapeStays
<1>5. RunsCovered'
  BY <1>0, <1>2, <1>3, RunsStay DEF AuditPoints
<1>6. ASSUME NEW i \in 0..Len(audit)
      PROVE  Cardinality(Links(i)) + Cardinality(Readers(i)') <= Cardinality(Engines)
  <2>1. /\ Readers(i) \in SUBSET Engines /\ Readers(i)' \in SUBSET Engines
        /\ Readers(i)' \ {e} = Readers(i) \ {e} /\ (e \in Readers(i)' <=> i = Len(audit))
    <3>1. i \in Nat
      BY <1>0
    <3>. QED
      BY <1>0, <1>2, <1>3, <3>1, EngineMoves
  <2>2. CASE i = Len(audit)
    <3>1. Links(i) = {}
      <4>1. \A k \in DOMAIN audit : audit[k] \in 0..(k - 1) /\ k \in 1..Len(audit)
        BY <1>0 DEF CoreShape, CoreTypeOK
      <4>. QED
        BY <1>0, <2>2, <4>1 DEF Links
    <3>2. Cardinality(Links(i)) = 0
      BY <3>1, FS_EmptySet
    <3>3. /\ Cardinality(Readers(i)') \in Nat /\ Cardinality(Engines) \in Nat
          /\ Cardinality(Readers(i)') <= Cardinality(Engines)
      BY <2>1, EnginesCount
    <3>. QED
      BY <3>2, <3>3
  <2>3. CASE i # Len(audit)
    <3>1. Readers(i)' = Readers(i)
      BY <1>0, <2>1, <2>3 DEF Readers
    <3>. QED
      BY <3>1 DEF CoreInv, ForksCovered
  <2>. QED
    BY <2>2, <2>3
<1>7. \A f \in Engines : engine'[f].read => engine'[f].prev \in 0..Len(audit)
  <2>1. engine'[e] = m /\ \A f \in Engines \ {e} : engine'[f] = engine[f]
    BY <1>0, <1>3, EngineMoves
  <2>. QED
    BY <1>0, <1>2, <2>1 DEF CoreInv, ForksCovered
<1>8. ForksCovered'
  BY <1>3, <1>6, <1>7 DEF ForksCovered, Links
<1>. QED
  BY <1>4, <1>5, <1>8 DEF CoreInv

\* It appends a record with the hash it read: one link more, by one reader less.
LEMMA AuditWriteCovered ==
  ASSUME CoreInv, NEW e \in Engines, AuditWrites(e) PROVE CoreInv'
<1>. DEFINE p == engine[e].prev  n == Len(audit)
<1>0. CoreShape /\ coreRuns \in [CoreJobs -> Nat] /\ deaths \in 0..MaxDeaths /\ n \in Nat
      /\ engine[e] \in Held /\ engine[e].pc \in AuditPoints /\ engine[e].job \in CoreJobs /\ engine[e].read
      /\ p \in 0..n /\ audit \in Seq(Nat)
  BY DEF CoreInv, CoreShape, CoreTypeOK, ForksCovered, AuditWrites, AuditPoints, Held
<1>1. \E m \in Held : /\ engine' = [engine EXCEPT ![e] = m] /\ ~m.read
                      /\ m.pc # "idle" => m.job = engine[e].job
                      /\ m.pc \in {"start", "run"} => engine[e].pc = "start" /\ m.job = engine[e].job
  <2>1. CASE AfterAudit(engine[e].pc) = "idle"
    BY <2>1, RestingIsHeld, <1>0 DEF AuditWrites
  <2>2. CASE AfterAudit(engine[e].pc) # "idle"
    <3>1. /\ AfterAudit(engine[e].pc) \in {"run", "verify"}
          /\ AfterAudit(engine[e].pc) = "run" => engine[e].pc = "start"
      BY <1>0, <2>2 DEF AfterAudit, AuditPoints
    <3>2. PICK m \in Held : m = Resting(AfterAudit(engine[e].pc), engine[e].job)
      BY <1>0, <3>1, RestingIsHeld
    <3>3. m.pc = AfterAudit(engine[e].pc) /\ m.job = engine[e].job /\ ~m.read
      BY <1>0, <3>1, <3>2, RestingIsHeld
    <3>4. engine' = [engine EXCEPT ![e] = m]
      BY <2>2, <3>2 DEF AuditWrites, At, Resting
    <3>. QED
      BY <3>1, <3>3, <3>4
  <2>. QED
    BY <2>1, <2>2
<1>2. PICK m \in Held : /\ engine' = [engine EXCEPT ![e] = m] /\ ~m.read
                        /\ m.pc # "idle" => m.job = engine[e].job
                        /\ m.pc \in {"start", "run"} => engine[e].pc = "start" /\ m.job = engine[e].job
  BY <1>1
<1>3. audit' = Append(audit, p) /\ UNCHANGED <<coreJob, arrival, expired, coreRuns, deaths>>
  BY DEF AuditWrites
<1>4. /\ audit' \in Seq(Nat) /\ Len(audit') = n + 1 /\ audit'[n + 1] = p
      /\ \A i \in 1..n : audit'[i] = audit[i]
  BY <1>0, <1>3
<1>5. DOMAIN audit = 1..n /\ DOMAIN audit' = 1..(n + 1) /\ \A i \in 1..n : audit[i] \in 0..(i - 1)
  BY <1>0, <1>4 DEF CoreShape, CoreTypeOK
<1>. HIDE DEF p, n
<1>6. CoreShape'
  <2>1. \A i \in DOMAIN audit' : audit'[i] \in 0..(i - 1)
    <3>1. \A i \in 1..(n + 1) : i \in 1..n \/ i = n + 1
      BY <1>0
    <3>2. p \in 0..((n + 1) - 1)
      BY <1>0
    <3>. QED
      BY <1>0, <1>4, <1>5, <3>1, <3>2
  <2>2. /\ coreJob \in [CoreJobs -> {"absent", "queued", "rejected", "failed", "executed", "verified",
                                     "verification_failed"}]
        /\ arrival \in Seq(CoreJobs)
    BY <1>0 DEF CoreShape, CoreTypeOK
  <2>3. m \in Held /\ (m.pc # "idle" => m.job \in CoreJobs) /\ (m.read => m.pc \in AuditPoints)
    BY <1>0, <1>2
  <2>. QED
    BY <1>0, <1>2, <1>3, <1>4, <2>1, <2>2, <2>3, ShapeStays
<1>7. RunsCovered'
  BY <1>0, <1>2, <1>3, RunsStay DEF AuditPoints
<1>8. ASSUME NEW i \in 0..(n + 1)
      PROVE  Cardinality(Links(i)') + Cardinality(Readers(i)') <= Cardinality(Engines)
  <2>1. /\ Readers(i) \in SUBSET Engines /\ Readers(i)' \in SUBSET Engines
        /\ Readers(i)' \ {e} = Readers(i) \ {e} /\ e \notin Readers(i)'
    <3>1. i \in Nat
      BY <1>0
    <3>. QED
      BY <1>0, <1>2, <3>1, EngineMoves
  <2>2. IsFiniteSet(Links(i)) /\ Cardinality(Links(i)) \in Nat
    <3>1. IsFiniteSet(1..n) /\ Links(i) \subseteq 1..n
      BY <1>0, <1>5, FS_Interval DEF Links
    <3>. QED
      BY <3>1, FS_Subset, FS_CardinalityType
  <2>3. Cardinality(Engines) \in Nat /\ Cardinality(Readers(i)) \in Nat /\ Cardinality(Readers(i)') \in Nat
    BY <2>1, EnginesCount
  <2>4. CASE i = p
    <3>1. Links(i)' = Links(i) \cup {n + 1} /\ n + 1 \notin Links(i)
      BY <1>0, <1>4, <1>5, <2>4 DEF Links
    <3>2. Cardinality(Links(i)') = Cardinality(Links(i)) + 1
      BY <2>2, <3>1, FS_AddElement
    <3>3. e \in Readers(i)
      BY <1>0, <2>4 DEF Readers, p
    <3>4. Cardinality(Readers(i)) = Cardinality(Readers(i)') + 1
      BY <2>1, <3>3, EnginesDiffer
    <3>5. Cardinality(Links(i)) + Cardinality(Readers(i)) <= Cardinality(Engines)
      BY <1>0, <2>4 DEF CoreInv, ForksCovered, n
    <3>. QED
      BY <2>2, <2>3, <3>2, <3>4, <3>5
  <2>5. CASE i # p
    <3>1. Links(i)' = Links(i)
      BY <1>0, <1>4, <1>5, <2>5 DEF Links
    <3>2. Cardinality(Readers(i)') <= Cardinality(Readers(i))
      BY <2>1, EnginesDiffer
    <3>3. CASE i \in 0..n
      <4>1. Cardinality(Links(i)) + Cardinality(Readers(i)) <= Cardinality(Engines)
        BY <3>3 DEF CoreInv, ForksCovered, n
      <4>. QED
        BY <2>2, <2>3, <3>1, <3>2, <4>1
    <3>4. CASE i \notin 0..n
      <4>1. i = n + 1
        BY <1>0, <3>4
      <4>2. Links(i) = {}
        BY <1>0, <1>5, <4>1 DEF Links
      <4>3. Cardinality(Links(i)') = 0
        BY <3>1, <4>2, FS_EmptySet
      <4>4. Cardinality(Readers(i)') <= Cardinality(Engines)
        BY <2>1, EnginesCount
      <4>. QED
        BY <2>3, <4>3, <4>4
    <3>. QED
      BY <3>3, <3>4
  <2>. QED
    BY <2>4, <2>5
<1>9. \A f \in Engines : engine'[f].read => engine'[f].prev \in 0..(n + 1)
  <2>1. engine'[e] = m /\ \A f \in Engines \ {e} : engine'[f] = engine[f]
    BY <1>0, <1>2, EngineMoves
  <2>2. \A f \in Engines : engine[f].read => engine[f].prev \in 0..n
    BY DEF CoreInv, ForksCovered, n
  <2>. QED
    BY <1>0, <1>2, <2>1, <2>2
<1>10. ForksCovered'
  BY <1>4, <1>8, <1>9 DEF ForksCovered
<1>. QED
  BY <1>6, <1>7, <1>10 DEF CoreInv

LEMMA CoreStart == CoreInit => CoreInv
<1>. SUFFICES ASSUME CoreInit PROVE CoreInv
  OBVIOUS
<1>1. CoreShape
  BY CoreAssumption DEF CoreInit, CoreShape, CoreTypeOK, AtRest
<1>2. \A j \in CoreJobs : Pending(j) = {} /\ Executed(j) = {}
  BY DEF CoreInit, Pending, Executed, AtRest
<1>3. Cardinality(Engines) \in Nat /\ Cardinality({}) = 0
  BY CoreAssumption, FS_CardinalityType, FS_EmptySet
<1>4. RunsCovered
  <2>1. ASSUME NEW j \in CoreJobs
        PROVE  /\ coreRuns[j] = 0 /\ deaths = 0 /\ Cardinality(Pending(j)) = 0 /\ Cardinality(Executed(j)) = 0
    BY <1>2, <1>3 DEF CoreInit
  <2>. QED
    BY <1>3, <2>1 DEF RunsCovered
<1>5. \A i \in 0..Len(audit) : Links(i) = {} /\ Readers(i) = {}
  BY DEF CoreInit, Links, Readers, AtRest
<1>6. ForksCovered
  <2>1. \A i \in 0..Len(audit) : Cardinality(Links(i)) = 0 /\ Cardinality(Readers(i)) = 0
    BY <1>3, <1>5
  <2>2. \A f \in Engines : ~engine[f].read
    BY DEF CoreInit, AtRest
  <2>. QED
    BY <1>3, <2>1, <2>2 DEF ForksCovered
<1>. QED
  BY <1>1, <1>4, <1>6 DEF CoreInv

LEMMA CoreStep == CoreInv /\ [CoreNext]_coreVars => CoreInv'
<1>. SUFFICES ASSUME CoreInv, [CoreNext]_coreVars PROVE CoreInv'
  OBVIOUS
<1>1. CASE UNCHANGED <<coreJob, arrival, audit, engine, coreRuns, deaths>> /\ expired' \subseteq CoreJobs
  BY <1>1 DEF CoreInv, CoreShape, CoreTypeOK, RunsCovered, ForksCovered, Pending, Executed, Links, Readers
<1>2. ASSUME NEW j \in CoreJobs, GrantExpires(j) PROVE CoreInv'
  BY <1>1, <1>2 DEF GrantExpires, CoreInv, CoreShape, CoreTypeOK
<1>3. CASE UNCHANGED coreVars
  BY <1>1, <1>3 DEF coreVars, CoreInv, CoreShape, CoreTypeOK
<1>. QED
  BY <1>2, <1>3, PlainSteps, TakeCovered, AuditReadCovered, AuditWriteCovered, StoreCovered, DeathCovered,
     ExecuteCovered DEF CoreNext

LEMMA CoreHolds == CoreInv => RunsBounded /\ AuditForksBounded
<1>. SUFFICES ASSUME CoreInv PROVE RunsBounded /\ AuditForksBounded
  OBVIOUS
<1>1. ASSUME NEW j \in CoreJobs PROVE coreRuns[j] <= Cardinality(Engines) + deaths
  <2>1. Cardinality(Pending(j)) \in Nat /\ Cardinality(Engines) \in Nat
    BY EnginesCount DEF Pending
  <2>2. coreRuns[j] \in Nat /\ deaths \in Nat
    BY CoreAssumption DEF CoreInv, CoreShape, CoreTypeOK
  <2>. QED
    BY <2>1, <2>2 DEF CoreInv, RunsCovered
<1>2. ASSUME NEW i \in 0..Len(audit)
      PROVE  Cardinality({k \in DOMAIN audit : audit[k] = i}) <= Cardinality(Engines)
  <2>1. Cardinality(Readers(i)) \in Nat /\ Cardinality(Engines) \in Nat
    BY EnginesCount DEF Readers
  <2>2. DOMAIN audit = 1..Len(audit) /\ Len(audit) \in Nat
    BY DEF CoreInv, CoreShape
  <2>3. Cardinality(Links(i)) \in Nat
    <3>1. IsFiniteSet(1..Len(audit)) /\ Links(i) \subseteq 1..Len(audit)
      BY <2>2, FS_Interval DEF Links
    <3>. QED
      BY <3>1, FS_Subset, FS_CardinalityType
  <2>4. Cardinality(Links(i)) + Cardinality(Readers(i)) <= Cardinality(Engines)
    BY DEF CoreInv, ForksCovered
  <2>5. Cardinality(Links(i)) <= Cardinality(Engines)
    BY <2>1, <2>3, <2>4
  <2>. QED
    BY <2>5 DEF Links
<1>. QED
  BY <1>1, <1>2 DEF RunsBounded, AuditForksBounded

-------------------------------------------------------------------------------
(* The task graph and its advance loop.                                     *)

Statuses == Terminal \union InWork \union {"ABSENT", "DISCOVERED", "READY"}
Projects ==
  [sources : SUBSET (Requests \union {"document"}), status : [TaskIds -> Statuses],
   deps : [TaskIds -> SUBSET TaskIds], blockers : SUBSET TaskIds, raised : BOOLEAN]
Rounds == [pc : AdvanceStages, task : TaskIds \union {"none"}, authorize : BOOLEAN]

\* What is left to append of a document: its source, tasks or dependencies.
DocEvents ==
  [type : {"SOURCE_INGESTED"}, id : {"document"}]
    \union [type : {"TASK_CREATED", "DEPENDENCY_ADDED"}, id : DocTasks]

AdvanceShape ==
  /\ project \in Projects
  /\ advancer \in [Advancers -> Rounds]
  /\ \A a \in Advancers : advancer[a].pc = "idle" <=> advancer[a].task = "none"
  /\ \A g \in Gateways : gateway[g].pc # "idle" => gateway[g].task \in Requests
  /\ gateway \in [Gateways -> [pc : {"idle", "addSource", "checkTask", "addTask"}, task : TaskIds \union {"none"}]]
  /\ reader \in Seq(DocEvents)
  /\ jobs \in [TaskIds -> {"none", "queued", "verified", "failed_verification", "dead"}]
  /\ runQueue \in Seq(TaskIds)

\* Only an authorizing loop has an adapter's task in hand.
HeldIsPermitted == \A a \in Advancers : advancer[a].task \in Requests => advancer[a].authorize

\* The queue holds the queued jobs, each of them once; a task that passed was verified.
QueueMatches ==
  /\ \A i \in DOMAIN runQueue : jobs[runQueue[i]] = "queued"
  /\ \A i, k \in DOMAIN runQueue : runQueue[i] = runQueue[k] => i = k
  /\ \A t \in TaskIds : jobs[t] = "queued" => \E i \in DOMAIN runQueue : runQueue[i] = t
PassedIsVerified == \A a \in Advancers : advancer[a].pc = "passed" => jobs[advancer[a].task] = "verified"

AdvanceInv ==
  /\ AdvanceShape
  /\ StrandedByDeathOnly
  /\ HeldIsPermitted /\ AuthorityRespected
  /\ QueueMatches /\ PassedIsVerified /\ CompleteIsVerified

LEMMA StatusTypes ==
  /\ DOMAIN StatusOf = {"TASK_READY", "TASK_AUTHORIZED", "TASK_STARTED", "TASK_EXECUTED", "VERIFICATION_PASSED",
                        "TASK_COMPLETED", "TASK_FAILED", "VERIFICATION_FAILED"}
  /\ StatusOf["TASK_READY"] = "READY" /\ StatusOf["TASK_AUTHORIZED"] = "AUTHORIZED"
  /\ StatusOf["TASK_STARTED"] = "RUNNING" /\ StatusOf["TASK_EXECUTED"] = "EXECUTED"
  /\ StatusOf["VERIFICATION_PASSED"] = "VERIFIED" /\ StatusOf["TASK_COMPLETED"] = "COMPLETE"
  /\ StatusOf["TASK_FAILED"] = "FAILED" /\ StatusOf["VERIFICATION_FAILED"] = "VERIFICATION_FAILED"
BY DEF StatusOf

\* What the reducer does with an event of a task's progress.
LEMMA ProgressEvent ==
  ASSUME project \in Projects, NEW t \in TaskIds, NEW type \in DOMAIN StatusOf, AppendEvent(Ev(type, t))
  PROVE  /\ project' \in Projects
         /\ UNCHANGED <<project.sources, project.deps, project.blockers>>
         /\ \A u \in TaskIds \ {t} : project'.status[u] = project.status[u]
         /\ project.status[t] # "ABSENT" => project'.status[t] = StatusOf[type] /\ UNCHANGED project.raised
         /\ project.status[t] = "ABSENT" => UNCHANGED project.status
<1>1. project' = IF project.status[t] # "ABSENT" THEN [project EXCEPT !.status[t] = StatusOf[type]]
                 ELSE [project EXCEPT !.raised = TRUE]
  BY StatusTypes DEF AppendEvent, Ev, Reduce
<1>2. StatusOf[type] \in Statuses
  BY StatusTypes DEF Statuses, Terminal, InWork
<1>3. CASE project.status[t] # "ABSENT"
  BY <1>1, <1>2, <1>3 DEF Projects
<1>4. CASE project.status[t] = "ABSENT"
  BY <1>1, <1>4 DEF Projects
<1>. QED
  BY <1>3, <1>4

\* ... and with one of a request or a document.
LEMMA PlanningEvent ==
  ASSUME project \in Projects, NEW e, AppendEvent(e),
         \/ e.type = "SOURCE_INGESTED" /\ e.id \in Requests \union {"document"}
         \/ e.type \in {"TASK_CREATED", "DEPENDENCY_ADDED"} /\ e.id \in TaskIds
            /\ (e.type = "DEPENDENCY_ADDED" => e.id \in DocTasks)
  PROVE  /\ project' \in Projects
         /\ \A u \in TaskIds : \/ project'.status[u] = project.status[u]
                               \/ /\ e.type = "TASK_CREATED" /\ u = e.id
                                  /\ project.status[u] = "ABSENT" /\ project'.status[u] = "DISCOVERED"
         /\ e.type = "SOURCE_INGESTED" => /\ project'.sources = project.sources \union {e.id}
                                          /\ UNCHANGED <<project.status, project.raised>>
         /\ e.type # "SOURCE_INGESTED" => UNCHANGED project.sources
         /\ e.type = "TASK_CREATED" /\ project.status[e.id] = "ABSENT" =>
              UNCHANGED project.raised /\ project'.status[e.id] = "DISCOVERED"
         /\ e.type = "DEPENDENCY_ADDED" => UNCHANGED project.status
         /\ e.type = "DEPENDENCY_ADDED" /\ project.status[e.id] # "ABSENT" => UNCHANGED project.raised
<1>1. CASE e.type = "SOURCE_INGESTED"
  <2>1. project' = [project EXCEPT !.sources = @ \union {e.id}] /\ e.id \in Requests \union {"document"}
    BY <1>1, StatusTypes DEF AppendEvent, Reduce
  <2>. QED
    BY <1>1, <2>1 DEF Projects
<1>2. CASE e.type = "TASK_CREATED"
  <2>1. /\ e.id \in TaskIds
        /\ project' = IF project.status[e.id] = "ABSENT" THEN [project EXCEPT !.status[e.id] = "DISCOVERED"]
                      ELSE [project EXCEPT !.raised = TRUE]
    BY <1>2, StatusTypes DEF AppendEvent, Reduce
  <2>. QED
    BY <1>2, <2>1 DEF Projects, Statuses
<1>3. CASE e.type = "DEPENDENCY_ADDED"
  <2>1. /\ e.id \in DocTasks /\ e.id \in TaskIds
        /\ project' = IF project.status[e.id] # "ABSENT" THEN [project EXCEPT !.deps[e.id] = Needs[e.id]]
                      ELSE [project EXCEPT !.raised = TRUE]
    BY <1>3, StatusTypes DEF AppendEvent, Reduce
  <2>2. Needs[e.id] \in SUBSET TaskIds
    BY <2>1, AdvanceAssumption DEF TaskIds
  <2>. QED
    BY <1>3, <2>1, <2>2 DEF Projects
<1>. QED
  BY <1>1, <1>2, <1>3

\* The plan of a document is made of its source, its tasks and what they need.
LEMMA PlanIsOfDocument ==
  ASSUME NEW needing \in InOrder
  PROVE  /\ needing \in Seq(WithNeeds) /\ Document \in Seq(DocTasks)
         /\ Plan(needing) \in Seq(DocEvents)
         /\ Len(Plan(needing)) = 1 + Len(Document) + Len(needing)
         /\ Plan(needing)[1] = Ev("SOURCE_INGESTED", "document")
         /\ \A i \in 2..(1 + Len(Document)) : Plan(needing)[i] = Ev("TASK_CREATED", Document[i - 1])
         /\ \A i \in (2 + Len(Document))..(1 + Len(Document) + Len(needing)) :
              Plan(needing)[i] = Ev("DEPENDENCY_ADDED", needing[i - 1 - Len(Document)])
<1>1. Document \in Seq(DocTasks)
  BY AdvanceAssumption
<1>2. Cardinality(WithNeeds) \in Nat
  <2>1. DocTasks = {Document[i] : i \in 1..Len(Document)} /\ Len(Document) \in Nat
    BY <1>1 DEF DocTasks
  <2>2. IsFiniteSet(DocTasks)
    <3>1. IsFiniteSet(1..Len(Document))
      BY <2>1, FS_Interval
    <3>2. Document \in Surjection(1..Len(Document), DocTasks)
      BY <1>1, <2>1 DEF Surjection
    <3>. QED
      BY <3>1, <3>2, FS_Surjection
  <2>. QED
    BY <2>2, FS_Subset, FS_CardinalityType DEF WithNeeds
<1>3. needing \in Seq(WithNeeds)
  BY <1>2 DEF InOrder
<1>. DEFINE first == <<Ev("SOURCE_INGESTED", "document")>>
            adding == [i \in DOMAIN Document |-> Ev("TASK_CREATED", Document[i])]
            added == [i \in DOMAIN needing |-> Ev("DEPENDENCY_ADDED", needing[i])]
<1>4. first \in Seq(DocEvents) /\ Len(first) = 1
  BY DEF DocEvents, Ev
<1>5. adding \in Seq(DocEvents) /\ Len(adding) = Len(Document)
  BY <1>1 DEF DocEvents, Ev
<1>6. added \in Seq(DocEvents) /\ Len(added) = Len(needing)
  BY <1>3 DEF DocEvents, Ev, WithNeeds
<1>7. /\ first[1] = Ev("SOURCE_INGESTED", "document")
      /\ \A i \in 1..Len(Document) : adding[i] = Ev("TASK_CREATED", Document[i])
      /\ \A i \in 1..Len(needing) : added[i] = Ev("DEPENDENCY_ADDED", needing[i])
  BY <1>1, <1>3
<1>8. Len(Document) \in Nat /\ Len(needing) \in Nat /\ Plan(needing) = (first \o adding) \o added
  BY <1>1, <1>3 DEF Plan
<1>. HIDE DEF first, adding, added
<1>. DEFINE begin == first \o adding
<1>9. /\ begin \in Seq(DocEvents) /\ Len(begin) = 1 + Len(Document) /\ begin[1] = first[1]
      /\ \A i \in 2..(1 + Len(Document)) : begin[i] = adding[i - 1]
  <2>1. begin \in Seq(DocEvents) /\ Len(begin) = Len(first) + Len(adding)
        /\ \A i \in 1..Len(first) + Len(adding) :
             begin[i] = IF i <= Len(first) THEN first[i] ELSE adding[i - Len(first)]
    <3>1. first \in Seq(DocEvents) /\ adding \in Seq(DocEvents)
      BY <1>4, <1>5
    <3>. QED
      BY <3>1, ConcatProperties
  <2>. HIDE DEF begin
  <2>. QED
    BY <1>4, <1>5, <1>8, <2>1
<1>. HIDE DEF begin
<1>10. /\ Plan(needing) \in Seq(DocEvents) /\ Len(Plan(needing)) = 1 + Len(Document) + Len(needing)
       /\ \A i \in 1..(1 + Len(Document)) : Plan(needing)[i] = begin[i]
       /\ \A i \in (2 + Len(Document))..(1 + Len(Document) + Len(needing)) :
            Plan(needing)[i] = added[i - 1 - Len(Document)]
  <2>1. begin \o added \in Seq(DocEvents) /\ Len(begin \o added) = Len(begin) + Len(added)
        /\ \A i \in 1..Len(begin) + Len(added) :
             (begin \o added)[i] = IF i <= Len(begin) THEN begin[i] ELSE added[i - Len(begin)]
    <3>1. begin \in Seq(DocEvents) /\ added \in Seq(DocEvents)
      BY <1>6, <1>9
    <3>. QED
      BY <3>1, ConcatProperties
  <2>2. Plan(needing) = begin \o added
    BY <1>8 DEF begin
  <2>. QED
    BY <1>6, <1>8, <1>9, <2>1, <2>2
<1>11. Plan(needing)[1] = Ev("SOURCE_INGESTED", "document")
  <2>1. 1 \in 1..(1 + Len(Document))
    BY <1>8
  <2>. QED
    BY <1>7, <1>9, <1>10, <2>1
<1>12. \A i \in 2..(1 + Len(Document)) : Plan(needing)[i] = Ev("TASK_CREATED", Document[i - 1])
  <2>. TAKE i \in 2..(1 + Len(Document))
  <2>1. i - 1 \in 1..Len(Document) /\ i \in 1..(1 + Len(Document))
    BY <1>8
  <2>2. Plan(needing)[i] = adding[i - 1]
    BY <1>9, <1>10, <2>1
  <2>. QED
    BY <1>7, <2>1, <2>2
<1>13. \A i \in (2 + Len(Document))..(1 + Len(Document) + Len(needing)) :
         Plan(needing)[i] = Ev("DEPENDENCY_ADDED", needing[i - 1 - Len(Document)])
  <2>. TAKE i \in (2 + Len(Document))..(1 + Len(Document) + Len(needing))
  <2>1. i - 1 - Len(Document) \in 1..Len(needing)
    BY <1>8
  <2>2. Plan(needing)[i] = added[i - 1 - Len(Document)]
    BY <1>10
  <2>. QED
    BY <1>7, <2>1, <2>2
<1>. QED
  BY <1>1, <1>3, <1>10, <1>11, <1>12, <1>13

\* A gateway and the reader of the document create tasks and nothing else.
LEMMA WritersKeep ==
  ASSUME AdvanceInv, project' \in Projects, UNCHANGED <<advancer, jobs, runQueue, died>>,
         \A u \in TaskIds : \/ project'.status[u] = project.status[u]
                            \/ project.status[u] = "ABSENT" /\ project'.status[u] = "DISCOVERED",
         \A g \in Gateways : gateway'[g].pc # "idle" => gateway'[g].task \in Requests,
         gateway' \in [Gateways -> [pc : {"idle", "addSource", "checkTask", "addTask"},
                                    task : TaskIds \union {"none"}]],
         reader' \in Seq(DocEvents)
  PROVE  AdvanceInv'
<1>1. \A u \in TaskIds : project'.status[u] \in InWork \union Terminal => project'.status[u] = project.status[u]
  BY DEF InWork, Terminal
<1>2. AdvanceShape'
  BY DEF AdvanceInv, AdvanceShape
<1>3. StrandedByDeathOnly' /\ AuthorityRespected' /\ CompleteIsVerified'
  BY <1>1 DEF AdvanceInv, StrandedByDeathOnly, AuthorityRespected, CompleteIsVerified, TaskIds, Terminal
<1>. QED
  BY <1>2, <1>3 DEF AdvanceInv, HeldIsPermitted, QueueMatches, PassedIsVerified

LEMMA GatewaySteps ==
  ASSUME AdvanceInv, NEW g \in Gateways,
         \/ \E t \in Requests : GatewayChecksSource(g, t)
         \/ GatewayAddsSource(g) \/ GatewayChecksTask(g) \/ GatewayAddsTask(g) \/ GatewayDies(g)
  PROVE  AdvanceInv'
<1>. DEFINE InCall == [pc : {"idle", "addSource", "checkTask", "addTask"}, task : TaskIds \union {"none"}]
<1>0. /\ project \in Projects /\ gateway \in [Gateways -> InCall] /\ reader \in Seq(DocEvents)
      /\ \A h \in Gateways : gateway[h].pc # "idle" => gateway[h].task \in Requests
      /\ Requests \subseteq TaskIds
  BY DEF AdvanceInv, AdvanceShape, TaskIds
<1>1. UNCHANGED <<reader, advancer, jobs, runQueue, died>>
  BY DEF GatewayChecksSource, GatewayAddsSource, GatewayChecksTask, GatewayAddsTask, GatewayDies, runtime
<1>2. gateway' \in [Gateways -> InCall] /\
      \A h \in Gateways : gateway'[h].pc # "idle" => gateway'[h].task \in Requests
  <2>1. CASE \E t \in Requests : GatewayChecksSource(g, t)
    BY <1>0, <2>1 DEF GatewayChecksSource
  <2>2. CASE GatewayAddsSource(g)
    BY <1>0, <2>2 DEF GatewayAddsSource
  <2>3. CASE GatewayChecksTask(g)
    BY <1>0, <2>3 DEF GatewayChecksTask
  <2>4. CASE GatewayAddsTask(g) \/ GatewayDies(g)
    BY <1>0, <2>4 DEF GatewayAddsTask, GatewayDies
  <2>. QED
    BY <2>1, <2>2, <2>3, <2>4
<1>3. /\ project' \in Projects
      /\ \A u \in TaskIds : \/ project'.status[u] = project.status[u]
                            \/ project.status[u] = "ABSENT" /\ project'.status[u] = "DISCOVERED"
  <2>1. CASE UNCHANGED project
    BY <1>0, <2>1
  <2>2. CASE GatewayAddsSource(g)
    <3>. DEFINE e == Ev("SOURCE_INGESTED", gateway[g].task)
    <3>1. e.type = "SOURCE_INGESTED" /\ e.id \in Requests \union {"document"} /\ AppendEvent(e)
      BY <1>0, <2>2 DEF GatewayAddsSource, Ev
    <3>. HIDE DEF e
    <3>. QED
      BY <1>0, <3>1, PlanningEvent
  <2>3. CASE GatewayAddsTask(g)
    <3>. DEFINE e == Ev("TASK_CREATED", gateway[g].task)
    <3>1. e.type = "TASK_CREATED" /\ e.id \in TaskIds /\ AppendEvent(e)
      BY <1>0, <2>3 DEF GatewayAddsTask, Ev
    <3>. HIDE DEF e
    <3>. QED
      BY <1>0, <3>1, PlanningEvent
  <2>. QED
    BY <2>1, <2>2, <2>3 DEF GatewayChecksSource, GatewayChecksTask, GatewayDies
<1>. QED
  BY <1>0, <1>1, <1>2, <1>3, WritersKeep

LEMMA ReaderSteps ==
  ASSUME AdvanceInv, IngestReads \/ IngestAppends \/ IngestDies
  PROVE  AdvanceInv'
<1>0. /\ project \in Projects /\ reader \in Seq(DocEvents)
      /\ gateway \in [Gateways -> [pc : {"idle", "addSource", "checkTask", "addTask"},
                                   task : TaskIds \union {"none"}]]
      /\ \A h \in Gateways : gateway[h].pc # "idle" => gateway[h].task \in Requests
  BY DEF AdvanceInv, AdvanceShape
<1>1. UNCHANGED <<gateway, advancer, jobs, runQueue, died>>
  BY DEF IngestReads, IngestAppends, IngestDies, runtime
<1>2. CASE IngestReads
  <2>1. UNCHANGED project /\ reader' \in Seq(DocEvents)
    BY <1>2, PlanIsOfDocument DEF IngestReads
  <2>. QED
    BY <1>0, <1>1, <2>1, WritersKeep
<1>3. CASE IngestDies
  <2>1. UNCHANGED project /\ reader' \in Seq(DocEvents)
    BY <1>3 DEF IngestDies
  <2>. QED
    BY <1>0, <1>1, <2>1, WritersKeep
<1>4. CASE IngestAppends
  <2>1. reader' \in Seq(DocEvents) /\ Head(reader) \in DocEvents /\ AppendEvent(Head(reader))
    BY <1>0, <1>4 DEF IngestAppends
  <2>2. PICK e \in DocEvents : e = Head(reader)
    BY <2>1
  <2>3. \/ e.type = "SOURCE_INGESTED" /\ e.id \in Requests \union {"document"}
        \/ e.type \in {"TASK_CREATED", "DEPENDENCY_ADDED"} /\ e.id \in TaskIds
           /\ (e.type = "DEPENDENCY_ADDED" => e.id \in DocTasks)
    BY <2>2 DEF DocEvents, TaskIds
  <2>4. /\ project' \in Projects
        /\ \A u \in TaskIds : \/ project'.status[u] = project.status[u]
                              \/ project.status[u] = "ABSENT" /\ project'.status[u] = "DISCOVERED"
    BY <1>0, <2>1, <2>2, <2>3, PlanningEvent
  <2>. QED
    BY <1>0, <1>1, <2>1, <2>4, WritersKeep
<1>. QED
  BY <1>2, <1>3, <1>4

\* A step of loop a that comes to hold m: it changes the status of its own task
\* at most, lets go of none that is in work but by its death, and takes only what
\* it is permitted to.
LEMMA LoopStep ==
  ASSUME AdvanceInv, NEW a \in Advancers, NEW m \in Rounds, advancer' = [advancer EXCEPT ![a] = m],
         m.authorize = advancer[a].authorize, m.pc = "idle" <=> m.task = "none",
         m.task \in Requests => m.authorize,
         m.pc = "passed" => jobs[m.task] = "verified",
         project' \in Projects, UNCHANGED <<gateway, reader, jobs, runQueue>>, died => died',
         \A u \in TaskIds \ {advancer[a].task} : project'.status[u] = project.status[u],
         advancer[a].task \in TaskIds =>
           LET t == advancer[a].task IN
             /\ project'.status[t] = "COMPLETE" => jobs[t] = "verified"
             /\ ~died' /\ project'.status[t] \in InWork => m.task = t
  PROVE  AdvanceInv'
<1>0. /\ advancer' \in [Advancers -> Rounds] /\ advancer'[a] = m
      /\ \A b \in Advancers \ {a} : advancer'[b] = advancer[b]
  BY DEF AdvanceInv, AdvanceShape
<1>1. AdvanceShape'
  BY <1>0 DEF AdvanceInv, AdvanceShape
<1>2. HeldIsPermitted' /\ QueueMatches' /\ PassedIsVerified'
  BY <1>0 DEF AdvanceInv, HeldIsPermitted, QueueMatches, PassedIsVerified
<1>3. ASSUME NEW t \in TaskIds PROVE project'.status[t] = "COMPLETE" => jobs[t] = "verified"
  BY DEF AdvanceInv, CompleteIsVerified
<1>4. ASSUME NEW t \in Requests, project'.status[t] \in InWork \union Terminal
      PROVE  \E b \in Advancers : advancer'[b].authorize
  <2>1. t \in TaskIds
    BY DEF TaskIds
  <2>2. CASE t = advancer[a].task
    BY <1>0, <2>2 DEF AdvanceInv, HeldIsPermitted
  <2>3. CASE t # advancer[a].task
    <3>1. PICK b \in Advancers : advancer[b].authorize
      BY <1>4, <2>1, <2>3 DEF AdvanceInv, AuthorityRespected
    <3>. QED
      BY <1>0, <3>1
  <2>. QED
    BY <2>2, <2>3
<1>5. ASSUME ~died', NEW t \in TaskIds, project'.status[t] \in InWork
      PROVE  \E b \in Advancers : advancer'[b].task = t
  <2>1. CASE t = advancer[a].task
    BY <1>0, <1>5, <2>1
  <2>2. CASE t # advancer[a].task
    <3>1. PICK b \in Advancers : advancer[b].task = t
      BY <1>5, <2>2 DEF AdvanceInv, StrandedByDeathOnly
    <3>. QED
      BY <1>0, <2>2, <3>1
  <2>. QED
    BY <2>1, <2>2
<1>6. CompleteIsVerified' /\ AuthorityRespected' /\ StrandedByDeathOnly'
  BY <1>3, <1>4, <1>5 DEF CompleteIsVerified, AuthorityRespected, StrandedByDeathOnly
<1>. QED
  BY <1>1, <1>2, <1>6 DEF AdvanceInv

\* What loop a holds, and what it comes to hold.
LEMMA RoundOf ==
  ASSUME AdvanceInv, NEW a \in Advancers
  PROVE  /\ advancer[a] \in Rounds /\ project \in Projects /\ advancer \in [Advancers -> Rounds]
         /\ advancer[a].pc # "idle" => advancer[a].task \in TaskIds
         /\ advancer[a].pc = "idle" <=> advancer[a].task = "none"
         /\ advancer[a].task \in Requests => advancer[a].authorize
         /\ advancer[a].pc = "passed" => jobs[advancer[a].task] = "verified"
         /\ advancer[a].task \in TaskIds => advancer[a].task # "none"
BY AdvanceAssumption DEF AdvanceInv, AdvanceShape, HeldIsPermitted, PassedIsVerified, Rounds

\* The loop records the progress of its task and goes on.
LEMMA NoteSteps ==
  ASSUME AdvanceInv, NEW a \in Advancers, NEW from \in AdvanceStages \ {"idle"},
         NEW to \in AdvanceStages \ {"idle"}, NEW type \in DOMAIN StatusOf, Note(a, from, to, type),
         StatusOf[type] # "COMPLETE", to = "passed" => jobs[advancer[a].task] = "verified"
  PROVE  AdvanceInv'
<1>. DEFINE t == advancer[a].task
<1>1. /\ advancer[a] \in Rounds /\ project \in Projects /\ advancer \in [Advancers -> Rounds]
      /\ t \in TaskIds /\ t # "none" /\ (t \in Requests => advancer[a].authorize)
  BY RoundOf DEF Note
<1>2. PICK m \in Rounds : m = [advancer[a] EXCEPT !.pc = to]
  BY <1>1 DEF Rounds
<1>3. m.pc = to /\ m.task = t /\ m.authorize = advancer[a].authorize
  BY <1>1, <1>2 DEF Rounds
<1>4. /\ advancer' = [advancer EXCEPT ![a] = m] /\ AppendEvent(Ev(type, t))
      /\ UNCHANGED <<gateway, reader, jobs, runQueue, died>>
  BY <1>1, <1>2 DEF Note, writers, runtime
<1>. HIDE DEF t
<1>5. /\ project' \in Projects /\ \A u \in TaskIds \ {t} : project'.status[u] = project.status[u]
      /\ project'.status[t] = "COMPLETE" => project.status[t] = "COMPLETE"
  BY <1>1, <1>4, ProgressEvent
<1>6. project'.status[t] = "COMPLETE" => jobs[t] = "verified"
  BY <1>1, <1>5 DEF AdvanceInv, CompleteIsVerified
<1>. QED
  BY <1>1, <1>3, <1>4, <1>5, <1>6, LoopStep DEF t

\* The loop concludes its task and lets go of it.
LEMMA ConcludeSteps ==
  ASSUME AdvanceInv, NEW a \in Advancers, NEW from \in AdvanceStages \ {"idle"}, NEW type \in DOMAIN StatusOf,
         Conclude(a, from, type), StatusOf[type] \in Terminal,
         StatusOf[type] = "COMPLETE" => from = "passed"
  PROVE  AdvanceInv'
<1>. DEFINE t == advancer[a].task
<1>1. /\ advancer[a] \in Rounds /\ project \in Projects /\ advancer \in [Advancers -> Rounds]
      /\ t \in TaskIds /\ t # "none" /\ (from = "passed" => jobs[t] = "verified")
  BY RoundOf DEF Conclude
<1>2. PICK m \in Rounds : m = [advancer[a] EXCEPT !.pc = "idle", !.task = "none"]
  BY <1>1 DEF Rounds, AdvanceStages
<1>3. m.pc = "idle" /\ m.task = "none" /\ m.authorize = advancer[a].authorize
  BY <1>1, <1>2 DEF Rounds
<1>4. /\ advancer' = [advancer EXCEPT ![a] = m] /\ AppendEvent(Ev(type, t))
      /\ UNCHANGED <<gateway, reader, jobs, runQueue, died>>
  BY <1>1, <1>2 DEF Conclude, Stop, writers, runtime
<1>. HIDE DEF t
<1>5. /\ project' \in Projects /\ \A u \in TaskIds \ {t} : project'.status[u] = project.status[u]
      /\ project'.status[t] \in {StatusOf[type], "ABSENT"}
  <2>1. /\ project' \in Projects /\ \A u \in TaskIds \ {t} : project'.status[u] = project.status[u]
        /\ project.status[t] # "ABSENT" => project'.status[t] = StatusOf[type]
        /\ project.status[t] = "ABSENT" => UNCHANGED project.status
    BY <1>1, <1>4, ProgressEvent
  <2>. QED
    BY <2>1
<1>6. project'.status[t] \notin InWork
  BY <1>5 DEF InWork, Terminal
<1>7. project'.status[t] = "COMPLETE" => jobs[t] = "verified"
  BY <1>1, <1>5
<1>8. "none" \notin Requests
  BY AdvanceAssumption DEF TaskIds
<1>. QED
  BY <1>1, <1>3, <1>4, <1>5, <1>6, <1>7, <1>8, LoopStep DEF t

\* A round is begun: blockers are noted, and a task that is permitted is taken.
LEMMA ChooseSteps ==
  ASSUME AdvanceInv, NEW a \in Advancers, NEW t \in Runnable(a), Choose(a, t)
  PROVE  AdvanceInv'
<1>1. /\ advancer[a] \in Rounds /\ project \in Projects /\ advancer \in [Advancers -> Rounds]
      /\ advancer[a].pc = "idle" /\ advancer[a].task = "none" /\ "none" \notin TaskIds
  BY RoundOf, AdvanceAssumption DEF Choose
<1>2. project' \in Projects /\ UNCHANGED project.status
  <2>1. RecordBlockers(a) /\ ReadyTasks(project) \subseteq TaskIds
    BY DEF Choose, ReadyTasks
  <2>. QED
    BY <1>1, <2>1 DEF RecordBlockers, Projects
<1>3. UNCHANGED <<gateway, reader, jobs, runQueue, died>>
  BY DEF Choose, writers, runtime
<1>4. t \in TaskIds /\ (t \in Requests => advancer[a].authorize) /\ t # "none"
  BY <1>1 DEF Runnable, ReadyTasks, Permitted
<1>5. PICK m \in Rounds : m = [advancer[a] EXCEPT !.pc = "selected", !.task = t]
  BY <1>1, <1>4 DEF Rounds, AdvanceStages
<1>6. m.pc = "selected" /\ m.task = t /\ m.authorize = advancer[a].authorize
  BY <1>1, <1>5 DEF Rounds
<1>7. advancer' = [advancer EXCEPT ![a] = m]
  BY <1>1, <1>5 DEF Choose
<1>. QED
  BY <1>1, <1>2, <1>3, <1>4, <1>6, <1>7, LoopStep

LEMMA SelectSteps ==
  ASSUME AdvanceInv, NEW a \in Advancers, SelectFirst(a) \/ SelectRanked(a) \/ SelectNone(a)
  PROVE  AdvanceInv'
<1>1. CASE SelectFirst(a) \/ SelectRanked(a)
  <2>1. PICK t \in Runnable(a) : Choose(a, t)
    BY <1>1 DEF SelectFirst, SelectRanked
  <2>. QED
    BY <2>1, ChooseSteps
<1>2. CASE SelectNone(a)
  <2>1. /\ project \in Projects /\ RecordBlockers(a) /\ ReadyTasks(project) \subseteq TaskIds
    BY <1>2 DEF SelectNone, ReadyTasks, AdvanceInv, AdvanceShape
  <2>2. project' \in Projects /\ UNCHANGED project.status
    BY <2>1 DEF RecordBlockers, Projects
  <2>3. UNCHANGED <<advancer, gateway, reader, jobs, runQueue, died>>
    BY <1>2 DEF SelectNone, writers, runtime
  <2>. QED
    BY <2>2, <2>3 DEF AdvanceInv, AdvanceShape, StrandedByDeathOnly, HeldIsPermitted, AuthorityRespected,
       QueueMatches, PassedIsVerified, CompleteIsVerified, TaskIds
<1>. QED
  BY <1>1, <1>2

\* The runtime takes a job, and runs the oldest one.
LEMMA RuntimeSteps ==
  ASSUME AdvanceInv, NEW a \in Advancers,
         Submit(a) \/ \E o \in {"verified", "failed_verification", "dead"} : RunOnce(a, o)
  PROVE  AdvanceInv'
<1>. DEFINE t == advancer[a].task
<1>1. /\ advancer[a] \in Rounds /\ project \in Projects /\ advancer \in [Advancers -> Rounds]
      /\ t \in TaskIds /\ t # "none" /\ (t \in Requests => advancer[a].authorize)
      /\ advancer[a].pc \in {"authorized", "started"}
  BY RoundOf DEF Submit, RunOnce
<1>2. /\ jobs \in [TaskIds -> {"none", "queued", "verified", "failed_verification", "dead"}]
      /\ runQueue \in Seq(TaskIds) /\ QueueMatches
  BY DEF AdvanceInv, AdvanceShape
<1>. HIDE DEF t
\* What is verified stays so, and nothing that the queue matches is lost.
<1>3. /\ jobs' \in [TaskIds -> {"none", "queued", "verified", "failed_verification", "dead"}]
      /\ runQueue' \in Seq(TaskIds) /\ QueueMatches'
      /\ \A u \in TaskIds : jobs[u] = "verified" => jobs'[u] = "verified"
  <2>1. CASE UNCHANGED <<jobs, runQueue>>
    BY <1>2, <2>1 DEF QueueMatches
  <2>2. CASE Submit(a) /\ jobs[t] = "none"
    <3>1. jobs' = [jobs EXCEPT ![t] = "queued"] /\ runQueue' = Append(runQueue, t)
      BY <2>2 DEF Submit, t
    <3>2. /\ runQueue' \in Seq(TaskIds) /\ DOMAIN runQueue = 1..Len(runQueue) /\ Len(runQueue) \in Nat
          /\ DOMAIN runQueue' = 1..(Len(runQueue) + 1) /\ runQueue'[Len(runQueue) + 1] = t
          /\ \A i \in 1..Len(runQueue) : runQueue'[i] = runQueue[i]
      BY <1>1, <1>2, <3>1
    <3>3. \A i \in DOMAIN runQueue : runQueue[i] # t
      BY <1>1, <1>2, <2>2 DEF QueueMatches
    <3>4. \A i \in DOMAIN runQueue' : i \in DOMAIN runQueue \/ i = Len(runQueue) + 1
      BY <3>2
    <3>5. \A i \in DOMAIN runQueue' : jobs'[runQueue'[i]] = "queued"
      BY <1>1, <1>2, <3>1, <3>2, <3>4 DEF QueueMatches
    <3>6. \A i, k \in DOMAIN runQueue' : runQueue'[i] = runQueue'[k] => i = k
      BY <1>2, <3>2, <3>3, <3>4 DEF QueueMatches
    <3>7. ASSUME NEW u \in TaskIds, jobs'[u] = "queued" PROVE \E i \in DOMAIN runQueue' : runQueue'[i] = u
      <4>1. CASE u = t
        <5>1. Len(runQueue) + 1 \in DOMAIN runQueue'
          BY <3>2
        <5>. QED
          BY <3>2, <4>1, <5>1
      <4>2. CASE u # t
        <5>1. PICK i \in DOMAIN runQueue : runQueue[i] = u
          BY <1>2, <3>1, <3>7, <4>2 DEF QueueMatches
        <5>2. i \in DOMAIN runQueue'
          BY <3>2
        <5>. QED
          BY <3>2, <5>1, <5>2
      <4>. QED
        BY <4>1, <4>2
    <3>. QED
      BY <1>1, <1>2, <2>2, <3>1, <3>2, <3>5, <3>6, <3>7 DEF QueueMatches
  <2>3. ASSUME NEW o \in {"verified", "failed_verification", "dead"}, RunOnce(a, o), jobs[t] = "queued"
        PROVE  /\ jobs' \in [TaskIds -> {"none", "queued", "verified", "failed_verification", "dead"}]
               /\ runQueue' \in Seq(TaskIds) /\ QueueMatches'
               /\ \A u \in TaskIds : jobs[u] = "verified" => jobs'[u] = "verified"
    <3>1. jobs' = [jobs EXCEPT ![Head(runQueue)] = o] /\ runQueue' = Tail(runQueue)
      BY <2>3 DEF RunOnce, t
    <3>2. runQueue # <<>> /\ DOMAIN runQueue = 1..Len(runQueue) /\ Len(runQueue) \in Nat
      BY <1>1, <1>2, <2>3 DEF QueueMatches
    <3>3. /\ runQueue' \in Seq(TaskIds) /\ DOMAIN runQueue' = 1..(Len(runQueue) - 1)
          /\ \A i \in 1..(Len(runQueue) - 1) : runQueue'[i] = runQueue[i + 1]
          /\ Head(runQueue) = runQueue[1] /\ 1 \in DOMAIN runQueue
      BY <1>2, <3>1, <3>2
    <3>4. Head(runQueue) \in TaskIds /\ jobs[Head(runQueue)] = "queued"
      BY <1>2, <3>2, <3>3 DEF QueueMatches
    <3>5. \A i \in DOMAIN runQueue' : i + 1 \in DOMAIN runQueue /\ i + 1 # 1
      BY <3>2, <3>3
    <3>6. \A i \in DOMAIN runQueue' : jobs'[runQueue'[i]] = "queued"
      BY <1>2, <3>1, <3>3, <3>5 DEF QueueMatches
    <3>7. ASSUME NEW i \in DOMAIN runQueue', NEW k \in DOMAIN runQueue', runQueue'[i] = runQueue'[k] PROVE i = k
      <4>1. i + 1 = k + 1
        BY <1>2, <3>3, <3>5, <3>7 DEF QueueMatches
      <4>. QED
        BY <3>3, <4>1
    <3>8. ASSUME NEW u \in TaskIds, jobs'[u] = "queued" PROVE \E i \in DOMAIN runQueue' : runQueue'[i] = u
      <4>1. u # Head(runQueue) /\ jobs[u] = "queued"
        BY <1>2, <2>3, <3>1, <3>4, <3>8
      <4>2. PICK i \in DOMAIN runQueue : runQueue[i] = u
        BY <1>2, <4>1 DEF QueueMatches
      <4>3. i # 1 /\ i - 1 \in DOMAIN runQueue' /\ (i - 1) + 1 = i
        BY <3>2, <3>3, <4>1, <4>2
      <4>. QED
        BY <3>3, <4>2, <4>3
    <3>. QED
      BY <1>2, <3>1, <3>3, <3>4, <3>6, <3>7, <3>8 DEF QueueMatches
  <2>. QED
    BY <2>1, <2>2, <2>3 DEF Submit, RunOnce, runtime, t
<1>4. PICK m \in Rounds : /\ advancer' = [advancer EXCEPT ![a] = m] /\ m.authorize = advancer[a].authorize
                          /\ \/ m.pc \in {"submitted", "ran"} /\ m.task = t /\ UNCHANGED died
                             \/ m.pc = "idle" /\ m.task = "none" /\ died'
  <2>1. PICK x \in Rounds : x = [advancer[a] EXCEPT !.pc = "submitted"]
    BY <1>1 DEF Rounds, AdvanceStages
  <2>2. PICK y \in Rounds : y = [advancer[a] EXCEPT !.pc = "ran"]
    BY <1>1 DEF Rounds, AdvanceStages
  <2>3. PICK z \in Rounds : z = [advancer[a] EXCEPT !.pc = "idle", !.task = "none"]
    BY <1>1 DEF Rounds, AdvanceStages
  <2>4. /\ x.pc = "submitted" /\ x.task = t /\ x.authorize = advancer[a].authorize
        /\ y.pc = "ran" /\ y.task = t /\ y.authorize = advancer[a].authorize
        /\ z.pc = "idle" /\ z.task = "none" /\ z.authorize = advancer[a].authorize
    BY <1>1, <2>1, <2>2, <2>3 DEF Rounds, t
  <2>5. CASE Submit(a)
    <3>1. advancer' = [advancer EXCEPT ![a] = x] /\ UNCHANGED died
      BY <1>1, <2>1, <2>5 DEF Submit
    <3>. QED
      BY <2>4, <3>1
  <2>6. ASSUME NEW o \in {"verified", "failed_verification", "dead"}, RunOnce(a, o)
        PROVE  \/ advancer' = [advancer EXCEPT ![a] = y] /\ UNCHANGED died
               \/ advancer' = [advancer EXCEPT ![a] = z] /\ died'
    BY <1>1, <2>2, <2>3, <2>6 DEF RunOnce, Stop
  <2>. QED
    BY <2>4, <2>5, <2>6
<1>5. /\ UNCHANGED <<project, gateway, reader>>
      /\ advancer' \in [Advancers -> Rounds] /\ advancer'[a] = m
      /\ \A b \in Advancers \ {a} : advancer'[b] = advancer[b]
  BY <1>1, <1>4 DEF Submit, RunOnce, writers
<1>6. AdvanceShape'
  BY <1>1, <1>3, <1>4, <1>5 DEF AdvanceInv, AdvanceShape
<1>7. HeldIsPermitted' /\ PassedIsVerified' /\ CompleteIsVerified' /\ AuthorityRespected'
  <2>1. \A b \in Advancers : advancer[b].pc = "passed" => advancer[b].task \in TaskIds
    BY RoundOf
  <2>2. "none" \notin Requests
    BY AdvanceAssumption DEF TaskIds
  <2>. QED
    BY <1>1, <1>3, <1>4, <1>5, <2>1, <2>2 DEF AdvanceInv, HeldIsPermitted, PassedIsVerified, CompleteIsVerified,
       AuthorityRespected, t
<1>8. StrandedByDeathOnly'
  BY <1>1, <1>4, <1>5 DEF AdvanceInv, StrandedByDeathOnly, AdvanceShape, t
<1>. QED
  BY <1>3, <1>6, <1>7, <1>8 DEF AdvanceInv

\* The states of a round between its begin and its end.
LEMMA RoundSteps ==
  ASSUME AdvanceInv, NEW a \in Advancers,
         AnnounceReady(a) \/ Authorize(a) \/ Start(a) \/ Report(a) \/ AdvancerDies(a)
  PROVE  AdvanceInv'
<1>. DEFINE t == advancer[a].task
<1>1. /\ advancer[a] \in Rounds /\ project \in Projects /\ advancer \in [Advancers -> Rounds]
      /\ advancer[a].pc # "idle" => t \in TaskIds
      /\ advancer[a].pc = "idle" <=> t = "none"
      /\ t \in Requests => advancer[a].authorize
      /\ t \in TaskIds => t # "none"
  BY RoundOf
<1>2. AdvanceStages = {"idle", "selected", "ready", "authorized", "submitted", "started", "ran", "executed", "passed"}
  BY DEF AdvanceStages
<1>3. ASSUME NEW from \in AdvanceStages \ {"idle"}, NEW to \in AdvanceStages \ {"idle"},
             NEW type \in DOMAIN StatusOf, Note(a, from, to, type), StatusOf[type] # "COMPLETE",
             to = "passed" => jobs[t] = "verified"
      PROVE  AdvanceInv'
  BY <1>3, NoteSteps
<1>4. CASE Authorize(a)
  <2>1. Note(a, "ready", "authorized", "TASK_AUTHORIZED")
    BY <1>4 DEF Authorize
  <2>. QED
    BY <1>2, <1>3, <2>1, StatusTypes
<1>5. CASE Start(a)
  <2>1. Note(a, "submitted", "started", "TASK_STARTED")
    BY <1>5 DEF Start
  <2>. QED
    BY <1>2, <1>3, <2>1, StatusTypes
<1>6. CASE AnnounceReady(a)
  <2>1. CASE Note(a, "selected", "ready", "TASK_READY")
    BY <1>2, <1>3, <2>1, StatusTypes
  <2>2. CASE /\ advancer[a].pc = "selected" /\ advancer' = [advancer EXCEPT ![a].pc = "ready"]
             /\ UNCHANGED <<project, writers, runtime, died>>
    <3>1. PICK m \in Rounds : m = [advancer[a] EXCEPT !.pc = "ready"]
      BY <1>1, <1>2 DEF Rounds
    <3>2. m.pc = "ready" /\ m.task = t /\ m.authorize = advancer[a].authorize
      BY <1>1, <3>1 DEF Rounds
    <3>3. advancer' = [advancer EXCEPT ![a] = m] /\ t \in TaskIds
          /\ UNCHANGED <<project, gateway, reader, jobs, runQueue, died>>
      BY <1>1, <2>2, <3>1 DEF writers, runtime
    <3>4. project.status[t] = "COMPLETE" => jobs[t] = "verified"
      BY <3>3 DEF AdvanceInv, CompleteIsVerified
    <3>. QED
      BY <1>1, <3>2, <3>3, <3>4, LoopStep
  <2>. QED
    BY <1>6, <2>1, <2>2 DEF AnnounceReady
<1>7. CASE Report(a)
  <2>1. CASE Note(a, "ran", "executed", "TASK_EXECUTED")
    BY <1>2, <1>3, <2>1, StatusTypes
  <2>2. CASE Note(a, "executed", "passed", "VERIFICATION_PASSED") /\ jobs[t] = "verified"
    BY <1>2, <1>3, <2>2, StatusTypes
  <2>3. CASE Conclude(a, "ran", "TASK_FAILED")
    BY <1>2, <2>3, StatusTypes, ConcludeSteps DEF Terminal
  <2>4. CASE Conclude(a, "executed", "VERIFICATION_FAILED")
    BY <1>2, <2>4, StatusTypes, ConcludeSteps DEF Terminal
  <2>5. CASE Conclude(a, "passed", "TASK_COMPLETED")
    BY <1>2, <2>5, StatusTypes, ConcludeSteps DEF Terminal
  <2>. QED
    BY <1>7, <2>1, <2>2, <2>3, <2>4, <2>5 DEF Report
<1>8. CASE AdvancerDies(a)
  <2>1. PICK m \in Rounds : m = [advancer[a] EXCEPT !.pc = "idle", !.task = "none"]
    BY <1>1, <1>2 DEF Rounds
  <2>2. m.pc = "idle" /\ m.task = "none" /\ m.authorize = advancer[a].authorize
    BY <1>1, <2>1 DEF Rounds
  <2>3. advancer' = [advancer EXCEPT ![a] = m] /\ t \in TaskIds /\ died'
        /\ UNCHANGED <<project, gateway, reader, jobs, runQueue>>
    BY <1>1, <1>8, <2>1 DEF AdvancerDies, Stop, writers, runtime
  <2>4. project.status[t] = "COMPLETE" => jobs[t] = "verified"
    BY <2>3 DEF AdvanceInv, CompleteIsVerified
  <2>5. "none" \notin Requests
    BY AdvanceAssumption DEF TaskIds
  <2>. QED
    BY <1>1, <2>2, <2>3, <2>4, <2>5, LoopStep
<1>. QED
  BY <1>4, <1>5, <1>6, <1>7, <1>8

LEMMA AdvanceStart == AdvanceInit => AdvanceInv
<1>. SUFFICES ASSUME AdvanceInit PROVE AdvanceInv
  OBVIOUS
<1>1. project \in Projects /\ \A t \in TaskIds : project.status[t] = "ABSENT"
  BY DEF AdvanceInit, EmptyProject, Projects, Statuses
<1>2. /\ advancer \in [Advancers -> Rounds]
      /\ \A a \in Advancers : advancer[a].pc = "idle" /\ advancer[a].task = "none"
  BY DEF AdvanceInit, Rounds, AdvanceStages
<1>3. AdvanceShape
  BY <1>1, <1>2 DEF AdvanceInit, AdvanceShape
<1>4. "none" \notin Requests
  BY AdvanceAssumption DEF TaskIds
<1>5. runQueue = <<>> /\ \A t \in TaskIds : jobs[t] = "none"
  BY DEF AdvanceInit
<1>6. QueueMatches
  BY <1>5 DEF QueueMatches
<1>7. StrandedByDeathOnly /\ AuthorityRespected /\ CompleteIsVerified
  BY <1>1 DEF StrandedByDeathOnly, AuthorityRespected, CompleteIsVerified, InWork, Terminal, TaskIds
<1>. QED
  BY <1>2, <1>3, <1>4, <1>6, <1>7 DEF AdvanceInv, HeldIsPermitted, PassedIsVerified

LEMMA AdvanceStep == AdvanceInv /\ [AdvanceNext]_advanceVars => AdvanceInv'
<1>. SUFFICES ASSUME AdvanceInv, [AdvanceNext]_advanceVars PROVE AdvanceInv'
  OBVIOUS
<1>1. CASE UNCHANGED advanceVars
  BY <1>1 DEF advanceVars, AdvanceInv, AdvanceShape, StrandedByDeathOnly, HeldIsPermitted, AuthorityRespected,
     QueueMatches, PassedIsVerified, CompleteIsVerified
<1>. QED
  BY <1>1, GatewaySteps, ReaderSteps, SelectSteps, RuntimeSteps, RoundSteps DEF AdvanceNext

\* The log replays while one gateway at a time takes requests in: two of them
\* would find the same task missing and both create it.
OneGateway == \A g, h \in Gateways : g = h

Created(i) == reader[i].type = "TASK_CREATED"

\* The loops hold tasks that are there, the gateway adds one that is not.
HeldIsKnown == \A a \in Advancers : advancer[a].pc # "idle" => project.status[advancer[a].task] # "ABSENT"
AddedIsAbsent == \A g \in Gateways : gateway[g].pc = "addTask" => project.status[gateway[g].task] = "ABSENT"

\* The tasks of a document are created once, and before what they need is noted.
CreatedIsAbsent == \A i \in DOMAIN reader : Created(i) => project.status[reader[i].id] = "ABSENT"
CreatedOnce == \A i, k \in DOMAIN reader : Created(i) /\ Created(k) /\ reader[k].id = reader[i].id => k = i
NeedsFollow ==
  \A i \in DOMAIN reader : reader[i].type = "DEPENDENCY_ADDED" =>
    \/ project.status[reader[i].id] # "ABSENT"
    \/ \E k \in DOMAIN reader : k < i /\ Created(k) /\ reader[k].id = reader[i].id

\* Its source comes first.
SourceFirst ==
  "document" \notin project.sources =>
    /\ \A t \in DocTasks : project.status[t] = "ABSENT"
    /\ reader = <<>> \/ reader[1].type = "SOURCE_INGESTED"

LogInv ==
  /\ LogReplayable /\ HeldIsKnown /\ AddedIsAbsent
  /\ CreatedIsAbsent /\ CreatedOnce /\ NeedsFollow /\ SourceFirst

\* The log's invariant asks of the loops that they hold what is there.
LEMMA LoopsKeepLog ==
  ASSUME AdvanceInv, LogInv, UNCHANGED <<gateway, reader, project.raised, project.sources>>,
         \A u \in TaskIds : project'.status[u] = "ABSENT" <=> project.status[u] = "ABSENT",
         \A a \in Advancers : advancer'[a].pc # "idle" => /\ advancer'[a].task \in TaskIds
                                                          /\ project.status[advancer'[a].task] # "ABSENT"
  PROVE  LogInv'
<1>1. /\ \A g \in Gateways : gateway[g].pc = "addTask" => gateway[g].task \in TaskIds
      /\ \A i \in DOMAIN reader : reader[i] \in DocEvents
      /\ DocTasks \subseteq TaskIds
  BY DEF AdvanceInv, AdvanceShape, TaskIds
<1>2. \A i \in DOMAIN reader : reader[i].type \in {"TASK_CREATED", "DEPENDENCY_ADDED"} => reader[i].id \in TaskIds
  BY <1>1 DEF DocEvents
<1>3. LogReplayable' /\ HeldIsKnown' /\ AddedIsAbsent'
  BY <1>1 DEF LogInv, LogReplayable, HeldIsKnown, AddedIsAbsent
<1>4. CreatedIsAbsent' /\ CreatedOnce' /\ NeedsFollow' /\ SourceFirst'
  BY <1>1, <1>2 DEF LogInv, CreatedIsAbsent, CreatedOnce, NeedsFollow, SourceFirst, Created
<1>. QED
  BY <1>3, <1>4 DEF LogInv

LEMMA LoopsLog ==
  ASSUME AdvanceInv, LogInv, NEW a \in Advancers,
         \/ SelectFirst(a) \/ SelectRanked(a) \/ SelectNone(a)
         \/ AnnounceReady(a) \/ Authorize(a) \/ Submit(a) \/ Start(a)
         \/ \E o \in {"verified", "failed_verification", "dead"} : RunOnce(a, o)
         \/ Report(a) \/ AdvancerDies(a)
  PROVE  LogInv'
<1>. DEFINE t == advancer[a].task
<1>0. /\ project \in Projects /\ advancer \in [Advancers -> Rounds]
      /\ \A b \in Advancers : advancer[b].pc # "idle" => /\ advancer[b].task \in TaskIds
                                                         /\ project.status[advancer[b].task] # "ABSENT"
  BY RoundOf DEF LogInv, HeldIsKnown, AdvanceInv, AdvanceShape
<1>1. ASSUME NEW from \in AdvanceStages \ {"idle"}, NEW type \in DOMAIN StatusOf,
             advancer[a].pc = from, AppendEvent(Ev(type, t)),
             UNCHANGED <<gateway, reader>>,
             \A b \in Advancers : advancer'[b].pc # "idle" =>
               advancer[b].pc # "idle" /\ advancer'[b].task = advancer[b].task
      PROVE  LogInv'
  <2>1. t \in TaskIds /\ project.status[t] # "ABSENT"
    BY <1>0, <1>1
  <2>2. StatusOf[type] # "ABSENT"
    BY StatusTypes
  <2>3. /\ UNCHANGED <<project.sources, project.raised>> /\ project'.status[t] = StatusOf[type]
        /\ \A u \in TaskIds \ {t} : project'.status[u] = project.status[u]
    BY <1>0, <1>1, <2>1, ProgressEvent
  <2>. QED
    BY <1>0, <1>1, <2>1, <2>2, <2>3, LoopsKeepLog
<1>2. AdvanceStages = {"idle", "selected", "ready", "authorized", "submitted", "started", "ran", "executed", "passed"}
  BY DEF AdvanceStages
<1>3. ASSUME NEW from \in AdvanceStages \ {"idle"}, NEW to, NEW type \in DOMAIN StatusOf,
             Note(a, from, to, type) \/ Conclude(a, from, type)
      PROVE  LogInv'
  <2>1. \A b \in Advancers : advancer'[b].pc # "idle" =>
          advancer[b].pc # "idle" /\ advancer'[b].task = advancer[b].task
    BY <1>0, <1>3 DEF Note, Conclude, Stop, Rounds
  <2>. QED
    BY <1>1, <1>3, <2>1 DEF Note, Conclude, writers
<1>4. CASE Authorize(a) \/ Start(a) \/ Report(a)
  BY <1>2, <1>3, <1>4, StatusTypes DEF Authorize, Start, Report
<1>5. CASE AnnounceReady(a)
  <2>1. CASE Note(a, "selected", "ready", "TASK_READY")
    BY <1>2, <1>3, <2>1, StatusTypes
  <2>2. CASE /\ advancer[a].pc = "selected" /\ advancer' = [advancer EXCEPT ![a].pc = "ready"]
             /\ UNCHANGED <<project, writers, runtime, died>>
    <3>1. \A b \in Advancers : advancer'[b].pc # "idle" =>
            advancer[b].pc # "idle" /\ advancer'[b].task = advancer[b].task
      BY <1>0, <2>2 DEF Rounds
    <3>. QED
      BY <1>0, <2>2, <3>1, LoopsKeepLog DEF writers
  <2>. QED
    BY <1>5, <2>1, <2>2 DEF AnnounceReady
<1>6. CASE Submit(a) \/ AdvancerDies(a) \/ \E o \in {"verified", "failed_verification", "dead"} : RunOnce(a, o)
  <2>1. \A b \in Advancers : advancer'[b].pc # "idle" =>
          advancer[b].pc # "idle" /\ advancer'[b].task = advancer[b].task
    BY <1>0, <1>6 DEF Submit, RunOnce, AdvancerDies, Stop, Rounds
  <2>2. UNCHANGED <<project, gateway, reader>>
    BY <1>6 DEF Submit, RunOnce, AdvancerDies, writers
  <2>. QED
    BY <1>0, <2>1, <2>2, LoopsKeepLog
<1>7. CASE SelectFirst(a) \/ SelectRanked(a) \/ SelectNone(a)
  <2>1. UNCHANGED <<gateway, reader>> /\ RecordBlockers(a)
    BY <1>7 DEF SelectFirst, SelectRanked, SelectNone, Choose, writers
  <2>2. UNCHANGED <<project.status, project.raised, project.sources>>
    BY <1>0, <2>1 DEF RecordBlockers, Projects
  <2>3. \A b \in Advancers : advancer'[b].pc # "idle" => /\ advancer'[b].task \in TaskIds
                                                         /\ project.status[advancer'[b].task] # "ABSENT"
    <3>1. CASE UNCHANGED advancer
      BY <1>0, <3>1
    <3>2. ASSUME NEW u \in Runnable(a), Choose(a, u)
          PROVE  \A b \in Advancers : advancer'[b].pc # "idle" => /\ advancer'[b].task \in TaskIds
                                                                  /\ project.status[advancer'[b].task] # "ABSENT"
      <4>1. u \in TaskIds /\ project.status[u] # "ABSENT"
        BY DEF Runnable, ReadyTasks
      <4>2. advancer'[a].task = u /\ \A b \in Advancers \ {a} : advancer'[b] = advancer[b]
        BY <1>0, <3>2 DEF Choose, Rounds
      <4>. QED
        BY <1>0, <4>1, <4>2
    <3>. QED
      BY <1>7, <3>1, <3>2 DEF SelectFirst, SelectRanked, SelectNone
  <2>. QED
    BY <2>1, <2>2, <2>3, LoopsKeepLog
<1>. QED
  BY <1>4, <1>5, <1>6, <1>7

LEMMA GatewayLogs ==
  ASSUME OneGateway, AdvanceInv, LogInv, NEW g \in Gateways,
         \/ \E t \in Requests : GatewayChecksSource(g, t)
         \/ GatewayAddsSource(g) \/ GatewayChecksTask(g) \/ GatewayAddsTask(g) \/ GatewayDies(g)
  PROVE  LogInv'
<1>. DEFINE t == gateway[g].task
<1>0. /\ project \in Projects /\ \A h \in Gateways : h = g
      /\ gateway \in [Gateways -> [pc : {"idle", "addSource", "checkTask", "addTask"},
                                   task : TaskIds \union {"none"}]]
      /\ gateway[g].pc # "idle" => t \in Requests
      /\ Requests \subseteq TaskIds /\ DocTasks \subseteq TaskIds /\ Requests \cap DocTasks = {}
      /\ \A a \in Advancers : advancer[a].pc # "idle" => advancer[a].task \in TaskIds
      /\ \A i \in DOMAIN reader : reader[i].type \in {"TASK_CREATED", "DEPENDENCY_ADDED"} => reader[i].id \in DocTasks
      /\ "document" \notin Requests
  <2>1. \A i \in DOMAIN reader : reader[i] \in DocEvents
    BY DEF AdvanceInv, AdvanceShape
  <2>2. \A i \in DOMAIN reader : reader[i].type \in {"TASK_CREATED", "DEPENDENCY_ADDED"} => reader[i].id \in DocTasks
    BY <2>1 DEF DocEvents
  <2>. QED
    BY <2>2, RoundOf, AdvanceAssumption DEF OneGateway, AdvanceInv, AdvanceShape, TaskIds
<1>1. UNCHANGED <<reader, advancer>>
  BY DEF GatewayChecksSource, GatewayAddsSource, GatewayChecksTask, GatewayAddsTask, GatewayDies
<1>. HIDE DEF t
<1>2. CASE UNCHANGED project
  <2>1. gateway'[g].pc = "addTask" => project.status[gateway'[g].task] = "ABSENT"
    BY <1>0, <1>2 DEF GatewayChecksSource, GatewayAddsSource, GatewayChecksTask, GatewayAddsTask, GatewayDies, LogInv,
       AddedIsAbsent
  <2>. QED
    BY <1>0, <1>1, <1>2, <2>1 DEF LogInv, LogReplayable, HeldIsKnown, AddedIsAbsent, CreatedIsAbsent, CreatedOnce,
       NeedsFollow, SourceFirst, Created
<1>3. CASE GatewayAddsSource(g)
  <2>1. gateway[g].pc = "addSource" /\ gateway'[g].pc = "checkTask"
    BY <1>0, <1>3 DEF GatewayAddsSource
  <2>2. PICK e : e = Ev("SOURCE_INGESTED", t)
    OBVIOUS
  <2>3. e.type = "SOURCE_INGESTED" /\ e.id = t /\ e.id \in Requests \union {"document"} /\ AppendEvent(e)
    BY <1>0, <1>3, <2>1, <2>2 DEF GatewayAddsSource, Ev, t
  <2>4. UNCHANGED <<project.status, project.raised>> /\ project'.sources = project.sources \union {t}
    BY <1>0, <2>3, PlanningEvent
  <2>5. LogReplayable' /\ HeldIsKnown' /\ AddedIsAbsent'
    BY <1>0, <1>1, <2>1, <2>4 DEF LogInv, LogReplayable, HeldIsKnown, AddedIsAbsent
  <2>6. CreatedIsAbsent' /\ CreatedOnce' /\ NeedsFollow' /\ SourceFirst'
    BY <1>1, <2>4 DEF LogInv, CreatedIsAbsent, CreatedOnce, NeedsFollow, SourceFirst, Created
  <2>. QED
    BY <2>5, <2>6 DEF LogInv
<1>4. CASE GatewayAddsTask(g)
  <2>1. gateway[g].pc = "addTask" /\ gateway'[g].pc = "idle" /\ t \in Requests /\ project.status[t] = "ABSENT"
    BY <1>0, <1>4 DEF GatewayAddsTask, LogInv, AddedIsAbsent, t
  <2>2. PICK e : e = Ev("TASK_CREATED", t)
    OBVIOUS
  <2>3. e.type = "TASK_CREATED" /\ e.id = t /\ e.id \in TaskIds /\ AppendEvent(e)
    BY <1>0, <1>4, <2>1, <2>2 DEF GatewayAddsTask, Ev, t
  <2>4. /\ UNCHANGED <<project.raised, project.sources>> /\ project'.status[t] = "DISCOVERED"
        /\ \A u \in TaskIds : u = t \/ project'.status[u] = project.status[u]
    BY <1>0, <2>1, <2>3, PlanningEvent
  <2>5. LogReplayable' /\ HeldIsKnown' /\ AddedIsAbsent'
    <3>1. \A a \in Advancers : advancer[a].pc # "idle" => project'.status[advancer[a].task] # "ABSENT"
      BY <1>0, <2>4 DEF LogInv, HeldIsKnown
    <3>. QED
      BY <1>0, <1>1, <2>1, <2>4, <3>1 DEF LogInv, LogReplayable, HeldIsKnown, AddedIsAbsent
  <2>6. CreatedIsAbsent' /\ CreatedOnce' /\ NeedsFollow' /\ SourceFirst'
    <3>1. \A u \in DocTasks : project'.status[u] = project.status[u]
      BY <1>0, <2>1, <2>4
    <3>. QED
      BY <1>0, <1>1, <2>4, <3>1 DEF LogInv, CreatedIsAbsent, CreatedOnce, NeedsFollow, SourceFirst, Created
  <2>. QED
    BY <2>5, <2>6 DEF LogInv
<1>. QED
  BY <1>2, <1>3, <1>4 DEF GatewayChecksSource, GatewayChecksTask, GatewayDies

LEMMA ReaderLogs ==
  ASSUME AdvanceInv, LogInv, IngestReads \/ IngestAppends \/ IngestDies
  PROVE  LogInv'
<1>0. /\ project \in Projects /\ reader \in Seq(DocEvents)
      /\ Requests \subseteq TaskIds /\ DocTasks \subseteq TaskIds /\ Requests \cap DocTasks = {}
      /\ \A a \in Advancers : advancer[a].pc # "idle" => advancer[a].task \in TaskIds
      /\ \A g \in Gateways : gateway[g].pc = "addTask" => gateway[g].task \in Requests
      /\ \A i \in DOMAIN reader : reader[i].type \in {"TASK_CREATED", "DEPENDENCY_ADDED"} => reader[i].id \in DocTasks
  <2>1. \A i \in DOMAIN reader : reader[i] \in DocEvents
    BY DEF AdvanceInv, AdvanceShape
  <2>2. \A i \in DOMAIN reader : reader[i].type \in {"TASK_CREATED", "DEPENDENCY_ADDED"} => reader[i].id \in DocTasks
    BY <2>1 DEF DocEvents
  <2>. QED
    BY <2>2, RoundOf, AdvanceAssumption DEF AdvanceInv, AdvanceShape, TaskIds
<1>1. UNCHANGED <<gateway, advancer>>
  BY DEF IngestReads, IngestAppends, IngestDies
<1>2. CASE IngestDies
  <2>1. UNCHANGED project /\ reader' = <<>>
    BY <1>2 DEF IngestDies
  <2>. QED
    BY <1>1, <2>1 DEF LogInv, LogReplayable, HeldIsKnown, AddedIsAbsent, CreatedIsAbsent, CreatedOnce, NeedsFollow,
       SourceFirst, Created
<1>3. CASE IngestReads
  <2>1. PICK needing \in InOrder : reader' = Plan(needing)
    BY <1>3 DEF IngestReads
  <2>2. UNCHANGED project /\ \A t \in DocTasks : project.status[t] = "ABSENT"
    BY <1>3 DEF IngestReads, LogInv, SourceFirst
  <2>. DEFINE n == Len(Document)  m == Len(needing)
  <2>3. /\ n \in Nat /\ m \in Nat /\ needing \in Seq(WithNeeds) /\ Document \in Seq(DocTasks)
        /\ reader' \in Seq(DocEvents) /\ Len(reader') = 1 + n + m
        /\ reader'[1] = Ev("SOURCE_INGESTED", "document")
        /\ \A i \in 2..(1 + n) : reader'[i] = Ev("TASK_CREATED", Document[i - 1])
        /\ \A i \in (2 + n)..(1 + n + m) : reader'[i] = Ev("DEPENDENCY_ADDED", needing[i - 1 - n])
    BY <2>1, PlanIsOfDocument
  <2>. HIDE DEF n, m
  <2>4. DOMAIN reader' = 1..(1 + n + m) /\ DOMAIN Document = 1..n /\ DOMAIN needing = 1..m
    BY <2>3 DEF n, m
  <2>5. ASSUME NEW i \in DOMAIN reader'
        PROVE  /\ Created(i)' => i \in 2..(1 + n) /\ reader'[i].id = Document[i - 1] /\ i - 1 \in 1..n
               /\ reader'[i].type = "DEPENDENCY_ADDED" =>
                    i \in (2 + n)..(1 + n + m) /\ reader'[i].id = needing[i - 1 - n] /\ i - 1 - n \in 1..m
    <3>1. i = 1 \/ i \in 2..(1 + n) \/ i \in (2 + n)..(1 + n + m)
      BY <2>3, <2>4
    <3>2. CASE i = 1
      BY <2>3, <3>2 DEF Ev, Created
    <3>3. CASE i \in 2..(1 + n)
      <4>1. reader'[i] = Ev("TASK_CREATED", Document[i - 1]) /\ i - 1 \in 1..n
        BY <2>3, <3>3
      <4>2. reader'[i].type = "TASK_CREATED" /\ reader'[i].id = Document[i - 1]
        BY <4>1 DEF Ev
      <4>. QED
        BY <3>3, <4>1, <4>2 DEF Created
    <3>4. CASE i \in (2 + n)..(1 + n + m)
      <4>1. reader'[i] = Ev("DEPENDENCY_ADDED", needing[i - 1 - n]) /\ i - 1 - n \in 1..m
        BY <2>3, <3>4
      <4>2. reader'[i].type = "DEPENDENCY_ADDED" /\ reader'[i].id = needing[i - 1 - n]
        BY <4>1 DEF Ev
      <4>. QED
        BY <3>4, <4>1, <4>2 DEF Created
    <3>. QED
      BY <3>1, <3>2, <3>3, <3>4
  <2>6. CreatedIsAbsent'
    BY <2>2, <2>3, <2>4, <2>5 DEF CreatedIsAbsent
  <2>7. ASSUME NEW i \in DOMAIN reader', NEW k \in DOMAIN reader',
               Created(i)', Created(k)', reader'[k].id = reader'[i].id
        PROVE  k = i
    <3>1. i - 1 = k - 1
      BY <2>4, <2>5, <2>7, AdvanceAssumption
    <3>. QED
      BY <2>4, <3>1
  <2>8. ASSUME NEW i \in DOMAIN reader', reader'[i].type = "DEPENDENCY_ADDED"
        PROVE  \E k \in DOMAIN reader' : k < i /\ Created(k)' /\ reader'[k].id = reader'[i].id
    <3>1. i \in (2 + n)..(1 + n + m) /\ reader'[i].id = needing[i - 1 - n] /\ i - 1 - n \in 1..m
      BY <2>5, <2>8
    <3>2. needing[i - 1 - n] \in DocTasks
      BY <2>3, <2>4, <3>1 DEF WithNeeds
    <3>3. PICK k \in 1..n : Document[k] = needing[i - 1 - n]
      BY <2>4, <3>2 DEF DocTasks
    <3>4. k + 1 \in 2..(1 + n) /\ k + 1 \in DOMAIN reader' /\ k + 1 < i /\ (k + 1) - 1 = k
      BY <2>3, <2>4, <3>1
    <3>5. reader'[k + 1] = Ev("TASK_CREATED", Document[k])
      BY <2>3, <3>4
    <3>. QED
      BY <3>1, <3>3, <3>4, <3>5 DEF Ev, Created
  <2>9. SourceFirst'
    BY <2>2, <2>3 DEF SourceFirst, Ev
  <2>10. LogReplayable' /\ HeldIsKnown' /\ AddedIsAbsent'
    BY <1>1, <2>2 DEF LogInv, LogReplayable, HeldIsKnown, AddedIsAbsent
  <2>. QED
    BY <2>6, <2>7, <2>8, <2>9, <2>10 DEF LogInv, CreatedOnce, NeedsFollow
<1>4. CASE IngestAppends
  <2>1. /\ reader # <<>> /\ reader' = Tail(reader) /\ AppendEvent(reader[1]) /\ 1 \in DOMAIN reader
        /\ DOMAIN reader' = 1..(Len(reader) - 1) /\ DOMAIN reader = 1..Len(reader) /\ Len(reader) \in Nat
        /\ \A i \in DOMAIN reader' : reader'[i] = reader[i + 1] /\ i + 1 \in DOMAIN reader /\ i + 1 # 1
    BY <1>0, <1>4 DEF IngestAppends
  <2>2. PICK e \in DocEvents : e = reader[1]
    BY <1>0, <2>1
  <2>3. /\ \/ e.type = "SOURCE_INGESTED" /\ e.id \in Requests \union {"document"}
           \/ e.type \in {"TASK_CREATED", "DEPENDENCY_ADDED"} /\ e.id \in TaskIds
              /\ (e.type = "DEPENDENCY_ADDED" => e.id \in DocTasks)
        /\ e.type = "SOURCE_INGESTED" => e.id = "document"
        /\ e.type = "TASK_CREATED" => e.id \in DocTasks /\ project.status[e.id] = "ABSENT"
        /\ e.type = "DEPENDENCY_ADDED" => project.status[e.id] # "ABSENT"
    <3>1. e.type = "TASK_CREATED" => project.status[e.id] = "ABSENT"
      BY <2>1, <2>2 DEF LogInv, CreatedIsAbsent, Created
    <3>2. e.type = "DEPENDENCY_ADDED" => project.status[e.id] # "ABSENT"
      <4>1. ~\E k \in DOMAIN reader : k < 1
        BY <2>1
      <4>. QED
        BY <2>1, <2>2, <4>1 DEF LogInv, NeedsFollow
    <3>. QED
      BY <1>0, <2>1, <2>2, <3>1, <3>2 DEF DocEvents
  <2>4. /\ UNCHANGED project.raised
        /\ \A u \in TaskIds : \/ project'.status[u] = project.status[u]
                              \/ e.type = "TASK_CREATED" /\ u = e.id /\ project'.status[u] = "DISCOVERED"
        /\ e.type = "TASK_CREATED" => project'.status[e.id] = "DISCOVERED"
        /\ e.type = "SOURCE_INGESTED" => "document" \in project'.sources
        /\ e.type # "SOURCE_INGESTED" => UNCHANGED project.sources
    BY <1>0, <2>1, <2>2, <2>3, PlanningEvent
  <2>5. LogReplayable'
    BY <2>4 DEF LogInv, LogReplayable
  <2>6. HeldIsKnown'
    BY <1>0, <1>1, <2>4 DEF LogInv, HeldIsKnown
  <2>7. AddedIsAbsent'
    BY <1>0, <1>1, <2>3, <2>4 DEF LogInv, AddedIsAbsent
  <2>8. ASSUME NEW i \in DOMAIN reader', Created(i)'
        PROVE  project'.status[reader'[i].id] = "ABSENT"
    <3>1. Created(i + 1) /\ i + 1 \in DOMAIN reader /\ i + 1 # 1 /\ reader'[i].id = reader[i + 1].id
      BY <2>1, <2>8 DEF Created
    <3>2. reader[i + 1].id \in TaskIds /\ project.status[reader[i + 1].id] = "ABSENT"
      BY <1>0, <3>1 DEF LogInv, CreatedIsAbsent, Created
    <3>3. ~(e.type = "TASK_CREATED" /\ e.id = reader[i + 1].id)
      BY <2>1, <2>2, <3>1 DEF LogInv, CreatedOnce, Created
    <3>. QED
      BY <2>4, <3>1, <3>2, <3>3
  <2>9. ASSUME NEW i \in DOMAIN reader', NEW k \in DOMAIN reader',
               Created(i)', Created(k)', reader'[k].id = reader'[i].id
        PROVE  k = i
    <3>1. k + 1 = i + 1
      BY <2>1, <2>9 DEF LogInv, CreatedOnce, Created
    <3>. QED
      BY <2>1, <3>1
  <2>10. ASSUME NEW i \in DOMAIN reader', reader'[i].type = "DEPENDENCY_ADDED"
         PROVE  \/ project'.status[reader'[i].id] # "ABSENT"
                \/ \E k \in DOMAIN reader' : k < i /\ Created(k)' /\ reader'[k].id = reader'[i].id
    <3>1. /\ i + 1 \in DOMAIN reader /\ reader[i + 1].type = "DEPENDENCY_ADDED" /\ reader'[i].id = reader[i + 1].id
          /\ reader[i + 1].id \in TaskIds
      BY <1>0, <2>1, <2>10
    <3>2. CASE project.status[reader[i + 1].id] # "ABSENT"
      BY <2>4, <3>1, <3>2
    <3>3. ASSUME NEW k \in DOMAIN reader, k < i + 1, Created(k), reader[k].id = reader[i + 1].id
          PROVE  \/ project'.status[reader'[i].id] # "ABSENT"
                 \/ \E h \in DOMAIN reader' : h < i /\ Created(h)' /\ reader'[h].id = reader'[i].id
      <4>1. CASE k = 1
        BY <2>2, <2>4, <3>1, <3>3, <4>1 DEF Created
      <4>2. CASE k # 1
        <5>1. k - 1 \in DOMAIN reader' /\ k - 1 < i /\ (k - 1) + 1 = k
          BY <2>1, <3>3, <4>2
        <5>2. reader'[k - 1] = reader[k]
          BY <2>1, <5>1
        <5>. QED
          BY <3>1, <3>3, <5>1, <5>2 DEF Created
      <4>. QED
        BY <4>1, <4>2
    <3>. QED
      BY <3>1, <3>2, <3>3 DEF LogInv, NeedsFollow
  <2>11. SourceFirst'
    <3>1. "document" \notin project.sources => e.type = "SOURCE_INGESTED"
      BY <2>1, <2>2 DEF LogInv, SourceFirst
    <3>. QED
      BY <2>4, <3>1 DEF SourceFirst
  <2>. QED
    BY <2>5, <2>6, <2>7, <2>8, <2>9, <2>10, <2>11 DEF LogInv, CreatedIsAbsent, CreatedOnce, NeedsFollow
<1>. QED
  BY <1>2, <1>3, <1>4

LEMMA LogStart == AdvanceInit => LogInv
<1>. SUFFICES ASSUME AdvanceInit PROVE LogInv
  OBVIOUS
<1>1. \A t \in DocTasks : project.status[t] = "ABSENT"
  BY DEF AdvanceInit, EmptyProject, TaskIds
<1>. QED
  BY <1>1 DEF AdvanceInit, EmptyProject, LogInv, LogReplayable, HeldIsKnown, AddedIsAbsent, CreatedIsAbsent,
     CreatedOnce, NeedsFollow, SourceFirst

LEMMA LogStep == OneGateway /\ AdvanceInv /\ LogInv /\ [AdvanceNext]_advanceVars => LogInv'
<1>. SUFFICES ASSUME OneGateway, AdvanceInv, LogInv, [AdvanceNext]_advanceVars PROVE LogInv'
  OBVIOUS
<1>1. CASE UNCHANGED advanceVars
  BY <1>1 DEF advanceVars, LogInv, LogReplayable, HeldIsKnown, AddedIsAbsent, CreatedIsAbsent, CreatedOnce,
     NeedsFollow, SourceFirst, Created
<1>. QED
  BY <1>1, GatewayLogs, ReaderLogs, LoopsLog DEF AdvanceNext

-------------------------------------------------------------------------------
(* The import of a preserved export.                                          *)

Whole(n) == importDir.transcripts[n] = "whole"

Manifests == [by : Importers \union {"none"}, run : Nat]
ImporterPcs == {"idle", "writing", "manifest", "hash", "verify", "checking", "passed", "failed"}
ImporterStates ==
  [pc : ImporterPcs, next : Transcripts, hash : Manifests, bad : SUBSET Transcripts, disturbed : BOOLEAN]

ImportShape ==
  /\ importDir \in [transcripts : [Transcripts -> {"none", "whole", "tampered"}], manifest : Manifests]
  /\ importer \in [Importers -> ImporterStates]
  /\ importCounts \in [runs : [Importers -> Nat], tampers : Nat, deaths : Nat]

\* An importer nobody disturbed since it began finds what it wrote.
WroteWhole(p) ==
  ~importer[p].disturbed =>
    /\ importer[p].pc # "failed"
    /\ importer[p].pc = "writing" /\ importer[p].next = 2 => Whole(1)
    /\ importer[p].pc \in {"manifest", "hash", "verify", "checking"} => Whole(1) /\ Whole(2)
    /\ importer[p].pc = "verify" => importDir.manifest = importer[p].hash

\* What was missing or tampered with when the verification began is so still, or
\* was written again.
ReadWhole(p) ==
  /\ importer[p].pc = "checking" => \A n \in importer[p].bad : ~Whole(n)
  /\ importer[p].pc = "checking" /\ importer[p].next = 2 =>
       1 \notin importer[p].bad /\ importDir.transcripts[1] # "none"
  /\ importer[p].pc = "passed" => importer[p].bad = {} /\ \A n \in Transcripts : importDir.transcripts[n] # "none"

ImportInv == ImportShape /\ \A p \in Importers : WroteWhole(p) /\ ReadWhole(p)

LEMMA ImportStart == ImportInit => ImportInv
<1>. SUFFICES ASSUME ImportInit PROVE ImportInv
  OBVIOUS
<1>1. NoManifest \in Manifests /\ ImporterIdle \in ImporterStates
  BY DEF NoManifest, Manifests, ImporterIdle, ImporterStates, ImporterPcs, Transcripts
<1>2. ImportShape
  BY <1>1 DEF ImportInit, ImportShape
<1>3. ASSUME NEW p \in Importers PROVE importer[p].pc = "idle"
  BY DEF ImportInit, ImporterIdle
<1>. QED
  BY <1>2, <1>3 DEF ImportInv, WroteWhole, ReadWhole

\* A step of one importer that writes no file leaves the claims of the others.
LEMMA OthersRest ==
  ASSUME ImportInv, UNCHANGED importDir, NEW p \in Importers, NEW s \in ImporterStates,
         importer' = [importer EXCEPT ![p] = s],
         importCounts' \in [runs : [Importers -> Nat], tampers : Nat, deaths : Nat],
         (WroteWhole(p) /\ ReadWhole(p))'
  PROVE  ImportInv'
<1>1. /\ importer \in [Importers -> ImporterStates]
      /\ importer' \in [Importers -> ImporterStates]
      /\ \A q \in Importers : q # p => importer'[q] = importer[q]
  BY DEF ImportInv, ImportShape
<1>2. ImportShape'
  BY <1>1 DEF ImportInv, ImportShape
<1>3. ASSUME NEW q \in Importers, q # p PROVE (WroteWhole(q) /\ ReadWhole(q))'
  BY <1>1, <1>3 DEF ImportInv, WroteWhole, ReadWhole, Whole
<1>. QED
  BY <1>2, <1>3 DEF ImportInv

LEMMA ImportSteps ==
  ASSUME ImportInv, [ImportNext]_importVars
  PROVE  ImportInv'
<1>0. /\ importDir \in [transcripts : [Transcripts -> {"none", "whole", "tampered"}], manifest : Manifests]
      /\ importer \in [Importers -> ImporterStates]
      /\ importCounts \in [runs : [Importers -> Nat], tampers : Nat, deaths : Nat]
      /\ 1 \in Transcripts /\ 2 \in Transcripts /\ \A n \in Transcripts : n = 1 \/ n = 2
  BY DEF ImportInv, ImportShape, Transcripts
<1>1. CASE UNCHANGED importVars
  BY <1>1 DEF importVars, ImportInv, ImportShape, WroteWhole, ReadWhole, Whole
<1>2. ASSUME NEW p \in Importers, BeginImport(p) PROVE ImportInv'
  <2>0. ImporterIdle \in ImporterStates /\ "writing" \in ImporterPcs
    BY DEF ImporterIdle, ImporterStates, ImporterPcs, NoManifest, Manifests, Transcripts
  <2>1. PICK s \in ImporterStates : s = [ImporterIdle EXCEPT !.pc = "writing"]
    BY <2>0 DEF ImporterStates
  <2>2. s.pc = "writing" /\ s.next = 1
    BY <2>1 DEF ImporterIdle
  <2>3. importer' = [importer EXCEPT ![p] = s] /\ importer'[p] = s /\ UNCHANGED importDir
    BY <1>0, <1>2, <2>1 DEF BeginImport
  <2>4. importCounts' \in [runs : [Importers -> Nat], tampers : Nat, deaths : Nat]
    BY <1>0, <1>2 DEF BeginImport
  <2>5. (WroteWhole(p) /\ ReadWhole(p))'
    BY <2>2, <2>3 DEF WroteWhole, ReadWhole
  <2>. QED
    BY <2>3, <2>4, <2>5, OthersRest
<1>3. ASSUME NEW p \in Importers, WriteTranscript(p) PROVE ImportInv'
  <2>. DEFINE n == importer[p].next
              rewritten == [q \in Importers |-> [importer[q] EXCEPT !.bad = @ \ {n}]]
  <2>1. n \in Transcripts /\ importer[p].pc = "writing"
    BY <1>0, <1>3 DEF ImporterStates, WriteTranscript
  <2>2. /\ importDir' \in [transcripts : [Transcripts -> {"none", "whole", "tampered"}], manifest : Manifests]
        /\ importDir'.manifest = importDir.manifest /\ importDir'.transcripts[n] = "whole"
        /\ \A k \in Transcripts : k # n => importDir'.transcripts[k] = importDir.transcripts[k]
    BY <1>0, <1>3, <2>1 DEF WriteTranscript
  <2>3. /\ rewritten \in [Importers -> ImporterStates]
        /\ \A q \in Importers : /\ rewritten[q].pc = importer[q].pc /\ rewritten[q].next = importer[q].next
                                /\ rewritten[q].hash = importer[q].hash /\ rewritten[q].bad = importer[q].bad \ {n}
                                /\ rewritten[q].disturbed = importer[q].disturbed
    BY <1>0 DEF ImporterStates
  <2>4. importer' = [rewritten EXCEPT ![p].pc = IF n = 1 THEN @ ELSE "manifest", ![p].next = 3 - n]
    BY <1>3 DEF WriteTranscript
  <2>. HIDE DEF rewritten
  <2>5. /\ \A q \in Importers : q # p => importer'[q] = rewritten[q]
        /\ importer'[p].pc = IF n = 1 THEN "writing" ELSE "manifest"
        /\ importer'[p].next = 3 - n /\ importer'[p].disturbed = importer[p].disturbed
    BY <1>0, <2>1, <2>3, <2>4
  <2>6. importer' \in [Importers -> ImporterStates]
    <3>1. 3 - n \in Transcripts /\ (IF n = 1 THEN rewritten[p].pc ELSE "manifest") \in ImporterPcs
      BY <1>0, <2>1, <2>3 DEF Transcripts, ImporterPcs
    <3>. DEFINE half == [rewritten EXCEPT ![p].pc = IF n = 1 THEN @ ELSE "manifest"]
    <3>2. half \in [Importers -> ImporterStates]
      BY <2>3, <3>1 DEF ImporterStates
    <3>3. importer' = [half EXCEPT ![p].next = 3 - n]
      BY <2>4
    <3>. HIDE DEF half
    <3>. QED
      BY <3>1, <3>2, <3>3 DEF ImporterStates
  <2>7. ImportShape'
    BY <1>0, <1>3, <2>2, <2>6 DEF ImportShape, WriteTranscript
  <2>8. (WroteWhole(p) /\ ReadWhole(p))'
    <3>1. CASE n = 1
      BY <2>1, <2>2, <2>5, <3>1 DEF WroteWhole, ReadWhole, Whole
    <3>2. CASE n = 2
      BY <1>0, <2>1, <2>2, <2>5, <3>2 DEF ImportInv, WroteWhole, ReadWhole, Whole
    <3>. QED
      BY <1>0, <2>1, <3>1, <3>2
  <2>9. ASSUME NEW q \in Importers, q # p PROVE (WroteWhole(q) /\ ReadWhole(q))'
    <3>1. /\ importer'[q].pc = importer[q].pc /\ importer'[q].next = importer[q].next
          /\ importer'[q].hash = importer[q].hash /\ importer'[q].bad = importer[q].bad \ {n}
          /\ importer'[q].disturbed = importer[q].disturbed
      BY <2>3, <2>5, <2>9
    <3>2. importer[q].bad \subseteq Transcripts
      BY <1>0 DEF ImporterStates
    <3>3. \A k \in Transcripts : (Whole(k) => Whole(k)')
                                 /\ (importDir'.transcripts[k] = "none" => importDir.transcripts[k] = "none")
      BY <2>2 DEF Whole
    <3>4. \A k \in importer[q].bad \ {n} : Whole(k)' => Whole(k)
      BY <2>2, <3>2 DEF Whole
    <3>5. WroteWhole(q)'
      BY <1>0, <2>2, <3>1, <3>3 DEF ImportInv, WroteWhole
    <3>6. ReadWhole(q)'
      BY <1>0, <3>1, <3>3, <3>4 DEF ImportInv, ReadWhole
    <3>. QED
      BY <3>5, <3>6
  <2>. QED
    BY <2>7, <2>8, <2>9 DEF ImportInv
<1>4. ASSUME NEW p \in Importers, WriteImportManifest(p) PROVE ImportInv'
  <2>1. PICK m \in Manifests : m = [by |-> p, run |-> importCounts.runs[p]]
    BY <1>0 DEF Manifests
  <2>2. /\ importDir' = [importDir EXCEPT !.manifest = m] /\ UNCHANGED importDir.transcripts
        /\ importer' = [q \in Importers |-> IF q = p THEN [importer[p] EXCEPT !.pc = "hash"]
                                            ELSE [importer[q] EXCEPT !.disturbed = TRUE]]
        /\ importer[p].pc = "manifest" /\ UNCHANGED importCounts
    BY <1>0, <1>4, <2>1 DEF WriteImportManifest
  <2>3. importer'[p].pc = "hash" /\ importer'[p].disturbed = importer[p].disturbed
    BY <1>0, <2>2 DEF ImporterStates
  <2>4. \A q \in Importers : q # p => /\ importer'[q].disturbed /\ importer'[q].pc = importer[q].pc
                                      /\ importer'[q].next = importer[q].next /\ importer'[q].bad = importer[q].bad
    BY <1>0, <2>2 DEF ImporterStates
  <2>5. ASSUME NEW q \in Importers PROVE importer'[q] \in ImporterStates
    <3>1. [importer[p] EXCEPT !.pc = "hash"] \in ImporterStates
      BY <1>0 DEF ImporterStates, ImporterPcs
    <3>2. \A s \in ImporterStates : [s EXCEPT !.disturbed = TRUE] \in ImporterStates
      BY DEF ImporterStates
    <3>. QED
      BY <1>0, <2>2, <3>1, <3>2
  <2>6. ImportShape'
    BY <1>0, <2>2, <2>5 DEF ImportShape
  <2>7. (WroteWhole(p) /\ ReadWhole(p))'
    BY <2>2, <2>3 DEF ImportInv, WroteWhole, ReadWhole, Whole
  <2>8. ASSUME NEW q \in Importers, q # p PROVE (WroteWhole(q) /\ ReadWhole(q))'
    <3>1. WroteWhole(q)'
      BY <2>4, <2>8 DEF WroteWhole
    <3>2. importDir'.transcripts = importDir.transcripts /\ \A k \in Nat : Whole(k)' <=> Whole(k)
      BY <2>2 DEF Whole
    <3>3. importer[q].bad \subseteq Nat
      BY <1>0 DEF ImporterStates, Transcripts
    <3>4. ReadWhole(q)'
      BY <2>4, <2>8, <3>2, <3>3 DEF ImportInv, ReadWhole
    <3>. QED
      BY <3>1, <3>4
  <2>. QED
    BY <2>6, <2>7, <2>8 DEF ImportInv
<1>5. ASSUME NEW p \in Importers, HashManifest(p) PROVE ImportInv'
  <2>1. importDir.manifest \in Manifests /\ importer[p].pc = "hash" /\ importer[p] \in ImporterStates
    BY <1>0, <1>5 DEF HashManifest
  <2>2. PICK s \in ImporterStates : s = [importer[p] EXCEPT !.pc = "verify", !.hash = importDir.manifest]
    BY <2>1 DEF ImporterStates, ImporterPcs
  <2>3. s.pc = "verify" /\ s.hash = importDir.manifest /\ s.disturbed = importer[p].disturbed
    BY <2>1, <2>2 DEF ImporterStates
  <2>4. importer' = [importer EXCEPT ![p] = s] /\ UNCHANGED <<importDir, importCounts>> /\ importer'[p] = s
    BY <1>0, <1>5, <2>2 DEF HashManifest
  <2>5. (WroteWhole(p) /\ ReadWhole(p))'
    BY <2>1, <2>3, <2>4 DEF ImportInv, WroteWhole, ReadWhole, Whole
  <2>. QED
    BY <1>0, <2>4, <2>5, OthersRest
<1>6. ASSUME NEW p \in Importers, VerifyManifest(p) PROVE ImportInv'
  <2>. DEFINE lost == {n \in Transcripts : importDir.transcripts[n] # "whole"}
              next == IF importDir.manifest = importer[p].hash THEN "checking" ELSE "failed"
  <2>1. importer[p].pc = "verify" /\ importer[p] \in ImporterStates
    BY <1>0, <1>6 DEF VerifyManifest
  <2>2. PICK s \in ImporterStates : s = [importer[p] EXCEPT !.pc = next, !.next = 1, !.bad = lost]
    BY <1>0, <2>1 DEF ImporterStates, ImporterPcs
  <2>3. s.pc = next /\ s.next = 1 /\ s.bad = lost /\ s.disturbed = importer[p].disturbed
    BY <2>1, <2>2 DEF ImporterStates
  <2>4. importer' = [importer EXCEPT ![p] = s] /\ UNCHANGED <<importDir, importCounts>> /\ importer'[p] = s
    BY <1>0, <1>6, <2>2 DEF VerifyManifest
  <2>5. (WroteWhole(p) /\ ReadWhole(p))'
    BY <2>1, <2>3, <2>4 DEF ImportInv, WroteWhole, ReadWhole, Whole
  <2>. QED
    BY <1>0, <2>4, <2>5, OthersRest
<1>7. ASSUME NEW p \in Importers, VerifyTranscript(p) PROVE ImportInv'
  <2>. DEFINE n == importer[p].next
  <2>1. importer[p].pc = "checking" /\ importer[p] \in ImporterStates /\ n \in Transcripts
        /\ UNCHANGED <<importDir, importCounts>> /\ importer[p].bad \subseteq Transcripts
    BY <1>0, <1>7 DEF VerifyTranscript, ImporterStates
  <2>2. CASE ~Whole(n)
    <3>1. PICK s \in ImporterStates : s = [importer[p] EXCEPT !.pc = "failed", !.next = 1]
      BY <1>0, <2>1 DEF ImporterStates, ImporterPcs
    <3>2. s.pc = "failed" /\ s.disturbed = importer[p].disturbed
      BY <2>1, <3>1 DEF ImporterStates
    <3>3. importer' = [importer EXCEPT ![p] = s] /\ importer'[p] = s
      BY <1>0, <1>7, <2>2, <3>1 DEF VerifyTranscript, ImportStep, Whole
    <3>4. (WroteWhole(p) /\ ReadWhole(p))'
      BY <1>0, <2>1, <2>2, <3>2, <3>3 DEF ImportInv, WroteWhole, ReadWhole
    <3>. QED
      BY <1>0, <2>1, <3>3, <3>4, OthersRest
  <2>3. CASE Whole(n) /\ n = 1
    <3>1. PICK s \in ImporterStates : s = [importer[p] EXCEPT !.next = 2]
      BY <1>0, <2>1 DEF ImporterStates
    <3>2. s.pc = "checking" /\ s.next = 2 /\ s.disturbed = importer[p].disturbed /\ s.bad = importer[p].bad
      BY <2>1, <3>1 DEF ImporterStates
    <3>3. importer' = [importer EXCEPT ![p] = s] /\ importer'[p] = s
      BY <1>0, <1>7, <2>3, <3>1 DEF VerifyTranscript, Whole
    <3>4. (WroteWhole(p) /\ ReadWhole(p))'
      BY <1>0, <2>1, <2>3, <3>2, <3>3 DEF ImportInv, WroteWhole, ReadWhole, Whole
    <3>. QED
      BY <1>0, <2>1, <3>3, <3>4, OthersRest
  <2>4. CASE Whole(n) /\ n = 2
    <3>1. PICK s \in ImporterStates : s = [importer[p] EXCEPT !.pc = "passed", !.next = 1]
      BY <1>0, <2>1 DEF ImporterStates, ImporterPcs
    <3>2. s.pc = "passed" /\ s.bad = importer[p].bad
      BY <2>1, <3>1 DEF ImporterStates
    <3>3. importer' = [importer EXCEPT ![p] = s] /\ importer'[p] = s
      <4>1. ImportStep(p, "passed")
        BY <1>7, <2>4 DEF VerifyTranscript, Whole
      <4>. QED
        BY <1>0, <3>1, <4>1 DEF ImportStep
    <3>4. importer[p].bad = {} /\ \A k \in Transcripts : importDir.transcripts[k] # "none"
      BY <1>0, <2>1, <2>4 DEF ImportInv, ReadWhole, Whole
    <3>5. (WroteWhole(p) /\ ReadWhole(p))'
      BY <2>1, <3>2, <3>3, <3>4 DEF WroteWhole, ReadWhole
    <3>. QED
      BY <1>0, <2>1, <3>3, <3>5, OthersRest
  <2>. QED
    BY <1>0, <2>1, <2>2, <2>3, <2>4
<1>8. ASSUME NEW p \in Importers, ImporterDies(p) PROVE ImportInv'
  <2>1. ImporterIdle \in ImporterStates /\ ImporterIdle.pc = "idle"
    BY DEF ImporterIdle, ImporterStates, ImporterPcs, NoManifest, Manifests, Transcripts
  <2>2. importer' = [importer EXCEPT ![p] = ImporterIdle] /\ importer'[p] = ImporterIdle /\ UNCHANGED importDir
    BY <1>0, <1>8 DEF ImporterDies
  <2>3. importCounts' \in [runs : [Importers -> Nat], tampers : Nat, deaths : Nat]
    BY <1>0, <1>8 DEF ImporterDies
  <2>4. (WroteWhole(p) /\ ReadWhole(p))'
    BY <2>1, <2>2 DEF WroteWhole, ReadWhole
  <2>. QED
    BY <2>1, <2>2, <2>3, <2>4, OthersRest
<1>9. ASSUME NEW n \in Transcripts, TamperTranscript(n) PROVE ImportInv'
  <2>1. /\ importDir' \in [transcripts : [Transcripts -> {"none", "whole", "tampered"}], manifest : Manifests]
        /\ \A k \in Transcripts : /\ importDir'.transcripts[k] = "none" => importDir.transcripts[k] = "none"
                                  /\ importDir'.transcripts[k] = "whole" => importDir.transcripts[k] = "whole"
    BY <1>0, <1>9 DEF TamperTranscript
  <2>2. importer' = [q \in Importers |-> [importer[q] EXCEPT !.disturbed = TRUE]]
    BY <1>9 DEF TamperTranscript
  <2>3. \A q \in Importers :
          /\ importer'[q] \in ImporterStates /\ importer'[q].disturbed /\ importer'[q].pc = importer[q].pc
          /\ importer'[q].next = importer[q].next /\ importer'[q].bad = importer[q].bad
    <3>1. \A q \in Importers : importer[q] \in ImporterStates
              /\ importer'[q] = [importer[q] EXCEPT !.disturbed = TRUE]
      BY <1>0, <2>2
    <3>2. \A s \in ImporterStates : LET t == [s EXCEPT !.disturbed = TRUE] IN
            t \in ImporterStates /\ t.disturbed /\ t.pc = s.pc /\ t.next = s.next /\ t.bad = s.bad
      BY DEF ImporterStates
    <3>. QED
      BY <3>1, <3>2
  <2>4. importCounts' \in [runs : [Importers -> Nat], tampers : Nat, deaths : Nat]
    BY <1>0, <1>9 DEF TamperTranscript
  <2>5. ImportShape'
    BY <2>1, <2>2, <2>3, <2>4 DEF ImportShape
  <2>6. ASSUME NEW q \in Importers PROVE (WroteWhole(q) /\ ReadWhole(q))'
    <3>1. importer[q].bad \subseteq Transcripts
      BY <1>0 DEF ImporterStates
    <3>. QED
      BY <1>0, <2>1, <2>3, <3>1 DEF ImportInv, WroteWhole, ReadWhole, Whole
  <2>. QED
    BY <2>5, <2>6 DEF ImportInv
<1>10. CASE ImportNext
  <2>1. CASE \E n \in Transcripts : TamperTranscript(n)
    BY <1>9, <2>1
  <2>2. CASE \E p \in Importers :
               \/ BeginImport(p) \/ WriteTranscript(p) \/ WriteImportManifest(p) \/ HashManifest(p)
               \/ VerifyManifest(p) \/ VerifyTranscript(p) \/ ImporterDies(p)
    BY <1>2, <1>3, <1>4, <1>5, <1>6, <1>7, <1>8, <2>2
  <2>. QED
    BY <1>10, <2>1, <2>2 DEF ImportNext
<1>. QED
  BY <1>1, <1>10

-------------------------------------------------------------------------------
(* The receipts of the evidence gate.                                       *)

ArmedRecords == [boot : Nat, enrollment : Nat, config : BOOLEAN]
ReturnRecords == [before : Nat, after : Nat, worked : BOOLEAN]
PostRecords == [pc : {"idle", "heartbeat", "write"}, pre : ArmedRecords, worked : BOOLEAN]
TripFields == {"pc", "cipher", "hash", "back", "receipt"}

\* A running post-reboot command was armed in an earlier boot and works in this
\* one; so did the one the receipt is of.
RebootInv ==
  /\ boot \in Nat /\ boot > 0 /\ commissioned \in Nat
  /\ armed \in ArmedRecords /\ armed.boot <= boot
  /\ returned \in ReturnRecords /\ post \in PostRecords
  /\ post.pc # "idle" => post.pre.boot < boot
  /\ post.pc = "heartbeat" => ~post.worked
  /\ post.pc = "write" /\ post.worked => boot \in passedIn
  /\ returned.worked => returned.after \in passedIn /\ returned.before < returned.after

TripInv == HasFields(trip, TripFields) /\ ReceiptNamesOneContent

GateInv == RebootInv /\ TripInv

LEMMA GateStart == EvidenceGateInit => GateInv
<1>. SUFFICES ASSUME EvidenceGateInit PROVE GateInv
  OBVIOUS
<1>1. RebootInv
  BY DEF EvidenceGateInit, RebootInv, ArmedRecords, ReturnRecords, PostRecords, NotArmed, NotReturned
<1>2. TripInv
  BY DEF EvidenceGateInit, TripInv, HasFields, TripFields, NoTrip, ReceiptNamesOneContent
<1>. QED
  BY <1>1, <1>2 DEF GateInv

\* What the commands of the gate do, command by command.
LEMMA RebootStep == RebootInv /\ [EvidenceGateNext]_gateVars => RebootInv'
<1>. SUFFICES ASSUME RebootInv, [EvidenceGateNext]_gateVars PROVE RebootInv'
  OBVIOUS
<1>1. CASE UNCHANGED rebootVars
  BY <1>1 DEF rebootVars, RebootInv
<1>2. CASE TripNext \/ UNCHANGED gateVars
  BY <1>1, <1>2 DEF TripNext, SourceEdited, Encrypt, HashSource, DecryptAndCompare, UploadAndFetch,
     gateVars, rebootVars
<1>3. CASE Commission
  BY <1>3 DEF Commission, RebootInv
<1>4. CASE DeviceReboots
  <2>1. post' \in PostRecords /\ post'.pc = "idle"
    BY <1>4 DEF DeviceReboots, RebootInv, PostRecords
  <2>. QED
    BY <1>4, <2>1 DEF DeviceReboots, RebootInv, ArmedRecords
<1>5. CASE PostReboot
  <2>1. post' \in PostRecords /\ post'.pc = "heartbeat" /\ post'.pre = armed /\ post'.worked = FALSE
    BY <1>5 DEF PostReboot, RebootInv, PostRecords
  <2>2. armed.boot < boot
    BY <1>5 DEF PostReboot, RebootEvaluation, RebootInv, ArmedRecords
  <2>. QED
    BY <1>5, <2>1, <2>2 DEF PostReboot, RebootInv
<1>6. CASE PostHeartbeat
  <2>. DEFINE GoesOn ==
                /\ post' \in PostRecords /\ post'.pre = post.pre /\ post'.pc \in {"idle", "write"}
                /\ post'.pc = "write" /\ post'.worked => boot \in passedIn'
                /\ passedIn \subseteq passedIn'
  <2>1. GoesOn
    <3>1. ASSUME NEW passes \in BOOLEAN, WorkerOnce(passes), post' = [post EXCEPT !.pc = "write", !.worked = passes]
          PROVE  GoesOn
      BY <3>1 DEF WorkerOnce, RebootInv, PostRecords
    <3>2. ASSUME post' = [post EXCEPT !.pc = "write"], UNCHANGED passedIn
          PROVE  GoesOn
      BY <1>6, <3>2 DEF PostHeartbeat, RebootInv, PostRecords
    <3>3. ASSUME post' = [post EXCEPT !.pc = "idle"], UNCHANGED passedIn
          PROVE  GoesOn
      BY <3>3 DEF RebootInv, PostRecords
    <3>. QED
      BY <1>6, <3>1, <3>2, <3>3 DEF PostHeartbeat
  <2>. QED
    BY <1>6, <2>1 DEF PostHeartbeat, RebootInv
<1>7. CASE PostReceipt
  <2>1. /\ post' \in PostRecords /\ post'.pc = "idle" /\ returned' \in ReturnRecords
        /\ returned'.before = post.pre.boot /\ returned'.after = boot /\ returned'.worked = post.worked
    BY <1>7 DEF PostReceipt, RebootInv, PostRecords, ArmedRecords, ReturnRecords
  <2>. QED
    BY <1>7, <2>1 DEF PostReceipt, RebootInv
<1>8. ASSUME NEW b \in BOOLEAN, RunWorker(b) PROVE RebootInv'
  BY <1>8 DEF RunWorker, WorkerOnce, RebootInv
<1>9. ASSUME NEW b \in BOOLEAN, ArmReboot(b) PROVE RebootInv'
  <2>1. armed' \in ArmedRecords /\ armed'.boot = boot
    BY <1>9 DEF ArmReboot, RebootInv, ArmedRecords
  <2>. QED
    BY <1>9, <2>1 DEF ArmReboot, RebootInv
<1>. QED
  BY <1>2, <1>3, <1>4, <1>5, <1>6, <1>7, <1>8, <1>9 DEF EvidenceGateNext, RebootNext

LEMMA TripStep == TripInv /\ [EvidenceGateNext]_gateVars => TripInv'
<1>. SUFFICES ASSUME TripInv, [EvidenceGateNext]_gateVars PROVE TripInv'
  OBVIOUS
<1>. USE DEF TripInv, HasFields, TripFields, ReceiptNamesOneContent
<1>1. CASE UNCHANGED trip
  BY <1>1
<1>2. CASE UNCHANGED gateVars \/ Commission \/ PostReboot \/ PostHeartbeat \/ PostReceipt \/ SourceEdited
           \/ \E b \in BOOLEAN : RunWorker(b) \/ ArmReboot(b)
  <2>1. UNCHANGED trip
    BY <1>2 DEF gateVars, Commission, PostReboot, PostHeartbeat, PostReceipt, SourceEdited, RunWorker, ArmReboot
  <2>. QED
    BY <1>1, <2>1
<1>3. CASE DeviceReboots
  BY <1>3 DEF DeviceReboots
<1>4. CASE Encrypt \/ HashSource
  BY <1>4 DEF Encrypt, HashSource
<1>5. ASSUME NEW back, UploadAndFetch(back) PROVE TripInv'
  BY <1>5 DEF UploadAndFetch
<1>6. CASE DecryptAndCompare
  <2>1. CASE trip.back = trip.hash
    <3>1. /\ HasFields(trip', TripFields)
          /\ trip'.receipt = [source |-> trip.hash, recovered |-> trip.back]
      BY <1>6, <2>1 DEF DecryptAndCompare
    <3>. QED
      BY <2>1, <3>1
  <2>2. CASE trip.back # trip.hash
    <3>1. HasFields(trip', TripFields) /\ trip'.receipt = trip.receipt
      BY <1>6, <2>2 DEF DecryptAndCompare
    <3>. QED
      BY <3>1
  <2>. QED
    BY <2>1, <2>2
<1>. QED
  BY <1>2, <1>3, <1>4, <1>5, <1>6 DEF EvidenceGateNext, RebootNext, TripNext

LEMMA GateHolds == GateInv => EligibleAfterReboot /\ ReceiptNamesOneContent
<1>. SUFFICES ASSUME GateInv PROVE EligibleAfterReboot /\ ReceiptNamesOneContent
  OBVIOUS
<1>1. returned.worked => returned.after \in passedIn /\ returned.after > returned.before
  BY DEF GateInv, RebootInv, ReturnRecords
<1>. QED
  BY <1>1 DEF GateInv, TripInv, EligibleAfterReboot, PersistentEligible

-------------------------------------------------------------------------------
(* The evidence of a campaign.                                              *)

BundleFields == {"workers", "jobs", "leases", "audits", "whole", "newest", "reboots", "verdicts", "at"}
Attempts == [success : BOOLEAN, deviceBoot : Nat]
RebootsTo(n) == {<<k, k + 1>> : k \in 0..(n - 1)}

\* What a bundle says was so when it was asked, and is kept since: records are added only.
BundleIsOfRecords ==
  LET b == collector.bundle IN
  /\ HasFields(collector, {"query", "bundle"}) /\ HasFields(b, BundleFields)
  /\ b.audits \subseteq audits
  /\ b.newest.success => \E i \in DOMAIN outcomes : outcomes[i] = b.newest
  /\ \E n \in 0..deviceBoot : b.reboots = RebootsTo(n)

CampaignInv ==
  /\ deviceBoot \in Nat /\ outcomes \in Seq(Attempts) /\ reboots = RebootsTo(deviceBoot)
  /\ BundleIsOfRecords /\ PersistentAfterReboot

LEMMA CampaignStart == CampaignInit => CampaignInv
<1>. SUFFICES ASSUME CampaignInit PROVE CampaignInv
  OBVIOUS
<1>1. RebootsTo(0) = {}
  BY DEF RebootsTo
<1>2. HasFields(collector, {"query", "bundle"}) /\ HasFields(NoBundle, BundleFields)
  BY DEF CampaignInit, HasFields, NoBundle, BundleFields
<1>3. NoBundle.audits = {} /\ NoBundle.newest.success = FALSE /\ NoBundle.reboots = {}
  BY DEF NoBundle, NoResult
<1>4. collector.bundle = NoBundle /\ 0 \in 0..deviceBoot
  BY DEF CampaignInit
<1>5. BundleIsOfRecords
  BY <1>1, <1>2, <1>3, <1>4 DEF BundleIsOfRecords
<1>6. PersistentAfterReboot
  BY DEF CampaignInit, PersistentAfterReboot, NotJudgedYet
<1>7. deviceBoot = 0 /\ outcomes = <<>> /\ reboots = {}
  BY DEF CampaignInit
<1>. QED
  BY <1>1, <1>5, <1>6, <1>7 DEF CampaignInv

\* The records of the campaign grow.
RecordsGrow ==
  /\ deviceBoot' \in Nat /\ deviceBoot <= deviceBoot'
  /\ outcomes' \in Seq(Attempts) /\ reboots' = RebootsTo(deviceBoot')
  /\ audits \subseteq audits' /\ reboots \subseteq reboots'
  /\ DOMAIN outcomes \subseteq DOMAIN outcomes' /\ \A i \in DOMAIN outcomes : outcomes'[i] = outcomes[i]

LEMMA CampaignGoesOn == CampaignInv /\ RecordsGrow /\ UNCHANGED <<collector, judgment>> => CampaignInv'
<1>. SUFFICES ASSUME CampaignInv, RecordsGrow, UNCHANGED <<collector, judgment>> PROVE CampaignInv'
  OBVIOUS
<1>1. 0..deviceBoot \subseteq 0..deviceBoot'
  BY DEF RecordsGrow, CampaignInv
<1>2. BundleIsOfRecords'
  BY <1>1 DEF RecordsGrow, CampaignInv, BundleIsOfRecords, HasFields
<1>3. PersistentAfterReboot'
  BY DEF RecordsGrow, CampaignInv, PersistentAfterReboot
<1>. QED
  BY <1>2, <1>3 DEF RecordsGrow, CampaignInv

\* The newest of the proved reboots is the last one of a bundle.
LEMMA NewestIsLast ==
  ASSUME NEW b, NEW n \in Nat, b.reboots = RebootsTo(n), b.reboots # {}
  PROVE  NewestReboot(b) \in b.reboots
<1>1. n > 0
  BY DEF RebootsTo
<1>2. <<n - 1, n>> \in b.reboots
  <2>1. n - 1 \in 0..(n - 1) /\ (n - 1) + 1 = n
    BY <1>1
  <2>. QED
    BY <2>1 DEF RebootsTo
<1>3. \A s \in b.reboots : s[2] <= n
  <2>. SUFFICES ASSUME NEW k \in 0..(n - 1) PROVE <<k, k + 1>>[2] <= n
    BY DEF RebootsTo
  <2>. QED
    OBVIOUS
<1>4. <<n - 1, n>>[1] # <<n - 1, n>>[2] /\ <<n - 1, n>>[2] = n
  OBVIOUS
<1>5. \E r \in b.reboots : r[1] # r[2] /\ \A s \in b.reboots : s[2] <= r[2]
  BY <1>2, <1>3, <1>4
<1>. QED
  BY <1>5 DEF NewestReboot

LEMMA CampaignStep == CampaignInv /\ [EvidenceNext]_evidenceVars => CampaignInv'
<1>. SUFFICES ASSUME CampaignInv, [EvidenceNext]_evidenceVars PROVE CampaignInv'
  OBVIOUS
<1>1. CASE UNCHANGED <<deviceBoot, outcomes, reboots, audits>> /\ UNCHANGED <<collector, judgment>>
  <2>1. RecordsGrow
    BY <1>1 DEF RecordsGrow, CampaignInv
  <2>. QED
    BY <1>1, <2>1, CampaignGoesOn
<1>2. CASE \/ UNCHANGED evidenceVars \/ SetStatus \/ CampaignTick
           \/ \E v \in {"VERIFIED", "VERIFICATION_FAILED"} : JudgeContract(v)
  BY <1>1, <1>2 DEF evidenceVars, campaignVars, SetStatus, CampaignTick, JudgeContract
<1>3. CASE ClaimJob \/ \E s \in BOOLEAN : RecordEvent(s)
  <2>1. audits \subseteq audits' /\ UNCHANGED <<deviceBoot, outcomes, reboots, collector, judgment>>
    BY <1>3 DEF ClaimJob, RecordEvent
  <2>2. RecordsGrow
    BY <2>1 DEF RecordsGrow, CampaignInv
  <2>. QED
    BY <2>1, <2>2, CampaignGoesOn
<1>4. ASSUME NEW s \in BOOLEAN, ReportResult(s) PROVE CampaignInv'
  <2>1. PICK a \in Attempts : a = [success |-> s, deviceBoot |-> deviceBoot]
    BY DEF Attempts, CampaignInv
  <2>2. outcomes' = Append(outcomes, a) /\ UNCHANGED <<deviceBoot, reboots, audits, collector, judgment>>
    BY <1>4, <2>1 DEF ReportResult
  <2>3. /\ outcomes' \in Seq(Attempts) /\ DOMAIN outcomes \subseteq DOMAIN outcomes'
        /\ \A i \in DOMAIN outcomes : outcomes'[i] = outcomes[i]
    BY <2>2, AppendProperties, LenProperties DEF CampaignInv
  <2>4. RecordsGrow
    BY <2>2, <2>3 DEF RecordsGrow, CampaignInv
  <2>. QED
    BY <2>2, <2>4, CampaignGoesOn
<1>5. CASE RebootDevice
  <2>1. /\ deviceBoot' = deviceBoot + 1 /\ reboots' = reboots \union {<<deviceBoot, deviceBoot + 1>>}
        /\ UNCHANGED <<outcomes, audits, collector, judgment>>
    BY <1>5 DEF RebootDevice
  <2>2. reboots' = RebootsTo(deviceBoot')
    <3>1. deviceBoot \in Nat /\ reboots = RebootsTo(deviceBoot)
      BY DEF CampaignInv
    <3>2. 0..(deviceBoot' - 1) = 0..(deviceBoot - 1) \union {deviceBoot}
      BY <2>1, <3>1
    <3>. QED
      BY <2>1, <3>1, <3>2 DEF RebootsTo
  <2>3. RecordsGrow
    BY <2>1, <2>2 DEF RecordsGrow, CampaignInv
  <2>. QED
    BY <2>1, <2>3, CampaignGoesOn
<1>6. CASE StartExport
  <2>1. /\ collector' = [query |-> 1, bundle |-> NoBundle]
        /\ UNCHANGED <<deviceBoot, outcomes, reboots, audits, judgment>>
    BY <1>6 DEF StartExport, campaignVars
  <2>2. RebootsTo(0) = {} /\ 0 \in 0..deviceBoot
    BY DEF RebootsTo, CampaignInv
  <2>3. /\ HasFields(collector', {"query", "bundle"})
        /\ collector'.bundle = NoBundle /\ HasFields(NoBundle, BundleFields)
    BY <2>1 DEF HasFields, NoBundle, BundleFields
  <2>4. NoBundle.audits = {} /\ NoBundle.newest.success = FALSE /\ NoBundle.reboots = {}
    BY DEF NoBundle, NoResult
  <2>5. BundleIsOfRecords'
    BY <2>1, <2>2, <2>3, <2>4 DEF BundleIsOfRecords, HasFields
  <2>. QED
    BY <2>1, <2>5 DEF CampaignInv, PersistentAfterReboot
<1>7. CASE Collect
  <2>. DEFINE q == EvidenceQueries[collector.query]
              b == collector.bundle
              c == [QueryAnswer(q) EXCEPT !.at = clock]
  <2>1. /\ collector' = [query |-> collector.query + 1, bundle |-> c]
        /\ UNCHANGED <<deviceBoot, outcomes, reboots, audits, judgment>>
    BY <1>7 DEF Collect, campaignVars
  <2>2. q \in {"workers", "jobs", "leases", "audits", "results", "reboots", "verdicts"}
    BY <1>7 DEF Collect, EvidenceQueries
  <2>3. HasFields(b, BundleFields)
    BY DEF CampaignInv, BundleIsOfRecords
  <2>4. /\ HasFields(c, BundleFields)
        /\ c.audits = IF q = "audits" THEN audits ELSE b.audits
        /\ c.newest = IF q = "results" THEN (IF outcomes = <<>> THEN NoResult ELSE outcomes[Len(outcomes)])
                       ELSE b.newest
        /\ c.reboots = IF q = "reboots" THEN reboots ELSE b.reboots
    <3>. HIDE DEF q, b
    <3>1. CASE q \in {"workers", "jobs", "leases", "verdicts"}
      BY <2>3, <3>1 DEF QueryAnswer, HasFields, BundleFields, b
    <3>2. CASE q = "audits"
      BY <2>3, <3>2 DEF QueryAnswer, HasFields, BundleFields, b
    <3>3. CASE q = "results"
      BY <2>3, <3>3 DEF QueryAnswer, HasFields, BundleFields, b
    <3>4. CASE q = "reboots"
      BY <2>3, <3>4 DEF QueryAnswer, HasFields, BundleFields, b
    <3>. QED
      BY <2>2, <3>1, <3>2, <3>3, <3>4
  <2>. HIDE DEF c, q
  <2>5. HasFields(collector', {"query", "bundle"}) /\ collector'.bundle = c
    BY <2>1 DEF HasFields
  <2>6. c.newest.success => \E i \in DOMAIN outcomes : outcomes[i] = c.newest
    <3>1. NoResult.success = FALSE
      BY DEF NoResult
    <3>2. outcomes # <<>> => Len(outcomes) \in DOMAIN outcomes
      BY LenProperties, EmptySeq DEF CampaignInv
    <3>. QED
      BY <2>4, <3>1, <3>2 DEF CampaignInv, BundleIsOfRecords
  <2>7. \E n \in 0..deviceBoot : c.reboots = RebootsTo(n)
    BY <2>4 DEF CampaignInv, BundleIsOfRecords
  <2>8. c.audits \subseteq audits
    BY <2>4 DEF CampaignInv, BundleIsOfRecords
  <2>9. BundleIsOfRecords'
    BY <2>1, <2>4, <2>5, <2>6, <2>7, <2>8 DEF BundleIsOfRecords, HasFields
  <2>. QED
    BY <2>1, <2>9 DEF CampaignInv, PersistentAfterReboot
<1>8. ASSUME NEW p \in EvidencePhases, Judgment(p) PROVE CampaignInv'
  <2>. DEFINE b == collector.bundle
  <2>1. /\ collector' = [collector EXCEPT !.query = 0] /\ judgment' = [a |-> PhaseA(b), b |-> PhaseB(b, p)]
        /\ UNCHANGED <<deviceBoot, outcomes, reboots, audits>>
    BY <1>8 DEF Judgment, campaignVars
  <2>2. HasFields(collector', {"query", "bundle"}) /\ collector'.bundle = b
    BY <2>1 DEF CampaignInv, BundleIsOfRecords, HasFields
  <2>3. BundleIsOfRecords'
    BY <2>1, <2>2 DEF CampaignInv, BundleIsOfRecords, HasFields
  <2>4. ASSUME PhaseB(b, p)
        PROVE  "completed" \in audits /\ \E i \in DOMAIN outcomes :
                 outcomes[i].success /\ \E r \in reboots : r[2] = outcomes[i].deviceBoot
    <3>1. "completed" \in b.audits /\ b.newest.success /\ b.reboots # {} /\ b.newest.deviceBoot = NewestReboot(b)[2]
      BY <2>4 DEF PhaseB, PhaseA, ValidAuditChain
    <3>2. PICK n \in 0..deviceBoot : b.reboots = RebootsTo(n)
      BY DEF CampaignInv, BundleIsOfRecords
    <3>3. n \in Nat /\ deviceBoot \in Nat
      BY DEF CampaignInv
    <3>4. NewestReboot(b) \in b.reboots
      BY <3>1, <3>2, <3>3, NewestIsLast
    <3>5. b.reboots \subseteq reboots
      <4>1. 0..(n - 1) \subseteq 0..(deviceBoot - 1)
        BY <3>2, <3>3
      <4>. QED
        BY <3>2, <4>1 DEF CampaignInv, RebootsTo
    <3>6. PICK i \in DOMAIN outcomes : outcomes[i] = b.newest
      BY <3>1 DEF CampaignInv, BundleIsOfRecords
    <3>. QED
      BY <3>1, <3>4, <3>5, <3>6 DEF CampaignInv, BundleIsOfRecords
  <2>5. PersistentAfterReboot'
    BY <2>1, <2>4 DEF PersistentAfterReboot
  <2>. QED
    BY <2>1, <2>3, <2>5 DEF CampaignInv
<1>. QED
  BY <1>2, <1>3, <1>4, <1>5, <1>6, <1>7, <1>8 DEF EvidenceNext

-------------------------------------------------------------------------------
(* The ingestion of Takeout parts.                                          *)

TakeoutRows ==
  [pc : {"idle", "create", "write", "bundle", "over"}, parts : PartLists, omissions : BOOLEAN]
TakeoutKey(p) == <<ingest[p].parts, ingest[p].omissions>>
KeptManifests == [key : PartLists \X BOOLEAN, state : {"partial", "whole"}]

\* A bundle is what build_multipart_manifest says of its parts, and is given out
\* after its manifest was written.
BundlesAreBuilt ==
  \A b \in bundles : \E parts \in PartLists, omissions \in BOOLEAN :
    /\ b = BundleOf(parts, omissions)
    /\ [key |-> <<parts, omissions>>, state |-> "whole"] \in manifests

WrittenBeforeBundle == \A p \in Ingests : ingest[p].pc = "bundle" => Manifest(p, "whole") \in manifests

\* Without a death, a manifest that is not whole is being written.
PartialIsInWork ==
  recoveryDeaths = 0 =>
    \A m \in manifests : m.state # "whole" => \E p \in Ingests : ingest[p].pc = "write" /\ m = Manifest(p, "partial")

TakeoutInv ==
  /\ recoveryDeaths \in Nat /\ ingest \in [Ingests -> TakeoutRows] /\ manifests \subseteq KeptManifests
  /\ BundlesAreBuilt /\ WrittenBeforeBundle /\ PartialIsInWork

LEMMA TakeoutStart == RecoveryInit => TakeoutInv
<1>. SUFFICES ASSUME RecoveryInit PROVE TakeoutInv
  OBVIOUS
<1>1. <<>> \in PartLists
  <2>1. <<>> \in [1..0 -> Parts] /\ 0 \in 0..MaxParts
    BY RecoveryAssumption
  <2>. QED
    BY <2>1 DEF PartLists
<1>2. IngestIdle \in TakeoutRows /\ IngestIdle.pc = "idle"
  BY <1>1 DEF IngestIdle, TakeoutRows
<1>. QED
  BY <1>2 DEF RecoveryInit, TakeoutInv, BundlesAreBuilt, WrittenBeforeBundle, PartialIsInWork

LEMMA TakeoutStep == TakeoutInv /\ [RecoveryNext]_recoveryVars => TakeoutInv'
<1>. SUFFICES ASSUME TakeoutInv, [RecoveryNext]_recoveryVars PROVE TakeoutInv'
  OBVIOUS
<1>. USE DEF TakeoutKey
<1>0. IngestIdle \in TakeoutRows /\ IngestIdle.pc = "idle"
  <2>1. <<>> \in [1..0 -> Parts] /\ 0 \in 0..MaxParts
    BY RecoveryAssumption
  <2>. QED
    BY <2>1 DEF PartLists, IngestIdle, TakeoutRows
<1>1. CASE UNCHANGED ingestVars /\ recoveryDeaths' \in {recoveryDeaths, recoveryDeaths + 1}
  <2>1. recoveryDeaths' \in Nat /\ (recoveryDeaths' = 0 => recoveryDeaths = 0)
    BY <1>1 DEF TakeoutInv
  <2>2. BundlesAreBuilt' /\ WrittenBeforeBundle'
    BY <1>1 DEF ingestVars, TakeoutInv, BundlesAreBuilt, WrittenBeforeBundle, Manifest
  <2>3. PartialIsInWork'
    BY <1>1, <2>1 DEF ingestVars, TakeoutInv, PartialIsInWork, Manifest
  <2>. QED
    BY <1>1, <2>1, <2>2, <2>3 DEF TakeoutInv, ingestVars
<1>2. ASSUME NEW p \in Ingests, NEW row \in TakeoutRows, ingest' = [ingest EXCEPT ![p] = row], ingest[p].pc # "write",
             row.pc \notin {"write", "bundle"}, UNCHANGED <<manifests, bundles>>,
             recoveryDeaths' \in {recoveryDeaths, recoveryDeaths + 1}
      PROVE  TakeoutInv'
  <2>1. /\ ingest' \in [Ingests -> TakeoutRows] /\ ingest'[p] = row
        /\ \A q \in Ingests : q # p => ingest'[q] = ingest[q]
    BY <1>2 DEF TakeoutInv
  <2>2. WrittenBeforeBundle'
    BY <1>2, <2>1 DEF TakeoutInv, WrittenBeforeBundle, Manifest
  <2>3. PartialIsInWork'
    BY <1>2, <2>1 DEF TakeoutInv, PartialIsInWork, Manifest
  <2>. QED
    BY <1>2, <2>1, <2>2, <2>3 DEF TakeoutInv, BundlesAreBuilt
<1>3. ASSUME NEW p \in Ingests, NEW parts \in PartLists, NEW omissions \in BOOLEAN, StartIngest(p, parts, omissions)
      PROVE  TakeoutInv'
  <2>1. PICK row \in TakeoutRows : row = [pc |-> "create", parts |-> parts, omissions |-> omissions]
    BY DEF TakeoutRows
  <2>2. row.pc = "create"
    BY <2>1
  <2>. QED
    BY <1>2, <1>3, <2>1, <2>2 DEF StartIngest
<1>4. ASSUME NEW p \in Ingests, CreateManifest(p) PROVE TakeoutInv'
  <2>. DEFINE pc == IF Manifest(p, "whole") \in manifests THEN "bundle"
                    ELSE IF Manifest(p, "partial") \in manifests THEN "over" ELSE "write"
  <2>1. /\ ingest' = [ingest EXCEPT ![p].pc = pc] /\ ingest[p].pc = "create" /\ UNCHANGED <<bundles, recoveryDeaths>>
        /\ manifests' = IF pc = "write" THEN manifests \union {Manifest(p, "partial")} ELSE manifests
    BY <1>4 DEF CreateManifest
  <2>2. /\ ingest' \in [Ingests -> TakeoutRows] /\ ingest'[p].pc = pc /\ ingest'[p].parts = ingest[p].parts
        /\ ingest'[p].omissions = ingest[p].omissions
        /\ \A q \in Ingests : q # p => ingest'[q] = ingest[q]
    BY <2>1 DEF TakeoutInv, TakeoutRows
  <2>3. Manifest(p, "partial") \in KeptManifests /\ Manifest(p, "partial").state = "partial"
    BY DEF TakeoutInv, TakeoutRows, Manifest, KeptManifests
  <2>4. \A q \in Ingests, s \in {"partial", "whole"} : Manifest(q, s)' = Manifest(q, s)
    BY <2>2 DEF Manifest
  <2>5. WrittenBeforeBundle'
    <3>. SUFFICES ASSUME NEW q \in Ingests, ingest'[q].pc = "bundle" PROVE Manifest(q, "whole")' \in manifests'
      BY DEF WrittenBeforeBundle
    <3>1. CASE q = p
      BY <2>1, <2>2, <2>4, <3>1
    <3>2. CASE q # p
      BY <2>1, <2>2, <2>4, <3>2 DEF TakeoutInv, WrittenBeforeBundle
    <3>. QED
      BY <3>1, <3>2
  <2>6. PartialIsInWork'
    <3>. SUFFICES ASSUME recoveryDeaths = 0, NEW m \in manifests', m.state # "whole"
                  PROVE  \E q \in Ingests : ingest'[q].pc = "write" /\ m = Manifest(q, "partial")'
      BY <2>1 DEF PartialIsInWork
    <3>1. CASE m \in manifests
      <4>1. PICK q \in Ingests : ingest[q].pc = "write" /\ m = Manifest(q, "partial")
        BY <3>1 DEF TakeoutInv, PartialIsInWork
      <4>. QED
        BY <2>1, <2>2, <2>4, <4>1
    <3>2. CASE m \notin manifests
      <4>1. m = Manifest(p, "partial") /\ pc = "write"
        BY <2>1, <3>2
      <4>. QED
        BY <2>2, <2>4, <4>1
    <3>. QED
      BY <3>1, <3>2
  <2>7. manifests \subseteq manifests' /\ manifests' \subseteq KeptManifests
    BY <2>1, <2>3 DEF TakeoutInv
  <2>. QED
    BY <2>1, <2>2, <2>5, <2>6, <2>7 DEF TakeoutInv, BundlesAreBuilt
<1>5. ASSUME NEW p \in Ingests, WriteManifest(p) PROVE TakeoutInv'
  <2>1. /\ ingest' = [ingest EXCEPT ![p].pc = "bundle"] /\ ingest[p].pc = "write"
        /\ UNCHANGED <<bundles, recoveryDeaths>>
        /\ manifests' = (manifests \ {Manifest(p, "partial")}) \union {Manifest(p, "whole")}
    BY <1>5 DEF WriteManifest
  <2>2. /\ ingest' \in [Ingests -> TakeoutRows] /\ ingest'[p].pc = "bundle" /\ ingest'[p].parts = ingest[p].parts
        /\ ingest'[p].omissions = ingest[p].omissions
        /\ \A q \in Ingests : q # p => ingest'[q] = ingest[q]
    BY <2>1 DEF TakeoutInv, TakeoutRows
  <2>3. /\ Manifest(p, "whole") \in KeptManifests /\ Manifest(p, "whole").state = "whole"
        /\ Manifest(p, "partial").state = "partial"
    BY DEF TakeoutInv, TakeoutRows, Manifest, KeptManifests
  <2>4. \A q \in Ingests, s \in {"partial", "whole"} : Manifest(q, s)' = Manifest(q, s)
    BY <2>2 DEF Manifest
  <2>5. \A m \in manifests : m.state = "whole" => m \in manifests'
    BY <2>1, <2>3
  <2>6. WrittenBeforeBundle'
    <3>. SUFFICES ASSUME NEW q \in Ingests, ingest'[q].pc = "bundle" PROVE Manifest(q, "whole")' \in manifests'
      BY DEF WrittenBeforeBundle
    <3>1. CASE q = p
      BY <2>1, <2>4, <3>1
    <3>2. CASE q # p
      <4>1. Manifest(q, "whole") \in manifests /\ Manifest(q, "whole").state = "whole"
        BY <2>2, <3>2 DEF TakeoutInv, WrittenBeforeBundle, Manifest
      <4>. QED
        BY <2>4, <2>5, <4>1
    <3>. QED
      BY <3>1, <3>2
  <2>7. PartialIsInWork'
    <3>. SUFFICES ASSUME recoveryDeaths = 0, NEW m \in manifests', m.state # "whole"
                  PROVE  \E q \in Ingests : ingest'[q].pc = "write" /\ m = Manifest(q, "partial")'
      BY <2>1 DEF PartialIsInWork
    <3>1. m \in manifests /\ m # Manifest(p, "partial")
      BY <2>1, <2>3
    <3>2. PICK q \in Ingests : ingest[q].pc = "write" /\ m = Manifest(q, "partial")
      BY <3>1 DEF TakeoutInv, PartialIsInWork
    <3>. QED
      BY <2>2, <2>4, <3>1, <3>2
  <2>8. BundlesAreBuilt'
    <3>. SUFFICES ASSUME NEW b \in bundles
                  PROVE  \E parts \in PartLists, omissions \in BOOLEAN :
                           /\ b = BundleOf(parts, omissions)
                           /\ [key |-> <<parts, omissions>>, state |-> "whole"] \in manifests'
      BY <2>1 DEF BundlesAreBuilt
    <3>1. PICK parts \in PartLists, omissions \in BOOLEAN :
            /\ b = BundleOf(parts, omissions)
            /\ [key |-> <<parts, omissions>>, state |-> "whole"] \in manifests
      BY DEF TakeoutInv, BundlesAreBuilt
    <3>. QED
      BY <2>5, <3>1
  <2>. QED
    BY <2>1, <2>2, <2>3, <2>6, <2>7, <2>8 DEF TakeoutInv
<1>6. ASSUME NEW p \in Ingests, GiveBundle(p) PROVE TakeoutInv'
  <2>1. PICK row \in TakeoutRows : row = [ingest[p] EXCEPT !.pc = "over"]
    BY DEF TakeoutInv, TakeoutRows
  <2>2. row.pc = "over"
    BY <2>1 DEF TakeoutInv, TakeoutRows
  <2>3. /\ ingest' = [ingest EXCEPT ![p] = row] /\ ingest[p].pc = "bundle" /\ UNCHANGED <<manifests, recoveryDeaths>>
        /\ bundles' = bundles \union {BundleOf(ingest[p].parts, ingest[p].omissions)}
    BY <1>6, <2>1 DEF GiveBundle, TakeoutInv
  <2>4. /\ ingest' \in [Ingests -> TakeoutRows] /\ ingest'[p] = row
        /\ \A q \in Ingests : q # p => ingest'[q] = ingest[q]
    BY <2>3 DEF TakeoutInv
  <2>5. WrittenBeforeBundle'
    BY <2>2, <2>3, <2>4 DEF TakeoutInv, WrittenBeforeBundle, Manifest
  <2>6. PartialIsInWork'
    BY <2>2, <2>3, <2>4 DEF TakeoutInv, PartialIsInWork, Manifest
  <2>7. /\ ingest[p].parts \in PartLists /\ ingest[p].omissions \in BOOLEAN
        /\ [key |-> <<ingest[p].parts, ingest[p].omissions>>, state |-> "whole"] \in manifests
    BY <2>3 DEF TakeoutInv, TakeoutRows, WrittenBeforeBundle, Manifest
  <2>8. BundlesAreBuilt'
    BY <2>3, <2>7 DEF TakeoutInv, BundlesAreBuilt
  <2>. QED
    BY <2>3, <2>4, <2>5, <2>6, <2>8 DEF TakeoutInv
<1>7. ASSUME NEW p, RecoveryDies(p) PROVE TakeoutInv'
  <2>1. /\ recoveryDeaths' = recoveryDeaths + 1 /\ recoveryDeaths' # 0 /\ recoveryDeaths' \in Nat
        /\ UNCHANGED <<manifests, bundles>>
    BY <1>7 DEF RecoveryDies, TakeoutInv
  <2>2. \/ UNCHANGED ingest
        \/ ingest' = [ingest EXCEPT ![p] = IngestIdle]
    BY <1>7 DEF RecoveryDies
  <2>3. WrittenBeforeBundle' /\ ingest' \in [Ingests -> TakeoutRows]
    BY <1>0, <2>1, <2>2 DEF TakeoutInv, WrittenBeforeBundle, Manifest
  <2>. QED
    BY <2>1, <2>3 DEF TakeoutInv, BundlesAreBuilt, PartialIsInWork
<1>8. ASSUME NEW p \in Downloads, DownloadStep(p) PROVE UNCHANGED <<ingestVars, recoveryDeaths>>
  BY <1>8 DEF DownloadStep, OpenTemp, WriteChunk, ReplaceTemp, HashDownloaded, CopyDownloaded, JudgeDownload,
              DownloadBreaks
<1>9. CASE DownloadNext
  BY <1>1, <1>7, <1>8, <1>9 DEF DownloadNext, ProviderRenews
<1>10. CASE DatabaseNext \/ UNCHANGED recoveryVars
  BY <1>1, <1>10 DEF DatabaseNext, SnapshotDies, recoveryVars
<1>. QED
  BY <1>3, <1>4, <1>5, <1>6, <1>7, <1>9, <1>10 DEF RecoveryNext, PreserveNext, IngestStep

\* A part that is the only one of its name is inspected.
LEMMA NamesOnce ==
  ASSUME NEW parts \in PartLists, Cardinality(NamesOf(parts)) = Len(parts)
  PROVE  Inspections(parts) = DOMAIN parts
<1>1. PICK n \in Nat : parts \in [1..n -> Parts]
  BY RecoveryAssumption DEF PartLists
<1>. DEFINE f == [i \in 1..n |-> parts[i].name]
<1>2. f \in Surjection(1..n, NamesOf(parts))
  BY <1>1 DEF Surjection, NamesOf
<1>3. Len(parts) = n /\ IsFiniteSet(1..n) /\ Cardinality(1..n) = n
  BY <1>1, FS_Interval, LenProperties
<1>4. f \in Injection(1..n, NamesOf(parts))
  BY <1>2, <1>3, FS_SurjSameCardinalityImpliesInj
<1>5. \A i, j \in 1..n : parts[i].name = parts[j].name => i = j
  BY <1>4 DEF Injection, IsInjective
<1>. QED
  BY <1>1, <1>5 DEF Inspections

LEMMA TakeoutHolds == TakeoutInv => CompleteIsIntact /\ BundleHasManifest
<1>. SUFFICES ASSUME TakeoutInv PROVE CompleteIsIntact /\ BundleHasManifest
  OBVIOUS
<1>1. \A parts, omissions : LET b == BundleOf(parts, omissions) IN
        /\ b.parts = parts /\ b.omissions = omissions /\ b.integrity = IntegrityPass(parts)
        /\ b.complete = "COMPLETE" => MissingParts(parts) = {}
  BY DEF BundleOf
<1>2. BundleHasManifest
  <2>1. \A b \in bundles : [key |-> <<b.parts, b.omissions>>, state |-> "whole"] \in manifests
    <3>. SUFFICES ASSUME NEW b \in bundles PROVE [key |-> <<b.parts, b.omissions>>, state |-> "whole"] \in manifests
      OBVIOUS
    <3>1. PICK parts \in PartLists, omissions \in BOOLEAN :
            b = BundleOf(parts, omissions) /\ [key |-> <<parts, omissions>>, state |-> "whole"] \in manifests
      BY DEF TakeoutInv, BundlesAreBuilt
    <3>2. b.parts = parts /\ b.omissions = omissions
      BY <1>1, <3>1
    <3>. QED
      BY <3>1, <3>2
  <2>. QED
    BY <2>1 DEF TakeoutInv, PartialIsInWork, BundleHasManifest
<1>3. ASSUME NEW b \in bundles, b.complete = "COMPLETE", b.integrity, Cardinality(NamesOf(b.parts)) = Len(b.parts),
             NEW n \in ExpectedParts
      PROVE  \E i \in DOMAIN b.parts : b.parts[i] = [name |-> n, good |-> TRUE]
  <2>1. PICK parts \in PartLists, omissions \in BOOLEAN : b = BundleOf(parts, omissions)
    BY DEF TakeoutInv, BundlesAreBuilt
  <2>2. b.parts = parts /\ IntegrityPass(parts) /\ MissingParts(parts) = {}
    BY <1>1, <1>3, <2>1
  <2>3. \A i \in DOMAIN parts : parts[i].good
    BY <1>3, <2>2, NamesOnce DEF IntegrityPass
  <2>4. PICK i \in DOMAIN parts : parts[i].name = n
    BY <2>2 DEF MissingParts, NamesOf
  <2>5. parts[i] \in Parts
    <3>1. PICK k \in 0..MaxParts : parts \in [1..k -> Parts]
      BY DEF PartLists
    <3>. QED
      BY <2>4, <3>1
  <2>6. parts[i] = [name |-> n, good |-> TRUE]
    BY <2>3, <2>4, <2>5 DEF Parts
  <2>. QED
    BY <2>2, <2>4, <2>6
<1>. QED
  BY <1>2, <1>3 DEF CompleteIsIntact

-------------------------------------------------------------------------------
(* The suite: a behaviour of it is, for each component, one of that component. *)

suiteVars == <<focus, workVars, evidenceSide, recordVars>>

LEMMA SuiteFrame ==
  ASSUME [Next]_suiteVars
  PROVE  /\ [AdvanceNext]_advanceVars /\ [CoreNext]_coreVars /\ [ImportNext]_importVars /\ UNCHANGED focus
         /\ [KernelNext]_kernelVars /\ [AuthorityNext]_authorityVars /\ [MirrorNext]_mirrorVars
         /\ [GovernorNext]_governorVars /\ [AttestNext]_attestVars /\ [ProtectionNext]_protectionVars
         /\ [PromotionNext]_promotionVars /\ [EvolutionNext]_evolutionVars /\ [EvidenceGateNext]_gateVars
         /\ [EvidenceNext]_evidenceVars /\ [RecoveryNext]_recoveryVars /\ [FleetNext]_fleetVars
         /\ [IngressNext]_ingressVars /\ [ExportNext]_storeSide /\ [StoreNext]_storeVars
<1>1. CASE UNCHANGED suiteVars
  BY <1>1 DEF suiteVars, workVars, evidenceSide, recordVars, exportVars, reviewVars
<1>2. CASE TasksRuns
  BY <1>2 DEF TasksRuns, evidenceSide, recordVars, exportVars, reviewVars
<1>3. CASE JobsRuns
  BY <1>3 DEF JobsRuns, evidenceSide, recordVars, exportVars, reviewVars
<1>4. CASE KernelRuns
  BY <1>4 DEF KernelRuns, evidenceSide, recordVars, exportVars, reviewVars
<1>5. CASE ObjectiveRuns
  BY <1>5 DEF ObjectiveRuns, AuthorityNext, evidenceSide, recordVars, exportVars, reviewVars
<1>6. CASE CallingRuns \/ PromotionRuns \/ EvolutionRuns
  BY <1>6 DEF CallingRuns, PromotionRuns, PromotionNext, EvolutionRuns, evidenceSide, recordVars, exportVars,
     reviewVars
<1>7. CASE MirrorRuns
  BY <1>7 DEF MirrorRuns, workVars, recordVars, exportVars, reviewVars
<1>8. CASE GovernorRuns
  BY <1>8 DEF GovernorRuns, workVars, recordVars, exportVars, reviewVars
<1>9. CASE BundleRuns \/ GateRuns \/ RecoveryRuns \/ CampaignRuns
  BY <1>9 DEF BundleRuns, GateRuns, EvidenceGateNext, RecoveryRuns, RecoveryNext, CampaignRuns, workVars, recordVars,
     exportVars, reviewVars
<1>10. CASE ExportRuns
  BY <1>10 DEF ExportRuns, ExportNext, ImportNext, workVars, recordVars, reviewVars
<1>11. CASE StoreRuns
  BY <1>11 DEF StoreRuns, workVars, evidenceSide, exportVars, reviewVars
<1>12. CASE ReviewRuns
  BY <1>12 DEF ReviewRuns, FleetNext, AttestNext, ProtectionNext, workVars, evidenceSide, exportVars
<1>. QED
  BY <1>1, <1>2, <1>3, <1>4, <1>5, <1>6, <1>7, <1>8, <1>9, <1>10, <1>11, <1>12 DEF Next

\* What processes that overlap or die can repeat, fork or strand is bounded.
\* process_next takes a queued job and runs it before it says so: a job runs at
\* most once per engine and once more for each death.  The audit log reads the
\* last hash before it appends: a record has no more successors than there are
\* engines.  A task is in work and in nobody's hands only after a death, and an
\* import that nobody disturbed passes verify_chatgpt_import.
THEOREM HarmStaysBounded == Spec => []HarmIsBounded
<1>1. Init => AdvanceInv /\ CoreInv /\ ImportInv
  BY AdvanceStart, CoreStart, ImportStart DEF Init
<1>2. (AdvanceInv /\ CoreInv /\ ImportInv) /\ [Next]_suiteVars => (AdvanceInv /\ CoreInv /\ ImportInv)'
  BY SuiteFrame, AdvanceStep, CoreStep, ImportSteps
<1>3. AdvanceInv /\ CoreInv /\ ImportInv => HarmIsBounded
  BY CoreHolds DEF HarmIsBounded, In, AdvanceInv, ImportInv, WroteWhole, FailedByOthersOnly
<1>. QED
  BY <1>1, <1>2, <1>3, PTL DEF Spec, suiteVars

\* Nothing goes ahead on an authority of its own making: a task an adapter
\* proposed waits for a run that authorizes; a task runs under an evaluation of an
\* owner's proposal; a marker, a relied-on row, a promotion, a candidate and a
\* release each had the entry, the grant, the hands, the MetaPolicy and the root
\* that let them through; the reconciler never takes protection off.
THEOREM AuthorityIsGiven == Spec => []AuthorityIsNotSelfMade
<1>. DEFINE Inv == AdvanceInv /\ StoreInv /\ KernelInv /\ MirrorInv /\ GovernorInv /\ AttestInv /\ ProtectionInv
<1>1. Init => Inv
  BY AdvanceStart, AuthorityStart, KernelStart, MirrorStart, GovernorStart, AttestStart, ProtectionStart
  DEF Init, AgentReviewInit
<1>2. Inv /\ [Next]_suiteVars => Inv'
  BY SuiteFrame, AdvanceStep, StoreStep, KernelStep, MirrorStep, GovernorStep, AttestStep, ProtectionStep
<1>3. Inv => AuthorityIsNotSelfMade
  <2>. SUFFICES ASSUME Inv PROVE AuthorityIsNotSelfMade
    OBVIOUS
  <2>1. RunsAreAuthorized /\ CurrentIsTraceable /\ MarkerBacked /\ RevocationReachesRelease /\ RevocationReachesAll
    BY StoreHolds, KernelHolds, AttestHolds
  <2>2. AuthorityRespected /\ ReliedWasAllowed /\ GovernorIsSubordinate /\ OnlyEditsUnprotect
    BY DEF AdvanceInv, MirrorInv, GovernorInv, ProtectionInv
  <2>. QED
    BY <2>1, <2>2, ThreeHands DEF AuthorityIsNotSelfMade, In
<1>. QED
  BY <1>1, <1>2, <1>3, PTL DEF Spec, suiteVars

\* Nothing is called complete, promoted, applied, evolved, eligible or persistent
\* that the evidence it stands on does not show: the advance loop, the factory's
\* gates, the reconciler's read back, the improvement ledger, the audit of a patch,
\* the heartbeat after a boot, the verdicts of the campaign, the manifest of a
\* Takeout, verify_chatgpt_import, the review gate and the protection issue, each
\* for any processes and bounds, as long as calls of the factory do not overlap.
THEOREM SuccessIsShown == ASSUME OneFactoryCall PROVE Spec => []SuccessIsEvidenced
<1>. DEFINE Inv == /\ AdvanceInv /\ FactoryInv /\ LedgersInv /\ EvolutionInv /\ GateInv /\ CampaignInv
                   /\ TakeoutInv /\ ImportInv /\ ReviewInv /\ ProtectionInv
<1>1. Init => Inv
  BY AdvanceStart, FactoryStart, LedgersStart, EvolutionStart, GateStart, CampaignStart, TakeoutStart, ImportStart,
     ReviewStart, ProtectionStart
  DEF Init, AgentReviewInit
<1>2. Inv /\ [Next]_suiteVars => Inv'
  BY OneFactoryCall, SuiteFrame, AdvanceStep, FactoryStep, LedgersStep, EvolutionStep, RebootStep, TripStep,
     CampaignStep,
     TakeoutStep, ImportSteps, ReviewStep, ProtectionStep
  DEF GateInv
<1>3. Inv => SuccessIsEvidenced
  <2>. SUFFICES ASSUME Inv PROVE SuccessIsEvidenced
    OBVIOUS
  <2>1. CompleteIsVerified /\ PassedImportIsWhole /\ ClosedOverProtected
    BY DEF AdvanceInv, ImportInv, ReadWhole, PassedImportIsWhole, ProtectionInv
  <2>2. PromotionIsEarned /\ LifecycleIsEvidenced /\ AppliedIsMirrored /\ EvolvedIsAudited /\ SavedIsEvidenced
    BY EvolutionHolds DEF FactoryInv, LedgersInv
  <2>3. EligibleAfterReboot /\ PersistentAfterReboot /\ CompleteIsIntact /\ RoutedAsCompared /\ RevalidatedIsCurrent
    BY GateHolds, TakeoutHolds, ReviewHolds DEF CampaignInv
  <2>. QED
    BY <2>1, <2>2, <2>3 DEF SuccessIsEvidenced, In
<1>. QED
  BY <1>1, <1>2, <1>3, PTL DEF Spec, suiteVars

\* Two processes, or a death in the middle, leave records that can be read again:
\* the event log replays, a commit of the kernel heals its marker, an ingest of the
\* object store that is repeated converges, the export store is damaged by a death
\* only, a Takeout's bundle has its manifest, SQLite files are harmed by overlapping
\* restorers only, the canonical store holds whole bundles with the contradictions
\* in them; for any processes and bounds, as long as one gateway takes requests in.
THEOREM RecordsStayReadable == ASSUME OneGateway PROVE Spec => []RecordsSurvive
<1>. DEFINE Inv == /\ AdvanceInv /\ LogInv /\ KernelInv /\ StoreInv /\ ExportInv /\ TakeoutInv /\ RestoreInv
                   /\ CanonicalInv
<1>1. Init => Inv
  BY AdvanceStart, LogStart, KernelStart, AuthorityStart, ExportStart, TakeoutStart, RestoreStart,
     CanonicalStart DEF Init
<1>2. Inv /\ [Next]_suiteVars => Inv'
  BY OneGateway, SuiteFrame, AdvanceStep, LogStep, KernelStep, StoreStep, ExportStep, TakeoutStep, DatabaseSteps,
     CanonicalStep
<1>3. Inv => RecordsSurvive
  <2>. SUFFICES ASSUME Inv PROVE RecordsSurvive
    OBVIOUS
  <2>1. LogReplayable /\ CommitHeals /\ DeployedImpliesSoftware /\ IngestConverges /\ DamageIsByDeath
    BY KernelHolds, StoreHolds, ExportHolds DEF LogInv
  <2>2. /\ BundleHasManifest /\ RestoreHarmIsByOverlap
        /\ BundlesAreWhole /\ ContradictionsAreTold /\ ProjectionIsOfBundles
    BY TakeoutHolds, CanonicalHolds DEF RestoreInv
  <2>. QED
    BY <2>1, <2>2 DEF RecordsSurvive, In
<1>. QED
  BY <1>1, <1>2, <1>3, PTL DEF Spec, suiteVars

\* A name stands for one content, the one it was given for: a task is answered to
\* calls of its own content, the receipt of a round trip is of one content, that of an
\* export names an object that has its bytes, a transcript is the branch of its
\* conversation's current node, an acquired file is what was sent, and what the
\* canonical store accepted stays as it was; for any processes, contents and bounds.
THEOREM NamesStayTrue == Spec => []NamesKeepTheirContent
<1>. DEFINE Inv == CallsInv /\ GateInv /\ ExportInv /\ DownloadInv /\ CanonicalInv
<1>1. Init => Inv
  BY CallsStart, GateStart, ExportStart, DownloadStart, CanonicalStart DEF Init
<1>2. Inv /\ [Next]_suiteVars => Inv'
  BY SuiteFrame, CallsStep, RebootStep, TripStep, ExportStep, DownloadSteps, CanonicalStep DEF GateInv
<1>3. Inv => NamesKeepTheirContent
  <2>. SUFFICES ASSUME Inv PROVE NamesKeepTheirContent
    OBVIOUS
  <2>1. AnsweredWithTheirTask /\ ReceiptNamesOneContent /\ ReceiptHasObject /\ SourceBoundOnce
    BY GateHolds, ExportHolds DEF CallsInv
  <2>2. TranscriptIsSelectedBranch /\ AcquiredIsWhatWasSent /\ AcceptedIsKept
    BY BranchIsSelected, CanonicalHolds DEF DownloadInv
  <2>. QED
    BY <2>1, <2>2 DEF NamesKeepTheirContent, In
<1>. QED
  BY <1>1, <1>2, <1>3, PTL DEF Spec, suiteVars

\* advance completes a task only when the job it enqueued was verified, and puts a
\* task an adapter proposed to work only in a run that authorizes, by whichever
\* rounds, gateways and readers of the document and with whatever deaths.
THEOREM TasksAreVerified == AdvanceSpec => [](CompleteIsVerified /\ AuthorityRespected)
<1>1. AdvanceInv => CompleteIsVerified /\ AuthorityRespected
  BY DEF AdvanceInv
<1>. QED
  BY <1>1, AdvanceStart, AdvanceStep, PTL DEF AdvanceSpec

\* The event log replays, and so its process restarts (replay raises on a second
\* TASK_CREATED and on an event of an unknown task), as long as one gateway takes
\* requests in: it looks for the task before its two appends, with no lock.
THEOREM LogStaysReplayable == ASSUME OneGateway PROVE AdvanceSpec => []LogReplayable
<1>1. LogInv => LogReplayable
  BY DEF LogInv
<1>2. AdvanceInv /\ LogInv /\ [AdvanceNext]_advanceVars => (AdvanceInv /\ LogInv)'
  BY AdvanceStep, LogStep, OneGateway
<1>. QED
  BY <1>1, <1>2, AdvanceStart, LogStart, PTL DEF AdvanceSpec

\* verify_chatgpt_import passes only what is whole: a transcript that was missing
\* or tampered with when it began has been written again since.
THEOREM ImportsPassedAreWhole == ImportInit /\ [][ImportNext]_importVars => []PassedImportIsWhole
<1>1. ImportInv => PassedImportIsWhole
  BY DEF ImportInv, ReadWhole, PassedImportIsWhole
<1>. QED
  BY <1>1, ImportStart, ImportSteps, PTL
===============================================================================
