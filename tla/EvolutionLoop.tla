---------------------------- MODULE EvolutionLoop ----------------------------
(***************************************************************************)
(* Controlled evolution of the repository: scripts/controlled_evolution_   *)
(* loop.py under the boundary of controlled_evolution_hard.py, with the    *)
(* goal, selection and state of centinal26/evolution.py.  One cycle takes  *)
(* patches from an external proposer, tries each in a worktree of the      *)
(* promoted parent, and promotes at most one.  The process may die between *)
(* moving the branch, writing the cycle's evidence and saving its state.   *)
(***************************************************************************)
EXTENDS Naturals, FiniteSets, Sequences, SequencesExt, FiniteSetsExt

CONSTANTS Patches,      \* what the proposer may return; each is also the commit it becomes
          PatchOf,      \* for each: the paths it names, its content once applied, its validators
          Evaluators,   \* "host": validators run before the commit; "docker": after it
          PerCycle,     \* candidates_per_cycle
          MaxGeneration \* bound: cycles

ASSUME EvolutionAssumption ==
  /\ Evaluators \subseteq {"host", "docker"}
  /\ PerCycle \in Nat /\ MaxGeneration \in Nat

\* Validators and their weights, in hundredths.
Weight == [goal_tests |-> 70, repository_invariants |-> 20, compile |-> 10]
Score(passed) == MapThenSumSet(LAMBDA v : Weight[v], passed)
AllValidators == DOMAIN Weight

Base == "base" \* the commit the loop starts from
NoCandidate == [patch |-> "none", audited |-> "none", content |-> "none", passed |-> {},
                 commit |-> "none", rejected |-> TRUE]

VARIABLES evaluator,  \* which of the two entry points runs
          disk,       \* state.json: generation, active commit and branch, best score, status
          mem,        \* the process's copy, or what it had when it last ran
          evo,        \* where the cycle stands
          tried,      \* candidates of the cycle so far
          work,       \* the candidate in its worktree
          branches,   \* evolution branches: generation -> commit
          content,    \* commit -> the bytes it holds, with the paths and the audit they had
          cycleFiles, \* evidence files: <<generation, selected commit>>
          stalls      \* cycles since the active commit last changed

evolutionVars == <<evaluator, disk, mem, evo, tried, work, branches, content, cycleFiles, stalls>>

Fresh == [generation |-> 0, active |-> Base, branch |-> 0, best |-> 0, status |-> "ACTIVE",
          cycles |-> {}]

EvolutionTypeOK ==
  /\ evaluator \in Evaluators
  /\ \A s \in {disk, mem} :
       s.generation \in 0..MaxGeneration /\ s.active \in Patches \union {Base} /\ s.best \in 0..100
  /\ evo \in {"stopped", "ready", "proposing", "applied", "audited", "evaluated", "selecting",
              "branched", "evidenced", "saved"}
  /\ Len(tried) <= PerCycle
  /\ DOMAIN branches \subseteq 0..MaxGeneration
  /\ stalls \in 0..2

EvolutionInit ==
  /\ evaluator \in Evaluators
  /\ disk = Fresh /\ mem = Fresh
  /\ evo = "stopped" /\ tried = <<>> /\ work = NoCandidate
  /\ branches = <<>> /\ content = [c \in {Base} |-> [bytes |-> Base, audited |-> Base]]
  /\ cycleFiles = {} /\ stalls = 0

-------------------------------------------------------------------------------
\* main(): the state is loaded or created; a saved status does not stop a new run.
StartLoop ==
  /\ evo = "stopped" /\ disk.generation < MaxGeneration
  /\ mem' = disk /\ stalls' = 0
  /\ evo' = "ready" /\ tried' = <<>> /\ work' = NoCandidate
  /\ UNCHANGED <<evaluator, disk, branches, content, cycleFiles>>

\* The baseline: validators on a worktree of the parent.  A parent that passes
\* all of them ends the cycle.  The base commit passes only the last two.
BaselinePassed(c) == IF c = Base THEN {"repository_invariants", "compile"} ELSE PatchOf[c].passes

StartCycle ==
  /\ evo = "ready" /\ mem.generation < MaxGeneration
  /\ IF BaselinePassed(mem.active) = AllValidators
     THEN /\ mem' = [mem EXCEPT !.generation = @ + 1, !.best = 100, !.status = "GOAL_VALIDATED"]
          /\ evo' = "branched"
     ELSE evo' = "proposing" /\ UNCHANGED mem
  /\ UNCHANGED <<evaluator, disk, tried, work, branches, content, cycleFiles, stalls>>

\* permits_changed_path, patch_policy and the paths of the hard boundary.
PathsPermitted(paths) == paths \subseteq {"allowed"}
PatchPolicy(p) ==
  /\ PatchOf[p].names # {} /\ ~PatchOf[p].tooLargeOrBinary
  /\ IF evaluator = "docker" THEN PathsPermitted(PatchOf[p].names)
     ELSE PathsPermitted(PatchOf[p].names \ {"hard"})

Reject(p) ==
  /\ tried' = Append(tried, [NoCandidate EXCEPT !.patch = p])
  /\ evo' = "proposing" /\ work' = NoCandidate

\* goose returns a patch, or fails, which rejects the candidate.
Propose(p) ==
  /\ evo = "proposing" /\ Len(tried) < PerCycle
  /\ IF PatchPolicy(p) /\ PatchOf[p].applies /\ PatchOf[p].changes # {}
     THEN /\ work' = [NoCandidate EXCEPT !.patch = p, !.content = "patched"]
          /\ evo' = "applied" /\ UNCHANGED tried
     ELSE Reject(p)
  /\ UNCHANGED <<evaluator, disk, mem, branches, content, cycleFiles, stalls>>

ProposerFails ==
  /\ evo = "proposing" /\ Len(tried) < PerCycle
  /\ tried' = Append(tried, NoCandidate)
  /\ UNCHANGED <<evaluator, disk, mem, evo, work, branches, content, cycleFiles, stalls>>

\* The paths that really changed are checked again, then the static audit.
\* Under docker the audited tree is committed at once.
AuditCandidate ==
  /\ evo = "applied"
  /\ LET p == work.patch IN
     IF PathsPermitted(PatchOf[p].changes \ (IF evaluator = "host" THEN {"hard"} ELSE {}))
          /\ PatchOf[p].auditAllows
     THEN /\ work' = [work EXCEPT !.audited = work.content,
                                  !.commit = IF evaluator = "docker" THEN p ELSE "none"]
          /\ content' = IF evaluator = "docker"
                        THEN [c \in DOMAIN content \union {p} |->
                                IF c = p THEN [bytes |-> work.content, audited |-> work.content]
                                ELSE content[c]]
                        ELSE content
          /\ evo' = "audited" /\ UNCHANGED tried
     ELSE Reject(p) /\ UNCHANGED content
  /\ UNCHANGED <<evaluator, disk, mem, branches, cycleFiles, stalls>>

\* The validators run.  On the host they may write into the worktree; the
\* container has it read-only.  A sandbox that is unavailable ends the process.
RunValidators ==
  /\ evo = "audited"
  /\ work' = [work EXCEPT !.passed = PatchOf[work.patch].passes,
                          !.content = IF evaluator = "host" /\ PatchOf[work.patch].dirties
                                      THEN "written by a validator" ELSE @]
  /\ evo' = "evaluated"
  /\ UNCHANGED <<evaluator, disk, mem, tried, branches, content, cycleFiles, stalls>>

SandboxBlocked ==
  /\ evaluator = "docker" /\ evo \in {"ready", "audited"}
  /\ evo' = "stopped"
  /\ UNCHANGED <<evaluator, disk, mem, tried, work, branches, content, cycleFiles, stalls>>

\* Mutant: the worktree is not compared with its snapshot.
JudgeUnchecked ==
  /\ evo = "evaluated"
  /\ LET ok == work.passed = AllValidators
         c == IF ok THEN work.patch ELSE "none"
     IN  /\ content' = IF ok
                       THEN [x \in DOMAIN content \union {work.patch} |->
                               IF x = work.patch
                               THEN [bytes |-> work.content, audited |-> work.audited]
                               ELSE content[x]]
                       ELSE content
         /\ tried' = Append(tried, [work EXCEPT !.commit = c, !.rejected = ~ok])
  /\ evo' = "proposing" /\ work' = NoCandidate
  /\ UNCHANGED <<evaluator, disk, mem, branches, cycleFiles, stalls>>

\* The snapshot is compared; on the host the commit is made now.
JudgeCandidate ==
  /\ evo = "evaluated"
  /\ LET ok == work.passed = AllValidators /\ work.content = work.audited
         c == IF ok THEN work.patch ELSE "none"
     IN  /\ content' = IF ok /\ evaluator = "host"
                       THEN [x \in DOMAIN content \union {work.patch} |->
                               IF x = work.patch
                               THEN [bytes |-> work.content, audited |-> work.audited]
                               ELSE content[x]]
                       ELSE content
         /\ tried' = Append(tried, [work EXCEPT !.commit = c, !.rejected = ~ok])
  /\ evo' = "proposing" /\ work' = NoCandidate
  /\ UNCHANGED <<evaluator, disk, mem, branches, cycleFiles, stalls>>

\* select_candidate: the best score above the baseline, then the fewest paths,
\* then the greatest id.
Eligibles ==
  {i \in DOMAIN tried : /\ ~tried[i].rejected /\ tried[i].commit # "none"
                        /\ Score(tried[i].passed) > Score(BaselinePassed(mem.active))}
Better(i, k) ==
  LET paths(n) == Cardinality(PatchOf[tried[n].patch].changes) IN
  \/ Score(tried[i].passed) > Score(tried[k].passed)
  \/ /\ Score(tried[i].passed) = Score(tried[k].passed)
     /\ paths(i) < paths(k) \/ (paths(i) = paths(k) /\ i > k)

SelectCandidate ==
  /\ evo = "proposing" /\ Len(tried) = PerCycle
  /\ LET g == mem.generation + 1
         baseline == Score(BaselinePassed(mem.active))
         bestOf == IF mem.best > baseline THEN mem.best ELSE baseline
     IN  IF Eligibles = {}
         THEN /\ mem' = [mem EXCEPT !.generation = g, !.best = bestOf]
              /\ UNCHANGED branches
         ELSE \E i \in Eligibles :
                /\ \A k \in Eligibles \ {i} : Better(i, k)
                /\ branches' = [n \in DOMAIN branches \union {g} |->
                                  IF n = g THEN tried[i].commit ELSE branches[n]]
                /\ mem' = [mem EXCEPT !.generation = g, !.active = tried[i].commit, !.branch = g,
                                      !.best = Score(tried[i].passed),
                                      !.status = IF Score(tried[i].passed) = 100
                                                 THEN "GOAL_VALIDATED" ELSE @]
  /\ evo' = "branched" /\ tried' = <<>>
  /\ UNCHANGED <<evaluator, disk, work, content, cycleFiles, stalls>>

WriteCycle ==
  /\ evo = "branched"
  /\ cycleFiles' = cycleFiles \union {<<mem.generation, mem.active>>}
  /\ mem' = [mem EXCEPT !.cycles = @ \union {<<mem.generation, mem.active>>}]
  /\ evo' = "evidenced"
  /\ UNCHANGED <<evaluator, disk, tried, work, branches, content, stalls>>

\* Mutant: the state is saved before the cycle's evidence is written.
SaveOnly ==
  /\ evo \in {"branched", "evidenced"}
  /\ disk' = [mem EXCEPT !.cycles = @ \union {<<mem.generation, mem.active>>}]
  /\ stalls' = IF mem.active = disk.active THEN stalls + 1 ELSE 0
  /\ evo' = IF mem.status = "GOAL_VALIDATED" \/ stalls' = 2 THEN "stopped" ELSE "ready"
  /\ UNCHANGED <<evaluator, mem, tried, work, branches, content, cycleFiles>>

\* The state is saved; two cycles without a new commit stop the loop for review.
SaveState ==
  /\ evo = "evidenced"
  /\ stalls' = IF mem.active = disk.active THEN stalls + 1 ELSE 0
  /\ mem' = IF mem.status # "GOAL_VALIDATED" /\ stalls' = 2
            THEN [mem EXCEPT !.status = "STALLED_REVIEW_REQUIRED"] ELSE mem
  /\ disk' = mem'
  /\ evo' = IF mem.status = "GOAL_VALIDATED" \/ stalls' = 2 THEN "stopped" ELSE "ready"
  /\ UNCHANGED <<evaluator, tried, work, branches, content, cycleFiles>>

LoopDies ==
  /\ evo # "stopped"
  /\ evo' = "stopped"
  /\ UNCHANGED <<evaluator, disk, mem, tried, work, branches, content, cycleFiles, stalls>>

EvolutionNext ==
  \/ StartLoop \/ StartCycle \/ ProposerFails \/ (\E p \in Patches : Propose(p))
  \/ AuditCandidate \/ RunValidators \/ SandboxBlocked \/ JudgeCandidate
  \/ SelectCandidate \/ WriteCycle \/ SaveState \/ LoopDies

EvolutionSpec == EvolutionInit /\ [][EvolutionNext]_evolutionVars

-------------------------------------------------------------------------------
\* The saved active commit holds the bytes that were audited, and those bytes
\* passed every validator: nothing a validator wrote and no partial improvement
\* is ever promoted.
EvolvedIsAudited ==
  disk.active # Base =>
    /\ content[disk.active].bytes = content[disk.active].audited
    /\ PatchOf[disk.active].passes = AllValidators /\ PatchOf[disk.active].auditAllows

\* Every cycle the saved state lists has its evidence file, and the branch the
\* state names points to the commit it names, wherever the process died.
SavedIsEvidenced ==
  /\ disk.cycles \subseteq cycleFiles
  /\ disk.branch # 0 => disk.branch \in DOMAIN branches

-------------------------------------------------------------------------------
(* The adaptive evolution governor (centinal26/evolution_kernel.py), as the  *)
(* capability evolution.evaluate_candidate of centinal26/future.py calls it: *)
(* an envelope is derived from a kernel policy that must respect the         *)
(* MetaPolicy, and a candidate is judged by both.  Scores are numbers on a   *)
(* small scale; the mutation budget, which no gate reads, is left out.       *)

CONSTANTS MetaPolicies, Policies, GovernedCandidates

Scale == 0..2
Merits ==
  [regression : Scale, fit : Scale, niche : Scale, recurrences : Scale, days : Scale, replications : Scale,
   advantage : Scale, cheapToSwitch : BOOLEAN, costlyToCoexist : BOOLEAN]

MetaPolicyType ==
  [minConfidence : Scale, minOccurrences : Scale, maxRisk : Scale, deterministic : BOOLEAN, rollback : BOOLEAN,
   schema : BOOLEAN, effects : BOOLEAN]
PolicyType ==
  [confidence : Scale, occurrences : Scale, depth : Scale, risk : Scale, tolerance : Scale, promotion : Scale,
   branch : Scale, recurrences : Scale, days : Scale, replications : Scale]
CandidateType ==
  [authorized : BOOLEAN, risk : Scale, confidence : Scale, occurrences : Scale, depth : Scale, rollback : BOOLEAN,
   tested : {"PASS", "FAIL", "none"}, schema : BOOLEAN, effects : BOOLEAN, merit : Merits]

ASSUME GovernorAssumption ==
  /\ MetaPolicies \subseteq MetaPolicyType /\ Policies \subseteq PolicyType
  /\ GovernedCandidates \subseteq CandidateType

VARIABLES meta,      \* the MetaPolicy in force
          policy,    \* the kernel policy of the capability
          applicant, \* the candidate that is evaluated
          decision,  \* the last decision on it
          barred     \* it was held up, and no clause of the MetaPolicy was loosened since

governorVars == <<meta, policy, applicant, decision, barred>>

Decisions == {"none", "ERROR", "REJECT_FROM_PROMOTION", "PROMOTE", "POLYMORPH", "SPECIATE"}

GovernorTypeOK ==
  /\ meta \in MetaPolicies /\ policy \in Policies /\ applicant \in GovernedCandidates
  /\ decision \in [outcome : Decisions, valid : BOOLEAN] /\ barred \in BOOLEAN

GovernorInit ==
  /\ meta \in MetaPolicies /\ policy \in Policies /\ applicant \in GovernedCandidates
  /\ decision = [outcome |-> "none", valid |-> FALSE] /\ barred = FALSE

\* Every clause of m is at least as strict as that of n.
AsStrict(m, n) ==
  /\ m.minConfidence >= n.minConfidence /\ m.minOccurrences >= n.minOccurrences /\ m.maxRisk <= n.maxRisk
  /\ n.deterministic => m.deterministic
  /\ n.rollback => m.rollback
  /\ m.schema => n.schema
  /\ m.effects => n.effects

\* The owner sets another MetaPolicy.
SetMetaPolicy(m) ==
  /\ m # meta /\ meta' = m
  /\ decision' = [outcome |-> "none", valid |-> FALSE]
  /\ barred' = (barred /\ AsStrict(m, meta))
  /\ UNCHANGED <<policy, applicant>>

\* Mutant: risk is left to the kernel policy.
RespectsFloors(p, m) == p.confidence >= m.minConfidence /\ p.occurrences >= m.minOccurrences

\* EvolutionKernelPolicy.respects
Respects(p, m) ==
  /\ p.confidence >= m.minConfidence /\ p.occurrences >= m.minOccurrences /\ p.risk <= m.maxRisk

\* constitutional_gate: the order of its reasons does not matter to the outcome.
GatePasses(c, p, m) ==
  /\ c.authorized /\ c.tested # "FAIL"
  /\ m.deterministic => c.tested = "PASS"
  /\ m.rollback => c.rollback
  /\ c.schema => m.schema
  /\ c.effects => m.effects
  /\ c.confidence >= p.confidence /\ c.occurrences >= p.occurrences /\ c.depth >= p.depth /\ c.risk <= p.risk

Compatible(c, p) == c.merit.regression <= p.tolerance

PersistentNiche(c, p) ==
  /\ c.merit.recurrences >= p.recurrences /\ c.merit.days >= p.days /\ c.merit.replications >= p.replications
  /\ c.merit.advantage >= p.branch

\* govern_candidate, past the gate.
Outcome(c, p) ==
  LET niche == PersistentNiche(c, p) /\ c.merit.niche >= p.branch IN
  IF Compatible(c, p) /\ c.merit.fit >= p.promotion THEN "PROMOTE"
  ELSE IF Compatible(c, p) /\ niche /\ c.merit.cheapToSwitch THEN "POLYMORPH"
  ELSE IF ~Compatible(c, p) /\ niche /\ c.merit.costlyToCoexist THEN "SPECIATE"
  ELSE "REJECT_FROM_PROMOTION"

\* compute_envelope raises for a policy that loosens the MetaPolicy.
Decision ==
  LET passes == GatePasses(applicant, policy, meta) IN
  IF ~Respects(policy, meta) THEN [outcome |-> "ERROR", valid |-> FALSE]
  ELSE [outcome |-> IF passes THEN Outcome(applicant, policy) ELSE "REJECT_FROM_PROMOTION", valid |-> passes]

EvaluateCandidate ==
  /\ decision' = Decision
  /\ barred' = (barred \/ ~Decision.valid)
  /\ UNCHANGED <<meta, policy, applicant>>

GovernorNext == EvaluateCandidate \/ \E m \in MetaPolicies : SetMetaPolicy(m)

-------------------------------------------------------------------------------
\* The governor is subordinate: what it lets into promotion is within every
\* clause of the MetaPolicy in force, whatever the kernel policy says; and a
\* candidate that was held up is not let through by stricter MetaPolicies.
GovernorIsSubordinate ==
  decision.valid =>
    /\ applicant.confidence >= meta.minConfidence /\ applicant.occurrences >= meta.minOccurrences
    /\ applicant.risk <= meta.maxRisk
    /\ ~barred
===============================================================================
