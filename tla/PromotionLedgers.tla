--------------------------- MODULE PromotionLedgers ---------------------------
(***************************************************************************)
(* Three ledgers that promote by evidence: the capability factory, whose   *)
(* gate evidence belongs to one candidate identity; the control-plane      *)
(* reconciliation ledger; and the lifecycle of the improvement controller. *)
(* The factory's calls read a row in autocommit mode and write it later.   *)
(***************************************************************************)
EXTENDS Naturals, FiniteSets, Sequences, SequencesExt

CONSTANTS Candidates,    \* identities under which the capability is discovered
          OtherGates,    \* mandatory gates beside the three that the decision singles out
          FactoryCalls,  \* processes that call the factory
          Snapshots,     \* control-plane snapshots, as names
          DesiredOf, ObservedOf, \* for each what it wants and what it saw: key -> value
          Readbacks,     \* what a readback after a write may see
          RequiredEvidence,      \* for each lifecycle stage after the first, what it requires
          Work           \* work candidates: name -> [needs, gives, blocked, score]

Required == {"provider_deployment_exists", "health_200", "source_hash_match"} \union OtherGates
Structural == <<"DISCOVERED", "WRAPPED", "BUILDABLE", "TESTED", "DEPLOYED">>
Ordered == Structural \o <<"REACHABLE", "CHATGPT_CALLABLE_VERIFIED", "PROMOTED">>
Stages == ToSet(Ordered) \union {"BLOCKED", "QUARANTINED", "DEMOTED"}

VARIABLES candidate,  \* the row of the capability: identity and stage
          gate,       \* for each identity the recorded gates: "pass", "fail" or "none"
          factory,    \* the call of each process: what it read
          earned,     \* identities all of whose gates have been passed at some time
          snapshot,   \* state of each snapshot
          mirrored,     \* last snapshot and what its readback saw
          completed, evidence, lifecycle \* CanonicalImprovementState

promotionVars == <<candidate, gate, factory, earned, snapshot, mirrored, completed, evidence, lifecycle>>
improvementVars == <<completed, evidence, lifecycle>>
reconcileVars == <<snapshot, mirrored>>
factoryVars == <<candidate, gate, factory, earned>>

NoCall == [op |-> "idle", identity |-> "none", stage |-> "DISCOVERED"]

PromotionTypeOK ==
  /\ candidate \in [identity : Candidates \union {"none"}, stage : Stages]
  /\ gate \in [Candidates -> [Required -> {"none", "pass", "fail"}]]
  /\ factory \in [FactoryCalls -> [op : {"idle", "discover", "stage", "gate"},
                                   identity : Candidates \union {"none"}, stage : Stages]]
  /\ earned \subseteq Candidates
  /\ snapshot \in [Snapshots -> {"absent", "PENDING", "APPLIED", "DIVERGED"}]
  /\ completed \subseteq DOMAIN Work
  /\ lifecycle \in 0..Len(RequiredEvidence)

PromotionInit ==
  /\ candidate = [identity |-> "none", stage |-> "DISCOVERED"]
  /\ gate = [i \in Candidates |-> [g \in Required |-> "none"]]
  /\ factory = [f \in FactoryCalls |-> NoCall]
  /\ earned = {}
  /\ snapshot = [s \in Snapshots |-> "absent"] /\ mirrored = <<>>
  /\ completed = {} /\ evidence = {} /\ lifecycle = 0

-------------------------------------------------------------------------------
(* CapabilityFactoryLedger.                                                 *)

\* Mutant: the stage survives a change of identity.
DiscoverKeepsStage(f, i) ==
  /\ factory[f].op = "idle" /\ candidate.identity # i
  /\ factory' = [factory EXCEPT ![f] = [op |-> "discover", identity |-> i, stage |-> candidate.stage]]
  /\ UNCHANGED <<candidate, gate, earned, reconcileVars, improvementVars>>

\* discover() of a new identity starts again at DISCOVERED; of the known one changes nothing.
DiscoverReads(f, i) ==
  /\ factory[f].op = "idle" /\ candidate.identity # i
  /\ factory' = [factory EXCEPT ![f] = [op |-> "discover", identity |-> i, stage |-> "DISCOVERED"]]
  /\ UNCHANGED <<candidate, gate, earned, reconcileVars, improvementVars>>

DiscoverWrites(f) ==
  /\ factory[f].op = "discover"
  /\ candidate' = [identity |-> factory[f].identity, stage |-> factory[f].stage]
  /\ factory' = [factory EXCEPT ![f] = NoCall]
  /\ UNCHANGED <<gate, earned, reconcileVars, improvementVars>>

\* advance_structural: one stage up, no further than DEPLOYED.
AdvanceStructural(f) ==
  /\ factory[f].op = "idle" /\ candidate.identity # "none"
  /\ \E n \in 1..(Len(Structural) - 1) :
       /\ candidate.stage = Structural[n]
       /\ factory' = [factory EXCEPT ![f] =
            [op |-> "stage", identity |-> candidate.identity, stage |-> Structural[n + 1]]]
  /\ UNCHANGED <<candidate, gate, earned, reconcileVars, improvementVars>>

\* record_gate reads the identity, then stores the evidence under it.
GateReads(f) ==
  /\ factory[f].op = "idle" /\ candidate.identity # "none"
  /\ factory' = [factory EXCEPT ![f] = [NoCall EXCEPT !.op = "gate", !.identity = candidate.identity]]
  /\ UNCHANGED <<candidate, gate, earned, reconcileVars, improvementVars>>

GateWrites(f, g, passed) ==
  /\ factory[f].op = "gate"
  /\ LET i == factory[f].identity IN
       /\ gate' = [gate EXCEPT ![i][g] = IF passed THEN "pass" ELSE "fail"]
       /\ earned' = IF \A h \in Required : gate'[i][h] = "pass" THEN earned \union {i} ELSE earned
  /\ factory' = [factory EXCEPT ![f] = NoCall]
  /\ UNCHANGED <<candidate, reconcileVars, improvementVars>>

\* evaluate(): the stage that the gates of an identity call for.
NewStage(previous, seen) ==
  CASE \A g \in Required : seen[g] = "pass" -> "PROMOTED"
    [] (\E g \in Required : seen[g] # "pass") /\ previous = "PROMOTED" -> "DEMOTED"
    [] OTHER ->
         IF seen["source_hash_match"] = "fail" THEN "QUARANTINED"
         ELSE IF seen["provider_deployment_exists"] = "fail" THEN "BLOCKED"
         ELSE IF seen["health_200"] = "pass" /\ seen["provider_deployment_exists"] = "pass"
              THEN "REACHABLE" ELSE previous

EvaluateReads(f) ==
  /\ factory[f].op = "idle" /\ candidate.identity # "none"
  /\ factory' = [factory EXCEPT ![f] =
       [op |-> "stage", identity |-> candidate.identity,
        stage |-> NewStage(candidate.stage, gate[candidate.identity])]]
  /\ UNCHANGED <<candidate, gate, earned, reconcileVars, improvementVars>>

\* _set_stage updates by capability_id: the identity that was read is not compared.
SetStage(f) ==
  /\ factory[f].op = "stage"
  /\ candidate' = [candidate EXCEPT !.stage = factory[f].stage]
  /\ factory' = [factory EXCEPT ![f] = NoCall]
  /\ UNCHANGED <<gate, earned, reconcileVars, improvementVars>>

FactoryDies(f) ==
  /\ factory[f].op # "idle"
  /\ factory' = [factory EXCEPT ![f] = NoCall]
  /\ UNCHANGED <<candidate, gate, earned, reconcileVars, improvementVars>>

FactoryNext ==
  \E f \in FactoryCalls :
    \/ \E i \in Candidates : DiscoverReads(f, i)
    \/ DiscoverWrites(f) \/ AdvanceStructural(f) \/ EvaluateReads(f) \/ SetStage(f)
    \/ GateReads(f) \/ (\E g \in Required, passed \in BOOLEAN : GateWrites(f, g, passed))
    \/ FactoryDies(f)

-------------------------------------------------------------------------------
(* ReconciliationLedger.                                                    *)

\* _diff: the desired keys that the observation lacks or has otherwise.
Diff(observed, desired) ==
  {k \in DOMAIN desired : k \notin DOMAIN observed \/ (k \in DOMAIN observed /\ observed[k] # desired[k])}

\* evaluate() replaces the row, also one that mark_applied has settled.
EvaluateSnapshot(s) ==
  /\ snapshot' = [snapshot EXCEPT ![s] =
       IF Diff(ObservedOf[s], DesiredOf[s]) = {} THEN "APPLIED" ELSE "PENDING"]
  /\ UNCHANGED <<mirrored, factoryVars, improvementVars>>

\* Mutant: the write is taken as applied without looking at the readback.
MarkWithoutReadback(s, after) ==
  /\ snapshot' = [snapshot EXCEPT ![s] = IF @ = "absent" THEN "absent" ELSE "APPLIED"]
  /\ mirrored' = <<s, after>>
  /\ UNCHANGED <<factoryVars, improvementVars>>

\* mark_applied() updates a row if there is one, and always the mirror.
MarkApplied(s, after) ==
  /\ snapshot' = [snapshot EXCEPT ![s] =
       IF @ = "absent" THEN "absent"
       ELSE IF Diff(after, DesiredOf[s]) = {} THEN "APPLIED" ELSE "DIVERGED"]
  /\ mirrored' = <<s, after>>
  /\ UNCHANGED <<factoryVars, improvementVars>>

ReconcileNext ==
  \E s \in Snapshots : EvaluateSnapshot(s) \/ \E after \in Readbacks : MarkApplied(s, after)

-------------------------------------------------------------------------------
(* ImprovementController: the best unblocked candidate whose dependencies   *)
(* are complete, and a lifecycle that moves one stage at a time.            *)

Eligible == {w \in DOMAIN Work \ completed : ~Work[w].blocked /\ Work[w].needs \subseteq completed}

RecordCompleted ==
  /\ \E w \in Eligible :
       /\ \A v \in Eligible : Work[v].score <= Work[w].score
       /\ completed' = completed \union {w}
       /\ evidence' = evidence \union Work[w].gives
  /\ UNCHANGED <<lifecycle, factoryVars, reconcileVars>>

\* Mutant: the evidence of the present stage is enough for the next.
PromoteOnPresent ==
  /\ lifecycle < Len(RequiredEvidence)
  /\ lifecycle = 0 \/ (lifecycle > 0 /\ RequiredEvidence[lifecycle] \subseteq evidence)
  /\ lifecycle' = lifecycle + 1
  /\ UNCHANGED <<completed, evidence, factoryVars, reconcileVars>>

AttemptPromotion ==
  /\ lifecycle < Len(RequiredEvidence) /\ RequiredEvidence[lifecycle + 1] \subseteq evidence
  /\ lifecycle' = lifecycle + 1
  /\ UNCHANGED <<completed, evidence, factoryVars, reconcileVars>>

ImprovementNext == RecordCompleted \/ AttemptPromotion

PromotionNext == FactoryNext \/ ReconcileNext \/ ImprovementNext
PromotionSpec == PromotionInit /\ [][PromotionNext]_promotionVars

-------------------------------------------------------------------------------
\* A capability is promoted only under an identity that has passed every
\* mandatory gate itself: evidence is not inherited across new bytes.
PromotionIsEarned == candidate.stage = "PROMOTED" => candidate.identity \in earned

\* A mirror that the ledger calls applied held what its snapshot desires when
\* it was last read, unless the snapshot was evaluated again.
AppliedIsMirrored ==
  mirrored # <<>> /\ snapshot[mirrored[1]] = "APPLIED" /\ Diff(ObservedOf[mirrored[1]], DesiredOf[mirrored[1]]) # {}
    => Diff(mirrored[2], DesiredOf[mirrored[1]]) = {}

\* No lifecycle stage is reached without the evidence of every stage up to it.
LifecycleIsEvidenced == \A n \in 1..lifecycle : RequiredEvidence[n] \subseteq evidence
===============================================================================
