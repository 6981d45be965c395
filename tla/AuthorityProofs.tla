---------------------------- MODULE AuthorityProofs ----------------------------
(***************************************************************************)
(* Proofs about the components of MCGovernedWork that grant authority or   *)
(* rely on one (kernel, mirror, bundle, governor, attestation, branch      *)
(* protection, object store), promote or review (capability ledgers,       *)
(* evolution, agent review) or keep records (calls from outside,           *)
(* downloads, restores, exports, the canonical store, the branch of a      *)
(* conversation), for any sets of processes and documents and any bounds:  *)
(* each has an inductive invariant its steps preserve, and                 *)
(* GovernedWorkProofs puts them together for the suite.                    *)
(***************************************************************************)
EXTENDS MCGovernedWork, NaturalLemmas, SequenceTheorems, TLAPS

-------------------------------------------------------------------------------
(* The persistent kernel.                                                   *)

Entries == [release : Releases, checks : SUBSET Qualified, ctx : Contexts, status : KStatuses]

KernelShape ==
  /\ kLedger \in Seq(Entries) /\ torn \in BOOLEAN /\ whole \in BOOLEAN
  /\ kState \in States /\ sidecar \in Nat /\ marker \in Nat
  /\ commit \in [pc : {"idle", "appended", "stated", "summed"}, obj : States]

\* A ledger entry whose checks are all passed is of a context that is allowed.
GoalsAreAllowed == \A i \in DOMAIN kLedger : Goal(kLedger[i].checks) => Allowed(kLedger[i].ctx)

\* What a state object says agrees with itself.
Coherent(obj) ==
  /\ (obj.status = "PROJECT_GOAL_REACHED") <=> Goal(obj.checks)
  /\ ("security_policy_ok" \in obj.checks) <=> obj.allowed

\* The commit under way is of the last entry of the ledger.
CommitOfLast ==
  commit.pc # "idle" =>
    /\ Coherent(commit.obj) /\ commit.obj.head = Len(kLedger) /\ commit.obj.head \in DOMAIN kLedger
    /\ commit.obj.checks = kLedger[commit.obj.head].checks

\* How far it has come.
CommitWritten ==
  /\ commit.pc \in {"stated", "summed"} => kState = commit.obj
  /\ commit.pc = "summed" => sidecar = commit.obj.gen

KernelInv ==
  KernelShape /\ GoalsAreAllowed /\ Coherent(kState) /\ CommitOfLast /\ CommitWritten /\ MarkerBacked /\ CommitHeals

LEMMA KernelStart == KernelInit => KernelInv
<1>. SUFFICES ASSUME KernelInit PROVE KernelInv
  OBVIOUS
<1>1. NoState \in States /\ NoCommit \in [pc : {"idle", "appended", "stated", "summed"}, obj : States]
  BY DEF NoState, NoCommit, States, KStatuses
<1>2. KernelShape
  <2>1. <<>> \in Seq(Entries)
    OBVIOUS
  <2>. QED
    BY <1>1, <2>1 DEF KernelInit, KernelShape
<1>3. ~Goal({}) /\ "security_policy_ok" \notin {}
  BY DEF Goal, Qualified, DeploymentRequired, SoftwareRequired
<1>4. Coherent(kState) /\ kLedger = <<>> /\ Len(kLedger) = 0 /\ DOMAIN kLedger = {}
  BY <1>3 DEF Coherent, KernelInit, NoState
<1>5. GoalsAreAllowed /\ CommitOfLast /\ CommitWritten /\ MarkerBacked
  BY <1>4 DEF GoalsAreAllowed, CommitOfLast, CommitWritten, MarkerBacked, KernelInit, NoCommit
<1>6. Problems = {}
  <2>1. /\ kState.gen = 0 /\ kState.head = 0 /\ kState.status = "UNQUALIFIED" /\ kState.checks = {} /\ ~kState.allowed
        /\ marker = 0
    BY DEF KernelInit, NoState
  <2>2. ~(kState.gen # 0 /\ sidecar # kState.gen) /\ ~(kState.head # Len(kLedger))
    BY <1>4, <2>1
  <2>3. ~((kState.status = "PROJECT_GOAL_REACHED") # Goal(kState.checks))
    BY <1>3, <2>1 DEF Goal
  <2>4. ~(Goal(kState.checks) # (marker # 0))
    BY <1>3, <2>1 DEF Goal
  <2>5. ~(("security_policy_ok" \in kState.checks) # kState.allowed)
    <3>1. ("security_policy_ok" \in kState.checks) = FALSE /\ kState.allowed = FALSE
      BY <2>1 DEF KernelInit, NoState
    <3>. QED
      BY <3>1
  <2>. QED
    BY <2>2, <2>3, <2>4, <2>5, Zenon DEF Problems
<1>. QED
  BY <1>2, <1>4, <1>5, <1>6 DEF KernelInv, CommitHeals

LEMMA LedgerGrows ==
  ASSUME KernelInv, NEW r \in Releases, NEW checks \in CheckSets, NEW ctx \in Contexts,
         AppendLedger(r, checks, ctx)
  PROVE  KernelInv'
<1>. DEFINE normal == Normalized(checks, ctx)
            status == Status(kState, normal)
            entry == [release |-> r, checks |-> normal, ctx |-> ctx, status |-> status]
            obj == [gen |-> kState.gen + 1, release |-> r, status |-> status,
                    checks |-> normal, allowed |-> Allowed(ctx), head |-> Len(kLedger) + 1]
<1>1. /\ commit.pc = "idle" /\ kLedger' = Append(kLedger, entry)
      /\ commit' = [pc |-> "appended", obj |-> obj]
      /\ UNCHANGED <<torn, kState, sidecar, marker, whole>>
  BY DEF AppendLedger
<1>2. normal \in SUBSET Qualified /\ ("security_policy_ok" \in normal <=> Allowed(ctx))
  BY KernelAssumption DEF Normalized, Qualified, DeploymentRequired, SoftwareRequired
<1>3. status \in KStatuses /\ (status = "PROJECT_GOAL_REACHED" <=> Goal(normal))
  BY DEF Status, KStatuses
<1>4. Goal(normal) => Allowed(ctx)
  BY <1>2 DEF Goal, Qualified, DeploymentRequired, SoftwareRequired
<1>5. Allowed(ctx) \in BOOLEAN /\ kState.gen + 1 \in Nat /\ kLedger \in Seq(Entries) /\ Len(kLedger) \in Nat
  BY DEF Allowed, KernelInv, KernelShape, States
<1>6. obj \in States /\ entry \in Entries
  BY <1>2, <1>3, <1>5 DEF States, Entries
<1>7. /\ kLedger' \in Seq(Entries) /\ Len(kLedger') = Len(kLedger) + 1 /\ DOMAIN kLedger' = 1..(Len(kLedger) + 1)
      /\ \A i \in DOMAIN kLedger : kLedger'[i] = kLedger[i]
      /\ kLedger'[Len(kLedger) + 1] = entry
  BY <1>1, <1>5, <1>6
<1>8. obj.checks = normal /\ obj.head = Len(kLedger) + 1 /\ obj.status = status /\ obj.allowed = Allowed(ctx)
      /\ entry.checks = normal /\ entry.ctx = ctx
  OBVIOUS
<1>. HIDE DEF normal, status, entry, obj
<1>9. KernelShape' /\ Coherent(obj) /\ commit'.obj = obj /\ commit'.pc = "appended"
  BY <1>1, <1>2, <1>3, <1>6, <1>7, <1>8 DEF KernelInv, KernelShape, Coherent
<1>10. GoalsAreAllowed'
  BY <1>4, <1>5, <1>7, <1>8 DEF KernelInv, GoalsAreAllowed
<1>11. CommitOfLast'
  <2>1. obj.head \in DOMAIN kLedger' /\ obj.checks = kLedger'[obj.head].checks /\ obj.head = Len(kLedger')
    BY <1>5, <1>7, <1>8
  <2>. QED
    BY <1>9, <2>1 DEF CommitOfLast, Coherent
<1>12. CommitWritten' /\ CommitHeals' /\ Coherent(kState)'
  BY <1>1, <1>9 DEF CommitWritten, CommitHeals, Coherent, KernelInv
<1>13. MarkerBacked'
  BY <1>1, <1>5, <1>7 DEF KernelInv, MarkerBacked
<1>. QED
  BY <1>9, <1>10, <1>11, <1>12, <1>13 DEF KernelInv

LEMMA WritesKeep ==
  ASSUME KernelInv, WriteState \/ WriteSidecar \/ PowerFails \/ AppendTears
  PROVE  KernelInv'
<1>. DEFINE Points == {"idle", "appended", "stated", "summed"}
<1>1. kLedger' = kLedger /\ marker' = marker
  BY DEF WriteState, WriteSidecar, PowerFails, AppendTears
<1>2. GoalsAreAllowed' /\ MarkerBacked'
  BY <1>1 DEF KernelInv, GoalsAreAllowed, MarkerBacked
<1>3. commit \in [pc : Points, obj : States]
  BY DEF KernelInv, KernelShape
<1>4. CASE WriteState \/ WriteSidecar
  <2>1. PICK pc \in {"stated", "summed"} : commit' = [commit EXCEPT !.pc = pc]
    BY <1>4 DEF WriteState, WriteSidecar
  <2>2. commit' \in [pc : Points, obj : States] /\ commit'.obj = commit.obj /\ commit'.pc = pc /\ commit.pc # "idle"
    BY <1>3, <1>4, <2>1 DEF WriteState, WriteSidecar
  <2>3. commit.obj \in States /\ commit.obj.gen \in Nat
    BY <1>3 DEF States
  <2>4. KernelShape' /\ CommitOfLast'
    BY <1>1, <1>4, <2>2, <2>3 DEF KernelInv, KernelShape, CommitOfLast, WriteState, WriteSidecar, Coherent
  <2>5. Coherent(kState)' /\ CommitHeals'
    BY <1>4, <2>2 DEF KernelInv, CommitOfLast, WriteState, WriteSidecar, Coherent, CommitHeals
  <2>6. CommitWritten'
    BY <1>3, <1>4, <2>2 DEF KernelInv, CommitWritten, WriteState, WriteSidecar
  <2>. QED
    BY <1>2, <2>4, <2>5, <2>6 DEF KernelInv
<1>5. CASE PowerFails \/ AppendTears
  <2>1. \/ commit' = NoCommit
        \/ commit' = commit /\ commit.pc = "idle"
    BY <1>5 DEF PowerFails, AppendTears
  <2>2. NoCommit \in [pc : Points, obj : States] /\ NoCommit.pc = "idle"
    BY DEF NoState, NoCommit, States, KStatuses
  <2>3. KernelShape' /\ Coherent(kState)'
    BY <1>5, <2>1, <2>2 DEF KernelInv, KernelShape, PowerFails, AppendTears, Coherent
  <2>4. CommitOfLast' /\ CommitWritten' /\ CommitHeals'
    BY <1>5, <2>1, <2>2 DEF CommitOfLast, CommitWritten, CommitHeals, PowerFails, AppendTears
  <2>. QED
    BY <1>2, <2>3, <2>4 DEF KernelInv
<1>. QED
  BY <1>4, <1>5

LEMMA MarkerFollows == ASSUME KernelInv, WriteMarker PROVE KernelInv'
<1>1. /\ commit.pc = "summed" /\ kState = commit.obj /\ sidecar = commit.obj.gen
      /\ commit.obj.head = Len(kLedger) /\ commit.obj.head \in DOMAIN kLedger
      /\ commit.obj.checks = kLedger[commit.obj.head].checks
  BY DEF KernelInv, CommitOfLast, CommitWritten, WriteMarker
<1>2. UNCHANGED <<kLedger, torn, kState, sidecar>> /\ commit' = NoCommit /\ whole' = TRUE
      /\ marker' = (IF Goal(commit.obj.checks) THEN commit.obj.head ELSE 0)
  BY DEF WriteMarker
<1>3. kLedger \in Seq(Entries) /\ commit.obj \in States /\ NoCommit.pc = "idle"
      /\ NoCommit \in [pc : {"idle", "appended", "stated", "summed"}, obj : States]
  BY DEF KernelInv, KernelShape, NoCommit, NoState, States, KStatuses
<1>4. commit.obj.head \in Nat /\ commit.obj.head # 0 /\ DOMAIN kLedger = 1..Len(kLedger)
  BY <1>1, <1>3
<1>5. (marker' # 0) <=> Goal(kState.checks)
  BY <1>1, <1>2, <1>4
<1>6. KernelShape' /\ Coherent(kState)' /\ GoalsAreAllowed' /\ CommitOfLast' /\ CommitWritten'
  BY <1>2, <1>3, <1>4 DEF KernelInv, KernelShape, Coherent, GoalsAreAllowed, CommitOfLast, CommitWritten
<1>7. MarkerBacked'
  BY <1>1, <1>2 DEF KernelInv, MarkerBacked, GoalsAreAllowed
<1>8. Problems' = {}
  <2>1. sidecar' = kState'.gen /\ kState'.head = Len(kLedger')
    BY <1>1, <1>2
  <2>2. /\ (kState'.status = "PROJECT_GOAL_REACHED") <=> Goal(kState'.checks)
        /\ ("security_policy_ok" \in kState'.checks) <=> kState'.allowed
        /\ Goal(kState'.checks) <=> marker' # 0
    BY <1>2, <1>5, <1>6 DEF Coherent
  <2>3. kState'.allowed \in BOOLEAN
    BY <1>6 DEF KernelShape, States
  <2>4. ~(kState'.gen # 0 /\ sidecar' # kState'.gen) /\ ~(kState'.head # Len(kLedger'))
    BY <2>1
  <2>5. ~((kState'.status = "PROJECT_GOAL_REACHED") # Goal(kState'.checks))
    BY <2>2 DEF Goal
  <2>6. ~(Goal(kState'.checks) # (marker' # 0))
    BY <2>2 DEF Goal
  <2>7. ~(("security_policy_ok" \in kState'.checks) # kState'.allowed)
    BY <2>2, <2>3
  <2>. QED
    BY <2>4, <2>5, <2>6, <2>7, Zenon DEF Problems
<1>. QED
  BY <1>6, <1>7, <1>8 DEF KernelInv, CommitHeals

LEMMA KernelStep == KernelInv /\ [KernelNext]_kernelVars => KernelInv'
<1>. SUFFICES ASSUME KernelInv, [KernelNext]_kernelVars PROVE KernelInv'
  OBVIOUS
<1>1. CASE UNCHANGED kernelVars
  BY <1>1 DEF kernelVars, KernelInv, KernelShape, GoalsAreAllowed, Coherent, CommitOfLast, CommitWritten,
              MarkerBacked,
              CommitHeals, Problems
<1>2. CASE \E r \in Releases, checks \in CheckSets, ctx \in Contexts : AppendLedger(r, checks, ctx)
  BY <1>2, LedgerGrows
<1>. QED
  BY <1>1, <1>2, WritesKeep, MarkerFollows DEF KernelNext

LEMMA KernelHolds == KernelInv => MarkerBacked /\ CommitHeals /\ DeployedImpliesSoftware
<1>. SUFFICES ASSUME KernelInv, NEW m \in Releases, DeployedComplete(m)
              PROVE  SoftwareComplete(m) /\ kState.status = "PROJECT_GOAL_REACHED"
  BY DEF KernelInv, DeployedImpliesSoftware
<1>. QED
  BY DEF DeployedComplete, SoftwareComplete, KernelInv, Coherent, Goal, Qualified, DeploymentRequired

-------------------------------------------------------------------------------
(* The mirror.                                                              *)

\* The log says of a decision what the authority decided, while nobody alters it.
LogIsOfAuthority ==
  \A i \in DOMAIN ledger \ altered :
    LET e == ledger[i] IN
    e.type = "DECISION_RECORDED" /\ e.decision # "deny" /\ e.granted => <<e.row, e.content, e.scope>> \in decided

MirrorInv == MirrorTypeOK /\ ledger \in Seq(Events) /\ LogIsOfAuthority /\ ReliedWasAllowed

LEMMA MirrorStart == MirrorInit => MirrorInv
<1>1. <<>> \in Seq(Events) /\ DOMAIN <<>> = {}
  OBVIOUS
<1>2. (CHOOSE r \in MirrorRows : TRUE) \in MirrorRows
  BY MirrorAssumption
<1>3. (CHOOSE c \in RowContents \ BadContents : TRUE) \in RowContents
      /\ (CHOOSE c \in RowContents : TRUE) \in RowContents
  BY MirrorAssumption
<1>4. NoMatter \in [open : BOOLEAN, row : MirrorRows, content : RowContents]
  BY <1>2, <1>3 DEF NoMatter
<1>5. MirrorInit => MirrorTypeOK
  BY <1>1, <1>3, <1>4 DEF MirrorInit, MirrorTypeOK
<1>. QED
  BY <1>1, <1>5 DEF MirrorInit, MirrorInv, LogIsOfAuthority, ReliedWasAllowed

LEMMA MirrorStep == MirrorInv /\ [MirrorNext]_mirrorVars => MirrorInv'
<1>. SUFFICES ASSUME MirrorInv, [MirrorNext]_mirrorVars PROVE MirrorInv'
  OBVIOUS
<1>. USE DEF MirrorInv, ReliedWasAllowed
<1>1. CASE UNCHANGED mirrorVars
  BY <1>1 DEF mirrorVars, LogIsOfAuthority, MirrorTypeOK
<1>2. ASSUME NEW r \in MirrorRows, NEW c \in RowContents, ConsiderRow(r) \/ EditRow(r, c) PROVE MirrorInv'
  <2>1. UNCHANGED <<ledger, altered, decided, relied>>
    BY <1>2 DEF ConsiderRow, EditRow
  <2>2. LogIsOfAuthority'
    BY <2>1 DEF LogIsOfAuthority
  <2>3. mirror' \in [MirrorRows -> RowContents]
    BY <1>2 DEF ConsiderRow, EditRow, MirrorTypeOK
  <2>4. authority' \in [open : BOOLEAN, row : MirrorRows, content : RowContents]
    <3>1. mirror[r] \in RowContents /\ authority \in [open : BOOLEAN, row : MirrorRows, content : RowContents]
      BY DEF MirrorTypeOK
    <3>2. [open |-> TRUE, row |-> r, content |-> mirror[r]]
           \in [open : BOOLEAN, row : MirrorRows, content : RowContents]
      BY <3>1
    <3>3. authority' \in {authority, [open |-> TRUE, row |-> r, content |-> mirror[r]]}
      BY <1>2 DEF ConsiderRow, EditRow
    <3>. QED
      BY <3>1, <3>2, <3>3
  <2>. QED
    BY <2>1, <2>2, <2>3, <2>4 DEF MirrorTypeOK
<1>3. ASSUME NEW type \in {"DECISION_RECORDED", "NOTE"}, NEW choice \in {"allow", "deny", "none"},
             NEW allows \in BOOLEAN, NEW scope \in Scopes, RecordMatter(type, choice, allows, scope)
      PROVE  MirrorInv'
  <2>. DEFINE e == [type |-> type, decision |-> choice, granted |-> allows,
                    row |-> authority.row, content |-> authority.content, scope |-> scope]
              matter == <<authority.row, authority.content, scope>>
  <2>1. e \in Events /\ matter \in Matters
    BY DEF Events, Matters, MirrorTypeOK
  <2>2. /\ ledger' = Append(ledger, e) /\ UNCHANGED <<mirror, altered, relied>> /\ authority' = NoMatter
        /\ decided' \in {decided, decided \union {matter}}
        /\ type = "DECISION_RECORDED" /\ choice # "deny" /\ allows => matter \in decided'
    BY <1>3 DEF RecordMatter
  <2>3. ledger' \in Seq(Events) /\ DOMAIN ledger' = DOMAIN ledger \union {Len(ledger) + 1}
        /\ (\A i \in DOMAIN ledger : ledger'[i] = ledger[i]) /\ ledger'[Len(ledger) + 1] = e
    BY <2>1, <2>2
  <2>4. LogIsOfAuthority'
    BY <2>2, <2>3 DEF LogIsOfAuthority
  <2>5. MirrorTypeOK'
    <3>1. NoMatter \in [open : BOOLEAN, row : MirrorRows, content : RowContents]
      BY MirrorAssumption DEF NoMatter
    <3>. QED
      BY <2>1, <2>2, <2>3, <3>1 DEF MirrorTypeOK
  <2>. QED
    BY <2>2, <2>3, <2>4, <2>5
<1>4. ASSUME NEW i, NEW e \in Events, AlterEvent(i, e) PROVE MirrorInv'
  <2>1. ledger' \in Seq(Events) /\ DOMAIN ledger' = DOMAIN ledger
       /\ \A k \in DOMAIN ledger : k # i => ledger'[k] = ledger[k]
    BY <1>4 DEF AlterEvent
  <2>2. MirrorTypeOK'
    BY <1>4, <2>1 DEF AlterEvent, MirrorTypeOK
  <2>. QED
    BY <1>4, <2>1, <2>2 DEF AlterEvent, LogIsOfAuthority
<1>5. ASSUME NEW i, NEW r \in MirrorRows, NEW scope \in Scopes, VerifyMirror(i, r, scope) PROVE MirrorInv'
  <2>1. <<r, mirror[r], scope>> \in decided
    BY <1>5 DEF VerifyMirror, ChainVerifies, GrantMatches, BindingMatches, LogIsOfAuthority
  <2>2. MirrorTypeOK'
    BY <1>5, <2>1 DEF VerifyMirror, MirrorTypeOK
  <2>. QED
    BY <1>5, <2>1, <2>2 DEF VerifyMirror, LogIsOfAuthority
<1>6. CASE \E r \in MirrorRows : ConsiderRow(r)
  <2>1. RowContents # {}
    BY MirrorAssumption
  <2>. QED
    BY <1>2, <1>6, <2>1
<1>. QED
  BY <1>1, <1>2, <1>3, <1>4, <1>5, <1>6 DEF MirrorNext

-------------------------------------------------------------------------------
(* Governance bundles.                                                      *)

\* It follows from the acceptance alone, however the bundle came about.
LEMMA ThreeHands == PromotedByThreeHands
<1>. SUFFICES ASSUME Valid, NEW p \in bundle.promotions
     PROVE \E o \in bundle.operations, a \in bundle.authorizations :
      /\ o.id = p.operation /\ a.id = o.authorization
      /\ a.issuer # o.actor /\ p.verifier # o.actor
      /\ a.issued <= time /\ time < a.expires
      /\ o.destructive => \E e \in bundle.evidence : e.id \in o.preserved /\ e.created <= time
  BY DEF PromotedByThreeHands
<1>1. PICK o \in bundle.operations : o.id = p.operation /\ o.actor = p.executor /\ p.executor # p.verifier
  BY DEF Valid, PromotionAccepted
<1>2. OperationAccepted(o)
  BY DEF Valid
<1>3. PICK a \in bundle.authorizations : Authorizes(a, o)
  BY <1>2 DEF OperationAccepted
<1>4. AuthorizationAccepted(a)
  BY DEF Valid
<1>5. ASSUME o.destructive PROVE \E e \in bundle.evidence : e.id \in o.preserved /\ e.created <= time
  <2>1. PICK x \in o.preserved : x \in {e.id : e \in bundle.evidence}
    BY <1>2, <1>5 DEF OperationAccepted, RefsExist
  <2>. QED
    BY <2>1 DEF Valid, EvidenceAccepted
<1>. QED
  BY <1>1, <1>3, <1>4, <1>5 DEF Authorizes, AuthorizationAccepted

-------------------------------------------------------------------------------
(* The governor.                                                            *)

Passes(m) == Respects(policy, m) /\ GatePasses(applicant, policy, m)

\* Who was held up would be held up again.
BarredFails == barred => ~Passes(meta)

GovernorInv == GovernorTypeOK /\ BarredFails /\ GovernorIsSubordinate

LEMMA GovernorStart == GovernorInit => GovernorInv
<1>. SUFFICES ASSUME GovernorInit PROVE GovernorInv
  OBVIOUS
<1>1. decision \in [outcome : Decisions, valid : BOOLEAN] /\ ~decision.valid /\ barred = FALSE
  BY DEF GovernorInit, Decisions
<1>. QED
  BY <1>1 DEF GovernorInit, GovernorInv, GovernorTypeOK, BarredFails, GovernorIsSubordinate

LEMMA GovernorTypes ==
  ASSUME GovernorTypeOK
  PROVE  meta \in MetaPolicyType /\ policy \in PolicyType /\ applicant \in CandidateType
BY GovernorAssumption DEF GovernorTypeOK

\* What passes under a stricter MetaPolicy passes under the one it replaces.
LEMMA StricterPasses ==
  ASSUME GovernorTypeOK, NEW m \in MetaPolicyType, AsStrict(m, meta), Passes(m)
  PROVE  Passes(meta)
<1>1. meta \in MetaPolicyType /\ policy \in PolicyType /\ applicant \in CandidateType
  BY GovernorTypes
<1>2. Respects(policy, meta)
  BY <1>1 DEF Passes, Respects, AsStrict, MetaPolicyType, PolicyType, Scale
<1>3. GatePasses(applicant, policy, meta)
  BY <1>1 DEF Passes, GatePasses, AsStrict, MetaPolicyType, PolicyType, CandidateType
<1>. QED
  BY <1>2, <1>3 DEF Passes

LEMMA GovernorStep == GovernorInv /\ [GovernorNext]_governorVars => GovernorInv'
<1>. SUFFICES ASSUME GovernorInv, [GovernorNext]_governorVars PROVE GovernorInv'
  OBVIOUS
<1>. USE DEF GovernorInv
<1>1. CASE UNCHANGED governorVars
  BY <1>1 DEF governorVars, GovernorTypeOK, BarredFails, Passes, GovernorIsSubordinate
<1>2. CASE EvaluateCandidate
  <2>1. Decision \in [outcome : Decisions, valid : BOOLEAN] /\ (Decision.valid <=> Passes(meta))
    BY DEF Decision, Decisions, Outcome, Passes, GatePasses, Respects
  <2>2. meta \in MetaPolicyType /\ policy \in PolicyType /\ applicant \in CandidateType
    BY GovernorTypes
  <2>3. GovernorTypeOK'
    BY <1>2, <2>1 DEF EvaluateCandidate, GovernorTypeOK
  <2>4. BarredFails'
    BY <1>2, <2>1 DEF EvaluateCandidate, BarredFails, Passes
  <2>5. Passes(meta) => /\ applicant.confidence >= meta.minConfidence /\ applicant.occurrences >= meta.minOccurrences
                        /\ applicant.risk <= meta.maxRisk
    BY <2>2 DEF Passes, Respects, GatePasses, MetaPolicyType, PolicyType, CandidateType, Scale
  <2>6. GovernorIsSubordinate'
    BY <1>2, <2>1, <2>5 DEF EvaluateCandidate, GovernorIsSubordinate, BarredFails
  <2>. QED
    BY <2>3, <2>4, <2>6
<1>3. ASSUME NEW m \in MetaPolicies, SetMetaPolicy(m) PROVE GovernorInv'
  <2>1. m \in MetaPolicyType
    BY GovernorAssumption
  <2>2. GovernorTypeOK' /\ GovernorIsSubordinate'
    BY <1>3 DEF SetMetaPolicy, GovernorTypeOK, GovernorIsSubordinate, Decisions
  <2>3. BarredFails'
    BY <1>3, <2>1, StricterPasses DEF SetMetaPolicy, BarredFails, Passes
  <2>. QED
    BY <2>2, <2>3
<1>. QED
  BY <1>1, <1>2, <1>3 DEF GovernorNext

-------------------------------------------------------------------------------
(* Attestations.                                                            *)

RootRecords == [active : SUBSET JudgeKeys, revoked : SUBSET JudgeKeys, issued : Nat, expires : Nat]

\* What a key was revoked for in one version it is in every later one, and they
\* were signed one after the other.
RootsFollow ==
  \A v, w \in DOMAIN roots : v <= w =>
    roots[v].revoked \subseteq roots[w].revoked /\ roots[v].issued <= roots[w].issued

RootShape ==
  /\ roots \in Seq(RootRecords) /\ roots # <<>> /\ checkpoint \in DOMAIN roots /\ attestTime \in Nat
  /\ \A v \in DOMAIN roots : roots[v].issued <= attestTime /\ roots[v].expires = roots[v].issued + RootLife

\* What was allowed was so under a version that is on file.
AllowedOnFile ==
  allowed.allowed =>
    /\ allowed.version \in DOMAIN roots /\ allowed.minimum \in 1..allowed.version
    /\ allowed.key \notin roots[allowed.version].revoked
    /\ allowed.at \in 0..attestTime /\ allowed.at < roots[allowed.version].issued + RootLife + ClockLag

AttestInv == RootShape /\ RootsFollow /\ AllowedOnFile

LEMMA AttestStart == AttestInit => AttestInv
<1>. SUFFICES ASSUME AttestInit PROVE AttestInv
  OBVIOUS
<1>. DEFINE first == [active |-> JudgeKeys, revoked |-> {}, issued |-> 0, expires |-> RootLife]
<1>1. RootLife \in Nat
  BY ReviewAssumption
<1>2. first \in RootRecords /\ first.revoked = {} /\ first.issued = 0 /\ first.expires = RootLife
  BY <1>1 DEF RootRecords
<1>3. roots = <<first>> /\ checkpoint = 1 /\ attestTime = 0 /\ allowed.allowed = FALSE
  BY DEF AttestInit, NoAttestation
<1>. HIDE DEF first
<1>4. roots \in Seq(RootRecords) /\ roots # <<>> /\ DOMAIN roots = {1} /\ roots[1] = first
  BY <1>2, <1>3
<1>. QED
  BY <1>1, <1>2, <1>3, <1>4 DEF AttestInv, RootShape, RootsFollow, AllowedOnFile

LEMMA RootColumns ==
  ASSUME AttestInv
  PROVE  /\ DOMAIN roots = 1..Len(roots) /\ Len(roots) \in Nat /\ Len(roots) \in DOMAIN roots
         /\ \A v \in DOMAIN roots : roots[v] \in RootRecords /\ roots[v].issued \in Nat
         /\ RootLife \in Nat /\ ClockLag \in Nat /\ attestTime \in Nat /\ checkpoint \in Nat
<1>1. roots \in Seq(RootRecords) /\ roots # <<>> /\ checkpoint \in DOMAIN roots /\ attestTime \in Nat
  BY DEF AttestInv, RootShape
<1>2. RootLife \in Nat /\ ClockLag \in Nat
  BY ReviewAssumption
<1>3. DOMAIN roots = 1..Len(roots) /\ Len(roots) \in Nat /\ \A v \in DOMAIN roots : roots[v] \in RootRecords
  BY <1>1
<1>4. Len(roots) \in DOMAIN roots /\ checkpoint \in Nat
  BY <1>1, <1>3
<1>5. \A x \in RootRecords : x.issued \in Nat
  BY DEF RootRecords
<1>. QED
  BY <1>1, <1>2, <1>3, <1>4, <1>5

LEMMA SignRootKeeps ==
  ASSUME AttestInv, NEW active \in SUBSET JudgeKeys, NEW revoked \in SUBSET JudgeKeys, SignRoot(active, revoked)
  PROVE  AttestInv'
<1>. DEFINE new == [active |-> active, revoked |-> revoked, issued |-> attestTime, expires |-> attestTime + RootLife]
            n == Len(roots)
<1>1. /\ DOMAIN roots = 1..n /\ n \in Nat /\ n \in DOMAIN roots
      /\ \A v \in DOMAIN roots : roots[v] \in RootRecords /\ roots[v].issued \in Nat
      /\ RootLife \in Nat /\ attestTime \in Nat /\ ClockLag \in Nat
  BY RootColumns
<1>2. /\ roots' = Append(roots, new) /\ roots[n].revoked \subseteq revoked
      /\ UNCHANGED <<checkpoint, verdicts, attestTime, allowed>>
  BY DEF SignRoot, Latest
<1>3. new \in RootRecords /\ new.revoked = revoked /\ new.issued = attestTime /\ new.expires = attestTime + RootLife
  BY <1>1 DEF RootRecords
<1>. HIDE DEF new
<1>4. roots \in Seq(RootRecords)
  BY DEF AttestInv, RootShape
<1>5. /\ roots' \in Seq(RootRecords) /\ roots' # <<>> /\ DOMAIN roots' = 1..(n + 1)
      /\ \A v \in DOMAIN roots : roots'[v] = roots[v]
      /\ roots'[n + 1] = new
  BY <1>1, <1>2, <1>3, <1>4
<1>. HIDE DEF n
<1>6. RootShape'
  <2>1. \A v \in DOMAIN roots' : v \in DOMAIN roots \/ v = n + 1
    BY <1>1, <1>5
  <2>2. checkpoint' \in DOMAIN roots' /\ attestTime' \in Nat
    BY <1>1, <1>2, <1>5 DEF AttestInv, RootShape
  <2>3. \A v \in DOMAIN roots : roots[v].issued <= attestTime /\ roots[v].expires = roots[v].issued + RootLife
    BY DEF AttestInv, RootShape
  <2>4. \A v \in DOMAIN roots' : roots'[v].issued <= attestTime' /\ roots'[v].expires = roots'[v].issued + RootLife
    BY <1>1, <1>2, <1>3, <1>5, <2>1, <2>3
  <2>. QED
    BY <1>5, <2>2, <2>4 DEF RootShape
<1>7. RootsFollow'
  <2>. SUFFICES ASSUME NEW v \in DOMAIN roots', NEW w \in DOMAIN roots', v <= w
                PROVE  roots'[v].revoked \subseteq roots'[w].revoked /\ roots'[v].issued <= roots'[w].issued
    BY DEF RootsFollow
  <2>1. CASE w \in DOMAIN roots
    <3>1. v \in DOMAIN roots
      BY <1>1, <1>5, <2>1
    <3>. QED
      BY <1>5, <2>1, <3>1 DEF AttestInv, RootsFollow
  <2>2. CASE w = n + 1 /\ v \in DOMAIN roots
    <3>1. v <= n /\ roots[v].revoked \subseteq roots[n].revoked
      BY <1>1, <2>2 DEF AttestInv, RootsFollow
    <3>2. roots[v].issued <= attestTime
      BY <2>2 DEF AttestInv, RootShape
    <3>. QED
      BY <1>2, <1>3, <1>5, <2>2, <3>1, <3>2
  <2>3. CASE w = n + 1 /\ v = n + 1
    BY <1>1, <1>3, <1>5, <2>3
  <2>. QED
    BY <1>1, <1>5, <2>1, <2>2, <2>3
<1>8. AllowedOnFile'
  <2>. SUFFICES ASSUME allowed.allowed PROVE AllowedOnFile'
    BY <1>2 DEF AllowedOnFile
  <2>1. allowed.version \in DOMAIN roots' /\ roots'[allowed.version] = roots[allowed.version]
    BY <1>1, <1>5 DEF AttestInv, AllowedOnFile
  <2>. QED
    BY <1>2, <2>1 DEF AttestInv, AllowedOnFile
<1>. QED
  BY <1>6, <1>7, <1>8 DEF AttestInv

LEMMA VerifyKeeps ==
  ASSUME AttestInv, NEW attestation, NEW version \in DOMAIN roots, NEW hour \in 0..attestTime,
         Verify(attestation, version, hour)
  PROVE  AttestInv'
<1>1. /\ DOMAIN roots = 1..Len(roots) /\ Len(roots) \in Nat /\ roots[version].issued \in Nat
      /\ RootLife \in Nat /\ ClockLag \in Nat /\ attestTime \in Nat /\ checkpoint \in Nat
      /\ checkpoint \in DOMAIN roots /\ roots[version].expires = roots[version].issued + RootLife
  BY RootColumns DEF AttestInv, RootShape
<1>2. /\ UNCHANGED <<roots, checkpoint, verdicts, attestTime>>
      /\ attestTime - ClockLag <= hour /\ version >= checkpoint /\ roots[version].expires > hour
      /\ attestation.key \notin roots[version].revoked
      /\ allowed' = [allowed |-> TRUE, key |-> attestation.key, artifact |-> attestation.artifact,
                     version |-> version, at |-> attestTime, minimum |-> checkpoint]
  BY <1>1 DEF Verify, RootAccepted, Lives
<1>3. attestTime < roots[version].issued + RootLife + ClockLag
  BY <1>1, <1>2
<1>4. AllowedOnFile'
  BY <1>1, <1>2, <1>3 DEF AllowedOnFile
<1>. QED
  BY <1>2, <1>4 DEF AttestInv, RootShape, RootsFollow

LEMMA AttestStep == AttestInv /\ [AttestNext]_attestVars => AttestInv'
<1>. SUFFICES ASSUME AttestInv, [AttestNext]_attestVars PROVE AttestInv'
  OBVIOUS
<1>1. CASE UNCHANGED <<roots, checkpoint, attestTime, allowed>>
  BY <1>1 DEF AttestInv, RootShape, RootsFollow, AllowedOnFile
<1>2. CASE Release
  <2>1. checkpoint' \in DOMAIN roots
    BY <1>2, RootColumns DEF Release
  <2>. QED
    BY <1>2, <2>1 DEF AttestInv, RootShape, RootsFollow, AllowedOnFile, Release
<1>3. CASE AttestTimePasses
  <2>1. \A v \in DOMAIN roots : roots[v].issued <= attestTime'
    BY <1>3, RootColumns DEF AttestTimePasses, AttestInv, RootShape
  <2>2. RootShape'
    BY <1>3, <2>1 DEF AttestTimePasses, AttestInv, RootShape
  <2>3. 0..attestTime \subseteq 0..attestTime'
    BY <1>3, RootColumns DEF AttestTimePasses
  <2>. QED
    BY <1>3, <2>2, <2>3 DEF AttestTimePasses, AttestInv, RootsFollow, AllowedOnFile
<1>. QED
  BY <1>1, <1>2, <1>3, SignRootKeeps, VerifyKeeps DEF AttestNext, attestVars, SignVerdict

LEMMA AttestHolds == AttestInv => RevocationReachesRelease /\ RevocationReachesAll
<1>. SUFFICES ASSUME AttestInv, allowed.allowed
              PROVE  /\ \A v \in 1..allowed.minimum : allowed.key \notin roots[v].revoked
                     /\ \A v \in DOMAIN roots :
                          allowed.key \in roots[v].revoked => allowed.at < roots[v].issued + RootLife + ClockLag
  BY DEF RevocationReachesRelease, RevocationReachesAll
<1>. DEFINE w == allowed.version
<1>1. /\ w \in DOMAIN roots /\ allowed.minimum \in 1..w /\ allowed.key \notin roots[w].revoked
      /\ allowed.at \in Nat /\ allowed.at < roots[w].issued + RootLife + ClockLag
  BY RootColumns DEF AttestInv, AllowedOnFile
<1>2. /\ DOMAIN roots = 1..Len(roots) /\ Len(roots) \in Nat /\ RootLife \in Nat /\ ClockLag \in Nat
      /\ \A v \in DOMAIN roots : roots[v].issued \in Nat
  BY RootColumns
<1>. HIDE DEF w
<1>3. \A v \in DOMAIN roots : v <= w => roots[v].revoked \subseteq roots[w].revoked
  BY <1>1 DEF AttestInv, RootsFollow
<1>4. \A v \in DOMAIN roots : w <= v => roots[w].issued <= roots[v].issued
  BY <1>1 DEF AttestInv, RootsFollow
<1>5. \A v \in 1..allowed.minimum : v \in DOMAIN roots /\ v <= w
  BY <1>1, <1>2
<1>6. ASSUME NEW v \in DOMAIN roots, allowed.key \in roots[v].revoked
      PROVE  allowed.at < roots[v].issued + RootLife + ClockLag
  <2>1. w <= v
    BY <1>1, <1>2, <1>3, <1>6
  <2>2. roots[w].issued <= roots[v].issued /\ roots[v].issued \in Nat /\ roots[w].issued \in Nat
    BY <1>1, <1>2, <1>4, <2>1
  <2>. QED
    BY <1>1, <1>2, <2>2
<1>. QED
  BY <1>1, <1>3, <1>5, <1>6

-------------------------------------------------------------------------------
(* The protection of main.                                                  *)

\* A run that puts settings or reads them back holds a policy that was validated.
PoliciesAreValid == \A r \in Reconcilers : reconciler[r].pc \in {"put", "get"} => ValidatePolicy(reconciler[r].policy)

MainCommits == [policy : ProtectionPolicies, pulled : BOOLEAN]
Reports == {"none", "BLOCKED_EXTERNAL", "UNREADABLE", "CONVERGED", "DRIFT"}
ReconcilerRows ==
  [pc : {"down", "validate", "put", "get", "report"}, policy : ProtectionPolicies \union {Unprotected}, commit : Nat,
   pushed : BOOLEAN, status : Reports, seen : ProtectionPolicies \union {Unprotected}]

Covers(settings) == BaseContexts \subseteq settings.contexts /\ settings.pulls /\ settings.shut

\* What a run reports as CONVERGED was seen to cover a policy that was validated.
ConvergedWasSeen ==
  \A r \in Reconcilers :
    reconciler[r].pc = "report" /\ reconciler[r].status = "CONVERGED" => Covers(reconciler[r].seen)

ProtectionShape ==
  /\ protection \in ProtectionPolicies \union {Unprotected}
  /\ mainLog \in Seq(MainCommits) /\ unaudited \subseteq DOMAIN mainLog
  /\ reconciler \in [Reconcilers -> ReconcilerRows]

ProtectionInv ==
  ProtectionShape /\ PoliciesAreValid /\ ConvergedWasSeen /\ OnlyEditsUnprotect /\ ClosedOverProtected

Settings == [contexts : SUBSET STRING, strict : BOOLEAN, pulls : BOOLEAN, shut : BOOLEAN, linear : BOOLEAN]

LEMMA PolicyTypes ==
  /\ Unprotected \in Settings /\ ProtectionPolicies \union {Unprotected} \subseteq Settings
  /\ NoReconciler \in ReconcilerRows /\ NoReconciler.pc = "down"
<1>1. Unprotected \in Settings
  BY DEF Unprotected, Settings
<1>2. ProtectionPolicies \subseteq Settings
  BY ReviewAssumption DEF Settings
<1>3. NoReconciler \in ReconcilerRows /\ NoReconciler.pc = "down"
  BY DEF NoReconciler, ReconcilerRows, Reports
<1>. QED
  BY <1>1, <1>2, <1>3

LEMMA ProtectionStart == ProtectionInit => ProtectionInv
<1>. SUFFICES ASSUME ProtectionInit PROVE ProtectionInv
  OBVIOUS
<1>1. PICK p \in ProtectionPolicies : mainLog = <<[policy |-> p, pulled |-> TRUE]>>
  BY DEF ProtectionInit
<1>2. mainLog \in Seq(MainCommits)
  <2>1. [policy |-> p, pulled |-> TRUE] \in MainCommits
    BY DEF MainCommits
  <2>. QED
    BY <1>1, <2>1
<1>3. ProtectionShape
  BY <1>2, PolicyTypes DEF ProtectionInit, ProtectionShape
<1>. QED
  BY <1>3, PolicyTypes
  DEF ProtectionInit, ProtectionInv, PoliciesAreValid, ConvergedWasSeen, OnlyEditsUnprotect, ClosedOverProtected

\* A run goes on: its row changes and satisfies what is asked of it.
LEMMA RunMoves ==
  ASSUME ProtectionInv, NEW r \in Reconcilers, NEW row \in ReconcilerRows,
         reconciler' = [reconciler EXCEPT ![r] = row],
         row.pc \in {"put", "get"} => ValidatePolicy(row.policy),
         row.pc = "report" /\ row.status = "CONVERGED" => Covers(row.seen)
  PROVE  reconciler' \in [Reconcilers -> ReconcilerRows] /\ PoliciesAreValid' /\ ConvergedWasSeen'
<1>1. reconciler \in [Reconcilers -> ReconcilerRows]
  BY DEF ProtectionInv, ProtectionShape
<1>2. reconciler'[r] = row /\ \A q \in Reconcilers : q # r => reconciler'[q] = reconciler[q]
  BY <1>1
<1>3. ASSUME NEW q \in Reconcilers
      PROVE  /\ reconciler'[q].pc \in {"put", "get"} => ValidatePolicy(reconciler'[q].policy)
             /\ reconciler'[q].pc = "report" /\ reconciler'[q].status = "CONVERGED" => Covers(reconciler'[q].seen)
  <2>1. CASE q = r
    BY <1>2, <2>1
  <2>2. CASE q # r
    BY <1>2, <2>2 DEF ProtectionInv, PoliciesAreValid, ConvergedWasSeen
  <2>. QED
    BY <2>1, <2>2
<1>. QED
  BY <1>1, <1>3 DEF PoliciesAreValid, ConvergedWasSeen, ValidatePolicy, Covers

LEMMA RowOfReport ==
  ASSUME ProtectionInv, NEW r \in Reconcilers, NEW status \in Reports,
         NEW seen \in ProtectionPolicies \union {Unprotected}, Reported(r, status, seen),
         status = "CONVERGED" => Covers(seen)
  PROVE  reconciler' \in [Reconcilers -> ReconcilerRows] /\ PoliciesAreValid' /\ ConvergedWasSeen'
<1>. DEFINE row == [NoReconciler EXCEPT !.pc = "report", !.status = status, !.seen = seen]
<1>1. row \in ReconcilerRows /\ row.pc = "report" /\ row.status = status /\ row.seen = seen
  BY PolicyTypes DEF ReconcilerRows, NoReconciler
<1>2. reconciler' = [reconciler EXCEPT ![r] = row]
  BY DEF Reported
<1>. HIDE DEF row
<1>. QED
  BY <1>1, <1>2, RunMoves

LEMMA EditsKeep ==
  ASSUME ProtectionInv, NEW policy_ \in ProtectionPolicies \union {Unprotected}, NEW pulled \in BOOLEAN,
         \/ EditProtection(policy_)
         \/ policy_ \in ProtectionPolicies /\ CommitToMain(policy_, pulled)
  PROVE  ProtectionInv'
<1>1. UNCHANGED <<reconciler, tracker>>
  BY DEF EditProtection, CommitToMain
<1>2. PoliciesAreValid' /\ ConvergedWasSeen' /\ ClosedOverProtected'
  BY <1>1 DEF ProtectionInv, PoliciesAreValid, ConvergedWasSeen, ClosedOverProtected, ValidatePolicy, Covers
<1>3. CASE EditProtection(policy_)
  BY <1>2, <1>3 DEF EditProtection, ProtectionInv, ProtectionShape, OnlyEditsUnprotect
<1>4. CASE policy_ \in ProtectionPolicies /\ CommitToMain(policy_, pulled)
  <2>. DEFINE entry == [policy |-> policy_, pulled |-> pulled]
  <2>1. /\ mainLog' = Append(mainLog, entry) /\ unaudited' = unaudited \union {Len(mainLog) + 1}
        /\ UNCHANGED <<protection, edits>>
    BY <1>4 DEF CommitToMain
  <2>2. entry \in MainCommits
        /\ mainLog \in Seq(MainCommits) /\ unaudited \subseteq DOMAIN mainLog
    BY <1>4 DEF ProtectionInv, ProtectionShape, MainCommits
  <2>. HIDE DEF entry
  <2>3. mainLog' \in Seq(MainCommits)
        /\ DOMAIN mainLog' = DOMAIN mainLog \union {Len(mainLog) + 1}
    BY <2>1, <2>2
  <2>. QED
    BY <1>1, <1>2, <2>1, <2>2, <2>3 DEF ProtectionInv, ProtectionShape, OnlyEditsUnprotect
<1>. QED
  BY <1>3, <1>4

LEMMA RunsKeep ==
  ASSUME ProtectionInv, NEW r \in Reconcilers,
         \/ \E c \in DOMAIN mainLog, pushed \in BOOLEAN : StartReconciler(r, c, pushed)
         \/ ValidateAndAuditPush(r) \/ PutProtection(r) \/ FetchProtection(r) \/ UpdateTracker(r)
  PROVE  ProtectionInv'
<1>1. /\ reconciler \in [Reconcilers -> ReconcilerRows] /\ reconciler[r] \in ReconcilerRows
      /\ protection \in ProtectionPolicies \union {Unprotected}
      /\ mainLog \in Seq(MainCommits) /\ unaudited \subseteq DOMAIN mainLog
  BY DEF ProtectionInv, ProtectionShape
<1>2. \A x \in ReconcilerRows : x.policy \in ProtectionPolicies \union {Unprotected}
                              /\ x.seen \in ProtectionPolicies \union {Unprotected}
  BY DEF ReconcilerRows
<1>3. NoReconciler \in ReconcilerRows /\ NoReconciler.pc = "down"
  BY PolicyTypes
<1>4. ASSUME NEW c \in DOMAIN mainLog, NEW pushed \in BOOLEAN, StartReconciler(r, c, pushed)
      PROVE  ProtectionInv'
  <2>. DEFINE row == [NoReconciler EXCEPT !.pc = "validate", !.policy = mainLog[c].policy,
                                          !.commit = c, !.pushed = pushed]
  <2>1. mainLog[c].policy \in ProtectionPolicies /\ c \in Nat
    <3>1. DOMAIN mainLog = 1..Len(mainLog) /\ Len(mainLog) \in Nat
      BY <1>1
    <3>2. mainLog[c] \in MainCommits
      BY <1>1, <3>1
    <3>3. \A x \in MainCommits : x.policy \in ProtectionPolicies
      BY DEF MainCommits
    <3>. QED
      BY <3>1, <3>2, <3>3
  <2>2. row \in ReconcilerRows /\ row.pc = "validate"
    BY <1>3, <2>1 DEF ReconcilerRows, NoReconciler
  <2>3. /\ reconciler' = [reconciler EXCEPT ![r] = row] /\ unaudited' \subseteq unaudited
        /\ UNCHANGED <<protection, mainLog, tracker, edits>>
    BY <1>4 DEF StartReconciler
  <2>. HIDE DEF row
  <2>4. reconciler' \in [Reconcilers -> ReconcilerRows] /\ PoliciesAreValid' /\ ConvergedWasSeen'
    BY <2>2, <2>3, RunMoves
  <2>. QED
    BY <1>1, <2>3, <2>4 DEF ProtectionInv, ProtectionShape, OnlyEditsUnprotect, ClosedOverProtected
<1>5. CASE ValidateAndAuditPush(r)
  <2>. DEFINE row == IF /\ ValidatePolicy(reconciler[r].policy)
                        /\ reconciler[r].pushed => mainLog[reconciler[r].commit].pulled
                     THEN [NoReconciler EXCEPT !.pc = "put", !.policy = reconciler[r].policy] ELSE NoReconciler
  <2>1. /\ reconciler' = [reconciler EXCEPT ![r] = row]
        /\ UNCHANGED <<protection, mainLog, unaudited, tracker, edits>>
    BY <1>1, <1>5 DEF ValidateAndAuditPush
  <2>2. [NoReconciler EXCEPT !.pc = "put", !.policy = reconciler[r].policy] \in ReconcilerRows
    BY <1>1, <1>2, <1>3 DEF ReconcilerRows
  <2>3. row \in ReconcilerRows /\ row.pc \in {"down", "put"} /\ (row.pc = "put" => ValidatePolicy(row.policy))
    BY <1>3, <2>2 DEF NoReconciler
  <2>. HIDE DEF row
  <2>4. reconciler' \in [Reconcilers -> ReconcilerRows] /\ PoliciesAreValid' /\ ConvergedWasSeen'
    BY <2>1, <2>3, RunMoves
  <2>. QED
    BY <1>1, <2>1, <2>4 DEF ProtectionInv, ProtectionShape, OnlyEditsUnprotect, ClosedOverProtected
<1>6. CASE PutProtection(r)
  <2>1. CASE /\ protection' = reconciler[r].policy /\ edits' = [edits EXCEPT !.last = FALSE]
             /\ reconciler' = [reconciler EXCEPT ![r].pc = "get"]
    <3>1. PICK row : row = [reconciler[r] EXCEPT !.pc = "get"]
      OBVIOUS
    <3>2. row \in ReconcilerRows /\ row.pc = "get" /\ row.policy = reconciler[r].policy
      BY <1>1, <3>1 DEF ReconcilerRows
    <3>3. ValidatePolicy(reconciler[r].policy)
      BY <1>6 DEF PutProtection, ProtectionInv, PoliciesAreValid
    <3>4. reconciler' = [reconciler EXCEPT ![r] = row]
      BY <2>1, <3>1
    <3>5. reconciler' \in [Reconcilers -> ReconcilerRows] /\ PoliciesAreValid' /\ ConvergedWasSeen'
      BY <3>2, <3>3, <3>4, RunMoves
    <3>6. OnlyEditsUnprotect'
      BY <2>1, <3>3 DEF OnlyEditsUnprotect, ValidatePolicy
    <3>7. protection' \in ProtectionPolicies \union {Unprotected}
      BY <1>1, <1>2, <2>1
    <3>. QED
      BY <1>1, <1>6, <3>5, <3>6, <3>7 DEF PutProtection, ProtectionInv, ProtectionShape, ClosedOverProtected
  <2>2. ASSUME NEW status \in {"BLOCKED_EXTERNAL", "UNREADABLE"}, Reported(r, status, Unprotected),
               UNCHANGED <<protection, edits>>
        PROVE  ProtectionInv'
    <3>1. status \in Reports /\ status # "CONVERGED"
      BY DEF Reports
    <3>2. reconciler' \in [Reconcilers -> ReconcilerRows] /\ PoliciesAreValid' /\ ConvergedWasSeen'
      BY <2>2, <3>1, RowOfReport
    <3>. QED
      BY <1>1, <1>6, <2>2, <3>2
      DEF PutProtection, ProtectionInv, ProtectionShape, OnlyEditsUnprotect, ClosedOverProtected
  <2>. QED
    BY <1>6, <2>1, <2>2 DEF PutProtection
<1>7. CASE FetchProtection(r)
  <2>1. PICK status \in {"CONVERGED", "DRIFT", "UNREADABLE"}, seen \in {protection, Unprotected} :
          /\ Reported(r, status, seen)
          /\ status = "CONVERGED" => seen = protection /\ AuditObserved(reconciler[r].policy, protection)
    BY <1>7 DEF FetchProtection
  <2>2. ValidatePolicy(reconciler[r].policy)
    BY <1>7 DEF FetchProtection, ProtectionInv, PoliciesAreValid
  <2>3. status = "CONVERGED" => Covers(seen)
    BY <2>1, <2>2 DEF AuditObserved, ValidatePolicy, Covers
  <2>4. reconciler' \in [Reconcilers -> ReconcilerRows] /\ PoliciesAreValid' /\ ConvergedWasSeen'
    <3>1. status \in Reports /\ seen \in ProtectionPolicies \union {Unprotected}
      BY <1>1 DEF Reports
    <3>2. Reported(r, status, seen)
      BY <2>1
    <3>. QED
      BY <2>3, <3>1, <3>2, RowOfReport
  <2>. QED
    BY <1>1, <1>7, <2>4 DEF FetchProtection, ProtectionInv, ProtectionShape, OnlyEditsUnprotect, ClosedOverProtected
<1>8. CASE UpdateTracker(r)
  <2>1. reconciler' \in [Reconcilers -> ReconcilerRows] /\ PoliciesAreValid' /\ ConvergedWasSeen'
    BY <1>3, <1>8, RunMoves DEF UpdateTracker
  <2>2. ClosedOverProtected'
    <3>1. CASE tracker' = tracker
      BY <3>1 DEF ProtectionInv, ClosedOverProtected
    <3>2. CASE tracker' = [closed |-> reconciler[r].status = "CONVERGED", seen |-> reconciler[r].seen]
      <4>1. reconciler[r].status = "CONVERGED" => Covers(reconciler[r].seen)
        BY <1>8 DEF UpdateTracker, ProtectionInv, ConvergedWasSeen
      <4>2. tracker'.seen = reconciler[r].seen /\ (tracker'.closed => reconciler[r].status = "CONVERGED")
        BY <3>2
      <4>. QED
        BY <4>1, <4>2 DEF Covers, ClosedOverProtected
    <3>. QED
      BY <1>8, <3>1, <3>2 DEF UpdateTracker
  <2>. QED
    BY <1>1, <1>8, <2>1, <2>2 DEF UpdateTracker, ProtectionInv, ProtectionShape, OnlyEditsUnprotect
<1>. QED
  BY <1>4, <1>5, <1>6, <1>7, <1>8

LEMMA ProtectionStep == ProtectionInv /\ [ProtectionNext]_protectionVars => ProtectionInv'
<1>. SUFFICES ASSUME ProtectionInv, [ProtectionNext]_protectionVars PROVE ProtectionInv'
  OBVIOUS
<1>1. CASE UNCHANGED protectionVars
  BY <1>1 DEF protectionVars, ProtectionInv, ProtectionShape, PoliciesAreValid, ConvergedWasSeen, OnlyEditsUnprotect,
              ClosedOverProtected, ValidatePolicy, Covers
<1>. QED
  BY <1>1, EditsKeep, RunsKeep DEF ProtectionNext

-------------------------------------------------------------------------------
(* Objectives and the object store.                                         *)

RegistrarRows == [pc : {"idle", "proposed", "decided", "linked", "authorized", "authlinked"},
                  p : Proposals \union {"none"}]
RunnerRows == [pc : {"idle", "authorized"}, task : AgentTasks \union {"none"},
               auth : {TaskOf[t].auth : t \in AgentTasks} \union {NoObject}]
IngestRows == [doc : DOMAIN Documents \union {"none"}, done : Nat, linked : BOOLEAN]

AuthorityShape ==
  /\ registrar \in [Registrars -> RegistrarRows] /\ runner \in [Runners -> RunnerRows]
  /\ ingestor \in [Ingestors -> IngestRows]
  /\ DOMAIN current = Objectives /\ ingested \subseteq DOMAIN Documents

Earned(p) ==
  LET q == ProposalOf[p] IN
  q.source \in {"OWNER", "OWNER_POLICY"} /\ q.verified /\ q.rootKnown /\ ~q.forbidden

Executable(p) == p \in Proposals /\ Evaluate(p) = "EXECUTE"
DecisionLinked(p) == <<ProposalObject(p), DecisionOf(p)>> \in storeLinks
AuthorizedLinked(p) == <<DecisionOf(p), AuthorizedObject(p, "EXECUTE")>> \in storeLinks

\* Whatever the store calls authorized was evaluated so.
AuthorizedIsEarned ==
  \A x \in prov : x[2] = "objective_integrity" /\ x[3] = "OWNER_AUTHORIZED" =>
    \E p \in Proposals : x[1] = AuthorizedObject(p, "EXECUTE") /\ Executable(p)

\* What a registrar has done so far is in the store.
RegistrarsLinked ==
  \A r \in Registrars :
    LET c == registrar[r] IN
    /\ c.pc # "idle" => c.p \in Proposals
    /\ c.pc \in {"linked", "authorized", "authlinked"} => Executable(c.p) /\ DecisionLinked(c.p)
    /\ c.pc = "authlinked" => AuthorizedLinked(c.p)

CurrentIsLinked ==
  \A o \in Objectives : current[o] # NoObject =>
    \E p \in Proposals :
      /\ current[o] = AuthorizedObject(p, "EXECUTE") /\ ProposalOf[p].objective = o
      /\ Executable(p) /\ DecisionLinked(p) /\ AuthorizedLinked(p)

\* A runner that was let through was so for an earned objective.
RunnersAreAuthorized ==
  \A r \in Runners :
    LET c == runner[r] IN c.pc = "authorized" /\ NeedsObjective(c.task) => Earned(c.auth.of)

ObjectiveInv == AuthorizedIsEarned /\ RegistrarsLinked /\ CurrentIsLinked /\ RunnersAreAuthorized /\ RunsAreAuthorized

\* An ingest has linked all values it put but the last one.
ValuesLinked(d, n) == \A k \in 1..n : <<RootObject(d), ValueObject(d, k)>> \in storeLinks
IngestsLinked ==
  \A i \in Ingestors :
    LET c == ingestor[i] IN
    /\ c.doc = "none" => c.linked
    /\ c.doc # "none" => c.done <= Len(Documents[c.doc])
    /\ c.doc # "none" /\ c.linked => ValuesLinked(c.doc, c.done)
    /\ ~c.linked => c.done # 0 /\ ValuesLinked(c.doc, c.done - 1)

StoreInv == AuthorityShape /\ ObjectiveInv /\ IngestsLinked /\ IngestConverges

LEMMA RestingRows == NoRecord \in RegistrarRows /\ NoRun \in RunnerRows /\ NoIngest \in IngestRows
BY DEF NoRecord, NoRun, NoIngest, RegistrarRows, RunnerRows, IngestRows

LEMMA ExecutableIsEarned == ASSUME NEW p, Evaluate(p) = "EXECUTE" PROVE Earned(p)
BY DEF Evaluate, Earned

LEMMA AuthorityStart == AuthorityInit => StoreInv
<1>. SUFFICES ASSUME AuthorityInit PROVE StoreInv
  OBVIOUS
<1>1. AuthorityShape
  BY RestingRows DEF AuthorityInit, AuthorityShape
<1>2. ObjectiveInv
  BY DEF AuthorityInit, ObjectiveInv, AuthorizedIsEarned, RegistrarsLinked, CurrentIsLinked, RunnersAreAuthorized,
         RunsAreAuthorized, NoRecord, NoRun
<1>3. IngestsLinked /\ IngestConverges
  BY DEF AuthorityInit, IngestsLinked, IngestConverges, NoIngest
<1>. QED
  BY <1>1, <1>2, <1>3 DEF StoreInv

\* Links are never taken back.
LEMMA LinksGrow ==
  ASSUME StoreInv, storeLinks \subseteq storeLinks'
  PROVE  /\ \A p : DecisionLinked(p) => DecisionLinked(p)'
         /\ \A p : AuthorizedLinked(p) => AuthorizedLinked(p)'
         /\ \A d, n : ValuesLinked(d, n) => ValuesLinked(d, n)'
         /\ UNCHANGED ingested => IngestConverges'
         /\ UNCHANGED ingestor => IngestsLinked'
<1>1. \A p : DecisionLinked(p) => DecisionLinked(p)'
  BY DEF DecisionLinked
<1>2. \A p : AuthorizedLinked(p) => AuthorizedLinked(p)'
  BY DEF AuthorizedLinked
<1>3. \A d, n : ValuesLinked(d, n) => ValuesLinked(d, n)'
  BY DEF ValuesLinked
<1>4. ASSUME UNCHANGED ingested PROVE IngestConverges'
  BY <1>4 DEF StoreInv, IngestConverges
<1>5. ASSUME UNCHANGED ingestor PROVE IngestsLinked'
  BY <1>3, <1>5 DEF StoreInv, IngestsLinked
<1>. QED
  BY <1>1, <1>2, <1>3, <1>4, <1>5

\* A registrar goes on: its row changes, and the alias and the runs stay.
LEMMA RegistrarMoves ==
  ASSUME StoreInv, NEW r \in Registrars, NEW row \in RegistrarRows,
         registrar' = [registrar EXCEPT ![r] = row], storeLinks \subseteq storeLinks', AuthorizedIsEarned',
         UNCHANGED <<runner, ingestor, ranTasks, ingested>>,
         row.pc # "idle" => row.p \in Proposals,
         row.pc \in {"linked", "authorized", "authlinked"} => Executable(row.p) /\ DecisionLinked(row.p)',
         row.pc = "authlinked" => AuthorizedLinked(row.p)',
         DOMAIN current' = Objectives, CurrentIsLinked'
  PROVE  StoreInv'
<1>1. registrar \in [Registrars -> RegistrarRows]
  BY DEF StoreInv, AuthorityShape
<1>2. registrar' \in [Registrars -> RegistrarRows] /\ registrar'[r] = row
      /\ \A q \in Registrars : q # r => registrar'[q] = registrar[q]
  BY <1>1
<1>3. AuthorityShape'
  BY <1>2 DEF StoreInv, AuthorityShape
<1>4. RegistrarsLinked'
  <2>1. ASSUME NEW q \in Registrars, NEW c, c = registrar'[q]
        PROVE  /\ c.pc # "idle" => c.p \in Proposals
               /\ c.pc \in {"linked", "authorized", "authlinked"} => Executable(c.p) /\ DecisionLinked(c.p)'
               /\ c.pc = "authlinked" => AuthorizedLinked(c.p)'
    <3>1. CASE q = r
      BY <1>2, <2>1, <3>1
    <3>2. CASE q # r
      <4>1. c = registrar[q]
        BY <1>2, <2>1, <3>2
      <4>2. /\ c.pc # "idle" => c.p \in Proposals
            /\ c.pc \in {"linked", "authorized", "authlinked"} => Executable(c.p) /\ DecisionLinked(c.p)
            /\ c.pc = "authlinked" => AuthorizedLinked(c.p)
        BY <4>1 DEF StoreInv, ObjectiveInv, RegistrarsLinked
      <4>. QED
        BY <4>2, LinksGrow
    <3>. QED
      BY <3>1, <3>2
  <2>. QED
    BY <2>1 DEF RegistrarsLinked, Executable, Evaluate, DecisionLinked, AuthorizedLinked
<1>5. RunnersAreAuthorized' /\ RunsAreAuthorized'
  BY DEF StoreInv, ObjectiveInv, RunnersAreAuthorized, RunsAreAuthorized, NeedsObjective, Mutates, Earned
<1>. QED
  BY <1>3, <1>4, <1>5, LinksGrow DEF StoreInv, ObjectiveInv

LEMMA CurrentStays ==
  ASSUME StoreInv, storeLinks \subseteq storeLinks', UNCHANGED current
  PROVE  CurrentIsLinked' /\ DOMAIN current' = Objectives
<1>1. CurrentIsLinked'
  <2>. SUFFICES ASSUME NEW o \in Objectives, current[o] # NoObject
       PROVE \E p \in Proposals :
               /\ current[o] = AuthorizedObject(p, "EXECUTE") /\ ProposalOf[p].objective = o
               /\ Executable(p) /\ DecisionLinked(p)' /\ AuthorizedLinked(p)'
    BY DEF CurrentIsLinked, Executable, Evaluate, Objectives, AuthorizedObject, Object, NoObject
  <2>. QED
    BY LinksGrow DEF StoreInv, ObjectiveInv, CurrentIsLinked
<1>. QED
  BY <1>1 DEF StoreInv, AuthorityShape

\* Other users and Guardian write under other source types; an evaluation and an
\* asserted proposal under other classes.
LEMMA PutEarns ==
  ASSUME StoreInv, NEW obj, NEW source, NEW class, Put(obj, source, class),
         source = "objective_integrity" /\ class = "OWNER_AUTHORIZED" =>
           \E p \in Proposals : obj = AuthorizedObject(p, "EXECUTE") /\ Executable(p)
  PROVE  AuthorizedIsEarned'
<1>. DEFINE new == <<obj, source, class>>
<1>1. prov' = prov \union {new} /\ new[1] = obj /\ new[2] = source /\ new[3] = class
  BY DEF Put
<1>. HIDE DEF new
<1>2. ASSUME NEW x \in prov', x[2] = "objective_integrity", x[3] = "OWNER_AUTHORIZED"
      PROVE  \E p \in Proposals : x[1] = AuthorizedObject(p, "EXECUTE") /\ Executable(p)
  <2>1. CASE x \in prov
    BY <1>2, <2>1 DEF StoreInv, ObjectiveInv, AuthorizedIsEarned
  <2>2. CASE x = new
    BY <1>1, <1>2, <2>2
  <2>. QED
    BY <1>1, <1>2, <2>1, <2>2
<1>. QED
  BY <1>2 DEF AuthorizedIsEarned, Executable, Evaluate, AuthorizedObject, Object

\* Nothing changes but the objects and their provenance.
LEMMA OthersPut ==
  ASSUME StoreInv, AuthorizedIsEarned',
         UNCHANGED <<storeLinks, current, registrar, runner, ingestor, ranTasks, ingested>>
  PROVE  StoreInv'
<1>1. AuthorityShape'
  BY DEF StoreInv, AuthorityShape
<1>2. CurrentIsLinked' /\ IngestsLinked' /\ IngestConverges'
  BY CurrentStays, LinksGrow
<1>3. RegistrarsLinked' /\ RunnersAreAuthorized' /\ RunsAreAuthorized'
  BY DEF StoreInv, ObjectiveInv, RegistrarsLinked, RunnersAreAuthorized, RunsAreAuthorized, NeedsObjective,
         Mutates, Earned,
         Executable, Evaluate, DecisionLinked, AuthorizedLinked
<1>. QED
  BY <1>1, <1>2, <1>3 DEF StoreInv, ObjectiveInv

LEMMA RegistrarSteps ==
  ASSUME StoreInv, NEW r \in Registrars,
         \/ \E p \in Proposals : RecordProposal(r, p)
         \/ RecordDecision(r) \/ LinkDecision(r) \/ RecordAuthorized(r)
         \/ LinkAuthorized(r) \/ PointCurrent(r) \/ RegistrarDies(r)
  PROVE  StoreInv'
<1>1. registrar \in [Registrars -> RegistrarRows] /\ registrar[r] \in RegistrarRows
      /\ DOMAIN current = Objectives
  BY DEF StoreInv, AuthorityShape
<1>2. /\ registrar[r].pc # "idle" => registrar[r].p \in Proposals
      /\ registrar[r].pc \in {"linked", "authorized", "authlinked"} =>
           Executable(registrar[r].p) /\ DecisionLinked(registrar[r].p)
      /\ registrar[r].pc = "authlinked" => AuthorizedLinked(registrar[r].p)
  BY DEF StoreInv, ObjectiveInv, RegistrarsLinked
<1>3. \A row \in RegistrarRows : \A pc \in {"decided", "linked", "authorized", "authlinked"} :
        /\ [row EXCEPT !.pc = pc] \in RegistrarRows
        /\ [row EXCEPT !.pc = pc].pc = pc /\ [row EXCEPT !.pc = pc].p = row.p
  BY DEF RegistrarRows
<1>4. PICK c : c = registrar[r]
  OBVIOUS
<1>5. /\ c \in RegistrarRows /\ (c.pc # "idle" => c.p \in Proposals)
      /\ c.pc \in {"linked", "authorized", "authlinked"} => Executable(c.p) /\ DecisionLinked(c.p)
      /\ c.pc = "authlinked" => AuthorizedLinked(c.p)
  BY <1>1, <1>2, <1>4
<1>6. NoRecord \in RegistrarRows /\ NoRecord.pc = "idle"
  BY RestingRows DEF NoRecord
<1>7. ASSUME NEW p \in Proposals, RecordProposal(r, p) PROVE StoreInv'
  <2>. DEFINE row == [pc |-> "proposed", p |-> p]
  <2>1. row \in RegistrarRows /\ row.pc = "proposed" /\ row.p = p
    BY DEF RegistrarRows
  <2>2. registrar' = [registrar EXCEPT ![r] = row]
       /\ UNCHANGED <<storeLinks, current, runner, ingestor, ranTasks, ingested>>
    BY <1>7 DEF RecordProposal
  <2>. HIDE DEF row
  <2>3. AuthorizedIsEarned'
    <3>1. PICK class \in {"OWNER_ASSERTED_PROPOSAL", "UNTRUSTED_PROPOSAL"} :
            Put(ProposalObject(p), ProposalOf[p].source, class)
      BY <1>7 DEF RecordProposal
    <3>. QED
      BY <3>1, PutEarns
  <2>4. CurrentIsLinked' /\ DOMAIN current' = Objectives
    BY <2>2, CurrentStays
  <2>. QED
    BY <2>1, <2>2, <2>3, <2>4, RegistrarMoves
<1>8. CASE RecordDecision(r)
  <2>. DEFINE row == [c EXCEPT !.pc = "decided"]
  <2>1. row \in RegistrarRows /\ row.pc = "decided" /\ row.p = c.p /\ c.pc # "idle"
    BY <1>3, <1>4, <1>5, <1>8 DEF RecordDecision
  <2>2. registrar' = [registrar EXCEPT ![r] = row]
       /\ UNCHANGED <<storeLinks, current, runner, ingestor, ranTasks, ingested>>
    BY <1>4, <1>8 DEF RecordDecision
  <2>. HIDE DEF row
  <2>3. AuthorizedIsEarned'
    BY <1>8, PutEarns DEF RecordDecision
  <2>4. CurrentIsLinked' /\ DOMAIN current' = Objectives
    BY <2>2, CurrentStays
  <2>. QED
    BY <1>5, <2>1, <2>2, <2>3, <2>4, RegistrarMoves
<1>9. ASSUME LinkDecision(r) \/ LinkAuthorized(r) PROVE storeLinks \subseteq storeLinks' /\ AuthorizedIsEarned'
               /\ CurrentIsLinked' /\ DOMAIN current' = Objectives
               /\ UNCHANGED <<runner, ingestor, ranTasks, ingested>>
  <2>1. storeLinks \subseteq storeLinks' /\ UNCHANGED <<prov, current, runner, ingestor, ranTasks, ingested>>
    BY <1>9 DEF LinkDecision, LinkAuthorized, Link
  <2>2. AuthorizedIsEarned'
    BY <2>1 DEF StoreInv, ObjectiveInv, AuthorizedIsEarned, Executable, Evaluate, AuthorizedObject, Object
  <2>. QED
    BY <2>1, <2>2, CurrentStays
<1>10. CASE LinkDecision(r)
  <2>1. c.pc = "decided" /\ c.p \in Proposals /\ DecisionLinked(c.p)'
    BY <1>4, <1>5, <1>10 DEF LinkDecision, Link, DecisionLinked
  <2>2. PICK row : row = IF Evaluate(c.p) = "EXECUTE" THEN [c EXCEPT !.pc = "linked"] ELSE NoRecord
    OBVIOUS
  <2>3. registrar' = [registrar EXCEPT ![r] = row]
    BY <1>4, <1>10, <2>2 DEF LinkDecision
  <2>4. CASE Evaluate(c.p) = "EXECUTE"
    <3>1. row \in RegistrarRows /\ row.pc = "linked" /\ row.p = c.p /\ Executable(c.p)
      BY <1>3, <1>5, <2>1, <2>2, <2>4 DEF Executable
    <3>. QED
      BY <1>9, <1>10, <2>1, <2>3, <3>1, RegistrarMoves
  <2>5. CASE Evaluate(c.p) # "EXECUTE"
    <3>1. row \in RegistrarRows /\ row.pc = "idle"
      BY <1>6, <2>2, <2>5
    <3>. QED
      BY <1>9, <1>10, <2>3, <3>1, RegistrarMoves
  <2>. QED
    BY <2>4, <2>5
<1>11. CASE RecordAuthorized(r)
  <2>. DEFINE row == [c EXCEPT !.pc = "authorized"]
  <2>1. row \in RegistrarRows /\ row.pc = "authorized" /\ row.p = c.p /\ c.pc = "linked"
    BY <1>3, <1>4, <1>5, <1>11 DEF RecordAuthorized
  <2>2. registrar' = [registrar EXCEPT ![r] = row]
       /\ UNCHANGED <<storeLinks, current, runner, ingestor, ranTasks, ingested>>
    BY <1>4, <1>11 DEF RecordAuthorized
  <2>. HIDE DEF row
  <2>3. Put(AuthorizedObject(c.p, "EXECUTE"), "objective_integrity", "OWNER_AUTHORIZED")
    BY <1>4, <1>11 DEF RecordAuthorized
  <2>4. AuthorizedIsEarned'
    BY <1>5, <2>1, <2>3, PutEarns
  <2>5. DecisionLinked(c.p)'
    BY <1>5, <2>1, <2>2 DEF DecisionLinked
  <2>6. CurrentIsLinked' /\ DOMAIN current' = Objectives
    BY <2>2, CurrentStays
  <2>. QED
    BY <1>5, <2>1, <2>2, <2>4, <2>5, <2>6, RegistrarMoves
<1>12. CASE LinkAuthorized(r)
  <2>. DEFINE row == [c EXCEPT !.pc = "authlinked"]
  <2>1. row \in RegistrarRows /\ row.pc = "authlinked" /\ row.p = c.p /\ c.pc = "authorized"
    BY <1>3, <1>4, <1>5, <1>12 DEF LinkAuthorized
  <2>2. registrar' = [registrar EXCEPT ![r] = row]
    BY <1>4, <1>12 DEF LinkAuthorized
  <2>. HIDE DEF row
  <2>3. storeLinks' = storeLinks \union {<<DecisionOf(c.p), AuthorizedObject(c.p, "EXECUTE")>>}
    BY <1>4, <1>12 DEF LinkAuthorized, Link
  <2>4. DecisionLinked(c.p)' /\ AuthorizedLinked(c.p)'
    BY <1>5, <2>1, <2>3 DEF DecisionLinked, AuthorizedLinked
  <2>. QED
    BY <1>5, <1>9, <1>12, <2>1, <2>2, <2>4, RegistrarMoves
<1>13. CASE PointCurrent(r)
  <2>. DEFINE o == ProposalOf[c.p].objective
  <2>1. /\ c.pc = "authlinked" /\ registrar' = [registrar EXCEPT ![r] = NoRecord]
        /\ current' = [current EXCEPT ![o] = AuthorizedObject(c.p, "EXECUTE")]
        /\ UNCHANGED <<prov, storeLinks, runner, ingestor, ranTasks, ingested>>
    BY <1>4, <1>13 DEF PointCurrent, Point
  <2>2. c.p \in Proposals /\ Executable(c.p) /\ DecisionLinked(c.p) /\ AuthorizedLinked(c.p)
    BY <1>5, <2>1
  <2>3. DOMAIN current' = Objectives
       /\ \A x \in Objectives : current'[x] = IF x = o THEN AuthorizedObject(c.p, "EXECUTE") ELSE current[x]
    BY <1>1, <2>1
  <2>4. CurrentIsLinked'
    <3>1. ASSUME NEW x \in Objectives, current'[x] # NoObject
          PROVE \E p \in Proposals :
                  /\ current'[x] = AuthorizedObject(p, "EXECUTE") /\ ProposalOf[p].objective = x
                  /\ Executable(p) /\ DecisionLinked(p) /\ AuthorizedLinked(p)
      <4>1. CASE x = o
        BY <2>2, <2>3, <4>1
      <4>2. CASE x # o
        BY <2>3, <3>1, <4>2 DEF StoreInv, ObjectiveInv, CurrentIsLinked
      <4>. QED
        BY <4>1, <4>2
    <3>. QED
      BY <2>1, <3>1 DEF CurrentIsLinked, Executable, Evaluate, DecisionLinked, AuthorizedLinked
  <2>5. AuthorizedIsEarned'
    BY <2>1 DEF StoreInv, ObjectiveInv, AuthorizedIsEarned, Executable, Evaluate, AuthorizedObject, Object
  <2>. QED
    BY <1>6, <2>1, <2>3, <2>4, <2>5, RegistrarMoves
<1>14. CASE RegistrarDies(r)
  <2>1. registrar' = [registrar EXCEPT ![r] = NoRecord]
        /\ UNCHANGED <<prov, storeLinks, current, runner, ingestor, ranTasks, ingested>>
    BY <1>14 DEF RegistrarDies
  <2>2. AuthorizedIsEarned'
    BY <2>1 DEF StoreInv, ObjectiveInv, AuthorizedIsEarned, Executable, Evaluate, AuthorizedObject, Object
  <2>. QED
    BY <1>6, <2>1, <2>2, CurrentStays, RegistrarMoves
<1>. QED
  BY <1>7, <1>8, <1>10, <1>11, <1>12, <1>13, <1>14

LEMMA RunnerSteps ==
  ASSUME StoreInv, NEW r \in Runners, (\E t \in AgentTasks : AuthorizeTask(r, t)) \/ RunCommand(r)
  PROVE  StoreInv'
<1>1. runner \in [Runners -> RunnerRows]
  BY DEF StoreInv, AuthorityShape
<1>2. UNCHANGED <<objects, prov, storeLinks, current, registrar, ingestor, ingested>>
  BY DEF AuthorizeTask, RunCommand
<1>3. AuthorizedIsEarned' /\ RegistrarsLinked' /\ CurrentIsLinked' /\ IngestsLinked' /\ IngestConverges'
  <2>1. AuthorizedIsEarned' /\ RegistrarsLinked'
    BY <1>2 DEF StoreInv, ObjectiveInv, AuthorizedIsEarned, RegistrarsLinked, Executable, Evaluate,
                AuthorizedObject, Object,
                DecisionLinked, AuthorizedLinked
  <2>. QED
    BY <1>2, <2>1, CurrentStays, LinksGrow
<1>4. ASSUME NEW t \in AgentTasks, AuthorizeTask(r, t) PROVE StoreInv'
  <2>. DEFINE row == [pc |-> "authorized", task |-> t,
                      auth |-> IF NeedsObjective(t) THEN TaskOf[t].auth ELSE NoObject]
  <2>1. row \in RunnerRows /\ row.task = t /\ (NeedsObjective(t) => row.auth = TaskOf[t].auth)
    BY DEF RunnerRows
  <2>2. runner' = [runner EXCEPT ![r] = row] /\ ranTasks' = ranTasks
    BY <1>4 DEF AuthorizeTask
  <2>3. NeedsObjective(t) => Earned(row.auth.of)
    <3>. SUFFICES ASSUME NeedsObjective(t) PROVE Earned(TaskOf[t].auth.of)
      BY <2>1
    <3>. DEFINE x == <<TaskOf[t].auth, "objective_integrity", "OWNER_AUTHORIZED">>
    <3>1. x \in prov
      BY <1>4 DEF AuthorizeTask, ContextVerified, HasProvenance
    <3>2. PICK p \in Proposals : TaskOf[t].auth = AuthorizedObject(p, "EXECUTE") /\ Executable(p)
      BY <3>1 DEF StoreInv, ObjectiveInv, AuthorizedIsEarned
    <3>. QED
      BY <3>2, ExecutableIsEarned DEF Executable, AuthorizedObject, Object
  <2>. HIDE DEF row
  <2>4. runner' \in [Runners -> RunnerRows] /\ runner'[r] = row /\ \A q \in Runners : q # r => runner'[q] = runner[q]
    BY <1>1, <2>1, <2>2
  <2>5. ASSUME NEW q \in Runners, NEW c, c = runner'[q], c.pc = "authorized", NeedsObjective(c.task)
        PROVE  Earned(c.auth.of)
    <3>1. CASE q = r
      BY <2>1, <2>3, <2>4, <2>5, <3>1
    <3>2. CASE q # r
      BY <2>4, <2>5, <3>2 DEF StoreInv, ObjectiveInv, RunnersAreAuthorized
    <3>. QED
      BY <3>1, <3>2
  <2>6. RunnersAreAuthorized' /\ RunsAreAuthorized'
    BY <2>2, <2>5 DEF RunnersAreAuthorized, RunsAreAuthorized, Earned, NeedsObjective, Mutates, StoreInv, ObjectiveInv
  <2>7. AuthorityShape'
    BY <1>2, <2>4 DEF StoreInv, AuthorityShape
  <2>. QED
    BY <1>3, <2>6, <2>7 DEF StoreInv, ObjectiveInv
<1>5. CASE RunCommand(r)
  <2>1. runner' = [runner EXCEPT ![r] = NoRun] /\ runner[r].pc = "authorized"
        /\ ranTasks' = ranTasks \union {<<runner[r].task, runner[r].auth>>}
    BY <1>5 DEF RunCommand
  <2>2. runner' \in [Runners -> RunnerRows] /\ NoRun.pc = "idle" /\ runner'[r] = NoRun
        /\ \A q \in Runners : q # r => runner'[q] = runner[q]
    BY <1>1, <2>1, RestingRows DEF NoRun
  <2>3. ASSUME NEW q \in Runners, NEW c, c = runner'[q], c.pc = "authorized", NeedsObjective(c.task)
        PROVE  Earned(c.auth.of)
    BY <2>2, <2>3 DEF StoreInv, ObjectiveInv, RunnersAreAuthorized
  <2>4. NeedsObjective(runner[r].task) => Earned(runner[r].auth.of)
    BY <2>1 DEF StoreInv, ObjectiveInv, RunnersAreAuthorized
  <2>5. \A x \in ranTasks : NeedsObjective(x[1]) => Earned(x[2].of)
    BY DEF StoreInv, ObjectiveInv, RunsAreAuthorized, Earned
  <2>6. RunnersAreAuthorized'
    BY <2>3 DEF RunnersAreAuthorized, Earned, NeedsObjective, Mutates
  <2>7. \A x \in ranTasks' : NeedsObjective(x[1]) => Earned(x[2].of)
    BY <2>1, <2>4, <2>5
  <2>8. RunsAreAuthorized' /\ AuthorityShape'
    BY <1>2, <2>2, <2>7 DEF StoreInv, AuthorityShape, RunsAreAuthorized, Earned, NeedsObjective, Mutates
  <2>. QED
    BY <1>3, <2>6, <2>8 DEF StoreInv, ObjectiveInv
<1>. QED
  BY <1>4, <1>5

LEMMA IngestorMoves ==
  ASSUME StoreInv, NEW i \in Ingestors, NEW row \in IngestRows,
         ingestor' = [ingestor EXCEPT ![i] = row], storeLinks \subseteq storeLinks', AuthorizedIsEarned',
         UNCHANGED <<current, registrar, runner, ranTasks>>,
         row.doc = "none" => row.linked,
         row.doc # "none" => row.done <= Len(Documents[row.doc]),
         row.doc # "none" /\ row.linked => ValuesLinked(row.doc, row.done)',
         ~row.linked => row.done # 0 /\ ValuesLinked(row.doc, row.done - 1)',
         ingested' \subseteq DOMAIN Documents, IngestConverges'
  PROVE  StoreInv'
<1>1. ingestor \in [Ingestors -> IngestRows]
  BY DEF StoreInv, AuthorityShape
<1>2. ingestor' \in [Ingestors -> IngestRows] /\ ingestor'[i] = row
      /\ \A q \in Ingestors : q # i => ingestor'[q] = ingestor[q]
  BY <1>1
<1>3. AuthorityShape'
  BY <1>2 DEF StoreInv, AuthorityShape
<1>4. IngestsLinked'
  <2>1. ASSUME NEW q \in Ingestors, NEW c, c = ingestor'[q]
        PROVE  /\ c.doc = "none" => c.linked
               /\ c.doc # "none" => c.done <= Len(Documents[c.doc])
               /\ c.doc # "none" /\ c.linked => ValuesLinked(c.doc, c.done)'
               /\ ~c.linked => c.done # 0 /\ ValuesLinked(c.doc, c.done - 1)'
    <3>1. CASE q = i
      BY <1>2, <2>1, <3>1
    <3>2. CASE q # i
      <4>1. c = ingestor[q]
        BY <1>2, <2>1, <3>2
      <4>2. /\ c.doc = "none" => c.linked
            /\ c.doc # "none" => c.done <= Len(Documents[c.doc])
            /\ c.doc # "none" /\ c.linked => ValuesLinked(c.doc, c.done)
            /\ ~c.linked => c.done # 0 /\ ValuesLinked(c.doc, c.done - 1)
        BY <4>1 DEF StoreInv, IngestsLinked
      <4>. QED
        BY <4>2, LinksGrow
    <3>. QED
      BY <3>1, <3>2
  <2>. QED
    BY <2>1 DEF IngestsLinked, ValuesLinked, RootObject, ValueObject, Object
<1>5. RegistrarsLinked' /\ RunnersAreAuthorized' /\ RunsAreAuthorized'
  <2>1. RegistrarsLinked'
    <3>1. ASSUME NEW r \in Registrars, NEW c, c = registrar[r]
          PROVE  /\ c.pc # "idle" => c.p \in Proposals
                 /\ c.pc \in {"linked", "authorized", "authlinked"} => Executable(c.p) /\ DecisionLinked(c.p)'
                 /\ c.pc = "authlinked" => AuthorizedLinked(c.p)'
      <4>1. /\ c.pc # "idle" => c.p \in Proposals
            /\ c.pc \in {"linked", "authorized", "authlinked"} => Executable(c.p) /\ DecisionLinked(c.p)
            /\ c.pc = "authlinked" => AuthorizedLinked(c.p)
        BY <3>1 DEF StoreInv, ObjectiveInv, RegistrarsLinked
      <4>. QED
        BY <4>1, LinksGrow
    <3>. QED
      BY <3>1 DEF RegistrarsLinked, Executable, Evaluate, DecisionLinked, AuthorizedLinked
  <2>. QED
    BY <2>1 DEF StoreInv, ObjectiveInv, RunnersAreAuthorized, RunsAreAuthorized, NeedsObjective, Mutates, Earned
<1>6. CurrentIsLinked'
  BY CurrentStays
<1>. QED
  BY <1>3, <1>4, <1>5, <1>6 DEF StoreInv, ObjectiveInv

LEMMA IngestSteps ==
  ASSUME StoreInv, NEW i \in Ingestors,
         \/ \E d \in DOMAIN Documents : IngestRoot(i, d)
         \/ IngestValue(i) \/ LinkValue(i) \/ IngestReturns(i) \/ IngestorDies(i)
  PROVE  StoreInv'
<1>1. ingestor \in [Ingestors -> IngestRows] /\ ingested \subseteq DOMAIN Documents
  BY DEF StoreInv, AuthorityShape
<1>2. PICK c : c = ingestor[i]
  OBVIOUS
<1>3. /\ c \in IngestRows /\ (c.doc = "none" => c.linked)
      /\ c.doc # "none" => c.doc \in DOMAIN Documents /\ c.done <= Len(Documents[c.doc])
      /\ c.doc # "none" /\ c.linked => ValuesLinked(c.doc, c.done)
      /\ ~c.linked => c.doc # "none" /\ c.done # 0 /\ ValuesLinked(c.doc, c.done - 1)
  BY <1>1, <1>2 DEF StoreInv, IngestsLinked, IngestRows
<1>4. \A d \in DOMAIN Documents : d # "none" /\ Len(Documents[d]) \in Nat
      /\ DOMAIN Documents[d] = 1..Len(Documents[d])
  BY AuthorityAssumption
<1>5. NoIngest \in IngestRows /\ NoIngest.doc = "none" /\ NoIngest.linked = TRUE
  BY RestingRows DEF NoIngest
<1>6. c.done \in Nat /\ c.linked \in BOOLEAN /\ c.doc \in DOMAIN Documents \union {"none"}
  BY <1>3 DEF IngestRows
<1>7. /\ storeLinks \subseteq storeLinks' /\ UNCHANGED <<current, registrar, runner, ranTasks>>
      /\ AuthorizedIsEarned'
  <2>1. storeLinks \subseteq storeLinks' /\ UNCHANGED <<current, registrar, runner, ranTasks>>
    BY DEF IngestRoot, IngestValue, LinkValue, Link, IngestReturns, IngestorDies
  <2>2. ASSUME prov' = prov PROVE AuthorizedIsEarned'
    <3>1. AuthorizedIsEarned
      BY DEF StoreInv, ObjectiveInv
    <3>. QED
      BY <2>2, <3>1 DEF AuthorizedIsEarned, Executable, Evaluate, AuthorizedObject, Object
  <2>3. ASSUME NEW obj, Put(obj, "chatgpt_reconciliation", "SECONDARY_RECONCILIATION") PROVE AuthorizedIsEarned'
    BY <2>3, PutEarns
  <2>. QED
    BY <2>1, <2>2, <2>3 DEF IngestRoot, IngestValue, LinkValue, IngestReturns, IngestorDies
<1>8. UNCHANGED ingested => IngestConverges'
  BY <1>7, LinksGrow
<1>9. ASSUME NEW d \in DOMAIN Documents, IngestRoot(i, d) PROVE StoreInv'
  <2>. DEFINE row == [doc |-> d, done |-> 0, linked |-> TRUE]
  <2>1. row \in IngestRows /\ row.doc = d /\ row.done = 0 /\ row.linked = TRUE
    BY DEF IngestRows
  <2>2. ingestor' = [ingestor EXCEPT ![i] = row] /\ UNCHANGED ingested
    BY <1>9 DEF IngestRoot
  <2>. HIDE DEF row
  <2>3. ValuesLinked(d, 0)' /\ 0 <= Len(Documents[d])
    BY <1>4 DEF ValuesLinked
  <2>. QED
    BY <1>1, <1>4, <1>7, <1>8, <2>1, <2>2, <2>3, IngestorMoves
<1>10. CASE IngestValue(i)
  <2>. DEFINE row == [c EXCEPT !.done = c.done + 1, !.linked = FALSE]
  <2>1. /\ ingestor' = [ingestor EXCEPT ![i] = row] /\ UNCHANGED ingested
        /\ c.doc # "none" /\ c.linked /\ c.done < Len(Documents[c.doc])
    BY <1>1, <1>2, <1>10 DEF IngestValue
  <2>2. row \in IngestRows /\ row.doc = c.doc /\ row.done = c.done + 1 /\ row.linked = FALSE
    <3>1. PICK m \in Nat : m = c.done + 1
      BY <1>6
    <3>2. row = [c EXCEPT !.done = m, !.linked = FALSE]
      BY <3>1
    <3>. QED
      BY <1>3, <3>1, <3>2 DEF IngestRows
  <2>. HIDE DEF row
  <2>3. c.done + 1 <= Len(Documents[c.doc]) /\ c.done + 1 # 0 /\ (c.done + 1) - 1 = c.done
    BY <1>3, <1>4, <1>6, <2>1
  <2>4. ValuesLinked(c.doc, c.done)'
    BY <1>3, <1>7, <2>1, LinksGrow
  <2>. QED
    BY <1>1, <1>7, <1>8, <2>1, <2>2, <2>3, <2>4, IngestorMoves
<1>11. CASE LinkValue(i)
  <2>. DEFINE row == [c EXCEPT !.linked = TRUE]
  <2>1. /\ ingestor' = [ingestor EXCEPT ![i] = row] /\ UNCHANGED ingested /\ ~c.linked
        /\ storeLinks' = storeLinks \union {<<RootObject(c.doc), ValueObject(c.doc, c.done)>>}
    BY <1>2, <1>11 DEF LinkValue, Link
  <2>2. row \in IngestRows /\ row.doc = c.doc /\ row.done = c.done /\ row.linked = TRUE
    BY <1>3 DEF IngestRows
  <2>. HIDE DEF row
  <2>3. c.doc # "none" /\ c.done # 0
       /\ \A k \in 1..(c.done - 1) : <<RootObject(c.doc), ValueObject(c.doc, k)>> \in storeLinks
    BY <1>3, <2>1 DEF ValuesLinked
  <2>4. \A k \in 1..c.done : k = c.done \/ k \in 1..(c.done - 1)
    BY <1>6
  <2>5. \A k \in 1..c.done : <<RootObject(c.doc), ValueObject(c.doc, k)>> \in storeLinks'
    BY <2>1, <2>3, <2>4
  <2>6. ValuesLinked(c.doc, c.done)'
    BY <2>5 DEF ValuesLinked, RootObject, ValueObject, Object
  <2>. QED
    BY <1>1, <1>3, <1>7, <1>8, <2>1, <2>2, <2>3, <2>6, IngestorMoves
<1>12. CASE IngestReturns(i)
  <2>1. /\ c.doc # "none" /\ c.linked /\ c.done = Len(Documents[c.doc]) /\ ingested' = ingested \union {c.doc}
        /\ ingestor' = [ingestor EXCEPT ![i] = NoIngest] /\ UNCHANGED storeLinks
    BY <1>2, <1>12 DEF IngestReturns
  <2>2. \A n \in DOMAIN Documents[c.doc] : <<RootObject(c.doc), ValueObject(c.doc, n)>> \in storeLinks
    BY <1>3, <1>4, <2>1 DEF ValuesLinked
  <2>3. \A d \in ingested' : \A n \in DOMAIN Documents[d] : <<RootObject(d), ValueObject(d, n)>> \in storeLinks
    BY <2>1, <2>2 DEF StoreInv, IngestConverges
  <2>4. IngestConverges'
    BY <2>1, <2>3 DEF IngestConverges, RootObject, ValueObject, Object
  <2>5. ingested' \subseteq DOMAIN Documents
    BY <1>1, <1>3, <2>1
  <2>. QED
    BY <1>5, <1>7, <2>1, <2>4, <2>5, IngestorMoves
<1>13. CASE IngestorDies(i)
  <2>1. ingestor' = [ingestor EXCEPT ![i] = NoIngest] /\ UNCHANGED ingested
    BY <1>13 DEF IngestorDies
  <2>. QED
    BY <1>1, <1>5, <1>7, <1>8, <2>1, IngestorMoves
<1>. QED
  BY <1>9, <1>10, <1>11, <1>12, <1>13

LEMMA StoreStep == StoreInv /\ [AuthorityNext]_authorityVars => StoreInv'
<1>. SUFFICES ASSUME StoreInv, [AuthorityNext]_authorityVars PROVE StoreInv'
  OBVIOUS
<1>1. CASE UNCHANGED authorityVars
  <2>1. AuthorizedIsEarned'
    BY <1>1 DEF authorityVars, StoreInv, ObjectiveInv, AuthorizedIsEarned, Executable, Evaluate, AuthorizedObject,
                Object
  <2>. QED
    BY <1>1, <2>1, OthersPut DEF authorityVars
<1>2. ASSUME NEW obj \in Foreign, PutForeign(obj) PROVE StoreInv'
  BY <1>2, PutEarns, OthersPut DEF PutForeign
<1>3. ASSUME NEW t \in CapTokens, GuardianIssues(t) PROVE StoreInv'
  BY <1>3, PutEarns, OthersPut DEF GuardianIssues
<1>. QED
  BY <1>1, <1>2, <1>3, RegistrarSteps, RunnerSteps, IngestSteps DEF AuthorityNext, ObjectiveNext, IngestNext

LEMMA StoreHolds == StoreInv => RunsAreAuthorized /\ CurrentIsTraceable /\ IngestConverges
<1>. SUFFICES ASSUME StoreInv, NEW o \in Objectives, current[o] # NoObject
     PROVE  /\ <<ProposalObject(current[o].of), EvaluationObject(o, "EXECUTE")>> \in storeLinks
            /\ <<EvaluationObject(o, "EXECUTE"), current[o]>> \in storeLinks
  BY DEF StoreInv, ObjectiveInv, CurrentIsTraceable
<1>1. PICK p \in Proposals :
        /\ current[o] = AuthorizedObject(p, "EXECUTE") /\ ProposalOf[p].objective = o
        /\ Executable(p) /\ DecisionLinked(p) /\ AuthorizedLinked(p)
  BY DEF StoreInv, ObjectiveInv, CurrentIsLinked
<1>2. current[o].of = p /\ DecisionOf(p) = EvaluationObject(o, "EXECUTE")
  BY <1>1 DEF AuthorizedObject, Object, DecisionOf, Executable
<1>. QED
  BY <1>1, <1>2 DEF DecisionLinked, AuthorizedLinked

-------------------------------------------------------------------------------
(* The three ledgers that promote by evidence.                              *)

\* One call of the factory at a time: discover and _set_stage of two would set a
\* stage under an identity it was not read for.
OneFactoryCall == \A f, g \in FactoryCalls : f = g

FactoryRows == [op : {"idle", "discover", "stage", "gate"}, identity : Candidates \union {"none"}, stage : Stages]

FactoryShape ==
  /\ candidate \in [identity : Candidates \union {"none"}, stage : Stages]
  /\ gate \in [Candidates -> [Required -> {"none", "pass", "fail"}]]
  /\ factory \in [FactoryCalls -> FactoryRows]

\* An identity whose gates have all passed is noted as such.
AllPassedIsEarned == \A i \in Candidates : (\A g \in Required : gate[i][g] = "pass") => i \in earned

\* A call is about to give the candidate the stage it read for this identity.
CallsAreOfCandidate ==
  \A f \in FactoryCalls :
    /\ factory[f].op = "discover" => factory[f].stage = "DISCOVERED"
    /\ factory[f].op = "stage" => /\ factory[f].identity = candidate.identity
                                  /\ factory[f].stage = "PROMOTED" => factory[f].identity \in earned

FactoryInv == FactoryShape /\ AllPassedIsEarned /\ CallsAreOfCandidate /\ PromotionIsEarned

\* The stages, one by one.
LEMMA StageNames ==
  /\ \A s \in {"DISCOVERED", "WRAPPED", "BUILDABLE", "TESTED", "DEPLOYED", "REACHABLE", "PROMOTED", "BLOCKED",
                "QUARANTINED", "DEMOTED"} : s \in Stages
  /\ Len(Structural) = 5
  /\ \A n \in 1..5 : Structural[n] \in Stages /\ Structural[n] # "PROMOTED"
<1>. DEFINE T == <<"REACHABLE", "CHATGPT_CALLABLE_VERIFIED", "PROMOTED">>
            Names == {"DISCOVERED", "WRAPPED", "BUILDABLE", "TESTED", "DEPLOYED", "REACHABLE",
                      "CHATGPT_CALLABLE_VERIFIED", "PROMOTED"}
<1>1. /\ Len(Structural) = 5 /\ Structural[1] = "DISCOVERED" /\ Structural[2] = "WRAPPED"
      /\ Structural[3] = "BUILDABLE" /\ Structural[4] = "TESTED" /\ Structural[5] = "DEPLOYED"
  BY DEF Structural
<1>2. Len(T) = 3 /\ T[1] = "REACHABLE" /\ T[2] = "CHATGPT_CALLABLE_VERIFIED" /\ T[3] = "PROMOTED"
  OBVIOUS
<1>3. Structural \in Seq(Names) /\ T \in Seq(Names)
  BY DEF Structural
<1>. HIDE DEF T
<1>. HIDE DEF Names
<1>4. /\ Structural \o T \in Seq(Names) /\ Len(Structural \o T) = Len(Structural) + Len(T)
      /\ \A i \in 1..(Len(Structural) + Len(T)) :
           (Structural \o T)[i] = IF i <= Len(Structural) THEN Structural[i] ELSE T[i - Len(Structural)]
  BY <1>3, ConcatProperties
<1>9. Len(Structural) + Len(T) = 8
  BY <1>1, <1>2
<1>5. DOMAIN (Structural \o T) = 1..8
  BY <1>4, <1>9, LenProperties
<1>6. \A i \in 1..8 : (Structural \o T)[i] \in Stages
  BY <1>5 DEF Stages, ToSet, Ordered, T
<1>7. \A i \in 1..5 : Structural[i] \in Stages
  <2>1. \A i \in 1..5 : i \in 1..8 /\ (Structural \o T)[i] = Structural[i]
    BY <1>1, <1>4, <1>9
  <2>. QED
    BY <1>6, <2>1
<1>8. T[1] \in Stages /\ T[3] \in Stages
  <2>1. (Structural \o T)[6] = T[1] /\ (Structural \o T)[8] = T[3]
    BY <1>1, <1>4, <1>9
  <2>2. (Structural \o T)[6] \in Stages /\ (Structural \o T)[8] \in Stages
    <3>1. 6 \in 1..8 /\ 8 \in 1..8
      OBVIOUS
    <3>. QED
      BY <1>6, <3>1, Zenon
  <2>. QED
    BY <2>1, <2>2
<1>. QED
  BY <1>1, <1>2, <1>7, <1>8 DEF Stages

LEMMA FactoryStart == PromotionInit => FactoryInv
<1>. SUFFICES ASSUME PromotionInit PROVE FactoryInv
  OBVIOUS
<1>1. NoCall \in FactoryRows /\ NoCall.op = "idle"
  BY StageNames DEF NoCall, FactoryRows
<1>2. FactoryShape
  BY <1>1, StageNames DEF PromotionInit, FactoryShape
<1>3. "health_200" \in Required
  BY DEF Required
<1>4. AllPassedIsEarned
  BY <1>3 DEF PromotionInit, AllPassedIsEarned
<1>. QED
  BY <1>1, <1>2, <1>4 DEF PromotionInit, FactoryInv, CallsAreOfCandidate, PromotionIsEarned

\* A call that writes nothing yet: it goes on with what it has read.
LEMMA FactoryReads ==
  ASSUME FactoryInv, NEW f \in FactoryCalls, NEW row \in FactoryRows, UNCHANGED <<candidate, gate, earned>>,
         factory' = [factory EXCEPT ![f] = row], row.op = "discover" => row.stage = "DISCOVERED",
         row.op = "stage" => /\ row.identity = candidate.identity
                             /\ row.stage = "PROMOTED" => row.identity \in earned
  PROVE  FactoryInv'
<1>1. FactoryShape' /\ factory'[f] = row /\ \A g \in FactoryCalls : g # f => factory'[g] = factory[g]
  BY DEF FactoryInv, FactoryShape
<1>. QED
  BY <1>1 DEF FactoryInv, AllPassedIsEarned, CallsAreOfCandidate, PromotionIsEarned

LEMMA FactoryStep == OneFactoryCall /\ FactoryInv /\ [PromotionNext]_promotionVars => FactoryInv'
<1>. SUFFICES ASSUME OneFactoryCall, FactoryInv, [PromotionNext]_promotionVars PROVE FactoryInv'
  OBVIOUS
<1>1. CASE UNCHANGED factoryVars
  BY <1>1 DEF factoryVars, FactoryInv, FactoryShape, AllPassedIsEarned, CallsAreOfCandidate, PromotionIsEarned
<1>2. ASSUME NEW f \in FactoryCalls, NEW i \in Candidates, DiscoverReads(f, i) PROVE FactoryInv'
  <2>1. PICK row \in FactoryRows : row = [op |-> "discover", identity |-> i, stage |-> "DISCOVERED"]
    BY StageNames DEF FactoryRows
  <2>2. row.op = "discover" /\ row.stage = "DISCOVERED"
    BY <2>1
  <2>. QED
    BY <1>2, <2>1, <2>2, FactoryReads DEF DiscoverReads
<1>3. ASSUME NEW f \in FactoryCalls, DiscoverWrites(f) PROVE FactoryInv'
  <2>1. NoCall \in FactoryRows /\ NoCall.op = "idle"
    BY StageNames DEF NoCall, FactoryRows
  <2>2. candidate' \in [identity : Candidates \union {"none"}, stage : Stages] /\ candidate'.stage = "DISCOVERED"
    BY <1>3 DEF DiscoverWrites, FactoryInv, FactoryShape, FactoryRows, CallsAreOfCandidate
  <2>3. FactoryShape' /\ factory'[f] = NoCall /\ \A g \in FactoryCalls : g = f
    BY <1>3, <2>1, <2>2 DEF DiscoverWrites, FactoryInv, FactoryShape, OneFactoryCall
  <2>. QED
    BY <1>3, <2>1, <2>2, <2>3
    DEF DiscoverWrites, FactoryInv, AllPassedIsEarned, CallsAreOfCandidate, PromotionIsEarned
<1>4. ASSUME NEW f \in FactoryCalls, AdvanceStructural(f) PROVE FactoryInv'
  <2>1. PICK n \in 1..4 : factory' = [factory EXCEPT ![f] =
            [op |-> "stage", identity |-> candidate.identity, stage |-> Structural[n + 1]]]
    <3>1. \A n \in 1..(Len(Structural) - 1) : n \in 1..4
      BY StageNames
    <3>. QED
      BY <1>4, <3>1 DEF AdvanceStructural
  <2>2. Structural[n + 1] \in Stages /\ Structural[n + 1] # "PROMOTED"
    BY StageNames
  <2>3. PICK row \in FactoryRows :
          row = [op |-> "stage", identity |-> candidate.identity, stage |-> Structural[n + 1]]
    BY <2>2 DEF FactoryRows, FactoryInv, FactoryShape
  <2>4. row.op = "stage" /\ row.identity = candidate.identity /\ row.stage # "PROMOTED"
    BY <2>2, <2>3
  <2>. QED
    BY <1>4, <2>1, <2>3, <2>4, FactoryReads DEF AdvanceStructural
<1>5. ASSUME NEW f \in FactoryCalls, EvaluateReads(f) PROVE FactoryInv'
  <2>. DEFINE i == candidate.identity
              s == NewStage(candidate.stage, gate[i])
  <2>1. i \in Candidates \union {"none"} /\ i # "none" /\ candidate.stage \in Stages
    BY <1>5 DEF EvaluateReads, FactoryInv, FactoryShape
  <2>2. s \in Stages
    BY <2>1, StageNames DEF NewStage
  <2>3. s = "PROMOTED" => i \in earned
    <3>1. s = "PROMOTED" => \A g \in Required : gate[i][g] = "pass"
      BY <2>1, StageNames DEF NewStage
    <3>. QED
      BY <2>1, <3>1 DEF FactoryInv, AllPassedIsEarned
  <2>4. PICK row \in FactoryRows : row = [op |-> "stage", identity |-> i, stage |-> s]
    BY <2>1, <2>2 DEF FactoryRows
  <2>5. row.op = "stage" /\ row.identity = i /\ row.stage = s
    BY <2>4
  <2>6. factory' = [factory EXCEPT ![f] = row] /\ UNCHANGED <<candidate, gate, earned>>
    BY <1>5, <2>4 DEF EvaluateReads
  <2>. HIDE DEF s
  <2>. QED
    BY <2>3, <2>5, <2>6, FactoryReads
<1>6. ASSUME NEW f \in FactoryCalls, SetStage(f) PROVE FactoryInv'
  <2>1. NoCall \in FactoryRows /\ NoCall.op = "idle"
    BY StageNames DEF NoCall, FactoryRows
  <2>2. /\ candidate' \in [identity : Candidates \union {"none"}, stage : Stages]
        /\ candidate'.stage = factory[f].stage /\ candidate'.identity = candidate.identity
    BY <1>6 DEF SetStage, FactoryInv, FactoryShape, FactoryRows
  <2>3. FactoryShape' /\ factory'[f] = NoCall /\ \A g \in FactoryCalls : g = f
    BY <1>6, <2>1, <2>2 DEF SetStage, FactoryInv, FactoryShape, OneFactoryCall
  <2>4. candidate'.stage = "PROMOTED" => candidate'.identity \in earned
    BY <1>6, <2>2 DEF SetStage, FactoryInv, CallsAreOfCandidate
  <2>. QED
    BY <1>6, <2>1, <2>3, <2>4 DEF SetStage, FactoryInv, AllPassedIsEarned, CallsAreOfCandidate, PromotionIsEarned
<1>7. ASSUME NEW f \in FactoryCalls, GateReads(f) PROVE FactoryInv'
  <2>1. PICK row \in FactoryRows : row = [op |-> "gate", identity |-> candidate.identity, stage |-> "DISCOVERED"]
    BY StageNames DEF FactoryRows, FactoryInv, FactoryShape
  <2>2. row.op = "gate"
    BY <2>1
  <2>3. [NoCall EXCEPT !.op = "gate", !.identity = candidate.identity] = row
    <3>. DEFINE r == [NoCall EXCEPT !.op = "gate", !.identity = candidate.identity]
    <3>1. DOMAIN r = {"op", "identity", "stage"} /\ r = [x \in {"op", "identity", "stage"} |-> r[x]]
      BY DEF NoCall
    <3>2. r["op"] = "gate" /\ r["identity"] = candidate.identity /\ r["stage"] = "DISCOVERED"
      BY DEF NoCall
    <3>3. row = [x \in {"op", "identity", "stage"} |-> row[x]] /\ row["op"] = "gate"
          /\ row["identity"] = candidate.identity /\ row["stage"] = "DISCOVERED"
      BY <2>1
    <3>. QED
      BY <3>1, <3>2, <3>3
  <2>4. factory' = [factory EXCEPT ![f] = row] /\ UNCHANGED <<candidate, gate, earned>>
    BY <1>7, <2>3 DEF GateReads
  <2>. QED
    BY <2>2, <2>4, FactoryReads
<1>8. ASSUME NEW f \in FactoryCalls, NEW g \in Required, NEW passed \in BOOLEAN, GateWrites(f, g, passed)
      PROVE  FactoryInv'
  <2>1. NoCall \in FactoryRows /\ NoCall.op = "idle"
    BY StageNames DEF NoCall, FactoryRows
  <2>2. FactoryShape' /\ factory'[f] = NoCall /\ \A h \in FactoryCalls : h = f
    BY <1>8, <2>1 DEF GateWrites, FactoryInv, FactoryShape, OneFactoryCall
  <2>3. earned \subseteq earned' /\ UNCHANGED candidate
    BY <1>8 DEF GateWrites
  <2>4. AllPassedIsEarned'
    <3>. SUFFICES ASSUME NEW i \in Candidates, \A h \in Required : gate'[i][h] = "pass" PROVE i \in earned'
      BY DEF AllPassedIsEarned
    <3>1. CASE i = factory[f].identity
      BY <1>8, <3>1 DEF GateWrites
    <3>2. CASE i # factory[f].identity
      <4>1. gate'[i] = gate[i]
        BY <1>8, <3>2 DEF GateWrites, FactoryInv, FactoryShape
      <4>. QED
        BY <2>3, <4>1 DEF FactoryInv, AllPassedIsEarned
    <3>. QED
      BY <3>1, <3>2
  <2>. QED
    BY <2>1, <2>2, <2>3, <2>4 DEF FactoryInv, CallsAreOfCandidate, PromotionIsEarned
<1>9. ASSUME NEW f \in FactoryCalls, FactoryDies(f) PROVE FactoryInv'
  <2>1. NoCall \in FactoryRows /\ NoCall.op = "idle"
    BY StageNames DEF NoCall, FactoryRows
  <2>. QED
    BY <1>9, <2>1, FactoryReads DEF FactoryDies
<1>10. CASE ReconcileNext \/ ImprovementNext \/ UNCHANGED promotionVars
  BY <1>1, <1>10 DEF ReconcileNext, ImprovementNext, EvaluateSnapshot, MarkApplied, RecordCompleted, AttemptPromotion,
                     promotionVars, factoryVars
<1>. QED
  BY <1>2, <1>3, <1>4, <1>5, <1>6, <1>7, <1>8, <1>9, <1>10 DEF PromotionNext, FactoryNext

\* The other two ledgers keep their own rows.
LedgersInv ==
  /\ DOMAIN snapshot = Snapshots /\ (mirrored # <<>> => mirrored[1] \in Snapshots)
  /\ lifecycle \in Nat
  /\ AppliedIsMirrored /\ LifecycleIsEvidenced

LEMMA LedgersStart == PromotionInit => LedgersInv
BY DEF PromotionInit, LedgersInv, AppliedIsMirrored, LifecycleIsEvidenced

LEMMA LedgersStep == LedgersInv /\ [PromotionNext]_promotionVars => LedgersInv'
<1>. SUFFICES ASSUME LedgersInv, [PromotionNext]_promotionVars PROVE LedgersInv'
  OBVIOUS
<1>1. CASE UNCHANGED <<snapshot, mirrored, evidence, lifecycle>>
  BY <1>1 DEF LedgersInv, AppliedIsMirrored, LifecycleIsEvidenced, Diff
<1>2. CASE FactoryNext \/ UNCHANGED promotionVars
  BY <1>1, <1>2 DEF FactoryNext, DiscoverReads, DiscoverWrites, AdvanceStructural, EvaluateReads, SetStage, GateReads,
                    GateWrites, FactoryDies, promotionVars, reconcileVars, improvementVars
<1>3. ASSUME NEW s \in Snapshots, EvaluateSnapshot(s) PROVE LedgersInv'
  <2>1. /\ DOMAIN snapshot' = Snapshots /\ UNCHANGED <<mirrored, evidence, lifecycle>>
        /\ snapshot'[s] = "APPLIED" => Diff(ObservedOf[s], DesiredOf[s]) = {}
        /\ \A t \in Snapshots : t # s => snapshot'[t] = snapshot[t]
    BY <1>3 DEF EvaluateSnapshot, LedgersInv, improvementVars
  <2>2. AppliedIsMirrored'
    <3>. SUFFICES ASSUME mirrored # <<>>, snapshot'[mirrored[1]] = "APPLIED",
                         Diff(ObservedOf[mirrored[1]], DesiredOf[mirrored[1]]) # {}
                  PROVE  Diff(mirrored[2], DesiredOf[mirrored[1]]) = {}
      BY <2>1 DEF AppliedIsMirrored, Diff
    <3>. QED
      BY <2>1 DEF LedgersInv, AppliedIsMirrored
  <2>. QED
    BY <2>1, <2>2 DEF LedgersInv, LifecycleIsEvidenced
<1>4. ASSUME NEW s \in Snapshots, NEW after \in Readbacks, MarkApplied(s, after) PROVE LedgersInv'
  <2>1. /\ DOMAIN snapshot' = Snapshots /\ UNCHANGED <<evidence, lifecycle>>
        /\ snapshot'[s] = "APPLIED" => Diff(after, DesiredOf[s]) = {}
        /\ mirrored' = <<s, after>> /\ mirrored'[1] = s /\ mirrored'[2] = after
    BY <1>4 DEF MarkApplied, LedgersInv, improvementVars
  <2>2. AppliedIsMirrored'
    BY <2>1 DEF AppliedIsMirrored, Diff
  <2>. QED
    BY <2>1, <2>2 DEF LedgersInv, LifecycleIsEvidenced
<1>5. CASE RecordCompleted
  <2>1. evidence \subseteq evidence' /\ UNCHANGED <<snapshot, mirrored, lifecycle>>
    BY <1>5 DEF RecordCompleted, reconcileVars
  <2>. QED
    BY <2>1 DEF LedgersInv, AppliedIsMirrored, LifecycleIsEvidenced, Diff
<1>6. CASE AttemptPromotion
  <2>1. /\ lifecycle' = lifecycle + 1 /\ RequiredEvidence[lifecycle + 1] \subseteq evidence
        /\ UNCHANGED <<snapshot, mirrored, evidence>>
    BY <1>6 DEF AttemptPromotion, reconcileVars
  <2>2. lifecycle' \in Nat /\ \A n \in 1..lifecycle' : n = lifecycle + 1 \/ n \in 1..lifecycle
    BY <2>1 DEF LedgersInv
  <2>3. LifecycleIsEvidenced'
    BY <2>1, <2>2 DEF LedgersInv, LifecycleIsEvidenced
  <2>. QED
    BY <2>1, <2>2, <2>3 DEF LedgersInv, AppliedIsMirrored, Diff
<1>. QED
  BY <1>2, <1>3, <1>4, <1>5, <1>6 DEF PromotionNext, ReconcileNext, ImprovementNext

-------------------------------------------------------------------------------
(* The evolution loop.                                                      *)

CandidateFields == {"patch", "audited", "content", "passed", "commit", "rejected"}
StateFields == {"generation", "active", "branch", "best", "status", "cycles"}

\* A commit whose bytes are on file, that was audited and passed every validator.
Passing(c) == PatchOf[c].passes = AllValidators /\ PatchOf[c].auditAllows
Sound(c) == c \in DOMAIN content /\ Passing(c)

\* What a state of the loop, saved or not, may say.
StateIsSound(s) ==
  /\ HasFields(s, StateFields)
  /\ s.active # Base => Sound(s.active)
  /\ s.cycles \subseteq cycleFiles
  /\ s.branch # 0 => s.branch \in DOMAIN branches

\* A candidate of the cycle that can be selected is sound.
TriedAreSound ==
  /\ IsSequence(tried)
  /\ \A i \in DOMAIN tried : ~tried[i].rejected /\ tried[i].commit # "none" => Sound(tried[i].commit)

\* The candidate in its worktree: audited, committed under docker, judged by its validators.
WorkIsJudged ==
  /\ HasFields(work, CandidateFields)
  /\ evo \in {"audited", "evaluated"} =>
       PatchOf[work.patch].auditAllows /\ (evaluator = "docker" => work.patch \in DOMAIN content)
  /\ evo = "evaluated" => work.passed = PatchOf[work.patch].passes

EvolutionInv ==
  /\ evaluator \in Evaluators
  /\ \A c \in DOMAIN content : content[c].bytes = content[c].audited
  /\ StateIsSound(disk) /\ StateIsSound(mem) /\ TriedAreSound /\ WorkIsJudged

LEMMA EvolutionStart == EvolutionInit => EvolutionInv
<1>. SUFFICES ASSUME EvolutionInit PROVE EvolutionInv
  OBVIOUS
<1>1. HasFields(work, CandidateFields)
  BY DEF EvolutionInit, HasFields, CandidateFields, NoCandidate
<1>2. StateIsSound(disk) /\ StateIsSound(mem)
  BY DEF EvolutionInit, StateIsSound, HasFields, StateFields, Fresh
<1>3. TriedAreSound
  <2>1. tried \in Seq({}) /\ DOMAIN tried = {}
    BY DEF EvolutionInit
  <2>. QED
    BY <2>1 DEF TriedAreSound, IsSequence
<1>. QED
  BY <1>1, <1>2, <1>3 DEF EvolutionInv, EvolutionInit, WorkIsJudged

\* What is on file stays on file and stays what it was; branches and evidence are added only.
FilesGrow ==
  /\ evaluator' = evaluator /\ cycleFiles \subseteq cycleFiles' /\ DOMAIN branches \subseteq DOMAIN branches'
  /\ DOMAIN content \subseteq DOMAIN content'
  /\ \A c \in DOMAIN content' : content'[c].bytes = content'[c].audited

LEMMA StateStaysSound ==
  ASSUME FilesGrow, NEW s, StateIsSound(s), NEW t, t = s, NEW u, u = t
  PROVE  /\ HasFields(u, StateFields) /\ (u.active # Base => Sound(u.active)')
         /\ u.cycles \subseteq cycleFiles' /\ (u.branch # 0 => u.branch \in DOMAIN branches')
BY DEF FilesGrow, StateIsSound, Sound

LEMMA DiskStaysSound == FilesGrow /\ StateIsSound(disk) /\ UNCHANGED disk => StateIsSound(disk)'
BY DEF FilesGrow, StateIsSound, Sound, HasFields

LEMMA MemStaysSound == FilesGrow /\ StateIsSound(mem) /\ UNCHANGED mem => StateIsSound(mem)'
BY DEF FilesGrow, StateIsSound, Sound, HasFields

LEMMA TriedStaySound == FilesGrow /\ TriedAreSound /\ UNCHANGED tried => TriedAreSound'
BY DEF FilesGrow, TriedAreSound, Sound, IsSequence

\* One more candidate, rejected or sound.
LEMMA TriedOneMore ==
  ASSUME FilesGrow, TriedAreSound, NEW w, tried' = Append(tried, w),
         ~w.rejected /\ w.commit # "none" => w.commit \in DOMAIN content' /\ Passing(w.commit)
  PROVE  TriedAreSound'
<1>1. /\ IsSequence(tried') /\ DOMAIN tried' = DOMAIN tried \union {Len(tried) + 1}
      /\ tried'[Len(tried) + 1] = w /\ \A i \in DOMAIN tried : tried'[i] = tried[i]
  BY AppendedSequence DEF TriedAreSound
<1>2. IsSequence(tried)'
  BY <1>1 DEF IsSequence
<1>3. \A c : Sound(c) => c \in DOMAIN content' /\ Passing(c)
  BY DEF FilesGrow, Sound
<1>4. ASSUME NEW i \in DOMAIN tried', ~tried'[i].rejected, tried'[i].commit # "none"
      PROVE  tried'[i].commit \in DOMAIN content' /\ Passing(tried'[i].commit)
  <2>1. CASE i = Len(tried) + 1
    BY <1>1, <1>4, <2>1
  <2>2. CASE i \in DOMAIN tried
    BY <1>1, <1>3, <1>4, <2>2 DEF TriedAreSound
  <2>. QED
    BY <1>1, <2>1, <2>2
<1>. QED
  BY <1>2, <1>4 DEF TriedAreSound, Sound

LEMMA RejectedIsRejected ==
  \A p : LET w == [NoCandidate EXCEPT !.patch = p]
         IN  w.rejected /\ NoCandidate.rejected /\ HasFields(NoCandidate, CandidateFields)
BY DEF NoCandidate, HasFields, CandidateFields

LEMMA EvolutionStep == EvolutionInv /\ [EvolutionNext]_evolutionVars => EvolutionInv'
<1>. SUFFICES ASSUME EvolutionInv, [EvolutionNext]_evolutionVars PROVE EvolutionInv'
  OBVIOUS
<1>. USE DEF EvolutionInv
<1>0. ASSUME UNCHANGED <<evaluator, content, cycleFiles, branches>> PROVE FilesGrow
  BY <1>0 DEF FilesGrow
<1>1. CASE UNCHANGED evolutionVars
  <2>1. FilesGrow /\ UNCHANGED <<disk, mem, tried, work, evo>>
    BY <1>0, <1>1 DEF evolutionVars
  <2>2. WorkIsJudged'
    BY <1>1, <2>1 DEF WorkIsJudged, evolutionVars, HasFields
  <2>. QED
    BY <1>1, <2>1, <2>2, DiskStaysSound, MemStaysSound, TriedStaySound DEF FilesGrow, evolutionVars
<1>2. CASE StartLoop
  <2>1. FilesGrow /\ UNCHANGED disk
    BY <1>0, <1>2 DEF StartLoop
  <2>2. StateIsSound(mem)'
    BY <1>2 DEF StartLoop, StateIsSound, Sound, HasFields
  <2>3. TriedAreSound'
    <3>1. tried' \in Seq({}) /\ DOMAIN tried' = {}
      BY <1>2 DEF StartLoop
    <3>. QED
      BY <3>1 DEF TriedAreSound, IsSequence
  <2>4. WorkIsJudged'
    BY <1>2, RejectedIsRejected DEF StartLoop, WorkIsJudged
  <2>. QED
    BY <1>2, <2>1, <2>2, <2>3, <2>4, DiskStaysSound DEF FilesGrow
<1>3. CASE StartCycle
  <2>1. FilesGrow /\ UNCHANGED <<disk, tried, work>> /\ evo' \in {"branched", "proposing"}
    BY <1>0, <1>3 DEF StartCycle
  <2>2. StateIsSound(mem)'
    <3>1. CASE UNCHANGED mem
      BY <2>1, <3>1, MemStaysSound
    <3>2. CASE mem' = [mem EXCEPT !.generation = @ + 1, !.best = 100, !.status = "GOAL_VALIDATED"]
      <4>1. /\ HasFields(mem', StateFields) /\ mem'.active = mem.active /\ mem'.branch = mem.branch
            /\ mem'.cycles = mem.cycles
        BY <3>2 DEF StateIsSound, HasFields, StateFields
      <4>. QED
        BY <2>1, <4>1 DEF StateIsSound, Sound, FilesGrow, HasFields
    <3>. QED
      BY <1>3, <3>1, <3>2 DEF StartCycle
  <2>3. WorkIsJudged'
    BY <2>1 DEF WorkIsJudged, HasFields
  <2>. QED
    BY <2>1, <2>2, <2>3, DiskStaysSound, TriedStaySound DEF FilesGrow
<1>4. ASSUME NEW p \in Patches, Propose(p) PROVE EvolutionInv'
  <2>1. FilesGrow /\ UNCHANGED <<disk, mem>>
    BY <1>0, <1>4 DEF Propose
  <2>2. CASE Reject(p)
    <3>1. TriedAreSound'
      BY <2>1, <2>2, TriedOneMore, RejectedIsRejected DEF Reject
    <3>2. WorkIsJudged'
      BY <2>2, RejectedIsRejected DEF Reject, WorkIsJudged
    <3>. QED
      BY <2>1, <3>1, <3>2, DiskStaysSound, MemStaysSound DEF FilesGrow
  <2>3. CASE UNCHANGED tried /\ work' = [NoCandidate EXCEPT !.patch = p, !.content = "patched"] /\ evo' = "applied"
    <3>1. HasFields(work', CandidateFields)
      BY <2>3 DEF NoCandidate, HasFields, CandidateFields
    <3>2. WorkIsJudged'
      BY <2>3, <3>1 DEF WorkIsJudged, HasFields
    <3>. QED
      BY <2>1, <2>3, <3>2, DiskStaysSound, MemStaysSound, TriedStaySound DEF FilesGrow
  <2>. QED
    BY <1>4, <2>2, <2>3 DEF Propose
<1>5. CASE ProposerFails
  <2>1. FilesGrow /\ UNCHANGED <<disk, mem, work, evo>>
    BY <1>0, <1>5 DEF ProposerFails
  <2>2. TriedAreSound'
    BY <1>5, <2>1, TriedOneMore, RejectedIsRejected DEF ProposerFails
  <2>3. WorkIsJudged'
    BY <2>1, <1>5 DEF WorkIsJudged, HasFields, ProposerFails
  <2>. QED
    BY <2>1, <2>2, <2>3, DiskStaysSound, MemStaysSound DEF FilesGrow
<1>6. CASE AuditCandidate
  <2>. DEFINE p == work.patch
  <2>1. CASE Reject(p) /\ UNCHANGED content
    <3>1. FilesGrow /\ UNCHANGED <<disk, mem>>
      BY <1>0, <1>6, <2>1 DEF AuditCandidate
    <3>2. TriedAreSound'
      BY <2>1, <3>1, TriedOneMore, RejectedIsRejected DEF Reject
    <3>3. WorkIsJudged'
      BY <2>1, RejectedIsRejected DEF Reject, WorkIsJudged
    <3>. QED
      BY <3>1, <3>2, <3>3, DiskStaysSound, MemStaysSound DEF FilesGrow
  <2>2. CASE /\ PatchOf[p].auditAllows
             /\ work' = [work EXCEPT !.audited = work.content, !.commit = IF evaluator = "docker" THEN p ELSE "none"]
             /\ content' = IF evaluator = "docker"
                           THEN [c \in DOMAIN content \union {p} |->
                                   IF c = p THEN [bytes |-> work.content, audited |-> work.content] ELSE content[c]]
                           ELSE content
             /\ evo' = "audited" /\ UNCHANGED tried
    <3>1. /\ DOMAIN content \subseteq DOMAIN content' /\ (evaluator = "docker" => p \in DOMAIN content')
          /\ \A c \in DOMAIN content' : content'[c].bytes = content'[c].audited
      <4>1. CASE evaluator = "docker"
        BY <2>2, <4>1
      <4>2. CASE evaluator # "docker"
        BY <2>2, <4>2
      <4>. QED
        BY <4>1, <4>2
    <3>2. FilesGrow /\ UNCHANGED <<disk, mem>>
      BY <1>6, <3>1 DEF AuditCandidate, FilesGrow
    <3>3. HasFields(work', CandidateFields) /\ work'.patch = p
      BY <2>2 DEF WorkIsJudged, HasFields, CandidateFields
    <3>4. WorkIsJudged'
      BY <2>2, <3>1, <3>2, <3>3 DEF WorkIsJudged, HasFields, FilesGrow
    <3>. QED
      BY <2>2, <3>2, <3>4, DiskStaysSound, MemStaysSound, TriedStaySound DEF FilesGrow
  <2>. QED
    BY <1>6, <2>1, <2>2 DEF AuditCandidate
<1>7. CASE RunValidators
  <2>1. FilesGrow /\ UNCHANGED <<disk, mem, tried, evaluator, content>>
    BY <1>0, <1>7 DEF RunValidators
  <2>2. /\ HasFields(work', CandidateFields) /\ work'.patch = work.patch
        /\ work'.passed = PatchOf[work.patch].passes /\ evo = "audited"
    BY <1>7 DEF RunValidators, WorkIsJudged, HasFields, CandidateFields
  <2>3. WorkIsJudged'
    BY <2>1, <2>2 DEF WorkIsJudged, HasFields
  <2>. QED
    BY <2>1, <2>3, DiskStaysSound, MemStaysSound, TriedStaySound DEF FilesGrow
<1>8. CASE SandboxBlocked \/ LoopDies
  <2>1. FilesGrow /\ UNCHANGED <<disk, mem, tried, work>> /\ evo' = "stopped"
    BY <1>0, <1>8 DEF SandboxBlocked, LoopDies
  <2>2. WorkIsJudged'
    BY <2>1 DEF WorkIsJudged, HasFields
  <2>. QED
    BY <2>1, <2>2, DiskStaysSound, MemStaysSound, TriedStaySound DEF FilesGrow
<1>9. CASE JudgeCandidate
  <2>. DEFINE ok == work.passed = AllValidators /\ work.content = work.audited
              c == IF ok THEN work.patch ELSE "none"
              w == [work EXCEPT !.commit = c, !.rejected = ~ok]
  <2>1. /\ content' = IF ok /\ evaluator = "host"
                      THEN [x \in DOMAIN content \union {work.patch} |->
                              IF x = work.patch THEN [bytes |-> work.content, audited |-> work.audited]
                              ELSE content[x]]
                      ELSE content
        /\ tried' = Append(tried, w) /\ evo' = "proposing" /\ work' = NoCandidate
        /\ UNCHANGED <<evaluator, disk, mem, branches, cycleFiles, stalls>>
    BY <1>9 DEF JudgeCandidate
  <2>2. evaluator \in {"host", "docker"}
    BY EvolutionAssumption
  <2>3. /\ DOMAIN content \subseteq DOMAIN content' /\ (ok => work.patch \in DOMAIN content')
        /\ \A x \in DOMAIN content' : content'[x].bytes = content'[x].audited
    <3>1. CASE ok /\ evaluator = "host"
      BY <2>1, <3>1
    <3>2. CASE ~(ok /\ evaluator = "host")
      BY <1>9, <2>1, <2>2, <3>2 DEF JudgeCandidate, WorkIsJudged
    <3>. QED
      BY <3>1, <3>2
  <2>4. FilesGrow
    BY <2>1, <2>3 DEF FilesGrow
  <2>5. w.rejected = ~ok /\ w.commit = c
    BY DEF WorkIsJudged, HasFields, CandidateFields
  <2>6. ok => c \in DOMAIN content' /\ Passing(c)
    BY <1>9, <2>3 DEF JudgeCandidate, WorkIsJudged, Passing
  <2>7. TriedAreSound'
    <3>1. ~w.rejected /\ w.commit # "none" => w.commit \in DOMAIN content' /\ Passing(w.commit)
      BY <2>5, <2>6
    <3>. HIDE DEF w
    <3>. QED
      BY <2>1, <2>4, <3>1, TriedOneMore
  <2>8. WorkIsJudged'
    BY <2>1, RejectedIsRejected DEF WorkIsJudged
  <2>. QED
    BY <2>1, <2>4, <2>7, <2>8, DiskStaysSound, MemStaysSound DEF FilesGrow
<1>10. CASE SelectCandidate
  <2>. DEFINE g == mem.generation + 1
  <2>1. /\ tried' = <<>> /\ evo' = "branched" /\ UNCHANGED <<evaluator, disk, work, content, cycleFiles>>
    BY <1>10 DEF SelectCandidate
  <2>2. TriedAreSound'
    <3>1. tried' \in Seq({}) /\ DOMAIN tried' = {}
      BY <2>1
    <3>. QED
      BY <3>1 DEF TriedAreSound, IsSequence
  <2>3. WorkIsJudged'
    BY <2>1 DEF WorkIsJudged, HasFields
  <2>4. FilesGrow /\ StateIsSound(mem)'
    <3>1. ASSUME NEW b, mem' = [mem EXCEPT !.generation = g, !.best = b], UNCHANGED branches
          PROVE  FilesGrow /\ StateIsSound(mem)'
      <4>1. FilesGrow
        BY <1>0, <2>1, <3>1
      <4>2. /\ HasFields(mem', StateFields) /\ mem'.active = mem.active /\ mem'.branch = mem.branch
            /\ mem'.cycles = mem.cycles
        BY <3>1 DEF StateIsSound, HasFields, StateFields
      <4>. QED
        BY <4>1, <4>2 DEF StateIsSound, Sound, FilesGrow, HasFields
    <3>2. ASSUME NEW i \in Eligibles, NEW b, NEW s,
                 branches' = [n \in DOMAIN branches \union {g} |-> IF n = g THEN tried[i].commit ELSE branches[n]],
                 mem' = [mem EXCEPT !.generation = g, !.active = tried[i].commit, !.branch = g, !.best = b,
                                    !.status = s]
          PROVE  FilesGrow /\ StateIsSound(mem)'
      <4>1. FilesGrow /\ g \in DOMAIN branches'
        BY <2>1, <3>2 DEF FilesGrow
      <4>2. Sound(tried[i].commit)
        BY <3>2 DEF Eligibles, TriedAreSound
      <4>3. /\ HasFields(mem', StateFields) /\ mem'.active = tried[i].commit /\ mem'.branch = g
            /\ mem'.cycles = mem.cycles
        BY <3>2 DEF StateIsSound, HasFields, StateFields
      <4>. HIDE DEF g
      <4>. QED
        BY <2>1, <4>1, <4>2, <4>3 DEF StateIsSound, Sound, FilesGrow, HasFields
    <3>3. CASE Eligibles = {}
      BY <1>10, <3>1, <3>3 DEF SelectCandidate
    <3>4. CASE Eligibles # {}
      <4>1. PICK i \in Eligibles :
              /\ branches' = [n \in DOMAIN branches \union {g} |-> IF n = g THEN tried[i].commit ELSE branches[n]]
              /\ mem' = [mem EXCEPT !.generation = g, !.active = tried[i].commit, !.branch = g,
                                    !.best = Score(tried[i].passed),
                                    !.status = IF Score(tried[i].passed) = 100 THEN "GOAL_VALIDATED" ELSE @]
        BY <1>10, <3>4 DEF SelectCandidate
      <4>2. \E b, s : mem' = [mem EXCEPT !.generation = g, !.active = tried[i].commit, !.branch = g, !.best = b,
                                         !.status = s]
        BY <4>1, Zenon
      <4>. QED
        BY <3>2, <4>1, <4>2
    <3>. QED
      BY <3>3, <3>4
  <2>. QED
    BY <2>1, <2>2, <2>3, <2>4, DiskStaysSound DEF FilesGrow
<1>11. CASE WriteCycle
  <2>1. FilesGrow /\ UNCHANGED <<disk, tried, work>> /\ evo' = "evidenced"
    BY <1>11 DEF WriteCycle, FilesGrow
  <2>2. /\ HasFields(mem', StateFields) /\ mem'.active = mem.active /\ mem'.branch = mem.branch
        /\ mem'.cycles = mem.cycles \union {<<mem.generation, mem.active>>}
    BY <1>11 DEF WriteCycle, StateIsSound, HasFields, StateFields
  <2>3. StateIsSound(mem)'
    BY <1>11, <2>1, <2>2 DEF WriteCycle, StateIsSound, Sound, FilesGrow, HasFields
  <2>4. WorkIsJudged'
    BY <2>1 DEF WorkIsJudged, HasFields
  <2>. QED
    BY <2>1, <2>3, <2>4, DiskStaysSound, TriedStaySound DEF FilesGrow
<1>12. CASE SaveState
  <2>1. FilesGrow /\ UNCHANGED <<tried, work>> /\ evo' \in {"stopped", "ready"} /\ disk' = mem'
    BY <1>0, <1>12 DEF SaveState
  <2>2. /\ HasFields(mem', StateFields) /\ mem'.active = mem.active /\ mem'.branch = mem.branch
        /\ mem'.cycles = mem.cycles
    BY <1>12 DEF SaveState, StateIsSound, HasFields, StateFields
  <2>3. StateIsSound(mem)' /\ StateIsSound(disk)'
    BY <2>1, <2>2 DEF StateIsSound, Sound, FilesGrow, HasFields
  <2>4. WorkIsJudged'
    BY <2>1 DEF WorkIsJudged, HasFields
  <2>. QED
    BY <2>1, <2>3, <2>4, TriedStaySound DEF FilesGrow
<1>. QED
  BY <1>1, <1>2, <1>3, <1>4, <1>5, <1>6, <1>7, <1>8, <1>9, <1>10, <1>11, <1>12 DEF EvolutionNext

LEMMA EvolutionHolds == EvolutionInv => EvolvedIsAudited /\ SavedIsEvidenced
BY DEF EvolutionInv, StateIsSound, Sound, Passing, EvolvedIsAudited, SavedIsEvidenced

-------------------------------------------------------------------------------
(* The inventory of agents' branches and the gate to their review.          *)

AgentFields == {"exists", "head", "based", "pulls"}
RepositoryShape ==
  /\ mainSha \in Nat /\ agents = [b \in BranchNames |-> agents[b]]
  /\ \A b \in BranchNames : HasFields(agents[b], AgentFields) /\ agents[b].head \in Nat

\* A branch was compared with a main that has moved on, or says what it said.
Compared(b, cmp) ==
  /\ b \in BranchNames /\ cmp.head \in Nat /\ cmp.head <= agents[b].head /\ cmp.main \in Nat /\ cmp.main <= mainSha
  /\ ~cmp.ahead => <<b, cmp.head>> \in merged
  /\ cmp.ahead /\ cmp.main = mainSha => <<b, cmp.head>> \notin merged

\* A branch is listed before it is compared, and classified by what was compared.
RowStands(row) ==
  /\ Compared(row.branch, row.cmp) /\ row.head \in Nat /\ row.head <= row.cmp.head
  /\ row.state \in ReviewStates => row.cmp.ahead
  /\ row.state = "SUBSUMED_OR_MERGED" => ~row.cmp.ahead

ListedBefore(entry) == entry.branch \in BranchNames /\ entry.head \in Nat /\ entry.head <= agents[entry.branch].head

QualifierStands ==
  /\ HasFields(qualifier, {"pc", "listed", "rows", "cmp"})
  /\ IsSequence(qualifier.listed) /\ IsSequence(qualifier.rows)
  /\ \A i \in DOMAIN qualifier.listed : ListedBefore(qualifier.listed[i])
  /\ \A i \in DOMAIN qualifier.rows : RowStands(qualifier.rows[i])
  /\ qualifier.pc = "classifying" =>
       LET n == Len(qualifier.rows) + 1 IN
       /\ n \in DOMAIN qualifier.listed /\ Compared(qualifier.listed[n].branch, qualifier.cmp)
       /\ qualifier.listed[n].head <= qualifier.cmp.head

InventoryStands ==
  /\ \A i \in DOMAIN inventory.rows : RowStands(inventory.rows[i])
  /\ inventory.written => qualifier.pc = "done"

\* An observation begins with main, after every comparison of the inventory.
MainObserved(obs) ==
  /\ obs.main \in Nat /\ obs.main <= mainSha /\ (obs.main = mainSha => obs.merged = merged)
  /\ \A i \in DOMAIN inventory.rows :
       LET row == inventory.rows[i] IN
       /\ ~row.cmp.ahead => <<row.branch, row.cmp.head>> \in obs.merged
       /\ row.cmp.ahead /\ row.cmp.main = obs.main => <<row.branch, row.cmp.head>> \notin obs.merged

\* The heads it sees are none older than the compared ones.
HeadSeen(live) ==
  /\ HasFields(live, {"branch", "head", "pulls"}) /\ live.head \in Nat
  /\ \A i \in DOMAIN inventory.rows :
       inventory.rows[i].branch = live.branch => inventory.rows[i].cmp.head <= live.head

Looking == {"heads", "pulls", "reviews"}
GateStands ==
  /\ HasFields(reviewGate, {"pc", "first", "now"}) /\ HasFields(reviewGate.now, {"main", "merged", "branches"})
  /\ reviewGate.pc \in Looking \union {"idle", "routed", "heads again", "valid", "stale"}
  /\ reviewGate.pc # "idle" => inventory.written
  /\ reviewGate.pc \in Looking =>
       /\ MainObserved(reviewGate.now) /\ IsSequence(reviewGate.now.branches)
       /\ \A i \in DOMAIN reviewGate.now.branches : HeadSeen(reviewGate.now.branches[i])
  /\ reviewGate.pc \in {"pulls", "reviews"} => reviewGate.now.branches # <<>>
  /\ reviewGate.pc \in {"idle"} \union Looking => routed = {}
  /\ reviewGate.pc \notin {"idle"} \union Looking => MainObserved(reviewGate.first)
  /\ reviewGate.pc \in {"heads again", "valid", "stale"} /\ reviewGate.now.main = reviewGate.first.main =>
       reviewGate.now.merged = reviewGate.first.merged
  /\ reviewGate.pc = "valid" => reviewGate.now.main = reviewGate.first.main

ReviewInv ==
  RepositoryShape /\ QualifierStands /\ InventoryStands /\ GateStands /\ RoutedAsCompared

LEMMA ReviewStart == FleetInit => ReviewInv
<1>. SUFFICES ASSUME FleetInit PROVE ReviewInv
  OBVIOUS
<1>1. RepositoryShape
  BY DEF FleetInit, RepositoryShape, HasFields, AgentFields
<1>2. <<>> \in Seq({}) /\ DOMAIN <<>> = {}
  OBVIOUS
<1>3. IsSequence(<<>>)
  BY <1>2 DEF IsSequence
<1>4. QualifierStands
  BY <1>2, <1>3 DEF FleetInit, QualifierStands, HasFields
<1>5. InventoryStands
  BY <1>2 DEF FleetInit, InventoryStands, NoSnapshot
<1>6. GateStands
  BY DEF FleetInit, GateStands, HasFields, NoObservation, Looking
<1>7. RoutedAsCompared
  BY DEF FleetInit, RoutedAsCompared
<1>. QED
  BY <1>1, <1>4, <1>5, <1>6, <1>7 DEF ReviewInv

-------------------------------------------------------------------------------
\* The repository goes on: heads and main grow, and main contains more only when it moves.
RepositoryGrows ==
  /\ RepositoryShape' /\ mainSha <= mainSha' /\ merged \subseteq merged' /\ (mainSha' = mainSha => merged' = merged)
  /\ \A b \in BranchNames : agents[b].head <= agents'[b].head

LEMMA RepositoryRests == RepositoryShape /\ UNCHANGED <<mainSha, merged, agents>> => RepositoryGrows
BY DEF RepositoryShape, RepositoryGrows, HasFields

\* What was compared or listed says the same of the repository after the step.
StillCompared(b, cmp) ==
  /\ cmp.head <= agents'[b].head /\ cmp.main <= mainSha' /\ (~cmp.ahead => <<b, cmp.head>> \in merged')
  /\ (cmp.ahead /\ cmp.main = mainSha' => <<b, cmp.head>> \notin merged')

LEMMA ComparedStays ==
  ASSUME RepositoryShape, RepositoryGrows, NEW b, NEW cmp, Compared(b, cmp)
  PROVE  StillCompared(b, cmp)
<1>1. /\ b \in BranchNames /\ cmp.head \in Nat /\ cmp.main \in Nat /\ mainSha \in Nat /\ mainSha' \in Nat
      /\ agents[b].head \in Nat /\ agents'[b].head \in Nat /\ agents[b].head <= agents'[b].head
      /\ cmp.head <= agents[b].head /\ cmp.main <= mainSha /\ mainSha <= mainSha'
  BY DEF Compared, RepositoryShape, RepositoryGrows
<1>2. cmp.main = mainSha' => mainSha' = mainSha
  BY <1>1
<1>3. cmp.head <= agents'[b].head /\ cmp.main <= mainSha'
  BY <1>1
<1>. QED
  BY <1>2, <1>3 DEF Compared, RepositoryGrows, StillCompared

LEMMA QualifierStays ==
  RepositoryShape /\ RepositoryGrows /\ QualifierStands /\ UNCHANGED qualifier => QualifierStands'
<1>. SUFFICES ASSUME RepositoryShape, RepositoryGrows, QualifierStands, UNCHANGED qualifier PROVE QualifierStands'
  OBVIOUS
<1>1. \A i \in DOMAIN qualifier.listed : ListedBefore(qualifier.listed[i])'
  <2>. SUFFICES ASSUME NEW i \in DOMAIN qualifier.listed PROVE ListedBefore(qualifier.listed[i])'
    OBVIOUS
  <2>1. /\ qualifier.listed[i].branch \in BranchNames /\ qualifier.listed[i].head \in Nat
        /\ qualifier.listed[i].head <= agents[qualifier.listed[i].branch].head
    BY DEF QualifierStands, ListedBefore
  <2>2. /\ agents[qualifier.listed[i].branch].head \in Nat /\ agents'[qualifier.listed[i].branch].head \in Nat
        /\ agents[qualifier.listed[i].branch].head <= agents'[qualifier.listed[i].branch].head
    BY <2>1 DEF RepositoryShape, RepositoryGrows
  <2>3. qualifier.listed[i].head <= agents'[qualifier.listed[i].branch].head
    BY <2>1, <2>2
  <2>. QED
    BY <2>1, <2>3 DEF ListedBefore
<1>2. \A i \in DOMAIN qualifier.rows : RowStands(qualifier.rows[i])'
  BY ComparedStays DEF QualifierStands, RowStands, Compared, StillCompared
<1>3. qualifier.pc = "classifying" =>
        StillCompared(qualifier.listed[Len(qualifier.rows) + 1].branch, qualifier.cmp)
  BY ComparedStays DEF QualifierStands
<1>. QED
  BY <1>1, <1>2, <1>3 DEF QualifierStands, Compared, StillCompared

LEMMA InventoryStays ==
  RepositoryShape /\ RepositoryGrows /\ InventoryStands /\ UNCHANGED <<inventory, qualifier>> => InventoryStands'
BY ComparedStays DEF InventoryStands, RowStands, Compared, StillCompared

\* An observation is of the repository as it was: main only moves on.
LEMMA ObservedStays ==
  ASSUME RepositoryShape, RepositoryGrows, UNCHANGED inventory, NEW obs, MainObserved(obs)
  PROVE  /\ obs.main <= mainSha' /\ (obs.main = mainSha' => obs.merged = merged')
         /\ \A i \in DOMAIN inventory'.rows :
              LET row == inventory'.rows[i] IN
              /\ ~row.cmp.ahead => <<row.branch, row.cmp.head>> \in obs.merged
              /\ row.cmp.ahead /\ row.cmp.main = obs.main => <<row.branch, row.cmp.head>> \notin obs.merged
<1>1. obs.main \in Nat /\ mainSha \in Nat /\ mainSha' \in Nat /\ obs.main <= mainSha /\ mainSha <= mainSha'
  BY DEF MainObserved, RepositoryShape, RepositoryGrows
<1>2. obs.main <= mainSha' /\ (obs.main = mainSha' => mainSha' = mainSha)
  BY <1>1
<1>. QED
  BY <1>2 DEF MainObserved, RepositoryGrows

LEMMA GateStays ==
  RepositoryShape /\ RepositoryGrows /\ GateStands /\ UNCHANGED <<inventory, reviewGate, routed>> => GateStands'
<1>. SUFFICES ASSUME RepositoryShape, RepositoryGrows, GateStands, UNCHANGED <<inventory, reviewGate, routed>>
              PROVE  GateStands'
  OBVIOUS
<1>1. reviewGate.pc \in Looking => MainObserved(reviewGate.now)'
  BY ObservedStays DEF GateStands, MainObserved
<1>2. reviewGate.pc \notin {"idle"} \union Looking => MainObserved(reviewGate.first)'
  BY ObservedStays DEF GateStands, MainObserved
<1>. QED
  BY <1>1, <1>2 DEF GateStands, HeadSeen

LEMMA RepositoryStep ==
  ReviewInv /\ RepositoryGrows /\ UNCHANGED <<qualifier, inventory, reviewGate, routed>> => ReviewInv'
<1>. SUFFICES ASSUME ReviewInv, RepositoryGrows, UNCHANGED <<qualifier, inventory, reviewGate, routed>>
              PROVE  ReviewInv'
  OBVIOUS
<1>1. RepositoryShape' /\ QualifierStands' /\ InventoryStands' /\ GateStands'
  BY QualifierStays, InventoryStays, GateStays DEF ReviewInv, RepositoryGrows
<1>2. RoutedAsCompared'
  BY DEF ReviewInv, RoutedAsCompared, SentToReview
<1>. QED
  BY <1>1, <1>2 DEF ReviewInv

LEMMA AgentChanges ==
  ASSUME RepositoryShape, NEW b \in BranchNames, NEW row, HasFields(row, AgentFields), row.head \in Nat,
         agents[b].head <= row.head, agents' = [agents EXCEPT ![b] = row], mainSha' \in Nat, mainSha <= mainSha',
         merged \subseteq merged', mainSha' = mainSha => merged' = merged
  PROVE  RepositoryGrows
<1>1. agents' = [c \in BranchNames |-> agents'[c]] /\ agents'[b] = row
      /\ \A c \in BranchNames : c # b => agents'[c] = agents[c]
  BY DEF RepositoryShape
<1>. QED
  BY <1>1 DEF RepositoryShape, RepositoryGrows

LEMMA RepositoryActions ==
  ASSUME RepositoryShape, NEW b \in BranchNames,
         Push(b) \/ CreateBranch(b) \/ OpenPull(b) \/ ReviewPull(b) \/ ClosePull(b) \/ MergePull(b)
  PROVE  RepositoryGrows /\ UNCHANGED <<qualifier, inventory, reviewGate, routed>>
<1>0. UNCHANGED <<qualifier, inventory, reviewGate, routed>>
  BY DEF RepositoryMoves, Push, CreateBranch, OpenPull, ReviewPull, ClosePull, MergePull
<1>1. HasFields(agents[b], AgentFields) /\ agents[b].head \in Nat /\ mainSha \in Nat
      /\ agents = [c \in BranchNames |-> agents[c]]
  BY DEF RepositoryShape
<1>2. CASE Push(b)
  <2>. DEFINE row == [agents[b] EXCEPT !.head = @ + 1,
                        !.pulls = [n \in DOMAIN @ |->
                           IF @[n].state = "open" THEN [@[n] EXCEPT !.base = mainSha] ELSE @[n]]]
  <2>1. HasFields(row, AgentFields) /\ row.head = agents[b].head + 1
    BY <1>1 DEF HasFields, AgentFields
  <2>2. agents' = [agents EXCEPT ![b] = row] /\ UNCHANGED <<mainSha, merged>>
    BY <1>1, <1>2 DEF Push
  <2>3. agents[b].head <= row.head /\ row.head \in Nat /\ mainSha' \in Nat /\ mainSha <= mainSha'
    BY <1>1, <2>1, <2>2
  <2>. HIDE DEF row
  <2>. QED
    BY <1>0, <1>1, <2>1, <2>2, <2>3, AgentChanges
<1>3. CASE CreateBranch(b)
  <2>. DEFINE row == [agents[b] EXCEPT !.exists = TRUE, !.based = mainSha]
  <2>1. HasFields(row, AgentFields) /\ row.head = agents[b].head
    BY <1>1 DEF HasFields, AgentFields
  <2>2. agents' = [agents EXCEPT ![b] = row] /\ UNCHANGED <<mainSha, merged>>
    BY <1>1, <1>3 DEF CreateBranch
  <2>3. agents[b].head <= row.head /\ row.head \in Nat /\ mainSha' \in Nat /\ mainSha <= mainSha'
    BY <1>1, <2>1, <2>2
  <2>. HIDE DEF row
  <2>. QED
    BY <1>0, <1>1, <2>1, <2>2, <2>3, AgentChanges
<1>4. ASSUME NEW pulls, agents' = [agents EXCEPT ![b].pulls = pulls], mainSha' \in Nat, mainSha <= mainSha',
             merged \subseteq merged', mainSha' = mainSha => merged' = merged
      PROVE  RepositoryGrows
  <2>. DEFINE row == [agents[b] EXCEPT !.pulls = pulls]
  <2>1. HasFields(row, AgentFields) /\ row.head = agents[b].head
    BY <1>1 DEF HasFields, AgentFields
  <2>2. agents' = [agents EXCEPT ![b] = row]
    BY <1>1, <1>4
  <2>3. agents[b].head <= row.head /\ row.head \in Nat
    BY <1>1, <2>1
  <2>. HIDE DEF row
  <2>. QED
    BY <1>1, <1>4, <2>1, <2>2, <2>3, AgentChanges
<1>5. CASE OpenPull(b)
  <2>1. PICK pulls : agents' = [agents EXCEPT ![b].pulls = pulls]
    BY <1>5 DEF OpenPull
  <2>2. UNCHANGED <<mainSha, merged>>
    BY <1>5 DEF OpenPull
  <2>3. mainSha' \in Nat /\ mainSha <= mainSha'
    BY <1>1, <2>2
  <2>. QED
    BY <1>0, <1>4, <2>1, <2>2, <2>3
<1>6. CASE ReviewPull(b)
  <2>1. PICK n : agents' = [agents EXCEPT ![b].pulls[n].review = "APPROVED"]
    BY <1>6 DEF ReviewPull
  <2>2. agents' = [agents EXCEPT ![b].pulls = [agents[b].pulls EXCEPT ![n].review = "APPROVED"]]
    BY <1>1, <2>1
  <2>3. UNCHANGED <<mainSha, merged>>
    BY <1>6 DEF ReviewPull
  <2>4. mainSha' \in Nat /\ mainSha <= mainSha'
    BY <1>1, <2>3
  <2>. QED
    BY <1>0, <1>4, <2>2, <2>3, <2>4
<1>7. CASE ClosePull(b)
  <2>1. PICK n, how : agents' = [agents EXCEPT ![b].pulls[n].state = how]
    BY <1>7 DEF ClosePull
  <2>2. agents' = [agents EXCEPT ![b].pulls = [agents[b].pulls EXCEPT ![n].state = how]]
    BY <1>1, <2>1
  <2>3. UNCHANGED <<mainSha, merged>>
    BY <1>7 DEF ClosePull
  <2>4. mainSha' \in Nat /\ mainSha <= mainSha'
    BY <1>1, <2>3
  <2>. QED
    BY <1>0, <1>4, <2>2, <2>3, <2>4
<1>8. CASE MergePull(b)
  <2>1. PICK n : agents' = [agents EXCEPT ![b].pulls[n].state = "merged"]
    BY <1>8 DEF MergePull
  <2>2. agents' = [agents EXCEPT ![b].pulls = [agents[b].pulls EXCEPT ![n].state = "merged"]]
    BY <1>1, <2>1
  <2>3. mainSha' = mainSha + 1 /\ merged \subseteq merged'
    BY <1>8 DEF MergePull
  <2>4. mainSha' \in Nat /\ mainSha <= mainSha' /\ mainSha' # mainSha
    BY <1>1, <2>3
  <2>. QED
    BY <1>0, <1>4, <2>2, <2>3, <2>4
<1>. QED
  BY <1>2, <1>3, <1>5, <1>6, <1>7, <1>8

LEMMA MainMoves ==
  RepositoryShape /\ MoveMain => RepositoryGrows /\ UNCHANGED <<qualifier, inventory, reviewGate, routed>>
BY DEF RepositoryShape, RepositoryGrows, MoveMain, RepositoryMoves, HasFields

-------------------------------------------------------------------------------
(* The inventory. *)

\* The inventory changes nothing but itself, and is written once.
LEMMA QualifierMoves ==
  ASSUME ReviewInv, UNCHANGED <<mainSha, merged, agents, inventory, reviewGate, routed>>, QualifierStands',
         qualifier.pc # "done"
  PROVE  ReviewInv'
<1>1. RepositoryShape' /\ RepositoryGrows
  BY RepositoryRests DEF ReviewInv, RepositoryGrows
<1>2. InventoryStands'
  BY DEF ReviewInv, InventoryStands, RowStands, Compared
<1>3. GateStands'
  BY <1>1, GateStays DEF ReviewInv
<1>4. RoutedAsCompared'
  BY DEF ReviewInv, RoutedAsCompared, SentToReview
<1>. QED
  BY <1>1, <1>2, <1>3, <1>4 DEF ReviewInv

LEMMA ListPageStep == ReviewInv /\ ListPage => ReviewInv'
<1>. SUFFICES ASSUME ReviewInv, ListPage PROVE ReviewInv'
  OBVIOUS
<1>0. UNCHANGED <<mainSha, merged, agents, inventory, reviewGate, routed>> /\ qualifier.pc = "listing"
  BY DEF ListPage, repositoryVars
<1>1. HasFields(qualifier, {"pc", "listed", "rows", "cmp"}) /\ IsSequence(qualifier.listed)
  BY DEF ReviewInv, QualifierStands
<1>2. CASE qualifier' = [qualifier EXCEPT !.pc = "comparing"]
  <2>1. HasFields(qualifier', {"pc", "listed", "rows", "cmp"}) /\ qualifier'.pc = "comparing"
        /\ UNCHANGED <<qualifier.listed, qualifier.rows, qualifier.cmp>>
    BY <1>1, <1>2 DEF HasFields
  <2>2. QualifierStands'
    BY <1>0, <2>1 DEF ReviewInv, QualifierStands, ListedBefore, RowStands, Compared
  <2>. QED
    BY <1>0, <2>2, QualifierMoves
<1>3. ASSUME NEW n \in Listable,
             qualifier' = [qualifier EXCEPT !.listed =
                             Append(@, [branch |-> AgentBranches[n], head |-> agents[AgentBranches[n]].head])]
      PROVE  ReviewInv'
  <2>. DEFINE entry == [branch |-> AgentBranches[n], head |-> agents[AgentBranches[n]].head]
  <2>1. HasFields(qualifier', {"pc", "listed", "rows", "cmp"}) /\ qualifier'.listed = Append(qualifier.listed, entry)
        /\ UNCHANGED <<qualifier.pc, qualifier.rows, qualifier.cmp>>
    BY <1>1, <1>3 DEF HasFields
  <2>2. ListedBefore(entry)
    BY DEF ReviewInv, RepositoryShape, ListedBefore, Listable, BranchNames, ToSet
  <2>3. entry.branch \in BranchNames /\ entry.head \in Nat /\ entry.head <= agents'[entry.branch].head
    BY <1>0, <2>2 DEF ListedBefore
  <2>4. \A i \in DOMAIN qualifier'.listed : qualifier'.listed[i] = entry \/
           (i \in DOMAIN qualifier.listed /\ qualifier'.listed[i] = qualifier.listed[i])
    BY <1>1, <2>1, AppendedSequence
  <2>5. (\A i \in DOMAIN qualifier.listed : ListedBefore(qualifier.listed[i]))'
    BY <1>0, <2>3, <2>4 DEF ReviewInv, QualifierStands, ListedBefore
  <2>6. IsSequence(qualifier'.listed)
    BY <1>1, <2>1, AppendedSequence
  <2>7. QualifierStands'
    BY <1>0, <2>1, <2>5, <2>6 DEF ReviewInv, QualifierStands, RowStands, Compared
  <2>. QED
    BY <1>0, <2>7, QualifierMoves
<1>. QED
  BY <1>2, <1>3 DEF ListPage

LEMMA CompareBranchStep == ReviewInv /\ CompareBranch => ReviewInv'
<1>. SUFFICES ASSUME ReviewInv, CompareBranch PROVE ReviewInv'
  OBVIOUS
<1>. DEFINE n == Len(qualifier.rows) + 1
            b == qualifier.listed[n].branch
            cmp == [ahead |-> <<b, agents[b].head>> \notin merged, behind |-> agents[b].based # mainSha,
                    head |-> agents[b].head, main |-> mainSha]
<1>1. /\ UNCHANGED <<mainSha, merged, agents, inventory, reviewGate, routed>> /\ qualifier.pc = "comparing"
      /\ n <= Len(qualifier.listed) /\ qualifier' = [qualifier EXCEPT !.pc = "classifying", !.cmp = cmp]
  BY DEF CompareBranch, repositoryVars
<1>2. /\ HasFields(qualifier, {"pc", "listed", "rows", "cmp"})
      /\ IsSequence(qualifier.listed) /\ IsSequence(qualifier.rows)
  BY DEF ReviewInv, QualifierStands
<1>3. /\ HasFields(qualifier', {"pc", "listed", "rows", "cmp"})
      /\ qualifier'.pc = "classifying" /\ qualifier'.cmp = cmp
      /\ UNCHANGED <<qualifier.listed, qualifier.rows>>
  BY <1>1, <1>2 DEF HasFields
<1>4. n \in DOMAIN qualifier.listed
  <2>1. PICK S : qualifier.listed \in Seq(S)
    BY <1>2 DEF IsSequence
  <2>2. PICK R : qualifier.rows \in Seq(R)
    BY <1>2 DEF IsSequence
  <2>. QED
    BY <1>1, <2>1, <2>2, LenProperties
<1>5. b \in BranchNames /\ qualifier.listed[n].head <= agents[b].head
  BY <1>4 DEF ReviewInv, QualifierStands, ListedBefore
<1>6. agents[b].head \in Nat /\ mainSha \in Nat
  BY <1>5 DEF ReviewInv, RepositoryShape
<1>7. Compared(b, cmp) /\ qualifier.listed[n].head <= cmp.head
  <2>1. agents[b].head <= agents[b].head /\ mainSha <= mainSha
    BY <1>6
  <2>. QED
    BY <1>5, <1>6, <2>1 DEF Compared
<1>. HIDE DEF cmp, b
<1>8. /\ \A i \in DOMAIN qualifier.listed : ListedBefore(qualifier.listed[i])
      /\ \A i \in DOMAIN qualifier.rows : RowStands(qualifier.rows[i])
  BY DEF ReviewInv, QualifierStands
<1>9. (\A i \in DOMAIN qualifier.listed : ListedBefore(qualifier.listed[i]))'
  BY <1>1, <1>3, <1>8 DEF ListedBefore
<1>10. (\A i \in DOMAIN qualifier.rows : RowStands(qualifier.rows[i]))'
  BY <1>1, <1>3, <1>8 DEF RowStands, Compared
<1>11. (LET k == Len(qualifier.rows) + 1 IN
        /\ k \in DOMAIN qualifier.listed /\ Compared(qualifier.listed[k].branch, qualifier.cmp)
        /\ qualifier.listed[k].head <= qualifier.cmp.head)'
  BY <1>1, <1>3, <1>4, <1>7 DEF b, Compared
<1>12. QualifierStands'
  BY <1>2, <1>3, <1>9, <1>10, <1>11 DEF QualifierStands
<1>. QED
  BY <1>1, <1>12, QualifierMoves

\* What a state says of the comparison.
LEMMA Classified ==
  ASSUME NEW cmp, NEW pulls
  PROVE  /\ Classify(cmp, pulls) \in ReviewStates => cmp.ahead
         /\ Classify(cmp, pulls) = "SUBSUMED_OR_MERGED" => ~cmp.ahead
BY DEF Classify, ReviewStates

LEMMA ReadBranchPullsStep == ReviewInv /\ ReadBranchPulls => ReviewInv'
<1>. SUFFICES ASSUME ReviewInv, ReadBranchPulls PROVE ReviewInv'
  OBVIOUS
<1>. DEFINE n == Len(qualifier.rows) + 1
            b == qualifier.listed[n].branch
            row == [branch |-> b, head |-> qualifier.listed[n].head, open |-> OpenPulls(b), cmp |-> qualifier.cmp,
                    state |-> Classify(qualifier.cmp, agents[b].pulls)]
<1>1. /\ UNCHANGED <<mainSha, merged, agents, inventory, reviewGate, routed>> /\ qualifier.pc = "classifying"
      /\ qualifier' = [qualifier EXCEPT !.pc = "comparing", !.rows = Append(@, row)]
  BY DEF ReadBranchPulls, repositoryVars
<1>2. /\ HasFields(qualifier, {"pc", "listed", "rows", "cmp"})
      /\ IsSequence(qualifier.listed) /\ IsSequence(qualifier.rows)
  BY DEF ReviewInv, QualifierStands
<1>3. /\ HasFields(qualifier', {"pc", "listed", "rows", "cmp"}) /\ qualifier'.pc = "comparing"
      /\ qualifier'.rows = Append(qualifier.rows, row) /\ UNCHANGED <<qualifier.listed, qualifier.cmp>>
  BY <1>1, <1>2 DEF HasFields
<1>4. /\ n \in DOMAIN qualifier.listed /\ Compared(b, qualifier.cmp)
      /\ qualifier.listed[n].head <= qualifier.cmp.head
  BY <1>1 DEF ReviewInv, QualifierStands
<1>5. qualifier.listed[n].head \in Nat
  BY <1>4 DEF ReviewInv, QualifierStands, ListedBefore
<1>6. /\ row.branch = b /\ row.head = qualifier.listed[n].head /\ row.cmp = qualifier.cmp
      /\ row.state = Classify(qualifier.cmp, agents[b].pulls)
  OBVIOUS
<1>. HIDE DEF row
<1>7. RowStands(row)
  BY <1>4, <1>5, <1>6, Classified DEF RowStands
<1>8. \A i \in DOMAIN qualifier'.rows : qualifier'.rows[i] = row \/
        (i \in DOMAIN qualifier.rows /\ qualifier'.rows[i] = qualifier.rows[i])
  BY <1>2, <1>3, AppendedSequence
<1>9. (\A i \in DOMAIN qualifier.rows : RowStands(qualifier.rows[i]))'
  <2>1. \A i \in DOMAIN qualifier.rows : RowStands(qualifier.rows[i])
    BY DEF ReviewInv, QualifierStands
  <2>. SUFFICES ASSUME NEW i \in DOMAIN qualifier'.rows PROVE RowStands(qualifier.rows[i])'
    OBVIOUS
  <2>2. CASE qualifier'.rows[i] = row
    <3>1. UNCHANGED <<mainSha, merged, agents>>
      BY <1>1
    <3>2. /\ row.branch \in BranchNames /\ row.cmp.head \in Nat /\ row.cmp.head <= agents'[row.branch].head
          /\ row.cmp.main \in Nat /\ row.cmp.main <= mainSha'
          /\ (~row.cmp.ahead => <<row.branch, row.cmp.head>> \in merged')
          /\ (row.cmp.ahead /\ row.cmp.main = mainSha' => <<row.branch, row.cmp.head>> \notin merged')
          /\ row.head \in Nat /\ row.head <= row.cmp.head
          /\ (row.state \in ReviewStates => row.cmp.ahead) /\ (row.state = "SUBSUMED_OR_MERGED" => ~row.cmp.ahead)
      BY <1>7, <3>1 DEF RowStands, Compared
    <3>. QED
      BY <2>2, <3>2 DEF RowStands, Compared
  <2>3. CASE i \in DOMAIN qualifier.rows /\ qualifier'.rows[i] = qualifier.rows[i]
    BY <1>1, <2>1, <2>3 DEF RowStands, Compared
  <2>. QED
    BY <1>8, <2>2, <2>3
<1>10. IsSequence(qualifier'.rows)
  BY <1>2, <1>3, AppendedSequence
<1>11. QualifierStands'
  BY <1>1, <1>3, <1>9, <1>10 DEF ReviewInv, QualifierStands, ListedBefore
<1>. QED
  BY <1>1, <1>11, QualifierMoves

\* The inventory is written before anything is reviewed.
LEMMA ReadBaseStep == ReviewInv /\ ReadBase => ReviewInv'
<1>. SUFFICES ASSUME ReviewInv, ReadBase PROVE ReviewInv'
  OBVIOUS
<1>1. /\ UNCHANGED <<mainSha, merged, agents, reviewGate, routed>> /\ qualifier.pc = "comparing"
      /\ qualifier' = [qualifier EXCEPT !.pc = "done"]
  BY DEF ReadBase, repositoryVars
<1>2. PICK canonical :
        inventory' = [written |-> TRUE, canonical |-> canonical, base |-> mainSha, rows |-> qualifier.rows]
  BY DEF ReadBase
<1>3. inventory'.written /\ inventory'.rows = qualifier.rows
  BY <1>2
<1>4. HasFields(qualifier', {"pc", "listed", "rows", "cmp"}) /\ qualifier'.pc = "done"
      /\ UNCHANGED <<qualifier.listed, qualifier.rows, qualifier.cmp>>
  BY <1>1 DEF ReviewInv, QualifierStands, HasFields
<1>5. QualifierStands'
  BY <1>1, <1>4 DEF ReviewInv, QualifierStands, ListedBefore, RowStands, Compared
<1>6. InventoryStands'
  BY <1>1, <1>3, <1>4 DEF ReviewInv, QualifierStands, InventoryStands, RowStands, Compared
<1>7. reviewGate.pc = "idle"
  BY <1>1 DEF ReviewInv, GateStands, InventoryStands
<1>8. GateStands'
  BY <1>1, <1>7 DEF ReviewInv, GateStands, Looking
<1>9. RepositoryShape' /\ RoutedAsCompared'
  BY <1>1, <1>7 DEF ReviewInv, GateStands, RepositoryShape, RoutedAsCompared
<1>. QED
  BY <1>5, <1>6, <1>8, <1>9 DEF ReviewInv

-------------------------------------------------------------------------------
(* The gate. *)

\* The gate changes nothing but its observation and its decisions.
LEMMA GateMoves ==
  ASSUME ReviewInv, UNCHANGED <<mainSha, merged, agents, qualifier, inventory>>, GateStands', RoutedAsCompared'
  PROVE  ReviewInv'
<1>1. RepositoryShape' /\ InventoryStands'
  BY DEF ReviewInv, RepositoryShape, InventoryStands, RowStands, Compared
<1>2. QualifierStands'
  BY DEF ReviewInv, QualifierStands, ListedBefore, RowStands, Compared
<1>. QED
  BY <1>1, <1>2 DEF ReviewInv

\* Main as it is when an observation begins.
LEMMA ObservedMain ==
  ASSUME ReviewInv, NEW obs, obs.main = mainSha, obs.merged = merged
  PROVE  MainObserved(obs)
<1>1. mainSha \in Nat /\ mainSha <= mainSha
  BY DEF ReviewInv, RepositoryShape
<1>2. \A i \in DOMAIN inventory.rows : RowStands(inventory.rows[i])
  BY DEF ReviewInv, InventoryStands
<1>. QED
  BY <1>1, <1>2 DEF MainObserved, RowStands, Compared

LEMMA BeginReviewStep == ReviewInv /\ BeginReview => ReviewInv'
<1>. SUFFICES ASSUME ReviewInv, BeginReview PROVE ReviewInv'
  OBVIOUS
<1>. DEFINE obs == [main |-> mainSha, merged |-> merged, branches |-> <<>>]
<1>1. /\ UNCHANGED <<mainSha, merged, agents, qualifier, inventory, routed>>
      /\ reviewGate.pc = "idle" /\ inventory.written
      /\ reviewGate' = [reviewGate EXCEPT !.pc = "heads", !.now = obs]
  BY DEF BeginReview, ObserveMain, repositoryVars
<1>2. /\ HasFields(reviewGate', {"pc", "first", "now"}) /\ reviewGate'.pc = "heads" /\ reviewGate'.now = obs
  BY <1>1 DEF ReviewInv, GateStands, HasFields
<1>3. /\ HasFields(obs, {"main", "merged", "branches"})
      /\ obs.main = mainSha /\ obs.merged = merged /\ obs.branches = <<>>
  BY DEF HasFields
<1>. HIDE DEF obs
<1>4. MainObserved(obs)
  BY <1>3, ObservedMain
<1>5. MainObserved(reviewGate.now)'
  BY <1>1, <1>2, <1>4 DEF MainObserved
<1>6. IsSequence(<<>>) /\ DOMAIN <<>> = {}
  <2>1. <<>> \in Seq({})
    OBVIOUS
  <2>. QED
    BY <2>1 DEF IsSequence
<1>7. routed' = {}
  BY <1>1 DEF ReviewInv, GateStands
<1>8. GateStands'
  BY <1>1, <1>2, <1>3, <1>5, <1>6, <1>7 DEF GateStands, Looking
<1>9. RoutedAsCompared'
  BY <1>7 DEF RoutedAsCompared
<1>. QED
  BY <1>1, <1>8, <1>9, GateMoves

\* While it looks, an observation keeps its main and gets no older heads.
LEMMA LookingStep ==
  ASSUME ReviewInv, UNCHANGED <<mainSha, merged, agents, qualifier, inventory, routed>>,
         reviewGate.pc \in Looking, HasFields(reviewGate', {"pc", "first", "now"}), reviewGate'.pc \in Looking,
         HasFields(reviewGate'.now, {"main", "merged", "branches"}),
         reviewGate'.now.main = reviewGate.now.main, reviewGate'.now.merged = reviewGate.now.merged,
         IsSequence(reviewGate'.now.branches), reviewGate'.now.branches # <<>>,
         (\A i \in DOMAIN reviewGate.now.branches : HeadSeen(reviewGate.now.branches[i]))'
  PROVE  ReviewInv'
<1>1. MainObserved(reviewGate.now)'
  BY DEF ReviewInv, GateStands, MainObserved
<1>2. routed' = {} /\ inventory'.written
  BY DEF ReviewInv, GateStands, Looking
<1>3. GateStands'
  BY <1>1, <1>2 DEF GateStands, Looking
<1>4. RoutedAsCompared'
  BY <1>2 DEF RoutedAsCompared
<1>. QED
  BY <1>3, <1>4, GateMoves

LEMMA ObserveHeadStep == ReviewInv /\ ObserveHead => ReviewInv'
<1>. SUFFICES ASSUME ReviewInv, ObserveHead PROVE ReviewInv'
  OBVIOUS
<1>1. /\ UNCHANGED <<mainSha, merged, agents, qualifier, inventory, routed>> /\ reviewGate.pc = "heads"
  BY DEF ObserveHead, repositoryVars
<1>2. PICK n \in DOMAIN AgentBranches :
        /\ AgentBranches[n] \in ToObserve
        /\ reviewGate' = [reviewGate EXCEPT !.pc = "pulls",
             !.now.branches = Append(@, [branch |-> AgentBranches[n], head |-> agents[AgentBranches[n]].head,
                                         pulls |-> <<>>])]
  BY DEF ObserveHead
<1>. DEFINE b == AgentBranches[n]
            live == [branch |-> b, head |-> agents[b].head, pulls |-> <<>>]
            now == reviewGate.now
<1>3. /\ HasFields(reviewGate, {"pc", "first", "now"}) /\ HasFields(now, {"main", "merged", "branches"})
      /\ IsSequence(now.branches) /\ \A i \in DOMAIN now.branches : HeadSeen(now.branches[i])
  BY <1>1 DEF ReviewInv, GateStands, Looking
<1>4. /\ HasFields(reviewGate', {"pc", "first", "now"}) /\ reviewGate'.pc = "pulls"
      /\ reviewGate'.now = [now EXCEPT !.branches = Append(@, live)]
  BY <1>2, <1>3 DEF HasFields
<1>5. /\ HasFields(reviewGate'.now, {"main", "merged", "branches"})
      /\ reviewGate'.now.main = now.main /\ reviewGate'.now.merged = now.merged
      /\ reviewGate'.now.branches = Append(now.branches, live)
  BY <1>3, <1>4 DEF HasFields
<1>6. b \in BranchNames /\ agents[b].head \in Nat
  BY DEF ReviewInv, RepositoryShape, BranchNames, ToSet
<1>7. HeadSeen(live)
  <2>1. HasFields(live, {"branch", "head", "pulls"}) /\ live.head = agents[b].head /\ live.branch = b
    BY DEF HasFields
  <2>. HIDE DEF live, b
  <2>2. \A i \in DOMAIN inventory.rows : inventory.rows[i].branch = b => inventory.rows[i].cmp.head <= agents[b].head
    BY DEF ReviewInv, InventoryStands, RowStands, Compared
  <2>. QED
    BY <1>6, <2>1, <2>2 DEF HeadSeen
<1>. HIDE DEF live, now
<1>8. \A i \in DOMAIN reviewGate'.now.branches : reviewGate'.now.branches[i] = live \/
        (i \in DOMAIN now.branches /\ reviewGate'.now.branches[i] = now.branches[i])
  BY <1>3, <1>5, AppendedSequence
<1>9. (\A i \in DOMAIN reviewGate.now.branches : HeadSeen(reviewGate.now.branches[i]))'
  BY <1>1, <1>3, <1>7, <1>8 DEF HeadSeen
<1>10. IsSequence(reviewGate'.now.branches) /\ reviewGate'.now.branches # <<>>
  <2>1. PICK S : now.branches \in Seq(S)
    BY <1>3 DEF IsSequence
  <2>2. Len(now.branches) + 1 \in DOMAIN reviewGate'.now.branches
    BY <1>3, <1>5, AppendedSequence
  <2>. QED
    BY <1>3, <1>5, <2>2, AppendedSequence
<1>11. reviewGate.pc \in Looking /\ reviewGate'.pc \in Looking
  BY <1>1, <1>4 DEF Looking
<1>. QED
  BY <1>1, <1>4, <1>5, <1>9, <1>10, <1>11, LookingStep DEF now

\* Reading the pull requests of the branch observed last leaves its head as it was seen.
LEMMA PullsRead ==
  ASSUME ReviewInv, UNCHANGED <<mainSha, merged, agents, qualifier, inventory, routed>>,
         reviewGate.pc \in {"pulls", "reviews"}, NEW next \in {"heads", "reviews"}, NEW pulls,
         reviewGate' = [reviewGate EXCEPT !.pc = next, !.now.branches[Len(reviewGate.now.branches)].pulls = pulls]
  PROVE  ReviewInv'
<1>. DEFINE now == reviewGate.now
            last == Len(now.branches)
            seen == [now.branches EXCEPT ![last].pulls = pulls]
<1>1. reviewGate.pc \in Looking /\ next \in Looking
  BY DEF Looking
<1>2. /\ HasFields(reviewGate, {"pc", "first", "now"}) /\ HasFields(now, {"main", "merged", "branches"})
      /\ IsSequence(now.branches) /\ now.branches # <<>> /\ \A i \in DOMAIN now.branches : HeadSeen(now.branches[i])
  BY <1>1 DEF ReviewInv, GateStands
<1>3. PICK S : now.branches \in Seq(S)
  BY <1>2 DEF IsSequence
<1>4. last \in DOMAIN now.branches /\ DOMAIN now.branches = 1..last
  BY <1>2, <1>3, LenProperties, EmptySeq
<1>5. HeadSeen(now.branches[last])
  BY <1>2, <1>4
<1>6. reviewGate' = [reviewGate EXCEPT !.pc = next, !.now = [now EXCEPT !.branches = seen]]
  BY <1>2, <1>4 DEF HasFields
<1>. HIDE DEF seen
<1>7. /\ HasFields(reviewGate', {"pc", "first", "now"}) /\ reviewGate'.pc = next
      /\ reviewGate'.now = [now EXCEPT !.branches = seen]
  BY <1>2, <1>6 DEF HasFields
<1>8. /\ HasFields(reviewGate'.now, {"main", "merged", "branches"})
      /\ reviewGate'.now.main = now.main /\ reviewGate'.now.merged = now.merged /\ reviewGate'.now.branches = seen
  BY <1>2, <1>7 DEF HasFields
<1>9. DOMAIN seen = DOMAIN now.branches /\ seen[last] = [now.branches[last] EXCEPT !.pulls = pulls]
      /\ \A i \in DOMAIN seen : i # last => seen[i] = now.branches[i]
  BY <1>4 DEF seen
<1>10. HeadSeen(seen[last])
  <2>1. HasFields(now.branches[last], {"branch", "head", "pulls"})
    BY <1>5 DEF HeadSeen
  <2>2. /\ HasFields(seen[last], {"branch", "head", "pulls"}) /\ seen[last].branch = now.branches[last].branch
        /\ seen[last].head = now.branches[last].head
    BY <1>9, <2>1 DEF HasFields
  <2>. QED
    BY <1>5, <2>2 DEF HeadSeen
<1>11. \A i \in DOMAIN seen : HeadSeen(seen[i])
  BY <1>2, <1>9, <1>10
<1>12. (\A i \in DOMAIN reviewGate.now.branches : HeadSeen(reviewGate.now.branches[i]))'
  BY <1>8, <1>11 DEF HeadSeen
<1>13. IsSequence(seen) /\ seen # <<>>
  <2>1. seen = [i \in 1..last |-> seen[i]]
    BY <1>4 DEF seen
  <2>2. seen \in Seq(S \union {seen[last]})
    <3>1. last \in Nat /\ \A i \in 1..last : now.branches[i] \in S
      BY <1>3, <1>4, LenProperties, ElementOfSeq
    <3>2. \A i \in 1..last : seen[i] \in S \union {seen[last]}
      BY <1>4, <1>9, <3>1
    <3>3. seen \in [1..last -> S \union {seen[last]}]
      BY <2>1, <3>2
    <3>. QED
      BY <3>1, <3>3
  <2>. QED
    BY <1>4, <1>9, <2>2 DEF IsSequence
<1>. QED
  BY <1>1, <1>7, <1>8, <1>12, <1>13, LookingStep DEF now

LEMMA ObservePullsStep == ReviewInv /\ (ObservePulls \/ ObserveReviews) => ReviewInv'
<1>. SUFFICES ASSUME ReviewInv, ObservePulls \/ ObserveReviews PROVE ReviewInv'
  OBVIOUS
<1>1. CASE ObservePulls
  <2>1. /\ UNCHANGED <<mainSha, merged, agents, qualifier, inventory, routed>>
        /\ reviewGate.pc \in {"pulls", "reviews"}
    BY <1>1 DEF ObservePulls, repositoryVars
  <2>. DEFINE last == Len(reviewGate.now.branches)
              b == reviewGate.now.branches[last].branch
              open == OpenInOrder(b)
              next == IF open = <<>> THEN "heads" ELSE "reviews"
              pulls == [n \in DOMAIN open |-> [number |-> open[n], head |-> agents[b].head,
                                               base |-> agents[b].pulls[open[n]].base, review |-> "none"]]
  <2>2. reviewGate' = [reviewGate EXCEPT !.pc = next, !.now.branches[last].pulls = pulls]
    BY <1>1 DEF ObservePulls
  <2>3. next \in {"heads", "reviews"}
    OBVIOUS
  <2>. HIDE DEF next, pulls, open, b
  <2>. QED
    BY <2>1, <2>2, <2>3, PullsRead
<1>2. CASE ObserveReviews
  <2>1. /\ UNCHANGED <<mainSha, merged, agents, qualifier, inventory, routed>>
        /\ reviewGate.pc \in {"pulls", "reviews"}
    BY <1>2 DEF ObserveReviews, repositoryVars
  <2>. DEFINE last == Len(reviewGate.now.branches)
              b == reviewGate.now.branches[last].branch
              old == reviewGate.now.branches[last].pulls
              pulls == [n \in DOMAIN old |-> [old[n] EXCEPT !.review = agents[b].pulls[old[n].number].review]]
  <2>2. /\ HasFields(reviewGate, {"pc", "first", "now"}) /\ HasFields(reviewGate.now, {"main", "merged", "branches"})
        /\ IsSequence(reviewGate.now.branches) /\ reviewGate.now.branches # <<>>
        /\ \A i \in DOMAIN reviewGate.now.branches : HeadSeen(reviewGate.now.branches[i])
    BY <2>1 DEF ReviewInv, GateStands, Looking
  <2>3. last \in DOMAIN reviewGate.now.branches
    <3>1. PICK S : reviewGate.now.branches \in Seq(S)
      BY <2>2 DEF IsSequence
    <3>. QED
      BY <2>2, <3>1, LenProperties, EmptySeq
  <2>4. HasFields(reviewGate.now.branches[last], {"branch", "head", "pulls"})
    BY <2>2, <2>3 DEF HeadSeen
  <2>5. reviewGate' = [reviewGate EXCEPT !.pc = "heads", !.now.branches[last].pulls = pulls]
    BY <1>2, <2>2, <2>3, <2>4 DEF ObserveReviews, HasFields
  <2>6. reviewGate' = [reviewGate EXCEPT !.pc = "heads", !.now.branches[Len(reviewGate.now.branches)].pulls = pulls]
    BY <2>5
  <2>. HIDE DEF pulls
  <2>. QED
    BY <2>1, <2>6, PullsRead
<1>. QED
  BY <1>1, <1>2

LEMMA BeginRevalidationStep == ReviewInv /\ BeginRevalidation => ReviewInv'
<1>. SUFFICES ASSUME ReviewInv, BeginRevalidation PROVE ReviewInv'
  OBVIOUS
<1>. DEFINE obs == [main |-> mainSha, merged |-> merged, branches |-> <<>>]
<1>1. /\ UNCHANGED <<mainSha, merged, agents, qualifier, inventory, routed>> /\ reviewGate.pc = "routed"
      /\ reviewGate' = [reviewGate EXCEPT !.pc = "heads again", !.now = obs]
  BY DEF BeginRevalidation, ObserveMain, repositoryVars
<1>2. /\ HasFields(reviewGate', {"pc", "first", "now"}) /\ reviewGate'.pc = "heads again" /\ reviewGate'.now = obs
      /\ UNCHANGED reviewGate.first
  BY <1>1 DEF ReviewInv, GateStands, HasFields
<1>3. HasFields(obs, {"main", "merged", "branches"}) /\ obs.main = mainSha /\ obs.merged = merged
  BY DEF HasFields
<1>. HIDE DEF obs
<1>4. MainObserved(reviewGate.first) /\ inventory.written
  BY <1>1 DEF ReviewInv, GateStands, Looking
<1>5. MainObserved(reviewGate.first)'
  BY <1>1, <1>2, <1>4 DEF MainObserved
<1>6. obs.main = reviewGate.first.main => obs.merged = reviewGate.first.merged
  BY <1>3, <1>4 DEF MainObserved
<1>7. GateStands'
  BY <1>1, <1>2, <1>3, <1>4, <1>5, <1>6 DEF GateStands, Looking
<1>8. RoutedAsCompared'
  BY <1>1, <1>2 DEF ReviewInv, RoutedAsCompared, SentToReview
<1>. QED
  BY <1>1, <1>7, <1>8, GateMoves

LEMMA RevalidateStep == ReviewInv /\ Revalidate => ReviewInv'
<1>. SUFFICES ASSUME ReviewInv, Revalidate PROVE ReviewInv'
  OBVIOUS
<1>1. /\ UNCHANGED <<mainSha, merged, agents, qualifier, inventory, routed>> /\ reviewGate.pc = "heads again"
  BY DEF Revalidate, repositoryVars
<1>2. PICK found :
        reviewGate' = [reviewGate EXCEPT !.now = [reviewGate.now EXCEPT !.branches = found],
           !.pc = IF Matches(reviewGate.first, [reviewGate.now EXCEPT !.branches = found]) THEN "valid" ELSE "stale"]
  BY DEF Revalidate
<1>. DEFINE again == [reviewGate.now EXCEPT !.branches = found]
<1>3. /\ HasFields(reviewGate, {"pc", "first", "now"}) /\ HasFields(reviewGate.now, {"main", "merged", "branches"})
      /\ MainObserved(reviewGate.first) /\ inventory.written
  BY <1>1 DEF ReviewInv, GateStands, Looking
<1>4. HasFields(again, {"main", "merged", "branches"}) /\ again.main = reviewGate.now.main
      /\ again.merged = reviewGate.now.merged
  BY <1>3 DEF HasFields
<1>5. /\ HasFields(reviewGate', {"pc", "first", "now"}) /\ reviewGate'.now = again /\ UNCHANGED reviewGate.first
      /\ reviewGate'.pc = IF Matches(reviewGate.first, again) THEN "valid" ELSE "stale"
  BY <1>2, <1>3 DEF HasFields
<1>. HIDE DEF again
<1>6. MainObserved(reviewGate.first)'
  BY <1>1, <1>3, <1>5 DEF MainObserved
<1>7. reviewGate'.pc \in {"valid", "stale"} /\ (reviewGate'.pc = "valid" => again.main = reviewGate.first.main)
  BY <1>5 DEF Matches
<1>8. again.main = reviewGate.first.main => again.merged = reviewGate.first.merged
  BY <1>1, <1>4 DEF ReviewInv, GateStands
<1>9. GateStands'
  BY <1>1, <1>3, <1>4, <1>5, <1>6, <1>7, <1>8 DEF GateStands, Looking
<1>10. RoutedAsCompared'
  BY <1>1, <1>5 DEF ReviewInv, RoutedAsCompared, SentToReview
<1>. QED
  BY <1>1, <1>9, <1>10, GateMoves

\* What is routed by a head that has not moved since the listing was compared at that head.
LEMMA RouteStep == ReviewInv /\ Route => ReviewInv'
<1>. SUFFICES ASSUME ReviewInv, Route PROVE ReviewInv'
  OBVIOUS
<1>1. /\ UNCHANGED <<mainSha, merged, agents, qualifier, inventory>> /\ reviewGate.pc = "heads" /\ ToObserve = {}
      /\ reviewGate' = [reviewGate EXCEPT !.pc = "routed", !.first = reviewGate.now, !.now = NoObservation]
  BY DEF Route, repositoryVars
<1>2. /\ HasFields(reviewGate, {"pc", "first", "now"}) /\ HasFields(reviewGate.now, {"main", "merged", "branches"})
      /\ MainObserved(reviewGate.now) /\ inventory.written
      /\ \A i \in DOMAIN reviewGate.now.branches : HeadSeen(reviewGate.now.branches[i])
  BY <1>1 DEF ReviewInv, GateStands, Looking
<1>3. /\ HasFields(reviewGate', {"pc", "first", "now"}) /\ reviewGate'.pc = "routed"
      /\ reviewGate'.first = reviewGate.now /\ reviewGate'.now = NoObservation
  BY <1>1, <1>2 DEF HasFields
<1>4. MainObserved(reviewGate.first)'
  BY <1>1, <1>2, <1>3 DEF MainObserved
<1>5. GateStands'
  <2>1. HasFields(NoObservation, {"main", "merged", "branches"})
    BY DEF NoObservation, HasFields
  <2>. QED
    BY <1>1, <1>2, <1>3, <1>4, <2>1 DEF GateStands, Looking
<1>6. RoutedAsCompared'
  <2>. SUFFICES ASSUME NEW r \in routed'
                PROVE  /\ SentToReview(r) => r.row.cmp.head = r.live.head
                       /\ SentToReview(r) /\ r.row.cmp.main = reviewGate'.first.main =>
                            <<r.row.branch, r.live.head>> \notin reviewGate'.first.merged
                       /\ r.decision = "NO_DEEP_REVIEW" =>
                            <<r.row.branch, r.row.cmp.head>> \in reviewGate'.first.merged
    BY DEF RoutedAsCompared
  <2>1. PICK row \in ToSet(inventory.rows) :
          r = [row |-> row, live |-> LiveOf(reviewGate.now, row.branch),
               decision |-> RouteBranch(row, LiveOf(reviewGate.now, row.branch))]
    BY DEF Route
  <2>2. PICK i \in DOMAIN inventory.rows : row = inventory.rows[i]
    BY DEF ToSet
  <2>. DEFINE live == LiveOf(reviewGate.now, row.branch)
  <2>3. r.row = row /\ r.live = live /\ r.decision = RouteBranch(row, live)
    BY <2>1
  <2>4. RowStands(row)
    BY <2>2 DEF ReviewInv, InventoryStands
  <2>5. live \in ToSet(reviewGate.now.branches) /\ live.branch = row.branch
    <3>1. row.branch \in BranchesOf(reviewGate.now.branches)
      BY <1>1, <2>2 DEF ToObserve, BranchesOf
    <3>2. \E l \in ToSet(reviewGate.now.branches) : l.branch = row.branch
      BY <3>1 DEF BranchesOf, ToSet
    <3>. QED
      BY <3>2 DEF LiveOf
  <2>. HIDE DEF live
  <2>6. HeadSeen(live)
    BY <1>2, <2>5 DEF ToSet
  <2>7. live.head \in Nat /\ row.cmp.head <= live.head
    BY <2>2, <2>5, <2>6 DEF HeadSeen
  <2>8. row.cmp.head \in Nat /\ row.head \in Nat /\ row.head <= row.cmp.head
    BY <2>4 DEF RowStands, Compared
  <2>9. RouteBranch(row, live) = "DEEP_REVIEW_ELIGIBLE" => row.head = live.head /\ row.state \in ReviewStates
    BY DEF RouteBranch, DeferToPull, ByRelevance
  <2>10. RouteBranch(row, live) = "NO_DEEP_REVIEW" => row.state = "SUBSUMED_OR_MERGED"
    BY DEF RouteBranch, DeferToPull, ByRelevance
  <2>11. SentToReview(r) => row.cmp.head = live.head /\ row.cmp.ahead
    BY <2>3, <2>4, <2>7, <2>8, <2>9 DEF SentToReview, RowStands
  <2>12. r.decision = "NO_DEEP_REVIEW" => ~row.cmp.ahead
    BY <2>3, <2>4, <2>10 DEF RowStands
  <2>13. /\ ~row.cmp.ahead => <<row.branch, row.cmp.head>> \in reviewGate.now.merged
         /\ row.cmp.ahead /\ row.cmp.main = reviewGate.now.main =>
              <<row.branch, row.cmp.head>> \notin reviewGate.now.merged
    BY <1>2, <2>2 DEF MainObserved
  <2>. QED
    BY <1>3, <2>3, <2>11, <2>12, <2>13
<1>. QED
  BY <1>1, <1>5, <1>6, GateMoves

LEMMA ReviewStep == ReviewInv /\ [FleetNext]_fleetVars => ReviewInv'
<1>. SUFFICES ASSUME ReviewInv, [FleetNext]_fleetVars PROVE ReviewInv'
  OBVIOUS
<1>1. CASE UNCHANGED fleetVars
  <2>1. RepositoryGrows
    BY <1>1, RepositoryRests DEF fleetVars, ReviewInv
  <2>. QED
    BY <1>1, <2>1, RepositoryStep DEF fleetVars
<1>2. CASE FleetNext
  <2>1. ASSUME NEW b \in BranchNames,
               Push(b) \/ CreateBranch(b) \/ OpenPull(b) \/ ReviewPull(b) \/ ClosePull(b) \/ MergePull(b)
        PROVE  ReviewInv'
    BY <2>1, RepositoryActions, RepositoryStep DEF ReviewInv
  <2>2. CASE MoveMain
    BY <2>2, MainMoves, RepositoryStep DEF ReviewInv
  <2>. QED
    BY <1>2, <2>1, <2>2, ListPageStep, CompareBranchStep, ReadBranchPullsStep, ReadBaseStep, BeginReviewStep,
       ObserveHeadStep, ObservePullsStep, RouteStep, BeginRevalidationStep, RevalidateStep DEF FleetNext
<1>. QED
  BY <1>1, <1>2

LEMMA ReviewHolds == ReviewInv => RoutedAsCompared /\ RevalidatedIsCurrent
<1>. SUFFICES ASSUME ReviewInv PROVE RevalidatedIsCurrent
  BY DEF ReviewInv
<1>1. reviewGate.pc = "valid" => reviewGate.now.merged = reviewGate.first.merged
  BY DEF ReviewInv, GateStands
<1>. QED
  BY <1>1 DEF ReviewInv, RoutedAsCompared, RevalidatedIsCurrent

-------------------------------------------------------------------------------
\* A commit of the kernel writes ledger, state, sidecar and marker one after the
\* other; recover sees from them where a death cut it off.  The marker is of a
\* state whose ledger entry was allowed, and what a death leaves heals.
THEOREM CommitsHeal == KernelSpec => [](MarkerBacked /\ CommitHeals /\ DeployedImpliesSoftware)
<1>. QED
  BY KernelStart, KernelStep, KernelHolds, PTL DEF KernelSpec

\* Whatever others put into the store, a task runs only under an evaluation the
\* authority made of an owner's proposal, the current objective is traceable to
\* its proposal, and a finished ingest has linked every value of its document.
THEOREM AuthorityIsTraceable == AuthoritySpec => [](RunsAreAuthorized /\ CurrentIsTraceable /\ IngestConverges)
<1>. QED
  BY AuthorityStart, StoreStep, StoreHolds, PTL DEF AuthoritySpec

-------------------------------------------------------------------------------
(* The calls from outside.                                                  *)

\* Who works on a call works on one that was made; a task keeps its content.
CallsInv ==
  /\ created \in [ExternalIds -> Digests] /\ DOMAIN ingress = Ingresses
  /\ \A p \in Ingresses : /\ HasFields(ingress[p], {"at", "call"})
                          /\ ingress[p].at # "idle" => ingress[p].call \in Calls
  /\ \A g \in granted : g[1] \in Calls
  /\ AnsweredWithTheirTask

LEMMA CallsStart == IngressInit => CallsInv
<1>1. HasFields(Unoccupied, {"at", "call"}) /\ Unoccupied.at = "idle"
  BY DEF Unoccupied, HasFields
<1>. QED
  BY <1>1 DEF IngressInit, CallsInv, AnsweredWithTheirTask, Digests

LEMMA CallsStep == CallsInv /\ [IngressNext]_ingressVars => CallsInv'
<1>. SUFFICES ASSUME CallsInv, [IngressNext]_ingressVars PROVE CallsInv'
  OBVIOUS
<1>1. CASE UNCHANGED ingressVars
  BY <1>1 DEF ingressVars, CallsInv, AnsweredWithTheirTask, HasFields
<1>2. \A c \in Calls : Digest(c) # NoDigest /\ Digest(c) \in Digests /\ KeyOf(c) \in ExternalIds
  BY IngressAssumption DEF Digest, NoDigest, CallType, Digests, ExternalIds
<1>3. ASSUME NEW p \in Ingresses, NEW row, ingress' = [ingress EXCEPT ![p] = row],
             HasFields(row, {"at", "call"}), row.at # "idle" => row.call \in Calls,
             created' \in [ExternalIds -> Digests],
             \A k \in ExternalIds : created[k] # NoDigest => created'[k] = created[k],
             \A g \in granted' : \/ g \in granted
                                 \/ g[1] \in Calls /\ g[2] = Digest(g[1]) /\ created'[KeyOf(g[1])] = Digest(g[1])
      PROVE  CallsInv'
  <2>1. /\ DOMAIN ingress' = Ingresses /\ ingress'[p] = row /\ \A q \in Ingresses : q # p => ingress'[q] = ingress[q]
    BY <1>3 DEF CallsInv
  <2>2. \A q \in Ingresses :
          HasFields(ingress'[q], {"at", "call"}) /\ (ingress'[q].at # "idle" => ingress'[q].call \in Calls)
    BY <1>3, <2>1 DEF CallsInv
  <2>3. \A g \in granted' : g[1] \in Calls /\ g[2] = Digest(g[1]) /\ created'[KeyOf(g[1])] = Digest(g[1])
    BY <1>2, <1>3 DEF CallsInv, AnsweredWithTheirTask
  <2>. QED
    BY <1>3, <2>1, <2>2, <2>3 DEF CallsInv, AnsweredWithTheirTask, HasFields, Digest
<1>4. HasFields(Unoccupied, {"at", "call"}) /\ Unoccupied.at = "idle"
  BY DEF Unoccupied, HasFields
<1>5. ASSUME NEW p \in Ingresses, NEW to, Move(p, to), ingress[p].at # "idle",
             UNCHANGED granted, UNCHANGED created
      PROVE  CallsInv'
  <2>. DEFINE row == [ingress[p] EXCEPT !.at = to]
  <2>1. HasFields(row, {"at", "call"}) /\ row.call = ingress[p].call
    BY DEF CallsInv, HasFields
  <2>2. ingress' = [ingress EXCEPT ![p] = row] /\ ingress[p].call \in Calls
    BY <1>5 DEF Move, CallsInv
  <2>. HIDE DEF row
  <2>. QED
    BY <1>3, <1>5, <2>1, <2>2 DEF CallsInv
<1>6. ASSUME NEW p \in Ingresses, Leave(p), UNCHANGED <<granted, created>>
      PROVE  CallsInv'
  BY <1>3, <1>4, <1>6 DEF Leave, CallsInv
<1>7. ASSUME NEW p \in Ingresses, NEW c \in Calls, ReceiveCall(p, c) PROVE CallsInv'
  <2>. DEFINE row == [at |-> "source", call |-> c]
  <2>1. HasFields(row, {"at", "call"}) /\ row.call = c
    BY DEF HasFields
  <2>2. ingress' = [ingress EXCEPT ![p] = row] /\ UNCHANGED <<created, granted>>
    BY <1>7 DEF ReceiveCall
  <2>. HIDE DEF row
  <2>. QED
    BY <1>3, <2>1, <2>2 DEF CallsInv
<1>8. ASSUME NEW p \in Ingresses, LookForSource(p) \/ AddSource(p) PROVE CallsInv'
  BY <1>5, <1>6, <1>8 DEF LookForSource, AddSource
<1>9. ASSUME NEW p \in Ingresses, NEW c \in Calls, c = ingress[p].call, Answer(p, Digest(c)),
             created' \in [ExternalIds -> Digests], created'[KeyOf(c)] = Digest(c),
             \A k \in ExternalIds : created[k] # NoDigest => created'[k] = created[k]
      PROVE  CallsInv'
  <2>1. /\ ingress' = [ingress EXCEPT ![p] = Unoccupied] /\ granted' = granted \union {<<c, Digest(c)>>}
    BY <1>9 DEF Answer, Leave
  <2>2. \A g \in granted' : \/ g \in granted
                            \/ g[1] \in Calls /\ g[2] = Digest(g[1]) /\ created'[KeyOf(g[1])] = Digest(g[1])
    BY <1>9, <2>1
  <2>. QED
    BY <1>3, <1>4, <1>9, <2>1, <2>2
<1>10. ASSUME NEW p \in Ingresses, LookForTask(p) PROVE CallsInv'
  <2>. DEFINE c == ingress[p].call
  <2>1. c \in Calls /\ UNCHANGED created /\ ingress[p].at # "idle"
    BY <1>10 DEF LookForTask, CallsInv
  <2>2. CASE Answer(p, created[KeyOf(c)]) /\ created[KeyOf(c)] = Digest(c)
    BY <1>9, <2>1, <2>2 DEF CallsInv
  <2>3. CASE UNCHANGED granted /\ (Move(p, "add task") \/ Leave(p))
    BY <1>5, <1>6, <2>1, <2>3
  <2>. QED
    BY <1>10, <2>2, <2>3 DEF LookForTask
<1>11. ASSUME NEW p \in Ingresses, AddTask(p) PROVE CallsInv'
  <2>. DEFINE c == ingress[p].call
  <2>1. c \in Calls
    BY <1>11 DEF AddTask, CallsInv
  <2>2. CASE created[KeyOf(c)] # NoDigest
    BY <1>6, <1>11, <2>2 DEF AddTask
  <2>3. CASE created[KeyOf(c)] = NoDigest
    <3>1. created' = [created EXCEPT ![KeyOf(c)] = Digest(c)]
          /\ ((Leave(p) /\ UNCHANGED granted) \/ Answer(p, Digest(c)))
      BY <1>11, <2>3 DEF AddTask
    <3>2. created' \in [ExternalIds -> Digests] /\ created'[KeyOf(c)] = Digest(c)
          /\ \A k \in ExternalIds : created[k] # NoDigest => created'[k] = created[k]
      BY <1>2, <2>1, <2>3, <3>1 DEF CallsInv
    <3>3. CASE Answer(p, Digest(c))
      BY <1>9, <2>1, <3>2, <3>3
    <3>4. CASE Leave(p) /\ UNCHANGED granted
      BY <1>3, <1>4, <3>2, <3>4 DEF Leave
    <3>. QED
      BY <3>1, <3>3, <3>4
  <2>. QED
    BY <2>2, <2>3
<1>12. ASSUME NEW p \in Ingresses, IngressDies(p) PROVE CallsInv'
  BY <1>6, <1>12 DEF IngressDies
<1>. QED
  BY <1>1, <1>7, <1>8, <1>10, <1>11, <1>12 DEF IngressNext

-------------------------------------------------------------------------------
(* The download of a signed export.                                         *)

DownloadFields == {"pc", "inode", "sent", "next", "hash"}

\* A content is judged, and recorded, after it is in the raw store.
DownloadInv ==
  /\ DOMAIN download = Downloads /\ \A p \in Downloads : HasFields(download[p], DownloadFields)
  /\ \A p \in Downloads : download[p].pc = "judge" => download[p].hash \in raw
  /\ AcquiredIsWhatWasSent

LEMMA DownloadStart == RecoveryInit => DownloadInv
<1>1. HasFields(DownloadIdle, DownloadFields) /\ DownloadIdle.pc = "idle"
  BY DEF DownloadIdle, HasFields, DownloadFields
<1>. QED
  BY <1>1 DEF RecoveryInit, DownloadInv, AcquiredIsWhatWasSent

LEMMA DownloadSteps == DownloadInv /\ [RecoveryNext]_recoveryVars => DownloadInv'
<1>. SUFFICES ASSUME DownloadInv, [RecoveryNext]_recoveryVars PROVE DownloadInv'
  OBVIOUS
<1>1. CASE UNCHANGED <<download, raw, acquired>>
  BY <1>1 DEF DownloadInv, AcquiredIsWhatWasSent, HasFields
<1>2. ASSUME NEW p \in Downloads, NEW row, download' = [download EXCEPT ![p] = row], HasFields(row, DownloadFields),
             row.pc = "judge" => row.hash \in raw', raw \subseteq raw',
             \A a \in acquired' : a \in acquired \/ (a.content = <<a.sent, a.sent>> /\ a.content \in raw')
      PROVE  DownloadInv'
  <2>1. /\ DOMAIN download' = Downloads /\ download'[p] = row
        /\ \A q \in Downloads : q # p => download'[q] = download[q]
    BY <1>2 DEF DownloadInv
  <2>2. \A q \in Downloads : HasFields(download'[q], DownloadFields)
    BY <1>2, <2>1 DEF DownloadInv
  <2>3. \A q \in Downloads : download'[q].pc = "judge" => download'[q].hash \in raw'
    BY <1>2, <2>1 DEF DownloadInv
  <2>4. AcquiredIsWhatWasSent'
    BY <1>2 DEF DownloadInv, AcquiredIsWhatWasSent
  <2>. QED
    BY <2>1, <2>2, <2>3, <2>4 DEF DownloadInv, HasFields
<1>3. ASSUME NEW p \in Downloads, NEW row, download' = [download EXCEPT ![p] = row], HasFields(row, DownloadFields),
             row.pc # "judge", UNCHANGED <<raw, acquired>>
      PROVE  DownloadInv'
  BY <1>2, <1>3
<1>4. \A p \in Downloads : HasFields(download[p], DownloadFields) /\ DOMAIN download = Downloads
  BY DEF DownloadInv
<1>5. ASSUME NEW p \in Downloads, FailDownload(p), UNCHANGED <<raw, acquired>> PROVE DownloadInv'
  <2>. DEFINE row == [download[p] EXCEPT !.pc = "over"]
  <2>1. HasFields(row, DownloadFields) /\ row.pc = "over" /\ download' = [download EXCEPT ![p] = row]
    BY <1>4, <1>5 DEF FailDownload, HasFields, DownloadFields
  <2>. HIDE DEF row
  <2>. QED
    BY <1>3, <1>5, <2>1
<1>6. ASSUME NEW p \in Downloads, OpenTemp(p) PROVE DownloadInv'
  <2>. DEFINE row == [DownloadIdle EXCEPT !.pc = "write", !.inode = tempPath', !.sent = provider]
  <2>1. HasFields(row, DownloadFields) /\ row.pc = "write"
    BY DEF DownloadIdle, HasFields, DownloadFields
  <2>2. download' = [download EXCEPT ![p] = row] /\ UNCHANGED <<raw, acquired>>
    BY <1>6 DEF OpenTemp
  <2>. HIDE DEF row
  <2>. QED
    BY <1>3, <2>1, <2>2
<1>7. ASSUME NEW p \in Downloads, WriteChunk(p) PROVE DownloadInv'
  <2>. DEFINE row == IF download[p].next = 1 THEN [download[p] EXCEPT !.next = 2]
                     ELSE [download[p] EXCEPT !.pc = "replace"]
  <2>1. HasFields(row, DownloadFields) /\ row.pc # "judge"
    BY <1>4, <1>7 DEF WriteChunk, HasFields, DownloadFields
  <2>2. download' = [download EXCEPT ![p] = row] /\ UNCHANGED <<raw, acquired>>
    BY <1>7 DEF WriteChunk
  <2>. HIDE DEF row
  <2>. QED
    BY <1>3, <2>1, <2>2
<1>8. ASSUME NEW p \in Downloads, ReplaceTemp(p) PROVE DownloadInv'
  <2>. DEFINE row == [download[p] EXCEPT !.pc = "hash"]
  <2>1. HasFields(row, DownloadFields) /\ row.pc = "hash"
    BY <1>4 DEF HasFields, DownloadFields
  <2>2. UNCHANGED <<raw, acquired>> /\ (FailDownload(p) \/ download' = [download EXCEPT ![p] = row])
    BY <1>8 DEF ReplaceTemp
  <2>. HIDE DEF row
  <2>. QED
    BY <1>3, <1>5, <2>1, <2>2
<1>9. ASSUME NEW p \in Downloads, HashDownloaded(p) PROVE DownloadInv'
  <2>. DEFINE row == [download[p] EXCEPT !.pc = "copy", !.hash = inodes[incoming]]
  <2>1. HasFields(row, DownloadFields) /\ row.pc = "copy"
    BY <1>4 DEF HasFields, DownloadFields
  <2>2. UNCHANGED <<raw, acquired>> /\ (FailDownload(p) \/ download' = [download EXCEPT ![p] = row])
    BY <1>4, <1>9 DEF HashDownloaded
  <2>. HIDE DEF row
  <2>. QED
    BY <1>3, <1>5, <2>1, <2>2
<1>10. ASSUME NEW p \in Downloads, CopyDownloaded(p) PROVE DownloadInv'
  <2>. DEFINE row == [download[p] EXCEPT !.pc = "judge"]
  <2>1. HasFields(row, DownloadFields) /\ row.hash = download[p].hash
    BY <1>4 DEF HasFields, DownloadFields
  <2>2. /\ UNCHANGED acquired
        /\ \/ FailDownload(p) /\ UNCHANGED raw
           \/ raw' = raw \union {download[p].hash} /\ download' = [download EXCEPT ![p] = row]
    BY <1>10 DEF CopyDownloaded
  <2>. HIDE DEF row
  <2>. QED
    BY <1>2, <1>5, <2>1, <2>2
<1>11. ASSUME NEW p \in Downloads, JudgeDownload(p) PROVE DownloadInv'
  <2>1. CASE MatchesReceived(p)
    <3>. DEFINE row == [download[p] EXCEPT !.pc = "over"]
                new == [content |-> download[p].hash, sent |-> download[p].sent]
    <3>1. HasFields(row, DownloadFields) /\ row.pc = "over"
      BY <1>4 DEF HasFields, DownloadFields
    <3>2. UNCHANGED raw /\ download' = [download EXCEPT ![p] = row] /\ acquired' = acquired \union {new}
      BY <1>11, <2>1 DEF JudgeDownload
    <3>3. new.content = <<new.sent, new.sent>> /\ new.content \in raw
      BY <1>11, <2>1 DEF JudgeDownload, DownloadInv, MatchesReceived
    <3>. HIDE DEF row, new
    <3>. QED
      BY <1>2, <3>1, <3>2, <3>3
  <2>2. CASE ~MatchesReceived(p)
    BY <1>5, <1>11, <2>2 DEF JudgeDownload
  <2>. QED
    BY <2>1, <2>2
<1>12. ASSUME NEW p \in Downloads, DownloadBreaks(p) PROVE DownloadInv'
  BY <1>5, <1>12 DEF DownloadBreaks
<1>13. ASSUME NEW p, RecoveryDies(p) PROVE DownloadInv'
  <2>1. HasFields(DownloadIdle, DownloadFields) /\ DownloadIdle.pc = "idle"
    BY DEF DownloadIdle, HasFields, DownloadFields
  <2>2. UNCHANGED <<raw, acquired>>
        /\ \/ p \in Downloads /\ download' = [download EXCEPT ![p] = DownloadIdle]
           \/ UNCHANGED download
    BY <1>13 DEF RecoveryDies
  <2>. QED
    BY <1>1, <1>3, <2>1, <2>2
<1>14. CASE PreserveNext \/ DatabaseNext
  BY <1>1, <1>13, <1>14 DEF PreserveNext, DatabaseNext, IngestStep, StartIngest, CreateManifest, WriteManifest,
     GiveBundle, downloadVars
<1>15. CASE DownloadNext
  BY <1>1, <1>6, <1>7, <1>8, <1>9, <1>10, <1>11, <1>12, <1>13, <1>15 DEF DownloadNext, DownloadStep, ProviderRenews
<1>. QED
  BY <1>1, <1>14, <1>15 DEF RecoveryNext, recoveryVars, downloadVars

-------------------------------------------------------------------------------
(* The restoration of a database.                                           *)

FileFields == {"by", "content"}
RestorerFields == {"pc", "expected", "disturbed"}
Compares == {"hash", "copy"} \union Replacing
Preserves == {"open", "backup", "verify", "replace"}

\* A file that is being written has no content yet.
FileStands(file) == HasFields(file, FileFields) /\ (file.by # "none" => file.content = Torn)

\* What an undisturbed restorer has seen is still so: no connection is open, the
\* database is the expected one, it is preserved, and the copy is verified.
Undisturbed(p) ==
  LET expected == restorer[p].expected IN
  ~restorer[p].disturbed =>
    /\ restorer[p].pc \in Compares \ {"final"} => ~writer.open
    /\ restorer[p].pc \in {"copy"} \union Preserves => database.content = expected
    /\ restorer[p].pc \in Preserves => preRestore[expected] = expected
    /\ restorer[p].pc = "replace" => restoreTemp.content \in DbVersions

RestoreInv ==
  /\ latest \in DbVersions
  /\ FileStands(database) /\ FileStands(restoreTemp)
  /\ HasFields(writer, {"open", "displaced", "version"}) /\ writer.open \in BOOLEAN
  /\ writer.open /\ ~writer.displaced => database.by = "none"
  /\ DOMAIN preRestore = DbVersions /\ DOMAIN restorer = Restorers
  /\ \A p \in Restorers :
       /\ HasFields(restorer[p], RestorerFields) /\ restorer[p].disturbed \in BOOLEAN
       /\ restorer[p].pc \in {"idle", "sidecars"} \union Compares
       /\ restorer[p].pc # "idle" => restorer[p].expected \in DbVersions
       /\ Undisturbed(p)
  /\ RestoreHarmIsByOverlap

LEMMA RestoreStart == RecoveryInit => RestoreInv
<1>. SUFFICES ASSUME RecoveryInit PROVE RestoreInv
  OBVIOUS
<1>1. 1 \in DbVersions
  BY RecoveryAssumption DEF DbVersions
<1>2. FileStands(database) /\ FileStands(restoreTemp)
  BY DEF RecoveryInit, FileStands, HasFields, FileFields, NoFile
<1>3. HasFields(RestorerIdle, RestorerFields) /\ RestorerIdle.pc = "idle" /\ RestorerIdle.disturbed = FALSE
  BY DEF RestorerIdle, HasFields, RestorerFields
<1>4. HasFields(writer, {"open", "displaced", "version"}) /\ writer.open = FALSE
  BY DEF RecoveryInit, HasFields
<1>. QED
  BY <1>1, <1>2, <1>3, <1>4
  DEF RecoveryInit, RestoreInv, Undisturbed, RestoreHarmIsByOverlap, Compares, Preserves, Replacing

\* The contents of a database are no torn one.
LEMMA TornIsNoVersion == Torn \notin DbVersions /\ 0 \notin DbVersions
BY RecoveryAssumption DEF Torn, DbVersions

\* Filling a file keeps it, unless it is of this process and has no content.
LEMMA Filling ==
  ASSUME NEW file, FileStands(file), NEW p, NEW made, p # "none"
  PROVE  /\ FileStands(Fill(file, p, made))
         /\ file.content # Torn => Fill(file, p, made) = file
         /\ file.by = "none" => Fill(file, p, made) = file
BY DEF FileStands, Fill, HasFields, FileFields

\* A restorer that moves, all others keeping what they know.
LEMMA RestorerMoves ==
  ASSUME RestoreInv, NEW p \in Restorers, NEW row, restorer' = [restorer EXCEPT ![p] = row],
         HasFields(row, RestorerFields), row.disturbed \in BOOLEAN,
         row.pc \in {"idle", "sidecars"} \union Compares,
         row.pc # "idle" => row.expected \in DbVersions,
         UNCHANGED <<latest, writer, restores>>,
         FileStands(database'), database.content \in DbVersions \/ database.by = "none" => database' = database,
         FileStands(restoreTemp'), DOMAIN preRestore' = DbVersions,
         \A v \in DbVersions : preRestore[v] = v => preRestore'[v] = v \/ database.content # v,
         restoreTemp.content \in DbVersions => restoreTemp'.content \in DbVersions,
         ~row.disturbed =>
           /\ row.pc \in Compares \ {"final"} => ~writer.open
           /\ row.pc \in {"copy"} \union Preserves => database'.content = row.expected
           /\ row.pc \in Preserves => preRestore'[row.expected] = row.expected
           /\ row.pc = "replace" => restoreTemp'.content \in DbVersions
  PROVE  RestoreInv'
<1>1. DOMAIN restorer' = Restorers /\ restorer'[p] = row /\ \A q \in Restorers : q # p => restorer'[q] = restorer[q]
  BY DEF RestoreInv
<1>2. \A q \in Restorers :
        /\ HasFields(restorer'[q], RestorerFields) /\ restorer'[q].disturbed \in BOOLEAN
        /\ restorer'[q].pc \in {"idle", "sidecars"} \union Compares
        /\ restorer'[q].pc # "idle" => restorer'[q].expected \in DbVersions
  BY <1>1 DEF RestoreInv
<1>3. Undisturbed(p)'
  BY <1>1 DEF Undisturbed
<1>4. ASSUME NEW q \in Restorers, q # p PROVE Undisturbed(q)'
  <2>1. /\ Undisturbed(q) /\ restorer'[q] = restorer[q]
        /\ (restorer[q].pc # "idle" => restorer[q].expected \in DbVersions)
    BY <1>1, <1>4 DEF RestoreInv
  <2>. QED
    BY <2>1 DEF Undisturbed, Preserves
<1>5. writer'.open /\ ~writer'.displaced => database'.by = "none"
  BY DEF RestoreInv
<1>6. HasFields(writer, {"open", "displaced", "version"})'
  BY DEF RestoreInv, HasFields
<1>. QED
  BY <1>1, <1>2, <1>3, <1>4, <1>5, <1>6 DEF RestoreInv, RestoreHarmIsByOverlap, HasFields, FileStands

\* Every other restorer is disturbed.
LEMMA RestorerDisturbs ==
  ASSUME RestoreInv, NEW p \in Restorers, NEW row, restorer' = [Disturb(p) EXCEPT ![p] = row],
         HasFields(row, RestorerFields), row.disturbed \in BOOLEAN,
         row.pc \in {"idle", "sidecars"} \union Compares,
         row.pc # "idle" => row.expected \in DbVersions,
         UNCHANGED <<latest, preRestore>>,
         FileStands(restoreTemp'), FileStands(database'),
         HasFields(writer', {"open", "displaced", "version"}), UNCHANGED writer.open,
         writer'.open /\ ~writer'.displaced => database'.by = "none",
         ~row.disturbed =>
           /\ row.pc \in Compares \ {"final"} => ~writer.open
           /\ row.pc \in {"copy"} \union Preserves => database'.content = row.expected
           /\ row.pc \in Preserves => preRestore[row.expected] = row.expected
           /\ row.pc = "replace" => restoreTemp'.content \in DbVersions,
         RestoreHarmIsByOverlap'
  PROVE  RestoreInv'
<1>1. /\ DOMAIN restorer' = Restorers /\ restorer'[p] = row
      /\ \A q \in Restorers : q # p =>
            restorer'[q] = [restorer[q] EXCEPT !.disturbed = restorer[q].disturbed \/ q # p]
  BY DEF RestoreInv, Disturb
<1>2. \A q \in Restorers : q # p =>
        /\ HasFields(restorer'[q], RestorerFields) /\ restorer'[q].disturbed = TRUE
        /\ restorer'[q].pc = restorer[q].pc /\ restorer'[q].expected = restorer[q].expected
  BY <1>1 DEF RestoreInv, HasFields, RestorerFields
<1>3. \A q \in Restorers :
        /\ HasFields(restorer'[q], RestorerFields) /\ restorer'[q].disturbed \in BOOLEAN
        /\ restorer'[q].pc \in {"idle", "sidecars"} \union Compares
        /\ restorer'[q].pc # "idle" => restorer'[q].expected \in DbVersions
  BY <1>1, <1>2 DEF RestoreInv
<1>4. \A q \in Restorers : Undisturbed(q)'
  BY <1>1, <1>2 DEF Undisturbed
<1>. QED
  BY <1>1, <1>3, <1>4 DEF RestoreInv, HasFields, FileStands

LEMMA RestoreSteps ==
  ASSUME RestoreInv, NEW p \in Restorers,
         \/ \E expected \in 1..latest : StartRestore(p, expected)
         \/ CheckSidecars(p) \/ HashDatabase(p) \/ CopyDatabase(p) \/ OpenRestore(p) \/ BackupSnapshot(p)
         \/ VerifyRestoreTemp(p) \/ ReplaceDatabase(p) \/ VerifyRestored(p)
  PROVE  RestoreInv'
<1>. DEFINE r == restorer[p]
            Now(pc) == [r EXCEPT !.pc = pc]
<1>1. /\ HasFields(r, RestorerFields) /\ r.disturbed \in BOOLEAN /\ Undisturbed(p) /\ DOMAIN preRestore = DbVersions
      /\ FileStands(database) /\ FileStands(restoreTemp) /\ p # "none"
      /\ r.pc # "idle" => r.expected \in DbVersions
  BY RecoveryAssumption DEF RestoreInv
<1>2. ASSUME NEW pc PROVE /\ HasFields(Now(pc), RestorerFields) /\ Now(pc).pc = pc /\ Now(pc).expected = r.expected
                          /\ Now(pc).disturbed = r.disturbed
  BY <1>1 DEF HasFields, RestorerFields
<1>3. HasFields(RestorerIdle, RestorerFields) /\ RestorerIdle.pc = "idle" /\ RestorerIdle.disturbed = FALSE
  BY DEF RestorerIdle, HasFields, RestorerFields
<1>. HIDE DEF At
<1>4. ASSUME EndRestore(p),
             UNCHANGED <<latest, writer, database, restores, restoreTemp, preRestore>> PROVE RestoreInv'
  BY <1>1, <1>3, <1>4, RestorerMoves DEF EndRestore, Compares, Preserves, Replacing
<1>5. ASSUME FailRestore(p), UNCHANGED <<latest, writer, database, restores, preRestore>> PROVE RestoreInv'
  <2>1. FileStands(NoFile)
    BY DEF FileStands, NoFile, HasFields, FileFields
  <2>2. RestoreHarmIsByOverlap' /\ FileStands(database)' /\ HasFields(writer, {"open", "displaced", "version"})'
    BY <1>1, <1>5 DEF RestoreInv, RestoreHarmIsByOverlap, FileStands, HasFields
  <2>3. writer'.open /\ ~writer'.displaced => database'.by = "none"
    BY <1>5 DEF RestoreInv
  <2>4. /\ restorer' = [Disturb(p) EXCEPT ![p] = RestorerIdle] /\ restoreTemp' = NoFile
        /\ RestorerIdle.pc \notin Compares \union {"copy", "replace"} \union Preserves
    BY <1>3, <1>5 DEF FailRestore, Compares, Preserves, Replacing
  <2>. QED
    BY <1>3, <1>5, <2>1, <2>2, <2>3, <2>4, RestorerDisturbs
<1>6. ASSUME NEW expected \in 1..latest, StartRestore(p, expected) PROVE RestoreInv'
  <2>. DEFINE row == [pc |-> "sidecars", expected |-> expected, disturbed |-> FALSE]
  <2>1. HasFields(row, RestorerFields) /\ row.pc = "sidecars" /\ row.expected = expected /\ row.disturbed = FALSE
    BY DEF HasFields, RestorerFields
  <2>2. /\ restorer' = [restorer EXCEPT ![p] = row]
        /\ UNCHANGED <<database, latest, writer, preRestore, restoreTemp, restores>>
    BY <1>6 DEF StartRestore
  <2>3. expected \in DbVersions
    BY <1>6, RecoveryAssumption DEF RestoreInv, DbVersions
  <2>. HIDE DEF row
  <2>. QED
    BY <1>1, <2>1, <2>2, <2>3, RestorerMoves DEF Compares, Preserves, Replacing
<1>7. CASE CheckSidecars(p)
  <2>1. UNCHANGED <<database, latest, writer, preRestore, restoreTemp, restores>> /\ r.pc = "sidecars"
    BY <1>7 DEF CheckSidecars
  <2>2. CASE writer.open
    BY <1>4, <1>7, <2>1, <2>2 DEF CheckSidecars
  <2>3. CASE ~writer.open
    <3>. DEFINE row == [r EXCEPT !.pc = "hash", !.disturbed = FALSE]
    <3>1. HasFields(row, RestorerFields) /\ row.pc = "hash" /\ row.expected = r.expected /\ row.disturbed = FALSE
      BY <1>1 DEF HasFields, RestorerFields
    <3>2. restorer' = [restorer EXCEPT ![p] = row]
      BY <1>7, <2>3 DEF CheckSidecars, RestoreInv
    <3>. HIDE DEF row
    <3>. QED
      BY <1>1, <2>1, <2>3, <3>1, <3>2, RestorerMoves DEF Compares, Preserves, Replacing
  <2>. QED
    BY <2>2, <2>3
<1>8. CASE HashDatabase(p)
  <2>1. UNCHANGED <<database, latest, writer, preRestore, restoreTemp, restores>> /\ r.pc = "hash"
    BY <1>8 DEF HashDatabase
  <2>2. CASE EndRestore(p)
    BY <1>4, <2>1, <2>2
  <2>3. CASE RestoreStep(p, "copy") /\ database.content = r.expected
    <3>1. restorer' = [restorer EXCEPT ![p] = Now("copy")]
      BY <2>3 DEF RestoreStep
    <3>2. ~r.disturbed => ~writer.open
      BY <1>1, <2>1 DEF Undisturbed, Compares
    <3>. QED
      BY <1>1, <1>2, <2>1, <2>3, <3>1, <3>2, RestorerMoves DEF Compares, Preserves, Replacing
  <2>. QED
    BY <1>8, <2>2, <2>3 DEF HashDatabase
<1>9. CASE CopyDatabase(p)
  <2>1. /\ UNCHANGED <<database, latest, writer, restoreTemp, restores>> /\ r.pc = "copy"
        /\ preRestore' = [preRestore EXCEPT ![r.expected] = database.content] /\ RestoreStep(p, "open")
    BY <1>9 DEF CopyDatabase
  <2>2. restorer' = [restorer EXCEPT ![p] = Now("open")]
    BY <2>1 DEF RestoreStep
  <2>3. /\ DOMAIN preRestore' = DbVersions /\ preRestore'[r.expected] = database.content
        /\ \A v \in DbVersions : v # r.expected => preRestore'[v] = preRestore[v]
    BY <1>1, <2>1
  <2>4. ~r.disturbed => ~writer.open /\ database.content = r.expected
    BY <1>1, <2>1 DEF Undisturbed, Compares
  <2>. DEFINE row == Now("open")
  <2>5. /\ HasFields(row, RestorerFields) /\ row.pc = "open" /\ row.expected = r.expected
        /\ row.disturbed = r.disturbed /\ r.expected \in DbVersions /\ r.disturbed \in BOOLEAN
        /\ restorer' = [restorer EXCEPT ![p] = row]
    BY <1>1, <1>2, <2>1, <2>2
  <2>. HIDE DEF row
  <2>6. /\ row.pc \in {"idle", "sidecars"} \union Compares /\ row.pc # "replace"
        /\ FileStands(database) /\ FileStands(restoreTemp)
    BY <2>5 DEF Compares, Preserves, Replacing, RestoreInv
  <2>7. /\ \A v \in DbVersions : preRestore[v] = v => preRestore'[v] = v \/ database.content # v
        /\ ~row.disturbed => /\ ~writer.open /\ database.content = row.expected
                             /\ preRestore'[row.expected] = row.expected
    BY <2>3, <2>4, <2>5
  <2>. QED
    BY <2>1, <2>2, <2>3, <2>5, <2>6, <2>7, RestorerMoves
<1>10. CASE OpenRestore(p)
  <2>. DEFINE file == [by |-> p, content |-> Torn]
  <2>1. /\ UNCHANGED <<database, latest, writer, preRestore, restores>> /\ r.pc = "open" /\ restoreTemp' = file
        /\ restorer' = [Disturb(p) EXCEPT ![p].pc = "backup"]
    BY <1>10 DEF OpenRestore
  <2>2. Disturb(p)[p] = r
    <3>1. Disturb(p)[p] = [r EXCEPT !.disturbed = r.disturbed]
      BY <1>1 DEF Disturb
    <3>. QED
      BY <1>1, <3>1 DEF HasFields, RestorerFields
  <2>3. restorer' = [Disturb(p) EXCEPT ![p] = Now("backup")]
    BY <2>1, <2>2 DEF At
  <2>4. FileStands(file)
    BY DEF FileStands, HasFields, FileFields
  <2>5. RestoreHarmIsByOverlap' /\ FileStands(database)' /\ HasFields(writer, {"open", "displaced", "version"})'
    BY <1>1, <2>1 DEF RestoreInv, RestoreHarmIsByOverlap, FileStands, HasFields
  <2>6. writer'.open /\ ~writer'.displaced => database'.by = "none"
    BY <2>1 DEF RestoreInv
  <2>7. ~r.disturbed => ~writer.open /\ database.content = r.expected /\ preRestore[r.expected] = r.expected
    BY <1>1, <2>1 DEF Undisturbed, Compares, Preserves, Replacing
  <2>. HIDE DEF file
  <2>8. /\ "backup" \in {"idle", "sidecars"} \union Compares /\ "backup" # "replace" /\ "backup" # "idle"
    BY DEF Compares, Replacing
  <2>9. r.expected \in DbVersions
    BY <1>1, <2>1
  <2>10. /\ UNCHANGED <<latest, preRestore>> /\ UNCHANGED writer.open /\ FileStands(restoreTemp')
         /\ FileStands(database')
    BY <2>1, <2>4, <2>5
  <2>. DEFINE row == Now("backup")
  <2>11. /\ HasFields(row, RestorerFields) /\ row.disturbed \in BOOLEAN /\ row.disturbed = r.disturbed
         /\ row.pc \in {"idle", "sidecars"} \union Compares /\ row.expected \in DbVersions
         /\ restorer' = [Disturb(p) EXCEPT ![p] = row] /\ row.pc # "replace"
    BY <1>1, <1>2, <2>3, <2>8, <2>9
  <2>12. ~row.disturbed => /\ ~writer.open /\ database'.content = row.expected
                           /\ preRestore[row.expected] = row.expected
    BY <1>2, <2>1, <2>7, <2>11
  <2>. HIDE DEF row
  <2>. QED
    BY <2>5, <2>6, <2>10, <2>11, <2>12, RestorerDisturbs
<1>11. CASE BackupSnapshot(p)
  <2>. DEFINE filled == snapshotFile.content
  <2>1. /\ UNCHANGED <<latest, writer, preRestore, restores>> /\ r.pc = "backup" /\ RestoreStep(p, "verify")
        /\ restoreTemp' = Fill(restoreTemp, p, filled) /\ database' = Fill(database, p, filled)
    BY <1>11 DEF BackupSnapshot
  <2>. HIDE DEF filled
  <2>2. restorer' = [restorer EXCEPT ![p] = Now("verify")]
    BY <2>1 DEF RestoreStep
  <2>3. /\ FileStands(restoreTemp') /\ FileStands(database')
        /\ restoreTemp.content \in DbVersions => restoreTemp' = restoreTemp
        /\ database.content \in DbVersions \/ database.by = "none" => database' = database
    BY <1>1, <2>1, Filling, TornIsNoVersion
  <2>4. ~r.disturbed => ~writer.open /\ database.content = r.expected /\ preRestore[r.expected] = r.expected
    BY <1>1, <2>1 DEF Undisturbed, Compares, Preserves, Replacing
  <2>. QED
    BY <1>1, <1>2, <2>1, <2>2, <2>3, <2>4, RestorerMoves DEF Compares, Preserves, Replacing
<1>12. CASE VerifyRestoreTemp(p)
  <2>1. UNCHANGED <<database, latest, writer, preRestore, restores>> /\ r.pc = "verify"
    BY <1>12 DEF VerifyRestoreTemp
  <2>2. CASE restoreTemp.content \in DbVersions
    <3>1. restorer' = [restorer EXCEPT ![p] = Now("replace")] /\ UNCHANGED restoreTemp
      BY <1>12, <2>2 DEF VerifyRestoreTemp, RestoreStep
    <3>2. ~r.disturbed => ~writer.open /\ database.content = r.expected /\ preRestore[r.expected] = r.expected
      BY <1>1, <2>1 DEF Undisturbed, Compares, Preserves, Replacing
    <3>. QED
      BY <1>1, <1>2, <2>1, <2>2, <3>1, <3>2, RestorerMoves DEF Compares, Preserves, Replacing
  <2>3. CASE restoreTemp.content \notin DbVersions
    BY <1>5, <1>12, <2>1, <2>3 DEF VerifyRestoreTemp
  <2>. QED
    BY <2>2, <2>3
<1>13. CASE ReplaceDatabase(p)
  <2>. DEFINE harm == [torn |-> restoreTemp.content = Torn,
                       lost |-> Committed \in DbVersions /\ \A v \in DbVersions : preRestore[v] # Committed,
                       disturbed |-> r.disturbed]
  <2>1. UNCHANGED <<latest, preRestore>> /\ r.pc = "replace"
    BY <1>13 DEF ReplaceDatabase
  <2>2. CASE restoreTemp = NoFile
    BY <1>5, <1>13, <2>1, <2>2 DEF ReplaceDatabase
  <2>3. CASE restoreTemp # NoFile
    <3>1. /\ database' = restoreTemp /\ restoreTemp' = NoFile /\ writer' = [writer EXCEPT !.displaced = writer.open]
          /\ restores' = IF harm.torn \/ harm.lost THEN restores \union {harm} ELSE restores
          /\ restorer' = [Disturb(p) EXCEPT ![p].pc = "final"]
      BY <1>13, <2>3 DEF ReplaceDatabase
    <3>2. harm.disturbed = r.disturbed /\ (~harm.disturbed => ~harm.torn /\ ~harm.lost)
      <4>. SUFFICES ASSUME ~r.disturbed 
                   PROVE  restoreTemp.content # Torn /\ \E v \in DbVersions : preRestore[v] = Committed
        BY <1>1
      <4>1. /\ ~writer.open /\ database.content = r.expected /\ preRestore[r.expected] = r.expected
            /\ restoreTemp.content \in DbVersions /\ r.expected \in DbVersions
        BY <1>1, <2>1 DEF Undisturbed, Compares, Preserves, Replacing
      <4>. QED
        BY <4>1, TornIsNoVersion DEF Committed
    <3>. HIDE DEF harm
    <3>3. RestoreHarmIsByOverlap'
      BY <3>1, <3>2 DEF RestoreInv, RestoreHarmIsByOverlap
    <3>4. Disturb(p)[p] = r
      <4>1. Disturb(p)[p] = [r EXCEPT !.disturbed = r.disturbed]
        BY <1>1 DEF Disturb
      <4>. QED
        BY <1>1, <4>1 DEF HasFields, RestorerFields
    <3>5. restorer' = [Disturb(p) EXCEPT ![p] = Now("final")]
      BY <3>1, <3>4 DEF At
    <3>6. FileStands(restoreTemp') /\ FileStands(database')
      BY <1>1, <3>1 DEF FileStands, NoFile, HasFields, FileFields
    <3>7. /\ HasFields(writer', {"open", "displaced", "version"})
          /\ UNCHANGED writer.open /\ writer'.displaced = writer.open
      BY <3>1 DEF RestoreInv, HasFields
    <3>. QED
      BY <1>1, <1>2, <2>1, <3>3, <3>5, <3>6, <3>7, RestorerDisturbs DEF Compares, Preserves, Replacing
  <2>. QED
    BY <2>2, <2>3
<1>14. CASE VerifyRestored(p)
  BY <1>4, <1>14 DEF VerifyRestored
<1>. QED
  BY <1>6, <1>7, <1>8, <1>9, <1>10, <1>11, <1>12, <1>13, <1>14

\* Connections come and go, a snapshot is taken, and a process dies.
LEMMA DatabaseMoves ==
  ASSUME RestoreInv,
         \/ OpenDatabase \/ CommitDatabase \/ CloseDatabase
         \/ \E p \in Snapshotters :
              OpenSnapshot(p) \/ BackupDatabase(p) \/ VerifySnapshotTemp(p) \/ ReplaceSnapshot(p)
  PROVE  RestoreInv'
<1>1. CASE OpenDatabase
  <2>1. /\ UNCHANGED <<database, latest, preRestore, restoreTemp, restores>> /\ database.content \in DbVersions
        /\ writer' = [open |-> TRUE, displaced |-> FALSE, version |-> database.content]
        /\ restorer' = [p \in Restorers |-> [restorer[p] EXCEPT !.disturbed = TRUE]]
    BY <1>1 DEF OpenDatabase
  <2>2. HasFields(writer', {"open", "displaced", "version"}) /\ writer'.open = TRUE
    BY <2>1 DEF HasFields
  <2>3. database.by = "none"
    BY <2>1, TornIsNoVersion DEF RestoreInv, FileStands
  <2>4. DOMAIN restorer' = Restorers /\ \A p \in Restorers :
          /\ HasFields(restorer'[p], RestorerFields) /\ restorer'[p].disturbed = TRUE
          /\ restorer'[p].pc = restorer[p].pc /\ restorer'[p].expected = restorer[p].expected
    BY <2>1 DEF RestoreInv, HasFields, RestorerFields
  <2>5. \A p \in Restorers : Undisturbed(p)'
    BY <2>4 DEF Undisturbed
  <2>6. /\ \A p \in Restorers : /\ restorer'[p].disturbed \in BOOLEAN
                                 /\ restorer'[p].pc \in {"idle", "sidecars"} \union Compares
                                 /\ restorer'[p].pc # "idle" => restorer'[p].expected \in DbVersions
        /\ RestoreHarmIsByOverlap'
    BY <2>1, <2>4 DEF RestoreInv, RestoreHarmIsByOverlap
  <2>. QED
    BY <2>1, <2>2, <2>3, <2>4, <2>5, <2>6 DEF RestoreInv, HasFields, FileStands
<1>2. ASSUME UNCHANGED <<preRestore, restoreTemp, restores, restorer>>, latest' \in DbVersions,
             UNCHANGED writer.displaced,
             HasFields(writer', {"open", "displaced", "version"}), writer'.open \in BOOLEAN,
             writer'.open => writer.open,
             FileStands(database'), ~writer.open => UNCHANGED database,
             writer.open /\ ~writer.displaced => database'.by = "none"
      PROVE  RestoreInv'
  <2>1. \A p \in Restorers : Undisturbed(p)'
    <3>. SUFFICES ASSUME NEW p \in Restorers, ~restorer[p].disturbed, writer.open PROVE Undisturbed(p)'
      BY <1>2 DEF RestoreInv, Undisturbed
    <3>1. restorer[p].pc \notin Compares \ {"final"}
      BY DEF RestoreInv, Undisturbed
    <3>. QED
      BY <1>2, <3>1 DEF Undisturbed, Compares, Preserves, Replacing
  <2>. QED
    BY <1>2, <2>1 DEF RestoreInv, RestoreHarmIsByOverlap, HasFields, FileStands
<1>3. HasFields(writer, {"open", "displaced", "version"}) /\ FileStands(database) /\ writer.open \in BOOLEAN
      /\ latest \in DbVersions
  BY DEF RestoreInv
<1>4. CASE CommitDatabase
  <2>1. /\ UNCHANGED <<database, preRestore, restoreTemp, restores, restorer>> /\ latest' = latest + 1
        /\ latest < MaxDbVersions /\ writer.open /\ writer' = [writer EXCEPT !.version = latest + 1]
    BY <1>4 DEF CommitDatabase
  <2>2. HasFields(writer', {"open", "displaced", "version"}) /\ UNCHANGED <<writer.open, writer.displaced>>
    BY <1>3, <2>1 DEF HasFields
  <2>3. latest' \in DbVersions
    BY <1>3, <2>1, RecoveryAssumption DEF DbVersions
  <2>4. FileStands(database') /\ (writer.open /\ ~writer.displaced => database'.by = "none")
    BY <1>3, <2>1 DEF RestoreInv
  <2>. QED
    BY <1>2, <1>3, <2>1, <2>2, <2>3, <2>4
<1>5. CASE CloseDatabase
  <2>1. /\ UNCHANGED <<latest, preRestore, restoreTemp, restores, restorer>> /\ writer.open
        /\ writer' = [open |-> FALSE, displaced |-> FALSE, version |-> 0]
        /\ database' = IF writer.displaced THEN database ELSE [database EXCEPT !.content = writer.version]
    BY <1>5 DEF CloseDatabase
  <2>2. HasFields(writer', {"open", "displaced", "version"}) /\ writer'.open = FALSE
    BY <2>1 DEF HasFields
  <2>3. FileStands(database')
    BY <1>3, <2>1 DEF RestoreInv, FileStands, HasFields, FileFields
  <2>4. \A p \in Restorers : Undisturbed(p)'
    <3>. SUFFICES ASSUME NEW p \in Restorers, ~restorer[p].disturbed PROVE Undisturbed(p)'
      BY <2>1 DEF Undisturbed
    <3>1. restorer[p].pc \notin Compares \ {"final"}
      BY <2>1 DEF RestoreInv, Undisturbed
    <3>. QED
      BY <2>1, <3>1 DEF Undisturbed, Compares, Preserves, Replacing
  <2>. QED
    BY <2>1, <2>2, <2>3, <2>4 DEF RestoreInv, RestoreHarmIsByOverlap, HasFields, FileStands
<1>6. ASSUME UNCHANGED <<database, latest, writer, preRestore, restoreTemp, restorer, restores>> PROVE RestoreInv'
  BY <1>6 DEF RestoreInv, RestoreHarmIsByOverlap, HasFields, FileStands, Undisturbed
<1>. QED
  BY <1>1, <1>4, <1>5, <1>6 DEF OpenSnapshot, BackupDatabase, VerifySnapshotTemp, ReplaceSnapshot

LEMMA DatabaseSteps == RestoreInv /\ [RecoveryNext]_recoveryVars => RestoreInv'
<1>. SUFFICES ASSUME RestoreInv, [RecoveryNext]_recoveryVars PROVE RestoreInv'
  OBVIOUS
<1>1. CASE UNCHANGED databaseVars
  BY <1>1 DEF databaseVars, RestoreInv, RestoreHarmIsByOverlap, HasFields, FileStands, Undisturbed
<1>2. ASSUME NEW p \in Snapshotters \union Restorers, SnapshotDies(p) PROVE RestoreInv'
  <2>1. /\ database' = Fill(database, p, Torn) /\ restoreTemp' = Fill(restoreTemp, p, Torn)
        /\ UNCHANGED <<latest, writer, preRestore, restores>>
        /\ (p \in Restorers /\ EndRestore(p)) \/ UNCHANGED restorer
    BY <1>2 DEF SnapshotDies
  <2>2. p # "none" /\ FileStands(database) /\ FileStands(restoreTemp)
    BY RecoveryAssumption DEF RestoreInv
  <2>3. /\ FileStands(restoreTemp') /\ FileStands(database')
        /\ restoreTemp.content \in DbVersions => restoreTemp' = restoreTemp
        /\ database.content \in DbVersions \/ database.by = "none" => database' = database
    BY <2>1, <2>2, Filling, TornIsNoVersion
  <2>4. CASE p \in Restorers /\ EndRestore(p)
    <3>1. HasFields(RestorerIdle, RestorerFields) /\ RestorerIdle.pc = "idle" /\ RestorerIdle.disturbed = FALSE
      BY DEF RestorerIdle, HasFields, RestorerFields
    <3>2. DOMAIN preRestore' = DbVersions
      BY <2>1 DEF RestoreInv
    <3>. QED
      BY <2>1, <2>3, <2>4, <3>1, <3>2, RestorerMoves DEF EndRestore, Compares, Preserves, Replacing
  <2>5. CASE UNCHANGED restorer
    <3>1. \A q \in Restorers : Undisturbed(q)'
      <4>. SUFFICES ASSUME NEW q \in Restorers PROVE Undisturbed(q)'
        OBVIOUS
      <4>1. Undisturbed(q) /\ (restorer[q].pc # "idle" => restorer[q].expected \in DbVersions)
        BY DEF RestoreInv
      <4>. QED
        BY <2>1, <2>3, <2>5, <4>1 DEF Undisturbed, Preserves
    <3>2. writer'.open /\ ~writer'.displaced => database'.by = "none"
      BY <2>1, <2>3 DEF RestoreInv
    <3>. QED
      BY <2>1, <2>3, <2>5, <3>1, <3>2 DEF RestoreInv, RestoreHarmIsByOverlap, HasFields, FileStands
  <2>. QED
    BY <2>1, <2>4, <2>5
<1>3. CASE DownloadNext \/ PreserveNext
  BY <1>1, <1>3 DEF DownloadNext, PreserveNext
<1>4. CASE DatabaseNext
  BY <1>2, <1>4, DatabaseMoves, RestoreSteps DEF DatabaseNext, DatabaseStep
<1>. QED
  BY <1>1, <1>3, <1>4 DEF RecoveryNext, recoveryVars

-------------------------------------------------------------------------------
(* The neutral store of exports.                                            *)

UnderLock == {"scan", "object", "copy", "receipt", "write", "index"}
PreserveRows ==
  [pc : UnderLock \union {"idle", "lock"}, message : MessageIds \union {"none"}, hash : 0..MaxContent,
   created : BOOLEAN]

ExportShape ==
  /\ exported \in [Contents -> 0..Partial]
  /\ receipts \subseteq [message : MessageIds \union {"none"}, content : Contents, whole : BOOLEAN]
  /\ ingester \in [Ingesters -> PreserveRows] /\ sourceFile \in [Ingesters -> Contents]
  /\ \A p \in Ingesters : ingester[p].pc # "idle" => ingester[p].hash \in Contents
  /\ HasFields(exportCounts, {"changes", "ingests", "deaths"}) /\ exportCounts.deaths \in Nat

\* One process at a time is past the lock.
LockIsHeld == \A p \in Ingesters : ingester[p].pc \in UnderLock => storeLock = p

\* A receipt, whole or not, is written after its object, and after the process
\* has read all others under the lock.
ReceiptAfterObject ==
  /\ \A r \in receipts : exported[r.content] = r.content
  /\ \A p \in Ingesters :
       LET m == ingester[p].message  c == ingester[p].hash IN
       /\ ingester[p].pc = "copy" => exported[c] = Partial
       /\ ingester[p].pc \in {"receipt", "write", "index"} => exported[c] = c
       /\ ingester[p].pc \in {"object", "copy", "receipt"} => \A r \in receipts : ~StrongIdentityConflict(r, m, c)
       /\ ingester[p].pc = "write" => Receipt(m, c, FALSE) \in receipts

\* Without a death, what is half-done is in the hands of a process.
HalfDoneInHand ==
  exportCounts.deaths = 0 =>
    /\ \A r \in receipts :
         \/ r.whole /\ <<r.message, r.content>> \in index
         \/ \E p \in Ingesters : /\ ingester[p].pc = "write" \/ (ingester[p].pc = "index" /\ r.whole)
                                 /\ r.message = ingester[p].message /\ r.content = ingester[p].hash
    /\ \A c \in Contents :
         exported[c] = Partial => \E p \in Ingesters : ingester[p].pc = "copy" /\ ingester[p].hash = c

ExportInv == ExportShape /\ LockIsHeld /\ ReceiptAfterObject /\ HalfDoneInHand /\ SourceBoundOnce

LEMMA ExportStart == ExportInit => ExportInv
<1>. SUFFICES ASSUME ExportInit PROVE ExportInv
  OBVIOUS
<1>1. IngesterIdle \in PreserveRows /\ IngesterIdle.pc = "idle"
  BY ExportAssumption DEF IngesterIdle, PreserveRows
<1>2. HasFields(exportCounts, {"changes", "ingests", "deaths"}) /\ exportCounts.deaths = 0
  BY DEF ExportInit, HasFields
<1>3. Absent \in 0..Partial /\ Absent # Partial
  BY ExportAssumption DEF Absent, Partial
<1>. QED
  BY <1>1, <1>2, <1>3 DEF ExportInit, ExportInv, ExportShape, LockIsHeld, ReceiptAfterObject, HalfDoneInHand,
                         SourceBoundOnce, UnderLock

\* The kinds of content of a path.
LEMMA ContentKinds ==
  /\ Absent \in 0..Partial /\ Partial \in 0..Partial /\ Absent # Partial
  /\ \A c \in Contents : c \in 0..Partial /\ c \in 0..MaxContent /\ c # Absent /\ c # Partial
BY ExportAssumption DEF Absent, Partial, Contents

\* Another process moves on and nothing else is touched.
LEMMA OutsideLock ==
  ASSUME ExportInv, NEW p \in Ingesters, ingester[p].pc \in {"idle", "lock"},
         UNCHANGED <<exported, receipts, index>>, NEW row \in PreserveRows,
         ingester' = [ingester EXCEPT ![p] = row],
         \/ row.pc \in {"idle", "lock"} /\ UNCHANGED storeLock
         \/ row.pc = "scan" /\ storeLock = "none" /\ storeLock' = p,
         row.pc # "idle" => row.hash \in Contents,
         sourceFile' \in [Ingesters -> Contents],
         HasFields(exportCounts, {"changes", "ingests", "deaths"})', UNCHANGED exportCounts.deaths
  PROVE  ExportInv'
<1>1. /\ ingester' \in [Ingesters -> PreserveRows] /\ ingester'[p] = row
      /\ \A q \in Ingesters : q # p => ingester'[q] = ingester[q]
  BY DEF ExportInv, ExportShape
<1>2. ExportShape'
  BY <1>1 DEF ExportInv, ExportShape
<1>3. LockIsHeld'
  BY <1>1, ExportAssumption DEF ExportInv, LockIsHeld, UnderLock
<1>4. ReceiptAfterObject'
  BY <1>1 DEF ExportInv, ReceiptAfterObject, StrongIdentityConflict, Receipt
<1>5. HalfDoneInHand'
  <2>. SUFFICES ASSUME exportCounts.deaths = 0 PROVE HalfDoneInHand'
    BY DEF HalfDoneInHand
  <2>1. \A q \in Ingesters : ingester[q].pc \in {"write", "index", "copy"} => ingester'[q] = ingester[q]
    BY <1>1
  <2>. QED
    BY <2>1 DEF ExportInv, HalfDoneInHand
<1>6. SourceBoundOnce'
  BY DEF ExportInv, SourceBoundOnce
<1>. QED
  BY <1>2, <1>3, <1>4, <1>5, <1>6 DEF ExportInv

\* A process under the lock moves on under it.
LEMMA UnderLockMoves ==
  ASSUME ExportInv, NEW p \in Ingesters, ingester[p].pc \in UnderLock,
         UNCHANGED <<storeLock, sourceFile, exportCounts>>, NEW row \in PreserveRows,
         ingester' = [ingester EXCEPT ![p] = row],
         row.pc \in UnderLock, row.message = ingester[p].message, row.hash = ingester[p].hash,
         exported' \in [Contents -> 0..Partial],
         receipts' \subseteq [message : MessageIds \union {"none"}, content : Contents, whole : BOOLEAN]
  PROVE  /\ ExportShape' /\ LockIsHeld' /\ row.hash \in Contents
         /\ ingester'[p] = row /\ \A q \in Ingesters : q # p => ingester'[q] = ingester[q]
         /\ \A q \in Ingesters : q # p => ingester[q].pc \notin UnderLock
<1>1. /\ ingester' \in [Ingesters -> PreserveRows] /\ ingester'[p] = row
      /\ \A q \in Ingesters : q # p => ingester'[q] = ingester[q]
  BY DEF ExportInv, ExportShape
<1>2. \A q \in Ingesters : q # p => ingester[q].pc \notin UnderLock
  BY DEF ExportInv, LockIsHeld
<1>3. ingester[p].hash \in Contents
  BY DEF ExportInv, ExportShape, UnderLock
<1>4. ExportShape'
  BY <1>1, <1>3 DEF ExportInv, ExportShape
<1>5. LockIsHeld'
  BY <1>1, <1>2 DEF ExportInv, LockIsHeld
<1>. QED
  BY <1>1, <1>2, <1>3, <1>4, <1>5

\* A process ends, or dies, in a place that leaves nothing half-done.
LEMMA CallEnds ==
  ASSUME ExportInv, NEW p \in Ingesters, ingester[p].pc # "idle",
         ingester' = [ingester EXCEPT ![p] = IngesterIdle],
         \A q \in Ingesters : q # p /\ ingester[q].pc \in UnderLock => storeLock' = q,
         UNCHANGED <<receipts, sourceFile>>, exported' \in [Contents -> 0..Partial],
         \A c \in Contents : exported'[c] = exported[c] \/ (exported[c] = Partial /\ exported'[c] = Absent),
         \A q \in Ingesters : q # p /\ ingester[q].pc = "copy" => exported'[ingester[q].hash] = Partial,
         HasFields(exportCounts, {"changes", "ingests", "deaths"})', exportCounts.deaths' \in Nat,
         exportCounts.deaths' = 0 =>
           /\ exportCounts.deaths = 0 /\ index \subseteq index'
           /\ \A r \in receipts : r.message = ingester[p].message /\ r.content = ingester[p].hash
                                    /\ (ingester[p].pc = "write" \/ (ingester[p].pc = "index" /\ r.whole)) =>
                r.whole /\ <<r.message, r.content>> \in index'
           /\ ingester[p].pc = "copy" => exported'[ingester[p].hash] # Partial
  PROVE  ExportInv'
<1>1. /\ ingester'[p] = IngesterIdle /\ \A q \in Ingesters : q # p => ingester'[q] = ingester[q]
      /\ IngesterIdle.pc = "idle" /\ IngesterIdle \in PreserveRows
      /\ ingester' \in [Ingesters -> PreserveRows]
  BY ExportAssumption DEF ExportInv, ExportShape, IngesterIdle, PreserveRows
<1>2. ExportShape'
  BY <1>1 DEF ExportInv, ExportShape
<1>3. LockIsHeld'
  BY <1>1 DEF ExportInv, LockIsHeld, UnderLock
<1>4. ReceiptAfterObject'
  <2>1. ASSUME NEW c \in Contents, exported[c] = c PROVE exported'[c] = c
    BY <2>1, ContentKinds
  <2>2. \A r \in receipts : r.content \in Contents
    BY DEF ExportInv, ExportShape
  <2>3. \A q \in Ingesters : ingester[q].pc # "idle" => ingester[q].hash \in Contents
    BY DEF ExportInv, ExportShape
  <2>4. \A r \in receipts' : exported'[r.content] = r.content
    BY <2>1, <2>2 DEF ExportInv, ReceiptAfterObject
  <2>5. ASSUME NEW q \in Ingesters, q # p
        PROVE  LET m == ingester[q].message  c == ingester[q].hash IN
               /\ ingester[q].pc = "copy" => exported'[c] = Partial
               /\ ingester[q].pc \in {"receipt", "write", "index"} => exported'[c] = c
               /\ ingester[q].pc \in {"object", "copy", "receipt"} =>
                    \A r \in receipts : ~StrongIdentityConflict(r, m, c)
               /\ ingester[q].pc = "write" => Receipt(m, c, FALSE) \in receipts
    BY <2>1, <2>3, <2>5 DEF ExportInv, ReceiptAfterObject
  <2>6. \A q \in Ingesters : q # p => ingester'[q] = ingester[q]
    BY <1>1
  <2>7. ingester'[p].pc = "idle"
    BY <1>1
  <2>. QED
    BY <2>4, <2>5, <2>6, <2>7 DEF ReceiptAfterObject, StrongIdentityConflict, Receipt
<1>5. HalfDoneInHand'
  <2>. SUFFICES ASSUME exportCounts.deaths' = 0
       PROVE  /\ \A r \in receipts :
                   \/ r.whole /\ <<r.message, r.content>> \in index'
                   \/ \E q \in Ingesters : /\ ingester'[q].pc = "write" \/ (ingester'[q].pc = "index" /\ r.whole)
                                           /\ r.message = ingester'[q].message /\ r.content = ingester'[q].hash
              /\ \A c \in Contents : exported'[c] = Partial =>
                   \E q \in Ingesters : ingester'[q].pc = "copy" /\ ingester'[q].hash = c
    BY DEF HalfDoneInHand
  <2>1. HalfDoneInHand /\ exportCounts.deaths = 0 /\ index \subseteq index'
    BY DEF ExportInv
  <2>2. \A c \in Contents : exported'[c] = Partial => exported[c] = Partial
    BY ContentKinds
  <2>3. ASSUME NEW r \in receipts
        PROVE \/ r.whole /\ <<r.message, r.content>> \in index'
              \/ \E q \in Ingesters : /\ ingester'[q].pc = "write" \/ (ingester'[q].pc = "index" /\ r.whole)
                                      /\ r.message = ingester'[q].message /\ r.content = ingester'[q].hash
    <3>1. CASE r.whole /\ <<r.message, r.content>> \in index
      BY <3>1, <2>1
    <3>2. CASE \E q \in Ingesters : /\ ingester[q].pc = "write" \/ (ingester[q].pc = "index" /\ r.whole)
                                    /\ r.message = ingester[q].message /\ r.content = ingester[q].hash
      <4>1. PICK q \in Ingesters : /\ ingester[q].pc = "write" \/ (ingester[q].pc = "index" /\ r.whole)
                                   /\ r.message = ingester[q].message /\ r.content = ingester[q].hash
        BY <3>2
      <4>2. CASE q = p
        BY <4>1, <4>2
      <4>3. CASE q # p
        BY <4>1, <4>3, <1>1
      <4>. QED
        BY <4>2, <4>3
    <3>. QED
      BY <3>1, <3>2, <2>1 DEF HalfDoneInHand
  <2>4. ASSUME NEW c \in Contents, exported'[c] = Partial
        PROVE  \E q \in Ingesters : ingester'[q].pc = "copy" /\ ingester'[q].hash = c
    <3>1. PICK q \in Ingesters : ingester[q].pc = "copy" /\ ingester[q].hash = c
      BY <2>1, <2>2, <2>4 DEF HalfDoneInHand
    <3>2. q # p
      BY <3>1, <2>4
    <3>. QED
      BY <3>1, <3>2, <1>1
  <2>. QED
    BY <2>3, <2>4
<1>6. SourceBoundOnce'
  BY DEF ExportInv, SourceBoundOnce
<1>. QED
  BY <1>2, <1>3, <1>4, <1>5, <1>6 DEF ExportInv

LEMMA ScanSteps ==
  ASSUME ExportInv, NEW p \in Ingesters, StoreLock(p) \/ ScanReceipts(p) \/ AppendIndex(p)
  PROVE  ExportInv'
<1>. DEFINE i == ingester[p]
<1>1. /\ i \in PreserveRows /\ ingester \in [Ingesters -> PreserveRows] /\ sourceFile \in [Ingesters -> Contents]
      /\ HasFields(exportCounts, {"changes", "ingests", "deaths"}) /\ exportCounts.deaths \in Nat
      /\ exported \in [Contents -> 0..Partial]
      /\ \A q \in Ingesters : q # p /\ i.pc \in UnderLock => ingester[q].pc \notin UnderLock
      /\ \A q \in Ingesters : ingester[q].pc = "copy" => exported[ingester[q].hash] = Partial
  BY DEF ExportInv, ExportShape, LockIsHeld, ReceiptAfterObject
<1>2. CASE StoreLock(p)
  <2>. DEFINE row == [i EXCEPT !.pc = "scan"]
  <2>1. row \in PreserveRows /\ row.pc = "scan" /\ row.hash = i.hash
    BY <1>1 DEF PreserveRows, UnderLock
  <2>2. i.pc = "lock" /\ storeLock = "none" /\ storeLock' = p /\ ingester' = [ingester EXCEPT ![p] = row]
        /\ UNCHANGED <<exported, receipts, index, sourceFile, exportCounts>>
    BY <1>2 DEF StoreLock, Step
  <2>3. row.hash \in Contents
    BY <2>1, <2>2 DEF ExportInv, ExportShape
  <2>. HIDE DEF row
  <2>. QED
    BY <1>1, <2>1, <2>2, <2>3, OutsideLock
<1>3. ASSUME NEW status, i.pc \in UnderLock, End(p, status),
             UNCHANGED <<exported, receipts, sourceFile, exportCounts>>,
             \/ UNCHANGED index /\ i.pc = "scan"
             \/ i.pc = "index" /\ index' = index \union {<<i.message, i.hash>>}
      PROVE  ExportInv'
  <2>1. i.pc # "idle" /\ i.pc # "copy" /\ index \subseteq index'
    BY <1>3 DEF UnderLock
  <2>2. \A r \in receipts : r.message = i.message /\ r.content = i.hash /\ (i.pc = "index" /\ r.whole) =>
          r.whole /\ <<r.message, r.content>> \in index'
    BY <1>3
  <2>3. i.pc # "write"
    BY <1>3
  <2>. QED
    BY <1>1, <1>3, <2>1, <2>2, <2>3, CallEnds DEF End
<1>4. CASE ScanReceipts(p)
  <2>. DEFINE m == i.message
              c == i.hash
  <2>1. i.pc = "scan" /\ i.pc \in UnderLock /\ UNCHANGED <<exported, receipts, index, sourceFile, exportCounts>>
    BY <1>4 DEF ScanReceipts, UnderLock
  <2>2. \/ \E status : End(p, status)
        \/ /\ Step(p, "object") /\ UNCHANGED storeLock
           /\ ~\E r \in receipts : StrongIdentityConflict(r, m, c)
    BY <1>4 DEF ScanReceipts
  <2>3. CASE \E status : End(p, status)
    BY <1>3, <2>1, <2>3
  <2>4. CASE Step(p, "object") /\ UNCHANGED storeLock /\ ~\E r \in receipts : StrongIdentityConflict(r, m, c)
    <3>. DEFINE row == [i EXCEPT !.pc = "object"]
    <3>1. row \in PreserveRows /\ row.pc = "object" /\ row.hash = i.hash /\ row.message = i.message
      BY <1>1 DEF PreserveRows, UnderLock
    <3>2. ingester' = [ingester EXCEPT ![p] = row]
      BY <2>4 DEF Step
    <3>. HIDE DEF row
    <3>3. receipts' \subseteq [message : MessageIds \union {"none"}, content : Contents, whole : BOOLEAN]
      BY <2>1 DEF ExportInv, ExportShape
    <3>4. /\ ExportShape' /\ LockIsHeld' /\ ingester'[p] = row
          /\ \A q \in Ingesters : q # p => ingester'[q] = ingester[q]
      BY <1>1, <2>1, <2>4, <3>1, <3>2, <3>3, UnderLockMoves DEF UnderLock
    <3>5. ReceiptAfterObject'
      BY <2>1, <2>4, <3>1, <3>4 DEF ExportInv, ReceiptAfterObject, StrongIdentityConflict, Receipt
    <3>6. \A q \in Ingesters : ingester[q].pc \in {"write", "index", "copy"} => ingester'[q] = ingester[q]
      BY <2>1, <3>4
    <3>7. HalfDoneInHand'
      BY <2>1, <3>6 DEF ExportInv, HalfDoneInHand
    <3>8. SourceBoundOnce'
      BY <2>1 DEF ExportInv, SourceBoundOnce
    <3>. QED
      BY <3>4, <3>5, <3>7, <3>8 DEF ExportInv
  <2>. QED
    BY <2>2, <2>3, <2>4
<1>5. CASE AppendIndex(p)
  <2>1. /\ i.pc = "index" /\ i.pc \in UnderLock /\ UNCHANGED <<exported, receipts, sourceFile, exportCounts>>
        /\ index' = index \union {<<i.message, i.hash>>} /\ \E status : End(p, status)
    BY <1>5 DEF AppendIndex, UnderLock
  <2>. QED
    BY <1>3, <2>1
<1>. QED
  BY <1>2, <1>4, <1>5

LEMMA ObjectSteps ==
  ASSUME ExportInv, NEW p \in Ingesters, PreserveObject(p) \/ CopyObject(p)
  PROVE  ExportInv'
<1>. DEFINE i == ingester[p]
            c == ingester[p].hash
<1>1. /\ i \in PreserveRows /\ ingester \in [Ingesters -> PreserveRows] /\ sourceFile \in [Ingesters -> Contents]
      /\ HasFields(exportCounts, {"changes", "ingests", "deaths"}) /\ exportCounts.deaths \in Nat
      /\ exported \in [Contents -> 0..Partial]
      /\ \A q \in Ingesters : q # p /\ i.pc \in UnderLock => ingester[q].pc \notin UnderLock
      /\ \A q \in Ingesters : ingester[q].pc = "copy" => exported[ingester[q].hash] = Partial
      /\ i.pc # "idle" => c \in Contents
      /\ \A r \in receipts : exported[r.content] = r.content /\ r.content \in Contents
      /\ receipts \subseteq [message : MessageIds \union {"none"}, content : Contents, whole : BOOLEAN]
  BY DEF ExportInv, ExportShape, LockIsHeld, ReceiptAfterObject
<1>2. /\ UNCHANGED <<receipts, index, sourceFile, exportCounts>> /\ i.pc \in {"object", "copy"} /\ i.pc \in UnderLock
      /\ c \in Contents
  BY <1>1 DEF PreserveObject, CopyObject, UnderLock
<1>3. \A q \in Ingesters : q # p => ingester[q].pc \notin UnderLock
  BY <1>1, <1>2
<1>4. ASSUME NEW status, End(p, status), exported' \in [Contents -> 0..Partial],
             \A d \in Contents : exported'[d] = exported[d] \/ (exported[d] = Partial /\ exported'[d] = Absent),
             i.pc = "copy" => exported'[c] # Partial
      PROVE  ExportInv'
  <2>1. i.pc # "idle" /\ i.pc # "write" /\ i.pc # "index" /\ index \subseteq index'
    BY <1>2
  <2>2. \A q \in Ingesters : q # p => ingester[q].pc # "copy"
    BY <1>3 DEF UnderLock
  <2>. QED
    BY <1>1, <1>2, <1>4, <2>1, <2>2, CallEnds DEF End
<1>5. \A r \in receipts : ~StrongIdentityConflict(r, i.message, c)
  BY <1>2 DEF ExportInv, ReceiptAfterObject
<1>6. ASSUME NEW row \in PreserveRows, row.message = i.message, row.hash = i.hash,
             ingester' = [ingester EXCEPT ![p] = row],
             UNCHANGED storeLock, NEW v \in 0..Partial, exported' = [exported EXCEPT ![c] = v],
             \/ exported[c] \notin {c, Partial} /\ v = Partial /\ row.pc = "copy"
             \/ row.pc = "receipt" /\ v = c
      PROVE  ExportInv'
  <2>1. exported' \in [Contents -> 0..Partial] /\ exported'[c] = v
        /\ \A d \in Contents : d # c => exported'[d] = exported[d]
    BY <1>1, <1>2, <1>6
  <2>2. /\ ExportShape' /\ LockIsHeld' /\ ingester'[p] = row
        /\ \A q \in Ingesters : q # p => ingester'[q] = ingester[q]
    BY <1>1, <1>2, <1>6, <2>1, UnderLockMoves DEF UnderLock
  <2>3. \A r \in receipts' : exported'[r.content] = r.content
    BY <1>1, <1>2, <1>6, <2>1
  <2>4. \A q \in Ingesters : q # p => ingester'[q].pc \notin {"copy", "receipt", "write", "index", "object"}
    BY <1>3, <2>2 DEF UnderLock
  <2>5. ReceiptAfterObject'
    BY <1>2, <1>5, <1>6, <2>1, <2>2, <2>3, <2>4 DEF ReceiptAfterObject, StrongIdentityConflict, Receipt
  <2>6. HalfDoneInHand'
    <3>. SUFFICES ASSUME exportCounts.deaths = 0
         PROVE  /\ \A r \in receipts : r.whole /\ <<r.message, r.content>> \in index
                /\ \A d \in Contents : exported'[d] = Partial => ingester'[p].pc = "copy" /\ ingester'[p].hash = d
      BY <1>2 DEF HalfDoneInHand
    <3>1. \A q \in Ingesters : ingester[q].pc \notin {"write", "index"}
      BY <1>2, <1>3 DEF UnderLock
    <3>2. \A r \in receipts : r.whole /\ <<r.message, r.content>> \in index
      BY <3>1 DEF ExportInv, HalfDoneInHand
    <3>3. \A d \in Contents : exported[d] = Partial => d = c
      BY <1>3 DEF ExportInv, HalfDoneInHand, UnderLock
    <3>4. c # Partial
      BY <1>2, ContentKinds
    <3>. QED
      BY <1>6, <2>1, <2>2, <3>2, <3>3, <3>4
  <2>7. SourceBoundOnce'
    BY <1>2 DEF ExportInv, SourceBoundOnce
  <2>. QED
    BY <2>2, <2>5, <2>6, <2>7 DEF ExportInv
<1>7. CASE PreserveObject(p)
  <2>1. i.pc = "object"
    BY <1>7 DEF PreserveObject
  <2>2. CASE exported[c] = Absent
    <3>. DEFINE row == [i EXCEPT !.pc = "copy", !.created = TRUE]
    <3>1. row \in PreserveRows /\ row.pc = "copy" /\ row.hash = i.hash /\ row.message = i.message
      BY <1>1 DEF PreserveRows, UnderLock
    <3>2. /\ ingester' = [ingester EXCEPT ![p] = row] /\ UNCHANGED storeLock
          /\ exported' = [exported EXCEPT ![c] = Partial]
      BY <1>1, <1>2, <1>7, <2>2, ContentKinds DEF PreserveObject
    <3>3. Partial \in 0..Partial /\ exported[c] \notin {c, Partial}
      BY <1>2, <2>2, ContentKinds
    <3>. HIDE DEF row
    <3>. QED
      BY <1>6, <3>1, <3>2, <3>3
  <2>3. CASE exported[c] = c
    <3>. DEFINE row == [i EXCEPT !.pc = "receipt"]
    <3>1. row \in PreserveRows /\ row.pc = "receipt" /\ row.hash = i.hash /\ row.message = i.message
      BY <1>1 DEF PreserveRows, UnderLock
    <3>2. c # Absent /\ c \in 0..Partial
      BY <1>2, ContentKinds
    <3>3. ingester' = [ingester EXCEPT ![p] = row] /\ UNCHANGED <<exported, storeLock>>
      BY <1>7, <2>3, <3>2 DEF PreserveObject, Step
    <3>4. exported' = [exported EXCEPT ![c] = c]
      BY <1>1, <2>3, <3>3
    <3>. HIDE DEF row
    <3>. QED
      BY <1>6, <3>1, <3>2, <3>3, <3>4
  <2>4. CASE exported[c] \notin {Absent, c}
    <3>1. End(p, "OBJECT_INTEGRITY_FAILURE") /\ UNCHANGED exported
      BY <1>7, <2>4 DEF PreserveObject
    <3>2. exported' \in [Contents -> 0..Partial] /\ \A d \in Contents : exported'[d] = exported[d]
      BY <1>1, <3>1
    <3>. QED
      BY <1>4, <2>1, <3>1, <3>2
  <2>. QED
    BY <2>2, <2>3, <2>4
<1>8. CASE CopyObject(p)
  <2>1. i.pc = "copy" /\ exported[c] = Partial
    BY <1>1, <1>8 DEF CopyObject
  <2>2. CASE sourceFile[p] = c
    <3>. DEFINE row == [i EXCEPT !.pc = "receipt"]
    <3>1. row \in PreserveRows /\ row.pc = "receipt" /\ row.hash = i.hash /\ row.message = i.message
      BY <1>1 DEF PreserveRows, UnderLock
    <3>2. c \in 0..Partial
      BY <1>2, ContentKinds
    <3>3. ingester' = [ingester EXCEPT ![p] = row] /\ exported' = [exported EXCEPT ![c] = c] /\ UNCHANGED storeLock
      BY <1>8, <2>2 DEF CopyObject, Step
    <3>. HIDE DEF row
    <3>. QED
      BY <1>6, <3>1, <3>2, <3>3
  <2>3. CASE sourceFile[p] # c
    <3>1. exported' = [exported EXCEPT ![c] = Absent] /\ End(p, "SOURCE_CHANGED_DURING_INGEST")
      BY <1>8, <2>3 DEF CopyObject
    <3>2. exported' \in [Contents -> 0..Partial] /\ exported'[c] = Absent
          /\ \A d \in Contents : d # c => exported'[d] = exported[d]
      BY <1>1, <1>2, <3>1, ContentKinds
    <3>. QED
      BY <1>2, <1>4, <2>1, <3>1, <3>2, ContentKinds
  <2>. QED
    BY <2>2, <2>3
<1>. QED
  BY <1>7, <1>8

LEMMA ReceiptSteps ==
  ASSUME ExportInv, NEW p \in Ingesters, CreateReceipt(p) \/ WriteReceipt(p)
  PROVE  ExportInv'
<1>. DEFINE i == ingester[p]
            m == ingester[p].message
            c == ingester[p].hash
<1>1. /\ i \in PreserveRows /\ exported \in [Contents -> 0..Partial]
      /\ i.pc # "idle" => c \in Contents
      /\ receipts \subseteq [message : MessageIds \union {"none"}, content : Contents, whole : BOOLEAN]
      /\ i.pc \in {"receipt", "write"} => exported[c] = c
      /\ i.pc = "receipt" => \A r \in receipts : ~StrongIdentityConflict(r, m, c)
      /\ i.pc = "write" => Receipt(m, c, FALSE) \in receipts
      /\ \A r \in receipts : exported[r.content] = r.content
  BY DEF ExportInv, ExportShape, ReceiptAfterObject
<1>2. /\ UNCHANGED <<exported, index, storeLock, sourceFile, exportCounts>>
      /\ \/ i.pc = "receipt" /\ receipts' = receipts \union {Receipt(m, c, FALSE)} /\ Step(p, "write")
         \/ /\ i.pc = "write" /\ Step(p, "index")
            /\ receipts' = (receipts \ {Receipt(m, c, FALSE)}) \union {Receipt(m, c, TRUE)}
  BY DEF CreateReceipt, WriteReceipt
<1>. DEFINE next == IF i.pc = "receipt" THEN "write" ELSE "index"
            row == [i EXCEPT !.pc = next]
            new == Receipt(m, c, i.pc = "write")
<1>3. /\ row \in PreserveRows /\ row.pc = next /\ next \in {"write", "index"} /\ row.hash = c /\ row.message = m
      /\ ingester' = [ingester EXCEPT ![p] = row] /\ c \in Contents /\ i.pc \in {"receipt", "write"}
  <2>1. i.pc \in {"receipt", "write"} /\ ingester' = [ingester EXCEPT ![p] = row]
    BY <1>2 DEF Step
  <2>2. c \in Contents
    BY <1>1, <2>1
  <2>3. next \in {"write", "index"} /\ next \in UnderLock
    BY DEF UnderLock
  <2>. HIDE DEF next
  <2>4. row \in PreserveRows /\ row.pc = next /\ row.hash = c /\ row.message = m
    BY <1>1, <2>3 DEF PreserveRows
  <2>. QED
    BY <2>1, <2>2, <2>3, <2>4
<1>4. /\ new.message = m /\ new.content = c
      /\ new \in [message : MessageIds \union {"none"}, content : Contents, whole : BOOLEAN]
      /\ new \in receipts' /\ \A r \in receipts' : r = new \/ r \in receipts
      /\ next = "write" => new = Receipt(m, c, FALSE)
      /\ next = "index" => new.whole
  BY <1>1, <1>2, <1>3 DEF Receipt, PreserveRows
<1>5. /\ ExportShape' /\ LockIsHeld' /\ ingester'[p] = row /\ \A q \in Ingesters : q # p => ingester'[q] = ingester[q]
      /\ \A q \in Ingesters : q # p => ingester[q].pc \notin UnderLock
  <2>1. receipts' \subseteq [message : MessageIds \union {"none"}, content : Contents, whole : BOOLEAN]
    BY <1>1, <1>4
  <2>. HIDE DEF row, next
  <2>2. row.pc \in UnderLock /\ i.pc \in UnderLock
    BY <1>3 DEF UnderLock
  <2>3. exported' \in [Contents -> 0..Partial] /\ UNCHANGED <<storeLock, sourceFile, exportCounts>>
    BY <1>1, <1>2
  <2>. QED
    BY <1>3, <2>1, <2>2, <2>3, UnderLockMoves
<1>6. ReceiptAfterObject'
  <2>1. \A r \in receipts' : exported'[r.content] = r.content
    BY <1>1, <1>2, <1>3, <1>4
  <2>2. \A q \in Ingesters : q # p => ingester'[q].pc \notin {"copy", "receipt", "write", "index", "object"}
    BY <1>5 DEF UnderLock
  <2>3. exported'[c] = c /\ (next = "write" => Receipt(m, c, FALSE) \in receipts')
    BY <1>1, <1>2, <1>3, <1>4
  <2>. HIDE DEF row, new, next
  <2>. QED
    BY <1>3, <1>5, <2>1, <2>2, <2>3 DEF ReceiptAfterObject, StrongIdentityConflict, Receipt
<1>7. HalfDoneInHand'
  <2>. SUFFICES ASSUME exportCounts.deaths = 0
       PROVE  /\ \A r \in receipts' :
                   \/ r.whole /\ <<r.message, r.content>> \in index
                   \/ /\ next = "write" \/ (next = "index" /\ r.whole)
                      /\ r.message = m /\ r.content = c
              /\ \A d \in Contents : exported[d] # Partial
    BY <1>2, <1>3, <1>5 DEF HalfDoneInHand
  <2>1. \A q \in Ingesters : ingester[q].pc \notin {"copy", "index"} /\ (ingester[q].pc = "write" => q = p)
    BY <1>3, <1>5 DEF UnderLock
  <2>2. \A d \in Contents : exported[d] # Partial
    BY <2>1 DEF ExportInv, HalfDoneInHand
  <2>3. \A r \in receipts : \/ r.whole /\ <<r.message, r.content>> \in index
                            \/ i.pc = "write" /\ r.message = m /\ r.content = c
    BY <2>1 DEF ExportInv, HalfDoneInHand
  <2>4. \A r \in receipts' : r # new /\ r.message = m /\ r.content = c /\ i.pc = "write" => r.whole
    <3>1. \A r \in receipts : /\ r = [message |-> r.message, content |-> r.content, whole |-> r.whole]
                              /\ r.whole \in BOOLEAN
      BY <1>1
    <3>. QED
      BY <1>2, <1>4, <3>1 DEF Receipt
  <2>. QED
    BY <1>3, <1>4, <2>2, <2>3, <2>4
<1>8. SourceBoundOnce'
  <2>1. \A r \in receipts : r.message = m /\ m # "none" => r.content = c
    <3>1. CASE i.pc = "receipt"
      BY <1>1, <3>1 DEF StrongIdentityConflict
    <3>2. CASE i.pc = "write"
      BY <1>1, <3>2 DEF ExportInv, SourceBoundOnce, Receipt
    <3>. QED
      BY <1>3, <3>1, <3>2
  <2>. HIDE DEF new
  <2>. QED
    BY <1>4, <2>1 DEF ExportInv, SourceBoundOnce
<1>. QED
  BY <1>5, <1>6, <1>7, <1>8 DEF ExportInv

LEMMA ExportStep == ExportInv /\ [ExportNext]_storeSide => ExportInv'
<1>. SUFFICES ASSUME ExportInv, [ExportNext]_storeSide PROVE ExportInv'
  OBVIOUS
<1>1. CASE UNCHANGED storeSide
  BY <1>1 DEF storeSide, ExportInv, ExportShape, LockIsHeld, ReceiptAfterObject, HalfDoneInHand, SourceBoundOnce,
              StrongIdentityConflict, Receipt, HasFields
<1>2. ASSUME NEW p \in Ingesters, NEW m \in MessageIds, PreserveExport(p, m) PROVE ExportInv'
  <2>. DEFINE row == [IngesterIdle EXCEPT !.pc = "lock", !.message = m, !.hash = sourceFile[p]]
  <2>1. sourceFile \in [Ingesters -> Contents] /\ sourceFile[p] \in Contents /\ sourceFile[p] \in 0..MaxContent
    BY ContentKinds DEF ExportInv, ExportShape
  <2>2. row \in PreserveRows /\ row.pc = "lock" /\ row.hash = sourceFile[p]
    BY <2>1 DEF PreserveRows, IngesterIdle
  <2>3. /\ ingester[p].pc = "idle" /\ ingester' = [ingester EXCEPT ![p] = row]
        /\ exportCounts' = [exportCounts EXCEPT !.ingests[p] = @ + 1]
        /\ UNCHANGED <<exported, receipts, index, storeLock, sourceFile>>
    BY <1>2 DEF PreserveExport
  <2>4. HasFields(exportCounts, {"changes", "ingests", "deaths"})
    BY DEF ExportInv, ExportShape
  <2>5. HasFields(exportCounts, {"changes", "ingests", "deaths"})' /\ UNCHANGED exportCounts.deaths
    BY <2>3, <2>4 DEF HasFields
  <2>. HIDE DEF row
  <2>. QED
    BY <2>1, <2>2, <2>3, <2>5, OutsideLock
<1>3. ASSUME NEW p \in Ingesters, IngesterDies(p) PROVE ExportInv'
  <2>1. /\ ingester[p].pc # "idle" /\ ingester' = [ingester EXCEPT ![p] = IngesterIdle]
        /\ storeLock' = IF storeLock = p THEN "none" ELSE storeLock
        /\ exportCounts' = [exportCounts EXCEPT !.deaths = @ + 1]
        /\ UNCHANGED <<exported, receipts, index, sourceFile>>
    BY <1>3 DEF IngesterDies
  <2>2. HasFields(exportCounts, {"changes", "ingests", "deaths"}) /\ exportCounts.deaths \in Nat
    BY DEF ExportInv, ExportShape
  <2>3. HasFields(exportCounts, {"changes", "ingests", "deaths"})' /\ exportCounts.deaths' = exportCounts.deaths + 1
    BY <2>1, <2>2 DEF HasFields
  <2>4. exportCounts.deaths' \in Nat /\ exportCounts.deaths' # 0
    BY <2>2, <2>3
  <2>5. ingester[p].pc \in UnderLock => storeLock = p
    BY DEF ExportInv, LockIsHeld
  <2>6. /\ exported' \in [Contents -> 0..Partial]
        /\ \A q \in Ingesters : ingester[q].pc = "copy" => exported[ingester[q].hash] = Partial
    BY <2>1 DEF ExportInv, ExportShape, ReceiptAfterObject
  <2>7. \A q \in Ingesters : ingester[q].pc \in UnderLock => storeLock = q
    BY DEF ExportInv, LockIsHeld
  <2>. QED
    BY <2>1, <2>3, <2>4, <2>5, <2>6, <2>7, CallEnds
<1>4. ASSUME NEW p \in Ingesters, SourceChanges(p) PROVE ExportInv'
  <2>1. PICK c \in Contents : sourceFile' = [sourceFile EXCEPT ![p] = c]
    BY <1>4 DEF SourceChanges
  <2>2. /\ exportCounts' = [exportCounts EXCEPT !.changes = @ + 1]
        /\ UNCHANGED <<exported, receipts, index, storeLock, ingester>>
    BY <1>4 DEF SourceChanges
  <2>3. HasFields(exportCounts, {"changes", "ingests", "deaths"}) /\ sourceFile \in [Ingesters -> Contents]
    BY DEF ExportInv, ExportShape
  <2>4. HasFields(exportCounts, {"changes", "ingests", "deaths"})' /\ UNCHANGED exportCounts.deaths
    BY <2>2, <2>3 DEF HasFields
  <2>5. sourceFile' \in [Ingesters -> Contents]
    BY <2>1, <2>3
  <2>6. ExportShape'
    BY <2>2, <2>4, <2>5 DEF ExportInv, ExportShape
  <2>7. LockIsHeld' /\ ReceiptAfterObject' /\ HalfDoneInHand' /\ SourceBoundOnce'
    BY <2>2, <2>4 DEF ExportInv, LockIsHeld, ReceiptAfterObject, HalfDoneInHand, SourceBoundOnce,
                      StrongIdentityConflict, Receipt
  <2>. QED
    BY <2>6, <2>7 DEF ExportInv
<1>. QED
  BY <1>1, <1>2, <1>3, <1>4, ScanSteps, ObjectSteps, ReceiptSteps DEF ExportNext

LEMMA ExportHolds == ExportInv => ReceiptHasObject /\ SourceBoundOnce /\ DamageIsByDeath
<1>. SUFFICES ASSUME ExportInv PROVE ReceiptHasObject /\ DamageIsByDeath
  BY DEF ExportInv
<1>1. ReceiptHasObject
  BY DEF ExportInv, ReceiptAfterObject, ReceiptHasObject, VerifyReceipt
<1>2. storeLock = "none" => \A p \in Ingesters : ingester[p].pc \notin UnderLock
  BY ExportAssumption DEF ExportInv, LockIsHeld
<1>3. DamageIsByDeath
  BY <1>2 DEF ExportInv, HalfDoneInHand, DamageIsByDeath, UnderLock
<1>. QED
  BY <1>1, <1>3

-------------------------------------------------------------------------------
(* The canonical store.                                                     *)

\* What a sequence is: a function from 1 up to its length.
LEMMA SequenceShape ==
  ASSUME NEW s, IsSequence(s)
  PROVE  Len(s) \in Nat /\ DOMAIN s = 1..Len(s) /\ s \in Seq(ToSet(s))
<1>1. PICK S : s \in Seq(S)
  BY DEF IsSequence
<1>2. Len(s) \in Nat /\ DOMAIN s = 1..Len(s) /\ s \in [1..Len(s) -> S]
  BY <1>1, LenProperties
<1>3. s \in [1..Len(s) -> ToSet(s)]
  BY <1>2 DEF ToSet
<1>4. s \in Seq(ToSet(s))
  BY <1>2, <1>3
<1>. QED
  BY <1>2, <1>4

LEMMA NumberedIsSequence ==
  ASSUME NEW n \in Nat, NEW S, NEW f \in [1..n -> S]
  PROVE  IsSequence(f)
<1>1. [i \in 1..n |-> f[i]] \in Seq(S)
  OBVIOUS
<1>2. f = [i \in 1..n |-> f[i]]
  OBVIOUS
<1>. QED
  BY <1>1, <1>2 DEF IsSequence

\* Two sequences one after the other have the elements of both.
LEMMA JoinedSequences ==
  ASSUME NEW s, NEW t, IsSequence(s), IsSequence(t)
  PROVE  IsSequence(s \o t) /\ ToSet(s \o t) = ToSet(s) \union ToSet(t)
<1>. DEFINE S == ToSet(s) \union ToSet(t)
<1>1. /\ Len(s) \in Nat /\ DOMAIN s = 1..Len(s) /\ Len(t) \in Nat /\ DOMAIN t = 1..Len(t)
      /\ s \in Seq(ToSet(s)) /\ t \in Seq(ToSet(t))
  BY SequenceShape
<1>2. s \in Seq(S) /\ t \in Seq(S)
  BY <1>1, SeqMonotonic
<1>. HIDE DEF S
<1>3. /\ s \o t \in Seq(S) /\ Len(s \o t) = Len(s) + Len(t)
      /\ \A i \in 1..(Len(s) + Len(t)) : (s \o t)[i] = IF i <= Len(s) THEN s[i] ELSE t[i - Len(s)]
  BY <1>2, ConcatProperties
<1>4. DOMAIN (s \o t) = 1..(Len(s) + Len(t)) /\ IsSequence(s \o t)
  BY <1>3, LenProperties DEF IsSequence
<1>5. ToSet(s \o t) \subseteq ToSet(s) \union ToSet(t)
  <2>. SUFFICES ASSUME NEW i \in 1..(Len(s) + Len(t)) PROVE (s \o t)[i] \in ToSet(s) \union ToSet(t)
    BY <1>4 DEF ToSet
  <2>1. CASE i <= Len(s)
    BY <1>1, <1>3, <2>1 DEF ToSet
  <2>2. CASE i > Len(s)
    <3>1. i - Len(s) \in 1..Len(t) /\ ~(i <= Len(s))
      BY <1>1, <2>2
    <3>. QED
      BY <1>1, <1>3, <3>1 DEF ToSet
  <2>. QED
    BY <1>1, <2>1, <2>2
<1>6. ASSUME NEW i \in 1..Len(s) PROVE s[i] \in ToSet(s \o t)
  BY <1>1, <1>3, <1>4 DEF ToSet
<1>7. ASSUME NEW i \in 1..Len(t) PROVE t[i] \in ToSet(s \o t)
  <2>1. i + Len(s) \in 1..(Len(s) + Len(t)) /\ (i + Len(s)) - Len(s) = i /\ ~(i + Len(s) <= Len(s))
    BY <1>1
  <2>. QED
    BY <1>3, <1>4, <2>1 DEF ToSet
<1>. QED
  BY <1>1, <1>4, <1>5, <1>6, <1>7 DEF ToSet

\* The values of a function over a finite set.
LEMMA FiniteValues ==
  ASSUME NEW f, IsFiniteSet(DOMAIN f)
  PROVE  IsFiniteSet({f[x] : x \in DOMAIN f})
<1>. DEFINE T == {f[x] : x \in DOMAIN f}
            g == [x \in DOMAIN f |-> f[x]]
<1>1. g \in Surjection(DOMAIN f, T)
  BY DEF Surjection
<1>. QED
  BY <1>1, FS_Surjection

\* SetToSeq lists the elements of a finite set.
LEMMA SetInSequence ==
  ASSUME NEW S, IsFiniteSet(S)
  PROVE  IsSequence(SetToSeq(S)) /\ ToSet(SetToSeq(S)) = S
<1>. DEFINE s == SetToSeq(S)
            n == Cardinality(S)
<1>1. n \in Nat /\ ExistsBijection(1..n, S)
  BY FS_CardinalityType
<1>2. PICK g \in Bijection(1..n, S) : TRUE
  BY <1>1 DEF ExistsBijection
<1>3. g \in [1..n -> S] /\ IsInjective(g)
  BY <1>2 DEF Bijection, Injection
<1>4. s \in [1..n -> S] /\ IsInjective(s)
  BY <1>3 DEF SetToSeq
<1>5. IsFiniteSet(1..n) /\ Cardinality(1..n) = n
  BY <1>1, FS_Interval
<1>. HIDE DEF s, n
<1>6. s \in Injection(1..n, S)
  BY <1>4 DEF Injection
<1>7. s \in Surjection(1..n, S)
  BY <1>5, <1>6, FS_Injection DEF n
<1>8. ToSet(s) = S
  BY <1>4, <1>7 DEF Surjection, ToSet
<1>9. IsSequence(s)
  BY <1>1, <1>4, NumberedIsSequence
<1>. QED
  BY <1>8, <1>9 DEF s

LEMMA TwoMembers ==
  ASSUME NEW S, IsFiniteSet(S), NEW x \in S, NEW y \in S, x # y
  PROVE  Cardinality(S) > 1
<1>1. IsFiniteSet({x}) /\ Cardinality({x}) = 1
  BY FS_Singleton
<1>. DEFINE X == {x}
<1>2. y \notin X
  OBVIOUS
<1>. HIDE DEF X
<1>3. IsFiniteSet(X \union {y}) /\ Cardinality(X \union {y}) = Cardinality(X) + 1
  BY <1>1, <1>2, FS_AddElement DEF X
<1>4. IsFiniteSet({x} \union {y}) /\ Cardinality({x} \union {y}) = 2
  BY <1>1, <1>3 DEF X
<1>5. Cardinality({x} \union {y}) <= Cardinality(S) /\ Cardinality(S) \in Nat
  BY FS_Subset, FS_CardinalityType
<1>. QED
  BY <1>4, <1>5


\* What enrich_bundle derives, as a set.
DuplicateOf(b, m) ==
  LET first == BundleSays[b].claims[CHOOSE i \in m : TRUE] IN
  [kind |-> "duplicate", places |-> m, key |-> [about |-> first.about, says |-> first.says]]
ContradictionOf(b, m) ==
  LET first == BundleSays[b].claims[CHOOSE i \in m : TRUE] IN
  [kind |-> "contradiction", places |-> m, key |-> [about |-> first.about, says |-> ""]]
DerivedOf(b) ==
  {DuplicateOf(b, m) : m \in Duplicates(b)} \union {ContradictionOf(b, m) : m \in Contradictions(b)}

LEMMA EnrichedBundle ==
  ASSUME NEW b \in BundleNames
  PROVE  /\ IsSequence(BundleSays[b].claims) /\ IsSequence(BundleSays[b].decisions) /\ IsFiniteSet(Places(b))
         /\ IsSequence(EnrichBundle(b)) /\ ToSet(EnrichBundle(b)) = DerivedOf(b)
<1>. DEFINE says == BundleSays[b]
            D == [m \in Duplicates(b) |-> DuplicateOf(b, m)]
            C == [m \in Contradictions(b) |-> ContradictionOf(b, m)]
            DS == {D[m] : m \in DOMAIN D}
            CS == {C[m] : m \in DOMAIN C}
<1>1. IsSequence(says.claims) /\ IsSequence(says.decisions)
  BY StoreAssumption DEF IsSequence
<1>2. IsFiniteSet(Places(b))
  <2>1. Len(says.claims) \in Nat /\ Places(b) = 1..Len(says.claims)
    BY <1>1, SequenceShape DEF Places
  <2>. QED
    BY <2>1, FS_Interval
<1>3. Duplicates(b) \in SUBSET SUBSET Places(b) /\ Contradictions(b) \in SUBSET SUBSET Places(b)
  BY DEF Duplicates, Contradictions, Structured
<1>4. IsFiniteSet(Duplicates(b)) /\ IsFiniteSet(Contradictions(b))
  <2>1. IsFiniteSet(SUBSET Places(b))
    BY <1>2, FS_SUBSET
  <2>. QED
    BY <1>3, <2>1, FS_Subset
<1>5. IsFiniteSet(DS) /\ IsFiniteSet(CS)
  <2>1. DOMAIN D = Duplicates(b) /\ DOMAIN C = Contradictions(b)
    OBVIOUS
  <2>. HIDE DEF D, C
  <2>. QED
    BY <1>4, <2>1, FiniteValues
<1>6. EnrichBundle(b) = SetToSeq(DS) \o SetToSeq(CS)
  <2>1. DS = {DuplicateOf(b, m) : m \in Duplicates(b)} /\ CS = {ContradictionOf(b, m) : m \in Contradictions(b)}
    OBVIOUS
  <2>. HIDE DEF DS, CS
  <2>. QED
    BY <2>1 DEF EnrichBundle, DuplicateOf, ContradictionOf
<1>7. DS \union CS = DerivedOf(b)
  BY DEF DerivedOf
<1>. HIDE DEF DS, CS
<1>8. /\ IsSequence(SetToSeq(DS)) /\ ToSet(SetToSeq(DS)) = DS
      /\ IsSequence(SetToSeq(CS)) /\ ToSet(SetToSeq(CS)) = CS
  BY <1>5, SetInSequence
<1>. QED
  BY <1>1, <1>2, <1>6, <1>7, <1>8, JoinedSequences

LEMMA RowsOfBundle ==
  ASSUME NEW b \in BundleNames, NEW enriched \in BOOLEAN
  PROVE  /\ IsSequence(RowsOf(b, enriched))
         /\ enriched => \A d \in DerivedOf(b) : DerivedRow("objects", b, d) \in ToSet(RowsOf(b, enriched))
<1>. DEFINE says == BundleSays[b]
            derived == IF enriched THEN EnrichBundle(b) ELSE <<>>
            claim(c) == Row("objects", RowId("claim", Once(c.id), NoKey), {c})
            choice(d) == Row("decisions", RowId("decision", Once(d.id), NoKey), {d})
            s1 == [i \in DOMAIN says.claims |-> claim(says.claims[i])]
            s2 == [i \in DOMAIN derived |-> DerivedRow("objects", b, derived[i])]
            s3 == [i \in DOMAIN derived |-> DerivedRow("provenance", b, derived[i])]
            s4 == [i \in DOMAIN says.decisions |-> choice(says.decisions[i])]
<1>1. RowsOf(b, enriched) = ((s1 \o s2) \o s3) \o s4
  BY DEF RowsOf
<1>2. IsSequence(derived) /\ (enriched => ToSet(derived) = DerivedOf(b))
  <2>1. IsSequence(<<>>)
    <3>1. <<>> \in Seq({})
      OBVIOUS
    <3>. QED
      BY <3>1 DEF IsSequence
  <2>. QED
    BY <2>1, EnrichedBundle
<1>3. IsSequence(says.claims) /\ IsSequence(says.decisions)
  BY EnrichedBundle
<1>. HIDE DEF says, derived
<1>4. /\ DOMAIN derived = 1..Len(derived) /\ Len(derived) \in Nat
      /\ DOMAIN says.claims = 1..Len(says.claims) /\ Len(says.claims) \in Nat
      /\ DOMAIN says.decisions = 1..Len(says.decisions) /\ Len(says.decisions) \in Nat
  BY <1>2, <1>3, SequenceShape
<1>5. /\ s1 \in [1..Len(says.claims) -> {claim(says.claims[i]) : i \in DOMAIN says.claims}]
      /\ s2 \in [1..Len(derived) -> {DerivedRow("objects", b, derived[i]) : i \in DOMAIN derived}]
      /\ s3 \in [1..Len(derived) -> {DerivedRow("provenance", b, derived[i]) : i \in DOMAIN derived}]
      /\ s4 \in [1..Len(says.decisions) -> {choice(says.decisions[i]) : i \in DOMAIN says.decisions}]
  BY <1>4
<1>6. enriched => \A d \in DerivedOf(b) : DerivedRow("objects", b, d) \in ToSet(s2)
  BY <1>2 DEF ToSet
<1>. HIDE DEF s1, s2, s3, s4
<1>7. IsSequence(s1) /\ IsSequence(s2) /\ IsSequence(s3) /\ IsSequence(s4)
  BY <1>4, <1>5, NumberedIsSequence
<1>8. IsSequence(s1 \o s2) /\ ToSet(s2) \subseteq ToSet(s1 \o s2)
  BY <1>7, JoinedSequences
<1>9. IsSequence((s1 \o s2) \o s3) /\ ToSet(s2) \subseteq ToSet((s1 \o s2) \o s3)
  BY <1>7, <1>8, JoinedSequences
<1>10. IsSequence(((s1 \o s2) \o s3) \o s4) /\ ToSet(s2) \subseteq ToSet(((s1 \o s2) \o s3) \o s4)
  BY <1>7, <1>9, JoinedSequences
<1>. QED
  BY <1>1, <1>6, <1>10

\* What is left of a sequence.
LEMMA RestOfSequence ==
  ASSUME NEW s, IsSequence(s), NEW d \in 0..Len(s)
  PROVE  LET left == SubSeq(s, d + 1, Len(s)) IN
         /\ left = <<>> => d = Len(s)
         /\ left # <<>> => d < Len(s) /\ Head(left) = s[d + 1]
         /\ ToSet(left) = {s[k] : k \in (d + 1)..Len(s)}
<1>. DEFINE S == ToSet(s)
            left == SubSeq(s, d + 1, Len(s))
<1>1. Len(s) \in Nat /\ DOMAIN s = 1..Len(s) /\ s \in Seq(S) /\ d \in Nat /\ d <= Len(s)
  BY SequenceShape
<1>2. \A i \in (d + 1)..Len(s) : s[i] \in S
  BY <1>1 DEF ToSet
<1>. HIDE DEF S
<1>3. /\ left \in Seq(S) /\ Len(left) = IF d + 1 <= Len(s) THEN Len(s) - (d + 1) + 1 ELSE 0
      /\ \A i \in 1..(Len(s) - (d + 1) + 1) : left[i] = s[(d + 1) + i - 1]
  BY <1>1, <1>2, SubSeqProperties
<1>4. Len(left) = Len(s) - d /\ DOMAIN left = 1..(Len(s) - d)
  <2>1. \A n \in Nat : d <= n => (IF d + 1 <= n THEN n - (d + 1) + 1 ELSE 0) = n - d
    BY <1>1
  <2>2. Len(left) = Len(s) - d
    BY <1>1, <1>3, <2>1
  <2>. QED
    BY <1>3, <2>2, LenProperties
<1>5. \A i \in 1..(Len(s) - d) : left[i] = s[d + i]
  <2>. SUFFICES ASSUME NEW i \in 1..(Len(s) - d) PROVE left[i] = s[d + i]
    OBVIOUS
  <2>1. i \in 1..(Len(s) - (d + 1) + 1) /\ (d + 1) + i - 1 = d + i
    BY <1>1
  <2>. QED
    BY <1>3, <2>1
<1>6. left = <<>> => d = Len(s)
  <2>. HIDE DEF left
  <2>1. left = <<>> => Len(left) = 0
    OBVIOUS
  <2>2. \A n \in Nat : n - d = 0 => d = n
    BY <1>1
  <2>. QED
    BY <1>1, <1>4, <2>1, <2>2
<1>7. left # <<>> => d < Len(s) /\ Head(left) = s[d + 1]
  <2>. SUFFICES ASSUME left # <<>> PROVE d < Len(s) /\ Head(left) = s[d + 1]
    OBVIOUS
  <2>1. Len(left) # 0
    BY <1>3, EmptySeq
  <2>2. \A n \in Nat : d <= n /\ n - d # 0 => d < n /\ 1 \in 1..(n - d)
    BY <1>1
  <2>3. d < Len(s) /\ 1 \in 1..(Len(s) - d)
    BY <1>1, <1>4, <2>1, <2>2
  <2>4. Head(left) = left[1]
    BY <1>3
  <2>. QED
    BY <1>5, <2>3, <2>4
<1>8. ToSet(left) = {s[k] : k \in (d + 1)..Len(s)}
  <2>1. ASSUME NEW i \in 1..(Len(s) - d) PROVE left[i] \in {s[k] : k \in (d + 1)..Len(s)}
    <3>1. d + i \in (d + 1)..Len(s)
      BY <1>1
    <3>. QED
      BY <1>5, <3>1
  <2>2. ASSUME NEW k \in (d + 1)..Len(s) PROVE s[k] \in {left[i] : i \in 1..(Len(s) - d)}
    <3>1. k - d \in 1..(Len(s) - d) /\ d + (k - d) = k
      BY <1>1
    <3>. QED
      BY <1>5, <3>1
  <2>. QED
    BY <1>4, <2>1, <2>2 DEF ToSet
<1>. QED
  BY <1>6, <1>7, <1>8

ObjectsOf(told) == {r.id : r \in {s \in UNION {a.rows : a \in told} : s.table = "objects"}}
WriterFields == {"pc", "of", "enriched", "rows", "done"}

\* An ingestion works through the rows of its bundle: those it has looked up are
\* in the store.
Ingesting(i) ==
  LET w == storeWriter[i] IN
  /\ w.of \in BundleNames /\ w.enriched \in BOOLEAN /\ w.rows = RowsOf(w.of, w.enriched)
  /\ w.done \in 0..Len(w.rows) /\ \A k \in 1..w.done : w.rows[k] \in rows

\* The store is the union of what was accepted, each bundle as a whole, and what
\* a rebuilding process has read of it is that of the bundles accepted by then.
CanonicalInv ==
  /\ DOMAIN storeWriter = BundleIngesters /\ DOMAIN rebuilder = Rebuilders
  /\ \A i \in BundleIngesters : /\ HasFields(storeWriter[i], WriterFields)
                                /\ storeWriter[i].pc # "idle" => Ingesting(i)
  /\ \A a \in accepted : /\ a.of \in BundleNames /\ a.enriched \in BOOLEAN
                         /\ a.rows = ToSet(RowsOf(a.of, a.enriched))
  /\ rows = RowsOfAccepted
  /\ ProjectionIsOfBundles
  /\ \A r \in Rebuilders : /\ HasFields(rebuilder[r], {"pc", "objects"})
                           /\ \E told \in SUBSET accepted : rebuilder[r].objects = ObjectsOf(told)

LEMMA CanonicalStart == StoreInit => CanonicalInv
<1>. SUFFICES ASSUME StoreInit PROVE CanonicalInv
  OBVIOUS
<1>1. HasFields(IdleIngester, WriterFields) /\ IdleIngester.pc = "idle"
  BY DEF IdleIngester, HasFields, WriterFields
<1>2. ObjectsOf({}) = {} /\ {} \in SUBSET accepted
  BY DEF ObjectsOf
<1>3. ProjectionIsOfBundles
  BY <1>2 DEF StoreInit, ProjectionIsOfBundles, ObjectsOf
<1>4. \A r \in Rebuilders : HasFields(rebuilder[r], {"pc", "objects"}) /\ rebuilder[r].objects = {}
  BY DEF StoreInit, HasFields
<1>. QED
  BY <1>1, <1>2, <1>3, <1>4 DEF StoreInit, CanonicalInv, RowsOfAccepted

\* What is answered with counts is in the store, whole.
LEMMA BundleAnswered ==
  ASSUME CanonicalInv, NEW i \in BundleIngesters, storeWriter[i].pc # "idle",
         storeWriter' = [storeWriter EXCEPT ![i] = IdleIngester], UNCHANGED <<projection, rebuilder>>,
         accepted' = Answered(i), rows' = rows \union ToSet(Left(i))
  PROVE  CanonicalInv'
<1>. DEFINE w == storeWriter[i]
            new == [of |-> w.of, enriched |-> w.enriched, rows |-> ToSet(w.rows)]
<1>1. Ingesting(i) /\ accepted' = accepted \union {new} /\ accepted \subseteq accepted'
  BY DEF CanonicalInv, Answered
<1>2. /\ w.of \in BundleNames /\ w.enriched \in BOOLEAN /\ w.rows = RowsOf(w.of, w.enriched)
      /\ w.done \in 0..Len(w.rows) /\ \A k \in 1..w.done : w.rows[k] \in rows
  BY <1>1 DEF Ingesting
<1>3. IsSequence(w.rows)
  BY <1>2, RowsOfBundle
<1>4. ToSet(w.rows) \subseteq rows' /\ ToSet(Left(i)) \subseteq ToSet(w.rows)
  <2>1. Len(w.rows) \in Nat /\ DOMAIN w.rows = 1..Len(w.rows)
    BY <1>3, SequenceShape
  <2>2. ToSet(Left(i)) = {w.rows[k] : k \in (w.done + 1)..Len(w.rows)}
    BY <1>2, <1>3, RestOfSequence DEF Left
  <2>3. \A k \in 1..Len(w.rows) : k \in 1..w.done \/ k \in (w.done + 1)..Len(w.rows)
    BY <1>2, <2>1
  <2>4. \A k \in (w.done + 1)..Len(w.rows) : k \in 1..Len(w.rows)
    BY <1>2, <2>1
  <2>. QED
    BY <1>2, <2>1, <2>2, <2>3, <2>4 DEF ToSet
<1>5. rows' = RowsOfAccepted'
  <2>1. RowsOfAccepted' = RowsOfAccepted \union ToSet(w.rows)
    <3>1. new.rows = ToSet(w.rows)
      OBVIOUS
    <3>. HIDE DEF new
    <3>2. UNION {a.rows : a \in accepted \union {new}} = (UNION {a.rows : a \in accepted}) \union new.rows
      <4>1. ASSUME NEW x \in UNION {a.rows : a \in accepted \union {new}}
            PROVE  x \in (UNION {a.rows : a \in accepted}) \union new.rows
        <5>1. PICK a \in accepted \union {new} : x \in a.rows
          BY <4>1, Zenon
        <5>2. CASE a \in accepted
          BY <5>1, <5>2, Zenon
        <5>3. CASE a = new
          BY <5>1, <5>3, Zenon
        <5>. QED
          BY <5>2, <5>3, Zenon
      <4>2. UNION {a.rows : a \in accepted} \subseteq UNION {a.rows : a \in accepted \union {new}}
        BY Zenon
      <4>3. new.rows \subseteq UNION {a.rows : a \in accepted \union {new}}
        <5>1. new \in accepted \union {new}
          BY Zenon
        <5>. QED
          BY <5>1, Zenon
      <4>. QED
        BY <4>1, <4>2, <4>3, Zenon
    <3>. QED
      BY <1>1, <3>1, <3>2 DEF RowsOfAccepted
  <2>2. rows = RowsOfAccepted
    BY DEF CanonicalInv
  <2>. QED
    BY <1>4, <2>1, <2>2
<1>6. \A a \in accepted' : a.of \in BundleNames /\ a.enriched \in BOOLEAN /\ a.rows = ToSet(RowsOf(a.of, a.enriched))
  BY <1>1, <1>2 DEF CanonicalInv
<1>7. ProjectionIsOfBundles'
  BY <1>1 DEF CanonicalInv, ProjectionIsOfBundles
<1>8. \A r \in Rebuilders : /\ HasFields(rebuilder'[r], {"pc", "objects"})
                            /\ \E told \in SUBSET accepted' : rebuilder'[r].objects = ObjectsOf(told)
  BY <1>1 DEF CanonicalInv
<1>9. HasFields(IdleIngester, WriterFields) /\ IdleIngester.pc = "idle"
  BY DEF IdleIngester, HasFields, WriterFields
<1>10. /\ DOMAIN storeWriter' = BundleIngesters
       /\ \A j \in BundleIngesters : HasFields(storeWriter'[j], WriterFields)
                                     /\ (storeWriter'[j].pc # "idle"
                                           => storeWriter'[j] = storeWriter[j] /\ Ingesting(j))
  BY <1>9 DEF CanonicalInv
<1>11. \A j \in BundleIngesters : storeWriter'[j].pc # "idle" => Ingesting(j)'
  BY <1>10 DEF Ingesting
<1>. QED
  BY <1>5, <1>6, <1>7, <1>8, <1>10, <1>11 DEF CanonicalInv, HasFields, ObjectsOf

\* An ingestion goes on, or gives up, without a row.
LEMMA BundleGoesOn ==
  ASSUME CanonicalInv, NEW i \in BundleIngesters, NEW w, storeWriter' = [storeWriter EXCEPT ![i] = w],
         HasFields(w, WriterFields), UNCHANGED <<rows, projection, rebuilder, accepted>>,
         w.pc # "idle" => /\ w.of \in BundleNames /\ w.enriched \in BOOLEAN /\ w.rows = RowsOf(w.of, w.enriched)
                          /\ w.done \in 0..Len(w.rows) /\ \A k \in 1..w.done : w.rows[k] \in rows
  PROVE  CanonicalInv'
<1>1. DOMAIN storeWriter' = BundleIngesters /\ storeWriter'[i] = w
      /\ \A j \in BundleIngesters : j # i => storeWriter'[j] = storeWriter[j]
  BY DEF CanonicalInv
<1>2. \A j \in BundleIngesters : HasFields(storeWriter'[j], WriterFields)
  BY <1>1 DEF CanonicalInv
<1>3. w.pc # "idle" => Ingesting(i)'
  BY <1>1 DEF Ingesting
<1>4. \A j \in BundleIngesters : j # i /\ storeWriter[j].pc # "idle" => Ingesting(j)'
  BY <1>1 DEF CanonicalInv, Ingesting
<1>5. RowsOfAccepted' = RowsOfAccepted /\ ProjectionIsOfBundles'
  BY DEF RowsOfAccepted, CanonicalInv, ProjectionIsOfBundles
<1>. QED
  BY <1>1, <1>2, <1>3, <1>4, <1>5 DEF CanonicalInv, HasFields, ObjectsOf

LEMMA CanonicalStep == CanonicalInv /\ [StoreNext]_storeVars => CanonicalInv'
<1>. SUFFICES ASSUME CanonicalInv, [StoreNext]_storeVars PROVE CanonicalInv'
  OBVIOUS
<1>1. HasFields(IdleIngester, WriterFields) /\ IdleIngester.pc = "idle"
  BY DEF IdleIngester, HasFields, WriterFields
<1>2. CASE UNCHANGED storeVars
  <2>1. /\ RowsOfAccepted' = RowsOfAccepted /\ ProjectionIsOfBundles'
        /\ \A i \in BundleIngesters : Ingesting(i)' = Ingesting(i)
    BY <1>2 DEF RowsOfAccepted, CanonicalInv, ProjectionIsOfBundles, Ingesting, storeVars
  <2>. QED
    BY <1>2, <2>1 DEF CanonicalInv, HasFields, ObjectsOf, storeVars
<1>3. ASSUME NEW i \in BundleIngesters, NEW b \in BundleNames, NEW enriched \in BOOLEAN, OfferBundle(i, b, enriched)
      PROVE  CanonicalInv'
  <2>. DEFINE w == [pc |-> "looking", of |-> b, enriched |-> enriched, rows |-> RowsOf(b, enriched), done |-> 0]
  <2>1. /\ HasFields(w, WriterFields) /\ w.of = b /\ w.enriched = enriched /\ w.rows = RowsOf(b, enriched)
        /\ w.done = 0
    BY DEF HasFields, WriterFields
  <2>2. storeWriter' = [storeWriter EXCEPT ![i] = w] /\ UNCHANGED <<rows, projection, rebuilder, accepted>>
    BY <1>3 DEF OfferBundle
  <2>. HIDE DEF w
  <2>3. Len(RowsOf(b, enriched)) \in Nat
    BY RowsOfBundle, SequenceShape
  <2>4. 0 \in 0..Len(RowsOf(b, enriched)) /\ 1..0 = {}
    BY <2>3
  <2>. QED
    BY <2>1, <2>2, <2>4, BundleGoesOn
<1>4. ASSUME NEW i \in BundleIngesters, storeWriter' = [storeWriter EXCEPT ![i] = IdleIngester],
             UNCHANGED <<rows, projection, rebuilder, accepted>>
      PROVE  CanonicalInv'
  BY <1>1, <1>4, BundleGoesOn
<1>5. ASSUME NEW i \in BundleIngesters, LookUp(i) PROVE CanonicalInv'
  <2>. DEFINE w == storeWriter[i]
              r == Head(Left(i))
  <2>1. /\ w.pc = "looking" /\ UNCHANGED <<rows, projection, rebuilder>> /\ HasFields(w, WriterFields)
        /\ w.of \in BundleNames /\ w.enriched \in BOOLEAN /\ w.rows = RowsOf(w.of, w.enriched)
        /\ w.done \in 0..Len(w.rows) /\ \A k \in 1..w.done : w.rows[k] \in rows
    BY <1>5 DEF LookUp, CanonicalInv, Ingesting
  <2>2. IsSequence(w.rows) /\ Len(w.rows) \in Nat
    BY <2>1, RowsOfBundle, SequenceShape
  <2>3. CASE Left(i) = <<>>
    <3>1. ToSet(Left(i)) = {}
      BY <2>3 DEF ToSet
    <3>. QED
      BY <1>5, <2>1, <2>3, <3>1, BundleAnswered DEF LookUp
  <2>4. CASE Left(i) # <<>>
    <3>1. w.done < Len(w.rows) /\ r = w.rows[w.done + 1]
      BY <2>1, <2>2, <2>4, RestOfSequence DEF Left
    <3>. DEFINE next == IF ~Holds(rows, r) THEN [w EXCEPT !.pc = "inserting"]
                        ELSE IF r \in rows THEN [w EXCEPT !.done = w.done + 1]
                        ELSE IdleIngester
    <3>2. UNCHANGED accepted /\ storeWriter' = [storeWriter EXCEPT ![i] = next]
      BY <1>5, <2>4 DEF LookUp
    <3>3. CASE ~Holds(rows, r)
      <4>. DEFINE u == [w EXCEPT !.pc = "inserting"]
      <4>1. HasFields(u, WriterFields) /\ u.of = w.of /\ u.enriched = w.enriched /\ u.rows = w.rows /\ u.done = w.done
        BY <2>1 DEF HasFields, WriterFields
      <4>2. storeWriter' = [storeWriter EXCEPT ![i] = u]
        BY <3>2, <3>3
      <4>. HIDE DEF u
      <4>. QED
        BY <2>1, <3>2, <4>1, <4>2, BundleGoesOn
    <3>4. CASE Holds(rows, r) /\ r \in rows
      <4>. DEFINE u == [w EXCEPT !.done = w.done + 1]
      <4>1. /\ HasFields(u, WriterFields) /\ u.of = w.of /\ u.enriched = w.enriched /\ u.rows = w.rows
            /\ u.done = w.done + 1
        BY <2>1 DEF HasFields, WriterFields
      <4>2. storeWriter' = [storeWriter EXCEPT ![i] = u]
        BY <3>2, <3>4
      <4>3. u.done \in 0..Len(w.rows) /\ \A k \in 1..u.done : k = w.done + 1 \/ k \in 1..w.done
        BY <2>1, <2>2, <3>1, <4>1
      <4>. HIDE DEF u
      <4>4. \A k \in 1..u.done : u.rows[k] \in rows
        BY <2>1, <3>1, <3>4, <4>1, <4>3
      <4>. QED
        BY <2>1, <3>2, <4>1, <4>2, <4>3, <4>4, BundleGoesOn
    <3>5. CASE Holds(rows, r) /\ r \notin rows
      BY <1>4, <2>1, <3>2, <3>5
    <3>. QED
      BY <3>3, <3>4, <3>5
  <2>. QED
    BY <2>3, <2>4
<1>6. ASSUME NEW i \in BundleIngesters, CommitBundle(i) PROVE CanonicalInv'
  <2>1. CASE Insertable(Left(i))
    BY <1>6, <2>1, BundleAnswered DEF CommitBundle
  <2>2. CASE ~Insertable(Left(i))
    BY <1>4, <1>6, <2>2 DEF CommitBundle
  <2>. QED
    BY <2>1, <2>2
<1>7. ASSUME NEW i \in BundleIngesters, IngesterStops(i) PROVE CanonicalInv'
  BY <1>4, <1>7 DEF IngesterStops
<1>8. ASSUME NEW r \in Rebuilders, NEW row, rebuilder' = [rebuilder EXCEPT ![r] = row],
             HasFields(row, {"pc", "objects"}), \E told \in SUBSET accepted : row.objects = ObjectsOf(told),
             UNCHANGED <<rows, storeWriter, accepted>>, ProjectionIsOfBundles'
      PROVE  CanonicalInv'
  <2>1. RowsOfAccepted' = RowsOfAccepted /\ \A i \in BundleIngesters : Ingesting(i)' = Ingesting(i)
    BY <1>8 DEF RowsOfAccepted, Ingesting
  <2>2. DOMAIN rebuilder' = Rebuilders
        /\ \A q \in Rebuilders : /\ HasFields(rebuilder'[q], {"pc", "objects"})
                                 /\ \E told \in SUBSET accepted : rebuilder'[q].objects = ObjectsOf(told)
    BY <1>8 DEF CanonicalInv
  <2>. QED
    BY <1>8, <2>1, <2>2 DEF CanonicalInv, HasFields, ObjectsOf
<1>9. ASSUME NEW r \in Rebuilders, ReadObjects(r) PROVE CanonicalInv'
  <2>. DEFINE row == [pc |-> "read", objects |-> {s.id : s \in {t \in rows : t.table = "objects"}}]
  <2>1. rows = UNION {a.rows : a \in accepted}
    BY DEF CanonicalInv, RowsOfAccepted
  <2>2. row.objects = ObjectsOf(accepted) /\ HasFields(row, {"pc", "objects"})
    BY <2>1 DEF ObjectsOf, HasFields
  <2>3. rebuilder' = [rebuilder EXCEPT ![r] = row] /\ UNCHANGED <<rows, projection, storeWriter, accepted>>
    BY <1>9 DEF ReadObjects
  <2>4. ProjectionIsOfBundles'
    BY <2>3 DEF CanonicalInv, ProjectionIsOfBundles
  <2>. HIDE DEF row
  <2>. QED
    BY <1>8, <2>2, <2>3, <2>4
<1>10. ASSUME NEW r \in Rebuilders, WriteProjection(r) PROVE CanonicalInv'
  <2>. DEFINE row == [pc |-> "idle", objects |-> {}]
  <2>1. HasFields(row, {"pc", "objects"}) /\ row.objects = ObjectsOf({})
    BY DEF ObjectsOf, HasFields
  <2>2. /\ rebuilder' = [rebuilder EXCEPT ![r] = row] /\ UNCHANGED <<rows, storeWriter, accepted>>
        /\ projection' = rebuilder[r].objects
    BY <1>10 DEF WriteProjection
  <2>3. ProjectionIsOfBundles'
    <3>1. PICK told \in SUBSET accepted : rebuilder[r].objects = ObjectsOf(told)
      BY DEF CanonicalInv
    <3>. QED
      BY <2>2, <3>1 DEF ProjectionIsOfBundles, ObjectsOf
  <2>. HIDE DEF row
  <2>. QED
    BY <1>8, <2>1, <2>2, <2>3
<1>. QED
  BY <1>2, <1>3, <1>5, <1>6, <1>7, <1>9, <1>10 DEF StoreNext

LEMMA CanonicalHolds ==
  CanonicalInv => AcceptedIsKept /\ BundlesAreWhole /\ ContradictionsAreTold /\ ProjectionIsOfBundles
<1>. SUFFICES ASSUME CanonicalInv PROVE ContradictionsAreTold
  BY DEF CanonicalInv, AcceptedIsKept, BundlesAreWhole
<1>. SUFFICES ASSUME NEW a \in accepted, a.enriched, NEW c \in ClaimsAt(a.of, Places(a.of)),
                     NEW d \in ClaimsAt(a.of, Places(a.of)),
                     c.exclusive, d.exclusive, c.about = d.about, c.about # "none", c.says # d.says
     PROVE  \E r \in rows : r.table = "objects" /\ r.id.kind = "contradiction" /\ {c, d} \subseteq r.content
  BY DEF ContradictionsAreTold
<1>. DEFINE b == a.of
            claims == BundleSays[b].claims
<1>1. b \in BundleNames /\ a.rows = ToSet(RowsOf(b, TRUE)) /\ a.rows \subseteq rows
  BY DEF CanonicalInv, RowsOfAccepted
<1>2. PICK i \in Places(b), j \in Places(b) : c = claims[i] /\ d = claims[j]
  BY DEF ClaimsAt
<1>. DEFINE m == {k \in Structured(b) : claims[k].exclusive /\ claims[k].about = claims[i].about}
            said == {claims[k].says : k \in m}
<1>3. i \in m /\ j \in m /\ m \subseteq Places(b)
  BY <1>2 DEF Structured
<1>4. Cardinality(said) > 1
  <2>. DEFINE f == [k \in m |-> claims[k].says]
  <2>1. IsFiniteSet(m)
    BY <1>1, <1>3, EnrichedBundle, FS_Subset
  <2>2. DOMAIN f = m /\ said = {f[k] : k \in DOMAIN f}
    OBVIOUS
  <2>. HIDE DEF f, m
  <2>3. IsFiniteSet({f[k] : k \in DOMAIN f})
    BY <2>1, <2>2, FiniteValues
  <2>4. c.says \in said /\ d.says \in said
    BY <1>2, <1>3
  <2>. HIDE DEF said
  <2>. QED
    BY <2>2, <2>3, <2>4, TwoMembers
<1>5. m \in Contradictions(b)
  BY <1>2, <1>3, <1>4 DEF Contradictions, Structured
<1>. DEFINE row == DerivedRow("objects", b, ContradictionOf(b, m))
<1>. HIDE DEF m
<1>6. ContradictionOf(b, m) \in DerivedOf(b)
  BY <1>5 DEF DerivedOf
<1>7. row \in rows
  BY <1>1, <1>6, RowsOfBundle
<1>8. row.table = "objects" /\ row.id.kind = "contradiction" /\ row.content = ClaimsAt(b, m)
  BY DEF DerivedRow, Row, RowId, ContradictionOf
<1>9. c \in ClaimsAt(b, m) /\ d \in ClaimsAt(b, m)
  BY <1>2, <1>3 DEF ClaimsAt
<1>. HIDE DEF row
<1>. QED
  BY <1>7, <1>8, <1>9

-------------------------------------------------------------------------------
(* The branch of a conversation's current node.                             *)

Waypoints == Nodes \union {Root, Gone}

\* What comes after a node on the way up: its parent, and nothing after the end.
Above(t, n) == IF n \in Nodes THEN t.parent[n] ELSE n

\* w goes up from the current node of t.
Climbs(w, t) ==
  /\ w \in [1..MaxNode + 1 -> Waypoints] /\ w[1] = t.current
  /\ \A k \in 1..MaxNode : w[k + 1] = Above(t, w[k])

LEMMA WaypointsDiffer ==
  /\ MaxNode \in Nat /\ MaxNode + 1 \in 1..MaxNode + 1 /\ 1 \in 1..MaxNode + 1
  /\ Root \notin Nodes /\ Gone \notin Nodes /\ Root # Gone
  /\ \A k \in 1..MaxNode : k \in 1..MaxNode + 1 /\ k + 1 \in 1..MaxNode + 1
BY ExportAssumption DEF Nodes, Root, Gone

\* The walk that the code makes is one.
LEMMA WalkClimbs ==
  ASSUME NEW t \in Trees
  PROVE  Climbs(Walk(t), t)
<1>1. t.current \in Waypoints /\ t.parent \in [Nodes -> Waypoints]
  BY DEF Trees, Waypoints
<1>2. \A n \in Waypoints : Above(t, n) \in Waypoints
  BY <1>1 DEF Above
<1>. DEFINE step == [a \in Waypoints \X (1..MaxNode) |-> Above(t, a[1])]
<1>3. step \in Steps(Waypoints, MaxNode)
  BY <1>2 DEF Steps
<1>4. PICK f \in Loops(Waypoints, t.current, MaxNode, step) : TRUE
  <2>. HIDE DEF step
  <2>1. MaxNode \in Nat
    BY WaypointsDiffer
  <2>2. Loops(Waypoints, t.current, MaxNode, step) # {}
    BY <1>1, <1>3, <2>1, LoopExists
  <2>. QED
    BY <2>2
<1>5. /\ f \in [0..MaxNode -> Waypoints] /\ f[0] = t.current
      /\ \A n \in 1..MaxNode : f[n] = step[<<f[n - 1], n>>]
  BY <1>4 DEF Loops
<1>6. \A n \in 1..MaxNode : f[n] = Above(t, f[n - 1])
  <2>. SUFFICES ASSUME NEW n \in 1..MaxNode PROVE f[n] = Above(t, f[n - 1])
    OBVIOUS
  <2>1. n - 1 \in 0..MaxNode
    BY WaypointsDiffer
  <2>. QED
    BY <1>5, <2>1
<1>. DEFINE Following(u, k) == IF k = 1 THEN t.current
                               ELSE IF u[k - 1] \in Nodes THEN t.parent[u[k - 1]] ELSE u[k - 1]
            g == [k \in 1..MaxNode + 1 |-> f[k - 1]]
<1>7. g = [k \in 1..MaxNode + 1 |-> Following(g, k)]
  <2>. SUFFICES ASSUME NEW k \in 1..MaxNode + 1 PROVE f[k - 1] = Following(g, k)
    BY Zenon
  <2>1. CASE k = 1
    BY <1>5, <2>1
  <2>2. CASE k # 1
    <3>1. k - 1 \in 1..MaxNode /\ k - 1 \in 1..MaxNode + 1
      BY <2>2, WaypointsDiffer
    <3>2. g[k - 1] = f[k - 1 - 1] /\ f[k - 1] = Above(t, f[k - 1 - 1])
      BY <1>6, <3>1
    <3>. QED
      BY <2>2, <3>2 DEF Above
  <2>. QED
    BY <2>1, <2>2
<1>8. Walk(t) = CHOOSE u : u = [k \in 1..MaxNode + 1 |-> Following(u, k)]
  BY DEF Walk
<1>9. Walk(t) = [k \in 1..MaxNode + 1 |-> Following(Walk(t), k)]
  <2>. HIDE DEF g
  <2>. QED
    BY <1>7, <1>8
<1>. DEFINE w == Walk(t)
<1>10. /\ DOMAIN w = 1..MaxNode + 1 /\ w[1] = t.current /\ \A k \in 1..MaxNode + 1 : w[k] = Following(w, k)
       /\ w = [k \in 1..MaxNode + 1 |-> w[k]]
  <2>. HIDE DEF w
  <2>1. w = [k \in 1..MaxNode + 1 |-> Following(w, k)]
    BY <1>9 DEF w
  <2>. QED
    BY <2>1, WaypointsDiffer
<1>. HIDE DEF w
<1>11. \A k \in 1..MaxNode : w[k + 1] = Above(t, w[k])
  <2>. SUFFICES ASSUME NEW k \in 1..MaxNode PROVE w[k + 1] = Above(t, w[k])
    OBVIOUS
  <2>1. k + 1 \in 1..MaxNode + 1 /\ k + 1 # 1 /\ k + 1 - 1 = k
    BY WaypointsDiffer
  <2>2. w[k + 1] = Following(w, k + 1)
    BY <1>10, <2>1
  <2>. QED
    BY <2>1, <2>2 DEF Above
<1>. DEFINE P == {k \in 0..MaxNode : w[k + 1] \in Waypoints}
<1>12. P = 0..MaxNode
  <2>1. 0 \in P
    BY <1>1, <1>10, WaypointsDiffer
  <2>2. ASSUME NEW n \in 1..MaxNode, n - 1 \in P PROVE n \in P
    <3>1. n - 1 + 1 = n /\ n \in 0..MaxNode
      BY WaypointsDiffer
    <3>. QED
      BY <1>2, <1>11, <2>2, <3>1
  <2>3. P \in SUBSET (0..MaxNode) /\ MaxNode \in Nat
    BY WaypointsDiffer
  <2>. HIDE DEF P
  <2>. QED
    BY <2>1, <2>2, <2>3, BoundedInduction
<1>13. \A k \in 1..MaxNode + 1 : w[k] \in Waypoints
  <2>. SUFFICES ASSUME NEW k \in 1..MaxNode + 1 PROVE w[k] \in Waypoints
    OBVIOUS
  <2>1. k - 1 \in 0..MaxNode /\ k - 1 + 1 = k
    BY WaypointsDiffer
  <2>2. k - 1 \in P
    BY <1>12, <2>1
  <2>. QED
    BY <2>1, <2>2
<1>14. w \in [1..MaxNode + 1 -> Waypoints]
  BY <1>10, <1>13
<1>. QED
  BY <1>10, <1>11, <1>14 DEF Climbs, w

\* A climb that has ended stays where it ended.
LEMMA ClimbRests ==
  ASSUME NEW t \in Trees, NEW w, Climbs(w, t), NEW k \in 1..MaxNode + 1, w[k] \notin Nodes
  PROVE  \A j \in k..MaxNode + 1 : w[j] = w[k]
<1>. DEFINE N == MaxNode + 1 - k
            P == {d \in 0..N : w[k + d] = w[k]}
<1>1. N \in Nat /\ P \in SUBSET (0..N) /\ k + 0 = k
  BY WaypointsDiffer
<1>2. 0 \in P
  BY <1>1
<1>3. ASSUME NEW d \in 1..N, d - 1 \in P PROVE d \in P
  <2>1. k + (d - 1) \in 1..MaxNode /\ k + (d - 1) + 1 = k + d /\ d \in 0..N
    BY WaypointsDiffer
  <2>2. w[k + d] = Above(t, w[k + (d - 1)])
    BY <2>1 DEF Climbs
  <2>. QED
    BY <1>3, <2>1, <2>2 DEF Above
<1>4. P = 0..N
  <2>. HIDE DEF P, N
  <2>. QED
    BY <1>1, <1>2, <1>3, BoundedInduction
<1>. SUFFICES ASSUME NEW j \in k..MaxNode + 1 PROVE w[j] = w[k]
  OBVIOUS
<1>5. j - k \in 0..N /\ k + (j - k) = j
  BY WaypointsDiffer
<1>6. j - k \in P
  BY <1>4, <1>5
<1>. QED
  BY <1>5, <1>6

\* A climb that comes back keeps coming back.
LEMMA ClimbRepeats ==
  ASSUME NEW t \in Trees, NEW w, Climbs(w, t), NEW M \in 1..MaxNode + 1, NEW j \in 1..M, NEW i \in 1..j - 1,
         w[i] = w[j]
  PROVE  \E k \in 1..M - 1 : w[k] = w[M]
<1>. DEFINE N == M - j
            P == {d \in 0..N : w[i + d] = w[j + d]}
<1>1. N \in Nat /\ P \in SUBSET (0..N) /\ i + 0 = i /\ j + 0 = j
  BY WaypointsDiffer
<1>2. 0 \in P
  BY <1>1
<1>3. ASSUME NEW d \in 1..N, d - 1 \in P PROVE d \in P
  <2>1. /\ i + (d - 1) \in 1..MaxNode /\ i + (d - 1) + 1 = i + d
        /\ j + (d - 1) \in 1..MaxNode /\ j + (d - 1) + 1 = j + d /\ d \in 0..N
    BY WaypointsDiffer
  <2>2. w[i + d] = Above(t, w[i + (d - 1)]) /\ w[j + d] = Above(t, w[j + (d - 1)])
    BY <2>1 DEF Climbs
  <2>. QED
    BY <1>3, <2>1, <2>2
<1>4. P = 0..N
  <2>. HIDE DEF P, N
  <2>. QED
    BY <1>1, <1>2, <1>3, BoundedInduction
<1>5. N \in 0..N /\ j + N = M /\ i + N \in 1..M - 1
  BY WaypointsDiffer
<1>6. N \in P
  BY <1>4, <1>5
<1>. QED
  BY <1>5, <1>6

\* What is passed on the way up is passed before the last place of the climb.
LEMMA PassedInTime ==
  ASSUME NEW t \in Trees, NEW w, Climbs(w, t), NEW k \in 1..MaxNode + 1, w[k] \in Nodes
  PROVE  \E j \in 1..MaxNode : w[j] = w[k]
<1>1. CASE k # MaxNode + 1
  <2>1. k \in 1..MaxNode
    BY <1>1, WaypointsDiffer
  <2>. QED
    BY <2>1
<1>2. CASE k = MaxNode + 1
  <2>1. \A m \in 1..MaxNode + 1 : w[m] \in Nodes
    <3>. SUFFICES ASSUME NEW m \in 1..MaxNode + 1, w[m] \notin Nodes PROVE FALSE
      OBVIOUS
    <3>1. k \in m..MaxNode + 1
      BY <1>2, WaypointsDiffer
    <3>2. w[k] = w[m]
      BY <3>1, ClimbRests
    <3>. QED
      BY <3>2
  <2>2. w \in [1..MaxNode + 1 -> Nodes]
    BY <2>1 DEF Climbs
  <2>3. /\ IsFiniteSet(1..MaxNode + 1) /\ Cardinality(1..MaxNode + 1) = MaxNode + 1
        /\ IsFiniteSet(Nodes) /\ Cardinality(Nodes) = MaxNode
    <3>1. 1 \in Int /\ MaxNode \in Int /\ MaxNode + 1 \in Int /\ MaxNode \in Nat
      BY WaypointsDiffer
    <3>. QED
      BY <3>1, FS_Interval DEF Nodes
  <2>4. Cardinality(Nodes) < Cardinality(1..MaxNode + 1)
    BY <2>3, WaypointsDiffer
  <2>5. PICK x, y \in 1..MaxNode + 1 : x # y /\ w[x] = w[y]
    <3>. DEFINE places == 1..MaxNode + 1
    <3>1. IsFiniteSet(places) /\ IsFiniteSet(Nodes)
      BY <2>3
    <3>2. Cardinality(Nodes) < Cardinality(places) /\ w \in [places -> Nodes]
      BY <2>2, <2>4
    <3>. HIDE DEF places
    <3>3. \E x, y \in places : x # y /\ w[x] = w[y]
      BY <3>1, <3>2, FS_PigeonHole
    <3>. QED
      BY <3>3 DEF places
  <2>6. \E i, j \in 1..MaxNode + 1 : i < j /\ w[i] = w[j]
    <3>1. x < y \/ y < x
      BY <2>5
    <3>. QED
      BY <2>5, <3>1
  <2>7. PICK i, j \in 1..MaxNode + 1 : i < j /\ w[i] = w[j]
    BY <2>6
  <2>8. i \in 1..j - 1 /\ MaxNode + 1 \in 1..MaxNode + 1 /\ MaxNode + 1 - 1 = MaxNode
    BY <2>7, WaypointsDiffer
  <2>. DEFINE M == MaxNode + 1
  <2>9. \E m \in 1..MaxNode : w[m] = w[MaxNode + 1]
    <3>1. M \in 1..MaxNode + 1 /\ M - 1 = MaxNode /\ j \in 1..M
      BY <2>7, <2>8, WaypointsDiffer
    <3>. HIDE DEF M
    <3>2. \E m \in 1..M - 1 : w[m] = w[M]
      BY <2>7, <2>8, <3>1, ClimbRepeats
    <3>3. M = MaxNode + 1
      BY DEF M
    <3>. QED
      BY <3>1, <3>2, <3>3
  <2>. QED
    BY <1>2, <2>9
<1>. QED
  BY <1>1, <1>2

\* The ancestors of the current node: what every set closed upwards from it has.
Upward(t, S) == t.current \in S /\ \A m \in S : t.parent[m] \in Nodes => t.parent[m] \in S
Ancestors(t) == {n \in Nodes : \A S \in SUBSET Nodes : Upward(t, S) => n \in S}

LEMMA AncestorsAreClimbed ==
  ASSUME NEW t \in Trees, t.current \in Nodes, NEW w, Climbs(w, t)
  PROVE  Ancestors(t) = {w[k] : k \in 1..MaxNode} \intersect Nodes
<1>. DEFINE passed == {w[k] : k \in 1..MaxNode} \intersect Nodes
<1>1. Upward(t, passed)
  <2>1. t.current \in passed
    <3>1. PICK j \in 1..MaxNode : w[j] = w[1]
      BY PassedInTime, WaypointsDiffer DEF Climbs
    <3>. QED
      BY <3>1 DEF Climbs
  <2>2. ASSUME NEW m \in passed, t.parent[m] \in Nodes PROVE t.parent[m] \in passed
    <3>1. PICK k \in 1..MaxNode : w[k] = m
      BY <2>2
    <3>2. w[k + 1] = t.parent[m] /\ k + 1 \in 1..MaxNode + 1
      BY <3>1, WaypointsDiffer DEF Climbs, Above
    <3>3. PICK j \in 1..MaxNode : w[j] = w[k + 1]
      BY <2>2, <3>2, PassedInTime
    <3>. QED
      BY <2>2, <3>2, <3>3
  <2>. HIDE DEF passed
  <2>. QED
    BY <2>1, <2>2 DEF Upward
<1>2. ASSUME NEW S \in SUBSET Nodes, Upward(t, S), NEW k \in 1..MaxNode, w[k] \in Nodes PROVE w[k] \in S
  <2>. DEFINE P == {d \in 0..MaxNode : w[d + 1] \in Nodes => w[d + 1] \in S}
  <2>1. 0 \in P
    BY <1>2, WaypointsDiffer DEF Climbs, Upward
  <2>2. ASSUME NEW d \in 1..MaxNode, d - 1 \in P PROVE d \in P
    <3>1. d - 1 + 1 = d /\ d \in 0..MaxNode
      BY WaypointsDiffer
    <3>2. w[d + 1] = Above(t, w[d])
      BY DEF Climbs
    <3>3. w[d] \in Nodes => w[d] \in S
      BY <2>2, <3>1
    <3>. QED
      BY <1>2, <3>1, <3>2, <3>3 DEF Above, Upward
  <2>3. P = 0..MaxNode
    <3>1. P \in SUBSET (0..MaxNode) /\ MaxNode \in Nat
      BY WaypointsDiffer
    <3>. HIDE DEF P
    <3>. QED
      BY <2>1, <2>2, <3>1, BoundedInduction
  <2>4. k - 1 \in 0..MaxNode /\ k - 1 + 1 = k
    BY WaypointsDiffer
  <2>5. k - 1 \in P
    BY <2>3, <2>4
  <2>. QED
    BY <1>2, <2>4, <2>5
<1>3. Ancestors(t) \subseteq passed
  BY <1>1 DEF Ancestors
<1>4. passed \subseteq Ancestors(t)
  BY <1>2 DEF Ancestors
<1>. QED
  BY <1>3, <1>4

\* A climb that leaves the nodes passes its nodes first, one after the other.
LEMMA ClimbLength ==
  ASSUME NEW t \in Trees, NEW w, Climbs(w, t), w[MaxNode + 1] \notin Nodes
  PROVE  \E len \in 0..MaxNode : /\ {k \in 1..MaxNode : w[k] \in Nodes} = 1..len
                                 /\ Cardinality({k \in 1..MaxNode : w[k] \in Nodes}) = len
                                 /\ w[len + 1] = w[MaxNode + 1]
<1>. DEFINE T == {k \in 1..MaxNode + 1 : w[k] \notin Nodes}
<1>1. T \in SUBSET Nat /\ T # {}
  BY WaypointsDiffer
<1>2. PICK x \in T : \A y \in T : x <= y
  <2>. HIDE DEF T
  <2>. QED
    BY <1>1, LeastElement
<1>3. x \in 1..MaxNode + 1 /\ w[x] \notin Nodes /\ \A k \in 1..MaxNode + 1 : w[k] \notin Nodes => x <= k
  BY <1>2
<1>4. \A k \in x..MaxNode + 1 : w[k] = w[x]
  BY <1>3, ClimbRests
<1>5. x - 1 \in 0..MaxNode /\ x - 1 + 1 = x /\ MaxNode + 1 \in x..MaxNode + 1
  BY <1>3, WaypointsDiffer
<1>6. {k \in 1..MaxNode : w[k] \in Nodes} = 1..(x - 1)
  <2>1. ASSUME NEW k \in 1..MaxNode, w[k] \in Nodes PROVE k \in 1..(x - 1)
    <3>1. ~(k \in x..MaxNode + 1)
      BY <1>3, <1>4, <2>1
    <3>. QED
      BY <1>5, <3>1, WaypointsDiffer
  <2>2. ASSUME NEW k \in 1..(x - 1) PROVE k \in 1..MaxNode /\ w[k] \in Nodes
    <3>1. k \in 1..MaxNode /\ k \in 1..MaxNode + 1 /\ ~(x <= k)
      BY <1>5, WaypointsDiffer
    <3>. QED
      BY <1>3, <3>1
  <2>. QED
    BY <2>1, <2>2
<1>7. Cardinality(1..(x - 1)) = x - 1
  <2>1. 1 \in Int /\ x - 1 \in Int /\ (1 > x - 1 => x - 1 = 0) /\ x - 1 - 1 + 1 = x - 1
    BY <1>5, WaypointsDiffer
  <2>. QED
    BY <2>1, FS_Interval
<1>. QED
  BY <1>4, <1>5, <1>6, <1>7

LEMMA BranchIsSelected == TranscriptIsSelectedBranch
<1>. SUFFICES ASSUME NEW t \in Trees
     PROVE LET messages == MessagesFromConversation(t)
           IN  IF /\ t.current \in Nodes /\ \A n \in Ancestors(t) : t.parent[n] # Gone
                  /\ \E n \in Ancestors(t) : t.parent[n] = Root
               THEN /\ {messages[i] : i \in DOMAIN messages} = Ancestors(t)
                    /\ Len(messages) = Cardinality(Ancestors(t))
                    /\ t.parent[messages[1]] = Root /\ messages[Len(messages)] = t.current
                    /\ \A i \in 1..Len(messages) - 1 : t.parent[messages[i + 1]] = messages[i]
               ELSE messages = [n \in Nodes |-> n]
  BY Zenon DEF TranscriptIsSelectedBranch, Ancestors, Upward
<1>. DEFINE w == Walk(t)
            length == Cardinality({k \in 1..MaxNode : w[k] \in Nodes})
            path == [i \in 1..length |-> w[length + 1 - i]]
            messages == MessagesFromConversation(t)
            selected == /\ t.current \in Nodes /\ \A n \in Ancestors(t) : t.parent[n] # Gone
                        /\ \E n \in Ancestors(t) : t.parent[n] = Root
<1>1. Climbs(w, t)
  BY WalkClimbs
<1>2. NodePathToCurrent(t) = IF w[MaxNode + 1] # Root THEN <<>> ELSE path
  BY DEF NodePathToCurrent
<1>3. messages = IF NodePathToCurrent(t) = <<>> THEN [n \in Nodes |-> n] ELSE NodePathToCurrent(t)
  BY DEF MessagesFromConversation
<1>. HIDE DEF w, messages
<1>4. ASSUME selected PROVE w[MaxNode + 1] = Root
  <2>1. PICK n \in Ancestors(t) : t.parent[n] = Root
    BY <1>4
  <2>2. PICK k \in 1..MaxNode : w[k] = n /\ n \in Nodes
    BY <1>1, <1>4, <2>1, AncestorsAreClimbed
  <2>3. w[k + 1] = Root /\ k + 1 \in 1..MaxNode + 1 /\ MaxNode + 1 \in (k + 1)..MaxNode + 1
    BY <1>1, <2>1, <2>2, WaypointsDiffer DEF Climbs, Above
  <2>4. w[k + 1] \notin Nodes
    BY <2>3, WaypointsDiffer
  <2>. QED
    BY <1>1, <2>3, <2>4, ClimbRests
<1>5. CASE w[MaxNode + 1] # Root
  <2>1. messages = [n \in Nodes |-> n] /\ ~selected
    BY <1>2, <1>3, <1>4, <1>5
  <2>. QED
    BY <2>1 DEF messages
<1>6. CASE w[MaxNode + 1] = Root
  <2>1. t.current \in Nodes
    <3>1. CASE t.current \notin Nodes
      <4>1. w[1] = t.current /\ w[1] \notin Nodes /\ t.current = Gone
        BY <1>1, <3>1 DEF Climbs, Trees
      <4>2. w[MaxNode + 1] = Gone
        <5>1. 1 \in 1..MaxNode + 1 /\ MaxNode + 1 \in 1..MaxNode + 1
          BY WaypointsDiffer
        <5>2. w[MaxNode + 1] = w[1]
          BY <1>1, <4>1, <5>1, ClimbRests
        <5>. QED
          BY <4>1, <5>2
      <4>. QED
        BY <1>6, <4>2, WaypointsDiffer
    <3>. QED
      BY <3>1
  <2>2. w[MaxNode + 1] \notin Nodes
    BY <1>6, WaypointsDiffer
  <2>3. PICK len \in 0..MaxNode : /\ {k \in 1..MaxNode : w[k] \in Nodes} = 1..len
                                  /\ length = len /\ w[len + 1] = w[MaxNode + 1]
    BY <1>1, <2>2, ClimbLength
  <2>4. /\ \A k \in 1..len : k \in 1..MaxNode /\ w[k] \in Nodes
        /\ Ancestors(t) = {w[k] : k \in 1..len}
    <3>1. \A k \in 1..len : k \in 1..MaxNode /\ w[k] \in Nodes
      BY <2>3
    <3>2. Ancestors(t) = {w[k] : k \in 1..MaxNode} \intersect Nodes
      BY <1>1, <2>1, AncestorsAreClimbed
    <3>3. \A k \in 1..MaxNode : w[k] \in Nodes => k \in 1..len
      BY <2>3
    <3>. QED
      BY <3>1, <3>2, <3>3
  <2>5. len \in Nat /\ len # 0 /\ 1 \in 1..len /\ len \in 1..len
    <3>1. w[1] \in Nodes
      BY <1>1, <2>1 DEF Climbs
    <3>2. len # 0
      BY <2>2, <2>3, <3>1
    <3>. QED
      BY <3>2
  <2>6. \A k \in 1..len : w[k + 1] = t.parent[w[k]]
    BY <1>1, <2>4 DEF Climbs, Above
  <2>7. \A k \in 1..len : t.parent[w[k]] # Gone
    <3>. SUFFICES ASSUME NEW k \in 1..len, t.parent[w[k]] = Gone PROVE FALSE
      OBVIOUS
    <3>1. w[k + 1] = Gone /\ k + 1 \in 1..MaxNode + 1 /\ MaxNode + 1 \in (k + 1)..MaxNode + 1
      BY <2>4, <2>6, WaypointsDiffer
    <3>2. w[MaxNode + 1] = w[k + 1]
      BY <1>1, <3>1, WaypointsDiffer, ClimbRests
    <3>. QED
      BY <1>6, <3>1, <3>2, WaypointsDiffer
  <2>8. t.parent[w[len]] = Root
    BY <1>6, <2>3, <2>5, <2>6
  <2>9. selected
    BY <2>1, <2>4, <2>5, <2>7, <2>8
  <2>. HIDE DEF length
  <2>10. path = [i \in 1..len |-> w[len + 1 - i]] /\ \A i \in 1..len : len + 1 - i \in 1..len
    BY <2>3, <2>5
  <2>11. path \in [1..len -> Nodes]
    BY <2>4, <2>10
  <2>12. IsSequence(path) /\ DOMAIN path = 1..len
    BY <2>5, <2>11, NumberedIsSequence
  <2>13. Len(path) = len
    <3>1. Len(path) \in Nat /\ DOMAIN path = 1..Len(path)
      BY <2>12, SequenceShape
    <3>. HIDE DEF path
    <3>. QED
      BY <2>5, <2>12, <3>1
  <2>14. messages = path
    <3>1. Len(<<>>) = 0
      OBVIOUS
    <3>2. path # <<>>
      <4>. HIDE DEF path
      <4>. QED
        BY <2>5, <2>13, <3>1
    <3>. HIDE DEF path
    <3>. QED
      BY <1>2, <1>3, <1>6, <3>2
  <2>15. {path[i] : i \in 1..len} = Ancestors(t)
    <3>1. \A k \in 1..len : len + 1 - k \in 1..len /\ len + 1 - (len + 1 - k) = k
      BY <2>5
    <3>2. \A k \in 1..len : path[len + 1 - k] = w[k] /\ path[k] = w[len + 1 - k]
      BY <2>10, <3>1
    <3>. HIDE DEF path
    <3>. QED
      BY <2>4, <3>1, <3>2
  <2>16. Cardinality(Ancestors(t)) = len
    <3>. DEFINE f == [k \in 1..len |-> w[k]]
    <3>1. \A i, j \in 1..len : i < j => w[i] # w[j]
      <4>. SUFFICES ASSUME NEW i \in 1..len, NEW j \in 1..len, i < j, w[i] = w[j] PROVE FALSE
        OBVIOUS
      <4>. DEFINE M == len + 1
      <4>1. M \in 1..MaxNode + 1 /\ j \in 1..M /\ i \in 1..j - 1 /\ M - 1 = len
        BY <2>5, WaypointsDiffer
      <4>. HIDE DEF M
      <4>2. PICK k \in 1..M - 1 : w[k] = w[M]
        BY <1>1, <4>1, ClimbRepeats
      <4>3. w[M] \in Nodes /\ w[M] = w[MaxNode + 1]
        BY <2>3, <2>4, <4>1, <4>2 DEF M
      <4>. QED
        BY <2>2, <4>3
    <3>2. f \in Surjection(1..len, Ancestors(t))
      BY <2>4 DEF Surjection
    <3>3. \A i, j \in 1..len : i # j => i < j \/ j < i
      BY <2>5
    <3>4. f \in Injection(1..len, Ancestors(t))
      BY <3>1, <3>2, <3>3 DEF Surjection, Injection, IsInjective
    <3>5. ExistsBijection(1..len, Ancestors(t))
      BY <3>2, <3>4 DEF Bijection, ExistsBijection
    <3>6. IsFiniteSet(1..len) /\ Cardinality(1..len) = len
      <4>1. 1 \in Int /\ len \in Int /\ ~(1 > len) /\ len - 1 + 1 = len
        BY <2>5
      <4>. QED
        BY <4>1, FS_Interval
    <3>. QED
      BY <3>5, <3>6, FS_Bijection
  <2>17. t.parent[path[1]] = Root /\ path[len] = t.current
    <3>0. len + 1 - 1 = len /\ len + 1 - len = 1
      BY <2>5
    <3>1. path[1] = w[len] /\ path[len] = w[1]
      BY <2>5, <2>10, <3>0
    <3>. QED
      BY <1>1, <2>8, <3>1 DEF Climbs
  <2>18. \A i \in 1..len - 1 : t.parent[path[i + 1]] = path[i]
    <3>. SUFFICES ASSUME NEW i \in 1..len - 1 PROVE t.parent[path[i + 1]] = path[i]
      OBVIOUS
    <3>1. /\ i \in 1..len /\ i + 1 \in 1..len /\ len - i \in 1..len
          /\ len + 1 - (i + 1) = len - i /\ len - i + 1 = len + 1 - i
      BY <2>5
    <3>2. path[i + 1] = w[len - i] /\ path[i] = w[len - i + 1]
      BY <2>10, <3>1
    <3>. QED
      BY <2>6, <3>1, <3>2
  <2>. HIDE DEF path
  <2>19. /\ {messages[i] : i \in DOMAIN messages} = Ancestors(t) /\ Len(messages) = Cardinality(Ancestors(t))
         /\ t.parent[messages[1]] = Root /\ messages[Len(messages)] = t.current
         /\ \A i \in 1..Len(messages) - 1 : t.parent[messages[i + 1]] = messages[i]
    BY <2>12, <2>13, <2>14, <2>15, <2>16, <2>17, <2>18
  <2>. QED
    BY <2>9, <2>19, Zenon DEF messages
<1>. QED
  BY <1>5, <1>6
===============================================================================
