----------------------------- MODULE MCGovernedWork -----------------------------
(* Small instances, for TLC, of what decides that work is allowed, done and  *)
(* worth believing, and of where the evidence of it is kept.  The components *)
(* share no state: each behaviour is one of the component in focus, while    *)
(* the others rest in their initial state.                                   *)
EXTENDS EventAdvance, CoreEngine, CallIngress, PersistentKernel, ObjectiveAuthority, PromotionLedgers,
        EvolutionLoop, MirrorAuthority, GovernanceBundle, EvidenceGate, ExportEvidence,
        ExportRecovery, CanonicalBundles, AgentReview

CONSTANT Focuses \* the components whose behaviours are checked

VARIABLE focus

workVars == <<advanceVars, coreVars, ingressVars, kernelVars, authorityVars, promotionVars, evolutionVars>>
recordVars == <<storeVars, reviewVars>>
evidenceSide == <<mirrorVars, bundleVars, governorVars, gateVars, exportVars, recoveryVars, evidenceVars>>

TasksRuns ==
  /\ focus = "tasks" /\ AdvanceNext
  /\ UNCHANGED <<focus, coreVars, ingressVars, kernelVars, authorityVars, promotionVars, evolutionVars,
                 evidenceSide, recordVars>>
JobsRuns ==
  /\ focus = "jobs" /\ CoreNext
  /\ UNCHANGED <<focus, advanceVars, ingressVars, kernelVars, authorityVars, promotionVars, evolutionVars,
                 evidenceSide, recordVars>>
CallingRuns ==
  /\ focus = "calls" /\ IngressNext
  /\ UNCHANGED <<focus, advanceVars, coreVars, kernelVars, authorityVars, promotionVars, evolutionVars,
                 evidenceSide, recordVars>>
KernelRuns ==
  /\ focus = "kernel" /\ KernelNext
  /\ UNCHANGED <<focus, advanceVars, coreVars, ingressVars, authorityVars, promotionVars, evolutionVars,
                 evidenceSide, recordVars>>
ObjectiveRuns ==
  /\ \/ focus = "objectives" /\ ObjectiveNext
     \/ focus = "ingests" /\ IngestNext
  /\ UNCHANGED <<focus, advanceVars, coreVars, ingressVars, kernelVars, promotionVars, evolutionVars,
                 evidenceSide, recordVars>>
PromotionRuns ==
  /\ \/ focus = "factory" /\ FactoryNext
     \/ focus = "reconcile" /\ ReconcileNext
     \/ focus = "improvement" /\ ImprovementNext
  /\ UNCHANGED <<focus, advanceVars, coreVars, ingressVars, kernelVars, authorityVars, evolutionVars,
                 evidenceSide, recordVars>>
EvolutionRuns ==
  /\ focus = "evolution" /\ EvolutionNext
  /\ UNCHANGED <<focus, advanceVars, coreVars, ingressVars, kernelVars, authorityVars, promotionVars,
                 evidenceSide, recordVars>>
MirrorRuns ==
  /\ focus = "mirror" /\ MirrorNext
  /\ UNCHANGED <<focus, bundleVars, governorVars, gateVars, exportVars, recoveryVars, evidenceVars, workVars,
                 recordVars>>
BundleRuns ==
  /\ focus = "bundle" /\ BundleNext
  /\ UNCHANGED <<focus, mirrorVars, governorVars, gateVars, exportVars, recoveryVars, evidenceVars, workVars,
                 recordVars>>
GovernorRuns ==
  /\ focus = "governor" /\ GovernorNext
  /\ UNCHANGED <<focus, mirrorVars, bundleVars, gateVars, exportVars, recoveryVars, evidenceVars, workVars,
                 recordVars>>
GateRuns ==
  /\ \/ focus = "reboot" /\ RebootNext
     \/ focus = "trip" /\ TripNext
  /\ UNCHANGED <<focus, mirrorVars, bundleVars, governorVars, exportVars, recoveryVars, evidenceVars,
                 workVars, recordVars>>
ExportRuns ==
  /\ \/ focus = "exports" /\ ExportNext
     \/ focus = "imports" /\ ImportNext
  /\ UNCHANGED <<focus, mirrorVars, bundleVars, governorVars, gateVars, recoveryVars, evidenceVars, workVars,
                 recordVars>>
RecoveryRuns ==
  /\ \/ focus = "download" /\ DownloadNext
     \/ focus = "takeout" /\ PreserveNext
     \/ focus = "restore" /\ DatabaseNext
  /\ UNCHANGED <<focus, mirrorVars, bundleVars, governorVars, gateVars, exportVars, evidenceVars, workVars,
                 recordVars>>
CampaignRuns ==
  /\ focus = "campaign" /\ EvidenceNext
  /\ UNCHANGED <<focus, mirrorVars, bundleVars, governorVars, gateVars, exportVars, recoveryVars, workVars,
                 recordVars>>
StoreRuns ==
  /\ focus = "store" /\ StoreNext
  /\ UNCHANGED <<focus, workVars, evidenceSide, reviewVars>>
ReviewRuns ==
  /\ \/ focus = "fleet" /\ FleetNext
     \/ focus = "attest" /\ AttestNext
     \/ focus = "protection" /\ ProtectionNext
  /\ UNCHANGED <<focus, workVars, evidenceSide, storeVars>>

-------------------------------------------------------------------------------
(* The instances.                                                          *)

TwoTasks == <<"t1", "t2">>
SecondNeedsFirst == [t1 |-> {}, t2 |-> {"t1"}]

CallOf(protocol, request, key, payload) ==
  [protocol |-> protocol, request |-> request, key |-> key, payload |-> payload, typed |-> TRUE, reserved |-> FALSE]
SomeCalls ==
  {CallOf("hsi", "r1", "k", "a"), CallOf("frost-call", "r1", "k", "b"), CallOf("frost-call", "k", "", "a"),
   [CallOf("hsi", "r2", "", "a") EXCEPT !.typed = FALSE]}

Proven ==
  [asserted |-> TRUE, baselineMatches |-> TRUE, baselineTrusted |-> TRUE, deviceClaimed |-> TRUE,
   deviceProven |-> TRUE, observedByModel |-> FALSE, forbidden |-> FALSE, secretExposed |-> FALSE,
   destructive |-> FALSE, destructiveAuthorized |-> FALSE]
SomeContexts == {Proven, [Proven EXCEPT !.deviceProven = FALSE]}
SomeCheckSets == {DeploymentRequired, SoftwareRequired, DeploymentRequired \ {"security_policy_ok"}}

Approved == [objective |-> "o", source |-> "OWNER", root |-> "r", rootKnown |-> TRUE, forbidden |-> FALSE,
             verified |-> TRUE]
SomeProposals == [p1 |-> Approved, p3 |-> [Approved EXCEPT !.verified = FALSE]]
TaskUnder(auth, token) ==
  [writes |-> TRUE, consequential |-> TRUE, roleKnown |-> TRUE, rootDenied |-> FALSE, roleMutates |-> TRUE,
   judged |-> TRUE, action |-> "w", destructive |-> FALSE, network |-> FALSE, destination |-> "none",
   secret |-> "none", auth |-> auth, eval |-> EvaluationObject("o", "EXECUTE"), token |-> token]
SomeAgentTasks ==
  [t1 |-> TaskUnder(AuthorizedObject("p1", "EXECUTE"), TokenObject("c1")),
   t3 |-> TaskUnder(AuthorizedObject("p3", "EXECUTE"), TokenObject("c2"))]
TokenFor(task) ==
  [task |-> task, objective |-> "o", root |-> "r", actions |-> {"w"}, destructive |-> FALSE, network |-> {},
   secrets |-> {}]
SomeTokens == [c1 |-> TokenFor("t1"), c2 |-> TokenFor("t3")]
WrittenByOthers == {AuthorizedObject("p3", "EXECUTE"), EvaluationObject("o", "EXECUTE"), TokenObject("c1")}
OneDocument == [d1 |-> <<"v1", "v2">>]

WorkItem(needs, gives, blocked, score) == [needs |-> needs, gives |-> gives, blocked |-> blocked, score |-> score]
SomeWork ==
  [a |-> WorkItem({}, {"implementation_artifact"}, FALSE, 2), b |-> WorkItem({"a"}, {"tests_pass"}, FALSE, 3),
   c |-> WorkItem({}, {"x"}, TRUE, 5), d |-> WorkItem({}, {"independent_verification"}, FALSE, 1)]
LifecycleEvidence ==
  <<{"implementation_artifact"}, {"implementation_artifact", "tests_pass"},
    {"implementation_artifact", "tests_pass", "independent_verification"}, {"device_origin"}>>
ShouldBe == [s1 |-> [k |-> "x"], s2 |-> [k |-> "y"]]
IsNow == [s1 |-> [k |-> "y"], s2 |-> [k |-> "y"]]
ReadBack == {[k |-> "x"], [k |-> "y"]}

GoodPatch ==
  [names |-> {"allowed"}, tooLargeOrBinary |-> FALSE, applies |-> TRUE, changes |-> {"allowed"}, auditAllows |-> TRUE,
   passes |-> AllValidators, dirties |-> FALSE]
SomePatches ==
  [good |-> GoodPatch, partial |-> [GoodPatch EXCEPT !.passes = {"goal_tests", "compile"}],
   dirty |-> [GoodPatch EXCEPT !.dirties = TRUE], risky |-> [GoodPatch EXCEPT !.auditAllows = FALSE]]

AuthorizationOf(issuer, expires) ==
  [id |-> "a", issuer |-> issuer, subject |-> "p", grants |-> "cap", risk |-> 1, issued |-> 0, expires |-> expires,
   sound |-> TRUE]
SomeAuthorizations == {AuthorizationOf("q", 1), AuthorizationOf("q", 2), AuthorizationOf("p", 2)}
SomeEvidence ==
  {[id |-> "e1", kind |-> "SOURCE", created |-> 1, immutable |-> TRUE, sound |-> TRUE],
   [id |-> "e2", kind |-> "SUMMARY", created |-> 0, immutable |-> TRUE, sound |-> TRUE]}
SomeOperations ==
  {[id |-> "o", actor |-> "p", authorization |-> "a", needs |-> "cap", risk |-> 1, destructive |-> TRUE,
    preserved |-> {"e1"}, sound |-> TRUE]}
SomeClaims == {[id |-> "c", refs |-> {"e2"}, status |-> "VERIFIED", sound |-> TRUE]}
PromotionOf(executor, verifier) ==
  [id |-> "m", operation |-> "o", executor |-> executor, verifier |-> verifier, gates |-> TRUE, refs |-> {"e1"},
   sound |-> TRUE]
SomePromotions == {PromotionOf("p", "v"), PromotionOf("v", "p"), PromotionOf("p", "p")}
SomeTerminals == {[id |-> "t", operation |-> "o", status |-> "PASS", refs |-> {"e2"}, sound |-> TRUE]}

SomeMetaPolicies ==
  [minConfidence : 0..1, minOccurrences : {1}, maxRisk : 0..1, deterministic : {FALSE}, rollback : BOOLEAN,
   schema : {FALSE}, effects : {FALSE}]
SomePolicies ==
  [confidence : 0..1, occurrences : {1}, depth : {1}, risk : 0..1, tolerance : {1}, promotion : {1}, branch : {1},
   recurrences : {1}, days : {1}, replications : {1}]
Fit ==
  [regression |-> 0, fit |-> 1, niche |-> 1, recurrences |-> 1, days |-> 1, replications |-> 1, advantage |-> 1,
   cheapToSwitch |-> TRUE, costlyToCoexist |-> TRUE]
SomeApplicants ==
  [authorized : {TRUE}, risk : 0..1, confidence : 0..1, occurrences : {1}, depth : {1}, rollback : BOOLEAN,
   tested : {"PASS", "none"}, schema : {FALSE}, effects : {FALSE}, merit : {Fit, [Fit EXCEPT !.fit = 0]}]
ClaimOf(id, says, exclusive, envelope) ==
  [id |-> id, about |-> "t", says |-> says, exclusive |-> exclusive, envelope |-> envelope, sound |-> TRUE]
DecisionOn(id, action) == [id |-> "f", action |-> action, input |-> id]
SomeBundles ==
  [b1 |-> [claims |-> <<ClaimOf("a", "1", TRUE, 1), ClaimOf("b", "2", TRUE, 1)>>,
           decisions |-> <<DecisionOn("a", "MERGE")>>],
   b2 |-> [claims |-> <<ClaimOf("c", "1", FALSE, 1), ClaimOf("a", "1", TRUE, 1), ClaimOf("a", "1", TRUE, 1)>>,
           decisions |-> <<DecisionOn("c", "DEFER")>>],
   b3 |-> [claims |-> <<ClaimOf("d", "3", TRUE, 1), ClaimOf("a", "1", TRUE, 2)>>, decisions |-> <<>>],
   b4 |-> [claims |-> <<ClaimOf("d", "3", TRUE, 1)>>, decisions |-> <<DecisionOn("d", "DELETE")>>]]

TwoBranches == <<"b1", "b2">>
OneIsRelevant == [b1 |-> "UNKNOWN", b2 |-> "RELEVANT"]
Protecting(contexts) == [contexts |-> contexts, strict |-> TRUE, pulls |-> TRUE, shut |-> TRUE, linear |-> FALSE]
SomeProtection ==
  {Protecting({"tests", "policy"}), Protecting({"tests", "policy", "release"}), Protecting({"policy"}),
   [Protecting({"tests", "policy"}) EXCEPT !.shut = FALSE]}
SomeWindows == [k1 |-> [notBefore |-> 0, notAfter |-> 5], k2 |-> [notBefore |-> 1, notAfter |-> 2]]

RestingGovernor ==
  /\ meta = CHOOSE m \in SomeMetaPolicies : TRUE
  /\ policy = CHOOSE p \in SomePolicies : TRUE
  /\ applicant = CHOOSE a \in SomeApplicants : TRUE

-------------------------------------------------------------------------------
Init ==
  /\ focus \in Focuses
  /\ GovernorInit /\ (focus # "governor" => RestingGovernor)
  /\ EvolutionInit /\ (focus # "evolution" => evaluator = "host")
  /\ AdvanceInit /\ (focus # "tasks" => \A a \in Advancers : advancer[a].authorize)
  /\ ExportInit /\ (focus # "exports" => \A p \in Ingesters : sourceFile[p] = 1)
  /\ CoreInit /\ IngressInit /\ KernelInit /\ AuthorityInit /\ PromotionInit /\ MirrorInit
  /\ BundleInit /\ EvidenceGateInit /\ RecoveryInit /\ CampaignInit /\ StoreInit /\ ImportInit
  /\ AgentReviewInit
  /\ (focus # "protection" => mainLog = <<[policy |-> Protecting({"tests", "policy"}), pulled |-> TRUE]>>)

Next ==
  \/ TasksRuns \/ JobsRuns \/ CallingRuns \/ KernelRuns \/ ObjectiveRuns \/ PromotionRuns \/ EvolutionRuns
  \/ MirrorRuns \/ BundleRuns \/ GovernorRuns \/ GateRuns \/ ExportRuns \/ RecoveryRuns \/ CampaignRuns
  \/ StoreRuns \/ ReviewRuns

Spec == Init /\ [][Next]_<<focus, workVars, evidenceSide, recordVars>>

-------------------------------------------------------------------------------
\* In every property the part of a component is asked of the behaviours of that
\* component: in the others it rests.
In(components, part) == focus \in components => part

GovernedWorkTypesOK ==
  /\ In({"tasks"}, AdvanceTypeOK) /\ In({"jobs"}, CoreTypeOK) /\ In({"calls"}, IngressTypeOK)
  /\ In({"kernel"}, KernelTypeOK) /\ In({"objectives", "ingests"}, AuthorityTypeOK)
  /\ In({"factory", "reconcile", "improvement"}, PromotionTypeOK) /\ In({"evolution"}, EvolutionTypeOK)
  /\ In({"mirror"}, MirrorTypeOK) /\ In({"bundle"}, BundleTypeOK) /\ In({"governor"}, GovernorTypeOK)
  /\ In({"reboot", "trip"}, EvidenceGateTypeOK) /\ In({"exports", "imports"}, ExportTypeOK)
  /\ In({"download", "takeout", "restore"}, RecoveryTypeOK) /\ In({"campaign"}, CampaignTypeOK)
  /\ In({"store"}, StoreTypeOK) /\ In({"fleet", "attest", "protection"}, AgentReviewTypeOK)

\* Nothing is called complete, promoted, applied, evolved, eligible or
\* persistent that the evidence it stands on does not show, whatever was
\* repeated, overlapped or cut off on the way.
SuccessIsEvidenced ==
  /\ In({"tasks"}, CompleteIsVerified)
  /\ In({"factory"}, PromotionIsEarned) /\ In({"improvement"}, LifecycleIsEvidenced)
  /\ In({"reconcile"}, AppliedIsMirrored)
  /\ In({"evolution"}, EvolvedIsAudited /\ SavedIsEvidenced)
  /\ In({"reboot"}, EligibleAfterReboot) /\ In({"campaign"}, PersistentAfterReboot)
  /\ In({"takeout"}, CompleteIsIntact) /\ In({"imports"}, PassedImportIsWhole)
  /\ In({"fleet"}, RoutedAsCompared /\ RevalidatedIsCurrent)
  /\ In({"protection"}, ClosedOverProtected)

\* What went ahead had the authority it needed, from somebody else than itself:
\* no caller, no writer of the store and no lower policy can supply it.
AuthorityIsNotSelfMade ==
  /\ In({"tasks"}, AuthorityRespected)
  /\ In({"objectives"}, RunsAreAuthorized /\ CurrentIsTraceable)
  /\ In({"kernel"}, MarkerBacked) /\ In({"mirror"}, ReliedWasAllowed)
  /\ In({"bundle"}, PromotedByThreeHands) /\ In({"governor"}, GovernorIsSubordinate)
  /\ In({"attest"}, RevocationReachesRelease /\ RevocationReachesAll) /\ In({"protection"}, OnlyEditsUnprotect)

\* Two processes, or a death in the middle, leave records that can be read
\* again: logs that replay, ingests that converge, stores that hold what they
\* index.
RecordsSurvive ==
  /\ In({"tasks"}, LogReplayable) /\ In({"kernel"}, CommitHeals /\ DeployedImpliesSoftware)
  /\ In({"ingests"}, IngestConverges) /\ In({"exports"}, DamageIsByDeath)
  /\ In({"takeout"}, BundleHasManifest) /\ In({"restore"}, RestoreHarmIsByOverlap)
  /\ In({"store"}, BundlesAreWhole /\ ContradictionsAreTold /\ ProjectionIsOfBundles)

\* A name, a receipt or an answer stands for one content, the one it was given
\* for, although contents change and calls overlap under it.
NamesKeepTheirContent ==
  /\ In({"calls"}, AnsweredWithTheirTask) /\ In({"trip"}, ReceiptNamesOneContent)
  /\ In({"exports"}, ReceiptHasObject /\ SourceBoundOnce)
  /\ In({"imports"}, TranscriptIsSelectedBranch)
  /\ In({"download"}, AcquiredIsWhatWasSent) /\ In({"store"}, AcceptedIsKept)

\* What overlap and death can repeat, fork or strand is bounded by how many
\* processes overlap and die.
HarmIsBounded ==
  /\ In({"jobs"}, RunsBounded /\ AuditForksBounded) /\ In({"tasks"}, StrandedByDeathOnly)
  /\ In({"imports"}, FailedByOthersOnly)
================================================================================
