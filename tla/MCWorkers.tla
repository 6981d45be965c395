------------------------------- MODULE MCWorkers -------------------------------
(* Small instances, for TLC, of the queues work is taken from and of the     *)
(* workers, daemons and scripts that do it on the device and beside it.      *)
(* They share no state: each behaviour is one of the component in focus,     *)
(* while the others rest in their initial state.                             *)
EXTENDS FleetController, IntelligenceController, VercelController, CallableWorker,
        HermesBridge, ScriptRuns, LibraryCleaner, BluetoothGuard, ModuleManager, PairedUpdates

CONSTANT Focuses \* the components whose behaviours are checked

VARIABLE focus

queueSide == <<fleetVars, intelligenceVars, vercelVars>>
workerVars == <<callVars, markVars, bridgeVars, scriptVars>>
watcherVars == <<cleanerVars, operatorVars, guardVars, managerVars, pairVars>>

FleetRuns ==
  /\ focus = "fleet" /\ FleetNext
  /\ UNCHANGED <<focus, intelligenceVars, vercelVars, workerVars, watcherVars>>
\* Leases of work lapse in the behaviours of the cadence only, to keep these small.
IntelligenceRuns ==
  /\ \/ focus = "feed" /\ FeedNext /\ workLate' = {}
     \/ focus = "cadence" /\ CadenceNext
  /\ UNCHANGED <<focus, fleetVars, vercelVars, workerVars, watcherVars>>
VercelRuns ==
  /\ focus = "vercel" /\ VercelNext
  /\ UNCHANGED <<focus, fleetVars, intelligenceVars, workerVars, watcherVars>>
CallsRuns ==
  /\ focus = "calls" /\ CallNext
  /\ UNCHANGED <<focus, markVars, bridgeVars, scriptVars, watcherVars, queueSide>>
MarksRuns ==
  /\ focus = "marks" /\ MarkNext
  /\ UNCHANGED <<focus, callVars, bridgeVars, scriptVars, watcherVars, queueSide>>
HermesRuns ==
  /\ focus = "hermes" /\ HermesNext
  /\ UNCHANGED <<focus, callVars, markVars, scriptVars, watcherVars, queueSide>>
ScriptsRun ==
  /\ \/ focus = "clipboard" /\ BridgeNext
     \/ focus = "cycle" /\ CycleNext
     \/ focus = "codegate" /\ GateNext
  /\ UNCHANGED <<focus, callVars, markVars, bridgeVars, watcherVars, queueSide>>
CleanerRuns ==
  /\ focus = "cleaner" /\ CleanerNext
  /\ UNCHANGED <<focus, operatorVars, guardVars, managerVars, pairVars, workerVars, queueSide>>
OperatorRuns ==
  /\ \/ focus = "watchdog" /\ WatchdogNext
     \/ focus = "resume" /\ ResumeNext
  /\ UNCHANGED <<focus, cleanerVars, guardVars, managerVars, pairVars, workerVars, queueSide>>
GuardRuns ==
  /\ focus = "bluetooth" /\ GuardNext
  /\ UNCHANGED <<focus, cleanerVars, operatorVars, managerVars, pairVars, workerVars, queueSide>>
ManagerRuns ==
  /\ focus = "modules" /\ ManagerNext
  /\ UNCHANGED <<focus, cleanerVars, operatorVars, guardVars, pairVars, workerVars, queueSide>>
PairRuns ==
  /\ \/ focus = "skynet" /\ SkynetNext
     \/ focus = "pair" /\ PairNext
  /\ UNCHANGED <<focus, cleanerVars, operatorVars, guardVars, managerVars, workerVars, queueSide>>

-------------------------------------------------------------------------------
(* The instances.                                                          *)

OneCommit == [i \in Identities |-> "c1"]
TokenForCommit == [t \in Tokens |-> "c1"]
SecondNeedsFirst == [c \in ContractIds |-> IF c = "c2" THEN {"c1"} ELSE {}]
NoRetry == [c \in ContractIds |-> 0]
ResultsOfFirst == [c \in ContractIds |-> IF c = "c1" THEN 1 ELSE 0]
ToOperations == [c \in ContractIds |-> IF c = "c1" THEN "SRE" ELSE "NONE"]
RankedContracts == <<"c1", "c2">>
ReviewOrder == <<"t1", "t2">>

CallSaying(shape, key, allowed) ==
  [shape |-> shape, key |-> key, supported |-> TRUE, allowed |-> allowed, expiry |-> "none"]
CallContents ==
  [plain |-> CallSaying("object", "k1", TRUE), other |-> CallSaying("object", "k1", TRUE),
   dated |-> [CallSaying("object", "k2", TRUE) EXCEPT !.expiry = "instant"],
   effect |-> CallSaying("object", "k2", FALSE), bad |-> CallSaying("malformed", "k9", TRUE)]
SomeCallContents == [c \in CallRequests |-> CallContents[c]]

SomeMarks ==
  [m1 |-> [key |-> "k1", qualified |-> TRUE, dated |-> FALSE],
   m2 |-> [key |-> "k1", qualified |-> TRUE, dated |-> TRUE],
   m3 |-> [key |-> "k2", qualified |-> FALSE, dated |-> FALSE]]

CallBy(request, capability, provider, user, token) ==
  [rid |-> request, capability |-> capability, provider |-> provider, user |-> user, token |-> token]
SomeBridgeCalls ==
  [b1 |-> CallBy("r1", "echo", "local", FALSE, "none"), b2 |-> CallBy("r1", "write", "local", TRUE, "t1"),
   b3 |-> CallBy("r2", "write", "local", FALSE, "t1"), b4 |-> CallBy("r2", "health", "github", FALSE, "none"),
   b5 |-> CallBy("r2", "echo", "github", FALSE, "none")]
ForWriting == [t \in UserTokens |-> "write"]

SomeVerdicts == [a |-> "PASS", b |-> "REVIEW", c |-> "REJECT", d |-> "PASS"]
SomeScores == [a |-> 2, b |-> 1, c |-> 0, d |-> 1]
SomeImprovements == [a |-> "a", b |-> "a", c |-> "b", d |-> "d"]

TwoProjects == <<"automation", "cybersecurity">>
SomeTasks == [j1 |-> "project_update"]

AppNeedsCore == [m \in Packages |-> IF m = "app" THEN <<"core">> ELSE <<>>]

-------------------------------------------------------------------------------
Init ==
  /\ focus \in Focuses
  /\ ScriptInit
  /\ focus # "codegate" => codeGate.text = "a"
  /\ CleanerInit /\ shelf = [x \in Items |-> CASE x = "x" -> 1 [] x = "y" -> 2 [] x = "z" -> 3]
  /\ FleetInit /\ IntelligenceInit /\ VercelInit
  /\ CallInit /\ MarkInit /\ HermesInit /\ OperatorInit /\ GuardInit /\ ManagerInit /\ PairInit

Next ==
  \/ FleetRuns \/ IntelligenceRuns \/ VercelRuns
  \/ CallsRuns \/ MarksRuns \/ HermesRuns \/ ScriptsRun \/ CleanerRuns \/ OperatorRuns
  \/ GuardRuns \/ ManagerRuns \/ PairRuns

\* CallFairness, in the behaviours of the calls.
Fairness ==
  WF_callVars(focus = "calls" /\ BuildPlan(FALSE)) /\ WF_callVars(focus = "calls" /\ RunStep)

Spec == Init /\ [][Next]_<<focus, queueSide, workerVars, watcherVars>> /\ Fairness

-------------------------------------------------------------------------------
\* In every property the part of a component is asked of the behaviours of that
\* component: in the others it rests.
In(components, part) == focus \in components => part

\* The shapes of the components' states; a lease that ran out is one of work that
\* runs, and no count passes its limit.
WorkersTypesOK ==
  /\ In({"fleet"}, FleetTypeOK) /\ In({"feed", "cadence"}, IntelligenceTypeOK) /\ In({"vercel"}, VercelTypeOK)
  /\ In({"calls"}, CallTypeOK) /\ In({"marks"}, MarkTypeOK) /\ In({"hermes"}, HermesTypeOK)
  /\ In({"clipboard", "cycle", "codegate"}, ScriptTypeOK) /\ In({"cleaner"}, CleanerTypeOK)
  /\ In({"watchdog", "resume"}, OperatorTypeOK) /\ In({"bluetooth"}, GuardTypeOK)
  /\ In({"modules"}, ManagerTypeOK) /\ In({"skynet", "pair"}, PairTypeOK)

\* What was asked once is answered, executed, paid, run or told once: a repeated
\* file, a second process, a retry and a death do not do it again, or only as
\* often as there are deaths (worker.js priorResult, effect-provider.js
\* executeFile, the bridge's tokens, clipboard_autorun.py, the watchdog, the
\* guard's event chain).
DoneOnceOnly ==
  /\ In({"calls"}, AnsweredOncePerKey) /\ In({"marks"}, EffectsAreBound) /\ In({"hermes"}, JobsArePaidFor)
  /\ In({"clipboard", "cycle"}, StagesRunOnce) /\ In({"watchdog"}, FailuresToldOnce)
  /\ In({"bluetooth"}, ChainForksByDeath) /\ In({"skynet"}, JobRunsBounded)

\* What is published, verified, installed, skipped, kept or reported as rapid was
\* allowed, run, installed, built or counted, and is what it says.
ClaimsAreTrue ==
  /\ In({"calls"}, PublishedIsAllowed) /\ In({"cycle"}, VerifiedGoalWasRun)
  /\ In({"codegate"}, GateRunsQualified)
  /\ In({"modules"}, RanAfterDependencies /\ InstalledHasRun /\ SkippedHasRun)
  /\ In({"resume"}, KeptIsOfCommit) /\ In({"bluetooth"}, RapidIsExact)
  /\ In({"pair"}, IntegratedMatchesReceipt)

\* Nothing is lost: the content a source now has was announced and given to the
\* work queue, whatever observers overlap or die, and the events nearly stay a
\* chain; what the cleaner deletes is safe to delete and archived, it is down
\* once it lost its authority; the guard forgets no link that is up.
NothingIsLost ==
  /\ In({"feed"}, CurrentContentAnnounced /\ ChainForksBounded)
  /\ In({"cleaner"}, DeletedIsArchived /\ OnlySafeIsDeleted /\ DisarmedIsDown)
  /\ In({"bluetooth"}, LinksAreTracked)
  /\ In({"skynet", "pair"}, PairMovesTogether) /\ In({"skynet"}, AuditForksByOthers)
===============================================================================
