------------------------------ MODULE ScriptRuns ------------------------------
(* Three ways in which a device runs a script that was handed to it: the     *)
(* clipboard bridge (clipboard_autorun.py), the scientific autocycle         *)
(* (scientific_autocycle.py) and the code gate (centinal26_code_gate.py).    *)
(* They share no file.  A script is a name; what Guardian's patterns, the    *)
(* validators and an editing agent make of it is given by constants.         *)
EXTENDS Naturals, Sequences, FiniteSets

CONSTANTS Scripts,       \* contents of scripts
          Stagers, Runners, \* processes of the bridge
          MaxStages,     \* bound on the clipboard events that are staged
          Verdict,       \* inspect_candidate of each script: "PASS", "REVIEW" or "REJECT"
          Cyclers,       \* processes of the autocycle
          MaxIterations, \* limits.max_iterations
          GateSafe,      \* scripts safety_scan passes
          GateScore,     \* how many of the validators accept each script
          Validators,    \* how many validators there are
          Improved,      \* what deterministic_improve makes of each script
          MaxPasses      \* MAX_PASSES

ASSUME ScriptAssumption ==
  /\ Verdict \in [Scripts -> {"PASS", "REVIEW", "REJECT"}]
  /\ GateSafe \subseteq Scripts /\ GateScore \in [Scripts -> 0..Validators]
  /\ Improved \in [Scripts -> Scripts]
  /\ MaxStages \in Nat /\ MaxIterations \in Nat \ {0} /\ MaxPasses \in Nat \ {0}

VARIABLES inbox,     \* staged scripts: [script, intact]
          pendingAt, \* the stage pending.json names, 0 if there is no such file
          lastEvent, \* last_event.json: the script and whether its window is open
          stager,    \* processes in stage()
          running,   \* the stage each process has moved to running-<pid>.json, and how far it is
          runsOf,    \* how often each stage was executed
          cycleInbox, cyclePending, cycleRuns, \* the same of the autocycle: stages, pending.json, runs of each
          cycler,    \* processes in run_pending_clipboard and run_cycle
          unguarded, \* revisions executed that Guardian does not pass: [script, disturbed]
          codeGate   \* main of the code gate

bridgeFiles == <<inbox, pendingAt, lastEvent, stager, running, runsOf>>
cycleVars == <<cycleInbox, cyclePending, cycleRuns, cycler, unguarded>>
scriptVars == <<bridgeFiles, cycleVars, codeGate>>

NotStaging == [pc |-> "idle", script |-> "none"]
NotRunning == [pc |-> "idle", stage |-> 0]
NotCycling == [pc |-> "idle", first |-> "none", text |-> "none", iteration |-> 1, status |-> "NO_IMPROVING_REVISION",
               goal |-> FALSE, timedOut |-> FALSE, ran |-> "none", disturbed |-> FALSE, stage |-> 0]
InCycle == {"open", "fill", "inspect", "execute", "judge"}

ScriptTypeOK ==
  /\ \A n \in DOMAIN inbox : inbox[n] \in [script : Scripts, intact : BOOLEAN]
  /\ pendingAt \in 0..Len(inbox)
  /\ lastEvent \in [script : Scripts \union {"none"}, recent : BOOLEAN]
  /\ stager \in [Stagers -> [pc : {"idle", "write", "remember"}, script : Scripts \union {"none"}]]
  /\ running \in [Runners -> [pc : {"idle", "moved", "resolved"}, stage : 0..Len(inbox)]]
  /\ runsOf \in [1..MaxStages -> 0..MaxStages]
  /\ \A n \in DOMAIN cycleInbox : cycleInbox[n] \in [script : Scripts, intact : BOOLEAN]
  /\ cyclePending \in 0..Len(cycleInbox) /\ cycleRuns \in [1..MaxStages -> 0..MaxStages]
  /\ \A p \in Cyclers :
       /\ cycler[p].pc \in {"idle", "moved", "done"} \union InCycle /\ cycler[p].iteration \in 1..MaxIterations
       /\ cycler[p].status \in {"NO_IMPROVING_REVISION", "POLICY_BLOCKED", "GOAL_VERIFIED", "RESOURCE_LIMIT_REACHED"}
       /\ {cycler[p].first, cycler[p].text, cycler[p].ran} \subseteq Scripts \union {"none"}
  /\ codeGate \in [pc : {"scan", "pass", "final", "COMPLETE", "FAILED", "REVIEW"},
                   text : Scripts, passes : 0..MaxPasses,
                   seen : [score : 0..Validators, text : Scripts \union {"none"}], ran : Scripts \union {"none"}]

ScriptInit ==
  /\ inbox = <<>> /\ pendingAt = 0 /\ lastEvent = [script |-> "none", recent |-> FALSE]
  /\ stager = [s \in Stagers |-> NotStaging] /\ running = [r \in Runners |-> NotRunning]
  /\ runsOf = [n \in 1..MaxStages |-> 0]
  /\ cycleInbox = <<>> /\ cyclePending = 0 /\ cycleRuns = [n \in 1..MaxStages |-> 0]
  /\ cycler = [p \in Cyclers |-> NotCycling] /\ unguarded = {}
  /\ codeGate \in [pc : {"scan"}, text : Scripts, passes : {0}, seen : {[score |-> 0, text |-> "none"]},
                   ran : {"none"}]

-------------------------------------------------------------------------------
(* The clipboard bridge.                                                   *)

\* stage() of a marked text that is not the last event of the last two seconds.
StageReads(s, x) ==
  /\ stager[s].pc = "idle"
  /\ ~(lastEvent.script = x /\ lastEvent.recent)
  /\ stager' = [stager EXCEPT ![s] = [pc |-> "write", script |-> x]]
  /\ UNCHANGED <<inbox, pendingAt, lastEvent, running, runsOf>>

\* The files of the inbox are new ones; pending.json is replaced.
StageWrites(s) ==
  /\ stager[s].pc = "write" /\ Len(inbox) < MaxStages
  /\ inbox' = Append(inbox, [script |-> stager[s].script, intact |-> TRUE])
  /\ pendingAt' = Len(inbox) + 1
  /\ stager' = [stager EXCEPT ![s].pc = "remember"]
  /\ UNCHANGED <<lastEvent, running, runsOf>>

StageRemembers(s) ==
  /\ stager[s].pc = "remember"
  /\ lastEvent' = [script |-> stager[s].script, recent |-> TRUE]
  /\ stager' = [stager EXCEPT ![s] = NotStaging]
  /\ UNCHANGED <<inbox, pendingAt, running, runsOf>>

WindowCloses ==
  /\ lastEvent.recent
  /\ lastEvent' = [lastEvent EXCEPT !.recent = FALSE]
  /\ UNCHANGED <<inbox, pendingAt, stager, running, runsOf>>

\* Mutant: pending.json is read and left in its place.
RunCopy(r) ==
  /\ running[r].pc = "idle" /\ pendingAt # 0
  /\ running' = [running EXCEPT ![r] = [pc |-> "moved", stage |-> pendingAt]]
  /\ UNCHANGED <<inbox, pendingAt, lastEvent, stager, runsOf>>

\* run_pending: the rename gives the stage to one process.
RunPending(r) ==
  /\ running[r].pc = "idle" /\ pendingAt # 0
  /\ running' = [running EXCEPT ![r] = [pc |-> "moved", stage |-> pendingAt]]
  /\ pendingAt' = 0
  /\ UNCHANGED <<inbox, lastEvent, stager, runsOf>>

\* _resolve_pending_script: a script whose hash differs is rejected.
ResolveScript(r) ==
  /\ running[r].pc = "moved"
  /\ running' = [running EXCEPT ![r] =
       IF inbox[running[r].stage].intact THEN [@ EXCEPT !.pc = "resolved"] ELSE NotRunning]
  /\ UNCHANGED <<inbox, pendingAt, lastEvent, stager, runsOf>>

ExecuteScript(r) ==
  /\ running[r].pc = "resolved"
  /\ runsOf' = [runsOf EXCEPT ![running[r].stage] = @ + 1]
  /\ running' = [running EXCEPT ![r] = NotRunning]
  /\ UNCHANGED <<inbox, pendingAt, lastEvent, stager>>

\* A process that is killed leaves its running file, which nobody reads again.
RunnerDies(r) ==
  /\ running[r].pc # "idle"
  /\ running' = [running EXCEPT ![r] = NotRunning]
  /\ UNCHANGED <<inbox, pendingAt, lastEvent, stager, runsOf>>

StagedFileChanges(n) ==
  /\ n \in DOMAIN inbox /\ inbox[n].intact
  /\ inbox' = [inbox EXCEPT ![n].intact = FALSE]
  /\ UNCHANGED <<pendingAt, lastEvent, stager, running, runsOf>>

BridgeNext ==
  /\ \/ \E s \in Stagers : StageWrites(s) \/ StageRemembers(s) \/ \E x \in Scripts : StageReads(s, x)
     \/ \E r \in Runners : RunPending(r) \/ ResolveScript(r) \/ ExecuteScript(r) \/ RunnerDies(r)
     \/ WindowCloses
     \/ \E n \in 1..MaxStages : StagedFileChanges(n)
  /\ UNCHANGED <<cycleVars, codeGate>>

-------------------------------------------------------------------------------
(* The scientific autocycle.  The directory of a cycle is named by its first  *)
(* candidate, a revision's file by its iteration and its text: two runs of    *)
(* one candidate write, inspect and execute the same files.                   *)

StageCycle(x) ==
  /\ Len(cycleInbox) < MaxStages
  /\ cycleInbox' = Append(cycleInbox, [script |-> x, intact |-> TRUE])
  /\ cyclePending' = Len(cycleInbox) + 1
  /\ UNCHANGED <<cycleRuns, cycler, unguarded>>

RunPendingCycle(p) ==
  /\ cycler[p].pc \in {"idle", "done"} /\ cyclePending # 0
  /\ cycler' = [cycler EXCEPT ![p] = [NotCycling EXCEPT !.pc = "moved", !.stage = cyclePending]]
  /\ cyclePending' = 0
  /\ UNCHANGED <<cycleInbox, cycleRuns, unguarded>>

\* Staged evidence whose hash differs runs nothing.  A run of a candidate that is
\* running already disturbs both.
BeginCycle(p) ==
  LET stage == cycler[p].stage
      first == cycleInbox[stage].script
      others == {q \in Cyclers : q # p /\ cycler[q].pc \in InCycle /\ cycler[q].first = first}
      begun == [cycler[p] EXCEPT !.pc = "open", !.stage = 0, !.first = first, !.text = first,
                                   !.disturbed = others # {}]
  IN
  /\ cycler[p].pc = "moved"
  /\ IF ~cycleInbox[stage].intact THEN cycler' = [cycler EXCEPT ![p] = NotCycling] /\ UNCHANGED cycleRuns
     ELSE /\ cycler' = [q \in Cyclers |-> IF q = p THEN begun
                                          ELSE [cycler[q] EXCEPT !.disturbed = @ \/ q \in others]]
          /\ cycleRuns' = [cycleRuns EXCEPT ![stage] = @ + 1]
  /\ UNCHANGED <<cycleInbox, cyclePending, unguarded>>

CycleStep(p, pc) ==
  /\ cycler' = [cycler EXCEPT ![p].pc = pc]
  /\ UNCHANGED <<cycleInbox, cyclePending, cycleRuns, unguarded>>

\* write_text empties the revision's file, then fills it.
OpenRevision(p) == cycler[p].pc = "open" /\ CycleStep(p, "fill")
FillRevision(p) == cycler[p].pc = "fill" /\ CycleStep(p, "inspect")

RevisionOf(p) == [first |-> cycler[p].first, iteration |-> cycler[p].iteration, text |-> cycler[p].text]
Emptied(p) == \E q \in Cyclers : cycler[q].pc = "fill" /\ RevisionOf(q) = RevisionOf(p)

Settle(p, status) ==
  [cycler EXCEPT ![p].pc = "done", ![p].status = status, ![p].first = "none",
                       ![p].iteration = 1, ![p].timedOut = FALSE]

\* Guardian reads the revision's file, and finds nothing in an empty one: REJECT
\* ends the cycle, REVIEW makes an episode that executed nothing.
InspectRevision(p) ==
  LET verdict == IF Emptied(p) THEN "PASS" ELSE Verdict[cycler[p].text] IN
  /\ cycler[p].pc = "inspect"
  /\ cycler' = CASE verdict = "REJECT" -> Settle(p, "POLICY_BLOCKED")
                 [] verdict = "REVIEW" ->
                      [cycler EXCEPT ![p].pc = "judge", ![p].goal = FALSE, ![p].timedOut = FALSE]
                 [] OTHER -> [cycler EXCEPT ![p].pc = "execute"]
  /\ UNCHANGED <<cycleInbox, cyclePending, cycleRuns, unguarded>>

\* The file is executed as it is by then.  Any exit code may be the one the goal
\* asks for, that of a timeout too.
ExecuteRevision(p) ==
  LET text == cycler[p].text IN
  /\ cycler[p].pc = "execute"
  /\ \E goal, timedOut \in BOOLEAN :
       cycler' = [cycler EXCEPT ![p].pc = "judge", ![p].goal = goal, ![p].timedOut = timedOut,
                                ![p].ran = IF Emptied(p) THEN @ ELSE text]
  /\ unguarded' = IF Emptied(p) \/ Verdict[text] = "PASS" THEN unguarded
                  ELSE unguarded \union {[script |-> text, disturbed |-> cycler[p].disturbed]}
  /\ UNCHANGED <<cycleInbox, cyclePending, cycleRuns>>

\* Mutant: the revision that is reported is the one an agent proposed after the
\* episode that met the goal.
JudgeAfterRevision(p, x) ==
  /\ cycler[p].pc = "judge" /\ cycler[p].goal
  /\ cycler' = [Settle(p, "GOAL_VERIFIED") EXCEPT ![p].text = x]
  /\ UNCHANGED <<cycleInbox, cyclePending, cycleRuns, unguarded>>

\* A goal met ends the cycle; otherwise the agents are asked for another text
\* (x, the same one if none of them has any), which a last iteration keeps unseen.
JudgeEpisode(p, x) ==
  LET c == cycler[p]
      status == IF c.timedOut THEN "RESOURCE_LIMIT_REACHED" ELSE c.status
  IN
  /\ c.pc = "judge"
  /\ cycler' = CASE c.goal -> Settle(p, "GOAL_VERIFIED")
                 [] ~c.goal /\ x = c.text -> Settle(p, status)
                 [] ~c.goal /\ x # c.text /\ c.iteration = MaxIterations ->
                      [Settle(p, "RESOURCE_LIMIT_REACHED") EXCEPT ![p].text = x]
                 [] OTHER -> [cycler EXCEPT ![p].pc = "open", ![p].text = x, ![p].status = status,
                                            ![p].iteration = @ + 1, ![p].timedOut = FALSE]
  /\ UNCHANGED <<cycleInbox, cyclePending, cycleRuns, unguarded>>

CyclerDies(p) ==
  /\ cycler[p].pc \in {"moved"} \union InCycle
  /\ cycler' = [cycler EXCEPT ![p] = NotCycling]
  /\ UNCHANGED <<cycleInbox, cyclePending, cycleRuns, unguarded>>

\* Nobody reads the staged files of a cycle that has begun.
CycleEvidenceChanges(n) ==
  /\ n \in DOMAIN cycleInbox /\ cycleInbox[n].intact /\ cycleRuns[n] = 0
  /\ cycleInbox' = [cycleInbox EXCEPT ![n].intact = FALSE]
  /\ UNCHANGED <<cyclePending, cycleRuns, cycler, unguarded>>

CycleNext ==
  /\ \/ \E x \in Scripts : StageCycle(x)
     \/ \E p \in Cyclers :
          \/ RunPendingCycle(p) \/ BeginCycle(p) \/ OpenRevision(p) \/ FillRevision(p) \/ InspectRevision(p)
          \/ ExecuteRevision(p) \/ CyclerDies(p) \/ \E x \in Scripts : JudgeEpisode(p, x)
     \/ \E n \in 1..MaxStages : CycleEvidenceChanges(n)
  /\ UNCHANGED <<bridgeFiles, codeGate>>

-------------------------------------------------------------------------------
(* The code gate.                                                          *)

ScanScript ==
  /\ codeGate.pc = "scan"
  /\ codeGate' = [codeGate EXCEPT !.pc = IF codeGate.text \in GateSafe THEN "pass" ELSE "REVIEW"]

\* One pass: a script that is not accepted is improved; the loop ends when it
\* is, when a pass changes nothing, or after MAX_PASSES.
QualifyPass ==
  /\ codeGate.pc = "pass"
  /\ LET score == GateScore[codeGate.text]
         text == IF score = Validators THEN codeGate.text ELSE Improved[codeGate.text]
         signature == [score |-> score, text |-> text]
     IN  codeGate' = [codeGate EXCEPT !.text = text, !.passes = @ + 1, !.seen = signature,
           !.pc = IF score = Validators \/ signature = codeGate.seen \/ codeGate.passes + 1 = MaxPasses
                  THEN "final" ELSE "pass"]

\* Mutant: the score of the last pass is taken for the improved script too.
QualifiedByPass == codeGate.seen.score >= Validators - 1

\* The validators look once more at what the passes left.
QualifiedFinally == GateScore[codeGate.text] = Validators

\* What is qualified runs, unless --no-run says otherwise.
RunQualified ==
  /\ codeGate.pc = "final"
  /\ \E run, succeeds \in BOOLEAN :
       codeGate' = [codeGate EXCEPT
         !.ran = IF QualifiedFinally /\ run THEN codeGate.text ELSE "none",
         !.pc = IF QualifiedFinally /\ (run => succeeds) THEN "COMPLETE" ELSE "FAILED"]

GateNext == (ScanScript \/ QualifyPass \/ RunQualified) /\ UNCHANGED <<bridgeFiles, cycleVars>>

ScriptNext == BridgeNext \/ CycleNext \/ GateNext

-------------------------------------------------------------------------------
\* A script that was staged once runs at most once, in the bridge and in the
\* autocycle, however many processes look for pending work and whichever of them
\* die.
StagesRunOnce == \A n \in 1..MaxStages : runsOf[n] <= 1 /\ cycleRuns[n] <= 1

\* A cycle executes what Guardian passed and nothing else, and what it reports as
\* verified is a revision that it executed, unless two runs of one candidate
\* overlapped: runs of different ones never touch each other.
VerifiedGoalWasRun ==
  /\ \A u \in unguarded : u.disturbed
  /\ \A p \in Cyclers :
       cycler[p].status = "GOAL_VERIFIED" /\ ~cycler[p].disturbed => cycler[p].ran = cycler[p].text /\ cycler[p].goal

\* What the code gate runs is accepted by every validator in the form in which
\* it runs, and comes from a script that the safety scan has passed.
GateRunsQualified ==
  codeGate.ran # "none" => GateScore[codeGate.ran] = Validators
===============================================================================
