----------------------------- MODULE TermuxDaemon -----------------------------
(* The task table of termux/centinal26_daemon.py, the daemon that works      *)
(* through it and the guardian that starts a daemon when none is alive.      *)
(*                                                                           *)
(* Time is abstract: a lease of 300 s is live or lapsed, a backoff is over   *)
(* or not.  The daemon is one process with one task at a time, so it never   *)
(* recovers its own lease; a script it started may outlive it.               *)
EXTENDS Naturals, FiniteSets

CONSTANTS DaemonTasks,     \* tasks in the order of created_at: positive numbers
          KnownCapability, \* the tasks whose capability is in CAPS
          MaxDaemonDeaths  \* how often the daemon is killed, stopped or dies of an exception

ASSUME TermuxAssumption ==
  /\ DaemonTasks \subseteq Nat \ {0} /\ KnownCapability \subseteq DaemonTasks
  /\ MaxDaemonDeaths \in Nat

VARIABLES taskRow,      \* state, attempt_count, lease ("none", "live", "lapsed") and backoff
          taskEvidence, \* verdict of the last verification record ("none", "PASS", "FAIL")
          taskRuns,     \* how often the handler of the task was called
          daemon,       \* the daemon: "down", "idle", and the stages of execute_one
          inHand,       \* the row the daemon claimed, 0 for none
          daemonDeaths

termuxVars == <<taskRow, taskEvidence, taskRuns, daemon, inHand, daemonDeaths>>

TaskStates == {"QUEUED", "RUNNING", "RETRY_WAIT", "VERIFIED", "FAILED"}

TermuxTypeOK ==
  /\ taskRow \in [DaemonTasks -> [state : TaskStates, attempts : 0..(4 + MaxDaemonDeaths),
                                  lease : {"none", "live", "lapsed"}, backoff : BOOLEAN]]
  /\ taskEvidence \in [DaemonTasks -> {"none", "PASS", "FAIL"}]
  /\ taskRuns \in [DaemonTasks -> Nat]
  /\ daemon \in {"down", "idle", "claimed", "started", "passed", "failed", "raised"}
  /\ inHand \in DaemonTasks \union {0} /\ (inHand = 0 <=> daemon \in {"down", "idle"})
  /\ daemonDeaths \in 0..MaxDaemonDeaths

TermuxInit ==
  /\ taskRow = [t \in DaemonTasks |->
                  [state |-> "QUEUED", attempts |-> 0, lease |-> "none", backoff |-> FALSE]]
  /\ taskEvidence = [t \in DaemonTasks |-> "none"]
  /\ taskRuns = [t \in DaemonTasks |-> 0]
  /\ daemon = "down" /\ inHand = 0 /\ daemonDeaths = 0

-------------------------------------------------------------------------------
\* The guardian finds no live daemon under the pid it has and starts one.
StartDaemon ==
  /\ daemon = "down"
  /\ daemon' = "idle"
  /\ UNCHANGED <<taskRow, taskEvidence, taskRuns, inHand, daemonDeaths>>

\* Mutant: the lease of a task is taken from it and the task is left RUNNING.
RecoveredLeaseOnly(r) == IF r.lease = "lapsed" THEN [r EXCEPT !.lease = "none"] ELSE r

\* recover: whoever held a lapsed lease, the task is claimable at once, with no
\* look at its attempts.
Recovered(r) ==
  IF r.state = "RUNNING" /\ r.lease = "lapsed"
  THEN [r EXCEPT !.state = "RETRY_WAIT", !.lease = "none", !.backoff = FALSE] ELSE r

ClaimableTask(r) == r.state \in {"QUEUED", "RETRY_WAIT"} /\ ~r.backoff

\* One turn of main: recover, then claim the oldest task that may be tried.
ClaimTask ==
  /\ daemon = "idle"
  /\ LET rows == [u \in DaemonTasks |-> Recovered(taskRow[u])]
         due == {u \in DaemonTasks : ClaimableTask(rows[u])}
     IN  IF due = {}
         THEN taskRow' = rows /\ UNCHANGED <<daemon, inHand>>
         ELSE LET t == CHOOSE u \in due : \A w \in due : u <= w IN
              /\ taskRow' = [rows EXCEPT ![t].state = "RUNNING", ![t].lease = "live",
                                         ![t].attempts = @ + 1]
              /\ daemon' = "claimed" /\ inHand' = t
  /\ UNCHANGED <<taskEvidence, taskRuns, daemonDeaths>>

\* The final UPDATE of execute_one, by id alone.
CloseTask(state, backoff) ==
  /\ taskRow' = [taskRow EXCEPT ![inHand].state = state, ![inHand].lease = "none",
                                ![inHand].backoff = backoff]
  /\ daemon' = "idle" /\ inHand' = 0

\* A task without a registered capability fails; its lease columns stay.
RefuseTask ==
  /\ daemon = "claimed" /\ inHand \notin KnownCapability
  /\ taskRow' = [taskRow EXCEPT ![inHand].state = "FAILED"]
  /\ daemon' = "idle" /\ inHand' = 0
  /\ UNCHANGED <<taskEvidence, taskRuns, daemonDeaths>>

\* execution_start is recorded and the handler (local_script, github_cli or
\* provider_adapter) is called: it checks its payload and runs a command.
RunHandler ==
  /\ daemon = "claimed" /\ inHand \in KnownCapability
  /\ taskRuns' = [taskRuns EXCEPT ![inHand] = @ + 1]
  /\ daemon' = "started"
  /\ UNCHANGED <<taskRow, taskEvidence, inHand, daemonDeaths>>

\* The handler returned: the verifier judges the return code and the verdict is
\* recorded.
JudgeReturnCode ==
  /\ daemon = "started"
  /\ \E verdict \in {"PASS", "FAIL"} :
       /\ taskEvidence' = [taskEvidence EXCEPT ![inHand] = verdict]
       /\ daemon' = IF verdict = "PASS" THEN "passed" ELSE "failed"
  /\ UNCHANGED <<taskRow, taskRuns, inHand, daemonDeaths>>

\* It raised: a refused payload, a missing file, a timeout.
HandlerRaises ==
  /\ daemon = "started"
  /\ daemon' = "raised"
  /\ UNCHANGED <<taskRow, taskEvidence, taskRuns, inHand, daemonDeaths>>

\* Mutant: the attempt is counted from the claimed row, not from the next one.
AttemptsOneLate == taskRow[inHand].attempts

\* The number execute_one compares with the limit of five.
NextAttempts == taskRow[inHand].attempts + 1

SettleTask ==
  /\ \/ daemon = "passed" /\ CloseTask("VERIFIED", FALSE)
     \/ daemon = "failed" /\ CloseTask("FAILED", FALSE)
     \/ daemon = "raised" /\ NextAttempts < 5 /\ CloseTask("RETRY_WAIT", TRUE)
     \/ daemon = "raised" /\ NextAttempts >= 5 /\ CloseTask("FAILED", FALSE)
  /\ UNCHANGED <<taskEvidence, taskRuns, daemonDeaths>>

\* The daemon is killed, finds its stop file or dies of an exception that
\* execute_one does not list.
DaemonDies ==
  /\ daemon # "down" /\ daemonDeaths < MaxDaemonDeaths
  /\ daemon' = "down" /\ inHand' = 0
  /\ daemonDeaths' = daemonDeaths + 1
  /\ UNCHANGED <<taskRow, taskEvidence, taskRuns>>

\* Commands may run for 900 s, three times as long as a lease.
TaskLeaseLapses(t) ==
  /\ taskRow[t].lease = "live"
  /\ taskRow' = [taskRow EXCEPT ![t].lease = "lapsed"]
  /\ UNCHANGED <<taskEvidence, taskRuns, daemon, inHand, daemonDeaths>>

BackoffPasses(t) ==
  /\ taskRow[t].backoff
  /\ taskRow' = [taskRow EXCEPT ![t].backoff = FALSE]
  /\ UNCHANGED <<taskEvidence, taskRuns, daemon, inHand, daemonDeaths>>

DaemonStep ==
  StartDaemon \/ ClaimTask \/ RefuseTask \/ RunHandler \/ JudgeReturnCode \/ HandlerRaises
    \/ SettleTask

TermuxNext ==
  DaemonStep \/ DaemonDies \/ \E t \in DaemonTasks : TaskLeaseLapses(t) \/ BackoffPasses(t)

\* The guardian's loop and the daemon's go on, and time passes.
TermuxFairness ==
  /\ WF_termuxVars(DaemonStep)
  /\ \A t \in DaemonTasks : WF_termuxVars(TaskLeaseLapses(t)) /\ WF_termuxVars(BackoffPasses(t))

-------------------------------------------------------------------------------
\* A handler is called at most four times, and once more for each death of the
\* daemon: the limit of five counts the attempt that would come next.
HandlerCallsBounded ==
  \A t \in DaemonTasks : taskRuns[t] <= 4 + daemonDeaths

\* What the table calls verified passed in the last verification recorded, and
\* what has a PASS on record is not given up, unless the daemon died between the
\* record and the table, in which case it runs again.
VerifiedTasksPassed ==
  /\ \A t \in DaemonTasks : taskRow[t].state = "VERIFIED" => taskEvidence[t] = "PASS"
  /\ daemonDeaths = 0 =>
       \A t \in DaemonTasks : taskEvidence[t] = "PASS" /\ taskRow[t].state # "VERIFIED" => inHand = t

\* Every task is closed in the end, also when daemons die while they hold it.
DaemonTasksSettle ==
  \A t \in DaemonTasks : <>(taskRow[t].state \in {"VERIFIED", "FAILED"})
===============================================================================
