----------------------------- MODULE PairedUpdates -----------------------------
(* The updaters that advance two projects together: SKY NET's project_update *)
(* job (skynet/v0.1/skynet_core.py) and the pair updater of the integration  *)
(* (integrations/cybersecurity_automation/..._frost_dual_project_updater.py).*)
(*                                                                           *)
(* Both look at every project before they touch one, fast-forward one after  *)
(* the other, and undo what they did when a later one fails.  Every git      *)
(* command is a step, and people, other workers and the remote act between   *)
(* two of them.  Commits of the remote are numbered; a commit of one's own   *)
(* is the number after them, which is in no history of the remote.           *)
EXTENDS Integers, FiniteSets, Sequences, SequencesExt

CONSTANTS PairProjects,   \* the projects, in the order they are promoted
          SkynetWorkers,  \* processes that run work-once
          PairUpdaters,   \* processes that run the pair updater
          SkynetJobs,     \* jobs that can be submitted
          JobTask,        \* the type of each
          MaxRemote,      \* bound on the remote's commits
          MaxPairFaults   \* bound on what people do, what fails and who dies

ASSUME PairAssumption ==
  /\ IsFiniteSet(SkynetWorkers) /\ PairProjects \in Seq(ToSet(PairProjects)) /\ PairProjects # <<>>
  /\ \A i, k \in DOMAIN PairProjects : PairProjects[i] = PairProjects[k] => i = k
  /\ {MaxRemote, MaxPairFaults} \subseteq Nat /\ MaxRemote # 0

VARIABLES projects,     \* each project: its head, the tracking ref, the remote, whether the tree is dirty
          updater,      \* what each process is doing
          calm,         \* the processes nobody has interfered with since they began
          jobs,         \* the queue: state of each job and how often it was run
          jobAudit,     \* the audit file: who wrote each record, after which
          pairLock,     \* the pair updater that holds the lock
          integrated,   \* the exports as they were copied
          pairReceipt,  \* the last receipt
          pairFaults    \* how much of that there was

pairVars == <<projects, updater, calm, jobs, jobAudit, pairLock, integrated, pairReceipt, pairFaults>>

Updaters == SkynetWorkers \union PairUpdaters
ProjectNames == ToSet(PairProjects)
OwnCommit == MaxRemote + 1
NoState == [action |-> "none", old |-> 0, remote |-> 0, new |-> 0]
IdleUpdater ==
  [pc |-> "idle", job |-> "none", at |-> 1, states |-> [p \in ProjectNames |-> NoState], done |-> <<>>,
   ok |-> TRUE, statusOnly |-> FALSE, manifest |-> <<>>, tail |-> 0]

Here(u) == PairProjects[updater[u].at]
StateOf(u) == updater[u].states[Here(u)]
AtLast(u) == updater[u].at = Len(PairProjects)

\* What u does to the projects disturbs every other process.
Disturbs(u) == calm' = IF projects' = projects THEN calm ELSE calm \intersect {u}
PairFault == pairFaults < MaxPairFaults /\ pairFaults' = pairFaults + 1

-------------------------------------------------------------------------------
(* People and the remote.                                                  *)

Interferes(p, project) ==
  /\ PairFault
  /\ projects' = [projects EXCEPT ![p] = project]
  /\ projects' # projects
  /\ calm' = {}
  /\ UNCHANGED <<updater, jobs, jobAudit, pairLock, integrated, pairReceipt>>

RemoteAdvances(p) ==
  /\ projects[p].remote < MaxRemote
  /\ projects' = [projects EXCEPT ![p].remote = @ + 1]
  /\ UNCHANGED <<updater, calm, jobs, jobAudit, pairLock, integrated, pairReceipt, pairFaults>>

SomebodyFetches(p) == Interferes(p, [projects[p] EXCEPT !.tracking = projects[p].remote])
SomebodyCommits(p) == Interferes(p, [projects[p] EXCEPT !.head = OwnCommit, !.dirty = FALSE])
SomebodyEdits(p) == Interferes(p, [projects[p] EXCEPT !.dirty = TRUE])
SomebodyTidies(p) == Interferes(p, [projects[p] EXCEPT !.dirty = FALSE])

-------------------------------------------------------------------------------
(* SKY NET's queue: the job is selected by one statement and marked running  *)
(* by another.                                                               *)

Submit(j) ==
  /\ jobs[j].state = "none"
  /\ jobs' = [jobs EXCEPT ![j].state = "queued"]
  /\ UNCHANGED <<projects, updater, calm, jobAudit, pairLock, integrated, pairReceipt, pairFaults>>

\* Mutant: jobs that run are selected too.
SelectUnfinished(j) == jobs[j].state \in {"queued", "running"}

Selectable(j) == jobs[j].state = "queued"

SelectJob(u, j) ==
  /\ u \in SkynetWorkers /\ updater[u].pc = "idle" /\ Selectable(j)
  /\ updater' = [updater EXCEPT ![u] = [IdleUpdater EXCEPT !.pc = "selected", !.job = j]]
  /\ UNCHANGED <<projects, calm, jobs, jobAudit, pairLock, integrated, pairReceipt, pairFaults>>

\* Any other task than an update is done, or refused, in one step.
MarkRunning(u) ==
  LET j == updater[u].job IN
  /\ updater[u].pc = "selected"
  /\ jobs' = [jobs EXCEPT ![j].state = "running", ![j].runs = @ + 1]
  /\ calm' = calm \union {u}
  /\ \E ok \in BOOLEAN :
       updater' = [updater EXCEPT ![u].ok = JobTask[j] = "project_update" \/ ok,
                                  ![u].pc = IF JobTask[j] = "project_update" THEN "inspect" ELSE "finish"]
  /\ UNCHANGED <<projects, jobAudit, pairLock, integrated, pairReceipt, pairFaults>>

\* The result is written, whatever the job's state is by now.
FinishJob(u) ==
  /\ u \in SkynetWorkers /\ updater[u].pc = "finish"
  /\ jobs' = [jobs EXCEPT ![updater[u].job].state = IF updater[u].ok THEN "done" ELSE "failed"]
  /\ updater' = [updater EXCEPT ![u].pc = "audit"]
  /\ UNCHANGED <<projects, calm, jobAudit, pairLock, integrated, pairReceipt, pairFaults>>

\* audit: the last record is read, and the file is appended to.
ReadTail(u) ==
  /\ updater[u].pc = "audit"
  /\ updater' = [updater EXCEPT ![u].pc = "append", ![u].tail = Len(jobAudit)]
  /\ UNCHANGED <<projects, calm, jobs, jobAudit, pairLock, integrated, pairReceipt, pairFaults>>

AppendAudit(u) ==
  /\ updater[u].pc = "append"
  /\ jobAudit' = Append(jobAudit, [by |-> u, after |-> updater[u].tail])
  /\ updater' = [updater EXCEPT ![u] = IdleUpdater]
  /\ UNCHANGED <<projects, calm, jobs, pairLock, integrated, pairReceipt, pairFaults>>

-------------------------------------------------------------------------------
(* The pair updater runs under a lock; who finds it held goes away.         *)

\* Mutant: the lock is not asked for.
LockIsFreeForAll == TRUE

LockIsFree == pairLock = "none"

BeginPair(u) ==
  /\ u \in PairUpdaters /\ updater[u].pc = "idle" /\ LockIsFree
  /\ pairLock' = u /\ calm' = calm \union {u}
  /\ \E statusOnly \in BOOLEAN :
       updater' = [updater EXCEPT ![u] = [IdleUpdater EXCEPT !.pc = "inspect", !.statusOnly = statusOnly]]
  /\ UNCHANGED <<projects, jobs, jobAudit, integrated, pairReceipt, pairFaults>>

-------------------------------------------------------------------------------
(* Preflight of every project, and promotion of one after the other.       *)

\* Where a process goes when there is nothing left to promote.
Promoted(u) == IF u \in SkynetWorkers THEN "finish" ELSE "clear automation"
Refused(u) == \E p \in ProjectNames : updater[u].states[p].action = "refused"

\* The pair updater stops at the first project it refuses, SKY NET after all.
Refuse(u) ==
  IF u \in PairUpdaters THEN [updater[u] EXCEPT !.pc = "receipt", !.ok = FALSE]
  ELSE [updater[u] EXCEPT !.states[Here(u)].action = "refused",
                          !.pc = IF AtLast(u) THEN "decide" ELSE "inspect", !.at = IF AtLast(u) THEN 1 ELSE @ + 1]

\* git status; the pair updater reads the head here, SKY NET after the fetch.
InspectProject(u) ==
  /\ updater[u].pc = "inspect"
  /\ updater' = [updater EXCEPT ![u] =
       IF projects[Here(u)].dirty THEN Refuse(u)
       ELSE [updater[u] EXCEPT !.states[Here(u)].old = projects[Here(u)].head, !.pc = "fetch"]]
  /\ UNCHANGED <<projects, calm, jobs, jobAudit, pairLock, integrated, pairReceipt, pairFaults>>

\* Unchanged, behind, or a history of one's own.
Relation(head, remote) ==
  IF head = remote THEN "unchanged" ELSE IF head < remote THEN "fast_forward" ELSE "refused"

FetchProject(u) ==
  LET p == Here(u)
      head == IF u \in PairUpdaters THEN StateOf(u).old ELSE projects[p].head
      remote == projects[p].remote
  IN
  /\ updater[u].pc = "fetch"
  /\ projects' = [projects EXCEPT ![p].tracking = remote]
  /\ updater' = [updater EXCEPT ![u] =
       IF Relation(head, remote) = "refused" THEN Refuse(u)
       ELSE [updater[u] EXCEPT
               !.states[p] = [action |-> Relation(head, remote), old |-> head, remote |-> remote, new |-> 0],
               !.pc = IF AtLast(u) THEN "decide" ELSE "inspect", !.at = IF AtLast(u) THEN 1 ELSE @ + 1]]
  /\ Disturbs(u)
  /\ UNCHANGED <<jobs, jobAudit, pairLock, integrated, pairReceipt, pairFaults>>

FetchFails(u) ==
  /\ updater[u].pc = "fetch" /\ PairFault
  /\ updater' = [updater EXCEPT ![u] = Refuse(u)]
  /\ UNCHANGED <<projects, calm, jobs, jobAudit, pairLock, integrated, pairReceipt>>

\* Nothing is promoted before everything was looked at.
Decide(u) ==
  /\ updater[u].pc = "decide"
  /\ updater' = [updater EXCEPT ![u] =
       IF Refused(u) THEN [@ EXCEPT !.pc = "finish", !.ok = FALSE]
       ELSE [@ EXCEPT !.pc = IF updater[u].statusOnly THEN Promoted(u) ELSE "merge"]]
  /\ UNCHANGED <<projects, calm, jobs, jobAudit, pairLock, integrated, pairReceipt, pairFaults>>

NextProject(u) ==
  [updater[u] EXCEPT !.done = Append(@, Here(u)), !.pc = IF AtLast(u) THEN Promoted(u) ELSE "merge",
                     !.at = IF AtLast(u) THEN @ ELSE @ + 1]

NothingToMerge(u) ==
  /\ updater[u].pc = "merge" /\ StateOf(u).action # "fast_forward"
  /\ updater' = [updater EXCEPT ![u] = NextProject(u)]
  /\ UNCHANGED <<projects, calm, jobs, jobAudit, pairLock, integrated, pairReceipt, pairFaults>>

\* git merge --ff-only takes the tracking ref as it is now.
MergeProject(u) ==
  LET p == Here(u) IN
  /\ updater[u].pc = "merge" /\ StateOf(u).action = "fast_forward" /\ projects[p].head # OwnCommit
  /\ projects' = [projects EXCEPT ![p].head = projects[p].tracking]
  /\ updater' = [updater EXCEPT ![u].pc = "confirm"]
  /\ Disturbs(u)
  /\ UNCHANGED <<jobs, jobAudit, pairLock, integrated, pairReceipt, pairFaults>>

\* It fails on a commit of one's own, may fail on a dirty tree, or fails by itself.
MergeFails(u) ==
  LET p == Here(u) IN
  /\ updater[u].pc = "merge" /\ StateOf(u).action = "fast_forward"
  /\ \/ (projects[p].head = OwnCommit \/ projects[p].dirty) /\ UNCHANGED pairFaults
     \/ PairFault
  /\ updater' = [updater EXCEPT ![u].pc = "look back", ![u].ok = FALSE]
  /\ UNCHANGED <<projects, calm, jobs, jobAudit, pairLock, integrated, pairReceipt>>

\* The head must be the commit that was looked at.  If it is not, the project
\* is not among those that are undone.
ConfirmProject(u) ==
  LET p == Here(u)
      head == projects[p].head
      asSeen == head = StateOf(u).remote
  IN
  /\ updater[u].pc = "confirm"
  /\ updater' = [updater EXCEPT ![u] =
       IF asSeen THEN [NextProject(u) EXCEPT !.states[p].new = head]
       ELSE [@ EXCEPT !.pc = "look back", !.ok = FALSE,
                      !.states[p].new = IF u \in SkynetWorkers THEN head ELSE 0]]
  /\ UNCHANGED <<projects, calm, jobs, jobAudit, pairLock, integrated, pairReceipt, pairFaults>>

\* rollback, last project first: only where the head is still the new one.
LookBack(u) ==
  LET done == updater[u].done
      p == Last(done)
      mine == /\ updater[u].states[p].action = "fast_forward"
              /\ projects[p].head = updater[u].states[p].new
  IN
  /\ updater[u].pc = "look back"
  /\ updater' = [updater EXCEPT ![u] =
       IF done = <<>> THEN [@ EXCEPT !.pc = IF u \in SkynetWorkers THEN "finish" ELSE "receipt"]
       ELSE IF mine THEN [@ EXCEPT !.pc = "reset"]
       ELSE [@ EXCEPT !.done = Front(done)]]
  /\ UNCHANGED <<projects, calm, jobs, jobAudit, pairLock, integrated, pairReceipt, pairFaults>>

\* Mutant: back to the commit that was fetched.
ResetToRemote(u) ==
  LET p == Last(updater[u].done) IN
  /\ updater[u].pc = "reset"
  /\ projects' = [projects EXCEPT ![p].head = updater[u].states[p].remote, ![p].dirty = FALSE]
  /\ updater' = [updater EXCEPT ![u].pc = "look back", ![u].done = Front(@)]
  /\ Disturbs(u)
  /\ UNCHANGED <<jobs, jobAudit, pairLock, integrated, pairReceipt, pairFaults>>

\* git reset --hard: what is not committed is gone, and so is a commit made since.
ResetProject(u) ==
  LET p == Last(updater[u].done) IN
  /\ updater[u].pc = "reset"
  /\ projects' = [projects EXCEPT ![p].head = updater[u].states[p].old, ![p].dirty = FALSE]
  /\ updater' = [updater EXCEPT ![u].pc = "look back", ![u].done = Front(@)]
  /\ Disturbs(u)
  /\ UNCHANGED <<jobs, jobAudit, pairLock, integrated, pairReceipt, pairFaults>>

-------------------------------------------------------------------------------
(* The pair updater then copies what each project exports, and seals it.    *)

NoExport == [head |-> 0, dirty |-> FALSE]
ExportOf(p) == [head |-> projects[p].head, dirty |-> projects[p].dirty]

\* safe_copy_tree removes the old copy before it makes the new one.
ClearCopy(u, p, here, next) ==
  /\ updater[u].pc = here
  /\ integrated' = [integrated EXCEPT ![p] = NoExport]
  /\ updater' = [updater EXCEPT ![u].pc = next]
  /\ UNCHANGED <<projects, calm, jobs, jobAudit, pairLock, pairReceipt, pairFaults>>

CopyExport(u, p, here, next) ==
  /\ updater[u].pc = here
  /\ integrated' = [integrated EXCEPT ![p] = ExportOf(p)]
  /\ updater' = [updater EXCEPT ![u].pc = next]
  /\ UNCHANGED <<projects, calm, jobs, jobAudit, pairLock, pairReceipt, pairFaults>>

CopyFails(u) ==
  /\ updater[u].pc \in {"copy automation", "copy cybersecurity"} /\ PairFault
  /\ updater' = [updater EXCEPT ![u].pc = "receipt", ![u].ok = FALSE]
  /\ UNCHANGED <<projects, calm, jobs, jobAudit, pairLock, integrated, pairReceipt>>

\* The copy inside the second project makes its tree dirty, unless it is ignored.
CopyBack(u) ==
  /\ updater[u].pc = "copy back"
  /\ \E dirty \in {projects[Last(PairProjects)].dirty, ~updater[u].statusOnly} :
       projects' = [projects EXCEPT ![Last(PairProjects)].dirty = @ \/ dirty]
  /\ updater' = [updater EXCEPT ![u].pc = "manifest"]
  /\ Disturbs(u)
  /\ UNCHANGED <<jobs, jobAudit, pairLock, integrated, pairReceipt, pairFaults>>

TakeManifest(u) ==
  /\ updater[u].pc = "manifest"
  /\ updater' = [updater EXCEPT ![u].pc = "receipt", ![u].manifest = [p \in ProjectNames |-> integrated[p]]]
  /\ UNCHANGED <<projects, calm, jobs, jobAudit, pairLock, integrated, pairReceipt, pairFaults>>

SealReceipt(u) ==
  /\ updater[u].pc = "receipt"
  /\ pairReceipt' = [pass |-> updater[u].ok, manifest |-> updater[u].manifest, torn |-> FALSE]
  /\ updater' = [updater EXCEPT ![u] = IdleUpdater]
  /\ pairLock' = "none"
  /\ UNCHANGED <<projects, calm, jobs, jobAudit, integrated, pairFaults>>

\* A process that dies lets go of the lock and leaves the rest as it is.
UpdaterDies(u) ==
  /\ updater[u].pc # "idle" /\ PairFault
  /\ updater' = [updater EXCEPT ![u] = IdleUpdater]
  /\ pairLock' = IF pairLock = u THEN "none" ELSE pairLock
  /\ pairReceipt' = [pairReceipt EXCEPT !.torn = @ \/ u \in PairUpdaters]
  /\ UNCHANGED <<projects, calm, jobs, jobAudit, integrated>>

-------------------------------------------------------------------------------
PairInit ==
  /\ projects = [p \in ProjectNames |-> [head |-> 1, tracking |-> 1, remote |-> 1, dirty |-> FALSE]]
  /\ updater = [u \in Updaters |-> IdleUpdater] /\ calm = {}
  /\ jobs = [j \in SkynetJobs |-> [state |-> "none", runs |-> 0]] /\ jobAudit = <<>>
  /\ pairLock = "none" /\ integrated = [p \in ProjectNames |-> NoExport]
  /\ pairReceipt = [pass |-> FALSE, manifest |-> <<>>, torn |-> FALSE]
  /\ pairFaults = 0

UpdateStep(u) ==
  \/ InspectProject(u) \/ FetchProject(u) \/ FetchFails(u) \/ Decide(u)
  \/ NothingToMerge(u) \/ MergeProject(u) \/ MergeFails(u) \/ ConfirmProject(u)
  \/ LookBack(u) \/ ResetProject(u) \/ UpdaterDies(u)

PairSurroundings ==
  \E p \in ProjectNames :
    \/ RemoteAdvances(p) \/ SomebodyFetches(p) \/ SomebodyCommits(p) \/ SomebodyEdits(p) \/ SomebodyTidies(p)

SkynetNext ==
  \/ PairSurroundings
  \/ \E j \in SkynetJobs : Submit(j) \/ \E u \in SkynetWorkers : SelectJob(u, j)
  \/ \E u \in SkynetWorkers : MarkRunning(u) \/ UpdateStep(u) \/ FinishJob(u) \/ ReadTail(u) \/ AppendAudit(u)

PairNext ==
  \/ PairSurroundings
  \/ \E u \in PairUpdaters :
       \/ BeginPair(u) \/ UpdateStep(u)
       \/ ClearCopy(u, "automation", "clear automation", "copy automation")
       \/ CopyExport(u, "automation", "copy automation", "clear cybersecurity")
       \/ ClearCopy(u, "cybersecurity", "clear cybersecurity", "copy cybersecurity")
       \/ CopyExport(u, "cybersecurity", "copy cybersecurity", "copy back")
       \/ CopyFails(u) \/ CopyBack(u) \/ TakeManifest(u) \/ SealReceipt(u)

PairSpec == PairInit /\ [][SkynetNext \/ PairNext]_pairVars

-------------------------------------------------------------------------------
PairTypeOK ==
  /\ \A p \in ProjectNames : projects[p].head \in 1..OwnCommit /\ projects[p].tracking <= projects[p].remote
  /\ \A u \in Updaters : updater[u].pc = "idle" => updater[u] = IdleUpdater
  /\ \A j \in SkynetJobs : jobs[j].state \in {"none", "queued", "running", "done", "failed"}

\* The projects move together: at the end of an update nobody interfered with,
\* every project is at the commit that was looked at, or every one is where it
\* was, whichever command failed on the way.
Ended(u) == updater[u].pc \in {"finish", "receipt"} /\ u \in calm
PairMovesTogether ==
  \A u \in Updaters : Ended(u) /\ ~updater[u].statusOnly =>
    LET states == updater[u].states
        seen == {p \in ProjectNames : states[p].action \in {"unchanged", "fast_forward"}}
    IN  \/ \A p \in seen : projects[p].head = states[p].remote
        \/ ~updater[u].ok /\ \A p \in seen : projects[p].head = states[p].old

\* A job is run again only by a worker that selected it before it ran: as often
\* as there are workers, and never after it ended.
JobRunsBounded == \A j \in SkynetJobs : jobs[j].runs <= Cardinality(SkynetWorkers)

\* The audit chain forks where processes write it at the same time, and no
\* process forks it by itself.
AuditForksByOthers ==
  \A i \in DOMAIN jobAudit : \A k \in (jobAudit[i].after + 1)..(i - 1) : jobAudit[k].by # jobAudit[i].by

\* While nobody is copying, the copies are those of the last receipt that
\* passed, unless an updater died since it was sealed.
IntegratedMatchesReceipt ==
  pairLock = "none" /\ pairReceipt.pass /\ ~pairReceipt.torn => integrated = pairReceipt.manifest
================================================================================
