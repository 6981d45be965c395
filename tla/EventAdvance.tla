----------------------------- MODULE EventAdvance -----------------------------
(***************************************************************************)
(* The event-sourced task graph: EventStore and its reducer                *)
(* (centinal26/event_state.py), the two ways work enters it                *)
(* (adapter_gateway.py, ingest.py) and the loop that runs it (advance.py,  *)
(* improvement_cycle.py).                                                  *)
(*                                                                         *)
(* EventStore.append is one BEGIN IMMEDIATE transaction, so the log is a   *)
(* sequence, linked in order.  All anybody does with it is to fold it into *)
(* a ProjectState, so the model keeps the fold: appending an event reduces *)
(* it.  Everything else is a read of the state followed by appends, each   *)
(* its own transaction: a process may act on a state that is out of date,  *)
(* and may die between any two appends.                                    *)
(***************************************************************************)
EXTENDS Naturals, Sequences, FiniteSets

CONSTANTS Requests,      \* tasks proposed by adapters, one per external id
          Document,      \* tasks of one ingested document, in order: a sequence
          Needs,         \* declared dependencies of each task of the document
          Gateways,      \* processes that ingest adapter requests
          Advancers      \* processes that advance the graph

DocTasks == {Document[i] : i \in DOMAIN Document}
TaskIds == Requests \union DocTasks
WithNeeds == {t \in DocTasks : Needs[t] # {}}

ASSUME AdvanceAssumption ==
  /\ Needs \in [DocTasks -> SUBSET DocTasks]
  /\ Requests \intersect DocTasks = {}
  /\ Document \in Seq(DocTasks) /\ \A i, k \in DOMAIN Document : Document[i] = Document[k] => i = k
  /\ TaskIds \intersect {"none", "document"} = {}

VARIABLES project,   \* rebuild_state(store.events())
          gateway,   \* CanonicalAdapterGateway.ingest of each process
          reader,    \* the events ingest_bytes has still to append
          advancer,  \* the advance loop of each process
          jobs,      \* jobs of advance.sqlite3 by task: their state
          runQueue,  \* queued jobs, oldest first
          died       \* an advance loop was killed or raised in the middle of a task

advanceVars == <<project, gateway, reader, advancer, jobs, runQueue, died>>
writers == <<gateway, reader>>
runtime == <<jobs, runQueue>>

Ev(type, id) == [type |-> type, id |-> id]

StatusOf == [TASK_READY |-> "READY", TASK_AUTHORIZED |-> "AUTHORIZED", TASK_STARTED |-> "RUNNING",
             TASK_EXECUTED |-> "EXECUTED", VERIFICATION_PASSED |-> "VERIFIED",
             TASK_COMPLETED |-> "COMPLETE", TASK_FAILED |-> "FAILED",
             VERIFICATION_FAILED |-> "VERIFICATION_FAILED"]

Terminal == {"COMPLETE", "FAILED", "VERIFICATION_FAILED"}
InWork == {"AUTHORIZED", "RUNNING", "EXECUTED", "VERIFIED"}

EmptyProject == [sources |-> {}, status |-> [t \in TaskIds |-> "ABSENT"],
            deps |-> [t \in TaskIds |-> {}], blockers |-> {}, raised |-> FALSE]

\* reduce_event; once it raises, the state cannot be rebuilt from this log.
Reduce(st, e) ==
  CASE e.type = "SOURCE_INGESTED" -> [st EXCEPT !.sources = @ \union {e.id}]
    [] e.type = "TASK_CREATED" ->
         IF st.status[e.id] = "ABSENT" THEN [st EXCEPT !.status[e.id] = "DISCOVERED"]
         ELSE [st EXCEPT !.raised = TRUE]
    [] e.type = "DEPENDENCY_ADDED" ->
         IF st.status[e.id] # "ABSENT" THEN [st EXCEPT !.deps[e.id] = Needs[e.id]]
         ELSE [st EXCEPT !.raised = TRUE]
    [] e.type = "BLOCKER_RECORDED" -> [st EXCEPT !.blockers = @ \union {e.id}]
    [] e.type \in DOMAIN StatusOf ->
         IF st.status[e.id] # "ABSENT" THEN [st EXCEPT !.status[e.id] = StatusOf[e.type]]
         ELSE [st EXCEPT !.raised = TRUE]

AppendEvent(e) == project' = Reduce(project, e)

\* derive_ready_tasks: neither finished nor in somebody's hands, and every
\* dependency recorded so far is complete.
ReadyTasks(st) ==
  {t \in TaskIds : /\ st.status[t] \notin Terminal \union InWork \union {"ABSENT"}
                   /\ \A d \in st.deps[t] : st.status[d] = "COMPLETE"}

AdvanceStages == {"idle", "selected", "ready", "authorized", "submitted", "started", "ran",
           "executed", "passed"}

AdvanceTypeOK ==
  /\ project \in [sources : SUBSET (Requests \union {"document"}),
                  status : [TaskIds -> Terminal \union InWork \union {"ABSENT", "DISCOVERED", "READY"}],
                  deps : [TaskIds -> SUBSET TaskIds], blockers : SUBSET TaskIds, raised : BOOLEAN]
  /\ gateway \in [Gateways -> [pc : {"idle", "addSource", "checkTask", "addTask"},
                               task : TaskIds \union {"none"}]]
  /\ Len(reader) <= 2 * Len(Document) + 1
  /\ advancer \in [Advancers -> [pc : AdvanceStages, task : TaskIds \union {"none"}, authorize : BOOLEAN]]
  /\ jobs \in [TaskIds -> {"none", "queued", "verified", "failed_verification", "dead"}]
  /\ \A i \in DOMAIN runQueue : runQueue[i] \in TaskIds
  /\ died \in BOOLEAN

AdvanceInit ==
  /\ project = EmptyProject
  /\ gateway = [g \in Gateways |-> [pc |-> "idle", task |-> "none"]]
  /\ reader = <<>>
  /\ advancer \in [Advancers -> [pc : {"idle"}, task : {"none"}, authorize : BOOLEAN]]
  /\ jobs = [t \in TaskIds |-> "none"] /\ runQueue = <<>>
  /\ died = FALSE

-------------------------------------------------------------------------------
(* Adapter requests.                                                       *)

\* ingest() looks for the source of the request: it appends it if missing, and
\* resumes with the task if a former call died after it.
GatewayChecksSource(g, t) ==
  /\ gateway[g].pc = "idle" /\ ~project.raised
  /\ gateway' = [gateway EXCEPT ![g] =
       [pc |-> IF t \in project.sources THEN "checkTask" ELSE "addSource", task |-> t]]
  /\ UNCHANGED <<project, reader, advancer, runtime, died>>

GatewayAddsSource(g) ==
  /\ gateway[g].pc = "addSource"
  /\ AppendEvent(Ev("SOURCE_INGESTED", gateway[g].task))
  /\ gateway' = [gateway EXCEPT ![g].pc = "checkTask"]
  /\ UNCHANGED <<reader, advancer, runtime, died>>

\* Mutant: the task is created for every request, known or not.
GatewayAssumesTask(g) ==
  /\ gateway[g].pc = "checkTask" /\ ~project.raised
  /\ gateway' = [gateway EXCEPT ![g].pc = "addTask"]
  /\ UNCHANGED <<project, reader, advancer, runtime, died>>

GatewayChecksTask(g) ==
  /\ gateway[g].pc = "checkTask" /\ ~project.raised
  /\ gateway' = [gateway EXCEPT ![g] =
       IF project.status[gateway[g].task] = "ABSENT" THEN [gateway[g] EXCEPT !.pc = "addTask"]
       ELSE [pc |-> "idle", task |-> "none"]]
  /\ UNCHANGED <<project, reader, advancer, runtime, died>>

GatewayAddsTask(g) ==
  /\ gateway[g].pc = "addTask"
  /\ AppendEvent(Ev("TASK_CREATED", gateway[g].task))
  /\ gateway' = [gateway EXCEPT ![g] = [pc |-> "idle", task |-> "none"]]
  /\ UNCHANGED <<reader, advancer, runtime, died>>

GatewayDies(g) ==
  /\ gateway[g].pc # "idle"
  /\ gateway' = [gateway EXCEPT ![g] = [pc |-> "idle", task |-> "none"]]
  /\ UNCHANGED <<project, reader, advancer, runtime, died>>

-------------------------------------------------------------------------------
(* The document: its source first, then its tasks, then their dependencies. *)

\* The tasks that need others, as the document names them.
InOrder ==
  {s \in [1..Cardinality(WithNeeds) -> WithNeeds] :
     \A i, k \in DOMAIN s : i < k => \E m, n \in DOMAIN Document :
       m < n /\ Document[m] = s[i] /\ Document[n] = s[k]}

Plan(needing) ==
  <<Ev("SOURCE_INGESTED", "document")>>
    \o [i \in DOMAIN Document |-> Ev("TASK_CREATED", Document[i])]
    \o [i \in DOMAIN needing |-> Ev("DEPENDENCY_ADDED", needing[i])]

\* A source that is in the log is a duplicate, whatever became of its records.
IngestReads ==
  /\ reader = <<>> /\ ~project.raised
  /\ "document" \notin project.sources
  /\ \E needing \in InOrder : reader' = Plan(needing)
  /\ UNCHANGED <<project, gateway, advancer, runtime, died>>

IngestAppends ==
  /\ reader # <<>>
  /\ AppendEvent(Head(reader))
  /\ reader' = Tail(reader)
  /\ UNCHANGED <<gateway, advancer, runtime, died>>

IngestDies ==
  /\ reader # <<>>
  /\ reader' = <<>>
  /\ UNCHANGED <<project, gateway, advancer, runtime, died>>

-------------------------------------------------------------------------------
(* The advance loop.                                                       *)

\* Mutant: an adapter's task is run like any other of its capability.
AutoSafeByCapability(t, authorize) == TRUE

\* _authorization_mode with the default modes: tasks of adapters carry
\* "authorization_required" and wait for an authorizing run.
Permitted(t, authorize) == authorize \/ t \notin Requests

Runnable(a) == {t \in ReadyTasks(project) : Permitted(t, advancer[a].authorize)}

\* One round: blockers of the tasks that may not run are recorded once, and one
\* of the others is chosen.
RecordBlockers(a) ==
  LET barred == (ReadyTasks(project) \ Runnable(a)) \ project.blockers
  IN  project' = [project EXCEPT !.blockers = @ \union barred] \* Reduce, for each of them

Choose(a, t) ==
  /\ advancer[a].pc = "idle" /\ ~project.raised
  /\ RecordBlockers(a)
  /\ advancer' = [advancer EXCEPT ![a].pc = "selected", ![a].task = t]
  /\ UNCHANGED <<writers, runtime, died>>

\* advance_until_idle takes the first of them by id.
SelectFirst(a) == Runnable(a) # {} /\ Choose(a, CHOOSE t \in Runnable(a) : TRUE)

\* advance_ranked_until_idle takes the one of most value, whichever that is by
\* what the tasks say of themselves.
SelectRanked(a) == \E t \in Runnable(a) : Choose(a, t)

SelectNone(a) ==
  /\ advancer[a].pc = "idle" /\ ~project.raised
  /\ Runnable(a) = {} /\ ReadyTasks(project) \ project.blockers # {}
  /\ RecordBlockers(a)
  /\ UNCHANGED <<writers, advancer, runtime, died>>

Note(a, from, to, type) ==
  /\ advancer[a].pc = from
  /\ AppendEvent(Ev(type, advancer[a].task))
  /\ advancer' = [advancer EXCEPT ![a].pc = to]
  /\ UNCHANGED <<writers, runtime, died>>

\* _run_task: TASK_READY, unless the state rebuilt after the choice says so.
AnnounceReady(a) ==
  /\ ~project.raised
  /\ IF advancer[a].task # "none" /\ project.status[advancer[a].task] = "READY"
     THEN /\ advancer[a].pc = "selected"
          /\ advancer' = [advancer EXCEPT ![a].pc = "ready"]
          /\ UNCHANGED <<project, writers, runtime, died>>
     ELSE Note(a, "selected", "ready", "TASK_READY")

Authorize(a) == Note(a, "ready", "authorized", "TASK_AUTHORIZED")

\* submit under the idempotency key of the task: the job that is there, or a new one.
Submit(a) ==
  /\ advancer[a].pc = "authorized"
  /\ LET t == advancer[a].task IN
       IF jobs[t] = "none"
       THEN jobs' = [jobs EXCEPT ![t] = "queued"] /\ runQueue' = Append(runQueue, t)
       ELSE UNCHANGED runtime
  /\ advancer' = [advancer EXCEPT ![a].pc = "submitted"]
  /\ UNCHANGED <<project, writers, died>>

Start(a) == Note(a, "submitted", "started", "TASK_STARTED")

Stop(a) == [advancer EXCEPT ![a].pc = "idle", ![a].task = "none"]

\* run_once takes the oldest job, whoever submitted it; if that is not the job
\* of this task, the loop raises and leaves its own task RUNNING.
RunOnce(a, outcome) ==
  /\ advancer[a].pc = "started"
  /\ IF jobs[advancer[a].task] # "queued"
     THEN advancer' = [advancer EXCEPT ![a].pc = "ran"] /\ UNCHANGED <<runtime, died>>
     ELSE /\ jobs' = [jobs EXCEPT ![Head(runQueue)] = outcome]
          /\ runQueue' = Tail(runQueue)
          /\ IF Head(runQueue) = advancer[a].task
             THEN advancer' = [advancer EXCEPT ![a].pc = "ran"] /\ UNCHANGED died
             ELSE advancer' = Stop(a) /\ died' = TRUE
  /\ UNCHANGED <<project, writers>>

\* The last event of a task ends the round.
Conclude(a, from, type) ==
  /\ advancer[a].pc = from
  /\ AppendEvent(Ev(type, advancer[a].task))
  /\ advancer' = Stop(a)
  /\ UNCHANGED <<writers, runtime, died>>

\* Mutant: the outcome of the job is not looked at.
ReportAnything(a) ==
  \/ Note(a, "ran", "executed", "TASK_EXECUTED")
  \/ Note(a, "executed", "passed", "VERIFICATION_PASSED")
  \/ Conclude(a, "passed", "TASK_COMPLETED")

Report(a) ==
  LET state == IF advancer[a].task = "none" THEN "none" ELSE jobs[advancer[a].task] IN
  \/ state # "dead" /\ Note(a, "ran", "executed", "TASK_EXECUTED")
  \/ state = "dead" /\ Conclude(a, "ran", "TASK_FAILED")
  \/ state = "verified" /\ Note(a, "executed", "passed", "VERIFICATION_PASSED")
  \/ state = "failed_verification" /\ Conclude(a, "executed", "VERIFICATION_FAILED")
  \/ Conclude(a, "passed", "TASK_COMPLETED")

AdvancerDies(a) ==
  /\ advancer[a].pc # "idle"
  /\ advancer' = Stop(a)
  /\ died' = TRUE
  /\ UNCHANGED <<project, writers, runtime>>

AdvanceNext ==
  \/ \E g \in Gateways :
       \/ \E t \in Requests : GatewayChecksSource(g, t)
       \/ GatewayAddsSource(g) \/ GatewayChecksTask(g) \/ GatewayAddsTask(g) \/ GatewayDies(g)
  \/ IngestReads \/ IngestAppends \/ IngestDies
  \/ \E a \in Advancers :
       \/ SelectFirst(a) \/ SelectRanked(a) \/ SelectNone(a)
       \/ AnnounceReady(a) \/ Authorize(a) \/ Submit(a) \/ Start(a)
       \/ \E o \in {"verified", "failed_verification", "dead"} : RunOnce(a, o)
       \/ Report(a) \/ AdvancerDies(a)

AdvanceSpec == AdvanceInit /\ [][AdvanceNext]_advanceVars

-------------------------------------------------------------------------------
\* The log can always be replayed: no process that died or overlapped with
\* another one has appended an event that the reducer refuses, after which no
\* state could be rebuilt by anybody, ever.
LogReplayable == ~project.raised

\* A task an adapter proposed goes to work only in a run that authorizes: if it
\* did, some such run exists.
AuthorityRespected ==
  \A t \in Requests : project.status[t] \in InWork \union Terminal =>
    \E a \in Advancers : advancer[a].authorize

\* What the log calls complete was verified by the runtime, across crashes that
\* leave jobs behind and jobs that another task's round executes.
CompleteIsVerified ==
  \A t \in TaskIds : project.status[t] = "COMPLETE" => jobs[t] = "verified"

\* Unless a round was cut short, every task in work is in the hands of a
\* process: tasks are stranded by deaths only (each death may strand several,
\* since the job it leaves behind makes the next round raise).
StrandedByDeathOnly ==
  ~died => \A t \in TaskIds : project.status[t] \in InWork =>
             \E a \in Advancers : advancer[a].task = t
===============================================================================
