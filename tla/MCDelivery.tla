------------------------------ MODULE MCDelivery ------------------------------
(* Small instances, for TLC, of the work that must end: the supervisor's     *)
(* lease queue, the device's job delivery, the daemon's task table and the   *)
(* sandbox a candidate is evaluated in, with the liveness each promises.     *)
(* They share no state: a behaviour is one of the component in focus, while  *)
(* the others rest in their initial state.                                   *)
EXTENDS LeaseQueue, OutboundDelivery, TermuxDaemon, HardSandbox

VARIABLE focus \* the component whose steps a behaviour takes

deliveryVars == <<focus, queueVars, outboundVars, termuxVars, sandboxVars>>

OwnIds == [s \in Supervisors |-> s]
EqualPriority == [j \in QueueJobs |-> 0]
TwoAttempts == [j \in QueueJobs |-> 2]

Init ==
  /\ focus \in {"lease", "outbound", "daemon", "sandbox"}
  /\ LeaseInit /\ OutboundInit /\ TermuxInit /\ SandboxInit
  /\ focus # "outbound" => device.commit = "c1"

LeaseRuns == focus = "lease" /\ LeaseNext /\ UNCHANGED <<focus, outboundVars, termuxVars, sandboxVars>>
OutboundRuns == focus = "outbound" /\ OutboundNext /\ UNCHANGED <<focus, queueVars, termuxVars, sandboxVars>>
DaemonRuns == focus = "daemon" /\ TermuxNext /\ UNCHANGED <<focus, queueVars, outboundVars, sandboxVars>>
SandboxRuns == focus = "sandbox" /\ SandboxNext /\ UNCHANGED <<focus, queueVars, outboundVars, termuxVars>>

Next == LeaseRuns \/ OutboundRuns \/ DaemonRuns \/ SandboxRuns

\* LeaseFairness, OutboundFairness, TermuxFairness and SandboxFairness, each in
\* the behaviours of its component: the actions of the others are not taken.
Fairness ==
  /\ \A s \in Supervisors : WF_queueVars(focus = "lease" /\ SupervisorStep(s))
  /\ \A j \in QueueJobs : WF_queueVars(focus = "lease" /\ LeaseLapses(j))
  /\ WF_outboundVars(focus = "outbound" /\ WorkerStep)
  /\ \A j \in DeviceJobs : WF_outboundVars(focus = "outbound" /\ JobLapses(j))
  /\ WF_termuxVars(focus = "daemon" /\ DaemonStep)
  /\ \A t \in DaemonTasks :
       /\ WF_termuxVars(focus = "daemon" /\ TaskLeaseLapses(t))
       /\ WF_termuxVars(focus = "daemon" /\ BackoffPasses(t))
  /\ WF_sandboxVars(focus = "sandbox" /\ EvaluatorStep)
  /\ \A c \in Streams : WF_sandboxVars(focus = "sandbox" /\ client = "exited" /\ CloseStream(c))

Spec == Init /\ [][Next]_deliveryVars /\ Fairness

-------------------------------------------------------------------------------
\* In every property the part of a component is asked of its own behaviours: in
\* the others it rests.
In(component, part) == focus = component => part

\* The shapes of the four components' states, and the bounds a well-formed state
\* keeps: who holds a lease, a row in hand, a nonce or a buffer.
DeliveryTypesOK ==
  /\ In("lease", LeaseTypeOK) /\ In("outbound", OutboundTypeOK)
  /\ In("daemon", TermuxTypeOK) /\ In("sandbox", SandboxTypeOK)

\* Leases and attempt counters do what they are for (supervisor.py, claim_next,
\* heartbeat, finish and recover; centinal26_daemon.py, recover and execute_one):
\* no job is tried beyond its budget, the result a job carries is that of the
\* last attempt, and what the table calls verified has passed.
LeaseIsHonoured ==
  /\ In("lease", AttemptsWithinBudget /\ ResultOfLastAttempt)
  /\ In("daemon", HandlerCallsBounded /\ VerifiedTasksPassed)

\* A job of the outbound controller runs at most once on the device and, once
\* its result is accepted, is offered to nobody again, whatever is lost,
\* repeated or interrupted (outbound_worker.py and the spool's server).
DeliveredOnce == In("outbound", ExecutedAtMostOnce /\ AcceptedIsClosed)

\* What the sandbox reports as passed is complete, its buffers stay within the
\* limit, and it leaves no container behind (hard_sandbox.py, _bounded_communicate
\* and evaluate).
SandboxIsContained == In("sandbox", PassedIsComplete /\ OutputWithinLimit /\ NoContainerLeft)

\* Every piece of work ends: submitted jobs are closed, the device's queue
\* drains, the daemon settles every task although it is killed and its leases
\* lapse, and the evaluation of whatever candidate is over one day.
WorkEnds ==
  /\ SubmittedJobsClose
  /\ QueueDrains
  /\ focus = "daemon" => DaemonTasksSettle
  /\ focus = "sandbox" => EvaluationEnds
===============================================================================
