--------------------------- MODULE OutboundDelivery ---------------------------
(***************************************************************************)
(* Jobs for an outbound Android worker: the controller's OutboundQueue     *)
(* (automation/controller/outbound_queue.py) and the device's Worker       *)
(* (automation/device/outbound_worker.py), for one device.                 *)
(*                                                                         *)
(* The worker polls, checks the job, stores its nonce, runs it and posts   *)
(* the result once; a request that times out may still reach the           *)
(* controller.  The nonce store is the worker's only durable state.  Keys  *)
(* and signatures are right here: both sides were given one credential.    *)
(***************************************************************************)
EXTENDS Naturals, Sequences, FiniteSets, SequencesExt

CONSTANTS DeviceJobs,  \* jobs by their nonce, a number (nonces are compared as strings)
          Commits,     \* source commits a device may be built from
          NonceCap     \* how many nonces the worker keeps (4096)

ASSUME OutboundAssumption == DeviceJobs \subseteq Nat /\ NonceCap \in Nat \ {0}

VARIABLES registered,  \* source_commit of the registration, or "none"
          outbox,      \* state.jobs[device]
          made,        \* the commit each job expects, "none" before enqueue
          pastTtl,     \* jobs whose expires_at has passed
          accepted,    \* state.results
          device,      \* the worker process
          nonces,      \* seen_nonces.json
          transit,     \* results sent and not yet handled by the controller
          executions   \* how often the device ran each job

outboundVars == <<registered, outbox, made, pastTtl, accepted, device, nonces, transit, executions>>
controllerState == <<registered, outbox, made, accepted>>

OutboundTypeOK ==
  /\ registered \in Commits \union {"none"}
  /\ outbox \in Seq(DeviceJobs)
  /\ made \in [DeviceJobs -> Commits \union {"none"}]
  /\ pastTtl \subseteq DeviceJobs
  /\ accepted \subseteq DeviceJobs
  /\ device \in [commit : Commits, pc : {"idle", "fetched", "remembered", "ran", "posted"},
                 job : DeviceJobs \union {0}]
  /\ nonces \subseteq DeviceJobs /\ Cardinality(nonces) <= NonceCap
  /\ transit \subseteq DeviceJobs
  /\ executions \in [DeviceJobs -> Nat]

OutboundInit ==
  /\ registered = "none" /\ outbox = <<>>
  /\ made = [j \in DeviceJobs |-> "none"]
  /\ pastTtl = {} /\ accepted = {} /\ nonces = {} /\ transit = {}
  /\ device \in [commit : Commits, pc : {"idle"}, job : {0}]
  /\ executions = [j \in DeviceJobs |-> 0]

-------------------------------------------------------------------------------
(* The controller.                                                         *)

\* A device is registered again only with the same identity.
RegisterDevice(c) ==
  /\ registered = "none"
  /\ registered' = c
  /\ UNCHANGED <<outbox, made, pastTtl, accepted, device, nonces, transit, executions>>

Enqueue(j) ==
  /\ registered # "none" /\ made[j] = "none"
  /\ outbox' = Append(outbox, j)
  /\ made' = [made EXCEPT ![j] = registered]
  /\ UNCHANGED <<registered, pastTtl, accepted, device, nonces, transit, executions>>

\* Mutant: an expired job at the head is skipped but stays.
KeepLapsedHead == outbox

\* next_job drops the expired jobs in front of the first one it can offer.
DropLapsedHead ==
  IF \E i \in DOMAIN outbox : outbox[i] \notin pastTtl
  THEN SubSeq(outbox, SelectInSeq(outbox, LAMBDA j : j \notin pastTtl), Len(outbox))
  ELSE <<>>

\* Mutant: the job stays in the list when its result is accepted.
AcceptWithoutRemoval(j) ==
  /\ j \in transit
  /\ transit' = transit \ {j}
  /\ IF Contains(outbox, j) /\ registered = made[j]
     THEN outbox' = outbox /\ accepted' = accepted \union {j}
     ELSE UNCHANGED <<outbox, accepted>>
  /\ UNCHANGED <<registered, made, pastTtl, device, nonces, executions>>

\* accept_result: refused for a task that is not outstanding, expired or not.
\* A job is in the list once: dropping all with its task_id is dropping the first.
AcceptResult(j) ==
  /\ j \in transit
  /\ transit' = transit \ {j}
  /\ IF Contains(outbox, j) /\ registered = made[j]
     THEN /\ outbox' = RemoveFirst(outbox, j)
          /\ accepted' = accepted \union {j}
     ELSE UNCHANGED <<outbox, accepted>>
  /\ UNCHANGED <<registered, made, pastTtl, device, nonces, executions>>

-------------------------------------------------------------------------------
(* The device.                                                             *)

Idle(d) == [d EXCEPT !.pc = "idle", !.job = 0]

\* poll_once asks; the answer may be lost, or name no job.
Poll(arrives) ==
  /\ device.pc = "idle" /\ registered # "none"
  /\ outbox' = DropLapsedHead
  /\ device' = IF arrives /\ outbox' # <<>>
               THEN [device EXCEPT !.pc = "fetched", !.job = Head(outbox')] ELSE device
  /\ UNCHANGED <<registered, made, pastTtl, accepted, nonces, transit, executions>>

\* validate_job, for a job the controller signed for this device.
ValidJob(j) == made[j] = device.commit /\ j \notin nonces /\ j \notin pastTtl

\* A refusal is posted without device id and signature: the controller answers
\* with an error, and the job stays where it is.
RejectJob ==
  /\ device.pc = "fetched" /\ ~ValidJob(device.job)
  /\ device' = Idle(device)
  /\ UNCHANGED <<controllerState, pastTtl, nonces, transit, executions>>

\* sorted(seen)[-4096:]: the greatest nonces stay, not the latest.
Greatest(s) == {n \in s : Cardinality({m \in s : m > n}) < NonceCap}

\* Mutant: the nonce is stored once the job has run.
RememberLater ==
  /\ device.pc = "fetched" /\ ValidJob(device.job)
  /\ device' = [device EXCEPT !.pc = "remembered"]
  /\ UNCHANGED <<controllerState, pastTtl, nonces, transit, executions>>

RememberNonce ==
  /\ device.pc = "fetched" /\ ValidJob(device.job)
  /\ nonces' = Greatest(nonces \union {device.job})
  /\ device' = [device EXCEPT !.pc = "remembered"]
  /\ UNCHANGED <<controllerState, pastTtl, transit, executions>>

\* The capability runs and the journal records the signed result.
ExecuteJob ==
  /\ device.pc = "remembered"
  /\ executions' = [executions EXCEPT ![device.job] = @ + 1]
  /\ device' = [device EXCEPT !.pc = "ran"]
  /\ UNCHANGED <<controllerState, pastTtl, nonces, transit>>

PostResult ==
  /\ device.pc = "ran"
  /\ transit' = transit \union {device.job}
  /\ device' = [device EXCEPT !.pc = "posted"]
  /\ UNCHANGED <<controllerState, pastTtl, nonces, executions>>

\* The answer arrives, or 30 seconds pass: run_forever polls again either way.
PostEnds ==
  /\ device.pc = "posted"
  /\ device' = Idle(device)
  /\ UNCHANGED <<controllerState, pastTtl, nonces, transit, executions>>

PostLost(j) ==
  /\ j \in transit
  /\ transit' = transit \ {j}
  /\ UNCHANGED <<controllerState, pastTtl, device, nonces, executions>>

\* The process is killed and started again, perhaps from another commit.
WorkerRestarts(c) ==
  /\ device.pc # "idle"
  /\ device' = [commit |-> c, pc |-> "idle", job |-> 0]
  /\ UNCHANGED <<controllerState, pastTtl, nonces, transit, executions>>

JobLapses(j) ==
  /\ made[j] # "none" /\ j \notin pastTtl
  /\ pastTtl' = pastTtl \union {j}
  /\ UNCHANGED <<controllerState, device, nonces, transit, executions>>

WorkerStep ==
  \/ \E arrives \in BOOLEAN : Poll(arrives)
  \/ RejectJob \/ RememberNonce \/ ExecuteJob \/ PostResult \/ PostEnds

OutboundNext ==
  \/ \E c \in Commits : RegisterDevice(c) \/ WorkerRestarts(c)
  \/ \E j \in DeviceJobs : Enqueue(j) \/ AcceptResult(j) \/ PostLost(j) \/ JobLapses(j)
  \/ WorkerStep

\* The worker loops for ever, and time passes.
OutboundFairness ==
  WF_outboundVars(WorkerStep) /\ \A j \in DeviceJobs : WF_outboundVars(JobLapses(j))

OutboundSpec == OutboundInit /\ [][OutboundNext]_outboundVars

-------------------------------------------------------------------------------
\* The device runs a job at most once, although a job whose result was lost is
\* offered again and the process may die at any line: the nonce is on disk
\* before the capability runs.
ExecutedAtMostOnce == \A j \in DeviceJobs : executions[j] <= 1

\* A job whose result was accepted was run, and is offered to nobody again,
\* whenever and how often its result arrives.
AcceptedIsClosed ==
  \A j \in accepted : executions[j] > 0 /\ ~Contains(outbox, j)

\* No job stays in the queue for ever: one whose result was lost blocks those
\* behind it, but only until it expires.
QueueDrains == \A j \in DeviceJobs : Contains(outbox, j) ~> ~Contains(outbox, j)
===============================================================================
