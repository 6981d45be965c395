----------------------------- MODULE EvidenceGate -----------------------------
(* The receipts of automation/device/evidence_gate_collector.py: commission, *)
(* worker-once, arm-reboot, post-reboot and the encrypted off-device round   *)
(* trip, each a command that may be started again, cut off by a reboot, or   *)
(* run beside another one; and what the status command makes of them.        *)
(*                                                                           *)
(* A boot identity is a number that every reboot increases; an enrollment is *)
(* the digest of one commissioning.                                          *)
EXTENDS Naturals, Sequences, FiniteSets

CONSTANTS MaxBoots,        \* bound on boot identities
          MaxEnrollments,  \* bound on commissionings
          MaxSourceEdits   \* bound on the edits of the file that is backed up

ASSUME EvidenceGateAssumption == {MaxBoots, MaxEnrollments, MaxSourceEdits} \subseteq Nat

VARIABLES boot,        \* the device's boot identity
          commissioned, \* current_commissioning.json: the enrollment, 0 if there is no file
          workReceipt, \* worker_once_receipt.json: was bounded work observed
          armed,       \* pre_reboot.json
          returned,    \* post_reboot_receipt.json
          post,        \* a running post-reboot command
          passedIn,    \* boots in which a bounded job really passed
          original,    \* version of the source file of the round trip
          trip         \* a round trip and the receipt of the last one

gateVars == <<boot, commissioned, workReceipt, armed, returned, post, passedIn, original, trip>>
rebootVars == <<boot, commissioned, workReceipt, armed, returned, post, passedIn>>

NotArmed == [boot |-> 0, enrollment |-> 0, config |-> FALSE]
NotReturned == [before |-> 0, after |-> 0, worked |-> FALSE]
NoTrip == [pc |-> "idle", cipher |-> 0, hash |-> 0, back |-> 0, receipt |-> [source |-> 0, recovered |-> 0]]

EvidenceGateTypeOK ==
  /\ boot \in 1..MaxBoots /\ commissioned \in 0..MaxEnrollments
  /\ workReceipt \in {"none", "PASS", "other"}
  /\ armed \in [boot : 0..MaxBoots, enrollment : 0..MaxEnrollments, config : BOOLEAN]
  /\ returned \in [before : 0..MaxBoots, after : 0..MaxBoots, worked : BOOLEAN]
  /\ post \in [pc : {"idle", "heartbeat", "write"}, pre : [boot : 0..MaxBoots,
       enrollment : 0..MaxEnrollments, config : BOOLEAN], worked : BOOLEAN]
  /\ passedIn \subseteq 1..MaxBoots
  /\ original \in 1..(MaxSourceEdits + 1)
  /\ trip.pc \in {"idle", "encrypted", "hashed", "uploaded", "fetched"}

EvidenceGateInit ==
  /\ boot = 1 /\ commissioned = 0 /\ workReceipt = "none"
  /\ armed = NotArmed /\ returned = NotReturned
  /\ post = [pc |-> "idle", pre |-> NotArmed, worked |-> FALSE]
  /\ passedIn = {} /\ original = 1 /\ trip = NoTrip

-------------------------------------------------------------------------------
\* commission: checkout, capture, heartbeat, package, verifier; a receipt only
\* if the verifier calls the package eligible.
Commission ==
  /\ commissioned < MaxEnrollments
  /\ commissioned' = commissioned + 1
  /\ UNCHANGED <<boot, workReceipt, armed, returned, post, passedIn, original, trip>>

\* worker-once: one poll of the outbound worker, whose output is "PASS" if a job
\* was executed and posted, and something else if there was none.
WorkerOnce(passes) ==
  /\ workReceipt' = IF passes THEN "PASS" ELSE "other"
  /\ passedIn' = IF passes THEN passedIn \union {boot} ELSE passedIn

RunWorker(passes) ==
  /\ commissioned # 0 /\ WorkerOnce(passes)
  /\ UNCHANGED <<boot, commissioned, armed, returned, post, original, trip>>

ArmReboot(config) ==
  /\ commissioned # 0
  /\ armed' = [boot |-> boot, enrollment |-> commissioned, config |-> config]
  /\ UNCHANGED <<boot, commissioned, workReceipt, returned, post, passedIn, original, trip>>

\* The owner reboots the device; commands that run are cut off.
DeviceReboots ==
  /\ boot < MaxBoots
  /\ boot' = boot + 1
  /\ post' = [post EXCEPT !.pc = "idle"]
  /\ trip' = [trip EXCEPT !.pc = "idle"]
  /\ UNCHANGED <<commissioned, workReceipt, armed, returned, passedIn, original>>

RebootEvaluation(pre) == pre.boot # 0 /\ pre.boot # boot

\* post-reboot, from the boot hook or by hand.
PostReboot ==
  /\ post.pc = "idle" /\ armed # NotArmed /\ RebootEvaluation(armed)
  /\ post' = [pc |-> "heartbeat", pre |-> armed, worked |-> FALSE]
  /\ UNCHANGED <<boot, commissioned, workReceipt, armed, returned, passedIn, original, trip>>

\* The heartbeat is verified; the worker runs if a configuration was armed, and
\* its failure is only noted.
PostHeartbeat ==
  /\ post.pc = "heartbeat"
  /\ \/ /\ post.pre.config
        /\ \E passes \in BOOLEAN : WorkerOnce(passes) /\ post' = [post EXCEPT !.pc = "write", !.worked = passes]
     \/ post' = [post EXCEPT !.pc = "write"] /\ UNCHANGED <<workReceipt, passedIn>>
     \/ post' = [post EXCEPT !.pc = "idle"] /\ UNCHANGED <<workReceipt, passedIn>>
  /\ UNCHANGED <<boot, commissioned, armed, returned, original, trip>>

PostReceipt ==
  /\ post.pc = "write"
  /\ returned' = [before |-> post.pre.boot, after |-> boot, worked |-> post.worked]
  /\ post' = [post EXCEPT !.pc = "idle"]
  /\ UNCHANGED <<boot, commissioned, workReceipt, armed, passedIn, original, trip>>

\* Mutant: any receipt of a passed job is enough, also of the boot before.
EligibleOnReceipts ==
  commissioned # 0 /\ workReceipt = "PASS" /\ returned.before # returned.after

\* synthesize_status.
PersistentEligible ==
  /\ commissioned # 0 /\ workReceipt = "PASS"
  /\ returned.before # returned.after /\ returned.worked

RebootNext ==
  \/ Commission \/ DeviceReboots \/ PostReboot \/ PostHeartbeat \/ PostReceipt
  \/ \E b \in BOOLEAN : RunWorker(b) \/ ArmReboot(b)

-------------------------------------------------------------------------------
(* The round trip: encrypt, hash, upload, fetch, decrypt, compare.         *)

SourceEdited ==
  /\ original <= MaxSourceEdits
  /\ original' = original + 1
  /\ UNCHANGED <<rebootVars, trip>>

\* age reads the file first and it is hashed afterwards.
Encrypt ==
  /\ trip.pc = "idle"
  /\ trip' = [trip EXCEPT !.pc = "encrypted", !.cipher = original]
  /\ UNCHANGED <<rebootVars, original>>

HashSource ==
  /\ trip.pc = "encrypted"
  /\ trip' = [trip EXCEPT !.pc = "hashed", !.hash = original]
  /\ UNCHANGED <<rebootVars, original>>

\* rclone stores the object; the provider may give back another one (0).
UploadAndFetch(back) ==
  /\ trip.pc = "hashed"
  /\ trip' = IF back = trip.cipher THEN [trip EXCEPT !.pc = "fetched", !.back = back]
             ELSE [trip EXCEPT !.pc = "idle"]
  /\ UNCHANGED <<rebootVars, original>>

\* Mutant: the ciphertext that came back is proof enough.
ReceiptOnCiphertext ==
  /\ trip.pc = "fetched"
  /\ trip' = [trip EXCEPT !.pc = "idle", !.receipt = [source |-> trip.hash, recovered |-> trip.back]]
  /\ UNCHANGED <<rebootVars, original>>

DecryptAndCompare ==
  /\ trip.pc = "fetched"
  /\ trip' = [trip EXCEPT !.pc = "idle",
       !.receipt = IF trip.back = trip.hash THEN [source |-> trip.hash, recovered |-> trip.back] ELSE @]
  /\ UNCHANGED <<rebootVars, original>>

TripNext ==
  SourceEdited \/ Encrypt \/ HashSource \/ DecryptAndCompare
    \/ \E back \in 0..(MaxSourceEdits + 1) : UploadAndFetch(back)

EvidenceGateNext == RebootNext \/ TripNext

-------------------------------------------------------------------------------
\* A device is called eligible for persistent validation only if a bounded job
\* passed in a later boot than the one in which the gate was armed, whatever
\* commands were repeated, cut off by a reboot or run beside each other.
EligibleAfterReboot ==
  PersistentEligible =>
    /\ \E b \in passedIn : b > returned.before
    /\ returned.after \in passedIn

\* A receipt of a round trip names one content: what was hashed as the source is
\* what came back, also if the file was edited meanwhile.
ReceiptNamesOneContent == trip.receipt.source = trip.receipt.recovered

-------------------------------------------------------------------------------
(* The controller evidence of a device campaign:                             *)
(* automation/controller/base44_evidence_export.mjs collects the records of  *)
(* a job in one query after the other while the campaign goes on, and        *)
(* judges from the bundle whether the device is validated.                   *)
(*                                                                           *)
(* The campaign itself - worker, controller, judge and the reboot of the     *)
(* device - is modelled from the records the collector reads.                *)

CONSTANTS MaxAge,       \* --max-age-seconds, in ticks
          MaxCampaign,  \* bound on the clock
          MaxAttempts,  \* bound on executions of the job
          MaxReboots    \* bound on reboots of the device

ASSUME CampaignAssumption == {MaxAge, MaxCampaign, MaxAttempts, MaxReboots} \subseteq Nat

EvidencePhases == {"phase-a", "phase-b"}
NoJob == [status |-> "none", bound |-> FALSE]

VARIABLES clock,      \* now
          lastSeen,   \* AutomationWorker.last_seen
          deviceBoot,       \* boot of the device
          job,        \* AutomationJob: status, and whether it names this worker
          leases,     \* whether the worker holds an AutomationLease of the job
          audits,     \* event types of the job's chain
          chainWhole, \* the chain links each event to the one before it
          outcomes,   \* AutomationResult: success and boot of each
          reboots,    \* AutomationRebootEvidence: <<pre, post>>
          judged,    \* the judge's last verdict on the contract
          doing,      \* what the worker is at
          collector,  \* the export: the query it is at and what it has read
          judgment    \* the last evaluation

campaignVars == <<clock, lastSeen, deviceBoot, job, leases, audits, chainWhole, outcomes, reboots, judged, doing>>
evidenceVars == <<campaignVars, collector, judgment>>

EvidenceQueries == <<"workers", "jobs", "leases", "audits", "results", "reboots", "verdicts">>
NoResult == [success |-> FALSE, deviceBoot |-> 0]
NoBundle == [workers |-> 0, jobs |-> NoJob, leases |-> FALSE, audits |-> {}, whole |-> FALSE, newest |-> NoResult,
             reboots |-> {}, verdicts |-> "none", at |-> 0]
NotJudgedYet == [a |-> FALSE, b |-> FALSE]

CampaignTypeOK ==
  /\ clock \in 0..MaxCampaign /\ lastSeen \in 0..clock /\ deviceBoot \in 0..MaxReboots
  /\ job \in [status : {"none", "queued", "claimed", "completed", "failed"}, bound : BOOLEAN]
  /\ leases \in BOOLEAN /\ chainWhole \in BOOLEAN
  /\ audits \subseteq {"claimed", "completed", "failed"}
  /\ \A i \in DOMAIN outcomes : outcomes[i] \in [success : BOOLEAN, deviceBoot : 0..MaxReboots]
  /\ judged \in {"none", "VERIFIED", "VERIFICATION_FAILED"}
  /\ doing \in [at : {"idle", "running", "audit", "status"}, success : BOOLEAN]
  /\ collector.query \in 0..(Len(EvidenceQueries) + 1)

CampaignInit ==
  /\ clock = 0 /\ lastSeen = 0 /\ deviceBoot = 0 /\ job = [NoJob EXCEPT !.status = "queued"]
  /\ leases = FALSE /\ audits = {} /\ chainWhole = TRUE /\ outcomes = <<>> /\ reboots = {} /\ judged = "none"
  /\ doing = [at |-> "idle", success |-> FALSE]
  /\ collector = [query |-> 0, bundle |-> NoBundle] /\ judgment = NotJudgedYet

-------------------------------------------------------------------------------
(* The campaign.                                                           *)

ClaimJob ==
  /\ doing.at = "idle" /\ job.status \in {"queued", "failed"} /\ Len(outcomes) < MaxAttempts
  /\ job' = [status |-> "claimed", bound |-> TRUE] /\ leases' = TRUE
  /\ audits' = audits \union {"claimed"} /\ doing' = [doing EXCEPT !.at = "running"]
  /\ lastSeen' = clock
  /\ UNCHANGED <<clock, deviceBoot, chainWhole, outcomes, reboots, judged, collector, judgment>>

\* The result, the event and the status are three calls.
ReportResult(success) ==
  /\ doing.at = "running"
  /\ outcomes' = Append(outcomes, [success |-> success, deviceBoot |-> deviceBoot])
  /\ doing' = [at |-> "audit", success |-> success] /\ lastSeen' = clock
  /\ UNCHANGED <<clock, deviceBoot, job, leases, audits, chainWhole, reboots, judged, collector, judgment>>

RecordEvent(linked) ==
  /\ doing.at = "audit"
  /\ audits' = audits \union {IF doing.success THEN "completed" ELSE "failed"}
  /\ chainWhole' = (chainWhole /\ linked)
  /\ doing' = [doing EXCEPT !.at = "status"]
  /\ UNCHANGED <<clock, lastSeen, deviceBoot, job, leases, outcomes, reboots, judged, collector, judgment>>

SetStatus ==
  /\ doing.at = "status"
  /\ job' = [job EXCEPT !.status = IF doing.success THEN "completed" ELSE "failed"]
  /\ doing' = [doing EXCEPT !.at = "idle"]
  /\ UNCHANGED <<clock, lastSeen, deviceBoot, leases, audits, chainWhole, outcomes, reboots, judged,
                 collector, judgment>>

JudgeContract(v) ==
  /\ outcomes # <<>> /\ judged = "none" /\ judged' = v
  /\ UNCHANGED <<clock, lastSeen, deviceBoot, job, leases, audits, chainWhole, outcomes, reboots, doing, collector,
                 judgment>>

\* The owner restarts the device, and the owner's worker proves it later; what
\* was completed before may be queued again.
RebootDevice ==
  /\ deviceBoot < MaxReboots /\ doing.at = "idle"
  /\ deviceBoot' = deviceBoot + 1 /\ reboots' = reboots \union {<<deviceBoot, deviceBoot + 1>>}
  /\ job' = [job EXCEPT !.status = IF @ = "completed" THEN "queued" ELSE @]
  /\ UNCHANGED <<clock, lastSeen, leases, audits, chainWhole, outcomes, judged, doing, collector, judgment>>

CampaignTick ==
  /\ clock < MaxCampaign /\ clock' = clock + 1
  /\ UNCHANGED <<lastSeen, deviceBoot, job, leases, audits, chainWhole, outcomes, reboots, judged, doing, collector,
                 judgment>>

-------------------------------------------------------------------------------
(* collect: one query after the other.                                     *)

StartExport ==
  /\ collector.query = 0
  /\ collector' = [query |-> 1, bundle |-> NoBundle]
  /\ UNCHANGED <<campaignVars, judgment>>

QueryAnswer(query) ==
  LET b == collector.bundle IN
  CASE query = "workers"  -> [b EXCEPT !.workers = lastSeen]
    [] query = "jobs"     -> [b EXCEPT !.jobs = job]
    [] query = "leases"   -> [b EXCEPT !.leases = leases]
    [] query = "audits"   -> [b EXCEPT !.audits = audits, !.whole = chainWhole]
    [] query = "results"  -> [b EXCEPT !.newest = IF outcomes = <<>> THEN NoResult ELSE outcomes[Len(outcomes)]]
    [] query = "reboots"  -> [b EXCEPT !.reboots = reboots]
    [] query = "verdicts" -> [b EXCEPT !.verdicts = judged]

\* The bundle is finished and signed with its own hash after the last answer.
Collect ==
  LET q == collector.query IN
  /\ q \in DOMAIN EvidenceQueries
  /\ collector' = [query |-> q + 1, bundle |-> [QueryAnswer(EvidenceQueries[q]) EXCEPT !.at = clock]]
  /\ UNCHANGED <<campaignVars, judgment>>

-------------------------------------------------------------------------------
(* evaluateEvidence.                                                       *)

\* validAuditChain
ValidAuditChain(b) == b.whole /\ {"claimed", "completed"} \subseteq b.audits

WorkerFresh(b) == b.at - b.workers <= MaxAge

PhaseA(b) ==
  /\ WorkerFresh(b)
  /\ b.jobs.bound /\ b.jobs.status = "completed"
  /\ b.leases /\ ValidAuditChain(b) /\ b.newest.success
  /\ b.verdicts = "VERIFIED"

\* Reboots that were proved differ in their boots, and come newest first.
NewestReboot(b) ==
  CHOOSE r \in b.reboots : r[1] # r[2] /\ \A s \in b.reboots : s[2] <= r[2]

\* Mutant: a reboot that was proved is enough.
PhaseBUnbound(b, phase) == PhaseA(b) /\ b.reboots # {}

PhaseB(b, phase) ==
  /\ PhaseA(b) /\ phase = "phase-b"
  /\ b.reboots # {} /\ b.newest.deviceBoot = NewestReboot(b)[2]

Judgment(phase) ==
  LET b == collector.bundle IN
  /\ collector.query = Len(EvidenceQueries) + 1
  /\ judgment' = [a |-> PhaseA(b), b |-> PhaseB(b, phase)]
  /\ collector' = [collector EXCEPT !.query = 0]
  /\ UNCHANGED campaignVars

EvidenceNext ==
  \/ ClaimJob \/ SetStatus \/ RebootDevice \/ CampaignTick \/ StartExport \/ Collect
  \/ \E s \in BOOLEAN : ReportResult(s) \/ RecordEvent(s)
  \/ \E v \in {"VERIFIED", "VERIFICATION_FAILED"} : JudgeContract(v)
  \/ \E p \in EvidencePhases : Judgment(p)

-------------------------------------------------------------------------------
\* A bundle whose queries straddle an execution, a retry or the reboot never
\* makes a device persistent that did not complete the job after a reboot, or
\* whose chain lacks the event of a completion.
PersistentAfterReboot ==
  judgment.b => /\ "completed" \in audits
                /\ \E i \in DOMAIN outcomes :
                     /\ outcomes[i].success
                     /\ \E r \in reboots : r[2] = outcomes[i].deviceBoot
===============================================================================
