--------------------------- MODULE CallableWorker ---------------------------
(***************************************************************************)
(* The callable worker on GitHub Actions: request files are pushed to the  *)
(* branch callable-runtime; a serialized workflow run plans the work       *)
(* (queue-plan.js), answers every planned request with an immutable result *)
(* envelope (worker.js), has it checked by a verifier that shares no code  *)
(* with the worker (verifier.js), and publishes both with one commit.  The *)
(* shell of the run has "set -e": the first command that fails ends the    *)
(* run, and what it had not committed is gone.                             *)
(*                                                                         *)
(* A request is abstracted to what the two programs tell apart.            *)
(***************************************************************************)
EXTENDS Integers, Sequences, FiniteSets, FiniteSetsExt

CONSTANTS CallFiles,    \* request file names, as numbers in name order
          CallRequests, \* the request contents
          CallOf,       \* what a content says: see CallShape
          MaxBatch,     \* FROST_CALLABLE_MAX_BATCH
          MaxPushes,    \* bound: pushes of request files
          MaxRunFaults  \* bound: runs that die or cannot push their commit

CallShape == [shape: {"object", "malformed", "bad key"}, key: STRING,
              supported: BOOLEAN,  \* protocol and kind are known
              allowed: BOOLEAN,    \* providerEffectDecision(...).allowed
              expiry: {"none", "invalid", "instant"}]

ASSUME CallAssumption ==
    /\ CallFiles \subseteq Nat /\ IsFiniteSet(CallFiles)
    /\ CallOf \in [CallRequests -> CallShape]
    /\ \A c \in CallRequests : CallOf[c].shape = "object" => CallOf[c].key # "null"
    /\ MaxBatch \in Nat \ {0}

VARIABLES callReq,     \* request files of the branch
          callResult,  \* result envelopes of the branch
          callChecked, \* the files with a verification on the branch
          callPushed,  \* files of the last push whose run has not started
          callRun,     \* the run: its checkout, plan and uncommitted files
          callLate,    \* the instant in the requests' expires_at has passed
          callCount    \* pushes and run faults so far

callVars == <<callReq, callResult, callChecked, callPushed, callRun, callLate, callCount>>

NoEnvelope == [sha |-> "none", key |-> "none", ok |-> FALSE, error |-> "none",
               expiry |-> "none", allowed |-> "none", from |-> 0]

Idle == [todo |-> <<>>, again |-> <<>>, result |-> [f \in {} |-> NoEnvelope], checked |-> {},
         live |-> FALSE, req |-> [f \in {} |-> "none"]]

CallInit ==
    /\ callReq = [f \in CallFiles |-> "none"]
    /\ callResult = [f \in CallFiles |-> NoEnvelope]
    /\ callChecked = {} /\ callPushed = {} /\ callRun = Idle
    /\ callLate = FALSE
    /\ callCount = [pushes |-> 0, faults |-> 0]

\* Names in the order sort() gives them.
Sorted(S) == [i \in 1 .. Cardinality(S) |-> CHOOSE f \in S : Cardinality({g \in S : g < f}) = i - 1]

(***************************************************************************)
(* Planning.                                                               *)
(***************************************************************************)

(* classifyCandidates: a request with a result is verified if that is      *)
(* missing, verified again if a push changed it, and complete otherwise;   *)
(* at most MaxBatch of the others are executed.                            *)
ClassifyCandidates(candidates, push) ==
    LET present == {f \in candidates : callReq[f] # "none"}
        has     == {f \in present : callResult[f] # NoEnvelope}
        fresh   == Sorted(present \ has)
    IN [todo  |-> SubSeq(fresh, 1, IF Len(fresh) < MaxBatch THEN Len(fresh) ELSE MaxBatch)
                     \o Sorted(has \ callChecked),
        again |-> IF push THEN Sorted(has \cap callChecked) ELSE <<>>]

(* buildPlan at the start of a run: a push looks at the files it changed,  *)
(* a sweep or a dispatch at every request.                                 *)
BuildPlan(push) ==
    /\ ~callRun.live
    /\ push => callPushed # {}
    /\ LET plan == ClassifyCandidates(IF push THEN callPushed ELSE CallFiles, push) IN
       /\ push \/ plan.todo # <<>>  \* a sweep with nothing to do changes nothing
       /\ callRun' = [Idle EXCEPT !.live = TRUE, !.req = callReq,
                                  !.todo = plan.todo, !.again = plan.again]
    /\ callPushed' = IF push THEN {} ELSE callPushed
    /\ UNCHANGED <<callReq, callResult, callChecked, callLate, callCount>>

(***************************************************************************)
(* The worker's answer to one request.                                     *)
(***************************************************************************)

(* requestIdentity: null for bytes that do not parse or a key that is not  *)
(* a usable string.                                                        *)
RequestKey(c) == IF CallOf[c].shape = "object" THEN CallOf[c].key ELSE "null"

(* providerEffectDecision, as errorEnvelope and processRequest record it:  *)
(* not recorded when the bytes did not parse.                              *)
EffectPolicy(c) ==
    CASE CallOf[c].shape = "malformed" -> "none"
      [] OTHER -> IF CallOf[c].allowed THEN "yes" ELSE "no"

\* Mutant: only the committed results of other names are searched.
PriorCommitted(c, f, dir) ==
    LET same == {g \in CallFiles \ {f} : callResult[g].key = RequestKey(c)}
    IN IF RequestKey(c) = "null" \/ same = {} THEN NoEnvelope ELSE callResult[Min(same)]

(* priorResult: the first envelope, in file name order, with the key. The  *)
(* results directory holds the committed files and the run's own.          *)
PriorResult(c, f, dir) ==
    LET same == {g \in DOMAIN dir \ {f} : dir[g].key = RequestKey(c)}
    IN IF RequestKey(c) = "null" \/ same = {} THEN NoEnvelope ELSE dir[Min(same)]

(* requestExpiry: the metadata of the envelope, and the error it raises.   *)
RequestExpiry(c) ==
    CASE CallOf[c].expiry = "none"    -> [status |-> "none", error |-> "none"]
      [] CallOf[c].expiry = "invalid" -> [status |-> "INVALID", error |-> "InvalidExpiry"]
      [] OTHER -> IF callLate THEN [status |-> "EXPIRED", error |-> "StaleRequest"]
                              ELSE [status |-> "FRESH", error |-> "none"]

(* processRequest: the envelope of an answered request.                    *)
ProcessRequest(c, f) ==
    [sha |-> c, key |-> RequestKey(c), ok |-> TRUE, error |-> "none",
     expiry |-> RequestExpiry(c).status, allowed |-> EffectPolicy(c), from |-> f]

(* errorEnvelope: never a response; the expiry is there when it was read.  *)
ErrorEnvelope(c, f, error, expiry) ==
    [sha |-> c, key |-> RequestKey(c), ok |-> FALSE, error |-> error,
     expiry |-> expiry, allowed |-> EffectPolicy(c), from |-> f]

(* processFile: reuse the result of the same content under the same key,   *)
(* report a key used with other content, and otherwise check expiry, then  *)
(* the effect policy, then the request itself.                             *)
ProcessFile(f, dir) ==
    LET c == callRun.req[f]
        prior == PriorResult(c, f, dir)
        expiry == RequestExpiry(c)
    IN CASE CallOf[c].shape # "object" -> ErrorEnvelope(c, f, "Error", "none")
         [] prior # NoEnvelope /\ prior.sha = c -> prior
         [] prior # NoEnvelope /\ prior.sha # c -> ErrorEnvelope(c, f, "IdempotencyConflict", "none")
         [] expiry.error # "none" -> ErrorEnvelope(c, f, expiry.error, expiry.status)
         [] ~CallOf[c].allowed -> ErrorEnvelope(c, f, "SideEffectProtocolRequired", expiry.status)
         [] ~CallOf[c].supported -> ErrorEnvelope(c, f, "Error", expiry.status)
         [] OTHER -> ProcessRequest(c, f)

(***************************************************************************)
(* The verifier.                                                           *)
(***************************************************************************)

(* verifyRequestExpiry.                                                    *)
ExpiryVerified(c, r) ==
    CASE CallOf[c].expiry = "none"    -> r.expiry = "none"
      [] CallOf[c].expiry = "invalid" -> r.error = "InvalidExpiry" /\ r.expiry = "INVALID"
      [] OTHER -> r.expiry = IF r.error = "StaleRequest" THEN "EXPIRED" ELSE "FRESH"

(* verifyProviderEffectPolicy: a blocked request must carry the error of   *)
(* the block.                                                              *)
PolicyVerified(c, r) ==
    /\ r.allowed = EffectPolicy(c) /\ r.allowed # "none"
    /\ r.allowed = "no" => ~r.ok /\ r.error = "SideEffectProtocolRequired"

(* verifyPaths accepts an envelope r for the request c.  Identity: a key   *)
(* is required of every envelope with a source attestation, and the        *)
(* worker attests all of them.                                             *)
VerifyPaths(c, r) ==
    /\ CallOf[c].shape = "object"
    /\ r.sha = c /\ r.key = RequestKey(c)
    /\ ExpiryVerified(c, r)
    /\ PolicyVerified(c, r)

(***************************************************************************)
(* The run.                                                                *)
(***************************************************************************)

Directory == [f \in {g \in CallFiles : callResult[g] # NoEnvelope} \cup DOMAIN callRun.result |->
                 IF f \in DOMAIN callRun.result THEN callRun.result[f] ELSE callResult[f]]

\* Mutant: a rejected envelope is kept and the run goes on.
RunItemUnchecked ==
    /\ callRun.live /\ callRun.todo # <<>>
    /\ LET f == Head(callRun.todo)
           r == IF f \in DOMAIN Directory THEN Directory[f] ELSE ProcessFile(f, Directory)
       IN callRun' = [callRun EXCEPT !.todo = Tail(@),
                        !.result = [g \in DOMAIN @ \cup {f} |-> IF g = f THEN r ELSE @[g]],
                        !.checked = IF VerifyPaths(callRun.req[f], r) THEN @ \cup {f} ELSE @]
    /\ UNCHANGED <<callReq, callResult, callChecked, callPushed, callLate, callCount>>

(* The head of the plan: answered if it has no result, then verified.  A   *)
(* rejected envelope fails the run, which drops its files.                 *)
RunItem ==
    /\ callRun.live /\ callRun.todo # <<>>
    /\ LET f == Head(callRun.todo)
           r == IF f \in DOMAIN Directory THEN Directory[f] ELSE ProcessFile(f, Directory)
       IN callRun' = IF VerifyPaths(callRun.req[f], r)
                     THEN [callRun EXCEPT !.todo = Tail(@),
                              !.result = [g \in DOMAIN @ \cup {f} |-> IF g = f THEN r ELSE @[g]],
                              !.checked = @ \cup {f}]
                     ELSE Idle
    /\ UNCHANGED <<callReq, callResult, callChecked, callPushed, callLate, callCount>>

(* A changed request is verified again against the result it has.          *)
ReverifyItem ==
    /\ callRun.live /\ callRun.todo = <<>> /\ callRun.again # <<>>
    /\ LET f == Head(callRun.again) IN
       callRun' = IF VerifyPaths(callRun.req[f], callResult[f])
                  THEN [callRun EXCEPT !.again = Tail(@)] ELSE Idle
    /\ UNCHANGED <<callReq, callResult, callChecked, callPushed, callLate, callCount>>

(* The commit, rebased on whatever was pushed meanwhile.                   *)
CommitRun ==
    /\ callRun.live /\ callRun.todo = <<>> /\ callRun.again = <<>>
    /\ callResult' = [f \in CallFiles |-> IF f \in DOMAIN callRun.result
                                          THEN callRun.result[f] ELSE callResult[f]]
    /\ callChecked' = callChecked \cup callRun.checked
    /\ callRun' = Idle
    /\ UNCHANGED <<callReq, callPushed, callLate, callCount>>

(* The runner dies, times out, or loses the push race three times.         *)
RunDies ==
    /\ callRun.live /\ callCount.faults < MaxRunFaults
    /\ callRun' = Idle
    /\ callCount' = [callCount EXCEPT !.faults = @ + 1]
    /\ UNCHANGED <<callReq, callResult, callChecked, callPushed, callLate>>

(* A caller pushes a request file, new or changed.  The queued run of an   *)
(* earlier push is superseded: its files are left to the sweep.            *)
PushRequest(f, c) ==
    /\ callCount.pushes < MaxPushes
    /\ callReq[f] # c
    /\ callReq' = [callReq EXCEPT ![f] = c]
    /\ callPushed' = {f}
    /\ callCount' = [callCount EXCEPT !.pushes = @ + 1]
    /\ UNCHANGED <<callResult, callChecked, callRun, callLate>>

InstantPasses ==
    /\ ~callLate /\ callLate' = TRUE
    /\ UNCHANGED <<callReq, callResult, callChecked, callPushed, callRun, callCount>>

RunStep == RunItem \/ ReverifyItem \/ CommitRun

CallNext ==
    \/ \E push \in BOOLEAN : BuildPlan(push)
    \/ RunStep \/ RunDies \/ InstantPasses
    \/ \E f \in CallFiles, c \in CallRequests : PushRequest(f, c)

(* The cron trigger starts a sweep whenever none runs, and a run makes its *)
(* way through its plan.                                                   *)
CallFairness ==
    /\ WF_callVars(BuildPlan(FALSE))
    /\ WF_callVars(RunStep)

CallTypeOK ==
    /\ callReq \in [CallFiles -> CallRequests \cup {"none"}]
    /\ callChecked \subseteq CallFiles /\ callPushed \subseteq CallFiles
    /\ callLate \in BOOLEAN

(***************************************************************************)
(* Properties.                                                             *)
(***************************************************************************)

(* An idempotency key is answered by at most one execution, for one        *)
(* content, whatever the file names, the batches and the runs that died:   *)
(* every successful envelope of a key is a copy of the same one.           *)
AnsweredOncePerKey ==
    \A f, g \in CallFiles :
        LET r == callResult[f]  s == callResult[g] IN
        r.ok /\ s.ok /\ r.key = s.key => r = s

(* Whatever is published was accepted by the verifier, as a response only  *)
(* of an allowed request whose expiry had not passed when it was read.     *)
PublishedIsAllowed ==
    \A f \in CallFiles :
        /\ callResult[f] # NoEnvelope => f \in callChecked
        /\ callResult[f].ok => CallOf[callResult[f].sha].allowed /\ callResult[f].expiry # "EXPIRED"

Pending(f) == /\ callReq[f] # "none" /\ CallOf[callReq[f]].shape = "object"
              /\ callResult[f] = NoEnvelope

(* Every well-formed request gets its result: "The next push, manual dispatch, or      *)
(* scheduled sweep can recover any request whose immutable result was not  *)
(* published" (docs/CALLABLE_FABRIC_BACKLOG_RECOVERY.md).                  *)
CallsAreAnswered ==
    \A f \in CallFiles : Pending(f) ~> ~Pending(f)

-------------------------------------------------------------------------------
(* The GitHub Actions effect provider: a serialized sweep over the effect  *)
(* requests of the branch callable-runtime that persists an execution      *)
(* intent, creates an immutable marker under a path derived from the       *)
(* capability and the idempotency key, records a receipt, and has the      *)
(* marker checked at its commit by a second program.  Each of the four is  *)
(* a commit of its own, so a run may die between any two and the next      *)
(* sweep resumes from what the branch holds.                               *)
(*                                                                         *)
(* A commit rebases on the branch, so a step sees the request as it is on  *)
(* the branch when the step commits.                                       *)

CONSTANTS MarkFiles,    \* effect request names, as numbers in name order
          MarkRequests, \* the request contents
          MarkOf,       \* content -> [key, qualified, dated]
          MaxMarkPushes, MaxMarkFaults  \* bounds

ASSUME MarkAssumption ==
    /\ MarkFiles \subseteq Nat /\ IsFiniteSet(MarkFiles)
    /\ MarkOf \in [MarkRequests -> [key: STRING, qualified: BOOLEAN, dated: BOOLEAN]]
    /\ "none" \notin MarkRequests

VARIABLES markReq, intent, marker, receipt, verdict, \* files of the branch
          sweep,      \* the run: the files it still has to look at, and its step
          markLate,   \* the instant of the dated requests has passed
          markCount

markVars == <<markReq, intent, marker, receipt, verdict, sweep, markLate, markCount>>

MarkKeys == {MarkOf[c].key : c \in MarkRequests}
Unwritten == [state |-> "none", of |-> "none"]
Asleep == [todo |-> <<>>, step |-> "asleep"]

MarkInit ==
    /\ markReq = [f \in MarkFiles |-> "none"]
    /\ intent = [f \in MarkFiles |-> "none"]
    /\ marker = [k \in MarkKeys |-> "none"]
    /\ receipt = [f \in MarkFiles |-> Unwritten]
    /\ verdict = [f \in MarkFiles |-> "none"]
    /\ sweep = Asleep /\ markLate = FALSE
    /\ markCount = [pushes |-> 0, faults |-> 0]

KeyOf(c) == MarkOf[c].key
ThisFile == Head(sweep.todo)

(* The next file of the sweep; the run ends after the last one.            *)
NextFile == sweep' = IF Len(sweep.todo) = 1 THEN Asleep
                     ELSE [todo |-> Tail(sweep.todo), step |-> "look"]
GoTo(step) == sweep' = [sweep EXCEPT !.step = step]
Abort == sweep' = Asleep

StartSweep ==
    /\ sweep = Asleep
    /\ LET present == {f \in MarkFiles : markReq[f] # "none"} IN
       /\ \E f \in present : verdict[f] = "none"
       /\ sweep' = [step |-> "look", todo |-> Sorted(present)]
    /\ UNCHANGED <<markReq, intent, marker, receipt, verdict, markLate, markCount>>

(* The branch of the loop a file takes: done, a denial to verify, an       *)
(* intent to resume, or a new request.                                     *)
LookAt ==
    /\ sweep.step = "look"
    /\ IF verdict[ThisFile] # "none" THEN NextFile
       ELSE IF receipt[ThisFile].state # "none" /\ intent[ThisFile] = "none" THEN GoTo("deny")
       ELSE IF intent[ThisFile] # "none" THEN GoTo("execute") ELSE GoTo("prepare")
    /\ UNCHANGED <<markReq, intent, marker, receipt, verdict, markLate, markCount>>

(* validateRequest: only an unexpired request passes.                      *)
ValidateRequest(c) == ~(MarkOf[c].dated /\ markLate)

(* guardianDecision: one capability is allowlisted.                        *)
GuardianDecision(c) == MarkOf[c].qualified

(* prepareFile and its commit: a denial, or an intent bound to the bytes   *)
(* of the request.                                                         *)
PrepareFile ==
    /\ sweep.step = "prepare"
    /\ LET c == markReq[ThisFile] IN
       \/ ~ValidateRequest(c) /\ Abort /\ UNCHANGED <<intent, receipt>>
       \/ /\ ValidateRequest(c) /\ ~GuardianDecision(c)
          /\ receipt' = [receipt EXCEPT ![ThisFile] = [state |-> "DENIED", of |-> c]]
          /\ GoTo("deny") /\ UNCHANGED intent
       \/ /\ ValidateRequest(c) /\ GuardianDecision(c)
          /\ intent' = [intent EXCEPT ![ThisFile] = c]
          /\ GoTo("execute") /\ UNCHANGED receipt
    /\ UNCHANGED <<markReq, marker, verdict, markLate, markCount>>

(* expectedMarker: refuses an intent that is not of this request.          *)
ExpectedMarker(f) == IF intent[f] = markReq[f] THEN intent[f] ELSE "refused"

\* Mutant: an existing marker of the key is replaced.
ExecuteOverwrites ==
    /\ sweep.step = "execute"
    /\ LET c == ExpectedMarker(ThisFile) IN
       IF c # "refused"
       THEN marker' = [marker EXCEPT ![KeyOf(c)] = c] /\ GoTo("record")
       ELSE Abort /\ UNCHANGED marker
    /\ UNCHANGED <<markReq, intent, receipt, verdict, markLate, markCount>>

(* executeFile and its commit: a marker of the key is created, or reused   *)
(* if it is exactly the expected one.                                      *)
ExecuteFile ==
    /\ sweep.step = "execute"
    /\ LET c == ExpectedMarker(ThisFile) IN
       IF c # "refused" /\ marker[KeyOf(c)] \in {"none", c}
       THEN marker' = [marker EXCEPT ![KeyOf(c)] = c] /\ GoTo("record")
       ELSE Abort /\ UNCHANGED marker
    /\ UNCHANGED <<markReq, intent, receipt, verdict, markLate, markCount>>

(* resultBody: the receipt of an executed intent.                          *)
ResultBody(f) == [state |-> "EXECUTED", of |-> intent[f]]

(* recordFile and its commit: written once, or exactly what is there.      *)
RecordFile ==
    /\ sweep.step = "record"
    /\ IF /\ ExpectedMarker(ThisFile) # "refused"
          /\ marker[KeyOf(intent[ThisFile])] = intent[ThisFile]
          /\ receipt[ThisFile] \in {Unwritten, ResultBody(ThisFile)}
       THEN receipt' = [receipt EXCEPT ![ThisFile] = ResultBody(ThisFile)] /\ GoTo("verify")
       ELSE Abort /\ UNCHANGED receipt
    /\ UNCHANGED <<markReq, intent, marker, verdict, markLate, markCount>>

(* remoteMarkerFromCommit and verificationBodyForExecuted: everything is   *)
(* derived again from the request and compared.                            *)
VerifyExecuted ==
    /\ sweep.step = "verify"
    /\ LET c == markReq[ThisFile] IN
       IF /\ GuardianDecision(c)
          /\ intent[ThisFile] = c /\ receipt[ThisFile] = [state |-> "EXECUTED", of |-> c]
          /\ marker[KeyOf(c)] = c
       THEN verdict' = [verdict EXCEPT ![ThisFile] = "POSTCONDITION_VERIFIED"] /\ NextFile
       ELSE Abort /\ UNCHANGED verdict
    /\ UNCHANGED <<markReq, intent, marker, receipt, markLate, markCount>>

(* remoteAbsenceEvidence and verificationBodyForDenied: the denial is of   *)
(* this request, and no marker exists under the path of its capability,    *)
(* where only a qualified capability ever puts one.                        *)
VerifyDenied ==
    /\ sweep.step = "deny"
    /\ LET c == markReq[ThisFile] IN
       IF /\ receipt[ThisFile] = [state |-> "DENIED", of |-> c]
          /\ ~(GuardianDecision(c) /\ marker[KeyOf(c)] # "none")
       THEN verdict' = [verdict EXCEPT ![ThisFile] = "DENIAL_VERIFIED"] /\ NextFile
       ELSE Abort /\ UNCHANGED verdict
    /\ UNCHANGED <<markReq, intent, marker, receipt, markLate, markCount>>

(* The runner dies or cannot push: the step it was at is not on the branch.*)
SweepDies ==
    /\ sweep # Asleep /\ markCount.faults < MaxMarkFaults
    /\ Abort
    /\ markCount' = [markCount EXCEPT !.faults = @ + 1]
    /\ UNCHANGED <<markReq, intent, marker, receipt, verdict, markLate>>

PushEffect(f, c) ==
    /\ markCount.pushes < MaxMarkPushes /\ markReq[f] # c
    /\ markReq' = [markReq EXCEPT ![f] = c]
    /\ markCount' = [markCount EXCEPT !.pushes = @ + 1]
    /\ UNCHANGED <<intent, marker, receipt, verdict, sweep, markLate>>

MarkInstantPasses ==
    /\ ~markLate /\ markLate' = TRUE
    /\ UNCHANGED <<markReq, intent, marker, receipt, verdict, sweep, markCount>>

MarkNext ==
    \/ StartSweep \/ LookAt \/ PrepareFile \/ ExecuteFile \/ RecordFile
    \/ VerifyExecuted \/ VerifyDenied \/ SweepDies \/ MarkInstantPasses
    \/ \E f \in MarkFiles, c \in MarkRequests : PushEffect(f, c)

MarkTypeOK ==
    /\ markReq \in [MarkFiles -> MarkRequests \cup {"none"}]
    /\ intent \in [MarkFiles -> MarkRequests \cup {"none"}]
    /\ marker \in [MarkKeys -> MarkRequests \cup {"none"}]
    /\ verdict \in [MarkFiles -> {"none", "POSTCONDITION_VERIFIED", "DENIAL_VERIFIED"}]

(***************************************************************************)
(* Properties.                                                             *)
(***************************************************************************)

(* A verified effect stays the effect of its key: the marker, the intent   *)
(* and the receipt of a verified request still agree, whatever was pushed  *)
(* over the request, re-run or resumed after it was verified.  An intent   *)
(* is only ever of an allowlisted capability, and what was denied has      *)
(* neither intent nor marker.                                              *)
EffectsAreBound ==
    /\ \A f \in MarkFiles :
        /\ verdict[f] = "POSTCONDITION_VERIFIED" =>
              /\ receipt[f] = ResultBody(f)
              /\ marker[KeyOf(intent[f])] = intent[f]
        /\ intent[f] # "none" => GuardianDecision(intent[f])
        /\ receipt[f].state = "DENIED" => intent[f] = "none"
    /\ \A k \in MarkKeys : marker[k] # "none" => \E f \in MarkFiles : intent[f] = marker[k]
=============================================================================
