----------------------------- MODULE HardSandbox ------------------------------
(* The hard sandbox of candidate evaluation: DockerEvaluator and             *)
(* _bounded_communicate (centinal26/hard_sandbox.py), run validator after    *)
(* validator by evaluate_in_hard_sandbox (centinal26/evolution_sandbox.py).  *)
(*                                                                           *)
(* Three parties move: the evaluator, the docker client it has started in a  *)
(* session of its own, and the daemon's container, which outlives a client   *)
(* that is killed.  Output is counted in chunks of one unit.                 *)
EXTENDS Naturals, Sequences

CONSTANTS SandboxValidators,      \* validator_specs: how many are run, in order
          OutputLimit,     \* limits.output_bytes
          MaxWritten,      \* bound on what one command writes
          MaxRemoveFaults  \* bound on failing `docker rm -f`

ASSUME SandboxAssumption ==
  SandboxValidators \in Nat \ {0} /\ {OutputLimit, MaxWritten, MaxRemoveFaults} \subseteq Nat

Streams == {"stdout", "stderr"}

VARIABLES at,          \* where the evaluator is
          validator,   \* the validator it is at
          containers,  \* containers of the daemon: 0 the probe's, else a validator's
          client,      \* the docker client: "none", "runs", "killed", "exited"
          exitCode,    \* of the client: 0, or 1 for every other one
          pipe,        \* units written to each stream and not read
          writers,     \* streams somebody holds open
          watching,  \* streams the selector still waits for
          kept,        \* units in the buffers
          written,     \* units the command has written in all
          ending,     \* timed_out and output_limited of this command
          records,     \* results so far
          removeFaults

sandboxVars == <<at, validator, containers, client, exitCode, pipe, writers, watching, kept, written,
                 ending, records, removeFaults>>
childVars == <<client, exitCode, pipe, writers, watching, kept, written, ending>>

NoEnding == [timedOut |-> FALSE, limited |-> FALSE]

SandboxTypeOK ==
  /\ at \in {"probe", "start", "drain", "remove", "record", "done", "unavailable", "failed"}
  /\ validator \in 1..(SandboxValidators + 1) /\ containers \subseteq 0..SandboxValidators
  /\ client \in {"none", "runs", "killed", "exited"} /\ exitCode \in {0, 1}
  /\ pipe \in [Streams -> 0..MaxWritten] /\ writers \subseteq Streams /\ watching \subseteq Streams
  /\ written \in 0..MaxWritten /\ kept + pipe["stdout"] + pipe["stderr"] <= written
  /\ ending \in [timedOut : BOOLEAN, limited : BOOLEAN]
  /\ Len(records) < validator + 1 /\ removeFaults \in 0..MaxRemoveFaults

SandboxInit ==
  /\ at = "probe" /\ validator = 1 /\ containers = {}
  /\ client = "none" /\ exitCode = 0 /\ pipe = [s \in Streams |-> 0] /\ writers = {} /\ watching = {}
  /\ kept = 0 /\ written = 0 /\ ending = NoEnding /\ records = <<>> /\ removeFaults = 0

-------------------------------------------------------------------------------
(* DockerEvaluator.evaluate.                                               *)

\* _force_remove: whatever goes wrong in it is passed over.
ForceRemove(name) ==
  \/ containers' = containers \ {name} /\ UNCHANGED removeFaults
  \/ /\ removeFaults < MaxRemoveFaults
     /\ removeFaults' = removeFaults + 1 /\ UNCHANGED containers

\* probe: the image is looked up and `true` is run in a container.
ProbePasses ==
  /\ at = "probe" /\ at' = "start"
  /\ UNCHANGED <<validator, containers, childVars, records, removeFaults>>

\* A probe that fails or does not end in time has its container removed, and
\* there is no sandbox.
ProbeFails ==
  /\ at = "probe" /\ at' = "unavailable"
  /\ \/ UNCHANGED <<containers, removeFaults>>
     \/ /\ removeFaults < MaxRemoveFaults
        /\ removeFaults' = removeFaults + 1 /\ containers' = containers \union {0}
  /\ UNCHANGED <<validator, childVars, records>>

StartContainer ==
  /\ at = "start"
  /\ at' = "drain" /\ client' = "runs" /\ exitCode' = 0
  /\ containers' = containers \union {validator}
  /\ pipe' = [s \in Streams |-> 0] /\ writers' = Streams /\ watching' = Streams
  /\ kept' = 0 /\ written' = 0 /\ ending' = NoEnding
  /\ UNCHANGED <<validator, records, removeFaults>>

\* Popen itself fails: nothing was started.
StartFails ==
  /\ at = "start" /\ at' = "unavailable"
  /\ UNCHANGED <<validator, containers, childVars, records, removeFaults>>

\* _kill_process_group.  A stream closes with its last holder.
Killed == IF client = "runs" THEN "killed" ELSE client
OpenAfter(c) == IF c = "killed" THEN {} ELSE writers

\* Mutant: each stream has the whole limit to itself.
AllowedPerStream(s, chunk) == chunk

Allowed(s, chunk) == IF kept + chunk <= OutputLimit THEN chunk ELSE OutputLimit - kept

\* One read of a stream that has something.
ReadChunk(s) ==
  /\ at = "drain" /\ s \in watching /\ pipe[s] > 0
  /\ LET allowed == Allowed(s, pipe[s]) IN
     /\ kept' = kept + allowed
     /\ pipe' = [pipe EXCEPT ![s] = 0]
     /\ IF pipe[s] > allowed
        THEN /\ ending' = [ending EXCEPT !.limited = TRUE]
             /\ client' = Killed /\ writers' = OpenAfter(Killed)
             /\ exitCode' = IF client = "runs" THEN 1 ELSE exitCode
        ELSE UNCHANGED <<ending, client, writers, exitCode>>
  /\ UNCHANGED <<at, validator, containers, watching, written, records, removeFaults>>

ReadEnd(s) ==
  /\ at = "drain" /\ s \in watching /\ pipe[s] = 0 /\ s \notin writers
  /\ watching' = watching \ {s}
  /\ UNCHANGED <<at, validator, containers, client, exitCode, pipe, writers, kept, written, ending, records,
                 removeFaults>>

\* Mutant: the deadline is noted and the group left alone.
DeadlineNoted ==
  /\ at = "drain" /\ watching # {} /\ client = "runs"
  /\ ending' = [ending EXCEPT !.timedOut = TRUE]
  /\ UNCHANGED <<at, validator, containers, client, exitCode, writers, pipe, watching, kept, written, records,
                 removeFaults>>

\* The deadline is over and the client still runs.
DeadlinePasses ==
  /\ at = "drain" /\ watching # {} /\ client = "runs"
  /\ ending' = [ending EXCEPT !.timedOut = TRUE]
  /\ client' = "killed" /\ exitCode' = 1 /\ writers' = OpenAfter("killed")
  /\ UNCHANGED <<at, validator, containers, pipe, watching, kept, written, records, removeFaults>>

\* Mutant: the loop ends with the process and not with its output.
DrainUntilExit ==
  /\ at = "drain" /\ client # "runs"
  /\ at' = "remove"
  /\ UNCHANGED <<validator, containers, childVars, records, removeFaults>>

\* Both streams have ended; process.wait gives the client one more second.
Drained ==
  /\ at = "drain" /\ watching = {} /\ client # "runs"
  /\ at' = "remove"
  /\ UNCHANGED <<validator, containers, childVars, records, removeFaults>>

\* It closed its streams and goes on: wait raises, the container is removed
\* and there is no result.
WaitExpires ==
  /\ at = "drain" /\ watching = {} /\ client = "runs"
  /\ at' = "failed"
  /\ ForceRemove(validator)
  /\ UNCHANGED <<validator, childVars, records>>

\* Mutant: only a command that failed has its container removed.
RemoveAfterFailure ==
  /\ at = "remove" /\ at' = "record"
  /\ IF client = "exited" THEN ForceRemove(validator) ELSE UNCHANGED <<containers, removeFaults>>
  /\ UNCHANGED <<validator, childVars, records>>

RemoveContainer ==
  /\ at = "remove" /\ at' = "record"
  /\ ForceRemove(validator)
  /\ UNCHANGED <<validator, childVars, records>>

\* _result_record; the next validator goes through a probe of its own.
Record ==
  /\ at = "record"
  /\ records' = Append(records, [passed   |-> exitCode = 0 /\ ~ending.timedOut /\ ~ending.limited,
                                 complete |-> kept = written /\ client = "exited"])
  /\ validator' = validator + 1
  /\ at' = IF validator = SandboxValidators THEN "done" ELSE "probe"
  /\ client' = "none"
  /\ UNCHANGED <<containers, exitCode, pipe, writers, watching, kept, written, ending, removeFaults>>

-------------------------------------------------------------------------------
(* The command in its container.                                           *)

Write(s) ==
  /\ client = "runs" /\ s \in writers /\ written < MaxWritten
  /\ pipe' = [pipe EXCEPT ![s] = @ + 1] /\ written' = written + 1
  /\ UNCHANGED <<at, validator, containers, client, exitCode, writers, watching, kept, ending, records,
                 removeFaults>>

CloseStream(s) ==
  /\ client \in {"runs", "exited"} /\ s \in writers
  /\ writers' = writers \ {s}
  /\ UNCHANGED <<at, validator, containers, client, exitCode, pipe, watching, kept, written, ending, records,
                 removeFaults>>

\* The command ends, --rm takes the container away and the client exits with
\* its code; a process of the client's may hold a stream a little longer.
ClientExits(code) ==
  /\ client = "runs"
  /\ client' = "exited" /\ exitCode' = code
  /\ containers' = containers \ {validator}
  /\ UNCHANGED <<at, validator, pipe, writers, watching, kept, written, ending, records, removeFaults>>

EvaluatorStep ==
  \/ ProbePasses \/ ProbeFails \/ StartContainer \/ StartFails \/ DeadlinePasses \/ Drained \/ WaitExpires
  \/ RemoveContainer \/ Record
  \/ \E s \in Streams : ReadChunk(s) \/ ReadEnd(s)

SandboxNext ==
  \/ EvaluatorStep
  \/ \E s \in Streams : Write(s) \/ CloseStream(s)
  \/ \E c \in {0, 1} : ClientExits(c)

\* The evaluator goes on, and a stream whose client is gone is closed by
\* whoever still holds it.
SandboxFairness ==
  /\ WF_sandboxVars(EvaluatorStep)
  /\ \A s \in Streams : WF_sandboxVars(client = "exited" /\ CloseStream(s))

-------------------------------------------------------------------------------
Ended == {"done", "unavailable", "failed"}

\* A validator that is recorded as passed came to its end by itself and all it
\* wrote is in the record: nothing was cut off and nobody was killed.
PassedIsComplete == \A i \in DOMAIN records : records[i].passed => records[i].complete

\* The two streams together never fill more than the limit.
OutputWithinLimit == kept <= OutputLimit

\* When the evaluation is over no container of it is left, unless removing one
\* failed.
NoContainerLeft == at \in Ended /\ removeFaults = 0 => containers = {}

\* Whatever the candidate does, its evaluation ends.
EvaluationEnds == <>(at \in Ended)
===============================================================================
