---------------------------- MODULE HermesBridge ----------------------------
(***************************************************************************)
(* The Hermes bridge to C05: a model or a user at the command line asks    *)
(* for a capability; a capability outside the automatic set needs a        *)
(* single-use token of a user; the bridge submits a job to the durable     *)
(* queue of the engine, runs the engine once, and records the call under   *)
(* its request id; or it stages a request file for the GitHub provider.    *)
(* Several bridge processes run at once and any of them may die.           *)
(***************************************************************************)
EXTENDS Integers, Sequences, FiniteSets

CONSTANTS Callers,       \* bridge processes
          BridgeCalls,   \* the calls that may be made
          CallSays,      \* call -> [rid, capability, provider, user, token]
          AutoLocal,     \* AUTO_CAPABILITIES
          AutoGithub,    \* GITHUB_AUTO_OPERATIONS
          Registered,    \* the engine's capabilities
          UserTokens,    \* approval tokens
          TokenCapability,
          MaxBridgeCalls \* bound: calls

ASSUME HermesAssumption ==
    /\ CallSays \in [BridgeCalls -> [rid: STRING, capability: STRING, provider: {"local", "github"},
                                     user: BOOLEAN, token: UserTokens \cup {"none"}]]
    /\ TokenCapability \in [UserTokens -> Registered]

VARIABLES bridge,    \* what each bridge process does
          grants,    \* token -> unissued, issued, expired or used
          c05Queue,  \* jobs of the engine, oldest first
          c05Done,   \* jobs it ran
          calls,     \* request id -> the row of the calls table
          staged,    \* request id -> the staged provider request
          bridgeCount

bridgeVars == <<bridge, grants, c05Queue, c05Done, calls, staged, bridgeCount>>

Rids == {CallSays[b].rid : b \in BridgeCalls}
AtRest == [step |-> "rest", call |-> "none", job |-> 0]
NoRow == [of |-> "none", status |-> "none"]

HermesInit ==
    /\ bridge = [p \in Callers |-> AtRest]
    /\ grants = [t \in UserTokens |-> "unissued"]
    /\ c05Queue = <<>> /\ c05Done = {}
    /\ calls = [r \in Rids |-> NoRow] /\ staged = [r \in Rids |-> "none"]
    /\ bridgeCount = 0

(* issue_user_grant, by a user outside the model's reach.                  *)
IssueUserGrant(t) ==
    /\ grants[t] = "unissued"
    /\ grants' = [grants EXCEPT ![t] = "issued"]
    /\ UNCHANGED <<bridge, c05Queue, c05Done, calls, staged, bridgeCount>>

GrantLapses(t) ==
    /\ grants[t] = "issued"
    /\ grants' = [grants EXCEPT ![t] = "expired"]
    /\ UNCHANGED <<bridge, c05Queue, c05Done, calls, staged, bridgeCount>>

(* call(): the envelope and its audit record.                              *)
BeginCall(p, b) ==
    /\ bridge[p].step = "rest" /\ bridgeCount < MaxBridgeCalls
    /\ bridge' = [bridge EXCEPT ![p] =
          [AtRest EXCEPT !.call = b, !.step = IF CallSays[b].provider = "local" THEN "approve" ELSE "stage"]]
    /\ bridgeCount' = bridgeCount + 1
    /\ UNCHANGED <<grants, c05Queue, c05Done, calls, staged>>

(* The row of a request id: a conflicting insert updates the status and    *)
(* the result, and keeps the request hash and the capability of the first. *)
RecordCall(b, status) ==
    calls' = [calls EXCEPT ![CallSays[b].rid] =
                 [of |-> IF @ = NoRow THEN b ELSE @.of, status |-> status]]

(* The except branch of call().                                            *)
FailCall(p) ==
    /\ RecordCall(bridge[p].call, "FAILED")
    /\ bridge' = [bridge EXCEPT ![p] = AtRest]

\* Mutant: a used token is not refused.
ConsumableAgain(t, capability) ==
    /\ t # "none" /\ TokenCapability[t] = capability
    /\ grants[t] \in {"issued", "used"}

(* consume_grant: found, of the capability, unused and unexpired.  It is   *)
(* checked and marked used in one transaction.                             *)
Consumable(t, capability) ==
    /\ t # "none" /\ TokenCapability[t] = capability
    /\ grants[t] = "issued"

(* execute_local up to the submission: an automatic capability needs       *)
(* nothing; any other needs the user's flag and a token.                   *)
Approve(p) ==
    /\ bridge[p].step = "approve"
    /\ LET s == CallSays[bridge[p].call] IN
       IF s.capability \in Registered \cap AutoLocal
       THEN /\ bridge' = [bridge EXCEPT ![p].step = "submit"]
            /\ UNCHANGED <<grants, calls>>
       ELSE IF s.capability \in Registered /\ s.user /\ Consumable(s.token, s.capability)
       THEN /\ grants' = [grants EXCEPT ![s.token] = "used"]
            /\ bridge' = [bridge EXCEPT ![p].step = "submit"]
            /\ UNCHANGED calls
       ELSE FailCall(p) /\ UNCHANGED grants
    /\ UNCHANGED <<c05Queue, c05Done, staged, bridgeCount>>

(* runtime.submit.                                                         *)
SubmitC05(p) ==
    /\ bridge[p].step = "submit"
    /\ LET job == Len(c05Queue) + Cardinality(c05Done) + 1
           s == CallSays[bridge[p].call]
       IN /\ c05Queue' = Append(c05Queue, [id |-> job, capability |-> s.capability,
                                    token |-> IF s.capability \in AutoLocal THEN "none" ELSE s.token])
          /\ bridge' = [bridge EXCEPT ![p].step = "run", ![p].job = job]
    /\ UNCHANGED <<grants, c05Done, calls, staged, bridgeCount>>

(* runtime.run_once: the engine runs its oldest queued job, whoever        *)
(* submitted it.                                                           *)
RunC05(p) ==
    /\ bridge[p].step = "run"
    /\ IF c05Queue = <<>> THEN UNCHANGED <<c05Queue, c05Done>>
       ELSE /\ c05Queue' = Tail(c05Queue)
            /\ c05Done' = c05Done \cup {Head(c05Queue)}
    /\ bridge' = [bridge EXCEPT ![p].step = "read"]
    /\ UNCHANGED <<grants, calls, staged, bridgeCount>>

(* The row of the caller's own job, which may still be queued.             *)
ReadC05(p) ==
    /\ bridge[p].step = "read"
    /\ RecordCall(bridge[p].call,
          IF \E d \in c05Done : d.id = bridge[p].job THEN "verified" ELSE "queued")
    /\ bridge' = [bridge EXCEPT ![p] = AtRest]
    /\ UNCHANGED <<grants, c05Queue, c05Done, staged, bridgeCount>>

(* stage_connected: an immutable file per request id.                      *)
StageConnected(p) ==
    /\ bridge[p].step = "stage"
    /\ LET b == bridge[p].call  r == CallSays[b].rid IN
       IF CallSays[b].capability \in AutoGithub /\ staged[r] \in {"none", b}
       THEN /\ staged' = [staged EXCEPT ![r] = b]
            /\ RecordCall(b, "STAGED_LOCAL_ONLY")
            /\ bridge' = [bridge EXCEPT ![p] = AtRest]
       ELSE FailCall(p) /\ UNCHANGED staged
    /\ UNCHANGED <<grants, c05Queue, c05Done, bridgeCount>>

BridgeDies(p) ==
    /\ bridge[p].step # "rest"
    /\ bridge' = [bridge EXCEPT ![p] = AtRest]
    /\ UNCHANGED <<grants, c05Queue, c05Done, calls, staged, bridgeCount>>

HermesNext ==
    \/ \E t \in UserTokens : IssueUserGrant(t) \/ GrantLapses(t)
    \/ \E p \in Callers :
        \/ \E b \in BridgeCalls : BeginCall(p, b)
        \/ Approve(p) \/ SubmitC05(p) \/ RunC05(p) \/ ReadC05(p)
        \/ StageConnected(p) \/ BridgeDies(p)

HermesTypeOK ==
    /\ grants \in [UserTokens -> {"unissued", "issued", "expired", "used"}]
    /\ staged \in [Rids -> BridgeCalls \cup {"none"}]
    /\ \A r \in Rids : calls[r].status \in {"none", "FAILED", "queued", "verified", "STAGED_LOCAL_ONLY"}

C05Jobs == {c05Queue[i] : i \in DOMAIN c05Queue} \cup c05Done

(***************************************************************************)
(* Properties.                                                             *)
(***************************************************************************)

(* A consequential job is one a user paid for: every job outside the       *)
(* automatic set, queued or run, by its own call or by the run_once of     *)
(* another one, carries a used token of exactly its capability, and no two *)
(* jobs carry the same token.                                              *)
JobsArePaidFor ==
    \A j \in C05Jobs : j.capability \notin AutoLocal =>
        /\ j.token \in UserTokens /\ grants[j.token] = "used"
        /\ TokenCapability[j.token] = j.capability
        /\ \A k \in C05Jobs : k.token = j.token => k = j
=============================================================================
