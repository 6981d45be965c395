--------------------------- MODULE PersistentKernel ---------------------------
(***************************************************************************)
(* The persistent qualification kernel (automation/persistent): commit()   *)
(* appends to the ledger and then replaces the state file, its checksum    *)
(* and the goal marker, one atomic_write each.  A power failure falls      *)
(* between any two of them, or tears the ledger's last line.  One process  *)
(* commits at a time.                                                      *)
(***************************************************************************)
EXTENDS Naturals, FiniteSets, Sequences

CONSTANTS Releases,    \* releases, the head of origin/main among them
          CheckSets,   \* the sets of checks a caller may report as passed
          Contexts,    \* security contexts a caller may pass
          MaxCommits   \* bound: ledger entries

SoftwareRequired == {"repo_sync", "repo_clean", "pair_ok", "skynet_ok", "state_integrity_ok",
                     "recovery_ok", "security_policy_ok"}
DeploymentRequired == SoftwareRequired \union
                      {"device_boot_ok", "device_restart_ok", "device_exec_ok", "device_audit_ok"}
Qualified == DeploymentRequired

ASSUME KernelAssumption == CheckSets \subseteq SUBSET Qualified /\ MaxCommits \in Nat

VARIABLES kLedger,   \* evidence.jsonl
          torn,      \* its last line is incomplete
          kState,    \* project_state.json
          sidecar,   \* project_state.json.sha256: the generation it is the checksum of
          marker,    \* PROJECT_GOAL_REACHED: the ledger entry it names, 0 for no file
          commit,    \* the commit under way
          whole      \* the last commit was not cut short

kernelVars == <<kLedger, torn, kState, sidecar, marker, commit, whole>>

\* A context: what its evidence fields amount to.
SecurityContexts ==
  [asserted : BOOLEAN,      \* authority, capability, bounds, verification and chain all hold
   baselineMatches : BOOLEAN, baselineTrusted : BOOLEAN,
   deviceClaimed : BOOLEAN, deviceProven : BOOLEAN,
   observedByModel : BOOLEAN, forbidden : BOOLEAN, secretExposed : BOOLEAN,
   destructive : BOOLEAN, destructiveAuthorized : BOOLEAN]

\* Mutant: the caller's own security_policy_ok is kept.
TrustCaller(checks, ctx) == checks

\* SecurityPolicy.evaluate.
Allowed(ctx) ==
  /\ ctx.asserted
  /\ ctx.baselineTrusted /\ ctx.baselineMatches
  /\ ctx.deviceClaimed => ctx.deviceProven
  /\ ~ctx.observedByModel /\ ~ctx.forbidden /\ ~ctx.secretExposed
  /\ ctx.destructive => ctx.destructiveAuthorized

\* The checks of a commit: security_policy_ok is computed, never taken over.
Normalized(checks, ctx) ==
  (checks \ {"security_policy_ok"}) \union (IF Allowed(ctx) THEN {"security_policy_ok"} ELSE {})

NoState == [gen |-> 0, release |-> "none", status |-> "UNQUALIFIED", checks |-> {},
            allowed |-> FALSE, head |-> 0]
NoCommit == [pc |-> "idle", obj |-> NoState]

KStatuses == {"UNQUALIFIED", "DEMOTED", "PROJECT_GOAL_REACHED"}
States == [gen : Nat, release : Releases \union {"none"}, status : KStatuses,
           checks : SUBSET Qualified, allowed : BOOLEAN, head : Nat]

KernelTypeOK ==
  /\ \A i \in DOMAIN kLedger : kLedger[i] \in
       [release : Releases, checks : SUBSET Qualified, ctx : SecurityContexts, status : KStatuses]
  /\ torn \in BOOLEAN /\ whole \in BOOLEAN
  /\ kState \in States
  /\ sidecar \in Nat /\ marker \in Nat
  /\ commit \in [pc : {"idle", "appended", "stated", "summed"}, obj : States]

KernelInit ==
  /\ kLedger = <<>> /\ torn = FALSE
  /\ kState = NoState /\ sidecar = 0 /\ marker = 0
  /\ commit = NoCommit /\ whole = TRUE

Goal(checks) == Qualified \subseteq checks

Status(old, checks) ==
  IF Goal(checks) THEN "PROJECT_GOAL_REACHED"
  ELSE IF old.status = "PROJECT_GOAL_REACHED" THEN "DEMOTED" ELSE "UNQUALIFIED"

-------------------------------------------------------------------------------
\* commit() up to the ledger: a torn last line cannot be parsed, so it raises.
AppendLedger(release, checks, ctx) ==
  /\ commit.pc = "idle" /\ ~torn /\ Len(kLedger) < MaxCommits
  /\ LET normal == Normalized(checks, ctx)
         status == Status(kState, normal)
     IN  /\ kLedger' = Append(kLedger, [release |-> release, checks |-> normal, ctx |-> ctx,
                                        status |-> status])
         /\ commit' = [pc |-> "appended",
                       obj |-> [gen |-> kState.gen + 1, release |-> release, status |-> status,
                                checks |-> normal, allowed |-> Allowed(ctx),
                                head |-> Len(kLedger) + 1]]
  /\ UNCHANGED <<torn, kState, sidecar, marker, whole>>

WriteState ==
  /\ commit.pc = "appended"
  /\ kState' = commit.obj
  /\ commit' = [commit EXCEPT !.pc = "stated"]
  /\ UNCHANGED <<kLedger, torn, sidecar, marker, whole>>

WriteSidecar ==
  /\ commit.pc = "stated"
  /\ sidecar' = commit.obj.gen
  /\ commit' = [commit EXCEPT !.pc = "summed"]
  /\ UNCHANGED <<kLedger, torn, kState, marker, whole>>

\* Mutant: the marker is written, and never removed.
MarkerStays ==
  /\ commit.pc = "summed"
  /\ marker' = IF Goal(commit.obj.checks) THEN commit.obj.head ELSE marker
  /\ commit' = NoCommit /\ whole' = TRUE
  /\ UNCHANGED <<kLedger, torn, kState, sidecar>>

WriteMarker ==
  /\ commit.pc = "summed"
  /\ marker' = IF Goal(commit.obj.checks) THEN commit.obj.head ELSE 0
  /\ commit' = NoCommit /\ whole' = TRUE
  /\ UNCHANGED <<kLedger, torn, kState, sidecar>>

\* Power fails between two of the writes.
PowerFails ==
  /\ commit.pc # "idle"
  /\ commit' = NoCommit /\ whole' = FALSE
  /\ UNCHANGED <<kLedger, torn, kState, sidecar, marker>>

\* Power fails while the line is written.
AppendTears ==
  /\ commit.pc = "idle" /\ ~torn /\ Len(kLedger) < MaxCommits
  /\ torn' = TRUE /\ whole' = FALSE
  /\ UNCHANGED <<kLedger, kState, sidecar, marker, commit>>

KernelNext ==
  \/ \E r \in Releases, checks \in CheckSets, ctx \in Contexts : AppendLedger(r, checks, ctx)
  \/ WriteState \/ WriteSidecar \/ WriteMarker \/ PowerFails \/ AppendTears

KernelSpec == KernelInit /\ [][KernelNext]_kernelVars

-------------------------------------------------------------------------------
\* verify(): what it would complain about.
Problems ==
  {p \in {"state_hash", "state_ledger_head", "goal_logic", "goal_marker", "security_logic"} :
     \/ p = "state_hash" /\ kState.gen # 0 /\ sidecar # kState.gen
     \/ p = "state_ledger_head" /\ kState.head # Len(kLedger)
     \/ p = "goal_logic" /\ (kState.status = "PROJECT_GOAL_REACHED") # Goal(kState.checks)
     \/ p = "goal_marker" /\ Goal(kState.checks) # (marker # 0)
     \/ p = "security_logic" /\ ("security_policy_ok" \in kState.checks) # kState.allowed}

\* evaluate() of release_profile and reconcile(): complete for a main head.
SoftwareComplete(main) == kState.release = main /\ SoftwareRequired \subseteq kState.checks
DeployedComplete(main) == kState.release = main /\ DeploymentRequired \subseteq kState.checks

\* A commit that ran to its end leaves nothing for verify() to complain about,
\* whatever earlier power failures had left behind.
CommitHeals == commit.pc = "idle" /\ whole => Problems = {}

\* The goal marker names a ledger entry whose context the security policy allows
\* and whose checks are all passed, at every moment between two writes: the
\* policy's verdict cannot be supplied by the caller.
MarkerBacked ==
  marker # 0 => /\ marker \in DOMAIN kLedger
                /\ Allowed(kLedger[marker].ctx) /\ Goal(kLedger[marker].checks)

\* No reader of the state file calls a release deployed that is not complete as
\* software, or reports a goal for another release than the one recorded.
DeployedImpliesSoftware ==
  \A m \in Releases : DeployedComplete(m) =>
    SoftwareComplete(m) /\ kState.status = "PROJECT_GOAL_REACHED"
===============================================================================
