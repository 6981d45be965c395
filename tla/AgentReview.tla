------------------------------ MODULE AgentReview ------------------------------
(* What becomes of work that agents propose: the inventory of their branches *)
(* (scripts/agent_fleet_qualify.py), the gate that sends them to review      *)
(* (agent_fleet_review_gate.py), the check of a Judge's attestation against  *)
(* a pinned root (verify_review_attestation.py), and the runs that keep main *)
(* protected (reconcile_main_branch_protection.py).                          *)
(*                                                                           *)
(* Inventory and gate ask GitHub one request at a time, and the repository   *)
(* goes on changing between two requests.  The inventory lists one branch to *)
(* a page.  Commits are numbered: a branch's head by its pushes, main by its *)
(* moves.  Times are small numbers.                                          *)
EXTENDS Integers, FiniteSets, Sequences, SequencesExt

CONSTANTS AgentBranches,    \* the names of the branches, in order
          ReleaseRelevance, \* what is on file of each of them
          MaxMoves,         \* bound on the changes of the repository
          JudgeKeys,        \* the keys of the Judges
          KeyWindow,        \* when each of them is valid
          Artifacts,        \* what can be judged
          MaxRootVersions, MaxVerdicts, MaxAttestTime, \* bounds
          RootLife, VerdictLife, MaxSkew, ClockLag,    \* lifetimes, and how late a clock may be
          ProtectionPolicies, \* the settings a commit may ask to protect main with
          BaseContexts,       \* the checks every policy has to require
          Reconcilers,        \* runs of the governance workflow
          MaxMainCommits, MaxProtectionEdits \* bounds

ASSUME ReviewAssumption ==
  /\ {MaxMoves, MaxRootVersions, MaxVerdicts, MaxAttestTime, MaxMainCommits, MaxProtectionEdits} \subseteq Nat
  /\ {RootLife, VerdictLife, MaxSkew, ClockLag} \subseteq Nat
  /\ ProtectionPolicies \subseteq
       [contexts : SUBSET STRING, strict : BOOLEAN, pulls : BOOLEAN, shut : BOOLEAN, linear : BOOLEAN]

VARIABLES mainSha,   \* the head of main
          merged,    \* the commits of branches main contains
          agents,    \* each branch: its head, where it left main, its pull requests
          moves,     \* how often the repository has changed
          qualifier, \* the inventory in progress
          inventory,  \* the inventory on file
          reviewGate,      \* the gate's observations
          routed     \* its decisions

fleetVars == <<mainSha, merged, agents, moves, qualifier, inventory, reviewGate, routed>>
repositoryVars == <<mainSha, merged, agents, moves>>

VARIABLES roots,      \* the root metadata that was signed, by version
          checkpoint, \* the least version the release accepts
          verdicts,   \* the attestations Judges signed
          attestTime, \* the time
          allowed     \* the last attestation that was accepted, and how

attestVars == <<roots, checkpoint, verdicts, attestTime, allowed>>

VARIABLES protection, \* the settings the server has for main
          mainLog,    \* the commits of main: the policy in each, and how it came
          unaudited,  \* the pushes whose run has not started
          reconciler, \* the runs
          tracker,    \* the issue that is closed once main is protected
          edits       \* how often somebody has edited the settings, and whether that was last

protectionVars == <<protection, mainLog, unaudited, reconciler, tracker, edits>>
reviewVars == <<fleetVars, attestVars, protectionVars>>

-------------------------------------------------------------------------------
(* The repository.                                                         *)

BranchNames == ToSet(AgentBranches)
OpenPulls(b) == {n \in DOMAIN agents[b].pulls : agents[b].pulls[n].state = "open"}
OpenInOrder(b) == SetToSortSeq(OpenPulls(b), <)
RepositoryMoves == moves < MaxMoves /\ moves' = moves + 1 /\ UNCHANGED <<qualifier, inventory, reviewGate, routed>>

\* Pushing refreshes the base the open pull requests of the branch are against.
Push(b) ==
  /\ RepositoryMoves /\ agents[b].exists
  /\ agents' = [agents EXCEPT ![b].head = @ + 1,
                              ![b].pulls = [n \in DOMAIN @ |->
                                 IF @[n].state = "open" THEN [@[n] EXCEPT !.base = mainSha] ELSE @[n]]]
  /\ UNCHANGED <<mainSha, merged>>

CreateBranch(b) ==
  /\ RepositoryMoves /\ ~agents[b].exists
  /\ agents' = [agents EXCEPT ![b].exists = TRUE, ![b].based = mainSha]
  /\ UNCHANGED <<mainSha, merged>>

OpenPull(b) ==
  /\ RepositoryMoves /\ agents[b].exists /\ <<b, agents[b].head>> \notin merged
  /\ agents' = [agents EXCEPT ![b].pulls = Append(@, [state |-> "open", base |-> mainSha, review |-> "none"])]
  /\ UNCHANGED <<mainSha, merged>>

ReviewPull(b) ==
  /\ RepositoryMoves
  /\ \E n \in OpenPulls(b) : agents' = [agents EXCEPT ![b].pulls[n].review = "APPROVED"]
  /\ UNCHANGED <<mainSha, merged>>

ClosePull(b) ==
  /\ RepositoryMoves
  /\ \E n \in OpenPulls(b), how \in {"closed", "superseded"} :
       agents' = [agents EXCEPT ![b].pulls[n].state = how]
  /\ UNCHANGED <<mainSha, merged>>

MergePull(b) ==
  /\ RepositoryMoves
  /\ \E n \in OpenPulls(b) : agents' = [agents EXCEPT ![b].pulls[n].state = "merged"]
  /\ mainSha' = mainSha + 1
  /\ merged' = merged \union {<<b, n>> : n \in 1..agents[b].head}

MoveMain == RepositoryMoves /\ mainSha' = mainSha + 1 /\ UNCHANGED <<merged, agents>>

-------------------------------------------------------------------------------
(* The inventory: list all branches, compare each and read its pull          *)
(* requests, read main last.                                                 *)

NoSnapshot == [written |-> FALSE, canonical |-> FALSE, base |-> 0, rows |-> <<>>]
NoComparison == [ahead |-> FALSE, behind |-> FALSE, head |-> 0, main |-> 0]

\* classify: the states in the order they are tried.
Classify(cmp, pulls) ==
  LET has(state) == \E n \in DOMAIN pulls : pulls[n].state = state IN
  CASE has("open")                       -> "ACTIVE_PR"
    [] ~has("open") /\ ~cmp.ahead        -> "SUBSUMED_OR_MERGED"
    [] OTHER ->
         IF has("merged") THEN "AHEAD_AFTER_PRIOR_MERGE_REVIEW"
         ELSE IF has("superseded") THEN "SUPERSEDED_PRESERVE_ONLY"
         ELSE IF has("closed") THEN "CLOSED_UNMERGED_REVIEW"
         ELSE IF cmp.behind THEN "DIVERGED_REVIEW" ELSE "UNREVIEWED_AHEAD_CANDIDATE"

\* A branch made during the listing pushes another one on to the next page.
Listable == {n \in DOMAIN AgentBranches : agents[AgentBranches[n]].exists}
ListPage ==
  LET page == Len(qualifier.listed) + 1 IN
  /\ qualifier.pc = "listing"
  /\ \/ page > Cardinality(Listable) /\ qualifier' = [qualifier EXCEPT !.pc = "comparing"]
     \/ \E n \in Listable :
          /\ Cardinality({m \in Listable : m <= n}) = page
          /\ LET b == AgentBranches[n] IN
               qualifier' = [qualifier EXCEPT !.listed = Append(@, [branch |-> b, head |-> agents[b].head])]
  /\ UNCHANGED <<repositoryVars, inventory, reviewGate, routed>>

CompareBranch ==
  LET row == Len(qualifier.rows) + 1 IN
  /\ qualifier.pc = "comparing" /\ row <= Len(qualifier.listed)
  /\ LET b == qualifier.listed[row].branch IN
       qualifier' = [qualifier EXCEPT !.pc = "classifying",
         !.cmp = [ahead |-> <<b, agents[b].head>> \notin merged, behind |-> agents[b].based # mainSha,
                  head |-> agents[b].head, main |-> mainSha]]
  /\ UNCHANGED <<repositoryVars, inventory, reviewGate, routed>>

ReadBranchPulls ==
  /\ qualifier.pc = "classifying"
  /\ LET listed == qualifier.listed[Len(qualifier.rows) + 1]
         b == listed.branch
     IN  qualifier' = [qualifier EXCEPT !.pc = "comparing",
           !.rows = Append(@, [branch |-> b, head |-> listed.head, open |-> OpenPulls(b), cmp |-> qualifier.cmp,
                               state |-> Classify(qualifier.cmp, agents[b].pulls)])]
  /\ UNCHANGED <<repositoryVars, inventory, reviewGate, routed>>

\* Repository and base are the environment's to name.
ReadBase ==
  /\ qualifier.pc = "comparing" /\ Len(qualifier.rows) = Len(qualifier.listed)
  /\ \E canonical \in BOOLEAN :
       inventory' = [written |-> TRUE, canonical |-> canonical, base |-> mainSha, rows |-> qualifier.rows]
  /\ qualifier' = [qualifier EXCEPT !.pc = "done"]
  /\ UNCHANGED <<repositoryVars, reviewGate, routed>>

-------------------------------------------------------------------------------
(* The gate.  An observation is main, then of each branch of the inventory    *)
(* its head, its open pull requests and their reviews.                       *)

NoObservation == [main |-> 0, merged |-> {}, branches |-> <<>>]
BranchesOf(rows) == {rows[i].branch : i \in DOMAIN rows}
ToObserve == BranchesOf(inventory.rows) \ BranchesOf(reviewGate.now.branches)

\* collect_live_state.  The merged commits are those of the main it reads.
ObserveMain(next) ==
  reviewGate' = [reviewGate EXCEPT !.pc = next, !.now = [main |-> mainSha, merged |-> merged, branches |-> <<>>]]

BeginReview ==
  /\ reviewGate.pc = "idle" /\ inventory.written /\ inventory.canonical
  /\ ObserveMain("heads")
  /\ UNCHANGED <<repositoryVars, qualifier, inventory, routed>>

ObserveHead ==
  /\ reviewGate.pc = "heads"
  /\ \E n \in DOMAIN AgentBranches :
       LET b == AgentBranches[n] IN
       /\ b \in ToObserve /\ \A m \in 1..(n - 1) : AgentBranches[m] \notin ToObserve
       /\ reviewGate' = [reviewGate EXCEPT !.pc = "pulls",
            !.now.branches = Append(@, [branch |-> b, head |-> agents[b].head, pulls |-> <<>>])]
  /\ UNCHANGED <<repositoryVars, qualifier, inventory, routed>>

ObservePulls ==
  /\ reviewGate.pc = "pulls"
  /\ LET last == Len(reviewGate.now.branches)
         b == reviewGate.now.branches[last].branch
         open == OpenInOrder(b)
     IN  reviewGate' = [reviewGate EXCEPT !.pc = IF open = <<>> THEN "heads" ELSE "reviews",
           !.now.branches[last].pulls =
             [n \in DOMAIN open |-> [number |-> open[n], head |-> agents[b].head,
                                     base |-> agents[b].pulls[open[n]].base, review |-> "none"]]]
  /\ UNCHANGED <<repositoryVars, qualifier, inventory, routed>>

ObserveReviews ==
  /\ reviewGate.pc = "reviews"
  /\ LET last == Len(reviewGate.now.branches)
         b == reviewGate.now.branches[last].branch
     IN  reviewGate' = [reviewGate EXCEPT !.pc = "heads",
           !.now.branches[last].pulls =
             [n \in DOMAIN @ |-> LET pull == @[n] IN [pull EXCEPT !.review = agents[b].pulls[pull.number].review]]]
  /\ UNCHANGED <<repositoryVars, qualifier, inventory, routed>>

-------------------------------------------------------------------------------
(* Routing.                                                                *)

ReviewStates ==
  {"UNREVIEWED_AHEAD_CANDIDATE", "AHEAD_AFTER_PRIOR_MERGE_REVIEW", "CLOSED_UNMERGED_REVIEW", "DIVERGED_REVIEW"}

\* Rows of one branch that differ in what routing goes by.
IdentityConflicts ==
  LET identity(row) == [branch |-> row.branch, head |-> row.head, state |-> row.state, open |-> row.open]
      rows == ToSet(inventory.rows)
  IN  {r.branch : r \in {x \in rows : \E y \in rows : x.branch = y.branch /\ identity(x) # identity(y)}}

DeferToPull(pull, live) ==
  IF pull.head # live.head THEN "AMBIGUOUS_IDENTITY"
  ELSE IF pull.base # reviewGate.now.main THEN "NEEDS_BASE_REFRESH" ELSE "DEFER_TO_EXISTING_PR"

ByRelevance(b) ==
  IF ReleaseRelevance[b] = "RELEVANT" THEN "DEEP_REVIEW_ELIGIBLE"
  ELSE IF ReleaseRelevance[b] = "NOT_RELEVANT" THEN "DEFER_NON_RELEASE" ELSE "NEEDS_RELEASE_RELEVANCE"

\* Mutant: the head is not compared.
RouteIgnoringHead(row, live) ==
  IF row.branch \in IdentityConflicts THEN "AMBIGUOUS_IDENTITY"
  ELSE IF row.state = "SUBSUMED_OR_MERGED" THEN "NO_DEEP_REVIEW"
  ELSE IF row.state = "SUPERSEDED_PRESERVE_ONLY" THEN "PRESERVE_ONLY"
  ELSE IF inventory.base # reviewGate.now.main THEN "NEEDS_BASE_REFRESH"
  ELSE IF row.state \in ReviewStates THEN ByRelevance(row.branch) ELSE "AMBIGUOUS_REVIEW"

\* route_branch: the first that applies.
RouteBranch(row, live) ==
  IF row.branch \in IdentityConflicts THEN "AMBIGUOUS_IDENTITY"
  ELSE IF row.state = "SUBSUMED_OR_MERGED" THEN "NO_DEEP_REVIEW"
  ELSE IF row.state = "SUPERSEDED_PRESERVE_ONLY" THEN "PRESERVE_ONLY"
  ELSE IF inventory.base # reviewGate.now.main THEN "NEEDS_BASE_REFRESH"
  ELSE IF row.head # live.head THEN "NEEDS_IDENTITY_REFRESH"
  ELSE IF Len(live.pulls) > 1 THEN "AMBIGUOUS_REVIEW"
  ELSE IF row.open # {live.pulls[n].number : n \in DOMAIN live.pulls} THEN "NEEDS_REVIEW_REFRESH"
  ELSE IF live.pulls # <<>> THEN DeferToPull(live.pulls[1], live)
  ELSE IF row.state \in ReviewStates THEN ByRelevance(row.branch) ELSE "AMBIGUOUS_REVIEW"

LiveOf(observation, b) == CHOOSE live \in ToSet(observation.branches) : live.branch = b

Route ==
  /\ reviewGate.pc = "heads" /\ ToObserve = {}
  /\ routed' = {[row |-> row, live |-> LiveOf(reviewGate.now, row.branch),
                 decision |-> RouteBranch(row, LiveOf(reviewGate.now, row.branch))] : row \in ToSet(inventory.rows)}
  /\ reviewGate' = [reviewGate EXCEPT !.pc = "routed", !.first = reviewGate.now, !.now = NoObservation]
  /\ UNCHANGED <<repositoryVars, qualifier, inventory>>

\* Mutant: main is not compared.
MatchIgnoringMain(first, again) == first.branches = again.branches

\* revalidate_observation: main, heads, pull requests and reviews as before.
Matches(first, again) == first.main = again.main /\ first.branches = again.branches

BeginRevalidation ==
  /\ reviewGate.pc = "routed"
  /\ ObserveMain("heads again")
  /\ UNCHANGED <<repositoryVars, qualifier, inventory, routed>>

\* The second observation, taken of the branches in one step.
Revalidate ==
  /\ reviewGate.pc = "heads again"
  /\ LET seen(b) ==
           LET open == OpenInOrder(b) IN
           [branch |-> b, head |-> agents[b].head,
            pulls |-> [n \in DOMAIN open |-> [number |-> open[n], head |-> agents[b].head,
                         base |-> agents[b].pulls[open[n]].base, review |-> agents[b].pulls[open[n]].review]]]
         again == [reviewGate.now EXCEPT !.branches =
                     [i \in DOMAIN reviewGate.first.branches |-> seen(reviewGate.first.branches[i].branch)]]
     IN  reviewGate' = [reviewGate EXCEPT !.now = again,
                                          !.pc = IF Matches(reviewGate.first, again) THEN "valid" ELSE "stale"]
  /\ UNCHANGED <<repositoryVars, qualifier, inventory, routed>>

FleetInit ==
  /\ mainSha = 1 /\ merged = {} /\ moves = 0
  /\ agents = [b \in BranchNames |->
                 [exists |-> b # AgentBranches[1], head |-> 1, based |-> 1, pulls |-> <<>>]]
  /\ qualifier = [pc |-> "listing", listed |-> <<>>, rows |-> <<>>, cmp |-> NoComparison]
  /\ inventory = NoSnapshot
  /\ reviewGate = [pc |-> "idle", first |-> NoObservation, now |-> NoObservation]
  /\ routed = {}

FleetNext ==
  \/ /\ \/ \E b \in BranchNames :
             \/ Push(b) \/ CreateBranch(b) \/ OpenPull(b) \/ ReviewPull(b) \/ ClosePull(b) \/ MergePull(b)
        \/ MoveMain
        \/ ListPage \/ CompareBranch \/ ReadBranchPulls \/ ReadBase
        \/ BeginReview \/ ObserveHead \/ ObservePulls \/ ObserveReviews \/ Route
        \/ BeginRevalidation \/ Revalidate
     /\ UNCHANGED <<attestVars, protectionVars>>

-------------------------------------------------------------------------------
(* Attestations.  The release pins the root's key and a least version; what  *)
(* is presented with an attestation is any metadata that root ever signed.   *)

Latest == roots[Len(roots)]
NoAttestation ==
  [allowed |-> FALSE, key |-> "none", artifact |-> "none", version |-> 0, at |-> 0, minimum |-> 0]

\* The root's next metadata.  A key it revoked stays revoked.
SignRoot(active, revoked) ==
  /\ Len(roots) < MaxRootVersions /\ active # {} /\ Latest.revoked \subseteq revoked
  /\ roots' = Append(roots, [active |-> active, revoked |-> revoked, issued |-> attestTime,
                             expires |-> attestTime + RootLife])
  /\ UNCHANGED <<checkpoint, verdicts, attestTime, allowed>>

\* A release pins a later version.
Release ==
  /\ checkpoint' \in (checkpoint + 1)..Len(roots)
  /\ UNCHANGED <<roots, verdicts, attestTime, allowed>>

SignVerdict(key, artifact) ==
  /\ Cardinality(verdicts) < MaxVerdicts
  /\ verdicts' = verdicts \union {[key |-> key, artifact |-> artifact, issued |-> attestTime,
                                   expires |-> attestTime + VerdictLife]}
  /\ UNCHANGED <<roots, checkpoint, attestTime, allowed>>

AttestTimePasses ==
  /\ attestTime < MaxAttestTime /\ attestTime' = attestTime + 1
  /\ UNCHANGED <<roots, checkpoint, verdicts, allowed>>

Lives(it, now) == it.issued <= now + MaxSkew /\ it.expires > it.issued /\ it.expires > now

\* Mutant: an older version passes as long as it has not expired.
RootAcceptedAtAnyVersion(version, now) == Lives(roots[version], now)

\* Mutant: only the checkpoint bounds what is accepted.
RootAcceptedForEver(version, now) == version >= checkpoint

\* _verify_root_metadata.
RootAccepted(version, now) == version >= checkpoint /\ Lives(roots[version], now)

\* verify.  The verifier's clock may be late.
Verify(attestation, version, now) ==
  /\ now \in (attestTime - ClockLag)..attestTime
  /\ RootAccepted(version, now)
  /\ attestation.key \notin roots[version].revoked /\ attestation.key \in roots[version].active
  /\ Lives(attestation, now)
  /\ attestation.issued >= KeyWindow[attestation.key].notBefore
  /\ attestation.expires <= KeyWindow[attestation.key].notAfter
  /\ allowed' = [allowed |-> TRUE, key |-> attestation.key, artifact |-> attestation.artifact,
                 version |-> version, at |-> attestTime, minimum |-> checkpoint]
  /\ UNCHANGED <<roots, checkpoint, verdicts, attestTime>>

AttestInit ==
  /\ roots = <<[active |-> JudgeKeys, revoked |-> {}, issued |-> 0, expires |-> RootLife]>>
  /\ checkpoint = 1 /\ verdicts = {} /\ attestTime = 0 /\ allowed = NoAttestation

AttestNext ==
  /\ \/ \E active, revoked \in SUBSET JudgeKeys : SignRoot(active, revoked)
     \/ Release
     \/ \E key \in JudgeKeys, artifact \in Artifacts : SignVerdict(key, artifact)
     \/ AttestTimePasses
     \/ \E attestation \in verdicts, version \in DOMAIN roots, now \in 0..attestTime :
          Verify(attestation, version, now)
  /\ UNCHANGED <<fleetVars, protectionVars>>

-------------------------------------------------------------------------------
(* The protection of main.  Every push to main and every hour start a run,    *)
(* with the policy of the commit it checks out; nothing keeps two runs apart.*)
(* Of the settings: the required checks, whether they must be up to date,    *)
(* whether a pull request is required, whether the other switches (admins    *)
(* included, no forced pushes, ...) are as they should be, linear history.   *)

Unprotected == [contexts |-> {}, strict |-> FALSE, pulls |-> FALSE, shut |-> FALSE, linear |-> FALSE]
NoReconciler ==
  [pc |-> "down", policy |-> Unprotected, commit |-> 0, pushed |-> FALSE, status |-> "none", seen |-> Unprotected]

\* Mutant: the checks a policy requires are not looked at.
ValidatePolicyShape(policy) == policy.pulls /\ policy.shut /\ policy.strict

\* validate_policy: what no policy may leave out.
ValidatePolicy(policy) == policy.pulls /\ policy.shut /\ policy.strict /\ BaseContexts \subseteq policy.contexts

\* Mutant: only the checks are compared.
AuditChecksOnly(policy, observed) == policy.contexts \subseteq observed.contexts

\* audit_observed: the settings have drifted or not.  Linear history is not compared.
AuditObserved(policy, observed) ==
  /\ policy.contexts \subseteq observed.contexts
  /\ observed.strict = policy.strict /\ observed.pulls = policy.pulls /\ observed.shut = policy.shut

\* A commit reaches main by a pull request, or directly where the server lets it.
CommitToMain(policy, pulled) ==
  /\ Len(mainLog) < MaxMainCommits
  /\ pulled \/ ~(protection.pulls /\ protection.shut)
  /\ mainLog' = Append(mainLog, [policy |-> policy, pulled |-> pulled])
  /\ unaudited' = unaudited \union {Len(mainLog) + 1}
  /\ UNCHANGED <<protection, reconciler, tracker, edits>>

EditProtection(settings) ==
  /\ edits.number < MaxProtectionEdits
  /\ protection' = settings /\ edits' = [number |-> edits.number + 1, last |-> TRUE]
  /\ UNCHANGED <<mainLog, unaudited, reconciler, tracker>>

\* A run of a push checks out that push, a scheduled one the last commit.
StartReconciler(r, commit, pushed) ==
  /\ reconciler[r].pc = "down"
  /\ IF pushed THEN commit \in unaudited ELSE commit = Len(mainLog)
  /\ unaudited' = IF pushed THEN unaudited \ {commit} ELSE unaudited
  /\ reconciler' = [reconciler EXCEPT ![r] =
        [NoReconciler EXCEPT !.pc = "validate", !.policy = mainLog[commit].policy,
                             !.commit = commit, !.pushed = pushed]]
  /\ UNCHANGED <<protection, mainLog, tracker, edits>>

\* The first steps of the job: either fails it, and the issue keeps its state.
\* audit_push_provenance: a push that belongs to no merged pull request.
ValidateAndAuditPush(r) ==
  /\ reconciler[r].pc = "validate"
  /\ reconciler' = [reconciler EXCEPT ![r] =
        IF /\ ValidatePolicy(@.policy)
           /\ @.pushed => mainLog[@.commit].pulled
        THEN [NoReconciler EXCEPT !.pc = "put", !.policy = reconciler[r].policy] ELSE NoReconciler]
  /\ UNCHANGED <<protection, mainLog, unaudited, tracker, edits>>

Reported(r, status, seen) ==
  reconciler' = [reconciler EXCEPT ![r] = [NoReconciler EXCEPT !.pc = "report", !.status = status, !.seen = seen]]

\* enforce_protection: protection_payload is the policy.  Without a token, or
\* when the request fails, nothing is changed.
PutProtection(r) ==
  /\ reconciler[r].pc = "put"
  /\ \/ /\ protection' = reconciler[r].policy /\ edits' = [edits EXCEPT !.last = FALSE]
        /\ reconciler' = [reconciler EXCEPT ![r].pc = "get"]
     \/ /\ \E status \in {"BLOCKED_EXTERNAL", "UNREADABLE"} : Reported(r, status, Unprotected)
        /\ UNCHANGED <<protection, edits>>
  /\ UNCHANGED <<mainLog, unaudited, tracker>>

\* fetch_protection, and the audit of what it read.
FetchProtection(r) ==
  /\ reconciler[r].pc = "get"
  /\ \/ Reported(r, IF AuditObserved(reconciler[r].policy, protection) THEN "CONVERGED" ELSE "DRIFT", protection)
     \/ Reported(r, "UNREADABLE", Unprotected)
  /\ UNCHANGED <<protection, mainLog, unaudited, tracker, edits>>

\* gh issue close or reopen; it may fail unnoticed.
UpdateTracker(r) ==
  /\ reconciler[r].pc = "report"
  /\ \/ tracker' = [closed |-> reconciler[r].status = "CONVERGED", seen |-> reconciler[r].seen]
     \/ tracker' = tracker
  /\ reconciler' = [reconciler EXCEPT ![r] = NoReconciler]
  /\ UNCHANGED <<protection, mainLog, unaudited, edits>>

ProtectionInit ==
  /\ protection = Unprotected /\ unaudited = {}
  /\ mainLog \in {<<[policy |-> p, pulled |-> TRUE]>> : p \in ProtectionPolicies}
  /\ reconciler = [r \in Reconcilers |-> NoReconciler]
  /\ tracker = [closed |-> FALSE, seen |-> Unprotected] /\ edits = [number |-> 0, last |-> TRUE]

ProtectionNext ==
  /\ \/ \E policy \in ProtectionPolicies :
          EditProtection(policy) \/ \E pulled \in BOOLEAN : CommitToMain(policy, pulled)
     \/ EditProtection(Unprotected)
     \/ \E r \in Reconcilers :
          \/ \E commit \in DOMAIN mainLog, pushed \in BOOLEAN : StartReconciler(r, commit, pushed)
          \/ ValidateAndAuditPush(r) \/ PutProtection(r) \/ FetchProtection(r) \/ UpdateTracker(r)
  /\ UNCHANGED <<fleetVars, attestVars>>

AgentReviewInit == FleetInit /\ AttestInit /\ ProtectionInit
AgentReviewSpec == AgentReviewInit /\ [][FleetNext \/ AttestNext \/ ProtectionNext]_reviewVars

-------------------------------------------------------------------------------
AgentReviewTypeOK ==
  /\ \A c \in merged : c[1] \in BranchNames /\ c[2] \in 1..agents[c[1]].head
  /\ \A i \in DOMAIN inventory.rows : inventory.rows[i].cmp.main <= inventory.base /\ inventory.base <= mainSha
  /\ \A r \in routed : r.row.branch = r.live.branch
  /\ checkpoint \in DOMAIN roots
  /\ unaudited \subseteq DOMAIN mainLog /\ protection \in ProtectionPolicies \union {Unprotected}

SentToReview(r) == r.decision = "DEEP_REVIEW_ELIGIBLE"

\* A branch goes to deep review for the very head it was compared at, and what
\* is dismissed as merged is merged, however the branches, their pull requests
\* and main moved between the requests.  A comparison says nothing of a main
\* that moved on while the inventory ran: the gate does not know which main the
\* branch was compared with.
RoutedAsCompared ==
  \A r \in routed :
    /\ SentToReview(r) => r.row.cmp.head = r.live.head
    /\ SentToReview(r) /\ r.row.cmp.main = reviewGate.first.main =>
         <<r.row.branch, r.live.head>> \notin reviewGate.first.merged
    /\ r.decision = "NO_DEEP_REVIEW" => <<r.row.branch, r.row.cmp.head>> \in reviewGate.first.merged

\* What is revalidated is as it was when main was read again: what was
\* eligible is still not merged.
RevalidatedIsCurrent ==
  reviewGate.pc = "valid" =>
    \A r \in routed :
      SentToReview(r) /\ r.row.cmp.main = reviewGate.first.main =>
        <<r.row.branch, r.live.head>> \notin reviewGate.now.merged

\* What was allowed was attested with a key the pinned version had not revoked,
\* although the metadata that comes with it may be an old one.
RevocationReachesRelease ==
  allowed.allowed => \A v \in 1..allowed.minimum : allowed.key \notin roots[v].revoked

\* A revoked key is believed no longer than the metadata signed before it was
\* revoked lives, by the verifier's late clock.
RevocationReachesAll ==
  allowed.allowed =>
    \A v \in DOMAIN roots :
      allowed.key \in roots[v].revoked => allowed.at < roots[v].issued + RootLife + ClockLag

\* The issue is closed only over settings the server was seen to have and that
\* leave nothing out, whatever policies overlapping runs carried and whoever
\* edited the settings between the PUT and the readback.
ClosedOverProtected ==
  tracker.closed => BaseContexts \subseteq tracker.seen.contexts /\ tracker.seen.pulls /\ tracker.seen.shut

\* Unless somebody edited the settings last, main is protected at least by what
\* every policy must have, although a run with an older policy may have come
\* last, and nothing reaches main but by a pull request.
OnlyEditsUnprotect ==
  ~edits.last => /\ BaseContexts \subseteq protection.contexts
                 /\ protection.strict /\ protection.pulls /\ protection.shut
================================================================================
