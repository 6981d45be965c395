---------------------------- MODULE FleetController ----------------------------
(***************************************************************************)
(* FleetController of frost_core/fleet_controller.py: contracts passed     *)
(* between roles, used by one process per command of centinal26-fleet.     *)
(*                                                                         *)
(* claim_next, record_result and record_verdict read in autocommit mode    *)
(* and write in a later BEGIN IMMEDIATE transaction, so each is two        *)
(* actions, with what was read kept in call[p].  Nothing in the second     *)
(* action checks that it still holds, except the UNIQUE constraint on the  *)
(* verdict of a result.  The event log, handoff and metric tables are      *)
(* written in the same transactions and read by no step.                   *)
(***************************************************************************)
EXTENDS Naturals, FiniteSets, Sequences

CONSTANTS Contracts,     \* all contracts, by descending rank_score: a sequence
          Dependencies,  \* dependencies of each contract
          RetryBudget,   \* retry_budget of each contract
          OnVerified,    \* on_verified_role of each contract, or "NONE"
          Clients,       \* processes that call the controller
          MaxResults     \* bound: results recorded for each contract

ContractIds == {Contracts[i] : i \in DOMAIN Contracts}
Roles == {"BUILDER", "JUDGE", "SRE"}

\* Contract ids are keys of the table, so each contract has one rank.
ASSUME FleetAssumption ==
  /\ Contracts \in Seq(ContractIds)
  /\ \A i, k \in DOMAIN Contracts : Contracts[i] = Contracts[k] => i = k
  /\ Dependencies \in [ContractIds -> SUBSET ContractIds]
  /\ RetryBudget \in [ContractIds -> Nat]
  /\ OnVerified \in [ContractIds -> Roles \union {"NONE"}]
  /\ MaxResults \in [ContractIds -> Nat] /\ IsFiniteSet(Clients)

VARIABLES contract,    \* fleet_contract_state
          leaseOut,    \* running contracts whose lease_until has passed
          results,     \* fleet_results with their rows of fleet_verdicts
          contracted,  \* the error budget of the subsystem is spent
          call         \* the call each client is in the middle of

fleetVars == <<contract, leaseOut, results, contracted, call>>

\* Representatives of SUCCESS_STATES, of the failure states, and of any other status.
SuccessStates == {"VERIFIED", "OPERATIONAL"}
Statuses == SuccessStates \union {"ABSENT", "READY", "RUNNING", "CANCELLED", "FAILED_PRESERVED",
                                  "INCONCLUSIVE"}
ReportedStatuses == {"AWAITING", "OPERATIONAL", "CANCELLED", "PARTIAL"}
VerdictValues == {"VERIFIED", "VERIFICATION_FAILED", "INCONCLUSIVE"}

NoCall == [op |-> "none"]
ResultCalls == [op : {"result"}, id : ContractIds, role : Roles]
VerdictCalls == [op : {"verdict"}, id : ContractIds, n : Nat]
IsCall(k) ==
  \/ k = NoCall \/ k \in ResultCalls \/ k \in VerdictCalls
  \/ \E ranks \in SUBSET DOMAIN Contracts : k \in [op : {"claim"}, role : Roles, rows : [ranks -> Nat]]

FleetTypeOK ==
  /\ contract \in [ContractIds -> [status : Statuses, owner : Roles, attempts : Nat]]
  /\ leaseOut \subseteq ContractIds
  /\ results \in [ContractIds ->
                   Seq([role : Roles, status : ReportedStatuses, verdicts : SUBSET VerdictValues])]
  /\ contracted \in BOOLEAN
  /\ call = [p \in Clients |-> call[p]] /\ \A p \in Clients : IsCall(call[p])

FleetInit ==
  /\ contract = [c \in ContractIds |-> [status |-> "ABSENT", owner |-> "BUILDER", attempts |-> 0]]
  /\ leaseOut = {}
  /\ results = [c \in ContractIds |-> <<>>]
  /\ contracted = FALSE
  /\ call = [p \in Clients |-> NoCall]

-------------------------------------------------------------------------------
\* A known idempotency key returns the contract that is there.
CreateContract(c) ==
  /\ contract[c].status = "ABSENT"
  /\ contract' = [contract EXCEPT ![c].status = "READY"]
  /\ UNCHANGED <<leaseOut, results, contracted, call>>

\* claim_next, first half: the contracts of the role that are ready or whose
\* lease ran out, by rank, each with the attempt_count it has now.
OpenRanks(role) ==
  {i \in DOMAIN Contracts :
     /\ contract[Contracts[i]].owner = role
     /\ \/ contract[Contracts[i]].status = "READY"
        \/ contract[Contracts[i]].status = "RUNNING" /\ Contracts[i] \in leaseOut}

ClaimSelects(p, role) ==
  /\ call[p] = NoCall /\ OpenRanks(role) # {}
  /\ call' = [call EXCEPT ![p] = [op |-> "claim", role |-> role,
                                 rows |-> [i \in OpenRanks(role) |-> contract[Contracts[i]].attempts]]]
  /\ UNCHANGED <<contract, leaseOut, results, contracted>>

\* Mutant: the comparison of the retry budget allows one attempt too many.
SpentOneLate(c, attempts) == attempts > RetryBudget[c] + 1

Spent(c, attempts) == attempts >= RetryBudget[c] + 1

\* One pass of the loop of claim_next, for a row that showed so many attempts;
\* table holds the rows as the transaction has them, and attempt_count is
\* incremented in the table, not from the row.
ClaimRow(role, limit, acc, c, attempts) ==
  IF Cardinality(acc.claimed) >= limit THEN acc
  ELSE IF Spent(c, attempts)
  THEN [acc EXCEPT !.table[c].status = "FAILED_PRESERVED"]
  ELSE IF \/ \E d \in Dependencies[c] : acc.table[d].status \notin SuccessStates
          \/ contracted /\ role \notin {"JUDGE", "SRE"}
  THEN acc
  ELSE [table |-> [acc.table EXCEPT ![c].status = "RUNNING", ![c].attempts = @ + 1],
        claimed |-> acc.claimed \union {c}]

\* The loop, up to each rank.
ClaimLoop(role, limit, rows) ==
  LET loop[n \in 0..Len(Contracts)] ==
        IF n = 0 THEN [table |-> contract, claimed |-> {}]
        ELSE IF n \in DOMAIN rows THEN ClaimRow(role, limit, loop[n - 1], Contracts[n], rows[n])
        ELSE loop[n - 1]
  IN  loop

\* claim_next, second half, for a batch_limit.
ClaimCommits(p, limit) ==
  /\ call[p].op = "claim"
  /\ LET done == ClaimLoop(call[p].role, limit, call[p].rows)[Len(Contracts)] IN
       contract' = done.table /\ leaseOut' = leaseOut \ done.claimed
  /\ call' = [call EXCEPT ![p] = NoCall]
  /\ UNCHANGED <<results, contracted>>

ContractLeaseLapses(c) ==
  /\ contract[c].status = "RUNNING" /\ c \notin leaseOut
  /\ leaseOut' = leaseOut \union {c}
  /\ UNCHANGED <<contract, results, contracted, call>>

\* record_result, first half: the caller's role must own the contract, or be
\* the judge's; neither its status nor its claimer is looked at.
ResultReads(p, c, role) ==
  /\ call[p] = NoCall
  /\ contract[c].status # "ABSENT" /\ Len(results[c]) < MaxResults[c]
  /\ contract[c].owner = role \/ role = "JUDGE"
  /\ call' = [call EXCEPT ![p] = [op |-> "result", id |-> c, role |-> role]]
  /\ UNCHANGED <<contract, leaseOut, results, contracted>>

Handoff(c, role) == [contract EXCEPT ![c].owner = role, ![c].status = "READY"]

ResultCommits(p, status) ==
  /\ call[p].op = "result" /\ Len(results[call[p].id]) < MaxResults[call[p].id]
  /\ LET c == call[p].id IN
       /\ results' = [results EXCEPT ![c] = Append(@, [role |-> call[p].role, status |-> status,
                                                      verdicts |-> {}])]
       /\ contract' = IF status = "AWAITING" THEN Handoff(c, "JUDGE")
                      ELSE IF status = "PARTIAL" THEN [contract EXCEPT ![c].status = "READY"]
                      ELSE [contract EXCEPT ![c].status = status]
       /\ leaseOut' = leaseOut \ {c}
  /\ call' = [call EXCEPT ![p] = NoCall]
  /\ UNCHANGED contracted

\* record_verdict, first half: any result without a verdict can be judged.
VerdictReads(p, c, n) ==
  /\ call[p] = NoCall
  /\ results[c][n].verdicts = {}
  /\ call' = [call EXCEPT ![p] = [op |-> "verdict", id |-> c, n |-> n]]
  /\ UNCHANGED <<contract, leaseOut, results, contracted>>

\* Mutant: the table has no UNIQUE(result_id).
NotConstrained(c, n) == TRUE

\* UNIQUE(result_id): the INSERT fails if somebody else's verdict came first.
Insertable(c, n) == results[c][n].verdicts = {}

VerdictCommits(p, v) ==
  /\ call[p].op = "verdict"
  /\ LET c == call[p].id
         n == call[p].n
     IN  /\ Insertable(c, n)
         /\ results' = [results EXCEPT ![c][n].verdicts = @ \union {v}]
         /\ leaseOut' = leaseOut \ {c}
         /\ contract' =
              IF v = "VERIFICATION_FAILED" THEN Handoff(c, "BUILDER")
              ELSE IF v = "VERIFIED" /\ OnVerified[c] # "NONE" THEN Handoff(c, OnVerified[c])
              ELSE [contract EXCEPT ![c].status = v, ![c].owner = "JUDGE"]
  /\ call' = [call EXCEPT ![p] = NoCall]
  /\ UNCHANGED contracted

\* The INSERT raises and the transaction is rolled back.
VerdictRefused(p) ==
  /\ call[p].op = "verdict"
  /\ ~Insertable(call[p].id, call[p].n)
  /\ call' = [call EXCEPT ![p] = NoCall]
  /\ UNCHANGED <<contract, leaseOut, results, contracted>>

\* record_error_event counts towards the subsystem's error budget; a day later
\* the event no longer does.
ErrorBudgetChanges ==
  /\ contracted' = ~contracted
  /\ UNCHANGED <<contract, leaseOut, results, call>>

\* A command is killed between its two halves.
ClientDies(p) ==
  /\ call[p] # NoCall
  /\ call' = [call EXCEPT ![p] = NoCall]
  /\ UNCHANGED <<contract, leaseOut, results, contracted>>

FleetNext ==
  \/ \E c \in ContractIds : CreateContract(c) \/ ContractLeaseLapses(c)
  \/ ErrorBudgetChanges
  \/ \E p \in Clients :
       \/ \E role \in Roles : ClaimSelects(p, role)
       \/ \E limit \in 1..3 : ClaimCommits(p, limit)
       \/ \E c \in ContractIds, role \in Roles : ResultReads(p, c, role)
       \/ \E status \in ReportedStatuses : ResultCommits(p, status)
       \/ \E c \in ContractIds : \E n \in DOMAIN results[c] : VerdictReads(p, c, n)
       \/ \E v \in VerdictValues : VerdictCommits(p, v)
       \/ VerdictRefused(p)
       \/ ClientDies(p)

FleetSpec == FleetInit /\ [][FleetNext]_fleetVars

-------------------------------------------------------------------------------
\* Claimers that overlap may overrun the retry budget of a contract, since each
\* compares the attempt_count it read before its transaction, but only by one
\* attempt per claimer: "retry_budget + 1" attempts with one, one more for each
\* other process that was between its two halves.
RetryBudgetOverrun ==
  \A c \in ContractIds : contract[c].attempts <= RetryBudget[c] + Cardinality(Clients)

\* No result is judged twice, whichever judges overlap, although record_verdict
\* looks for an existing verdict before its transaction.
JudgedOnce ==
  \A c \in ContractIds : \A n \in DOMAIN results[c] : Cardinality(results[c][n].verdicts) <= 1
===============================================================================
