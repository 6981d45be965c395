----------------------------- MODULE EffectLedger -----------------------------
(***************************************************************************)
(* EffectProtocolLedger of src/frost_core/effects.py: the durable control  *)
(* ledger for consequential external effects ("frost-effect/1.0"), with    *)
(* the workers that call it and the external provider they invoke.         *)
(*                                                                         *)
(* Every method of the ledger runs under one RLock and commits once, so    *)
(* each is one action; claim() commits twice (the recovery scan, then the  *)
(* claim) and is two.  A call that raises, or that finds its own earlier   *)
(* result stored and returns it, changes nothing: it is a stuttering step. *)
(*                                                                         *)
(* Abstractions.  idempotency_key is UNIQUE, so a row is named by its key. *)
(* claim() mints a claim token exactly when it increments attempts, and    *)
(* begin_execution() mints an execution token at most once per claim (it   *)
(* needs CLAIMED, which only claim() sets): both uuids are named by the    *)
(* attempt number, an injective renaming; NoToken is SQL's NULL.  Wall     *)
(* clock comparisons are kept as the set of deadlines that have passed.    *)
(***************************************************************************)
EXTENDS Naturals

CONSTANTS Keys,            \* idempotency keys
          Requests,        \* immutable requests, by their SHA-256
          KeyOf,           \* the idempotency key each request carries
          Budgets,         \* the max_attempts values callers submit
          Workers,         \* worker_id values
          ProviderFences,  \* a NOT_EXECUTED answer also bars that token's late calls
          None

ASSUME LedgerAssumption ==
  /\ KeyOf \in [Requests -> Keys]
  /\ Budgets \subseteq Nat \ {0}
  /\ ProviderFences \in BOOLEAN
  /\ None \notin Requests /\ None \notin Workers

VARIABLES row,      \* the effects table
          past,     \* past[k]: the deadlines of k's row that have passed
          inserted, \* rows inserted so far: the next created_at
          work,     \* what each worker process holds in memory
          wire,     \* wire[k]: execution tokens of provider calls in flight
          applied,  \* applied[k]: execution tokens whose call took effect
          fenced    \* fenced[k]: execution tokens the provider bars

ledger == <<row, past, inserted>>
provider == <<wire, applied, fenced>>
vars == <<row, past, inserted, work, wire, applied, fenced>>

NoToken == 0
Tokens == Nat \ {0}

EffectState == {"PENDING_AUTHORIZATION", "AUTHORIZED", "CLAIMED", "EXECUTING",
                "RECOVERY_REQUIRED", "EXECUTED", "VERIFIED", "PUBLISHED",
                "ACKNOWLEDGED", "DENIED", "FAILED_RETRYABLE", "FAILED_TERMINAL",
                "VERIFICATION_FAILED", "CANCELLED"}

TERMINAL_STATES == {"ACKNOWLEDGED", "DENIED", "FAILED_TERMINAL",
                    "VERIFICATION_FAILED", "CANCELLED"}

\* expires_at of the request and claim_until.  The expiry of an authorization
\* is compared when it is granted and never again.
Deadlines == {"request", "lease"}

\* claim_token and claim_worker: both set, or both NULL.
NoClaim == [token |-> NoToken, worker |-> None]
Claims == [token : Nat, worker : Workers \union {None}]

\* The two flags of a verification record, as the set of those that are true.
Findings == {"passed", "independent"}

\* A key no row carries yet: ABSENT is not an EffectState.
NoRow == [state |-> "ABSENT", request |-> None, max |-> 1, created |-> 0,
          attempts |-> 0, authorization |-> None, claim |-> NoClaim,
          intent |-> NoToken, result |-> NoToken,
          verification |-> [of |-> NoToken, findings |-> {}]]

Rows == [state : EffectState \union {"ABSENT"},
         request : Requests \union {None},
         max : Nat \ {0},
         created : Nat,
         attempts : Nat,
         authorization : Requests \union {None},
         claim : Claims,
         intent : Nat,
         result : Nat,
         verification : [of : Nat, findings : SUBSET Findings]]

\* A worker process: the EffectClaim it was given and how far it got with it.
Idle == [phase |-> "idle", key |-> None, token |-> NoToken]
Polling == [phase |-> "polling", key |-> None, token |-> NoToken]
Holding(w) == work[w].phase \in {"claimed", "prepared", "invoked"}

Work == {Idle, Polling} \union
        [phase : {"claimed", "prepared", "invoked"}, key : Keys, token : Tokens]

Init ==
  /\ row = [k \in Keys |-> NoRow]
  /\ past = [k \in Keys |-> {}]
  /\ inserted = 0
  /\ work = [w \in Workers |-> Idle]
  /\ wire = [k \in Keys |-> {}]
  /\ applied = [k \in Keys |-> {}]
  /\ fenced = [k \in Keys |-> {}]

\* UPDATE effects SET ... WHERE effect_id=?
Update(k, r) == row' = [row EXCEPT ![k] = r]

Become(w, r) == work' = [work EXCEPT ![w] = r]

-------------------------------------------------------------------------------
(* The caller's side: submit, authorize, verify, publish, acknowledge.     *)

\* An INSERT the UNIQUE key admits.  A second submit of the same key either
\* returns the existing row or raises EffectConflict.
Submit(r, max) ==
  LET k == KeyOf[r] IN
  /\ row[k].state = "ABSENT"
  /\ Update(k, [NoRow EXCEPT !.state = "PENDING_AUTHORIZATION", !.request = r,
                             !.max = max, !.created = inserted])
  /\ inserted' = inserted + 1
  /\ UNCHANGED <<past, work, provider>>

\* EffectAuthorization.valid_for: the request it names, and which of its three
\* other conditions hold (approved, same capability, expires_at ahead).
Conditions == {"approved", "capability", "unexpired"}
Authorizations == [request : Requests, holds : SUBSET Conditions]
ValidFor(a, r) == a.request = r /\ a.holds = Conditions

Authorize(k, a) ==
  /\ row[k].state = "PENDING_AUTHORIZATION"
  /\ Update(k, [row[k] EXCEPT
         !.state = IF ValidFor(a, row[k].request) THEN "AUTHORIZED" ELSE "DENIED",
         !.authorization = a.request])
  /\ UNCHANGED <<past, inserted, work, provider>>

\* Mutant: a verification by the executor itself is accepted.
VerifyBySelf(k, findings) ==
  /\ row[k].state = "EXECUTED"
  /\ Update(k, [row[k] EXCEPT
         !.state = IF "passed" \in findings THEN "VERIFIED" ELSE "VERIFICATION_FAILED",
         !.verification = [of |-> row[k].result, findings |-> findings]])
  /\ UNCHANGED <<past, inserted, work, provider>>

Verify(k, findings) ==
  /\ row[k].state = "EXECUTED"
  /\ Update(k, [row[k] EXCEPT
         !.state = IF findings = Findings THEN "VERIFIED" ELSE "VERIFICATION_FAILED",
         !.verification = [of |-> row[k].result, findings |-> findings]])
  /\ UNCHANGED <<past, inserted, work, provider>>

Publish(k) ==
  /\ row[k].state = "VERIFIED"
  /\ Update(k, [row[k] EXCEPT !.state = "PUBLISHED"])
  /\ UNCHANGED <<past, inserted, work, provider>>

Acknowledge(k) ==
  /\ row[k].state = "PUBLISHED"
  /\ Update(k, [row[k] EXCEPT !.state = "ACKNOWLEDGED"])
  /\ UNCHANGED <<past, inserted, work, provider>>

-------------------------------------------------------------------------------
(* Claims and leases.                                                       *)

\* Mutants: a state name EffectState does not know; one retry too many.
RetryUnnamed(r) ==
  IF r.attempts < r.max THEN "RETRYABLE" ELSE "FAILED_TERMINAL"
RetryOnceMore(r) ==
  IF r.attempts <= r.max THEN "FAILED_RETRYABLE" ELSE "FAILED_TERMINAL"

\* The outcome of an attempt that is known to have had no effect.
RetryOrFail(r) ==
  IF r.attempts < r.max THEN "FAILED_RETRYABLE" ELSE "FAILED_TERMINAL"

\* Mutant: the scan selects by claim_until alone.
LeaseExpiredAnyState(k) == row[k].claim # NoClaim /\ "lease" \in past[k]

LeaseExpired(k) == /\ row[k].state \in {"CLAIMED", "EXECUTING"}
                   /\ row[k].claim # NoClaim
                   /\ "lease" \in past[k]

\* Mutant: an expired execution is released for retry like an expired claim.
RecoveredSilently(k) ==
  IF ~LeaseExpired(k) THEN row[k]
  ELSE [row[k] EXCEPT !.state = RetryOrFail(row[k]), !.claim = NoClaim]

\* recover_expired_claims on one row: a claim that expired before execution
\* is released; one that expired during it keeps claim and intent.
Recovered(k) ==
  IF ~LeaseExpired(k) THEN row[k]
  ELSE IF row[k].state = "CLAIMED"
    THEN [row[k] EXCEPT !.state = RetryOrFail(row[k]), !.claim = NoClaim]
    ELSE [row[k] EXCEPT !.state = "RECOVERY_REQUIRED"]

RecoverExpiredClaims ==
  /\ row' = [k \in Keys |-> Recovered(k)]
  /\ UNCHANGED <<past, inserted, provider>>

\* Anyone may run the scan by itself ...
Scan == RecoverExpiredClaims /\ UNCHANGED work

\* Mutant: claim() does not run the recovery scan.
PollWithoutScan(w) ==
  /\ work[w].phase = "idle"
  /\ Become(w, Polling)
  /\ UNCHANGED <<ledger, provider>>

\* ... and claim() runs it first, in a transaction of its own.
Poll(w) ==
  /\ work[w].phase = "idle"
  /\ RecoverExpiredClaims
  /\ Become(w, Polling)

Claimable(k) == row[k].state \in {"AUTHORIZED", "FAILED_RETRYABLE"}

\* ORDER BY created_at,effect_id LIMIT 1
Oldest(k) ==
  Claimable(k) /\ \A j \in Keys : Claimable(j) => row[k].created <= row[j].created

ClaimNothing(w) ==
  /\ work[w].phase = "polling"
  /\ \A k \in Keys : ~Claimable(k)
  /\ Become(w, Idle)
  /\ UNCHANGED <<ledger, provider>>

\* The oldest claimable request has expired, or its budget is spent: it is
\* closed and this call of claim() returns None.
ClaimCloses(w, k) ==
  /\ work[w].phase = "polling"
  /\ Oldest(k)
  /\ "request" \in past[k] \/ row[k].attempts + 1 > row[k].max
  /\ Update(k, [row[k] EXCEPT
         !.state = IF "request" \in past[k] THEN "CANCELLED" ELSE "FAILED_TERMINAL"])
  /\ Become(w, Idle)
  /\ UNCHANGED <<past, inserted, provider>>

\* The intent of an earlier attempt, if one is stored, is left in place.
Claim(w, k) ==
  /\ work[w].phase = "polling"
  /\ Oldest(k)
  /\ "request" \notin past[k]
  /\ row[k].attempts + 1 <= row[k].max
  /\ LET attempt == row[k].attempts + 1 IN
     /\ Update(k, [row[k] EXCEPT !.state = "CLAIMED", !.attempts = attempt,
                                 !.claim = [token |-> attempt, worker |-> w]])
     /\ Become(w, [phase |-> "claimed", key |-> k, token |-> attempt])
  /\ past' = [past EXCEPT ![k] = @ \ {"lease"}]
  /\ UNCHANGED <<inserted, provider>>

-------------------------------------------------------------------------------
(* Execution by the worker that holds a claim.                              *)

\* Mutant: the claim's identity is not compared.
ClaimMatchesAny(w, k) == row[k].claim # NoClaim

\* _validate_claim_identity
ClaimMatches(w, k) == row[k].claim = [token |-> work[w].token, worker |-> w]

\* The intent is durable before the provider is called.
BeginExecution(w) ==
  LET k == work[w].key IN
  /\ work[w].phase = "claimed"
  /\ row[k].state = "CLAIMED"
  /\ ClaimMatches(w, k)
  /\ "lease" \notin past[k]
  /\ Update(k, [row[k] EXCEPT !.state = "EXECUTING", !.intent = work[w].token])
  /\ Become(w, [work[w] EXCEPT !.phase = "prepared"])
  /\ UNCHANGED <<past, inserted, provider>>

\* Persisting a provider result against the stored intent.
Recordable(k, t) == /\ row[k].state \in {"EXECUTING", "RECOVERY_REQUIRED"}
                    /\ row[k].intent # NoToken
                    /\ row[k].intent = t

WithResult(k, t) == [row[k] EXCEPT !.state = "EXECUTED", !.result = t]

\* The worker got the provider's receipt, however late.
RecordExecution(w) ==
  LET k == work[w].key  t == work[w].token IN
  /\ work[w].phase = "invoked"
  /\ t \in applied[k]
  /\ Recordable(k, t)
  /\ Update(k, WithResult(k, t))
  /\ Become(w, Idle)
  /\ UNCHANGED <<past, inserted, provider>>

\* Mutant: every failure is recorded as retryable.
MarkEveryFailureRetryable(w, provider_not_invoked) ==
  LET k == work[w].key IN
  /\ Holding(w)
  /\ provider_not_invoked => work[w].phase # "invoked"
  /\ ClaimMatches(w, k)
  /\ row[k].state \in {"CLAIMED", "EXECUTING"}
  /\ Update(k, [row[k] EXCEPT !.state = RetryOrFail(row[k]), !.claim = NoClaim])
  /\ Become(w, Idle)
  /\ UNCHANGED <<past, inserted, provider>>

\* A worker says "not invoked" only of a call it has not made and then
\* drops the claim.  The stored intent is not cleared.
MarkExecutionFailure(w, provider_not_invoked) ==
  LET k == work[w].key IN
  /\ Holding(w)
  /\ provider_not_invoked => work[w].phase # "invoked"
  /\ ClaimMatches(w, k)
  /\ row[k].state \in {"CLAIMED", "EXECUTING"}
  /\ Update(k, IF provider_not_invoked
               THEN [row[k] EXCEPT !.state = RetryOrFail(row[k]), !.claim = NoClaim]
               ELSE [row[k] EXCEPT !.state = "RECOVERY_REQUIRED"])
  /\ Become(w, Idle)
  /\ UNCHANGED <<past, inserted, provider>>

\* A worker process dies, or gives up after the ledger refused its call.
WorkerStops(w) ==
  /\ work[w].phase # "idle"
  /\ Become(w, Idle)
  /\ UNCHANGED <<ledger, provider>>

\* What the provider (or an operator on its behalf) answers about an intent.
ReconcileUnknown(k) ==
  /\ row[k].state \in {"EXECUTING", "RECOVERY_REQUIRED"}
  /\ row[k].intent # NoToken
  /\ Update(k, [row[k] EXCEPT !.state = "RECOVERY_REQUIRED"])
  /\ UNCHANGED <<past, inserted, work, provider>>

ReconcileExecuted(k) ==
  /\ row[k].intent \in applied[k]
  /\ Recordable(k, row[k].intent)
  /\ Update(k, WithResult(k, row[k].intent))
  /\ UNCHANGED <<past, inserted, work, provider>>

ReconcileNotExecuted(k) ==
  /\ row[k].state \in {"EXECUTING", "RECOVERY_REQUIRED"}
  /\ row[k].intent # NoToken
  /\ row[k].intent \notin applied[k]
  /\ Update(k, [row[k] EXCEPT !.state = RetryOrFail(row[k]), !.claim = NoClaim,
                              !.intent = NoToken])
  /\ fenced' = IF ProviderFences
               THEN [fenced EXCEPT ![k] = @ \union {row[k].intent}]
               ELSE fenced
  /\ UNCHANGED <<past, inserted, work, wire, applied>>

-------------------------------------------------------------------------------
(* The environment: provider calls and the clock.                           *)

\* The worker sends its call; it may be overtaken by anything.
InvokeProvider(w) ==
  /\ work[w].phase = "prepared"
  /\ wire' = [wire EXCEPT ![work[w].key] = @ \union {work[w].token}]
  /\ Become(w, [work[w] EXCEPT !.phase = "invoked"])
  /\ UNCHANGED <<ledger, applied, fenced>>

ProviderApplies(k, t) ==
  /\ t \in wire[k]
  /\ wire' = [wire EXCEPT ![k] = @ \ {t}]
  /\ applied' = IF t \in fenced[k] THEN applied
                ELSE [applied EXCEPT ![k] = @ \union {t}]
  /\ UNCHANGED <<ledger, work, fenced>>

ProviderLoses(k, t) ==
  /\ t \in wire[k]
  /\ wire' = [wire EXCEPT ![k] = @ \ {t}]
  /\ UNCHANGED <<ledger, work, applied, fenced>>

\* A deadline is watched from the moment the row carries it.
DeadlineSet(k, d) ==
  \/ d = "request" /\ row[k].request # None
  \/ d = "lease" /\ row[k].claim # NoClaim

DeadlinePasses(k, d) ==
  /\ DeadlineSet(k, d)
  /\ d \notin past[k]
  /\ past' = [past EXCEPT ![k] = @ \union {d}]
  /\ UNCHANGED <<row, inserted, work, provider>>

-------------------------------------------------------------------------------

WorkerStep(w) ==
  \/ Poll(w)
  \/ ClaimNothing(w)
  \/ \E k \in Keys : ClaimCloses(w, k) \/ Claim(w, k)
  \/ BeginExecution(w)
  \/ InvokeProvider(w)
  \/ RecordExecution(w)
  \/ MarkExecutionFailure(w, TRUE) \/ MarkExecutionFailure(w, FALSE)
  \/ WorkerStops(w)

CallerStep ==
  \/ \E r \in Requests, max \in Budgets : Submit(r, max)
  \/ \E k \in Keys, a \in Authorizations : Authorize(k, a)
  \/ \E k \in Keys, findings \in SUBSET Findings : Verify(k, findings)
  \/ \E k \in Keys : Publish(k) \/ Acknowledge(k)

Reconcile(k) ==
  ReconcileUnknown(k) \/ ReconcileExecuted(k) \/ ReconcileNotExecuted(k)

Environment(k) ==
  \/ \E t \in wire[k] : ProviderApplies(k, t) \/ ProviderLoses(k, t)
  \/ \E d \in Deadlines : DeadlinePasses(k, d)

Next ==
  \/ CallerStep
  \/ \E w \in Workers : WorkerStep(w)
  \/ Scan
  \/ \E k \in Keys : Reconcile(k) \/ Environment(k)

Spec == Init /\ [][Next]_vars

\* The fairness a deployment owes the ledger, which schedules nothing itself:
\* worker loops keep running (or stop and are restarted), a polling worker is
\* not killed every single time before it claims, leases run out, and every
\* uncertain execution is eventually looked up with a definite answer.
FairSpec ==
  /\ Spec
  /\ \A w \in Workers : WF_vars(WorkerStep(w))
  /\ SF_vars(\E w \in Workers, k \in Keys : Claim(w, k) \/ ClaimCloses(w, k))
  /\ \A k \in Keys : /\ WF_vars(DeadlinePasses(k, "lease"))
                     /\ WF_vars(ReconcileExecuted(k) \/ ReconcileNotExecuted(k))

-------------------------------------------------------------------------------
(* Properties.                                                              *)

\* The effects table, the workers' memory and the provider have their types.
TypeOK ==
  /\ row \in [Keys -> Rows]
  /\ past \in [Keys -> SUBSET Deadlines]
  /\ inserted \in Nat
  /\ work \in [Workers -> Work]
  /\ wire \in [Keys -> SUBSET Tokens]
  /\ applied \in [Keys -> SUBSET Tokens]
  /\ fenced \in [Keys -> SUBSET Tokens]

Delivered == {"EXECUTED", "VERIFIED", "PUBLISHED", "ACKNOWLEDGED",
              "VERIFICATION_FAILED"}

\* Exactly-once boundary (class docstring and crash boundary of
\* begin_execution): however workers crash, leases expire, calls are delayed
\* and attempts are retried, the provider applies at most one execution per
\* idempotency key.
AppliedAtMostOnce ==
  \A k \in Keys : \A s, t \in applied[k] : s = t

\* A row that offers the effect for another attempt, or has given it up, is
\* right that nothing happened: no earlier attempt took effect, and none is
\* still able to (no unbarred call in flight, no worker about to make one).
NothingOutstanding(k) ==
  /\ applied[k] = {}
  /\ wire[k] \subseteq fenced[k]
  /\ \A w \in Workers : work[w].phase = "prepared" /\ work[w].key = k
                        => work[w].token \in fenced[k]

RetryOnlyWhenNothingHappened ==
  \A k \in Keys :
    row[k].state \in {"AUTHORIZED", "CLAIMED", "FAILED_RETRYABLE",
                      "FAILED_TERMINAL", "CANCELLED", "DENIED"}
      => NothingOutstanding(k)

\* A recorded result is the receipt of a call that really took effect, and
\* what is published or acknowledged passed an independent verification of
\* that very result, under an authorization of that very request.
PublishedIsVerified ==
  \A k \in Keys :
    /\ row[k].state \in Delivered =>
         /\ row[k].result \in applied[k]
         /\ row[k].authorization = row[k].request
    /\ row[k].state \in {"VERIFIED", "PUBLISHED", "ACKNOWLEDGED"} =>
         row[k].verification = [of |-> row[k].result, findings |-> Findings]

\* The retry budget: a row waiting for an attempt has one left, so the
\* attempt_budget_exhausted branch of claim() never runs, and no row is
\* attempted more often than max_attempts.
BudgetRespected ==
  \A k \in Keys :
    /\ row[k].attempts <= row[k].max
    /\ row[k].state \in {"AUTHORIZED", "FAILED_RETRYABLE"} => row[k].attempts < row[k].max

\* Durable facts are written once: no later call, by whichever worker and
\* however stale its claim, changes a stored request, authorization, result
\* or verification, and a terminal state is never left.
FactsAreImmutable ==
  [][\A k \in Keys :
       /\ row[k].state \in TERMINAL_STATES => row'[k] = row[k]
       /\ row[k].request # None => row'[k].request = row[k].request
       /\ row[k].authorization # None => row'[k].authorization = row[k].authorization
       /\ row[k].result # NoToken => row'[k].result = row[k].result
       /\ row[k].verification.of # NoToken => row'[k].verification = row[k].verification]_vars

\* A worker whose claim was superseded can no longer move the row: whenever a
\* worker's own ledger call changes a CLAIMED or EXECUTING row it does not
\* release by lease expiry, the row's claim is the one that worker holds.
StaleClaimsAreFenced ==
  [][\A w \in Workers, k \in Keys :
       /\ Holding(w) /\ work'[w] # work[w] /\ work[w].key = k
       /\ row[k].state \in {"CLAIMED", "EXECUTING"} /\ row'[k] # row[k]
       => row[k].claim = [token |-> work[w].token, worker |-> w]]_vars

Outcome(k) == CASE row[k].state \in Delivered -> "success"
                [] row[k].state \in {"DENIED", "CANCELLED", "FAILED_TERMINAL"} -> "failure"
                [] OTHER -> "none"

\* The ledger implements EffectOutcome: at most one effect per key, success
\* only for what happened, and failure only for what never happens.
Abstract == INSTANCE EffectOutcome WITH happened <- applied,
                                        report <- [k \in Keys |-> Outcome(k)]
OutcomeSpec == Abstract!Spec

\* A row in RECOVERY_REQUIRED that names no execution intent.
Unreconcilable(k) == row[k].state = "RECOVERY_REQUIRED" /\ row[k].intent = NoToken

\* Every authorized effect is eventually executed, given up within its
\* budget or cancelled, unless it reaches RECOVERY_REQUIRED with no intent
\* to reconcile.
EffectResolves ==
  \A k \in Keys :
    row[k].state \in {"AUTHORIZED", "CLAIMED", "EXECUTING", "RECOVERY_REQUIRED",
                      "FAILED_RETRYABLE"}
      ~> \/ row[k].state \in Delivered \union {"FAILED_TERMINAL", "CANCELLED"}
         \/ Unreconcilable(k)

\* mark_execution_failure (effects.py:448) moves an effect "to
\* RECOVERY_REQUIRED for reconciliation": such a row can be reconciled.
RecoveryIsReconcilable == \A k \in Keys : ~Unreconcilable(k)
===============================================================================
