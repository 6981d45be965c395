---------------------------- MODULE EffectOutcome ----------------------------
(***************************************************************************)
(* What the consequential-execution protocol frost-effect/1.0 promises     *)
(* about one external side effect per idempotency key, with none of the    *)
(* machinery (claims, leases, tokens, retries) that delivers it:           *)
(*   - the effect happens at most once;                                    *)
(*   - success is reported only for an effect that happened;               *)
(*   - once failure is reported the effect never happens.                  *)
(* EffectLedger implements this specification.                             *)
(***************************************************************************)
CONSTANT Keys

VARIABLES happened,  \* happened[k]: the executions that took effect
          report     \* report[k]: what the ledger tells its caller

vars == <<happened, report>>

Reports == {"none", "success", "failure"}

Init == /\ happened = [k \in Keys |-> {}]
        /\ report = [k \in Keys |-> "none"]

\* The external effect takes place, for the first and only time, by some
\* single execution.
Happen(k) ==
  /\ report[k] = "none"
  /\ happened[k] = {}
  /\ \E t \in happened'[k] : happened' = [happened EXCEPT ![k] = {t}]
  /\ UNCHANGED report

\* Callers are told how effects ended, several at once when one recovery scan
\* exhausts several budgets: success if the effect happened, failure if not.
Tell ==
  /\ report' \in [Keys -> Reports]
  /\ \A k \in Keys : report'[k] # report[k] =>
       /\ report[k] = "none"
       /\ report'[k] = IF happened[k] = {} THEN "failure" ELSE "success"
  /\ UNCHANGED happened

Next == Tell \/ \E k \in Keys : Happen(k)

Spec == Init /\ [][Next]_vars
==============================================================================
