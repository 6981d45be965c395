----------------------------- MODULE WatchNotice -----------------------------
(***************************************************************************)
(* What the condition watch promises about one immutable target, without   *)
(* leases, attempts or tables:                                             *)
(*   - the first terminal state observed is the verdict, for good;         *)
(*   - whoever is notified, once or several times, is told that verdict;   *)
(*   - delivery is reported only after the notification was received, and  *)
(*     a report is final.                                                  *)
(* ConditionWatch implements this specification.                           *)
(***************************************************************************)
CONSTANTS Targets, States, None

VARIABLES verdict,   \* verdict[t]: the state the watch settled on
          received,  \* received[t]: the states the recipient was told
          report     \* report[t]: what the ledger says of the delivery

vars == <<verdict, received, report>>

\* A ledger may be inherited: some verdicts are known, some of them received.
Init ==
  /\ verdict \in [Targets -> States \union {None}]
  /\ received \in [Targets -> SUBSET States]
  /\ \A t \in Targets : received[t] \subseteq {verdict[t]}
  /\ report = [t \in Targets |-> "open"]

Decide(t) ==
  /\ verdict[t] = None
  /\ \E s \in States : verdict' = [verdict EXCEPT ![t] = s]
  /\ UNCHANGED <<received, report>>

\* A notification arrives, perhaps again, perhaps after the report.
Receive(t) ==
  /\ verdict[t] # None
  /\ received' = [received EXCEPT ![t] = {verdict[t]}]
  /\ UNCHANGED <<verdict, report>>

ReportDelivered(t) ==
  /\ report[t] = "open"
  /\ verdict[t] \in received[t]
  /\ report' = [report EXCEPT ![t] = "delivered"]
  /\ UNCHANGED <<verdict, received>>

ReportAbandoned(t) ==
  /\ report[t] = "open"
  /\ verdict[t] # None
  /\ report' = [report EXCEPT ![t] = "abandoned"]
  /\ UNCHANGED <<verdict, received>>

Next == \E t \in Targets :
  Decide(t) \/ Receive(t) \/ ReportDelivered(t) \/ ReportAbandoned(t)

Spec == Init /\ [][Next]_vars
==============================================================================
