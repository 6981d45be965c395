--------------------------- MODULE MCConditionWatch ---------------------------
(* Small instances of ConditionWatch for TLC.                               *)
EXTENDS ConditionWatch

CONSTANTS w1

\* Every process runs under the same configured worker_id.
SharedWorkerId == [p \in Processes |-> w1]
===============================================================================
