---------------------------- MODULE MCEffectLedger ----------------------------
(* Small instances of EffectLedger for TLC.                                 *)
EXTENDS EffectLedger

CONSTANTS k1

\* All requests carry one key: a second one is an idempotency conflict.
OneKeyOf == [r \in Requests |-> k1]
===============================================================================
