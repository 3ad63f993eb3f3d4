--------------------------- MODULE MCCallBilling ---------------------------
(* One call, billed up to the start of its second minute; a minute is two   *)
(* ticks. One fault: a node dies, finds its Redis client closed, or a call  *)
(* fails.                                                                   *)
EXTENDS CallBilling, TLC

Symmetry == Permutations(Workers)

\* A fault or a recharge, not both in one behaviour.
OneMishap == faults + topUps <= 1
============================================================================
