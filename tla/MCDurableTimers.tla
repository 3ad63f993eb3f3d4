-------------------------- MODULE MCDurableTimers --------------------------
(* Two nodes, one member, two schedule calls and one crash. *)
EXTENDS DurableTimers
============================================================================
