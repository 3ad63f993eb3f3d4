-------------------------- MODULE MCCallSession ---------------------------
(* Requests and users are interchangeable in the safety run. *)
EXTENDS CallSession, TLC

Interchangeable == Permutations(Users) \cup Permutations(Procs)
============================================================================
