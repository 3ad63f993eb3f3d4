---------------------------- MODULE MCLiveStream ----------------------------
(* Three requests in flight; two streams of one host. *)
EXTENDS LiveStream
============================================================================
