--------------------------- MODULE CallLifecycle ---------------------------
(***************************************************************************)
(* What videoCall/service.js promises of one call, without requests, locks *)
(* and interleavings: a call rings, is accepted (and minute 1 billed),     *)
(* missed or rejected; an accepted call ends; nothing changes afterwards,  *)
(* and the end is announced at most once.                                  *)
(***************************************************************************)
EXTENDS Naturals

CONSTANT Calls           \* identities of video_call_session rows

VARIABLES status,        \* call -> "NONE" until its row is created
          billed,        \* calls whose minute 1 was billed
          told           \* call -> times its end was announced

vars == <<status, billed, told>>

Statuses == {"NONE", "RINGING", "ACTIVE", "ENDED", "MISSED", "REJECTED"}
Terminal == {"ENDED", "MISSED", "REJECTED"}

Init ==
    /\ status = [i \in Calls |-> "NONE"]
    /\ billed = {}
    /\ told = [i \in Calls |-> 0]

Move(i, from, to) ==
    /\ status[i] = from
    /\ status' = [status EXCEPT ![i] = to]
    /\ UNCHANGED told

Create(i) == Move(i, "NONE", "RINGING") /\ UNCHANGED billed
Accept(i) == Move(i, "RINGING", "ACTIVE") /\ billed' = billed \cup {i}
Miss(i)   == Move(i, "RINGING", "MISSED") /\ UNCHANGED billed
Reject(i) == Move(i, "RINGING", "REJECTED") /\ UNCHANGED billed
End(i)    == Move(i, "ACTIVE", "ENDED") /\ UNCHANGED billed

Announce(i) ==
    /\ status[i] \in Terminal
    /\ told[i] = 0
    /\ told' = [told EXCEPT ![i] = 1]
    /\ UNCHANGED <<status, billed>>

Next == \E i \in Calls :
            Create(i) \/ Accept(i) \/ Miss(i) \/ Reject(i) \/ End(i) \/ Announce(i)

Spec == Init /\ [][Next]_vars
============================================================================
