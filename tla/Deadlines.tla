----------------------------- MODULE Deadlines -----------------------------
(***************************************************************************)
(* What the durable timers of cluster.service.js promise, without nodes,   *)
(* local timers, payloads or a sweeper: a deadline is scheduled, may be    *)
(* replaced or cancelled while it is pending, is claimed at most once, and *)
(* its handler runs at most once per scheduled deadline.  A claimed        *)
(* deadline whose process dies is lost: the promise is at-most-once.  It   *)
(* is void from the first failure of Redis on.                             *)
(***************************************************************************)
EXTENDS Naturals

CONSTANTS Members,       \* "<kind>|<key>" names of deadlines
          MaxSchedules   \* how many times scheduleDurable is called

Ids == 1..MaxSchedules   \* one identity per scheduled deadline

VARIABLES pending,       \* member -> identity of its pending deadline, 0 if none
          claimed,       \* identities claimed whose handler has not started yet
          runs,          \* identity -> times its handler was started
          void           \* Redis has failed: nothing is promised any more

vars == <<pending, claimed, runs, void>>

TypeOK ==
    /\ pending \in [Members -> 0..MaxSchedules]
    /\ claimed \in SUBSET Ids
    /\ runs \in [Ids -> Nat]
    /\ void \in BOOLEAN

Init ==
    /\ pending = [m \in Members |-> 0]
    /\ claimed = {}
    /\ runs = [g \in Ids |-> 0]
    /\ void = FALSE

\* A new deadline for m; it replaces the one that is pending.
Schedule(m, g) ==
    /\ \A k \in Members : pending[k] # g
    /\ g \notin claimed
    /\ runs[g] = 0
    /\ pending' = [pending EXCEPT ![m] = g]
    /\ UNCHANGED <<claimed, runs>>

\* m's deadline is dropped (cancelled, or removed by a claim that died).
Drop(m) ==
    /\ pending' = [pending EXCEPT ![m] = 0]
    /\ UNCHANGED <<claimed, runs>>

\* Exactly one claimer takes m's deadline.
Claim(m) ==
    /\ pending[m] # 0
    /\ pending' = [pending EXCEPT ![m] = 0]
    /\ claimed' = claimed \cup {pending[m]}
    /\ UNCHANGED runs

\* The handler of a claimed deadline starts.
Run(g) ==
    /\ g \in claimed
    /\ claimed' = claimed \ {g}
    /\ runs' = [runs EXCEPT ![g] = @ + 1]
    /\ UNCHANGED pending

\* The processes holding the claims in S die before they start the handlers.
Lose(S) ==
    /\ claimed' = claimed \ S
    /\ UNCHANGED <<pending, runs>>

Step ==
    \/ \E m \in Members, g \in Ids : Schedule(m, g)
    \/ \E m \in Members : Drop(m) \/ Claim(m)
    \/ \E g \in Ids : Run(g)
    \/ \E S \in SUBSET Ids : Lose(S)

Next == (Step /\ UNCHANGED void) \/ void'

Spec == Init /\ [][Next]_vars

============================================================================
