---------------------------- MODULE IdealBuckets ----------------------------
(***************************************************************************)
(* What a token bucket promises: every key has a level of at most          *)
(* Capacity, which regains Refill with each tick of the clock; a request   *)
(* is allowed when it finds Cost there, and takes it.                      *)
(***************************************************************************)
EXTENDS Naturals

CONSTANTS Keys, Capacity, Refill, Cost

VARIABLES level, \* what each key may still spend
          last   \* the last request of each key, and whether it was allowed

idealVars == <<level, last>>

Capped(n) == IF n < Capacity THEN n ELSE Capacity

Init ==
    /\ level = [k \in Keys |-> Capacity]
    /\ last = [k \in Keys |-> TRUE]

Tick ==
    /\ level' = [k \in Keys |-> Capped(level[k] + Refill)]
    /\ UNCHANGED last

Take(k) ==
    /\ level' = [level EXCEPT ![k] = IF @ >= Cost THEN @ - Cost ELSE @]
    /\ last' = [last EXCEPT ![k] = level[k] >= Cost]

Next == Tick \/ \E k \in Keys : Take(k)

Spec == Init /\ [][Next]_idealVars
=============================================================================
