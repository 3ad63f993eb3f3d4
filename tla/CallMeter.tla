----------------------------- MODULE CallMeter -----------------------------
(***************************************************************************)
(* What the billing of an accepted call promises, without timers, sweeps,  *)
(* keys and workers: time passes, minutes are charged one at a time, each  *)
(* after it has begun and with a coin of the caller, until the call is     *)
(* over, once, at the time and for the reason its row keeps: now, at the   *)
(* end of a minute that was paid, or at a drop of the caller once one of   *)
(* its drops has had its grace.                                            *)
(***************************************************************************)
EXTENDS Naturals

CONSTANTS Minute,   \* clock ticks in a minute
          Grace,    \* what a dropped participant is given
          Never     \* a time that is not set

VARIABLES now,
          charged,  \* minutes paid
          coins,    \* of the caller
          left,     \* when the caller was seen to drop
          over,     \* the call has ended
          at, why   \* as its row says

meterVars == <<now, charged, coins, left, over, at, why>>

Init ==
    /\ now = 0 /\ charged = 1 /\ coins \in Nat /\ left = {}
    /\ over = FALSE /\ at = Never /\ why = "none"

Pass == now' = now + 1 /\ UNCHANGED <<charged, coins, left, over, at, why>>

\* Minute charged + 1 begins when charged minutes have passed.
Charge ==
    /\ ~over
    /\ charged * Minute <= now
    /\ coins > 0
    /\ charged' = charged + 1 /\ coins' = coins - 1
    /\ UNCHANGED <<now, left, over, at, why>>

\* The caller recharges, or spends coins on something else.
Recharge == coins' = coins + 1 /\ UNCHANGED <<now, charged, left, over, at, why>>
Spend == coins > 0 /\ coins' = coins - 1 /\ UNCHANGED <<now, charged, left, over, at, why>>

\* The caller is seen to lose a socket.
Drop == ~over /\ left' = left \cup {now} /\ UNCHANGED <<now, charged, coins, over, at, why>>

End ==
    /\ ~over
    /\ over' = TRUE
    /\ \/ why' \in {"hang_up", "balance"} /\ at' = now
       \/ why' = "low_coin" /\ \E m \in 1..charged : at' = m * Minute
       \/ why' = "disconnected" /\ at' \in left /\ \E t \in left : t + Grace <= now
    /\ UNCHANGED <<now, charged, coins, left>>

Next == Pass \/ Charge \/ Recharge \/ Spend \/ Drop \/ End

Spec == Init /\ [][Next]_meterVars
=============================================================================
