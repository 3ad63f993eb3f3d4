----------------------------- MODULE LuckyDraw -----------------------------
(***************************************************************************)
(* The local draw of a lucky gift, luckyReward.engine.js: how the reserve  *)
(* pool's return to player bends the odds, and how a combo's reward is     *)
(* broken down into the steps the app plays.  A behaviour is one draw.     *)
(* Percentages are counted in halves and weights in tenths, so that every  *)
(* quotient the code rounds is an integer quotient here.                   *)
(***************************************************************************)
EXTENDS Integers, Functions

CONSTANTS MaxDiff,    \* bound: |target - current| of the pool, in half percents
          MaxReward,  \* bound of a combo's reward
          Weights,    \* the random weights of the steps
          MaxSteps    \* steps of a combo, at most 10 in the code

ASSUME DrawAssumption ==
    /\ MaxDiff \in Nat /\ MaxReward \in Nat /\ MaxSteps \in Nat \ {0}
    /\ Weights \subseteq Nat \ {0}

\* Math.round of n / d.
Round(n, d) == (2 * n + d) \div (2 * d)
Least(a, b) == IF a <= b THEN a ELSE b
Most(a, b) == IF a >= b THEN a ELSE b

\* What a table of odds returns on average: the sum of weight times return, and of weights.
Return(odds) == [num |-> SumFunction([k \in DOMAIN odds |-> odds[k].weight * odds[k].pays]),
                 den |-> SumFunction([k \in DOMAIN odds |-> odds[k].weight])]
Below(a, b) == a.num * b.den < b.num * a.den

-----------------------------------------------------------------------------
\* stepMultipliers and getDynamicStepMultipliers, d halves of a percent below the target.

Steps(miss, medium, jackpot) ==
    [MISS    |-> [pays |-> 0, weight |-> miss],   SMALL   |-> [pays |-> 5, weight |-> 300],
     EQUAL   |-> [pays |-> 10, weight |-> 200],   MEDIUM  |-> [pays |-> 25, weight |-> medium],
     JACKPOT |-> [pays |-> 100, weight |-> jackpot]]

SingleOdds(d) ==
    LET b == Least(10, d)
        r == Least(10, -d)
    IN  CASE d > 4  -> Steps(Most(100, 400 - 10 * b), 90 + 10 * Round(3 * b, 4), 10 + 10 * Round(b, 4))
          [] d < -4 -> Steps(400 + 10 * Round(8 * r, 10), Most(20, 90 - 10 * Round(6 * r, 10)),
                             Most(1, 10 - 10 * Round(2 * r, 10)))
          [] OTHER  -> Steps(400, 90, 10)

\* comboOdds, LEGACY_COMBO_REDUCE_WEIGHTS, comboOddsForDraw; returns in hundredths.
Combo(w, nudge) ==
    [MISS    |-> [pays |-> 0 + nudge, weight |-> w[1]],   UNLUCKY    |-> [pays |-> 50 + nudge, weight |-> w[2]],
     NORMAL  |-> [pays |-> 90 + nudge, weight |-> w[3]],  BREAK_EVEN |-> [pays |-> 100 + nudge, weight |-> w[4]],
     WINNER  |-> [pays |-> 150 + nudge, weight |-> w[5]]]

NeutralWeights == <<20, 25, 35, 15, 5>>
\* LUCKY_LEGACY_COMBO_REDUCE_FIX=false: every return is cut by five hundredths, but to no
\* less than a half.
ComboOddsUnfixed(d) ==
    IF d < -4
    THEN [k \in DOMAIN Combo(NeutralWeights, 0) |->
             [Combo(NeutralWeights, -5)[k] EXCEPT !.pays = Most(50, @)]]
    ELSE Combo(NeutralWeights, IF d > 4 THEN 5 ELSE 0)
ComboOdds(d) ==
    CASE d < -4 -> Combo(<<28, 27, 32, 11, 2>>, 0)
      [] d > 4  -> Combo(NeutralWeights, 5)
      [] OTHER  -> Combo(NeutralWeights, 0)

-----------------------------------------------------------------------------
\* calculateComboReward: the reward in steps, each its rounded share of the weights, the
\* last one what is left.

Share(coins, w, i) == Round(w[i] * coins, SumFunction(w))

Breakdown(coins, w) ==
    LET n == MaxSteps
        left[i \in 0..n - 1] ==
            IF i = 0 THEN coins
            ELSE left[i - 1] - Least(Share(coins, w, i), left[i - 1])
    IN  [i \in 1..n |-> IF i < n THEN left[i - 1] - left[i] ELSE Most(0, left[n - 1])]

-----------------------------------------------------------------------------
VARIABLES diff,   \* target less current return of the pool
          reward, \* of the combo
          steps   \* what the app plays
drawVars == <<diff, reward, steps>>

DrawInit == diff \in -MaxDiff..MaxDiff /\ reward = 0 /\ steps = [i \in 1..MaxSteps |-> 0]

Draw ==
    /\ reward = 0
    /\ reward' \in 1..MaxReward
    /\ \E w \in [1..MaxSteps -> Weights] : steps' = Breakdown(reward', w)
    /\ UNCHANGED diff

DrawSpec == DrawInit /\ [][Draw]_drawVars

\* The steps the app adds up come to the reward that is paid, and none takes back coins.
BreakdownSums ==
    /\ SumFunction(steps) = reward
    /\ \A i \in 1..MaxSteps : steps[i] >= 0

\* A pool that has paid too much makes draws that return less than the neutral ones, and a
\* pool that has paid too little more: single gifts and combos.
DrawFollowsTarget ==
    /\ diff > 4 => /\ Below(Return(SingleOdds(0)), Return(SingleOdds(diff)))
                   /\ Below(Return(ComboOdds(0)), Return(ComboOdds(diff)))
    /\ diff < -4 => /\ Below(Return(SingleOdds(diff)), Return(SingleOdds(0)))
                    /\ Below(Return(ComboOdds(diff)), Return(ComboOdds(0)))

\* The draw pays what it shows, and steers the pool to its target.
DrawIsSound == BreakdownSums /\ DrawFollowsTarget
=============================================================================
