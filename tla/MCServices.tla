----------------------------- MODULE MCServices -----------------------------
(***************************************************************************)
(* The services around calls, streams and rooms for TLC.  They share no    *)
(* variable: a behaviour follows one of them, chosen at the start, so that *)
(* the state spaces add up instead of multiplying.                         *)
(***************************************************************************)
EXTENDS Gifts, LuckyDraw, Access, FailureLog, LeaderLock, Breaker, TokenBuckets,
        HostStats, TLC

VARIABLE part

\* A part that is not followed starts in one state only.
Init ==
    /\ part \in {"gifts", "draws", "users", "admins", "failures",
                 "leader", "breaker", "buckets", "stats"}
    /\ GiftsInit /\ DrawInit /\ AccessInit /\ FailureInit
    /\ LeaderInit /\ BreakerInit /\ BucketsInit /\ StatsInit
    /\ part # "gifts"   => kind = "live" /\ keyed = TRUE
    /\ part # "draws"   => diff = 0
    /\ part # "users"   => modes = [session |-> "log", socket |-> "off"]
    /\ part # "admins"  => /\ adminRow.role = "MODERATOR" /\ adminRow.views = "none"
    /\ part # "buckets" => limitModes = [rate |-> "off", guard |-> "off"]

services == <<giftVars, drawVars, accessVars>>
guards == <<failVars, leaderVars, breakerVars, bucketVars, statsVars>>

ServiceNext ==
    \/ /\ part = "gifts" /\ GiftsNext
       /\ UNCHANGED <<drawVars, accessVars>>
    \/ /\ part = "draws" /\ Draw
       /\ UNCHANGED <<giftVars, accessVars>>
    \/ /\ part = "users" /\ UserNext
       /\ UNCHANGED <<giftVars, drawVars>>
    \/ /\ part = "admins" /\ AdminNext
       /\ UNCHANGED <<giftVars, drawVars>>

GuardNext ==
    \/ /\ part = "failures" /\ FailureNext
       /\ UNCHANGED <<leaderVars, breakerVars, bucketVars, statsVars>>
    \/ /\ part = "leader" /\ LeaderNext
       /\ UNCHANGED <<failVars, breakerVars, bucketVars, statsVars>>
    \/ /\ part = "breaker" /\ BreakerNext
       /\ UNCHANGED <<failVars, leaderVars, bucketVars, statsVars>>
    \/ /\ part = "buckets" /\ BucketsNext
       /\ UNCHANGED <<failVars, leaderVars, breakerVars, statsVars>>
    \/ /\ part = "stats" /\ StatsNext
       /\ UNCHANGED <<failVars, leaderVars, breakerVars, bucketVars>>

Next ==
    /\ \/ ServiceNext /\ UNCHANGED guards
       \/ GuardNext /\ UNCHANGED services
    /\ UNCHANGED part

\* The tries of a gift, and the nodes, differ in nothing.
Symmetric == Permutations(Tries) \cup Permutations(Nodes)

Spec == Init /\ [][Next]_<<part, services, guards>>
=============================================================================
