--------------------------- MODULE DurableTimers ---------------------------
(***************************************************************************)
(* The durable timers of services/cluster.service.js: a deadline lives in  *)
(* a Redis ZSET (score) and HASH (payload) shared by the nodes, and in a   *)
(* local setTimeout of the node that scheduled it; a sweeper fires what no *)
(* local timer fired.                                                      *)
(*                                                                         *)
(* A node talks to Redis over one pipelined connection, so the synchronous *)
(* part of a call and the first command it issues are one step; every      *)
(* later await is a step of its own.  Time is an integer that may run past *)
(* a deadline by any amount before its timer is served.                    *)
(***************************************************************************)
EXTENDS Naturals, FiniteSets

CONSTANTS Nodes,         \* Live-server processes
          Members,       \* "<kind>|<key>" names of deadlines
          MaxTime,       \* bound on the clock
          MaxSchedules,  \* bound on scheduleDurable calls
          MaxCrashes,    \* bound on process deaths
          MaxFaults,     \* bound on failed Redis commands and closed connections
          SweepGrace     \* SWEEP_GRACE_MS

ASSUME DurableTimersAssumption ==
    /\ MaxTime \in Nat
    /\ MaxSchedules \in Nat
    /\ MaxCrashes \in Nat
    /\ MaxFaults \in Nat
    /\ SweepGrace \in Nat

VARIABLES now,        \* Date.now()
          up,         \* running processes
          open,       \* processes whose redisClient.isOpen
          deadline,   \* live:deadlines: member -> score, and which call wrote it
          payload,    \* live:deadlines:payload: member -> call whose payload it is, or 0
          handles,    \* armed setTimeouts
          tracked,    \* localTimers: node -> member -> call whose handle it holds, or 0
          calls,      \* scheduleDurable calls waiting for their Redis reply
          fires,      \* fire calls that have claimed (ZREM = 1) and not run yet
          due,        \* node -> rest of its sweeper's zRangeByScore result
          runs,       \* history: call -> times a handler ran for it (2: at least)
          nextGen,    \* number of the next scheduleDurable call
          crashes,    \* process deaths so far
          faults      \* Redis faults so far

redisVars == <<deadline, payload>>
localVars == <<handles, tracked, calls, due>>
envVars   == <<now, up, open, crashes>>
vars == <<now, up, open, deadline, payload, handles, tracked, calls, fires,
          due, runs, nextGen, crashes, faults>>

Gens     == 1..MaxSchedules
NoEntry  == [at |-> 0, gen |-> 0]
Timer    == [gen : Gens, node : Nodes, member : Members, at : 0..MaxTime,
             persisted : BOOLEAN]
Fire     == [gen : Gens, node : Nodes, member : Members, payload : 0..MaxSchedules,
             stage : {"fetch", "drop"}]

TypeOK ==
    /\ now \in 0..MaxTime
    /\ up \in SUBSET Nodes
    /\ open \in SUBSET Nodes
    /\ deadline \in [Members -> [at : 0..MaxTime, gen : 0..MaxSchedules]]
    /\ payload \in [Members -> 0..MaxSchedules]
    /\ handles \in SUBSET Timer
    /\ tracked \in [Nodes -> [Members -> 0..MaxSchedules]]
    /\ calls \in SUBSET Timer
    /\ fires \in SUBSET Fire
    /\ due \in [Nodes -> SUBSET Members]
    /\ runs \in [Gens -> 0..2]
    /\ nextGen \in 1..(MaxSchedules + 1)
    /\ crashes \in 0..MaxCrashes
    /\ faults \in 0..MaxFaults

Init ==
    /\ now = 0
    /\ up = Nodes
    /\ open = Nodes
    /\ deadline = [m \in Members |-> NoEntry]
    /\ payload = [m \in Members |-> 0]
    /\ handles = {}
    /\ tracked = [n \in Nodes |-> [m \in Members |-> 0]]
    /\ calls = {}
    /\ fires = {}
    /\ due = [n \in Nodes |-> {}]
    /\ runs = [g \in Gens |-> 0]
    /\ nextGen = 1
    /\ crashes = 0
    /\ faults = 0

----------------------------------------------------------------------------
(* scheduleDurable and cancelDurable *)

\* A Redis command fails (it may have been executed), or a connection closes.
Fault == faults < MaxFaults /\ faults' = faults + 1

\* clearTimeout(localTimers.get(member)): the handle is disarmed, its entry stays.
Disarm(n, m) == {h \in handles : h.node = n /\ h.member = m /\ h.gen = tracked[n][m]}

\* setTimeout(...) and localTimers.set(member, handle).
ArmTimer(armed, t) ==
    /\ handles' = armed \cup {t}
    /\ tracked' = [tracked EXCEPT ![t.node][t.member] = t.gen]

\* zAdd + hSet in one MULTI.
Persist(m, at, g) ==
    /\ deadline' = [deadline EXCEPT ![m] = [at |-> at, gen |-> g]]
    /\ payload' = [payload EXCEPT ![m] = g]

\* scheduleDurable up to its await: disarm the old timer and send the MULTI, which
\* may fail before or after Redis executes it; with Redis closed there is no await.
ScheduleDurable(n, m, at) ==
    LET t(p) == [gen |-> nextGen, node |-> n, member |-> m, at |-> at, persisted |-> p]
        rest == handles \ Disarm(n, m)
    IN  /\ n \in up
        /\ nextGen \in Gens
        /\ at \in now..(MaxTime - SweepGrace)   \* leaves the sweeper time to act
        /\ nextGen' = nextGen + 1
        /\ \/ /\ n \in open
              /\ handles' = rest
              /\ \/ /\ Persist(m, at, nextGen)
                    /\ calls' = calls \cup {t(TRUE)}
                    /\ UNCHANGED faults
                 \/ /\ Fault
                    /\ Persist(m, at, nextGen) \/ UNCHANGED redisVars
                    /\ calls' = calls \cup {t(FALSE)}
              /\ UNCHANGED tracked
           \/ /\ n \notin open
              /\ ArmTimer(rest, t(FALSE))
              /\ UNCHANGED <<redisVars, calls, faults>>
        /\ UNCHANGED <<envVars, fires, due, runs>>

\* The reply arrives: arm the local timer and remember it.
Arm(c) ==
    /\ c \in calls
    /\ ArmTimer(handles, c)
    /\ calls' = calls \ {c}
    /\ UNCHANGED <<envVars, redisVars, fires, due, runs, nextGen, faults>>

\* cancelDurable: drop the local timer, then ZREM + HDEL (if Redis answers).
CancelDurable(n, m) ==
    /\ n \in up
    /\ handles' = handles \ Disarm(n, m)
    /\ tracked' = [tracked EXCEPT ![n][m] = 0]
    /\ \/ /\ n \in open
          /\ deadline' = [deadline EXCEPT ![m] = NoEntry]
          /\ payload' = [payload EXCEPT ![m] = 0]
          /\ Fault \/ UNCHANGED faults
       \/ /\ n \notin open
          /\ UNCHANGED <<redisVars, faults>>
       \/ /\ n \in open
          /\ Fault
          /\ UNCHANGED redisVars
    /\ UNCHANGED <<envVars, calls, fires, due, runs, nextGen>>

----------------------------------------------------------------------------
(* fire: from a local timer, or from the sweeper *)

\* runHandler for the deadline of call g (0: none is known).
RunHandler(g) ==
    runs' = IF g \in Gens /\ runs[g] < 2 THEN [runs EXCEPT ![g] = @ + 1] ELSE runs

\* Mutant of ZRemThenRun: the claim reads the ZSET and leaves the member in it.
ClaimWithoutRemoving(n, m, localGen, persisted) ==
    /\ deadline[m].gen # 0
    /\ fires' = fires \cup {[gen |-> deadline[m].gen, node |-> n, member |-> m,
                             payload |-> localGen, stage |-> "fetch"]}
    /\ UNCHANGED <<deadline, runs, faults>>

\* ZREM and its answer.  Redis down or a deadline that was never persisted: run at
\* once with what the node knows.  An answer of 0: another node fired it, or it was
\* cancelled.  A failed command returns without running, executed or not.
ZRemThenRun(n, m, localGen, persisted) ==
    \/ /\ ~persisted \/ n \notin open
       /\ RunHandler(IF localGen # 0 THEN localGen ELSE deadline[m].gen)
       /\ UNCHANGED <<deadline, fires, faults>>
    \/ /\ persisted /\ n \in open
       /\ deadline[m].gen = 0
       /\ UNCHANGED <<deadline, fires, runs, faults>>
    \/ /\ persisted /\ n \in open
       /\ deadline[m].gen # 0
       /\ deadline' = [deadline EXCEPT ![m] = NoEntry]
       /\ fires' = fires \cup {[gen |-> deadline[m].gen, node |-> n, member |-> m,
                                payload |-> localGen, stage |-> "fetch"]}
       /\ UNCHANGED <<runs, faults>>
    \/ /\ persisted /\ n \in open
       /\ Fault
       /\ deadline' = [deadline EXCEPT ![m] = NoEntry] \/ UNCHANGED deadline
       /\ UNCHANGED <<fires, runs>>

\* Mutant of LocalFire: the localTimers entry outlives its handle.
LocalFireKeepsEntry(h) ==
    /\ h \in handles
    /\ now >= h.at
    /\ handles' = handles \ {h}
    /\ ZRemThenRun(h.node, h.member, h.gen, h.persisted)
    /\ UNCHANGED <<envVars, payload, tracked, calls, due, nextGen>>

\* A setTimeout comes due.  fire() forgets whatever handle localTimers holds.
LocalFire(h) ==
    /\ h \in handles
    /\ now >= h.at
    /\ handles' = handles \ {h}
    /\ tracked' = [tracked EXCEPT ![h.node][h.member] = 0]
    /\ ZRemThenRun(h.node, h.member, h.gen, h.persisted)
    /\ UNCHANGED <<envVars, payload, calls, due, nextGen>>

\* HGET of the payload; the local one is kept when there is none.
FetchPayload(f) ==
    /\ f \in fires
    /\ f.stage = "fetch"
    /\ fires' = (fires \ {f}) \cup
                {[f EXCEPT !.stage = "drop",
                           !.payload = IF payload[f.member] # 0
                                       THEN payload[f.member] ELSE @]}
    /\ UNCHANGED <<envVars, redisVars, localVars, runs, nextGen, faults>>

\* HDEL of the payload, then the handler.
DropPayloadAndRun(f) ==
    /\ f \in fires
    /\ f.stage = "drop"
    /\ fires' = fires \ {f}
    /\ payload' = [payload EXCEPT ![f.member] = 0]
    /\ RunHandler(f.gen)
    /\ UNCHANGED <<envVars, deadline, localVars, nextGen, faults>>

\* HGET or HDEL fails after the claim: fire returns without running the handler.
ClaimFails(f) ==
    /\ Fault
    /\ f \in fires
    /\ fires' = fires \ {f}
    /\ UNCHANGED <<envVars, redisVars, localVars, runs, nextGen>>

\* Mutant of SweepRead: the sweep takes the members that still have a payload.
SweepReadWithPayload(n) ==
    /\ n \in up \cap open
    /\ due' = [due EXCEPT ![n] = @ \cup
                 {m \in Members : payload[m] # 0 /\ deadline[m].gen # 0
                                   /\ deadline[m].at + SweepGrace <= now}]
    /\ UNCHANGED <<envVars, redisVars, handles, tracked, calls, fires, runs, nextGen, faults>>

\* A sweep reads what is overdue.  Any node may lead, and sweeps may overlap.
SweepRead(n) ==
    /\ n \in up \cap open
    /\ due' = [due EXCEPT ![n] = @ \cup
                 {m \in Members : deadline[m].gen # 0 /\ deadline[m].at + SweepGrace <= now}]
    /\ UNCHANGED <<envVars, redisVars, handles, tracked, calls, fires, runs, nextGen, faults>>

\* The sweep serves one member, unless localTimers says that a timer is about to.
SweepNext(n, m) ==
    /\ m \in due[n]
    /\ due' = [due EXCEPT ![n] = @ \ {m}]
    /\ \/ /\ tracked[n][m] # 0
          /\ UNCHANGED <<deadline, fires, runs, faults>>
       \/ /\ tracked[n][m] = 0
          /\ ZRemThenRun(n, m, 0, TRUE)
    /\ UNCHANGED <<envVars, payload, handles, tracked, calls, nextGen>>

----------------------------------------------------------------------------
(* Environment *)

Tick ==
    /\ now < MaxTime
    /\ now' = now + 1
    /\ UNCHANGED <<up, open, crashes, redisVars, localVars, fires, runs, nextGen, faults>>

\* A process dies, or shuts down and clears its timers; Redis keeps the deadlines.
Crash(n) ==
    /\ n \in up
    /\ crashes < MaxCrashes
    /\ crashes' = crashes + 1
    /\ up' = up \ {n}
    /\ handles' = {h \in handles : h.node # n}
    /\ tracked' = [tracked EXCEPT ![n] = [m \in Members |-> 0]]
    /\ calls' = {c \in calls : c.node # n}
    /\ fires' = {f \in fires : f.node # n}
    /\ due' = [due EXCEPT ![n] = {}]
    /\ UNCHANGED <<now, open, redisVars, runs, nextGen, faults>>

Restart(n) ==
    /\ n \notin up
    /\ up' = up \cup {n}
    /\ UNCHANGED <<now, open, crashes, redisVars, localVars, fires, runs, nextGen, faults>>

RedisCloses(n) ==
    /\ Fault
    /\ n \in open
    /\ open' = open \ {n}
    /\ UNCHANGED <<now, up, crashes, redisVars, localVars, fires, runs, nextGen>>

RedisReopens(n) ==
    /\ n \notin open
    /\ open' = open \cup {n}
    /\ UNCHANGED <<now, up, crashes, redisVars, localVars, fires, runs, nextGen, faults>>

Next ==
    \/ \E n \in Nodes, m \in Members, at \in 0..MaxTime : ScheduleDurable(n, m, at)
    \/ \E c \in calls : Arm(c)
    \/ \E n \in Nodes, m \in Members : CancelDurable(n, m)
    \/ \E h \in handles : LocalFire(h)
    \/ \E f \in fires : FetchPayload(f) \/ DropPayloadAndRun(f) \/ ClaimFails(f)
    \/ \E n \in Nodes : SweepRead(n)
    \/ \E n \in Nodes, m \in Members : SweepNext(n, m)
    \/ Tick
    \/ \E n \in Nodes : Crash(n) \/ Restart(n) \/ RedisCloses(n) \/ RedisReopens(n)

Spec == Init /\ [][Next]_vars

\* setTimeout, setInterval and replies are served in every running process, some
\* process leads the sweep, and a dead process is restarted by its supervisor.
Fairness ==
    /\ WF_vars(Tick)
    /\ \A g \in Gens :
         /\ WF_vars(\E c \in calls : c.gen = g /\ Arm(c))
         /\ WF_vars(\E h \in handles : h.gen = g /\ LocalFire(h))
         /\ WF_vars(\E f \in fires : f.gen = g /\ (FetchPayload(f) \/ DropPayloadAndRun(f)))
    /\ WF_vars(\E n \in Nodes : SweepRead(n))
    /\ \A n \in Nodes :
         /\ WF_vars(Restart(n))
         /\ \A m \in Members : WF_vars(SweepNext(n, m))

FairSpec == Spec /\ Fairness

----------------------------------------------------------------------------
(* Properties *)

\* Until Redis fails, the handler runs at most once for one scheduled deadline,
\* whatever nodes, stale timers, sweeps and restarts compete for it: the ZREM answer
\* is the only way to the handler ("Claim a deadline exactly once across nodes").
RunsAtMostOnce == faults = 0 => \A g \in Gens : runs[g] <= 1

\* localTimers never holds a member whose timers are all gone: the sweeper skips the
\* members it finds there, so a dead entry would hide a deadline for ever.
TrackedIsLive ==
    \A n \in Nodes, m \in Members :
        tracked[n][m] # 0 => \E t \in handles \cup calls : t.node = n /\ t.member = m

\* A deadline that was persisted is claimed, replaced or cancelled in the end, even
\* when the node that scheduled it died ("a restart or another node still fires
\* them"), until Redis fails.
DeadlineServed ==
    \A m \in Members, g \in Gens :
        deadline[m].gen = g ~> (deadline[m].gen # g \/ faults # 0)

\* Until a first Redis fault the protocol implements the abstract deadlines.
Promise == INSTANCE Deadlines WITH
    pending <- [m \in Members |-> deadline[m].gen],
    claimed <- {f.gen : f \in fires},
    void    <- faults # 0

ImplementsDeadlines == Promise!Spec

\* scheduleDurable "replaces any earlier" deadline of the member: no claim takes a
\* deadline before the time its last schedule call gave it.
RescheduleReplaces ==
    [][\A m \in Members :
         (\E f \in fires' \ fires : f.member = m) => now >= deadline[m].at]_vars
============================================================================
