------------------------ MODULE DurableTimers_proofs ------------------------
(***************************************************************************)
(* Theorems about DurableTimers, for any nodes, members and bounds.        *)
(***************************************************************************)
EXTENDS DurableTimers, TLAPS

\* A handler run keeps the history of runs a function into 0..2.
LEMMA RunHandlerType ==
    ASSUME TypeOK, NEW k, RunHandler(k)
    PROVE  runs' \in [Gens -> 0..2]
<1>1. CASE k \in Gens /\ runs[k] < 2
  <2>1. runs[k] + 1 \in 0..2
    BY <1>1 DEF TypeOK
  <2>2. QED BY <1>1, <2>1 DEF RunHandler, TypeOK
<1>2. CASE ~(k \in Gens /\ runs[k] < 2)
  BY <1>2 DEF RunHandler, TypeOK
<1>3. QED BY <1>1, <1>2

\* What fire() does to the deadline, the claims and the history, in one fact.
LEMMA ZRemType ==
    ASSUME TypeOK, NEW n \in Nodes, NEW m \in Members, NEW g \in 0..MaxSchedules,
           NEW p \in BOOLEAN, ZRemThenRun(n, m, g, p)
    PROVE  /\ deadline' \in [Members -> [at : 0..MaxTime, gen : 0..MaxSchedules]]
           /\ fires' \in SUBSET Fire
           /\ runs' \in [Gens -> 0..2]
           /\ faults' \in 0..MaxFaults
<1> USE DurableTimersAssumption
<1>1. deadline[m] \in [at : 0..MaxTime, gen : 0..MaxSchedules]
  BY DEF TypeOK
<1>2. [deadline EXCEPT ![m] = NoEntry]
          \in [Members -> [at : 0..MaxTime, gen : 0..MaxSchedules]]
  BY DEF TypeOK, NoEntry
<1>3. deadline[m].gen # 0 =>
         [gen |-> deadline[m].gen, node |-> n, member |-> m, payload |-> g,
          stage |-> "fetch"] \in Fire
  BY <1>1 DEF Fire, Gens
<1>4. CASE ~p \/ n \notin open
  <2>1. RunHandler(IF g # 0 THEN g ELSE deadline[m].gen) /\ UNCHANGED <<deadline, fires, faults>>
    BY <1>4 DEF ZRemThenRun
  <2>2. QED BY <2>1, RunHandlerType DEF TypeOK
<1>5. CASE p /\ n \in open
  <2>1. CASE deadline[m].gen = 0 /\ UNCHANGED <<deadline, fires, runs, faults>>
    BY <2>1 DEF TypeOK
  <2>2. CASE /\ deadline[m].gen # 0
             /\ deadline' = [deadline EXCEPT ![m] = NoEntry]
             /\ fires' = fires \cup {[gen |-> deadline[m].gen, node |-> n, member |-> m,
                                      payload |-> g, stage |-> "fetch"]}
             /\ UNCHANGED <<runs, faults>>
    BY <1>2, <1>3, <2>2 DEF TypeOK
  <2>3. CASE /\ Fault
             /\ deadline' = [deadline EXCEPT ![m] = NoEntry] \/ UNCHANGED deadline
             /\ UNCHANGED <<fires, runs>>
    BY <1>2, <2>3 DEF TypeOK, Fault
  <2>4. QED BY <1>5, <2>1, <2>2, <2>3 DEF ZRemThenRun
<1>6. QED BY <1>4, <1>5

\* Disarming a timer takes handles away and adds none.
LEMMA DisarmType ==
    ASSUME TypeOK, NEW n, NEW m
    PROVE  (handles \ Disarm(n, m)) \in SUBSET Timer
BY DEF TypeOK

\* Writing one localTimers entry keeps the table's type.
LEMMA TrackedType ==
    ASSUME TypeOK, NEW n \in Nodes, NEW m \in Members, NEW g \in 0..MaxSchedules
    PROVE  [tracked EXCEPT ![n][m] = g] \in [Nodes -> [Members -> 0..MaxSchedules]]
<1>1. tracked[n] \in [Members -> 0..MaxSchedules]
  BY DEF TypeOK
<1>2. [tracked[n] EXCEPT ![m] = g] \in [Members -> 0..MaxSchedules]
  BY <1>1
<1>3. QED BY <1>2 DEF TypeOK

\* The variables of DurableTimers keep their types.
THEOREM TypeCorrect == Spec => []TypeOK
<1> USE DurableTimersAssumption
<1>1. Init => TypeOK
  BY DEF Init, TypeOK, NoEntry, Gens
<1>2. TypeOK /\ [Next]_vars => TypeOK'
  <2> SUFFICES ASSUME TypeOK, [Next]_vars PROVE TypeOK'
    OBVIOUS
  <2>1. ASSUME NEW n \in Nodes, NEW m \in Members, NEW at \in 0..MaxTime,
               ScheduleDurable(n, m, at)
        PROVE  TypeOK'
    <3> DEFINE t(p) == [gen |-> nextGen, node |-> n, member |-> m, at |-> at, persisted |-> p]
    <3>1. nextGen \in Gens /\ t(TRUE) \in Timer /\ t(FALSE) \in Timer
      BY <2>1 DEF ScheduleDurable, Timer
    <3>2. deadline' \in [Members -> [at : 0..MaxTime, gen : 0..MaxSchedules]]
          /\ payload' \in [Members -> 0..MaxSchedules]
      <4>1. [at |-> at, gen |-> nextGen] \in [at : 0..MaxTime, gen : 0..MaxSchedules]
            /\ nextGen \in 0..MaxSchedules
        BY <3>1 DEF Gens
      <4>2. CASE Persist(m, at, nextGen)
        BY <4>1, <4>2 DEF Persist, TypeOK
      <4>3. CASE UNCHANGED redisVars
        BY <4>3 DEF redisVars, TypeOK
      <4>4. QED BY <2>1, <4>2, <4>3 DEF ScheduleDurable
    <3>3. handles' \in SUBSET Timer /\ calls' \in SUBSET Timer
      BY <2>1, <3>1, DisarmType DEF ScheduleDurable, ArmTimer, TypeOK
    <3>4. tracked' \in [Nodes -> [Members -> 0..MaxSchedules]]
      <4>1. [tracked EXCEPT ![n][m] = nextGen] \in [Nodes -> [Members -> 0..MaxSchedules]]
        BY <3>1, TrackedType DEF Gens
      <4>2. QED BY <2>1, <4>1 DEF ScheduleDurable, ArmTimer, TypeOK
    <3>5. nextGen' \in 1..(MaxSchedules + 1) /\ faults' \in 0..MaxFaults
      BY <2>1, <3>1 DEF ScheduleDurable, Fault, TypeOK, Gens
    <3>6. QED BY <2>1, <3>2, <3>3, <3>4, <3>5 DEF ScheduleDurable, envVars, TypeOK
  <2>2. ASSUME NEW c \in calls, Arm(c) PROVE TypeOK'
    <3>1. c \in Timer /\ c.gen \in 0..MaxSchedules /\ c.node \in Nodes /\ c.member \in Members
      BY DEF TypeOK, Timer, Gens
    <3>2. tracked' \in [Nodes -> [Members -> 0..MaxSchedules]]
      BY <2>2, <3>1, TrackedType DEF Arm, ArmTimer
    <3>3. QED BY <2>2, <3>1, <3>2 DEF Arm, ArmTimer, TypeOK, envVars, redisVars
  <2>3. ASSUME NEW n \in Nodes, NEW m \in Members, CancelDurable(n, m) PROVE TypeOK'
    <3>1. handles' \in SUBSET Timer
      BY <2>3, DisarmType DEF CancelDurable
    <3>2. tracked' \in [Nodes -> [Members -> 0..MaxSchedules]]
      BY <2>3, TrackedType DEF CancelDurable
    <3>3. deadline' \in [Members -> [at : 0..MaxTime, gen : 0..MaxSchedules]]
          /\ payload' \in [Members -> 0..MaxSchedules]
      <4>1. [deadline EXCEPT ![m] = NoEntry]
                \in [Members -> [at : 0..MaxTime, gen : 0..MaxSchedules]]
        BY DEF NoEntry, TypeOK
      <4>2. [payload EXCEPT ![m] = 0] \in [Members -> 0..MaxSchedules]
        BY DEF TypeOK
      <4>3. QED BY <2>3, <4>1, <4>2 DEF CancelDurable, redisVars, TypeOK
    <3>4. faults' \in 0..MaxFaults
      BY <2>3 DEF CancelDurable, Fault, TypeOK
    <3>5. QED BY <2>3, <3>1, <3>2, <3>3, <3>4 DEF CancelDurable, TypeOK, envVars
  <2>4. ASSUME NEW h \in handles, LocalFire(h) PROVE TypeOK'
    <3>1. h.node \in Nodes /\ h.member \in Members /\ h.gen \in 0..MaxSchedules
          /\ h.persisted \in BOOLEAN
      BY DEF TypeOK, Timer, Gens
    <3>2. ZRemThenRun(h.node, h.member, h.gen, h.persisted)
      BY <2>4 DEF LocalFire
    <3>3. /\ deadline' \in [Members -> [at : 0..MaxTime, gen : 0..MaxSchedules]]
          /\ fires' \in SUBSET Fire
          /\ runs' \in [Gens -> 0..2]
          /\ faults' \in 0..MaxFaults
      BY <3>1, <3>2, ZRemType
    <3>4. tracked' \in [Nodes -> [Members -> 0..MaxSchedules]]
      BY <2>4, <3>1, TrackedType DEF LocalFire
    <3>5. handles' \in SUBSET Timer
      BY <2>4 DEF LocalFire, TypeOK
    <3>6. QED BY <2>4, <3>3, <3>4, <3>5 DEF LocalFire, TypeOK, envVars
  <2>5. ASSUME NEW f \in fires, FetchPayload(f) PROVE TypeOK'
    <3>1. f \in Fire /\ payload[f.member] \in 0..MaxSchedules
      BY DEF TypeOK, Fire
    <3>2. [f EXCEPT !.stage = "drop",
                    !.payload = IF payload[f.member] # 0 THEN payload[f.member] ELSE @] \in Fire
      BY <3>1 DEF Fire
    <3>3. QED BY <2>5, <3>2 DEF FetchPayload, TypeOK, envVars, redisVars, localVars
  <2>6. ASSUME NEW f \in fires, DropPayloadAndRun(f) PROVE TypeOK'
    <3>1. RunHandler(f.gen)
      BY <2>6 DEF DropPayloadAndRun
    <3>2. runs' \in [Gens -> 0..2]
      BY <3>1, RunHandlerType
    <3>3. payload' \in [Members -> 0..MaxSchedules]
      <4>1. payload' = [payload EXCEPT ![f.member] = 0]
        BY <2>6 DEF DropPayloadAndRun
      <4>2. 0 \in 0..MaxSchedules /\ payload \in [Members -> 0..MaxSchedules]
        BY DEF TypeOK
      <4>3. QED BY <4>1, <4>2
    <3>4. fires' \in SUBSET Fire
      BY <2>6 DEF DropPayloadAndRun, TypeOK
    <3>5. QED BY <2>6, <3>2, <3>3, <3>4 DEF DropPayloadAndRun, TypeOK, envVars, localVars
  <2>7. ASSUME NEW f \in fires, ClaimFails(f) PROVE TypeOK'
    BY <2>7 DEF ClaimFails, Fault, TypeOK, envVars, redisVars, localVars
  <2>8. ASSUME NEW n \in Nodes, SweepRead(n) PROVE TypeOK'
    <3> DEFINE S == {m \in Members : deadline[m].gen # 0 /\ deadline[m].at + SweepGrace <= now}
    <3>1. S \in SUBSET Members
      OBVIOUS
    <3>2. due' = [due EXCEPT ![n] = @ \cup S]
      BY <2>8 DEF SweepRead
    <3> HIDE DEF S
    <3>3. due' \in [Nodes -> SUBSET Members]
      BY <3>1, <3>2 DEF TypeOK
    <3>4. QED BY <2>8, <3>3 DEF SweepRead, TypeOK, envVars, redisVars
  <2>9. ASSUME NEW n \in Nodes, NEW m \in Members, SweepNext(n, m) PROVE TypeOK'
    <3>1. CASE tracked[n][m] # 0
      BY <2>9, <3>1 DEF SweepNext, TypeOK, envVars
    <3>2. CASE tracked[n][m] = 0
      <4>1. /\ deadline' \in [Members -> [at : 0..MaxTime, gen : 0..MaxSchedules]]
            /\ fires' \in SUBSET Fire
            /\ runs' \in [Gens -> 0..2]
            /\ faults' \in 0..MaxFaults
        <5>1. ZRemThenRun(n, m, 0, TRUE)
          BY <2>9, <3>2, Zenon DEF SweepNext
        <5>2. 0 \in 0..MaxSchedules /\ TRUE \in BOOLEAN
          OBVIOUS
        <5>3. QED BY <5>1, <5>2, ZRemType
      <4>2. QED BY <2>9, <4>1 DEF SweepNext, TypeOK, envVars
    <3>3. QED BY <3>1, <3>2
  <2>10. CASE Tick
    BY <2>10 DEF Tick, TypeOK, redisVars, localVars
  <2>11. ASSUME NEW n \in Nodes, Crash(n) PROVE TypeOK'
    BY <2>11 DEF Crash, TypeOK, redisVars
  <2>12. ASSUME NEW n \in Nodes, Restart(n) PROVE TypeOK'
    BY <2>12 DEF Restart, TypeOK, redisVars, localVars
  <2>13. ASSUME NEW n \in Nodes, RedisCloses(n) PROVE TypeOK'
    BY <2>13 DEF RedisCloses, Fault, TypeOK, redisVars, localVars
  <2>14. ASSUME NEW n \in Nodes, RedisReopens(n) PROVE TypeOK'
    BY <2>14 DEF RedisReopens, TypeOK, redisVars, localVars
  <2>15. CASE UNCHANGED vars
    BY <2>15 DEF vars, TypeOK
  <2>16. QED
    BY <2>1, <2>2, <2>3, <2>4, <2>5, <2>6, <2>7, <2>8, <2>9, <2>10, <2>11, <2>12,
       <2>13, <2>14, <2>15 DEF Next
<1>3. QED BY <1>1, <1>2, PTL DEF Spec

-----------------------------------------------------------------------------
(* RunsAtMostOnce.  It is not inductive: a claim in flight, or a pending    *)
(* deadline, of a call whose handler has run would break it.  Before the    *)
(* first fault every call is in exactly one place: not made yet, pending in *)
(* the ZSET, claimed by one fire, run, or gone.                             *)

\* Before the first fault nobody may reach a handler without a claim.
OnlyClaimsRun ==
    /\ open = Nodes
    /\ \A t \in handles \cup calls : t.persisted

\* A pending deadline is that of one call, not claimed and not run.
PendingOnce ==
    \A m \in Members : deadline[m].gen # 0 =>
        /\ deadline[m].gen < nextGen
        /\ runs[deadline[m].gen] = 0
        /\ \A k \in Members : deadline[k].gen = deadline[m].gen => k = m
        /\ \A f \in fires : f.gen # deadline[m].gen

\* A claimed deadline is claimed by one fire call and has not run.
ClaimedOnce ==
    \A f \in fires :
        /\ f.gen < nextGen
        /\ runs[f.gen] = 0
        /\ \A e \in fires : e.gen = f.gen => e = f

\* Nothing has happened to a call that was not made yet.
UnusedUntouched == \A g \in Gens : g >= nextGen => runs[g] = 0

OnceInv ==
    faults = 0 =>
        OnlyClaimsRun /\ PendingOnce /\ ClaimedOnce /\ UnusedUntouched /\ RunsAtMostOnce

\* The three ways fire() can go while no fault has happened.
LEMMA ZRemOutcome ==
    ASSUME open = Nodes, NEW n \in Nodes, NEW m, NEW g, ZRemThenRun(n, m, g, TRUE),
           faults' = 0, TypeOK
    PROVE  /\ UNCHANGED <<runs, faults>>
           /\ \/ UNCHANGED <<deadline, fires>>
              \/ /\ deadline[m].gen # 0
                 /\ deadline' = [deadline EXCEPT ![m] = NoEntry]
                 /\ \E p : fires' = fires \cup {[gen |-> deadline[m].gen, node |-> n,
                               member |-> m, payload |-> p, stage |-> "fetch"]}
<1>1. ~Fault
  BY DEF Fault, TypeOK
<1>2. QED BY <1>1 DEF ZRemThenRun

\* A claim moves a deadline from the ZSET to one fire call.
LEMMA ClaimPreserves ==
    ASSUME TypeOK, PendingOnce, ClaimedOnce, NEW m \in Members, NEW n, NEW p,
           deadline[m].gen # 0,
           deadline' = [deadline EXCEPT ![m] = NoEntry],
           fires' = fires \cup {[gen |-> deadline[m].gen, node |-> n, member |-> m,
                                 payload |-> p, stage |-> "fetch"]},
           UNCHANGED <<runs, nextGen>>
    PROVE  PendingOnce' /\ ClaimedOnce'
<1> DEFINE e == [gen |-> deadline[m].gen, node |-> n, member |-> m,
                 payload |-> p, stage |-> "fetch"]
<1>1. deadline'[m].gen = 0 /\ \A k \in Members : k # m => deadline'[k] = deadline[k]
  BY DEF TypeOK, NoEntry
<1>2. e.gen = deadline[m].gen /\ fires' = fires \cup {e}
  OBVIOUS
<1> HIDE DEF e
<1>3. PendingOnce'
  BY <1>1, <1>2 DEF PendingOnce
<1>4. ClaimedOnce'
  BY <1>2 DEF PendingOnce, ClaimedOnce
<1>5. QED BY <1>3, <1>4

\* However fire() goes, each call stays in one place.
LEMMA ZRemPreserves ==
    ASSUME TypeOK, PendingOnce, ClaimedOnce, open = Nodes, faults' = 0, UNCHANGED nextGen,
           NEW n \in Nodes, NEW m \in Members, NEW g, ZRemThenRun(n, m, g, TRUE)
    PROVE  PendingOnce' /\ ClaimedOnce'
<1>1. UNCHANGED runs
  BY ZRemOutcome
<1>2. CASE UNCHANGED <<deadline, fires>>
  BY <1>1, <1>2 DEF PendingOnce, ClaimedOnce
<1>3. CASE /\ deadline[m].gen # 0
           /\ deadline' = [deadline EXCEPT ![m] = NoEntry]
           /\ \E p : fires' = fires \cup {[gen |-> deadline[m].gen, node |-> n,
                         member |-> m, payload |-> p, stage |-> "fetch"]}
  <2>1. PICK p : fires' = fires \cup {[gen |-> deadline[m].gen, node |-> n,
                         member |-> m, payload |-> p, stage |-> "fetch"]}
    BY <1>3
  <2>2. QED BY <1>1, <1>3, <2>1, ClaimPreserves
<1>4. QED BY <1>2, <1>3, ZRemOutcome

\* No step brings a fault-free past back.
LEMMA FaultsGrow ==
    ASSUME TypeOK, [Next]_vars, faults' = 0
    PROVE  faults = 0
<1>1. ~Fault
  BY DEF Fault, TypeOK
<1>2. \A n, m, g, p : ZRemThenRun(n, m, g, p) => UNCHANGED faults
  BY <1>1 DEF ZRemThenRun
<1>3. QED
  BY <1>1, <1>2 DEF Next, ScheduleDurable, Arm, CancelDurable, LocalFire, FetchPayload,
     DropPayloadAndRun, ClaimFails, SweepRead, SweepNext, Tick, Crash, Restart,
     RedisCloses, RedisReopens, vars

\* The strengthened invariant behind RunsAtMostOnce holds of every behaviour.
THEOREM OnceInvariant == Spec => []OnceInv
<1> USE DurableTimersAssumption
<1>1. Init => OnceInv
  BY DEF Init, OnceInv, OnlyClaimsRun, PendingOnce, ClaimedOnce, UnusedUntouched,
         RunsAtMostOnce, NoEntry
<1>2. TypeOK /\ TypeOK' /\ OnceInv /\ [Next]_vars => OnceInv'
  <2> SUFFICES ASSUME TypeOK, TypeOK', OnceInv, [Next]_vars, faults' = 0
               PROVE  OnceInv'
    BY DEF OnceInv
  <2>0. ~Fault /\ faults = 0
    BY FaultsGrow DEF Fault, TypeOK
  <2>. /\ OnlyClaimsRun /\ PendingOnce /\ ClaimedOnce /\ UnusedUntouched
      /\ \A g \in Gens : runs[g] <= 1
    BY <2>0 DEF OnceInv, RunsAtMostOnce
  <2> SUFFICES OnlyClaimsRun' /\ PendingOnce' /\ ClaimedOnce' /\ UnusedUntouched'
               /\ (\A g \in Gens : runs[g] <= 1)'
    BY DEF OnceInv, RunsAtMostOnce
  <2>1. ASSUME NEW n \in Nodes, NEW m \in Members, NEW at \in 0..MaxTime,
               ScheduleDurable(n, m, at)
        PROVE  OnlyClaimsRun' /\ PendingOnce' /\ ClaimedOnce' /\ UnusedUntouched'
               /\ (\A g \in Gens : runs[g] <= 1)'
    <3>1. /\ nextGen \in Gens /\ nextGen' = nextGen + 1
          /\ Persist(m, at, nextGen)
          /\ handles' = handles \ Disarm(n, m)
          /\ calls' = calls \cup {[gen |-> nextGen, node |-> n, member |-> m, at |-> at,
                                    persisted |-> TRUE]}
          /\ UNCHANGED <<open, fires, runs>>
      BY <2>1, <2>0 DEF ScheduleDurable, OnlyClaimsRun, envVars
    <3>2. deadline'[m].gen = nextGen /\ \A k \in Members : k # m => deadline'[k] = deadline[k]
      BY <3>1 DEF Persist, TypeOK
    <3>3. OnlyClaimsRun'
      BY <3>1 DEF OnlyClaimsRun
    <3>4. /\ nextGen \in Nat /\ runs[nextGen] = 0
          /\ \A f \in fires : f.gen \in Nat /\ f.gen < nextGen
          /\ \A k \in Members : deadline[k].gen \in Nat
      BY <3>1 DEF UnusedUntouched, ClaimedOnce, TypeOK, Gens, Fire
    <3>5. \A k \in Members : deadline[k].gen < nextGen
      BY <3>1, <3>4 DEF PendingOnce, Gens
    <3>6. PendingOnce'
      <4> SUFFICES ASSUME NEW k \in Members, deadline'[k].gen # 0
                   PROVE  /\ deadline'[k].gen < nextGen'
                          /\ runs'[deadline'[k].gen] = 0
                          /\ \A j \in Members : deadline'[j].gen = deadline'[k].gen => j = k
                          /\ \A f \in fires' : f.gen # deadline'[k].gen
        BY DEF PendingOnce
      <4>1. CASE k = m
        BY <3>1, <3>2, <3>4, <3>5, <4>1
      <4>2. CASE k # m
        <5>1. deadline'[k] = deadline[k] /\ deadline[k].gen < nextGen /\ deadline[k].gen # nextGen
          BY <3>2, <3>4, <3>5, <4>2
        <5>2. QED BY <3>1, <3>2, <3>4, <4>2, <5>1 DEF PendingOnce
      <4>3. QED BY <4>1, <4>2
    <3>7. ClaimedOnce'
      BY <3>1, <3>4 DEF ClaimedOnce
    <3>8. UnusedUntouched'
      BY <3>1, <3>4 DEF UnusedUntouched, Gens
    <3>9. QED BY <3>1, <3>3, <3>6, <3>7, <3>8
  <2>2. ASSUME NEW c \in calls, Arm(c)
        PROVE  OnlyClaimsRun' /\ PendingOnce' /\ ClaimedOnce' /\ UnusedUntouched'
               /\ (\A g \in Gens : runs[g] <= 1)'
    BY <2>2 DEF Arm, ArmTimer, envVars, redisVars, OnlyClaimsRun, PendingOnce, ClaimedOnce,
                UnusedUntouched
  <2>3. ASSUME NEW n \in Nodes, NEW m \in Members, CancelDurable(n, m)
        PROVE  OnlyClaimsRun' /\ PendingOnce' /\ ClaimedOnce' /\ UnusedUntouched'
               /\ (\A g \in Gens : runs[g] <= 1)'
    <3>1. /\ deadline' = [deadline EXCEPT ![m] = NoEntry]
          /\ handles' = handles \ Disarm(n, m)
          /\ UNCHANGED <<open, calls, fires, runs, nextGen>>
      BY <2>3, <2>0 DEF CancelDurable, OnlyClaimsRun, envVars
    <3>2. \A k \in Members : deadline'[k].gen # 0 => k # m /\ deadline'[k] = deadline[k]
      BY <3>1 DEF TypeOK, NoEntry
    <3>3. QED BY <3>1, <3>2 DEF OnlyClaimsRun, PendingOnce, ClaimedOnce, UnusedUntouched
  <2>4. ASSUME NEW h \in handles, LocalFire(h)
        PROVE  OnlyClaimsRun' /\ PendingOnce' /\ ClaimedOnce' /\ UnusedUntouched'
               /\ (\A g \in Gens : runs[g] <= 1)'
    <3>1. /\ h.persisted = TRUE /\ h.node \in Nodes /\ h.member \in Members
          /\ open = Nodes
      BY DEF OnlyClaimsRun, TypeOK, Timer
    <3>2. /\ ZRemThenRun(h.node, h.member, h.gen, TRUE)
          /\ handles' = handles \ {h}
          /\ UNCHANGED <<open, calls, nextGen>>
      BY <2>4, <3>1 DEF LocalFire, envVars
    <3>3. UNCHANGED runs
      BY <3>1, <3>2, ZRemOutcome
    <3>4. PendingOnce' /\ ClaimedOnce'
      BY <3>1, <3>2, ZRemPreserves
    <3>5. QED BY <3>2, <3>3, <3>4 DEF OnlyClaimsRun, UnusedUntouched
  <2>5. ASSUME NEW f \in fires, FetchPayload(f)
        PROVE  OnlyClaimsRun' /\ PendingOnce' /\ ClaimedOnce' /\ UnusedUntouched'
               /\ (\A g \in Gens : runs[g] <= 1)'
    <3> DEFINE e == [f EXCEPT !.stage = "drop",
                              !.payload = IF payload[f.member] # 0
                                          THEN payload[f.member] ELSE @]
    <3>1. e.gen = f.gen /\ fires' = (fires \ {f}) \cup {e}
      BY <2>5 DEF FetchPayload, TypeOK, Fire
    <3>2. UNCHANGED <<open, deadline, handles, calls, runs, nextGen>>
      BY <2>5 DEF FetchPayload, envVars, redisVars, localVars
    <3> HIDE DEF e
    <3>3. QED
      BY <3>1, <3>2 DEF OnlyClaimsRun, PendingOnce, ClaimedOnce, UnusedUntouched
  <2>6. ASSUME NEW f \in fires, DropPayloadAndRun(f)
        PROVE  OnlyClaimsRun' /\ PendingOnce' /\ ClaimedOnce' /\ UnusedUntouched'
               /\ (\A g \in Gens : runs[g] <= 1)'
    <3>1. f.gen \in Gens /\ runs[f.gen] = 0 /\ f.gen < nextGen
      BY DEF TypeOK, Fire, ClaimedOnce
    <3>2. /\ runs' = [runs EXCEPT ![f.gen] = @ + 1]
          /\ fires' = fires \ {f}
          /\ UNCHANGED <<open, deadline, handles, calls, nextGen>>
      BY <2>6, <3>1 DEF DropPayloadAndRun, RunHandler, envVars, localVars
    <3>3. runs'[f.gen] = 1 /\ \A g \in Gens : g # f.gen => runs'[g] = runs[g]
      BY <3>1, <3>2 DEF TypeOK
    <3>4. PendingOnce'
      BY <3>2, <3>3 DEF PendingOnce, TypeOK, Gens
    <3>5. ClaimedOnce'
      BY <3>2, <3>3 DEF ClaimedOnce, TypeOK, Fire
    <3>6. UnusedUntouched' /\ (\A g \in Gens : runs[g] <= 1)'
      BY <3>1, <3>2, <3>3 DEF UnusedUntouched, TypeOK, Gens
    <3>7. QED BY <3>2, <3>4, <3>5, <3>6 DEF OnlyClaimsRun
  <2>7. ASSUME NEW f \in fires, ClaimFails(f) PROVE FALSE
    BY <2>7, <2>0 DEF ClaimFails
  <2>8. ASSUME NEW n \in Nodes, SweepRead(n)
        PROVE  OnlyClaimsRun' /\ PendingOnce' /\ ClaimedOnce' /\ UnusedUntouched'
               /\ (\A g \in Gens : runs[g] <= 1)'
    BY <2>8 DEF SweepRead, envVars, redisVars, OnlyClaimsRun, PendingOnce, ClaimedOnce,
                UnusedUntouched
  <2>9. ASSUME NEW n \in Nodes, NEW m \in Members, SweepNext(n, m)
        PROVE  OnlyClaimsRun' /\ PendingOnce' /\ ClaimedOnce' /\ UnusedUntouched'
               /\ (\A g \in Gens : runs[g] <= 1)'
    <3>1. UNCHANGED <<open, handles, calls, nextGen>> /\ open = Nodes
      BY <2>9 DEF SweepNext, envVars, OnlyClaimsRun
    <3>2. CASE UNCHANGED <<deadline, fires, runs>>
      BY <3>1, <3>2 DEF OnlyClaimsRun, PendingOnce, ClaimedOnce, UnusedUntouched
    <3>3. CASE ZRemThenRun(n, m, 0, TRUE)
      <4>1. UNCHANGED runs
        BY <3>1, <3>3, ZRemOutcome
      <4>2. PendingOnce' /\ ClaimedOnce'
        BY <3>1, <3>3, ZRemPreserves
      <4>3. QED BY <3>1, <4>1, <4>2 DEF OnlyClaimsRun, UnusedUntouched
    <3>4. QED BY <2>9, <3>2, <3>3, Zenon DEF SweepNext
  <2>10. CASE Tick
    BY <2>10 DEF Tick, redisVars, localVars, OnlyClaimsRun, PendingOnce, ClaimedOnce,
                 UnusedUntouched
  <2>11. ASSUME NEW n \in Nodes, Crash(n)
        PROVE  OnlyClaimsRun' /\ PendingOnce' /\ ClaimedOnce' /\ UnusedUntouched'
               /\ (\A g \in Gens : runs[g] <= 1)'
    BY <2>11 DEF Crash, redisVars, OnlyClaimsRun, PendingOnce, ClaimedOnce, UnusedUntouched
  <2>12. ASSUME NEW n \in Nodes, Restart(n)
        PROVE  OnlyClaimsRun' /\ PendingOnce' /\ ClaimedOnce' /\ UnusedUntouched'
               /\ (\A g \in Gens : runs[g] <= 1)'
    BY <2>12 DEF Restart, redisVars, localVars, OnlyClaimsRun, PendingOnce, ClaimedOnce,
                 UnusedUntouched
  <2>13. ASSUME NEW n \in Nodes, RedisCloses(n) PROVE FALSE
    BY <2>13, <2>0 DEF RedisCloses
  <2>14. ASSUME NEW n \in Nodes, RedisReopens(n) PROVE FALSE
    BY <2>14 DEF RedisReopens, OnlyClaimsRun
  <2>15. CASE UNCHANGED vars
    BY <2>15 DEF vars, OnlyClaimsRun, PendingOnce, ClaimedOnce, UnusedUntouched
  <2>16. QED
    BY <2>1, <2>2, <2>3, <2>4, <2>5, <2>6, <2>7, <2>8, <2>9, <2>10, <2>11, <2>12,
       <2>13, <2>14, <2>15 DEF Next
<1>3. QED BY <1>1, <1>2, TypeCorrect, PTL DEF Spec

\* Until Redis fails, no handler runs twice for one scheduled deadline.
THEOREM AtMostOnce == Spec => []RunsAtMostOnce
<1>1. OnceInv => RunsAtMostOnce
  BY DEF OnceInv, RunsAtMostOnce
<1>2. QED BY <1>1, OnceInvariant, PTL

-----------------------------------------------------------------------------
(* TrackedIsLive is inductive as it stands.  The delicate case is the entry  *)
(* of a disarmed handle: the call that disarmed it is still waiting, and     *)
(* counts as what will replace the entry.                                    *)

\* Node n has a timer of m, or a call that is about to arm one.
Live(n, m) == \E t \in handles \cup calls : t.node = n /\ t.member = m

\* localTimers never holds a member whose timers are all gone.
THEOREM NoDeadEntry == Spec => []TrackedIsLive
<1>1. Init => TrackedIsLive
  BY DEF Init, TrackedIsLive
<1>2. TypeOK /\ TrackedIsLive /\ [Next]_vars => TrackedIsLive'
  <2> SUFFICES ASSUME TypeOK, TrackedIsLive, [Next]_vars,
                      NEW n \in Nodes, NEW m \in Members, tracked'[n][m] # 0
               PROVE  Live(n, m)'
    BY DEF TrackedIsLive, Live
  <2>0. tracked[n][m] # 0 => Live(n, m)
    BY DEF TrackedIsLive, Live
  <2>1. ASSUME NEW k \in Nodes, NEW l \in Members, NEW at \in 0..MaxTime,
               ScheduleDurable(k, l, at)
        PROVE  Live(n, m)'
    <3>1. PICK p \in BOOLEAN :
            LET t == [gen |-> nextGen, node |-> k, member |-> l, at |-> at, persisted |-> p]
            IN  t \in handles' \cup calls'
      BY <2>1 DEF ScheduleDurable, ArmTimer
    <3>2. CASE n = k /\ m = l
      BY <3>1, <3>2 DEF Live
    <3>3. CASE ~(n = k /\ m = l)
      <4>1. tracked'[n][m] = tracked[n][m]
        BY <2>1, <3>3 DEF ScheduleDurable, ArmTimer, TypeOK
      <4>2. PICK u \in handles \cup calls : u.node = n /\ u.member = m
        BY <4>1, <2>0 DEF Live
      <4>3. u \notin Disarm(k, l)
        BY <3>3, <4>2 DEF Disarm
      <4>4. u \in handles' \cup calls'
        BY <2>1, <4>2, <4>3 DEF ScheduleDurable, ArmTimer
      <4>5. QED BY <4>2, <4>4 DEF Live
    <3>4. QED BY <3>2, <3>3
  <2>2. ASSUME NEW c \in calls, Arm(c) PROVE Live(n, m)'
    <3>1. handles' = handles \cup {c} /\ calls' = calls \ {c}
      BY <2>2 DEF Arm, ArmTimer
    <3>2. CASE n = c.node /\ m = c.member
      BY <3>1, <3>2 DEF Live
    <3>3. CASE ~(n = c.node /\ m = c.member)
      <4>1. tracked'[n][m] = tracked[n][m]
        BY <2>2, <3>3 DEF Arm, ArmTimer, TypeOK, Timer
      <4>2. QED BY <4>1, <2>0, <3>1 DEF Live
    <3>4. QED BY <3>2, <3>3
  <2>3. ASSUME NEW k \in Nodes, NEW l \in Members, CancelDurable(k, l) PROVE Live(n, m)'
    <3>1. handles' = handles \ Disarm(k, l) /\ UNCHANGED calls
          /\ tracked' = [tracked EXCEPT ![k][l] = 0]
      BY <2>3 DEF CancelDurable
    <3>2. ~(n = k /\ m = l) /\ tracked'[n][m] = tracked[n][m]
      BY <3>1 DEF TypeOK
    <3>3. PICK u \in handles \cup calls : u.node = n /\ u.member = m
      BY <3>2, <2>0 DEF Live
    <3>4. QED BY <3>1, <3>2, <3>3 DEF Live, Disarm
  <2>4. ASSUME NEW h \in handles, LocalFire(h) PROVE Live(n, m)'
    <3>1. handles' = handles \ {h} /\ UNCHANGED calls
          /\ tracked' = [tracked EXCEPT ![h.node][h.member] = 0]
          /\ h.node \in Nodes /\ h.member \in Members
      BY <2>4 DEF LocalFire, TypeOK, Timer
    <3>2. ~(n = h.node /\ m = h.member) /\ tracked'[n][m] = tracked[n][m]
      BY <3>1 DEF TypeOK
    <3>3. PICK u \in handles \cup calls : u.node = n /\ u.member = m
      BY <3>2, <2>0 DEF Live
    <3>4. QED BY <3>1, <3>2, <3>3 DEF Live
  <2>5. ASSUME NEW k \in Nodes, Crash(k) PROVE Live(n, m)'
    <3>1. handles' = {h \in handles : h.node # k} /\ calls' = {c \in calls : c.node # k}
          /\ tracked' = [tracked EXCEPT ![k] = [l \in Members |-> 0]]
      BY <2>5 DEF Crash
    <3>2. n # k /\ tracked'[n][m] = tracked[n][m]
      BY <3>1 DEF TypeOK
    <3>3. QED BY <3>1, <3>2, <2>0 DEF Live
  <2>6. CASE UNCHANGED <<handles, tracked, calls>>
    BY <2>6, <2>0 DEF Live
  <2>7. QED
    BY <2>1, <2>2, <2>3, <2>4, <2>5, <2>6 DEF Next, FetchPayload, DropPayloadAndRun,
       ClaimFails, SweepRead, SweepNext, Tick, Restart, RedisCloses, RedisReopens,
       localVars, vars
<1>3. QED BY <1>1, <1>2, TypeCorrect, PTL DEF Spec

-----------------------------------------------------------------------------
(* ImplementsDeadlines: the claims in flight and the ZSET are the abstract   *)
(* deadlines, until the first fault.                                         *)

\* How the abstract variables change when the concrete ones do not.
LEMMA MappedStutter ==
    ASSUME UNCHANGED <<deadline, fires, runs, faults>>
    PROVE  UNCHANGED Promise!vars
BY DEF Promise!vars

\* A claim, a lost answer or a cancellation is abstractly a Claim or a Drop.
LEMMA MappedRemoval ==
    ASSUME TypeOK, NEW m \in Members, deadline' = [deadline EXCEPT ![m] = NoEntry]
    PROVE  [k \in Members |-> deadline'[k].gen]
             = [[k \in Members |-> deadline[k].gen] EXCEPT ![m] = 0]
BY DEF TypeOK, NoEntry

\* fire()'s answer from Redis is abstractly a Claim, or nothing.
LEMMA MappedZRem ==
    ASSUME TypeOK, open = Nodes, faults = 0, faults' = 0,
           NEW n \in Nodes, NEW m \in Members, NEW g, ZRemThenRun(n, m, g, TRUE)
    PROVE  [Promise!Next]_(Promise!vars)
<1>1. UNCHANGED <<runs, faults>>
  BY ZRemOutcome
<1>2. CASE UNCHANGED <<deadline, fires>>
  BY <1>1, <1>2, MappedStutter
<1>3. CASE /\ deadline[m].gen # 0
           /\ deadline' = [deadline EXCEPT ![m] = NoEntry]
           /\ \E p : fires' = fires \cup {[gen |-> deadline[m].gen, node |-> n,
                         member |-> m, payload |-> p, stage |-> "fetch"]}
  <2>1. PICK p : fires' = fires \cup {[gen |-> deadline[m].gen, node |-> n,
                         member |-> m, payload |-> p, stage |-> "fetch"]}
    BY <1>3
  <2> DEFINE e == [gen |-> deadline[m].gen, node |-> n, member |-> m, payload |-> p,
                   stage |-> "fetch"]
  <2>2. {f.gen : f \in fires'} = {f.gen : f \in fires} \cup {deadline[m].gen}
    <3>1. e.gen = deadline[m].gen /\ fires' = fires \cup {e}
      BY <2>1
    <3> HIDE DEF e
    <3>2. QED BY <3>1
  <2>3. Promise!Claim(m)
    BY <1>1, <1>3, <2>2, MappedRemoval DEF Promise!Claim
  <2>4. QED BY <1>1, <2>3 DEF Promise!Next, Promise!Step
<1>4. QED BY <1>2, <1>3, ZRemOutcome

\* Until Redis fails, every step is a step of the abstract deadlines or a stutter.
THEOREM Implements == Spec => ImplementsDeadlines
<1> USE DurableTimersAssumption
<1>1. Init => Promise!Init
  BY DEF Init, Promise!Init, NoEntry, Gens, Promise!Ids
<1>2. TypeOK /\ TypeOK' /\ OnceInv /\ [Next]_vars => [Promise!Next]_(Promise!vars)
  <2> SUFFICES ASSUME TypeOK, TypeOK', OnceInv, [Next]_vars
               PROVE  [Promise!Next]_(Promise!vars)
    OBVIOUS
  <2>1. CASE faults' # 0
    BY <2>1 DEF Promise!Next
  <2>2. CASE faults' = 0
    <3>1. faults = 0 /\ ~Fault
      BY <2>2, FaultsGrow DEF Fault, TypeOK
    <3>2. OnlyClaimsRun /\ PendingOnce /\ ClaimedOnce /\ UnusedUntouched
      BY <3>1 DEF OnceInv
    <3>3. ASSUME NEW n \in Nodes, NEW m \in Members, NEW at \in 0..MaxTime,
                 ScheduleDurable(n, m, at)
          PROVE  Promise!Schedule(m, nextGen) /\ nextGen \in Gens
      <4>1. /\ nextGen \in Gens
            /\ deadline' = [deadline EXCEPT ![m] = [at |-> at, gen |-> nextGen]]
            /\ UNCHANGED <<fires, runs>>
        BY <3>1, <3>2, <3>3 DEF ScheduleDurable, Persist, OnlyClaimsRun
      <4>2. [k \in Members |-> deadline'[k].gen]
               = [[k \in Members |-> deadline[k].gen] EXCEPT ![m] = nextGen]
        BY <4>1 DEF TypeOK
      <4>3. \A k \in Members : deadline[k].gen # nextGen
        <5>1. nextGen \in Nat /\ \A k \in Members : deadline[k].gen \in Nat
          BY DEF TypeOK
        <5>2. QED BY <3>2, <4>1, <5>1 DEF PendingOnce, Gens
      <4>4. nextGen \notin {f.gen : f \in fires}
        BY <3>2, <4>1 DEF ClaimedOnce, TypeOK, Gens, Fire
      <4>5. runs[nextGen] = 0
        BY <3>2, <4>1 DEF UnusedUntouched, Gens
      <4>6. QED BY <4>1, <4>2, <4>3, <4>4, <4>5 DEF Promise!Schedule
    <3>4. ASSUME NEW n \in Nodes, NEW m \in Members, CancelDurable(n, m)
          PROVE  Promise!Drop(m)
      BY <3>1, <3>2, <3>4, MappedRemoval DEF CancelDurable, OnlyClaimsRun, Promise!Drop
    <3>5. ASSUME NEW h \in handles, LocalFire(h)
          PROVE  [Promise!Next]_(Promise!vars)
      <4>1. /\ h.node \in Nodes /\ h.member \in Members /\ open = Nodes
            /\ ZRemThenRun(h.node, h.member, h.gen, TRUE)
        BY <3>2, <3>5 DEF LocalFire, OnlyClaimsRun, TypeOK, Timer
      <4>2. QED BY <2>2, <3>1, <4>1, MappedZRem
    <3>6. ASSUME NEW f \in fires, FetchPayload(f)
          PROVE  UNCHANGED Promise!vars
      <4>1. {e.gen : e \in fires'} = {e.gen : e \in fires}
        <5> DEFINE e == [f EXCEPT !.stage = "drop",
                                  !.payload = IF payload[f.member] # 0
                                              THEN payload[f.member] ELSE @]
        <5>1. e.gen = f.gen /\ fires' = (fires \ {f}) \cup {e}
          BY <3>6 DEF FetchPayload, TypeOK, Fire
        <5> HIDE DEF e
        <5>2. QED BY <3>6, <5>1
      <4>2. QED BY <3>6, <4>1 DEF FetchPayload, redisVars, Promise!vars
    <3>7. ASSUME NEW f \in fires, DropPayloadAndRun(f)
          PROVE  Promise!Run(f.gen) /\ f.gen \in Gens
      <4>1. f.gen \in Gens /\ runs[f.gen] = 0
        BY <3>2 DEF ClaimedOnce, TypeOK, Fire
      <4>2. runs' = [runs EXCEPT ![f.gen] = @ + 1] /\ UNCHANGED deadline
        BY <3>7, <4>1 DEF DropPayloadAndRun, RunHandler
      <4>3. {e.gen : e \in fires'} = {e.gen : e \in fires} \ {f.gen}
        BY <3>2, <3>7 DEF DropPayloadAndRun, ClaimedOnce
      <4>4. QED BY <4>1, <4>2, <4>3 DEF Promise!Run
    <3>8. ASSUME NEW n \in Nodes, NEW m \in Members, SweepNext(n, m)
          PROVE  [Promise!Next]_(Promise!vars)
      <4>1. CASE UNCHANGED <<deadline, fires, runs, faults>>
        BY <4>1, MappedStutter
      <4>2. CASE ZRemThenRun(n, m, 0, TRUE)
        BY <2>2, <3>1, <3>2, <4>2, MappedZRem DEF OnlyClaimsRun
      <4>3. QED BY <3>8, <4>1, <4>2, Zenon DEF SweepNext
    <3>9. ASSUME NEW n \in Nodes, Crash(n)
          PROVE  \E S \in SUBSET Gens : Promise!Lose(S)
      <4> DEFINE S == {f.gen : f \in {e \in fires : e.node = n}}
      <4>1. S \in SUBSET Gens
        BY DEF TypeOK, Fire
      <4>2. fires' = {f \in fires : f.node # n} /\ UNCHANGED <<deadline, runs>>
        BY <3>9 DEF Crash, redisVars
      <4>3. {f.gen : f \in fires'} = {f.gen : f \in fires} \ S
        BY <3>2, <4>2 DEF ClaimedOnce
      <4>4. QED BY <4>1, <4>2, <4>3 DEF Promise!Lose
    <3>10. ASSUME NEW f \in fires, ClaimFails(f) PROVE FALSE
      BY <3>1, <3>10 DEF ClaimFails
    <3>11. ASSUME NEW n \in Nodes, RedisCloses(n) PROVE FALSE
      BY <3>1, <3>11 DEF RedisCloses
    <3>12. CASE UNCHANGED <<deadline, fires, runs, faults>>
      BY <3>12, MappedStutter
    <3>13. (Promise!Step => [Promise!Next]_(Promise!vars)) /\ Gens = Promise!Ids
      BY <2>2, <3>1 DEF Promise!Next, Gens, Promise!Ids
    <3>14. ASSUME \/ \E c \in calls : Arm(c)
                  \/ \E n \in Nodes : SweepRead(n) \/ Restart(n) \/ RedisReopens(n)
                  \/ Tick
                  \/ UNCHANGED vars
           PROVE  UNCHANGED <<deadline, fires, runs, faults>>
      BY <3>14 DEF Arm, SweepRead, Tick, Restart, RedisReopens, redisVars, vars
    <3>15. ASSUME \/ \E n \in Nodes, m \in Members, at \in 0..MaxTime : ScheduleDurable(n, m, at)
                  \/ \E n \in Nodes, m \in Members : CancelDurable(n, m)
                  \/ \E f \in fires : DropPayloadAndRun(f)
                  \/ \E n \in Nodes : Crash(n)
           PROVE  Promise!Step
      <4>1. CASE \E n \in Nodes, m \in Members, at \in 0..MaxTime : ScheduleDurable(n, m, at)
        <5>1. \E m \in Members, g \in Promise!Ids : Promise!Schedule(m, g)
          <6>1. PICK m \in Members : Promise!Schedule(m, nextGen) /\ nextGen \in Promise!Ids
            BY <3>3, <3>13, <4>1
          <6>2. QED BY <6>1 DEF Promise!Schedule
        <5>2. QED BY <5>1, Zenon DEF Promise!Step
      <4>2. CASE \E n \in Nodes, m \in Members : CancelDurable(n, m)
        <5>1. \E m \in Members : Promise!Drop(m)
          BY <3>4, <4>2
        <5>2. QED BY <5>1, Zenon DEF Promise!Step
      <4>3. CASE \E f \in fires : DropPayloadAndRun(f)
        <5>1. \E g \in Promise!Ids : Promise!Run(g)
          BY <3>7, <3>13, <4>3
        <5>2. QED BY <5>1, Zenon DEF Promise!Step
      <4>4. CASE \E n \in Nodes : Crash(n)
        <5>1. \E S \in SUBSET Promise!Ids : Promise!Lose(S)
          BY <3>9, <3>13, <4>4
        <5>2. QED BY <5>1, Zenon DEF Promise!Step
      <4>5. QED BY <3>15, <4>1, <4>2, <4>3, <4>4
    <3>16. QED
      BY <3>5, <3>6, <3>8, <3>10, <3>11, <3>12, <3>13, <3>14, <3>15 DEF Next
  <2>3. QED BY <2>1, <2>2
<1>3. QED BY <1>1, <1>2, TypeCorrect, OnceInvariant, PTL DEF Spec, ImplementsDeadlines, Promise!Spec
=============================================================================
