--------------------------- MODULE Guards_proofs ---------------------------
(***************************************************************************)
(* What stands in front of handlers, services and loops: the circuit       *)
(* breaker, the token buckets, the checks of tokens and sessions, the      *)
(* dedupe of the events the app reports, the leader's lease and the slots  *)
(* of billings, for any callers, keys, requests, nodes and bounds.         *)
(***************************************************************************)
EXTENDS Breaker, TokenBuckets, Access, FailureLog, LeaderLock, BillingSlots,
        FiniteSetTheorems, TLAPS

-----------------------------------------------------------------------------
(* The circuit breaker *)

Places == {"idle", "refused", "call", "trial"}

\* The part of the type that OneTrial rests on: where each caller is, and the flag.
CallsTyped ==
    /\ call \in [Callers -> [at : Places, sick : BOOLEAN]]
    /\ trialInFlight \in BOOLEAN

TrialInv == CallsTyped /\ OneTrial

\* No caller begins or ends a trial.
SameTrials == \A c \in Callers : call'[c].at = "trial" <=> call[c].at = "trial"

-----------------------------------------------------------------------------
\* A step that moves no trial and leaves the flag keeps OneTrial.
LEMMA NoTrialMoves ==
    ASSUME OneTrial, SameTrials, UNCHANGED trialInFlight
    PROVE  OneTrial'
BY DEF OneTrial, SameTrials

\* A call that ends gives back the dest of the trial when it was the trial, and only then.
LEMMA ReturnKeeps ==
    ASSUME TrialInv, NEW c \in Callers, Returns(c)
    PROVE  CallsTyped' /\ OneTrial'
<1>1. CallsTyped'
  <2>1. trialInFlight' \in BOOLEAN
    BY DEF TrialInv, CallsTyped, Returns, Finally
  <2>2. NoCall \in [at : Places, sick : BOOLEAN]
    BY DEF NoCall, Places
  <2>3. call' \in [Callers -> [at : Places, sick : BOOLEAN]]
    BY <2>2 DEF TrialInv, CallsTyped, Returns
  <2> QED
    BY <2>1, <2>3 DEF CallsTyped
<1>2. \A d \in Callers : call'[d].at = "trial" <=> (d # c /\ call[d].at = "trial")
  BY DEF TrialInv, CallsTyped, Returns, NoCall
<1>3. CASE call[c].at = "trial"
  <2>1. trialInFlight' = FALSE
    BY <1>3 DEF Returns, Finally
  <2>2. \A d \in Callers : ~(call'[d].at = "trial")
    BY <1>2, <1>3 DEF TrialInv, OneTrial
  <2> QED
    BY <1>1, <2>1, <2>2 DEF OneTrial
<1>4. CASE call[c].at # "trial"
  <2>1. UNCHANGED trialInFlight
    BY <1>4 DEF Returns, Finally
  <2>2. SameTrials
    BY <1>2, <1>4 DEF SameTrials
  <2> QED
    BY <1>1, <2>1, <2>2, NoTrialMoves DEF TrialInv
<1> QED
  BY <1>3, <1>4

\* A trial begins only while the flag says that none is out.
LEMMA ExecKeeps ==
    ASSUME TrialInv, NEW c \in Callers, Exec(c)
    PROVE  CallsTyped' /\ OneTrial'
<1>1. CallsTyped'
  BY DEF TrialInv, CallsTyped, Exec, Places
<1>2. \A d \in Callers : d # c => call'[d] = call[d]
  BY DEF TrialInv, CallsTyped, Exec
<1>3. call[c].at # "trial"
  BY DEF Exec
<1>4. CASE State = "closed"
  <2>1. call'[c].at = "call"
    BY <1>4 DEF TrialInv, CallsTyped, Exec
  <2>2. SameTrials
    BY <1>2, <1>3, <2>1 DEF SameTrials
  <2>3. UNCHANGED trialInFlight
    <3>1. State # "half-open"
      BY <1>4
    <3>2. trialInFlight \in BOOLEAN
      BY DEF TrialInv, CallsTyped
    <3>3. trialInFlight' = (trialInFlight \/ State = "half-open")
      BY DEF Exec
    <3> QED
      BY <3>1, <3>2, <3>3
  <2> QED
    BY <1>1, <2>2, <2>3, NoTrialMoves DEF TrialInv
<1>5. CASE State = "half-open" /\ ~trialInFlight
  <2>1. call'[c].at = "trial"
    BY <1>5 DEF TrialInv, CallsTyped, Exec
  <2>2. trialInFlight'
    BY <1>5 DEF Exec
  <2>3. \A d \in Callers : d # c => ~(call'[d].at = "trial")
    BY <1>2, <1>5 DEF TrialInv, OneTrial
  <2> QED
    BY <1>1, <2>1, <2>2, <2>3 DEF OneTrial
<1> QED
  BY <1>4, <1>5 DEF Exec

LEMMA TrialKept == TrialInv /\ [BreakerNext]_breakerVars => TrialInv'
<1> SUFFICES ASSUME TrialInv, [BreakerNext]_breakerVars
             PROVE  CallsTyped' /\ OneTrial'
  BY DEF TrialInv
<1>1. CASE BreakerTick \/ UNCHANGED breakerVars
  BY <1>1 DEF BreakerTick, breakerVars, TrialInv, CallsTyped, OneTrial
<1>2. CASE HealthChanges
  <2>1. \A c \in Callers : call'[c].at = call[c].at
    BY <1>2 DEF HealthChanges, TrialInv, CallsTyped
  <2>2. CallsTyped'
    BY <1>2 DEF HealthChanges, TrialInv, CallsTyped, InFlight
  <2> QED
    BY <1>2, <2>1, <2>2, NoTrialMoves DEF SameTrials, HealthChanges, TrialInv
<1>3. ASSUME NEW c \in Callers, FailFast(c)
      PROVE  CallsTyped' /\ OneTrial'
  <2>1. CallsTyped'
    BY <1>3 DEF FailFast, TrialInv, CallsTyped, Places
  <2>2. SameTrials
    BY <1>3 DEF FailFast, TrialInv, CallsTyped, SameTrials
  <2> QED
    BY <1>3, <2>1, <2>2, NoTrialMoves DEF FailFast, TrialInv
<1>4. ASSUME NEW c \in Callers, Succeeds(c) \/ Fails(c) \/ BadInput(c)
      PROVE  CallsTyped' /\ OneTrial'
  <2>1. Returns(c)
    BY <1>4 DEF Succeeds, Fails, BadInput
  <2> QED
    BY <2>1, ReturnKeeps
<1> QED
  BY <1>1, <1>2, <1>3, <1>4, ExecKeeps DEF BreakerNext

\* At first no call is under way.
LEMMA TrialAtFirst == BreakerInit => TrialInv
<1> SUFFICES ASSUME BreakerInit
             PROVE  CallsTyped /\ OneTrial
  BY DEF TrialInv
<1>1. \A c \in Callers : call[c] = NoCall
  BY DEF BreakerInit
<1>2. CallsTyped
  BY DEF BreakerInit, CallsTyped, NoCall, Places
<1>3. \A c \in Callers : call[c].at # "trial"
  BY <1>1 DEF NoCall
<1> QED
  BY <1>2, <1>3 DEF BreakerInit, OneTrial

\* A half-open breaker sends one call at a time, and its flag says truly whether one is out
\* (createCircuitBreaker), whatever calls of an earlier time end while the trial is under way.
THEOREM TrialIsAlone == BreakerSpec => []OneTrial
<1>1. TrialInv => OneTrial
  BY DEF TrialInv
<1> QED
  BY <1>1, TrialAtFirst, TrialKept, PTL DEF BreakerSpec

-----------------------------------------------------------------------------
\* The rest of the type.
Counts == failures \in 0..Threshold /\ openAge \in 0..OpenFor
Switches == opened \in BOOLEAN /\ healthy \in BOOLEAN

LEMMA StepCounts ==
    ASSUME Counts, Switches, [BreakerNext]_breakerVars
    PROVE  Counts' /\ Switches'
<1>1. CASE BreakerTick \/ HealthChanges \/ UNCHANGED breakerVars
  <2>1. Counts'
    BY <1>1, BreakerAssumption DEF BreakerTick, HealthChanges, breakerVars, Counts
  <2>2. Switches'
    BY <1>1 DEF BreakerTick, HealthChanges, breakerVars, Switches
  <2> QED
    BY <2>1, <2>2
<1>2. ASSUME NEW c \in Callers, FailFast(c) \/ Exec(c) \/ BadInput(c)
      PROVE  Counts' /\ Switches'
  BY <1>2 DEF FailFast, Exec, BadInput, Returns, Counts, Switches
<1>3. ASSUME NEW c \in Callers, Succeeds(c) \/ Fails(c)
      PROVE  Counts' /\ Switches'
  <2>1. Counts'
    BY <1>3, BreakerAssumption DEF Succeeds, Fails, Counts
  <2>2. Switches'
    BY <1>3 DEF Succeeds, Fails, Returns, Switches
  <2> QED
    BY <2>1, <2>2
<1> QED
  BY <1>1, <1>2, <1>3 DEF BreakerNext

\* The breaker's counters stay within their bounds (failures and openedAt of createCircuitBreaker).
THEOREM BreakerTypeCorrect == BreakerSpec => []BreakerTypeOK
<1>1. BreakerInit => Counts /\ Switches
  <2>1. BreakerInit => Counts
    BY BreakerAssumption DEF BreakerInit, Counts
  <2>2. BreakerInit => Switches
    BY DEF BreakerInit, Switches
  <2> QED
    BY <2>1, <2>2
<1>2. CallsTyped /\ Counts /\ Switches => BreakerTypeOK
  BY DEF CallsTyped, Counts, Switches, Places, BreakerTypeOK
<1>3. TrialInv => CallsTyped
  BY DEF TrialInv
<1> QED
  BY <1>1, <1>2, <1>3, TrialAtFirst, TrialKept, StepCounts, PTL DEF BreakerSpec

-----------------------------------------------------------------------------
(* The token buckets *)

BucketTyped == bucket \in [Keys -> [tokens : 0..Capacity, age : 0..IdleFor + 1]]

Levels == [k \in Keys |-> Here(k)]

-----------------------------------------------------------------------------
LEMMA BucketNats == Capacity \in Nat /\ Refill \in Nat /\ Cost \in Nat /\ IdleFor \in Nat
BY BucketAssumption

\* What has been regained is a natural number and grows by Refill with each tick.
LEMMA RegainedGrows ==
    ASSUME NEW a \in Nat
    PROVE  a * Refill \in Nat /\ (a + 1) * Refill = a * Refill + Refill
BY BucketNats

LEMMA BucketOf ==
    ASSUME BucketTyped, NEW k \in Keys
    PROVE  /\ bucket[k].tokens \in 0..Capacity /\ bucket[k].age \in 0..IdleFor + 1
           /\ bucket[k].age * Refill \in Nat
           /\ Refilled(k) \in 0..Capacity /\ Here(k) \in 0..Capacity
<1>1. bucket[k].tokens \in 0..Capacity /\ bucket[k].age \in 0..IdleFor + 1
  BY DEF BucketTyped
<1>2. bucket[k].age * Refill \in Nat
  <2>1. bucket[k].age \in Nat
    BY <1>1, BucketNats
  <2> HIDE <1>1
  <2> QED
    BY <2>1, RegainedGrows
<1>3. Refilled(k) \in 0..Capacity
  BY <1>1, <1>2, BucketNats DEF Refilled, Capped
<1> QED
  BY <1>1, <1>2, <1>3, BucketNats DEF Here

\* A bucket that was idle for IdleFor is full: dropping it changes nothing.
LEMMA IdleIsFull ==
    ASSUME BucketTyped, NEW k \in Keys, bucket[k].age > IdleFor
    PROVE  Refilled(k) = Capacity
<1>1. bucket[k].age = IdleFor + 1 /\ bucket[k].tokens \in 0..Capacity
  BY BucketOf, BucketNats
<1>2. (IdleFor + 1) * Refill >= Capacity
  <2>1. (IdleFor + 1) * Refill = IdleFor * Refill + Refill
    BY RegainedGrows, BucketNats
  <2>2. IdleFor * Refill >= Capacity
    BY BucketAssumption
  <2>3. IdleFor * Refill \in Nat
    BY RegainedGrows, BucketNats
  <2> QED
    BY <2>1, <2>2, <2>3, BucketNats
<1> QED
  BY <1>1, <1>2, BucketNats DEF Refilled, Capped

-----------------------------------------------------------------------------
\* Taking a token is a Take of the ideal bucket.
LEMMA TakeImplements ==
    ASSUME BucketTyped, NEW k \in Keys, TakeToken(k)
    PROVE  BucketTyped' /\ Ideal!Take(k)
<1> DEFINE t == IF Here(k) >= Cost THEN Here(k) - Cost ELSE Here(k)
<1>1. t \in 0..Capacity
  BY BucketOf, BucketNats
<1>2. bucket' = [bucket EXCEPT ![k] = [tokens |-> t, age |-> 0]] /\ there' = there \cup {k}
  BY DEF TakeToken
<1> HIDE DEF t
<1>3. BucketTyped'
  BY <1>1, <1>2, BucketNats DEF BucketTyped
<1>4. Here(k)' = t
  <2>1. bucket'[k].tokens = t /\ bucket'[k].age = 0 /\ k \in there'
    BY <1>2 DEF BucketTyped
  <2> QED
    BY <1>1, <2>1, BucketNats DEF Here, Refilled, Capped
<1>5. ASSUME NEW j \in Keys, j # k
      PROVE  Here(j)' = Here(j)
  BY <1>2, <1>5 DEF Here, Refilled, BucketTyped
<1>6. Levels' = [Levels EXCEPT ![k] = t]
  BY <1>4, <1>5 DEF Levels
<1>7. Levels[k] = Here(k)
  BY DEF Levels
<1>8. Levels' = [Levels EXCEPT ![k] = IF @ >= Cost THEN @ - Cost ELSE @]
  BY <1>6, <1>7 DEF t
<1>9. last' = [last EXCEPT ![k] = Levels[k] >= Cost]
  BY <1>7 DEF TakeToken
<1> QED
  BY <1>3, <1>8, <1>9 DEF Ideal!Take, Levels

\* The clock: a bucket that is there gains what the ideal one gains, up to Capacity, and
\* beyond the age that drops it there is nothing left to gain.
LEMMA TickImplements ==
    ASSUME BucketTyped, BucketTick
    PROVE  BucketTyped' /\ Ideal!Tick
<1>1. BucketTyped'
  <2>1. \A k \in Keys : [bucket[k] EXCEPT !.age = IF @ > IdleFor THEN @ ELSE @ + 1]
                        \in [tokens : 0..Capacity, age : 0..IdleFor + 1]
    BY BucketNats DEF BucketTyped
  <2> QED
    BY <2>1 DEF BucketTick, BucketTyped
<1>2. ASSUME NEW k \in Keys
      PROVE  Here(k)' = Capped(Here(k) + Refill)
  <2>1. there' = there /\ bucket'[k].tokens = bucket[k].tokens
    BY DEF BucketTick, BucketTyped
  <2>2. CASE k \notin there
    BY <2>1, <2>2, BucketNats DEF Here, Capped
  <2>3. CASE k \in there /\ bucket[k].age > IdleFor
    <3>1. bucket'[k].age = bucket[k].age
      BY <2>3 DEF BucketTick, BucketTyped
    <3>2. Here(k) = Capacity /\ Here(k)' = Capacity
      BY <2>1, <2>3, <3>1, IdleIsFull DEF Here, Refilled
    <3> QED
      BY <3>2, BucketNats DEF Capped
  <2>4. CASE k \in there /\ ~(bucket[k].age > IdleFor)
    <3>1. bucket'[k].age = bucket[k].age + 1
      BY <2>4 DEF BucketTick, BucketTyped
    <3>2. bucket[k].tokens \in Nat /\ bucket[k].age \in Nat /\ bucket[k].age * Refill \in Nat
      BY BucketOf, BucketNats
    <3>3. (bucket[k].age + 1) * Refill = bucket[k].age * Refill + Refill
      BY <3>2, RegainedGrows
    <3>4. Here(k)' = Capped(bucket[k].tokens + bucket[k].age * Refill + Refill)
      BY <2>1, <2>4, <3>1, <3>2, <3>3, BucketNats DEF Here, Refilled, Capped
    <3>5. Here(k) = Capped(bucket[k].tokens + bucket[k].age * Refill)
      BY <2>4 DEF Here, Refilled
    <3> QED
      BY <3>2, <3>4, <3>5, BucketNats DEF Capped
  <2> QED
    BY <2>2, <2>3, <2>4
<1>3. Levels' = [k \in Keys |-> Capped(Levels[k] + Refill)]
  BY <1>2 DEF Levels
<1>4. \A n : Capped(n) = Ideal!Capped(n)
  BY DEF Capped, Ideal!Capped
<1> QED
  BY <1>1, <1>3, <1>4 DEF Ideal!Tick, Levels, BucketTick

\* Only full buckets are dropped.
LEMMA PruneStutters ==
    ASSUME BucketTyped, Prune
    PROVE  BucketTyped' /\ UNCHANGED <<Levels, last>>
<1>1. BucketTyped' /\ UNCHANGED <<bucket, last>>
  BY DEF Prune, BucketTyped
<1>2. ASSUME NEW k \in Keys
      PROVE  Here(k)' = Here(k)
  <2>1. CASE k \in there /\ k \notin there'
    <3>1. bucket[k].age > IdleFor
      BY <2>1 DEF Prune, Idle
    <3>2. Here(k) = Capacity
      BY <2>1, <3>1, IdleIsFull DEF Here
    <3> QED
      BY <2>1, <3>2 DEF Here
  <2>2. CASE k \in there <=> k \in there'
    BY <1>1, <2>2 DEF Here, Refilled
  <2>3. k \in there' => k \in there
    BY DEF Prune
  <2> QED
    BY <2>1, <2>2, <2>3
<1> QED
  BY <1>1, <1>2 DEF Levels

-----------------------------------------------------------------------------
LEMMA StepImplements ==
    BucketTyped /\ [BucketsNext]_bucketVars
        => BucketTyped' /\ [Ideal!Next]_<<Levels, last>>
<1> SUFFICES ASSUME BucketTyped, [BucketsNext]_bucketVars
             PROVE  BucketTyped' /\ [Ideal!Next]_<<Levels, last>>
  OBVIOUS
<1>1. CASE BucketTick
  BY <1>1, TickImplements DEF Ideal!Next
<1>2. CASE Prune
  BY <1>2, PruneStutters
<1>3. CASE UNCHANGED <<bucket, there, last>>
  <2>1. BucketTyped'
    BY <1>3 DEF BucketTyped
  <2>2. \A k \in Keys : Here(k)' = Here(k)
    BY <1>3 DEF Here, Refilled
  <2> QED
    BY <1>3, <2>1, <2>2 DEF Levels
<1>4. ASSUME NEW k \in Keys, TakeToken(k)
      PROVE  BucketTyped' /\ [Ideal!Next]_<<Levels, last>>
  BY <1>4, TakeImplements DEF Ideal!Next
<1> QED
  BY <1>1, <1>2, <1>3, <1>4
     DEF BucketsNext, bucketVars, RestRateAllow, DropNotObject, EventGuard

\* take and takeToken answer every request as a bucket would that is refilled all the time and
\* never dropped (createTokenBucketStore): refilling late, and dropping idle keys, are invisible.
THEOREM BucketsImplement == BucketsSpec => BucketsAreIdeal
<1>1. BucketsInit => BucketTyped /\ Ideal!Init
  <2> SUFFICES ASSUME BucketsInit
               PROVE  BucketTyped /\ Ideal!Init
    OBVIOUS
  <2>1. BucketTyped
    BY BucketAssumption DEF BucketsInit, BucketTyped, FullBucket
  <2>2. \A k \in Keys : Here(k) = Capacity
    BY DEF BucketsInit, Here
  <2> QED
    BY <2>1, <2>2 DEF BucketsInit, Ideal!Init
<1>2. BucketTyped /\ [BucketsNext]_bucketVars
          => BucketTyped' /\ [Ideal!Next]_Ideal!idealVars
  BY StepImplements DEF Ideal!idealVars, Levels
<1> QED
  BY <1>1, <1>2, PTL DEF BucketsSpec, BucketsAreIdeal, Ideal!Spec

-----------------------------------------------------------------------------
LEMMA FlagsKept ==
    ASSUME BucketsTypeOK, [BucketsNext]_bucketVars
    PROVE  /\ there' \subseteq Keys /\ limitModes' \in [rate : Modes, guard : Modes]
           /\ last' \in [Keys -> BOOLEAN] /\ passed' \in [Keys -> BOOLEAN]
<1>1. CASE BucketTick \/ Prune \/ UNCHANGED bucketVars
  BY <1>1 DEF BucketTick, Prune, bucketVars, BucketsTypeOK
<1>2. ASSUME NEW k \in Keys, RestRateAllow(k) \/ DropNotObject(k) \/ \E good \in BOOLEAN : EventGuard(k, good)
      PROVE  /\ there' \subseteq Keys /\ limitModes' \in [rate : Modes, guard : Modes]
             /\ last' \in [Keys -> BOOLEAN] /\ passed' \in [Keys -> BOOLEAN]
  <2>1. PICK ok : Pass(k, ok)
    BY <1>2 DEF RestRateAllow, DropNotObject, EventGuard
  <2>2. TakeToken(k) \/ UNCHANGED <<bucket, there, last>>
    BY <1>2 DEF RestRateAllow, DropNotObject, EventGuard
  <2>3. limitModes' = limitModes /\ there' \subseteq Keys
    BY <2>1, <2>2 DEF Pass, TakeToken, BucketsTypeOK
  <2>4. last' \in [Keys -> BOOLEAN]
    <3>1. (Here(k) >= Cost) \in BOOLEAN
      OBVIOUS
    <3> QED
      BY <2>2, <3>1 DEF TakeToken, BucketsTypeOK
  <2>5. passed' \in [Keys -> BOOLEAN]
    BY <1>2 DEF RestRateAllow, DropNotObject, EventGuard, Pass, BucketsTypeOK
  <2> QED
    BY <2>3, <2>4, <2>5 DEF BucketsTypeOK
<1> QED
  BY <1>1, <1>2 DEF BucketsNext

\* No bucket holds more than Capacity, and only keys that may ask have one.
THEOREM BucketsTypeCorrect == BucketsSpec => []BucketsTypeOK
<1>1. BucketsInit => BucketsTypeOK
  BY BucketAssumption DEF BucketsInit, BucketsTypeOK, FullBucket
<1>2. BucketsTypeOK /\ [BucketsNext]_bucketVars => BucketsTypeOK'
  <2>1. BucketsTypeOK => BucketTyped
    BY DEF BucketsTypeOK, BucketTyped
  <2> QED
    BY <2>1, StepImplements, FlagsKept DEF BucketsTypeOK, BucketTyped
<1> QED
  BY <1>1, <1>2, PTL DEF BucketsSpec

-----------------------------------------------------------------------------
(* Tokens, sessions and admins *)

Entries(S) == {Absent} \cup [is : {"there"}, v : S]
Versions == [user : Nat, session : Nat]
Sessions == [version : Nat, revoked : BOOLEAN]
Requests == [pc : {"keys", "user", "session", "in", "out"}, where : {"rest", "socket"},
             t : Versions, age : {"valid", "expired", "old"}, ses : Entries(Sessions),
             ban : BOOLEAN, due : BOOLEAN, fails : BOOLEAN]

\* Of a session that is over at most less is known.
Truthful(entry) == entry # Absent /\ entry.v.revoked => version.over
TellsEnd(entry) == version.over /\ (entry # Absent => entry.v.revoked)

KeysTyped ==
    /\ modes \in [session : SessionModes, socket : SocketModes]
    /\ version \in [user : Nat, session : Nat, over : BOOLEAN]
    /\ keyUser \in Entries(Nat) /\ keySession \in Entries(Sessions)
    /\ keyBan \in BOOLEAN /\ redisOn \in BOOLEAN
    /\ Truthful(keySession)

\* What a request that is due to be refused will yet find out, at each of its awaits.
Overdue(c) ==
    /\ c.pc = "keys" => \/ c.t.user # version.user /\ (keyUser # Absent => keyUser.v # c.t.user)
                        \/ TellsEnd(keySession)
    /\ c.pc = "user" => c.t.user # version.user \/ TellsEnd(c.ses)
    /\ c.pc = "session" => TellsEnd(c.ses)
    /\ c.pc = "in" => c.fails \/ modes.session # "enforce" \/ c.where # "rest"

Known(c) ==
    /\ c.t.user <= version.user
    /\ c.t.user = version.user => keyUser \in {Absent, Is(version.user)}
    /\ c.ban => keyBan
    /\ Truthful(c.ses)
    /\ c.due => Overdue(c)
    /\ c.pc = "out" /\ c.where = "socket" => c.age = "old" \/ Revoked(c.t)

CheckInv ==
    /\ KeysTyped
    /\ check \in [Checks -> {NoCheck} \cup Requests]
    /\ \A q \in Checks : check[q] # NoCheck => Known(check[q])

\* A request that takes a step: all the others know what they knew.
LEMMA OneCheck ==
    ASSUME CheckInv, NEW q \in Checks, NEW c \in Requests, Known(c),
           check' = [check EXCEPT ![q] = c], UNCHANGED <<modes, version, keys, redisOn>>
    PROVE  CheckInv'
<1>1. KeysTyped'
  BY DEF CheckInv, KeysTyped, keys, Truthful
<1>2. check' \in [Checks -> {NoCheck} \cup Requests]
  BY DEF CheckInv
<1>3. ASSUME NEW r \in Checks, check'[r] # NoCheck
      PROVE  Known(check[r])'
  <2>1. \E d : check'[r] = d /\ Known(d)
    BY <1>3 DEF CheckInv
  <2>2. PICK d : check'[r] = d /\ Known(d)
    BY <2>1
  <2> QED
    BY <2>2 DEF Known, Overdue, TellsEnd, Truthful, Revoked, keys
<1> QED
  BY <1>1, <1>2, <1>3 DEF CheckInv

\* A request as its next dest finds it.
LEMMA RequestOf ==
    ASSUME CheckInv, NEW q \in Checks, check[q].pc \in {"keys", "user", "session", "in", "out"}
    PROVE  check[q] \in Requests /\ Known(check[q])
BY DEF CheckInv, NoCheck

LEMMA DenyKeeps ==
    ASSUME CheckInv, NEW q \in Checks, NEW code, check[q].pc \in {"keys", "user", "session"},
           Deny(q, code), UNCHANGED <<modes, version, keys, redisOn>>,
           code = "SESSION_TOKEN_STALE" \/ Revoked(check[q].t)
    PROVE  CheckInv'
<1> DEFINE dest == AfterDenial(check[q].where, code)
           c == [check[q] EXCEPT !.pc = dest]
<1>1. check[q] \in Requests /\ Known(check[q])
  BY RequestOf
<1>2. dest \in {"in", "out"}
      /\ (dest = "in" => modes.session # "enforce" \/ check[q].where # "rest")
      /\ (dest = "out" /\ check[q].where = "socket" => code # "SESSION_TOKEN_STALE")
  BY <1>1 DEF AfterDenial, Requests
<1>3. check' = [check EXCEPT ![q] = c]
  BY DEF Deny, CheckGoes
<1> HIDE DEF dest
<1>4. c \in Requests /\ c.pc = dest /\ c.where = check[q].where /\ c.t = check[q].t
      /\ c.ban = check[q].ban /\ c.ses = check[q].ses /\ c.due = check[q].due
      /\ c.age = check[q].age /\ c.fails = check[q].fails
  BY <1>1, <1>2 DEF Requests
<1> HIDE DEF c
<1>5. Known(c)
  BY <1>1, <1>2, <1>4 DEF Known, Overdue
<1> QED
  BY <1>3, <1>4, <1>5, OneCheck

\* A request begins: what is due then can still be found out.
LEMMA PresentKeeps ==
    ASSUME CheckInv, NEW q \in Checks, NEW where \in {"rest", "socket"}, NEW t \in Issued,
           NEW howOld \in {"valid", "expired", "old"}, NEW dest \in {"keys", "in", "out"},
           dest = "in" => where = "socket",
           dest = "out" => where = "rest" \/ howOld = "old",
           Present(q, where, t, howOld, dest)
    PROVE  CheckInv'
<1> DEFINE c == [pc |-> dest, where |-> where, t |-> t, age |-> howOld, ses |-> Absent,
                 ban |-> FALSE, due |-> Settled(t), fails |-> FALSE]
<1>1. /\ t \in Versions /\ t.user <= version.user
      /\ t.user = version.user => keyUser \in {Absent, Is(version.user)}
  BY DEF Issued, Versions, CheckInv, KeysTyped, Is
<1>2. Settled(t) \in BOOLEAN
  BY DEF Settled
<1>3. c \in Requests
  BY <1>1, <1>2 DEF Requests, Entries
<1>4. Settled(t) => \/ t.user # version.user /\ (keyUser # Absent => keyUser.v # t.user)
                    \/ TellsEnd(keySession)
  BY DEF Settled, TellsEnd, SessionOf, Is
<1>5. Known(c)
  BY <1>1, <1>4 DEF Known, Overdue, Truthful, Absent
<1>6. check' = [check EXCEPT ![q] = c] /\ UNCHANGED <<modes, version, keys, redisOn>>
  BY DEF Present
<1> HIDE DEF c
<1> QED
  BY <1>3, <1>5, <1>6, OneCheck

\* A request that goes on to its session, having found its user's token version good.
LEMMA JudgeUserKeeps ==
    ASSUME CheckInv, NEW q \in Checks, NEW v \in Nat, NEW ses \in Entries(Sessions), NEW ban \in BOOLEAN,
           check[q].pc \in {"keys", "user"}, JudgeUser(q, v, ses, ban),
           UNCHANGED <<modes, version, keys, redisOn>>,
           v # check[q].t.user => check[q].t.user # version.user,
           v = check[q].t.user /\ check[q].due => TellsEnd(ses),
           ban => keyBan, Truthful(ses)
    PROVE  CheckInv'
<1>1. check[q] \in Requests /\ Known(check[q])
  BY RequestOf
<1>2. CASE v # check[q].t.user
  BY <1>2, DenyKeeps DEF JudgeUser, Revoked
<1>3. CASE v = check[q].t.user
  <2> DEFINE c == [check[q] EXCEPT !.pc = "session", !.ses = ses, !.ban = ban]
  <2>1. check' = [check EXCEPT ![q] = c]
    BY <1>3 DEF JudgeUser
  <2>2. c \in Requests /\ c.pc = "session" /\ c.where = check[q].where /\ c.t = check[q].t
        /\ c.ban = ban /\ c.ses = ses /\ c.due = check[q].due
    BY <1>1 DEF Requests
  <2> HIDE DEF c
  <2>3. Known(c)
    BY <1>1, <1>3, <2>2 DEF Known, Overdue
  <2> QED
    BY <2>1, <2>2, <2>3, OneCheck
<1> QED
  BY <1>2, <1>3

LEMMA ReadKeysKeeps == ASSUME CheckInv, NEW q \in Checks, ReadKeys(q) PROVE CheckInv'
<1>1. check[q] \in Requests /\ Known(check[q]) /\ check[q].pc = "keys"
  BY RequestOf DEF ReadKeys
<1>2. UNCHANGED <<modes, version, keys, redisOn>>
  BY DEF ReadKeys
<1>3. keySession \in Entries(Sessions) /\ Truthful(keySession) /\ keyBan \in BOOLEAN
  BY DEF CheckInv, KeysTyped
<1>4. CASE redisOn /\ keyUser # Absent
  <2>1. keyUser.v \in Nat /\ keyUser # Absent
    BY <1>4 DEF CheckInv, KeysTyped, Entries
  <2>2. JudgeUser(q, keyUser.v, keySession, keyBan)
    BY <1>4 DEF ReadKeys
  <2>3. keyUser.v # check[q].t.user => check[q].t.user # version.user
    BY <1>1, <2>1 DEF Known, Is
  <2>4. keyUser.v = check[q].t.user /\ check[q].due => TellsEnd(keySession)
    BY <1>1, <2>1 DEF Known, Overdue
  <2> QED
    BY <1>1, <1>2, <1>3, <2>1, <2>2, <2>3, <2>4, JudgeUserKeeps
<1>5. CASE ~(redisOn /\ keyUser # Absent)
  <2> DEFINE ban == redisOn /\ keyBan
             ses == IF redisOn THEN keySession ELSE Absent
             c == [check[q] EXCEPT !.pc = "user", !.ban = ban, !.ses = ses]
  <2>1. check' = [check EXCEPT ![q] = c]
    BY <1>5 DEF ReadKeys
  <2>2. ban \in BOOLEAN /\ (ban => keyBan)
    OBVIOUS
  <2>3. ses \in Entries(Sessions) /\ Truthful(ses) /\ (TellsEnd(keySession) => TellsEnd(ses))
    BY <1>3 DEF Entries, Truthful, TellsEnd
  <2> HIDE DEF ban, ses
  <2>4. c \in Requests /\ c.pc = "user" /\ c.where = check[q].where /\ c.t = check[q].t
        /\ c.ban = ban /\ c.ses = ses /\ c.due = check[q].due
    BY <1>1, <2>2, <2>3 DEF Requests
  <2> HIDE DEF c
  <2>5. Known(c)
    BY <1>1, <2>2, <2>3, <2>4 DEF Known, Overdue
  <2> QED
    BY <1>2, <2>1, <2>4, <2>5, OneCheck
<1> QED
  BY <1>4, <1>5

LEMMA RowsKeep ==
    ASSUME CheckInv, NEW q \in Checks,
           FindUserTokenVersion(q) \/ FindSession(q) \/ CheckErrs(q)
    PROVE  CheckInv'
<1>1. check[q] \in Requests /\ Known(check[q])
  BY RequestOf DEF FindUserTokenVersion, FindSession, CheckErrs
<1>2. UNCHANGED <<modes, version, keys, redisOn>>
  BY DEF FindUserTokenVersion, FindSession, CheckErrs
<1>3. CASE FindUserTokenVersion(q)
  <2>1. check[q].pc = "user" /\ JudgeUser(q, version.user, check[q].ses, check[q].ban)
    BY <1>3 DEF FindUserTokenVersion
  <2>2. version.user \in Nat /\ check[q].ses \in Entries(Sessions) /\ check[q].ban \in BOOLEAN
    BY <1>1 DEF CheckInv, KeysTyped, Requests
  <2>3. /\ version.user = check[q].t.user /\ check[q].due => TellsEnd(check[q].ses)
        /\ check[q].ban => keyBan
        /\ Truthful(check[q].ses)
    BY <1>1, <2>1 DEF Known, Overdue
  <2> QED
    BY <1>2, <2>1, <2>2, <2>3, JudgeUserKeeps
<1>4. CASE FindSession(q)
  <2> DEFINE s == IF check[q].ses = Absent THEN SessionOf(version) ELSE check[q].ses
  <2>1. check[q].pc = "session" /\ JudgeSession(q, s)
    BY <1>4 DEF FindSession
  <2>2. (s.v.revoked => version.over) /\ (check[q].due => s.v.revoked)
    BY <1>1, <2>1 DEF Known, Overdue, Truthful, TellsEnd, SessionOf, Is
  <2> HIDE DEF s
  <2>3. CASE s.v.revoked
    BY <1>2, <2>1, <2>2, <2>3, DenyKeeps DEF JudgeSession, Revoked
  <2>4. CASE ~s.v.revoked /\ s.v.version # check[q].t.session
    BY <1>2, <2>1, <2>4, DenyKeeps DEF JudgeSession
  <2>5. CASE ~s.v.revoked /\ s.v.version = check[q].t.session /\ check[q].ban
    <3>1. Revoked(check[q].t)
      BY <1>1, <2>5 DEF Known, Revoked
    <3> QED
      BY <1>2, <2>1, <2>5, <3>1, DenyKeeps DEF JudgeSession
  <2>6. CASE ~s.v.revoked /\ s.v.version = check[q].t.session /\ ~check[q].ban
    <3> DEFINE c == [check[q] EXCEPT !.pc = "in"]
    <3>1. check' = [check EXCEPT ![q] = c]
      BY <2>1, <2>6 DEF JudgeSession, CheckGoes
    <3>2. c \in Requests /\ c.pc = "in" /\ c.t = check[q].t /\ c.ban = check[q].ban
          /\ c.ses = check[q].ses /\ c.due = check[q].due
      BY <1>1 DEF Requests
    <3> HIDE DEF c
    <3>3. Known(c)
      BY <1>1, <2>2, <2>6, <3>2 DEF Known
    <3> QED
      BY <1>2, <3>1, <3>2, <3>3, OneCheck
  <2> QED
    BY <2>3, <2>4, <2>5, <2>6
<1>5. CASE CheckErrs(q)
  <2> DEFINE c == [check[q] EXCEPT !.pc = "in", !.fails = TRUE]
  <2>1. check' = [check EXCEPT ![q] = c]
    BY <1>5 DEF CheckErrs
  <2>2. c \in Requests /\ c.pc = "in" /\ c.fails = TRUE /\ c.t = check[q].t
        /\ c.ban = check[q].ban /\ c.ses = check[q].ses
    BY <1>1 DEF Requests
  <2> HIDE DEF c
  <2>3. Known(c)
    BY <1>1, <2>2 DEF Known, Overdue
  <2> QED
    BY <1>2, <2>1, <2>2, <2>3, OneCheck
<1> QED
  BY <1>3, <1>4, <1>5

\* ol-node-rest, the keys and Redis: what is known stays true.
LEMMA WorldKeeps ==
    ASSUME CheckInv,
           \/ LogoutAll \/ Refresh \/ Logout \/ KeysFollow \/ KeysExpire \/ BanDevice
           \/ RedisComesOrGoes
    PROVE  CheckInv'
<1>1. UNCHANGED <<modes, check>>
  BY DEF LogoutAll, Refresh, Logout, NewVersion, KeysFollow, KeysExpire, BanDevice, RedisComesOrGoes
<1>2. /\ version \in [user : Nat, session : Nat, over : BOOLEAN]
      /\ keyUser \in Entries(Nat) /\ keySession \in Entries(Sessions)
      /\ keyBan \in BOOLEAN /\ redisOn \in BOOLEAN /\ Truthful(keySession)
  BY DEF CheckInv, KeysTyped
<1>3. /\ version' \in [user : Nat, session : Nat, over : BOOLEAN]
      /\ version'.user >= version.user /\ (version.over => version'.over)
      /\ version' = version \/ UNCHANGED keys
  <2>1. CASE LogoutAll
    <3>1. version' = [version EXCEPT !.user = @ + 1] /\ UNCHANGED keys
      BY <2>1 DEF LogoutAll, NewVersion
    <3> QED
      BY <1>2, <3>1
  <2>2. CASE Refresh
    <3>1. version' = [version EXCEPT !.session = @ + 1] /\ UNCHANGED keys
      BY <2>2 DEF Refresh, NewVersion
    <3> QED
      BY <1>2, <3>1
  <2>3. CASE Logout
    <3>1. version' = [version EXCEPT !.over = TRUE] /\ UNCHANGED keys
      BY <2>3 DEF Logout, NewVersion
    <3>2. version' \in [user : Nat, session : Nat, over : BOOLEAN]
      BY <1>2, <3>1, Zenon
    <3>3. version'.user = version.user /\ version'.over
      BY <1>2, <3>1
    <3> QED
      BY <1>2, <3>1, <3>2, <3>3
  <2>4. CASE KeysFollow \/ KeysExpire \/ BanDevice \/ RedisComesOrGoes
    <3>1. version' = version
      BY <2>4 DEF KeysFollow, KeysExpire, BanDevice, RedisComesOrGoes
    <3> QED
      BY <1>2, <3>1
  <2> QED
    BY <2>1, <2>2, <2>3, <2>4
<1>4. keyUser' \in {keyUser, Absent, Is(version.user)}
      /\ keySession' \in {keySession, Absent, SessionOf(version)}
      /\ (keyUser' # keyUser \/ keySession' # keySession => version' = version)
  BY DEF LogoutAll, Refresh, Logout, NewVersion, KeysFollow, KeysExpire, BanDevice,
         RedisComesOrGoes, keys
<1>5. keyBan' \in BOOLEAN /\ (keyBan => keyBan') /\ redisOn' \in BOOLEAN
  BY <1>2 DEF LogoutAll, Refresh, Logout, NewVersion, KeysFollow, KeysExpire, BanDevice,
              RedisComesOrGoes, keys
<1>6. Is(version.user) \in Entries(Nat) /\ SessionOf(version) \in Entries(Sessions)
  BY <1>2 DEF Is, SessionOf, Entries, Sessions
<1>7. KeysTyped'
  <2>1. keyUser' \in Entries(Nat) /\ keySession' \in Entries(Sessions)
    BY <1>2, <1>4, <1>6 DEF Entries
  <2>2. Truthful(keySession)'
    BY <1>2, <1>3, <1>4 DEF Truthful, SessionOf, Is
  <2> QED
    BY <1>1, <1>3, <1>5, <2>1, <2>2 DEF CheckInv, KeysTyped
<1>8. ASSUME NEW c \in Requests, Known(c)
      PROVE  Known(c)'
  <2>1. c.t.user \in Nat /\ c.t.user <= version'.user
    BY <1>2, <1>3, <1>8 DEF Known, Requests, Versions
  <2>2. c.t.user # version.user => c.t.user # version'.user
    BY <1>2, <1>3, <1>8, <2>1 DEF Known
  <2>3. c.t.user = version'.user => keyUser' \in {Absent, Is(version'.user)}
    BY <1>3, <1>4, <1>8, <2>2 DEF Known
  <2>4. TellsEnd(c.ses) => TellsEnd(c.ses)'
    BY <1>3 DEF TellsEnd
  <2>5. Truthful(c.ses)'
    BY <1>3, <1>8 DEF Known, Truthful
  <2>6. TellsEnd(keySession) => TellsEnd(keySession)'
    BY <1>3, <1>4 DEF TellsEnd, SessionOf, Is
  <2>7. (c.t.user # version.user /\ (keyUser # Absent => keyUser.v # c.t.user))
           => (keyUser' # Absent => keyUser'.v # c.t.user)
    BY <1>4 DEF Is
  <2>8. c.due => Overdue(c)'
    BY <1>1, <1>8, <2>2, <2>4, <2>6, <2>7 DEF Known, Overdue
  <2>9. Revoked(c.t) => Revoked(c.t)'
    BY <1>3, <1>5, <2>2 DEF Revoked
  <2> QED
    BY <1>5, <1>8, <2>1, <2>3, <2>5, <2>8, <2>9 DEF Known
<1>9. ASSUME NEW q \in Checks, check[q] # NoCheck
      PROVE  Known(check[q])'
  <2>1. PICK c \in Requests : c = check[q]
    BY <1>9 DEF CheckInv
  <2>2. Known(c)'
    BY <1>8, <1>9, <2>1 DEF CheckInv
  <2>3. c = check'[q]
    BY <1>1, <2>1
  <2> QED
    BY <2>2, <2>3 DEF Known, Overdue, Truthful, TellsEnd, Revoked
<1> QED
  BY <1>1, <1>7, <1>9 DEF CheckInv

-----------------------------------------------------------------------------
(* Admin requests *)

\* A request of an admin who was gone when it began has a refusal ahead of it.
Doomed(c) == c.due => /\ Gone /\ c.pc \in {"row", "session", "out"}
                      /\ c.pc = "session" => ~adminRow.session

AdminInv ==
    /\ adminRow \in [role : AdminRoles, active : BOOLEAN, session : BOOLEAN,
                     views : {"none", "other", "this"}]
    /\ adminCheck \in [AdminChecks ->
                         [pc : {"idle", "row", "session", "views", "role", "in", "out"},
                          due : BOOLEAN]]
    /\ \A q \in AdminChecks : Doomed(adminCheck[q])

LEMMA OneAdminCheck ==
    ASSUME AdminInv, NEW q \in AdminChecks, Doomed(adminCheck'[q]), UNCHANGED adminRow,
           NEW c \in [pc : {"row", "session", "views", "role", "in", "out"}, due : BOOLEAN],
           adminCheck' = [adminCheck EXCEPT ![q] = c]
    PROVE  AdminInv'
<1>1. \A r \in AdminChecks : Doomed(adminCheck'[r])
  BY DEF AdminInv
<1>2. \A r \in AdminChecks : Doomed(adminCheck[r])'
  BY <1>1 DEF Doomed, Gone
<1> QED
  BY <1>2 DEF AdminInv

LEMMA AdminGoesKeeps ==
    ASSUME AdminInv, NEW q \in AdminChecks, NEW from,
           NEW dest \in {"session", "views", "role", "in", "out"}, AdminGoes(q, from, dest),
           adminCheck[q].due => dest = "out" \/ (dest = "session" /\ ~adminRow.session)
    PROVE  AdminInv'
<1> DEFINE c == [adminCheck[q] EXCEPT !.pc = dest]
<1>1. adminCheck' = [adminCheck EXCEPT ![q] = c] /\ UNCHANGED adminRow
  BY DEF AdminGoes
<1>2. c \in [pc : {"row", "session", "views", "role", "in", "out"}, due : BOOLEAN]
      /\ c.pc = dest /\ c.due = adminCheck[q].due
  BY DEF AdminInv
<1>3. adminCheck'[q] = c
  BY <1>1 DEF AdminInv
<1> HIDE DEF c
<1>4. Doomed(c)
  BY <1>2 DEF AdminInv, Doomed
<1> QED
  BY <1>1, <1>2, <1>3, <1>4, OneAdminCheck

LEMMA AdminNextKeeps == ASSUME AdminInv, AdminNext PROVE AdminInv'
<1>1. CASE AdminLeaves
  <2>1. adminCheck' = adminCheck
    BY <1>1 DEF AdminLeaves
  <2>2. /\ adminRow' \in [role : AdminRoles, active : BOOLEAN, session : BOOLEAN,
                          views : {"none", "other", "this"}]
        /\ adminRow'.role = adminRow.role
        /\ ~adminRow.active => ~adminRow'.active
        /\ ~adminRow.session => ~adminRow'.session
    BY <1>1 DEF AdminLeaves, AdminInv
  <2>3. \A q \in AdminChecks : Doomed(adminCheck[q])'
    BY <2>1, <2>2 DEF AdminInv, Doomed, Gone
  <2> QED
    BY <2>1, <2>2, <2>3 DEF AdminInv
<1>2. CASE RedisComesOrGoes
  BY <1>2 DEF RedisComesOrGoes, admins, AdminInv, Doomed, Gone
<1>3. ASSUME NEW q \in AdminChecks, AuthenticateAdmin(q)
      PROVE  AdminInv'
  <2> DEFINE c == [pc |-> IF redisOn /\ adminKey THEN "out" ELSE "row", due |-> Gone]
  <2>1. adminCheck' = [adminCheck EXCEPT ![q] = c] /\ UNCHANGED adminRow
    BY <1>3 DEF AuthenticateAdmin
  <2>2. c \in [pc : {"row", "session", "views", "role", "in", "out"}, due : BOOLEAN]
        /\ Doomed(c)
    BY DEF Doomed, Gone, AdminInv
  <2>3. adminCheck'[q] = c
    BY <2>1 DEF AdminInv
  <2> HIDE DEF c
  <2> QED
    BY <2>1, <2>2, <2>3, OneAdminCheck
<1>4. ASSUME NEW q \in AdminChecks, FindAdmin(q)
      PROVE  AdminInv'
  <2> DEFINE dest == IF ~adminRow.active THEN "out"
                      ELSE IF adminRow.role \in SingleSessionRoles THEN "session" ELSE "views"
  <2>1. AdminGoes(q, "row", dest)
    BY <1>4 DEF FindAdmin
  <2>2. adminCheck[q].due => dest = "out" \/ (dest = "session" /\ ~adminRow.session)
    BY DEF AdminInv, Doomed, Gone
  <2>3. dest \in {"session", "views", "role", "in", "out"}
    OBVIOUS
  <2> HIDE DEF dest
  <2> QED
    BY <2>1, <2>2, <2>3, AdminGoesKeeps
<1>5. ASSUME NEW q \in AdminChecks, FindAdminSession(q)
      PROVE  AdminInv'
  <2> DEFINE dest == IF ~adminRow.session THEN "out"
                      ELSE IF adminRow.role # "SUPER_ADMIN" THEN "views" ELSE "in"
  <2>1. AdminGoes(q, "session", dest)
    BY <1>5 DEF FindAdminSession
  <2>2. adminCheck[q].due => dest = "out"
    BY <2>1 DEF AdminInv, Doomed, AdminGoes
  <2>3. dest \in {"session", "views", "role", "in", "out"}
    OBVIOUS
  <2> HIDE DEF dest
  <2> QED
    BY <2>1, <2>2, <2>3, AdminGoesKeeps
<1>6. ASSUME NEW q \in AdminChecks, LoadViewAccess(q) \/ RequireAdminRole(q)
      PROVE  AdminInv'
  <2>1. \E from \in {"views", "role"}, dest \in {"role", "in", "out"} :
            AdminGoes(q, from, dest)
    BY <1>6 DEF LoadViewAccess, RequireAdminRole
  <2>2. PICK from \in {"views", "role"}, dest \in {"role", "in", "out"} :
            AdminGoes(q, from, dest)
    BY <2>1
  <2>3. ~adminCheck[q].due
    BY <2>2 DEF AdminGoes, AdminInv, Doomed
  <2> QED
    BY <2>2, <2>3, AdminGoesKeeps
<1> QED
  BY <1>1, <1>2, <1>3, <1>4, <1>5, <1>6 DEF AdminNext

-----------------------------------------------------------------------------
LEMMA UserNextKeeps == ASSUME CheckInv, UserNext PROVE CheckInv'
<1>1. CASE \/ LogoutAll \/ Refresh \/ Logout \/ KeysFollow \/ KeysExpire \/ BanDevice
           \/ RedisComesOrGoes
  BY <1>1, WorldKeeps
<1>2. ASSUME NEW q \in Checks, NEW t \in Issued, NEW a \in {"valid", "expired", "old"},
             Authenticate(q, t, a)
      PROVE  CheckInv'
  <2> DEFINE dest == IF a = "valid" THEN "keys" ELSE "out"
  <2>1. Present(q, "rest", t, a, dest) /\ dest \in {"keys", "out"}
    BY <1>2 DEF Authenticate
  <2> HIDE DEF dest
  <2> QED
    BY <2>1, PresentKeeps
<1>3. ASSUME NEW q \in Checks, NEW t \in Issued, NEW a \in {"valid", "expired", "old"},
             SocketAuth(q, t, a)
      PROVE  CheckInv'
  <2> DEFINE dest == IF modes.socket = "off" THEN "in"
                      ELSE IF a # "old" THEN "keys"
                      ELSE IF modes.socket = "enforce" THEN "out" ELSE "in"
  <2>1. /\ Present(q, "socket", t, a, dest) /\ dest \in {"keys", "in", "out"}
        /\ dest = "out" => a = "old"
    BY <1>3 DEF SocketAuth
  <2> HIDE DEF dest
  <2> QED
    BY <2>1, PresentKeeps
<1>4. ASSUME NEW q \in Checks, ReadKeys(q)
      PROVE  CheckInv'
  BY <1>4, ReadKeysKeeps
<1>5. ASSUME NEW q \in Checks, FindUserTokenVersion(q) \/ FindSession(q) \/ CheckErrs(q)
      PROVE  CheckInv'
  BY <1>5, RowsKeep
<1> QED
  BY <1>1, <1>2, <1>3, <1>4, <1>5 DEF UserNext

AccessInv == CheckInv /\ AdminInv

LEMMA CheckInvStays ==
    ASSUME CheckInv, UNCHANGED <<modes, version, keys, redisOn, check>>
    PROVE  CheckInv'
BY DEF CheckInv, KeysTyped, keys, Known, Overdue, Truthful, TellsEnd, Revoked

\* Those whose access ended before a request began are refused, and a token refresh throws
\* nobody off their socket: for any requests, admins and number of token versions, whatever
\* Redis knows and whenever it goes (checkAccessPayload, socketAuth, verifyAdminAccessToken).
THEOREM AccessIsRight == AccessSpec => []AccessFollowsRows
<1>1. AccessInit => AccessInv
  <2> SUFFICES ASSUME AccessInit PROVE AccessInv
    OBVIOUS
  <2>1. CheckInv
    BY DEF AccessInit, CheckInv, KeysTyped, Entries, Absent, Truthful
  <2>2. AdminInv
    BY DEF AccessInit, AdminInv, Doomed, NoAdminCheck, AdminRoles
  <2> QED
    BY <2>1, <2>2 DEF AccessInv
<1>2. AccessInv /\ [UserNext \/ AdminNext]_accessVars => AccessInv'
  <2> SUFFICES ASSUME AccessInv, [UserNext \/ AdminNext]_accessVars PROVE AccessInv'
    OBVIOUS
  <2>1. CASE UserNext
    <3>1. UNCHANGED admins
      BY <2>1 DEF UserNext, LogoutAll, Refresh, Logout, NewVersion, KeysFollow, KeysExpire,
                  BanDevice, RedisComesOrGoes, Authenticate, SocketAuth, Present, ReadKeys,
                  FindUserTokenVersion, FindSession, CheckErrs
    <3>2. AdminInv'
      BY <3>1 DEF AccessInv, AdminInv, admins, Doomed, Gone
    <3> QED
      BY <2>1, <3>2, UserNextKeeps DEF AccessInv
  <2>2. CASE AdminNext
    <3>1. CASE RedisComesOrGoes
      BY <2>2, <3>1, WorldKeeps, AdminNextKeeps DEF AccessInv
    <3>2. CASE ~RedisComesOrGoes
      <4>1. UNCHANGED <<modes, version, keys, redisOn, check>>
        BY <2>2, <3>2 DEF AdminNext, AdminLeaves, AuthenticateAdmin, AdminGoes, FindAdmin,
                          FindAdminSession, LoadViewAccess, RequireAdminRole
      <4> QED
        BY <2>2, <4>1, CheckInvStays, AdminNextKeeps DEF AccessInv
    <3> QED
      BY <3>1, <3>2
  <2>3. CASE UNCHANGED accessVars
    <3>1. CheckInv'
      BY <2>3, CheckInvStays DEF accessVars, keys, AccessInv
    <3>2. AdminInv'
      BY <2>3 DEF accessVars, AccessInv, AdminInv, Doomed, Gone
    <3> QED
      BY <3>1, <3>2 DEF AccessInv
  <2> QED
    BY <2>1, <2>2, <2>3
<1>3. AccessInv => AccessFollowsRows
  <2> SUFFICES ASSUME AccessInv PROVE AccessFollowsRows
    OBVIOUS
  <2>1. \A q \in Checks : check[q].pc \in {"in", "out"} => Known(check[q])
    BY DEF AccessInv, CheckInv, NoCheck
  <2>2. RevokedRefused
    BY <2>1 DEF RevokedRefused, Known, Overdue
  <2>3. RefreshKeepsSocket
    BY <2>1 DEF RefreshKeepsSocket, Known
  <2>4. GoneAdminRefused
    BY DEF AccessInv, AdminInv, Doomed, GoneAdminRefused
  <2> QED
    BY <2>2, <2>3, <2>4 DEF AccessFollowsRows
<1> QED
  BY <1>1, <1>2, <1>3, PTL DEF AccessSpec

-----------------------------------------------------------------------------
(* Events reported by the app *)

Batch == [at : {"incr", "expire", "refused", "dedupe", "record"}, e : Events, cost : Nat]

\* An event that was let through, and is not too old to come again, is remembered for longer
\* than it takes to become so.
Remembered(e) == eventAge[e] <= MaxAge => seenFor[e] + eventAge[e] >= SeenDays

\* Redis told a request of the event to record it, which it has yet to do.
Recording(e, b) == batch[b].at = "record" /\ batch[b].e = e

FailTyped ==
    /\ eventAge \in [Events -> Nat] /\ seenFor \in [Events -> Nat] /\ listed \in [Events -> Nat]
    /\ batch \in [Batches -> {NoBatch} \cup Batch]

EventInv(e) ==
    e \notin blind =>
        /\ listed[e] <= 1
        /\ listed[e] = 1 => Remembered(e)
        /\ \A b \in Batches : Recording(e, b) =>
              /\ listed[e] = 0 /\ Remembered(e)
              /\ \A c \in Batches : Recording(e, c) => c = b

FailInv == FailTyped /\ \A e \in Events : EventInv(e)

\* A request that goes anywhere but to record its event.
LEMMA NoRecord ==
    ASSUME FailInv, NEW b \in Batches, NEW r \in {NoBatch} \cup Batch, r.at # "record",
           batch' = [batch EXCEPT ![b] = r], UNCHANGED <<eventAge, seenFor, listed, blind>>
    PROVE  FailInv'
<1>1. FailTyped'
  BY DEF FailInv, FailTyped
<1>2. ASSUME NEW e \in Events, NEW c \in Batches, Recording(e, c)'
      PROVE  Recording(e, c)
  BY <1>2 DEF Recording, FailInv, FailTyped
<1>3. ASSUME NEW e \in Events PROVE EventInv(e)'
  BY <1>2 DEF FailInv, EventInv, Remembered
<1> QED
  BY <1>1, <1>3 DEF FailInv

LEMMA BatchMoves ==
    ASSUME FailInv, NEW b \in Batches, NEW from, NEW dest \in {"expire", "refused", "dedupe"},
           batch[b].at # "idle", BatchTo(b, from, dest),
           UNCHANGED <<eventAge, seenFor, listed, blind>>
    PROVE  FailInv'
<1> DEFINE r == [batch[b] EXCEPT !.at = dest]
<1>1. batch[b] \in Batch
  BY DEF FailInv, FailTyped, NoBatch
<1>2. r \in Batch /\ r.at = dest
  BY <1>1 DEF Batch
<1>3. batch' = [batch EXCEPT ![b] = r]
  BY DEF BatchTo
<1> HIDE DEF r
<1> QED
  BY <1>2, <1>3, NoRecord

LEMMA RateKeeps ==
    ASSUME FailInv, NEW b \in Batches, batch[b].at # "idle",
           IncrRate(b) \/ ExpireRate(b) \/ RateFails(b) \/ RateRefuses(b) \/ BatchLost(b)
    PROVE  FailInv'
<1>1. UNCHANGED <<eventAge, seenFor, listed, blind>>
  BY DEF IncrRate, ExpireRate, RateFails, RateRefuses, BatchLost
<1>2. CASE BatchEnds(b)
  BY <1>1, <1>2, NoRecord DEF BatchEnds, NoBatch
<1>3. CASE ~BatchEnds(b)
  <2>1. \E from \in {"incr", "expire"}, dest \in {"expire", "refused", "dedupe"} :
           BatchTo(b, from, dest)
    BY <1>3 DEF IncrRate, ExpireRate, RateFails, RateRefuses, BatchLost
  <2> QED
    BY <1>1, <2>1, BatchMoves
<1> QED
  BY <1>2, <1>3

\* Of two requests with one event, one is the first to set its key.
LEMMA DedupeKeeps ==
    ASSUME FailInv, NEW b \in Batches, batch[b].at # "idle", RecordClientEvent(b)
    PROVE  FailInv'
<1> PICK e \in Events : e = batch[b].e
  BY DEF FailInv, FailTyped, NoBatch, Batch
<1> DEFINE fresh == eventAge[e] <= MaxAge /\ seenFor[e] = 0
           r == [batch[b] EXCEPT !.at = "record"]
<1>1. batch[b] \in Batch
  BY DEF FailInv, FailTyped, NoBatch, Batch
<1>2. r \in Batch /\ r.at = "record" /\ r.e = e
  BY <1>1 DEF Batch
<1>3. CASE ~fresh
  <2>1. BatchEnds(b) /\ UNCHANGED <<eventAge, seenFor, listed, blind>>
    BY <1>3 DEF RecordClientEvent
  <2> QED
    BY <2>1, NoRecord DEF BatchEnds, NoBatch
<1>4. CASE fresh
  <2>1. /\ batch' = [batch EXCEPT ![b] = r]
        /\ seenFor' = [seenFor EXCEPT ![e] = SeenDays]
        /\ UNCHANGED <<eventAge, listed, blind>>
    BY <1>4 DEF RecordClientEvent, BatchTo, RememberFor
  <2>2. /\ MaxAge \in Nat /\ SeenDays \in Nat /\ MaxAge < SeenDays
        /\ eventAge[e] \in Nat /\ listed[e] \in Nat
    BY <1>1, FailureLogAssumption DEF FailInv, FailTyped
  <2>3. ~Remembered(e)
    BY <1>4, <2>2 DEF Remembered
  <2>4. e \notin blind => listed[e] = 0 /\ \A c \in Batches : ~Recording(e, c)
    BY <1>1, <2>2, <2>3 DEF FailInv, EventInv
  <2>5. FailTyped'
    BY <1>2, <2>1, <2>2 DEF FailInv, FailTyped
  <2> HIDE DEF r
  <2>6. batch'[b] = r /\ \A c \in Batches : c # b => batch'[c] = batch[c]
    BY <2>1 DEF FailInv, FailTyped
  <2>7. Remembered(e)'
    <3>1. seenFor'[e] = SeenDays /\ eventAge' = eventAge
      BY <1>1, <2>1 DEF FailInv, FailTyped
    <3> QED
      BY <2>2, <3>1 DEF Remembered
  <2>8. EventInv(e)'
    <3>1. \A c \in Batches : Recording(e, c)' => e \in blind \/ c = b
      BY <2>4, <2>6 DEF Recording
    <3> QED
      BY <2>1, <2>4, <2>7, <3>1 DEF EventInv
  <2>9. ASSUME NEW f \in Events, f # e PROVE EventInv(f)'
    <3>1. \A c \in Batches : Recording(f, c)' => Recording(f, c)
      BY <1>2, <2>6, <2>9 DEF Recording
    <3>2. Remembered(f) => Remembered(f)'
      BY <2>1, <2>9 DEF Remembered, FailInv, FailTyped
    <3> QED
      BY <2>1, <3>1, <3>2 DEF FailInv, EventInv
  <2> QED
    BY <2>5, <2>8, <2>9 DEF FailInv
<1> QED
  BY <1>3, <1>4

\* Redis cannot tell: the event goes on, and is one of those it was blind for.
LEMMA BlindKeeps ==
    ASSUME FailInv, NEW b \in Batches, batch[b].at # "idle", DedupeFails(b)
    PROVE  FailInv'
<1> PICK e \in Events : e = batch[b].e
  BY DEF FailInv, FailTyped, NoBatch, Batch
<1> DEFINE r == [batch[b] EXCEPT !.at = "record"]
<1>1. batch[b] \in Batch
  BY DEF FailInv, FailTyped, NoBatch, Batch
<1>2. r \in Batch /\ r.at = "record" /\ r.e = e
  BY <1>1 DEF Batch
<1>3. /\ batch' = [batch EXCEPT ![b] = r] /\ blind' = blind \cup {e}
      /\ seenFor' \in {seenFor, [seenFor EXCEPT ![e] = SeenDays]}
      /\ UNCHANGED <<eventAge, listed>>
  BY DEF DedupeFails, BatchTo, RememberFor
<1>4. FailTyped'
  BY <1>2, <1>3, FailureLogAssumption DEF FailInv, FailTyped
<1> HIDE DEF r
<1>5. batch'[b] = r /\ \A c \in Batches : c # b => batch'[c] = batch[c]
  BY <1>3 DEF FailInv, FailTyped
<1>6. ASSUME NEW f \in Events, f # e PROVE EventInv(f)'
  <2>1. \A c \in Batches : Recording(f, c)' => Recording(f, c)
    BY <1>2, <1>5, <1>6 DEF Recording
  <2>2. Remembered(f) => Remembered(f)'
    BY <1>3, <1>6 DEF Remembered, FailInv, FailTyped
  <2> QED
    BY <1>3, <2>1, <2>2 DEF FailInv, EventInv
<1>7. EventInv(e)'
  BY <1>3 DEF EventInv
<1> QED
  BY <1>4, <1>6, <1>7 DEF FailInv

LEMMA ListKeeps ==
    ASSUME FailInv, NEW b \in Batches, batch[b].at # "idle", RecordLiveFailure(b)
    PROVE  FailInv'
<1> PICK e \in Events : e = batch[b].e
  BY DEF FailInv, FailTyped, NoBatch, Batch
<1>1. batch[b] \in Batch /\ Recording(e, b)
  BY DEF FailInv, FailTyped, NoBatch, Batch, RecordLiveFailure, Recording
<1>2. /\ batch' = [batch EXCEPT ![b] = NoBatch] /\ UNCHANGED <<eventAge, seenFor, blind>>
      /\ listed' \in {listed, [listed EXCEPT ![e] = IF @ < 2 THEN @ + 1 ELSE @]}
  BY DEF RecordLiveFailure, BatchEnds
<1>3. FailTyped'
  BY <1>1, <1>2 DEF FailInv, FailTyped
<1>4. \A f \in Events, c \in Batches : Recording(f, c)' => c # b /\ Recording(f, c)
  BY <1>2 DEF Recording, NoBatch, FailInv, FailTyped
<1>5. ASSUME NEW f \in Events, f # e PROVE EventInv(f)'
  <2>1. listed'[f] = listed[f]
    BY <1>2, <1>5 DEF FailInv, FailTyped
  <2> QED
    BY <1>2, <1>4, <2>1 DEF FailInv, EventInv, Remembered
<1>6. EventInv(e)'
  <2> SUFFICES ASSUME e \notin blind PROVE EventInv(e)'
    BY <1>2 DEF EventInv
  <2>1. listed[e] = 0 /\ Remembered(e) /\ \A c \in Batches : Recording(e, c) => c = b
    BY <1>1 DEF FailInv, EventInv
  <2>2. listed'[e] \in {0, 1}
    BY <1>1, <1>2, <2>1 DEF FailInv, FailTyped
  <2>3. \A c \in Batches : ~Recording(e, c)'
    BY <1>1, <1>4, <2>1
  <2> QED
    BY <1>2, <2>1, <2>2, <2>3 DEF EventInv, Remembered
<1> QED
  BY <1>3, <1>5, <1>6 DEF FailInv

\* A day older is a day less remembered.
LEMMA DayKeeps == ASSUME FailInv, DayPasses PROVE FailInv'
<1>1. UNCHANGED <<listed, blind, batch>>
  BY DEF DayPasses
<1>2. ASSUME NEW e \in Events
      PROVE  /\ eventAge'[e] \in Nat /\ seenFor'[e] \in Nat
             /\ Remembered(e) => Remembered(e)'
  <2>1. eventAge[e] \in Nat /\ seenFor[e] \in Nat /\ MaxAge \in Nat /\ SeenDays \in Nat
        /\ MaxAge < SeenDays /\ RetentionDays \in Nat /\ MaxAge <= RetentionDays
    BY FailureLogAssumption DEF FailInv, FailTyped
  <2>2. eventAge'[e] = IF eventAge[e] <= RetentionDays THEN eventAge[e] + 1 ELSE eventAge[e]
    BY DEF DayPasses
  <2>3. seenFor'[e] = IF seenFor[e] > 0 THEN seenFor[e] - 1 ELSE 0
    BY DEF DayPasses
  <2> QED
    BY <2>1, <2>2, <2>3 DEF Remembered
<1>3. FailTyped'
  <2>1. eventAge' \in [Events -> Nat] /\ seenFor' \in [Events -> Nat]
    BY <1>2 DEF DayPasses
  <2> QED
    BY <1>1, <2>1 DEF FailInv, FailTyped
<1>4. ASSUME NEW e \in Events PROVE EventInv(e)'
  BY <1>1, <1>2, <1>4 DEF FailInv, EventInv, Recording
<1> QED
  BY <1>3, <1>4 DEF FailInv

LEMMA ReportKeeps ==
    ASSUME FailInv, NEW b \in Batches, NEW e \in Events, NEW cost \in Costs,
           ReportClientEvents(b, e, cost)
    PROVE  FailInv'
<1> DEFINE r == [at |-> "incr", e |-> e, cost |-> cost]
<1>1. r \in Batch /\ r.at = "incr"
  BY FailureLogAssumption DEF Batch
<1>2. batch' = [batch EXCEPT ![b] = r] /\ UNCHANGED <<eventAge, seenFor, listed, blind>>
  BY DEF ReportClientEvents
<1> HIDE DEF r
<1> QED
  BY <1>1, <1>2, NoRecord

\* An event the app sends again, at once or days later, is listed once, unless Redis could not
\* be asked for its id: for any number of requests and events, any rate, and any age of an
\* event below the time its id is kept (recordClientEvent).
THEOREM EventsOnce == FailureSpec => []ListedOnce
<1>1. FailureInit => FailInv
  <2> SUFFICES ASSUME FailureInit PROVE FailInv
    OBVIOUS
  <2>1. FailTyped
    BY DEF FailureInit, FailTyped
  <2>2. \A e \in Events : EventInv(e)
    BY DEF FailureInit, EventInv, Recording, NoBatch
  <2> QED
    BY <2>1, <2>2 DEF FailInv
<1>2. FailInv /\ [FailureNext]_failVars => FailInv'
  <2> SUFFICES ASSUME FailInv, [FailureNext]_failVars PROVE FailInv'
    OBVIOUS
  <2>1. CASE UNCHANGED <<eventAge, seenFor, listed, blind, batch>>
    BY <2>1 DEF FailInv, FailTyped, EventInv, Remembered, Recording
  <2>2. CASE RateExpires \/ PruneOldFailureEvents \/ UNCHANGED failVars
    BY <2>1, <2>2 DEF RateExpires, PruneOldFailureEvents, failVars
  <2> QED
    BY <2>2, DayKeeps, ReportKeeps, RateKeeps, DedupeKeeps, BlindKeeps, ListKeeps DEF FailureNext
<1>3. FailInv => ListedOnce
  BY DEF FailInv, EventInv, ListedOnce
<1> QED
  BY <1>1, <1>2, <1>3, PTL DEF FailureSpec

-----------------------------------------------------------------------------
(* The leader's lease.  The answer of Redis a tick began with is never     *)
(* older than the lease it took, so a peer whose tick is younger than that *)
(* holds the key still, and the key has one value.                         *)

TickPlaces == {"idle", "renew", "lead", "dead"}

KeyTyped == holder \in Peers \cup {NoPeer} /\ left \in 0..LeaderTTL
TicksTyped == place \in [Peers -> TickPlaces] /\ age \in [Peers -> 0..LeaderTTL]

\* The key is there as long as its PX.
KeyLives == holder = NoPeer <=> left = 0

\* Whoever works, does not leave and is not overdue holds what is left of its lease.
Leased(p) == Outlasted(p) \/ (holder = p /\ left + age[p] >= LeaderTTL)
WorkersLease ==
    \A p \in Peers : place[p] = "lead" /\ p \notin leaving => Leased(p)

LeaderInv == KeyTyped /\ TicksTyped /\ KeyLives /\ WorkersLease

-----------------------------------------------------------------------------
LEMMA LeaderInitHolds == LeaderInit => LeaderInv
BY LeaderAssumption
   DEF LeaderInit, LeaderInv, KeyTyped, TicksTyped, TickPlaces, KeyLives, WorkersLease

\* While the key is free, or another's, a peer that does not leave does not work, or is overdue.
LEMMA NotHolderIdle ==
    ASSUME LeaderInv, NEW p \in Peers, p \notin leaving, holder # p
    PROVE  place[p] # "lead" \/ Outlasted(p)
BY DEF LeaderInv, WorkersLease, Leased

\* Redis gives the lease to a peer when no other one has it.
LEMMA GrantKeeps ==
    ASSUME LeaderInv, NEW p \in Peers, Grant(p), holder \in {p, NoPeer}, UNCHANGED leaving
    PROVE  LeaderInv'
<1>1. KeyTyped' /\ KeyLives'
  BY LeaderAssumption DEF Grant, LeaderInv, KeyTyped, KeyLives
<1>2. TicksTyped'
  BY LeaderAssumption DEF Grant, LeaderInv, TicksTyped, TickPlaces
<1>3. ASSUME NEW q \in Peers, place'[q] = "lead", q \notin leaving
      PROVE  Leased(q)'
  <2>1. CASE q = p
    <3>1. age'[p] = 0 /\ holder' = p /\ left' = LeaderTTL
      BY DEF Grant, LeaderInv, TicksTyped
    <3> QED
      BY <2>1, <3>1, LeaderAssumption DEF Leased
  <2>2. CASE q # p
    <3>1. place[q] = "lead"
      BY <1>3, <2>2 DEF Grant, LeaderInv, TicksTyped
    <3>2. holder # q
      BY <2>2, LeaderAssumption
    <3>3. Outlasted(q)
      BY <1>3, <3>1, <3>2, NotHolderIdle
    <3> QED
      BY <2>2, <3>3 DEF Grant, Leased, Outlasted, LeaderInv, TicksTyped
  <2> QED
    BY <2>1, <2>2
<1> QED
  BY <1>1, <1>2, <1>3 DEF LeaderInv, WorkersLease

\* A step that makes no peer work, lets no one stay who was leaving, and takes no lease from
\* those who work keeps WorkersLease.
Steady == \A q \in Peers :
    /\ place'[q] = "lead" => place[q] = "lead" /\ age'[q] = age[q]
    /\ q \notin leaving' => q \notin leaving

LEMMA SteadyKeeps ==
    ASSUME LeaderInv, Steady,
           \A q \in Peers : place[q] = "lead" /\ q \notin leaving /\ ~Outlasted(q)
                            => holder' = holder /\ left' \in Nat /\ left' >= left
    PROVE  WorkersLease'
<1> SUFFICES ASSUME NEW q \in Peers, place'[q] = "lead", q \notin leaving'
             PROVE  Leased(q)'
  BY DEF WorkersLease
<1>1. place[q] = "lead" /\ q \notin leaving /\ age'[q] = age[q]
  BY DEF Steady
<1>2. Leased(q)
  BY <1>1 DEF LeaderInv, WorkersLease
<1>3. age[q] \in Nat /\ left \in Nat
  BY LeaderAssumption DEF LeaderInv, TicksTyped, KeyTyped
<1> QED
  BY <1>1, <1>2, <1>3, LeaderAssumption DEF Leased, Outlasted

-----------------------------------------------------------------------------
LEMMA SetNXKeeps == ASSUME LeaderInv, NEW p \in Peers, SetNX(p) PROVE LeaderInv'
<1>1. CASE holder = NoPeer /\ Grant(p)
  BY <1>1, GrantKeeps DEF SetNX
<1>2. CASE place' = [place EXCEPT ![p] = "renew"] /\ UNCHANGED <<holder, left, age>>
  <2>1. UNCHANGED leaving
    BY DEF SetNX
  <2>2. KeyTyped' /\ KeyLives' /\ TicksTyped'
    BY <1>2 DEF LeaderInv, KeyTyped, KeyLives, TicksTyped, TickPlaces
  <2>3. Steady
    BY <1>2, <2>1 DEF Steady, LeaderInv, TicksTyped
  <2> QED
    BY <1>2, <2>2, <2>3, SteadyKeeps, LeaderAssumption DEF LeaderInv, KeyTyped
<1> QED
  BY <1>1, <1>2 DEF SetNX

LEMMA RenewKeeps == ASSUME LeaderInv, NEW p \in Peers, Renew(p) PROVE LeaderInv'
<1>1. CASE holder = p
  BY <1>1, GrantKeeps DEF Renew
<1>2. CASE holder # p
  <2>1. /\ place' = [place EXCEPT ![p] = "idle"]
        /\ UNCHANGED <<holder, left, age, leaving>>
    BY <1>2 DEF Renew, StandBy
  <2>2. KeyTyped' /\ KeyLives' /\ TicksTyped'
    BY <2>1 DEF LeaderInv, KeyTyped, KeyLives, TicksTyped, TickPlaces
  <2>3. Steady
    BY <2>1 DEF Steady, LeaderInv, TicksTyped
  <2> QED
    BY <2>1, <2>2, <2>3, SteadyKeeps, LeaderAssumption DEF LeaderInv, KeyTyped
<1> QED
  BY <1>1, <1>2

\* A question whose answer is lost may have taken a free lease, or prolonged the peer's own.
LEMMA AskFailsKeeps == ASSUME LeaderInv, NEW p \in Peers, AskFails(p) PROVE LeaderInv'
<1>1. place' = [place EXCEPT ![p] = "idle"] /\ UNCHANGED <<age, leaving>>
  BY DEF AskFails
<1>2. TicksTyped' /\ Steady
  BY <1>1 DEF LeaderInv, TicksTyped, TickPlaces, Steady
<1>3. CASE holder = NoPeer /\ holder' = p /\ left' = LeaderTTL
  <2>1. KeyTyped' /\ KeyLives'
    BY <1>3, LeaderAssumption DEF KeyTyped, KeyLives
  <2>2. \A q \in Peers : q \notin leaving => place[q] # "lead" \/ Outlasted(q)
    BY <1>3, NotHolderIdle, LeaderAssumption
  <2> QED
    BY <1>2, <2>1, <2>2, SteadyKeeps DEF LeaderInv
<1>4. CASE UNCHANGED holder /\ left' \in {left, IF holder = p THEN LeaderTTL ELSE left}
  <2>1. KeyTyped' /\ KeyLives'
    BY <1>4, LeaderAssumption DEF LeaderInv, KeyTyped, KeyLives
  <2>2. left' \in Nat /\ left' >= left
    BY <1>4, LeaderAssumption DEF LeaderInv, KeyTyped
  <2> QED
    BY <1>2, <1>4, <2>1, <2>2, SteadyKeeps DEF LeaderInv
<1> QED
  BY <1>3, <1>4 DEF AskFails

LEMMA TickEndsKeeps ==
    ASSUME LeaderInv, NEW p \in Peers, TickEnds(p) \/ Exit(p) PROVE LeaderInv'
<1>1. /\ place' \in {[place EXCEPT ![p] = "idle"], [place EXCEPT ![p] = "dead"]}
      /\ age' = [age EXCEPT ![p] = 0]
      /\ UNCHANGED <<holder, left, leaving>>
  BY DEF TickEnds, Exit
<1>2. TicksTyped' /\ Steady
  BY <1>1, LeaderAssumption DEF LeaderInv, TicksTyped, TickPlaces, Steady
<1>3. KeyTyped' /\ KeyLives'
  BY <1>1 DEF LeaderInv, KeyTyped, KeyLives
<1> QED
  BY <1>1, <1>2, <1>3, SteadyKeeps, LeaderAssumption DEF LeaderInv, KeyTyped

LEMMA ShutdownKeeps ==
    ASSUME LeaderInv, NEW p \in Peers, BeginShutdown(p) PROVE LeaderInv'
<1>1. Steady /\ UNCHANGED <<holder, left, place, age>>
  BY DEF BeginShutdown, Steady
<1>2. KeyTyped' /\ KeyLives' /\ TicksTyped'
  BY <1>1 DEF LeaderInv, KeyTyped, KeyLives, TicksTyped
<1> QED
  BY <1>1, <1>2, SteadyKeeps, LeaderAssumption DEF LeaderInv, KeyTyped

\* A peer that leaves deletes its own lease: no other peer works under it.
LEMMA ReleaseKeeps ==
    ASSUME LeaderInv, NEW p \in Peers, ReleaseLeaderLocks(p) PROVE LeaderInv'
<1>1. Steady /\ UNCHANGED <<place, age, leaving>> /\ p \in leaving
  BY DEF ReleaseLeaderLocks, Steady
<1>2. TicksTyped'
  BY <1>1 DEF LeaderInv, TicksTyped
<1>3. CASE holder = p /\ holder' = NoPeer /\ left' = 0
  <2>1. \A q \in Peers : q \notin leaving => place[q] # "lead" \/ Outlasted(q)
    BY <1>1, <1>3, NotHolderIdle
  <2>2. KeyTyped' /\ KeyLives'
    BY <1>3, LeaderAssumption DEF KeyTyped, KeyLives
  <2> QED
    BY <1>1, <1>2, <2>1, <2>2, SteadyKeeps DEF LeaderInv
<1>4. CASE UNCHANGED <<holder, left>>
  <2>1. KeyTyped' /\ KeyLives'
    BY <1>4 DEF LeaderInv, KeyTyped, KeyLives
  <2> QED
    BY <1>1, <1>2, <1>4, <2>1, SteadyKeeps, LeaderAssumption DEF LeaderInv, KeyTyped
<1> QED
  BY <1>3, <1>4 DEF ReleaseLeaderLocks

\* Time takes as much from the lease as it adds to the tick, until one is used up and the other
\* overdue.
LEMMA TimeKeeps == ASSUME LeaderInv, LeaseTime PROVE LeaderInv'
<1>1. left' = (IF left > 0 THEN left - 1 ELSE 0) /\ left \in Nat /\ UNCHANGED <<place, leaving>>
  BY LeaderAssumption DEF LeaseTime, LeaderInv, KeyTyped
<1>2. KeyTyped' /\ KeyLives'
  BY <1>1, LeaderAssumption DEF LeaseTime, LeaderInv, KeyTyped, KeyLives
<1>3. TicksTyped'
  <2>1. \A q \in Peers : age'[q] \in 0..LeaderTTL
    BY LeaderAssumption DEF LeaseTime, LeaderInv, TicksTyped
  <2>2. age' = [q \in Peers |-> age'[q]]
    BY DEF LeaseTime
  <2> QED
    BY <1>1, <2>1, <2>2 DEF LeaderInv, TicksTyped
<1>4. ASSUME NEW q \in Peers, place[q] = "lead", q \notin leaving
      PROVE  Leased(q)'
  <2>1. Leased(q) /\ age[q] \in 0..LeaderTTL
    BY <1>4 DEF LeaderInv, WorkersLease, TicksTyped
  <2>2. age'[q] = IF age[q] < LeaderTTL THEN age[q] + 1 ELSE age[q]
    BY <1>4 DEF LeaseTime
  <2>3. CASE age[q] >= LeaderTTL - 1
    BY <2>1, <2>2, <2>3, LeaderAssumption DEF Leased, Outlasted
  <2>4. CASE age[q] < LeaderTTL - 1
    <3>1. left > 1 /\ holder = q /\ left + age[q] >= LeaderTTL
      BY <1>1, <2>1, <2>4, LeaderAssumption DEF Leased, Outlasted
    <3>2. holder' = holder /\ left' = left - 1
      BY <1>1, <3>1 DEF LeaseTime
    <3> QED
      BY <1>1, <2>1, <2>2, <2>4, <3>1, <3>2, LeaderAssumption DEF Leased
  <2> QED
    BY <2>1, <2>3, <2>4, LeaderAssumption
<1> QED
  BY <1>1, <1>2, <1>3, <1>4 DEF LeaderInv, WorkersLease

-----------------------------------------------------------------------------
LEMMA LeaderStepKeeps == LeaderInv /\ [LeaderNext]_leaderVars => LeaderInv'
<1> SUFFICES ASSUME LeaderInv, [LeaderNext]_leaderVars
             PROVE  LeaderInv'
  OBVIOUS
<1>1. CASE UNCHANGED leaderVars
  BY <1>1 DEF leaderVars, LeaderInv, KeyTyped, TicksTyped, KeyLives, WorkersLease, Leased, Outlasted
<1>2. CASE LeaderNext
  BY <1>2, SetNXKeeps, RenewKeeps, AskFailsKeeps, TickEndsKeeps, ShutdownKeeps,
     ReleaseKeeps, TimeKeeps DEF LeaderNext
<1> QED
  BY <1>1, <1>2

\* Two peers that both work hold one key, unless one of them is shutting down or overdue.
LEMMA LeaseIsEnough == LeaderInv => OneLeaderWorks
BY DEF LeaderInv, WorkersLease, Leased, OneLeaderWorks

\* isLeader and guardedTick: two nodes run the loop of one name at once only while one of
\* them shuts down, or after the tick of one has lasted for LEADER_TTL_MS, which nothing in the
\* code rules out: for any number of nodes, whatever answers of Redis are lost.
THEOREM OneLeader == LeaderSpec => []OneLeaderWorks
<1> QED
  BY LeaderInitHolds, LeaderStepKeeps, LeaseIsEnough, PTL DEF LeaderSpec

-----------------------------------------------------------------------------
(* The billing slots *)

Woken == {b \in Bills : slot[b] = "woken"}

SlotsTyped ==
    /\ billingInFlight \in Int
    /\ billingWaiters \in Seq(Bills)
    /\ slot \in [Bills -> {"out", "waits", "woken", "runs"}]

\* Who is in the queue waits, and is in it once.
QueueWaits ==
    /\ \A i \in 1..Len(billingWaiters) : slot[billingWaiters[i]] = "waits"
    /\ \A i, j \in 1..Len(billingWaiters) : billingWaiters[i] = billingWaiters[j] => i = j

SlotsInv == SlotsTyped /\ QueueWaits /\ SlotsInUse

LEMMA WokenNat == IsFiniteSet(Woken) /\ Cardinality(Woken) \in Nat
<1>1. IsFiniteSet(Woken)
  BY FS_Subset, SlotsAssumption DEF Woken
<1> QED
  BY <1>1, FS_CardinalityType

LEMMA InUse ==
    /\ SlotsInUse <=>
           (billingWaiters # <<>> => billingInFlight + Cardinality(Woken) >= Slots)
    /\ SlotsInUse' <=>
           (billingWaiters' # <<>> => billingInFlight' + Cardinality(Woken') >= Slots)
BY DEF SlotsInUse, Woken

LEMMA SlotsInitHolds == SlotsInit => SlotsInv
BY DEF SlotsInit, SlotsInv, SlotsTyped, QueueWaits, SlotsInUse

LEMMA EnterKeeps == ASSUME SlotsInv, NEW b \in Bills, Enter(b) PROVE SlotsInv'
<1>1. slot[b] = "out" /\ Woken' = Woken
  BY DEF Enter, Run, Woken, SlotsInv, SlotsTyped
<1>2. \A i \in 1..Len(billingWaiters) : billingWaiters[i] \in Bills /\ billingWaiters[i] # b
  BY <1>1 DEF SlotsInv, SlotsTyped, QueueWaits
<1>3. CASE billingInFlight < Slots /\ Run(b)
  <2>1. SlotsTyped' /\ QueueWaits'
    BY <1>2, <1>3 DEF Run, SlotsInv, SlotsTyped, QueueWaits
  <2>2. billingWaiters' = billingWaiters /\ billingInFlight' = billingInFlight + 1
    BY <1>3 DEF Run
  <2>3. SlotsInUse'
    BY <1>1, <1>3, <2>2, InUse, WokenNat, SlotsAssumption DEF SlotsInv, SlotsTyped
  <2> QED
    BY <2>1, <2>3 DEF SlotsInv
<1>4. CASE ~(billingInFlight < Slots /\ Run(b))
  <2>1. /\ billingInFlight >= Slots /\ billingInFlight' = billingInFlight
        /\ billingWaiters' = Append(billingWaiters, b)
        /\ slot' = [slot EXCEPT ![b] = "waits"]
    BY <1>4 DEF Enter
  <2>2. SlotsTyped'
    BY <2>1 DEF SlotsInv, SlotsTyped
  <2>3. QueueWaits'
    BY <1>2, <2>1 DEF SlotsInv, SlotsTyped, QueueWaits
  <2>4. SlotsInUse'
    BY <1>1, <2>1, InUse, WokenNat, SlotsAssumption DEF SlotsInv, SlotsTyped
  <2> QED
    BY <2>2, <2>3, <2>4 DEF SlotsInv
<1> QED
  BY <1>3, <1>4

LEMMA GoOnKeeps == ASSUME SlotsInv, NEW b \in Bills, GoOn(b) PROVE SlotsInv'
<1>1. /\ slot[b] = "woken" /\ billingInFlight' = billingInFlight + 1
      /\ slot' = [slot EXCEPT ![b] = "runs"] /\ billingWaiters' = billingWaiters
  BY DEF GoOn, Run
<1>2. \A i \in 1..Len(billingWaiters) : billingWaiters[i] \in Bills /\ billingWaiters[i] # b
  BY <1>1 DEF SlotsInv, SlotsTyped, QueueWaits
<1>3. SlotsTyped' /\ QueueWaits'
  BY <1>1, <1>2 DEF SlotsInv, SlotsTyped, QueueWaits
<1>4. Cardinality(Woken') = Cardinality(Woken) - 1
  <2>1. b \in Woken /\ Woken' = Woken \ {b}
    BY <1>1 DEF Woken, SlotsInv, SlotsTyped
  <2> QED
    BY <2>1, WokenNat, FS_RemoveElement
<1>5. SlotsInUse'
  BY <1>1, <1>4, InUse, WokenNat, SlotsAssumption DEF SlotsInv, SlotsTyped
<1> QED
  BY <1>3, <1>5 DEF SlotsInv

LEMMA LeaveKeeps == ASSUME SlotsInv, NEW b \in Bills, Leave(b) PROVE SlotsInv'
<1>1. slot[b] = "runs" /\ billingInFlight' = billingInFlight - 1
  BY DEF Leave
<1>2. CASE billingWaiters = <<>>
  <2>1. billingWaiters' = <<>> /\ slot' = [c \in Bills |-> IF c = b THEN "out" ELSE slot[c]]
    BY <1>2 DEF Leave
  <2> QED
    BY <1>1, <2>1 DEF SlotsInv, SlotsTyped, QueueWaits, SlotsInUse
<1>3. CASE billingWaiters # <<>>
  <2> DEFINE h == Head(billingWaiters)
  <2>1. /\ billingWaiters' = Tail(billingWaiters)
        /\ slot' = [c \in Bills |-> IF c = b THEN "out" ELSE IF c = h THEN "woken" ELSE slot[c]]
    BY <1>3 DEF Leave
  <2>2. /\ h \in Bills /\ h = billingWaiters[1] /\ 1 \in 1..Len(billingWaiters)
        /\ Tail(billingWaiters) \in Seq(Bills)
        /\ Len(Tail(billingWaiters)) = Len(billingWaiters) - 1
        /\ \A i \in 1..Len(billingWaiters) - 1 : Tail(billingWaiters)[i] = billingWaiters[i + 1]
    BY <1>3 DEF SlotsInv, SlotsTyped
  <2>3. slot[h] = "waits" /\ h # b
    BY <1>1, <2>2 DEF SlotsInv, QueueWaits
  <2> HIDE DEF h
  <2>4. SlotsTyped'
    BY <1>1, <2>1, <2>2 DEF SlotsInv, SlotsTyped
  <2>5. \A i \in 1..Len(billingWaiters) - 1 :
            /\ i + 1 \in 1..Len(billingWaiters) /\ i + 1 # 1
            /\ billingWaiters[i + 1] \in Bills
            /\ billingWaiters[i + 1] # h /\ billingWaiters[i + 1] # b
    <3> TAKE i \in 1..Len(billingWaiters) - 1
    <3>1. i + 1 \in 1..Len(billingWaiters) /\ i + 1 # 1 /\ billingWaiters[i + 1] \in Bills
      BY DEF SlotsInv, SlotsTyped
    <3>2. slot[billingWaiters[i + 1]] = "waits" /\ billingWaiters[i + 1] # billingWaiters[1]
      BY <2>2, <3>1 DEF SlotsInv, QueueWaits
    <3> QED
      BY <1>1, <2>2, <3>1, <3>2
  <2>6. QueueWaits'
    <3>1. \A i \in 1..Len(billingWaiters') : slot'[billingWaiters'[i]] = "waits"
      BY <2>1, <2>2, <2>5 DEF SlotsInv, QueueWaits
    <3>2. ASSUME NEW i \in 1..Len(billingWaiters'), NEW j \in 1..Len(billingWaiters'),
                 billingWaiters'[i] = billingWaiters'[j]
          PROVE  i = j
      <4>1. billingWaiters[i + 1] = billingWaiters[j + 1]
        BY <2>1, <2>2, <3>2
      <4>2. i + 1 = j + 1
        BY <2>1, <2>2, <2>5, <4>1 DEF SlotsInv, QueueWaits
      <4> QED
        BY <4>2
    <3> QED
      BY <3>1, <3>2 DEF QueueWaits
  <2>7. Cardinality(Woken') = Cardinality(Woken) + 1
    <3>1. Woken' = Woken \cup {h} /\ h \notin Woken
      BY <1>1, <2>1, <2>2, <2>3 DEF Woken
    <3> QED
      BY <3>1, WokenNat, FS_AddElement
  <2>8. SlotsInUse'
    BY <1>1, <1>3, <2>7, InUse, WokenNat, SlotsAssumption DEF SlotsInv, SlotsTyped
  <2> QED
    BY <2>4, <2>6, <2>8 DEF SlotsInv
<1> QED
  BY <1>2, <1>3

LEMMA SlotsKept == SlotsInv /\ [SlotsNext]_slotVars => SlotsInv'
<1> SUFFICES ASSUME SlotsInv, [SlotsNext]_slotVars PROVE SlotsInv'
  OBVIOUS
<1>1. CASE UNCHANGED slotVars
  BY <1>1 DEF slotVars, SlotsInv, SlotsTyped, QueueWaits, SlotsInUse
<1>2. CASE SlotsNext
  BY <1>2, EnterKeeps, GoOnKeeps, LeaveKeeps DEF SlotsNext
<1> QED
  BY <1>1, <1>2

\* withBillingSlot: as long as a billing waits its slots are taken or given away, for any number
\* of billings and slots, though newcomers may slip in before those that were woken.
THEOREM NoSlotIsLost == SlotsSpec => []SlotsInUse
<1>1. SlotsInv => SlotsInUse
  BY DEF SlotsInv
<1> QED
  BY <1>1, SlotsInitHolds, SlotsKept, PTL DEF SlotsSpec
=============================================================================
