---------------------------- MODULE TokenBuckets ----------------------------
(***************************************************************************)
(* The rate limits of REST requests and socket packets: token buckets that *)
(* are refilled when they are next used, and dropped after IdleFor without *)
(* a request (REST; a socket keeps its own).  The guard of a socket looks  *)
(* at a packet's shape before it takes a token, and at its fields after.   *)
(***************************************************************************)
EXTENDS Naturals

CONSTANTS RestKeys,   \* users, one bucket per class of route
          SocketKeys, \* sockets, one bucket per class of event
          Capacity, Refill, Cost, \* in units of which a tick regains Refill
          IdleFor     \* idleMs, in ticks

Keys == RestKeys \cup SocketKeys

\* idleMs is long enough for a bucket to be full again.
ASSUME BucketAssumption ==
    /\ Capacity \in Nat /\ Refill \in Nat /\ Cost \in Nat /\ IdleFor \in Nat
    /\ Refill * IdleFor >= Capacity

VARIABLES bucket, \* tokens as they were when last used, and how long ago that was
          there,  \* the keys that have a bucket
          last,   \* whether each key's last take found a token
          limitModes,  \* LIVE_RATE_LIMIT_MODE and LIVE_SOCKET_GUARD_MODE
          passed  \* whether its last request or packet was let through

bucketVars == <<bucket, there, last, limitModes, passed>>

Modes == {"off", "log", "enforce"}
FullBucket == [tokens |-> Capacity, age |-> 0]

BucketsInit ==
    /\ bucket = [k \in Keys |-> FullBucket]
    /\ there = {}
    /\ last = [k \in Keys |-> TRUE]
    /\ limitModes \in [rate : Modes, guard : Modes]
    /\ passed = [k \in Keys |-> TRUE]

Capped(n) == IF n < Capacity THEN n ELSE Capacity

\* What a bucket holds when it is used now.
Refilled(k) == Capped(bucket[k].tokens + bucket[k].age * Refill)

Here(k) == IF k \in there THEN Refilled(k) ELSE Capacity

\* take, takeToken
TakeToken(k) ==
    /\ last' = [last EXCEPT ![k] = Here(k) >= Cost]
    /\ bucket' = [bucket EXCEPT ![k] =
           [tokens |-> IF Here(k) >= Cost THEN Here(k) - Cost ELSE Here(k), age |-> 0]]
    /\ there' = there \cup {k}

Pass(k, ok) == passed' = [passed EXCEPT ![k] = ok] /\ UNCHANGED limitModes

\* restRateAllow: in log mode a request over its rate is only reported.
RestRateAllow(k) ==
    /\ k \in RestKeys
    /\ IF limitModes.rate = "off" THEN UNCHANGED <<bucket, there, last>> ELSE TakeToken(k)
    /\ Pass(k, limitModes.rate # "enforce" \/ Here(k) >= Cost)

\* A handled event without an object for payload is dropped in every mode, and costs nothing.
DropNotObject(k) ==
    /\ k \in SocketKeys
    /\ Pass(k, FALSE)
    /\ UNCHANGED <<bucket, there, last>>

\* Any other packet: the rate, then the fields, which are good or not.
EventGuard(k, good) ==
    /\ k \in SocketKeys
    /\ IF limitModes.rate = "off" THEN UNCHANGED <<bucket, there, last>> ELSE TakeToken(k)
    /\ Pass(k, /\ limitModes.rate # "enforce" \/ Here(k) >= Cost
               /\ limitModes.guard # "enforce" \/ good)

\* The interval that drops idle keys.
\* Mutant: with no regard to how long they were idle.
IdleAny(k) == TRUE
Idle(k) == bucket[k].age > IdleFor
Prune ==
    /\ there' = there \ {k \in RestKeys : Idle(k)}
    /\ UNCHANGED <<bucket, last, limitModes, passed>>

\* Ages beyond the one that prunes tell nothing more.
BucketTick ==
    /\ bucket' = [k \in Keys |-> [bucket[k] EXCEPT !.age = IF @ > IdleFor THEN @ ELSE @ + 1]]
    /\ UNCHANGED <<there, last, limitModes, passed>>

BucketsNext ==
    \/ BucketTick \/ Prune
    \/ \E k \in Keys :
          RestRateAllow(k) \/ DropNotObject(k) \/ \E good \in BOOLEAN : EventGuard(k, good)

BucketsSpec == BucketsInit /\ [][BucketsNext]_bucketVars

-----------------------------------------------------------------------------
BucketsTypeOK ==
    /\ bucket \in [Keys -> [tokens : 0..Capacity, age : 0..IdleFor + 1]]
    /\ there \subseteq Keys
    /\ last \in [Keys -> BOOLEAN] /\ passed \in [Keys -> BOOLEAN]
    /\ limitModes \in [rate : Modes, guard : Modes]

Ideal == INSTANCE IdealBuckets WITH level <- [k \in Keys |-> Here(k)]

\* Refilling late, restarting from nothing and dropping idle keys are invisible: every take is
\* answered as by a bucket that is refilled with each tick and never dropped.  A socket or a
\* user who waits for a bucket to be dropped gains nothing.
BucketsAreIdeal == Ideal!Spec
=============================================================================
