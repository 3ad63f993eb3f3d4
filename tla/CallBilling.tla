---------------------------- MODULE CallBilling ----------------------------
(***************************************************************************)
(* Billing of one accepted call (modules/videoCall/service.js and          *)
(* socket.js): the per-call vc_bill timer, the sweep that backs it up, the *)
(* vc_lowcoin timer that ends the call at the boundary the caller cannot   *)
(* pay for, and the 15 s disconnect grace.                                 *)
(*                                                                         *)
(* Timer handlers and sweep ticks run in workers and interleave at every   *)
(* await.  A timer is an entry in Redis and the local timers that nodes    *)
(* hold for it, as in DurableTimers, with a claim and the fetch of its     *)
(* payload in one step: the timer of a node that scheduled it earlier may  *)
(* still fire, and then takes the entry as it is now.  At each step that   *)
(* asks Redis the node may find its client closed, or the call may fail.   *)
(* A minute costs one coin, and the end of the call is one step, as        *)
(* CallSession shows.                                                      *)
(***************************************************************************)
EXTENDS Naturals

CONSTANTS Workers,     \* timer handlers and sweep ticks in flight
          Minute,      \* clock ticks in 60 s
          Gap,         \* BILL_MIN_GAP_MS
          Grace,       \* DISCONNECT_GRACE_MS
          KeyTTL,      \* EX of call:disconnect:<session>:<user>
          Margin,      \* how far into a minute a disconnect still spares it
          MaxTime,     \* bound on the clock
          MaxCoins,    \* coins the caller has for minute 2 and later
          MaxTopUps,   \* bound on recharges
          MaxOpens,    \* bound on new sockets of the caller
          MaxFaults,   \* bound on failed calls, closed Redis clients and dead nodes
          None         \* a deadline or a time that is not set

ASSUME CallBillingAssumption ==
    /\ Minute \in Nat \ {0}
    /\ {Gap, Grace, KeyTTL, Margin, MaxTime, MaxCoins, MaxTopUps, MaxOpens, MaxFaults}
           \subseteq Nat
    /\ None \notin Nat

VARIABLES now,      \* Date.now() - session.startedAt
          status,   \* of the row: "ACTIVE" or "ENDED"
          endedAt,  \* of the row
          reason,   \* endReason of the row
          mins,     \* minsCharged of the row
          coins,    \* the caller's balance
          bill,     \* vc_bill deadline in Redis
          low,      \* vc_lowcoin deadline in Redis
          drop,     \* vc_disconnect deadline in Redis
          alarms,   \* local timers that nodes hold for them
          key,      \* call:disconnect:<session>:<caller>: its value, and when it was set
          links,    \* sockets of the caller whose close has not been noticed
          drops,    \* history: when the caller was seen to lose a socket
          work,     \* worker -> what it is doing
          ending,   \* the winner of the end has not cancelled the timers yet
          topUps, opens, faults

rowVars == <<status, endedAt, reason, mins>>
timers  == <<bill, low, drop, alarms>>
sockets == <<key, links, drops, opens>>
vars == <<now, status, endedAt, reason, mins, coins, bill, low, drop, alarms, key, links, drops,
          work, ending, topUps, opens, faults>>

Times     == 0..MaxTime
Boundaries == 0..(MaxTime + Minute + Gap + Grace)
LastMinute == MaxTime \div Minute + 1
Reasons   == {"none", "hang_up", "balance", "low_coin", "disconnected"}
Labels    == {"idle", "read", "start", "guard", "ledger", "blind", "low", "armLow", "broke", "rearm",
              "lowRead", "lowBalance", "lowEnd", "graceKey", "graceArm", "dropRead", "dropDel",
              "dropEnd"}
Alarm     == [kind : {"bill", "low", "drop"}, at : Boundaries, stored : BOOLEAN]
Idle      == [pc |-> "idle", sweep |-> FALSE, m |-> 0, cur |-> 0, at |-> 0]

TypeOK ==
    /\ now \in Times
    /\ status \in {"ACTIVE", "ENDED"}
    /\ endedAt \in Boundaries \cup {None}
    /\ reason \in Reasons
    /\ mins \in 1..LastMinute
    /\ coins \in 0..(MaxCoins + MaxTopUps)
    /\ {bill, low, drop} \subseteq Boundaries \cup {None}
    /\ alarms \subseteq Alarm
    /\ key \in [left : Times, set : Times] \cup {None}
    /\ drops \subseteq Times
    /\ links \in 0..(MaxOpens + 1)
    /\ work \in [Workers -> [pc : Labels, sweep : BOOLEAN, m : 0..(LastMinute + 1),
                             cur : 0..LastMinute, at : Boundaries]]
    /\ ending \in BOOLEAN
    /\ topUps \in 0..MaxTopUps
    /\ opens \in 0..MaxOpens
    /\ faults \in 0..MaxFaults

\* The state acceptCall leaves: minute 1 is billed, and two background tasks are to
\* schedule vc_bill and to check whether the caller can pay minute 2.
Init ==
    /\ now = 0
    /\ status = "ACTIVE"
    /\ endedAt = None
    /\ reason = "none"
    /\ mins = 1
    /\ coins \in 0..MaxCoins
    /\ bill = None /\ low = None /\ drop = None /\ alarms = {}
    /\ key = None /\ links = 1 /\ drops = {}
    /\ \E w, v \in Workers :
         /\ w # v
         /\ work = [u \in Workers |->
                      CASE u = w -> [Idle EXCEPT !.pc = "rearm"]
                        [] u = v -> [Idle EXCEPT !.pc = "low", !.m = 1, !.cur = 1]
                        [] OTHER -> Idle]
    /\ ending = FALSE
    /\ topUps = 0 /\ opens = 0 /\ faults = 0

BoundaryOf(m) == m * Minute            \* end of minute m
StartOf(m)    == (m - 1) * Minute      \* start of minute m
CurrentMinute == now \div Minute + 1
Later(a, b)   == IF a > b THEN a ELSE b
KeySet        == key # None /\ now < key.set + KeyTTL

Goto(w, label) == work' = [work EXCEPT ![w].pc = label]
Rest(w)        == work' = [work EXCEPT ![w] = Idle]
Claim(w, label, at) == work' = [work EXCEPT ![w] = [Idle EXCEPT !.pc = label, !.at = at]]

\* A call fails, or the node finds its Redis client closed.
Fault == faults < MaxFaults /\ faults' = faults + 1

\* scheduleDurable at the time at, which leaves the entry next: the earlier timer of this
\* node, if it has one, is cleared; an entry that could not be written is this node's only.
Schedule(kind, entry, at, next) ==
    \E mine \in {{}} \cup {{a} : a \in {b \in alarms : b.kind = kind}}, stored \in BOOLEAN :
        /\ alarms' = (alarms \ mine) \cup
                      IF stored /\ kind = "bill" THEN {}
                      ELSE {[kind |-> kind, at |-> at, stored |-> stored]}
        /\ \/ stored /\ next = at /\ UNCHANGED faults
           \/ ~stored /\ next \in {entry, at} /\ Fault

\* fire of a local timer that is due, or of the sweep: the entry becomes next, and the handler
\* runs with a payload that says at (None: it does not run).
Fire(kind, entry, next, at) ==
    \/ /\ entry # None /\ entry <= now
       /\ next = None /\ at = entry
       /\ UNCHANGED <<alarms, faults>>
    \/ \E a \in {b \in alarms : b.kind = kind /\ b.at <= now} :
         /\ alarms' = alarms \ {a}
         /\ \/ a.stored /\ next = None /\ at = entry /\ UNCHANGED faults
            \/ a.stored /\ next = entry /\ at = a.at /\ Fault           \* Redis is closed
            \/ a.stored /\ next \in {entry, None} /\ at = None /\ Fault   \* ZREM fails
            \/ ~a.stored /\ next = entry /\ at = a.at /\ UNCHANGED faults

Entries(kind, entry) == {entry, None} \cup {a.at : a \in {b \in alarms : b.kind = kind}}

\* hasDurable: a timer of this node, or an entry in Redis.
HasDurable(kind, entry) == entry # None \/ \E a \in alarms : a.kind = kind

\* The part of endCall that wins: the row is closed, the timers are still armed.
Close(at, why) ==
    /\ status' = "ENDED"
    /\ endedAt' = at
    /\ reason' = why
    /\ ending' = TRUE
    /\ UNCHANGED mins

\* Mutant of EndCall: the row is updated whatever it says by now.
EndCallAgain(at, why) == Close(at, why)

EndCall(at, why) ==
    \/ status = "ACTIVE" /\ Close(at, why)
    \/ status # "ACTIVE" /\ UNCHANGED <<rowVars, ending>>

----------------------------------------------------------------------------
(* vc_bill, the sweep and billDueMinutes *)

\* The vc_bill deadline is claimed, early if a node holds a timer of an earlier schedule (which
\* of them do is not kept: the handler re-reads the row and bills what has begun), or a timer
\* that was not written to Redis fires.
ClaimBill(w) ==
    /\ work[w].pc = "idle"
    /\ \/ /\ bill # None /\ bill' = None
          /\ Claim(w, "read", 0)
          /\ UNCHANGED <<alarms, faults>>
       \/ /\ bill # None /\ Fault
          /\ \/ UNCHANGED bill /\ Claim(w, "read", 0)      \* Redis is closed
             \/ bill' = None /\ UNCHANGED work            \* no answer to the ZREM
          /\ UNCHANGED alarms
       \/ /\ \E a \in {b \in alarms : b.kind = "bill" /\ b.at <= now} : alarms' = alarms \ {a}
          /\ Claim(w, "read", 0)
          /\ UNCHANGED <<bill, faults>>
    /\ UNCHANGED <<now, rowVars, coins, low, drop, sockets, ending, topUps>>

\* Mutant of SweepTick: it leaves a call alone whose vc_bill deadline is gone.
SweepSkipsLostTimers(w) ==
    /\ work[w].pc = "idle"
    /\ status = "ACTIVE" /\ bill # None
    /\ work' = [work EXCEPT ![w] = [Idle EXCEPT !.pc = "start", !.sweep = TRUE, !.m = mins + 1]]
    /\ UNCHANGED <<now, rowVars, coins, timers, sockets, ending, topUps, faults>>

\* A sweep tick of the leader finds the call ACTIVE; the row it read may be old when
\* its turn in the loop comes.
SweepTick(w) ==
    /\ work[w].pc = "idle"
    /\ status = "ACTIVE"
    /\ work' = [work EXCEPT ![w] = [Idle EXCEPT !.pc = "start", !.sweep = TRUE, !.m = mins + 1]]
    /\ UNCHANGED <<now, rowVars, coins, timers, sockets, ending, topUps, faults>>

\* billDueMinutes from minute m on.
Begin(w, m) ==
    work' = [work EXCEPT ![w].m = m, ![w].cur = CurrentMinute,
                         ![w].pc = IF m <= CurrentMinute THEN "guard" ELSE "rearm"]

\* The handler re-reads the row and starts at once.
ReadForBill(w) ==
    /\ work[w].pc = "read"
    /\ \/ status = "ACTIVE" /\ Begin(w, mins + 1)
       \/ status # "ACTIVE" /\ Rest(w)
    /\ UNCHANGED <<now, rowVars, coins, timers, sockets, ending, topUps, faults>>

StartForSweep(w) ==
    /\ work[w].pc = "start"
    /\ Begin(w, work[w].m)
    /\ UNCHANGED <<now, rowVars, coins, timers, sockets, ending, topUps, faults>>

\* Mutant of Guard: the grace of a dropped caller does not spare the minute.
GuardNobody(w) ==
    /\ work[w].pc = "guard"
    /\ Goto(w, "ledger")
    /\ UNCHANGED <<now, rowVars, coins, timers, sockets, ending, topUps, faults>>

\* "Billing Guard": a caller who was gone when the minute began is not charged for it.  A node
\* whose Redis client is closed charges without a look, and a look that fails ends the handler.
Guard(w) ==
    /\ work[w].pc = "guard"
    /\ \/ /\ IF KeySet /\ key.left <= StartOf(work[w].m) + Margin
             THEN Goto(w, "rearm")
             ELSE Goto(w, "ledger")
          /\ UNCHANGED faults
       \/ Fault /\ (Goto(w, "blind") \/ Rest(w))
    /\ UNCHANGED <<now, rowVars, coins, timers, sockets, ending, topUps>>

\* CALL_MINUTE in ol-node-rest, under the row lock: only the next minute of an ACTIVE
\* call, and only if the caller can pay it.
Charge(m) == mins' = m /\ coins' = coins - 1 /\ UNCHANGED <<status, endedAt, reason>>
Payable(m) == status = "ACTIVE" /\ m = mins + 1 /\ coins > 0

Ledger(w) ==
    LET m == work[w].m
    IN  /\ work[w].pc \in {"ledger", "blind"}
        /\ \/ /\ Payable(m)
              /\ Charge(m)
              /\ \/ Goto(w, "low") /\ UNCHANGED faults
                 \/ Goto(w, "rearm") /\ Fault              \* no answer
           \/ /\ ~Payable(m)
              /\ IF status = "ACTIVE" /\ m = mins + 1
                 THEN Goto(w, "broke")                     \* INSUFFICIENT_COINS
                 ELSE Goto(w, "rearm")                     \* ended, or billed already
              /\ UNCHANGED <<rowVars, coins, faults>>
           \/ /\ Fault                                     \* not reached
              /\ Goto(w, "rearm")
              /\ UNCHANGED <<rowVars, coins>>
        /\ UNCHANGED <<now, timers, sockets, ending, topUps>>

\* Mutant of EndBroke: an unpaid minute only ends this pass.
EndBrokeNever(w) ==
    /\ work[w].pc = "broke"
    /\ Goto(w, "rearm")
    /\ UNCHANGED <<now, rowVars, coins, timers, sockets, ending, topUps, faults>>

EndBroke(w) ==
    /\ work[w].pc = "broke"
    /\ EndCall(now, "balance")
    /\ Goto(w, "rearm")
    /\ UNCHANGED <<now, coins, timers, sockets, topUps, faults>>

\* On to the next due minute, or out of the loop.
NextMinute(w) ==
    work' = [work EXCEPT ![w].m = @ + 1,
                         ![w].pc = IF work[w].m < work[w].cur THEN "guard" ELSE "rearm"]

\* hasDurable and the balance after the charge.
CheckNext(w) ==
    /\ work[w].pc = "low"
    /\ \/ /\ low = None /\ coins = 0 /\ now < BoundaryOf(work[w].m)
          /\ Goto(w, "armLow")
          /\ UNCHANGED faults
       \/ /\ HasDurable("low", low) \/ coins > 0 \/ now >= BoundaryOf(work[w].m)
          /\ NextMinute(w)
          /\ UNCHANGED faults
       \/ /\ Fault                                         \* no answer from Redis: none
          /\ coins = 0 /\ now < BoundaryOf(work[w].m)
          /\ Goto(w, "armLow")
    /\ UNCHANGED <<now, rowVars, coins, timers, sockets, ending, topUps>>

\* scheduleLowCoinDisconnect at the end of the minute that was just paid.
ArmLowCoin(w) ==
    /\ work[w].pc = "armLow"
    /\ \E next \in {low, BoundaryOf(work[w].m)} :
         Schedule("low", low, BoundaryOf(work[w].m), next) /\ low' = next
    /\ NextMinute(w)
    /\ UNCHANGED <<now, rowVars, coins, bill, drop, sockets, ending, topUps>>

\* scheduleNextBilling of a call that is still ACTIVE; the sweep does it only when no
\* deadline is pending.
Rearm(w) ==
    /\ work[w].pc = "rearm"
    /\ \/ /\ status = "ACTIVE" /\ (work[w].sweep => bill = None)
          /\ \E next \in {bill, Later(BoundaryOf(mins), now + Gap)} :
               Schedule("bill", bill, Later(BoundaryOf(mins), now + Gap), next) /\ bill' = next
       \/ /\ status # "ACTIVE" \/ (work[w].sweep /\ HasDurable("bill", bill))
          /\ UNCHANGED <<bill, alarms, faults>>
    /\ Rest(w)
    /\ UNCHANGED <<now, rowVars, coins, low, drop, sockets, ending, topUps>>

----------------------------------------------------------------------------
(* vc_lowcoin *)

ClaimLowCoin(w) ==
    /\ work[w].pc = "idle"
    /\ \E next, at \in Entries("low", low) :
         /\ Fire("low", low, next, at)
         /\ low' = next
         /\ IF at = None THEN UNCHANGED work ELSE Claim(w, "lowRead", at)
    /\ UNCHANGED <<now, rowVars, coins, bill, drop, sockets, ending, topUps>>

LowCoinStatus(w) ==
    /\ work[w].pc = "lowRead"
    /\ IF status = "ACTIVE" THEN Goto(w, "lowBalance") ELSE Rest(w)
    /\ UNCHANGED <<now, rowVars, coins, timers, sockets, ending, topUps, faults>>

LowCoinBalance(w) ==
    /\ work[w].pc = "lowBalance"
    /\ IF coins = 0 THEN Goto(w, "lowEnd") ELSE Rest(w)
    /\ UNCHANGED <<now, rowVars, coins, timers, sockets, ending, topUps, faults>>

\* The end is recorded at the boundary, not at the time it is noticed.
LowCoinEnd(w) ==
    /\ work[w].pc = "lowEnd"
    /\ EndCall(work[w].at, "low_coin")
    /\ Rest(w)
    /\ UNCHANGED <<now, coins, timers, sockets, topUps, faults>>

----------------------------------------------------------------------------
(* The caller's sockets and vc_disconnect *)

\* A socket's close is noticed, up to a ping timeout after the fact, and the handler
\* looks for an ACTIVE call of the user: that is the time of the disconnect.
SocketCloses(w) ==
    /\ work[w].pc = "idle"
    /\ links > 0
    /\ links' = links - 1
    /\ IF status = "ACTIVE"
       THEN Claim(w, "graceKey", now) /\ drops' = drops \cup {now}
       ELSE Rest(w) /\ UNCHANGED drops
    /\ UNCHANGED <<now, rowVars, coins, timers, key, opens, ending, topUps, faults>>

\* The time of the disconnect goes into the key, with the user's pointer to it.
GraceKey(w) ==
    /\ work[w].pc = "graceKey"
    /\ \/ key' = [left |-> work[w].at, set |-> now] /\ UNCHANGED faults
       \/ UNCHANGED key /\ Fault
    /\ Goto(w, "graceArm")
    /\ UNCHANGED <<now, rowVars, coins, timers, links, drops, opens, ending, topUps>>

GraceArm(w) ==
    /\ work[w].pc = "graceArm"
    /\ \E next \in {drop, work[w].at + Grace} :
         Schedule("drop", drop, work[w].at + Grace, next) /\ drop' = next
    /\ Rest(w)
    /\ UNCHANGED <<now, rowVars, coins, bill, low, sockets, ending, topUps>>

\* A new socket, perhaps before the old one's close is noticed: a pending grace is
\* cleared through the pointer, the deadline stays.
SocketOpens ==
    /\ opens < MaxOpens
    /\ opens' = opens + 1
    /\ links' = links + 1
    /\ \/ key' = None /\ UNCHANGED faults
       \/ UNCHANGED key /\ Fault
    /\ UNCHANGED <<now, rowVars, coins, timers, drops, work, ending, topUps>>

\* The payload of the deadline is the time of the disconnect.
ClaimDrop(w) ==
    /\ work[w].pc = "idle"
    /\ \E next, at \in Entries("drop", drop) :
         /\ Fire("drop", drop, next, at)
         /\ drop' = next
         /\ IF at = None THEN UNCHANGED work ELSE Claim(w, "dropRead", at - Grace)
    /\ UNCHANGED <<now, rowVars, coins, bill, low, sockets, ending, topUps>>

\* isStillDisconnected: with Redis closed the caller is taken to be away; a GET that fails
\* ends the handler.
DropRead(w) ==
    /\ work[w].pc = "dropRead"
    /\ \/ /\ IF KeySet THEN Goto(w, "dropDel") ELSE Rest(w)
          /\ UNCHANGED faults
       \/ Fault /\ (Goto(w, "dropDel") \/ Rest(w))
    /\ UNCHANGED <<now, rowVars, coins, timers, sockets, ending, topUps>>

DropDel(w) ==
    /\ work[w].pc = "dropDel"
    /\ \/ key' = None /\ UNCHANGED faults
       \/ UNCHANGED key /\ Fault
    /\ Goto(w, "dropEnd")
    /\ UNCHANGED <<now, rowVars, coins, timers, links, drops, opens, ending, topUps>>

DropEnd(w) ==
    /\ work[w].pc = "dropEnd"
    /\ EndCall(work[w].at, "disconnected")
    /\ Rest(w)
    /\ UNCHANGED <<now, coins, timers, sockets, topUps, faults>>

----------------------------------------------------------------------------
(* Environment *)

\* A participant hangs up; moderation, the webhook or the heartbeat sweep ends the call.
HangUp ==
    /\ status = "ACTIVE"
    /\ Close(now, "hang_up")
    /\ UNCHANGED <<now, coins, timers, sockets, work, topUps, faults>>

\* The rest of endCall: the keys and the deadlines of the call are dropped, or with Redis closed
\* only the timers.  Those that other nodes hold would find nothing to do, and are not kept.
CancelTimers ==
    /\ ending
    /\ ending' = FALSE
    /\ alarms' = {}
    /\ \/ bill' = None /\ low' = None /\ drop' = None /\ key' = None /\ UNCHANGED faults
       \/ UNCHANGED <<bill, low, drop, key>> /\ Fault
    /\ UNCHANGED <<now, rowVars, coins, links, drops, work, topUps, opens>>

TopUp ==
    /\ topUps < MaxTopUps
    /\ topUps' = topUps + 1
    /\ coins' = coins + 1
    /\ UNCHANGED <<now, rowVars, timers, sockets, work, ending, faults>>

\* A gift: the caller spends coins outside the call.
Gift ==
    /\ coins > 0
    /\ coins' = coins - 1
    /\ UNCHANGED <<now, rowVars, timers, sockets, work, ending, topUps, faults>>

\* A node dies with the workers and the timers it runs; the deadlines stay in Redis.
Crash ==
    /\ Fault
    /\ \E W \in SUBSET Workers :
         work' = [w \in Workers |-> IF w \in W THEN Idle ELSE work[w]]
    /\ \E dead \in SUBSET alarms : alarms' = alarms \ dead
    /\ UNCHANGED <<now, rowVars, coins, bill, low, drop, sockets, ending, topUps>>

Tick ==
    /\ now < MaxTime
    /\ now' = now + 1
    /\ UNCHANGED <<rowVars, coins, timers, sockets, work, ending, topUps, faults>>

Await(w) ==
    \/ ReadForBill(w) \/ StartForSweep(w) \/ Guard(w) \/ Ledger(w) \/ EndBroke(w)
    \/ CheckNext(w) \/ ArmLowCoin(w) \/ Rearm(w)
    \/ LowCoinStatus(w) \/ LowCoinBalance(w) \/ LowCoinEnd(w)
    \/ GraceKey(w) \/ GraceArm(w) \/ DropRead(w) \/ DropDel(w) \/ DropEnd(w)

Next ==
    \/ \E w \in Workers : \/ Await(w) \/ ClaimBill(w) \/ ClaimLowCoin(w) \/ ClaimDrop(w)
                          \/ SweepTick(w) \/ SocketCloses(w)
    \/ SocketOpens \/ HangUp \/ CancelTimers \/ TopUp \/ Gift \/ Crash \/ Tick

Spec == Init /\ [][Next]_vars

\* Every await is answered, and the leader's sweep keeps coming round.
Fairness ==
    /\ WF_vars(Tick)
    /\ \A w \in Workers : WF_vars(Await(w))
    /\ SF_vars(\E w \in Workers : SweepTick(w))

FairSpec == Spec /\ Fairness

----------------------------------------------------------------------------
(* Properties *)

\* No minute is charged before it has begun, whatever the timer, the sweep's old
\* snapshots and the slots let a billing start late.
NeverAhead == mins <= CurrentMinute

\* The charge of a worker that came to the guard with its Redis client closed.
ChargesBlindly ==
    \E w \in Workers : work[w].pc = "blind" /\ work'[w].pc # "blind" /\ work[w].m = mins'

\* A minute that begins after a drop was written to Redis is not charged while it stands there,
\* whichever handler or sweep bills it and however late, but by a node whose own Redis client is
\* closed when it comes to the guard.
NoChargeInGrace ==
    [][mins' # mins => ~(KeySet /\ key.set < StartOf(mins')) \/ ChargesBlindly]_vars

\* Timer handlers, sweeps and ends together implement the meter of a call: nothing is charged
\* before its time, without a coin or after the end, and the end is recorded once: now, at the
\* end of a paid minute, or at a drop of the caller once the grace of one of them is over.
Meter == INSTANCE CallMeter WITH
             charged <- mins, over <- status # "ACTIVE", at <- endedAt, why <- reason,
             left <- drops, Never <- None
ImplementsMeter == Meter!Spec

\* Every minute that began after the first is charged in the end, or the call is over, or its caller is
\* away: a lost timer is made good by the sweep ("Backstop for the per-call timers").
MinutesBilled ==
    \A m \in 2..LastMinute :
        (now >= StartOf(m)) ~> (mins >= m \/ status = "ENDED" \/ KeySet)

\* A call whose caller cannot pay the minute that began ends, unless coins arrive or the
\* caller is away.
UnpaidCallEnds ==
    (now >= BoundaryOf(mins) /\ coins = 0) ~> (status = "ENDED" \/ coins > 0 \/ KeySet)

\* "vc_lowcoin end the call at the minute boundary the caller can't pay for": no charged
\* minute begins at or after the recorded end.
LowCoinEndsUnpaidMinute ==
    reason = "low_coin" => endedAt > StartOf(mins)

\* "15s grace before a dropped participant's call is ended": a caller who has a socket does
\* not lose the call as disconnected.
OnlineCallerKeepsCall ==
    [][reason' = "disconnected" => reason = "disconnected" \/ links = 0]_vars
============================================================================
