------------------------ MODULE CallBilling_proofs ------------------------
(***************************************************************************)
(* What a caller is charged, for any workers, lengths and bounds: no       *)
(* minute before it has begun, and none that began after the caller was    *)
(* seen to leave, but by a node that cannot ask Redis.  The argument: a    *)
(* worker never goes beyond the minute that was current when it started,   *)
(* and a drop that is written after the guard is written after the start   *)
(* of the minute the guard let pass.  Then that all of it is the meter of  *)
(* CallMeter, which also needs what the deadlines, the local timers and a  *)
(* worker that is about to end the call hold: the end of a paid minute, or *)
(* a drop of the caller.                                                   *)
(***************************************************************************)
EXTENDS CallBilling, Integers, TLAPS

Kinds == {"bill", "low", "drop"}

\* A worker's record; m and cur are minutes, at is a time.
Work == [pc : Labels, sweep : BOOLEAN, m : Nat, cur : Nat, at : Int]

\* The key says when the caller left, which was before it was set.
KeyTyped == key = None \/ (key \in [left : Int, set : Nat] /\ key.left <= key.set)

TimersTyped == /\ {bill, low, drop} \subseteq Int \cup {None}
               /\ alarms \subseteq [kind : Kinds, at : Int, stored : BOOLEAN]

Typed ==
    /\ now \in Nat /\ mins \in Nat
    /\ KeyTyped /\ TimersTyped
    /\ work \in [Workers -> Work]

\* The caller was known to be away before minute m began.
AwayBefore(m) == KeySet /\ key.set < StartOf(m)

\* A worker bills only minutes that had begun when it started, and none it saw it should spare.
Good(w) ==
    /\ work[w].cur <= CurrentMinute
    /\ work[w].pc \in {"guard", "ledger", "blind"} => work[w].m <= work[w].cur
    /\ work[w].pc = "ledger" => ~AwayBefore(work[w].m)
    /\ work[w].pc = "graceKey" => work[w].at <= now

IInv == Typed /\ NeverAhead /\ \A w \in Workers : Good(w)

-----------------------------------------------------------------------------
(* Minutes and times *)

LEMMA Lengths == Minute \in Nat \ {0} /\ Grace \in Nat /\ KeyTTL \in Nat /\ Margin \in Nat
                 /\ None \notin Nat
BY CallBillingAssumption

LEMMA MinuteOf ==
    ASSUME NEW t \in Nat
    PROVE  /\ t \div Minute \in Nat
           /\ (t \div Minute) * Minute <= t
           /\ t \div Minute <= (t + 1) \div Minute
<1> DEFINE q == t \div Minute
           s == (t + 1) \div Minute
<1>1. q \in Int /\ t = (Minute * q) + (t % Minute) /\ t % Minute \in 0..Minute - 1
  BY Lengths
<1>2. s \in Int /\ t + 1 = (Minute * s) + ((t + 1) % Minute) /\ (t + 1) % Minute \in 0..Minute - 1
  BY Lengths
<1> HIDE DEF q, s
<1>3. q >= 0
  <2> SUFFICES ASSUME q <= -1 PROVE FALSE
    BY <1>1
  <2>1. Minute * q <= -Minute
    BY <1>1, Lengths
  <2> QED
    BY <1>1, <2>1, Lengths
<1>4. q <= s
  <2> SUFFICES ASSUME s + 1 <= q PROVE FALSE
    BY <1>1, <1>2
  <2>1. Minute * (s + 1) <= Minute * q
    BY <1>1, <1>2, Lengths
  <2>2. Minute * (s + 1) = Minute * s + Minute
    BY <1>2, Lengths
  <2>3. Minute * s \in Int /\ Minute * q \in Int
    BY <1>1, <1>2, Lengths
  <2> QED
    BY <1>1, <1>2, <2>1, <2>2, <2>3, Lengths
<1>5. q * Minute <= t
  BY <1>1, Lengths
<1> QED
  BY <1>1, <1>3, <1>4, <1>5 DEF q, s

\* A minute that is not beyond the current one has begun.
LEMMA HasBegun ==
    ASSUME now \in Nat, NEW m \in Nat, m <= CurrentMinute
    PROVE  StartOf(m) \in Int /\ StartOf(m) <= now
<1>1. now \div Minute \in Nat /\ (now \div Minute) * Minute <= now
  BY MinuteOf
<1>2. m - 1 \in Int /\ m - 1 <= now \div Minute
  BY <1>1 DEF CurrentMinute
<1>3. (m - 1) * Minute <= (now \div Minute) * Minute
  BY <1>1, <1>2, Lengths
<1>4. (m - 1) * Minute \in Int /\ (now \div Minute) * Minute \in Int
  BY <1>1, <1>2, Lengths
<1> QED
  BY <1>1, <1>3, <1>4 DEF StartOf

-----------------------------------------------------------------------------
(* What one step does to the workers it does not touch, and to the one it does *)

\* The clock only goes on, and the key only changes to say that the caller is here, or, now, that
\* it is away.
Moves == /\ now' \in {now, now + 1}
         /\ key' \in {key, None} \/ (key' # None /\ key'.set = now /\ now' = now /\ KeyTyped')

\* Between the guard and the ledger a drop cannot come too early.
LEMMA StaysAbsent ==
    ASSUME Typed, Moves, NEW m \in Nat, m <= CurrentMinute, ~AwayBefore(m)
    PROVE  ~AwayBefore(m)'
<1>1. StartOf(m) \in Int /\ StartOf(m) <= now
  BY HasBegun DEF Typed
<1>2. StartOf(m)' = StartOf(m)
  BY DEF StartOf
<1>3. CASE key' = None
  BY <1>3 DEF AwayBefore, KeySet
<1>4. CASE key'.set = now
  BY <1>1, <1>2, <1>4 DEF AwayBefore, Typed
<1>5. CASE key' = key /\ key # None
  <2>1. key.set \in Nat
    BY <1>5 DEF Typed, KeyTyped
  <2>2. AwayBefore(m)' => AwayBefore(m)
    BY <1>2, <1>5, <2>1, Lengths DEF AwayBefore, KeySet, Moves, Typed
  <2> QED
    BY <2>2
<1> QED
  BY <1>3, <1>4, <1>5 DEF Moves

LEMMA ClockGoesOn ==
    ASSUME Typed, Moves
    PROVE  /\ CurrentMinute \in Nat /\ CurrentMinute' \in Nat
           /\ CurrentMinute <= CurrentMinute'
<1>1. now \in Nat /\ now' \in Nat
  BY DEF Typed, Moves
<1>2. now \div Minute \in Nat /\ now' \div Minute \in Nat
  BY <1>1, MinuteOf
<1>3. now \div Minute <= now' \div Minute
  BY <1>1, <1>2, MinuteOf DEF Moves
<1> QED
  BY <1>2, <1>3 DEF CurrentMinute

LEMMA WorkOf ==
    ASSUME Typed, NEW w \in Workers
    PROVE  /\ work[w] \in Work /\ work[w].pc \in Labels
           /\ work[w].m \in Nat /\ work[w].cur \in Nat /\ work[w].at \in Int
BY DEF Typed, Work

\* What is good of a record stays good.
GoodRecord(r) ==
    /\ r.cur <= CurrentMinute
    /\ r.pc \in {"guard", "ledger", "blind"} => r.m <= r.cur
    /\ r.pc = "ledger" => ~AwayBefore(r.m)
    /\ r.pc = "graceKey" => r.at <= now

LEMMA RecordStays ==
    ASSUME Typed, Moves, NEW r \in Work, GoodRecord(r)
    PROVE  GoodRecord(r)'
<1>1. r.cur \in Nat /\ r.m \in Nat /\ r.at \in Int /\ now \in Nat
  BY DEF Typed, Work
<1>2. r.cur <= CurrentMinute' /\ (r.at <= now => r.at <= now')
  BY <1>1, ClockGoesOn DEF GoodRecord, Moves
<1>3. ASSUME r.pc = "ledger"
      PROVE  ~AwayBefore(r.m)'
  <2>1. r.m <= CurrentMinute
    BY <1>1, <1>3, ClockGoesOn DEF GoodRecord
  <2> QED
    BY <1>1, <1>3, <2>1, StaysAbsent DEF GoodRecord
<1> QED
  BY <1>2, <1>3 DEF GoodRecord, AwayBefore, KeySet, StartOf

LEMMA StaysGood ==
    ASSUME Typed, Moves, NEW w \in Workers, Good(w), work'[w] = work[w]
    PROVE  Good(w)'
<1>1. GoodRecord(work[w])
  BY DEF Good, GoodRecord
<1>2. ASSUME NEW r \in Work, GoodRecord(r), work'[w] = r PROVE Good(w)'
  BY <1>2, RecordStays DEF Good, GoodRecord, AwayBefore, KeySet, StartOf, CurrentMinute
<1> QED
  BY <1>1, <1>2, WorkOf

\* A step of worker w, which then stands with the record r.
LEMMA OneWorker ==
    ASSUME IInv, Moves, NEW w \in Workers, NEW r \in Work,
           work' = [work EXCEPT ![w] = r],
           TimersTyped', mins' = mins, GoodRecord(r)
    PROVE  IInv'
<1>1. Typed'
  BY DEF IInv, Typed, Moves, KeyTyped
<1>2. NeverAhead'
  BY ClockGoesOn DEF IInv, NeverAhead, Typed
<1>3. work'[w] = r
  BY DEF IInv, Typed
<1>4. Good(w)'
  <2>1. GoodRecord(r)'
    BY RecordStays DEF IInv
  <2> QED
    BY <1>3, <2>1 DEF Good, GoodRecord, AwayBefore, KeySet, StartOf, CurrentMinute
<1>5. \A v \in Workers : v # w => Good(v)'
  <2> SUFFICES ASSUME NEW v \in Workers, v # w PROVE Good(v)'
    OBVIOUS
  <2>1. work'[v] = work[v]
    BY DEF IInv, Typed
  <2> QED
    BY <2>1, StaysGood DEF IInv
<1> QED
  BY <1>1, <1>2, <1>4, <1>5 DEF IInv

\* A step of no worker.
LEMMA NoWorker ==
    ASSUME IInv, Moves, UNCHANGED <<work, mins>>, TimersTyped'
    PROVE  IInv'
<1>1. Typed'
  BY DEF IInv, Typed, Moves, KeyTyped
<1>2. NeverAhead'
  BY ClockGoesOn DEF IInv, NeverAhead, Typed
<1>3. \A w \in Workers : Good(w)'
  BY StaysGood DEF IInv
<1> QED
  BY <1>1, <1>2, <1>3 DEF IInv

-----------------------------------------------------------------------------
(* Timers *)

LEMMA ScheduleTypes ==
    ASSUME TimersTyped, NEW kind \in Kinds, NEW entry, NEW at \in Int, NEW next,
           Schedule(kind, entry, at, next)
    PROVE  alarms' \subseteq [kind : Kinds, at : Int, stored : BOOLEAN] /\ next \in {entry, at}
<1>1. PICK mine \in {{}} \cup {{a} : a \in {b \in alarms : b.kind = kind}}, stored \in BOOLEAN :
         /\ alarms' = (alarms \ mine) \cup
                       IF stored /\ kind = "bill" THEN {}
                       ELSE {[kind |-> kind, at |-> at, stored |-> stored]}
         /\ next \in {entry, at}
  BY DEF Schedule
<1> QED
  BY <1>1 DEF TimersTyped

LEMMA FireTypes ==
    ASSUME TimersTyped, NEW kind, NEW entry \in Int \cup {None}, NEW next, NEW at,
           Fire(kind, entry, next, at)
    PROVE  alarms' \subseteq alarms /\ next \in {entry, None} /\ at \in Int \cup {None}
<1>1. CASE next = None /\ at = entry /\ UNCHANGED alarms
  BY <1>1
<1>2. CASE \E a \in alarms : /\ alarms' = alarms \ {a} /\ next \in {entry, None}
                             /\ at \in {entry, a.at, None}
  BY <1>2 DEF TimersTyped
<1> QED
  BY <1>1, <1>2 DEF Fire

-----------------------------------------------------------------------------
(* The ways a worker goes on *)

\* Everything but the work, the row's status, the timers and the key stays.
Quiet == /\ now' = now /\ mins' = mins
         /\ Moves /\ TimersTyped'

Billing == {"guard", "ledger", "blind"}

\* To a place where nothing is billed.
LEMMA GotoKeeps ==
    ASSUME IInv, Quiet, NEW w \in Workers,
           NEW label \in Labels \ (Billing \cup {"graceKey"}), Goto(w, label)
    PROVE  IInv'
<1> DEFINE r == [work[w] EXCEPT !.pc = label]
<1>1. r \in Work /\ r.cur = work[w].cur /\ r.pc = label
  BY WorkOf DEF IInv, Work
<1>2. work' = [work EXCEPT ![w] = r]
  BY DEF Goto
<1> HIDE DEF r
<1>3. GoodRecord(r)
  BY <1>1 DEF IInv, Good, GoodRecord, Billing
<1> QED
  BY <1>1, <1>2, <1>3, OneWorker DEF Quiet

LEMMA FreshKeeps ==
    ASSUME IInv, Quiet, NEW w \in Workers, NEW r \in Work,
           work' = [work EXCEPT ![w] = r], r.cur = 0, r.pc \notin Billing,
           r.pc = "graceKey" => r.at <= now
    PROVE  IInv'
<1>1. GoodRecord(r)
  BY ClockGoesOn DEF IInv, Quiet, GoodRecord, Billing
<1> QED
  BY <1>1, OneWorker DEF Quiet

LEMMA RestKeeps ==
    ASSUME IInv, Quiet, NEW w \in Workers, Rest(w)
    PROVE  IInv'
<1>1. Idle \in Work /\ Idle.cur = 0 /\ Idle.pc = "idle"
  BY DEF Idle, Work, Labels
<1> QED
  BY <1>1, FreshKeeps DEF Rest, Billing

LEMMA ClaimKeeps ==
    ASSUME IInv, Quiet, NEW w \in Workers, NEW at \in Int,
           NEW label \in Labels \ Billing, label = "graceKey" => at <= now, Claim(w, label, at)
    PROVE  IInv'
<1> DEFINE r == [Idle EXCEPT !.pc = label, !.at = at]
<1>1. r \in Work /\ r.cur = 0 /\ r.pc = label /\ r.at = at
  BY DEF Idle, Work, Labels
<1>2. work' = [work EXCEPT ![w] = r]
  BY DEF Claim
<1> HIDE DEF r
<1> QED
  BY <1>1, <1>2, FreshKeeps

\* A billing starts at minute m, and with the minute that is current.
LEMMA BeginKeeps ==
    ASSUME IInv, Quiet, NEW w \in Workers, NEW m \in Nat, Begin(w, m)
    PROVE  IInv'
<1> DEFINE c == IF m <= CurrentMinute THEN "guard" ELSE "rearm"
           r == [work[w] EXCEPT !.m = m, !.cur = CurrentMinute, !.pc = c]
<1>1. CurrentMinute \in Nat
  BY ClockGoesOn DEF IInv, Quiet
<1>2. c \in {"guard", "rearm"} /\ (c = "guard" => m <= CurrentMinute)
  OBVIOUS
<1>3. work' = [work EXCEPT ![w] = r]
  BY DEF Begin
<1> HIDE DEF c
<1>4. r \in Work /\ r.m = m /\ r.cur = CurrentMinute /\ r.pc = c
  BY <1>1, <1>2, WorkOf DEF IInv, Work, Labels
<1> HIDE DEF r
<1>5. GoodRecord(r)
  BY <1>1, <1>2, <1>4 DEF GoodRecord
<1> QED
  BY <1>3, <1>4, <1>5, OneWorker DEF Quiet

LEMMA NextMinuteKeeps ==
    ASSUME IInv, Quiet, NEW w \in Workers, NextMinute(w)
    PROVE  IInv'
<1> DEFINE c == IF work[w].m < work[w].cur THEN "guard" ELSE "rearm"
           n == work[w].m + 1
           r == [work[w] EXCEPT !.m = n, !.pc = c]
<1>1. work[w] \in Work /\ work[w].m \in Nat /\ work[w].cur \in Nat /\ n \in Nat
  BY WorkOf DEF IInv
<1>2. c \in {"guard", "rearm"} /\ (c = "guard" => n <= work[w].cur)
  BY <1>1
<1>3. work' = [work EXCEPT ![w] = r]
  BY DEF NextMinute
<1> HIDE DEF c, n
<1>4. r \in Work /\ r.m = n /\ r.cur = work[w].cur /\ r.pc = c
  BY <1>1, <1>2 DEF Work, Labels
<1> HIDE DEF r
<1>5. GoodRecord(r)
  BY <1>2, <1>4 DEF IInv, Good, GoodRecord
<1> QED
  BY <1>3, <1>4, <1>5, OneWorker DEF Quiet

\* The guard lets a minute pass that began before the caller was known to be away, or any minute
\* when it cannot look.
LEMMA GuardKeeps ==
    ASSUME IInv, NEW w \in Workers, Guard(w)
    PROVE  IInv'
<1>1. Quiet
  BY DEF Guard, Quiet, Moves, IInv, Typed, TimersTyped, rowVars, timers, sockets
<1>2. CASE Goto(w, "rearm")
  BY <1>1, <1>2, GotoKeeps DEF Labels, Billing
<1>3. CASE Rest(w)
  BY <1>1, <1>3, RestKeeps
<1>4. ASSUME NEW label \in {"ledger", "blind"}, Goto(w, label),
             label = "ledger" => ~(KeySet /\ key.left <= StartOf(work[w].m) + Margin)
      PROVE  IInv'
  <2> DEFINE r == [work[w] EXCEPT !.pc = label]
  <2>1. work[w] \in Work /\ work[w].m \in Nat
    BY WorkOf DEF IInv
  <2>2. r \in Work /\ r.m = work[w].m /\ r.cur = work[w].cur /\ r.pc = label
    BY <2>1 DEF Work, Labels
  <2>3. work' = [work EXCEPT ![w] = r]
    BY <1>4 DEF Goto
  <2>4. r.cur <= CurrentMinute /\ r.m <= r.cur
    BY <2>2 DEF IInv, Good, Guard
  <2>5. r.m <= CurrentMinute
    BY <2>1, <2>2, <2>4, WorkOf, ClockGoesOn, <1>1 DEF IInv, Quiet
  <2>6. label = "ledger" => ~AwayBefore(r.m)
    <3>1. StartOf(r.m) \in Int
      BY <2>1, <2>2, <2>5, HasBegun DEF IInv, Typed
    <3>2. label = "ledger" => ~(KeySet /\ key.left <= StartOf(r.m) + Margin)
      BY <1>4, <2>2
    <3>3. KeySet => key.left \in Int /\ key.set \in Nat /\ key.left <= key.set
      BY DEF KeySet, IInv, Typed, KeyTyped
    <3> QED
      BY <3>1, <3>2, <3>3, Lengths DEF AwayBefore
  <2> HIDE DEF r
  <2>7. GoodRecord(r)
    BY <2>2, <2>4, <2>6 DEF GoodRecord
  <2> QED
    BY <1>1, <2>2, <2>3, <2>7, OneWorker DEF Quiet
<1> QED
  BY <1>2, <1>3, <1>4 DEF Guard

-----------------------------------------------------------------------------
(* The ledger charges the minute the guard let pass *)

\* Only a charge changes the minutes, and it charges the minute of a worker at the ledger.
ChargedBy(w) == work[w].pc \in {"ledger", "blind"} /\ mins' = work[w].m

LEMMA ChargeKeeps ==
    ASSUME IInv, NEW w \in Workers, ChargedBy(w), UNCHANGED <<now, key, timers>>,
           NEW label \in Labels \ (Billing \cup {"graceKey"}), Goto(w, label)
    PROVE  IInv'
<1>1. Moves
  BY DEF Moves, IInv, Typed
<1>2. Typed'
  <2>1. work[w].m \in Nat
    BY WorkOf DEF IInv
  <2>2. work' \in [Workers -> Work]
    BY DEF Goto, IInv, Typed, Work
  <2> QED
    BY <2>1, <2>2 DEF IInv, Typed, KeyTyped, TimersTyped, timers, ChargedBy
<1>3. NeverAhead'
  <2>1. work[w].m <= work[w].cur /\ work[w].cur <= CurrentMinute
    BY DEF IInv, Good, ChargedBy
  <2> QED
    BY <1>1, <2>1, WorkOf, ClockGoesOn DEF IInv, ChargedBy, NeverAhead
<1>4. Good(w)'
  <2>1. work'[w].cur = work[w].cur /\ work'[w].pc = label
    BY WorkOf DEF Goto, IInv, Typed, Work
  <2> QED
    BY <2>1 DEF IInv, Good, CurrentMinute, Billing
<1>5. \A v \in Workers : v # w => Good(v)'
  <2> SUFFICES ASSUME NEW v \in Workers, v # w PROVE Good(v)'
    OBVIOUS
  <2>1. work'[v] = work[v]
    BY DEF Goto, IInv, Typed
  <2> QED
    BY <1>1, <2>1, StaysGood DEF IInv
<1> QED
  BY <1>2, <1>3, <1>4, <1>5 DEF IInv

LEMMA LedgerKeeps == ASSUME IInv, NEW w \in Workers, Ledger(w) PROVE IInv'
<1>1. UNCHANGED <<now, key, timers>>
  BY DEF Ledger, sockets
<1>2. \E label \in {"low", "rearm", "broke"} : Goto(w, label)
  BY DEF Ledger
<1>3. CASE Charge(work[w].m)
  <2>1. ChargedBy(w)
    BY <1>3 DEF Ledger, Charge, ChargedBy
  <2> QED
    BY <1>1, <1>2, <2>1, ChargeKeeps DEF Labels, Billing
<1>4. CASE UNCHANGED rowVars
  <2>1. Quiet
    BY <1>1, <1>4 DEF Quiet, Moves, rowVars, timers, IInv, Typed, TimersTyped
  <2> QED
    BY <1>2, <2>1, GotoKeeps DEF Labels, Billing
<1> QED
  BY <1>3, <1>4 DEF Ledger

-----------------------------------------------------------------------------
(* Every step *)

LEMMA CloseMins == ASSUME NEW at, NEW why, EndCall(at, why) PROVE mins' = mins
BY DEF EndCall, Close, rowVars

\* A step that leaves the clock, the minutes and the key alone.
LEMMA QuietStep ==
    ASSUME IInv, UNCHANGED <<now, mins, key>>, TimersTyped' PROVE Quiet
BY DEF Quiet, Moves, IInv, Typed

\* The vc_bill handler and the sweep, but for the guard and the ledger.
LEMMA BillKeeps ==
    ASSUME IInv, NEW w \in Workers,
           \/ ClaimBill(w) \/ SweepTick(w) \/ ReadForBill(w) \/ StartForSweep(w)
           \/ CheckNext(w) \/ ArmLowCoin(w) \/ EndBroke(w) \/ Rearm(w)
    PROVE  IInv'
<1>0. TimersTyped
  BY DEF IInv, Typed
<1>1. CASE ClaimBill(w)
  <2>1. TimersTyped' /\ UNCHANGED <<now, mins, key>> /\ (Claim(w, "read", 0) \/ UNCHANGED work)
    BY <1>0, <1>1 DEF ClaimBill, TimersTyped, rowVars, sockets
  <2> QED
    BY <2>1, QuietStep, ClaimKeeps, NoWorker DEF Labels, Billing, Quiet
<1>2. CASE SweepTick(w)
  <2> DEFINE r == [Idle EXCEPT !.pc = "start", !.sweep = TRUE, !.m = mins + 1]
  <2>1. Quiet /\ work' = [work EXCEPT ![w] = r]
    BY <1>0, <1>2, QuietStep DEF SweepTick, TimersTyped, rowVars, timers, sockets
  <2>2. r \in Work /\ r.cur = 0 /\ r.pc = "start"
    <3>1. mins + 1 \in Nat
      BY DEF IInv, Typed
    <3>2. Idle \in Work /\ Idle.cur = 0
      BY DEF Idle, Work, Labels
    <3> QED
      BY <3>1, <3>2 DEF Work, Labels
  <2> HIDE DEF r
  <2> QED
    BY <2>1, <2>2, FreshKeeps DEF Billing
<1>3. CASE ReadForBill(w)
  <2>1. Quiet /\ (Begin(w, mins + 1) \/ Rest(w))
    BY <1>0, <1>3, QuietStep DEF ReadForBill, TimersTyped, rowVars, timers, sockets
  <2>2. mins + 1 \in Nat
    BY DEF IInv, Typed
  <2> QED
    BY <2>1, <2>2, BeginKeeps, RestKeeps
<1>4. CASE StartForSweep(w)
  <2>1. Quiet /\ Begin(w, work[w].m)
    BY <1>0, <1>4, QuietStep DEF StartForSweep, TimersTyped, rowVars, timers, sockets
  <2>2. work[w].m \in Nat
    BY WorkOf DEF IInv
  <2> QED
    BY <2>1, <2>2, BeginKeeps
<1>5. CASE CheckNext(w)
  <2>1. Quiet
    BY <1>0, <1>5, QuietStep DEF CheckNext, TimersTyped, rowVars, timers, sockets
  <2>2. Goto(w, "armLow") \/ NextMinute(w)
    BY <1>5 DEF CheckNext
  <2> QED
    BY <2>1, <2>2, GotoKeeps, NextMinuteKeeps DEF Labels, Billing
<1>6. CASE ArmLowCoin(w)
  <2> DEFINE at == BoundaryOf(work[w].m)
  <2>1. at \in Int
    BY WorkOf, Lengths DEF IInv, BoundaryOf
  <2>2. PICK next \in {low, at} : Schedule("low", low, at, next) /\ low' = next
    BY <1>6 DEF ArmLowCoin
  <2>3. UNCHANGED <<now, mins, key, bill, drop>> /\ NextMinute(w)
    BY <1>6 DEF ArmLowCoin, rowVars, sockets
  <2> HIDE DEF at
  <2>4. TimersTyped'
    BY <1>0, <2>1, <2>2, <2>3, ScheduleTypes DEF TimersTyped, Kinds
  <2> QED
    BY <2>3, <2>4, QuietStep, NextMinuteKeeps
<1>7. CASE EndBroke(w)
  <2>1. Quiet /\ Goto(w, "rearm")
    BY <1>0, <1>7, CloseMins, QuietStep DEF EndBroke, TimersTyped, timers, sockets
  <2> QED
    BY <2>1, GotoKeeps DEF Labels, Billing
<1>8. CASE Rearm(w)
  <2> DEFINE at == Later(BoundaryOf(mins), now + Gap)
  <2>1. at \in Int
    BY Lengths, CallBillingAssumption DEF IInv, Typed, BoundaryOf, Later
  <2>2. UNCHANGED <<now, mins, key, low, drop>> /\ Rest(w)
    BY <1>8 DEF Rearm, rowVars, sockets
  <2>3. \/ UNCHANGED <<bill, alarms>>
        \/ \E next \in {bill, at} : Schedule("bill", bill, at, next) /\ bill' = next
    BY <1>8 DEF Rearm
  <2> HIDE DEF at
  <2>4. TimersTyped'
    BY <1>0, <2>1, <2>2, <2>3, ScheduleTypes DEF TimersTyped, Kinds
  <2> QED
    BY <2>2, <2>4, QuietStep, RestKeeps
<1> QED
  BY <1>1, <1>2, <1>3, <1>4, <1>5, <1>6, <1>7, <1>8

\* The vc_lowcoin handler.
LEMMA LowKeeps ==
    ASSUME IInv, NEW w \in Workers,
           ClaimLowCoin(w) \/ LowCoinStatus(w) \/ LowCoinBalance(w) \/ LowCoinEnd(w)
    PROVE  IInv'
<1>0. TimersTyped /\ low \in Int \cup {None}
  BY DEF IInv, Typed, TimersTyped
<1>1. CASE ClaimLowCoin(w)
  <2>1. PICK next, at : /\ Fire("low", low, next, at) /\ low' = next
                        /\ IF at = None THEN UNCHANGED work ELSE Claim(w, "lowRead", at)
    BY <1>1 DEF ClaimLowCoin
  <2>2. UNCHANGED <<now, mins, key, bill, drop>>
    BY <1>1 DEF ClaimLowCoin, rowVars, sockets
  <2>3. alarms' \subseteq alarms /\ next \in {low, None} /\ at \in Int \cup {None}
    BY <1>0, <2>1, FireTypes
  <2>4. Quiet
    BY <1>0, <2>1, <2>2, <2>3, QuietStep DEF TimersTyped
  <2> QED
    BY <2>1, <2>2, <2>3, <2>4, ClaimKeeps, NoWorker DEF Labels, Billing, Quiet
<1>2. CASE LowCoinStatus(w) \/ LowCoinBalance(w)
  <2>1. Quiet /\ (Goto(w, "lowBalance") \/ Goto(w, "lowEnd") \/ Rest(w))
    BY <1>0, <1>2, QuietStep DEF LowCoinStatus, LowCoinBalance, TimersTyped, rowVars, timers, sockets
  <2> QED
    BY <2>1, GotoKeeps, RestKeeps DEF Labels, Billing
<1>3. CASE LowCoinEnd(w)
  <2>1. Quiet /\ Rest(w)
    BY <1>0, <1>3, CloseMins, QuietStep DEF LowCoinEnd, TimersTyped, timers, sockets
  <2> QED
    BY <2>1, RestKeeps
<1> QED
  BY <1>1, <1>2, <1>3

\* The caller's sockets and the vc_disconnect handler.
LEMMA DropKeeps ==
    ASSUME IInv, NEW w \in Workers,
           \/ SocketCloses(w) \/ GraceKey(w) \/ GraceArm(w)
           \/ ClaimDrop(w) \/ DropRead(w) \/ DropDel(w) \/ DropEnd(w)
    PROVE  IInv'
<1>0. TimersTyped /\ drop \in Int \cup {None} /\ now \in Nat
  BY DEF IInv, Typed, TimersTyped
<1>1. CASE SocketCloses(w)
  <2>1. Quiet /\ (Claim(w, "graceKey", now) \/ Rest(w))
    BY <1>0, <1>1, QuietStep DEF SocketCloses, TimersTyped, rowVars, timers
  <2> QED
    BY <1>0, <2>1, ClaimKeeps, RestKeeps DEF Labels, Billing
<1>2. CASE GraceKey(w)
  <2>1. work[w].at \in Int /\ work[w].at <= now
    BY <1>2, WorkOf DEF GraceKey, IInv, Good
  <2>2. now' = now /\ mins' = mins /\ TimersTyped' /\ Goto(w, "graceArm")
    BY <1>0, <1>2 DEF GraceKey, TimersTyped, rowVars, timers
  <2>3. key' = key \/ key' = [left |-> work[w].at, set |-> now]
    BY <1>2 DEF GraceKey
  <2>4. Moves
    <3>1. CASE key' = key \/ key' = None
      BY <2>2, <3>1 DEF Moves
    <3>2. CASE key' = [left |-> work[w].at, set |-> now] /\ key' # None
      <4>1. key'.set = now /\ KeyTyped'
        BY <1>0, <2>1, <3>2 DEF KeyTyped
      <4> QED
        BY <2>2, <3>2, <4>1 DEF Moves
    <3> QED
      BY <2>3, <3>1, <3>2
  <2> QED
    BY <2>2, <2>4, GotoKeeps DEF Labels, Billing, Quiet
<1>3. CASE GraceArm(w)
  <2> DEFINE at == work[w].at + Grace
  <2>1. at \in Int
    BY WorkOf, Lengths DEF IInv
  <2>2. PICK next \in {drop, at} : Schedule("drop", drop, at, next) /\ drop' = next
    BY <1>3 DEF GraceArm
  <2>3. UNCHANGED <<now, mins, key, bill, low>> /\ Rest(w)
    BY <1>3 DEF GraceArm, rowVars, sockets
  <2> HIDE DEF at
  <2>4. TimersTyped'
    BY <1>0, <2>1, <2>2, <2>3, ScheduleTypes DEF TimersTyped, Kinds
  <2> QED
    BY <2>3, <2>4, QuietStep, RestKeeps
<1>4. CASE ClaimDrop(w)
  <2>1. PICK next, at : /\ Fire("drop", drop, next, at) /\ drop' = next
                        /\ IF at = None THEN UNCHANGED work ELSE Claim(w, "dropRead", at - Grace)
    BY <1>4 DEF ClaimDrop
  <2>2. UNCHANGED <<now, mins, key, bill, low>>
    BY <1>4 DEF ClaimDrop, rowVars, sockets
  <2>3. alarms' \subseteq alarms /\ next \in {drop, None} /\ at \in Int \cup {None}
    BY <1>0, <2>1, FireTypes
  <2>4. Quiet
    BY <1>0, <2>1, <2>2, <2>3, QuietStep DEF TimersTyped
  <2>5. at # None => at - Grace \in Int
    BY <2>3, Lengths
  <2> QED
    BY <2>1, <2>2, <2>4, <2>5, ClaimKeeps, NoWorker DEF Labels, Billing, Quiet
<1>5. CASE DropRead(w)
  <2>1. Quiet /\ (Goto(w, "dropDel") \/ Rest(w))
    BY <1>0, <1>5, QuietStep DEF DropRead, TimersTyped, rowVars, timers, sockets
  <2> QED
    BY <2>1, GotoKeeps, RestKeeps DEF Labels, Billing
<1>6. CASE DropDel(w)
  <2>1. Quiet /\ Goto(w, "dropEnd")
    BY <1>0, <1>6 DEF DropDel, Quiet, Moves, TimersTyped, rowVars, timers
  <2> QED
    BY <2>1, GotoKeeps DEF Labels, Billing
<1>7. CASE DropEnd(w)
  <2>1. Quiet /\ Rest(w)
    BY <1>0, <1>7, CloseMins, QuietStep DEF DropEnd, TimersTyped, timers, sockets
  <2> QED
    BY <2>1, RestKeeps
<1> QED
  BY <1>1, <1>2, <1>3, <1>4, <1>5, <1>6, <1>7

\* The environment: none of these steps is a worker's.
LEMMA WorldKeeps ==
    ASSUME IInv, SocketOpens \/ HangUp \/ CancelTimers \/ TopUp \/ Gift \/ Tick
    PROVE  IInv'
<1>0. TimersTyped
  BY DEF IInv, Typed
<1>1. UNCHANGED <<work, mins>>
  BY DEF SocketOpens, HangUp, Close, CancelTimers, TopUp, Gift, Tick, rowVars
<1>2. TimersTyped'
  BY <1>0 DEF SocketOpens, HangUp, CancelTimers, TopUp, Gift, Tick, TimersTyped, timers
<1>3. Moves
  BY DEF SocketOpens, HangUp, CancelTimers, TopUp, Gift, Tick, Moves, sockets
<1> QED
  BY <1>1, <1>2, <1>3, NoWorker

LEMMA CrashKeeps == ASSUME IInv, Crash PROVE IInv'
<1>1. UNCHANGED <<now, mins, key, bill, low, drop>> /\ alarms' \subseteq alarms
  BY DEF Crash, rowVars, sockets
<1>2. Idle \in Work /\ Idle.cur = 0 /\ Idle.pc = "idle"
  BY DEF Idle, Work, Labels
<1>3. PICK W \in SUBSET Workers : work' = [w \in Workers |-> IF w \in W THEN Idle ELSE work[w]]
  BY DEF Crash
<1>4. Moves
  BY <1>1 DEF Moves
<1>5. Typed'
  BY <1>1, <1>2, <1>3 DEF IInv, Typed, KeyTyped, TimersTyped
<1>6. NeverAhead'
  BY <1>1 DEF IInv, NeverAhead, CurrentMinute
<1>7. ASSUME NEW w \in Workers PROVE Good(w)'
  <2>1. CASE w \in W
    <3>1. work'[w] = Idle
      BY <1>3, <2>1
    <3> QED
      BY <1>2, <1>4, <3>1, ClockGoesOn DEF IInv, Good
  <2>2. CASE w \notin W
    <3>1. work'[w] = work[w]
      BY <1>3, <2>2
    <3> QED
      BY <1>4, <3>1, StaysGood DEF IInv
  <2> QED
    BY <2>1, <2>2
<1> QED
  BY <1>5, <1>6, <1>7 DEF IInv

LEMMA StepKeeps == IInv /\ [Next]_vars => IInv'
<1> SUFFICES ASSUME IInv, [Next]_vars PROVE IInv'
  OBVIOUS
<1>1. CASE UNCHANGED vars
  <2>1. UNCHANGED <<work, mins, key, now>> /\ TimersTyped'
    BY <1>1 DEF vars, IInv, Typed, TimersTyped
  <2> QED
    BY <2>1, NoWorker, QuietStep DEF Quiet
<1>2. CASE \E w \in Workers : Await(w)
  BY <1>2, BillKeeps, GuardKeeps, LedgerKeeps, LowKeeps, DropKeeps DEF Await
<1>3. CASE \E w \in Workers : \/ ClaimBill(w) \/ ClaimLowCoin(w) \/ ClaimDrop(w)
                              \/ SweepTick(w) \/ SocketCloses(w)
  BY <1>3, BillKeeps, LowKeeps, DropKeeps
<1> QED
  BY <1>1, <1>2, <1>3, WorldKeeps, CrashKeeps DEF Next

LEMMA InitHolds == Init => IInv
<1> SUFFICES ASSUME Init PROVE IInv
  OBVIOUS
<1> DEFINE r == [Idle EXCEPT !.pc = "rearm"]
           l == [Idle EXCEPT !.pc = "low", !.m = 1, !.cur = 1]
<1>1. PICK w \in Workers, v \in Workers :
        work = [u \in Workers |-> CASE u = w -> r [] u = v -> l [] OTHER -> Idle]
  BY DEF Init
<1>2. /\ r \in Work /\ l \in Work /\ Idle \in Work
      /\ r.pc = "rearm" /\ l.pc = "low" /\ Idle.pc = "idle"
      /\ r.cur = 0 /\ l.cur = 1 /\ Idle.cur = 0
  <2>1. Idle \in Work /\ Idle.pc = "idle" /\ Idle.cur = 0
    BY DEF Idle, Work, Labels
  <2>2. r \in Work /\ r.pc = "rearm" /\ r.cur = 0
    BY <2>1 DEF Work, Labels
  <2>3. l \in Work /\ l.pc = "low" /\ l.cur = 1
    BY <2>1 DEF Work, Labels
  <2> QED
    BY <2>1, <2>2, <2>3
<1> HIDE DEF r, l
<1>3. \A u \in Workers : work[u] \in {r, l, Idle}
  BY <1>1
<1>4. work \in [Workers -> Work]
  BY <1>1, <1>2
<1>5. CurrentMinute = 1
  <2>1. 0 \div Minute \in Nat /\ (0 \div Minute) * Minute <= 0
    BY MinuteOf
  <2>2. 0 \div Minute = 0
    BY <2>1, Lengths
  <2> QED
    BY <2>2 DEF Init, CurrentMinute
<1>6. Typed /\ NeverAhead
  BY <1>4, <1>5 DEF Init, Typed, KeyTyped, TimersTyped, NeverAhead
<1>7. ASSUME NEW u \in Workers PROVE Good(u)
  <2>1. work[u].pc \in {"rearm", "low", "idle"} /\ work[u].cur \in {0, 1}
    BY <1>2, <1>3
  <2> QED
    BY <1>5, <2>1 DEF Good
<1> QED
  BY <1>6, <1>7 DEF IInv

-----------------------------------------------------------------------------
(* The theorems *)

\* billDueMinutes: no minute is charged before it has begun, for any number of handlers and
\* sweep ticks that bill the call at once, whatever answers of the ledger are lost.
THEOREM MinutesNotAhead == Spec => []NeverAhead
<1>1. IInv => NeverAhead
  BY DEF IInv
<1> QED
  BY <1>1, InitHolds, StepKeeps, PTL DEF Spec

\* A step that charges is the ledger's answer to a worker.
LEMMA OnlyTheLedger ==
    ASSUME [Next]_vars, mins' # mins
    PROVE  \E w \in Workers : Ledger(w) /\ ChargedBy(w)
<1>1. CASE \E w \in Workers : Ledger(w)
  BY <1>1 DEF Ledger, Charge, ChargedBy, rowVars
<1>2. CASE \E w \in Workers : EndBroke(w) \/ LowCoinEnd(w) \/ DropEnd(w)
  BY <1>2, CloseMins DEF EndBroke, LowCoinEnd, DropEnd
<1>3. CASE HangUp
  BY <1>3 DEF HangUp, Close
<1>4. CASE ~(\E w \in Workers : Ledger(w) \/ EndBroke(w) \/ LowCoinEnd(w) \/ DropEnd(w)) /\ ~HangUp
  BY <1>4 DEF Next, Await, vars, rowVars, ClaimBill, SweepTick, ReadForBill, StartForSweep,
     Guard, CheckNext, ArmLowCoin, Rearm, ClaimLowCoin, LowCoinStatus, LowCoinBalance,
     SocketCloses, GraceKey, GraceArm, ClaimDrop, DropRead, DropDel, SocketOpens,
     CancelTimers, TopUp, Gift, Crash, Tick
<1> QED
  BY <1>1, <1>2, <1>3, <1>4

\* "Billing Guard": while Redis shows that the caller is away, no minute that began after it
\* was shown is charged, also when the caller leaves between the guard and the ledger call; but
\* by a worker whose node found its Redis client closed at the guard, which charges without a look.
THEOREM NoneInGrace == Spec => NoChargeInGrace
<1>1. IInv /\ [Next]_vars
        => (mins' # mins => ~(KeySet /\ key.set < StartOf(mins')) \/ ChargesBlindly)
  <2> SUFFICES ASSUME IInv, [Next]_vars, mins' # mins, KeySet /\ key.set < StartOf(mins')
               PROVE  ChargesBlindly
    OBVIOUS
  <2>1. PICK w \in Workers : Ledger(w) /\ ChargedBy(w)
    BY OnlyTheLedger
  <2>2. work[w].pc # "ledger"
    BY <2>1 DEF IInv, Good, ChargedBy, AwayBefore
  <2>3. \E label \in {"low", "rearm", "broke"} : Goto(w, label)
    BY <2>1 DEF Ledger
  <2>4. work'[w].pc # "blind"
    BY <2>3, WorkOf DEF Goto, IInv, Typed, Work
  <2> QED
    BY <2>1, <2>2, <2>4 DEF ChargedBy, ChargesBlindly
<1> QED
  BY <1>1, InitHolds, StepKeeps, PTL DEF Spec, NoChargeInGrace


-----------------------------------------------------------------------------
(* The meter: what the timers say, and a worker that is about to end the call *)

LowPlaces   == {"lowRead", "lowBalance", "lowEnd"}
DropPlaces  == {"dropRead", "dropDel", "dropEnd"}
GracePlaces == {"graceKey", "graceArm"}
Marked      == {"low", "armLow"} \cup LowPlaces \cup DropPlaces \cup GracePlaces

\* What timers and workers are right about, and what it may grow to.
Shows == [now : Nat, mins : Nat, drops : SUBSET Nat]
Shown == [now |-> now, mins |-> mins, drops |-> drops]
Grows(s, t) == s.now <= t.now /\ s.mins <= t.mins /\ s.drops \subseteq t.drops

\* A deadline of vc_bill is near, one of vc_lowcoin the end of a paid minute, and one of
\* vc_disconnect the end of the grace of a drop.
Right(kind, at, s) ==
    /\ kind = "bill" => at \in 0..(s.now + Minute + Gap)
    /\ kind = "low"  => \E m \in 1..s.mins : at = m * Minute
    /\ kind = "drop" => \E t \in s.drops : at = t + Grace

SomeGraceIsOver(s) == \E t \in s.drops : t + Grace <= s.now

Held(r, s) ==
    /\ r.pc \in {"low", "armLow"} => r.m \in 1..s.mins
    /\ r.pc \in LowPlaces => Right("low", r.at, s)
    /\ r.pc \in DropPlaces => r.at \in s.drops /\ SomeGraceIsOver(s)
    /\ r.pc \in GracePlaces => r.at \in s.drops

TimersRight ==
    /\ bill # None => Right("bill", bill, Shown)
    /\ low # None => Right("low", low, Shown)
    /\ drop # None => Right("drop", drop, Shown)
    /\ \A a \in alarms : Right(a.kind, a.at, Shown)

WorkHeld == \A w \in Workers : Held(work[w], Shown)

MeterInv == drops \subseteq 0..now /\ TimersRight /\ WorkHeld

Growing == Shown \in Shows /\ Shown' \in Shows /\ Grows(Shown, Shown')

LEMMA Numbers == /\ Minute \in Nat \ {0} /\ Gap \in Nat /\ Grace \in Nat
BY CallBillingAssumption

LEMMA RightStays ==
    ASSUME NEW s \in Shows, NEW t \in Shows, Grows(s, t), NEW kind, NEW at, Right(kind, at, s)
    PROVE  Right(kind, at, t)
<1>1. /\ s.now \in Nat /\ t.now \in Nat /\ s.now <= t.now
      /\ s.mins \in Nat /\ t.mins \in Nat /\ s.mins <= t.mins
      /\ s.drops \subseteq t.drops
  BY DEF Shows, Grows
<1>2. kind = "bill" => at \in 0..(t.now + Minute + Gap)
  BY <1>1, Numbers DEF Right
<1>3. 1..s.mins \subseteq 1..t.mins
  BY <1>1
<1> QED
  BY <1>1, <1>2, <1>3 DEF Right

LEMMA GraceStays ==
    ASSUME NEW s \in Shows, NEW t \in Shows, Grows(s, t), SomeGraceIsOver(s)
    PROVE  SomeGraceIsOver(t)
<1>1. PICK d \in s.drops : d + Grace <= s.now
  BY DEF SomeGraceIsOver
<1>2. s.now \in Nat /\ t.now \in Nat /\ s.now <= t.now /\ d \in Nat /\ d \in t.drops
  BY DEF Shows, Grows
<1>3. d + Grace <= t.now
  BY <1>1, <1>2, Numbers
<1> QED
  BY <1>2, <1>3 DEF SomeGraceIsOver

LEMMA HeldStays ==
    ASSUME NEW s \in Shows, NEW t \in Shows, Grows(s, t), NEW r, Held(r, s)
    PROVE  Held(r, t)
<1>1. /\ s.now \in Nat /\ t.now \in Nat /\ s.now <= t.now
      /\ s.mins \in Nat /\ t.mins \in Nat /\ s.mins <= t.mins
      /\ s.drops \subseteq t.drops /\ s.drops \subseteq Nat
  BY DEF Shows, Grows
<1>2. 1..s.mins \subseteq 1..t.mins
  BY <1>1
<1>3. SomeGraceIsOver(s) => SomeGraceIsOver(t)
  BY GraceStays
<1>4. Right("low", r.at, s) => Right("low", r.at, t)
  BY RightStays
<1> QED
  BY <1>1, <1>2, <1>3, <1>4 DEF Held

LEMMA StepGrows ==
    ASSUME IInv, MeterInv, [Next]_vars
    PROVE  Growing /\ drops' \subseteq 0..now'
<1>1. now \in Nat /\ mins \in Nat /\ IInv'
  BY StepKeeps DEF IInv, Typed
<1>2. now' \in Nat /\ mins' \in Nat
  BY <1>1 DEF IInv, Typed
<1>3. now' \in {now, now + 1}
  BY DEF Next, Await, vars, ClaimBill, SweepTick, ReadForBill, StartForSweep, Guard, Ledger,
     EndBroke, CheckNext, ArmLowCoin, Rearm, ClaimLowCoin, LowCoinStatus, LowCoinBalance,
     LowCoinEnd, SocketCloses, GraceKey, GraceArm, ClaimDrop, DropRead, DropDel, DropEnd,
     SocketOpens, HangUp, CancelTimers, TopUp, Gift, Crash, Tick
<1>4. mins' \in {mins, mins + 1}
  <2>1. CASE mins' # mins
    <3>1. PICK w \in Workers : Ledger(w) /\ ChargedBy(w)
      BY <2>1, OnlyTheLedger
    <3> QED
      BY <2>1, <3>1 DEF Ledger, Payable, Charge, rowVars
  <2> QED
    BY <2>1
<1>5. drops' = drops \/ (drops' = drops \cup {now} /\ now' = now)
  BY DEF Next, Await, vars, sockets, ClaimBill, SweepTick, ReadForBill, StartForSweep, Guard,
     Ledger, EndBroke, CheckNext, ArmLowCoin, Rearm, ClaimLowCoin, LowCoinStatus,
     LowCoinBalance, LowCoinEnd, SocketCloses, GraceKey, GraceArm, ClaimDrop, DropRead,
     DropDel, DropEnd, SocketOpens, HangUp, CancelTimers, TopUp, Gift, Crash, Tick
<1>6. drops' \subseteq 0..now' /\ drops \subseteq 0..now
  <2>1. drops \subseteq 0..now
    BY DEF MeterInv
  <2>2. 0..now \subseteq 0..now' /\ now \in 0..now
    BY <1>1, <1>3
  <2> QED
    BY <1>5, <2>1, <2>2
<1>7. Shown \in Shows /\ Shown' \in Shows
  BY <1>1, <1>2, <1>6 DEF Shown, Shows
<1>8. Grows(Shown, Shown')
  BY <1>1, <1>3, <1>4, <1>5 DEF Shown, Grows
<1> QED
  BY <1>6, <1>7, <1>8 DEF Growing

\* A step of worker w, which then stands with the record r.
LEMMA OneHeld ==
    ASSUME IInv, MeterInv, Growing, NEW w \in Workers, NEW r,
           work' = [work EXCEPT ![w] = r], Held(r, Shown')
    PROVE  WorkHeld'
<1> SUFFICES ASSUME NEW v \in Workers PROVE Held(work'[v], Shown')
  BY DEF WorkHeld
<1>1. CASE v = w
  BY <1>1 DEF IInv, Typed
<1>2. CASE v # w
  <2>1. work'[v] = work[v] /\ Held(work[v], Shown)
    BY <1>2 DEF IInv, Typed, MeterInv, WorkHeld
  <2> QED
    BY <2>1, HeldStays DEF Growing
<1> QED
  BY <1>1, <1>2

\* A step of no worker, or of those that rest after it.
LEMMA NobodyHeld ==
    ASSUME MeterInv, Growing, \A w \in Workers : work'[w] \in {work[w], Idle}
    PROVE  WorkHeld'
<1> SUFFICES ASSUME NEW v \in Workers PROVE Held(work'[v], Shown')
  BY DEF WorkHeld
<1>1. CASE work'[v] = work[v]
  BY <1>1, HeldStays DEF MeterInv, WorkHeld, Growing
<1>2. CASE work'[v] = Idle
  BY <1>2 DEF Idle, Held, LowPlaces, DropPlaces, GracePlaces
<1> QED
  BY <1>1, <1>2

\* To a place where it holds nothing.
LEMMA PlainHeld ==
    ASSUME IInv, MeterInv, Growing, NEW w \in Workers, NEW r,
           work' = [work EXCEPT ![w] = r], r.pc \notin Marked
    PROVE  WorkHeld'
<1>1. Held(r, Shown')
  BY DEF Held, Marked
<1> QED
  BY <1>1, OneHeld

LEMMA GotoHeld ==
    ASSUME IInv, MeterInv, Growing, NEW w \in Workers, NEW label, Goto(w, label),
           /\ label \in {"low", "armLow"} => work[w].m \in 1..Shown'.mins
           /\ label \in LowPlaces => work[w].pc \in LowPlaces
           /\ label \in DropPlaces => work[w].pc \in DropPlaces
           /\ label \in GracePlaces => work[w].pc \in GracePlaces
    PROVE  WorkHeld'
<1> DEFINE r == [work[w] EXCEPT !.pc = label]
<1>1. r.pc = label /\ r.m = work[w].m /\ r.at = work[w].at
  BY WorkOf DEF IInv, Work
<1>2. work' = [work EXCEPT ![w] = r]
  BY DEF Goto
<1> HIDE DEF r
<1>3. Held(work[w], Shown')
  BY HeldStays DEF MeterInv, WorkHeld, Growing
<1>4. Held(r, Shown')
  BY <1>1, <1>3 DEF Held
<1> QED
  BY <1>2, <1>4, OneHeld

LEMMA RestHeld ==
    ASSUME IInv, MeterInv, Growing, NEW w \in Workers,
           Rest(w) \/ NextMinute(w) \/ \E m : Begin(w, m)
    PROVE  WorkHeld'
<1>1. CASE Rest(w)
  <2>1. Idle.pc \notin Marked
    BY DEF Idle, Marked, LowPlaces, DropPlaces, GracePlaces
  <2> QED
    BY <1>1, <2>1, PlainHeld DEF Rest
<1>2. CASE NextMinute(w)
  <2> DEFINE r == [work[w] EXCEPT !.m = @ + 1,
                                  !.pc = IF work[w].m < work[w].cur THEN "guard" ELSE "rearm"]
  <2>1. r.pc \in {"guard", "rearm"}
    BY WorkOf DEF IInv, Work
  <2>2. work' = [work EXCEPT ![w] = r]
    BY <1>2 DEF NextMinute
  <2> HIDE DEF r
  <2> QED
    BY <2>1, <2>2, PlainHeld DEF Marked, LowPlaces, DropPlaces, GracePlaces
<1>3. ASSUME NEW m, Begin(w, m) PROVE WorkHeld'
  <2> DEFINE r == [work[w] EXCEPT !.m = m, !.cur = CurrentMinute,
                                  !.pc = IF m <= CurrentMinute THEN "guard" ELSE "rearm"]
  <2>1. r.pc \in {"guard", "rearm"}
    BY WorkOf DEF IInv, Work
  <2>2. work' = [work EXCEPT ![w] = r]
    BY <1>3 DEF Begin
  <2> HIDE DEF r
  <2> QED
    BY <2>1, <2>2, PlainHeld DEF Marked, LowPlaces, DropPlaces, GracePlaces
<1> QED
  BY <1>1, <1>2, <1>3

LEMMA ClaimHeld ==
    ASSUME IInv, MeterInv, Growing, NEW w \in Workers, NEW label, NEW at,
           Claim(w, label, at), label \notin {"low", "armLow"},
           label \in LowPlaces => Right("low", at, Shown'),
           label \in DropPlaces => at \in Shown'.drops /\ SomeGraceIsOver(Shown'),
           label \in GracePlaces => at \in Shown'.drops
    PROVE  WorkHeld'
<1> DEFINE r == [Idle EXCEPT !.pc = label, !.at = at]
<1>1. r.pc = label /\ r.at = at
  BY DEF Idle
<1>2. work' = [work EXCEPT ![w] = r]
  BY DEF Claim
<1> HIDE DEF r
<1>3. Held(r, Shown')
  BY <1>1 DEF Held
<1> QED
  BY <1>2, <1>3, OneHeld

-----------------------------------------------------------------------------
(* What is scheduled and what fires *)

LEMMA TimersStay ==
    ASSUME TimersRight, Growing, alarms' \subseteq alarms,
           bill' \in {bill, None}, low' \in {low, None}, drop' \in {drop, None}
    PROVE  TimersRight'
<1>1. bill' # None => Right("bill", bill', Shown')
  BY RightStays DEF TimersRight, Growing
<1>2. low' # None => Right("low", low', Shown')
  BY RightStays DEF TimersRight, Growing
<1>3. drop' # None => Right("drop", drop', Shown')
  BY RightStays DEF TimersRight, Growing
<1>4. \A a \in alarms' : Right(a.kind, a.at, Shown')
  BY RightStays DEF TimersRight, Growing
<1> QED
  BY <1>1, <1>2, <1>3, <1>4 DEF TimersRight

LEMMA ScheduleRight ==
    ASSUME TimersRight, Growing, NEW kind, NEW entry, NEW at, NEW next,
           Schedule(kind, entry, at, next),
           entry # None => Right(kind, entry, Shown), Right(kind, at, Shown)
    PROVE  /\ \A a \in alarms' : Right(a.kind, a.at, Shown')
           /\ next # None => Right(kind, next, Shown')
<1>1. PICK mine \in {{}} \cup {{a} : a \in {b \in alarms : b.kind = kind}}, stored \in BOOLEAN :
         /\ alarms' = (alarms \ mine) \cup
                       IF stored /\ kind = "bill" THEN {}
                       ELSE {[kind |-> kind, at |-> at, stored |-> stored]}
         /\ next \in {entry, at}
  BY DEF Schedule
<1>2. Right(kind, at, Shown') /\ (entry # None => Right(kind, entry, Shown'))
  BY RightStays DEF Growing
<1>3. ASSUME NEW a \in alarms' PROVE Right(a.kind, a.at, Shown')
  <2>1. CASE a \in alarms
    BY <2>1, RightStays DEF TimersRight, Growing
  <2>2. CASE a = [kind |-> kind, at |-> at, stored |-> stored]
    BY <1>2, <2>2
  <2> QED
    BY <1>1, <2>1, <2>2
<1> QED
  BY <1>1, <1>2, <1>3

LEMMA FireRight ==
    ASSUME IInv, TimersRight, Growing, NEW kind, NEW entry, NEW next, NEW at,
           Fire(kind, entry, next, at), entry # None => Right(kind, entry, Shown), at # None
    PROVE  /\ Right(kind, at, Shown')
           /\ kind = "drop" => SomeGraceIsOver(Shown')
<1>1. PICK due : Right(kind, due, Shown) /\ due <= now /\ (at = entry \/ at = due)
  <2>1. CASE entry # None /\ entry <= now /\ at = entry
    BY <2>1
  <2>2. ASSUME NEW a \in alarms, a.kind = kind, a.at <= now, at = entry \/ at = a.at
        PROVE  \E due : Right(kind, due, Shown) /\ due <= now /\ (at = entry \/ at = due)
    <3>1. Right(kind, a.at, Shown)
      BY <2>2 DEF TimersRight
    <3> QED
      BY <2>2, <3>1
  <2> QED
    BY <2>1, <2>2 DEF Fire
<1>2. Right(kind, at, Shown)
  BY <1>1
<1>3. kind = "drop" => SomeGraceIsOver(Shown)
  BY <1>1 DEF Right, SomeGraceIsOver, Shown
<1> QED
  BY <1>2, <1>3, RightStays, GraceStays DEF Growing

-----------------------------------------------------------------------------
(* Every step keeps it *)

\* vc_bill is scheduled for the end of the last paid minute, or a gap from now.
LEMMA BillNear ==
    ASSUME IInv
    PROVE  Right("bill", Later(BoundaryOf(mins), now + Gap), Shown)
<1>1. now \in Nat /\ mins \in Nat /\ mins <= CurrentMinute
  BY DEF IInv, Typed, NeverAhead
<1>2. StartOf(mins) \in Int /\ StartOf(mins) <= now
  BY <1>1, HasBegun
<1>3. mins * Minute = StartOf(mins) + Minute /\ mins * Minute \in Nat
  BY <1>1, Numbers DEF StartOf
<1>4. Later(BoundaryOf(mins), now + Gap) \in 0..(now + Minute + Gap)
  BY <1>1, <1>2, <1>3, Numbers DEF Later, BoundaryOf
<1> QED
  BY <1>4 DEF Right, Shown

LEMMA TimersKept ==
    ASSUME IInv, MeterInv, Growing, [Next]_vars
    PROVE  TimersRight'
<1>0. TimersRight /\ WorkHeld
  BY DEF MeterInv
<1>1. ASSUME NEW w \in Workers, Rearm(w) PROVE TimersRight'
  <2> DEFINE at == Later(BoundaryOf(mins), now + Gap)
  <2>1. low' = low /\ drop' = drop
    BY <1>1 DEF Rearm
  <2>2. CASE UNCHANGED <<bill, alarms>>
    BY <1>0, <2>1, <2>2, TimersStay
  <2>3. ASSUME NEW next, Schedule("bill", bill, at, next), bill' = next
        PROVE  TimersRight'
    <3>1. /\ \A a \in alarms' : Right(a.kind, a.at, Shown')
          /\ next # None => Right("bill", next, Shown')
      BY <1>0, <2>3, BillNear, ScheduleRight DEF TimersRight
    <3> QED
      BY <1>0, <2>1, <2>3, <3>1, RightStays DEF TimersRight, Growing
  <2> QED
    BY <1>1, <2>2, <2>3 DEF Rearm
<1>2. ASSUME NEW w \in Workers, ArmLowCoin(w) PROVE TimersRight'
  <2> DEFINE at == BoundaryOf(work[w].m)
  <2>1. bill' = bill /\ drop' = drop
    BY <1>2 DEF ArmLowCoin
  <2>2. PICK next : Schedule("low", low, at, next) /\ low' = next
    BY <1>2 DEF ArmLowCoin
  <2>3. Right("low", at, Shown)
    BY <1>0, <1>2 DEF ArmLowCoin, WorkHeld, Held, Right, BoundaryOf
  <2>4. /\ \A a \in alarms' : Right(a.kind, a.at, Shown')
        /\ next # None => Right("low", next, Shown')
    BY <1>0, <2>2, <2>3, ScheduleRight DEF TimersRight
  <2> QED
    BY <1>0, <2>1, <2>2, <2>4, RightStays DEF TimersRight, Growing
<1>3. ASSUME NEW w \in Workers, GraceArm(w) PROVE TimersRight'
  <2> DEFINE at == work[w].at + Grace
  <2>1. bill' = bill /\ low' = low
    BY <1>3 DEF GraceArm
  <2>2. PICK next : Schedule("drop", drop, at, next) /\ drop' = next
    BY <1>3 DEF GraceArm
  <2>3. Right("drop", at, Shown)
    BY <1>0, <1>3 DEF GraceArm, WorkHeld, Held, GracePlaces, Right
  <2>4. /\ \A a \in alarms' : Right(a.kind, a.at, Shown')
        /\ next # None => Right("drop", next, Shown')
    BY <1>0, <2>2, <2>3, ScheduleRight DEF TimersRight
  <2> QED
    BY <1>0, <2>1, <2>2, <2>4, RightStays DEF TimersRight, Growing
<1>4. CASE \E w \in Workers : ClaimLowCoin(w) \/ ClaimDrop(w)
  <2>1. TimersTyped /\ {low, drop} \subseteq Int \cup {None}
    BY DEF IInv, Typed, TimersTyped
  <2>2. /\ alarms' \subseteq alarms /\ bill' = bill
        /\ low' \in {low, None} /\ drop' \in {drop, None}
    BY <1>4, <2>1, FireTypes DEF ClaimLowCoin, ClaimDrop
  <2> QED
    BY <1>0, <2>2, TimersStay
<1>5. CASE ~\E w \in Workers : \/ Rearm(w) \/ ArmLowCoin(w) \/ GraceArm(w)
                               \/ ClaimLowCoin(w) \/ ClaimDrop(w)
  <2>1. /\ alarms' \subseteq alarms
        /\ bill' \in {bill, None} /\ low' \in {low, None} /\ drop' \in {drop, None}
    BY <1>5 DEF Next, Await, vars, timers, ClaimBill, SweepTick, ReadForBill, StartForSweep,
       Guard, Ledger, EndBroke, CheckNext, LowCoinStatus, LowCoinBalance, LowCoinEnd,
       SocketCloses, GraceKey, DropRead, DropDel, DropEnd, SocketOpens, HangUp, CancelTimers,
       TopUp, Gift, Crash, Tick
  <2> QED
    BY <1>0, <2>1, TimersStay
<1> QED
  BY <1>1, <1>2, <1>3, <1>4, <1>5

LEMMA BillHeld ==
    ASSUME IInv, MeterInv, Growing, NEW w \in Workers,
           \/ ClaimBill(w) \/ SweepTick(w) \/ ReadForBill(w) \/ StartForSweep(w)
           \/ Guard(w) \/ Ledger(w) \/ EndBroke(w) \/ CheckNext(w) \/ ArmLowCoin(w) \/ Rearm(w)
    PROVE  WorkHeld'
<1> USE DEF LowPlaces, DropPlaces, GracePlaces
<1>1. CASE ClaimBill(w)
  <2>1. Claim(w, "read", 0) \/ UNCHANGED work
    BY <1>1 DEF ClaimBill
  <2> QED
    BY <2>1, ClaimHeld, NobodyHeld
<1>2. CASE SweepTick(w)
  <2> DEFINE r == [Idle EXCEPT !.pc = "start", !.sweep = TRUE, !.m = mins + 1]
  <2>1. r.pc = "start" /\ work' = [work EXCEPT ![w] = r]
    BY <1>2 DEF SweepTick, Idle
  <2> HIDE DEF r
  <2> QED
    BY <2>1, PlainHeld DEF Marked
<1>3. CASE ReadForBill(w) \/ StartForSweep(w) \/ Rearm(w) \/ ArmLowCoin(w)
  <2>1. Rest(w) \/ NextMinute(w) \/ \E m : Begin(w, m)
    BY <1>3 DEF ReadForBill, StartForSweep, Rearm, ArmLowCoin
  <2> QED
    BY <2>1, RestHeld
<1>4. CASE Guard(w) \/ EndBroke(w)
  <2>1. Goto(w, "rearm") \/ Goto(w, "ledger") \/ Goto(w, "blind") \/ Rest(w)
    BY <1>4 DEF Guard, EndBroke
  <2> QED
    BY <2>1, GotoHeld, RestHeld
<1>5. CASE Ledger(w)
  <2>1. \/ Goto(w, "rearm") \/ Goto(w, "broke")
        \/ Goto(w, "low") /\ work[w].m = mins + 1 /\ mins' = work[w].m
    BY <1>5 DEF Ledger, Payable, Charge
  <2>2. mins \in Nat /\ Shown'.mins = mins'
    BY DEF IInv, Typed, Shown
  <2>3. work[w].m = mins + 1 /\ mins' = work[w].m => work[w].m \in 1..Shown'.mins
    BY <2>2
  <2> QED
    BY <2>1, <2>3, GotoHeld
<1>6. CASE CheckNext(w)
  <2>1. work[w].pc = "low" /\ (Goto(w, "armLow") \/ NextMinute(w))
    BY <1>6 DEF CheckNext
  <2>2. Held(work[w], Shown')
    BY HeldStays DEF MeterInv, WorkHeld, Growing
  <2>3. work[w].m \in 1..Shown'.mins
    BY <2>1, <2>2 DEF Held
  <2> QED
    BY <2>1, <2>3, GotoHeld, RestHeld
<1> QED
  BY <1>1, <1>2, <1>3, <1>4, <1>5, <1>6

LEMMA LowHeld ==
    ASSUME IInv, MeterInv, Growing, NEW w \in Workers,
           ClaimLowCoin(w) \/ LowCoinStatus(w) \/ LowCoinBalance(w) \/ LowCoinEnd(w)
    PROVE  WorkHeld'
<1> USE DEF LowPlaces, DropPlaces, GracePlaces
<1>1. CASE ClaimLowCoin(w)
  <2>1. PICK next, at : /\ Fire("low", low, next, at)
                        /\ IF at = None THEN UNCHANGED work ELSE Claim(w, "lowRead", at)
    BY <1>1 DEF ClaimLowCoin
  <2>2. at # None => Right("low", at, Shown')
    BY <2>1, FireRight DEF MeterInv, TimersRight
  <2> QED
    BY <2>1, <2>2, ClaimHeld, NobodyHeld
<1>2. CASE LowCoinStatus(w) \/ LowCoinBalance(w)
  <2>1. /\ work[w].pc \in LowPlaces
        /\ Goto(w, "lowBalance") \/ Goto(w, "lowEnd") \/ Rest(w)
    BY <1>2 DEF LowCoinStatus, LowCoinBalance
  <2> QED
    BY <2>1, GotoHeld, RestHeld
<1>3. CASE LowCoinEnd(w)
  BY <1>3, RestHeld DEF LowCoinEnd
<1> QED
  BY <1>1, <1>2, <1>3

LEMMA DropHeld ==
    ASSUME IInv, MeterInv, Growing, NEW w \in Workers,
           \/ SocketCloses(w) \/ GraceKey(w) \/ GraceArm(w)
           \/ ClaimDrop(w) \/ DropRead(w) \/ DropDel(w) \/ DropEnd(w)
    PROVE  WorkHeld'
<1> USE DEF LowPlaces, DropPlaces, GracePlaces
<1>1. CASE SocketCloses(w)
  <2>1. (Claim(w, "graceKey", now) /\ now \in Shown'.drops) \/ Rest(w)
    BY <1>1 DEF SocketCloses, Shown
  <2> QED
    BY <2>1, ClaimHeld, RestHeld
<1>2. CASE GraceKey(w)
  BY <1>2, GotoHeld DEF GraceKey
<1>3. CASE GraceArm(w) \/ DropEnd(w)
  BY <1>3, RestHeld DEF GraceArm, DropEnd
<1>4. CASE ClaimDrop(w)
  <2>1. PICK next, at : /\ Fire("drop", drop, next, at)
                        /\ IF at = None THEN UNCHANGED work ELSE Claim(w, "dropRead", at - Grace)
    BY <1>4 DEF ClaimDrop
  <2>2. at # None => Right("drop", at, Shown') /\ SomeGraceIsOver(Shown')
    BY <2>1, FireRight DEF MeterInv, TimersRight
  <2>3. at # None => at - Grace \in Shown'.drops
    <3> SUFFICES ASSUME at # None PROVE at - Grace \in Shown'.drops
      OBVIOUS
    <3>1. PICK t \in Shown'.drops : at = t + Grace
      BY <2>2 DEF Right
    <3>2. t \in Nat
      BY DEF Growing, Shows
    <3>3. at - Grace = t
      BY <3>1, <3>2, Numbers
    <3> QED
      BY <3>3
  <2> QED
    BY <2>1, <2>2, <2>3, ClaimHeld, NobodyHeld
<1>5. CASE DropRead(w) \/ DropDel(w)
  <2>1. /\ work[w].pc \in DropPlaces
        /\ Goto(w, "dropDel") \/ Goto(w, "dropEnd") \/ Rest(w)
    BY <1>5 DEF DropRead, DropDel
  <2> QED
    BY <2>1, GotoHeld, RestHeld
<1> QED
  BY <1>1, <1>2, <1>3, <1>4, <1>5

LEMMA MeterKept == IInv /\ MeterInv /\ [Next]_vars => MeterInv'
<1> SUFFICES ASSUME IInv, MeterInv, [Next]_vars PROVE MeterInv'
  OBVIOUS
<1>1. Growing /\ drops' \subseteq 0..now' /\ TimersRight'
  BY StepGrows, TimersKept
<1>2. CASE \/ \E w \in Workers : \/ Await(w) \/ ClaimBill(w) \/ ClaimLowCoin(w) \/ ClaimDrop(w)
                                 \/ SweepTick(w) \/ SocketCloses(w)
  <2>1. WorkHeld'
    BY <1>1, <1>2, BillHeld, LowHeld, DropHeld DEF Await
  <2> QED
    BY <1>1, <2>1 DEF MeterInv
<1>3. CASE \/ SocketOpens \/ HangUp \/ CancelTimers \/ TopUp \/ Gift \/ Crash \/ Tick
           \/ UNCHANGED vars
  <2>1. \A w \in Workers : work'[w] \in {work[w], Idle}
    BY <1>3 DEF SocketOpens, HangUp, CancelTimers, TopUp, Gift, Crash, Tick, vars
  <2>2. WorkHeld'
    BY <1>1, <2>1, NobodyHeld
  <2> QED
    BY <1>1, <2>2 DEF MeterInv
<1> QED
  BY <1>2, <1>3 DEF Next

LEMMA MeterAtFirst == Init => MeterInv
<1> SUFFICES ASSUME Init PROVE MeterInv
  OBVIOUS
<1> DEFINE r == [Idle EXCEPT !.pc = "rearm"]
           l == [Idle EXCEPT !.pc = "low", !.m = 1, !.cur = 1]
<1>1. PICK w \in Workers, v \in Workers :
        work = [u \in Workers |-> CASE u = w -> r [] u = v -> l [] OTHER -> Idle]
  BY DEF Init
<1>2. r.pc = "rearm" /\ l.pc = "low" /\ l.m = 1 /\ Idle.pc = "idle"
  BY DEF Idle
<1> HIDE DEF r, l
<1>3. \A u \in Workers : work[u] \in {r, l, Idle}
  BY <1>1
<1>4. ASSUME NEW u \in Workers PROVE Held(work[u], Shown)
  <2>1. work[u].pc \in {"rearm", "low", "idle"} /\ (work[u].pc = "low" => work[u].m = 1)
    BY <1>2, <1>3
  <2>2. 1 \in 1..Shown.mins
    BY DEF Init, Shown
  <2> QED
    BY <2>1, <2>2 DEF Held, LowPlaces, DropPlaces, GracePlaces
<1> QED
  BY <1>4 DEF Init, MeterInv, TimersRight, WorkHeld

-----------------------------------------------------------------------------
(* Every step is a step of the meter *)

Outside == <<now, status, endedAt, reason, mins, coins, drops>>

\* Most steps leave all the meter shows.
LEMMA MeterStutters == ASSUME UNCHANGED Outside PROVE UNCHANGED Meter!meterVars
BY DEF Outside, Meter!meterVars

\* An end of the call that wins.
LEMMA EndMeters ==
    ASSUME NEW t, NEW cause, EndCall(t, cause), UNCHANGED <<now, coins, drops>>,
           \/ cause \in {"hang_up", "balance"} /\ t = now
           \/ cause = "low_coin" /\ \E m \in 1..mins : t = m * Minute
           \/ cause = "disconnected" /\ t \in drops /\ \E d \in drops : d + Grace <= now
    PROVE  Meter!End \/ UNCHANGED Meter!meterVars
<1>1. CASE status # "ACTIVE"
  BY <1>1, MeterStutters DEF EndCall, rowVars, Outside
<1>2. CASE status = "ACTIVE"
  <2>1. status' = "ENDED" /\ endedAt' = t /\ reason' = cause /\ mins' = mins
    BY <1>2 DEF EndCall, Close
  <2> QED
    BY <1>2, <2>1 DEF Meter!End
<1> QED
  BY <1>1, <1>2

LEMMA ChargeMeters ==
    ASSUME IInv, NEW w \in Workers, Ledger(w)
    PROVE  Meter!Charge \/ UNCHANGED Meter!meterVars
<1>1. UNCHANGED <<now, drops>> /\ work[w].pc \in {"ledger", "blind"}
  BY DEF Ledger, sockets
<1>2. CASE UNCHANGED <<rowVars, coins>>
  BY <1>1, <1>2, MeterStutters DEF rowVars, Outside
<1>3. CASE Payable(work[w].m) /\ Charge(work[w].m)
  <2>1. work[w].m = mins + 1 /\ mins \in Nat
    BY <1>3 DEF Payable, IInv, Typed
  <2>2. work[w].m <= CurrentMinute
    <3>1. CurrentMinute \in Nat
      BY MinuteOf DEF CurrentMinute, IInv, Typed
    <3>2. work[w].m <= work[w].cur /\ work[w].cur <= CurrentMinute
      BY <1>1 DEF IInv, Good
    <3> QED
      BY <3>1, <3>2, WorkOf DEF IInv
  <2>3. StartOf(mins + 1) <= now
    BY <2>1, <2>2, HasBegun DEF IInv, Typed
  <2>4. StartOf(mins + 1) = mins * Minute
    BY <2>1, Lengths DEF StartOf
  <2> QED
    BY <1>1, <1>3, <2>1, <2>3, <2>4 DEF Payable, Charge, Meter!Charge
<1> QED
  BY <1>2, <1>3 DEF Ledger

LEMMA MeterStep ==
    IInv /\ MeterInv /\ [Next]_vars => [Meter!Next]_Meter!meterVars
<1> SUFFICES ASSUME IInv, MeterInv, [Next]_vars
             PROVE  Meter!Next \/ UNCHANGED Meter!meterVars
  OBVIOUS
<1>1. CASE \E w \in Workers : Ledger(w)
  BY <1>1, ChargeMeters DEF Meter!Next
<1>2. ASSUME NEW w \in Workers, EndBroke(w) PROVE Meter!End \/ UNCHANGED Meter!meterVars
  <2>1. EndCall(now, "balance") /\ UNCHANGED <<now, coins, drops>>
    BY <1>2 DEF EndBroke, sockets
  <2> QED
    BY <2>1, EndMeters
<1>3. ASSUME NEW w \in Workers, LowCoinEnd(w) PROVE Meter!End \/ UNCHANGED Meter!meterVars
  <2>1. EndCall(work[w].at, "low_coin") /\ UNCHANGED <<now, coins, drops>>
    BY <1>3 DEF LowCoinEnd, sockets
  <2>2. \E m \in 1..mins : work[w].at = m * Minute
    BY <1>3 DEF LowCoinEnd, MeterInv, WorkHeld, Held, LowPlaces, Right, Shown
  <2> QED
    BY <2>1, <2>2, EndMeters
<1>4. ASSUME NEW w \in Workers, DropEnd(w) PROVE Meter!End \/ UNCHANGED Meter!meterVars
  <2>1. EndCall(work[w].at, "disconnected") /\ UNCHANGED <<now, coins, drops>>
    BY <1>4 DEF DropEnd, sockets
  <2>2. work[w].at \in drops /\ \E d \in drops : d + Grace <= now
    BY <1>4 DEF DropEnd, MeterInv, WorkHeld, Held, DropPlaces, SomeGraceIsOver, Shown
  <2> QED
    BY <2>1, <2>2, EndMeters
<1>5. CASE HangUp
  <2>1. EndCall(now, "hang_up") /\ UNCHANGED <<now, coins, drops>>
    BY <1>5 DEF HangUp, EndCall, sockets
  <2> QED
    BY <2>1, EndMeters DEF Meter!Next
<1>6. CASE TopUp \/ Gift
  BY <1>6 DEF TopUp, Gift, rowVars, sockets, Meter!Next, Meter!Recharge, Meter!Spend
<1>7. CASE Tick
  BY <1>7 DEF Tick, rowVars, sockets, Meter!Next, Meter!Pass
<1>8. ASSUME NEW w \in Workers, SocketCloses(w)
      PROVE  Meter!Next \/ UNCHANGED Meter!meterVars
  <2>1. UNCHANGED <<now, rowVars, coins>>
    BY <1>8 DEF SocketCloses
  <2>2. (status = "ACTIVE" /\ drops' = drops \cup {now}) \/ drops' = drops
    BY <1>8 DEF SocketCloses
  <2> QED
    BY <2>1, <2>2, MeterStutters DEF rowVars, Outside, Meter!Next, Meter!Drop
<1>9. CASE /\ ~(\E w \in Workers : \/ Ledger(w) \/ EndBroke(w) \/ LowCoinEnd(w) \/ DropEnd(w)
                                   \/ SocketCloses(w))
           /\ ~(HangUp \/ TopUp \/ Gift \/ Tick)
  <2>1. UNCHANGED Outside
    BY <1>9 DEF Next, Await, vars, rowVars, sockets, Outside, ClaimBill, SweepTick,
       ReadForBill, StartForSweep, Guard, CheckNext, ArmLowCoin, Rearm, ClaimLowCoin,
       LowCoinStatus, LowCoinBalance, GraceKey, GraceArm, ClaimDrop, DropRead, DropDel,
       SocketOpens, CancelTimers, Crash
  <2> QED
    BY <2>1, MeterStutters
<1> QED
  BY <1>1, <1>2, <1>3, <1>4, <1>5, <1>6, <1>7, <1>8, <1>9 DEF Meter!Next

\* The timers, sweeps and ends of a call are one meter, whatever local timer of an earlier
\* schedule takes an entry and whichever node cannot reach Redis: minutes are paid one at a time,
\* after they began and with a coin each, none after the end, and the end is recorded once: now,
\* at the end of a paid minute, or at a drop of the caller once one of its drops is
\* DISCONNECT_GRACE_MS old.
THEOREM MeterImplemented == Spec => ImplementsMeter
<1>1. Init => IInv /\ MeterInv /\ Meter!Init
  <2>1. Init => Meter!Init
    BY CallBillingAssumption DEF Init, Meter!Init
  <2> QED
    BY <2>1, InitHolds, MeterAtFirst
<1>2. (IInv /\ MeterInv) /\ [Next]_vars
          => (IInv /\ MeterInv)' /\ [Meter!Next]_Meter!meterVars
  BY StepKeeps, MeterKept, MeterStep
<1> QED
  BY <1>1, <1>2, PTL DEF Spec, ImplementsMeter, Meter!Spec

-----------------------------------------------------------------------------
(* Types and bounds *)

\* A worker's record at time t: it is at most one minute ahead of the clock, and holds no time
\* but the end of a minute that is further away than the current one's.
Sized(r, t) ==
    /\ r.m <= (t \div Minute) + 2
    /\ r.at \in 0..(t + Minute)

WorkSized == \A w \in Workers : Sized(work[w], now)

\* The bounds of the model.
RowBounded ==
    /\ now <= MaxTime /\ status \in {"ACTIVE", "ENDED"} /\ reason \in Reasons
    /\ endedAt \in (0..(now + Minute)) \cup {None} /\ mins >= 1 /\ ending \in BOOLEAN
    /\ coins \in 0..(MaxCoins + topUps) /\ topUps \in 0..MaxTopUps /\ faults \in 0..MaxFaults
SocketsBounded ==
    /\ opens \in 0..MaxOpens /\ links \in 0..(opens + 1)
    /\ key # None => key \in [left : 0..now, set : 0..now]

SizeInv == RowBounded /\ SocketsBounded /\ WorkSized

LEMMA Bounds ==
    /\ {Gap, Grace, KeyTTL, Margin, MaxTime, MaxCoins, MaxTopUps, MaxOpens, MaxFaults}
           \subseteq Nat
    /\ Minute \in Nat \ {0} /\ None \notin Nat
BY CallBillingAssumption

LEMMA MinutesGrow ==
    ASSUME NEW t \in Nat, NEW u \in Nat, t <= u
    PROVE  t \div Minute <= u \div Minute
<1> DEFINE q == t \div Minute
           s == u \div Minute
<1>1. q \in Nat /\ q * Minute <= t
  BY MinuteOf
<1>2. s \in Int /\ u = (Minute * s) + (u % Minute) /\ u % Minute \in 0..Minute - 1
  BY Lengths
<1> HIDE DEF q, s
<1>3. q <= s
  <2> SUFFICES ASSUME s + 1 <= q PROVE FALSE
    BY <1>1, <1>2
  <2>1. (s + 1) * Minute <= q * Minute
    BY <1>1, <1>2, Lengths
  <2>2. (s + 1) * Minute = Minute * s + Minute
    BY <1>2, Lengths
  <2>3. Minute * s \in Int /\ q * Minute \in Int
    BY <1>1, <1>2, Lengths
  <2> QED
    BY <1>1, <1>2, <2>1, <2>2, <2>3, Lengths
<1> QED
  BY <1>3 DEF q, s

LEMMA TheMinute ==
    ASSUME IInv
    PROVE  /\ now \in Nat /\ now \div Minute \in Nat
           /\ CurrentMinute = (now \div Minute) + 1
           /\ mins \in Nat /\ mins <= CurrentMinute
BY MinuteOf DEF IInv, Typed, CurrentMinute, NeverAhead

\* The end of a minute that has begun is less than a minute away.
LEMMA EndIsNear ==
    ASSUME IInv, NEW m \in Nat, m <= CurrentMinute
    PROVE  BoundaryOf(m) \in 0..(now + Minute)
<1>1. StartOf(m) \in Int /\ StartOf(m) <= now /\ now \in Nat
  BY HasBegun DEF IInv, Typed
<1>2. m * Minute = (m - 1) * Minute + Minute /\ m * Minute \in Nat
  BY Lengths
<1> QED
  BY <1>1, <1>2, Lengths DEF StartOf, BoundaryOf

\* What a worker holds does not grow too old.
LEMMA SizedStays ==
    ASSUME now \in Nat, now' \in {now, now + 1}, NEW r \in Work, Sized(r, now)
    PROVE  Sized(r, now')
<1>1. now \div Minute \in Nat /\ now' \div Minute \in Nat
  BY MinuteOf
<1>2. now \div Minute <= now' \div Minute
  BY <1>1, MinuteOf
<1> QED
  BY <1>1, <1>2, Lengths DEF Sized, Work

LEMMA OneSized ==
    ASSUME IInv, SizeInv, now' \in {now, now + 1}, NEW w \in Workers, NEW r,
           work' = [work EXCEPT ![w] = r], Sized(r, now')
    PROVE  WorkSized'
<1> SUFFICES ASSUME NEW v \in Workers PROVE Sized(work'[v], now')
  BY DEF WorkSized
<1>1. CASE v = w
  BY <1>1 DEF IInv, Typed
<1>2. CASE v # w
  <2>1. work'[v] = work[v] /\ work[v] \in Work /\ Sized(work[v], now) /\ now \in Nat
    BY <1>2 DEF IInv, Typed, SizeInv, WorkSized
  <2> QED
    BY <2>1, SizedStays
<1> QED
  BY <1>1, <1>2

LEMMA SameSized ==
    ASSUME IInv, SizeInv, now' \in {now, now + 1}, \A w \in Workers : work'[w] \in {work[w], Idle}
    PROVE  WorkSized'
<1> SUFFICES ASSUME NEW v \in Workers PROVE Sized(work'[v], now')
  BY DEF WorkSized
<1>1. CASE work'[v] = Idle
  <2>1. now' \in Nat /\ now' \div Minute \in Nat
    BY TheMinute, MinuteOf
  <2>2. Idle.m = 0 /\ Idle.at = 0
    BY DEF Idle
  <2> DEFINE q == now' \div Minute
             n == now'
  <2>3. n \in Nat /\ q \in Nat
    BY <2>1
  <2> HIDE DEF q, n
  <2>4. 0 <= q + 2 /\ 0 \in 0..(n + Minute)
    BY <2>3, Lengths
  <2>5. Sized(Idle, now')
    BY <2>2, <2>4 DEF Sized, q, n
  <2> QED
    BY <1>1, <2>5
<1>2. CASE work'[v] = work[v]
  BY <1>2, TheMinute, SizedStays, WorkOf DEF IInv, SizeInv, WorkSized
<1> QED
  BY <1>1, <1>2

-----------------------------------------------------------------------------
(* The ways a worker goes on, within bounds *)

LEMMA GotoSized ==
    ASSUME IInv, SizeInv, now' = now, NEW w \in Workers, NEW label, Goto(w, label)
    PROVE  WorkSized'
<1> DEFINE r == [work[w] EXCEPT !.pc = label]
<1>1. r.pc = label /\ r.m = work[w].m /\ r.cur = work[w].cur /\ r.at = work[w].at
  BY WorkOf DEF IInv, Work
<1>2. work' = [work EXCEPT ![w] = r]
  BY DEF Goto
<1> HIDE DEF r
<1>3. Sized(r, now')
  BY <1>1 DEF Sized, SizeInv, WorkSized
<1> QED
  BY <1>2, <1>3, OneSized

LEMMA ClaimSized ==
    ASSUME IInv, SizeInv, now' = now, NEW w \in Workers, NEW label, NEW at \in 0..(now + Minute),
           Claim(w, label, at)
    PROVE  WorkSized'
<1> DEFINE r == [Idle EXCEPT !.pc = label, !.at = at]
<1>1. r.pc = label /\ r.m = 0 /\ r.cur = 0 /\ r.at = at
  BY DEF Idle
<1>2. work' = [work EXCEPT ![w] = r]
  BY DEF Claim
<1> HIDE DEF r
<1>3. Sized(r, now')
  BY <1>1, TheMinute DEF Sized
<1> QED
  BY <1>2, <1>3, OneSized

LEMMA RestSized ==
    ASSUME IInv, SizeInv, now' = now, NEW w \in Workers, Rest(w)
    PROVE  WorkSized'
<1>1. Sized(Idle, now')
  BY TheMinute, Lengths DEF Sized, Idle
<1> QED
  BY <1>1, OneSized DEF Rest

LEMMA BeginSized ==
    ASSUME IInv, SizeInv, now' = now, NEW w \in Workers, NEW m \in Nat, Begin(w, m),
           m <= CurrentMinute + 1
    PROVE  WorkSized'
<1> DEFINE r == [work[w] EXCEPT !.m = m, !.cur = CurrentMinute,
                                !.pc = IF m <= CurrentMinute THEN "guard" ELSE "rearm"]
<1>1. r.pc \in {"guard", "rearm"} /\ r.m = m /\ r.at = work[w].at
  BY WorkOf DEF IInv, Work
<1>2. work' = [work EXCEPT ![w] = r]
  BY DEF Begin
<1> HIDE DEF r
<1>3. r.at \in 0..(now + Minute)
  BY <1>1 DEF SizeInv, WorkSized, Sized
<1>4. Sized(r, now')
  BY <1>1, <1>3, TheMinute DEF Sized
<1> QED
  BY <1>2, <1>4, OneSized

LEMMA NextMinuteSized ==
    ASSUME IInv, SizeInv, now' = now, NEW w \in Workers, NextMinute(w), work[w].m \in 1..mins
    PROVE  WorkSized'
<1> DEFINE r == [work[w] EXCEPT !.m = @ + 1,
                                !.pc = IF work[w].m < work[w].cur THEN "guard" ELSE "rearm"]
<1>1. r.pc \in {"guard", "rearm"} /\ r.m = work[w].m + 1 /\ r.at = work[w].at
  BY WorkOf DEF IInv, Work
<1>2. work' = [work EXCEPT ![w] = r]
  BY DEF NextMinute
<1> HIDE DEF r
<1>3. r.at \in 0..(now + Minute)
  BY <1>1 DEF SizeInv, WorkSized, Sized
<1>4. work[w].m \in Nat /\ work[w].m <= CurrentMinute
  BY TheMinute
<1>5. Sized(r, now')
  BY <1>1, <1>3, <1>4, TheMinute DEF Sized
<1> QED
  BY <1>2, <1>5, OneSized

-----------------------------------------------------------------------------
(* Every step keeps the bounds *)

LEMMA BillSized ==
    ASSUME IInv, MeterInv, SizeInv, NEW w \in Workers,
           \/ ClaimBill(w) \/ SweepTick(w) \/ ReadForBill(w) \/ StartForSweep(w)
           \/ Guard(w) \/ Ledger(w) \/ EndBroke(w) \/ CheckNext(w) \/ ArmLowCoin(w) \/ Rearm(w)
    PROVE  WorkSized'
<1>0. now' = now /\ now \in Nat
  BY TheMinute DEF ClaimBill, SweepTick, ReadForBill, StartForSweep, Guard, Ledger, EndBroke,
     CheckNext, ArmLowCoin, Rearm
<1>1. CASE ClaimBill(w)
  <2>1. Claim(w, "read", 0) \/ UNCHANGED work
    BY <1>1 DEF ClaimBill
  <2>2. 0 \in 0..(now + Minute)
    BY <1>0, Lengths
  <2> QED
    BY <1>0, <2>1, <2>2, ClaimSized, SameSized
<1>2. CASE SweepTick(w)
  <2> DEFINE r == [Idle EXCEPT !.pc = "start", !.sweep = TRUE, !.m = mins + 1]
  <2>1. r.pc = "start" /\ r.m = mins + 1 /\ r.at = 0 /\ work' = [work EXCEPT ![w] = r]
    BY <1>2 DEF SweepTick, Idle
  <2> HIDE DEF r
  <2>2. Sized(r, now')
    BY <1>0, <2>1, TheMinute, Lengths DEF Sized
  <2> QED
    BY <1>0, <2>1, <2>2, OneSized
<1>3. CASE ReadForBill(w) \/ StartForSweep(w) \/ Rearm(w)
  <2>1. Rest(w) \/ Begin(w, mins + 1) \/ Begin(w, work[w].m)
    BY <1>3 DEF ReadForBill, StartForSweep, Rearm
  <2>2. mins + 1 \in Nat /\ mins + 1 <= CurrentMinute + 1
    BY TheMinute
  <2>3. work[w].m \in Nat /\ work[w].m <= CurrentMinute + 1
    BY WorkOf, TheMinute DEF IInv, SizeInv, WorkSized, Sized
  <2> QED
    BY <1>0, <2>1, <2>2, <2>3, RestSized, BeginSized
<1>4. CASE Guard(w) \/ EndBroke(w) \/ Ledger(w)
  <2>1. Rest(w) \/ \E label : Goto(w, label)
    BY <1>4 DEF Guard, EndBroke, Ledger
  <2> QED
    BY <1>0, <2>1, GotoSized, RestSized
<1>5. CASE CheckNext(w) \/ ArmLowCoin(w)
  <2>1. Goto(w, "armLow") \/ NextMinute(w)
    BY <1>5 DEF CheckNext, ArmLowCoin
  <2>2. work[w].m \in 1..mins
    BY <1>5 DEF CheckNext, ArmLowCoin, MeterInv, WorkHeld, Held, Shown
  <2> QED
    BY <1>0, <2>1, <2>2, GotoSized, NextMinuteSized
<1> QED
  BY <1>1, <1>2, <1>3, <1>4, <1>5

\* The times a deadline of vc_lowcoin or vc_disconnect may hand to its handler.
LEMMA HandedOver ==
    ASSUME IInv, MeterInv, NEW at
    PROVE  /\ Right("low", at, Shown) => at \in 0..(now + Minute)
           /\ Right("drop", at, Shown) => at - Grace \in 0..now /\ at \in 0..(now + Grace)
<1>1. ASSUME Right("low", at, Shown) PROVE at \in 0..(now + Minute)
  <2>1. PICK m \in 1..mins : at = m * Minute
    BY <1>1 DEF Right, Shown
  <2>2. m \in Nat /\ m <= CurrentMinute
    BY TheMinute
  <2> QED
    BY <2>1, <2>2, EndIsNear DEF BoundaryOf
<1>2. ASSUME Right("drop", at, Shown) PROVE at - Grace \in 0..now /\ at \in 0..(now + Grace)
  <2>1. PICK t \in drops : at = t + Grace
    BY <1>2 DEF Right, Shown
  <2>2. t \in 0..now
    BY DEF MeterInv
  <2> QED
    BY <2>1, <2>2, TheMinute, Lengths
<1> QED
  BY <1>1, <1>2

\* The same of what fires.
LEMMA FireHands ==
    ASSUME IInv, MeterInv, NEW kind, NEW entry, NEW next, NEW at,
           Fire(kind, entry, next, at), entry # None => Right(kind, entry, Shown), at # None
    PROVE  Right(kind, at, Shown)
BY DEF Fire, MeterInv, TimersRight

LEMMA EndersSized ==
    ASSUME IInv, MeterInv, SizeInv, NEW w \in Workers,
           \/ ClaimLowCoin(w) \/ LowCoinStatus(w) \/ LowCoinBalance(w) \/ LowCoinEnd(w)
           \/ SocketCloses(w) \/ GraceKey(w) \/ GraceArm(w)
           \/ ClaimDrop(w) \/ DropRead(w) \/ DropDel(w) \/ DropEnd(w)
    PROVE  WorkSized'
<1>0. now' = now /\ now \in 0..(now + Minute) /\ 0..now \subseteq 0..(now + Minute)
  <2>1. now' = now
    BY DEF ClaimLowCoin, LowCoinStatus, LowCoinBalance, LowCoinEnd, SocketCloses,
       GraceKey, GraceArm, ClaimDrop, DropRead, DropDel, DropEnd
  <2> QED
    BY <2>1, TheMinute, Lengths
<1>1. CASE ClaimLowCoin(w)
  <2>1. PICK next, at : /\ Fire("low", low, next, at)
                        /\ IF at = None THEN UNCHANGED work ELSE Claim(w, "lowRead", at)
    BY <1>1 DEF ClaimLowCoin
  <2>2. at # None => at \in 0..(now + Minute)
    BY <2>1, FireHands, HandedOver DEF MeterInv, TimersRight
  <2> QED
    BY <1>0, <2>1, <2>2, ClaimSized, SameSized
<1>2. CASE ClaimDrop(w)
  <2>1. PICK next, at : /\ Fire("drop", drop, next, at)
                        /\ IF at = None THEN UNCHANGED work ELSE Claim(w, "dropRead", at - Grace)
    BY <1>2 DEF ClaimDrop
  <2>2. at # None => at - Grace \in 0..(now + Minute)
    BY <1>0, <2>1, FireHands, HandedOver DEF MeterInv, TimersRight
  <2> QED
    BY <1>0, <2>1, <2>2, ClaimSized, SameSized
<1>3. CASE SocketCloses(w)
  <2>1. Rest(w) \/ Claim(w, "graceKey", now)
    BY <1>3 DEF SocketCloses
  <2> QED
    BY <1>0, <2>1, RestSized, ClaimSized
<1>4. CASE LowCoinStatus(w) \/ LowCoinBalance(w) \/ LowCoinEnd(w) \/ GraceKey(w) \/ GraceArm(w)
           \/ DropRead(w) \/ DropDel(w) \/ DropEnd(w)
  <2>1. Rest(w) \/ \E label : Goto(w, label)
    BY <1>4 DEF LowCoinStatus, LowCoinBalance, LowCoinEnd, GraceKey, GraceArm, DropRead,
       DropDel, DropEnd
  <2> QED
    BY <1>0, <2>1, RestSized, GotoSized
<1> QED
  BY <1>1, <1>2, <1>3, <1>4

LEMMA WorldSized ==
    ASSUME IInv, SizeInv,
           \/ UNCHANGED vars \/ SocketOpens \/ HangUp \/ CancelTimers \/ TopUp \/ Gift \/ Crash
           \/ Tick
    PROVE  WorkSized'
<1>1. now' \in {now, now + 1} /\ now \in Nat
  BY TheMinute DEF vars, SocketOpens, HangUp, CancelTimers, TopUp, Gift, Crash, Tick
<1>2. \A w \in Workers : work'[w] \in {work[w], Idle}
  BY DEF vars, SocketOpens, HangUp, CancelTimers, TopUp, Gift, Crash, Tick
<1> QED
  BY <1>1, <1>2, SameSized

-----------------------------------------------------------------------------
(* The row and the sockets stay within their bounds *)

LEMMA EndedInTime ==
    ASSUME RowBounded, now \in Nat, NEW at \in 0..(now + Minute), NEW why \in Reasons, EndCall(at, why)
    PROVE  /\ status' \in {"ACTIVE", "ENDED"} /\ reason' \in Reasons /\ ending' \in BOOLEAN
           /\ endedAt' \in (0..(now + Minute)) \cup {None} /\ mins' = mins
BY DEF EndCall, Close, RowBounded, rowVars

LEMMA RowKept == IInv /\ SizeInv /\ [Next]_vars => RowBounded'
<1> SUFFICES ASSUME IInv, SizeInv, [Next]_vars PROVE RowBounded'
  OBVIOUS
<1>0. RowBounded /\ now \in Nat /\ mins \in Nat
  BY TheMinute DEF SizeInv
<1> USE DEF RowBounded, rowVars
<1>f. faults' \in 0..MaxFaults /\ topUps' \in 0..MaxTopUps
  <2>1. UNCHANGED faults \/ Fault
    BY DEF Next, Await, vars, Schedule, Fire, ClaimBill, SweepTick, ReadForBill, StartForSweep,
       Guard, Ledger, EndBroke, CheckNext, ArmLowCoin, Rearm, ClaimLowCoin, LowCoinStatus,
       LowCoinBalance, LowCoinEnd, SocketCloses, GraceKey, GraceArm, ClaimDrop, DropRead,
       DropDel, DropEnd, SocketOpens, HangUp, CancelTimers, TopUp, Gift, Crash, Tick
  <2>2. UNCHANGED topUps \/ TopUp
    BY DEF Next, Await, vars, ClaimBill, SweepTick, ReadForBill, StartForSweep,
       Guard, Ledger, EndBroke, CheckNext, ArmLowCoin, Rearm, ClaimLowCoin, LowCoinStatus,
       LowCoinBalance, LowCoinEnd, SocketCloses, GraceKey, GraceArm, ClaimDrop, DropRead,
       DropDel, DropEnd, SocketOpens, HangUp, CancelTimers, TopUp, Gift, Crash, Tick
  <2> QED
    BY <1>0, <2>1, <2>2, Bounds DEF Fault, TopUp
<1>1. ASSUME NEW w \in Workers, Ledger(w) PROVE RowBounded'
  <2>1. UNCHANGED <<now, status, endedAt, reason, ending, topUps>>
    BY <1>1 DEF Ledger, Charge
  <2>2. \/ mins' = mins /\ coins' = coins
        \/ mins' = mins + 1 /\ coins > 0 /\ coins' = coins - 1
    BY <1>1 DEF Ledger, Charge, Payable
  <2> QED
    BY <1>0, <1>f, <2>1, <2>2, Bounds
<1>2. ASSUME NEW w \in Workers, EndBroke(w) \/ LowCoinEnd(w) \/ DropEnd(w) PROVE RowBounded'
  <2>1. work[w].at \in 0..(now + Minute) /\ now \in 0..(now + Minute)
    BY <1>0, Lengths DEF SizeInv, WorkSized, Sized
  <2>2. /\ \E at \in 0..(now + Minute), why \in Reasons : EndCall(at, why)
        /\ UNCHANGED <<now, coins, topUps, faults>>
    BY <1>2, <2>1 DEF EndBroke, LowCoinEnd, DropEnd, Reasons
  <2> QED
    BY <1>0, <2>2, EndedInTime
<1>3. CASE HangUp
  <2>1. now \in 0..(now + Minute)
    BY <1>0, Lengths
  <2> QED
    BY <1>0, <1>3, <2>1 DEF HangUp, Close, Reasons
<1>4. CASE Tick
  <2>1. 0..(now + Minute) \subseteq 0..(now' + Minute) /\ now' <= MaxTime
    BY <1>0, <1>4, Bounds DEF Tick
  <2>2. UNCHANGED <<rowVars, coins, ending, topUps, faults>>
    BY <1>4 DEF Tick
  <2> QED
    BY <1>0, <2>1, <2>2
<1>5. CASE TopUp \/ Gift
  BY <1>0, <1>5, Bounds DEF TopUp, Gift
<1>6. CASE CancelTimers
  BY <1>0, <1>f, <1>6 DEF CancelTimers
<1>7. CASE /\ ~(\E w \in Workers : Ledger(w) \/ EndBroke(w) \/ LowCoinEnd(w) \/ DropEnd(w))
           /\ ~(HangUp \/ TopUp \/ Gift \/ Tick \/ CancelTimers)
  <2>1. UNCHANGED <<now, rowVars, coins, ending, topUps>>
    BY <1>7 DEF Next, Await, vars, ClaimBill, SweepTick, ReadForBill, StartForSweep, Guard,
       CheckNext, ArmLowCoin, Rearm, ClaimLowCoin, LowCoinStatus, LowCoinBalance, SocketCloses,
       GraceKey, GraceArm, ClaimDrop, DropRead, DropDel, SocketOpens, Crash
  <2> QED
    BY <1>0, <1>f, <2>1
<1> QED
  BY <1>1, <1>2, <1>3, <1>4, <1>5, <1>6, <1>7 DEF Next, Await

LEMMA SocketsKept == IInv /\ SizeInv /\ [Next]_vars => SocketsBounded'
<1> SUFFICES ASSUME IInv, SizeInv, [Next]_vars PROVE SocketsBounded'
  OBVIOUS
<1>0. SocketsBounded /\ now \in Nat
  BY TheMinute DEF SizeInv
<1> USE DEF sockets, SocketsBounded
<1>1. ASSUME NEW w \in Workers, GraceKey(w) PROVE SocketsBounded'
  <2>1. work[w].at \in 0..now
    BY <1>0, <1>1 DEF GraceKey, IInv, Good, SizeInv, WorkSized, Sized
  <2>2. key' \in {key, [left |-> work[w].at, set |-> now]}
        /\ UNCHANGED <<now, links, opens>>
    BY <1>1 DEF GraceKey
  <2> QED
    BY <1>0, <2>1, <2>2
<1>2. ASSUME NEW w \in Workers, SocketCloses(w) \/ DropDel(w) PROVE SocketsBounded'
  BY <1>0, <1>2, Bounds DEF SocketCloses, DropDel
<1>3. CASE SocketOpens \/ CancelTimers
  BY <1>0, <1>3, Bounds DEF SocketOpens, CancelTimers
<1>4. CASE Tick
  <2>1. 0..now \subseteq 0..now'
    BY <1>0, <1>4 DEF Tick
  <2> QED
    BY <1>0, <1>4, <2>1 DEF Tick
<1>5. CASE /\ ~(\E w \in Workers : SocketCloses(w) \/ GraceKey(w) \/ DropDel(w))
           /\ ~(SocketOpens \/ CancelTimers \/ Tick)
  <2>1. UNCHANGED <<now, key, links, opens>>
    BY <1>5 DEF Next, Await, vars, ClaimBill, SweepTick, ReadForBill, StartForSweep, Guard,
       Ledger, EndBroke, CheckNext, ArmLowCoin, Rearm, ClaimLowCoin, LowCoinStatus,
       LowCoinBalance, LowCoinEnd, GraceArm, ClaimDrop, DropRead, DropEnd, HangUp, TopUp, Gift,
       Crash
  <2> QED
    BY <1>0, <2>1
<1> QED
  BY <1>1, <1>2, <1>3, <1>4, <1>5 DEF Next, Await

LEMMA SizeKept == IInv /\ MeterInv /\ SizeInv /\ [Next]_vars => SizeInv'
<1> SUFFICES ASSUME IInv, MeterInv, SizeInv, [Next]_vars PROVE SizeInv'
  OBVIOUS
<1>1. WorkSized'
  BY BillSized, EndersSized, WorldSized DEF Next, Await
<1> QED
  BY <1>1, RowKept, SocketsKept DEF SizeInv

LEMMA SizedAtFirst == Init => SizeInv
<1> SUFFICES ASSUME Init PROVE SizeInv
  OBVIOUS
<1>1. RowBounded
  <2>1. now = 0 /\ coins \in 0..MaxCoins /\ topUps = 0 /\ faults = 0 /\ mins = 1
    BY DEF Init
  <2>2. /\ now <= MaxTime /\ coins \in 0..(MaxCoins + topUps) /\ topUps \in 0..MaxTopUps
        /\ faults \in 0..MaxFaults /\ mins >= 1
    BY <2>1, Bounds
  <2>3. /\ status \in {"ACTIVE", "ENDED"} /\ reason \in Reasons /\ ending \in BOOLEAN
        /\ endedAt = None
    BY DEF Init, Reasons
  <2> QED
    BY <2>2, <2>3 DEF RowBounded
<1>2. SocketsBounded
  BY Bounds DEF Init, SocketsBounded
<1> DEFINE r == [Idle EXCEPT !.pc = "rearm"]
           l == [Idle EXCEPT !.pc = "low", !.m = 1, !.cur = 1]
<1>3. PICK w \in Workers, v \in Workers :
        work = [u \in Workers |-> CASE u = w -> r [] u = v -> l [] OTHER -> Idle]
  BY DEF Init
<1>4. 0 \div Minute \in Nat /\ now = 0
  BY MinuteOf DEF Init
<1>5. Sized(r, now) /\ Sized(l, now) /\ Sized(Idle, now)
  BY <1>4, Lengths DEF Sized, Idle
<1> HIDE DEF r, l
<1>6. WorkSized
  BY <1>3, <1>5 DEF WorkSized
<1> QED
  BY <1>1, <1>2, <1>6 DEF SizeInv

\* Billing stays within the bounds of the model, for any bounds: no minute beyond the clock's last
\* is touched, and every deadline, local timer and recorded end lies where its timer can put it.
THEOREM TypeCorrect == Spec => []TypeOK
<1>1. IInv /\ MeterInv /\ SizeInv => TypeOK
  <2> SUFFICES ASSUME IInv, MeterInv, SizeInv PROVE TypeOK
    OBVIOUS
  <2>1. now \in Times /\ now \in Nat /\ mins \in Nat /\ MaxTime \in Nat /\ now <= MaxTime
    BY TheMinute, Bounds DEF SizeInv, RowBounded, Times
  <2>2. CurrentMinute \in Nat /\ LastMinute \in Nat /\ CurrentMinute <= LastMinute
    BY <2>1, MinutesGrow, MinuteOf DEF CurrentMinute, LastMinute
  <2>3. mins \in 1..LastMinute
    BY <2>1, <2>2, TheMinute DEF SizeInv, RowBounded
  <2>4. /\ 0..(now + Minute) \subseteq Boundaries /\ 0..(now + Grace) \subseteq Boundaries
        /\ 0..(now + Minute + Gap) \subseteq Boundaries /\ 0..now \subseteq Times
    BY <2>1, Bounds, Lengths DEF Boundaries, Times
  <2>5. ASSUME NEW kind \in Kinds, NEW at, Right(kind, at, Shown) PROVE at \in Boundaries
    <3>1. kind = "bill" => at \in 0..(now + Minute + Gap)
      BY <2>5 DEF Right, Shown
    <3> QED
      BY <2>4, <2>5, <3>1, HandedOver DEF Kinds
  <2>6. {bill, low, drop} \subseteq Boundaries \cup {None}
    BY <2>5 DEF MeterInv, TimersRight, Kinds
  <2>7. alarms \subseteq Alarm
    <3> SUFFICES ASSUME NEW a \in alarms PROVE a \in Alarm
      OBVIOUS
    <3>1. a \in [kind : Kinds, at : Int, stored : BOOLEAN] /\ Right(a.kind, a.at, Shown)
      BY DEF IInv, Typed, TimersTyped, MeterInv, TimersRight
    <3>2. a.at \in Boundaries
      BY <2>5, <3>1
    <3> QED
      BY <3>1, <3>2 DEF Alarm, Kinds
  <2>8. /\ endedAt \in Boundaries \cup {None} /\ drops \subseteq Times
        /\ key \in [left : Times, set : Times] \cup {None}
    BY <2>4 DEF SizeInv, RowBounded, SocketsBounded, MeterInv
  <2>9. ASSUME NEW w \in Workers
        PROVE  work[w] \in [pc : Labels, sweep : BOOLEAN, m : 0..(LastMinute + 1),
                            cur : 0..LastMinute, at : Boundaries]
    <3>1. work[w] \in Work /\ work[w].m \in Nat /\ work[w].cur \in Nat
      BY WorkOf DEF IInv
    <3>2. work[w].cur <= CurrentMinute /\ work[w].m <= CurrentMinute + 1
          /\ work[w].at \in 0..(now + Minute)
      BY <3>1, TheMinute DEF IInv, Good, SizeInv, WorkSized, Sized
    <3>3. work[w].cur \in 0..LastMinute /\ work[w].m \in 0..(LastMinute + 1)
          /\ work[w].at \in Boundaries
      BY <2>1, <2>2, <2>4, <3>1, <3>2
    <3> QED
      BY <3>1, <3>3 DEF Work
  <2>10. work \in [Workers -> [pc : Labels, sweep : BOOLEAN, m : 0..(LastMinute + 1),
                               cur : 0..LastMinute, at : Boundaries]]
    BY <2>9 DEF IInv, Typed
  <2>11. /\ status \in {"ACTIVE", "ENDED"} /\ reason \in Reasons /\ ending \in BOOLEAN
         /\ coins \in 0..(MaxCoins + MaxTopUps) /\ topUps \in 0..MaxTopUps
         /\ opens \in 0..MaxOpens /\ faults \in 0..MaxFaults /\ links \in 0..(MaxOpens + 1)
    BY Bounds DEF SizeInv, RowBounded, SocketsBounded
  <2> QED
    BY <2>1, <2>3, <2>6, <2>7, <2>8, <2>10, <2>11 DEF TypeOK
<1> QED
  BY <1>1, InitHolds, StepKeeps, MeterAtFirst, MeterKept, SizedAtFirst, SizeKept, PTL DEF Spec
=============================================================================
