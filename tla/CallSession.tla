---------------------------- MODULE CallSession ----------------------------
(***************************************************************************)
(* The life of video_call_session rows in modules/videoCall/service.js:    *)
(* initiateCall under its two Redis locks, acceptCall through the ledger,  *)
(* rejectCall, and endCall as it is run by a hang-up, a timer, the sweep,  *)
(* the LiveKit webhook or the stale-call cleanup of initiateCall.          *)
(*                                                                         *)
(* A request runs in a process; each await is a point where the others     *)
(* interleave.  What is checked before an await (a status, a lock) may be  *)
(* gone after it.                                                          *)
(***************************************************************************)
EXTENDS Naturals, FiniteSets

CONSTANTS Users,
          Procs,        \* requests and timer callbacks that can be in flight
          MaxCalls,     \* bound on created sessions
          MaxLapses,    \* bound on initiate locks that are lost or not taken
          None, Orphan  \* no holder; a holder that is gone and did not release

ASSUME CallSessionAssumption ==
    /\ MaxCalls \in Nat
    /\ MaxLapses \in Nat
    /\ None \notin Procs \cup Users
    /\ Orphan \notin Procs \cup {None}

VARIABLES status,   \* call -> status of its row ("NONE": not created)
          parties,  \* call -> its caller and creator
          billed,   \* calls whose minute 1 the ledger billed
          told,     \* history: call -> times its end was announced (2: at least)
          nextCall, \* next session to create
          lock,     \* vc:initiate:lock:<user> -> process whose token it holds
          pc,       \* process -> what it does next
          caller,   \* process -> caller of the initiate it runs, else None
          creator,  \* process -> creator of the initiate it runs, else None
          held,     \* process -> users whose lock it believes to hold
          target,   \* process -> call it accepts, rejects or ends
          seen,     \* process -> status endCall read
          tries,    \* process -> attempts of its endCall so far
          back,     \* process -> what follows its endCall
          lapses    \* history: locks that expired under their holder, or skipped

rows    == <<status, parties, billed, nextCall>>
endVars == <<target, seen, tries, back>>
vars == <<status, parties, billed, told, nextCall, lock, pc, caller, creator,
          held, target, seen, tries, back, lapses>>

Calls    == 1..MaxCalls
Live     == {"RINGING", "ACTIVE"}
Terminal == {"ENDED", "MISSED", "REJECTED"}
Statuses == {"NONE"} \cup Live \cup Terminal
Labels   == {"idle", "lockCreator", "callerBusy", "creatorBusy", "create", "release",
             "ledger", "reject", "endRead", "endUpdate", "announce"}

TypeOK ==
    /\ status \in [Calls -> Statuses]
    /\ parties \in [Calls -> SUBSET Users]
    /\ billed \in SUBSET Calls
    /\ told \in [Calls -> 0..2]
    /\ nextCall \in 1..(MaxCalls + 1)
    /\ lock \in [Users -> Procs \cup {None, Orphan}]
    /\ pc \in [Procs -> Labels]
    /\ caller \in [Procs -> Users \cup {None}]
    /\ creator \in [Procs -> Users \cup {None}]
    /\ held \in [Procs -> SUBSET Users]
    /\ target \in [Procs -> 0..MaxCalls]
    /\ seen \in [Procs -> Statuses]
    /\ tries \in [Procs -> 0..2]
    /\ back \in [Procs -> Labels]
    /\ lapses \in 0..MaxLapses

Init ==
    /\ status = [i \in Calls |-> "NONE"]
    /\ parties = [i \in Calls |-> {}]
    /\ billed = {}
    /\ told = [i \in Calls |-> 0]
    /\ nextCall = 1
    /\ lock = [u \in Users |-> None]
    /\ pc = [p \in Procs |-> "idle"]
    /\ caller = [p \in Procs |-> None]
    /\ creator = [p \in Procs |-> None]
    /\ held = [p \in Procs |-> {}]
    /\ target = [p \in Procs |-> 0]
    /\ seen = [p \in Procs |-> "NONE"]
    /\ tries = [p \in Procs |-> 0]
    /\ back = [p \in Procs |-> "idle"]
    /\ lapses = 0

Goto(p, label) == pc' = [pc EXCEPT ![p] = label]
SetLock(u, o)  == lock' = [lock EXCEPT ![u] = o]
LiveCalls(u)   == {i \in Calls : status[i] \in Live /\ u \in parties[i]}

\* The request is over: the process forgets what it was about.
Finish(p) ==
    /\ Goto(p, "idle")
    /\ target' = [target EXCEPT ![p] = 0]
    /\ seen' = [seen EXCEPT ![p] = "NONE"]
    /\ tries' = [tries EXCEPT ![p] = 0]
    /\ back' = [back EXCEPT ![p] = "idle"]

----------------------------------------------------------------------------
(* initiateCall *)

\* SET NX of the caller's lock; one that is taken ends the request.
Initiate(p, c, r) ==
    /\ pc[p] = "idle"
    /\ c # r
    /\ lock[c] = None
    /\ SetLock(c, p)
    /\ Goto(p, "lockCreator")
    /\ caller' = [caller EXCEPT ![p] = c]
    /\ creator' = [creator EXCEPT ![p] = r]
    /\ held' = [held EXCEPT ![p] = {c}]
    /\ UNCHANGED <<rows, told, endVars, lapses>>

\* Without Redis there are no locks ("the old behaviour applies (DB checks only)").
InitiateUnlocked(p, c, r) ==
    /\ pc[p] = "idle"
    /\ c # r
    /\ lapses < MaxLapses
    /\ lapses' = lapses + 1
    /\ Goto(p, "callerBusy")
    /\ caller' = [caller EXCEPT ![p] = c]
    /\ creator' = [creator EXCEPT ![p] = r]
    /\ UNCHANGED <<rows, told, lock, held, endVars>>

\* SET NX of the creator's lock: taken, or refused.  (A reply that is lost leaves a lock
\* nobody releases, as a crash after it does.)
LockCreator(p) ==
    /\ pc[p] = "lockCreator"
    /\ \/ /\ lock[creator[p]] = None
          /\ SetLock(creator[p], p)
          /\ held' = [held EXCEPT ![p] = @ \cup {creator[p]}]
          /\ Goto(p, "callerBusy")
       \/ /\ lock[creator[p]] # None
          /\ Goto(p, "release")
          /\ UNCHANGED <<lock, held>>
    /\ UNCHANGED <<rows, told, caller, creator, endVars, lapses>>

\* endCall(i) starts; the process goes on with "next" when it returns.
CallEnd(p, i, next) ==
    /\ Goto(p, "endRead")
    /\ target' = [target EXCEPT ![p] = i]
    /\ back' = [back EXCEPT ![p] = next]
    /\ UNCHANGED <<seen, tries>>

\* findFirst of a live call of u.  A call that is stale (ringing for 45 s, or active
\* without a heartbeat for 30 s) is ended before going on; any other is a reason to
\* refuse.  A call may become stale at any moment.
BusyCheck(p, u, next) ==
    \/ /\ LiveCalls(u) = {}
       /\ Goto(p, next)
       /\ UNCHANGED endVars
    \/ \E i \in LiveCalls(u) : CallEnd(p, i, next)
    \/ /\ LiveCalls(u) # {}
       /\ Goto(p, "release")
       /\ UNCHANGED endVars

\* Mutant of CallerBusy: a stale call is passed over instead of ended.
CallerBusyIgnoresStale(p) ==
    /\ pc[p] = "callerBusy"
    /\ \/ Goto(p, "creatorBusy")
       \/ LiveCalls(caller[p]) # {} /\ Goto(p, "release")
    /\ UNCHANGED <<rows, told, lock, caller, creator, held, endVars, lapses>>

CallerBusy(p) ==
    /\ pc[p] = "callerBusy"
    /\ BusyCheck(p, caller[p], "creatorBusy")
    /\ UNCHANGED <<rows, told, lock, caller, creator, held, lapses>>

CreatorBusy(p) ==
    /\ pc[p] = "creatorBusy"
    /\ BusyCheck(p, creator[p], "create")
    /\ UNCHANGED <<rows, told, lock, caller, creator, held, lapses>>

\* The session row, RINGING (at the bound MaxCalls the insert is refused).
Create(p) ==
    /\ pc[p] = "create"
    /\ \/ /\ nextCall \in Calls
          /\ nextCall' = nextCall + 1
          /\ status' = [status EXCEPT ![nextCall] = "RINGING"]
          /\ parties' = [parties EXCEPT ![nextCall] = {caller[p], creator[p]}]
       \/ /\ nextCall \notin Calls
          /\ UNCHANGED <<nextCall, status, parties>>
    /\ Goto(p, "release")
    /\ UNCHANGED <<billed, told, lock, caller, creator, held, endVars, lapses>>

\* Mutant of Release: DEL without comparing the token.
ReleaseUnchecked(p) ==
    /\ pc[p] = "release"
    /\ \E u \in held[p] :
         /\ held' = [held EXCEPT ![p] = @ \ {u}]
         /\ SetLock(u, None)
         /\ UNCHANGED <<caller, creator, pc, endVars>>
    /\ UNCHANGED <<rows, told, lapses>>

\* releaseInitiateLocks: one compare-and-delete per key; a command that fails leaves
\* the lock to its TTL.
Release(p) ==
    /\ pc[p] = "release"
    /\ \/ /\ held[p] = {}
          /\ Finish(p)
          /\ caller' = [caller EXCEPT ![p] = None]
          /\ creator' = [creator EXCEPT ![p] = None]
          /\ UNCHANGED <<lock, held>>
       \/ \E u \in held[p] :
            /\ held' = [held EXCEPT ![p] = @ \ {u}]
            /\ \/ lock[u] = p /\ (SetLock(u, None) \/ SetLock(u, Orphan))
               \/ lock[u] # p /\ UNCHANGED lock
            /\ UNCHANGED <<caller, creator, pc, endVars>>
    /\ UNCHANGED <<rows, told, lapses>>

----------------------------------------------------------------------------
(* acceptCall, rejectCall, endCall *)

\* The handler reads a RINGING row of the requesting receiver, then awaits.
Answer(p, i, label) ==
    /\ pc[p] = "idle"
    /\ status[i] = "RINGING"
    /\ Goto(p, label)
    /\ target' = [target EXCEPT ![p] = i]
    /\ UNCHANGED <<rows, told, lock, caller, creator, held, seen, tries, back, lapses>>

Accept(p, i) == Answer(p, i, "ledger")
Reject(p, i) == Answer(p, i, "reject")

\* CALL_ACCEPT in ol-node-rest: minute 1 and RINGING -> ACTIVE in one transaction
\* under the row lock; a call that no longer rings is refused.
LedgerAccept(p) ==
    /\ pc[p] = "ledger"
    /\ \/ /\ status[target[p]] = "RINGING"
          /\ status' = [status EXCEPT ![target[p]] = "ACTIVE"]
          /\ billed' = billed \cup {target[p]}
       \/ /\ status[target[p]] # "RINGING"
          /\ UNCHANGED <<status, billed>>
    /\ Finish(p)
    /\ UNCHANGED <<parties, nextCall, told, lock, caller, creator, held, lapses>>

\* updateMany where RINGING; only a row it changed is announced.
RejectUpdate(p) ==
    /\ pc[p] = "reject"
    /\ \/ /\ status[target[p]] = "RINGING"
          /\ status' = [status EXCEPT ![target[p]] = "REJECTED"]
          /\ Goto(p, "announce")
          /\ UNCHANGED endVars
       \/ /\ status[target[p]] # "RINGING"
          /\ Finish(p)
          /\ UNCHANGED status
    /\ UNCHANGED <<parties, billed, nextCall, told, lock, caller, creator, held, lapses>>

\* A participant hangs up, or a timer, a webhook or moderation ends the call.
EndCall(p, i) ==
    /\ pc[p] = "idle"
    /\ status[i] \in Live            \* any other call: null at once
    /\ CallEnd(p, i, "idle")
    /\ UNCHANGED <<rows, told, lock, caller, creator, held, lapses>>

\* The sweep's findMany returned i as RINGING; its endCall is next.
SweepRinging(p, i) == status[i] = "RINGING" /\ EndCall(p, i)

\* endCall returns: its caller goes on, or the request is over.
EndReturns(p) ==
    /\ Goto(p, back[p])
    /\ target' = [target EXCEPT ![p] = 0]
    /\ seen' = [seen EXCEPT ![p] = "NONE"]
    /\ tries' = [tries EXCEPT ![p] = 0]
    /\ back' = [back EXCEPT ![p] = "idle"]

\* Mutant of EndRead: only a running call can be ended.
EndReadActiveOnly(p) ==
    /\ pc[p] = "endRead"
    /\ \/ /\ status[target[p]] = "ACTIVE"
          /\ Goto(p, "endUpdate")
          /\ seen' = [seen EXCEPT ![p] = status[target[p]]]
          /\ tries' = [tries EXCEPT ![p] = @ + 1]
          /\ UNCHANGED <<target, back>>
       \/ /\ status[target[p]] # "ACTIVE"
          /\ EndReturns(p)
    /\ UNCHANGED <<rows, told, lock, caller, creator, held, lapses>>

\* findUnique: null for a call that is over.
EndRead(p) ==
    /\ pc[p] = "endRead"
    /\ \/ /\ status[target[p]] \in Live
          /\ Goto(p, "endUpdate")
          /\ seen' = [seen EXCEPT ![p] = status[target[p]]]
          /\ tries' = [tries EXCEPT ![p] = @ + 1]
          /\ UNCHANGED <<target, back>>
       \/ /\ status[target[p]] \notin Live
          /\ EndReturns(p)
    /\ UNCHANGED <<rows, told, lock, caller, creator, held, lapses>>

EndedFrom(s) == IF s = "RINGING" THEN "MISSED" ELSE "ENDED"

\* Mutant of EndUpdate: the update is not conditional on the status that was read.
EndUpdateUnconditional(p) ==
    /\ pc[p] = "endUpdate"
    /\ status' = [status EXCEPT ![target[p]] = EndedFrom(seen[p])]
    /\ Goto(p, "announce")
    /\ UNCHANGED <<parties, billed, nextCall, told, lock, caller, creator, held,
                   endVars, lapses>>

\* Mutant of EndUpdate: no second attempt.
EndUpdateOnce(p) ==
    /\ pc[p] = "endUpdate"
    /\ \/ /\ status[target[p]] = seen[p]
          /\ status' = [status EXCEPT ![target[p]] = EndedFrom(seen[p])]
          /\ Goto(p, "announce")
          /\ UNCHANGED endVars
       \/ /\ status[target[p]] # seen[p]
          /\ EndReturns(p)
          /\ UNCHANGED status
    /\ UNCHANGED <<parties, billed, nextCall, told, lock, caller, creator, held, lapses>>

\* updateMany where the status is the one read; else one more attempt, then null.
EndUpdate(p) ==
    /\ pc[p] = "endUpdate"
    /\ \/ /\ status[target[p]] = seen[p]
          /\ status' = [status EXCEPT ![target[p]] = EndedFrom(seen[p])]
          /\ Goto(p, "announce")
          /\ UNCHANGED endVars
       \/ /\ status[target[p]] # seen[p]
          /\ tries[p] < 2
          /\ Goto(p, "endRead")
          /\ UNCHANGED <<status, endVars>>
       \/ /\ status[target[p]] # seen[p]
          /\ tries[p] = 2
          /\ EndReturns(p)
          /\ UNCHANGED status
    /\ UNCHANGED <<parties, billed, nextCall, told, lock, caller, creator, held, lapses>>

\* The winner tells the other side, closes the room and drops the call's timers.
Announce(p) ==
    /\ pc[p] = "announce"
    /\ told' = [told EXCEPT ![target[p]] = IF @ < 2 THEN @ + 1 ELSE @]
    /\ EndReturns(p)
    /\ UNCHANGED <<rows, lock, caller, creator, held, lapses>>

----------------------------------------------------------------------------
(* Environment *)

\* An awaited call throws: an initiate releases its locks, anything else is over.
Fails(p) ==
    /\ pc[p] \notin {"idle", "release"}
    /\ \/ /\ caller[p] # None
          /\ Goto(p, "release")
          /\ UNCHANGED endVars
       \/ /\ caller[p] = None
          /\ Finish(p)
    /\ UNCHANGED <<rows, told, lock, caller, creator, held, lapses>>

\* The node running an initiate dies; the locks stay until their TTL.  (For the other
\* requests a crash is a failure.)
Crash(p) ==
    /\ caller[p] # None
    /\ Finish(p)
    /\ caller' = [caller EXCEPT ![p] = None]
    /\ creator' = [creator EXCEPT ![p] = None]
    /\ held' = [held EXCEPT ![p] = {}]
    /\ lock' = [u \in Users |-> IF lock[u] = p THEN Orphan ELSE lock[u]]
    /\ UNCHANGED <<rows, told, lapses>>

\* Mutant of ExpireLock: a lock that nobody releases has no TTL.
ExpireLockOfRunning(u) ==
    /\ lock[u] \in Procs /\ lapses < MaxLapses /\ lapses' = lapses + 1
    /\ SetLock(u, None)
    /\ UNCHANGED <<rows, told, pc, caller, creator, held, endVars>>

\* PX 5000 runs out: after its holder is gone, or (a lapse) while it still works.
ExpireLock(u) ==
    /\ \/ lock[u] = Orphan /\ UNCHANGED lapses
       \/ lock[u] \in Procs /\ lapses < MaxLapses /\ lapses' = lapses + 1
    /\ SetLock(u, None)
    /\ UNCHANGED <<rows, told, pc, caller, creator, held, endVars>>

Step(p) ==
    \/ LockCreator(p) \/ CallerBusy(p) \/ CreatorBusy(p) \/ Create(p) \/ Release(p)
    \/ LedgerAccept(p) \/ RejectUpdate(p)
    \/ EndRead(p) \/ EndUpdate(p) \/ Announce(p)

Next ==
    \/ \E p \in Procs : Step(p) \/ Fails(p) \/ Crash(p)
    \/ \E p \in Procs, c \in Users, r \in Users : Initiate(p, c, r) \/ InitiateUnlocked(p, c, r)
    \/ \E p \in Procs, i \in Calls : Accept(p, i) \/ Reject(p, i) \/ EndCall(p, i)
                                     \/ SweepRinging(p, i)
    \/ \E u \in Users : ExpireLock(u)

Spec == Init /\ [][Next]_vars

\* Every await is answered in the end, the locks' TTL runs out, and for every call that
\* rings too long the leader's sweep finds the time, and its queries succeed, in the end.
Fairness ==
    /\ \A p \in Procs : WF_vars(Step(p))
    /\ \A u \in Users : WF_vars(lock[u] = Orphan /\ ExpireLock(u))
    /\ \A i \in Calls :
         /\ SF_vars(\E p \in Procs : SweepRinging(p, i))
         /\ \A p \in Procs : /\ SF_vars(target[p] = i /\ EndRead(p))
                             /\ SF_vars(target[p] = i /\ EndUpdate(p))

FairSpec == Spec /\ Fairness

----------------------------------------------------------------------------
(* Properties *)

\* While no lock lapses, a user is in at most one live call, as caller or creator:
\* the busy checks are still true when the row is inserted, even with double taps,
\* two users calling each other, and stale calls that are ended on the way
\* ("so a double tap (or a client retry) can't create two RINGING sessions").
OneLiveCall == lapses = 0 => \A u \in Users : Cardinality(LiveCalls(u)) <= 1

\* A request loses its lock only by its own release, its death or the TTL: a release
\* that comes after the TTL never frees the lock of the next holder ("Owner-checked
\* release").
ReleasesOwnLock ==
    [][\A u \in Users :
         (lock[u] \in Procs /\ lock'[u] # lock[u] /\ lapses' = lapses)
             => u \notin held'[lock[u]]]_vars

\* Two attempts are enough: an endCall that returns without having won and without
\* an error leaves a call that is over, whatever accepted or ended it meanwhile.
EndLeavesCallOver ==
    [][\A p \in Procs :
         ((EndRead(p) \/ EndUpdate(p)) /\ pc'[p] \notin {"endRead", "endUpdate", "announce"})
             => status'[target[p]] \in Terminal]_vars

\* The requests together implement the atomic life of a call: one end wins, a call
\* that was billed is never MISSED or REJECTED, no end is announced twice.
Lifecycle == INSTANCE CallLifecycle
ImplementsLifecycle == Lifecycle!Spec

\* A call that nobody answers does not ring for ever (RINGING_TIMEOUT).
RingingEnds == \A i \in Calls : status[i] = "RINGING" ~> status[i] # "RINGING"

\* The initiate locks of a user become free again, also when a request or its node
\* died with them ("the TTL bounds a crash").
LocksFreed == \A u \in Users : lock[u] # None ~> lock[u] = None
============================================================================
