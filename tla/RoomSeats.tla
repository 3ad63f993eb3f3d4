----------------------------- MODULE RoomSeats -----------------------------
(***************************************************************************)
(* The audio seats of one live room: the Redis hash stream:sheet, its mute *)
(* flags, the sheet_unmute deadline and the admin restriction              *)
(* LIVE_AUDIO_MUTE.  A handler reads a seat in one await and writes the    *)
(* whole seat back in a later one (toggleUserSheetMuteService), so two     *)
(* handlers may write over each other.                                     *)
(***************************************************************************)
EXTENDS Integers

CONSTANTS Users,     \* viewers who may sit
          Requests,  \* handlers in flight
          MuteFor,   \* SHEET_UNMUTE_MS
          MaxTime    \* bound of the clock

ASSUME SeatsAssumption == MuteFor \in Nat \ {0} /\ MaxTime \in Nat

None == -1
NoSeat == [at |-> "none"]
Seat(m, h, t) == [at |-> "seat", muted |-> m, byHost |-> h, until |-> t]
Idle == [pc |-> "idle"]

VARIABLES clock,
          seat,      \* the hash, one field per user
          unmuteAt,  \* deadline sheet_unmute|stream:user, None when there is none
          restr,     \* the restriction row: "no", "yes" or "cleared"
          kickDue,   \* users whose setImmediate kick is still to run
          liftDue,   \* users whose setImmediate unmute is still to run
          op,        \* the handler in each slot
          reading,   \* users whose expired mute a getSheetUsersService is rewriting
          late       \* history: users a handler was under way for when they were kicked, or
                     \* whose restriction could not be read

seatVars == <<clock, seat, unmuteAt, restr, kickDue, liftDue, op, reading, late>>

SeatsInit ==
    /\ clock = 0
    /\ seat = [u \in Users |-> NoSeat]
    /\ unmuteAt = [u \in Users |-> None]
    /\ restr = [u \in Users |-> "no"]
    /\ kickDue = {} /\ liftDue = {} /\ reading = {} /\ late = {}
    /\ op = [r \in Requests |-> Idle]

Seated(u) == seat[u].at = "seat"
Heard(s) == s.at = "seat" /\ ~s.muted
Expired(s) == s.until # None /\ clock >= s.until

\* isUserRestrictedFast: a restriction in force is always found; one that was cleared may
\* still be read from the cache (module RoomCaches).
MayAnswer(u, ans) ==
    CASE restr[u] = "no"  -> ~ans
      [] restr[u] = "yes" -> ans
      [] OTHER            -> TRUE

Start(r, k, u, m, place) ==
    /\ op[r] = Idle
    /\ op' = [op EXCEPT ![r] = [k |-> k, u |-> u, m |-> m, pc |-> place, w |-> NoSeat]]
    /\ UNCHANGED <<clock, seat, restr, kickDue, reading, late>>

Finish(r) == op' = [op EXCEPT ![r] = Idle]

-----------------------------------------------------------------------------
\* Sitting down.

\* Mutant: sitting down does not ask for the restriction.
TakeSeatUnchecked(r, u) ==
    /\ Start(r, "join", u, FALSE, "add")
    /\ UNCHANGED <<unmuteAt, liftDue>>

\* The handler's own check of the restriction is past.
TakeSeat(r, u) ==
    /\ MayAnswer(u, FALSE)
    /\ Start(r, "join", u, FALSE, "add")
    /\ UNCHANGED <<unmuteAt, liftDue>>

\* checkUserRestriction takes a query that fails for "not restricted".
CheckFails(r, u) ==
    /\ op[r] = Idle
    /\ op' = [op EXCEPT ![r] = [k |-> "join", u |-> u, m |-> FALSE, pc |-> "add", w |-> NoSeat]]
    /\ late' = late \cup {u}
    /\ UNCHANGED <<clock, seat, unmuteAt, restr, kickDue, liftDue, reading>>

\* accept_sheet_invite of a viewer, request_to_join_sheet where the mic needs no permission,
\* and accept_sheet_request of the host or an admin.
AcceptInvite(r, u) == TakeSeat(r, u)
RequestToJoin(r, u) == TakeSeat(r, u)
AcceptRequest(r, u) == TakeSeat(r, u)

\* addUserToSheetService checks again; a restricted user sits muted, with no end to it.
Add(r) ==
    \E ans \in BOOLEAN :
        /\ MayAnswer(op[r].u, ans)
        /\ op' = [op EXCEPT ![r].pc = "put", ![r].w = Seat(ans, ans, None)]

-----------------------------------------------------------------------------
\* Muting and unmuting.

\* toggle_sheet_mute of the host or an admin; only an unmute asks for the restriction.
HostToggle(r, u, m) ==
    /\ m \/ MayAnswer(u, FALSE)
    /\ Start(r, "host", u, m, "get")
    /\ UNCHANGED <<unmuteAt, liftDue>>

\* toggle_self_mute reads the restriction, then the seat.
SelfToggle(r, u, m) ==
    /\ m \/ MayAnswer(u, FALSE)
    /\ Start(r, "self", u, m, "look")
    /\ UNCHANGED <<unmuteAt, liftDue>>

\* The sheet_unmute deadline is due and claimed (module DurableTimers).
UnmuteFires(r, u) ==
    /\ unmuteAt[u] # None /\ unmuteAt[u] <= clock
    /\ unmuteAt' = [unmuteAt EXCEPT ![u] = None]
    /\ Start(r, "fire", u, FALSE, "look")
    /\ UNCHANGED liftDue

\* autoUnmuteSheetUserIfRestricted, once the restriction has been cleared.
LiftRuns(r, u) ==
    /\ u \in liftDue
    /\ liftDue' = liftDue \ {u}
    /\ Start(r, "lift", u, FALSE, "look")
    /\ UNCHANGED unmuteAt

\* What the handler makes of the seat before it calls toggleUserSheetMuteService.
GoesOn(k, m, s) ==
    CASE k = "self" -> s.at = "none" \/ m \/ ~s.byHost \/ Expired(s)
      [] k = "fire" -> s.at = "seat" /\ s.byHost
      [] OTHER      -> s.at = "seat"

Look(r) ==
    IF GoesOn(op[r].k, op[r].m, seat[op[r].u])
    THEN op' = [op EXCEPT ![r].pc = "get"]
    ELSE Finish(r)

\* toggleUserSheetMuteService, the read: a user without a seat is left alone.
Get(r) ==
    LET h == op[r].k = "host" /\ op[r].m
    IN  IF Seated(op[r].u)
        THEN op' = [op EXCEPT ![r].pc = "put",
                              ![r].w = Seat(op[r].m, h, IF h THEN clock + MuteFor ELSE None)]
        ELSE Finish(r)

\* The write; toggle_sheet_mute schedules or cancels the deadline in a later await.
Put(r) ==
    /\ seat' = [seat EXCEPT ![op[r].u] = op[r].w]
    /\ IF op[r].k = "host" THEN op' = [op EXCEPT ![r].pc = "timer"] ELSE Finish(r)

SetTimer(r) ==
    /\ unmuteAt' = [unmuteAt EXCEPT ![op[r].u] = IF op[r].m THEN clock + MuteFor ELSE None]
    /\ Finish(r)

Step(r) ==
    \/ /\ \/ op[r].pc = "add"  /\ Add(r)
          \/ op[r].pc = "look" /\ Look(r)
          \/ op[r].pc = "get"  /\ Get(r)
       /\ UNCHANGED <<clock, seat, unmuteAt, restr, kickDue, liftDue, reading, late>>
    \/ /\ op[r].pc = "put" /\ Put(r)
       /\ UNCHANGED <<clock, unmuteAt, restr, kickDue, liftDue, reading, late>>
    \/ /\ op[r].pc = "timer" /\ SetTimer(r)
       /\ UNCHANGED <<clock, seat, restr, kickDue, liftDue, reading, late>>

\* getSheetUsersService rewrites a seat whose mute has run out.
ReadSheet(u) ==
    /\ u \notin reading /\ Seated(u) /\ seat[u].byHost /\ Expired(seat[u])
    /\ reading' = reading \cup {u}
    /\ UNCHANGED <<clock, seat, unmuteAt, restr, kickDue, liftDue, op, late>>

\* Mutant: the mute is only left out of the answer, not out of the hash.
RewriteNothing(u) ==
    /\ u \in reading
    /\ reading' = reading \ {u}
    /\ UNCHANGED <<clock, seat, unmuteAt, restr, kickDue, liftDue, op, late>>

Rewrite(u) ==
    /\ u \in reading
    /\ reading' = reading \ {u}
    /\ seat' = [seat EXCEPT ![u] = Seat(FALSE, FALSE, None)]
    /\ UNCHANGED <<clock, unmuteAt, restr, kickDue, liftDue, op, late>>

-----------------------------------------------------------------------------
\* Standing up.

\* removeUserFromSheetService; no deadline is cancelled.
StandUp(u) ==
    /\ Seated(u)
    /\ seat' = [seat EXCEPT ![u] = NoSeat]
    /\ UNCHANGED <<clock, unmuteAt, restr, kickDue, liftDue, op, reading, late>>

\* leave_sheet of the speaker and remove_from_sheet of the host; a socket that leaves the
\* room or closes does the same.
LeaveSheet(u) == StandUp(u)
RemoveFromSheet(u) == StandUp(u)
SocketGone(u) == StandUp(u)

\* A call of the host is accepted: the pause task empties the seats.
EmptyForCall ==
    /\ \E u \in Users : Seated(u)
    /\ seat' = [u \in Users |-> NoSeat]
    /\ UNCHANGED <<clock, unmuteAt, restr, kickDue, liftDue, op, reading, late>>

-----------------------------------------------------------------------------
\* The admin restriction.

\* applyUserRestrictionService commits; the kick runs in a setImmediate.
ApplyRestriction(u) ==
    /\ restr[u] = "no"
    /\ restr' = [restr EXCEPT ![u] = "yes"]
    /\ kickDue' = kickDue \cup {u}
    /\ UNCHANGED <<clock, seat, unmuteAt, liftDue, op, reading, late>>

Kick(u) ==
    /\ u \in kickDue
    /\ kickDue' = kickDue \ {u}
    /\ seat' = [seat EXCEPT ![u] = NoSeat]
    /\ late' = IF u \in reading \/ \E r \in Requests : op[r] # Idle /\ op[r].u = u
               THEN late \cup {u} ELSE late
    /\ UNCHANGED <<clock, unmuteAt, restr, liftDue, op, reading>>

\* clearRestrictionByIdService and clearRestrictionsByTypeService commit.
ClearRestriction(u) ==
    /\ restr[u] = "yes"
    /\ restr' = [restr EXCEPT ![u] = "cleared"]
    /\ liftDue' = liftDue \cup {u}
    /\ UNCHANGED <<clock, seat, unmuteAt, kickDue, op, reading, late>>

\* restrictedUntil passes: nobody is told, and nobody is unmuted.
RestrictionRunsOut(u) ==
    /\ restr[u] = "yes"
    /\ restr' = [restr EXCEPT ![u] = "cleared"]
    /\ UNCHANGED <<clock, seat, unmuteAt, kickDue, liftDue, op, reading, late>>

SeatsTick ==
    /\ clock < MaxTime
    /\ clock' = clock + 1
    /\ UNCHANGED <<seat, unmuteAt, restr, kickDue, liftDue, op, reading, late>>

SeatsNext ==
    \/ \E r \in Requests, u \in Users :
          \/ AcceptInvite(r, u) \/ RequestToJoin(r, u) \/ AcceptRequest(r, u) \/ CheckFails(r, u)
          \/ UnmuteFires(r, u) \/ LiftRuns(r, u)
          \/ \E m \in BOOLEAN : HostToggle(r, u, m) \/ SelfToggle(r, u, m)
    \/ \E r \in Requests : Step(r)
    \/ \E u \in Users :
          \/ ReadSheet(u) \/ Rewrite(u)
          \/ LeaveSheet(u) \/ RemoveFromSheet(u) \/ SocketGone(u)
          \/ ApplyRestriction(u) \/ Kick(u) \/ ClearRestriction(u) \/ RestrictionRunsOut(u)
    \/ EmptyForCall
    \/ SeatsTick

SeatsSpec == SeatsInit /\ [][SeatsNext]_seatVars

-----------------------------------------------------------------------------
\* Once the kick has run, a restricted user is off the seats and stays off them, unless a
\* handler was under way for them when it ran, or could not read the restriction: that one may
\* write back a seat it read, or checked for, before.
RestrictedOffSeats ==
    \A u \in Users : restr[u] = "yes" /\ u \notin kickDue /\ u \notin late => ~Seated(u)

\* A host's timed mute does not outlast its half hour for ever, though the deadline that
\* lifts it may be cancelled by a slower unmute or lost when the user moves seats: the seat
\* is unmuted, muted anew, or given up.
Overdue(u) == Seated(u) /\ seat[u].byHost /\ seat[u].until \in MuteFor..clock
MuteEnds == []<>(\A u \in Users : ~Overdue(u))
=============================================================================
