---------------------------- MODULE HostMonitor ----------------------------
(***************************************************************************)
(* The heartbeat monitor of one live stream (serviceHeartbeat.js,          *)
(* heartbeatPolicy.js) and what it must not mistake for a lost host: a     *)
(* video call, which takes the host out of the room, and the two minutes   *)
(* to come back from it.  A check of the leader runs from await to await,  *)
(* with the `now` of the beginning of its tick.                            *)
(* Time is counted in ticks; an age stands for the time since its instant. *)
(***************************************************************************)
EXTENDS Integers

CONSTANTS Timeout,      \* HEARTBEAT_TIMEOUT_MS
          KeySlack,     \* the 15 s by which the heartbeat key outlives it
          StartGrace,   \* HEARTBEAT_START_GRACE_MS
          GhostGrace,   \* LIVEKIT_HOST_GRACE_MS
          ReturnGrace,  \* the 120 s to return from a call
          MaxLag,       \* how many ticks a check may last
          MaxFaults     \* bound: Redis outages and checks that fail

ASSUME MonitorAssumption ==
    /\ Timeout \in Nat /\ StartGrace \in Nat /\ GhostGrace \in Nat
    /\ MaxLag \in Nat /\ MaxFaults \in Nat
    /\ KeySlack \in Nat \ {0} /\ ReturnGrace \in Nat \ {0}
    /\ StartGrace <= GhostGrace /\ GhostGrace <= Timeout

KeyTTLShort == Timeout         \* mutant: the key lives as long as the timeout
KeyTTL == Timeout + KeySlack   \* HEARTBEAT_KEY_TTL_SEC
NoBeat == KeyTTL               \* the age at which the heartbeat key is gone
AgeCap == Timeout + 1 + MaxLag \* an older stream is treated alike

VARIABLES endedBy,    \* the end reason of the stream, "none" while it is live
          age,        \* time since startedAt
          beat,       \* age of stream:heartbeat, NoBeat when there is no key
          confirmed,  \* stream:host_confirmed
          retKey,     \* time left of host:return_timer, 0 when there is no key
          pauseKey,   \* video_call:stream_pause of the latest call
          open,       \* redisClient.isOpen
          lk,         \* the host is in the LiveKit room
          gone,       \* the host's app is dead for good
          call,       \* the host is in an ACTIVE call
          pausing,    \* acceptCall's background task has not set pauseKey yet
          ending,     \* place of endCall's background task
          pc,         \* place of the check, "idle" between two checks
          lag,        \* time since its `now`
          inRoom,     \* its hostInLk
          quiet,      \* history: time since a heartbeat was written, or since the start
          seen,       \* history: a check has seen the host in the room
          shelter,    \* history: what spoke for the host all through this check
          faults

host    == <<lk, gone, call>>
tasks   == <<pausing, ending, pauseKey>>
redis   == <<confirmed, retKey>>
beats   == <<beat, quiet>>
check   == <<lag, inRoom>>
vars    == <<endedBy, age, beat, confirmed, retKey, pauseKey, open, lk, gone, call, pausing,
             ending, pc, lag, inRoom, quiet, seen, shelter, faults>>

Places   == {"idle", "presence", "ghostCall", "ghostGrace", "confirmed", "ghostEnd", "beat",
             "keep", "lostCall", "lostGrace", "lostEnd"}
Reasons  == {"NO_LIVEKIT_HOST", "HEARTBEAT_LOST", "OTHER"}
Shelters == {"call", "grace", "room", "paused"}

TypeOK ==
    /\ endedBy \in Reasons \cup {"none"}
    /\ age \in 0..AgeCap /\ beat \in 0..NoBeat /\ quiet \in 0..(Timeout + 1)
    /\ retKey \in 0..ReturnGrace /\ lag \in 0..MaxLag /\ faults \in 0..MaxFaults
    /\ confirmed \in BOOLEAN /\ pauseKey \in BOOLEAN /\ open \in BOOLEAN /\ lk \in BOOLEAN
    /\ gone \in BOOLEAN /\ call \in BOOLEAN /\ pausing \in BOOLEAN /\ inRoom \in BOOLEAN
    /\ seen \in BOOLEAN
    /\ ending \in {"none", "read", "keys"}
    /\ pc \in Places
    /\ shelter \subseteq Shelters

\* The row has just been created: nobody is in the room and nothing is in Redis.
Init ==
    /\ endedBy = "none" /\ age = 0 /\ beat = NoBeat /\ quiet = 0 /\ retKey = 0
    /\ confirmed = FALSE /\ pauseKey = FALSE /\ open = TRUE
    /\ lk = FALSE /\ gone = FALSE /\ call = FALSE /\ pausing = FALSE /\ ending = "none"
    /\ pc = "idle" /\ lag = 0 /\ inRoom = FALSE
    /\ seen = FALSE /\ shelter = {} /\ faults = 0

Live == endedBy = "none"
Cap(n, max) == IF n < max THEN n ELSE max

-----------------------------------------------------------------------------
\* The host's app and LiveKit.

EnterRoom ==
    /\ Live /\ ~lk /\ ~gone
    /\ lk' = TRUE
    /\ UNCHANGED <<endedBy, age, beats, redis, tasks, open, gone, call, pc, check, seen, faults>>

LeaveRoom ==
    /\ Live /\ lk
    /\ lk' = FALSE
    /\ UNCHANGED <<endedBy, age, beats, redis, tasks, open, gone, call, pc, check, seen, faults>>

\* The app dies or its network does, for good.
Vanish ==
    /\ Live /\ ~gone
    /\ gone' = TRUE
    /\ UNCHANGED <<endedBy, age, beats, redis, tasks, open, lk, call, pc, check, seen, faults>>

\* recordStreamHeartbeat writes the key with its TTL, when Redis is open.
WriteBeat ==
    IF open THEN beat' = 0 /\ quiet' = 0 ELSE UNCHANGED beats

\* stream_heartbeat, or POST heartbeat.
Heartbeat ==
    /\ Live /\ ~gone
    /\ WriteBeat
    /\ UNCHANGED <<endedBy, age, redis, tasks, open, host, pc, check, seen, faults>>

\* join_stream of the host: within the window it deletes the return keys.
Rejoin ==
    /\ Live /\ ~gone /\ open /\ retKey > 0
    /\ retKey' = 0
    /\ UNCHANGED <<endedBy, age, beats, confirmed, tasks, open, host, pc, check, seen, faults>>

\* The host, moderation or a grace timer ends the stream.
EndedElsewhere ==
    /\ Live
    /\ endedBy' = "OTHER"
    /\ UNCHANGED <<age, beats, redis, tasks, open, host, pc, check, seen, faults>>

-----------------------------------------------------------------------------
\* A call of the host, as far as the stream is concerned.

\* acceptCall; the pause of the stream is left to a background task.
Accept ==
    /\ Live /\ ~gone /\ ~call /\ ~pausing /\ ending = "none"
    /\ call' = TRUE
    /\ pausing' = TRUE
    /\ pauseKey' = FALSE            \* the key of another session
    /\ UNCHANGED <<endedBy, age, beats, redis, ending, open, lk, gone, pc, check, seen, faults>>

\* That task: it sets video_call:stream_pause, or fails.
Pause ==
    /\ pausing
    /\ pausing' = FALSE
    /\ pauseKey' = (Live /\ open)
    /\ UNCHANGED <<endedBy, age, beats, redis, ending, open, host, pc, check, seen, faults>>

\* endCall turns the row; the return window is left to a background task.
EndCall ==
    /\ call /\ ending = "none"
    /\ call' = FALSE
    /\ ending' = "read"
    /\ UNCHANGED <<endedBy, age, beats, redis, pausing, pauseKey, open, lk, gone, pc, check, seen, faults>>

\* It reads the pause key, and the row of the live stream ...
ReadPause ==
    /\ ending = "read"
    /\ ending' = IF open /\ pauseKey THEN "keys" ELSE "none"
    /\ UNCHANGED <<endedBy, age, beats, redis, pausing, pauseKey, open, host, pc, check, seen, faults>>

\* ... and opens the window.
OpenReturn ==
    /\ ending = "keys"
    /\ ending' = "none"
    /\ retKey' = IF open THEN ReturnGrace ELSE retKey
    /\ UNCHANGED <<endedBy, age, beats, confirmed, pausing, pauseKey, open, host, pc, check, seen, faults>>

-----------------------------------------------------------------------------
\* One check (checkStream), await by await.

Goto(place) == pc' = place /\ UNCHANGED check

\* The leader's tick: it reads the live rows and then `now`.  Without an age to speak of
\* nothing is looked at.
Begin ==
    /\ pc = "idle" /\ Live /\ age >= StartGrace
    /\ pc' = IF age >= GhostGrace THEN "presence" ELSE "beat"
    /\ lag' = 0
    /\ inRoom' = FALSE
    /\ UNCHANGED <<endedBy, age, beats, redis, tasks, open, host, seen, faults>>

\* Mutant: the sighting is not remembered.
ReadPresenceForgets ==
    /\ pc = "presence"
    /\ \E here \in {lk, FALSE} :
        /\ inRoom' = here
        /\ seen' = (seen \/ here)
        /\ pc' = IF here THEN "beat" ELSE "ghostCall"
    /\ UNCHANGED <<endedBy, age, beats, redis, tasks, open, host, lag, faults>>

\* LiveKit is asked for the host; an error of its API counts as absence.
ReadPresence ==
    /\ pc = "presence"
    /\ \E here \in {lk, FALSE} :
        /\ inRoom' = here
        /\ confirmed' = (confirmed \/ (here /\ open))
        /\ seen' = (seen \/ here)
        /\ pc' = IF here THEN "beat" ELSE "ghostCall"
    /\ UNCHANGED <<endedBy, age, beats, retKey, tasks, open, host, lag, faults>>

\* Mutant: the call is not asked for when the heartbeat is lost.
ReadCallGhostOnly ==
    /\ \/ pc = "ghostCall" /\ Goto(IF call THEN "beat" ELSE "ghostGrace")
       \/ pc = "lostCall"  /\ Goto("lostGrace")
    /\ UNCHANGED <<endedBy, age, beats, redis, tasks, open, host, seen, faults>>

\* hostPausedForCallOrReturn, for the ghost sweep and for a lost heartbeat:
\* first the row of an active call ...
ReadCall ==
    /\ \/ pc = "ghostCall" /\ Goto(IF call THEN "beat" ELSE "ghostGrace")
       \/ pc = "lostCall"  /\ Goto(IF call THEN "idle" ELSE "lostGrace")
    /\ UNCHANGED <<endedBy, age, beats, redis, tasks, open, host, seen, faults>>

\* ... then the return keys.
ReadGrace ==
    /\ LET paused == open /\ retKey > 0
       IN \/ pc = "ghostGrace" /\ Goto(IF paused THEN "beat" ELSE "confirmed")
          \/ pc = "lostGrace"  /\ Goto(IF paused THEN "idle" ELSE "lostEnd")
    /\ UNCHANGED <<endedBy, age, beats, redis, tasks, open, host, seen, faults>>

\* A host who has been in the room is left to the heartbeat.
ReadConfirmed ==
    /\ pc = "confirmed"
    /\ Goto(IF open /\ confirmed THEN "beat" ELSE "ghostEnd")
    /\ UNCHANGED <<endedBy, age, beats, redis, tasks, open, host, seen, faults>>

\* Mutant: a stream without a heartbeat key is not silent.
SinceLastPingOrZero == IF open /\ beat # NoBeat THEN beat - lag ELSE 0

\* The silence the check sees: seen from its `now`, and the age of the stream without a key.
SinceLastPing == (IF open /\ beat # NoBeat THEN beat ELSE age) - lag

ReadBeat ==
    /\ pc = "beat"
    /\ Goto(CASE SinceLastPing <= Timeout -> "idle"
              [] SinceLastPing > Timeout /\ inRoom -> "keep"
              [] SinceLastPing > Timeout /\ ~inRoom -> "lostCall")
    /\ UNCHANGED <<endedBy, age, beats, redis, tasks, open, host, seen, faults>>

\* LIVE-19: a host in the room is kept alive.
KeepAlive ==
    /\ pc = "keep"
    /\ WriteBeat
    /\ confirmed' = (confirmed \/ open)
    /\ Goto("idle")
    /\ UNCHANGED <<endedBy, age, retKey, tasks, open, host, seen, faults>>

\* endFromSweep: the end counts if the stream is still live.
EndFromSweep ==
    /\ \/ pc = "ghostEnd" /\ endedBy' = IF Live THEN "NO_LIVEKIT_HOST" ELSE endedBy
       \/ pc = "lostEnd"  /\ endedBy' = IF Live THEN "HEARTBEAT_LOST" ELSE endedBy
    /\ Goto("idle")
    /\ UNCHANGED <<age, beats, redis, tasks, open, host, seen, faults>>

CheckStep ==
    \/ ReadPresence \/ ReadCall \/ ReadGrace \/ ReadConfirmed \/ ReadBeat
    \/ KeepAlive \/ EndFromSweep

-----------------------------------------------------------------------------
\* Faults and time.

\* A read throws, or the leader dies: the check is over.
CheckFails ==
    /\ pc # "idle" /\ faults < MaxFaults
    /\ Goto("idle")
    /\ faults' = faults + 1
    /\ UNCHANGED <<endedBy, age, beats, redis, tasks, open, host, seen>>

RedisCloses ==
    /\ Live /\ open /\ faults < MaxFaults
    /\ open' = FALSE
    /\ faults' = faults + 1
    /\ UNCHANGED <<endedBy, age, beats, redis, tasks, host, pc, check, seen>>

RedisOpens ==
    /\ Live /\ ~open
    /\ open' = TRUE
    /\ UNCHANGED <<endedBy, age, beats, redis, tasks, host, pc, check, seen, faults>>

\* Time passes; keys reach the end of their life.  The background tasks of a call take far
\* less than a tick.
Tick ==
    /\ Live /\ ~pausing /\ ending = "none"
    /\ pc = "idle" \/ lag < MaxLag
    /\ age' = Cap(age + 1, AgeCap)
    /\ beat' = Cap(beat + 1, NoBeat)
    /\ quiet' = Cap(quiet + 1, Timeout + 1)
    /\ retKey' = IF retKey > 0 THEN retKey - 1 ELSE 0
    /\ lag' = IF pc = "idle" THEN lag ELSE lag + 1
    /\ UNCHANGED <<endedBy, confirmed, tasks, open, host, pc, inRoom, seen, faults>>

\* What speaks for the host now.  "paused" is what the heartbeat policy promises: a call, or
\* the window after it, whether its keys have been set yet or not.
Now == {s \in Shelters :
          \/ s = "call"   /\ call
          \/ s = "grace"  /\ open /\ retKey > 0
          \/ s = "room"   /\ lk
          \/ s = "paused" /\ open /\ (call \/ (ending # "none" /\ pauseKey) \/ retKey > 0)}

\* LiveKit has answered with an error.
NoAnswer == pc = "presence" /\ lk /\ pc' = "ghostCall"

Remember ==
    shelter' = IF pc' = "idle" THEN {}
               ELSE IF pc = "idle" THEN Now'
               ELSE (shelter \cap Now') \ (IF NoAnswer THEN {"room"} ELSE {})

Next ==
    /\ \/ EnterRoom \/ LeaveRoom \/ Vanish \/ Heartbeat \/ Rejoin \/ EndedElsewhere
       \/ Accept \/ Pause \/ EndCall \/ ReadPause \/ OpenReturn
       \/ Begin \/ CheckStep
       \/ CheckFails \/ RedisCloses \/ RedisOpens \/ Tick
    /\ Remember

Spec == Init /\ [][Next]_vars

\* The monitor ticks every 5 s, its awaits are answered, time passes; the background tasks of
\* a call run; LiveKit drops a host whose app is dead, and the sweep of calls ends its call.
Fairness ==
    /\ WF_vars(Begin /\ Remember) /\ WF_vars(CheckStep /\ Remember) /\ WF_vars(Tick /\ Remember)
    /\ WF_vars((Pause \/ ReadPause \/ OpenReturn) /\ Remember)
    /\ WF_vars(gone /\ LeaveRoom /\ Remember) /\ WF_vars(gone /\ EndCall /\ Remember)

FairSpec == Spec /\ Fairness

-----------------------------------------------------------------------------
(* Properties *)

\* serviceHeartbeat.js:22: the key outlives the timeout, so that a check which reads it takes a
\* heartbeat for lost only if none was written for more than Timeout, not because the stream is
\* old.  One that finds Redis closed sees no heartbeat, not even a fresh one, and goes by the
\* age of the stream.
LostAfterSilence ==
    [][pc = "beat" /\ pc' = "lostCall" => IF open THEN quiet > Timeout ELSE age > Timeout]_vars

\* Whatever speaks for the host all through a check keeps the monitor from ending the stream:
\* a call, the keys of the return window, or presence in LiveKit that LiveKit reports.
MonitorSpares ==
    pc \in {"ghostEnd", "lostEnd"} => shelter \cap {"call", "grace", "room"} = {}

\* A host a check has seen in the room is never taken for one who did not connect, unless
\* Redis forgets or a check fails.
GhostNeverSeen == endedBy = "NO_LIVEKIT_HOST" /\ faults = 0 => ~seen

\* The stream of a host who is gone for good ends.
GoneEnds == gone ~> ~Live

\* heartbeatPolicy.js:18: a stale heartbeat of a host who is "on a video call / inside the return
\* grace" pauses the stream; it does not end it.
PausedKeepsStream == pc = "lostEnd" => "paused" \notin shelter
============================================================================
