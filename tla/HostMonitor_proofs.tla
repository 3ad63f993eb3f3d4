------------------------ MODULE HostMonitor_proofs ------------------------
(***************************************************************************)
(* Proofs about HostMonitor, for any length of its graces and time-outs.   *)
(***************************************************************************)
EXTENDS HostMonitor, TLAPS

\* The actions of Next.
Step ==
    \/ EnterRoom \/ LeaveRoom \/ Vanish \/ Heartbeat \/ Rejoin \/ EndedElsewhere
    \/ Accept \/ Pause \/ EndCall \/ ReadPause \/ OpenReturn
    \/ Begin \/ CheckStep
    \/ CheckFails \/ RedisCloses \/ RedisOpens \/ Tick

LEMMA NextIsStep == Next <=> Step /\ Remember
BY DEF Next, Step

-----------------------------------------------------------------------------
(* Types *)

\* The two halves of TypeOK, which need different provers.
Values ==
    /\ endedBy \in Reasons \cup {"none"}
    /\ age \in 0..AgeCap /\ beat \in 0..NoBeat /\ quiet \in 0..(Timeout + 1)
    /\ retKey \in 0..ReturnGrace /\ lag \in 0..MaxLag /\ faults \in 0..MaxFaults
    /\ ending \in {"none", "read", "keys"}
    /\ pc \in Places
    /\ shelter \subseteq Shelters

Flags ==
    /\ confirmed \in BOOLEAN /\ pauseKey \in BOOLEAN /\ open \in BOOLEAN /\ lk \in BOOLEAN
    /\ gone \in BOOLEAN /\ call \in BOOLEAN /\ pausing \in BOOLEAN /\ inRoom \in BOOLEAN
    /\ seen \in BOOLEAN

LEMMA Halves == TypeOK <=> Values /\ Flags
BY DEF TypeOK, Values, Flags

LEMMA InitTypes == Init => TypeOK
<1> SUFFICES ASSUME Init PROVE Values /\ Flags
  BY Halves
<1>1. Values
  BY MonitorAssumption DEF Init, Values, Places, Shelters, Reasons, NoBeat, KeyTTL, AgeCap
<1>2. Flags
  BY Zenon DEF Init, Flags
<1>3. QED BY <1>1, <1>2

LEMMA NextTypes == TypeOK /\ [Next]_vars => TypeOK'
<1> SUFFICES ASSUME Values, Flags, [Next]_vars PROVE Values' /\ Flags'
  BY Halves DEF TypeOK, Values, Flags
<1> DEFINE Numbers == /\ endedBy \in Reasons \cup {"none"}
                      /\ age \in 0..AgeCap /\ beat \in 0..NoBeat /\ quiet \in 0..(Timeout + 1)
                      /\ retKey \in 0..ReturnGrace /\ lag \in 0..MaxLag /\ faults \in 0..MaxFaults
                      /\ ending \in {"none", "read", "keys"}
                      /\ pc \in Places
<1>1. CASE UNCHANGED vars
  BY <1>1 DEF vars, Values, Flags
<1>2. CASE Step /\ Remember
  <2>1. shelter' \subseteq Shelters
    BY <1>2 DEF Remember, Now, Shelters, Values
  <2>2. Numbers'
    <3> USE MonitorAssumption DEF Values, NoBeat, KeyTTL, AgeCap
    <3>1. CASE EnterRoom \/ LeaveRoom \/ Vanish
      BY <3>1 DEF EnterRoom, LeaveRoom, Vanish, beats, redis, tasks, check
    <3>2. CASE Heartbeat \/ Rejoin \/ EndedElsewhere
      BY <3>2 DEF Heartbeat, Rejoin, EndedElsewhere, WriteBeat, beats, redis, tasks, check, host, Reasons
    <3>3. CASE Accept \/ Pause \/ EndCall \/ ReadPause \/ OpenReturn
      BY <3>3 DEF Accept, Pause, EndCall, ReadPause, OpenReturn, Live, beats, redis, tasks, check, host
    <3>4. CASE Begin \/ CheckFails
      BY <3>4 DEF Begin, CheckFails, Goto, beats, redis, tasks, check, host, Places
    <3>5. CASE ReadPresence
      BY <3>5 DEF ReadPresence, beats, redis, tasks, check, host, Places
    <3>6. CASE ReadCall \/ ReadGrace \/ ReadConfirmed
      BY <3>6 DEF ReadCall, ReadGrace, ReadConfirmed, Goto, beats, redis, tasks, check, host, Places
    <3>7. CASE ReadBeat
      BY <3>7 DEF ReadBeat, SinceLastPing, Goto, beats, redis, tasks, check, host, Places
    <3>8. CASE KeepAlive \/ EndFromSweep
      BY <3>8 DEF KeepAlive, EndFromSweep, WriteBeat, Goto, beats, redis, tasks, check, host, Places, Reasons
    <3>9. CASE RedisCloses \/ RedisOpens
      BY <3>9 DEF RedisCloses, RedisOpens, beats, redis, tasks, check, host
    <3>10. CASE Tick
      BY <3>10 DEF Tick, Cap, beats, redis, tasks, check, host, Places
    <3>11. QED BY <1>2, <3>1, <3>2, <3>3, <3>4, <3>5, <3>6, <3>7, <3>8, <3>9, <3>10 DEF Step, CheckStep
  <2>3. Flags'
    <3>1. CASE EnterRoom \/ LeaveRoom \/ Vanish \/ Heartbeat \/ Rejoin \/ EndedElsewhere
      BY <3>1, Zenon DEF Flags, EnterRoom, LeaveRoom, Vanish, Heartbeat, Rejoin, EndedElsewhere, beats, redis, tasks, check, host
    <3>2. CASE Accept \/ Pause \/ EndCall \/ ReadPause \/ OpenReturn
      BY <3>2, Zenon DEF Flags, Accept, Pause, EndCall, ReadPause, OpenReturn, Live, beats, redis, tasks, check, host
    <3>3. CASE Begin \/ CheckFails \/ RedisCloses \/ RedisOpens \/ Tick
      BY <3>3, Zenon DEF Flags, Begin, CheckFails, RedisCloses, RedisOpens, Tick, Goto, beats, redis, tasks, check, host
    <3>4. CASE ReadPresence
      BY <3>4, Zenon DEF Flags, ReadPresence, beats, redis, tasks, check, host
    <3>5. CASE ReadCall \/ ReadGrace \/ ReadConfirmed \/ ReadBeat
      BY <3>5, Zenon DEF Flags, ReadCall, ReadGrace, ReadConfirmed, ReadBeat, Goto, beats, redis, tasks, check, host
    <3>6. CASE KeepAlive \/ EndFromSweep
      BY <3>6, Zenon DEF Flags, KeepAlive, EndFromSweep, Goto, beats, redis, tasks, check, host
    <3>7. QED BY <1>2, <3>1, <3>2, <3>3, <3>4, <3>5, <3>6 DEF Step, CheckStep
  <2>4. QED BY <2>1, <2>2, <2>3 DEF Values
<1>3. QED BY <1>1, <1>2, NextIsStep

\* Every reachable state is of its type.
THEOREM TypeCorrect == Spec => []TypeOK
BY InitTypes, NextTypes, PTL DEF Spec

-----------------------------------------------------------------------------
(* A heartbeat is taken for lost only after silence *)

\* quiet is the age of the key while there is one; without a key it is either past the
\* timeout, because the key outlives it, or the age of the stream.
QuietInv ==
    /\ beat < NoBeat => quiet = Cap(beat, Timeout + 1) /\ (beat <= age \/ age = AgeCap)
    /\ beat = NoBeat => quiet >= Cap(age, Timeout + 1)

LEMMA InitQuiet == Init => QuietInv
BY MonitorAssumption DEF Init, QuietInv, NoBeat, KeyTTL, Cap, AgeCap

LEMMA NextQuiet == TypeOK /\ QuietInv /\ [Next]_vars => QuietInv'
<1> SUFFICES ASSUME Values, QuietInv, [Next]_vars PROVE QuietInv'
  BY Halves
<1> USE MonitorAssumption DEF Values, NoBeat, KeyTTL, AgeCap
<1>1. CASE UNCHANGED <<beat, quiet, age>>
  BY <1>1 DEF QuietInv, Cap
<1>2. CASE WriteBeat /\ UNCHANGED age
  BY <1>2 DEF QuietInv, WriteBeat, Cap, beats
<1>3. CASE Tick
  BY <1>3 DEF QuietInv, Tick, Cap
<1>4. Step => (WriteBeat /\ UNCHANGED age) \/ Tick \/ UNCHANGED <<beat, quiet, age>>
  BY DEF Step, CheckStep, EnterRoom, LeaveRoom, Vanish, Heartbeat, Rejoin, EndedElsewhere, Accept,
         Pause, EndCall, ReadPause, OpenReturn, Begin, ReadPresence, ReadCall, ReadGrace,
         ReadConfirmed, ReadBeat, KeepAlive, EndFromSweep, CheckFails, RedisCloses, RedisOpens, beats
<1>5. QED BY <1>1, <1>2, <1>3, <1>4, NextIsStep DEF vars

\* Where the reading of the heartbeat leads.
LEMMA ReadBeatPlaces ==
    ASSUME Values, ReadBeat
    PROVE  /\ pc' \in {"idle", "keep", "lostCall"}
           /\ pc' = "lostCall" => SinceLastPing > Timeout /\ ~inRoom
<1> USE MonitorAssumption DEF Values, NoBeat, KeyTTL, AgeCap
<1>1. SinceLastPing \in Int
  BY DEF SinceLastPing
<1>2. CASE SinceLastPing <= Timeout
  BY <1>1, <1>2 DEF ReadBeat, Goto
<1>3. CASE SinceLastPing > Timeout /\ inRoom
  BY <1>1, <1>3 DEF ReadBeat, Goto
<1>4. CASE SinceLastPing > Timeout /\ ~inRoom
  BY <1>1, <1>4 DEF ReadBeat, Goto
<1>5. QED BY <1>1, <1>2, <1>3, <1>4

\* Only ReadBeat takes a heartbeat for lost.
LEMMA LostByRead == Next /\ pc = "beat" /\ pc' = "lostCall" => ReadBeat
<1> SUFFICES ASSUME Step, pc = "beat", pc' = "lostCall" PROVE ReadBeat
  BY NextIsStep
<1>1. QED
  BY DEF Step, CheckStep, EnterRoom, LeaveRoom, Vanish, Heartbeat, Rejoin, EndedElsewhere, Accept,
         Pause, EndCall, ReadPause, OpenReturn, Begin, ReadPresence, ReadCall, ReadGrace,
         ReadConfirmed, KeepAlive, EndFromSweep, CheckFails, RedisCloses, RedisOpens, Tick, Goto

\* With Redis open what a check compares is no more than the time since the last heartbeat, with
\* Redis closed no more than the age of the stream.
LEMMA LostQuiet ==
    TypeOK /\ QuietInv /\ [Next]_vars
        => (pc = "beat" /\ pc' = "lostCall" => IF open THEN quiet > Timeout ELSE age > Timeout)
<1> SUFFICES ASSUME Values, QuietInv, [Next]_vars, pc = "beat", pc' = "lostCall"
             PROVE  IF open THEN quiet > Timeout ELSE age > Timeout
  BY Halves
<1> USE MonitorAssumption DEF Values, NoBeat, KeyTTL, AgeCap
<1>1. ReadBeat
  BY LostByRead DEF vars
<1>2. SinceLastPing > Timeout
  BY <1>1 DEF ReadBeat, Goto, SinceLastPing
<1>3. CASE open /\ beat = NoBeat
  BY <1>2, <1>3 DEF SinceLastPing, QuietInv, Cap
<1>4. CASE open /\ beat < NoBeat
  BY <1>2, <1>4 DEF SinceLastPing, QuietInv, Cap
<1>5. CASE ~open
  BY <1>2, <1>5 DEF SinceLastPing
<1>6. QED BY <1>3, <1>4, <1>5

\* The key of the heartbeat outlives the timeout, so that no check which reads it takes a
\* heartbeat for lost before Timeout has passed since the last one; one that finds Redis closed
\* goes by the age of the stream, whatever heartbeats there were.
THEOREM Lost == Spec => LostAfterSilence
<1>1. [](TypeOK /\ QuietInv) /\ [][Next]_vars
        => [][pc = "beat" /\ pc' = "lostCall" => IF open THEN quiet > Timeout ELSE age > Timeout]_vars
  BY LostQuiet, PTL
<1>2. Spec => [](TypeOK /\ QuietInv)
  BY InitTypes, InitQuiet, NextTypes, NextQuiet, PTL DEF Spec
<1>3. QED BY <1>1, <1>2, PTL DEF Spec, LostAfterSilence

-----------------------------------------------------------------------------
(* What speaks for the host spares the stream *)

\* What the place of a check says of the past it has been through: once the presence, the call
\* or the return keys have been read in vain, they did not hold all the time.  A check of a
\* stream too young for the ghost sweep does not ask for presence, and finds no silence either.
AfterPresence == {"ghostCall", "ghostGrace", "confirmed", "ghostEnd", "lostCall", "lostGrace", "lostEnd"}
AfterCall     == {"ghostGrace", "confirmed", "ghostEnd", "lostGrace", "lostEnd"}
AfterGrace    == {"confirmed", "ghostEnd", "lostEnd"}

SpareInv ==
    /\ pc \in AfterPresence => "room" \notin shelter
    /\ pc = "beat" /\ ~inRoom /\ "room" \in shelter => age - lag < GhostGrace
    /\ pc \in AfterCall => "call" \notin shelter
    /\ pc \in AfterGrace => "grace" \notin shelter

LEMMA InitSpare == Init => SpareInv
BY DEF Init, SpareInv

\* A shelter does not come back in the course of a check.
LEMMA Shrinks ==
    ASSUME Remember, pc # "idle" PROVE shelter' \subseteq shelter \cap Now'
BY DEF Remember

LEMMA NextSpare == TypeOK /\ QuietInv /\ SpareInv /\ [Next]_vars => SpareInv'
<1> SUFFICES ASSUME Values, Flags, QuietInv, SpareInv, [Next]_vars PROVE SpareInv'
  BY Halves DEF TypeOK, Values, Flags
<1> USE DEF AfterPresence, AfterCall, AfterGrace
<1>1. CASE UNCHANGED vars
  BY <1>1 DEF vars, SpareInv
<1>2. CASE Step /\ Remember
  <2>1. CASE UNCHANGED <<pc, inRoom, age, lag>>
    <3>1. CASE pc = "idle"
      BY <2>1, <3>1 DEF SpareInv
    <3>2. CASE pc # "idle"
      BY <2>1, <3>2, <1>2, Shrinks DEF SpareInv
    <3>3. QED BY <3>1, <3>2
  <2>2. CASE pc' = "idle"
    BY <2>2 DEF SpareInv
  <2>3. CASE Begin
    <3>1. pc' \in {"presence", "beat"} /\ age' = age /\ lag' = 0 /\ (pc' = "beat" => ~(age >= GhostGrace))
      BY <2>3 DEF Begin
    <3>2. QED BY <3>1, MonitorAssumption DEF SpareInv, Values, AgeCap
  <2>4. CASE ReadPresence
    <3>1. PICK here \in {lk, FALSE} : inRoom' = here /\ pc' = IF here THEN "beat" ELSE "ghostCall"
      BY <2>4 DEF ReadPresence
    <3>2. CASE here
      <4>1. inRoom' /\ pc' = "beat"
        BY <3>1, <3>2
      <4>2. QED BY <4>1 DEF SpareInv
    <3>3. CASE ~here
      <4>1. pc' = "ghostCall" /\ lk' = lk /\ pc = "presence"
        BY <3>1, <3>3, <2>4 DEF ReadPresence, host
      <4>2. "room" \notin shelter'
        <5>1. CASE lk
          BY <4>1, <5>1, <1>2 DEF Remember, NoAnswer
        <5>2. CASE ~lk
          BY <4>1, <5>2, <1>2, Shrinks DEF Now
        <5>3. QED BY <5>1, <5>2
      <4>3. QED BY <4>1, <4>2 DEF SpareInv
    <3>4. QED BY <3>2, <3>3
  <2>5. CASE ReadCall
    <3>1. pc # "idle" /\ shelter' \subseteq shelter \cap Now' /\ UNCHANGED <<call, age, lag, inRoom>>
      BY <2>5, <1>2, Shrinks DEF ReadCall, host, check, Goto
    <3>2. CASE call /\ pc = "ghostCall"
      <4>1. pc' = "beat" /\ "room" \notin shelter'
        BY <2>5, <3>1, <3>2 DEF ReadCall, Goto, SpareInv
      <4>2. QED BY <4>1 DEF SpareInv
    <3>3. CASE call /\ pc = "lostCall"
      BY <2>2, <2>5, <3>3 DEF ReadCall, Goto
    <3>4. CASE ~call
      <4>1. "call" \notin shelter'
        BY <3>1, <3>4 DEF Now
      <4>2. pc \in {"ghostCall", "lostCall"} /\ pc' \in {"ghostGrace", "lostGrace"}
        BY <2>5, <3>4 DEF ReadCall, Goto
      <4>3. QED BY <3>1, <4>1, <4>2 DEF SpareInv
    <3>5. QED BY <2>5, <3>2, <3>3, <3>4 DEF ReadCall
  <2>6. CASE ReadGrace
    <3>1. /\ pc \in {"ghostGrace", "lostGrace"} /\ shelter' \subseteq shelter \cap Now'
          /\ UNCHANGED <<open, retKey, age, lag, inRoom>>
      BY <2>6, <1>2, Shrinks DEF ReadGrace, redis, check, Goto
    <3>2. "room" \notin shelter' /\ "call" \notin shelter'
      BY <3>1 DEF SpareInv
    <3>3. CASE open /\ retKey > 0
      BY <2>6, <3>1, <3>2, <3>3 DEF ReadGrace, Goto, SpareInv
    <3>4. CASE ~(open /\ retKey > 0)
      <4>1. "grace" \notin shelter'
        BY <3>1, <3>4 DEF Now
      <4>2. QED BY <3>2, <4>1 DEF SpareInv
    <3>5. QED BY <3>3, <3>4
  <2>7. CASE ReadConfirmed
    <3>1. pc = "confirmed" /\ shelter' \subseteq shelter
      BY <2>7, <1>2, Shrinks DEF ReadConfirmed
    <3>2. QED BY <3>1 DEF SpareInv
  <2>8. CASE ReadBeat
    <3>1. pc = "beat" /\ shelter' \subseteq shelter /\ UNCHANGED <<age, lag, inRoom>>
      BY <2>8, <1>2, Shrinks DEF ReadBeat, Goto, check
    <3>2. /\ pc' \in {"idle", "keep", "lostCall"}
          /\ pc' = "lostCall" => SinceLastPing > Timeout /\ ~inRoom
      BY <2>8, ReadBeatPlaces
    <3>3. pc' = "lostCall" => ~(age - lag < GhostGrace)
      BY <3>1, <3>2, MonitorAssumption DEF SinceLastPing, QuietInv, Values, AgeCap, NoBeat, KeyTTL
    <3>4. QED BY <3>1, <3>3, <3>2 DEF SpareInv
  <2>9. CASE Tick
    <3>1. CASE pc = "idle"
      BY <2>2, <2>9, <3>1 DEF Tick
    <3>2. CASE pc # "idle"
      <4>1. UNCHANGED <<pc, inRoom>> /\ shelter' \subseteq shelter
        BY <2>9, <3>2, <1>2, Shrinks DEF Tick
      <4>2. age - lag < GhostGrace => age' - lag' < GhostGrace
        BY <2>9, <3>2, MonitorAssumption DEF Tick, Cap, Values, AgeCap
      <4>3. QED BY <4>1, <4>2 DEF SpareInv
    <3>3. QED BY <3>1, <3>2
  <2>10. Step => \/ UNCHANGED <<pc, inRoom, age, lag>> \/ pc' = "idle"
                 \/ Begin \/ ReadPresence \/ ReadCall \/ ReadGrace \/ ReadConfirmed \/ ReadBeat \/ Tick
    BY DEF Step, CheckStep, EnterRoom, LeaveRoom, Vanish, Heartbeat, Rejoin, EndedElsewhere, Accept,
           Pause, EndCall, ReadPause, OpenReturn, KeepAlive, EndFromSweep, CheckFails, RedisCloses,
           RedisOpens, Goto, check
  <2>11. QED BY <1>2, <2>1, <2>2, <2>3, <2>4, <2>5, <2>6, <2>7, <2>8, <2>9, <2>10
<1>3. QED BY <1>1, <1>2, NextIsStep

LEMMA SpareSuffices == SpareInv => MonitorSpares
BY DEF SpareInv, MonitorSpares, AfterPresence, AfterCall, AfterGrace

\* No check ends the stream of a host who was on a call, or within the return window, or in
\* the room as far as LiveKit says, from its beginning to its end.
THEOREM Spares == Spec => []MonitorSpares
<1>1. Init => TypeOK /\ QuietInv /\ SpareInv
  BY InitTypes, InitQuiet, InitSpare
<1>2. TypeOK /\ QuietInv /\ SpareInv /\ [Next]_vars => (TypeOK /\ QuietInv /\ SpareInv)'
  BY NextTypes, NextQuiet, NextSpare
<1>3. QED BY <1>1, <1>2, SpareSuffices, PTL DEF Spec

-----------------------------------------------------------------------------
(* A host who was seen is no ghost *)

\* Without a fault what a check has seen is in Redis, and is read there before a ghost is ended.
SeenInv ==
    faults = 0 =>
        /\ open
        /\ seen => confirmed
        /\ pc = "ghostEnd" => ~seen
        /\ endedBy = "NO_LIVEKIT_HOST" => ~seen /\ pc = "idle"

LEMMA InitSeen == Init => SeenInv
BY DEF Init, SeenInv

LEMMA NextSeen == TypeOK /\ SeenInv /\ [Next]_vars => SeenInv'
<1> SUFFICES ASSUME Values, Flags, SeenInv, [Next]_vars PROVE SeenInv'
  BY Halves DEF TypeOK, Values, Flags
<1>1. CASE UNCHANGED vars
  BY <1>1 DEF vars, SeenInv
<1>2. CASE Step
  <2>1. CASE UNCHANGED <<faults, open, seen, confirmed, pc, endedBy>>
    BY <2>1 DEF SeenInv
  <2>2. CASE CheckFails \/ RedisCloses
    <3>1. faults' # 0
      BY <2>2 DEF CheckFails, RedisCloses, Values
    <3>2. QED BY <3>1 DEF SeenInv
  <2>3. CASE EndedElsewhere \/ Begin \/ RedisOpens
    BY <2>3 DEF EndedElsewhere, Begin, RedisOpens, Live, SeenInv, redis
  <2>4. CASE ReadPresence
    BY <2>4 DEF ReadPresence, SeenInv
  <2>5. CASE ReadCall \/ ReadGrace
    BY <2>5 DEF ReadCall, ReadGrace, Goto, redis, SeenInv
  <2>6. CASE ReadConfirmed
    BY <2>6 DEF ReadConfirmed, Goto, redis, SeenInv
  <2>7. CASE KeepAlive
    BY <2>7 DEF KeepAlive, Goto, SeenInv
  <2>8. CASE EndFromSweep
    BY <2>8 DEF EndFromSweep, Goto, redis, Live, SeenInv
  <2>9. CASE ReadBeat
    <3>1. pc = "beat" /\ pc' \in {"idle", "keep", "lostCall"} /\ UNCHANGED <<faults, open, seen, confirmed, endedBy>>
      BY <2>9, ReadBeatPlaces DEF ReadBeat, redis
    <3>2. QED BY <3>1 DEF SeenInv
  <2>10. Step => \/ UNCHANGED <<faults, open, seen, confirmed, pc, endedBy>>
                \/ CheckFails \/ RedisCloses \/ EndedElsewhere \/ Begin \/ RedisOpens \/ CheckStep
    BY DEF Step, EnterRoom, LeaveRoom, Vanish, Heartbeat, Rejoin, Accept, Pause, EndCall, ReadPause,
           OpenReturn, Tick, redis
  <2>11. QED BY <1>2, <2>1, <2>2, <2>3, <2>4, <2>5, <2>6, <2>7, <2>8, <2>9, <2>10 DEF CheckStep
<1>3. QED BY <1>1, <1>2, NextIsStep

LEMMA SeenSuffices == SeenInv => GhostNeverSeen
BY DEF SeenInv, GhostNeverSeen

\* As long as Redis stays open and no check fails, NO_LIVEKIT_HOST is never the end of a host
\* whom a check has seen in the room.
THEOREM NoSeenGhost == Spec => []GhostNeverSeen
BY InitTypes, NextTypes, InitSeen, NextSeen, SeenSuffices, PTL DEF Spec

=============================================================================
