----------------------------- MODULE LiveStream -----------------------------
(***************************************************************************)
(* The live streams of one host (routes/service/serviceLive.js and         *)
(* services/liveHostStatus.service.js): go-live, the end of a stream,      *)
(* which host, monitor, timers and admins may ask for at once, the end by  *)
(* image moderation, and the leader's reconciler, which repairs the marker *)
(* user:active_stream:<host> from the rows.                                *)
(*                                                                         *)
(* A request does in one action what the code does between two awaits, and *)
(* sends stream_ended, which no request reads, with the await before it.   *)
(***************************************************************************)
EXTENDS Naturals, FiniteSets

CONSTANTS Procs,         \* requests in flight
          MaxStreams,    \* streams that are started
          MaxRequests,   \* bound on requests
          MaxFaults,     \* bound on failed awaits, dead nodes and new leaders
          MaxLapses,     \* bound on go-lives that outlast a reconciler interval
          None           \* no stream

ASSUME LiveStreamAssumption ==
    /\ {MaxStreams, MaxRequests, MaxFaults, MaxLapses} \subseteq Nat
    /\ None \notin Nat

VARIABLES row,       \* stream -> its row: "none", "live", "ended"
          marker,    \* user:active_stream:<host>
          info,      \* streams with a stream:info key
          next,      \* the next stream id
          pc,        \* request -> the await it stands before
          target,    \* request -> the stream it works on
          going,     \* requests that are go-lives
          off,       \* history: LIVE_STATUS frames that say a stream is over, by its ends
          told,      \* history: streams whose room was sent stream_ended
          moderated, \* history: streams ended by image moderation
          aborted,   \* history: streams ended from Redis alone, without a row
          crossed,   \* history: two go-lives were in flight at once, or the end that one of
                     \* them started failed and left the stream live
          rec,       \* the reconciler's place
          seen,      \* the marker it has read
          todo,      \* the repairs it is to make
          suspects,  \* the repairs its last tick proposed
          old,       \* go-lives that had written their marker when the last tick began
          requests, faults, lapses

keys    == <<marker, info>>
history == <<off, told, moderated, aborted, crossed>>
reqVars == <<pc, target, going>>
recVars == <<rec, seen, todo, suspects>>
bounds  == <<requests, faults, lapses>>
vars == <<row, marker, info, next, pc, target, going, off, told, moderated, aborted,
          crossed, rec, seen, todo, suspects, old, requests, faults, lapses>>

Streams == 1..MaxStreams
Live    == {s \in Streams : row[s] = "live"}
Repairs == [do : {"del", "set"}, s : Streams]
GoingLive == {"find", "delMarker", "markers", "insert", "retry", "undo"}
Ending    == {"endFind", "abort", "claim", "finish", "clear", "publish", "loserClear"}
Labels    == {"idle", "warn", "modUpdate", "modClear", "modPublish"} \cup GoingLive \cup Ending

RequestsOK ==
    /\ pc \in [Procs -> Labels]
    /\ target \in [Procs -> Streams \cup {None}]
    /\ going \subseteq Procs

StreamsOK ==
    /\ row \in [Streams -> {"none", "live", "ended"}]
    /\ marker \in Streams \cup {None}
    /\ info \subseteq Streams
    /\ next \in 1..(MaxStreams + 1)
    /\ off \in [Streams -> Nat]
    /\ told \subseteq Streams /\ moderated \subseteq Streams /\ aborted \subseteq Streams
    /\ crossed \in BOOLEAN

ReconcilerOK ==
    /\ rec \in {"idle", "plan", "repair"}
    /\ seen \in Streams \cup {None}
    /\ todo \subseteq Repairs /\ suspects \subseteq Repairs
    /\ old \subseteq Procs

TypeOK ==
    /\ RequestsOK /\ StreamsOK /\ ReconcilerOK
    /\ requests \in 0..MaxRequests /\ faults \in 0..MaxFaults /\ lapses \in 0..MaxLapses

Init ==
    /\ row = [s \in Streams |-> "none"]
    /\ marker = None /\ info = {} /\ next = 1
    /\ pc = [p \in Procs |-> "idle"] /\ target = [p \in Procs |-> None] /\ going = {}
    /\ off = [s \in Streams |-> 0]
    /\ told = {} /\ moderated = {} /\ aborted = {} /\ crossed = FALSE
    /\ rec = "idle" /\ seen = None /\ todo = {} /\ suspects = {} /\ old = {}
    /\ requests = 0 /\ faults = 0 /\ lapses = 0

Goto(p, label) == pc' = [pc EXCEPT ![p] = label] /\ UNCHANGED <<target, going>>
Rest(p) ==
    /\ pc' = [pc EXCEPT ![p] = "idle"]
    /\ target' = [target EXCEPT ![p] = None]
    /\ going' = going \ {p}

\* An idle request takes up stream s.
TakeUp(p, label, s) ==
    /\ pc[p] = "idle"
    /\ pc' = [pc EXCEPT ![p] = label]
    /\ target' = [target EXCEPT ![p] = s]
    /\ UNCHANGED going

Fault          == faults < MaxFaults /\ faults' = faults + 1
Requested      == requests < MaxRequests /\ requests' = requests + 1

\* Go-lives between the write of their marker and the end of their insert.
Window == {p \in Procs : pc[p] \in {"insert", "retry"}}

\* The end of endLiveStreamService: back to the go-live that called it, or done.
Return(p) ==
    \/ p \in going /\ Goto(p, "delMarker")
    \/ p \notin going /\ Rest(p)

\* It throws: a go-live only logs that, and the stream it was to end may be live still.
Throw(p) ==
    /\ Return(p)
    /\ crossed' = (crossed \/ (p \in going /\ row'[target[p]] = "live"))

\* clearLiveStreamRedisKeys deletes the host's marker whatever stream it names.
ClearKeys(s) == marker' = None /\ info' = info \ {s}

----------------------------------------------------------------------------
(* fastGoLiveStreamService *)

GoLive(p) ==
    /\ pc[p] = "idle"
    /\ Requested
    /\ pc' = [pc EXCEPT ![p] = "find"]
    /\ going' = going \cup {p}
    /\ crossed' = (crossed \/ going # {})
    /\ UNCHANGED <<target, row, keys, next, off, told, moderated, aborted, recVars, old, faults, lapses>>

\* Mutant of FindLive: a stream that is still live is left alone.
FindLiveIgnoresOne(p) ==
    /\ pc[p] = "find"
    /\ Goto(p, "markers")
    /\ UNCHANGED <<row, keys, next, history, recVars, old, bounds>>

\* A live stream of the host is ended first.
FindLive(p) ==
    /\ pc[p] = "find"
    /\ IF Live = {}
       THEN Goto(p, "markers")
       ELSE /\ \E s \in Live : target' = [target EXCEPT ![p] = s]
            /\ pc' = [pc EXCEPT ![p] = "endFind"]
            /\ UNCHANGED going
    /\ UNCHANGED <<row, keys, next, history, recVars, old, bounds>>

DelMarker(p) ==
    /\ pc[p] = "delMarker"
    /\ marker' = None
    /\ Goto(p, "markers")
    /\ UNCHANGED <<row, info, next, history, recVars, old, bounds>>

WriteMarkers(p) ==
    /\ pc[p] = "markers"
    /\ next <= MaxStreams
    /\ next' = next + 1
    /\ marker' = next /\ info' = info \cup {next}
    /\ pc' = [pc EXCEPT ![p] = "insert"]
    /\ target' = [target EXCEPT ![p] = next]
    /\ UNCHANGED <<row, going, history, recVars, old, bounds>>

\* Mutant of Insert: the second attempt writes the row whatever it holds.
InsertOver(p) ==
    /\ p \in Window
    /\ row' = [row EXCEPT ![target[p]] = "live"]
    /\ old' = old \ {p}
    /\ Rest(p)
    /\ UNCHANGED <<keys, next, history, recVars, bounds>>

\* The INSERT, or its second attempt; that the id is there already is fine.
Insert(p) ==
    /\ p \in Window
    /\ row' = [row EXCEPT ![target[p]] = IF @ = "none" THEN "live" ELSE @]
    /\ old' = old \ {p}
    /\ Rest(p)
    /\ UNCHANGED <<keys, next, history, recVars, bounds>>

\* An INSERT that fails, or commits and loses its answer, is tried once more, 100 ms later:
\* what made the first attempt fail may make the second fail too.
InsertFails(p) ==
    /\ p \in Window
    /\ IF pc[p] = "insert" THEN Fault ELSE UNCHANGED faults
    /\ \/ UNCHANGED row
       \/ row[target[p]] = "none" /\ row' = [row EXCEPT ![target[p]] = "live"]
    /\ Goto(p, IF pc[p] = "insert" THEN "retry" ELSE "undo")
    /\ old' = IF pc[p] = "insert" THEN old ELSE old \ {p}
    /\ UNCHANGED <<keys, next, history, recVars, requests, lapses>>

Undo(p) ==
    /\ pc[p] = "undo"
    /\ ClearKeys(target[p])
    /\ Rest(p)
    /\ UNCHANGED <<row, next, history, recVars, old, bounds>>

----------------------------------------------------------------------------
(* endLiveStreamService *)

\* The host, the monitor or an admin ends a stream whose id was given out.
EndLiveStream(p, s) ==
    /\ TakeUp(p, "endFind", s)
    /\ s < next
    /\ Requested
    /\ UNCHANGED <<row, keys, next, history, recVars, old, faults, lapses>>

\* The disconnect timer and the return timer of a host end the stream they find live.
EndByTimer(p, s) ==
    /\ TakeUp(p, "warn", s)
    /\ row[s] = "live"
    /\ Requested
    /\ UNCHANGED <<row, keys, next, history, recVars, old, faults, lapses>>

\* A timer sends stream_ended before it ends the stream.
EndFind(p) ==
    LET r == row[target[p]]
    IN  /\ pc[p] \in {"warn", "endFind"}
        /\ told' = IF pc[p] = "warn" THEN told \cup {target[p]} ELSE told
        /\ Goto(p, CASE r = "none" -> "abort" [] r = "live" -> "claim" [] r = "ended" -> "loserClear")
        /\ UNCHANGED <<row, keys, next, off, moderated, aborted, crossed, recVars, old, bounds>>

\* Redis-only abort of a stream that has its keys but no row: cleared and announced like an end
\* that won.
Abort(p) ==
    LET s == target[p]
    IN  /\ pc[p] = "abort"
        /\ UNCHANGED <<row, keys, next, off, told, moderated, recVars, old, bounds>>
        /\ IF s \in info
           THEN Goto(p, "clear") /\ aborted' = aborted \cup {s} /\ UNCHANGED crossed
           ELSE Throw(p) /\ UNCHANGED aborted

\* updateMany where isLive: one request wins the end.
Claim(p) ==
    LET s == target[p]
    IN  /\ pc[p] = "claim"
        /\ \/ row[s] = "live" /\ row' = [row EXCEPT ![s] = "ended"] /\ Goto(p, "finish")
           \/ row[s] # "live" /\ Goto(p, "loserClear") /\ UNCHANGED row
        /\ UNCHANGED <<keys, next, history, recVars, old, bounds>>

\* The camera account and the update with the billable duration.
Finish(p) ==
    /\ pc[p] = "finish"
    /\ Goto(p, "clear")
    /\ UNCHANGED <<row, keys, next, history, recVars, old, bounds>>

Clear(p) ==
    /\ pc[p] \in {"clear", "modClear"}
    /\ ClearKeys(target[p])
    /\ Goto(p, IF pc[p] = "clear" THEN "publish" ELSE "modPublish")
    /\ UNCHANGED <<row, next, history, recVars, old, bounds>>

\* Back in the caller.  The host's request and a go-live send stream_ended whether their end has
\* won or not, the sweep if it has won, an admin's request and a timer do not.
Answer(p) ==
    /\ \/ told' = told \cup {target[p]}
       \/ p \notin going /\ UNCHANGED told
    /\ Return(p)

ClearLoser(p) ==
    /\ pc[p] = "loserClear"
    /\ ClearKeys(target[p])
    /\ Answer(p)
    /\ UNCHANGED <<row, next, off, moderated, aborted, crossed, recVars, old, bounds>>

\* publishLiveStatus(false); the summary of an end that won follows.
Publish(p) ==
    /\ pc[p] \in {"publish", "modPublish"}
    /\ off' = [off EXCEPT ![target[p]] = @ + 1]
    /\ IF pc[p] = "publish" THEN Answer(p) ELSE Rest(p) /\ UNCHANGED told
    /\ UNCHANGED <<row, keys, next, moderated, aborted, crossed, recVars, old, bounds>>

\* verifyStreamFrameService: a frame of a stream that was live is blocked.
Moderate(p, s) ==
    /\ TakeUp(p, "modUpdate", s)
    /\ row[s] = "live"
    /\ Requested
    /\ UNCHANGED <<row, keys, next, history, recVars, old, faults, lapses>>

\* The row is closed without a claim; keys and frame follow as in the other ends.
ModUpdate(p) ==
    /\ pc[p] = "modUpdate"
    /\ row' = [row EXCEPT ![target[p]] = "ended"]
    /\ moderated' = moderated \cup {target[p]}
    /\ Goto(p, "modClear")
    /\ UNCHANGED <<keys, next, off, told, aborted, crossed, recVars, old, bounds>>

----------------------------------------------------------------------------
(* reconcileActiveStreamMarkers *)

\* A tick reads the marker.  Ticks are RECONCILE_EVERY_MS apart, far longer than a go-live:
\* a go-live that is in its window at two ticks in a row is a lapse.
RecRead ==
    /\ rec = "idle"
    /\ IF old \cap Window = {} THEN UNCHANGED lapses ELSE lapses < MaxLapses /\ lapses' = lapses + 1
    /\ rec' = "plan" /\ seen' = marker
    /\ old' = Window
    /\ UNCHANGED <<row, keys, next, reqVars, history, todo, suspects, requests, faults>>

\* Mutant of Repairable: a missing marker is never restored.
RepairableStale(found, rows) ==
    IF found # None /\ found \notin rows THEN {[do |-> "del", s |-> found]} ELSE {}

\* planMarkerRepair for one host: a marker without a live row, or live rows and no marker.
Repairable(found, rows) ==
    CASE found # None /\ found \notin rows -> {[do |-> "del", s |-> found]}
      [] found = None /\ rows # {} -> {[do |-> "set", s |-> CHOOSE s \in rows : TRUE]}
      [] OTHER -> {}

\* Only what the previous tick proposed as well is repaired.
PlanMarkerRepair(found, rows, before) == Repairable(found, rows) \cap before

\* The rows are read after the marker.
RecPlan ==
    /\ rec = "plan"
    /\ rec' = "repair"
    /\ todo' = PlanMarkerRepair(seen, Live, suspects)
    /\ suspects' = Repairable(seen, Live)
    /\ UNCHANGED <<row, keys, next, reqVars, history, seen, old, bounds>>

\* Mutant of RecRepair: the marker is deleted whatever it holds by now.
RecRepairUnchecked ==
    /\ rec = "repair"
    /\ \/ todo = {} /\ UNCHANGED keys
       \/ \E r \in todo :
            \/ r.do = "del" /\ marker' = None /\ info' = info \ {r.s}
            \/ r.do = "set" /\ marker' = (IF marker = None THEN r.s ELSE marker) /\ UNCHANGED info
    /\ rec' = "idle" /\ seen' = None /\ todo' = {}
    /\ UNCHANGED <<row, next, reqVars, history, suspects, old, bounds>>

\* DEL_IF_EQUALS_LUA, or SET NX.
RecRepair ==
    /\ rec = "repair"
    /\ \/ todo = {} /\ UNCHANGED keys
       \/ \E r \in todo :
            \/ r.do = "del" /\ marker = r.s /\ ClearKeys(r.s)
            \/ r.do = "del" /\ marker # r.s /\ UNCHANGED keys
            \/ r.do = "set" /\ marker' = (IF marker = None THEN r.s ELSE marker) /\ UNCHANGED info
    /\ rec' = "idle" /\ seen' = None /\ todo' = {}
    /\ UNCHANGED <<row, next, reqVars, history, suspects, old, bounds>>

----------------------------------------------------------------------------
(* Faults *)

\* An await throws, its command done (a claim or an update whose answer is lost) or not.
Fails(p) ==
    /\ Fault
    /\ \/ /\ pc[p] \in {"find", "markers", "insert", "undo", "warn", "modUpdate"}
          /\ Rest(p) /\ UNCHANGED <<row, told, crossed>>
       \/ /\ pc[p] \in {"endFind", "abort", "claim", "finish", "loserClear"}
          /\ UNCHANGED <<row, told>> /\ Throw(p)
       \/ /\ (pc[p] = "claim" /\ row[target[p]] = "live") \/ pc[p] = "modUpdate"
          /\ row' = [row EXCEPT ![target[p]] = "ended"]
          /\ UNCHANGED told /\ Throw(p)
    /\ old' = old \ {p}
    /\ UNCHANGED <<keys, next, off, moderated, aborted, recVars, requests, lapses>>

\* Clearing keys only logs its errors.
DelFails(p) ==
    /\ Fault
    /\ \/ pc[p] = "delMarker" /\ Goto(p, "markers") /\ UNCHANGED told
       \/ pc[p] = "clear" /\ Goto(p, "publish") /\ UNCHANGED told
       \/ pc[p] = "modClear" /\ Goto(p, "modPublish") /\ UNCHANGED told
       \/ pc[p] = "loserClear" /\ Answer(p)
    /\ UNCHANGED <<row, keys, next, off, moderated, aborted, crossed, recVars, old, requests, lapses>>

\* The two SETs of a go-live: one of them, or both, done when it throws.
MarkersFail(p) ==
    /\ pc[p] = "markers"
    /\ next <= MaxStreams
    /\ Fault
    /\ next' = next + 1
    /\ marker' \in {marker, next} /\ info' \in {info, info \cup {next}}
    /\ Rest(p)
    /\ UNCHANGED <<row, history, recVars, old, requests, lapses>>

\* Redis is flushed, or its keys outlive their 24 hours.
Flush ==
    /\ Fault
    /\ marker' = None /\ info' = {}
    /\ UNCHANGED <<row, next, reqVars, history, recVars, old, requests, lapses>>

\* A node dies with its requests.
Crash ==
    /\ Fault
    /\ \E P \in SUBSET Procs :
         /\ pc' = [p \in Procs |-> IF p \in P THEN "idle" ELSE pc[p]]
         /\ target' = [p \in Procs |-> IF p \in P THEN None ELSE target[p]]
         /\ going' = going \ P
         /\ old' = old \ P
    /\ UNCHANGED <<row, keys, next, history, recVars, requests, lapses>>

\* A tick that throws keeps the suspects it had.
RecFails ==
    /\ rec # "idle"
    /\ Fault
    /\ rec' = "idle" /\ seen' = None /\ todo' = {}
    /\ UNCHANGED <<row, keys, next, reqVars, history, suspects, old, requests, lapses>>

\* The leader dies or loses its lock; the next one starts with no suspects.
Handover ==
    /\ Fault
    /\ rec' = "idle" /\ seen' = None /\ todo' = {} /\ suspects' = {}
    /\ UNCHANGED <<row, keys, next, reqVars, history, old, requests, lapses>>

Step(p) ==
    \/ FindLive(p) \/ DelMarker(p) \/ WriteMarkers(p) \/ Insert(p) \/ Undo(p)
    \/ EndFind(p) \/ Abort(p) \/ Claim(p) \/ Finish(p) \/ Clear(p) \/ ClearLoser(p) \/ Publish(p)
    \/ ModUpdate(p)

Reconcile == RecRead \/ RecPlan \/ RecRepair

Next ==
    \/ \E p \in Procs : \/ GoLive(p) \/ Step(p) \/ InsertFails(p) \/ MarkersFail(p) \/ Fails(p) \/ DelFails(p)
                        \/ \E s \in Streams : EndLiveStream(p, s) \/ EndByTimer(p, s) \/ Moderate(p, s)
    \/ Reconcile \/ RecFails \/ Crash \/ Handover \/ Flush

Spec == Init /\ [][Next]_vars

\* Awaits are answered and the leader's reconciler keeps ticking.
Fairness == (\A p \in Procs : WF_vars(Step(p))) /\ WF_vars(Reconcile)

FairSpec == Spec /\ Fairness

----------------------------------------------------------------------------
(* Properties *)

\* LIVE-29, "only the winning end announces it": of all that end a stream at once one says so by
\* LIVE_STATUS and makes the summary, aborts and image moderation aside.
EndsOnce == \A s \in Streams \ (moderated \cup aborted) : off[s] <= 1

\* p has won the end of s, or aborts it, and has not announced that yet.
Wins(p, s) ==
    pc[p] \in {"finish", "clear", "publish", "modClear", "modPublish"} /\ target[p] = s

\* The requests together implement the life of streams: none comes back after its end, which
\* has one winner, who announces it once or dies, while stream_ended may go out again and again
\* but never for a stream that neither went live nor was aborted.
Life == INSTANCE StreamLife WITH
            Enders <- Procs,
            owed <- {d \in Procs \X Streams : Wins(d[1], d[2])}
ImplementsLife == Life!Spec

\* A host has one live stream, as long as go-lives do not overlap and no end that a go-live
\* started failed and left its stream live: the ends that race with a go-live, INSERTs that fail
\* and nodes that die do no harm.
OneLiveStream == ~crossed => Cardinality(Live) <= 1

\* "A go-live between our Redis read and DB read is never undone": the reconciler never
\* deletes the marker of a live stream, unless a go-live outlasts the interval of its ticks.
ReconcilerKeepsLive ==
    [][rec = "repair" /\ rec' = "idle" /\ marker \in Live /\ lapses = 0
           => marker' = marker]_vars

\* "The DB is the truth": whatever the requests and their ends left, marker and rows agree
\* in the end and from then on.
MarkersAgree ==
    <>[](IF Live = {} THEN marker = None ELSE marker \in Live)

\* A stream whose abort was answered is off ("still allow abort").
AbortSticks == \A s \in aborted : row[s] # "live"
============================================================================
