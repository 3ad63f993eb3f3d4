----------------------------- MODULE FailureLog -----------------------------
(***************************************************************************)
(* Failures the app reports of itself, of one user: batches of events from *)
(* its offline queue, which sends a batch again when no answer came.  A    *)
(* counter in Redis limits the events per minute, a key per event id keeps *)
(* one that comes again out, and an event that passes is written to the    *)
(* database and to a list in Redis, neither of which is waited for.        *)
(***************************************************************************)
EXTENDS Naturals

CONSTANTS Batches,   \* requests in flight, of one event each that stands for Costs events
          Events,    \* ids
          Costs,     \* sizes of a batch
          RateLimit, \* CLIENT_EVENTS_RATE_PER_MIN
          MaxAge,    \* CLIENT_EVENT_MAX_AGE_MS, in days
          SeenDays,  \* SEEN_TTL_SECONDS, in days
          RetentionDays \* RETENTION_DAYS

ASSUME FailureLogAssumption ==
    /\ Costs \subseteq Nat \ {0} /\ {RateLimit, MaxAge, SeenDays, RetentionDays} \subseteq Nat
    /\ MaxAge < SeenDays /\ MaxAge <= RetentionDays

VARIABLES rate,    \* live:failures:rl of the user: the count, and whether it expires
          orphan,  \* history: the counter's EXPIRE was lost
          eventAge, \* days since each event occurred, up to one more than its row is kept
          seenFor, \* days that live:failures:seen of each event has left
          listed,  \* history: how often each event was pushed on the list, up to twice
          blind,   \* history: events that passed while Redis could not tell
          stored,  \* events with a row in the database
          batch    \* each request: its place, its event, its size

failVars == <<rate, orphan, eventAge, seenFor, listed, blind, stored, batch>>

TooMany == RateLimit + 1
NoBatch == [at |-> "idle"]

FailureInit ==
    /\ rate = [n |-> 0, ttl |-> FALSE] /\ orphan = FALSE
    /\ eventAge = [e \in Events |-> 0]
    /\ seenFor = [e \in Events |-> 0]
    /\ listed = [e \in Events |-> 0]
    /\ blind = {} /\ stored = {}
    /\ batch = [b \in Batches |-> NoBatch]

BatchTo(b, from, to) ==
    /\ batch[b].at = from
    /\ batch' = [batch EXCEPT ![b].at = to]
BatchEnds(b) == batch' = [batch EXCEPT ![b] = NoBatch]

\* reportClientEvents: the same event may be in two requests at once.
ReportClientEvents(b, e, cost) ==
    /\ batch[b].at = "idle"
    /\ batch' = [batch EXCEPT ![b] = [at |-> "incr", e |-> e, cost |-> cost]]
    /\ UNCHANGED <<rate, orphan, eventAge, seenFor, listed, blind, stored>>

\* INCRBY answers the cost to the one who made the counter.
MadeCounter(n, cost) == n = cost

IncrRate(b) ==
    LET n == rate.n + batch[b].cost
    IN  /\ BatchTo(b, "incr", IF MadeCounter(n, batch[b].cost) THEN "expire"
                              ELSE IF n > RateLimit THEN "refused" ELSE "dedupe")
        /\ rate' = [rate EXCEPT !.n = IF n > TooMany THEN TooMany ELSE n]
        /\ UNCHANGED <<orphan, eventAge, seenFor, listed, blind, stored>>

ExpireRate(b) ==
    /\ BatchTo(b, "expire", IF batch[b].cost > RateLimit THEN "refused" ELSE "dedupe")
    /\ rate' = [rate EXCEPT !.ttl = rate.n > 0]
    /\ UNCHANGED <<orphan, eventAge, seenFor, listed, blind, stored>>

\* Redis away or failing: the report is allowed, and the counter may have been left without
\* its EXPIRE.
RateFails(b) ==
    /\ \E at \in {"incr", "expire"} : BatchTo(b, at, "dedupe")
    /\ orphan' = (orphan \/ batch[b].at = "expire")
    /\ UNCHANGED <<rate, eventAge, seenFor, listed, blind, stored>>

RateRefuses(b) ==
    /\ batch[b].at = "refused" /\ BatchEnds(b)
    /\ UNCHANGED <<rate, orphan, eventAge, seenFor, listed, blind, stored>>

\* How long an id is remembered.
\* Mutant: for less than the age up to which an event is taken.
RememberForADay == 1
RememberFor == SeenDays

\* recordClientEvent: too old; or SET NX of the id's key, at most one of two.
RecordClientEvent(b) ==
    LET e == batch[b].e
        fresh == eventAge[e] <= MaxAge /\ seenFor[e] = 0
    IN  /\ batch[b].at = "dedupe"
        /\ IF fresh THEN BatchTo(b, "dedupe", "record") ELSE BatchEnds(b)
        /\ seenFor' = IF fresh THEN [seenFor EXCEPT ![e] = RememberFor] ELSE seenFor
        /\ UNCHANGED <<rate, orphan, eventAge, listed, blind, stored>>

\* The SET fails, with or without effect: the event passes.
DedupeFails(b) ==
    /\ eventAge[batch[b].e] <= MaxAge /\ BatchTo(b, "dedupe", "record")
    /\ blind' = blind \cup {batch[b].e}
    /\ seenFor' \in {seenFor, [seenFor EXCEPT ![batch[b].e] = RememberFor]}
    /\ UNCHANGED <<rate, orphan, eventAge, listed, stored>>

\* recordLiveFailure: the row, unless its id is there or the write fails; the list, unless the
\* MULTI fails.
RecordLiveFailure(b) ==
    LET e == batch[b].e
    IN  /\ batch[b].at = "record" /\ BatchEnds(b)
        /\ \/ stored' = stored \cup {e}
           \/ UNCHANGED stored
        /\ \/ listed' = [listed EXCEPT ![e] = IF @ < 2 THEN @ + 1 ELSE @]
           \/ UNCHANGED listed
        /\ UNCHANGED <<rate, orphan, eventAge, seenFor, blind>>

\* The node dies with the request.
BatchLost(b) ==
    /\ batch[b].at # "idle" /\ BatchEnds(b)
    /\ orphan' = (orphan \/ batch[b].at = "expire")
    /\ UNCHANGED <<rate, eventAge, seenFor, listed, blind, stored>>

RateExpires ==
    /\ rate.ttl /\ rate' = [n |-> 0, ttl |-> FALSE]
    /\ UNCHANGED <<orphan, eventAge, seenFor, listed, blind, stored, batch>>

\* A day passes; requests do not last that long.
DayPasses ==
    /\ \A b \in Batches : batch[b].at = "idle"
    /\ \E e \in Events : eventAge[e] <= RetentionDays
    /\ eventAge' = [e \in Events |-> IF eventAge[e] <= RetentionDays THEN eventAge[e] + 1
                                                                  ELSE eventAge[e]]
    /\ seenFor' = [e \in Events |-> IF seenFor[e] > 0 THEN seenFor[e] - 1 ELSE 0]
    /\ UNCHANGED <<rate, orphan, listed, blind, stored, batch>>

\* The leader, once a day: rows older than the retention go.
PruneOldFailureEvents ==
    /\ stored' = {e \in stored : eventAge[e] <= RetentionDays}
    /\ UNCHANGED <<rate, orphan, eventAge, seenFor, listed, blind, batch>>

FailureNext ==
    \/ RateExpires \/ DayPasses \/ PruneOldFailureEvents
    \/ \E b \in Batches :
          \/ \E e \in Events, cost \in Costs : ReportClientEvents(b, e, cost)
          \/ batch[b].at # "idle" /\ (IncrRate(b) \/ ExpireRate(b) \/ RateFails(b) \/ RateRefuses(b)
                \/ RecordClientEvent(b) \/ DedupeFails(b) \/ RecordLiveFailure(b) \/ BatchLost(b))

FailureSpec == FailureInit /\ [][FailureNext]_failVars

-----------------------------------------------------------------------------
\* An event the app sends again, while the first request is under way, after a lost answer or
\* days later, is listed once; unless Redis could not be asked for its id.
ListedOnce == \A e \in Events \ blind : listed[e] <= 1
=============================================================================
