----------------------------- MODULE HostStats -----------------------------
(***************************************************************************)
(* The figures of a host for today and this week (calculate1130DateRanges, *)
(* getMetricsForRange; the month is left out).  The day begins at 23:30    *)
(* IST, which is 18:00 UTC; the calendar day of the computation is the     *)
(* Indian one, which begins half an hour later.  Time is counted in half   *)
(* hours of UTC from a day 0.                                              *)
(***************************************************************************)
EXTENDS Integers, FiniteSets, FiniteSetsExt

CONSTANTS Clock,      \* half hours of the day at which something happens
          LastDay,    \* bound on time
          FirstSunday, \* a Sunday among the days 0..6
          MaxEntries  \* bound on what the host earns, and on their streams

ASSUME StatsAssumption ==
    /\ Clock \subseteq 0..47 /\ Clock # {} /\ LastDay \in Nat /\ MaxEntries \in Nat
    /\ FirstSunday \in 0..6

VARIABLES now,
          entries,  \* instants of point credits to the host (new followers are counted alike)
          ended,    \* the host's ended streams: when each began and ended, whether its
                    \* effective duration was recorded
          closed    \* history: today's figures as they were when each past day closed, added up

statsVars == <<now, entries, ended, closed>>

HalfHours == 48
IstOffset == 11
AnchorUtc == 36   \* 18:00 UTC

At(day) == day * HalfHours + AnchorUtc
IstDay(t) == (t + IstOffset) \div HalfHours
Weekday(day) == (day - FirstSunday + 7) % 7   \* 0 = Sunday

\* Mutant: the first instant of the day still belongs to the day before.
TodayLate(t) ==
    LET d == IstDay(t)
    IN  IF t > At(d) THEN [start |-> At(d), end |-> At(d + 1)]
                     ELSE [start |-> At(d - 1), end |-> At(d)]

Today(t) ==
    LET d == IstDay(t)
    IN  IF t >= At(d) THEN [start |-> At(d), end |-> At(d + 1)]
                      ELSE [start |-> At(d - 1), end |-> At(d)]

ThisWeek(t) ==
    LET d == IstDay(t)
        daysSinceSunday == IF Weekday(d) = 0 /\ t < At(d) THEN 7 ELSE Weekday(d)
        start == Today(t).start - daysSinceSunday * HalfHours
    IN  [start |-> start, end |-> start + 7 * HalfHours]

Within(t, range) == range.start <= t /\ t < range.end

\* The effective duration, or the wall clock when none was recorded.
Seconds == [s \in ended |-> IF s.effective > 0 THEN s.effective ELSE s.to - s.from]

\* getMetricsForRange
Metrics(range) ==
    [seconds |-> SumFunctionOnSet(Seconds, {s \in ended : Within(s.to, range)}),
     points  |-> Cardinality({t \in entries : Within(t, range)})]

-----------------------------------------------------------------------------
StatsInit ==
    /\ now = At(1)
    /\ entries = {} /\ ended = {}
    /\ closed = [seconds |-> 0, points |-> 0]

Room == Cardinality(entries) + Cardinality(ended) < MaxEntries

EarnPoints ==
    /\ Room /\ now \notin entries
    /\ entries' = entries \cup {now}
    /\ UNCHANGED <<now, ended, closed>>

\* A stream ends, with or without a record of its duration, which is half of it here.
StreamCounts(hours, recorded) ==
    /\ Room /\ \A s \in ended : s.to # now
    /\ ended' = ended \cup {[from |-> now - 2 * hours, to |-> now,
                             effective |-> IF recorded THEN hours ELSE 0]}
    /\ UNCHANGED <<now, entries, closed>>

NextInstant ==
    LET midnight == HalfHours * (now \div HalfHours)
        later == {c \in Clock : midnight + c > now}
    IN  IF later # {} THEN midnight + Min(later) ELSE midnight + HalfHours + Min(Clock)

\* The last look at a day's figures is taken before it closes.
StatsTick ==
    /\ now < At(LastDay)
    /\ now' = NextInstant
    /\ closed' = IF Today(now') = Today(now) THEN closed
                 ELSE [seconds |-> closed.seconds + Metrics(Today(now)).seconds,
                       points  |-> closed.points + Metrics(Today(now)).points]
    /\ UNCHANGED <<entries, ended>>

StatsNext ==
    \/ EarnPoints \/ StatsTick
    \/ \E hours \in {1, 5}, recorded \in BOOLEAN : StreamCounts(hours, recorded)

StatsSpec == StatsInit /\ [][StatsNext]_statsVars

-----------------------------------------------------------------------------
\* What a host earns is shown on one day: the figures of the days that closed and today's add
\* up to everything, whatever falls on 23:30, on midnight in India or on the half hour between.
EverythingOnOneDay ==
    /\ closed.points + Metrics(Today(now)).points = Cardinality(entries)
    /\ closed.seconds + Metrics(Today(now)).seconds = SumFunction(Seconds)

\* "This Week (Sunday 23:30 IST to Sunday 23:30 IST)": it begins on a Sunday, and now is in it.
\* The code counts the days since Sunday from the calendar day but takes them off the start of
\* the 23:30 day, which before 23:30 is the day before.
WeekFromSunday ==
    LET w == ThisWeek(now)
    IN  Weekday(IstDay(w.start)) = 0 /\ Within(now, w)
=============================================================================
