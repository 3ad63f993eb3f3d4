\* A few days from a 23:30 IST on, a Sunday among them.
CONSTANTS
    Clock = {0, 35, 36, 37}
    LastDay = 5
    FirstSunday = 1
    MaxEntries = 1
SPECIFICATION StatsSpec
INVARIANT
    WeekFromSunday
\* Time is bounded.
CHECK_DEADLOCK FALSE
