SPECIFICATION DispatchSpec
CONSTANTS
    a = a
    q1 = q1
    q2 = q2
    Schedules = {a}
    Runs <- MCRuns
    Sessions = {"s1", "s2"}
    Target <- MCTarget
    Owners = {w}
    NoOwner = NoOwner
    NoRun = NoRun
    Ttl = 1
    MaxTime = 2
    MaxEpoch = 0
    MaxEvents = 0
    Every = 1
    MaxAttempts = 2
INVARIANTS OneActivePerSession OccurrencesExact NothingStranded
PROPERTIES CancelStops FiresOrHeld
CHECK_DEADLOCK FALSE
