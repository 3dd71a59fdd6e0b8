SPECIFICATION ReadingSpec
CONSTANTS
    Roots = {p, q}
    Parent = p
    Child = c
    NoSession = NoSession
    Bounds = {0, 1}
    Resources = 1
    MaxInputs = 2
INVARIANTS ClosedLast EvictsIdleOnly BoundKept
PROPERTIES CloseEnds
CHECK_DEADLOCK FALSE
