SPECIFICATION Spec
CONSTANTS
    MaxTurn = 2
    Calls = 2
    RecurringIds = FALSE
    MaxStops = 3
    MaxNotes = 1
INVARIANTS
    AtMostOnce
    ResultsAreTrue
    HistoryKept
PROPERTY
    Settles
