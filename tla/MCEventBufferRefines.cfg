SPECIFICATION Spec
CONSTANTS
    Background = {b1}
    Loop = Loop
    NoWrite = NoWrite
    LoopFaults = {"rejected", "unavailable"}
    BarrierFaults = {"rejected", "unavailable"}
    Cancellation = TRUE
    Through = FALSE
    MaxRecorded = 6
    MaxForeign = 1
INVARIANTS CursorNeverAhead
PROPERTIES RefinesWriteThrough
