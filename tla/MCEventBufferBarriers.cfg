SPECIFICATION Spec
CONSTANTS
    Background = {b1, b2}
    Loop = Loop
    NoWrite = NoWrite
    LoopFaults = {}
    BarrierFaults = {}
    Cancellation = FALSE
    Through = TRUE
    MaxRecorded = 7
    MaxForeign = 0
SYMMETRY BackgroundSymmetry
INVARIANTS DurableOrder
PROPERTIES BarrierCommits
