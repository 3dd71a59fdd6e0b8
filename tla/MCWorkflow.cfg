SPECIFICATION Spec
CONSTANTS
    Branches = {1, 2, 3, 4}
    Root = 0
    Parent <- MCParent
    Calls <- MCCalls
    Settles = {1}
    Interrupts = {"ask"}
    Slots = 2
    Every = 2
    MaxEras = 3
    MaxFaults = 2
INVARIANTS ReplayExact SnapshotLosesNothing
PROPERTIES Ends
CHECK_DEADLOCK FALSE
