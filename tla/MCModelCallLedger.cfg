SPECIFICATION Spec
CONSTANTS
    parent = parent
    child = child
    a1 = a1
    a2 = a2
    c1 = c1
    Runs = {parent, child}
    Deliveries = {a1, a2, c1}
    RunOf <- MCRunOf
    Auxiliary = {a1, a2}
    Sourced = {a1}
    Cap = 2
    MaxUse = 1
    MaxFaults = 1
INVARIANTS SpendAccounted JournalIsLedger SameOwnerResumes
PROPERTIES FenceHolds
CHECK_DEADLOCK FALSE
