SPECIFICATION Spec
CONSTANTS
    N = 3
    Cap = 2
    MaxAttempts = 2
    MaxBackground = 2
    MaxFaults = 1
    Inputs <- MCInputs
INVARIANTS Isolated RunsAsAllowed
PROPERTIES EndsCleanly
CHECK_DEADLOCK FALSE
