SPECIFICATION Spec
CONSTANTS
    w1 = w1
    w2 = w2
    Workers = {w1, w2}
    Execs <- Mixed
    NoOwner = NoOwner
    Ttl = 2
    MaxFaults = 1
    MaxDelays = 5
INVARIANTS OverlapBounded OneExecutionPerEpoch NothingLeaked
PROPERTIES EventuallySettled TerminalIsFinal
