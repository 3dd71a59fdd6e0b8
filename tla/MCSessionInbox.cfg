SPECIFICATION Spec
CONSTANTS
    Sessions = {s1, s2}
    Peers = {p1, p2}
    Notes = {n1}
    NoToken = NoToken
    MaxInputs = 2
    MaxFaults = 1
    MaxLate = 1
INVARIANTS ExactlyOnce OrderKept NoteSeen
PROPERTY EventuallyStored
CHECK_DEADLOCK FALSE
