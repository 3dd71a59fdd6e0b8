SPECIFICATION Spec
CONSTANTS
    Runs = {r1}
    Sessions = {s1}
    Owners = {a, b}
    NoOwner = NoOwner
    NoRun = NoRun
    Ttl = 2
    MaxTime = 3
    MaxEpoch = 3
    MaxEvents = 3
SYMMETRY OwnerSymmetry
INVARIANTS EpochNamesOneOwner LogOrderedByTenure UnexpiredTokenIsCurrent
PROPERTIES FencedForever
