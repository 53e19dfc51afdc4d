SPECIFICATION Spec
CONSTANTS
    c1 = c1
    c2 = c2
    c3 = c3
    v1 = v1
    v2 = v2
    b1 = b1
    b2 = b2
    Cache = {c1, c2}
    NoCache = NoCache
    Byte = {b1}
    Burst <- OneBurst
    FirstBurst <- NarrowFirst
    Val = {v1, v2}
    StoreMask <- OneMask
    Loaders = {c2}
    Storers = {c1, c2}
    Evictors = {c2}
    Replace = TRUE
    Overtake = TRUE
CHECK_DEADLOCK FALSE
INVARIANTS
    DataValue
