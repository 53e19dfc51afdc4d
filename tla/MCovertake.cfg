SPECIFICATION Spec
CONSTANTS
    c1 = c1
    c2 = c2
    c3 = c3
    v1 = v1
    v2 = v2
    b1 = b1
    b2 = b2
    Cache = {c1, c2}
    NoCache = NoCache
    Byte = {b1, b2}
    Burst <- WideBurst
    FirstBurst <- WideFirst
    Val = {v1, v2}
    StoreMask <- WideMasks
    Loaders = {c2}
    Storers = {c1, c2}
    Evictors = {c2}
    Replace = FALSE
    Overtake = TRUE
INVARIANTS
    SWMR
    DataKept
CHECK_DEADLOCK FALSE
