SPECIFICATION Spec
CONSTANTS
    outer = outer
    inner = inner
    later = later
    NoState = NoState
    Addrs = {p, q}
    Regions <- MCRegions
    Encloses <- Nested
    MaxCalls = 7
    MaxLag = 3
INVARIANT EveryRegionComplete
CHECK_DEADLOCK FALSE
