SPECIFICATION Spec
CONSTANTS
    outer = outer
    inner = inner
    later = later
    NoState = NoState
    Addrs = {p, q}
    Regions <- MCRegions
    Encloses <- Nested
    MaxCalls = 10
    MaxLag = 3
INVARIANTS TypeOK ChargedToInnermost OutermostComplete OnlyOwnAccesses ShadowFollows
CHECK_DEADLOCK FALSE
