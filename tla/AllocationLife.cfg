SPECIFICATION Spec
CONSTANTS
    Origins = {o1, o2}
    NoAlloc = NoAlloc
    maxEntry = maxEntry
    outer = outer
    inner = inner
    Regions = {outer, inner}
    NoState = NoState
    Enclosing <- MCEnclosing
    AddrSpace = 4
    MaxLen = 2
    MaxOps = 7
    MaxSlots = 1
INVARIANTS TypeOK LookupFindsBlock NothingLost NothingExtra
SYMMETRY OriginSymmetry
