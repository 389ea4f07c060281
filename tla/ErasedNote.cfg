SPECIFICATION Spec
CONSTANTS
    Origins = {o1, o2}
    NoAlloc = NoAlloc
    maxEntry = maxEntry
    outer = outer
    inner = inner
    Regions = {outer, inner}
    NoState = NoState
    Enclosing <- MCEnclosing
    AddrSpace = 3
    MaxLen = 2
    MaxOps = 6
    MaxSlots = 0
INVARIANTS SavedAllocationsHaveEntries
SYMMETRY OriginSymmetry
