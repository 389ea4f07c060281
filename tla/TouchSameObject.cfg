SPECIFICATION Spec
CONSTANTS
    Entry = Entry
    Exit = Exit
    Idle = Idle
    NoBase = NoBase
    Caller = Caller
    x = x
    y = y
    s = s
    t = t
    p = p
    q = q
    v = v
    roi = roi
    Nodes <- MCNodes
    Ptrs = {p, q, v}
    BaseOf <- MCBaseOf
    ROIs = {roi}
    enableDFAObjGranularity = TRUE
    Functions <- MCFunctions
INVARIANTS TypeOK NothingMissed
