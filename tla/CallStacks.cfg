SPECIFICATION Spec
CONSTANTS
    main = main
    f = f
    g = g
    Functions <- MCFunctions
    Main = main
    Sites <- MCSites
    Caller <- MCCaller
    Callee <- MCCallee
    Ret <- MCRet
    Entered <- MCEntered
    Instrs <- MCInstrs
    InFunction <- MCInFunction
    NoTrace = NoTrace
    TRACE_SIZE = 3
    PtrBytes = 2
    Bits = {1, 2}
    MaxDepth = 3
    MaxSteps = 8
INVARIANTS TypeOK UniqueTraceIsPath SameCallSameID IDTellsInstruction
CHECK_DEADLOCK FALSE
