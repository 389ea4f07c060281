----------------------------- MODULE CallStacks -----------------------------
(***************************************************************************)
(* How an allocation or a use gets its unique ID.  The pass captures the   *)
(* call stack at the entry of every function, once and for all where it    *)
(* takes the stack to be unique (ClusterCallstackInstrumentation.cpp); the *)
(* wrapper interns the captured trace (getBacktrace, getBacktraceUnique)   *)
(* and gives each pair of an instruction and a trace an ID (saveCallstack, *)
(* wrapper.cpp), which stands for it in all results.                       *)
(*                                                                         *)
(* A trace is kept as the stack it was taken from; its buffer of return    *)
(* addresses is computed from that.  The build without a trace cache is    *)
(* modelled (MEMORYTOOL_NOCACHE, the default).  issued is a history        *)
(* variable.                                                               *)
(***************************************************************************)
EXTENDS Naturals, Sequences, FiniteSets

CONSTANTS Functions, Main,
          Sites,           \* call sites
          Caller, Callee,  \* their functions
          Ret,             \* return address of a call site
          Entered,         \* return address of the capture at a function's entry
          Instrs,          \* the instrumented instructions: their static IDs
          InFunction,      \* the function each one is in
          NoTrace,         \* nullptr
          TRACE_SIZE, PtrBytes, Bits,
          MaxDepth,        \* bound: calls on the stack
          MaxSteps         \* bound: calls, returns and saved call stacks

\* A word of memory: the bits set in each of its bytes.
Words == [0 .. PtrBytes - 1 -> SUBSET Bits]
Trace == [fn : Functions, path : Seq(Sites)]   \* the innermost call last

\* That nobody calls main is what the pass needs to end: visitDepthFirst would
\* go round a cycle through main for ever.
ASSUME CallStackAssumption ==
    /\ Main \in Functions
    /\ Caller \in [Sites -> Functions] /\ Callee \in [Sites -> Functions \ {Main}]
    /\ Ret \in [Sites -> Words] /\ Entered \in [Functions -> Words]
    /\ Instrs \subseteq Words /\ InFunction \in [Instrs -> Functions]
    /\ NoTrace \notin Trace
    /\ TRACE_SIZE \in Nat \ {0} /\ PtrBytes \in Nat \ {0}
    /\ MaxDepth \in Nat /\ MaxSteps \in Nat

VARIABLES
    calls,          \* the calls that the program contains
    uniqueCallstackFunctions,  \* what the pass makes of them
    frames,         \* the stack, innermost last, with the trace of each frame
    uniqueTraces,   \* of the functions whose stack is taken to be unique
    hashToTraceMap, \* the other traces
    dynamicTraces,  \* <<instruction, trace>> of each unique ID
    issued,         \* <<instruction, the stack it ran with, unique ID>>
    steps

compiled == <<calls, uniqueCallstackFunctions>>
vars == <<compiled, frames, uniqueTraces, hashToTraceMap, dynamicTraces, issued, steps>>

-----------------------------------------------------------------------------
(***************************************************************************)
(* The pass.                                                               *)
(***************************************************************************)
\* The call graph has one edge from each caller, however often it calls.
incomingEdges(f) == {Caller[s] : s \in {c \in calls : Callee[c] = f}}

\* What a traversal from main visits that stops at every function bad rejects.
Visited(bad(_)) ==
    {f \in Functions : \A S \in SUBSET Functions :
        (/\ Main \in S \/ bad(Main)
         /\ \A s \in calls : Caller[s] \in S /\ ~bad(Callee[s]) => Callee[s] \in S)
        => f \in S}

\* Mutant: two callers are not too many.
getUniqueCallstackFunctionsTwo ==
    LET bad(f) == Cardinality(incomingEdges(f)) > 2 IN Visited(bad)

\* visitDepthFirst stops at a function with more than one caller.
getUniqueCallstackFunctions ==
    LET bad(f) == \E c, d \in incomingEdges(f) : c # d IN Visited(bad)

-----------------------------------------------------------------------------
(***************************************************************************)
(* Traces and their comparison.                                            *)
(***************************************************************************)
\* backtrace_asm: the return addresses, the innermost first, as far as the
\* buffer goes.
nptrs(t) == IF Len(t.path) < TRACE_SIZE THEN Len(t.path) + 1 ELSE TRACE_SIZE
buffer(t, i) == IF i = 1 THEN Entered[t.fn] ELSE Ret[t.path[Len(t.path) + 2 - i]]

\* Exclusive or, of two words and of all words of a buffer.
Xor(v, w) == [k \in 0 .. PtrBytes - 1 |-> (v[k] \cup w[k]) \ (v[k] \cap w[k])]

myHashPart1(t) ==
    [k \in 0 .. PtrBytes - 1 |->
        {b \in Bits : Cardinality({i \in 1 .. nptrs(t) : b \in buffer(t, i)[k]}) % 2 = 1}]

\* std::hash of an integer is the integer.
myHashPart2(hashPart1, staticID) == Xor(hashPart1, staticID)

\* memcmp over as many bytes as there are pointers.
SamePrefix(t, u) ==
    \A k \in 0 .. nptrs(t) - 1 :
        buffer(t, (k \div PtrBytes) + 1)[k % PtrBytes] =
        buffer(u, (k \div PtrBytes) + 1)[k % PtrBytes]

traceCompare(t, u) == nptrs(t) = nptrs(u) /\ SamePrefix(t, u)

\* The trace that getBacktrace returns for a stack it has a trace like.
Interned(t) == {u \in hashToTraceMap : myHashPart1(u) = myHashPart1(t) /\ traceCompare(t, u)}

getBacktrace(t, trace) ==
    /\ trace \in IF Interned(t) = {} THEN {t} ELSE Interned(t)
    /\ hashToTraceMap' = hashToTraceMap \cup {trace}
    /\ UNCHANGED uniqueTraces

\* The trace of the function's first execution is used for all.
getBacktraceUnique(t, trace) ==
    /\ trace = IF uniqueTraces[t.fn] = NoTrace THEN t ELSE uniqueTraces[t.fn]
    /\ uniqueTraces' = [uniqueTraces EXCEPT ![t.fn] = trace]
    /\ UNCHANGED hashToTraceMap

\* Mutant: hashPart1 is not compared again within a bucket.
ExistingByBucket(staticID, t) ==
    {n \in 1 .. Len(dynamicTraces) :
        LET d == dynamicTraces[n] IN
          /\ myHashPart2(myHashPart1(d.trace), d.staticID)
               = myHashPart2(myHashPart1(t), staticID)
          /\ traceCompare(t, d.trace)}

\* Mutant: an ID is found only for the most recent trace.
ExistingLast(staticID, t) ==
    {n \in 1 .. Len(dynamicTraces) :
        n = Len(dynamicTraces) /\ dynamicTraces[n] = [staticID |-> staticID, trace |-> t]}

\* The IDs that saveCallstack finds in the bucket of the instruction and the
\* trace, with as many pointers, the same hashPart1 and the same bytes.
Existing(staticID, t) ==
    {n \in 1 .. Len(dynamicTraces) :
        LET d == dynamicTraces[n] IN
          /\ myHashPart2(myHashPart1(d.trace), d.staticID)
               = myHashPart2(myHashPart1(t), staticID)
          /\ myHashPart1(d.trace) = myHashPart1(t)
          /\ traceCompare(t, d.trace)}

-----------------------------------------------------------------------------
(***************************************************************************)
(* The run.                                                                *)
(***************************************************************************)
Step == steps < MaxSteps /\ steps' = steps + 1

Top == frames[Len(frames)]

\* The first instruction of a function captures the stack.
Capture(t, trace) ==
    IF t.fn \in uniqueCallstackFunctions THEN getBacktraceUnique(t, trace)
    ELSE getBacktrace(t, trace)

Enter(t) ==
    \E trace \in {t} \cup hashToTraceMap \cup {uniqueTraces[f] : f \in Functions} :
        /\ Capture(t, trace)
        /\ frames' = Append(frames, [stack |-> t, trace |-> trace])

Init ==
    /\ calls \in SUBSET Sites
    /\ uniqueCallstackFunctions = getUniqueCallstackFunctions
    /\ frames = <<>>
    /\ uniqueTraces = [f \in Functions |-> NoTrace]
    /\ hashToTraceMap = {} /\ dynamicTraces = <<>>
    /\ issued = {}
    /\ steps = 0

StartMain ==
    /\ Step
    /\ frames = <<>>
    /\ Enter([fn |-> Main, path |-> <<>>])
    /\ UNCHANGED <<compiled, dynamicTraces, issued>>

Call(s) ==
    /\ Step
    /\ frames # <<>> /\ Len(frames) <= MaxDepth
    /\ s \in calls /\ Caller[s] = Top.stack.fn
    /\ Enter([fn |-> Callee[s], path |-> Append(Top.stack.path, s)])
    /\ UNCHANGED <<compiled, dynamicTraces, issued>>

Return ==
    /\ Step
    /\ Len(frames) > 1
    /\ frames' = SubSeq(frames, 1, Len(frames) - 1)
    /\ UNCHANGED <<compiled, uniqueTraces, hashToTraceMap, dynamicTraces, issued>>

\* Mutant: IDs are counted from 0.
nextIDFromZero == Len(dynamicTraces)

\* globalID: the next ID, counted from 1.
nextID == Len(dynamicTraces) + 1

incrementPushReturn(t, staticID) ==
    dynamicTraces' = Append(dynamicTraces, [staticID |-> staticID, trace |-> t])

saveCallstack(staticID) ==
    /\ Step
    /\ frames # <<>> /\ InFunction[staticID] = Top.stack.fn
    /\ \E uniqueID \in 0 .. Len(dynamicTraces) + 1 :
          /\ \/ /\ uniqueID \in Existing(staticID, Top.trace)
                /\ UNCHANGED dynamicTraces
             \/ /\ Existing(staticID, Top.trace) = {}
                /\ uniqueID = nextID
                /\ incrementPushReturn(Top.trace, staticID)
          /\ issued' = issued \cup {<<staticID, Top.stack, uniqueID>>}
    /\ UNCHANGED <<compiled, frames, uniqueTraces, hashToTraceMap>>

Next ==
    \/ StartMain
    \/ \E s \in Sites : Call(s)
    \/ Return
    \/ \E i \in Instrs : saveCallstack(i)

Spec == Init /\ [][Next]_vars

-----------------------------------------------------------------------------
Frame        == [stack : Trace, trace : Trace]
DynamicTrace == [staticID : Instrs, trace : Trace]

\* Types: every ID that was issued is the ID of a trace, so that
\* getTraceAndStaticID finds it, and none is 0.
TypeOK ==
    /\ calls \subseteq Sites /\ uniqueCallstackFunctions \subseteq Functions
    /\ frames \in Seq(Frame)
    /\ uniqueTraces \in [Functions -> Trace \cup {NoTrace}]
    /\ hashToTraceMap \subseteq Trace
    /\ dynamicTraces \in Seq(DynamicTrace)
    /\ issued \subseteq Instrs \X Trace \X (1 .. Len(dynamicTraces))
    /\ steps \in 0 .. MaxSteps

SameFunctions(t, u) ==
    /\ t.fn = u.fn
    /\ Len(t.path) = Len(u.path)
    /\ \A k \in 1 .. Len(t.path) : Caller[t.path[k]] = Caller[u.path[k]]

\* The trace captured once for a function that is taken to have a unique stack
\* goes through the functions that are on the stack in every execution, at the
\* same depth, whatever the call graph.  (The places of the calls may differ.)
UniqueTraceIsPath ==
    \A i \in 1 .. Len(frames) :
        frames[i].stack.fn \in uniqueCallstackFunctions
            => SameFunctions(frames[i].trace, frames[i].stack)

\* The stack that a function is taken to have in all its executions is the one
\* it has.  The code does not keep this: a function that one caller calls in
\* two places has one incoming edge.
UniqueTraceIsCurrent ==
    \A i \in 1 .. Len(frames) :
        frames[i].stack.fn \in uniqueCallstackFunctions => frames[i].trace = frames[i].stack

\* The same instruction with the same call stack gets the same ID every time,
\* through whichever traces the stack was interned.
SameCallSameID ==
    \A i, j \in issued : i[1] = j[1] /\ i[2] = j[2] => i[3] = j[3]

\* What an ID tells: two executions with one ID are of one instruction.  In a
\* function with a unique stack they came there through the same functions; in
\* any other, their return addresses agree in number, in their hash and in the
\* bytes compared.  (The call stacks may still differ.)
IDTellsInstruction ==
    \A i, j \in issued : i[3] = j[3] =>
        /\ i[1] = j[1]
        /\ i[2].fn \in uniqueCallstackFunctions => SameFunctions(i[2], j[2])
        /\ i[2].fn \notin uniqueCallstackFunctions =>
              /\ myHashPart1(i[2]) = myHashPart1(j[2])
              /\ traceCompare(i[2], j[2])
=============================================================================
