-------------------------- MODULE CallStacksProofs --------------------------
(***************************************************************************)
(* For every program, every assignment of return addresses and every       *)
(* number of calls: a trace that is captured once goes through the         *)
(* functions that are on the stack in every execution, and an ID stands    *)
(* for one instruction and one trace.                                      *)
(***************************************************************************)
EXTENDS CallStacks, TLAPS

\* Two traces that the wrapper takes for one.
Like(t, u) == myHashPart1(t) = myHashPart1(u) /\ traceCompare(t, u)

Extend(t, s) == [fn |-> Callee[s], path |-> Append(t.path, s)]
MainTrace    == [fn |-> Main, path |-> <<>>]

\* The pass's result, as the run uses it: a function other than main that is
\* taken as unique is called from one function only, which is unique, too.
UniqueCallers ==
    \A s, t \in calls : Callee[s] = Callee[t] /\ Callee[s] \in uniqueCallstackFunctions
        => Caller[s] = Caller[t] /\ Caller[s] \in uniqueCallstackFunctions

\* The trace of a unique function on the stack is the one on record.
FramesRecorded ==
    \A i \in 1 .. Len(frames) :
        frames[i].stack.fn \in uniqueCallstackFunctions =>
            /\ uniqueTraces[frames[i].stack.fn] = frames[i].trace
            /\ SameFunctions(frames[i].trace, frames[i].stack)

\* The traces on record extend each other along the calls, but for the places
\* of the calls.
RecordsExtend ==
    /\ uniqueTraces[Main] \in {MainTrace, NoTrace}
    /\ \A s \in calls :
          Callee[s] \in uniqueCallstackFunctions /\ uniqueTraces[Callee[s]] # NoTrace =>
              /\ uniqueTraces[Caller[s]] # NoTrace
              /\ SameFunctions(uniqueTraces[Callee[s]], Extend(uniqueTraces[Caller[s]], s))

FramesLike ==
    \A i \in 1 .. Len(frames) :
        frames[i].stack.fn \notin uniqueCallstackFunctions
            => Like(frames[i].stack, frames[i].trace)

\* An ID per instruction and kind of trace.
IDsApart ==
    \A m, n \in 1 .. Len(dynamicTraces) :
        /\ dynamicTraces[m].staticID = dynamicTraces[n].staticID
        /\ Like(dynamicTraces[m].trace, dynamicTraces[n].trace)
        => m = n

\* The trace that the wrapper goes by for a stack.
Standing(t) == IF t.fn \in uniqueCallstackFunctions THEN uniqueTraces[t.fn] ELSE t

IssuedRight ==
    \A i \in issued :
        /\ dynamicTraces[i[3]].staticID = i[1]
        /\ i[2].fn = InFunction[i[1]]
        /\ Like(Standing(i[2]), dynamicTraces[i[3]].trace)
        /\ i[2].fn \in uniqueCallstackFunctions =>
              /\ uniqueTraces[i[2].fn] # NoTrace
              /\ SameFunctions(uniqueTraces[i[2].fn], i[2])

StackInv == TypeOK /\ UniqueCallers /\ FramesRecorded /\ RecordsExtend
IInv     == StackInv /\ FramesLike /\ IDsApart /\ IssuedRight

-----------------------------------------------------------------------------
\* Being taken for one is an equivalence.
LEMMA LikeReflexive == \A t : Like(t, t)
  BY DEF Like, traceCompare, SamePrefix

\* It works both ways ...
LEMMA LikeSymmetric == ASSUME NEW t, NEW u, Like(t, u) PROVE Like(u, t)
  BY DEF Like, traceCompare, SamePrefix

\* ... and across a third trace.
LEMMA LikeTransitive == ASSUME NEW t, NEW u, NEW v, Like(t, u), Like(u, v) PROVE Like(t, v)
  BY DEF Like, traceCompare, SamePrefix

\* Going through the same functions is an equivalence, too.
LEMMA SameReflexive == \A t : SameFunctions(t, t)
  BY DEF SameFunctions

\* It works both ways ...
LEMMA SameSymmetric ==
    ASSUME NEW t, NEW u, SameFunctions(t, u) PROVE SameFunctions(u, t)
  BY DEF SameFunctions

\* ... and across a third trace ...
LEMMA SameTransitive ==
    ASSUME NEW t, NEW u, NEW v, SameFunctions(t, u), SameFunctions(u, v)
    PROVE  SameFunctions(t, v)
  BY DEF SameFunctions

\* ... and is kept by calls of one function from one function.
LEMMA SameExtend ==
    ASSUME NEW t \in Trace, NEW u \in Trace, NEW s \in Sites, NEW c \in Sites,
           SameFunctions(t, u), Caller[s] = Caller[c], Callee[s] = Callee[c]
    PROVE  SameFunctions(Extend(t, s), Extend(u, c))
  <1> DEFINE P == Append(t.path, s)
             Q == Append(u.path, c)
  <1>1. t.path \in Seq(Sites) /\ u.path \in Seq(Sites) /\ Len(t.path) = Len(u.path)
    BY DEF Trace, SameFunctions
  <1>2. /\ Len(P) = Len(t.path) + 1 /\ Len(Q) = Len(t.path) + 1 /\ Len(t.path) \in Nat
        /\ \A k \in 1 .. Len(t.path) : P[k] = t.path[k] /\ Q[k] = u.path[k]
        /\ P[Len(t.path) + 1] = s /\ Q[Len(t.path) + 1] = c
    BY <1>1
  <1>3. Extend(t, s).path = P /\ Extend(u, c).path = Q
        /\ Extend(t, s).fn = Callee[s] /\ Extend(u, c).fn = Callee[c]
    BY DEF Extend
  <1> HIDE DEF P, Q
  <1>4. ASSUME NEW k \in 1 .. Len(P) PROVE Caller[P[k]] = Caller[Q[k]]
    <2>1. CASE k \in 1 .. Len(t.path)
      BY <1>2, <2>1 DEF SameFunctions
    <2>2. CASE k = Len(t.path) + 1
      BY <1>2, <2>2
    <2> QED
      BY <1>2, <2>1, <2>2
  <1> QED
    BY <1>2, <1>3, <1>4 DEF SameFunctions

\* Exclusive or with the same word can be undone.
LEMMA XorCancels ==
    ASSUME NEW h \in Words, NEW v \in Words, NEW w \in Words, Xor(h, v) = Xor(h, w)
    PROVE  v = w
  <1>1. ASSUME NEW k \in 0 .. PtrBytes - 1 PROVE v[k] = w[k]
    <2>1. Xor(h, v)[k] = Xor(h, w)[k]
      OBVIOUS
    <2>2. (h[k] \cup v[k]) \ (h[k] \cap v[k]) = (h[k] \cup w[k]) \ (h[k] \cap w[k])
      BY <2>1, <1>1 DEF Xor
    <2> QED
      BY <2>2
  <1>2. /\ v = [k \in 0 .. PtrBytes - 1 |-> v[k]]
        /\ w = [k \in 0 .. PtrBytes - 1 |-> w[k]]
    BY DEF Words
  <1>3. [k \in 0 .. PtrBytes - 1 |-> v[k]] = [k \in 0 .. PtrBytes - 1 |-> w[k]]
    BY <1>1
  <1> QED
    BY <1>2, <1>3

\* A hash is a word.
LEMMA HashIsWord == ASSUME NEW t PROVE myHashPart1(t) \in Words
  BY DEF myHashPart1, Words

\* The stack of a call is a stack.
LEMMA ExtendType ==
    ASSUME NEW t \in Trace, NEW s \in Sites PROVE Extend(t, s) \in Trace
  BY CallStackAssumption DEF Extend, Trace

\* So is that of main.
LEMMA MainTraceType == MainTrace \in Trace
  BY CallStackAssumption DEF MainTrace, Trace

\* What saveCallstack finds is the same instruction with a trace like this one.
LEMMA ExistingSound ==
    ASSUME TypeOK, NEW i \in Instrs, NEW t, NEW n \in 1 .. Len(dynamicTraces)
    PROVE  n \in Existing(i, t) <=>
             dynamicTraces[n].staticID = i /\ Like(t, dynamicTraces[n].trace)
  <1> DEFINE d == dynamicTraces[n]
  <1>1. d.staticID \in Words /\ i \in Words
    <2>1. d \in DynamicTrace
      BY DEF TypeOK
    <2> QED
      BY <2>1, CallStackAssumption DEF DynamicTrace
  <1>2. ASSUME myHashPart1(d.trace) = myHashPart1(t),
               Xor(myHashPart1(d.trace), d.staticID) = Xor(myHashPart1(t), i)
        PROVE  d.staticID = i
    BY <1>1, <1>2, XorCancels, HashIsWord
  <1> HIDE DEF d
  <1>3. n \in Existing(i, t) <=>
          /\ Xor(myHashPart1(d.trace), d.staticID) = Xor(myHashPart1(t), i)
          /\ myHashPart1(d.trace) = myHashPart1(t)
          /\ traceCompare(t, d.trace)
    BY DEF Existing, myHashPart2, d
  <1> QED
    BY <1>2, <1>3 DEF Like, d

\* The pass: a visited function is reached from a visited one.
LEMMA CallersAreUnique ==
    ASSUME calls \subseteq Sites,
           uniqueCallstackFunctions = getUniqueCallstackFunctions
    PROVE  UniqueCallers
  <1> DEFINE bad(f) == \E c, d \in incomingEdges(f) : c # d
             U == uniqueCallstackFunctions
  <1>1. \A f \in Functions : f \in U <=>
           \A S \in SUBSET Functions :
              (/\ Main \in S \/ bad(Main)
               /\ \A s \in calls : Caller[s] \in S /\ ~bad(Callee[s]) => Callee[s] \in S)
              => f \in S
    BY DEF getUniqueCallstackFunctions, Visited
  <1>2. U \subseteq Functions
    BY DEF getUniqueCallstackFunctions, Visited
  <1>3. SUFFICES ASSUME NEW s \in calls, NEW t \in calls, Callee[s] = Callee[t], Callee[s] \in U
                 PROVE  Caller[s] = Caller[t] /\ Caller[s] \in U
    BY DEF UniqueCallers
  <1> DEFINE f == Callee[s]
  <1>4. f \in Functions /\ f # Main /\ Caller[s] \in Functions
    BY CallStackAssumption
  <1>5. ~bad(f)
    <2>1. SUFFICES ASSUME bad(f) PROVE FALSE
      OBVIOUS
    <2> DEFINE S == Functions \ {f}
    <2>2. Main \in S
      BY <1>4, CallStackAssumption
    <2>3. \A c \in calls : Caller[c] \in S /\ ~bad(Callee[c]) => Callee[c] \in S
      BY <2>1, CallStackAssumption
    <2>4. S \in SUBSET Functions
      OBVIOUS
    <2> HIDE DEF S, bad
    <2>5. f \in S
      BY <1>1, <1>3, <1>4, <2>2, <2>3, <2>4
    <2> QED
      BY <2>5 DEF S
  <1>6. Caller[s] = Caller[t]
    BY <1>3, <1>5 DEF incomingEdges
  <1>7. Caller[s] \in U
    <2>1. SUFFICES ASSUME Caller[s] \notin U PROVE FALSE
      OBVIOUS
    <2> DEFINE S == U \ {f}
    <2>2. Main \in S \/ bad(Main)
      <3> HIDE DEF bad
      <3> QED
        BY <1>1, <1>4, CallStackAssumption
    <2>3. ASSUME NEW c \in calls, Caller[c] \in S, ~bad(Callee[c]) PROVE Callee[c] \in S
      <3>1. Callee[c] \in U
        <4>1. Callee[c] \in Functions /\ Caller[c] \in U /\ Caller[c] \in Functions
          BY <2>3, CallStackAssumption
        <4> HIDE DEF bad, U
        <4> QED
          BY <1>1, <2>3, <4>1
      <3>2. Callee[c] # f
        BY <1>5, <2>1, <2>3 DEF incomingEdges
      <3> QED
        BY <3>1, <3>2
    <2>4. S \in SUBSET Functions
      BY <1>2
    <2> HIDE DEF S, bad, U
    <2>5. f \in S
      BY <1>1, <1>3, <1>4, <2>2, <2>3, <2>4
    <2> QED
      BY <2>5 DEF S
  <1> QED
    BY <1>6, <1>7

-----------------------------------------------------------------------------
\* Before main is entered nothing is captured and nothing issued.
LEMMA InitIInv == Init => IInv
  <1> SUFFICES ASSUME Init PROVE IInv
    OBVIOUS
  <1>1. TypeOK
    BY CallStackAssumption DEF Init, TypeOK, getUniqueCallstackFunctions, Visited
  <1>2. UniqueCallers
    BY CallersAreUnique DEF Init
  <1>3. FramesRecorded /\ RecordsExtend
    BY CallStackAssumption DEF Init, FramesRecorded, RecordsExtend
  <1>4. FramesLike /\ IDsApart /\ IssuedRight
    BY DEF Init, FramesLike, IDsApart, IssuedRight
  <1> QED
    BY <1>1, <1>2, <1>3, <1>4 DEF IInv, StackInv

\* A function that is entered with stack t: main, or the callee of a call from
\* the innermost frame.
Enterable(t) ==
    \/ t = MainTrace
    \/ /\ frames # <<>>
       /\ \E s \in calls : Caller[s] = Top.stack.fn /\ t = Extend(Top.stack, s)

\* Where a trace is on record for a unique function it goes through the
\* functions of the present stack.
LEMMA RecordIsPath ==
    ASSUME StackInv, NEW t \in Trace, Enterable(t),
           t.fn \in uniqueCallstackFunctions, uniqueTraces[t.fn] # NoTrace
    PROVE  uniqueTraces[t.fn] \in Trace /\ SameFunctions(uniqueTraces[t.fn], t)
  <1>0. uniqueTraces[t.fn] \in Trace
    BY DEF StackInv, TypeOK, Trace
  <1>1. CASE t = MainTrace
    <2>1. uniqueTraces[t.fn] = t
      BY <1>1 DEF StackInv, RecordsExtend, MainTrace
    <2> QED
      BY <1>0, <2>1, SameReflexive
  <1>2. ASSUME frames # <<>>, NEW s \in calls, Caller[s] = Top.stack.fn,
               t = Extend(Top.stack, s)
        PROVE  SameFunctions(uniqueTraces[t.fn], t)
    <2>1. t.fn = Callee[s] /\ s \in Sites
      BY <1>2 DEF Extend, StackInv, TypeOK
    <2>2. Caller[s] \in uniqueCallstackFunctions
      BY <2>1 DEF UniqueCallers, StackInv
    <2>3. Len(frames) \in 1 .. Len(frames) /\ Top \in Frame
      BY <1>2 DEF StackInv, TypeOK, Top
    <2>4. /\ uniqueTraces[Caller[s]] = Top.trace
          /\ SameFunctions(Top.trace, Top.stack)
      BY <1>2, <2>2, <2>3 DEF StackInv, FramesRecorded, Top
    <2>5. Top.trace \in Trace /\ Top.stack \in Trace
      BY <2>3 DEF Frame
    <2>6. SameFunctions(uniqueTraces[t.fn], Extend(Top.trace, s))
      BY <2>1, <2>4 DEF StackInv, RecordsExtend
    <2>7. SameFunctions(Extend(Top.trace, s), t)
      BY <1>2, <2>1, <2>4, <2>5, SameExtend
    <2> QED
      BY <2>6, <2>7, SameTransitive
  <1> QED
    BY <1>0, <1>1, <1>2 DEF Enterable

\* The trace of a captured stack is like the stack, or on record for a unique
\* function and then of the same functions.
LEMMA CaptureRight ==
    ASSUME StackInv, NEW t \in Trace, NEW trace, Enterable(t), Capture(t, trace)
    PROVE  /\ trace \in Trace
           /\ t.fn \in uniqueCallstackFunctions =>
                /\ trace = IF uniqueTraces[t.fn] = NoTrace THEN t ELSE uniqueTraces[t.fn]
                /\ SameFunctions(trace, t)
                /\ uniqueTraces' = [uniqueTraces EXCEPT ![t.fn] = trace]
                /\ hashToTraceMap' = hashToTraceMap
           /\ t.fn \notin uniqueCallstackFunctions =>
                /\ Like(t, trace)
                /\ uniqueTraces' = uniqueTraces
                /\ hashToTraceMap' = hashToTraceMap \cup {trace}
  <1>1. CASE t.fn \in uniqueCallstackFunctions
    <2>1. trace = IF uniqueTraces[t.fn] = NoTrace THEN t ELSE uniqueTraces[t.fn]
      BY <1>1 DEF Capture, getBacktraceUnique
    <2>2. trace \in Trace /\ SameFunctions(trace, t)
      BY <1>1, <2>1, RecordIsPath, SameReflexive
    <2> QED
      BY <1>1, <2>1, <2>2 DEF Capture, getBacktraceUnique
  <1>2. CASE t.fn \notin uniqueCallstackFunctions
    <2>1. trace \in IF Interned(t) = {} THEN {t} ELSE Interned(t)
      BY <1>2 DEF Capture, getBacktrace
    <2>2. CASE trace = t
      BY <1>2, <2>2, LikeReflexive DEF Capture, getBacktrace
    <2>3. CASE trace \in Interned(t)
      <3>1. trace \in Trace
        BY <2>3 DEF Interned, StackInv, TypeOK
      <3>2. Like(t, trace)
        BY <2>3 DEF Interned, Like
      <3> QED
        BY <1>2, <3>1, <3>2 DEF Capture, getBacktrace
    <2> QED
      BY <2>1, <2>2, <2>3
  <1> QED
    BY <1>1, <1>2

\* Entering a function keeps what the invariant says of the stack.
LEMMA EnterInv ==
    ASSUME StackInv, FramesLike, NEW t \in Trace, Enterable(t), Enter(t),
           UNCHANGED <<compiled, dynamicTraces, issued>>, steps' \in 0 .. MaxSteps
    PROVE  /\ StackInv' /\ FramesLike'
           /\ \A g \in Functions : uniqueTraces[g] # NoTrace => uniqueTraces'[g] = uniqueTraces[g]
  <1> DEFINE U == uniqueCallstackFunctions
             f == t.fn
  <1>1. PICK trace : Capture(t, trace) /\ frames' = Append(frames, [stack |-> t, trace |-> trace])
    BY DEF Enter
  <1>2. /\ trace \in Trace
        /\ f \in U => /\ trace = IF uniqueTraces[f] = NoTrace THEN t ELSE uniqueTraces[f]
                      /\ SameFunctions(trace, t)
                      /\ uniqueTraces' = [uniqueTraces EXCEPT ![f] = trace]
                      /\ hashToTraceMap' = hashToTraceMap
        /\ f \notin U => /\ Like(t, trace)
                         /\ uniqueTraces' = uniqueTraces
                         /\ hashToTraceMap' = hashToTraceMap \cup {trace}
    BY <1>1, CaptureRight
  <1> DEFINE fr == [stack |-> t, trace |-> trace]
  <1>3. f \in Functions /\ fr \in Frame
    BY <1>2 DEF Trace, Frame
  <1>4. frames \in Seq(Frame)
    BY DEF StackInv, TypeOK
  <1> HIDE DEF fr
  <1>5. /\ frames' \in Seq(Frame)
        /\ Len(frames') = Len(frames) + 1 /\ Len(frames) \in Nat
        /\ \A i \in 1 .. Len(frames) : frames'[i] = frames[i]
        /\ frames'[Len(frames) + 1] = fr
    BY <1>1, <1>3, <1>4 DEF fr
  <1>6. TypeOK'
    BY <1>2, <1>3, <1>5 DEF StackInv, TypeOK, compiled
  <1>7. UniqueCallers'
    BY DEF StackInv, UniqueCallers, compiled
  <1>8. uniqueTraces[f] # NoTrace => uniqueTraces' = uniqueTraces
    BY <1>2, <1>3 DEF StackInv, TypeOK
  <1>9. ASSUME NEW i \in 1 .. Len(frames')
        PROVE  \/ i \in 1 .. Len(frames) /\ frames'[i] = frames[i]
               \/ frames'[i] = fr
    BY <1>5
  <1>10. NoTrace \notin Trace
    BY CallStackAssumption
  <1>11. FramesRecorded'
    <2> SUFFICES ASSUME NEW i \in 1 .. Len(frames'), frames'[i].stack.fn \in U
                 PROVE  /\ uniqueTraces'[frames'[i].stack.fn] = frames'[i].trace
                        /\ SameFunctions(frames'[i].trace, frames'[i].stack)
      BY DEF FramesRecorded, compiled, SameFunctions
    <2>1. CASE frames'[i] = fr
      BY <2>1, <1>2, <1>3 DEF StackInv, TypeOK, fr
    <2>2. CASE i \in 1 .. Len(frames) /\ frames'[i] = frames[i]
      <3> DEFINE g == frames[i].stack.fn
      <3>1. uniqueTraces[g] = frames[i].trace /\ SameFunctions(frames[i].trace, frames[i].stack)
        BY <2>2 DEF StackInv, FramesRecorded
      <3>2. frames[i].stack \in Trace /\ frames[i].trace \in Trace
        <4>1. frames[i] \in Frame
          BY <2>2, <1>4
        <4> QED
          BY <4>1 DEF Frame
      <3>3. g \in Functions
        BY <3>2 DEF Trace
      <3>4. uniqueTraces'[g] = uniqueTraces[g]
        BY <3>1, <3>2, <3>3, <1>2, <1>3, <1>8, <1>10 DEF StackInv, TypeOK
      <3> QED
        BY <2>2, <3>1, <3>4
    <2> QED
      BY <1>9, <2>1, <2>2
  <1>12. RecordsExtend'
    <2>1. CASE f \notin U
      BY <2>1, <1>2 DEF StackInv, RecordsExtend, compiled, SameFunctions, Extend, MainTrace
    <2>2. CASE uniqueTraces[f] # NoTrace
      BY <2>2, <1>8 DEF StackInv, RecordsExtend, compiled, SameFunctions, Extend, MainTrace
    <2>3. CASE f \in U /\ uniqueTraces[f] = NoTrace
      <3>1. /\ uniqueTraces'[f] = t /\ trace = t
            /\ \A g \in Functions \ {f} : uniqueTraces'[g] = uniqueTraces[g]
        BY <2>3, <1>2, <1>3 DEF StackInv, TypeOK
      <3>2. uniqueTraces'[Main] \in {MainTrace, NoTrace}
        <4>1. CASE f = Main
          <5>1. \A s \in calls : Callee[s] # Main
            BY CallStackAssumption DEF StackInv, TypeOK
          <5> QED
            BY <4>1, <5>1, <3>1 DEF Enterable, Extend
        <4>2. CASE f # Main
          BY <4>2, <3>1, CallStackAssumption DEF StackInv, RecordsExtend
        <4> QED
          BY <4>1, <4>2
      <3>3. ASSUME NEW s \in calls, Callee[s] \in U, uniqueTraces'[Callee[s]] # NoTrace
            PROVE  /\ uniqueTraces'[Caller[s]] # NoTrace
                   /\ SameFunctions(uniqueTraces'[Callee[s]], Extend(uniqueTraces'[Caller[s]], s))
        <4>0. Callee[s] \in Functions \ {Main} /\ Caller[s] \in Functions
          BY CallStackAssumption DEF StackInv, TypeOK
        <4>1. CASE Callee[s] # f
          <5>1. /\ uniqueTraces[Caller[s]] # NoTrace
                /\ SameFunctions(uniqueTraces[Callee[s]], Extend(uniqueTraces[Caller[s]], s))
            BY <4>0, <4>1, <3>1, <3>3 DEF StackInv, RecordsExtend
          <5> QED
            BY <5>1, <4>0, <4>1, <3>1, <2>3
        <4>2. CASE Callee[s] = f
          <5>1. PICK c \in calls : frames # <<>> /\ Caller[c] = Top.stack.fn /\ t = Extend(Top.stack, c)
            BY <4>0, <4>2 DEF Enterable, MainTrace
          <5>2. Callee[c] = f
            BY <5>1 DEF Extend
          <5>3. Caller[c] = Caller[s] /\ Caller[s] \in U /\ c \in Sites /\ s \in Sites
            BY <5>2, <4>2, <3>3 DEF StackInv, UniqueCallers, TypeOK
          <5>4. Len(frames) \in 1 .. Len(frames)
            BY <5>1, <1>4
          <5>5. /\ uniqueTraces[Caller[s]] = Top.trace /\ SameFunctions(Top.trace, Top.stack)
                /\ Top.stack \in Trace /\ Top.trace \in Trace
            <6>1. Top \in Frame
              BY <5>4, <1>4 DEF Top
            <6> QED
              BY <5>1, <5>3, <5>4, <6>1 DEF StackInv, FramesRecorded, Top, Frame
          <5>6. uniqueTraces'[Caller[s]] = Top.trace
            BY <5>5, <4>0, <3>1, <2>3, <1>10
          <5>7. SameFunctions(Extend(Top.stack, c), Extend(Top.trace, s))
            BY <5>2, <5>3, <5>5, <4>2, SameExtend, SameSymmetric
          <5> QED
            BY <5>1, <5>5, <5>6, <5>7, <4>2, <3>1, <1>10
        <4> QED
          BY <4>1, <4>2
      <3> QED
        BY <3>2, <3>3 DEF RecordsExtend, compiled, Extend, MainTrace, SameFunctions
    <2> QED
      BY <2>1, <2>2, <2>3
  <1>13. FramesLike'
    <2> SUFFICES ASSUME NEW i \in 1 .. Len(frames'), frames'[i].stack.fn \notin U
                 PROVE  Like(frames'[i].stack, frames'[i].trace)
      BY DEF FramesLike, Like, myHashPart1, traceCompare, SamePrefix, nptrs, buffer, compiled
    <2>1. CASE frames'[i] = fr
      BY <1>2, <2>1 DEF fr
    <2>2. CASE i \in 1 .. Len(frames) /\ frames'[i] = frames[i]
      BY <2>2 DEF FramesLike
    <2> QED
      BY <1>9, <2>1, <2>2
  <1>14. ASSUME NEW g \in Functions, uniqueTraces[g] # NoTrace
         PROVE  uniqueTraces'[g] = uniqueTraces[g]
    BY <1>2, <1>3, <1>8, <1>14 DEF StackInv, TypeOK
  <1> QED
    BY <1>6, <1>7, <1>11, <1>12, <1>13, <1>14 DEF StackInv

\* Where nothing is issued and no trace on record is replaced, what was issued
\* stays right.
LEMMA IssueKept ==
    ASSUME TypeOK, IDsApart, IssuedRight, UNCHANGED <<dynamicTraces, issued, compiled>>,
           \A g \in Functions : uniqueTraces[g] # NoTrace => uniqueTraces'[g] = uniqueTraces[g]
    PROVE  IDsApart' /\ IssuedRight'
  <1>1. IDsApart'
    BY DEF IDsApart
  <1>2. ASSUME NEW i \in issued
        PROVE  /\ dynamicTraces[i[3]].staticID = i[1]
               /\ i[2].fn = InFunction[i[1]]
               /\ Like(Standing(i[2])', dynamicTraces[i[3]].trace)
               /\ i[2].fn \in uniqueCallstackFunctions =>
                     /\ uniqueTraces'[i[2].fn] # NoTrace
                     /\ SameFunctions(uniqueTraces'[i[2].fn], i[2])
    <2>1. i[2].fn \in Functions
      BY DEF TypeOK, Trace
    <2>2. i[2].fn \in uniqueCallstackFunctions => uniqueTraces'[i[2].fn] = uniqueTraces[i[2].fn]
      BY <2>1 DEF IssuedRight
    <2>3. Standing(i[2])' = Standing(i[2])
      BY <2>2 DEF Standing, compiled
    <2> QED
      BY <2>2, <2>3 DEF IssuedRight
  <1>3. IssuedRight'
    BY <1>2 DEF IssuedRight, Standing, compiled
  <1> QED
    BY <1>1, <1>3

\* A step that is counted stays within the bound.
LEMMA StepType == ASSUME TypeOK, Step PROVE steps' \in 0 .. MaxSteps
  BY CallStackAssumption DEF TypeOK, Step

\* The entry of main keeps the invariant.
LEMMA StartIInv == IInv /\ StartMain => IInv'
  <1> SUFFICES ASSUME IInv, StartMain PROVE IInv'
    OBVIOUS
  <1>1. Enterable(MainTrace) /\ Enter(MainTrace)
    BY DEF Enterable, StartMain, MainTrace
  <1>2. steps' \in 0 .. MaxSteps
    BY StepType DEF StartMain, IInv, StackInv
  <1>3. /\ StackInv' /\ FramesLike'
        /\ \A g \in Functions : uniqueTraces[g] # NoTrace => uniqueTraces'[g] = uniqueTraces[g]
    BY <1>1, <1>2, EnterInv, MainTraceType DEF StartMain, IInv
  <1> QED
    BY <1>3, IssueKept DEF StartMain, IInv, StackInv

\* A call keeps the invariant.
LEMMA CallIInv == ASSUME NEW s \in Sites PROVE IInv /\ Call(s) => IInv'
  <1> SUFFICES ASSUME IInv, Call(s) PROVE IInv'
    OBVIOUS
  <1> DEFINE t == Extend(Top.stack, s)
  <1>1. frames # <<>> /\ frames \in Seq(Frame)
    BY DEF Call, IInv, StackInv, TypeOK
  <1>2. Top \in Frame
    BY <1>1 DEF Top
  <1>3. t \in Trace
    BY <1>2, ExtendType DEF Frame
  <1>4. Enterable(t) /\ Enter(t)
    BY <1>1 DEF Enterable, Call, Extend
  <1>5. steps' \in 0 .. MaxSteps
    BY StepType DEF Call, IInv, StackInv
  <1>6. /\ StackInv' /\ FramesLike'
        /\ \A g \in Functions : uniqueTraces[g] # NoTrace => uniqueTraces'[g] = uniqueTraces[g]
    BY <1>3, <1>4, <1>5, EnterInv DEF Call, IInv
  <1> QED
    BY <1>6, IssueKept DEF Call, IInv, StackInv

\* A return keeps the invariant.
LEMMA ReturnIInv == IInv /\ Return => IInv'
  <1> SUFFICES ASSUME IInv, Return PROVE IInv'
    OBVIOUS
  <1>1. frames \in Seq(Frame) /\ Len(frames) > 1
        /\ frames' = SubSeq(frames, 1, Len(frames) - 1)
    BY DEF Return, IInv, StackInv, TypeOK
  <1>2. /\ frames' \in Seq(Frame)
        /\ Len(frames') = Len(frames) - 1 /\ Len(frames) \in Nat
        /\ \A i \in 1 .. Len(frames') : i \in 1 .. Len(frames) /\ frames'[i] = frames[i]
    BY <1>1
  <1>3. UNCHANGED <<compiled, uniqueTraces, hashToTraceMap, dynamicTraces, issued>>
    BY DEF Return
  <1>4. steps' \in 0 .. MaxSteps
    BY StepType DEF Return, IInv, StackInv
  <1>5. TypeOK'
    BY <1>2, <1>3, <1>4 DEF IInv, StackInv, TypeOK, compiled
  <1>6. UniqueCallers' /\ RecordsExtend'
    BY <1>3 DEF IInv, StackInv, UniqueCallers, RecordsExtend, compiled, Extend, MainTrace,
                SameFunctions
  <1>7. FramesRecorded'
    BY <1>2, <1>3 DEF IInv, StackInv, FramesRecorded, compiled, SameFunctions
  <1>8. FramesLike'
    <2> SUFFICES ASSUME NEW i \in 1 .. Len(frames'),
                        frames'[i].stack.fn \notin uniqueCallstackFunctions
                 PROVE  Like(frames'[i].stack, frames'[i].trace)
      BY <1>3 DEF FramesLike, Like, myHashPart1, traceCompare, SamePrefix, nptrs, buffer, compiled
    <2> QED
      BY <1>2 DEF IInv, FramesLike
  <1> QED
    BY <1>3, <1>5, <1>6, <1>7, <1>8, IssueKept DEF IInv, StackInv

\* saveCallstack keeps the invariant: an ID that is found belongs to a trace
\* like the present stack, and a new one is given to no trace like an old one.
LEMMA SaveIInv == ASSUME NEW id \in Instrs PROVE IInv /\ saveCallstack(id) => IInv'
  <1> SUFFICES ASSUME IInv, saveCallstack(id) PROVE IInv'
    OBVIOUS
  <1>1. UNCHANGED <<compiled, frames, uniqueTraces, hashToTraceMap>> /\ frames # <<>>
    BY DEF saveCallstack
  <1>2. PICK uid :
          /\ \/ uid \in Existing(id, Top.trace) /\ UNCHANGED dynamicTraces
             \/ /\ Existing(id, Top.trace) = {}
                /\ uid = Len(dynamicTraces) + 1
                /\ dynamicTraces' = Append(dynamicTraces, [staticID |-> id, trace |-> Top.trace])
          /\ issued' = issued \cup {<<id, Top.stack, uid>>}
    BY DEF saveCallstack, nextID, incrementPushReturn
  <1>3. TypeOK /\ frames \in Seq(Frame) /\ dynamicTraces \in Seq(DynamicTrace)
    BY DEF IInv, StackInv, TypeOK
  <1>4. Len(frames) \in 1 .. Len(frames) /\ Top \in Frame
    BY <1>1, <1>3 DEF Top
  <1>5. /\ Top.stack \in Trace /\ Top.trace \in Trace
        /\ Top.stack.fn = InFunction[id]
    BY <1>4 DEF Frame, saveCallstack
  <1>11. Top.stack.fn \in uniqueCallstackFunctions =>
            /\ uniqueTraces[Top.stack.fn] = Top.trace
            /\ uniqueTraces[Top.stack.fn] # NoTrace
            /\ SameFunctions(uniqueTraces[Top.stack.fn], Top.stack)
    BY <1>4, <1>5, CallStackAssumption DEF FramesRecorded, IInv, StackInv, Top
  <1>12. Like(Standing(Top.stack), Top.trace)
    <2>1. CASE Top.stack.fn \in uniqueCallstackFunctions
      BY <1>11, <2>1, LikeReflexive DEF Standing
    <2>2. CASE Top.stack.fn \notin uniqueCallstackFunctions
      BY <1>4, <2>2 DEF Standing, FramesLike, IInv, Top
    <2> QED
      BY <2>1, <2>2
  <1>6. steps' \in 0 .. MaxSteps
    BY <1>3, StepType DEF saveCallstack
  <1>7. UniqueCallers' /\ RecordsExtend' /\ FramesRecorded' /\ FramesLike'
    BY <1>1 DEF IInv, StackInv, UniqueCallers, RecordsExtend, FramesRecorded, FramesLike,
                compiled, Extend, MainTrace, SameFunctions
  <1> DEFINE Right(i, tr, u) ==
               /\ tr[i[3]].staticID = i[1]
               /\ i[2].fn = InFunction[i[1]]
               /\ Like(u, tr[i[3]].trace)
               /\ i[2].fn \in uniqueCallstackFunctions =>
                     /\ uniqueTraces[i[2].fn] # NoTrace
                     /\ SameFunctions(uniqueTraces[i[2].fn], i[2])
  <1>8. ASSUME NEW i \in issued
        PROVE  i[3] \in 1 .. Len(dynamicTraces) /\ Right(i, dynamicTraces, Standing(i[2]))
    BY <1>3 DEF IInv, IssuedRight, TypeOK
  <1>13. ASSUME \A i \in issued' : Right(i, dynamicTraces', Standing(i[2])) PROVE IssuedRight'
    BY <1>1, <1>13 DEF IssuedRight, Standing, compiled
  <1>9. CASE uid \in Existing(id, Top.trace) /\ UNCHANGED dynamicTraces
    <2>1. uid \in 1 .. Len(dynamicTraces)
      BY <1>9 DEF Existing
    <2>2. dynamicTraces[uid].staticID = id /\ Like(Top.trace, dynamicTraces[uid].trace)
      BY <1>3, <1>9, <2>1, ExistingSound
    <2>3. Like(Standing(Top.stack), dynamicTraces[uid].trace)
      BY <1>12, <2>2, LikeTransitive
    <2>4. TypeOK'
      BY <1>1, <1>2, <1>3, <1>5, <1>6, <1>9, <2>1 DEF TypeOK, compiled
    <2>5. IDsApart'
      BY <1>9 DEF IInv, IDsApart
    <2>6. IssuedRight'
      BY <1>2, <1>5, <1>8, <1>9, <1>11, <1>13, <2>2, <2>3
    <2> QED
      BY <1>7, <2>4, <2>5, <2>6 DEF IInv, StackInv
  <1>10. CASE /\ Existing(id, Top.trace) = {}
              /\ uid = Len(dynamicTraces) + 1
              /\ dynamicTraces' = Append(dynamicTraces, [staticID |-> id, trace |-> Top.trace])
    <2> DEFINE d == [staticID |-> id, trace |-> Top.trace]
               n0 == Len(dynamicTraces) + 1
    <2>1. d \in DynamicTrace /\ d.staticID = id /\ d.trace = Top.trace
      BY <1>5 DEF DynamicTrace
    <2> HIDE DEF d
    <2>2. dynamicTraces' = Append(dynamicTraces, d) /\ uid = n0
      BY <1>10 DEF d
    <2>3. /\ dynamicTraces' \in Seq(DynamicTrace)
          /\ Len(dynamicTraces') = n0 /\ Len(dynamicTraces) \in Nat
          /\ \A n \in 1 .. Len(dynamicTraces) : dynamicTraces'[n] = dynamicTraces[n]
          /\ dynamicTraces'[n0] = d
      BY <1>3, <2>1, <2>2
    <2>4. TypeOK'
      <3>1. issued \subseteq Instrs \X Trace \X (1 .. Len(dynamicTraces'))
        BY <1>3, <2>3 DEF TypeOK
      <3>2. issued' \subseteq Instrs \X Trace \X (1 .. Len(dynamicTraces'))
        BY <1>2, <1>5, <2>2, <2>3, <3>1
      <3> QED
        BY <1>1, <1>3, <1>6, <2>3, <3>2 DEF TypeOK, compiled
    <2>5. ASSUME NEW m \in 1 .. Len(dynamicTraces)
          PROVE  ~(dynamicTraces[m].staticID = id /\ Like(Top.trace, dynamicTraces[m].trace))
      BY <1>3, <1>10, ExistingSound
    <2>6. IDsApart'
      <3> SUFFICES ASSUME NEW m \in 1 .. n0, NEW n \in 1 .. n0,
                          dynamicTraces'[m].staticID = dynamicTraces'[n].staticID,
                          Like(dynamicTraces'[m].trace, dynamicTraces'[n].trace)
                   PROVE  m = n
        BY <2>3 DEF IDsApart
      <3>1. CASE m \in 1 .. Len(dynamicTraces) /\ n \in 1 .. Len(dynamicTraces)
        BY <2>3, <3>1 DEF IInv, IDsApart
      <3>2. CASE m = n0 /\ n \in 1 .. Len(dynamicTraces)
        BY <2>1, <2>3, <2>5, <3>2
      <3>3. CASE m \in 1 .. Len(dynamicTraces) /\ n = n0
        <4>1. dynamicTraces[m].staticID = id /\ Like(dynamicTraces[m].trace, Top.trace)
          BY <2>1, <2>3, <3>3
        <4> QED
          BY <2>5, <3>3, <4>1, LikeSymmetric
      <3> QED
        BY <2>3, <3>1, <3>2, <3>3
    <2>7. IssuedRight'
      <3> SUFFICES ASSUME NEW i \in issued' PROVE Right(i, dynamicTraces', Standing(i[2]))
        BY <1>13
      <3>1. CASE i \in issued
        BY <1>8, <2>3, <3>1
      <3>2. CASE i = <<id, Top.stack, uid>>
        BY <1>5, <1>11, <1>12, <2>1, <2>2, <2>3, <3>2
      <3> QED
        BY <1>2, <3>1, <3>2
    <2> QED
      BY <1>7, <2>4, <2>6, <2>7 DEF IInv, StackInv
  <1> QED
    BY <1>2, <1>9, <1>10

\* Every step keeps the invariant.
LEMMA NextIInv == IInv /\ [Next]_vars => IInv'
  <1> SUFFICES ASSUME IInv, [Next]_vars PROVE IInv'
    OBVIOUS
  <1>1. CASE UNCHANGED vars
    <2>1. TypeOK' /\ UniqueCallers' /\ FramesRecorded' /\ RecordsExtend' /\ FramesLike'
      BY <1>1 DEF vars, compiled, IInv, StackInv, TypeOK, UniqueCallers, FramesRecorded,
                  RecordsExtend, FramesLike
    <2>2. IDsApart' /\ IssuedRight'
      BY <1>1, IssueKept DEF vars, IInv, StackInv
    <2> QED
      BY <2>1, <2>2 DEF IInv, StackInv
  <1> QED
    BY <1>1, StartIInv, CallIInv, ReturnIInv, SaveIInv DEF Next

\* The invariant holds in every run of every program.
THEOREM IInvHolds == Spec => []IInv
  BY InitIInv, NextIInv, PTL DEF Spec

-----------------------------------------------------------------------------
\* Every ID that was issued is one getTraceAndStaticID can look up.
THEOREM TypeCorrect == Spec => []TypeOK
  <1>1. IInv => TypeOK
    BY DEF IInv, StackInv
  <1> QED
    BY <1>1, IInvHolds, PTL

\* A trace that is captured once goes through the functions that are on the
\* stack in every execution, in every call graph.
THEOREM UniqueStacks == Spec => []UniqueTraceIsPath
  <1>1. IInv => UniqueTraceIsPath
    BY DEF IInv, StackInv, FramesRecorded, UniqueTraceIsPath
  <1> QED
    BY <1>1, IInvHolds, PTL

\* An instruction with the same stack gets the same ID.
THEOREM StableIDs == Spec => []SameCallSameID
  <1>1. IInv => SameCallSameID
    <2> SUFFICES ASSUME IInv, NEW i \in issued, NEW j \in issued, i[1] = j[1], i[2] = j[2]
                 PROVE  i[3] = j[3]
      BY DEF SameCallSameID
    <2>1. i[3] \in 1 .. Len(dynamicTraces) /\ j[3] \in 1 .. Len(dynamicTraces)
      BY DEF IInv, StackInv, TypeOK
    <2>2. /\ dynamicTraces[i[3]].staticID = i[1]
          /\ Like(Standing(i[2]), dynamicTraces[i[3]].trace)
          /\ dynamicTraces[j[3]].staticID = i[1]
          /\ Like(Standing(i[2]), dynamicTraces[j[3]].trace)
      BY DEF IInv, IssuedRight
    <2>3. Like(dynamicTraces[i[3]].trace, dynamicTraces[j[3]].trace)
      BY <2>2, LikeSymmetric, LikeTransitive
    <2> QED
      BY <2>1, <2>2, <2>3 DEF IInv, IDsApart
  <1> QED
    BY <1>1, IInvHolds, PTL

\* An ID stands for one instruction, and for stacks through the same functions
\* or of traces that are taken for one.
THEOREM IDsTell == Spec => []IDTellsInstruction
  <1>1. IInv => IDTellsInstruction
    <2> SUFFICES ASSUME IInv, NEW i \in issued, NEW j \in issued, i[3] = j[3]
                 PROVE  /\ i[1] = j[1]
                        /\ i[2].fn \in uniqueCallstackFunctions => SameFunctions(i[2], j[2])
                        /\ i[2].fn \notin uniqueCallstackFunctions => Like(i[2], j[2])
      BY DEF IDTellsInstruction, Like
    <2>1. /\ dynamicTraces[i[3]].staticID = i[1]
          /\ dynamicTraces[i[3]].staticID = j[1]
          /\ Like(Standing(i[2]), dynamicTraces[i[3]].trace)
          /\ Like(Standing(j[2]), dynamicTraces[i[3]].trace)
          /\ i[2].fn = InFunction[i[1]] /\ j[2].fn = InFunction[j[1]]
      BY DEF IInv, IssuedRight
    <2>2. i[2].fn = j[2].fn
      BY <2>1
    <2>3. CASE i[2].fn \in uniqueCallstackFunctions
      <3>1. /\ SameFunctions(uniqueTraces[i[2].fn], i[2])
            /\ SameFunctions(uniqueTraces[i[2].fn], j[2])
        BY <2>2, <2>3 DEF IInv, IssuedRight
      <3> QED
        BY <2>1, <2>3, <3>1, SameSymmetric, SameTransitive
    <2>4. CASE i[2].fn \notin uniqueCallstackFunctions
      <3>1. Standing(i[2]) = i[2] /\ Standing(j[2]) = j[2]
        BY <2>2, <2>4 DEF Standing
      <3> QED
        BY <2>1, <2>4, <3>1, LikeSymmetric, LikeTransitive
    <2> QED
      BY <2>3, <2>4
  <1> QED
    BY <1>1, IInvHolds, PTL
=============================================================================
