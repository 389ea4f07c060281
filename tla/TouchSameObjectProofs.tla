----------------------- MODULE TouchSameObjectProofs -----------------------
(***************************************************************************)
(* For every control-flow graph, any number of ROIs and every solution of  *)
(* the data-flow equations, the instrumentation that the analysis drops is *)
(* not missed.                                                             *)
(***************************************************************************)
EXTENDS TouchSameObject, TLAPS

\* What the compiler's results promise the run.
GenSound ==
    \A k \in Kinds, n \in Nodes : \A o \in dfGEN[k][n] :
        /\ instr[n].op = k
        /\ o = objOf(instr[n].ptr) /\ o # NoBase
        /\ considerThisInst(n)

InSound ==
    \A k \in Kinds :
        /\ dfIN[k][Entry] = {}
        /\ \A m \in Nodes : \A n \in succ[m] : dfIN[k][n] \subseteq dfGEN[k][m] \cup dfIN[k][m]

\* Nodes that can be reached from the entry before s has been executed.
Before(s) ==
    {n \in Nodes : \A S \in SUBSET Nodes :
        Entry \in S /\ (\A m \in S \ {s} : succ[m] \subseteq S) => n \in S}

Nothing(n) == \A k \in Kinds : dfIN[k][n] = {}

\* Nothing is available where a ROI starts: either this is known already, or
\* the start has not been executed in this call and nothing is available here.
FreshStarts ==
    pc # Idle => \A s \in Nodes : instr[s].op = "start" =>
                    Nothing(s) \/ (pc \in Before(s) /\ Nothing(pc))

\* What the analysis takes as touched has been reported to every running ROI.
AvailableReported ==
    pc # Idle => \A r \in open, k \in Kinds : \A o \in dfIN[k][pc] :
                    \E b \in reported[r] : b[1] = k /\ objOf(b[2]) = o

IInv == TypeOK /\ GenSound /\ InSound /\ FreshStarts /\ AvailableReported /\ NothingMissed

-----------------------------------------------------------------------------
\* objOf names an object or nothing.
LEMMA ObjType ==
    ASSUME NEW p \in Ptrs PROVE objOf(p) \in Objects \cup {NoBase}
  BY FunctionAssumption DEF objOf, Objects

\* The successors of a node that is reached before s are reached before s too.
LEMMA BeforeClosed ==
    ASSUME TypeOK, NEW s \in Nodes, NEW n \in Before(s), n # s, NEW m \in succ[n]
    PROVE  m \in Before(s)
  BY DEF Before, TypeOK

\* The entry is reached before anything.
LEMMA BeforeEntry ==
    ASSUME NEW s \in Nodes PROVE Entry \in Before(s)
  BY FunctionAssumption DEF Before

\* An instruction that the analysis looks at is not reached before a start.
LEMMA ConsideredAfterStart ==
    ASSUME TypeOK, GenSound, NEW s \in Nodes, instr[s].op = "start",
           NEW n \in Before(s), NEW k \in Kinds
    PROVE  dfGEN[k][n] = {}
  <1>1. SUFFICES ASSUME NEW o \in dfGEN[k][n] PROVE FALSE
    OBVIOUS
  <1>2. n \in Nodes /\ instr[n].op = k /\ considerThisInst(n)
    BY <1>1 DEF GenSound, Before
  <1>3. PICK r \in ROIs : instr[s] = [op |-> "start", roi |-> r]
    BY DEF TypeOK, Instrs, Kinds
  <1>4. s \in start(r) /\ r \in funcRois
    BY <1>3 DEF start, funcRois
  <1>5. dominates(s, n)
    BY <1>2, <1>4 DEF considerThisInst
  <1>6. s # n
    BY <1>2 DEF Kinds
  <1> QED
    BY <1>5, <1>6 DEF dominates, Before

\* Control stays in the function's graph.
LEMMA GotoType ==
    ASSUME TypeOK, pc # Idle, Goto
    PROVE  /\ pc \in Nodes
           /\ pc' # Idle => pc' \in Nodes /\ pc' \in succ[pc]
           /\ pc' \in Nodes \cup {Idle}
  BY FunctionAssumption DEF TypeOK, Goto

-----------------------------------------------------------------------------
\* The compiled function, before it runs, satisfies the invariant.
LEMMA InitIInv == Init => IInv
  <1> SUFFICES ASSUME Init PROVE IInv
    OBVIOUS
  <1> USE DEF Init
  <1>1. PICK f \in Functions : instr = f.instr /\ succ = f.succ
    BY DEF Compile
  <1>2. instr \in [Nodes -> Instrs] /\ succ \in [Nodes -> SUBSET Nodes]
    BY <1>1, FunctionAssumption
  <1>3. dfGEN = [k \in Kinds |-> instToObjMap(k)]
    BY DEF Compile
  <1>4. ASSUME NEW k \in Kinds, NEW n \in Nodes, NEW o \in dfGEN[k][n]
        PROVE  /\ instr[n].op = k /\ o = objOf(instr[n].ptr) /\ o # NoBase
               /\ considerThisInst(n)
    BY <1>3, <1>4 DEF instToObjMap
  <1>5. ASSUME NEW k \in Kinds, NEW n \in Nodes
        PROVE  dfGEN[k][n] \in SUBSET Objects
    <2>1. SUFFICES ASSUME NEW o \in dfGEN[k][n] PROVE o \in Objects
      OBVIOUS
    <2>2. instr[n].op = k /\ o = objOf(instr[n].ptr) /\ o # NoBase
      BY <1>4
    <2>3. instr[n].ptr \in Ptrs
      BY <1>2, <2>2 DEF Instrs, Kinds
    <2> QED
      BY <2>2, <2>3, ObjType
  <1>6. dfGEN \in [Kinds -> [Nodes -> SUBSET Objects]]
    <2>1. \A k \in Kinds : dfGEN[k] = instToObjMap(k)
      BY <1>3
    <2>2. \A k \in Kinds : dfGEN[k] \in [Nodes -> SUBSET Objects]
      BY <2>1, <1>5 DEF instToObjMap
    <2> QED
      BY <2>2, <1>3
  <1>7. PICK l \in Solutions(dfGEN["load"]), s \in Solutions(dfGEN["store"]) :
            dfIN = [k \in Kinds |-> IF k = "load" THEN l ELSE s]
    BY DEF Compile
  <1>8. \A k \in Kinds : dfIN[k] \in Solutions(dfGEN[k])
    BY <1>7 DEF Kinds
  <1>9. InSound
    BY <1>8 DEF Solutions, InSound
  <1>10. dfIN \in [Kinds -> [Nodes -> SUBSET Objects]]
    <2>1. ASSUME NEW k \in Kinds PROVE dfIN[k] \in [Nodes -> SUBSET Objects]
      <3>1. dfIN[k] \in [Nodes -> SUBSET UNION {dfGEN[k][n] : n \in Nodes}]
        BY <1>8 DEF Solutions
      <3>2. UNION {dfGEN[k][n] : n \in Nodes} \subseteq Objects
        BY <1>6
      <3> QED
        BY <3>1, <3>2
    <2> QED
      BY <2>1, <1>7
  <1>11. TypeOK
    BY <1>2, <1>6, <1>10 DEF TypeOK
  <1>12. GenSound
    BY <1>4 DEF GenSound
  <1> QED
    BY <1>9, <1>11, <1>12 DEF IInv, FreshStarts, AvailableReported, NothingMissed

-----------------------------------------------------------------------------
\* The compiler's results do not change while the function runs.
LEMMA CompiledKept ==
    ASSUME GenSound, InSound, UNCHANGED compiled
    PROVE  GenSound' /\ InSound'
  BY DEF compiled, GenSound, InSound, objOf, considerThisInst, funcRois, start, stops,
         dominates, postDominates

\* A step of the function keeps the starts fresh, whatever the instruction.
LEMMA FreshStep ==
    ASSUME TypeOK, GenSound, InSound, FreshStarts, pc # Idle, Goto, UNCHANGED compiled
    PROVE  FreshStarts'
  <1> SUFFICES ASSUME pc' # Idle, NEW s \in Nodes, instr[s].op = "start", ~Nothing(s)
               PROVE  pc' \in Before(s) /\ Nothing(pc')
    BY DEF FreshStarts, compiled, Nothing, Before
  <1>1. pc \in Nodes /\ pc' \in Nodes /\ pc' \in succ[pc]
    BY GotoType
  <1>2. pc \in Before(s) /\ Nothing(pc)
    BY DEF FreshStarts
  <1>3. pc # s
    BY <1>2
  <1>4. \A k \in Kinds : dfGEN[k][pc] = {}
    BY <1>2, ConsideredAfterStart
  <1>5. Nothing(pc')
    BY <1>1, <1>2, <1>4 DEF Nothing, InSound
  <1> QED
    BY <1>1, <1>2, <1>3, <1>5, BeforeClosed

\* Nothing is available at a start that is being executed.
LEMMA StartFresh ==
    ASSUME TypeOK, FreshStarts, pc # Idle, instr[pc].op = "start"
    PROVE  Nothing(pc)
  BY DEF FreshStarts, TypeOK

\* What is available after an instruction was available before it or is the
\* object the instruction touches.
LEMMA AvailableStep ==
    ASSUME TypeOK, GenSound, InSound, pc # Idle, Goto, pc' # Idle,
           NEW k \in Kinds, NEW o \in dfIN[k][pc']
    PROVE  \/ o \in dfIN[k][pc]
           \/ /\ o \in dfGEN[k][pc] /\ instr[pc].op = k
              /\ o = objOf(instr[pc].ptr) /\ o # NoBase
  <1>1. pc \in Nodes /\ pc' \in Nodes /\ pc' \in succ[pc]
    BY GotoType
  <1> QED
    BY <1>1 DEF InSound, GenSound

\* A load or a store keeps the invariant: an instrumented one reports itself, a
\* dropped one has an available object, and that was reported.
LEMMA AccessIInv == IInv /\ Access => IInv'
  <1> SUFFICES ASSUME IInv, Access PROVE IInv'
    OBVIOUS
  <1> DEFINE a == <<instr[pc].op, instr[pc].ptr>>
  <1> USE DEF IInv
  <1>1. /\ pc # Idle /\ pc \in Nodes /\ instr[pc].op \in Kinds
        /\ accessed' = Noted(accessed, a)
        /\ reported' = IF pc \in instsToSkip THEN reported ELSE Noted(reported, a)
        /\ Goto /\ UNCHANGED compiled /\ UNCHANGED open
    BY DEF Access, TypeOK
  <1>2. a \in Kinds \X Ptrs
    BY <1>1 DEF TypeOK, Instrs, Kinds
  <1>3. /\ Noted(accessed, a) \in [Regions -> SUBSET (Kinds \X Ptrs)]
        /\ Noted(reported, a) \in [Regions -> SUBSET (Kinds \X Ptrs)]
    BY <1>2 DEF TypeOK, Noted
  <1>4. TypeOK'
    BY <1>1, <1>3, GotoType DEF TypeOK, compiled
  <1>5. GenSound' /\ InSound'
    BY <1>1, CompiledKept
  <1>6. FreshStarts'
    BY <1>1, FreshStep
  <1>7. \A r \in Regions : reported[r] \subseteq reported'[r]
    BY <1>1 DEF Noted, TypeOK
  <1>8. ASSUME pc \notin instsToSkip, NEW r \in open PROVE a \in reported'[r]
    BY <1>1, <1>8 DEF Noted, TypeOK
  <1>9. ASSUME pc \in instsToSkip
        PROVE  objOf(a[2]) \in dfIN[a[1]][pc] /\ objOf(a[2]) # NoBase
    BY <1>1, <1>9 DEF instsToSkip, GenSound
  <1>10. ASSUME pc \in instsToSkip, NEW r \in open
         PROVE  \E b \in reported[r] : b[1] = a[1] /\ objOf(b[2]) = objOf(a[2])
    BY <1>1, <1>9, <1>10 DEF AvailableReported
  <1>11. AvailableReported'
    <2> SUFFICES ASSUME pc' # Idle, NEW r \in open, NEW k \in Kinds, NEW o \in dfIN[k][pc']
                 PROVE  \E b \in reported'[r] : b[1] = k /\ objOf(b[2]) = o
      BY <1>1 DEF AvailableReported, compiled, objOf
    <2>1. CASE o \in dfIN[k][pc]
      <3>1. PICK b \in reported[r] : b[1] = k /\ objOf(b[2]) = o
        BY <2>1, <1>1 DEF AvailableReported
      <3>2. b \in reported'[r]
        BY <1>7, <3>1 DEF TypeOK
      <3> QED
        BY <3>1, <3>2
    <2>2. CASE k = a[1] /\ o = objOf(a[2])
      BY <2>2, <1>7, <1>8, <1>10 DEF TypeOK
    <2> QED
      BY <1>1, <2>1, <2>2, AvailableStep
  <1>12. NothingMissed'
    <2> SUFFICES ASSUME NEW r \in open, NEW c \in accessed'[r]
                 PROVE  \E b \in reported'[r] : b[1] = c[1] /\ SameObject(c[2], b[2])
      BY <1>1 DEF NothingMissed, SameObject, objOf
    <2>1. CASE c \in accessed[r]
      BY <2>1, <1>7 DEF NothingMissed, TypeOK
    <2>2. CASE c = a /\ pc \notin instsToSkip
      BY <2>2, <1>8 DEF SameObject
    <2>3. CASE c = a /\ pc \in instsToSkip
      BY <2>3, <1>7, <1>9, <1>10 DEF SameObject, TypeOK
    <2>4. c \in accessed[r] \/ c = a
      BY <1>1 DEF Noted, TypeOK
    <2> QED
      BY <2>1, <2>2, <2>3, <2>4
  <1> QED
    BY <1>4, <1>5, <1>6, <1>11, <1>12

\* The start of a ROI keeps the invariant: nothing is available there.
LEMMA StartIInv == IInv /\ StartTracking => IInv'
  <1> SUFFICES ASSUME IInv, StartTracking PROVE IInv'
    OBVIOUS
  <1> USE DEF IInv
  <1> DEFINE r0 == instr[pc].roi
  <1>1. /\ pc # Idle /\ pc \in Nodes /\ instr[pc].op = "start"
        /\ Goto /\ UNCHANGED compiled
        /\ open' = open \cup {r0}
        /\ accessed' = [accessed EXCEPT ![r0] = {}]
        /\ reported' = [reported EXCEPT ![r0] = {}]
    BY DEF StartTracking, Begin, TypeOK
  <1>2. r0 \in ROIs
    BY <1>1 DEF TypeOK, Instrs, Kinds
  <1>3. TypeOK'
    BY <1>1, <1>2, GotoType DEF TypeOK, compiled, Regions
  <1>4. GenSound' /\ InSound'
    BY <1>1, CompiledKept
  <1>5. FreshStarts'
    BY <1>1, FreshStep
  <1>6. AvailableReported'
    <2> SUFFICES ASSUME pc' # Idle, NEW k \in Kinds, NEW o \in dfIN[k][pc'] PROVE FALSE
      BY <1>1 DEF AvailableReported, compiled
    <2>1. o \in dfIN[k][pc] \/ instr[pc].op = k
      BY <1>1, AvailableStep
    <2> QED
      BY <2>1, <1>1, StartFresh DEF Nothing, Kinds
  <1>7. NothingMissed'
    <2> SUFFICES ASSUME NEW r \in open \cup {r0}, NEW c \in accessed'[r]
                 PROVE  \E b \in reported'[r] : b[1] = c[1] /\ SameObject(c[2], b[2])
      BY <1>1 DEF NothingMissed, SameObject, objOf
    <2>1. r # r0 /\ r \in open /\ c \in accessed[r] /\ reported'[r] = reported[r]
      BY <1>1, <1>2 DEF TypeOK, Regions
    <2> QED
      BY <2>1 DEF NothingMissed
  <1> QED
    BY <1>3, <1>4, <1>5, <1>6, <1>7

\* Steps that leave the logs alone and start no ROI.
LEMMA QuietIInv ==
    ASSUME IInv, pc # Idle, instr[pc].op \notin Kinds, Goto,
           open' \subseteq open, UNCHANGED <<compiled, accessed, reported>>
    PROVE  IInv'
  <1> USE DEF IInv
  <1>1. TypeOK'
    BY GotoType DEF TypeOK, compiled
  <1>2. GenSound' /\ InSound'
    BY CompiledKept
  <1>3. FreshStarts'
    BY FreshStep
  <1>4. AvailableReported'
    <2> SUFFICES ASSUME pc' # Idle, NEW r \in open, NEW k \in Kinds, NEW o \in dfIN[k][pc']
                 PROVE  \E b \in reported[r] : b[1] = k /\ objOf(b[2]) = o
      BY DEF AvailableReported, compiled, objOf
    <2>1. o \in dfIN[k][pc]
      BY AvailableStep
    <2> QED
      BY <2>1 DEF AvailableReported
  <1>5. NothingMissed'
    BY DEF NothingMissed, SameObject, objOf
  <1> QED
    BY <1>1, <1>2, <1>3, <1>4, <1>5

\* The caller's ROIs start and end where nothing is available.
LEMMA CallerIInv == IInv /\ CallerStep => IInv'
  <1> SUFFICES ASSUME IInv, CallerStep PROVE IInv'
    OBVIOUS
  <1> USE DEF IInv
  <1>1. pc = Idle /\ UNCHANGED compiled
    BY DEF CallerStep
  <1>2. GenSound' /\ InSound'
    BY <1>1, CompiledKept
  <1>3. CASE Begin(Caller) /\ UNCHANGED pc
    <2>1. TypeOK'
      BY <1>1, <1>3 DEF TypeOK, compiled, Begin, Regions
    <2>2. NothingMissed'
      BY <1>1, <1>3 DEF TypeOK, compiled, Begin, Regions, NothingMissed, SameObject, objOf
    <2> QED
      BY <1>1, <1>2, <1>3, <2>1, <2>2 DEF FreshStarts, AvailableReported
  <1>4. CASE End(Caller) /\ UNCHANGED pc
    <2>1. TypeOK'
      BY <1>1, <1>4 DEF TypeOK, compiled, End
    <2>2. NothingMissed'
      BY <1>1, <1>4 DEF compiled, End, NothingMissed, SameObject, objOf
    <2> QED
      BY <1>1, <1>2, <1>4, <2>1, <2>2 DEF FreshStarts, AvailableReported
  <1>5. CASE pc' = Entry /\ UNCHANGED <<open, accessed, reported>>
    <2>1. TypeOK'
      BY <1>1, <1>5, FunctionAssumption DEF TypeOK, compiled
    <2>2. NothingMissed'
      BY <1>1, <1>5 DEF compiled, NothingMissed, SameObject, objOf
    <2>3. Nothing(Entry)
      BY DEF Nothing, InSound
    <2>4. FreshStarts'
      BY <1>1, <1>5, <2>3, BeforeEntry DEF FreshStarts, compiled, Nothing, Before
    <2>5. AvailableReported'
      BY <1>1, <1>5, <2>3 DEF AvailableReported, compiled, Nothing
    <2> QED
      BY <1>2, <2>1, <2>2, <2>4, <2>5
  <1> QED
    BY <1>3, <1>4, <1>5 DEF CallerStep

\* Every step keeps the invariant.
LEMMA NextIInv == IInv /\ [Next]_vars => IInv'
  <1> SUFFICES ASSUME IInv, [Next]_vars PROVE IInv'
    OBVIOUS
  <1>1. CASE CallerStep
    BY <1>1, CallerIInv
  <1>2. CASE Access
    BY <1>2, AccessIInv
  <1>3. CASE StartTracking
    BY <1>3, StartIInv
  <1>4. CASE StopTracking
    BY <1>4, QuietIInv DEF StopTracking, End, Kinds
  <1>5. CASE Branch
    BY <1>5, QuietIInv DEF Branch, Kinds
  <1>6. CASE UNCHANGED vars
    <2>1. UNCHANGED <<compiled, pc, open, accessed, reported>>
      BY <1>6 DEF vars
    <2>2. GenSound' /\ InSound'
      BY <2>1, CompiledKept DEF IInv
    <2>3. TypeOK' /\ NothingMissed'
      BY <2>1 DEF IInv, compiled, TypeOK, NothingMissed, SameObject, objOf
    <2>4. FreshStarts' /\ AvailableReported'
      BY <2>1 DEF IInv, compiled, FreshStarts, Nothing, Before, AvailableReported, objOf
    <2> QED
      BY <2>2, <2>3, <2>4 DEF IInv
  <1> QED
    BY <1>1, <1>2, <1>3, <1>4, <1>5, <1>6 DEF Next

-----------------------------------------------------------------------------
\* The invariant holds in every run of every compiled function.
THEOREM IInvHolds == Spec => []IInv
  BY InitIInv, NextIInv, PTL DEF Spec

\* The logs and the data-flow results keep their types.
THEOREM TypeCorrect == Spec => []TypeOK
  <1>1. IInv => TypeOK
    BY DEF IInv
  <1> QED
    BY <1>1, IInvHolds, PTL

\* Leaving out what touches the same object again misses nothing, in any
\* control-flow graph.
THEOREM SkippingIsSound == Spec => []NothingMissed
  <1>1. IInv => NothingMissed
    BY DEF IInv
  <1> QED
    BY <1>1, IInvHolds, PTL
=============================================================================
