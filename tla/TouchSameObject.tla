-------------------------- MODULE TouchSameObject --------------------------
(***************************************************************************)
(* The data-flow analysis that leaves loads and stores without             *)
(* instrumentation (TouchSameObject.cpp), and the run of the instrumented  *)
(* function.  A function is a control-flow graph with one instruction per  *)
(* node.  The pass drops a load (a store) when the same object has been    *)
(* loaded (stored) on every path that leads to it; the function then runs, *)
(* any number of times, inside and outside ROIs.  The pass is modelled as  *)
(* it works alone, without the other two that drop instrumentation         *)
(* (OnlyRead, DirectState).                                                *)
(*                                                                         *)
(* accessed is the truth the reports are compared with; no code keeps it.  *)
(***************************************************************************)
EXTENDS Naturals

CONSTANTS Nodes, Entry, Exit,
          Ptrs,      \* pointer operands (SSA values) of the function
          BaseOf,    \* the object a getelementptr pointer points into
          NoBase,    \* the pointer is no getelementptr
          ROIs,      \* ROIs that may be written in the function
          Caller,    \* a ROI of a caller
          Functions, \* the functions considered: their instructions and edges
          Idle,      \* the program counter outside the function
          enableDFAObjGranularity

Kinds   == {"load", "store"}
Instrs  == [op : Kinds, ptr : Ptrs] \cup [op : {"start", "stop"}, roi : ROIs]
             \cup [op : {"branch"}]
Objects == (Ptrs \cup {BaseOf[p] : p \in Ptrs}) \ {NoBase}
Regions == ROIs \cup {Caller}

ASSUME FunctionAssumption ==
    /\ Entry \in Nodes /\ Exit \in Nodes /\ Idle \notin Nodes
    /\ Caller \notin ROIs /\ NoBase \notin Ptrs
    /\ enableDFAObjGranularity \in BOOLEAN
    /\ \A f \in Functions : /\ f.instr \in [Nodes -> Instrs]
                            /\ f.succ \in [Nodes -> SUBSET Nodes]

VARIABLES
    instr,     \* the instruction of each node
    succ,      \* the nodes that may follow it
    dfGEN, dfIN,  \* the data-flow results: dfGEN[k][n], k for the DFA of loads or stores
    pc,
    open,      \* ROIs that are running
    accessed,  \* what the current invocation of each ROI loaded and stored
    reported   \* what the instrumentation reported of it

compiled == <<instr, succ, dfGEN, dfIN>>
vars     == <<compiled, pc, open, accessed, reported>>

-----------------------------------------------------------------------------
(***************************************************************************)
(* The analysis.                                                           *)
(***************************************************************************)
start(r) == {n \in Nodes : instr[n] = [op |-> "start", roi |-> r]}
stops(r) == {n \in Nodes : instr[n] = [op |-> "stop", roi |-> r]}

\* The ROIs written in the function (funcToRoiMap).
funcRois == {r \in ROIs : start(r) # {}}

\* Every path from the entry to n goes through a: some set of nodes that
\* only a leads out of holds the entry and not n.
dominates(a, n) ==
    \/ a = n
    \/ \E S \in SUBSET Nodes : /\ Entry \in S /\ n \notin S
                               /\ \A m \in S \ {a} : succ[m] \subseteq S

\* Every path from n to the exit goes through a.
postDominates(a, n) ==
    \/ a = n
    \/ \E S \in SUBSET Nodes : /\ Exit \in S /\ n \notin S
                               /\ \A m \in Nodes \ ({a} \cup S) : succ[m] \cap S = {}

\* Mutant: it is enough that every ROI stops after the instruction.
considerWithoutStart(n) == \A r \in funcRois : \E s \in stops(r) : postDominates(s, n)

\* Every ROI written in the function starts before the instruction and stops
\* after it.
considerThisInst(n) ==
    \A r \in funcRois : /\ \A s \in start(r) : dominates(s, n)
                        /\ \E s \in stops(r) : postDominates(s, n)

\* The object behind a pointer operand: with object granularity what the
\* getelementptr points into, otherwise the pointer.
objOf(p) == IF enableDFAObjGranularity THEN BaseOf[p] ELSE p

\* Mutant: a pointer that is no getelementptr counts as an object.
AnyObjMap(k) ==
    [n \in Nodes |-> IF instr[n].op = k /\ considerThisInst(n)
                       THEN {objOf(instr[n].ptr)} ELSE {}]

\* instToObjMapLoad and instToObjMapStore: the object of each access that the
\* analysis looks at, as a set of at most one.
instToObjMap(k) ==
    [n \in Nodes |-> IF instr[n].op = k /\ considerThisInst(n)
                       THEN {objOf(instr[n].ptr)} \ {NoBase} ELSE {}]

\* What the engine may return: nothing is available at the first instruction,
\* and elsewhere only what every predecessor passes on.
Solutions(gen) ==
    {avail \in [Nodes -> SUBSET UNION {gen[n] : n \in Nodes}] :
        /\ avail[Entry] = {}
        /\ \A m \in Nodes : \A n \in succ[m] : avail[n] \subseteq gen[m] \cup avail[m]}

\* getInstsToSkip
instsToSkip == {n \in Nodes : /\ instr[n].op \in Kinds
                              /\ dfGEN[instr[n].op][n] \cap dfIN[instr[n].op][n] # {}}

Compile ==
    /\ \E f \in Functions : instr = f.instr /\ succ = f.succ
    /\ dfGEN = [k \in Kinds |-> instToObjMap(k)]
    /\ \E l \in Solutions(dfGEN["load"]), s \in Solutions(dfGEN["store"]) :
          dfIN = [k \in Kinds |-> IF k = "load" THEN l ELSE s]

Init ==
    /\ Compile
    /\ pc = Idle
    /\ open = {}
    /\ accessed = [r \in Regions |-> {}]
    /\ reported = [r \in Regions |-> {}]

-----------------------------------------------------------------------------
(***************************************************************************)
(* The run.  A new invocation of a ROI starts with nothing accessed and    *)
(* nothing reported (the wrapper empties loads and stores).                *)
(***************************************************************************)
Begin(r) ==
    /\ open' = open \cup {r}
    /\ accessed' = [accessed EXCEPT ![r] = {}]
    /\ reported' = [reported EXCEPT ![r] = {}]

End(r) ==
    /\ open' = open \ {r}
    /\ UNCHANGED <<accessed, reported>>

\* The caller starts or ends a ROI of its own, or calls the function.
CallerStep ==
    /\ pc = Idle
    /\ \/ Begin(Caller) /\ UNCHANGED pc
       \/ Caller \in open /\ End(Caller) /\ UNCHANGED pc
       \/ pc' = Entry /\ UNCHANGED <<open, accessed, reported>>
    /\ UNCHANGED compiled

\* Control moves to a successor of the node, or back to the caller.
Goto == IF pc = Exit THEN pc' = Idle ELSE pc' \in succ[pc]

Noted(log, a) == [r \in Regions |-> IF r \in open THEN log[r] \cup {a} ELSE log[r]]

Access ==
    /\ pc # Idle /\ instr[pc].op \in Kinds
    /\ LET a == <<instr[pc].op, instr[pc].ptr>> IN
         /\ accessed' = Noted(accessed, a)
         /\ reported' = IF pc \in instsToSkip THEN reported ELSE Noted(reported, a)
    /\ Goto
    /\ UNCHANGED <<compiled, open>>

StartTracking ==
    /\ pc # Idle /\ instr[pc].op = "start"
    /\ Begin(instr[pc].roi)
    /\ Goto
    /\ UNCHANGED compiled

StopTracking ==
    /\ pc # Idle /\ instr[pc].op = "stop"
    /\ End(instr[pc].roi)
    /\ Goto
    /\ UNCHANGED compiled

Branch ==
    /\ pc # Idle /\ instr[pc].op = "branch"
    /\ Goto
    /\ UNCHANGED <<compiled, open, accessed, reported>>

Next == CallerStep \/ Access \/ StartTracking \/ StopTracking \/ Branch

Spec == Init /\ [][Next]_vars

-----------------------------------------------------------------------------
TypeOK ==
    /\ instr \in [Nodes -> Instrs]
    /\ succ \in [Nodes -> SUBSET Nodes]
    /\ dfGEN \in [Kinds -> [Nodes -> SUBSET Objects]]
    /\ dfIN \in [Kinds -> [Nodes -> SUBSET Objects]]
    /\ pc \in Nodes \cup {Idle}
    /\ open \subseteq Regions
    /\ accessed \in [Regions -> SUBSET (Kinds \X Ptrs)]
    /\ reported \in [Regions -> SUBSET (Kinds \X Ptrs)]

SameObject(p, q) == p = q \/ (objOf(p) = objOf(q) /\ objOf(p) # NoBase)

\* Every load and store of the current invocation of a running ROI was
\* reported to that invocation, through the same object: what the pass
\* leaves uninstrumented only repeats a report.
NothingMissed ==
    \A r \in open : \A a \in accessed[r] :
        \E b \in reported[r] : b[1] = a[1] /\ SameObject(a[2], b[2])
=============================================================================
