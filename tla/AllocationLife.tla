--------------------------- MODULE AllocationLife ---------------------------
(***************************************************************************)
(* Allocations from malloc to free, and what the ROIs report of them: the  *)
(* sorted table of AllocationTable.cpp, the Allocation object that all     *)
(* blocks of one origin share (Shadow.cpp), and the notes that a free or a *)
(* commit moves to the sets of the ROIs (Allocation.cpp, State.cpp).       *)
(*                                                                         *)
(* An entry has its effect when it is shipped: the shadow executes the     *)
(* entries in order (ShadowBatching) and the program does not look at its  *)
(* results.  A batch that a commit or the report ends is executed up to    *)
(* and including the slot behind it, which holds nothing of consequence or *)
(* an entry that was executed before (ReplaysArePast of ShadowBatching):   *)
(* SlotBehind may repeat any of them.  Every ROI is entered from the same  *)
(* place (StaticNesting of RegionTracking), so that Enclosing is           *)
(* State::parent.  trackCycles is off: there are no escapes and no search  *)
(* for cycles.  The seven sets of a State are treated alike and one stands *)
(* for them; SpoorCommit has the classes.  The uses of an allocation       *)
(* travel with its notes.                                                  *)
(*                                                                         *)
(* past, blocks, fresh, settled, owed, echoed and confused are history     *)
(* variables: what the slots may hold, and the program's own truth.        *)
(***************************************************************************)
EXTENDS Integers, FiniteSets

CONSTANTS Origins,    \* unique IDs of allocation sites with their call stack
          NoAlloc,    \* nullptr
          maxEntry,   \* the Allocation that texas_init puts at the top
          Regions,    \* ROIs that the program contains
          NoState,    \* nullptr
          Enclosing,  \* the ROI around each ROI
          AddrSpace,  \* addresses are computed modulo this
          MaxLen,     \* bound: length of a block
          MaxOps,     \* bound: operations of the program
          MaxSlots    \* bound: entries that may be executed again

Addresses    == 0 .. AddrSpace - 1
Top          == AddrSpace - 1
RegionOrNone == Regions \cup {NoState}
Notes        == Regions \X Origins \X Addresses   \* ROI, allocation, offset

ASSUME AllocationAssumption ==
    /\ NoAlloc \notin Origins /\ maxEntry \notin Origins \cup {NoAlloc}
    /\ NoState \notin Regions
    /\ Enclosing \in [Regions -> RegionOrNone]
    /\ AddrSpace \in Nat \ {0} /\ MaxLen \in Nat
    /\ MaxOps \in Nat /\ MaxSlots \in Nat

VARIABLES
    ops,
    stateMap,     \* ROIs that have a State
    activeState,
    table,        \* sortedAllocationTable
    object,       \* originToAllocMap: pointer, length and affiliatedState
    keys,         \* <<ROI, allocation>>: StateCommitInfoMap has an entry
    regionBased,  \* <<ROI, allocation>>: its regionBasedOffsets
    info,         \* the notes in stateSetToOffsetMap
    temp,         \* Input, IO, ..., TransferOutput of the States
    final,        \* FinalInput, ..., FinalTransferOutput
    phase,        \* what is next: an operation, or a step of a commit or the report
    past,         \* executed entries whose slots come to lie behind a batch
    blocks,       \* live blocks, with the ROIs they were born in
    fresh,        \* <<ROI, address of the block, offset>> accessed since a commit
    settled,      \* accesses that must be reported by the ROI's next commit
    owed,         \* accesses that must be in the Final sets
    echoed,       \* notes made by an entry that was executed again
    confused      \* origins with two live blocks at once, or disturbed by such an entry

regionVars == <<stateMap, activeState>>
allocVars  == <<table, object>>
noteVars   == <<keys, regionBased, info>>
history    == <<blocks, fresh, settled, owed, echoed, confused>>
vars == <<ops, regionVars, allocVars, noteVars, temp, final, phase, past, history>>

\* A shadowEntry, after the second pass of cleanBatch.
Entry == [operation : {"ALLOC_ADD", "ALLOC_FREE", "STATE_ADD", "STATE_REGION_SET", "STATE_COMMIT"},
          ptr : Addresses, size : 0 .. MaxLen,
          information : Origins \cup {NoAlloc}, state : RegionOrNone]

Slot(op, p, n, o, s) ==
    [operation |-> op, ptr |-> p, size |-> n, information |-> o, state |-> s]

\* Each executed entry may turn out to be one that is executed again.
Leave(es) ==
    \E left \in SUBSET es :
        /\ past' = past \cup left
        /\ left # {} => Cardinality(past \cup left) <= MaxSlots

\* A State and its parents.
Chain(s) ==
    {t \in Regions : s # NoState /\
        \A S \in SUBSET Regions :
            s \in S /\ (\A r \in S : Enclosing[r] \in S \cup {NoState}) => t \in S}

Init ==
    /\ ops = 0
    /\ stateMap = {} /\ activeState = NoState
    /\ table = [a \in Addresses |-> IF a = Top THEN maxEntry ELSE NoAlloc]
    /\ object = [o \in Origins \cup {maxEntry} |->
                   [pointer |-> Top, length |-> 0, affiliatedState |-> NoState]]
    /\ keys = {} /\ regionBased = {} /\ info = {}
    /\ temp = {} /\ final = {}
    /\ phase = "run" /\ past = {}
    /\ blocks = {} /\ fresh = {} /\ settled = {} /\ owed = {}
    /\ echoed = {} /\ confused = {}

Operation ==
    /\ phase = "run"
    /\ ops < MaxOps
    /\ ops' = ops + 1

-----------------------------------------------------------------------------
(***************************************************************************)
(* ROIs.                                                                   *)
(***************************************************************************)
GetState(r) ==
    /\ Operation
    /\ Enclosing[r] = activeState
    /\ activeState' = r
    /\ stateMap' = stateMap \cup {r}
    /\ UNCHANGED <<allocVars, noteVars, temp, final, phase, past, history>>

EndState ==
    /\ Operation
    /\ activeState # NoState
    /\ activeState' = Enclosing[activeState]
    /\ UNCHANGED <<stateMap, allocVars, noteVars, temp, final, phase, past, history>>

-----------------------------------------------------------------------------
(***************************************************************************)
(* The table.                                                              *)
(***************************************************************************)
\* Mutant: the address behind the block still belongs to it.
doesItAliasInclusive(start, length, p) == p >= start /\ p <= start + length

doesItAlias(start, length, p) == p >= start /\ p < start + length

Keys(t) == {a \in Addresses : t[a] # NoAlloc}

\* The entry at p itself, or the last one before p if p lies in its block.
\* The search starts from the entry behind p, which must exist.
findAllocation(p) ==
    LET before  == {a \in Keys(table) : a < p}
        aliased == {a \in before : /\ \A c \in before : c <= a
                                   /\ doesItAlias(a, object[table[a]].length, p)}
    IN  CASE p \in Keys(table)            -> table[p]
          [] Keys(table) \subseteq before -> NoAlloc
          [] OTHER -> IF aliased = {} THEN NoAlloc
                      ELSE table[CHOOSE a \in aliased : TRUE]

\* std::map::insert: an entry that is there stays.
InsertAllocation(t, a, o) == IF t[a] # NoAlloc THEN t ELSE [t EXCEPT ![a] = o]

DeleteAllocation(t, a) == [t EXCEPT ![a] = NoAlloc]

\* Mutant: a reused Allocation keeps its affiliatedState.
processAddAllocKeepsState(t, e) ==
    /\ object' = [object EXCEPT ![e.information].pointer = e.ptr, ![e.information].length = e.size]
    /\ table' = InsertAllocation(t, e.ptr, e.information)

\* processAddAlloc, on a table that a realloc may have changed before.
processAddAlloc(t, e) ==
    /\ object' = [object EXCEPT ![e.information] =
                    [pointer |-> e.ptr, length |-> e.size, affiliatedState |-> e.state]]
    /\ table' = InsertAllocation(t, e.ptr, e.information)

-----------------------------------------------------------------------------
(***************************************************************************)
(* Notes.                                                                  *)
(***************************************************************************)
\* Mutant: a free in a ROI erases the ROI's notes wherever the block comes from.
ErasedAll(o, skipState) == Chain(skipState)

\* The States that forget the allocation: it was made in them and they are
\* skipState or a parent of it.
Erased(o, skipState) == Chain(object[o].affiliatedState) \cap Chain(skipState)

Gone(os, skipState)  == {k \in keys : k[2] \in os /\ k[1] \in Erased(k[2], skipState)}
Moved(os, skipState) == {n \in info : n[2] \in os /\ <<n[1], n[2]>> \notin Gone(os, skipState)}

\* commitStateInfo for the allocations os: what is not erased moves to the
\* States' sets, the entries of StateCommitInfoMap stay.
commitStateInfo(os, skipState) ==
    /\ keys' = keys \ Gone(os, skipState)
    /\ regionBased' = regionBased \ Gone(os, skipState)
    /\ info' = {n \in info : n[2] \notin os}

\* The allocation that an entry is about, if any.
Found(e) == {findAllocation(e.ptr)} \ {NoAlloc}

\* Its notes; the table is left to DeleteAllocation.
processFreeAllocation(e) ==
    /\ commitStateInfo(Found(e), e.state)
    /\ temp' = temp \cup Moved(Found(e), e.state)

\* Mutant: the offset is not reduced to the width of an address.
GetOffsetUnbounded(base, p) == p - base

GetOffset(base, p) == (p - base) % AddrSpace

\* processAddToState and processStateRegionSet: notes of the address, and of
\* the end of the region, for the State of the entry and its parents.
Ends(e) == IF e.operation = "STATE_REGION_SET" THEN {0, e.size} ELSE {0}

NotesOf(e) == {<<s, o, GetOffset(object[o].pointer, e.ptr + d)>> :
                  s \in Chain(e.state), o \in Found(e), d \in Ends(e)}

Record(e) ==
    LET marked == Chain(e.state) \X Found(e)
    IN  /\ keys' = keys \cup marked
        /\ regionBased' = regionBased \cup
              (IF e.operation = "STATE_REGION_SET" THEN marked ELSE {})
        /\ info' = info \cup NotesOf(e)

\* What they leave in the slot: on their way to the parents they replace the
\* entry's State, which ends as the outermost one.
Climbed(e) ==
    IF Found(e) = {} THEN {e}
    ELSE {[e EXCEPT !.state = s] : s \in {t \in Chain(e.state) : Enclosing[t] = NoState}}

-----------------------------------------------------------------------------
(***************************************************************************)
(* The program.                                                            *)
(***************************************************************************)
Cells(b) == b.base .. b.base + b.len - 1

Available(a, n, others) ==
    /\ a > 0 /\ a + n <= Top
    /\ \A b \in others : Cells(b) \cap (a .. a + n - 1) = {}

\* The history of a new block and of a block that is freed.
Born(a, n, o) == [base |-> a, len |-> n, origin |-> o, born |-> Chain(activeState)]

\* The origin of a new block is in doubt when it has another live block, or
\* when the table has an entry in the place of the new one.
Doubtful(o, others, t, cells) ==
    IF (\E b \in others : b.origin = o) \/ (\E c \in cells : t[c] # NoAlloc)
    THEN {o} ELSE {}

Released(b) ==
    /\ fresh' = {f \in fresh : f[2] # b.base}
    /\ settled' = settled \cup
         {<<f[1], b.origin, f[3]>> : f \in {g \in fresh :
             g[2] = b.base /\ ~(g[1] \in b.born /\ g[1] \in Chain(activeState))}}
    /\ UNCHANGED <<owed, echoed>>

AddEntry(a, n, o) == Slot("ALLOC_ADD", a, n, o, activeState)
FreeEntry(a)      == Slot("ALLOC_FREE", a, 0, NoAlloc, activeState)

\* caratStateAllocWrapper, caratStateCallocWrapper, AddToAllocationTable
Alloc(a, n, o) ==
    /\ Operation
    /\ Available(a, n, blocks)
    /\ processAddAlloc(table, AddEntry(a, n, o))
    /\ Leave({AddEntry(a, n, o)})
    /\ blocks' = blocks \cup {Born(a, n, o)}
    /\ confused' = confused \cup Doubtful(o, blocks, table, a .. a + n - 1)
    /\ UNCHANGED <<regionVars, noteVars, temp, final, phase, fresh, settled, owed, echoed>>

\* RemoveFromAllocationTable
Free(b) ==
    /\ Operation
    /\ processFreeAllocation(FreeEntry(b.base))
    /\ table' = DeleteAllocation(table, b.base)
    /\ Leave({FreeEntry(b.base)})
    /\ blocks' = blocks \ {b}
    /\ Released(b)
    /\ UNCHANGED <<regionVars, object, final, phase, confused>>

\* HandleReallocInAllocationTable: a free, then an allocation.
Realloc(b, a, n, o) ==
    /\ Operation
    /\ Available(a, n, blocks \ {b})
    /\ processFreeAllocation(FreeEntry(b.base))
    /\ LET t == DeleteAllocation(table, b.base)
       IN  /\ processAddAlloc(t, AddEntry(a, n, o))
           /\ confused' = confused \cup Doubtful(o, blocks \ {b}, t, a .. a + n - 1)
    /\ Leave({FreeEntry(b.base), AddEntry(a, n, o)})
    /\ blocks' = (blocks \ {b}) \cup {Born(a, n, o)}
    /\ Released(b)
    /\ UNCHANGED <<regionVars, final, phase>>

\* What the program does when it ships an entry for an access: it touches the
\* block around the address, in the active ROI and those around it.
Performed(e) ==
    /\ fresh' = fresh \cup
         {<<s, b.base, e.ptr + d - b.base>> : s \in Chain(activeState), d \in Ends(e),
                                              b \in {c \in blocks : e.ptr \in Cells(c)}}
    /\ UNCHANGED <<blocks, settled, owed, echoed, confused>>

Shipped(e) ==
    /\ Record(e)
    /\ Leave(Climbed(e))
    /\ Performed(e)
    /\ UNCHANGED <<regionVars, allocVars, temp, final, phase>>

\* A load or a store in a ROI that the filter lets through and cleanBatch
\* gives a class.
Access(p) ==
    /\ Operation
    /\ activeState # NoState
    /\ Shipped(Slot("STATE_ADD", p, 0, NoAlloc, activeState))

\* setDirectState, SetStateRegion: the accesses of a whole loop to the part of
\* a block from p to p + n.
SetStateRegion(p, n) ==
    /\ Operation
    /\ activeState # NoState
    /\ \A b \in blocks : p \in Cells(b) => p + n \in Cells(b)
    /\ Shipped(Slot("STATE_REGION_SET", p, n, NoAlloc, activeState))

-----------------------------------------------------------------------------
(***************************************************************************)
(* Commits.                                                                *)
(***************************************************************************)
Listed == {table[a] : a \in Keys(table)}

OfBlock(f) == CHOOSE b \in blocks : b.base = f[2]
AllSettled == settled \cup {<<f[1], OfBlock(f).origin, f[3]>> : f \in fresh}

\* STATE_COMMIT: CommitStateInfoForAllocations, then CommitState for States.
CommitStates(States) ==
    /\ commitStateInfo(Listed, NoState)
    /\ LET all == temp \cup Moved(Listed, NoState)
       IN  /\ final' = final \cup {n \in all : n[1] \in States}
           /\ temp' = {n \in all : n[1] \notin States}
    /\ fresh' = {}
    /\ owed' = owed \cup {n \in AllSettled : n[1] \in States}
    /\ settled' = {n \in AllSettled : n[1] \notin States}
    /\ UNCHANGED <<regionVars, allocVars, blocks, echoed, confused>>

\* The commit of r, which ends a batch and pushes it.
EndStateInvocation(r) ==
    /\ Operation
    /\ r \in stateMap /\ r \notin Chain(activeState)
    /\ CommitStates({r})
    /\ Leave({Slot("STATE_COMMIT", 0, 0, NoAlloc, r)})
    /\ phase' = "cut"

\* ReportStatistics pushes the entries that are left, and waits for the shadow;
LastBatch ==
    /\ phase = "run" /\ phase' = "last"
    /\ UNCHANGED <<ops, regionVars, allocVars, noteVars, temp, final, past, history>>

\* then it commits all ROIs.
ReportStatistics ==
    /\ phase = "drained" /\ phase' = "reported"
    /\ CommitStates(stateMap)
    /\ UNCHANGED <<ops, past>>

-----------------------------------------------------------------------------
(***************************************************************************)
(* The slot behind a batch: processShadowBatch goes on to i = rightBound,  *)
(* the number of entries.  The program performs nothing here, so history   *)
(* only takes down the damage.                                             *)
(***************************************************************************)
AgainAdd(e) ==
    /\ e.operation = "ALLOC_ADD"
    /\ processAddAlloc(table, e)
    /\ confused' = confused \cup {e.information} \cup
         {b.origin : b \in {c \in blocks : e.ptr \in Cells(c) /\ e.ptr # c.base}}
    /\ UNCHANGED <<regionVars, noteVars, temp, final, past, blocks, fresh, settled, owed, echoed>>

AgainFree(e) ==
    /\ e.operation = "ALLOC_FREE"
    /\ processFreeAllocation(e)
    /\ table' = DeleteAllocation(table, e.ptr)
    /\ confused' = confused \cup Found(e)
    /\ UNCHANGED <<regionVars, object, final, past, blocks, fresh, settled, owed, echoed>>

AgainAccess(e) ==
    /\ e.operation \in {"STATE_ADD", "STATE_REGION_SET"}
    /\ Record(e)
    /\ past' = past \cup Climbed(e)
    /\ echoed' = echoed \cup NotesOf(e)
    /\ UNCHANGED <<regionVars, allocVars, temp, final, blocks, fresh, settled, owed, confused>>

AgainCommit(e) ==
    /\ e.operation = "STATE_COMMIT"
    /\ CommitStates({e.state})
    /\ UNCHANGED past

NothingBehind ==
    UNCHANGED <<regionVars, allocVars, noteVars, temp, final, past, history>>

SlotBehind ==
    /\ phase \in {"cut", "last"}
    /\ phase' = IF phase = "cut" THEN "run" ELSE "drained"
    /\ \/ NothingBehind
       \/ \E e \in past : AgainAdd(e) \/ AgainFree(e) \/ AgainAccess(e) \/ AgainCommit(e)
    /\ UNCHANGED ops

Terminated == phase = "reported" /\ UNCHANGED vars

Next ==
    \/ \E r \in Regions : GetState(r)
    \/ EndState
    \/ \E a \in Addresses, n \in 1 .. MaxLen, o \in Origins : Alloc(a, n, o)
    \/ \E b \in blocks : Free(b)
    \/ \E b \in blocks, a \in Addresses, n \in 1 .. MaxLen, o \in Origins :
          Realloc(b, a, n, o)
    \/ \E p \in 1 .. Top - 1 : Access(p)
    \/ \E p \in 1 .. Top - 1, n \in 0 .. MaxLen - 1 : SetStateRegion(p, n)
    \/ \E r \in Regions : EndStateInvocation(r)
    \/ SlotBehind
    \/ LastBatch
    \/ ReportStatistics
    \/ Terminated

Spec == Init /\ [][Next]_vars

-----------------------------------------------------------------------------
\* Types: every note has an offset that fits an address, and a region flag
\* belongs to an entry that exists.
TypeOK ==
    /\ ops \in 0 .. MaxOps
    /\ stateMap \subseteq Regions /\ activeState \in RegionOrNone
    /\ table \in [Addresses -> Origins \cup {maxEntry, NoAlloc}]
    /\ object \in [Origins \cup {maxEntry} ->
                     [pointer : Addresses, length : 0 .. MaxLen, affiliatedState : RegionOrNone]]
    /\ keys \subseteq Regions \X Origins /\ regionBased \subseteq keys
    /\ info \subseteq Notes /\ temp \subseteq Notes /\ final \subseteq Notes
    /\ phase \in {"run", "cut", "last", "drained", "reported"}
    /\ past \subseteq Entry
    /\ blocks \subseteq [base : Addresses, len : 1 .. MaxLen,
                         origin : Origins, born : SUBSET Regions]
    /\ fresh \subseteq Regions \X Addresses \X Addresses
    /\ settled \subseteq Notes /\ owed \subseteq Notes
    /\ echoed \subseteq Notes /\ confused \subseteq Origins

\* findAllocation finds the allocation of the block that an address lies in,
\* and none for other addresses, though the length it goes by is that of the
\* newest block of the origin: but for the origins in confused, whatever those
\* do to the table.  In confused are the origins that ever had two live blocks
\* at once, and the ones that the slot behind a batch has disturbed: an
\* ALLOC_FREE executed again takes away the block that is now at its address,
\* an ALLOC_ADD brings back a dead block of its origin and hides the block that
\* is, or will be, around its address.
LookupFindsBlock ==
    \A p \in 1 .. Top - 1 :
        /\ \A b \in blocks : p \in Cells(b) /\ b.origin \notin confused
                               => findAllocation(p) = b.origin
        /\ findAllocation(p) \notin confused \cup {NoAlloc}
             => \E b \in blocks : p \in Cells(b) /\ b.origin = findAllocation(p)

\* Once a ROI has committed, it reports every access it made to a block that
\* it did not itself both allocate and free, at the right offset, though the
\* block may have been freed, moved or followed by another of its origin, and
\* though old accesses and commits may have been executed again: but for the
\* blocks of confused origins (two live blocks at once, or disturbed by an
\* allocation or a free executed again), whose accesses may be lost.
NothingLost == \A n \in owed : n[2] \notin confused => n \in final

\* A ROI reports nothing else: no access to memory without an allocation, none
\* that another ROI made, and none to a block that was allocated and freed
\* inside it with no commit in between.  Excepted are confused origins, and the
\* notes of accesses executed again in the slot behind a batch: these may be of
\* a block the ROI never touched.
NothingExtra == \A n \in final : n[2] \notin confused => n \in owed \cup echoed

\* When the results are saved, StateCommitInfoMap has an entry for every
\* allocation in a Final set of a State: getAllocationToSave dereferences it.
SavedAllocationsHaveEntries ==
    phase = "reported" => \A n \in final : <<n[1], n[2]>> \in keys
=============================================================================
