----------------------------- MODULE SpoorCommit -----------------------------
(***************************************************************************)
(* From the classes of SpoorFSA to the sets that are reported.  The        *)
(* second pass of cleanBatch (texas.cpp) looks up, batch by batch, the     *)
(* class that each access of the batch has by then; processAddToState      *)
(* (Shadow.cpp) notes it in the allocation; a commit (Allocation.cpp,      *)
(* State.cpp) moves the notes to the Final sets of the ROI.                *)
(*                                                                         *)
(* The first pass is SpoorFSA's.  It works entry by entry and nothing      *)
(* else looks at its maps before the batch is pushed, so it is done here   *)
(* when the entry is shipped.  All accesses of a batch to one address get  *)
(* the same class: of a batch it is enough to know its length and which    *)
(* addresses it touches.  The allocations are live throughout; a note is   *)
(* an address and a class.                                                 *)
(*                                                                         *)
(* cut, whole and truth are history variables.                             *)
(***************************************************************************)
EXTENDS SpoorFSA

CONSTANTS SHADOW_WINDOW,   \* slots of a batch
          TrackChoices     \* what the command line may ask to be tracked

TrackFlags == {"Input", "Output", "Cloneable", "Transfer"}

ASSUME CommitAssumption ==
    /\ SHADOW_WINDOW \in Nat \ {0}
    /\ TrackChoices \subseteq SUBSET TrackFlags

VARIABLES
    track,      \* trackInput, trackOutput, ...: set by prologue
    slotStart,  \* entries in the batch being filled
    pending,    \* addresses that the batch's accesses touch
    info,       \* stateSetToOffsetMap of the allocations, for this ROI
    executed,   \* notes that some slot of a used buffer still holds
    final,      \* FinalInput, FinalIO, ..., FinalTransferOutput
    reported,   \* ReportStatistics is done
    cut,        \* a batch boundary fell into the iteration that runs
    whole,      \* addresses touched in iterations without such a cut
    truth       \* <<address, class it should have, in whole>> at each commit

batchVars   == <<slotStart, pending>>
noteVars    == <<info, executed, final>>
commitVars  == <<track, batchVars, noteVars, reported, cut, whole, truth>>
allVars     == <<vars, commitVars>>

Note == Addrs \X Classes

CommitInit ==
    /\ Init
    /\ track \in TrackChoices
    /\ slotStart = 0 /\ pending = {}
    /\ info = {} /\ executed = {} /\ final = {}
    /\ reported = FALSE
    /\ cut = FALSE /\ whole = {} /\ truth = {}

-----------------------------------------------------------------------------
\* The flags that make a class worth recording, as pass two tests them.
FlagsFor(c) ==
    CASE c = "INPUT"  -> {"Input"}
      [] c = "IO"     -> {"Input", "Output"}
      [] c = "CIO"    -> {"Cloneable", "Input", "Output"}
      [] c = "TIO"    -> {"Transfer", "Input", "Output"}
      [] c = "OUTPUT" -> {"Output"}
      [] c = "CO"     -> {"Cloneable", "Output"}
      [] c = "TO"     -> {"Transfer", "Output"}

Tracked(c) == FlagsFor(c) \cap track # {}

\* Pass two and processAddToState: an access whose address has no class yet,
\* or none that is tracked, leaves no note.
Notes ==
    {<<p, statePtrMap[p]>> : p \in {q \in pending :
        statePtrMap[q] # NoClass /\ Tracked(statePtrMap[q])}}

\* processShadowBatch looks one slot too far: behind a batch that is not full
\* lies an entry that an earlier batch left.
Replay(n) == {{}} \cup IF n < SHADOW_WINDOW THEN {{e} : e \in executed} ELSE {}

\* An entry goes into the batch; a full batch was pushed before.
Ship ==
    /\ ~reported
    /\ slotStart < SHADOW_WINDOW
    /\ slotStart' = slotStart + 1

CGetState ==
    /\ GetState
    /\ Ship
    /\ cut' = FALSE
    /\ UNCHANGED <<track, pending, noteVars, reported, whole, truth>>

\* One access; shipped says whether the wrapper's filter lets it through.
CAccess(p, shipped) ==
    /\ \/ /\ shipped
          /\ Ship
          /\ pending' = pending \cup {p}
       \/ /\ ~shipped
          /\ ~reported
          /\ UNCHANGED batchVars
    /\ UNCHANGED <<track, noteVars, reported, cut, whole, truth>>

CLoad(p)  == Load(p)  /\ CAccess(p, p \notin loads)
CStore(p) == Store(p) /\ CAccess(p, p \notin stores)

CEndState ==
    /\ EndState
    /\ Ship
    /\ whole' = IF cut THEN whole
                ELSE whole \cup {p \in Addrs : \E e \in hist[p] : e.it = iter}
    /\ UNCHANGED <<track, pending, noteVars, reported, cut, truth>>

\* batchFull(true), and serialProcessShadowBatch: the batch is cleaned and
\* executed.
Flush ==
    /\ slotStart = SHADOW_WINDOW
    /\ info' = info \cup Notes
    /\ executed' = executed \cup Notes
    /\ slotStart' = 0 /\ pending' = {}
    /\ cut' = inROI
    /\ UNCHANGED <<vars, track, final, reported, whole, truth>>

\* What an invocation of the ROI should report.
Settle == truth' = truth \cup
    {<<p, Reference(hist[p]), p \in whole>> : p \in {q \in Addrs : hist[q] # {}}}

\* The commit before the batch it ends has been executed.
CEndStateInvocationEarly ==
    /\ EndStateInvocation
    /\ ~reported
    /\ slotStart < SHADOW_WINDOW
    /\ final' = final \cup info
    /\ info' = {}
    /\ executed' = executed \cup Notes
    /\ slotStart' = 0 /\ pending' = {}
    /\ whole' = {}
    /\ Settle
    /\ UNCHANGED <<track, reported, cut>>

\* EndStateInvocation: STATE_COMMIT is the last entry of its batch.  The notes
\* of every allocation go to the Final sets and the classes are forgotten; a
\* replayed entry comes after that.
CEndStateInvocation ==
    /\ EndStateInvocation
    /\ ~reported
    /\ slotStart < SHADOW_WINDOW
    /\ final' = final \cup info \cup Notes
    /\ info' \in Replay(slotStart + 1)
    /\ executed' = executed \cup Notes
    /\ slotStart' = 0 /\ pending' = {}
    /\ whole' = {}
    /\ Settle
    /\ UNCHANGED <<track, reported, cut>>

\* ReportStatistics, after the search for cycles (which ends a batch, too):
\* the last batch, a commit of the notes and of every State, as at the end of
\* an invocation.  ReportState then cleans the sets that CommitState has
\* emptied.
ReportStatistics ==
    /\ EndStateInvocation
    /\ ~reported
    /\ \E r1 \in Replay(slotStart), r2 \in Replay(0) :
          final' = final \cup info \cup Notes \cup r1 \cup r2
    /\ info' = {}
    /\ executed' = executed \cup Notes
    /\ slotStart' = 0 /\ pending' = {}
    /\ reported' = TRUE
    /\ Settle
    /\ UNCHANGED <<track, cut, whole>>

Terminated == reported /\ UNCHANGED allVars

CommitNext ==
    \/ CGetState
    \/ \E p \in Addrs : CLoad(p)
    \/ \E p \in Addrs : CStore(p)
    \/ CEndState
    \/ Flush
    \/ CEndStateInvocation
    \/ ReportStatistics
    \/ Terminated

CommitSpec == CommitInit /\ [][CommitNext]_allVars

-----------------------------------------------------------------------------
\* Types: a note is an address with a class, never with a raw operation.
CommitTypeOK ==
    /\ TypeOK
    /\ track \in TrackChoices
    /\ slotStart \in 0 .. SHADOW_WINDOW
    /\ pending \subseteq Addrs
    /\ info \subseteq Note /\ executed \subseteq Note /\ final \subseteq Note
    /\ reported \in BOOLEAN /\ cut \in BOOLEAN
    /\ whole \subseteq Addrs
    /\ truth \subseteq Addrs \X Classes \X BOOLEAN

\* What an iteration touches that no batch boundary cuts is reported with the
\* class its whole history calls for, if that class is tracked: no upgrade is
\* lost between the automaton and the Final sets.
WholeIterationsReported ==
    \A t \in truth : t[3] /\ Tracked(t[2]) => <<t[1], t[2]>> \in final

\* Nothing is reported that no invocation of the ROI did: every note in a Final
\* set is of the family of the address's true class and at most as strong.
\* That includes what is executed again after a batch.
NothingInvented ==
    \A n \in final : \E t \in truth :
        /\ t[1] = n[1]
        /\ t[2] \in InputFamily <=> n[2] \in InputFamily
        /\ Rank(n[2]) <= Rank(t[2])

\* Cleaning a batch drops redundant operations only: an address that a ROI
\* touched, and whose class is tracked, is in one of its Final sets.
EveryAddressReported ==
    \A t \in truth : Tracked(t[2]) => \E c \in Classes : <<t[1], c>> \in final

=============================================================================
