--------------------------- MODULE RegionTracking ---------------------------
(***************************************************************************)
(* Which region of interest (ROI) an access is charged to.  The program's  *)
(* thread enters and leaves ROIs through the wrapper (wrapper.cpp), which  *)
(* keeps activeState and ships entries; the shadow thread replays the      *)
(* entries later and keeps its own idea of the active ROI, batchState, in  *)
(* cleanBatch (texas.cpp).  stream is what was shipped and not yet         *)
(* cleaned; that the batches deliver it in order is shown in               *)
(* ShadowBatching.  Of the classes only "known" and "new in this           *)
(* iteration" are kept here; SpoorFSA has the classes themselves.          *)
(*                                                                         *)
(* A batch that a commit ends is executed up to and including the slot     *)
(* behind it, which holds an entry executed before (ReplaysArePast of      *)
(* ShadowBatching).  Of the entries a slot may hold after cleanBatch only  *)
(* a STATE_COMMIT touches the State objects' maps, so Commit may repeat    *)
(* one that was executed earlier.  The two other partial batches, for the  *)
(* cycle search and for the report, come at the end of the program, when   *)
(* no ROI is entered any more.                                             *)
(*                                                                         *)
(* open, touched, the roi field of entries, committed and forgotten are    *)
(* history: no code reads them.                                            *)
(***************************************************************************)
EXTENDS Naturals, Sequences

CONSTANTS Regions,    \* the ROIs of the program: (funcName, lineNum) pairs
          NoState,    \* nullptr
          Addrs,      \* addresses the program may touch
          Encloses,   \* <<r, s>>: the program may enter s when r is innermost
          MaxCalls,   \* bound: calls into the wrapper
          MaxLag      \* bound: entries the shadow may be behind

RegionOrNone == Regions \cup {NoState}

ASSUME RegionsAssumption ==
    /\ NoState \notin Regions
    /\ Encloses \subseteq RegionOrNone \X Regions
    /\ MaxCalls \in Nat /\ MaxLag \in Nat

\* Every ROI is always entered from the same place: no recursion, and no ROI
\* of a function that is called from several ROIs.
StaticNesting ==
    \A s \in Regions, r1, r2 \in RegionOrNone :
        <<r1, s>> \in Encloses /\ <<r2, s>> \in Encloses => r1 = r2

VARIABLES
    calls,        \* calls into the wrapper so far
    open,         \* ROIs the program is in, innermost last
    touched,      \* addresses accessed with the ROI innermost, since its commit
    stateMap,     \* ROIs that have a State object
    parent,       \* State::parent
    activeState,
    loads, stores,
    stream,
    batchState,   \* cleanBatch's batchState, oldState between batches
    known,        \* addresses in the ROI's statePtrMap
    fresh,        \* addresses in the ROI's statePtrIterMap
    committed,    \* ROIs of the STATE_COMMITs executed so far
    forgotten     \* addresses a repeated commit made the ROI forget, since its own

program == <<calls, open, touched>>
main    == <<stateMap, parent, activeState, loads, stores>>
past    == <<committed, forgotten>>
shadow  == <<batchState, known, fresh, past>>
vars    == <<program, main, stream, shadow>>

\* An entry is about a State or about an address.
Entry == [op : {"BEGIN", "END", "COMMIT"}, state : Regions,
          ptr : {NoState}, roi : RegionOrNone]
           \cup
         [op : {"ACCESS"}, state : {NoState}, ptr : Addrs, roi : RegionOrNone]

Innermost(stack) == IF stack = <<>> THEN NoState ELSE stack[Len(stack)]

Init ==
    /\ calls = 0
    /\ open = <<>>
    /\ touched = [s \in Regions |-> {}]
    /\ stateMap = {}
    /\ parent = [s \in Regions |-> NoState]
    /\ activeState = NoState
    /\ loads = {} /\ stores = {}
    /\ stream = <<>>
    /\ batchState = NoState
    /\ known = [s \in Regions |-> {}]
    /\ fresh = [s \in Regions |-> {}]
    /\ committed = {}
    /\ forgotten = [s \in Regions |-> {}]

-----------------------------------------------------------------------------
(***************************************************************************)
(* The program's thread.                                                   *)
(***************************************************************************)
Call ==
    /\ calls < MaxCalls
    /\ calls' = calls + 1
    /\ UNCHANGED shadow

\* getFreeSlot: the next entry of the batch.
Ship(op, s, p) ==
    /\ Len(stream) < MaxLag
    /\ stream' = Append(stream, [op |-> op, state |-> s, ptr |-> p,
                                 roi |-> Innermost(open)])

\* caratGetStateWrapper, GetState: the State of this place in the source is
\* reused, and only a new one takes the active ROI as its parent.
GetState(s) ==
    /\ Call
    /\ <<Innermost(open), s>> \in Encloses
    /\ open' = Append(open, s)
    /\ stateMap' = stateMap \cup {s}
    /\ parent' = IF s \in stateMap THEN parent ELSE [parent EXCEPT ![s] = activeState]
    /\ activeState' = s
    /\ Ship("BEGIN", s, NoState)
    /\ UNCHANGED <<touched, loads, stores>>

\* The end of the innermost ROI, if the program is in one at all.
Leave(stack) == IF stack = <<>> THEN stack ELSE SubSeq(stack, 1, Len(stack) - 1)

\* caratReportStateWrapper, EndState.  The ROI that ends is the active one,
\* whatever ROI the caller names; with none active only the filter is emptied.
EndState ==
    /\ Call
    /\ open' = Leave(open)
    /\ loads' = {} /\ stores' = {}
    /\ \/ /\ activeState # NoState
          /\ Ship("END", activeState, NoState)
          /\ activeState' = parent[activeState]
       \/ /\ activeState = NoState
          /\ UNCHANGED <<stream, activeState>>
    /\ UNCHANGED <<touched, stateMap, parent>>

Performed(p) ==
    touched' = IF open = <<>> THEN touched
               ELSE [touched EXCEPT ![Innermost(open)] = @ \cup {p}]

\* texasAddToStateLoad: nothing outside a ROI, nothing for an address loaded
\* since loads was last emptied.
Load(p) ==
    /\ Call
    /\ Performed(p)
    /\ \/ /\ activeState # NoState /\ p \notin loads
          /\ loads' = loads \cup {p}
          /\ Ship("ACCESS", NoState, p)
       \/ /\ activeState = NoState \/ p \in loads
          /\ UNCHANGED <<loads, stream>>
    /\ UNCHANGED <<open, stateMap, parent, activeState, stores>>

\* texasAddToStateWithInfoWrapper, for a store of one element.
Store(p) ==
    /\ Call
    /\ Performed(p)
    /\ \/ /\ activeState # NoState /\ p \notin stores
          /\ stores' = stores \cup {p}
          /\ Ship("ACCESS", NoState, p)
       \/ /\ activeState = NoState \/ p \in stores
          /\ UNCHANGED <<stores, stream>>
    /\ UNCHANGED <<open, stateMap, parent, activeState, loads>>

\* EndStateInvocation without the test that the ROI has a State.
EndStateInvocationUnchecked(s) ==
    /\ Call
    /\ \A i \in 1..Len(open) : open[i] # s
    /\ Ship("COMMIT", IF s \in stateMap THEN s ELSE NoState, NoState)
    /\ touched' = [touched EXCEPT ![s] = {}]
    /\ UNCHANGED <<open, main>>

\* endStateInvocationWrapper, EndStateInvocation, called between iterations.
\* For a ROI that was never entered the call does nothing.
EndStateInvocation(s) ==
    /\ Call
    /\ \A i \in 1..Len(open) : open[i] # s
    /\ s \in stateMap
    /\ Ship("COMMIT", s, NoState)
    /\ touched' = [touched EXCEPT ![s] = {}]
    /\ UNCHANGED <<open, main>>

-----------------------------------------------------------------------------
(***************************************************************************)
(* The shadow thread: one entry of the first pass of cleanBatch, and       *)
(* CommitState for a STATE_COMMIT entry, which is the last of its batch,   *)
(* together with the entry left behind that batch.                         *)
(***************************************************************************)

\* What cleanBatch has noted of a ROI's addresses.
Heard(s) == known[s] \cup fresh[s]

\* STATE_BEGIN
Begin(e) ==
    /\ e.op = "BEGIN"
    /\ batchState' = e.state
    /\ fresh' = [fresh EXCEPT ![e.state] = {}]
    /\ UNCHANGED <<known, past>>

\* STATE_END without elevating what the iteration found.
EndDrops(e) ==
    /\ e.op = "END"
    /\ batchState' = parent[e.state]
    /\ UNCHANGED <<known, fresh, past>>

\* STATE_END that does not return to the enclosing ROI.
EndForgetsParent(e) ==
    /\ e.op = "END"
    /\ known' = [known EXCEPT ![e.state] = @ \cup fresh[e.state]]
    /\ batchState' = NoState
    /\ UNCHANGED <<fresh, past>>

\* STATE_END
End(e) ==
    /\ e.op = "END"
    /\ known' = [known EXCEPT ![e.state] = @ \cup fresh[e.state]]
    /\ batchState' = parent[e.state]
    /\ UNCHANGED <<fresh, past>>

\* STATE_ADD_READ, STATE_ADD_WRITE
Access(e) ==
    /\ e.op = "ACCESS"
    /\ fresh' = IF batchState = NoState \/ e.ptr \in known[batchState] THEN fresh
                ELSE [fresh EXCEPT ![batchState] = @ \cup {e.ptr}]
    /\ UNCHANGED <<batchState, known, past>>

\* STATE_COMMIT that leaves statePtrMap as it is.
CommitKeepsKnown(e) ==
    /\ e.op = "COMMIT"
    /\ fresh' = [fresh EXCEPT ![e.state] = {}]
    /\ committed' = committed \cup {e.state}
    /\ UNCHANGED <<batchState, known, forgotten>>

\* STATE_COMMIT, then the slot behind the batch: nothing to the maps, as a
\* second commit of the same ROI, or the commit of t, which may be running.
Commit(e) ==
    /\ e.op = "COMMIT"
    /\ \E t \in committed \cup {e.state} :
         /\ known' = [s \in Regions |-> IF s \in {e.state, t} THEN {} ELSE known[s]]
         /\ fresh' = [s \in Regions |-> IF s \in {e.state, t} THEN {} ELSE fresh[s]]
         /\ forgotten' = [s \in Regions |->
                            CASE s = e.state -> {}
                              [] s # e.state /\ s = t -> forgotten[s] \cup Heard(s)
                              [] OTHER -> forgotten[s]]
    /\ committed' = committed \cup {e.state}
    /\ UNCHANGED batchState

Clean ==
    /\ stream # <<>>
    /\ stream' = Tail(stream)
    /\ LET e == Head(stream) IN Begin(e) \/ End(e) \/ Access(e) \/ Commit(e)
    /\ UNCHANGED <<program, main>>

-----------------------------------------------------------------------------
Next ==
    \/ \E s \in Regions : GetState(s)
    \/ EndState
    \/ \E p \in Addrs : Load(p)
    \/ \E p \in Addrs : Store(p)
    \/ \E s \in Regions : EndStateInvocation(s)
    \/ Clean

Spec == Init /\ [][Next]_vars

-----------------------------------------------------------------------------
\* Types: in particular an entry about a State names one that exists.
TypeOK ==
    /\ calls \in 0..MaxCalls
    /\ open \in Seq(Regions)
    /\ touched \in [Regions -> SUBSET Addrs]
    /\ stateMap \subseteq Regions
    /\ parent \in [Regions -> RegionOrNone]
    /\ activeState \in RegionOrNone
    /\ loads \subseteq Addrs /\ stores \subseteq Addrs
    /\ stream \in Seq(Entry)
    /\ batchState \in RegionOrNone
    /\ known \in [Regions -> SUBSET Addrs]
    /\ fresh \in [Regions -> SUBSET Addrs]
    /\ committed \subseteq Regions
    /\ forgotten \in [Regions -> SUBSET Addrs]

\* The shadow charges an access to the ROI that was innermost when the program
\* performed it, however far behind it is.
ChargedToInnermost ==
    stream # <<>> /\ Head(stream).op = "ACCESS" => batchState = Head(stream).roi

\* Once the shadow has caught up, no access of an outermost ROI is missing,
\* unless a commit executed for the second time has committed it too early:
\* what a ROI that has ended touched is known, what an open one touched is
\* heard of, nested ROIs and the shared filter notwithstanding.  The exception
\* is the slot behind a batch that another ROI's commit ends: if it holds an old
\* STATE_COMMIT of this ROI, CommitState empties its maps while it runs.
OutermostComplete ==
    stream = <<>> =>
        \A s \in Regions : <<NoState, s>> \in Encloses =>
            touched[s] \subseteq
               (IF \E i \in 1..Len(open) : open[i] = s THEN Heard(s) ELSE known[s])
                 \cup forgotten[s]

\* Nothing is charged to a ROI that it did not touch since its last commit:
\* once the shadow has caught up, what it has heard of a ROI, outermost or
\* nested, are accesses made with that ROI innermost, and none that a commit
\* has already reported.
OnlyOwnAccesses ==
    stream = <<>> => \A s \in Regions : Heard(s) \subseteq touched[s]

\* The shadow's idea of the active ROI is the wrapper's, as of the entries it
\* has cleaned: when it has caught up, they agree.
ShadowFollows == stream = <<>> => batchState = activeState

\* The same for every ROI: a nested ROI, too, hears of what it touches, since
\* the filter is said to look at one dynamic invocation of the ROI only.
EveryRegionComplete ==
    stream = <<>> => \A s \in Regions : touched[s] \subseteq Heard(s)

=============================================================================
