-------------------------- MODULE SpoorCommitProofs --------------------------
(***************************************************************************)
(* SpoorCommit for any addresses, batch lengths and tracked sets: what the *)
(* automaton finds reaches the Final sets, and nothing else does.          *)
(***************************************************************************)
EXTENDS SpoorCommit, SpoorFSAProofs

\* Class c is of d's family and no stronger.
Below(c, d) == (c \in InputFamily <=> d \in InputFamily) /\ Rank(c) <= Rank(d)

\* A note that a commit has justified, and one that the class its address has
\* now justifies, so that the next commit will.
Sound(n)   == \E t \in truth : t[1] = n[1] /\ Below(n[2], t[2])
Current(n) == statePtrMap[n[1]] # NoClass /\ Below(n[2], statePtrMap[n[1]])

NotesInv == \A n \in info \cup executed : Sound(n) \/ Current(n)

\* What the iteration touched is in the batch, unless one was pushed since it
\* began.
CutInv == inROI /\ ~cut => loads \cup stores \subseteq pending

\* An address of a whole iteration is noted with its class, or will be when
\* the batch is cleaned.
Noted(p) ==
    \/ p \in pending
    \/ ~Tracked(statePtrMap[p])
    \/ <<p, statePtrMap[p]>> \in info

WholeInv == \A p \in whole : statePtrMap[p] # NoClass /\ Noted(p)

Running == IInv /\ NotesInv /\ CutInv /\ WholeInv

CommitIInv ==
    /\ CommitTypeOK
    /\ NothingInvented
    /\ WholeIterationsReported
    /\ ~reported => Running

-----------------------------------------------------------------------------
\* Strength is a number.
LEMMA RankType == \A c \in Classes : Rank(c) \in Nat
BY DEF Rank, Classes, InputFamily, OutputFamily

\* A class is no stronger than itself.
LEMMA BelowReflexive == \A c \in Classes : Below(c, c)
BY RankType DEF Below

\* A class that rises twice has risen.
LEMMA BelowTransitive ==
  ASSUME NEW c \in Classes, NEW d \in Classes, NEW e \in Classes,
         Below(c, d), Below(d, e)
  PROVE  Below(c, e)
BY RankType DEF Below

\* The notes of a batch (pass two) are notes, each with its address's class.
LEMMA NotesFacts ==
  ASSUME CommitTypeOK
  PROVE  /\ Notes \subseteq Note
         /\ \A n \in Notes : Current(n)
         /\ \A p \in pending : statePtrMap[p] # NoClass /\ Tracked(statePtrMap[p])
                                  => <<p, statePtrMap[p]>> \in Notes
<1>1. ASSUME NEW n \in Notes  PROVE n \in Note /\ Current(n)
  <2>1. PICK p \in pending : n = <<p, statePtrMap[p]>> /\ statePtrMap[p] # NoClass
    BY <1>1 DEF Notes
  <2>2. p \in Addrs /\ statePtrMap[p] \in Classes
    BY <2>1 DEF CommitTypeOK, TypeOK
  <2>3. QED
    BY <2>1, <2>2, BelowReflexive DEF Note, Current
<1>2. QED
  BY <1>1 DEF Notes

\* A slot that is executed again holds a note that was executed before.
LEMMA ReplayFacts == \A n, r : r \in Replay(n) => r \subseteq executed
BY DEF Replay

\* Between invocations the class is the one of the whole history.
LEMMA ClassBetween ==
  ASSUME IInv, ~inROI, NEW p \in Addrs
  PROVE  /\ hist[p] # {} <=> statePtrMap[p] # NoClass
         /\ hist[p] # {} => statePtrMap[p] = Reference(hist[p])
BY DEF IInv, AddrInv, KnownInv, ClassInv, Class

\* What a commit settles: it adds to truth, with types, the class of every
\* address that has one.
LEMMA SettleFacts ==
  ASSUME CommitTypeOK, IInv, ~inROI, Settle
  PROVE  /\ truth \subseteq truth'
         /\ truth' \subseteq Addrs \X Classes \X BOOLEAN
         /\ \A t \in truth' : t \in truth \/
               \E p \in Addrs : /\ statePtrMap[p] # NoClass
                                /\ t = <<p, statePtrMap[p], p \in whole>>
         /\ \A p \in Addrs : statePtrMap[p] # NoClass =>
               <<p, statePtrMap[p], p \in whole>> \in truth'
<1> DEFINE touched == {q \in Addrs : hist[q] # {}}
<1>1. \A p \in touched : Reference(hist[p]) = statePtrMap[p] /\ statePtrMap[p] # NoClass
  BY ClassBetween
<1>2. \A p \in Addrs : statePtrMap[p] # NoClass => p \in touched
  BY ClassBetween
<1>3. \A t : t \in truth' <=> t \in truth \/
               \E p \in touched : t = <<p, Reference(hist[p]), p \in whole>>
  BY DEF Settle
<1>4. \A p \in touched : <<p, Reference(hist[p]), p \in whole>>
                            \in Addrs \X Classes \X BOOLEAN
  <2>1. \A p : (p \in whole) \in BOOLEAN
    OBVIOUS
  <2>2. \A p \in touched : p \in Addrs /\ Reference(hist[p]) \in Classes
    BY ReferenceCases
  <2> HIDE DEF touched
  <2>3. QED
    BY <2>1, <2>2, Zenon
<1>5. truth \subseteq truth' /\ truth' \subseteq Addrs \X Classes \X BOOLEAN
  <2> HIDE DEF touched
  <2>1. QED
    BY <1>3, <1>4 DEF CommitTypeOK
<1>6. ASSUME NEW t \in truth', t \notin truth
      PROVE  \E p \in Addrs : /\ statePtrMap[p] # NoClass
                              /\ t = <<p, statePtrMap[p], p \in whole>>
  <2>1. PICK p \in touched : t = <<p, Reference(hist[p]), p \in whole>>
    BY <1>3, <1>6
  <2>2. QED
    BY <1>1, <2>1
<1>7. ASSUME NEW p \in Addrs, statePtrMap[p] # NoClass
      PROVE  <<p, statePtrMap[p], p \in whole>> \in truth'
  <2>1. p \in touched /\ Reference(hist[p]) = statePtrMap[p]
    BY <1>1, <1>2, <1>7
  <2>2. <<p, statePtrMap[p], p \in whole>> = <<p, Reference(hist[p]), p \in whole>>
    BY <2>1
  <2>3. QED
    BY <1>3, <2>1, <2>2
<1>8. QED
  BY <1>5, <1>6, <1>7

\* A commit justifies every note that was current.
LEMMA SettleSound ==
  ASSUME CommitTypeOK, IInv, ~inROI, Settle, NEW n \in Note, Sound(n) \/ Current(n)
  PROVE  Sound(n)'
<1>1. CASE Sound(n)
  BY <1>1, SettleFacts DEF Sound
<1>2. CASE Current(n)
  <2> DEFINE t == <<n[1], statePtrMap[n[1]], n[1] \in whole>>
  <2>1. n[1] \in Addrs /\ t \in truth'
    BY <1>2, SettleFacts DEF Note, Current
  <2>2. t[1] = n[1] /\ Below(n[2], t[2])
    BY <1>2 DEF Current
  <2>3. QED
    BY <2>1, <2>2 DEF Sound
<1>3. QED
  BY <1>1, <1>2

-----------------------------------------------------------------------------
\* The invariant holds at the start.
LEMMA CommitInitIInv == CommitInit => CommitIInv
<1> SUFFICES ASSUME CommitInit  PROVE CommitIInv
  OBVIOUS
<1>1. IInv
  BY InitIInv DEF CommitInit
<1>2. CommitTypeOK
  <2>1. slotStart \in 0 .. SHADOW_WINDOW
    BY CommitAssumption DEF CommitInit
  <2>2. reported \in BOOLEAN /\ cut \in BOOLEAN
    BY Zenon DEF CommitInit
  <2>3. QED
    BY <1>1, <2>1, <2>2 DEF CommitInit, CommitTypeOK, IInv
<1>3. CutInv
  BY DEF CommitInit, Init, CutInv
<1>4. QED
  BY <1>1, <1>2, <1>3 DEF CommitInit, CommitIInv, Running, NotesInv, WholeInv,
                          NothingInvented, WholeIterationsReported

\* A step that leaves the report and the truth alone keeps what is said of them.
LEMMA ReportFrame ==
  ASSUME CommitIInv, final' = final, truth' = truth, track' = track
  PROVE  NothingInvented' /\ WholeIterationsReported'
BY DEF CommitIInv, NothingInvented, WholeIterationsReported, Tracked

\* Notes stay justified while the classes rise.
LEMMA NotesRise ==
  ASSUME CommitTypeOK, TypeOK', NotesInv, Next, truth' = truth,
         \A p \in Addrs : statePtrMap[p] # NoClass => statePtrMap'[p] # NoClass
  PROVE  \A n \in info \cup executed : Sound(n)' \/ Current(n)'
<1> SUFFICES ASSUME NEW n \in info \cup executed  PROVE Sound(n)' \/ Current(n)'
  OBVIOUS
<1>1. CASE Sound(n)
  BY <1>1 DEF Sound
<1>2. CASE Current(n)
  <2>1. n[1] \in Addrs /\ n[2] \in Classes
    BY DEF CommitTypeOK, Note
  <2>2. statePtrMap[n[1]] # NoClass /\ statePtrMap'[n[1]] # NoClass
    BY <1>2, <2>1 DEF Current
  <2>3. Below(statePtrMap[n[1]], statePtrMap'[n[1]])
    BY <2>1, <2>2, NextRises DEF Below, CommitTypeOK
  <2>4. statePtrMap[n[1]] \in Classes /\ statePtrMap'[n[1]] \in Classes
    BY <2>1, <2>2 DEF CommitTypeOK, TypeOK
  <2>5. Below(n[2], statePtrMap'[n[1]])
    BY <1>2, <2>1, <2>3, <2>4, BelowTransitive DEF Current
  <2>6. QED
    BY <2>2, <2>5 DEF Current
<1>3. QED
  BY <1>1, <1>2 DEF NotesInv

\* Entering the ROI ships an entry and touches nothing yet.
LEMMA CGetStateIInv ==
  ASSUME CommitIInv, CGetState
  PROVE  CommitIInv'
<1>1. ~reported /\ ~reported' /\ Running
  BY DEF CGetState, Ship, CommitIInv
<1>2. TypeOK' /\ IInv'
  BY <1>1, NextTypes, NextIInv DEF CGetState, Next, Running, IInv
<1>3. CommitTypeOK'
  <2>1. slotStart' \in 0 .. SHADOW_WINDOW
    BY CommitAssumption DEF CGetState, Ship, CommitTypeOK, CommitIInv
  <2>2. reported' \in BOOLEAN /\ cut' \in BOOLEAN
    BY Zenon DEF CGetState, CommitTypeOK, CommitIInv
  <2>3. QED
    BY <1>2, <2>1, <2>2 DEF CGetState, CommitTypeOK, CommitIInv, noteVars
<1>4. statePtrMap' = statePtrMap /\ truth' = truth
  BY DEF CGetState, GetState
<1>5. NotesInv'
  BY <1>1, <1>4 DEF CGetState, Running, NotesInv, Sound, Current, noteVars
<1>6. CutInv'
  <2>1. \A p \in Addrs : p \notin loads /\ p \notin stores
    BY <1>1 DEF Running, IInv, AddrInv, FilterInv, CGetState, GetState
  <2>2. loads' = {} /\ stores' = {}
    BY <2>1 DEF CGetState, GetState, filter, CommitIInv, CommitTypeOK, TypeOK
  <2>3. QED
    BY <2>2 DEF CutInv
<1>7. WholeInv'
  BY <1>1, <1>4 DEF CGetState, Running, WholeInv, Noted, Tracked, noteVars
<1>8. QED
  BY <1>2, <1>3, <1>5, <1>6, <1>7, ReportFrame
     DEF CGetState, CommitIInv, Running, noteVars

\* The class of an address moves only with an access that is in the batch.
LEMMA AccessMoves ==
  ASSUME CommitTypeOK, NEW p \in Addrs, CLoad(p) \/ CStore(p)
  PROVE  /\ \A q \in Addrs : statePtrMap[q] # NoClass => statePtrMap'[q] # NoClass
         /\ \A q \in Addrs : statePtrMap'[q] # statePtrMap[q] => q \in pending'
         /\ \A q \in loads' \cup stores' : q \in loads \cup stores \/ q \in pending'
         /\ pending \subseteq pending' /\ pending' \subseteq Addrs
<1>1. /\ pending \subseteq pending' /\ pending' \subseteq Addrs
      /\ \A q \in loads' \cup stores' : q \in loads \cup stores \/ q \in pending'
  BY DEF CLoad, CStore, CAccess, Load, Store, batchVars, CommitTypeOK
<1>2. CASE \E rw \in RawOps : Classify(p, rw) /\ p \in pending'
  <2>1. PICK rw \in RawOps : Classify(p, rw) /\ p \in pending'
    BY <1>2
  <2>2. \A q \in Addrs : q # p => statePtrMap'[q] = statePtrMap[q]
    BY <2>1 DEF Classify, CommitTypeOK, TypeOK
  <2>3. statePtrMap[p] # NoClass => statePtrMap'[p] # NoClass
    <3> SUFFICES ASSUME statePtrMap[p] # NoClass  PROVE statePtrMap'[p] # NoClass
      OBVIOUS
    <3>1. statePtrMap[p] \in Classes
      BY DEF CommitTypeOK, TypeOK
    <3>2. statePtrMap'[p] = KnownStep(statePtrMap[p], p \in currentPtrIterUpgrades, rw)
      BY <2>1 DEF Classify, CommitTypeOK, TypeOK
    <3>3. QED
      BY <3>1, <3>2, KnownStepType, NoClassIsNoClass
  <2>4. QED
    BY <1>1, <2>1, <2>2, <2>3
<1>3. CASE UNCHANGED statePtrMap
  BY <1>1, <1>3
<1>4. QED
  BY <1>2, <1>3 DEF CLoad, CStore, CAccess, Load, Store, maps, RawOps

\* An access, shipped or filtered, keeps the invariant.
LEMMA CAccessIInv ==
  ASSUME CommitIInv, NEW p \in Addrs, CLoad(p) \/ CStore(p)
  PROVE  CommitIInv'
<1>1. /\ Load(p) \/ Store(p)
      /\ \E b \in BOOLEAN : CAccess(p, b)
  BY DEF CLoad, CStore
<1>2. /\ ~reported /\ ~reported' /\ Running
      /\ UNCHANGED <<track, info, executed, final, cut, whole, truth>>
      /\ slotStart' \in 0 .. SHADOW_WINDOW
  BY <1>1, CommitAssumption DEF CAccess, Ship, CommitIInv, CommitTypeOK, noteVars, batchVars
<1>3. Next /\ TypeOK' /\ IInv'
  BY <1>1, <1>2, NextTypes, NextIInv DEF Next, Running, IInv
<1>4. CommitTypeOK
  BY DEF CommitIInv
<1>5. CommitTypeOK'
  <2>1. pending' \subseteq Addrs
    BY <1>4, AccessMoves
  <2>2. reported' = reported
    BY <1>1, Zenon DEF CAccess
  <2>3. QED
    BY <1>2, <1>3, <1>4, <2>1, <2>2 DEF CommitTypeOK
<1>6. NotesInv'
  BY <1>2, <1>3, <1>4, AccessMoves, NotesRise DEF Running, NotesInv
<1>7. CutInv'
  <2>1. inROI
    BY <1>1 DEF Load, Store, Performed
  <2>2. QED
    BY <1>2, <1>4, <2>1, AccessMoves DEF Running, CutInv
<1>8. WholeInv'
  <2> SUFFICES ASSUME NEW q \in whole
               PROVE  statePtrMap'[q] # NoClass /\ Noted(q)'
    BY <1>2 DEF WholeInv
  <2>1. q \in Addrs /\ statePtrMap[q] # NoClass /\ Noted(q)
    BY <1>2, <1>4 DEF Running, WholeInv, CommitTypeOK
  <2>2. statePtrMap'[q] # NoClass
    BY <1>4, <2>1, AccessMoves
  <2>3. CASE q \in pending'
    BY <2>2, <2>3 DEF Noted
  <2>4. CASE q \notin pending'
    <3>1. statePtrMap'[q] = statePtrMap[q] /\ q \notin pending
      BY <1>4, <2>1, <2>4, AccessMoves
    <3>2. QED
      BY <1>2, <2>1, <2>2, <3>1 DEF Noted, Tracked
  <2>5. QED
    BY <2>3, <2>4
<1>9. QED
  BY <1>2, <1>3, <1>5, <1>6, <1>7, <1>8, ReportFrame DEF CommitIInv, Running

\* Leaving the ROI: what a whole iteration touched is still in the batch.
LEMMA CEndStateIInv ==
  ASSUME CommitIInv, CEndState
  PROVE  CommitIInv'
<1>1. /\ ~reported /\ ~reported' /\ Running
      /\ UNCHANGED <<track, pending, info, executed, final, cut, truth>>
      /\ slotStart' \in 0 .. SHADOW_WINDOW
  BY CommitAssumption DEF CEndState, Ship, CommitIInv, CommitTypeOK, noteVars
<1>2. Next /\ TypeOK' /\ IInv'
  BY <1>1, NextTypes, NextIInv DEF CEndState, Next, Running, IInv
<1>3. CommitTypeOK /\ IInv /\ inROI /\ ~inROI'
  BY <1>1 DEF CommitIInv, Running, CEndState, EndState
<1>4. CommitTypeOK'
  BY <1>1, <1>2, <1>3 DEF CommitTypeOK, CEndState
<1>5. \A q \in Addrs : statePtrMap[q] # NoClass => statePtrMap'[q] = statePtrMap[q]
  BY DEF CEndState, EndState
<1>6. NotesInv'
  BY <1>1, <1>2, <1>3, <1>5, NotesRise DEF Running, NotesInv
<1>7. CutInv'
  BY <1>3 DEF CutInv
<1>8. WholeInv'
  <2> SUFFICES ASSUME NEW q \in whole'
               PROVE  statePtrMap'[q] # NoClass /\ Noted(q)'
    BY DEF WholeInv
  <2>1. CASE q \in whole
    <3>1. q \in Addrs /\ statePtrMap[q] # NoClass /\ Noted(q)
      BY <1>1, <1>3, <2>1 DEF Running, WholeInv, CommitTypeOK
    <3>2. QED
      BY <1>1, <1>5, <3>1 DEF Noted, Tracked
  <2>2. CASE q \notin whole
    <3>1. ~cut /\ q \in Addrs /\ \E e \in hist[q] : e.it = iter
      BY <2>2 DEF CEndState
    <3>2. hist[q] \in SUBSET Event /\ FilterInv(q)
      BY <1>3, <3>1 DEF IInv, TypeOK, AddrInv
    <3>3. q \in loads \cup stores
      BY <1>3, <3>1, <3>2 DEF FilterInv, Event, RawOps
    <3>4. q \in pending'
      BY <1>1, <1>3, <3>1, <3>3 DEF Running, CutInv
    <3>5. hist'[q] # {}
      BY <3>1 DEF CEndState, EndState
    <3>6. KnownInv(q)'
      BY <1>2, <3>1 DEF IInv, AddrInv
    <3>7. statePtrMap'[q] # NoClass
      BY <1>3, <3>5, <3>6 DEF KnownInv
    <3>8. QED
      BY <3>4, <3>7 DEF Noted
  <2>3. QED
    BY <2>1, <2>2
<1>9. QED
  BY <1>1, <1>2, <1>4, <1>6, <1>7, <1>8, ReportFrame DEF CommitIInv, Running

\* A pushed batch turns the addresses in it into notes.
LEMMA FlushIInv ==
  ASSUME CommitIInv, Flush
  PROVE  CommitIInv'
<1>1. CommitTypeOK /\ UNCHANGED <<vars, track, final, reported, whole, truth>>
  BY DEF CommitIInv, Flush
<1>2. UNCHANGED vars
  BY <1>1
<1>3. TypeOK'
  BY <1>1, <1>2, NextTypes DEF CommitTypeOK
<1>4. CommitTypeOK'
  BY <1>1, <1>3, NotesFacts, CommitAssumption DEF CommitTypeOK, Flush, TypeOK
<1>5. ASSUME ~reported  PROVE Running'
  <2>1. Running
    BY <1>5 DEF CommitIInv
  <2>2. IInv'
    BY <1>2, <1>3, <2>1, NextIInv DEF Running
  <2>3. statePtrMap' = statePtrMap
    BY <1>2 DEF vars
  <2>4. NotesInv'
    BY <1>1, <2>1, <2>3, NotesFacts DEF Running, NotesInv, Sound, Current, Flush
  <2>5. CutInv'
    BY <1>2 DEF CutInv, Flush, vars
  <2>6. WholeInv'
    <3> SUFFICES ASSUME NEW q \in whole
                 PROVE  statePtrMap'[q] # NoClass /\ Noted(q)'
      BY <1>1 DEF WholeInv
    <3>1. q \in Addrs /\ statePtrMap[q] # NoClass /\ Noted(q)
      BY <1>1, <2>1 DEF Running, WholeInv, CommitTypeOK
    <3>2. QED
      BY <1>1, <2>3, <3>1, NotesFacts DEF Noted, Tracked, Flush
  <2>7. QED
    BY <2>2, <2>4, <2>5, <2>6 DEF Running
<1>6. QED
  BY <1>1, <1>4, <1>5, ReportFrame DEF CommitIInv

-----------------------------------------------------------------------------
\* What a commit puts into the Final sets: every note is justified, and every
\* address of a whole iteration is there with its class.
LEMMA SettleReport ==
  ASSUME CommitIInv, ~reported, ~inROI, Settle, track' = track,
         info \cup Notes \subseteq final', final \subseteq final',
         final' \subseteq final \cup info \cup Notes \cup executed
  PROVE  /\ NothingInvented' /\ WholeIterationsReported'
         /\ final' \subseteq Note
         /\ \A n \in executed \cup Notes : Sound(n)'
<1>1. CommitTypeOK /\ IInv /\ NotesInv /\ WholeInv
  BY DEF CommitIInv, Running
<1>2. final' \subseteq Note /\ executed \cup Notes \subseteq Note /\ info \subseteq Note
  BY <1>1, NotesFacts DEF CommitTypeOK
<1>3. \A n \in info \cup Notes \cup executed : Sound(n)'
  BY <1>1, <1>2, SettleSound, NotesFacts DEF NotesInv
<1>4. \A n \in final : Sound(n)
  BY DEF CommitIInv, NothingInvented, Sound, Below
<1>5. \A n \in final : Sound(n)'
  BY <1>1, <1>4, SettleFacts DEF Sound
<1>6. NothingInvented'
  BY <1>3, <1>5 DEF NothingInvented, Sound, Below
<1>7. WholeIterationsReported'
  <2> SUFFICES ASSUME NEW t \in truth', t[3], Tracked(t[2])
               PROVE  <<t[1], t[2]>> \in final'
    BY DEF WholeIterationsReported, Tracked
  <2>1. CASE t \in truth
    BY <2>1 DEF CommitIInv, WholeIterationsReported
  <2>2. CASE t \notin truth
    <3>1. PICK p \in Addrs : /\ statePtrMap[p] # NoClass
                             /\ t = <<p, statePtrMap[p], p \in whole>>
      BY <1>1, <2>2, SettleFacts
    <3>2. p \in whole /\ Tracked(statePtrMap[p])
      BY <3>1
    <3>3. <<p, statePtrMap[p]>> \in info \cup Notes
      BY <1>1, <3>1, <3>2, NotesFacts DEF WholeInv, Noted
    <3>4. <<t[1], t[2]>> = <<p, statePtrMap[p]>>
      BY <3>1
    <3>5. QED
      BY <3>3, <3>4
  <2>3. QED
    BY <2>1, <2>2
<1>8. QED
  BY <1>2, <1>3, <1>6, <1>7

\* The end of an invocation commits every note; an entry executed again after
\* it is one that an earlier commit, or this one, has justified.
LEMMA CEndStateInvocationIInv ==
  ASSUME CommitIInv, CEndStateInvocation
  PROVE  CommitIInv'
<1>1. /\ ~reported /\ ~reported' /\ ~inROI /\ ~inROI' /\ Running /\ Settle
      /\ EndStateInvocation
      /\ final' = final \cup info \cup Notes
      /\ info' \subseteq executed
      /\ executed' = executed \cup Notes
      /\ UNCHANGED <<track, cut>>
      /\ slotStart' = 0 /\ pending' = {} /\ whole' = {}
  BY ReplayFacts DEF CEndStateInvocation, EndStateInvocation, CommitIInv
<1>2. TypeOK' /\ IInv'
  BY <1>1, NextTypes, NextIInv DEF Next, Running, IInv
<1>3. CommitTypeOK /\ IInv
  BY <1>1 DEF CommitIInv, Running
<1>4. /\ NothingInvented' /\ WholeIterationsReported'
      /\ final' \subseteq Note
      /\ \A n \in executed \cup Notes : Sound(n)'
  BY <1>1, SettleReport
<1>5. truth' \subseteq Addrs \X Classes \X BOOLEAN
  BY <1>1, <1>3, SettleFacts
<1>6. CommitTypeOK'
  <2>1. executed' \subseteq Note /\ info' \subseteq Note
    BY <1>1, <1>3, NotesFacts DEF CommitTypeOK
  <2>2. slotStart' \in 0 .. SHADOW_WINDOW
    BY <1>1, CommitAssumption
  <2>3. reported' \in BOOLEAN /\ cut' \in BOOLEAN
    BY <1>3, Zenon DEF CommitTypeOK, CEndStateInvocation
  <2>4. QED
    BY <1>1, <1>2, <1>3, <1>4, <1>5, <2>1, <2>2, <2>3 DEF CommitTypeOK
<1>7. NotesInv' /\ CutInv' /\ WholeInv'
  BY <1>1, <1>4 DEF NotesInv, CutInv, WholeInv
<1>8. QED
  BY <1>2, <1>4, <1>6, <1>7 DEF CommitIInv, Running

\* The report commits the last batch, and what it executes again.
LEMMA ReportStatisticsIInv ==
  ASSUME CommitIInv, ReportStatistics
  PROVE  CommitIInv'
<1>1. /\ ~reported /\ reported' /\ ~inROI /\ Running /\ Settle
      /\ EndStateInvocation
      /\ info' = {}
      /\ executed' = executed \cup Notes
      /\ UNCHANGED <<track, cut, whole>>
      /\ slotStart' = 0 /\ pending' = {}
  BY DEF ReportStatistics, EndStateInvocation, CommitIInv
<1>2. /\ info \cup Notes \subseteq final' /\ final \subseteq final'
      /\ final' \subseteq final \cup info \cup Notes \cup executed
  BY ReplayFacts DEF ReportStatistics
<1>3. CommitTypeOK /\ IInv
  BY <1>1 DEF CommitIInv, Running
<1>4. TypeOK'
  BY <1>1, <1>3, NextTypes DEF CommitTypeOK, Next
<1>5. /\ NothingInvented' /\ WholeIterationsReported'
      /\ final' \subseteq Note
  BY <1>1, <1>2, SettleReport
<1>6. truth' \subseteq Addrs \X Classes \X BOOLEAN
  BY <1>1, <1>3, SettleFacts
<1>7. CommitTypeOK'
  BY <1>1, <1>3, <1>4, <1>5, <1>6, NotesFacts, CommitAssumption DEF CommitTypeOK
<1>8. QED
  BY <1>1, <1>5, <1>7 DEF CommitIInv

\* A step that changes nothing keeps the invariant.
LEMMA CommitStutter ==
  ASSUME CommitIInv, UNCHANGED allVars
  PROVE  CommitIInv'
<1>1. /\ UNCHANGED vars
      /\ UNCHANGED <<track, slotStart, pending, info, executed, final, reported,
                     cut, whole, truth>>
  BY DEF allVars, commitVars, batchVars, noteVars
<1>2. TypeOK'
  BY <1>1, NextTypes DEF CommitIInv, CommitTypeOK
<1>3. CommitTypeOK'
  BY <1>1, <1>2 DEF CommitIInv, CommitTypeOK
<1>4. ASSUME ~reported  PROVE Running'
  <2>1. Running
    BY <1>4 DEF CommitIInv
  <2>2. IInv'
    BY <1>1, <1>2, <2>1, NextIInv DEF Running
  <2>3. statePtrMap' = statePtrMap /\ loads' = loads /\ stores' = stores /\ inROI' = inROI
    BY <1>1 DEF vars
  <2>4. QED
    BY <1>1, <2>1, <2>2, <2>3 DEF Running, NotesInv, Sound, Current, CutInv,
                                  WholeInv, Noted, Tracked
<1>5. QED
  BY <1>1, <1>3, <1>4, ReportFrame DEF CommitIInv

\* A step of the specification keeps the invariant.
LEMMA CommitNextIInv == CommitIInv /\ [CommitNext]_allVars => CommitIInv'
<1> SUFFICES ASSUME CommitIInv, [CommitNext]_allVars  PROVE CommitIInv'
  OBVIOUS
<1>1. CASE CGetState
  BY <1>1, CGetStateIInv
<1>2. ASSUME NEW p \in Addrs, CLoad(p) \/ CStore(p)  PROVE CommitIInv'
  BY <1>2, CAccessIInv
<1>3. CASE CEndState
  BY <1>3, CEndStateIInv
<1>4. CASE Flush
  BY <1>4, FlushIInv
<1>5. CASE CEndStateInvocation
  BY <1>5, CEndStateInvocationIInv
<1>6. CASE ReportStatistics
  BY <1>6, ReportStatisticsIInv
<1>7. CASE UNCHANGED allVars
  BY <1>7, CommitStutter
<1>8. QED
  BY <1>1, <1>2, <1>3, <1>4, <1>5, <1>6, <1>7 DEF CommitNext, Terminated

\* The invariant holds in every reachable state.
THEOREM CommitIInvHolds == CommitSpec => []CommitIInv
BY CommitInitIInv, CommitNextIInv, PTL DEF CommitSpec

\* Every note of an allocation and every entry of a Final set is an address
\* with a class.
THEOREM CommitTypeCorrect == CommitSpec => []CommitTypeOK
<1>1. CommitIInv => CommitTypeOK
  BY DEF CommitIInv
<1>2. QED
  BY <1>1, CommitIInvHolds, PTL

\* Whatever the batch length, an address that a whole iteration touched is in
\* the Final set of its class after the commit (cleanBatch, CommitState).
THEOREM UpgradesReported == CommitSpec => []WholeIterationsReported
<1>1. CommitIInv => WholeIterationsReported
  BY DEF CommitIInv
<1>2. QED
  BY <1>1, CommitIInvHolds, PTL

\* The Final sets hold nothing that no invocation did, the entries that
\* processShadowBatch executes again included.
THEOREM ReportInventsNothing == CommitSpec => []NothingInvented
<1>1. CommitIInv => NothingInvented
  BY DEF CommitIInv
<1>2. QED
  BY <1>1, CommitIInvHolds, PTL

\* The batches and commits change nothing about the classes: SpoorCommit is
\* SpoorFSA with the report added, every step of it a step of the automaton or
\* none, and what is proved of the classes there holds here.
THEOREM CommitImplementsFSA == CommitSpec => Spec
<1>1. CommitInit => Init
  BY DEF CommitInit
<1>2. [CommitNext]_allVars => [Next]_vars
  <2> SUFFICES ASSUME [CommitNext]_allVars  PROVE [Next]_vars
    OBVIOUS
  <2>1. CASE CGetState
    BY <2>1 DEF CGetState, Next
  <2>2. ASSUME NEW p \in Addrs, CLoad(p) \/ CStore(p)  PROVE Next
    BY <2>2 DEF CLoad, CStore, Next
  <2>3. CASE CEndState
    BY <2>3 DEF CEndState, Next
  <2>4. CASE Flush
    BY <2>4 DEF Flush
  <2>5. CASE CEndStateInvocation \/ ReportStatistics
    BY <2>5 DEF CEndStateInvocation, ReportStatistics, Next
  <2>6. CASE UNCHANGED allVars
    BY <2>6 DEF allVars
  <2>7. QED
    BY <2>1, <2>2, <2>3, <2>4, <2>5, <2>6 DEF CommitNext, Terminated
<1>3. QED
  BY <1>1, <1>2, PTL DEF CommitSpec, Spec

\* The class of an address is the one its history calls for, whatever batches
\* and commits do in between.
THEOREM ClassesCorrect == CommitSpec => []ClassIsReference
BY CommitImplementsFSA, ClassificationCorrect, PTL

\* No step of the batches or commits lowers a class, either.
THEOREM ClassesStayUp == CommitSpec => ClassOnlyRises
BY CommitImplementsFSA, ClassesRise, PTL

=============================================================================
