------------------------ MODULE RegionTrackingProofs ------------------------
(***************************************************************************)
(* Proof that the shadow thread charges every access to the right ROI, and *)
(* that no access of an outermost ROI is lost and none charged to a ROI    *)
(* that did not make it, for any ROIs, addresses and bounds, if the        *)
(* nesting of the ROIs is static; and that the two threads agree on the    *)
(* active ROI whatever the nesting.                                        *)
(*                                                                         *)
(* The argument follows the entries: each of them was shipped in some ROI  *)
(* (roi) and leaves the program in some ROI (After), and in the stream     *)
(* each is shipped where the one before it left off.  The stream starts at *)
(* the shadow's batchState and ends at the program's activeState, which is *)
(* the innermost open ROI because the parent that a State remembers is, by *)
(* StaticNesting, the ROI below it on the stack.                           *)
(***************************************************************************)
EXTENDS RegionTracking, SequenceTheorems, TLAPS

\* The ROI that is active after an entry.
After(e, par) ==
    IF e.op = "BEGIN" THEN e.state
    ELSE IF e.op = "END" THEN par[e.state] ELSE e.roi

\* Entries q lead from one ROI to another.
Chain(q, par, from, to) ==
    /\ q = <<>> => from = to
    /\ q # <<>> => q[1].roi = from /\ After(q[Len(q)], par) = to
    /\ \A i \in 1 .. Len(q) - 1 : q[i + 1].roi = After(q[i], par)

\* States in the stream have been created.
StreamStates ==
    \A i \in 1 .. Len(stream) : stream[i].op # "ACCESS" => stream[i].state \in stateMap

\* A State remembers an enclosing ROI.
ParentsEnclose == \A s \in stateMap : <<parent[s], s>> \in Encloses

Below(i) == IF i = 1 THEN NoState ELSE open[i - 1]

\* The open ROIs have States, and each was entered from the one below.
OpenNested ==
    \A i \in 1 .. Len(open) : open[i] \in stateMap /\ <<Below(i), open[i]>> \in Encloses

IInv ==
    /\ TypeOK
    /\ ParentsEnclose
    /\ OpenNested
    /\ StreamStates
    /\ activeState = Innermost(open)
    /\ Chain(stream, parent, batchState, activeState)

-----------------------------------------------------------------------------
\* A shipped entry prolongs the chain from the ROI where it ended.
LEMMA ChainAppend ==
    ASSUME NEW q \in Seq(Entry), NEW par, NEW from, NEW to,
           NEW e \in Entry, Chain(q, par, from, to), e.roi = to
    PROVE  Chain(Append(q, e), par, from, After(e, par))
<1> DEFINE r == Append(q, e)
<1>1. r # <<>> /\ Len(r) = Len(q) + 1 /\ r[Len(r)] = e /\ Len(q) \in Nat
  OBVIOUS
<1>2. \A i \in 1 .. Len(q) : r[i] = q[i]
  OBVIOUS
<1>3. r[1].roi = from
  <2>1. CASE q = <<>>
    BY <1>1, <2>1 DEF Chain
  <2>2. CASE q # <<>>
    BY <1>2, <2>2 DEF Chain
  <2> QED BY <2>1, <2>2
<1>4. ASSUME NEW i \in 1 .. Len(r) - 1
      PROVE  r[i + 1].roi = After(r[i], par)
  <2>1. CASE i = Len(q)
    <3>1. q # <<>> /\ r[i] = q[Len(q)] /\ r[i + 1] = e
      BY <1>1, <1>2, <1>4, <2>1
    <3> QED BY <3>1 DEF Chain
  <2>2. CASE i # Len(q)
    <3>1. i \in 1 .. Len(q) - 1 /\ r[i] = q[i] /\ r[i + 1] = q[i + 1]
      BY <1>1, <1>2, <1>4, <2>2
    <3> QED BY <3>1 DEF Chain
  <2> QED BY <2>1, <2>2
<1> HIDE DEF r
<1>5. Chain(r, par, from, After(e, par))
  BY <1>1, <1>3, <1>4 DEF Chain
<1> QED BY <1>5 DEF r

\* Cleaning the first entry moves the start of the chain.
LEMMA ChainTail ==
    ASSUME NEW q \in Seq(Entry), NEW par, NEW from, NEW to,
           Chain(q, par, from, to), q # <<>>
    PROVE  Head(q).roi = from /\ Chain(Tail(q), par, After(Head(q), par), to)
<1> DEFINE r == Tail(q)
<1>1. Len(r) = Len(q) - 1 /\ Head(q) = q[1] /\ Len(q) \in Nat \ {0} /\ r \in Seq(Entry)
  OBVIOUS
<1>2. \A i \in 1 .. Len(r) : r[i] = q[i + 1]
  OBVIOUS
<1>3. Head(q).roi = from
  BY <1>1 DEF Chain
<1>4. r = <<>> => After(Head(q), par) = to
  <2> HIDE DEF r
  <2>1. r = <<>> => Len(r) = 0
    OBVIOUS
  <2>2. Len(r) = 0 => Len(q) = 1
    BY <1>1
  <2> QED BY <2>1, <2>2, <1>1 DEF Chain
<1>5. r # <<>> => r[1].roi = After(Head(q), par) /\ After(r[Len(r)], par) = to
  <2> SUFFICES ASSUME r # <<>>
               PROVE  r[1].roi = After(Head(q), par) /\ After(r[Len(r)], par) = to
    OBVIOUS
  <2>1. Len(q) > 1 /\ Len(r) \in 1 .. Len(r) /\ 1 \in 1 .. Len(r)
    BY <1>1
  <2>2. r[1] = q[2] /\ r[Len(r)] = q[Len(q)] /\ 1 \in 1 .. Len(q) - 1
    BY <1>1, <1>2, <2>1
  <2> QED BY <1>1, <2>2 DEF Chain
<1>6. ASSUME NEW i \in 1 .. Len(r) - 1
      PROVE  r[i + 1].roi = After(r[i], par)
  <2>1. r[i] = q[i + 1] /\ r[i + 1] = q[i + 1 + 1] /\ i + 1 \in 1 .. Len(q) - 1
    BY <1>1, <1>2, <1>6
  <2> QED BY <2>1 DEF Chain
<1> HIDE DEF r
<1>7. Chain(r, par, After(Head(q), par), to)
  BY <1>4, <1>5, <1>6 DEF Chain
<1> QED BY <1>3, <1>7 DEF r

\* A new State changes the parent of no entry that is in the stream.
LEMMA ChainParent ==
    ASSUME NEW q \in Seq(Entry), NEW par, NEW par2, NEW from, NEW to,
           Chain(q, par, from, to),
           \A i \in 1 .. Len(q) : q[i].op # "ACCESS" => par2[q[i].state] = par[q[i].state]
    PROVE  Chain(q, par2, from, to)
<1>1. \A i \in 1 .. Len(q) : After(q[i], par2) = After(q[i], par)
  BY DEF After
<1>2. Len(q) \in Nat /\ (q # <<>> => Len(q) \in 1 .. Len(q))
  OBVIOUS
<1>3. q # <<>> => After(q[Len(q)], par2) = to
  BY <1>1, <1>2 DEF Chain
<1>4. \A i \in 1 .. Len(q) - 1 : q[i + 1].roi = After(q[i], par2)
  BY <1>1, <1>2 DEF Chain
<1> QED BY <1>3, <1>4 DEF Chain

-----------------------------------------------------------------------------
\* The type invariant, action by action.
LEMMA TypeInit == Init => TypeOK
<1> SUFFICES ASSUME Init PROVE TypeOK
  OBVIOUS
<1>1. <<>> \in Seq(Regions) /\ <<>> \in Seq(Entry)
  OBVIOUS
<1> QED BY <1>1, RegionsAssumption DEF Init, TypeOK, RegionOrNone

\* Where the program is.
LEMMA InnermostType ==
    ASSUME NEW q \in Seq(Regions)
    PROVE  Innermost(q) \in RegionOrNone
BY DEF Innermost, RegionOrNone

\* What is shipped is an entry.
LEMMA ShipType ==
    ASSUME TypeOK, NEW op, NEW s, NEW p, Ship(op, s, p),
           \/ op \in {"BEGIN", "END", "COMMIT"} /\ s \in Regions /\ p = NoState
           \/ op = "ACCESS" /\ s = NoState /\ p \in Addrs
    PROVE  /\ [op |-> op, state |-> s, ptr |-> p, roi |-> Innermost(open)] \in Entry
           /\ stream' \in Seq(Entry)
<1>1. Innermost(open) \in RegionOrNone
  BY InnermostType DEF TypeOK
<1>2. [op |-> op, state |-> s, ptr |-> p, roi |-> Innermost(open)] \in Entry
  BY <1>1 DEF Entry
<1> QED BY <1>2 DEF Ship, TypeOK

\* A step of the specification keeps the types.
LEMMA TypeStep == TypeOK /\ [Next]_vars => TypeOK'
<1> SUFFICES ASSUME TypeOK, [Next]_vars PROVE TypeOK'
  OBVIOUS
<1> USE RegionsAssumption
<1>0. ASSUME Call PROVE calls' \in 0 .. MaxCalls
  BY <1>0 DEF Call, TypeOK
<1>1. ASSUME NEW s \in Regions, GetState(s) PROVE TypeOK'
  <2>1. stream' \in Seq(Entry)
    BY <1>1, ShipType DEF GetState
  <2>2. open' \in Seq(Regions)
    BY <1>1 DEF GetState, TypeOK
  <2>3. parent' \in [Regions -> RegionOrNone]
    BY <1>1 DEF GetState, TypeOK
  <2> QED BY <1>0, <1>1, <2>1, <2>2, <2>3 DEF GetState, Call, TypeOK, shadow, past, RegionOrNone
<1>2. ASSUME EndState PROVE TypeOK'
  <2>1. open' \in Seq(Regions)
    BY <1>2 DEF EndState, Leave, TypeOK
  <2>2. CASE activeState # NoState
    <3>1. activeState \in Regions
      BY <2>2 DEF TypeOK, RegionOrNone
    <3>2. stream' \in Seq(Entry)
      BY <1>2, <2>2, <3>1, ShipType DEF EndState
    <3>3. activeState' \in RegionOrNone
      BY <1>2, <2>2, <3>1 DEF EndState, TypeOK
    <3> QED BY <1>0, <1>2, <2>1, <3>2, <3>3 DEF EndState, Call, TypeOK, shadow, past
  <2>3. CASE activeState = NoState
    BY <1>0, <1>2, <2>1, <2>3 DEF EndState, Call, TypeOK, shadow, past
  <2> QED BY <2>2, <2>3
<1>3. ASSUME NEW p \in Addrs, Performed(p)
      PROVE  touched' \in [Regions -> SUBSET Addrs]
  BY <1>3 DEF Performed, TypeOK
<1>4. ASSUME NEW p \in Addrs, Load(p) PROVE TypeOK'
  <2>1. stream' \in Seq(Entry) /\ loads' \subseteq Addrs
    <3>1. CASE activeState # NoState /\ p \notin loads
      BY <1>4, <3>1, ShipType DEF Load, TypeOK
    <3>2. CASE ~(activeState # NoState /\ p \notin loads)
      BY <1>4, <3>2 DEF Load, TypeOK
    <3> QED BY <3>1, <3>2
  <2> QED BY <1>0, <1>3, <1>4, <2>1 DEF Load, Call, TypeOK, shadow, past
<1>5. ASSUME NEW p \in Addrs, Store(p) PROVE TypeOK'
  <2>1. stream' \in Seq(Entry) /\ stores' \subseteq Addrs
    <3>1. CASE activeState # NoState /\ p \notin stores
      BY <1>5, <3>1, ShipType DEF Store, TypeOK
    <3>2. CASE ~(activeState # NoState /\ p \notin stores)
      BY <1>5, <3>2 DEF Store, TypeOK
    <3> QED BY <3>1, <3>2
  <2> QED BY <1>0, <1>3, <1>5, <2>1 DEF Store, Call, TypeOK, shadow, past
<1>6. ASSUME NEW s \in Regions, EndStateInvocation(s) PROVE TypeOK'
  <2>1. stream' \in Seq(Entry)
    BY <1>6, ShipType DEF EndStateInvocation
  <2>2. touched' \in [Regions -> SUBSET Addrs]
    BY <1>6 DEF EndStateInvocation, TypeOK
  <2> QED BY <1>0, <1>6, <2>1, <2>2 DEF EndStateInvocation, Call, TypeOK, shadow, past, main
<1>7. ASSUME Clean PROVE TypeOK'
  <2>1. stream' \in Seq(Entry) /\ Head(stream) \in Entry
    BY <1>7 DEF Clean, TypeOK
  <2> DEFINE e == Head(stream)
  <2>2. e \in Entry
    BY <2>1
  <2> HIDE DEF e
  <2>3. CASE Begin(e)
    <3>1. e.state \in Regions
      BY <2>2, <2>3 DEF Begin, Entry
    <3> QED BY <1>7, <2>1, <2>3, <3>1 DEF Begin, Clean, TypeOK, program, main, past, RegionOrNone
  <2>4. CASE End(e)
    <3>1. e.state \in Regions
      BY <2>2, <2>4 DEF End, Entry
    <3> QED BY <1>7, <2>1, <2>4, <3>1 DEF End, Clean, TypeOK, program, main, past
  <2>5. CASE Access(e)
    <3>1. e.ptr \in Addrs
      BY <2>2, <2>5 DEF Access, Entry
    <3> QED BY <1>7, <2>1, <2>5, <3>1 DEF Access, Clean, TypeOK, program, main, past
  <2>6. CASE Commit(e)
    <3>1. e.state \in Regions
      BY <2>2, <2>6 DEF Commit, Entry
    <3>2. /\ known' \in [Regions -> SUBSET Addrs] /\ fresh' \in [Regions -> SUBSET Addrs]
          /\ forgotten' \in [Regions -> SUBSET Addrs]
      BY <2>6, <3>1 DEF Commit, Heard, TypeOK
    <3>3. committed' \subseteq Regions /\ batchState' \in RegionOrNone
      BY <2>6, <3>1 DEF Commit, TypeOK
    <3> QED BY <1>7, <2>1, <3>2, <3>3 DEF Clean, TypeOK, program, main
  <2> QED BY <1>7, <2>3, <2>4, <2>5, <2>6 DEF Clean, e
<1>8. CASE UNCHANGED vars
  BY <1>8 DEF vars, program, main, shadow, past, TypeOK
<1> QED BY <1>1, <1>2, <1>4, <1>5, <1>6, <1>7, <1>8 DEF Next

\* Type correctness for any ROIs, addresses and bounds.
THEOREM TypeCorrect == Spec => []TypeOK
<1>1. Init => TypeOK
  BY TypeInit
<1>2. TypeOK /\ [Next]_vars => TypeOK'
  BY TypeStep
<1> QED BY <1>1, <1>2, PTL DEF Spec

-----------------------------------------------------------------------------
\* An action that ships an entry e and leaves the parents of existing States
\* alone keeps the stream's part of the invariant.
LEMMA ShipKeepsChain ==
    ASSUME IInv, NEW op, NEW s, NEW p, Ship(op, s, p),
           [op |-> op, state |-> s, ptr |-> p, roi |-> Innermost(open)] \in Entry,
           op # "ACCESS" => s \in stateMap',
           stateMap \subseteq stateMap',
           \A t \in stateMap : parent'[t] = parent[t],
           UNCHANGED batchState
    PROVE  /\ StreamStates'
           /\ Chain(stream', parent', batchState',
                    After([op |-> op, state |-> s, ptr |-> p,
                           roi |-> Innermost(open)], parent'))
<1> DEFINE e == [op |-> op, state |-> s, ptr |-> p, roi |-> Innermost(open)]
<1>1. stream \in Seq(Entry) /\ e \in Entry /\ stream' = Append(stream, e)
  BY DEF Ship, IInv, TypeOK
<1>2. e.roi = activeState /\ e.op = op /\ e.state = s
  BY DEF IInv
<1> HIDE DEF e
<1>3. Chain(stream, parent', batchState, activeState)
  <2>1. \A i \in 1 .. Len(stream) :
           stream[i].op # "ACCESS" => parent'[stream[i].state] = parent[stream[i].state]
    BY DEF IInv, StreamStates
  <2>2. Chain(stream, parent, batchState, activeState)
    BY DEF IInv
  <2> QED BY <1>1, <2>1, <2>2, ChainParent
<1>4. Chain(stream', parent', batchState', After(e, parent'))
  BY <1>1, <1>2, <1>3, ChainAppend
<1>5. StreamStates'
  <2> SUFFICES ASSUME NEW i \in 1 .. Len(stream'), stream'[i].op # "ACCESS"
               PROVE  stream'[i].state \in stateMap'
    BY DEF StreamStates
  <2>1. CASE i = Len(stream) + 1
    <3>1. stream'[i] = e
      BY <1>1, <2>1
    <3> QED BY <1>2, <3>1
  <2>2. CASE i # Len(stream) + 1
    <3>1. i \in 1 .. Len(stream) /\ stream'[i] = stream[i]
      BY <1>1, <2>2
    <3> QED BY <3>1 DEF IInv, StreamStates
  <2> QED BY <2>1, <2>2
<1> QED BY <1>4, <1>5 DEF e

\* The invariant holds at the start.
LEMMA InvInit == Init => IInv
<1> SUFFICES ASSUME Init PROVE IInv
  OBVIOUS
<1>1. TypeOK
  BY TypeInit
<1>2. ParentsEnclose
  BY DEF Init, ParentsEnclose
<1>3. OpenNested /\ StreamStates
  BY DEF Init, OpenNested, StreamStates
<1>4. activeState = Innermost(open)
  BY DEF Init, Innermost
<1>5. Chain(stream, parent, batchState, activeState)
  BY DEF Init, Chain
<1> QED BY <1>1, <1>2, <1>3, <1>4, <1>5 DEF IInv

\* Leaving a ROI takes the last one off the stack.
LEMMA LeaveProperties ==
    ASSUME NEW q \in Seq(Regions), q # <<>>
    PROVE  /\ Leave(q) \in Seq(Regions)
           /\ Len(Leave(q)) = Len(q) - 1
           /\ \A i \in 1 .. Len(q) - 1 : Leave(q)[i] = q[i]
<1> DEFINE n == Len(q)
<1>1. n \in Nat /\ n >= 1 /\ n = Len(q)
  OBVIOUS
<1>2. Leave(q) = SubSeq(q, 1, n - 1)
  BY DEF Leave
<1> HIDE DEF n
<1>3. n - 1 \in Int /\ \A i \in 1 .. n - 1 : q[i] \in Regions
  BY <1>1
<1>4. SubSeq(q, 1, n - 1) \in Seq(Regions) /\ Len(SubSeq(q, 1, n - 1)) = n - 1
  BY <1>1, <1>3, SubSeqProperties
<1>5. \A i \in 1 .. n - 1 : SubSeq(q, 1, n - 1)[i] = q[i]
  BY <1>1
<1> QED BY <1>1, <1>2, <1>4, <1>5

\* With static nesting, the parent of the innermost ROI's State is the ROI
\* below it on the stack.
LEMMA ParentIsBelow ==
    ASSUME StaticNesting, IInv, open # <<>>
    PROVE  /\ activeState \in stateMap /\ activeState \in Regions
           /\ parent[activeState] = Innermost(Leave(open))
<1> DEFINE n == Len(open)
<1>1. n \in Nat /\ n >= 1 /\ n = Len(open) /\ open \in Seq(Regions)
  BY DEF IInv, TypeOK
<1> HIDE DEF n
<1>2. activeState = open[n] /\ activeState \in Regions
  BY <1>1 DEF IInv, Innermost
<1>3. activeState \in stateMap /\ <<Below(n), activeState>> \in Encloses
  BY <1>1, <1>2 DEF IInv, OpenNested
<1>4. <<parent[activeState], activeState>> \in Encloses
  BY <1>3 DEF IInv, ParentsEnclose
<1>5. Below(n) \in RegionOrNone /\ parent[activeState] \in RegionOrNone
  <2>1. parent[activeState] \in RegionOrNone
    BY <1>2 DEF IInv, TypeOK
  <2>2. CASE n = 1
    BY <2>1, <2>2 DEF Below, RegionOrNone
  <2>3. CASE n # 1
    <3>1. n - 1 \in 1 .. Len(open)
      BY <1>1, <2>3
    <3>2. open[n - 1] \in Regions
      BY <1>1, <3>1
    <3> QED BY <2>1, <2>3, <3>2 DEF Below, RegionOrNone
  <2> QED BY <2>2, <2>3
<1>6. parent[activeState] = Below(n)
  BY <1>2, <1>3, <1>4, <1>5 DEF StaticNesting
<1>7. Innermost(Leave(open)) = Below(n)
  <2> DEFINE r == Leave(open)
  <2>1. r \in Seq(Regions) /\ Len(r) = n - 1
    BY <1>1, LeaveProperties
  <2>2. \A i \in 1 .. n - 1 : r[i] = open[i]
    BY <1>1, LeaveProperties
  <2> HIDE DEF r
  <2>4. CASE n = 1
    <3>1. r = <<>>
      BY <2>1, <2>4
    <3> QED BY <2>4, <3>1 DEF Innermost, Below, r
  <2>5. CASE n # 1
    <3>1. r # <<>> /\ n - 1 \in 1 .. n - 1
      BY <1>1, <2>1, <2>5
    <3>2. Innermost(r) = Below(n)
      BY <2>1, <2>2, <2>5, <3>1 DEF Innermost, Below
    <3> QED BY <3>2 DEF r
  <2> QED BY <2>4, <2>5
<1> QED BY <1>2, <1>3, <1>6, <1>7

\* A step of the specification keeps the invariant.
LEMMA InvStep ==
    ASSUME StaticNesting
    PROVE  IInv /\ [Next]_vars => IInv'
<1> SUFFICES ASSUME IInv, [Next]_vars PROVE IInv'
  OBVIOUS
<1> USE RegionsAssumption
<1>1. TypeOK /\ TypeOK'
  BY TypeStep DEF IInv
<1>2. ASSUME NEW s \in Regions, GetState(s) PROVE IInv'
  <2> DEFINE e == [op |-> "BEGIN", state |-> s, ptr |-> NoState, roi |-> Innermost(open)]
  <2>1. e \in Entry
    BY <1>1, <1>2, ShipType DEF GetState
  <2>2. \A t \in stateMap : parent'[t] = parent[t]
    BY <1>1, <1>2 DEF GetState, TypeOK
  <2>3. s \in stateMap' /\ stateMap \subseteq stateMap' /\ batchState' = batchState
    BY <1>2 DEF GetState, Call, shadow, past
  <2>4. StreamStates' /\ Chain(stream', parent', batchState', After(e, parent'))
    BY <1>2, <2>1, <2>2, <2>3, ShipKeepsChain DEF GetState
  <2>5. After(e, parent') = s /\ activeState' = s
    BY <1>2 DEF After, GetState
  <2>6. <<Innermost(open), s>> \in Encloses /\ activeState = Innermost(open)
    BY <1>2 DEF GetState, IInv
  <2>7. ParentsEnclose'
    <3> SUFFICES ASSUME NEW t \in stateMap' PROVE <<parent'[t], t>> \in Encloses
      BY DEF ParentsEnclose
    <3>1. CASE t \in stateMap
      BY <2>2, <3>1 DEF IInv, ParentsEnclose
    <3>2. CASE t \notin stateMap
      <4>1. t = s /\ parent'[t] = activeState
        BY <1>1, <1>2, <3>2 DEF GetState, TypeOK
      <4> QED BY <2>6, <4>1
    <3> QED BY <3>1, <3>2
  <2>8. OpenNested' /\ Innermost(open') = s
    <3>1. open' = Append(open, s) /\ open \in Seq(Regions) /\ Len(open) \in Nat
      BY <1>1, <1>2 DEF GetState, TypeOK
    <3>2. /\ Len(open') = Len(open) + 1 /\ open'[Len(open) + 1] = s /\ open' # <<>>
          /\ \A i \in 1 .. Len(open) : open'[i] = open[i]
      BY <3>1
    <3>3. Innermost(open') = s
      BY <3>2 DEF Innermost
    <3> SUFFICES ASSUME NEW i \in 1 .. Len(open')
                 PROVE  open'[i] \in stateMap' /\ <<Below(i)', open'[i]>> \in Encloses
      BY <3>3 DEF OpenNested
    <3>4. CASE i = Len(open) + 1
      <4>1. Below(i)' = Innermost(open)
        <5>1. CASE open = <<>>
          BY <3>4, <5>1 DEF Below, Innermost
        <5>2. CASE open # <<>>
          <6>1. Len(open) \in 1 .. Len(open) /\ i # 1 /\ i - 1 = Len(open)
            BY <3>1, <3>4, <5>2
          <6> QED BY <3>2, <5>2, <6>1 DEF Below, Innermost
        <5> QED BY <5>1, <5>2
      <4> QED BY <2>3, <2>6, <3>2, <3>4, <4>1
    <3>5. CASE i # Len(open) + 1
      <4>1. i \in 1 .. Len(open) /\ open'[i] = open[i]
        BY <3>1, <3>2, <3>5
      <4>2. Below(i)' = Below(i)
        <5>1. i # 1 => i - 1 \in 1 .. Len(open)
          BY <3>1, <4>1
        <5> QED BY <3>2, <5>1 DEF Below
      <4> QED BY <2>3, <4>1, <4>2 DEF IInv, OpenNested
    <3> QED BY <3>4, <3>5
  <2> HIDE DEF e
  <2> QED BY <1>1, <2>4, <2>5, <2>7, <2>8 DEF IInv
<1>3. ASSUME EndState PROVE IInv'
  <2>1. UNCHANGED <<stateMap, parent, batchState>>
    BY <1>3 DEF EndState, Call, shadow, past
  <2>2. ParentsEnclose'
    BY <2>1 DEF IInv, ParentsEnclose
  <2>3. CASE open = <<>>
    <3>1. open' = open /\ activeState = NoState
      BY <1>3, <2>3 DEF EndState, Leave, IInv, Innermost
    <3>2. UNCHANGED <<stream, activeState>>
      BY <1>3, <3>1 DEF EndState
    <3>3. OpenNested' /\ StreamStates'
      BY <2>1, <3>1, <3>2 DEF IInv, OpenNested, StreamStates, Below
    <3>4. Chain(stream', parent', batchState', activeState')
      BY <2>1, <3>2 DEF IInv
    <3> QED BY <1>1, <2>2, <3>1, <3>2, <3>3, <3>4 DEF IInv
  <2>4. CASE open # <<>>
    <3> DEFINE e == [op |-> "END", state |-> activeState, ptr |-> NoState,
                     roi |-> Innermost(open)]
    <3>1. activeState \in stateMap /\ activeState \in Regions
          /\ parent[activeState] = Innermost(Leave(open))
      BY <2>4, ParentIsBelow
    <3>2. activeState # NoState
      BY <3>1
    <3>3. Ship("END", activeState, NoState) /\ activeState' = parent[activeState]
          /\ open' = Leave(open)
      BY <1>3, <3>2 DEF EndState
    <3>4. e \in Entry
      BY <1>1, <3>1, <3>3, ShipType
    <3>5. StreamStates' /\ Chain(stream', parent', batchState', After(e, parent'))
      BY <2>1, <3>1, <3>3, <3>4, ShipKeepsChain
    <3>6. After(e, parent') = activeState'
      BY <2>1, <3>3 DEF After
    <3>7. OpenNested'
      <4>1. open \in Seq(Regions) /\ Len(open) \in Nat /\ Len(open) >= 1
        BY <1>1, <2>4 DEF TypeOK
      <4>4. Len(open') = Len(open) - 1
        BY <2>4, <3>3, <4>1, LeaveProperties
      <4>5. \A i \in 1 .. Len(open) - 1 : open'[i] = open[i]
        BY <2>4, <3>3, <4>1, LeaveProperties
      <4> SUFFICES ASSUME NEW i \in 1 .. Len(open')
                   PROVE  open'[i] \in stateMap' /\ <<Below(i)', open'[i]>> \in Encloses
        BY DEF OpenNested
      <4>6. i \in 1 .. Len(open) /\ open'[i] = open[i]
        BY <4>1, <4>4, <4>5
      <4>7. Below(i)' = Below(i)
        <5>1. i # 1 => i - 1 \in 1 .. Len(open) - 1
          BY <4>1, <4>4
        <5> QED BY <4>5, <5>1 DEF Below
      <4> QED BY <2>1, <4>6, <4>7 DEF IInv, OpenNested
    <3> HIDE DEF e
    <3> QED BY <1>1, <2>2, <3>1, <3>3, <3>5, <3>6, <3>7 DEF IInv
  <2> QED BY <2>3, <2>4
<1>4. ASSUME NEW p \in Addrs,
             Ship("ACCESS", NoState, p),
             UNCHANGED <<open, stateMap, parent, activeState, batchState>>
      PROVE  IInv'
  <2> DEFINE e == [op |-> "ACCESS", state |-> NoState, ptr |-> p, roi |-> Innermost(open)]
  <2>1. e \in Entry
    BY <1>1, <1>4, ShipType DEF TypeOK
  <2>2. StreamStates' /\ Chain(stream', parent', batchState', After(e, parent'))
    BY <1>4, <2>1, ShipKeepsChain
  <2>3. After(e, parent') = activeState'
    BY <1>4 DEF After, IInv
  <2> HIDE DEF e
  <2>4. ParentsEnclose' /\ OpenNested' /\ activeState' = Innermost(open')
    BY <1>4 DEF IInv, ParentsEnclose, OpenNested, Below
  <2> QED BY <1>1, <2>2, <2>3, <2>4 DEF IInv
<1>5. ASSUME UNCHANGED <<open, stateMap, parent, activeState, stream, batchState>>
      PROVE  IInv'
  BY <1>1, <1>5 DEF IInv, ParentsEnclose, OpenNested, StreamStates, Below
<1>6. ASSUME NEW p \in Addrs, Load(p) PROVE IInv'
  <2>1. UNCHANGED <<open, stateMap, parent, activeState, batchState>>
    BY <1>6 DEF Load, Call, shadow, past
  <2>2. CASE Ship("ACCESS", NoState, p)
    BY <1>4, <2>1, <2>2
  <2>3. CASE UNCHANGED stream
    BY <1>5, <2>1, <2>3
  <2> QED BY <1>6, <2>2, <2>3 DEF Load
<1>7. ASSUME NEW p \in Addrs, Store(p) PROVE IInv'
  <2>1. UNCHANGED <<open, stateMap, parent, activeState, batchState>>
    BY <1>7 DEF Store, Call, shadow, past
  <2>2. CASE Ship("ACCESS", NoState, p)
    BY <1>4, <2>1, <2>2
  <2>3. CASE UNCHANGED stream
    BY <1>5, <2>1, <2>3
  <2> QED BY <1>7, <2>2, <2>3 DEF Store
<1>8. ASSUME NEW s \in Regions, EndStateInvocation(s) PROVE IInv'
  <2> DEFINE e == [op |-> "COMMIT", state |-> s, ptr |-> NoState, roi |-> Innermost(open)]
  <2>0. Ship("COMMIT", s, NoState) /\ s \in stateMap
        /\ UNCHANGED <<open, stateMap, parent, activeState, batchState>>
    BY <1>8 DEF EndStateInvocation, Call, shadow, past, main
  <2>1. e \in Entry
    BY <1>1, <2>0, ShipType
  <2>2. StreamStates' /\ Chain(stream', parent', batchState', After(e, parent'))
    BY <2>0, <2>1, ShipKeepsChain
  <2>3. After(e, parent') = activeState'
    BY <2>0 DEF After, IInv
  <2> HIDE DEF e
  <2>4. ParentsEnclose' /\ OpenNested' /\ activeState' = Innermost(open')
    BY <2>0 DEF IInv, ParentsEnclose, OpenNested, Below
  <2> QED BY <1>1, <2>2, <2>3, <2>4 DEF IInv
<1>9. ASSUME Clean PROVE IInv'
  <2> DEFINE e == Head(stream)
  <2>1. stream \in Seq(Entry) /\ stream # <<>> /\ stream' = Tail(stream)
        /\ UNCHANGED <<open, stateMap, parent, activeState>>
    BY <1>1, <1>9 DEF Clean, TypeOK, program, main
  <2>2. e.roi = batchState /\ Chain(stream', parent', After(e, parent), activeState')
    BY <2>1, ChainTail DEF IInv
  <2>3. batchState' = After(e, parent)
    BY <1>9, <2>2 DEF Clean, Begin, End, Access, Commit, After
  <2>4. StreamStates'
    <3>1. Len(stream') = Len(stream) - 1 /\ Len(stream) \in Nat
      BY <2>1
    <3>2. \A i \in 1 .. Len(stream') : stream'[i] = stream[i + 1] /\ i + 1 \in 1 .. Len(stream)
      BY <2>1, <3>1
    <3> QED BY <2>1, <3>2 DEF IInv, StreamStates
  <2>5. ParentsEnclose' /\ OpenNested' /\ activeState' = Innermost(open')
    BY <2>1 DEF IInv, ParentsEnclose, OpenNested, Below
  <2> HIDE DEF e
  <2> QED BY <1>1, <2>2, <2>3, <2>4, <2>5 DEF IInv
<1>10. CASE UNCHANGED vars
  BY <1>5, <1>10 DEF vars, program, main, shadow, past
<1> QED BY <1>2, <1>3, <1>6, <1>7, <1>8, <1>9, <1>10 DEF Next

\* However far the shadow thread is behind, it charges each access to the ROI
\* that was innermost when the program performed it: for any ROIs whose nesting
\* is static, any addresses and any bounds.
THEOREM ChargeCorrect ==
    ASSUME StaticNesting
    PROVE  Spec => []ChargedToInnermost
<1>1. Init => IInv
  BY InvInit
<1>2. IInv /\ [Next]_vars => IInv'
  BY InvStep
<1>3. IInv => ChargedToInnermost
  <2> SUFFICES ASSUME IInv, stream # <<>> PROVE batchState = Head(stream).roi
    BY DEF ChargedToInnermost
  <2>1. stream \in Seq(Entry) /\ Chain(stream, parent, batchState, activeState)
    BY DEF IInv, TypeOK
  <2> QED BY <2>1, ChainTail
<1> QED BY <1>1, <1>2, <1>3, PTL DEF Spec

-----------------------------------------------------------------------------
(***************************************************************************)
(* Nothing that an outermost ROI touched gets lost.  Where such an access  *)
(* is: known to the shadow, or forgotten by it in a repeated commit of the *)
(* ROI; or new to it in an iteration whose end is still to come; or an     *)
(* entry of the stream whose iteration ends behind                         *)
(* it.  In each case no commit of the ROI is on the way that the access    *)
(* did not follow.  The filter keeps an access back only if this           *)
(* invocation of the ROI has performed it before: nested ROIs put their    *)
(* addresses into the filter, but their end empties it.                    *)
(***************************************************************************)
Outermost == {s \in Regions : <<NoState, s>> \in Encloses}

IsOpen(s, stack) == \E i \in 1 .. Len(stack) : stack[i] = s

BeginOf(e, s)  == e.op = "BEGIN"  /\ e.state = s
EndOf(e, s)    == e.op = "END"    /\ e.state = s
CommitOf(e, s) == e.op = "COMMIT" /\ e.state = s

\* No commit of s follows entry i.
Uncommitted(q, i, s) == \A k \in 1 .. Len(q) : k > i => ~CommitOf(q[k], s)

\* The iteration of s that is running after entry i ends before another one
\* begins, or is still running when all entries are cleaned.
Carried(q, i, s, running) ==
    \/ running /\ \A k \in 1 .. Len(q) : k > i => ~BeginOf(q[k], s)
    \/ \E j \in 1 .. Len(q) :
          /\ j > i /\ EndOf(q[j], s)
          /\ \A k \in 1 .. Len(q) : k > i /\ k < j => ~BeginOf(q[k], s)

InFlight(q, p, s, running) ==
    \E i \in 1 .. Len(q) :
        /\ q[i].op = "ACCESS" /\ q[i].ptr = p /\ q[i].roi = s
        /\ Uncommitted(q, i, s) /\ Carried(q, i, s, running)

Told(q, p, s, running, kn, fr) ==
    \/ p \in kn /\ Uncommitted(q, 0, s)
    \/ p \in fr /\ Uncommitted(q, 0, s) /\ Carried(q, 0, s, running)
    \/ InFlight(q, p, s, running)

\* Known to the shadow, or forgotten by it in a commit that was repeated.
Kept(s) == known[s] \cup forgotten[s]

FilterInv ==
    /\ open = <<>> => loads = {} /\ stores = {}
    /\ open # <<>> /\ Innermost(open) \in Outermost =>
          loads \cup stores \subseteq touched[Innermost(open)]

ToldInv ==
    \A s \in Outermost : \A p \in touched[s] :
        Told(stream, p, s, IsOpen(s, open), Kept(s), fresh[s])

HeardInv == IInv /\ FilterInv /\ ToldInv

\* A shipped entry loses no access, unless it commits the ROI: what ends the
\* iteration carries it, and none begins while one is running.
LEMMA ToldAppend ==
    ASSUME NEW q \in Seq(Entry), NEW e \in Entry, NEW p, NEW s, NEW o, NEW o2,
           NEW kn, NEW fr, ~CommitOf(e, s),
           o => EndOf(e, s) \/ (o2 /\ ~BeginOf(e, s)),
           Told(q, p, s, o, kn, fr)
    PROVE  Told(Append(q, e), p, s, o2, kn, fr)
<1> DEFINE r == Append(q, e)
<1>1. /\ Len(r) = Len(q) + 1 /\ r[Len(q) + 1] = e /\ Len(q) \in Nat
      /\ \A k \in 1 .. Len(q) : r[k] = q[k]
  OBVIOUS
<1> HIDE DEF r
<1>2. ASSUME NEW i, Uncommitted(q, i, s) PROVE Uncommitted(r, i, s)
  <2> SUFFICES ASSUME NEW k \in 1 .. Len(r), k > i PROVE ~CommitOf(r[k], s)
    BY DEF Uncommitted
  <2>1. CASE k = Len(q) + 1
    BY <1>1, <2>1
  <2>2. CASE k # Len(q) + 1
    <3>1. k \in 1 .. Len(q) /\ r[k] = q[k]
      BY <1>1, <2>2
    <3> QED BY <1>2, <3>1 DEF Uncommitted
  <2> QED BY <2>1, <2>2
<1>3. ASSUME NEW i \in 0 .. Len(q), Carried(q, i, s, o) PROVE Carried(r, i, s, o2)
  <2>1. CASE o /\ \A k \in 1 .. Len(q) : k > i => ~BeginOf(q[k], s)
    <3>1. CASE EndOf(e, s)
      <4> DEFINE j == Len(q) + 1
      <4>1. j \in 1 .. Len(r) /\ j > i /\ EndOf(r[j], s)
        BY <1>1, <3>1
      <4>2. \A k \in 1 .. Len(r) : k > i /\ k < j => ~BeginOf(r[k], s)
        BY <1>1, <2>1
      <4> HIDE DEF j
      <4> QED BY <4>1, <4>2 DEF Carried
    <3>2. CASE o2 /\ ~BeginOf(e, s)
      <4>1. \A k \in 1 .. Len(r) : k > i => ~BeginOf(r[k], s)
        <5> SUFFICES ASSUME NEW k \in 1 .. Len(r), k > i PROVE ~BeginOf(r[k], s)
          OBVIOUS
        <5>1. k = Len(q) + 1 \/ k \in 1 .. Len(q)
          BY <1>1
        <5> QED BY <1>1, <2>1, <3>2, <5>1
      <4> QED BY <3>2, <4>1 DEF Carried
    <3> QED BY <2>1, <3>1, <3>2
  <2>2. CASE \E j \in 1 .. Len(q) :
               /\ j > i /\ EndOf(q[j], s)
               /\ \A k \in 1 .. Len(q) : k > i /\ k < j => ~BeginOf(q[k], s)
    <3>1. PICK j \in 1 .. Len(q) :
               /\ j > i /\ EndOf(q[j], s)
               /\ \A k \in 1 .. Len(q) : k > i /\ k < j => ~BeginOf(q[k], s)
      BY <2>2
    <3>2. j \in 1 .. Len(r) /\ EndOf(r[j], s)
      BY <1>1, <3>1
    <3>3. \A k \in 1 .. Len(r) : k > i /\ k < j => ~BeginOf(r[k], s)
      BY <1>1, <3>1
    <3> QED BY <3>1, <3>2, <3>3 DEF Carried
  <2> QED BY <1>3, <2>1, <2>2 DEF Carried
<1>4. CASE p \in kn /\ Uncommitted(q, 0, s)
  BY <1>2, <1>4 DEF Told, r
<1>5. CASE p \in fr /\ Uncommitted(q, 0, s) /\ Carried(q, 0, s, o)
  <2>1. Uncommitted(r, 0, s) /\ Carried(r, 0, s, o2)
    BY <1>1, <1>2, <1>3, <1>5
  <2> QED BY <1>5, <2>1 DEF Told, r
<1>6. CASE InFlight(q, p, s, o)
  <2>1. PICK i \in 1 .. Len(q) :
            /\ q[i].op = "ACCESS" /\ q[i].ptr = p /\ q[i].roi = s
            /\ Uncommitted(q, i, s) /\ Carried(q, i, s, o)
    BY <1>6 DEF InFlight
  <2>2. i \in 1 .. Len(r) /\ i \in 0 .. Len(q) /\ r[i] = q[i]
    BY <1>1
  <2>3. Uncommitted(r, i, s) /\ Carried(r, i, s, o2)
    BY <1>2, <1>3, <2>1, <2>2
  <2> QED BY <2>1, <2>2, <2>3 DEF Told, InFlight, r
<1> QED BY <1>4, <1>5, <1>6 DEF Told

\* The access that an entry reports is in flight once it is shipped.
LEMMA ToldShipped ==
    ASSUME NEW q \in Seq(Entry), NEW e \in Entry, NEW kn, NEW fr, e.op = "ACCESS"
    PROVE  Told(Append(q, e), e.ptr, e.roi, TRUE, kn, fr)
<1> DEFINE r == Append(q, e)
           n == Len(q) + 1
<1>1. Len(r) = n /\ r[n] = e /\ n \in 1 .. Len(r) /\ n \in Nat
  OBVIOUS
<1> HIDE DEF r, n
<1>2. \A k \in 1 .. Len(r) : ~(k > n)
  BY <1>1
<1>3. Uncommitted(r, n, e.roi) /\ Carried(r, n, e.roi, TRUE)
  BY <1>2 DEF Uncommitted, Carried
<1> QED BY <1>1, <1>3 DEF Told, InFlight, r

\* Positions move by one when the first entry is cleaned; an iteration that
\* the first entry does not end is ended by a later one.
LEMMA TailMoves ==
    ASSUME NEW q \in Seq(Entry), q # <<>>, NEW s, NEW o
    PROVE  /\ Uncommitted(q, 0, s) => Uncommitted(Tail(q), 0, s)
           /\ Carried(q, 0, s, o) /\ ~EndOf(Head(q), s) => Carried(Tail(q), 0, s, o)
           /\ \A i \in 1 .. Len(q) :
                 /\ Uncommitted(q, i, s) => Uncommitted(Tail(q), i - 1, s)
                 /\ Carried(q, i, s, o) => Carried(Tail(q), i - 1, s, o)
<1> DEFINE r == Tail(q)
<1>1. /\ Len(r) = Len(q) - 1 /\ Len(q) \in Nat /\ Len(q) >= 1 /\ Head(q) = q[1]
      /\ \A k \in 1 .. Len(r) : r[k] = q[k + 1]
  OBVIOUS
<1> HIDE DEF r
<1>2. \A k \in 1 .. Len(r) : k + 1 \in 1 .. Len(q) /\ k \in Nat
  BY <1>1
<1>3. ASSUME NEW i \in Nat, NEW m \in Nat, i <= m + 1, Uncommitted(q, i, s)
      PROVE  Uncommitted(r, m, s)
  <2> SUFFICES ASSUME NEW k \in 1 .. Len(r), k > m PROVE ~CommitOf(r[k], s)
    BY DEF Uncommitted
  <2>1. k + 1 \in 1 .. Len(q) /\ k + 1 > i /\ r[k] = q[k + 1]
    BY <1>1, <1>2, <1>3
  <2> QED BY <1>3, <2>1 DEF Uncommitted
<1>4. ASSUME NEW i \in Nat, NEW m \in Nat, Carried(q, i, s, o),
             i = m + 1 \/ (i = 0 /\ m = 0 /\ ~EndOf(q[1], s))
      PROVE  Carried(r, m, s, o)
  <2>1. CASE o /\ \A k \in 1 .. Len(q) : k > i => ~BeginOf(q[k], s)
    <3> SUFFICES ASSUME NEW k \in 1 .. Len(r), k > m PROVE ~BeginOf(r[k], s)
      BY <2>1 DEF Carried
    <3>1. k + 1 \in 1 .. Len(q) /\ k + 1 > i /\ r[k] = q[k + 1]
      BY <1>1, <1>2, <1>4
    <3> QED BY <2>1, <3>1
  <2>2. CASE \E j \in 1 .. Len(q) :
               /\ j > i /\ EndOf(q[j], s)
               /\ \A k \in 1 .. Len(q) : k > i /\ k < j => ~BeginOf(q[k], s)
    <3>1. PICK j \in 1 .. Len(q) :
               /\ j > i /\ EndOf(q[j], s)
               /\ \A k \in 1 .. Len(q) : k > i /\ k < j => ~BeginOf(q[k], s)
      BY <2>2
    <3>2. j # 1
      <4>1. CASE i = 0
        BY <1>4, <3>1, <4>1
      <4>2. CASE i # 0
        BY <1>4, <3>1, <4>2
      <4> QED BY <4>1, <4>2
    <3>3. j - 1 \in 1 .. Len(r) /\ j - 1 > m /\ r[j - 1] = q[j]
      BY <1>1, <1>4, <3>1, <3>2
    <3>4. ASSUME NEW k \in 1 .. Len(r), k > m, k < j - 1 PROVE ~BeginOf(r[k], s)
      <4>1. k + 1 \in 1 .. Len(q) /\ k + 1 > i /\ k + 1 < j /\ r[k] = q[k + 1]
        BY <1>1, <1>2, <1>4, <3>4
      <4> QED BY <3>1, <4>1
    <3> QED BY <3>1, <3>3, <3>4 DEF Carried
  <2> QED BY <1>4, <2>1, <2>2 DEF Carried
<1>5. Uncommitted(q, 0, s) => Uncommitted(r, 0, s)
  BY <1>3
<1>6. Carried(q, 0, s, o) /\ ~EndOf(Head(q), s) => Carried(r, 0, s, o)
  BY <1>1, <1>4
<1>7. ASSUME NEW i \in 1 .. Len(q)
      PROVE  /\ Uncommitted(q, i, s) => Uncommitted(r, i - 1, s)
             /\ Carried(q, i, s, o) => Carried(r, i - 1, s, o)
  <2>1. i \in Nat /\ i - 1 \in Nat /\ i <= (i - 1) + 1 /\ i - 1 <= i /\ i = (i - 1) + 1
        /\ i # i - 1
    BY <1>7
  <2> QED BY <1>3, <1>4, <2>1
<1> QED BY <1>5, <1>6, <1>7 DEF r

\* Cleaning the first entry loses no access: it becomes new, or known if its
\* iteration ends, and only a commit that it does not follow forgets it.
LEMMA ToldCleaned ==
    ASSUME NEW q \in Seq(Entry), q # <<>>, NEW p, NEW s, NEW o,
           NEW kn, NEW fr, NEW kn2, NEW fr2, Told(q, p, s, o, kn, fr),
           ~CommitOf(Head(q), s) => kn \subseteq kn2,
           EndOf(Head(q), s) => fr \subseteq kn2,
           ~CommitOf(Head(q), s) /\ ~BeginOf(Head(q), s) => fr \subseteq kn2 \cup fr2,
           Head(q).op = "ACCESS" /\ Head(q).roi = s => Head(q).ptr \in kn2 \cup fr2
    PROVE  Told(Tail(q), p, s, o, kn2, fr2)
<1> DEFINE r == Tail(q)
<1>1. /\ Len(r) = Len(q) - 1 /\ Len(q) \in Nat /\ Len(q) >= 1 /\ Head(q) = q[1]
      /\ \A k \in 1 .. Len(r) : r[k] = q[k + 1]
  OBVIOUS
<1>2. /\ Uncommitted(q, 0, s) => Uncommitted(r, 0, s)
      /\ Carried(q, 0, s, o) /\ ~EndOf(Head(q), s) => Carried(r, 0, s, o)
      /\ \A i \in 1 .. Len(q) :
            /\ Uncommitted(q, i, s) => Uncommitted(r, i - 1, s)
            /\ Carried(q, i, s, o) => Carried(r, i - 1, s, o)
  BY TailMoves
<1> HIDE DEF r
<1>3. Uncommitted(q, 0, s) => ~CommitOf(Head(q), s)
  BY <1>1 DEF Uncommitted
<1>4. CASE p \in kn /\ Uncommitted(q, 0, s)
  BY <1>2, <1>3, <1>4 DEF Told, r
<1>5. CASE p \in fr /\ Uncommitted(q, 0, s) /\ Carried(q, 0, s, o)
  <2>1. CASE EndOf(Head(q), s)
    BY <1>2, <1>5, <2>1 DEF Told, r
  <2>2. CASE ~EndOf(Head(q), s)
    <3>1. ~BeginOf(Head(q), s)
      <4>1. ASSUME NEW j \in 1 .. Len(q), EndOf(q[j], s) PROVE 1 < j
        BY <1>1, <2>2, <4>1
      <4>2. 1 \in 1 .. Len(q)
        BY <1>1
      <4> QED BY <1>1, <1>5, <4>1, <4>2 DEF Carried
    <3>2. p \in kn2 \cup fr2 /\ Uncommitted(r, 0, s) /\ Carried(r, 0, s, o)
      BY <1>2, <1>3, <1>5, <2>2, <3>1
    <3> QED BY <3>2 DEF Told, r
  <2> QED BY <2>1, <2>2
<1>6. CASE InFlight(q, p, s, o)
  <2>1. PICK i \in 1 .. Len(q) :
            /\ q[i].op = "ACCESS" /\ q[i].ptr = p /\ q[i].roi = s
            /\ Uncommitted(q, i, s) /\ Carried(q, i, s, o)
    BY <1>6 DEF InFlight
  <2>2. Uncommitted(r, i - 1, s) /\ Carried(r, i - 1, s, o)
    BY <1>2, <2>1
  <2>3. CASE i = 1
    <3>1. p \in kn2 \cup fr2
      BY <1>1, <2>1, <2>3
    <3>2. Uncommitted(r, 0, s) /\ Carried(r, 0, s, o)
      BY <2>2, <2>3
    <3> QED BY <3>1, <3>2 DEF Told, r
  <2>4. CASE i # 1
    <3>1. i - 1 \in 1 .. Len(r) /\ r[i - 1] = q[i]
      BY <1>1, <2>4
    <3>2. InFlight(r, p, s, o)
      BY <2>1, <2>2, <3>1 DEF InFlight
    <3> QED BY <3>2 DEF Told, r
  <2> QED BY <2>3, <2>4
<1> QED BY <1>4, <1>5, <1>6 DEF Told

\* An access by the program, reported or kept back by the filter, is told to
\* an outermost ROI, and what was told before still is.
LEMMA AccessTold ==
    ASSUME HeardInv, NEW p \in Addrs, Performed(p), open' = open,
           known' = known, fresh' = fresh, forgotten' = forgotten,
           \/ activeState # NoState /\ Ship("ACCESS", NoState, p)
           \/ /\ activeState = NoState \/ p \in loads \cup stores
              /\ stream' = stream
    PROVE  ToldInv'
<1> USE RegionsAssumption
<1> DEFINE e == [op |-> "ACCESS", state |-> NoState, ptr |-> p, roi |-> Innermost(open)]
<1>1. IInv /\ FilterInv /\ ToldInv /\ TypeOK
  BY DEF HeardInv, IInv
<1>2. stream \in Seq(Entry) /\ touched \in [Regions -> SUBSET Addrs]
      /\ open \in Seq(Regions) /\ activeState = Innermost(open)
  BY <1>1 DEF TypeOK, IInv
<1>3. open # <<>> => Innermost(open) \in Regions /\ IsOpen(Innermost(open), open)
  <2> SUFFICES ASSUME open # <<>>
               PROVE  Innermost(open) \in Regions /\ IsOpen(Innermost(open), open)
    OBVIOUS
  <2>1. Len(open) \in 1 .. Len(open) /\ open[Len(open)] \in Regions
    BY <1>2
  <2> QED BY <2>1 DEF Innermost, IsOpen
<1>4. open = <<>> => Innermost(open) = NoState
  BY DEF Innermost
<1> SUFFICES ASSUME NEW s \in Outermost, NEW a \in touched'[s]
             PROVE  Told(stream', a, s, IsOpen(s, open), Kept(s), fresh[s])
  BY DEF ToldInv, Kept
<1>5. s \in Regions
  BY DEF Outermost
<1>6. a \in touched[s] \/ (open # <<>> /\ a = p /\ s = Innermost(open))
  BY <1>2, <1>3, <1>5 DEF Performed
<1>7. a \in touched[s] => Told(stream, a, s, IsOpen(s, open), Kept(s), fresh[s])
  BY <1>1 DEF ToldInv
<1>8. CASE activeState # NoState /\ Ship("ACCESS", NoState, p)
  <2>1. stream' = Append(stream, e)
    BY <1>8 DEF Ship
  <2>2. Innermost(open) \in RegionOrNone
    BY <1>3, <1>4 DEF RegionOrNone
  <2>3. e \in Entry /\ e.op = "ACCESS" /\ e.ptr = p /\ e.roi = Innermost(open)
    BY <2>2 DEF Entry
  <2> HIDE DEF e
  <2>4. CASE a \in touched[s]
    <3>1. ~CommitOf(e, s) /\ ~BeginOf(e, s)
      BY <2>3 DEF CommitOf, BeginOf
    <3>2. Told(stream, a, s, IsOpen(s, open), Kept(s), fresh[s])
      BY <1>7, <2>4
    <3> QED BY <1>2, <2>1, <2>3, <3>1, <3>2, ToldAppend
  <2>5. CASE a = p /\ s = Innermost(open) /\ open # <<>>
    <3>1. Told(Append(stream, e), e.ptr, e.roi, TRUE, Kept(s), fresh[s])
      BY <1>2, <2>3, ToldShipped
    <3>2. IsOpen(s, open) = TRUE
      BY <1>3, <2>5 DEF IsOpen
    <3> QED BY <2>1, <2>3, <2>5, <3>1, <3>2
  <2> QED BY <1>6, <2>4, <2>5
<1>9. CASE (activeState = NoState \/ p \in loads \cup stores) /\ stream' = stream
  <2>1. a \in touched[s]
    <3> SUFFICES ASSUME open # <<>>, a = p, s = Innermost(open) PROVE a \in touched[s]
      BY <1>6
    <3>1. p \in loads \cup stores
      BY <1>2, <1>3, <1>9
    <3> QED BY <1>1, <3>1 DEF FilterInv
  <2> QED BY <1>7, <1>9, <2>1
<1> QED BY <1>8, <1>9

\* An access keeps the filter within what the innermost ROI has touched.
LEMMA AccessFiltered ==
    ASSUME IInv, FilterInv, NEW p \in Addrs, Performed(p), open' = open,
           activeState = NoState => loads' = loads /\ stores' = stores,
           loads' \cup stores' \subseteq loads \cup stores \cup {p}
    PROVE  FilterInv'
<1> USE RegionsAssumption
<1>1. open \in Seq(Regions) /\ activeState = Innermost(open)
      /\ touched \in [Regions -> SUBSET Addrs]
  BY DEF IInv, TypeOK
<1>2. CASE open = <<>>
  BY <1>1, <1>2 DEF FilterInv, Innermost
<1>3. CASE open # <<>>
  <2>1. Innermost(open) \in Regions
    BY <1>1, <1>3 DEF Innermost
  <2>2. touched'[Innermost(open)] = touched[Innermost(open)] \cup {p}
    BY <1>1, <1>3, <2>1 DEF Performed
  <2>3. Innermost(open') = Innermost(open)
    OBVIOUS
  <2>4. Innermost(open) \in Outermost => loads' \cup stores' \subseteq touched'[Innermost(open)]
    BY <1>3, <2>2 DEF FilterInv
  <2> QED BY <1>3, <2>3, <2>4 DEF FilterInv, Outermost
<1> QED BY <1>2, <1>3

\* A step of the specification keeps the invariant about outermost ROIs.
LEMMA HeardStep ==
    ASSUME StaticNesting
    PROVE  HeardInv /\ [Next]_vars => HeardInv'
<1> SUFFICES ASSUME HeardInv, [Next]_vars PROVE HeardInv'
  OBVIOUS
<1> USE RegionsAssumption
<1>1. IInv /\ FilterInv /\ ToldInv /\ TypeOK /\ IInv' /\ TypeOK'
  BY InvStep DEF HeardInv, IInv
<1>2. stream \in Seq(Entry) /\ open \in Seq(Regions) /\ Len(open) \in Nat
      /\ touched \in [Regions -> SUBSET Addrs] /\ activeState = Innermost(open)
  BY <1>1 DEF TypeOK, IInv
<1>3. \A s \in Outermost : s \in Regions /\ <<NoState, s>> \in Encloses
  BY DEF Outermost
<1>4. ASSUME NEW t \in Regions, GetState(t) PROVE HeardInv'
  <2> DEFINE e == [op |-> "BEGIN", state |-> t, ptr |-> NoState, roi |-> Innermost(open)]
  <2>1. stream' = Append(stream, e) /\ open' = Append(open, t)
        /\ UNCHANGED <<known, fresh, forgotten, touched, loads, stores>>
        /\ <<Innermost(open), t>> \in Encloses
    BY <1>4 DEF GetState, Call, shadow, past, Ship
  <2>2. e \in Entry
    BY <1>1, <1>4, ShipType DEF GetState
  <2>3. e.op = "BEGIN" /\ e.state = t
    OBVIOUS
  <2> HIDE DEF e
  <2>4. t \in Outermost => open = <<>>
    <3> SUFFICES ASSUME t \in Outermost, open # <<>> PROVE FALSE
      OBVIOUS
    <3>1. Innermost(open) \in Regions
      BY <1>2 DEF Innermost
    <3>2. Innermost(open) \in RegionOrNone /\ NoState \in RegionOrNone
      BY <3>1 DEF RegionOrNone
    <3>3. Innermost(open) = NoState
      BY <1>3, <2>1, <3>2 DEF StaticNesting
    <3> QED BY <3>1, <3>3
  <2>5. ToldInv'
    <3> SUFFICES ASSUME NEW s \in Outermost, NEW a \in touched[s]
                 PROVE  Told(stream', a, s, IsOpen(s, open'), Kept(s), fresh[s])
      BY <2>1 DEF ToldInv, Kept
    <3>1. Told(stream, a, s, IsOpen(s, open), Kept(s), fresh[s])
      BY <1>1 DEF ToldInv
    <3>2. ~CommitOf(e, s)
      BY <2>3 DEF CommitOf
    <3>3. IsOpen(s, open) => IsOpen(s, open')
      <4> SUFFICES ASSUME NEW i \in 1 .. Len(open), open[i] = s PROVE IsOpen(s, open')
        BY DEF IsOpen
      <4>1. i \in 1 .. Len(open') /\ open'[i] = s
        BY <1>2, <2>1
      <4> QED BY <4>1 DEF IsOpen
    <3>4. IsOpen(s, open) => ~BeginOf(e, s)
      BY <1>2, <2>3, <2>4 DEF BeginOf, IsOpen
    <3> QED BY <1>2, <2>1, <2>2, <3>1, <3>2, <3>3, <3>4, ToldAppend
  <2>6. FilterInv'
    <3>1. open' # <<>> /\ Innermost(open') = t
      <4>1. open \in Seq(Regions) /\ open' = Append(open, t)
        BY <1>2, <2>1
      <4>2. Len(open') = Len(open) + 1 /\ open'[Len(open) + 1] = t /\ Len(open) \in Nat
        BY ONLY <4>1, t \in Regions, AppendProperties, LenProperties
      <4>3. open' # <<>>
        BY ONLY <4>2, EmptySeq
      <4> QED BY <4>2, <4>3 DEF Innermost
    <3>2. t \in Outermost => loads = {} /\ stores = {}
      BY <1>1, <2>4 DEF FilterInv
    <3>3. t \in Outermost => loads' \cup stores' \subseteq touched'[t]
      BY <2>1, <3>2
    <3> QED BY <3>1, <3>3 DEF FilterInv, Outermost
  <2> QED BY <1>1, <2>5, <2>6 DEF HeardInv
<1>5. ASSUME EndState PROVE HeardInv'
  <2>1. UNCHANGED <<known, fresh, forgotten, touched>> /\ loads' = {} /\ stores' = {}
        /\ open' = Leave(open)
    BY <1>5 DEF EndState, Call, shadow, past
  <2>2. FilterInv'
    BY <2>1 DEF FilterInv
  <2>3. CASE open = <<>>
    <3>1. open' = open /\ activeState = NoState
      BY <1>2, <2>1, <2>3 DEF Leave, Innermost
    <3>2. stream' = stream
      BY <1>5, <3>1 DEF EndState
    <3>3. ToldInv'
      BY <1>1, <2>1, <3>1, <3>2 DEF ToldInv, Kept
    <3> QED BY <1>1, <2>2, <3>3 DEF HeardInv
  <2>4. CASE open # <<>>
    <3> DEFINE e == [op |-> "END", state |-> activeState, ptr |-> NoState,
                     roi |-> Innermost(open)]
    <3>1. activeState \in Regions /\ activeState = open[Len(open)]
      BY <1>2, <2>4 DEF Innermost
    <3>2. Ship("END", activeState, NoState)
      BY <1>5, <3>1 DEF EndState
    <3>3. e \in Entry /\ stream' = Append(stream, e)
      BY <1>1, <3>1, <3>2, ShipType DEF Ship
    <3>4. e.op = "END" /\ e.state = activeState
      OBVIOUS
    <3> HIDE DEF e
    <3>5. ToldInv'
      <4> SUFFICES ASSUME NEW s \in Outermost, NEW a \in touched[s]
                   PROVE  Told(stream', a, s, IsOpen(s, open'), Kept(s), fresh[s])
        BY <2>1 DEF ToldInv, Kept
      <4>1. Told(stream, a, s, IsOpen(s, open), Kept(s), fresh[s])
        BY <1>1 DEF ToldInv
      <4>2. ~CommitOf(e, s) /\ ~BeginOf(e, s)
        BY <3>4 DEF CommitOf, BeginOf
      <4>3. IsOpen(s, open) => EndOf(e, s) \/ IsOpen(s, open')
        <5> SUFFICES ASSUME NEW i \in 1 .. Len(open), open[i] = s, ~EndOf(e, s)
                     PROVE  IsOpen(s, open')
          BY DEF IsOpen
        <5>1. i # Len(open)
          BY <3>1, <3>4 DEF EndOf
        <5>2. Len(open') = Len(open) - 1 /\ \A k \in 1 .. Len(open) - 1 : open'[k] = open[k]
          BY <1>2, <2>1, <2>4, LeaveProperties
        <5>3. i \in 1 .. Len(open') /\ open'[i] = s
          BY <1>2, <5>1, <5>2
        <5> QED BY <5>3 DEF IsOpen
      <4> QED BY <1>2, <3>3, <4>1, <4>2, <4>3, ToldAppend
    <3> QED BY <1>1, <2>2, <3>5 DEF HeardInv
  <2> QED BY <2>3, <2>4
<1>6. ASSUME NEW p \in Addrs, Load(p) PROVE HeardInv'
  <2>1. Performed(p) /\ UNCHANGED <<open, known, fresh, forgotten, stores>>
    BY <1>6 DEF Load, Call, shadow, past
  <2>2. \/ activeState # NoState /\ Ship("ACCESS", NoState, p) /\ loads' = loads \cup {p}
        \/ (activeState = NoState \/ p \in loads) /\ stream' = stream /\ loads' = loads
    BY <1>6 DEF Load
  <2>3. ToldInv'
    BY <2>1, <2>2, AccessTold
  <2>4. FilterInv'
    BY <1>1, <2>1, <2>2, AccessFiltered
  <2> QED BY <1>1, <2>3, <2>4 DEF HeardInv
<1>7. ASSUME NEW p \in Addrs, Store(p) PROVE HeardInv'
  <2>1. Performed(p) /\ UNCHANGED <<open, known, fresh, forgotten, loads>>
    BY <1>7 DEF Store, Call, shadow, past
  <2>2. \/ activeState # NoState /\ Ship("ACCESS", NoState, p) /\ stores' = stores \cup {p}
        \/ (activeState = NoState \/ p \in stores) /\ stream' = stream /\ stores' = stores
    BY <1>7 DEF Store
  <2>3. ToldInv'
    BY <2>1, <2>2, AccessTold
  <2>4. FilterInv'
    BY <1>1, <2>1, <2>2, AccessFiltered
  <2> QED BY <1>1, <2>3, <2>4 DEF HeardInv
<1>8. ASSUME NEW t \in Regions, EndStateInvocation(t) PROVE HeardInv'
  <2> DEFINE e == [op |-> "COMMIT", state |-> t, ptr |-> NoState, roi |-> Innermost(open)]
  <2>1. stream' = Append(stream, e) /\ UNCHANGED <<open, known, fresh, forgotten, loads, stores>>
        /\ touched' = [touched EXCEPT ![t] = {}]
    BY <1>8 DEF EndStateInvocation, Call, shadow, past, main, Ship
  <2>2. e \in Entry
    BY <1>1, <1>8, ShipType DEF EndStateInvocation
  <2>3. e.op = "COMMIT" /\ e.state = t
    OBVIOUS
  <2> HIDE DEF e
  <2>4. ToldInv'
    <3> SUFFICES ASSUME NEW s \in Outermost, NEW a \in touched'[s]
                 PROVE  Told(stream', a, s, IsOpen(s, open), Kept(s), fresh[s])
      BY <2>1 DEF ToldInv, Kept
    <3>1. s # t /\ a \in touched[s]
      BY <1>2, <1>3, <2>1
    <3>2. Told(stream, a, s, IsOpen(s, open), Kept(s), fresh[s])
      BY <1>1, <3>1 DEF ToldInv
    <3>3. ~CommitOf(e, s) /\ ~BeginOf(e, s)
      BY <2>3, <3>1 DEF CommitOf, BeginOf
    <3> QED BY <1>2, <2>1, <2>2, <3>2, <3>3, ToldAppend
  <2>5. FilterInv'
    <3>1. CASE open = <<>>
      BY <1>1, <2>1, <3>1 DEF FilterInv
    <3>2. CASE open # <<>>
      <4>1. Innermost(open) \in Regions /\ Innermost(open) # t
        BY <1>2, <1>8, <3>2 DEF Innermost, EndStateInvocation
      <4>2. touched'[Innermost(open)] = touched[Innermost(open)]
        BY <1>2, <2>1, <4>1
      <4> QED BY <1>1, <2>1, <3>2, <4>2 DEF FilterInv, Innermost, Outermost
    <3> QED BY <3>1, <3>2
  <2> QED BY <1>1, <2>4, <2>5 DEF HeardInv
<1>9. ASSUME Clean PROVE HeardInv'
  <2> DEFINE e == Head(stream)
  <2>1. stream # <<>> /\ stream' = Tail(stream) /\ UNCHANGED <<open, touched, loads, stores>>
    BY <1>9 DEF Clean, program, main
  <2>2. FilterInv'
    BY <1>1, <2>1 DEF FilterInv
  <2>3. e \in Entry /\ e.roi = batchState
    BY <1>1, <1>2, <2>1, ChainTail DEF IInv
  <2>4. known \in [Regions -> SUBSET Addrs] /\ fresh \in [Regions -> SUBSET Addrs]
        /\ forgotten \in [Regions -> SUBSET Addrs]
    BY <1>1 DEF TypeOK
  <2>5. Begin(e) \/ End(e) \/ Access(e) \/ Commit(e)
    BY <1>9 DEF Clean
  <2> HIDE DEF e
  <2>6. e.op \in {"BEGIN", "END", "COMMIT"} => e.state \in Regions
    BY <2>3 DEF Entry
  <2>7. ASSUME NEW s \in Outermost
        PROVE  /\ ~CommitOf(e, s) => Kept(s) \subseteq Kept(s)'
               /\ EndOf(e, s) => fresh[s] \subseteq Kept(s)'
               /\ ~CommitOf(e, s) /\ ~BeginOf(e, s) => fresh[s] \subseteq Kept(s)' \cup fresh'[s]
               /\ e.op = "ACCESS" /\ e.roi = s => e.ptr \in Kept(s)' \cup fresh'[s]
    <3>1. s \in Regions
      BY <1>3
    <3>2. CASE Begin(e)
      BY <2>4, <2>6, <3>1, <3>2 DEF Begin, past, Kept, CommitOf, EndOf, BeginOf
    <3>3. CASE End(e)
      BY <2>4, <2>6, <3>1, <3>3 DEF End, past, Kept, CommitOf, EndOf, BeginOf
    <3>4. CASE Access(e)
      <4>1. e.op = "ACCESS" /\ known' = known /\ forgotten' = forgotten
        BY <3>4 DEF Access, past
      <4>2. fresh[s] \subseteq fresh'[s]
        BY <2>4, <3>1, <3>4 DEF Access
      <4>3. e.roi = s => e.ptr \in known[s] \cup fresh'[s]
        BY <2>3, <2>4, <3>1, <3>4 DEF Access
      <4> QED BY <4>1, <4>2, <4>3 DEF Kept, CommitOf, EndOf, BeginOf
    <3>5. CASE Commit(e)
      <4>1. PICK t \in committed \cup {e.state} :
               /\ known' = [x \in Regions |-> IF x \in {e.state, t} THEN {} ELSE known[x]]
               /\ fresh' = [x \in Regions |-> IF x \in {e.state, t} THEN {} ELSE fresh[x]]
               /\ forgotten' = [x \in Regions |->
                                  CASE x = e.state -> {}
                                    [] x # e.state /\ x = t -> forgotten[x] \cup Heard(x)
                                    [] OTHER -> forgotten[x]]
        BY <3>5 DEF Commit
      <4>2. e.op = "COMMIT"
        BY <3>5 DEF Commit
      <4>3. CASE s = t /\ s # e.state
        BY <3>1, <4>1, <4>2, <4>3 DEF Kept, Heard, CommitOf, EndOf, BeginOf
      <4>4. CASE s # t /\ s # e.state
        BY <3>1, <4>1, <4>2, <4>4 DEF Kept, CommitOf, EndOf, BeginOf
      <4> QED BY <4>2, <4>3, <4>4 DEF CommitOf, EndOf, BeginOf
    <3> QED BY <2>5, <3>2, <3>3, <3>4, <3>5
  <2>8. ToldInv'
    <3> SUFFICES ASSUME NEW s \in Outermost, NEW a \in touched[s]
                 PROVE  Told(stream', a, s, IsOpen(s, open), Kept(s)', fresh'[s])
      BY <2>1 DEF ToldInv, Kept
    <3>1. Told(stream, a, s, IsOpen(s, open), Kept(s), fresh[s])
      BY <1>1 DEF ToldInv
    <3>2. Told(Tail(stream), a, s, IsOpen(s, open), Kept(s)', fresh'[s])
      BY <1>2, <2>1, <2>7, <3>1, ToldCleaned DEF e
    <3> QED BY <2>1, <3>2
  <2> QED BY <1>1, <2>2, <2>8 DEF HeardInv
<1>10. CASE UNCHANGED vars
  <2>1. UNCHANGED <<open, touched, loads, stores, stream, known, fresh, forgotten>>
    BY <1>10 DEF vars, program, main, shadow, past
  <2> QED BY <1>1, <2>1 DEF HeardInv, FilterInv, ToldInv, Kept
<1> QED BY <1>4, <1>5, <1>6, <1>7, <1>8, <1>9, <1>10 DEF Next

\* Once the shadow thread has caught up, it has heard of every access of an
\* outermost ROI since the ROI's commit, and knows those of ended iterations,
\* except for accesses it forgot because the slot behind a batch repeated the
\* ROI's previous commit: for any ROIs whose nesting is static, any addresses
\* and any bounds.
THEOREM OutermostHeard ==
    ASSUME StaticNesting
    PROVE  Spec => []OutermostComplete
<1>1. Init => HeardInv
  <2> SUFFICES ASSUME Init PROVE HeardInv
    OBVIOUS
  <2>1. FilterInv
    BY DEF Init, FilterInv
  <2>2. ToldInv
    BY DEF Init, ToldInv, Outermost
  <2> QED BY <2>1, <2>2, InvInit DEF HeardInv
<1>2. HeardInv /\ [Next]_vars => HeardInv'
  BY HeardStep
<1>3. HeardInv => OutermostComplete
  <2> SUFFICES ASSUME HeardInv, stream = <<>>, NEW s \in Outermost, NEW a \in touched[s]
               PROVE  a \in (IF IsOpen(s, open) THEN Heard(s) ELSE known[s]) \cup forgotten[s]
    BY DEF OutermostComplete, Outermost, IsOpen
  <2>1. Told(stream, a, s, IsOpen(s, open), Kept(s), fresh[s])
    BY DEF HeardInv, ToldInv
  <2>2. 1 .. Len(stream) = {}
    OBVIOUS
  <2>3. ~InFlight(stream, a, s, IsOpen(s, open))
    BY <2>2 DEF InFlight
  <2>4. Carried(stream, 0, s, IsOpen(s, open)) => IsOpen(s, open)
    BY <2>2 DEF Carried
  <2>5. a \in Kept(s) \/ (a \in fresh[s] /\ IsOpen(s, open))
    BY <2>1, <2>3, <2>4 DEF Told
  <2> QED BY <2>5 DEF Heard, Kept
<1> QED BY <1>1, <1>2, <1>3, PTL DEF Spec

-----------------------------------------------------------------------------
(***************************************************************************)
(* Nothing foreign is charged to a ROI, nested or not.  What the shadow    *)
(* has heard of a ROI, and what entries will still tell it, the ROI has    *)
(* touched since its last commit, unless a commit of the ROI that will     *)
(* forget it is behind in the stream.                                      *)
(***************************************************************************)
Own(q, i, s, p, own) == p \in own \/ ~Uncommitted(q, i, s)

OwnInv ==
    /\ \A s \in Regions : \A p \in Heard(s) : Own(stream, 0, s, p, touched[s])
    /\ \A i \in 1 .. Len(stream) :
          stream[i].op = "ACCESS" /\ stream[i].roi \in Regions =>
             Own(stream, i, stream[i].roi, stream[i].ptr, touched[stream[i].roi])

\* A shipped entry keeps what is the ROI's own, if the ROI's touched addresses
\* only grow, or if it is the ROI's commit.
LEMMA OwnAppend ==
    ASSUME NEW q \in Seq(Entry), NEW e \in Entry, NEW i \in 0 .. Len(q), NEW s, NEW p,
           NEW own, NEW own2, Own(q, i, s, p, own), own \subseteq own2 \/ CommitOf(e, s)
    PROVE  Own(Append(q, e), i, s, p, own2)
<1> DEFINE r == Append(q, e)
<1>1. /\ Len(r) = Len(q) + 1 /\ r[Len(q) + 1] = e /\ Len(q) \in Nat
      /\ \A k \in 1 .. Len(q) : r[k] = q[k]
  OBVIOUS
<1> HIDE DEF r
<1>2. Len(q) + 1 \in 1 .. Len(r) /\ Len(q) + 1 > i
  BY <1>1
<1>3. CASE CommitOf(e, s)
  BY <1>1, <1>2, <1>3 DEF Own, Uncommitted, r
<1>4. CASE own \subseteq own2
  <2>1. Uncommitted(r, i, s) => Uncommitted(q, i, s)
    BY <1>1 DEF Uncommitted
  <2> QED BY <1>4, <2>1 DEF Own, r
<1> QED BY <1>3, <1>4

\* Cleaning an entry keeps what is the ROI's own, if it is not its commit.
LEMMA OwnTail ==
    ASSUME NEW q \in Seq(Entry), q # <<>>, NEW s, NEW p, NEW own
    PROVE  /\ Own(q, 0, s, p, own) /\ ~CommitOf(Head(q), s) => Own(Tail(q), 0, s, p, own)
           /\ \A i \in 1 .. Len(q) : Own(q, i, s, p, own) => Own(Tail(q), i - 1, s, p, own)
<1> DEFINE r == Tail(q)
<1>1. /\ Len(r) = Len(q) - 1 /\ Len(q) \in Nat /\ Len(q) >= 1 /\ Head(q) = q[1]
      /\ \A k \in 1 .. Len(r) : r[k] = q[k + 1]
  OBVIOUS
<1> HIDE DEF r
<1>2. \A k \in 1 .. Len(q) : k # 1 => k - 1 \in 1 .. Len(r) /\ r[k - 1] = q[k]
  BY <1>1
<1>3. ASSUME NEW i \in Nat, NEW m \in Nat, Uncommitted(r, m, s),
             i = m + 1 \/ (i = 0 /\ m = 0 /\ ~CommitOf(q[1], s))
      PROVE  Uncommitted(q, i, s)
  <2> SUFFICES ASSUME NEW k \in 1 .. Len(q), k > i PROVE ~CommitOf(q[k], s)
    BY DEF Uncommitted
  <2>1. CASE k = 1
    BY <1>3, <2>1
  <2>2. CASE k # 1
    <3>1. k - 1 \in 1 .. Len(r) /\ k - 1 > m /\ r[k - 1] = q[k]
      BY <1>1, <1>2, <1>3, <2>2
    <3> QED BY <1>3, <3>1 DEF Uncommitted
  <2> QED BY <2>1, <2>2
<1>4. Uncommitted(r, 0, s) /\ ~CommitOf(Head(q), s) => Uncommitted(q, 0, s)
  BY <1>1, <1>3
<1>5. \A i \in 1 .. Len(q) : Uncommitted(r, i - 1, s) => Uncommitted(q, i, s)
  <2> SUFFICES ASSUME NEW i \in 1 .. Len(q), Uncommitted(r, i - 1, s)
               PROVE  Uncommitted(q, i, s)
    OBVIOUS
  <2>1. i \in Nat /\ i - 1 \in Nat /\ i = (i - 1) + 1
    OBVIOUS
  <2> QED BY <1>3, <2>1
<1> QED BY <1>4, <1>5 DEF Own, r

\* A call that ships one entry, which reports no access or one that the
\* innermost ROI has just performed.
LEMMA ShipOwn ==
    ASSUME IInv, OwnInv, NEW e \in Entry, stream' = Append(stream, e),
           UNCHANGED <<known, fresh>>,
           \A s \in Regions : touched[s] \subseteq touched'[s] \/ CommitOf(e, s),
           e.op = "ACCESS" /\ e.roi \in Regions => e.ptr \in touched'[e.roi]
    PROVE  OwnInv'
<1>1. stream \in Seq(Entry) /\ Len(stream) \in Nat
  BY DEF IInv, TypeOK
<1>2. /\ Len(stream') = Len(stream) + 1 /\ stream'[Len(stream) + 1] = e
      /\ \A k \in 1 .. Len(stream) : stream'[k] = stream[k]
  BY <1>1
<1>3. ASSUME NEW s \in Regions, NEW p, NEW i \in 0 .. Len(stream),
             Own(stream, i, s, p, touched[s])
      PROVE  Own(stream', i, s, p, touched'[s])
  BY <1>1, <1>3, OwnAppend
<1>4. ASSUME NEW s \in Regions, NEW p \in Heard(s)'
      PROVE  Own(stream', 0, s, p, touched'[s])
  <2>1. p \in Heard(s) /\ 0 \in 0 .. Len(stream)
    BY <1>1, <1>4 DEF Heard
  <2> QED BY <1>3, <2>1 DEF OwnInv
<1>5. ASSUME NEW i \in 1 .. Len(stream'), stream'[i].op = "ACCESS", stream'[i].roi \in Regions
      PROVE  Own(stream', i, stream'[i].roi, stream'[i].ptr, touched'[stream'[i].roi])
  <2>1. CASE i = Len(stream) + 1
    BY <1>2, <1>5, <2>1 DEF Own
  <2>2. CASE i # Len(stream) + 1
    <3>1. i \in 1 .. Len(stream) /\ i \in 0 .. Len(stream) /\ stream'[i] = stream[i]
      BY <1>1, <1>2, <2>2
    <3>2. Own(stream, i, stream[i].roi, stream[i].ptr, touched[stream[i].roi])
      BY <1>5, <3>1 DEF OwnInv
    <3> QED BY <1>3, <1>5, <3>1, <3>2
  <2> QED BY <2>1, <2>2
<1> QED BY <1>4, <1>5 DEF OwnInv

\* An access by the program.
LEMMA AccessOwn ==
    ASSUME IInv, OwnInv, NEW p \in Addrs, Performed(p), UNCHANGED <<known, fresh>>,
           Ship("ACCESS", NoState, p) \/ stream' = stream
    PROVE  OwnInv'
<1> USE RegionsAssumption
<1>1. TypeOK /\ touched \in [Regions -> SUBSET Addrs] /\ open \in Seq(Regions)
  BY DEF IInv, TypeOK
<1>2. \A s \in Regions : touched[s] \subseteq touched'[s]
  BY <1>1 DEF Performed
<1>3. Innermost(open) \in Regions => p \in touched'[Innermost(open)]
  <2>1. open = <<>> => Innermost(open) \notin Regions
    BY DEF Innermost
  <2> QED BY <1>1, <2>1 DEF Performed
<1>4. CASE Ship("ACCESS", NoState, p)
  <2> DEFINE e == [op |-> "ACCESS", state |-> NoState, ptr |-> p, roi |-> Innermost(open)]
  <2>1. e \in Entry /\ stream' = Append(stream, e)
    BY <1>1, <1>4, ShipType DEF Ship
  <2>2. e.ptr = p /\ e.roi = Innermost(open)
    OBVIOUS
  <2> HIDE DEF e
  <2> QED BY <1>2, <1>3, <2>1, <2>2, ShipOwn
<1>5. CASE stream' = stream
  BY <1>2, <1>5 DEF OwnInv, Own, Heard
<1> QED BY <1>4, <1>5

\* A step of the specification keeps what is each ROI's own.
LEMMA OwnStep ==
    ASSUME IInv, OwnInv, [Next]_vars
    PROVE  OwnInv'
<1> USE RegionsAssumption
<1>1. TypeOK /\ stream \in Seq(Entry) /\ Len(stream) \in Nat
      /\ touched \in [Regions -> SUBSET Addrs]
  BY DEF IInv, TypeOK
<1>2. ASSUME NEW t \in Regions, GetState(t) PROVE OwnInv'
  <2> DEFINE e == [op |-> "BEGIN", state |-> t, ptr |-> NoState, roi |-> Innermost(open)]
  <2>1. e \in Entry /\ stream' = Append(stream, e) /\ UNCHANGED <<known, fresh, touched>>
    BY <1>1, <1>2, ShipType DEF GetState, Call, shadow, past, Ship
  <2>2. e.op = "BEGIN"
    OBVIOUS
  <2> HIDE DEF e
  <2> QED BY <2>1, <2>2, ShipOwn
<1>3. ASSUME EndState PROVE OwnInv'
  <2>1. UNCHANGED <<known, fresh, touched>>
    BY <1>3 DEF EndState, Call, shadow, past
  <2>2. CASE activeState = NoState
    <3>1. stream' = stream
      BY <1>3, <2>2 DEF EndState
    <3> QED BY <2>1, <3>1 DEF OwnInv, Own, Heard
  <2>3. CASE activeState # NoState
    <3> DEFINE e == [op |-> "END", state |-> activeState, ptr |-> NoState,
                     roi |-> Innermost(open)]
    <3>1. activeState \in Regions
      BY <1>1, <2>3 DEF TypeOK, RegionOrNone
    <3>2. e \in Entry /\ stream' = Append(stream, e)
      BY <1>1, <1>3, <2>3, <3>1, ShipType DEF EndState, Ship
    <3>3. e.op = "END"
      OBVIOUS
    <3> HIDE DEF e
    <3> QED BY <2>1, <3>2, <3>3, ShipOwn
  <2> QED BY <2>2, <2>3
<1>4. ASSUME NEW p \in Addrs, Load(p) PROVE OwnInv'
  BY <1>4, AccessOwn DEF Load, Call, shadow, past
<1>5. ASSUME NEW p \in Addrs, Store(p) PROVE OwnInv'
  BY <1>5, AccessOwn DEF Store, Call, shadow, past
<1>6. ASSUME NEW t \in Regions, EndStateInvocation(t) PROVE OwnInv'
  <2> DEFINE e == [op |-> "COMMIT", state |-> t, ptr |-> NoState, roi |-> Innermost(open)]
  <2>1. e \in Entry /\ stream' = Append(stream, e) /\ UNCHANGED <<known, fresh>>
        /\ touched' = [touched EXCEPT ![t] = {}]
    BY <1>1, <1>6, ShipType DEF EndStateInvocation, Call, shadow, past, Ship
  <2>2. e.op = "COMMIT" /\ e.state = t
    OBVIOUS
  <2> HIDE DEF e
  <2>3. \A s \in Regions : touched[s] \subseteq touched'[s] \/ CommitOf(e, s)
    BY <1>1, <2>1, <2>2 DEF CommitOf
  <2> QED BY <2>1, <2>2, <2>3, ShipOwn
<1>7. ASSUME Clean PROVE OwnInv'
  <2> DEFINE e == Head(stream)
  <2>1. stream # <<>> /\ stream' = Tail(stream) /\ UNCHANGED touched
    BY <1>7 DEF Clean, program
  <2>2. e \in Entry /\ e.roi = batchState /\ e = stream[1]
    BY <1>1, <2>1, ChainTail DEF IInv
  <2>3. known \in [Regions -> SUBSET Addrs] /\ fresh \in [Regions -> SUBSET Addrs]
        /\ batchState \in RegionOrNone
    BY <1>1 DEF TypeOK
  <2>4. Begin(e) \/ End(e) \/ Access(e) \/ Commit(e)
    BY <1>7 DEF Clean
  <2> HIDE DEF e
  <2>5. e.op \in {"BEGIN", "END", "COMMIT"} => e.state \in Regions
    BY <2>2 DEF Entry
  <2>6. ASSUME NEW s, NEW p, NEW own
        PROVE  /\ Own(stream, 0, s, p, own) /\ ~CommitOf(e, s) => Own(stream', 0, s, p, own)
               /\ \A i \in 1 .. Len(stream) :
                     Own(stream, i, s, p, own) => Own(stream', i - 1, s, p, own)
    BY <1>1, <2>1, OwnTail DEF e
  <2>7. ASSUME NEW s \in Regions, NEW p \in Heard(s)'
        PROVE  \/ p \in Heard(s) /\ ~CommitOf(e, s)
               \/ e.op = "ACCESS" /\ e.roi = s /\ e.ptr = p
    <3>1. CASE Begin(e)
      BY <2>3, <2>5, <2>7, <3>1 DEF Begin, Heard, CommitOf
    <3>2. CASE End(e)
      BY <2>3, <2>5, <2>7, <3>2 DEF End, Heard, CommitOf
    <3>3. CASE Access(e)
      BY <2>2, <2>3, <2>7, <3>3 DEF Access, Heard, CommitOf, RegionOrNone
    <3>4. CASE Commit(e)
      <4>1. known'[s] \subseteq known[s] /\ fresh'[s] \subseteq fresh[s]
        BY <2>3, <3>4 DEF Commit
      <4>2. CommitOf(e, s) => known'[s] = {} /\ fresh'[s] = {}
        BY <2>3, <3>4 DEF Commit, CommitOf
      <4> QED BY <2>7, <4>1, <4>2 DEF Heard
    <3> QED BY <2>4, <3>1, <3>2, <3>3, <3>4
  <2>8. ASSUME NEW s \in Regions, NEW p \in Heard(s)'
        PROVE  Own(stream', 0, s, p, touched'[s])
    <3>1. CASE p \in Heard(s) /\ ~CommitOf(e, s)
      BY <2>1, <2>6, <3>1 DEF OwnInv
    <3>2. CASE e.op = "ACCESS" /\ e.roi = s /\ e.ptr = p
      <4>1. 1 \in 1 .. Len(stream)
        BY <1>1, <2>1
      <4>2. Own(stream, 1, s, p, touched[s])
        BY <2>2, <3>2, <4>1 DEF OwnInv
      <4>3. Own(stream', 1 - 1, s, p, touched[s])
        BY <2>6, <4>1, <4>2
      <4> QED BY <2>1, <4>3
    <3> QED BY <2>7, <2>8, <3>1, <3>2
  <2>9. ASSUME NEW i \in 1 .. Len(stream'), stream'[i].op = "ACCESS", stream'[i].roi \in Regions
        PROVE  Own(stream', i, stream'[i].roi, stream'[i].ptr, touched'[stream'[i].roi])
    <3>1. i + 1 \in 1 .. Len(stream) /\ stream'[i] = stream[i + 1] /\ (i + 1) - 1 = i
      BY <1>1, <2>1
    <3>2. Own(stream, i + 1, stream'[i].roi, stream'[i].ptr, touched[stream'[i].roi])
      BY <2>9, <3>1 DEF OwnInv
    <3>3. Own(stream', (i + 1) - 1, stream'[i].roi, stream'[i].ptr, touched[stream'[i].roi])
      BY <2>6, <3>1, <3>2
    <3> QED BY <2>1, <3>1, <3>3
  <2> QED BY <2>8, <2>9 DEF OwnInv
<1>8. CASE UNCHANGED vars
  BY <1>8 DEF vars, program, main, shadow, past, OwnInv, Heard
<1> QED BY <1>2, <1>3, <1>4, <1>5, <1>6, <1>7, <1>8 DEF Next

\* Once the shadow thread has caught up, what it has heard of a ROI are
\* accesses that the ROI made since its last commit, nested ROIs included: for
\* any ROIs whose nesting is static, any addresses and any bounds.
THEOREM NothingForeign ==
    ASSUME StaticNesting
    PROVE  Spec => []OnlyOwnAccesses
<1>1. Init => IInv /\ OwnInv
  <2> SUFFICES ASSUME Init PROVE IInv /\ OwnInv
    OBVIOUS
  <2>1. Len(stream) = 0 /\ \A s \in Regions : Heard(s) = {}
    BY DEF Init, Heard
  <2> QED BY <2>1, InvInit DEF OwnInv
<1>2. IInv /\ OwnInv /\ [Next]_vars => (IInv /\ OwnInv)'
  BY InvStep, OwnStep
<1>3. IInv /\ OwnInv => OnlyOwnAccesses
  <2> SUFFICES ASSUME OwnInv, stream = <<>>, NEW s \in Regions, NEW p \in Heard(s)
               PROVE  p \in touched[s]
    BY DEF OnlyOwnAccesses
  <2>1. Uncommitted(stream, 0, s)
    BY DEF Uncommitted
  <2> QED BY <2>1 DEF OwnInv, Own
<1> QED BY <1>1, <1>2, <1>3, PTL DEF Spec

-----------------------------------------------------------------------------
(***************************************************************************)
(* Wrapper and shadow agree on the active ROI whatever the nesting, static *)
(* or not: recursive ROIs too.  The entries of the stream turn the         *)
(* shadow's batchState, one after the other, into activeState; f lists the *)
(* ROIs on that way.                                                       *)
(***************************************************************************)
Turn(e, par, r) ==
    IF e.op = "BEGIN" THEN e.state ELSE IF e.op = "END" THEN par[e.state] ELSE r

Way(f, q, par, from, to) ==
    /\ f \in [1 .. Len(q) + 1 -> RegionOrNone]
    /\ f[1] = from /\ f[Len(q) + 1] = to
    /\ \A i \in 1 .. Len(q) : f[i + 1] = Turn(q[i], par, f[i])

\* The active ROI, and the parent of every ROI that has a State, has a State.
ActiveStates ==
    /\ activeState # NoState => activeState \in stateMap
    /\ \A s \in stateMap : parent[s] # NoState => parent[s] \in stateMap

FollowInv ==
    /\ TypeOK /\ StreamStates /\ ActiveStates
    /\ \E f : Way(f, stream, parent, batchState, activeState)

\* A shipped entry turns the active ROI, and a new State turns no entry that
\* is on its way.
LEMMA ShipFollows ==
    ASSUME FollowInv, NEW e \in Entry, stream' = Append(stream, e),
           e.op # "ACCESS" => e.state \in stateMap', stateMap \subseteq stateMap',
           \A t \in stateMap : parent'[t] = parent[t],
           activeState' = Turn(e, parent', activeState), activeState' \in RegionOrNone,
           UNCHANGED batchState
    PROVE  StreamStates' /\ \E f : Way(f, stream', parent', batchState', activeState')
<1>1. stream \in Seq(Entry) /\ Len(stream) \in Nat
  BY DEF FollowInv, TypeOK
<1>2. PICK n : n = Len(stream)
  OBVIOUS
<1>3. /\ n \in Nat /\ Len(stream') = n + 1 /\ stream'[n + 1] = e
      /\ \A k \in 1 .. n : stream'[k] = stream[k]
  BY <1>1, <1>2
<1>4. StreamStates'
  <2> SUFFICES ASSUME NEW i \in 1 .. Len(stream'), stream'[i].op # "ACCESS"
               PROVE  stream'[i].state \in stateMap'
    BY DEF StreamStates
  <2>1. i = n + 1 \/ i \in 1 .. n
    BY <1>3
  <2> QED BY <1>2, <1>3, <2>1 DEF FollowInv, StreamStates
<1>5. PICK f : Way(f, stream, parent, batchState, activeState)
  BY DEF FollowInv
<1>6. /\ f \in [1 .. n + 1 -> RegionOrNone] /\ f[1] = batchState /\ f[n + 1] = activeState
      /\ \A i \in 1 .. n : f[i + 1] = Turn(stream[i], parent, f[i])
  BY <1>2, <1>5 DEF Way
<1>7. PICK a : a = activeState'
  OBVIOUS
<1>8. PICK g : g = [i \in 1 .. (n + 1) + 1 |-> IF i = (n + 1) + 1 THEN a ELSE f[i]]
  OBVIOUS
<1>9. /\ g \in [1 .. (n + 1) + 1 -> RegionOrNone] /\ g[(n + 1) + 1] = a
      /\ \A i \in 1 .. n + 1 : g[i] = f[i]
  BY <1>3, <1>6, <1>7, <1>8
<1>10. g[1] = batchState
  BY <1>3, <1>6, <1>9
<1>11. ASSUME NEW i \in 1 .. n + 1
       PROVE  g[i + 1] = Turn(stream'[i], parent', g[i])
  <2>1. CASE i = n + 1
    BY <1>3, <1>6, <1>7, <1>9, <2>1
  <2>2. CASE i # n + 1
    <3>1. i \in 1 .. n /\ i \in 1 .. n + 1 /\ i + 1 \in 1 .. n + 1
      BY <1>3, <2>2
    <3>2. g[i] = f[i] /\ g[i + 1] = f[i + 1] /\ stream'[i] = stream[i]
      BY <1>3, <1>9, <3>1
    <3>3. stream[i].op # "ACCESS" => parent'[stream[i].state] = parent[stream[i].state]
      BY <1>2, <3>1 DEF FollowInv, StreamStates
    <3>4. Turn(stream[i], parent', f[i]) = Turn(stream[i], parent, f[i])
      BY <3>3 DEF Turn
    <3> QED BY <1>6, <3>1, <3>2, <3>4
  <2> QED BY <2>1, <2>2
<1>12. Way(g, stream', parent', batchState', activeState')
  BY <1>3, <1>7, <1>9, <1>10, <1>11 DEF Way
<1> QED BY <1>4, <1>12

\* Cleaning an entry takes the shadow one ROI further on the way.
LEMMA CleanFollows ==
    ASSUME FollowInv, Clean
    PROVE  StreamStates' /\ \E f : Way(f, stream', parent', batchState', activeState')
<1>1. stream # <<>> /\ stream' = Tail(stream) /\ UNCHANGED <<parent, activeState, stateMap>>
      /\ stream \in Seq(Entry)
  BY DEF Clean, main, FollowInv, TypeOK
<1>2. PICK n : n = Len(stream)
  OBVIOUS
<1>3. PICK e : e = Head(stream)
  OBVIOUS
<1>4. /\ n \in Nat /\ n >= 1 /\ Len(stream') = n - 1 /\ e = stream[1]
      /\ \A k \in 1 .. n - 1 : stream'[k] = stream[k + 1]
  BY <1>1, <1>2, <1>3
<1>5. StreamStates'
  <2> SUFFICES ASSUME NEW i \in 1 .. Len(stream'), stream'[i].op # "ACCESS"
               PROVE  stream'[i].state \in stateMap'
    BY DEF StreamStates
  <2>1. i + 1 \in 1 .. n /\ stream'[i] = stream[i + 1]
    BY <1>4
  <2> QED BY <1>1, <1>2, <2>1 DEF FollowInv, StreamStates
<1>6. batchState' = Turn(e, parent, batchState)
  <2>1. Begin(e) \/ End(e) \/ Access(e) \/ Commit(e)
    BY <1>3 DEF Clean
  <2> QED BY <2>1 DEF Begin, End, Access, Commit, Turn
<1>7. PICK f : Way(f, stream, parent, batchState, activeState)
  BY DEF FollowInv
<1>8. /\ f \in [1 .. n + 1 -> RegionOrNone] /\ f[1] = batchState /\ f[n + 1] = activeState
      /\ \A i \in 1 .. n : f[i + 1] = Turn(stream[i], parent, f[i])
  BY <1>2, <1>7 DEF Way
<1>9. PICK g : g = [i \in 1 .. n |-> f[i + 1]]
  OBVIOUS
<1>10. g \in [1 .. n -> RegionOrNone] /\ \A i \in 1 .. n : g[i] = f[i + 1]
  BY <1>4, <1>8, <1>9
<1>11. g[1] = batchState'
  <2>1. 1 \in 1 .. n /\ f[1 + 1] = Turn(stream[1], parent, f[1])
    BY <1>4, <1>8
  <2> QED BY <1>4, <1>6, <1>8, <1>10, <2>1
<1>12. g[n] = activeState
  BY <1>4, <1>8, <1>10
<1>13. ASSUME NEW i \in 1 .. n - 1
       PROVE  g[i + 1] = Turn(stream'[i], parent, g[i])
  <2>1. i \in 1 .. n /\ i + 1 \in 1 .. n
    BY <1>4
  <2> QED BY <1>4, <1>8, <1>10, <2>1
<1>14. (n - 1) + 1 = n
  BY <1>4
<1>15. Way(g, stream', parent', batchState', activeState')
  BY <1>1, <1>4, <1>10, <1>11, <1>12, <1>13, <1>14 DEF Way
<1> QED BY <1>5, <1>15

\* A step of the specification keeps the way.
LEMMA FollowStep == FollowInv /\ [Next]_vars => FollowInv'
<1> SUFFICES ASSUME FollowInv, [Next]_vars PROVE FollowInv'
  OBVIOUS
<1> USE RegionsAssumption
<1>1. TypeOK /\ TypeOK' /\ ActiveStates /\ StreamStates
  BY TypeStep DEF FollowInv
<1>2. activeState \in RegionOrNone /\ activeState' \in RegionOrNone /\ stateMap \subseteq Regions
      /\ parent \in [Regions -> RegionOrNone]
  BY <1>1 DEF TypeOK
<1>3. ASSUME NEW t \in Regions, GetState(t) PROVE FollowInv'
  <2> DEFINE e == [op |-> "BEGIN", state |-> t, ptr |-> NoState, roi |-> Innermost(open)]
  <2>1. e \in Entry /\ stream' = Append(stream, e) /\ UNCHANGED batchState
    BY <1>1, <1>3, ShipType DEF GetState, Ship, Call, shadow, past
  <2>2. stateMap' = stateMap \cup {t} /\ activeState' = t
    BY <1>3 DEF GetState
  <2>3. \A r \in stateMap : parent'[r] = parent[r]
    BY <1>2, <1>3 DEF GetState
  <2>4. e.op = "BEGIN" /\ e.state = t
    OBVIOUS
  <2> HIDE DEF e
  <2>5. StreamStates' /\ \E f : Way(f, stream', parent', batchState', activeState')
    BY <1>2, <2>1, <2>2, <2>3, <2>4, ShipFollows DEF Turn
  <2>6. t \notin stateMap => parent'[t] = activeState
    BY <1>2, <1>3 DEF GetState
  <2>7. ActiveStates'
    BY <1>1, <2>2, <2>3, <2>6 DEF ActiveStates
  <2> QED BY <1>1, <2>5, <2>7 DEF FollowInv
<1>4. ASSUME EndState PROVE FollowInv'
  <2>1. UNCHANGED <<stateMap, parent, batchState>>
    BY <1>4 DEF EndState, Call, shadow, past
  <2>2. CASE activeState = NoState
    <3>1. UNCHANGED <<stream, activeState>>
      BY <1>4, <2>2 DEF EndState
    <3> QED BY <1>1, <2>1, <3>1 DEF FollowInv, StreamStates, ActiveStates
  <2>3. CASE activeState # NoState
    <3> DEFINE e == [op |-> "END", state |-> activeState, ptr |-> NoState,
                     roi |-> Innermost(open)]
    <3>1. activeState \in Regions /\ activeState \in stateMap
      BY <1>1, <1>2, <2>3 DEF ActiveStates
    <3>2. e \in Entry /\ stream' = Append(stream, e) /\ activeState' = parent[activeState]
      BY <1>1, <1>4, <2>3, <3>1, ShipType DEF EndState, Ship
    <3>3. e.op = "END" /\ e.state = activeState
      OBVIOUS
    <3> HIDE DEF e
    <3>4. activeState' = Turn(e, parent', activeState)
      BY <2>1, <3>2, <3>3 DEF Turn
    <3>5. StreamStates' /\ \E f : Way(f, stream', parent', batchState', activeState')
      BY <1>2, <2>1, <3>1, <3>2, <3>3, <3>4, ShipFollows
    <3>6. ActiveStates'
      BY <1>1, <2>1, <3>1, <3>2 DEF ActiveStates
    <3> QED BY <1>1, <3>5, <3>6 DEF FollowInv
  <2> QED BY <2>2, <2>3
<1>5. ASSUME UNCHANGED <<stateMap, parent, batchState, activeState>>,
             stream' = stream \/ \E e \in Entry : /\ e.op \in {"ACCESS", "COMMIT"}
                                                  /\ e.op = "COMMIT" => e.state \in stateMap
                                                  /\ stream' = Append(stream, e)
      PROVE  FollowInv'
  <2>1. ActiveStates'
    BY <1>1, <1>5 DEF ActiveStates
  <2>2. CASE stream' = stream
    BY <1>1, <1>5, <2>1, <2>2 DEF FollowInv, StreamStates
  <2>3. ASSUME NEW e \in Entry, e.op \in {"ACCESS", "COMMIT"},
               e.op = "COMMIT" => e.state \in stateMap, stream' = Append(stream, e)
        PROVE  FollowInv'
    <3>1. activeState' = Turn(e, parent', activeState)
      BY <1>5, <2>3 DEF Turn
    <3>2. e.op # "ACCESS" => e.state \in stateMap'
      BY <1>5, <2>3
    <3>3. StreamStates' /\ \E f : Way(f, stream', parent', batchState', activeState')
      BY <1>2, <1>5, <2>3, <3>1, <3>2, ShipFollows
    <3> QED BY <1>1, <2>1, <3>3 DEF FollowInv
  <2> QED BY <1>5, <2>2, <2>3
<1>6. ASSUME NEW p \in Addrs, Load(p) \/ Store(p) PROVE FollowInv'
  <2>1. UNCHANGED <<stateMap, parent, batchState, activeState>>
        /\ (stream' = stream \/ Ship("ACCESS", NoState, p))
    BY <1>6 DEF Load, Store, Call, shadow, past
  <2>2. CASE stream' = stream
    BY <1>5, <2>1, <2>2
  <2>3. CASE Ship("ACCESS", NoState, p)
    <3> DEFINE e == [op |-> "ACCESS", state |-> NoState, ptr |-> p, roi |-> Innermost(open)]
    <3>1. e \in Entry /\ stream' = Append(stream, e) /\ e.op = "ACCESS"
      BY <1>1, <2>3, ShipType DEF Ship
    <3> HIDE DEF e
    <3> QED BY <1>5, <2>1, <3>1
  <2> QED BY <2>1, <2>2, <2>3
<1>7. ASSUME NEW t \in Regions, EndStateInvocation(t) PROVE FollowInv'
  <2> DEFINE e == [op |-> "COMMIT", state |-> t, ptr |-> NoState, roi |-> Innermost(open)]
  <2>1. e \in Entry /\ stream' = Append(stream, e) /\ t \in stateMap
        /\ UNCHANGED <<stateMap, parent, batchState, activeState>>
    BY <1>1, <1>7, ShipType DEF EndStateInvocation, Ship, Call, shadow, past, main
  <2>2. e.op = "COMMIT" /\ e.state = t
    OBVIOUS
  <2> HIDE DEF e
  <2> QED BY <1>5, <2>1, <2>2
<1>8. ASSUME Clean PROVE FollowInv'
  <2>1. StreamStates' /\ \E f : Way(f, stream', parent', batchState', activeState')
    BY <1>8, CleanFollows
  <2>2. ActiveStates'
    BY <1>1, <1>8 DEF ActiveStates, Clean, main
  <2> QED BY <1>1, <2>1, <2>2 DEF FollowInv
<1>9. CASE UNCHANGED vars
  <2>1. UNCHANGED <<stream, stateMap, parent, batchState, activeState>>
    BY <1>9 DEF vars, main, shadow, past
  <2> QED BY <1>5, <2>1
<1> QED BY <1>3, <1>4, <1>6, <1>7, <1>8, <1>9 DEF Next

\* When the shadow thread has caught up, cleanBatch's batchState is the
\* wrapper's activeState: for any ROIs, also recursive ones and ones that are
\* entered from several places, any addresses and any bounds.
THEOREM ShadowAgrees == Spec => []ShadowFollows
<1>1. Init => FollowInv
  <2> SUFFICES ASSUME Init PROVE FollowInv
    OBVIOUS
  <2>1. /\ stream = <<>> /\ Len(stream) = 0 /\ stateMap = {}
        /\ batchState = NoState /\ activeState = NoState
    BY DEF Init
  <2>2. PICK f : f = [i \in 1 .. 1 |-> NoState]
    OBVIOUS
  <2>3. f \in [1 .. 1 -> RegionOrNone] /\ f[1] = NoState
    BY <2>2 DEF RegionOrNone
  <2>4. Way(f, stream, parent, batchState, activeState)
    BY <2>1, <2>3 DEF Way
  <2> QED BY <2>1, <2>4, TypeInit DEF FollowInv, StreamStates, ActiveStates
<1>2. FollowInv /\ [Next]_vars => FollowInv'
  BY FollowStep
<1>3. FollowInv => ShadowFollows
  <2> SUFFICES ASSUME FollowInv, stream = <<>> PROVE batchState = activeState
    BY DEF ShadowFollows
  <2>1. PICK f : Way(f, stream, parent, batchState, activeState)
    BY DEF FollowInv
  <2> QED BY <2>1 DEF Way
<1> QED BY <1>1, <1>2, <1>3, PTL DEF Spec

=============================================================================
