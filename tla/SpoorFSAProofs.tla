--------------------------- MODULE SpoorFSAProofs ---------------------------
(***************************************************************************)
(* SpoorFSA for any set of addresses and any number of iterations and      *)
(* accesses: the automaton computes the reference classification.          *)
(***************************************************************************)
EXTENDS SpoorFSA, TLAPS

-----------------------------------------------------------------------------
(***************************************************************************)
(* What one more access does to the reference.  h is a history of accesses *)
(* that happened before time t, in iterations up to k, and e is the access *)
(* that iteration k performs at time t.                                    *)
(***************************************************************************)

\* The iteration that runs has touched the address already.
Touched(h, k) == \E f \in h : f.it = k

Past(h, t, k) == \A f \in h : f.t < t /\ f.it <= k

\* A history is written once one of its accesses, old or new, is a write.
LEMMA AddWritten ==
  ASSUME NEW h \in SUBSET Event, NEW e \in Event
  PROVE  Written(h \cup {e}) <=> Written(h) \/ e.rw = "WRITE"
BY DEF Written

\* The first access of all stays the first.
LEMMA AddReadsFirst ==
  ASSUME NEW h \in SUBSET Event, NEW e \in Event, Past(h, e.t, e.it)
  PROVE  ReadsFirst(h \cup {e}) <=> IF h = {} THEN e.rw = "READ" ELSE ReadsFirst(h)
<1>1. CASE h = {}
  BY <1>1 DEF ReadsFirst, Event
<1>2. CASE h # {}
  <2>1. ReadsFirst(h) => ReadsFirst(h \cup {e})
    BY DEF ReadsFirst, Past, Event
  <2>2. ASSUME ReadsFirst(h \cup {e})  PROVE ReadsFirst(h)
    <3>1. PICK f \in h \cup {e} : f.rw = "READ" /\ \A g \in h \cup {e} : f.t <= g.t
      BY <2>2 DEF ReadsFirst
    <3>2. f # e
      BY <1>2, <3>1 DEF Past, Event
    <3>3. QED
      BY <3>1, <3>2 DEF ReadsFirst
  <2>3. QED
    BY <1>2, <2>1, <2>2
<1>3. QED
  BY <1>1, <1>2

\* A later access of an iteration changes nothing in how iterations start.
LEMMA AddFollowsTouched ==
  ASSUME NEW h \in SUBSET Event, NEW e \in Event, NEW rw,
         Past(h, e.t, e.it), Touched(h, e.it)
  PROVE  FollowsWrite(h \cup {e}, rw) <=> FollowsWrite(h, rw)
<1>1. ~Leads(h \cup {e}, e)
  BY DEF Past, Touched, Leads, Event
<1>2. \A f \in h : Leads(h \cup {e}, f) <=> Leads(h, f)
  BY DEF Past, Leads, Event
<1>3. \A f \in h : ~(e.it < f.it)
  BY DEF Past, Event
<1>4. QED
  BY <1>1, <1>2, <1>3 DEF FollowsWrite

\* The first access of an iteration follows every write of earlier ones.
LEMMA AddFollowsUntouched ==
  ASSUME NEW h \in SUBSET Event, NEW e \in Event, NEW rw,
         Past(h, e.t, e.it), ~Touched(h, e.it)
  PROVE  FollowsWrite(h \cup {e}, rw) <=>
            FollowsWrite(h, rw) \/ (Written(h) /\ e.rw = rw)
<1>1. Leads(h \cup {e}, e)
  BY DEF Touched, Leads, Event
<1>2. \A f \in h : Leads(h \cup {e}, f) <=> Leads(h, f)
  BY DEF Past, Leads, Event
<1>3. \A f \in h : ~(e.it < f.it) /\ f.it < e.it
  BY DEF Past, Touched, Event
<1>4. ~(e.it < e.it)
  BY DEF Event
<1>5. QED
  BY <1>1, <1>2, <1>3, <1>4 DEF FollowsWrite, Written

\* Within one iteration nothing follows a write of an earlier one.
LEMMA OneIteration ==
  ASSUME NEW h \in SUBSET Event, NEW k \in Nat, NEW rw, \A f \in h : f.it = k
  PROVE  ~FollowsWrite(h, rw)
BY DEF FollowsWrite, Event

\* An iteration can follow a write only if there is one.
LEMMA FollowsNeedsWrite ==
  ASSUME NEW h, NEW rw, FollowsWrite(h, rw)
  PROVE  Written(h)
BY DEF FollowsWrite, Written

\* The reference in terms of the four facts it rests on.
LEMMA ReferenceCases ==
  ASSUME NEW h
  PROVE  /\ Reference(h) \in Classes
         /\ Reference(h) = "INPUT"  <=> ReadsFirst(h) /\ ~Written(h)
         /\ Reference(h) = "TIO"    <=> ReadsFirst(h) /\ Transfer(h)
         /\ Reference(h) = "CIO"    <=> ReadsFirst(h) /\ ~Transfer(h) /\ Overwritten(h)
         /\ Reference(h) = "IO"     <=> /\ ReadsFirst(h) /\ Written(h)
                                        /\ ~Transfer(h) /\ ~Overwritten(h)
         /\ Reference(h) = "TO"     <=> ~ReadsFirst(h) /\ Transfer(h)
         /\ Reference(h) = "CO"     <=> ~ReadsFirst(h) /\ ~Transfer(h) /\ Overwritten(h)
         /\ Reference(h) = "OUTPUT" <=> ~ReadsFirst(h) /\ ~Transfer(h) /\ ~Overwritten(h)
<1>1. Transfer(h) => Written(h)
  BY FollowsNeedsWrite DEF Transfer
<1>2. Overwritten(h) => Written(h)
  BY FollowsNeedsWrite DEF Overwritten
<1>3. QED
  BY <1>1, <1>2 DEF Reference, Classes, InputFamily, OutputFamily

-----------------------------------------------------------------------------
(***************************************************************************)
(* The inductive invariant.  The filter holds exactly what this iteration  *)
(* loaded and stored; statePtrMap knows exactly the addresses that earlier *)
(* iterations touched; and an address is marked when this iteration has    *)
(* touched it and more reads cannot change its class.                      *)
(***************************************************************************)
FilterInv(p) ==
    /\ inROI  => /\ p \in loads <=> \E e \in hist[p] : e.it = iter /\ e.rw = "READ"
                 /\ p \in stores <=> \E e \in hist[p] : e.it = iter /\ e.rw = "WRITE"
    /\ ~inROI => p \notin loads /\ p \notin stores

KnownInv(p) ==
    /\ inROI  => /\ statePtrMap[p] # NoClass <=> \E e \in hist[p] : e.it < iter
                 /\ statePtrMap[p] # NoClass => statePtrIterMap[p] = NoClass
                 /\ p \in currentPtrIterUpgrades <=>
                       /\ statePtrMap[p] \notin {NoClass, "INPUT"}
                       /\ Touched(hist[p], iter)
    /\ ~inROI => (statePtrMap[p] # NoClass <=> hist[p] # {})

ClassInv(p) == Class(p) = IF hist[p] = {} THEN NoClass ELSE Reference(hist[p])

PastInv(p) == Past(hist[p], clock, iter)

\* Written first if not read first.  (A least time exists, but that takes an
\* induction over the history; the automaton gives it step by step.)
OriginInv(p) == hist[p] # {} => ReadsFirst(hist[p]) \/ Written(hist[p])

AddrInv(p) ==
    PastInv(p) /\ OriginInv(p) /\ FilterInv(p) /\ KnownInv(p) /\ ClassInv(p)

IInv == TypeOK /\ \A p \in Addrs : AddrInv(p)

-----------------------------------------------------------------------------
\* The automaton of a committed address (statePtrMap) yields a class.
LEMMA KnownStepType ==
  ASSUME NEW c \in Classes, NEW m, NEW rw \in RawOps
  PROVE  KnownStep(c, m, rw) \in Classes
BY DEF KnownStep, Classes, InputFamily, OutputFamily

\* The first access of an address yields a class.
LEMMA FirstClassType ==
  ASSUME NEW rw
  PROVE  FirstClass(rw) \in Classes
BY DEF FirstClass, Classes, InputFamily, OutputFamily

\* The automaton of an address new in this iteration yields a class.
LEMMA IterStepType ==
  ASSUME NEW c \in Classes, NEW rw
  PROVE  IterStep(c, rw) \in Classes
BY DEF IterStep, Classes, InputFamily, OutputFamily

\* An address without an entry in a map is told from every classified one.
LEMMA NoClassIsNoClass == NoClass \notin Classes
BY DEF NoClass, Classes, InputFamily, OutputFamily

\* Classifying an access keeps the types of the three maps.
LEMMA ClassifyTypes ==
  ASSUME TypeOK, NEW p \in Addrs, NEW rw \in RawOps, Classify(p, rw)
  PROVE  /\ statePtrMap' \in [Addrs -> Classes \cup {NoClass}]
         /\ statePtrIterMap' \in [Addrs -> Classes \cup {NoClass}]
         /\ currentPtrIterUpgrades' \subseteq Addrs
<1>1. CASE statePtrMap[p] # NoClass
  <2>1. statePtrMap[p] \in Classes
    BY <1>1 DEF TypeOK
  <2>2. KnownStep(statePtrMap[p], p \in currentPtrIterUpgrades, rw) \in Classes
    BY <2>1, KnownStepType
  <2>3. QED
    BY <1>1, <2>2 DEF TypeOK, Classify
<1>2. CASE statePtrMap[p] = NoClass
  <2>1. (IF statePtrIterMap[p] = NoClass THEN FirstClass(rw)
                     ELSE IterStep(statePtrIterMap[p], rw)) \in Classes
    <3>1. CASE statePtrIterMap[p] = NoClass
      BY <3>1, FirstClassType
    <3>2. CASE statePtrIterMap[p] # NoClass
      <4>1. statePtrIterMap[p] \in Classes
        BY <3>2 DEF TypeOK
      <4>2. QED
        BY <3>2, <4>1, IterStepType
    <3>3. QED
      BY <3>1, <3>2
  <2>2. QED
    BY <1>2, <2>1 DEF TypeOK, Classify
<1>3. QED
  BY <1>1, <1>2

\* Performing an access keeps the types of the clock and the history.
LEMMA PerformedTypes ==
  ASSUME TypeOK, NEW p \in Addrs, NEW rw \in RawOps, Performed(p, rw)
  PROVE  /\ inROI' \in BOOLEAN
         /\ iter' \in 0..MaxIters
         /\ clock' \in 0..MaxAccesses
         /\ hist' \in [Addrs -> SUBSET Event]
         /\ [t |-> clock, it |-> iter, rw |-> rw] \in Event
<1>1. clock \in Nat /\ iter \in Nat
  BY BoundsAssumption DEF TypeOK
<1>2. [t |-> clock, it |-> iter, rw |-> rw] \in Event
  BY <1>1 DEF Event
<1>3. QED
  BY <1>1, <1>2, BoundsAssumption DEF TypeOK, Performed

\* The types hold at the start.
LEMMA InitTypes == Init => TypeOK
<1> SUFFICES ASSUME Init  PROVE TypeOK
  OBVIOUS
<1>1. iter \in 0..MaxIters /\ clock \in 0..MaxAccesses
  BY BoundsAssumption DEF Init
<1>2. NoClasses \in [Addrs -> Classes \cup {NoClass}]
  BY DEF NoClasses
<1>3. hist \in [Addrs -> SUBSET Event]
  BY DEF Init
<1>4. QED
  BY <1>1, <1>2, <1>3 DEF Init, TypeOK

\* A step of the specification keeps the types.
LEMMA NextTypes == TypeOK /\ [Next]_vars => TypeOK'
<1> SUFFICES ASSUME TypeOK, [Next]_vars  PROVE TypeOK'
  OBVIOUS
<1>1. CASE GetState
  BY <1>1, BoundsAssumption DEF GetState, TypeOK, NoClasses, filter
<1>2. ASSUME NEW p \in Addrs, Load(p)  PROVE TypeOK'
  <2>1. "READ" \in RawOps
    BY DEF RawOps
  <2>2. Performed(p, "READ")
    BY <1>2 DEF Load
  <2>3. CASE Classify(p, "READ")
    BY <1>2, <2>1, <2>2, <2>3, ClassifyTypes, PerformedTypes DEF Load, TypeOK, maps
  <2>4. CASE UNCHANGED maps
    BY <1>2, <2>1, <2>2, <2>4, PerformedTypes DEF Load, TypeOK, maps
  <2>5. QED
    BY <1>2, <2>3, <2>4 DEF Load, maps
<1>3. ASSUME NEW p \in Addrs, Store(p)  PROVE TypeOK'
  <2>1. "WRITE" \in RawOps
    BY DEF RawOps
  <2>2. Performed(p, "WRITE")
    BY <1>3 DEF Store
  <2>3. CASE Classify(p, "WRITE")
    BY <1>3, <2>1, <2>2, <2>3, ClassifyTypes, PerformedTypes DEF Store, TypeOK, maps
  <2>4. CASE UNCHANGED maps
    BY <1>3, <2>1, <2>2, <2>4, PerformedTypes DEF Store, TypeOK, maps
  <2>5. QED
    BY <1>3, <2>3, <2>4 DEF Store, maps
<1>4. CASE EndState
  BY <1>4 DEF EndState, TypeOK
<1>5. CASE EndStateInvocation
  BY <1>5 DEF EndStateInvocation, TypeOK, NoClasses, filter
<1>6. CASE UNCHANGED vars
  BY <1>6 DEF vars, TypeOK
<1>7. QED
  BY <1>1, <1>2, <1>3, <1>4, <1>5, <1>6 DEF Next

\* Every variable of SpoorFSA keeps its type.
THEOREM TypeCorrect == Spec => []TypeOK
BY InitTypes, NextTypes, PTL DEF Spec

-----------------------------------------------------------------------------
(***************************************************************************)
(* One access.  A shipped access steps the automaton to the class of the   *)
(* longer history; a filtered one leaves that class as it is, because the  *)
(* iteration has performed the same operation on the address before.       *)
(***************************************************************************)
\* An access adds to the history one event later than all others.
LEMMA PerformedFacts ==
  ASSUME TypeOK, NEW p \in Addrs, AddrInv(p), NEW rw \in RawOps, Performed(p, rw)
  PROVE  /\ hist[p] \in SUBSET Event
         /\ \E e \in Event : /\ e.t = clock /\ e.it = iter /\ e.rw = rw
                             /\ Past(hist[p], e.t, e.it)
                             /\ hist'[p] = hist[p] \cup {e}
         /\ iter \in Nat /\ clock \in Nat
         /\ clock' = clock + 1 /\ iter' = iter /\ inROI /\ inROI'
<1>1. [t |-> clock, it |-> iter, rw |-> rw] \in Event
  BY PerformedTypes
<1>2. Past(hist[p], clock, iter)
  BY DEF AddrInv, PastInv
<1>3. iter \in Nat /\ clock \in Nat
  BY BoundsAssumption DEF TypeOK
<1>4. hist[p] \in SUBSET Event
  BY DEF TypeOK
<1>5. hist'[p] = hist[p] \cup {[t |-> clock, it |-> iter, rw |-> rw]}
  BY DEF Performed, TypeOK
<1>6. QED
  BY <1>1, <1>2, <1>3, <1>4, <1>5 DEF Performed

\* A shipped access to a committed address: its class follows its history.
LEMMA ShippedKnown ==
  ASSUME TypeOK, NEW p \in Addrs, AddrInv(p), NEW rw \in RawOps,
         Performed(p, rw), Classify(p, rw), statePtrMap[p] # NoClass
  PROVE  KnownInv(p)' /\ ClassInv(p)'
<1> DEFINE h == hist[p]
           c == statePtrMap[p]
           m == p \in currentPtrIterUpgrades
<1>1. PICK e \in Event : /\ e.t = clock /\ e.it = iter /\ e.rw = rw
                         /\ Past(h, e.t, e.it)
                         /\ hist'[p] = h \cup {e}
  BY PerformedFacts
<1>2. /\ h \in SUBSET Event /\ iter \in Nat
      /\ iter' = iter /\ inROI /\ inROI'
  BY PerformedFacts
<1>3. /\ statePtrMap'[p] = KnownStep(c, m, rw)
      /\ p \in currentPtrIterUpgrades' <=> m \/ Marks(c, rw)
      /\ statePtrIterMap' = statePtrIterMap
  BY DEF Classify, TypeOK
<1>4. c \in Classes /\ h # {} /\ c = Reference(h)
  <2>1. h # {}
    BY <1>2 DEF AddrInv, KnownInv
  <2>2. QED
    BY <2>1 DEF AddrInv, ClassInv, Class, TypeOK
<1>5. m <=> c # "INPUT" /\ Touched(h, iter)
  BY <1>2, <1>4 DEF AddrInv, KnownInv
<1>6. KnownStep(c, m, rw) \in Classes
  BY <1>4, KnownStepType
<1>7. /\ Written(h \cup {e}) <=> Written(h) \/ rw = "WRITE"
      /\ ReadsFirst(h \cup {e}) <=> ReadsFirst(h)
  BY <1>1, <1>2, <1>4, AddWritten, AddReadsFirst
<1>8. KnownStep(c, m, rw) = Reference(h \cup {e})
  <2>1. CASE Touched(h, iter)
    <3>1. /\ Transfer(h \cup {e}) <=> Transfer(h)
          /\ Overwritten(h \cup {e}) <=> Overwritten(h)
      BY <1>1, <1>2, <2>1, AddFollowsTouched DEF Transfer, Overwritten
    <3>2. CASE c = "INPUT"
      <4>1. ReadsFirst(h) /\ ~Written(h)
        BY <1>4, <3>2, ReferenceCases
      <4>2. ~Transfer(h) /\ ~Overwritten(h)
        BY <4>1, FollowsNeedsWrite DEF Transfer, Overwritten
      <4>3. KnownStep(c, m, rw) = IF rw = "WRITE" THEN "IO" ELSE "INPUT"
        BY <3>2 DEF KnownStep
      <4>4. QED
        BY <1>7, <3>1, <4>1, <4>2, <4>3, ReferenceCases
    <3>3. CASE c # "INPUT"
      <4>1. KnownStep(c, m, rw) = c
        BY <1>5, <2>1, <3>3 DEF KnownStep
      <4>2. Written(h) \/ ~ReadsFirst(h)
        BY <1>4, <3>3, ReferenceCases
      <4>3. Reference(h \cup {e}) = Reference(h)
        BY <1>7, <3>1, <4>2 DEF Reference
      <4>4. QED
        BY <1>4, <4>1, <4>3
    <3>4. QED
      BY <3>2, <3>3
  <2>2. CASE ~Touched(h, iter)
    <3>1. /\ Transfer(h \cup {e}) <=> Transfer(h) \/ (Written(h) /\ rw = "READ")
          /\ Overwritten(h \cup {e}) <=> Overwritten(h) \/ (Written(h) /\ rw = "WRITE")
      BY <1>1, <1>2, <2>2, AddFollowsUntouched DEF Transfer, Overwritten
    <3>2. ~m
      BY <1>5, <2>2
    <3>3. /\ Transfer(h) => Written(h)
          /\ Overwritten(h) => Written(h)
      BY FollowsNeedsWrite DEF Transfer, Overwritten
    <3>4. ReadsFirst(h) \/ Written(h)
      BY <1>4 DEF AddrInv, OriginInv
    <3>5. KnownStep(c, m, rw) =
            IF c = "INPUT" THEN (IF rw = "WRITE" THEN "IO" ELSE "INPUT")
            ELSE IF c = "IO" THEN (IF rw = "READ" THEN "TIO" ELSE "CIO")
            ELSE IF c = "CIO" /\ rw = "READ" THEN "TIO"
            ELSE IF c = "OUTPUT" THEN (IF rw = "READ" THEN "TO" ELSE "CO")
            ELSE IF c = "CO" /\ rw = "READ" THEN "TO"
            ELSE c
      BY <3>2 DEF KnownStep
    <3>6. QED
      BY <1>4, <1>7, <3>1, <3>3, <3>4, <3>5, ReferenceCases DEF RawOps
  <2>3. QED
    BY <2>1, <2>2
<1>9. ClassInv(p)'
  BY <1>1, <1>3, <1>6, <1>8, NoClassIsNoClass DEF ClassInv, Class
<1>10. KnownInv(p)'
  <2>1. statePtrMap'[p] # NoClass /\ statePtrIterMap'[p] = NoClass
    BY <1>2, <1>3, <1>6, NoClassIsNoClass DEF AddrInv, KnownInv
  <2>2. \E f \in hist'[p] : f.it < iter'
    BY <1>1, <1>2 DEF AddrInv, KnownInv
  <2>3. Touched(hist'[p], iter')
    BY <1>1, <1>2 DEF Touched
  <2>4. p \in currentPtrIterUpgrades' <=> statePtrMap'[p] # "INPUT"
    <3>1. CASE c = "INPUT"
      BY <1>3, <1>5, <3>1 DEF KnownStep, Marks, RawOps
    <3>2. CASE c # "INPUT"
      BY <1>3, <3>2 DEF KnownStep, Marks
    <3>3. QED
      BY <3>1, <3>2
  <2>5. QED
    BY <1>2, <2>1, <2>2, <2>3, <2>4 DEF KnownInv
<1>11. QED
  BY <1>9, <1>10

\* A shipped access to an address first met in this iteration.
LEMMA ShippedNew ==
  ASSUME TypeOK, NEW p \in Addrs, AddrInv(p), NEW rw \in RawOps,
         Performed(p, rw), Classify(p, rw), statePtrMap[p] = NoClass
  PROVE  KnownInv(p)' /\ ClassInv(p)'
<1> DEFINE h == hist[p]
           c == statePtrIterMap[p]
           d == IF c = NoClass THEN FirstClass(rw) ELSE IterStep(c, rw)
<1>1. PICK e \in Event : /\ e.t = clock /\ e.it = iter /\ e.rw = rw
                         /\ Past(h, e.t, e.it)
                         /\ hist'[p] = h \cup {e}
  BY PerformedFacts
<1>2. /\ h \in SUBSET Event /\ iter \in Nat
      /\ iter' = iter /\ inROI /\ inROI'
  BY PerformedFacts
<1>3. /\ statePtrMap' = statePtrMap
      /\ statePtrIterMap'[p] = d
      /\ currentPtrIterUpgrades' = currentPtrIterUpgrades
  BY DEF Classify, TypeOK
<1>4. \A f \in h \cup {e} : f.it = iter
  BY <1>1, <1>2 DEF AddrInv, KnownInv, Past, Event
<1>5. /\ ~Transfer(h \cup {e}) /\ ~Overwritten(h \cup {e})
      /\ ~Transfer(h) /\ ~Overwritten(h)
  BY <1>2, <1>4, OneIteration DEF Transfer, Overwritten
<1>6. /\ Written(h \cup {e}) <=> Written(h) \/ rw = "WRITE"
      /\ ReadsFirst(h \cup {e}) <=> IF h = {} THEN rw = "READ" ELSE ReadsFirst(h)
  BY <1>1, <1>2, AddWritten, AddReadsFirst
<1>7. d = Reference(h \cup {e})
  <2>1. CASE h = {}
    <3>1. c = NoClass
      BY <1>2, <2>1 DEF AddrInv, ClassInv, Class
    <3>2. ~Written(h)
      BY <2>1 DEF Written
    <3>3. d = IF rw = "WRITE" THEN "OUTPUT" ELSE "INPUT"
      BY <3>1 DEF FirstClass
    <3>4. QED
      BY <1>5, <1>6, <2>1, <3>2, <3>3, ReferenceCases DEF RawOps
  <2>2. CASE h # {}
    <3>1. c = Reference(h)
      BY <1>2, <2>2 DEF AddrInv, ClassInv, Class
    <3>2. c \in Classes /\ c # NoClass
      BY <3>1, ReferenceCases, NoClassIsNoClass
    <3>3. d = IF c = "INPUT" /\ rw = "WRITE" THEN "IO" ELSE c
      BY <3>2 DEF IterStep
    <3>4. QED
      BY <1>5, <1>6, <2>2, <3>1, <3>2, <3>3, ReferenceCases DEF RawOps
  <2>3. QED
    BY <2>1, <2>2
<1>8. ClassInv(p)'
  BY <1>1, <1>2, <1>3, <1>7 DEF ClassInv, Class
<1>9. KnownInv(p)'
  <2>1. ~\E f \in hist'[p] : f.it < iter'
    BY <1>1, <1>2, <1>4
  <2>2. p \notin currentPtrIterUpgrades
    BY <1>2 DEF AddrInv, KnownInv
  <2>3. QED
    BY <1>2, <1>3, <2>1, <2>2 DEF KnownInv
<1>10. QED
  BY <1>8, <1>9

\* An access the filter drops repeats one of its iteration: no class changes.
LEMMA FilteredAccess ==
  ASSUME TypeOK, NEW p \in Addrs, AddrInv(p), NEW rw \in RawOps,
         Performed(p, rw), UNCHANGED maps,
         \E f \in hist[p] : f.it = iter /\ f.rw = rw
  PROVE  KnownInv(p)' /\ ClassInv(p)'
<1> DEFINE h == hist[p]
<1>1. PICK e \in Event : /\ e.t = clock /\ e.it = iter /\ e.rw = rw
                         /\ Past(h, e.t, e.it)
                         /\ hist'[p] = h \cup {e}
  BY PerformedFacts
<1>2. /\ h \in SUBSET Event /\ iter \in Nat
      /\ iter' = iter /\ inROI /\ inROI'
  BY PerformedFacts
<1>3. Touched(h, iter) /\ h # {}
  BY DEF Touched
<1>4. /\ Transfer(h \cup {e}) <=> Transfer(h)
      /\ Overwritten(h \cup {e}) <=> Overwritten(h)
  BY <1>1, <1>2, <1>3, AddFollowsTouched DEF Transfer, Overwritten
<1>5. Written(h \cup {e}) <=> Written(h)
  BY <1>1, <1>2, AddWritten DEF Written
<1>6. ReadsFirst(h \cup {e}) <=> ReadsFirst(h)
  BY <1>1, <1>2, <1>3, AddReadsFirst
<1>7. Reference(h \cup {e}) = Reference(h)
  BY <1>4, <1>5, <1>6 DEF Reference
<1>8. ClassInv(p)'
  BY <1>1, <1>2, <1>3, <1>7 DEF AddrInv, ClassInv, Class, maps
<1>9. KnownInv(p)'
  <2>1. (\E f \in hist'[p] : f.it < iter') <=> (\E f \in h : f.it < iter)
    BY <1>1, <1>2
  <2>2. Touched(hist'[p], iter') <=> Touched(h, iter)
    BY <1>1, <1>2, <1>3 DEF Touched
  <2>3. QED
    BY <1>2, <2>1, <2>2 DEF AddrInv, KnownInv, maps
<1>10. QED
  BY <1>8, <1>9

\* After an access every event is past, and a history not read first is written.
LEMMA AccessPastOrigin ==
  ASSUME TypeOK, NEW p \in Addrs, AddrInv(p), NEW rw \in RawOps, Performed(p, rw)
  PROVE  PastInv(p)' /\ OriginInv(p)'
<1> DEFINE h == hist[p]
<1>1. PICK e \in Event : /\ e.t = clock /\ e.it = iter /\ e.rw = rw
                         /\ Past(h, e.t, e.it)
                         /\ hist'[p] = h \cup {e}
  BY PerformedFacts
<1>2. /\ h \in SUBSET Event /\ iter \in Nat /\ clock \in Nat
      /\ iter' = iter /\ clock' = clock + 1
  BY PerformedFacts
<1>3. Past(h \cup {e}, clock', iter')
  BY <1>1, <1>2 DEF Past, Event
<1>4. ReadsFirst(h \cup {e}) \/ Written(h \cup {e})
  <2>1. CASE h = {}
    BY <1>1, <1>2, <2>1, AddWritten, AddReadsFirst DEF RawOps
  <2>2. CASE h # {}
    BY <1>1, <1>2, <2>2, AddWritten, AddReadsFirst DEF AddrInv, OriginInv
  <2>3. QED
    BY <2>1, <2>2
<1>5. QED
  BY <1>1, <1>3, <1>4 DEF PastInv, OriginInv

\* The addresses an access does not name are left alone.
LEMMA AccessFrame ==
  ASSUME TypeOK, NEW p \in Addrs, NEW rw \in RawOps, Performed(p, rw),
         Classify(p, rw) \/ UNCHANGED maps,
         NEW q \in Addrs, q # p, AddrInv(q),
         q \in loads' <=> q \in loads, q \in stores' <=> q \in stores
  PROVE  AddrInv(q)'
<1>1. /\ hist'[q] = hist[q] /\ clock' = clock + 1
      /\ iter' = iter /\ inROI' = inROI
      /\ clock \in Nat /\ iter \in Nat /\ hist[q] \in SUBSET Event
  BY BoundsAssumption DEF Performed, TypeOK
<1>2. /\ statePtrMap'[q] = statePtrMap[q]
      /\ statePtrIterMap'[q] = statePtrIterMap[q]
      /\ q \in currentPtrIterUpgrades' <=> q \in currentPtrIterUpgrades
  BY DEF Classify, TypeOK, maps
<1>3. PastInv(q)'
  BY <1>1 DEF AddrInv, PastInv, Past, Event
<1>4. OriginInv(q)'
  BY <1>1 DEF AddrInv, OriginInv
<1>5. FilterInv(q)'
  BY <1>1 DEF AddrInv, FilterInv
<1>6. KnownInv(q)'
  BY <1>1, <1>2 DEF AddrInv, KnownInv
<1>7. ClassInv(q)'
  BY <1>1, <1>2 DEF AddrInv, ClassInv, Class
<1>8. QED
  BY <1>3, <1>4, <1>5, <1>6, <1>7 DEF AddrInv

-----------------------------------------------------------------------------
\* The inductive invariant holds at the start.
LEMMA InitIInv == Init => IInv
<1> SUFFICES ASSUME Init  PROVE IInv
  OBVIOUS
<1>1. TypeOK
  BY InitTypes
<1>2. ASSUME NEW p \in Addrs  PROVE AddrInv(p)
  <2>1. hist[p] = {} /\ statePtrMap[p] = NoClass
    BY DEF Init, NoClasses
  <2>2. QED
    BY <2>1 DEF Init, AddrInv, PastInv, Past, OriginInv, FilterInv, KnownInv,
                ClassInv, Class
<1>3. QED
  BY <1>1, <1>2 DEF IInv

\* A load, shipped or filtered, keeps the invariant of every address.
LEMMA LoadIInv ==
  ASSUME IInv, NEW p \in Addrs, Load(p), NEW q \in Addrs
  PROVE  AddrInv(q)'
<1>1. "READ" \in RawOps /\ Performed(p, "READ")
  BY DEF RawOps, Load
<1>2. TypeOK /\ AddrInv(p) /\ AddrInv(q)
  BY DEF IInv
<1>3. CASE q = p
  <2>1. PastInv(p)' /\ OriginInv(p)'
    BY <1>1, <1>2, AccessPastOrigin
  <2>2. KnownInv(p)' /\ ClassInv(p)'
    <3>1. CASE p \in loads
      <4>1. \E f \in hist[p] : f.it = iter /\ f.rw = "READ"
        BY <1>1, <1>2, <3>1 DEF AddrInv, FilterInv, Performed
      <4>2. UNCHANGED maps
        BY <3>1 DEF Load
      <4>3. QED
        BY <1>1, <1>2, <4>1, <4>2, FilteredAccess
    <3>2. CASE p \notin loads
      <4>1. Classify(p, "READ")
        BY <3>2 DEF Load
      <4>2. QED
        BY <1>1, <1>2, <4>1, ShippedKnown, ShippedNew
    <3>3. QED
      BY <3>1, <3>2
  <2>3. FilterInv(p)'
    <3>1. PICK e \in Event : /\ e.t = clock /\ e.it = iter /\ e.rw = "READ"
                             /\ hist'[p] = hist[p] \cup {e}
      BY <1>1, <1>2, PerformedFacts
    <3>2. inROI /\ inROI' /\ iter' = iter
      BY <1>1 DEF Performed
    <3>3. p \in loads' /\ stores' = stores
      BY DEF Load
    <3>4. QED
      BY <1>2, <3>1, <3>2, <3>3 DEF AddrInv, FilterInv
  <2>4. QED
    BY <1>3, <2>1, <2>2, <2>3 DEF AddrInv
<1>4. CASE q # p
  <2>1. /\ Classify(p, "READ") \/ UNCHANGED maps
        /\ q \in loads' <=> q \in loads
        /\ q \in stores' <=> q \in stores
    BY <1>4 DEF Load, maps
  <2>2. QED
    BY <1>1, <1>2, <1>4, <2>1, AccessFrame
<1>5. QED
  BY <1>3, <1>4

\* A store, shipped or filtered, keeps the invariant of every address.
LEMMA StoreIInv ==
  ASSUME IInv, NEW p \in Addrs, Store(p), NEW q \in Addrs
  PROVE  AddrInv(q)'
<1>1. "WRITE" \in RawOps /\ Performed(p, "WRITE")
  BY DEF RawOps, Store
<1>2. TypeOK /\ AddrInv(p) /\ AddrInv(q)
  BY DEF IInv
<1>3. CASE q = p
  <2>1. PastInv(p)' /\ OriginInv(p)'
    BY <1>1, <1>2, AccessPastOrigin
  <2>2. KnownInv(p)' /\ ClassInv(p)'
    <3>1. CASE p \in stores
      <4>1. \E f \in hist[p] : f.it = iter /\ f.rw = "WRITE"
        BY <1>1, <1>2, <3>1 DEF AddrInv, FilterInv, Performed
      <4>2. UNCHANGED maps
        BY <3>1 DEF Store
      <4>3. QED
        BY <1>1, <1>2, <4>1, <4>2, FilteredAccess
    <3>2. CASE p \notin stores
      <4>1. Classify(p, "WRITE")
        BY <3>2 DEF Store
      <4>2. QED
        BY <1>1, <1>2, <4>1, ShippedKnown, ShippedNew
    <3>3. QED
      BY <3>1, <3>2
  <2>3. FilterInv(p)'
    <3>1. PICK e \in Event : /\ e.t = clock /\ e.it = iter /\ e.rw = "WRITE"
                             /\ hist'[p] = hist[p] \cup {e}
      BY <1>1, <1>2, PerformedFacts
    <3>2. inROI /\ inROI' /\ iter' = iter
      BY <1>1 DEF Performed
    <3>3. p \in stores' /\ loads' = loads
      BY DEF Store
    <3>4. QED
      BY <1>2, <3>1, <3>2, <3>3 DEF AddrInv, FilterInv
  <2>4. QED
    BY <1>3, <2>1, <2>2, <2>3 DEF AddrInv
<1>4. CASE q # p
  <2>1. /\ Classify(p, "WRITE") \/ UNCHANGED maps
        /\ q \in loads' <=> q \in loads
        /\ q \in stores' <=> q \in stores
    BY <1>4 DEF Store, maps
  <2>2. QED
    BY <1>1, <1>2, <1>4, <2>1, AccessFrame
<1>5. QED
  BY <1>3, <1>4

\* Entering the ROI starts an iteration with empty maps of its own.
LEMMA GetStateIInv ==
  ASSUME IInv, GetState, NEW p \in Addrs
  PROVE  AddrInv(p)'
<1>1. TypeOK /\ AddrInv(p) /\ iter \in Nat /\ hist[p] \in SUBSET Event
  BY BoundsAssumption DEF IInv, TypeOK
<1>2. /\ ~inROI /\ inROI' /\ iter' = iter + 1 /\ clock' = clock
      /\ hist' = hist /\ loads' = loads /\ stores' = stores
      /\ statePtrMap' = statePtrMap
      /\ statePtrIterMap'[p] = NoClass /\ currentPtrIterUpgrades' = {}
  BY DEF GetState, filter, NoClasses
<1>3. PastInv(p)'
  BY <1>1, <1>2 DEF AddrInv, PastInv, Past, Event
<1>4. OriginInv(p)'
  BY <1>1, <1>2 DEF AddrInv, OriginInv
<1>5. \A e \in hist[p] : e.it < iter' /\ e.it # iter'
  BY <1>1, <1>2 DEF AddrInv, PastInv, Past, Event
<1>6. FilterInv(p)'
  BY <1>1, <1>2, <1>5 DEF AddrInv, FilterInv
<1>7. KnownInv(p)'
  <2>1. statePtrMap[p] # NoClass <=> hist[p] # {}
    BY <1>1, <1>2 DEF AddrInv, KnownInv
  <2>2. statePtrMap'[p] # NoClass <=> \E e \in hist'[p] : e.it < iter'
    BY <1>2, <1>5, <2>1
  <2>3. ~Touched(hist'[p], iter')
    BY <1>2, <1>5 DEF Touched
  <2>4. QED
    BY <1>2, <2>2, <2>3 DEF KnownInv
<1>8. ClassInv(p)'
  BY <1>1, <1>2 DEF AddrInv, ClassInv, Class, KnownInv
<1>9. QED
  BY <1>3, <1>4, <1>6, <1>7, <1>8 DEF AddrInv

\* Leaving the ROI empties the filter and merges the new addresses.
LEMMA EndStateIInv ==
  ASSUME IInv, EndState, NEW p \in Addrs
  PROVE  AddrInv(p)'
<1>1. TypeOK /\ AddrInv(p)
  BY DEF IInv
<1>2. /\ inROI /\ ~inROI' /\ iter' = iter /\ clock' = clock
      /\ hist' = hist /\ loads' = {} /\ stores' = {}
      /\ statePtrMap'[p] = IF statePtrMap[p] = NoClass THEN statePtrIterMap[p]
                                                       ELSE statePtrMap[p]
  BY DEF EndState
<1>3. PastInv(p)' /\ OriginInv(p)' /\ FilterInv(p)'
  BY <1>1, <1>2 DEF AddrInv, PastInv, OriginInv, FilterInv
<1>4. statePtrMap'[p] = Class(p)
  BY <1>2 DEF Class
<1>5. ClassInv(p)'
  BY <1>1, <1>2, <1>4 DEF AddrInv, ClassInv, Class
<1>6. KnownInv(p)'
  <2>1. hist[p] # {} => statePtrMap'[p] \in Classes
    BY <1>1, <1>4, ReferenceCases DEF AddrInv, ClassInv
  <2>2. hist[p] = {} => statePtrMap'[p] = NoClass
    BY <1>1, <1>4 DEF AddrInv, ClassInv
  <2>3. QED
    BY <1>2, <2>1, <2>2, NoClassIsNoClass DEF KnownInv
<1>7. QED
  BY <1>3, <1>5, <1>6 DEF AddrInv

\* Committing an invocation forgets history and classes together.
LEMMA EndStateInvocationIInv ==
  ASSUME IInv, EndStateInvocation, NEW p \in Addrs
  PROVE  AddrInv(p)'
<1>1. TypeOK /\ AddrInv(p)
  BY DEF IInv
<1>2. /\ ~inROI /\ ~inROI' /\ hist'[p] = {} /\ statePtrMap'[p] = NoClass
      /\ loads' = loads /\ stores' = stores
  BY DEF EndStateInvocation, filter, NoClasses
<1>3. QED
  BY <1>1, <1>2 DEF AddrInv, PastInv, Past, OriginInv, FilterInv, KnownInv,
                    ClassInv, Class

\* A step of the specification keeps the invariant.
LEMMA NextIInv == TypeOK' /\ IInv /\ [Next]_vars => IInv'
<1> SUFFICES ASSUME TypeOK', IInv, [Next]_vars, NEW p \in Addrs
             PROVE  AddrInv(p)'
  BY DEF IInv
<1>1. CASE GetState
  BY <1>1, GetStateIInv
<1>2. ASSUME NEW q \in Addrs, Load(q)  PROVE AddrInv(p)'
  BY <1>2, LoadIInv
<1>3. ASSUME NEW q \in Addrs, Store(q)  PROVE AddrInv(p)'
  BY <1>3, StoreIInv
<1>4. CASE EndState
  BY <1>4, EndStateIInv
<1>5. CASE EndStateInvocation
  BY <1>5, EndStateInvocationIInv
<1>6. CASE UNCHANGED vars
  BY <1>6 DEF vars, IInv, AddrInv, PastInv, OriginInv, FilterInv, KnownInv,
              ClassInv, Class
<1>7. QED
  BY <1>1, <1>2, <1>3, <1>4, <1>5, <1>6 DEF Next

\* In every behaviour of the wrapper's filter and cleanBatch's automaton, for
\* any number of addresses, iterations and accesses, the class of an address
\* is the one its history calls for.
THEOREM ClassificationCorrect == Spec => []ClassIsReference
<1>1. IInv => ClassIsReference
  BY DEF IInv, AddrInv, ClassInv, ClassIsReference
<1>2. QED
  BY <1>1, InitIInv, NextIInv, TypeCorrect, PTL DEF Spec

-----------------------------------------------------------------------------
\* A step of the automaton keeps the family and never lowers the rank.
LEMMA KnownStepRises ==
  ASSUME NEW c \in Classes, NEW m, NEW rw \in RawOps
  PROVE  /\ c \in InputFamily <=> KnownStep(c, m, rw) \in InputFamily
         /\ Rank(c) <= Rank(KnownStep(c, m, rw))
<1>1. /\ Rank("INPUT") = 0 /\ Rank("IO") = 1 /\ Rank("CIO") = 2 /\ Rank("TIO") = 3
      /\ Rank("OUTPUT") = 0 /\ Rank("CO") = 2 /\ Rank("TO") = 3
  BY DEF Rank
<1>2. KnownStep(c, m, rw) \in
         IF c = "INPUT" THEN {"INPUT", "IO"}
         ELSE IF c = "IO" THEN {"IO", "CIO", "TIO"}
         ELSE IF c = "CIO" THEN {"CIO", "TIO"}
         ELSE IF c = "OUTPUT" THEN {"OUTPUT", "CO", "TO"}
         ELSE IF c = "CO" THEN {"CO", "TO"}
         ELSE {c}
  BY DEF KnownStep
<1>3. QED
  BY <1>1, <1>2 DEF Classes, InputFamily, OutputFamily

\* A step keeps the family of a known class and never lowers its rank.
LEMMA NextRises ==
  ASSUME TypeOK, Next, NEW p \in Addrs,
         statePtrMap[p] # NoClass, statePtrMap'[p] # NoClass
  PROVE  /\ statePtrMap[p] \in InputFamily <=> statePtrMap'[p] \in InputFamily
         /\ Rank(statePtrMap[p]) <= Rank(statePtrMap'[p])
<1>1. statePtrMap[p] \in Classes
  BY DEF TypeOK
<1>2. CASE statePtrMap'[p] = statePtrMap[p]
  <2>1. Rank(statePtrMap[p]) \in Nat
    BY <1>1 DEF Rank, Classes, InputFamily, OutputFamily
  <2>2. QED
    BY <1>2, <2>1
<1>3. CASE \E q \in Addrs, rw \in RawOps : Classify(q, rw)
  <2>1. PICK q \in Addrs, rw \in RawOps : Classify(q, rw)
    BY <1>3
  <2>2. \/ statePtrMap'[p] = statePtrMap[p]
        \/ statePtrMap'[p] = KnownStep(statePtrMap[p], p \in currentPtrIterUpgrades, rw)
    BY <2>1 DEF Classify, TypeOK
  <2>3. QED
    BY <1>1, <1>2, <2>2, KnownStepRises
<1>4. CASE GetState
  BY <1>2, <1>4 DEF GetState
<1>5. ASSUME NEW q \in Addrs, Load(q) \/ Store(q)
      PROVE  statePtrMap' = statePtrMap \/ \E rw \in RawOps : Classify(q, rw)
  BY <1>5 DEF Load, Store, maps, RawOps
<1>6. CASE EndState
  BY <1>2, <1>6 DEF EndState
<1>7. CASE EndStateInvocation
  BY <1>7 DEF EndStateInvocation, NoClasses
<1>8. QED
  BY <1>2, <1>3, <1>4, <1>5, <1>6, <1>7 DEF Next

\* For any constants, the class of a known address never leaves its family and
\* never falls back before a commit.
THEOREM ClassesRise == Spec => ClassOnlyRises
<1> DEFINE Rises == \A p \in Addrs :
         statePtrMap[p] # NoClass /\ statePtrMap'[p] # NoClass =>
            /\ statePtrMap[p] \in InputFamily <=> statePtrMap'[p] \in InputFamily
            /\ Rank(statePtrMap[p]) <= Rank(statePtrMap'[p])
<1>1. TypeOK /\ [Next]_vars => [Rises]_vars
  BY NextRises
<1>2. QED
  BY <1>1, TypeCorrect, PTL DEF Spec, ClassOnlyRises
=============================================================================
