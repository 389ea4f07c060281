------------------------------ MODULE SpoorFSA ------------------------------
(***************************************************************************)
(* How one ROI classifies the addresses it touches: the wrapper's per-     *)
(* iteration filter (loads, stores in wrapper.cpp) feeding the automaton   *)
(* of cleanBatch (texas.cpp).  The batches between the two keep the order  *)
(* of the entries (module ShadowBatching), and this pass of cleanBatch     *)
(* works entry by entry, so an access and its classification are one step  *)
(* here.                                                                   *)
(*                                                                         *)
(* hist records every access the program performs, the ones the wrapper    *)
(* filters out included.  It is what the classification is compared with.  *)
(***************************************************************************)
EXTENDS Naturals, SpoorClasses

CONSTANTS Addrs,        \* the addresses the program may touch
          MaxIters,     \* bound: iterations of the ROI
          MaxAccesses   \* bound: accesses inside the ROI

ASSUME BoundsAssumption == MaxIters \in Nat /\ MaxAccesses \in Nat

VARIABLES
    inROI,                   \* activeState # nullptr
    iter,                    \* number of the iteration that runs, or ran last
    clock,                   \* accesses performed so far
    loads, stores,           \* addresses already shipped in this iteration
    statePtrMap,             \* classes decided by finished iterations
    statePtrIterMap,         \* classes this iteration gave to new addresses
    currentPtrIterUpgrades,  \* known addresses this iteration has decided on
    hist                     \* accesses since the last commit, by address

vars == <<inROI, iter, clock, loads, stores, statePtrMap, statePtrIterMap,
          currentPtrIterUpgrades, hist>>

filter == <<loads, stores>>
maps   == <<statePtrMap, statePtrIterMap, currentPtrIterUpgrades>>

Event == [t : Nat, it : Nat, rw : RawOps]

NoClasses == [p \in Addrs |-> NoClass]

Init ==
    /\ inROI = FALSE
    /\ iter = 0
    /\ clock = 0
    /\ loads = {} /\ stores = {}
    /\ statePtrMap = NoClasses
    /\ statePtrIterMap = NoClasses
    /\ currentPtrIterUpgrades = {}
    /\ hist = [p \in Addrs |-> {}]

-----------------------------------------------------------------------------
\* caratGetStateWrapper: the STATE_BEGIN entry opens an iteration.
GetState ==
    /\ ~inROI
    /\ iter < MaxIters
    /\ inROI' = TRUE
    /\ iter' = iter + 1
    /\ statePtrIterMap' = NoClasses
    /\ currentPtrIterUpgrades' = {}
    /\ UNCHANGED <<clock, filter, statePtrMap, hist>>

\* cleanBatch on a STATE_ADD_READ or STATE_ADD_WRITE entry.
Classify(p, rw) ==
    LET c == statePtrMap[p] IN
    \/ /\ c # NoClass
       /\ statePtrMap' =
            [statePtrMap EXCEPT
               ![p] = KnownStep(c, p \in currentPtrIterUpgrades, rw)]
       /\ currentPtrIterUpgrades' =
            IF Marks(c, rw) THEN currentPtrIterUpgrades \cup {p}
                            ELSE currentPtrIterUpgrades
       /\ UNCHANGED statePtrIterMap
    \/ /\ c = NoClass
       /\ statePtrIterMap' =
            [statePtrIterMap EXCEPT
               ![p] = IF @ = NoClass THEN FirstClass(rw) ELSE IterStep(@, rw)]
       /\ UNCHANGED <<statePtrMap, currentPtrIterUpgrades>>

Performed(p, rw) ==
    /\ inROI
    /\ clock < MaxAccesses
    /\ clock' = clock + 1
    /\ hist' = [hist EXCEPT ![p] = @ \cup {[t |-> clock, it |-> iter, rw |-> rw]}]
    /\ UNCHANGED <<inROI, iter>>

\* texasAddToStateLoad: a load of an address that this iteration has not
\* loaded yet is shipped (AddToState), another one is not.
Load(p) ==
    /\ Performed(p, "READ")
    /\ \/ /\ p \notin loads
          /\ loads' = loads \cup {p}
          /\ Classify(p, "READ")
       \/ /\ p \in loads
          /\ UNCHANGED <<loads, maps>>
    /\ UNCHANGED stores

\* texasAddToStateWithInfoWrapper, for a store of one element.
Store(p) ==
    /\ Performed(p, "WRITE")
    /\ \/ /\ p \notin stores
          /\ stores' = stores \cup {p}
          /\ Classify(p, "WRITE")
       \/ /\ p \in stores
          /\ UNCHANGED <<stores, maps>>
    /\ UNCHANGED loads

\* caratReportStateWrapper: the filter is emptied, and the STATE_END entry
\* elevates what the iteration found to statePtrMap.  insert does not replace.
EndState ==
    /\ inROI
    /\ inROI' = FALSE
    /\ loads' = {} /\ stores' = {}
    /\ statePtrMap' =
         [p \in Addrs |-> IF statePtrMap[p] = NoClass THEN statePtrIterMap[p]
                                                      ELSE statePtrMap[p]]
    /\ UNCHANGED <<iter, clock, statePtrIterMap, currentPtrIterUpgrades, hist>>

\* endStateInvocationWrapper: the STATE_COMMIT entry.  CommitState forgets the
\* classes, so the next invocation of the ROI starts from nothing.
EndStateInvocation ==
    /\ ~inROI
    /\ statePtrMap' = NoClasses
    /\ statePtrIterMap' = NoClasses
    /\ currentPtrIterUpgrades' = {}
    /\ hist' = [p \in Addrs |-> {}]
    /\ UNCHANGED <<inROI, iter, clock, filter>>

Next ==
    \/ GetState
    \/ \E p \in Addrs : Load(p)
    \/ \E p \in Addrs : Store(p)
    \/ EndState
    \/ EndStateInvocation

Spec == Init /\ [][Next]_vars

-----------------------------------------------------------------------------
(***************************************************************************)
(* The reference: what the classes mean, over the whole history h of an    *)
(* address.                                                                *)
(***************************************************************************)

\* e is the first access of its iteration.
Leads(h, e) == \A f \in h : f.it = e.it => e.t <= f.t

\* The very first access is a read: the ROI consumes a value from outside.
ReadsFirst(h) == \E e \in h : e.rw = "READ" /\ \A f \in h : e.t <= f.t

Written(h) == \E e \in h : e.rw = "WRITE"

\* An iteration starts with an access rw after an earlier iteration wrote.
FollowsWrite(h, rw) ==
    \E w, e \in h : /\ w.rw = "WRITE" /\ e.rw = rw
                    /\ w.it < e.it
                    /\ Leads(h, e)

\* Transfer: a value flows from one iteration to a later one.
Transfer(h) == FollowsWrite(h, "READ")

\* Cloneable: iterations overwrite what earlier ones left, so that each could
\* have a copy of its own.
Overwritten(h) == FollowsWrite(h, "WRITE")

Reference(h) ==
    IF ReadsFirst(h)
    THEN CASE ~Written(h)   -> "INPUT"
           [] Transfer(h)   -> "TIO"
           [] ~Transfer(h) /\ Overwritten(h) -> "CIO"
           [] OTHER         -> "IO"
    ELSE CASE Transfer(h)   -> "TO"
           [] ~Transfer(h) /\ Overwritten(h) -> "CO"
           [] OTHER         -> "OUTPUT"

-----------------------------------------------------------------------------
\* Types: in particular the maps hold classes, never raw operations.
TypeOK ==
    /\ inROI \in BOOLEAN
    /\ iter \in 0..MaxIters
    /\ clock \in 0..MaxAccesses
    /\ loads \subseteq Addrs /\ stores \subseteq Addrs
    /\ statePtrMap \in [Addrs -> Classes \cup {NoClass}]
    /\ statePtrIterMap \in [Addrs -> Classes \cup {NoClass}]
    /\ currentPtrIterUpgrades \subseteq Addrs
    /\ hist \in [Addrs -> SUBSET Event]

\* The class the runtime would give an address now.
Class(p) ==
    IF statePtrMap[p] # NoClass \/ ~inROI THEN statePtrMap[p]
                                          ELSE statePtrIterMap[p]

\* Whatever accesses the program performs, in any number of iterations, the
\* class that the wrapper's filter and cleanBatch's automaton give to an
\* address is the one its whole history since the last commit calls for.
ClassIsReference ==
    \A p \in Addrs : Class(p) = IF hist[p] = {} THEN NoClass
                                                ELSE Reference(hist[p])

Rank(c) == CASE c \in {"INPUT", "OUTPUT"} -> 0
             [] c = "IO"                  -> 1
             [] c \in {"CIO", "CO"}       -> 2
             [] c \in {"TIO", "TO"}       -> 3

\* Until a commit forgets it, the class of a known address never changes
\* family and never falls back: what a transfer has been found to be stays one.
ClassOnlyRises ==
    [][\A p \in Addrs :
         statePtrMap[p] # NoClass /\ statePtrMap'[p] # NoClass =>
            /\ statePtrMap[p] \in InputFamily <=> statePtrMap'[p] \in InputFamily
            /\ Rank(statePtrMap[p]) <= Rank(statePtrMap'[p])]_vars

=============================================================================
