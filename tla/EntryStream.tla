----------------------------- MODULE EntryStream -----------------------------
(***************************************************************************)
(* What the batches of ShadowBatching promise: the entries that the        *)
(* program's thread sends are handled one after the other, in the order    *)
(* in which they were sent, and the report starts when all are handled.    *)
(***************************************************************************)
EXTENDS Naturals

VARIABLES sent,      \* number of the entry sent last
          handled,   \* number of the entry handled last
          closed     \* ReportStatistics may evaluate what was collected

vars == <<sent, handled, closed>>

Init == sent = 0 /\ handled = 0 /\ closed = FALSE

Send ==
    /\ ~closed
    /\ sent' = sent + 1
    /\ UNCHANGED <<handled, closed>>

Handle ==
    /\ handled < sent
    /\ handled' = handled + 1
    /\ UNCHANGED <<sent, closed>>

Close ==
    /\ ~closed
    /\ handled = sent
    /\ closed' = TRUE
    /\ UNCHANGED <<sent, handled>>

Next == Send \/ Handle \/ Close

Spec == Init /\ [][Next]_vars
=============================================================================
