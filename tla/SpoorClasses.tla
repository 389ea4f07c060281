--------------------------- MODULE SpoorClasses ---------------------------
(***************************************************************************)
(* The sets a region of interest (ROI, a "State" of the runtime) sorts the *)
(* memory it touches into, and the finite automaton of the first pass of   *)
(* cleanBatch (texas.cpp) that decides between them.  An address that the  *)
(* ROI reads first is in the Input family (INPUT, IO, CIO, TIO), one that  *)
(* it writes first in the Output family (OUTPUT, CO, TO).                  *)
(***************************************************************************)

\* STATE_ADD_INPUT ... STATE_ADD_TO.
InputFamily  == {"INPUT", "IO", "CIO", "TIO"}
OutputFamily == {"OUTPUT", "CO", "TO"}
Classes      == InputFamily \cup OutputFamily

\* An address with no entry in a statePtrMap or a statePtrIterMap.
NoClass == "NONE"

\* The raw operations of the instrumented program.
RawOps == {"READ", "WRITE"}

\* The raw operation stored where a class belongs.
FirstClassRaw(rw) == rw

\* Class of an address the first time any iteration of the ROI touches it.
FirstClass(rw) == IF rw = "WRITE" THEN "OUTPUT" ELSE "INPUT"

\* The address is only known to the iteration that runs (statePtrIterMap).
IterStep(c, rw) == IF c = "INPUT" /\ rw = "WRITE" THEN "IO" ELSE c

\* A pointer that IO, CIO, OUTPUT or CO already classified in this iteration
\* would be classified by its second access, not by its first.
KnownStepUnmarked(c, marked, rw) ==
    CASE c = "INPUT"               -> IF rw = "WRITE" THEN "IO" ELSE c
      [] c = "IO"                  -> IF rw = "READ" THEN "TIO" ELSE "CIO"
      [] c = "CIO" /\ rw = "READ"  -> "TIO"
      [] c = "OUTPUT"              -> IF rw = "READ" THEN "TO" ELSE "CO"
      [] c = "CO" /\ rw = "READ"   -> "TO"
      [] OTHER                     -> c

\* Transfer is not absorbing: a write-first iteration takes it back.
KnownStepDowngrades(c, marked, rw) ==
    CASE c = "INPUT"                          -> IF rw = "WRITE" THEN "IO" ELSE c
      [] c = "IO" /\ ~marked                  -> IF rw = "READ" THEN "TIO" ELSE "CIO"
      [] c = "CIO" /\ ~marked /\ rw = "READ"  -> "TIO"
      [] c = "OUTPUT" /\ ~marked              -> IF rw = "READ" THEN "TO" ELSE "CO"
      [] c = "CO" /\ ~marked /\ rw = "READ"   -> "TO"
      [] c = "TIO" /\ ~marked /\ rw = "WRITE" -> "CIO"
      [] OTHER                                -> c

\* The address is known from an earlier iteration (statePtrMap); "marked" says
\* that it is in currentPtrIterUpgrades, i.e. that this iteration has already
\* had its say about it.
KnownStep(c, marked, rw) ==
    CASE c = "INPUT"                         -> IF rw = "WRITE" THEN "IO" ELSE c
      [] c = "IO" /\ ~marked                 -> IF rw = "READ" THEN "TIO" ELSE "CIO"
      [] c = "CIO" /\ ~marked /\ rw = "READ" -> "TIO"
      [] c = "OUTPUT" /\ ~marked             -> IF rw = "READ" THEN "TO" ELSE "CO"
      [] c = "CO" /\ ~marked /\ rw = "READ"  -> "TO"
      [] OTHER                               -> c

\* Whether the access puts a known address into currentPtrIterUpgrades.
Marks(c, rw) == c # "INPUT" \/ rw = "WRITE"

=============================================================================
