-------------------------- MODULE MCShadowBatching --------------------------
(***************************************************************************)
(* Instances of ShadowBatching.                                            *)
(***************************************************************************)
EXTENDS ShadowBatching

Parallel(cycles) == [disableOptimizations |-> FALSE, trackCycles |-> cycles]
Serial(cycles)   == [disableOptimizations |-> TRUE, trackCycles |-> cycles]

\* A build without the shadow thread and with the search for cycles would wait
\* for itself.
WorkingBuilds == {Parallel(TRUE), Parallel(FALSE), Serial(FALSE)}

DefaultBuild == {Parallel(TRUE)}
=============================================================================
