-------------------------- MODULE MCRegionTracking --------------------------
(***************************************************************************)
(* Instances of RegionTracking: a ROI with another nested in it, as in     *)
(* tests/regression/rois/test.cpp, and a third one after them.             *)
(***************************************************************************)
EXTENDS RegionTracking

CONSTANTS outer, inner, later

MCRegions == {outer, inner, later}

Nested == {<<NoState, outer>>, <<outer, inner>>, <<NoState, later>>}

ASSUME NestedIsStatic == StaticNesting
=============================================================================
