---------------------------- MODULE MCSpoorCommit ----------------------------
(***************************************************************************)
(* Instances of SpoorCommit: everything tracked, or transfers only.        *)
(***************************************************************************)
EXTENDS SpoorCommit

SomeTracks == {TrackFlags, {"Transfer"}}
AllTracks  == {TrackFlags}
=============================================================================
