-------------------------- MODULE MCAllocationLife --------------------------
(***************************************************************************)
(* Two ROIs, inner inside outer, and a few blocks at three addresses.      *)
(***************************************************************************)
EXTENDS AllocationLife, TLC

CONSTANTS outer, inner

MCEnclosing == [r \in {outer, inner} |-> IF r = inner THEN outer ELSE NoState]

OriginSymmetry == Permutations(Origins)
=============================================================================
