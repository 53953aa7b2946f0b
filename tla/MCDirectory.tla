---------------------------- MODULE MCDirectory ----------------------------
(* An instance of GrainDirectory for TLC: the grain's key lies past the last *)
(* virtual node, so that its owner is found by wrapping around.              *)
EXTENDS GrainDirectory, TLC

MCNodes == [s \in Silos |-> CASE s = 1 -> {2, 5} [] s = 2 -> {3, 6} [] s = 3 -> {1, 4}]
MCHash == [g \in Grains |-> 7]

CallSymmetry == Permutations(Calls)
=============================================================================
