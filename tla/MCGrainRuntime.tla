--------------------------- MODULE MCGrainRuntime ---------------------------
(* Instances of GrainRuntime for TLC.                                      *)
EXTENDS GrainRuntime, TLC

\* Calls are interchangeable.
CallSymmetry == Permutations(Calls)
=============================================================================
