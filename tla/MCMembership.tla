---------------------------- MODULE MCMembership ----------------------------
(* Instances of Membership for TLC.                                        *)
EXTENDS Membership, TLC

\* The silos that neither crash, beat nor miss probes are interchangeable.
SiloSymmetry == Permutations(Silos \ (Mortal \union Flaky \union Beaters))
=============================================================================
