-------------------------- MODULE MCReleaseReplicas --------------------------
(* A small instance of ReleaseReplicas for TLC: two peers and one artifact,   *)
(* with every operation.                                                      *)
EXTENDS ReleaseReplicas, TLC

\* The code tells names apart, and nothing more.
Symmetry == Permutations(Name)
==============================================================================
