---------------------------- MODULE MCReleaseCache ----------------------------
(* Small instances of ReleaseCache for TLC: two overlapping readers of one     *)
(* object (MCCacheReaders.cfg, MCCacheRace.cfg), or one reader of two objects  *)
(* with all that can fail (MCCacheObjects.cfg).                                *)
EXTENDS ReleaseCache, TLC

\* The objects of a repository are alike.
Symmetry == Permutations(Id)
===============================================================================
