-------------------- MODULE MCCachedDirectoryLabelStore --------------------
(* Instances of CachedDirectoryLabelStore for TLC.                         *)
EXTENDS CachedDirectoryLabelStore, TLC

MCSymmetry == Permutations(Name) \cup Permutations(Layer)
=============================================================================
