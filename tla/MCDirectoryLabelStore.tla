----------------------- MODULE MCDirectoryLabelStore -----------------------
(* Instances of DirectoryLabelStore for TLC.                               *)
EXTENDS DirectoryLabelStore, TLC

MCSymmetry == Permutations(Proc)
=============================================================================
