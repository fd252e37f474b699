---------------------------- MODULE MCLruArchive ----------------------------
(* Instances of LruArchive for TLC.                                        *)
EXTENDS LruArchive, TLC

CONSTANTS a, b, c

(* Two layers that fit together, and one that fits only alone or not.      *)
MCSize == a :> 1 @@ b :> 2 @@ c :> 3

MCSymmetry == Permutations(Task)
=============================================================================
