---------------------------- MODULE MCLayerStack ----------------------------
(* Instances of LayerStack for TLC.                                        *)
EXTENDS LayerStack, TLC

(* Two tasks on a stack of three layers, or of two that both roll up, ...  *)
MCShared ==
  [tasks : {Task}, names : {4}, layers : {3}, ops : {{"rollup_upto", "expire"}}]
    \cup [tasks : {Task}, names : {4}, layers : {2}, ops : {{"rollup", "expire"}}]

(* ... or one task and rollups over rollups, ...                           *)
MCDeep == [tasks : {{t} : t \in Task}, names : {6}, layers : {4}, ops : {{"rollup_upto"}}]

(* ... or one task that does everything to three layers.                   *)
MCAll ==
  [tasks : {{t} : t \in Task}, names : {5}, layers : {3},
   ops : {{"rollup", "rollup_upto", "squash", "squash_upto"}}]

MCWorkloads == MCShared \cup MCDeep \cup MCAll

MCImprecise ==
  [tasks : {Task}, names : {6}, layers : {4},
   ops : {{"rollup", "rollup_upto", "imprecise_rollup_upto"}}]

MCSymmetry == Permutations(Task) \cup Permutations(Triple)
=============================================================================
