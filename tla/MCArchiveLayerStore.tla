------------------------ MODULE MCArchiveLayerStore ------------------------
(* Instances of ArchiveLayerStore for TLC.                                 *)
EXTENDS ArchiveLayerStore, TLC

CONSTANTS lower, upper

(* A base layer, and a child of it that is a rollup of other layers.       *)
MCParentOf == lower :> None @@ upper :> lower

(* The base layer by itself, and both.                                    *)
MCRequests == {<<lower>>, <<upper, lower>>}

(* A base layer alone.                                                     *)
MCBaseOnly == lower :> None
MCBaseRequests == {<<lower>>}

(* Early readers that ask for the number of removals, of a child from its  *)
(* files and of a base layer from none; and one that loads a layer that is *)
(* being imported.                                                         *)
MCEarlyParts == {"origin", "target"} \X {"removal_count"}
MCEarlyLoad == {<<"target", "layer">>}

MCSymmetry == Permutations(Task)
=============================================================================
