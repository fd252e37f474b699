--------------------------- MODULE MCTripleLayers ---------------------------
(* An instance of TripleLayers for TLC.                                    *)
EXTENDS TripleLayers

(* Subjects with one and with two predicates, predicates with one and with *)
(* two objects, a subject and an object that a layer can skip.             *)
MCTriple == {<<1, 1, 2>>, <<1, 2, 1>>, <<1, 2, 3>>, <<3, 1, 1>>, <<3, 2, 3>>}
=============================================================================
