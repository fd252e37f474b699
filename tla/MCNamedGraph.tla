---------------------------- MODULE MCNamedGraph ----------------------------
(* Instances of NamedGraph for TLC.                                        *)
EXTENDS NamedGraph, TLC

MCSymmetry == Permutations(Client) \cup Permutations(Layer)
=============================================================================
