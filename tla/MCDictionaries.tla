--------------------------- MODULE MCDictionaries ---------------------------
(* Instances of Dictionaries for TLC.                                      *)
EXTENDS Dictionaries

(* Nodes, predicates and values that arrive in an order other than their   *)
(* own: nodes as subjects and as objects, values of two datatypes.         *)
MCNodeObject == {<<2, 2, <<"value", 2>>>>, <<1, 1, <<"value", 1>>>>, <<2, 1, <<"node", 1>>>>}

MCTwoTypes == {<<2, 2, <<"value", 3>>>>, <<1, 1, <<"value", 1>>>>, <<3, 1, <<"value", 2>>>>}

MCSource == MCNodeObject \cup MCTwoTypes

MCDatatype == <<1, 1, 2, 2>>

(* Rollups of up to four layers, ...                                       *)
MCRollups ==
  [triples |-> MCNodeObject, calls |-> <<1, 1, 1, 1>>, names |-> 6, ops |-> {"rollup", "rollup_upto"}]

(* ... squashing what was rolled up, ...                                   *)
MCSquashes ==
  [triples |-> MCNodeObject, calls |-> <<2, 1, 1>>, names |-> 4,
   ops |-> {"rollup_upto", "squash", "squash_upto"}]

(* ... and merging base layers.                                            *)
MCMerges ==
  [triples |-> MCTwoTypes, calls |-> <<2, 1, 1>>, names |-> 4, ops |-> {"rollup", "merge"}]

MCWorkloads == {MCRollups, MCSquashes, MCMerges}
=============================================================================
