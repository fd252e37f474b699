----------------------------- MODULE LayerStore -----------------------------
(***************************************************************************)
(* What a layer store promises its callers (store/mod.rs, the docs of      *)
(* StoreLayer and Store): layers are immutable.  A layer is made once, by  *)
(* a commit or a squash; ever after, whoever gets it finds the triples it  *)
(* was made with.  Rollups, caches and files are not seen at all, and      *)
(* neither is why a layer has its triples, or why a task wants it.         *)
(***************************************************************************)
CONSTANTS Task, Name, Triple, None

VARIABLES
  layers,  \* the triples of every layer, a function on the names there are
  given    \* the layer each task has in hand, or Nothing

vars == <<layers, given>>

Nothing == [name |-> None, triples |-> {}]

Init ==
  /\ layers = [n \in {} |-> {}]
  /\ given = [t \in Task |-> Nothing]

Make(n) ==
  /\ n \notin DOMAIN layers
  /\ DOMAIN layers' = DOMAIN layers \cup {n}
  /\ layers'[n] \subseteq Triple
  /\ \A m \in DOMAIN layers : layers'[m] = layers[m]
  /\ UNCHANGED given

Get(t, n) ==
  /\ given'[t].name = n
  /\ given'[t].triples = layers[n]
  /\ given' = [given EXCEPT ![t] = given'[t]]
  /\ UNCHANGED layers

Next ==
  \/ \E n \in Name : Make(n)
  \/ \E t \in Task, n \in DOMAIN layers : Get(t, n)

Spec == Init /\ [][Next]_vars
=============================================================================
