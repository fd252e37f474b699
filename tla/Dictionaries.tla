---------------------------- MODULE Dictionaries ----------------------------
(***************************************************************************)
(* Ids and what they name (layer/simple_builder.rs, layer/id_map.rs,       *)
(* layer/internal/mod.rs, storage/delta.rs, squash in storage/layer.rs and *)
(* layer/internal/base_merge.rs).                                          *)
(*                                                                         *)
(* A layer has three sorted dictionaries.  Its nodes and then its values   *)
(* are numbered after those of the layers below it, its predicates after   *)
(* the predicates below.  A rollup merges and sorts the dictionaries of    *)
(* several layers and keeps an id map, so that every id goes on naming     *)
(* what it named.  A builder gives out ids in the order of its calls and   *)
(* renumbers them when it is committed.                                    *)
(*                                                                         *)
(* Strings are numbers in lexical order, an object is <<"node", n>> or     *)
(* <<"value", v>>, a triple of ids has three numbers.  One caller works at *)
(* a time (LayerStack has the interleavings), with a stack in hand that    *)
(* may have been loaded before the newest rollup.                          *)
(***************************************************************************)
EXTENDS Integers, Sequences, FiniteSets
LOCAL INSTANCE SequencesExt
LOCAL INSTANCE TLC

CONSTANTS
  Source,      \* the triples of strings callers add and remove
  Datatype,    \* the datatype of every value, in the order of the values
  None,        \* no parent, no rollup file, no answer
  Workloads    \* what callers do: the triples they use, how many builder calls
               \* each commit in turn has and how many directories are made, at
               \* most, and the operations they use besides commits

AllOps == {"rollup", "rollup_upto", "squash", "squash_upto", "merge"}

ASSUME DatatypeAssumption ==
  \A v, w \in DOMAIN Datatype : v <= w => Datatype[v] <= Datatype[w]
ASSUME WorkloadsAssumption ==
  \A w \in Workloads : /\ w.triples \subseteq Source /\ w.calls \in Seq(Nat)
                       /\ w.names \in Nat /\ w.ops \subseteq AllOps

Value == DOMAIN Datatype
Predicate == {t[2] : t \in Source}
Entry == {<<"node", t[1]>> : t \in Source} \cup {t[3] : t \in Source}

VARIABLES
  disk,      \* the layer directories in the order they were made
  rollup,    \* the rollup file of every directory
  visible,   \* the directories callers know: all but the rollups' own
  held,      \* the loaded layer in hand, the layer first and then its parents
  builder,   \* the open builder on top of it
  workload,  \* what callers do in this behaviour
  commits,   \* how many builders were committed (bounds the model)
  contents,  \* the triples of strings each layer must have (history)
  named,     \* what each layer's ids must name (history)
  meant,     \* what the calls of the open builder mean (history)
  astray     \* a predicate map was made from a map of nodes and values (history)

vars == <<disk, rollup, visible, held, builder, workload, commits, contents, named, meant, astray>>

files == <<disk, rollup, visible, contents, named, astray, workload>>

-----------------------------------------------------------------------------
(* IdMap: a rollup has one, other layers have none and keep their ids.     *)
NoMap == << >>

PositionOf(seq, x) == CHOOSE i \in DOMAIN seq : seq[i] = x

(* lookup_one(..).unwrap() of an id the map lacks is a panic: no position. *)
outer_to_inner(map, id) ==
  CASE id > Len(map) -> id
    [] id \in ToSet(map) -> PositionOf(map, id)
    [] OTHER -> 0

\* mutant: the two directions of the map are confused
inner_to_outer_inverted(map, id) == IF id \in ToSet(map) THEN PositionOf(map, id) ELSE id

inner_to_outer(map, id) == IF id > Len(map) THEN id ELSE map[id]

Sorted(strings) ==
  [i \in 1 .. Cardinality(strings) |->
     CHOOSE x \in strings : Cardinality({y \in strings : y < x}) = i - 1]

dict_get(dict, i) == IF i \in DOMAIN dict THEN dict[i] ELSE None

-----------------------------------------------------------------------------
(* Lookups in a stack, a sequence of layers from the newest down.          *)
NodeValueLen(d) == Len(d.nodes) + Len(d.values)

node_and_value_count(stack) ==
  LET Upto[i \in 0 .. Len(stack)] == IF i = 0 THEN 0 ELSE Upto[i - 1] + NodeValueLen(stack[i])
  IN  Upto[Len(stack)]

predicate_count(stack) ==
  LET Upto[i \in 0 .. Len(stack)] == IF i = 0 THEN 0 ELSE Upto[i - 1] + Len(stack[i].predicates)
  IN  Upto[Len(stack)]

Below(stack, i) == SubSeq(stack, i + 1, Len(stack))

(* The walk from the top down stops at the first layer that fits.          *)
Topmost(found) ==
  IF found = {} THEN None ELSE CHOOSE i \in found : \A j \in found : i <= j

object_node_id(stack, n) ==
  LET i == Topmost({j \in DOMAIN stack : n \in ToSet(stack[j].nodes)})
  IN  IF i = None THEN None
      ELSE inner_to_outer(stack[i].nodeValueMap, PositionOf(stack[i].nodes, n))
             + node_and_value_count(Below(stack, i))

subject_id(stack, n) == object_node_id(stack, n)

object_value_id(stack, v) ==
  LET i == Topmost({j \in DOMAIN stack : v \in ToSet(stack[j].values)})
  IN  IF i = None THEN None
      ELSE inner_to_outer(stack[i].nodeValueMap,
                          PositionOf(stack[i].values, v) + Len(stack[i].nodes))
             + node_and_value_count(Below(stack, i))

predicate_id(stack, p) ==
  LET i == Topmost({j \in DOMAIN stack : p \in ToSet(stack[j].predicates)})
  IN  IF i = None THEN None
      ELSE inner_to_outer(stack[i].predicateMap, PositionOf(stack[i].predicates, p))
             + predicate_count(Below(stack, i))

ObjectId(stack, o) ==
  IF o[1] = "node" THEN object_node_id(stack, o[2]) ELSE object_value_id(stack, o[2])

(* The layer an id belongs to: the first whose parents have fewer ids.     *)
NodeValueHolder(stack, id) ==
  Topmost({i \in DOMAIN stack : i = Len(stack) \/ id > node_and_value_count(Below(stack, i))})

PredicateHolder(stack, id) ==
  Topmost({i \in DOMAIN stack : i = Len(stack) \/ id > predicate_count(Below(stack, i))})

id_subject(stack, id) ==
  LET i == NodeValueHolder(stack, id)
      inner == outer_to_inner(stack[i].nodeValueMap, id - node_and_value_count(Below(stack, i)))
  IN  dict_get(stack[i].nodes, inner)

id_predicate(stack, id) ==
  LET i == PredicateHolder(stack, id)
      inner == outer_to_inner(stack[i].predicateMap, id - predicate_count(Below(stack, i)))
  IN  dict_get(stack[i].predicates, inner)

id_object(stack, id) ==
  LET i == NodeValueHolder(stack, id)
      d == stack[i]
      inner == outer_to_inner(d.nodeValueMap, id - node_and_value_count(Below(stack, i)))
  IN  IF inner > Len(d.nodes)
        THEN LET v == dict_get(d.values, inner - Len(d.nodes))
             IN  IF v = None THEN None ELSE <<"value", v>>
        ELSE LET n == dict_get(d.nodes, inner) IN IF n = None THEN None ELSE <<"node", n>>

id_object_is_node(stack, id) ==
  LET i == NodeValueHolder(stack, id)
      d == stack[i]
      inner == outer_to_inner(d.nodeValueMap, id - node_and_value_count(Below(stack, i)))
  IN  IF inner > NodeValueLen(d) THEN None ELSE inner <= Len(d.nodes)

value_triple_to_id(stack, x) ==
  LET t == <<subject_id(stack, x[1]), predicate_id(stack, x[2]), ObjectId(stack, x[3])>>
  IN  IF None \in ToSet(t) THEN None ELSE t

id_triple_to_string(stack, t) ==
  LET x == <<id_subject(stack, t[1]), id_predicate(stack, t[2]), id_object(stack, t[3])>>
  IN  IF None \in ToSet(x) THEN None ELSE x

(* The triples of a stack: the newest layer that mentions one decides.     *)
Triples(stack) ==
  {t \in UNION {stack[i].adds : i \in DOMAIN stack} :
     \E i \in DOMAIN stack :
       /\ t \in stack[i].adds
       /\ \A j \in 1 .. i - 1 : t \notin stack[j].rems}

StringTriples(stack) == {id_triple_to_string(stack, t) : t \in Triples(stack)}

(***************************************************************************)
(* triples_value_range: in every layer with values of the datatype, those  *)
(* from the first not below low to the last below high.                    *)
(***************************************************************************)
\* mutant: a value that is in the dictionary is passed over
StartOf_after(dict, v) == Cardinality({w \in ToSet(dict) : w <= v}) + 1

(* TypedDict::id_entry, as the position a value has or would have.         *)
StartOf(dict, v) == Cardinality({w \in ToSet(dict) : w < v}) + 1

ValueRangeIds(stack, low, high) ==
  UNION {LET d == stack[i]
             hasType == \E v \in ToSet(d.values) : Datatype[v] = Datatype[low]
         IN  IF hasType
               THEN {inner_to_outer(d.nodeValueMap, pos + Len(d.nodes))
                       + node_and_value_count(Below(stack, i)) :
                       pos \in StartOf(d.values, low) .. StartOf(d.values, high) - 1}
               ELSE {} : i \in DOMAIN stack}

triples_value_range(stack, low, high) ==
  IF Datatype[low] # Datatype[high]
    THEN {}
    ELSE {t \in Triples(stack) : t[3] \in ValueRangeIds(stack, low, high)}

-----------------------------------------------------------------------------
(* Directories and stacks.                                                 *)
Directory(parent, dicts, adds, rems) ==
  [parent |-> parent, nodes |-> dicts.nodes, values |-> dicts.values,
   predicates |-> dicts.predicates, nodeValueMap |-> dicts.nodeValueMap,
   predicateMap |-> dicts.predicateMap, adds |-> adds, rems |-> rems]

Fresh == Len(disk) + 1

LayersOf(stack) == [i \in DOMAIN stack |-> disk[stack[i].dir]]

Held == LayersOf(held)

(* get_layer without a cache: a rollup is loaded in place of its layer.    *)
Load(n) ==
  LET Walk[m \in DOMAIN disk] ==
        LET d == IF rollup[m] = None THEN m ELSE rollup[m]
        IN  <<[name |-> m, dir |-> d]>>
              \o (IF disk[d].parent = None THEN << >> ELSE Walk[disk[d].parent])
  IN  Walk[n]

(* The directories the parent files lead to, the layer's own first.        *)
FileStack(n) ==
  LET Walk[m \in DOMAIN disk] ==
        <<m>> \o (IF disk[m].parent = None THEN << >> ELSE Walk[disk[m].parent])
  IN  Walk[n]

(* retrieve_layer_stack_names_upto, from the top.                          *)
NamesUpto(n, upto) == SelectSeq(FileStack(n), LAMBDA m : m \notin ToSet(FileStack(upto)))

IsAbove(n, upto) == n # upto /\ upto \in ToSet(FileStack(n))

-----------------------------------------------------------------------------
(* The builder.                                                            *)
NoCalls == [adds |-> {}, rems |-> {}]

(* SimpleLayerBuilder::new and from_parent.                                *)
NewBuilder(stack) ==
  [nodesValues |-> << >>, predicates |-> << >>,
   nodesValuesCount |-> node_and_value_count(stack), predicatesCount |-> predicate_count(stack),
   adds |-> {}, rems |-> {}]

(* The id the builder or the parent has for an entry, or the next one.     *)
WithEntry(b, stack, e) ==
  LET known == ObjectId(stack, e) IN
  CASE e \in DOMAIN b.nodesValues -> b
    [] e \notin DOMAIN b.nodesValues /\ known # None ->
         [b EXCEPT !.nodesValues = @ @@ (e :> known)]
    [] OTHER ->
         [b EXCEPT !.nodesValuesCount = @ + 1,
                   !.nodesValues = @ @@ (e :> b.nodesValuesCount + 1)]

WithPredicate(b, stack, p) ==
  LET known == predicate_id(stack, p) IN
  CASE p \in DOMAIN b.predicates -> b
    [] p \notin DOMAIN b.predicates /\ known # None ->
         [b EXCEPT !.predicates = @ @@ (p :> known)]
    [] OTHER ->
         [b EXCEPT !.predicatesCount = @ + 1, !.predicates = @ @@ (p :> b.predicatesCount + 1)]

calculate_triple(b, stack, x) ==
  WithEntry(WithPredicate(WithEntry(b, stack, <<"node", x[1]>>), stack, x[2]), stack, x[3])

TripleIn(b, x) == <<b.nodesValues[<<"node", x[1]>>], b.predicates[x[2]], b.nodesValues[x[3]]>>

(* Callers go on from the newest layer; the rest bounds the model.         *)
MayCall ==
  /\ ~ astray
  /\ commits < Len(workload.calls)
  /\ \A n \in visible : held # << >> => disk[n].parent # held[1].name
  /\ Cardinality(builder.adds) + Cardinality(builder.rems) < workload.calls[commits + 1]

add_value_triple(x) ==
  /\ MayCall
  /\ LET b == calculate_triple(builder, Held, x)
     IN  builder' = [b EXCEPT !.adds = @ \cup {TripleIn(b, x)}]
  /\ meant' = [meant EXCEPT !.adds = @ \cup {x}]
  /\ UNCHANGED <<files, held, commits>>

remove_value_triple(x) ==
  /\ MayCall
  /\ LET b == calculate_triple(builder, Held, x)
     IN  builder' = [b EXCEPT !.rems = @ \cup {TripleIn(b, x)}]
  /\ meant' = [meant EXCEPT !.rems = @ \cup {x}]
  /\ UNCHANGED <<files, held, commits>>

(* Triples of ids are ones the caller got from the layer in hand.          *)
add_id_triple(x) ==
  /\ MayCall
  /\ value_triple_to_id(Held, x) # None
  /\ builder' = [builder EXCEPT !.adds = @ \cup {value_triple_to_id(Held, x)}]
  /\ meant' = [meant EXCEPT !.adds = @ \cup {x}]
  /\ UNCHANGED <<files, held, commits>>

remove_id_triple(x) ==
  /\ MayCall
  /\ value_triple_to_id(Held, x) # None
  /\ builder' = [builder EXCEPT !.rems = @ \cup {value_triple_to_id(Held, x)}]
  /\ meant' = [meant EXCEPT !.rems = @ \cup {x}]
  /\ UNCHANGED <<files, held, commits>>

(* Additions and removals of the same triple cancel each other, and a      *)
(* removal with an id the parent does not have is dropped.                 *)
NetAdditions(b) == b.adds \ b.rems

NetRemovals(b, stack) ==
  {t \in b.rems \ b.adds : /\ t[1] <= node_and_value_count(stack)
                           /\ t[2] <= predicate_count(stack)
                           /\ t[3] <= node_and_value_count(stack)}

NodeValueIds(triples) == {t[1] : t \in triples} \cup {t[3] : t \in triples}

PredicateIds(triples) == {t[2] : t \in triples}

\* mutant: entries of triples that were cancelled are kept
NewDictionaries_unused(b, stack, triples) ==
  LET new == {e \in DOMAIN b.nodesValues : b.nodesValues[e] > node_and_value_count(stack)}
      newPredicates == {p \in DOMAIN b.predicates : b.predicates[p] > predicate_count(stack)}
  IN  [nodes |-> Sorted({e[2] : e \in {e \in new : e[1] = "node"}}),
       values |-> Sorted({e[2] : e \in {e \in new : e[1] = "value"}}),
       predicates |-> Sorted(newPredicates), nodeValueMap |-> NoMap, predicateMap |-> NoMap]

(* The entries that are new and still used, sorted: the dictionaries of    *)
(* the layer.                                                              *)
NewDictionaries(b, stack, triples) ==
  LET new == {e \in DOMAIN b.nodesValues :
                /\ b.nodesValues[e] > node_and_value_count(stack)
                /\ b.nodesValues[e] \in NodeValueIds(triples)}
      newPredicates == {p \in DOMAIN b.predicates :
                          /\ b.predicates[p] > predicate_count(stack)
                          /\ b.predicates[p] \in PredicateIds(triples)}
  IN  [nodes |-> Sorted({e[2] : e \in {e \in new : e[1] = "node"}}),
       values |-> Sorted({e[2] : e \in {e \in new : e[1] = "value"}}),
       predicates |-> Sorted(newPredicates), nodeValueMap |-> NoMap, predicateMap |-> NoMap]

(* The number an entry has in dictionaries without an id map.              *)
EntryIn(dicts, e) ==
  IF e[1] = "node" THEN PositionOf(dicts.nodes, e[2])
  ELSE PositionOf(dicts.values, e[2]) + Len(dicts.nodes)

\* mutant: values are numbered as if there were no nodes
FinalNodeValueId_without_nodes(b, stack, dicts, id) ==
  LET e == CHOOSE e \in DOMAIN b.nodesValues : b.nodesValues[e] = id
  IN  IF id <= node_and_value_count(stack) THEN id
      ELSE node_and_value_count(stack)
             + IF e[1] = "node" THEN PositionOf(dicts.nodes, e[2]) ELSE PositionOf(dicts.values, e[2])

(* What the ids of the builder become, now that the dictionaries are known.*)
FinalNodeValueId(b, stack, dicts, id) ==
  LET e == CHOOSE e \in DOMAIN b.nodesValues : b.nodesValues[e] = id
  IN  IF id <= node_and_value_count(stack) THEN id
      ELSE node_and_value_count(stack) + EntryIn(dicts, e)

FinalPredicateId(b, stack, dicts, id) ==
  LET p == CHOOSE p \in DOMAIN b.predicates : b.predicates[p] = id
  IN  IF id <= predicate_count(stack) THEN id
      ELSE predicate_count(stack) + PositionOf(dicts.predicates, p)

FinalTriple(b, stack, dicts, t) ==
  <<FinalNodeValueId(b, stack, dicts, t[1]), FinalPredicateId(b, stack, dicts, t[2]),
    FinalNodeValueId(b, stack, dicts, t[3])>>

Committed(b, stack, parent) ==
  LET additions == NetAdditions(b)
      removals == NetRemovals(b, stack)
      dicts == NewDictionaries(b, stack, additions \cup removals)
      have == Triples(stack)
  IN  Directory(parent, dicts,
                {FinalTriple(b, stack, dicts, t) : t \in additions} \ have,
                {FinalTriple(b, stack, dicts, t) : t \in removals} \cap have)

(* What a layer names after those below it.                                *)
NamedBy(d) ==
  [nodesValues |-> [i \in DOMAIN d.nodes |-> <<"node", d.nodes[i]>>]
                     \o [i \in DOMAIN d.values |-> <<"value", d.values[i]>>],
   predicates |-> d.predicates]

NamedOn(lower, d) ==
  [nodesValues |-> lower.nodesValues \o NamedBy(d).nodesValues,
   predicates |-> lower.predicates \o NamedBy(d).predicates]

(* A directory comes to be.                                                *)
Add(d, seen, names, triples) ==
  /\ Fresh <= workload.names
  /\ disk' = Append(disk, d)
  /\ visible' = IF seen THEN visible \cup {Fresh} ELSE visible
  /\ named' = Append(named, names)
  /\ contents' = Append(contents, triples)
  /\ UNCHANGED workload

(* The builder is committed, and the new layer loaded: on top of the layer *)
(* in hand if that is still in the cache, and otherwise from the files.    *)
commit ==
  LET parent == IF held = << >> THEN None ELSE held[1].name
      lower == IF held = << >> THEN NamedBy([nodes |-> << >>, values |-> << >>, predicates |-> << >>])
               ELSE named[parent]
      before == IF held = << >> THEN {} ELSE contents[parent]
      d == Committed(builder, Held, parent)
      stack == <<[name |-> Fresh, dir |-> Fresh]>> \o held
  IN
  /\ ~ astray
  /\ commits < Len(workload.calls)
  /\ builder.adds \cup builder.rems # {}
  /\ Add(d, TRUE, NamedOn(lower, d),
         (before \cup (meant.adds \ meant.rems)) \ (meant.rems \ meant.adds))
  /\ rollup' = Append(rollup, None)
  /\ held' = stack
  /\ builder' = NewBuilder(<<d>> \o Held)
  /\ commits' = commits + 1
  /\ meant' = NoCalls
  /\ UNCHANGED astray

(* get_layer, with a new builder on top of it.                             *)
get_layer(n) ==
  /\ builder.adds \cup builder.rems = {}
  /\ held' = Load(n)
  /\ builder' = NewBuilder(LayersOf(Load(n)))
  /\ meant' = NoCalls
  /\ UNCHANGED <<files, commits>>

-----------------------------------------------------------------------------
(***************************************************************************)
(* Dictionaries of several layers, oldest first, as sets of pairs <<string, *)
(* id>>; the ids are counted from the first of the layers on.              *)
(***************************************************************************)
Before(layers, k) == SubSeq(layers, 1, k - 1)

NodePairs(layers) ==
  UNION {{<<layers[k].nodes[i], inner_to_outer(layers[k].nodeValueMap, i)
                                  + node_and_value_count(Before(layers, k))>> :
            i \in DOMAIN layers[k].nodes} : k \in DOMAIN layers}

ValuePairs(layers) ==
  UNION {{<<layers[k].values[i], inner_to_outer(layers[k].nodeValueMap, i + Len(layers[k].nodes))
                                   + node_and_value_count(Before(layers, k))>> :
            i \in DOMAIN layers[k].values} : k \in DOMAIN layers}

PredicatePairs(layers) ==
  UNION {{<<layers[k].predicates[i], inner_to_outer(layers[k].predicateMap, i)
                                       + predicate_count(Before(layers, k))>> :
            i \in DOMAIN layers[k].predicates} : k \in DOMAIN layers}

Strings(pairs) == Sorted({x[1] : x \in pairs})

IdsInOrder(pairs) ==
  [i \in DOMAIN Strings(pairs) |-> (CHOOSE x \in pairs : x[1] = Strings(pairs)[i])[2]]

(* merge_string_dictionaries and merge_typed_dictionaries, and the maps of *)
(* construct_idmaps_from_structures: nodes first and then values.          *)
MergedDictionaries(layers) ==
  [nodes |-> Strings(NodePairs(layers)), values |-> Strings(ValuePairs(layers)),
   predicates |-> Strings(PredicatePairs(layers)),
   nodeValueMap |-> IdsInOrder(NodePairs(layers)) \o IdsInOrder(ValuePairs(layers)),
   predicateMap |-> IdsInOrder(PredicatePairs(layers))]

(* dictionary_rollup: the layers in hand, with their maps.                 *)
dictionary_rollup(stack) == MergedDictionaries(Reverse(stack))

(* The change of some layers: additions and removals cancel each other.    *)
Changes(layers) ==
  LET Times(t, Of(_)) == Cardinality({k \in DOMAIN layers : t \in Of(layers[k])})
      all == UNION {layers[k].adds \cup layers[k].rems : k \in DOMAIN layers}
      Adds(d) == d.adds
      Rems(d) == d.rems
  IN  [adds |-> {t \in all : Times(t, Adds) > Times(t, Rems)},
       rems |-> {t \in all : Times(t, Rems) > Times(t, Adds)}]

Idle == builder.adds \cup builder.rems = {} /\ ~ astray

(* rollup, registered at once; a base layer or one that has a base layer   *)
(* for its rollup already is left as it is.                                *)
Rollup ==
  LET top == held[1].name IN
  /\ "rollup" \in workload.ops /\ Idle /\ held # << >>
  /\ disk[top].parent # None
  /\ rollup[top] # None => disk[rollup[top]].parent # None
  /\ Add(Directory(None, dictionary_rollup(Held), Triples(Held), {}), FALSE,
         named[top], contents[top])
  /\ rollup' = Append([rollup EXCEPT ![top] = Fresh], None)
  /\ UNCHANGED <<held, builder, commits, meant, astray>>

(***************************************************************************)
(* safe_upto_bound: how many layers in hand are above the bound, and what  *)
(* the bound is.                                                           *)
(***************************************************************************)
Followed(upto) ==
  LET Follows(i) == held[i + 1].name \in ToSet(NamesUpto(held[1].name, upto))
  IN  CHOOSE i \in DOMAIN held :
        /\ i = Len(held) \/ ~ Follows(i)
        /\ \A j \in 1 .. i - 1 : Follows(j)

safe_upto_bound(upto) ==
  LET i == Followed(upto)
  IN  IF i < Len(held) /\ held[i + 1].name = upto THEN upto ELSE held[i].name

(* immediate_layers_upto the bound, oldest first.                          *)
MemoryPart(upto) ==
  Reverse(SubSeq(Held, 1, IF safe_upto_bound(upto) = upto THEN Followed(upto) ELSE Followed(upto) - 1))

\* mutant: the layer at the bound is left out on disk too
DiskPart_above(upto) ==
  LET names == Reverse(NamesUpto(safe_upto_bound(upto), upto))
  IN  [k \in 1 .. Len(names) - 1 |-> disk[names[k]]]

(* The layers on disk from the bound down to upto, oldest first.           *)
DiskPart(upto) ==
  LET names == Reverse(NamesUpto(safe_upto_bound(upto), upto))
  IN  [k \in DOMAIN names |-> disk[names[k]]]

(* dictionary_rollup_upto takes the predicate maps of the part in memory   *)
(* from node_value_id_map().                                               *)
AsStructures(layers) ==
  [k \in DOMAIN layers |-> [layers[k] EXCEPT !.predicateMap = layers[k].nodeValueMap]]

dictionary_rollup_upto(upto) == MergedDictionaries(DiskPart(upto) \o AsStructures(MemoryPart(upto)))

RollupUpto(upto) ==
  LET top == held[1].name
      change == Changes(DiskPart(upto) \o MemoryPart(upto))
  IN
  /\ "rollup_upto" \in workload.ops /\ Idle /\ held # << >>
  /\ IsAbove(top, upto) /\ disk[top].parent # upto
  /\ rollup[top] # None => disk[rollup[top]].parent \notin {upto, None}
  /\ safe_upto_bound(upto) # top
  /\ Add(Directory(upto, dictionary_rollup_upto(upto), change.adds, change.rems), FALSE,
         named[top], contents[top])
  /\ rollup' = Append([rollup EXCEPT ![top] = Fresh], None)
  /\ astray' = (\E k \in DOMAIN MemoryPart(upto) :
                  MemoryPart(upto)[k].predicateMap # MemoryPart(upto)[k].nodeValueMap)
  /\ UNCHANGED <<held, builder, commits, meant>>

-----------------------------------------------------------------------------
(***************************************************************************)
(* squash and squash_upto: the strings that triples still use get new ids, *)
(* after those of the layers below.                                        *)
(***************************************************************************)
UsedPairs(pairs, ids, base) == {x \in pairs : x[2] + base \in ids}

StringOf(pairs, id) == (CHOOSE x \in pairs : x[2] = id)[1]

(* Dictionaries of the triples' entries among the layers, and the triples  *)
(* in their new ids; base and basePredicates are the ids of lower layers.  *)
SquashedDictionaries(layers, triples, base, basePredicates) ==
  [nodes |-> Strings(UsedPairs(NodePairs(layers), NodeValueIds(triples), base)),
   values |-> Strings(UsedPairs(ValuePairs(layers), NodeValueIds(triples), base)),
   predicates |-> Strings(UsedPairs(PredicatePairs(layers), PredicateIds(triples), basePredicates)),
   nodeValueMap |-> NoMap, predicateMap |-> NoMap]

SquashedTriple(layers, dicts, base, basePredicates, t) ==
  LET nodes == NodePairs(layers)
      IsNode(id) == \E x \in nodes : x[2] = id - base
      NodeValue(id) ==
        CASE id <= base -> id
          [] id > base /\ IsNode(id) -> base + PositionOf(dicts.nodes, StringOf(nodes, id - base))
          [] OTHER -> base + Len(dicts.nodes)
                        + PositionOf(dicts.values, StringOf(ValuePairs(layers), id - base))
      Pred(id) ==
        IF id <= basePredicates THEN id
        ELSE basePredicates
               + PositionOf(dicts.predicates, StringOf(PredicatePairs(layers), id - basePredicates))
  IN  <<NodeValue(t[1]), Pred(t[2]), NodeValue(t[3])>>

(* The new layer is loaded in place of the one in hand.                    *)
Becomes(d, lower) ==
  /\ rollup' = Append(rollup, None)
  /\ held' = <<[name |-> Fresh, dir |-> Fresh]>> \o lower
  /\ builder' = NewBuilder(<<d>> \o LayersOf(lower))

squash ==
  LET layers == Reverse(Held)
      dicts == SquashedDictionaries(layers, Triples(Held), 0, 0)
      d == Directory(None, dicts,
                     {SquashedTriple(layers, dicts, 0, 0, t) : t \in Triples(Held)}, {})
  IN
  /\ "squash" \in workload.ops /\ Idle /\ held # << >>
  /\ Add(d, TRUE, NamedBy(d), contents[held[1].name])
  /\ Becomes(d, << >>)
  /\ UNCHANGED <<commits, meant, astray>>

(* squash_upto reads the files of the layers above upto, and all counts    *)
(* from the parent files.                                                  *)
squash_upto(upto) ==
  LET names == Reverse(NamesUpto(held[1].name, upto))
      layers == [k \in DOMAIN names |-> disk[names[k]]]
      lower == [k \in DOMAIN FileStack(upto) |-> disk[FileStack(upto)[k]]]
      base == node_and_value_count(lower)
      basePredicates == predicate_count(lower)
      change == Changes(layers)
      dicts == SquashedDictionaries(layers, change.adds, base, basePredicates)
      Mapped(triples) ==
        {SquashedTriple(layers, dicts, base, basePredicates, t) : t \in triples}
      d == Directory(upto, dicts, Mapped(change.adds), Mapped(change.rems))
  IN
  /\ "squash_upto" \in workload.ops /\ Idle /\ held # << >>
  /\ IsAbove(held[1].name, upto)
  /\ Add(d, TRUE, NamedOn(named[upto], d), contents[held[1].name])
  /\ Becomes(d, Load(upto))
  /\ UNCHANGED <<commits, meant, astray>>

-----------------------------------------------------------------------------
(***************************************************************************)
(* merge_base_layer: the files of base layers are merged into one, every   *)
(* string and every triple once.  Ids are taken from the files as they     *)
(* are, without an id map.                                                 *)
(***************************************************************************)
DedupMerged(names) ==
  [nodes |-> Sorted(UNION {ToSet(disk[n].nodes) : n \in names}),
   values |-> Sorted(UNION {ToSet(disk[n].values) : n \in names}),
   predicates |-> Sorted(UNION {ToSet(disk[n].predicates) : n \in names}),
   nodeValueMap |-> NoMap, predicateMap |-> NoMap]

map_triple(d, dicts, t) ==
  <<PositionOf(dicts.nodes, d.nodes[t[1]]), PositionOf(dicts.predicates, d.predicates[t[2]]),
    IF t[3] <= Len(d.nodes) THEN PositionOf(dicts.nodes, d.nodes[t[3]])
    ELSE PositionOf(dicts.values, d.values[t[3] - Len(d.nodes)]) + Len(dicts.nodes)>>

merge_base_layer(names) ==
  LET dicts == DedupMerged(names)
      d == Directory(None, dicts,
                     UNION {{map_triple(disk[n], dicts, t) : t \in disk[n].adds} : n \in names}, {})
  IN
  /\ "merge" \in workload.ops /\ Idle
  /\ \A n \in names : disk[n].parent = None
  /\ Add(d, TRUE, NamedBy(d), UNION {contents[n] : n \in names})
  /\ Becomes(d, << >>)
  /\ UNCHANGED <<commits, meant, astray>>

(* A builder for another base layer.                                       *)
NewBase ==
  /\ "merge" \in workload.ops /\ Idle
  /\ held # << >>
  /\ held' = << >>
  /\ builder' = NewBuilder(<< >>)
  /\ UNCHANGED <<files, commits, meant>>

-----------------------------------------------------------------------------
Init ==
  /\ disk = << >> /\ rollup = << >> /\ contents = << >> /\ named = << >>
  /\ visible = {}
  /\ held = << >>
  /\ builder = NewBuilder(<< >>)
  /\ commits = 0
  /\ meant = NoCalls
  /\ astray = FALSE
  /\ workload \in Workloads

Next ==
  \/ \E x \in workload.triples :
       add_value_triple(x) \/ remove_value_triple(x) \/ add_id_triple(x) \/ remove_id_triple(x)
  \/ commit
  \/ \E n \in visible : get_layer(n) \/ RollupUpto(n) \/ squash_upto(n)
  \/ Rollup
  \/ squash
  \/ \E m, n \in visible : m < n /\ merge_base_layer({m, n})
  \/ NewBase

Spec == Init /\ [][Next]_vars

-----------------------------------------------------------------------------
(* Properties.                                                             *)
(* The stacks a caller can have: the layers as the files give them now,    *)
(* and the one in hand.                                                    *)
Stacks == {Load(n) : n \in visible} \cup (IF held = << >> THEN {} ELSE {held})

NodesAndValuesNamed(s) ==
  LET stack == LayersOf(s)
      names == named[s[1].name].nodesValues
  IN  /\ node_and_value_count(stack) = Len(names)
      /\ \A id \in DOMAIN names :
           /\ id_object(stack, id) = names[id]
           /\ id_object_is_node(stack, id) = (names[id][1] = "node")
           /\ id_subject(stack, id) = IF names[id][1] = "node" THEN names[id][2] ELSE None
           /\ ObjectId(stack, names[id]) = id
      /\ id_object(stack, Len(names) + 1) = None
      /\ \A e \in Entry : e \notin ToSet(names) => ObjectId(stack, e) = None

PredicatesNamed(s) ==
  LET stack == LayersOf(s)
      names == named[s[1].name].predicates
  IN  /\ predicate_count(stack) = Len(names)
      /\ \A id \in DOMAIN names : id_predicate(stack, id) = names[id] /\ predicate_id(stack, names[id]) = id
      /\ \A p \in Predicate : p \notin ToSet(names) => predicate_id(stack, p) = None

(***************************************************************************)
(* The ids of a layer name the same nodes, values and predicates however   *)
(* the layer is loaded, before and after any rollup, and so do those of    *)
(* the layers below it; a string that is looked up gives the id that names *)
(* it, and a string or an id the layer does not have gives nothing.  Not   *)
(* so for predicates once rollup_upto has found a rollup among the layers  *)
(* in memory that it rolls up.                                             *)
(***************************************************************************)
IdsKeepNaming ==
  \A s \in Stacks : NodesAndValuesNamed(s) /\ (~ astray => PredicatesNamed(s))

(***************************************************************************)
(* rollup_upto "rolls up all triples in this layer": whichever rollups a   *)
(* layer has, its triples, ids turned into strings, are still the ones it  *)
(* was committed with.                                                     *)
(***************************************************************************)
RollupHasAllTriples == \A s \in Stacks : StringTriples(LayersOf(s)) = contents[s[1].name]

(***************************************************************************)
(* However a layer was committed, rolled up, squashed and merged, its      *)
(* triples are the ones its callers meant: the calls of a builder, less    *)
(* those that cancel each other, on top of the triples of its parent.  Not *)
(* so once rollup_upto has rolled up a rollup in memory.                   *)
(***************************************************************************)
TriplesAreMeant == astray \/ RollupHasAllTriples

(* The triples whose object is a value from low up to, not including high, *)
(* of one datatype, wherever in the stack the values are.                  *)
ValueRangeIsExact ==
  ~ astray => \A s \in Stacks : \A low, high \in Value :
    LET stack == LayersOf(s) IN
    {id_triple_to_string(stack, t) : t \in triples_value_range(stack, low, high)} =
      {x \in contents[s[1].name] :
         /\ x[3][1] = "value" /\ low <= x[3][2] /\ x[3][2] < high
         /\ Datatype[low] = Datatype[high]}

(***************************************************************************)
(* "some dict entries might now be unused": every string in the            *)
(* dictionaries of a layer that was committed or squashed is used by a     *)
(* triple the layer adds, and is in no layer below.                        *)
(***************************************************************************)
DictionariesAreUsed ==
  \A n \in visible :
    LET d == disk[n]
        names == named[n]
        used == {names.nodesValues[id] : id \in NodeValueIds(d.adds)}
    IN  /\ ToSet(NamedBy(d).nodesValues) \subseteq used
        /\ ToSet(d.predicates) \subseteq {names.predicates[id] : id \in PredicateIds(d.adds)}
        /\ IsInjective(names.nodesValues) /\ IsInjective(names.predicates)

=============================================================================
