----------------------------- MODULE LayerStack -----------------------------
(***************************************************************************)
(* Layers on disk, the stacks they are loaded into, and the rollups that   *)
(* replace parts of a stack (storage/layer.rs, delta.rs and cache.rs).     *)
(*                                                                         *)
(* A layer directory holds the additions and removals of the layer and a   *)
(* parent file; a rollup is one more such directory, which the rollup file *)
(* of a layer names as the better one to load.  Loading a layer walks the  *)
(* parent and rollup files back to a base layer or to a layer in the       *)
(* cache, while other tasks commit, roll up and invalidate.                *)
(*                                                                         *)
(* A loaded layer is a sequence of records, the layer itself first and     *)
(* then its immediate parents.  Names are numbers in the order in which    *)
(* the directories are made.  Triples are compared by their ids, which     *)
(* rollups keep; squash renumbers them and is taken up to renumbering.     *)
(***************************************************************************)
EXTENDS Naturals, Sequences, FiniteSets

CONSTANTS
  Task,        \* concurrent callers
  Triple,      \* triples
  None,        \* no parent file, no rollup file
  Unused,      \* the parent of a name without a directory
  MaxName,     \* how many directories are made at most
  Branching,   \* whether a layer may get a second child
  Workloads    \* what the callers do: which tasks, how many directories and
               \* layers other than rollups they make, which operations they use

AllOps == {"rollup", "rollup_upto", "imprecise_rollup_upto", "squash", "squash_upto", "expire"}

ASSUME BoundsAssumption == MaxName \in Nat
ASSUME BranchingAssumption == Branching \in BOOLEAN
ASSUME WorkloadsAssumption ==
  Workloads \subseteq [tasks : SUBSET Task, names : 0 .. MaxName, layers : Nat, ops : SUBSET AllOps]
ASSUME SentinelAssumption == None \notin Nat /\ Unused \notin Nat /\ None # Unused

Name == 1 .. MaxName

VARIABLES
  parent, adds, rems,  \* the files of every directory
  rollup,      \* the rollup file of every directory
  cache,       \* the loaded layers in the cache, or << >>
  pc,          \* where each task is in its call
  held,        \* the layer each task has in hand, or << >>
  path,        \* layers_to_load
  goal,        \* what the call will do, once it has walked
  visible,     \* the names callers know: all but the rollups' own
  contents,    \* the triples each layer must have (history)
  workload     \* what the callers do in this behaviour

vars == <<parent, adds, rems, rollup, cache, pc, held, path, goal, visible, contents, workload>>

disk == <<parent, adds, rems, rollup, visible, contents, workload>>

Used == {n \in Name : parent[n] # Unused}

Stack == Seq([name : Name, adds : SUBSET Triple, rems : SUBSET Triple])

Step == [name : Name, rollup : Name \cup {None}]

NoGoal == [op |-> "get"]

Goal == {NoGoal}
  \cup [op : {"rollup_upto", "imprecise_rollup_upto"}, upto : Name]
  \cup [op : {"register"}, layer : Name, rollup : Name]

TypeOK ==
  /\ parent \in [Name -> Name \cup {None, Unused}]
  /\ adds \in [Name -> SUBSET Triple]
  /\ rems \in [Name -> SUBSET Triple]
  /\ rollup \in [Name -> Name \cup {None}]
  /\ cache \in [Name -> Stack]
  /\ pc \in [Task -> {"idle", "walk", "build", "register", "invalidate",
                      "panicked"}]
  /\ held \in [Task -> Stack]
  /\ path \in [Task -> Seq(Step)]
  /\ goal \in [Task -> Goal]
  /\ visible \subseteq Name
  /\ contents \in [Name -> SUBSET Triple]
  /\ workload \in Workloads

Init ==
  /\ parent = [n \in Name |-> Unused]
  /\ adds = [n \in Name |-> {}]
  /\ rems = [n \in Name |-> {}]
  /\ rollup = [n \in Name |-> None]
  /\ cache = [n \in Name |-> << >>]
  /\ pc = [t \in Task |-> "idle"]
  /\ held = [t \in Task |-> << >>]
  /\ path = [t \in Task |-> << >>]
  /\ goal = [t \in Task |-> NoGoal]
  /\ visible = {}
  /\ contents = [n \in Name |-> {}]
  /\ workload \in Workloads

-----------------------------------------------------------------------------
(* The triples of a loaded layer: the topmost layer that mentions a triple *)
(* decides, as in triple_exists.                                           *)
TripleExists(stack, x) ==
  \E i \in 1 .. Len(stack) :
    /\ x \in stack[i].adds
    /\ \A j \in 1 .. i - 1 : x \notin stack[j].adds \cup stack[j].rems

Triples(stack) == {x \in Triple : TripleExists(stack, x)}

(* The layers the parent files lead to, the layer itself included.         *)
Ancestors ==
  LET Up[n \in Name] == {n} \cup IF parent[n] \in Name THEN Up[parent[n]] ELSE {}
  IN  Up

(* retrieve_layer_stack_names_upto: down to the layer above upto, or an    *)
(* error when upto is not met.                                             *)
IsAbove(n, upto) == n # upto /\ upto \in Ancestors[n]
StackNamesUpto(n, upto) == Ancestors[n] \ Ancestors[upto]

(***************************************************************************)
(* safe_upto_bound goes down the loaded stack as long as the disk stack    *)
(* above upto has the next layer too.  It ends at upto itself, or at the   *)
(* last layer it could follow, from where the disk is read.                *)
(***************************************************************************)
BoundIndex(stack, upto) ==
  LET Follows(i) == stack[i + 1].name \in StackNamesUpto(stack[1].name, upto)
  IN  CHOOSE i \in 1 .. Len(stack) :
        /\ i = Len(stack) \/ ~ Follows(i)
        /\ \A j \in 1 .. i - 1 : Follows(j)

SafeUptoBound(stack, upto) ==
  LET i == BoundIndex(stack, upto)
  IN  IF i < Len(stack) /\ stack[i + 1].name = upto THEN upto ELSE stack[i].name

\* mutant: the layer at the bound is read from memory and from disk
NotBelowBound(stack, upto) == SubSeq(stack, 1, BoundIndex(stack, upto))

(* from_layer_stack: the layers of the stack above the bound.              *)
AboveBound(stack, upto) ==
  SubSeq(stack, 1, IF SafeUptoBound(stack, upto) = upto
                     THEN BoundIndex(stack, upto)
                     ELSE BoundIndex(stack, upto) - 1)

(***************************************************************************)
(* InternalTripleStackIterator over some layers on disk (layer_changes_    *)
(* upto) and some in memory: additions and removals of a triple cancel     *)
(* each other, and what is left over is the change.                        *)
(***************************************************************************)
Added(names, stack, x) ==
  Cardinality({n \in names : x \in adds[n]})
    + Cardinality({i \in 1 .. Len(stack) : x \in stack[i].adds})

Removed(names, stack, x) ==
  Cardinality({n \in names : x \in rems[n]})
    + Cardinality({i \in 1 .. Len(stack) : x \in stack[i].rems})

NetAdditions(names, stack) ==
  {x \in Triple : Added(names, stack, x) > Removed(names, stack, x)}

\* mutant: removals are kept even if the triple was added as well
NotCancelled(names, stack) == {x \in Triple : Removed(names, stack, x) > 0}

NetRemovals(names, stack) ==
  {x \in Triple : Removed(names, stack, x) > Added(names, stack, x)}

-----------------------------------------------------------------------------
(* A task of the workload is between two calls.                            *)
Idle(t) == pc[t] = "idle" /\ t \in workload.tasks

GoTo(t, where) == pc' = [pc EXCEPT ![t] = where]

(* The call returns, with an error or without.                             *)
Returns(t) ==
  /\ pc' = [pc EXCEPT ![t] = "idle"]
  /\ goal' = [goal EXCEPT ![t] = NoGoal]

(* create_directory: a name nobody has used, and the files put in it.      *)
Fresh == Cardinality(Used) + 1

Room == Fresh <= workload.names

NewLayer(p, a, r, triples, seen) ==
  /\ Room
  /\ seen => Cardinality(visible) < workload.layers
  /\ parent' = [parent EXCEPT ![Fresh] = p]
  /\ adds' = [adds EXCEPT ![Fresh] = a]
  /\ rems' = [rems EXCEPT ![Fresh] = r]
  /\ contents' = [contents EXCEPT ![Fresh] = triples]
  /\ visible' = IF seen THEN visible \cup {Fresh} ELSE visible
  /\ UNCHANGED <<rollup, workload>>

\* mutant: the parent is put on the path before it is known to exist
WithParent(t, n) ==
  path' = [path EXCEPT ![t] = <<[name |-> n, rollup |-> None],
                                [name |-> parent[n], rollup |-> None]>>]

StartWalk(t, n) == path' = [path EXCEPT ![t] = <<[name |-> n, rollup |-> None]>>]

(***************************************************************************)
(* A builder is committed: a base layer, or a child of the layer in hand.  *)
(* A triple both added and removed is dropped; additions the parent has    *)
(* and removals it does not have are dropped too.  Then it is loaded.      *)
(***************************************************************************)
Commit(t, a, r) ==
  LET have == Triples(held[t])
      top == held[t][1].name
  IN
  /\ Idle(t)
  /\ Branching \/ \A n \in visible : held[t] # << >> /\ parent[n] # top
  /\ IF held[t] # << >>
       THEN NewLayer(top, (a \ r) \ have, (r \ a) \cap have,
                     (contents[top] \cup (a \ r)) \ (r \ a), TRUE)
       ELSE NewLayer(None, a \ r, {}, a \ r, TRUE)
  /\ StartWalk(t, Fresh)
  /\ GoTo(t, "walk")
  /\ UNCHANGED <<cache, held, goal>>

(* get_layer of a name the caller knows.                                   *)
GetLayer(t, n) ==
  /\ Idle(t)
  /\ StartWalk(t, n)
  /\ GoTo(t, "walk")
  /\ UNCHANGED <<disk, cache, held, goal>>

(* The directory a step of the walk is about.                              *)
Directory(step) == IF step.rollup = None THEN step.name ELSE step.rollup

(***************************************************************************)
(* The walk is over: what is still to be loaded goes on top of the         *)
(* ancestor, and every layer of it into the cache, a rollup under its own  *)
(* name as well as, wrapped, under the name of the layer it stands for.    *)
(***************************************************************************)
Load(steps, ancestor) ==
  [i \in 1 .. Len(steps) |-> [name |-> steps[i].name,
                              adds |-> adds[Directory(steps[i])],
                              rems |-> rems[Directory(steps[i])]]] \o ancestor

\* mutant: a rollup is not wrapped as the layer it stands for
NotWrapped(stack, n) == stack

Renamed(stack, n) == [stack EXCEPT ![1].name = n]

CacheLoaded(steps, stack) ==
  cache' = [n \in Name |->
    IF \E i \in 1 .. Len(steps) : n \in {steps[i].name, steps[i].rollup}
      THEN LET i == CHOOSE i \in 1 .. Len(steps) : n \in {steps[i].name, steps[i].rollup}
           IN  Renamed(SubSeq(stack, i, Len(stack)), n)
      ELSE cache[n]]

EndWalk(t, steps, ancestor) ==
  LET stack == Load(steps, ancestor) IN
  /\ CacheLoaded(steps, stack)
  /\ path' = [path EXCEPT ![t] = << >>]
  /\ IF goal[t] = NoGoal
       THEN held' = [held EXCEPT ![t] = stack] /\ Returns(t)
       ELSE GoTo(t, "build") /\ UNCHANGED <<held, goal>>
  /\ UNCHANGED disk

(***************************************************************************)
(* get_layer_from_cache finds nothing, or a dead reference.  It removes a  *)
(* dead one after it has let go of the lock: a layer that another task has *)
(* put in its place meanwhile is removed, and not found.                   *)
(***************************************************************************)
Misses(n) == cache[n] = << >> \/ "expire" \in workload.ops

(***************************************************************************)
(* One round of the loop of get_layer_with_cache: the last directory of    *)
(* the path is in the cache, or has a rollup to be loaded in its place, or *)
(* has a parent to be loaded before it, or is a base layer.                *)
(***************************************************************************)
Walk(t) ==
  LET last == path[t][Len(path[t])]
      before == SubSeq(path[t], 1, Len(path[t]) - 1)
      current == Directory(last)
      GoesOn(steps) ==
        /\ path' = [path EXCEPT ![t] = steps]
        /\ cache' = [cache EXCEPT ![current] = << >>]
        /\ UNCHANGED <<disk, pc, held, goal>>
  IN
  /\ pc[t] = "walk"
  /\ \/ /\ cache[current] # << >>
        /\ EndWalk(t, before, Renamed(cache[current], last.name))
     \/ /\ Misses(current)
        /\ \/ /\ rollup[current] # None
              /\ GoesOn(Append(before, [name |-> current, rollup |-> rollup[current]]))
           \/ /\ rollup[current] = None
              /\ parent[current] # None
              /\ GoesOn(Append(path[t], [name |-> parent[current], rollup |-> None]))
           \/ /\ rollup[current] = None
              /\ parent[current] = None
              /\ EndWalk(t, path[t], << >>)

-----------------------------------------------------------------------------
(* The rollup made for the layer, or its own name, is about to be written  *)
(* into its rollup file.                                                   *)
ToRegister(t, n, r) ==
  /\ goal' = [goal EXCEPT ![t] = [op |-> "register", layer |-> n, rollup |-> r]]
  /\ GoTo(t, "register")

(* perform_rollup: a base layer stays as it is, a rollup that is a base    *)
(* layer is used again, and otherwise all triples go into a new one.       *)
Rollup(t) ==
  LET top == held[t][1].name IN
  /\ "rollup" \in workload.ops
  /\ Idle(t)
  /\ held[t] # << >>
  /\ \/ /\ parent[top] = None
        /\ ToRegister(t, top, top)
        /\ UNCHANGED disk
     \/ /\ parent[top] # None
        /\ rollup[top] # None
        /\ parent[rollup[top]] = None
        /\ ToRegister(t, top, rollup[top])
        /\ UNCHANGED disk
     \/ /\ parent[top] # None
        /\ rollup[top] # None => parent[rollup[top]] # None
        /\ NewLayer(None, Triples(held[t]), {}, contents[top], FALSE)
        /\ ToRegister(t, top, Fresh)
  /\ UNCHANGED <<cache, held, path>>

(***************************************************************************)
(* perform_rollup_upto, up to the creation of the directory.  A rollup     *)
(* that is there already is used again if it has upto as its parent; if it *)
(* has none, reading its parent file is an error.  The directory is made   *)
(* after upto has been loaded, by rollup_upto through the cache and by     *)
(* imprecise_rollup_upto past it.                                          *)
(***************************************************************************)
RollupUpto(t, op, upto) ==
  LET top == held[t][1].name
      known == rollup[top]
  IN
  /\ op \in workload.ops \cap {"rollup_upto", "imprecise_rollup_upto"}
  /\ Idle(t)
  /\ held[t] # << >>
  /\ \/ /\ upto \in {top, parent[top]}
        /\ ToRegister(t, top, top)
        /\ UNCHANGED path
     \/ /\ upto \notin {top, parent[top]}
        /\ known # None
        /\ parent[known] = upto
        /\ ToRegister(t, top, known)
        /\ UNCHANGED path
     \/ /\ upto \notin {top, parent[top]}
        /\ known # None
        /\ parent[known] = None
        /\ Returns(t)
        /\ UNCHANGED path
     \/ /\ upto \notin {top, parent[top]}
        /\ known # None => parent[known] \notin {upto, None}
        /\ goal' = [goal EXCEPT ![t] = [op |-> op, upto |-> upto]]
        /\ IF op = "rollup_upto"
             THEN StartWalk(t, upto) /\ GoTo(t, "walk")
             ELSE GoTo(t, "build") /\ UNCHANGED path
  /\ UNCHANGED <<disk, cache, held>>

(* What the new directory is filled with.                                  *)
RollupChange(t) ==
  LET stack == held[t]
      upto == goal[t].upto
      names == IF goal[t].op = "rollup_upto"
                 THEN StackNamesUpto(SafeUptoBound(stack, upto), upto)
                 ELSE {}
  IN  [adds |-> NetAdditions(names, AboveBound(stack, upto)),
       rems |-> NetRemovals(names, AboveBound(stack, upto))]

(***************************************************************************)
(* The rest of perform_rollup_upto: an error when no directory can be made *)
(* or upto is not below the layer; a panic when the bound is the layer     *)
(* itself; otherwise a child of upto with the changes above it.            *)
(***************************************************************************)
BuildRollup(t) ==
  LET top == held[t][1].name
      upto == goal[t].upto
  IN
  /\ pc[t] = "build"
  /\ \/ /\ ~ IsAbove(top, upto) \/ ~ Room
        /\ Returns(t)
        /\ UNCHANGED disk
     \/ /\ IsAbove(top, upto) /\ Room
        /\ SafeUptoBound(held[t], upto) = top
        /\ GoTo(t, "panicked")
        /\ UNCHANGED goal
        /\ UNCHANGED disk
     \/ /\ IsAbove(top, upto)
        /\ SafeUptoBound(held[t], upto) # top
        /\ NewLayer(upto, RollupChange(t).adds, RollupChange(t).rems, contents[top], FALSE)
        /\ ToRegister(t, top, Fresh)
  /\ UNCHANGED <<cache, held, path>>

\* mutant: a layer is registered as its own rollup
RegistersItself(t) ==
  /\ pc[t] = "register"
  /\ rollup' = [rollup EXCEPT ![goal[t].layer] = goal[t].rollup]
  /\ GoTo(t, "invalidate")
  /\ UNCHANGED <<parent, adds, rems, visible, contents, workload, cache, held, path, goal>>

(* register_rollup: "let's not create a loop".                             *)
Register(t) ==
  /\ pc[t] = "register"
  /\ rollup' = [rollup EXCEPT ![goal[t].layer] =
                  IF goal[t].layer = goal[t].rollup THEN @ ELSE goal[t].rollup]
  /\ GoTo(t, "invalidate")
  /\ UNCHANGED <<parent, adds, rems, visible, contents, workload, cache, held, path, goal>>

(* CachedLayerStore then drops the layer and all its ancestors.            *)
Invalidate(t) ==
  /\ pc[t] = "invalidate"
  /\ cache' = [n \in Name |-> IF n \in Ancestors[goal[t].layer] THEN << >> ELSE cache[n]]
  /\ Returns(t)
  /\ UNCHANGED <<disk, held, path>>

(* squash: a new base layer with all triples, which is then loaded.        *)
Squash(t) ==
  /\ "squash" \in workload.ops
  /\ Idle(t)
  /\ held[t] # << >>
  /\ NewLayer(None, Triples(held[t]), {}, contents[held[t][1].name], TRUE)
  /\ StartWalk(t, Fresh)
  /\ GoTo(t, "walk")
  /\ UNCHANGED <<cache, held, goal>>

(* squash_upto: a new child of upto with the changes on disk above it.     *)
SquashUpto(t, upto) ==
  LET top == held[t][1].name IN
  /\ "squash_upto" \in workload.ops
  /\ Idle(t)
  /\ held[t] # << >>
  /\ IsAbove(top, upto)
  /\ NewLayer(upto, NetAdditions(StackNamesUpto(top, upto), << >>),
              NetRemovals(StackNamesUpto(top, upto), << >>), contents[top], TRUE)
  /\ StartWalk(t, Fresh)
  /\ GoTo(t, "walk")
  /\ UNCHANGED <<cache, held, goal>>

(***************************************************************************)
(* The cache only has weak references: layers that are not part of one     *)
(* somebody has in hand go away, at a moment nobody knows.                 *)
(***************************************************************************)
InUse(stack) ==
  \E t \in Task, i \in Name :
    i <= Len(held[t]) /\ Tail(stack) = SubSeq(held[t], i + 1, Len(held[t]))
                      /\ stack[1].adds = held[t][i].adds /\ stack[1].rems = held[t][i].rems

Expire ==
  /\ "expire" \in workload.ops
  /\ cache' = [n \in Name |->
                 IF cache[n] # << >> /\ InUse(cache[n]) THEN cache[n] ELSE << >>]
  /\ UNCHANGED <<disk, pc, held, path, goal>>

-----------------------------------------------------------------------------
Proceed(t) == Walk(t) \/ BuildRollup(t) \/ Register(t) \/ Invalidate(t)

Next ==
  \/ \E t \in Task :
       \/ \E a, r \in SUBSET Triple : Commit(t, a, r)
       \/ \E n \in visible : GetLayer(t, n)
       \/ Rollup(t)
       \/ \E op \in AllOps, upto \in visible : RollupUpto(t, op, upto)
       \/ Squash(t)
       \/ \E upto \in visible : SquashUpto(t, upto)
       \/ Proceed(t)
  \/ Expire

Spec == Init /\ [][Next]_vars

-----------------------------------------------------------------------------
(* Properties.                                                             *)

(***************************************************************************)
(* Whatever was rolled up, registered, cached, invalidated or expired, and *)
(* in whatever order: a layer in hand or in the cache has the name it was  *)
(* asked for by, and exactly the triples it was committed with.            *)
(***************************************************************************)
LoadedIsOriginal ==
  /\ \A t \in Task : held[t] # << >> => Triples(held[t]) = contents[held[t][1].name]
  /\ \A n \in Name :
       cache[n] # << >> => cache[n][1].name = n /\ Triples(cache[n]) = contents[n]

(***************************************************************************)
(* "let's not create a loop": following the rollup file of a layer and     *)
(* then parent files leads strictly below the layer, so the unbounded loop *)
(* of get_layer_with_cache ends whichever files appear while it runs.      *)
(***************************************************************************)
RollupLeadsBelow ==
  \A n \in Name :
    rollup[n] # None => Ancestors[rollup[n]] \ {rollup[n]} \subseteq Ancestors[n] \ {n}
                        /\ rollup[n] # n /\ rollup[rollup[n]] = None

(* What the files of a layer give, a rollup read in place of the layer it  *)
(* stands for, all the way down.                                           *)
Stored ==
  LET Read[n \in Name] ==
        LET d == IF rollup[n] = None THEN n ELSE rollup[n]
        IN  adds[d] \cup ((IF parent[d] \in Name THEN Read[parent[d]] ELSE {}) \ rems[d])
  IN  Read

Promised == INSTANCE LayerStore WITH
  layers <- [n \in visible |-> Stored[n]],
  given <- [t \in Task |->
              [name |-> IF held[t] = << >> THEN None ELSE held[t][1].name,
               triples |-> Triples(held[t])]]

(***************************************************************************)
(* The files, the rollups and the cache implement a store of immutable     *)
(* layers: a commit or a squash adds one layer and changes no other, a     *)
(* load gives a task some layer under its name with the triples that its   *)
(* files give, and every other step (rollup files appearing, invalidation, *)
(* expiry, the rounds of a walk) changes nothing of what the files of any  *)
(* layer give.  Which triples a new layer has, and which layer a task asks *)
(* for, LayerStore leaves open: that a layer has the triples it was        *)
(* committed with is LoadedIsOriginal, and that those are the ones its     *)
(* caller meant is TriplesAreMeant of module Dictionaries.                 *)
(***************************************************************************)
ImplementsLayerStore == Promised!Spec
=============================================================================
