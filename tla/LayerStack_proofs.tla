-------------------------- MODULE LayerStack_proofs --------------------------
(***************************************************************************)
(* Proofs about LayerStack, for any number of tasks, layers and rollups.   *)
(* First its shape, for every workload: which files lead where.  Then what *)
(* it stores and loads.                                                    *)
(***************************************************************************)
EXTENDS LayerStack, InductionLemmas, FiniteSetTheorems, SequenceTheorems

-----------------------------------------------------------------------------
(* The inductive invariant.                                                *)

(* Directories are made in the order of their names, callers only know of  *)
(* ones that are there, and a parent file names an earlier one callers     *)
(* know.                                                                   *)
MadeInOrder ==
  /\ Used = 1 .. Cardinality(Used)
  /\ visible \subseteq Used
  /\ \A n \in Used : parent[n] # None => parent[n] \in visible /\ parent[n] < n

(* A rollup is no layer callers know, has the triples of the layer it      *)
(* stands for, and if it has a parent, then one from below that layer.     *)
StandsFor(r, n) ==
  /\ r \in Used \ visible
  /\ contents[r] = contents[n]
  /\ parent[r] # None => parent[r] \in Ancestors[n] \ {n}

RollupsStandFor ==
  \A n \in Name : rollup[n] # None => n \in visible /\ StandsFor(rollup[n], n)

(* Loaded layers have the names of directories, and the cache finds a      *)
(* layer under its own name.                                               *)
NamesUsed(stack) == \A i \in 1 .. Len(stack) : stack[i].name \in Used

CacheOk ==
  \A n \in Name : NamesUsed(cache[n]) /\ (cache[n] # << >> => cache[n][1].name = n)

(* Callers hold layers they know.                                          *)
HoldsOk(t) == NamesUsed(held[t]) /\ (held[t] # << >> => held[t][1].name \in visible)

(* A walk has gone from each directory to the parent of it, and a rollup   *)
(* on the way stands for the layer.                                        *)
StepOk(step) ==
  step.name \in visible /\ (step.rollup # None => StandsFor(step.rollup, step.name))

PathOk(steps) ==
  /\ steps # << >>
  /\ \A j \in 1 .. Len(steps) : StepOk(steps[j])
  /\ \A j \in 1 .. Len(steps) - 1 : steps[j + 1].name = parent[Directory(steps[j])]

WalkOk(t) == pc[t] = "walk" => PathOk(path[t])

(* What a task is about to do is possible: the layer to roll up to is      *)
(* known, and what is about to be registered stands for the layer.         *)
RollsUp(t) ==
  /\ goal[t].op \in {"rollup_upto", "imprecise_rollup_upto"}
  /\ goal[t].upto \in visible
  /\ held[t] # << >>

Registers(t) ==
  /\ goal[t].op = "register"
  /\ goal[t].layer \in visible
  /\ goal[t].rollup # goal[t].layer => StandsFor(goal[t].rollup, goal[t].layer)

GoalOk(t) ==
  /\ pc[t] = "idle" => goal[t] = NoGoal
  /\ pc[t] = "walk" => goal[t] = NoGoal \/ RollsUp(t)
  /\ pc[t] = "build" => RollsUp(t)
  /\ pc[t] \in {"register", "invalidate"} => Registers(t)

TaskOk(t) == HoldsOk(t) /\ WalkOk(t) /\ GoalOk(t)

Shape ==
  /\ TypeOK
  /\ MadeInOrder
  /\ RollupsStandFor
  /\ CacheOk
  /\ \A t \in Task : TaskOk(t)

-----------------------------------------------------------------------------
(* Chains of parents.                                                      *)

(* A is the function that leads from a name to all names above it in p.    *)
IsUp(A, p) ==
  /\ A \in [Name -> SUBSET Name]
  /\ \A n \in Name : A[n] = {n} \cup IF p[n] \in Name THEN A[p[n]] ELSE {}

UpFrom(p) ==
  LET Up[n \in Name] == {n} \cup IF p[n] \in Name THEN Up[p[n]] ELSE {}
  IN  Up

(* Ancestors is that function, when parents have smaller names.            *)
LEMMA UpFromExists ==
  ASSUME NEW p, Descends(p, Name)
  PROVE  IsUp(UpFrom(p), p)
<1> DEFINE F == CHOOSE F : F = [n \in Name |-> {n} \cup IF p[n] \in Name THEN F[p[n]] ELSE {}]
           base == [n \in Name |-> {n}]
           step == [q \in Name \X SUBSET Name |-> {q[1]} \cup q[2]]
<1>0. Name \subseteq Nat
  BY BoundsAssumption DEF Name
<1>1. PICK f \in [Name -> SUBSET Name] : IsRecursive(f, Name, p, base, step)
  <2>1. base \in [Name -> SUBSET Name] /\ step \in [Name \X SUBSET Name -> SUBSET Name]
    OBVIOUS
  <2> HIDE DEF base, step
  <2> QED BY <1>0, <2>1, RecursionExists
<1>2. f = [n \in Name |-> {n} \cup IF p[n] \in Name THEN f[p[n]] ELSE {}]
  <2> SUFFICES ASSUME NEW n \in Name
               PROVE  f[n] = {n} \cup IF p[n] \in Name THEN f[p[n]] ELSE {}
    OBVIOUS
  <2>1. f[n] = IF p[n] \in Name THEN step[<<n, f[p[n]]>>] ELSE base[n]
    BY <1>1 DEF IsRecursive
  <2> QED BY <1>1, <2>1
<1>3. F = [n \in Name |-> {n} \cup IF p[n] \in Name THEN F[p[n]] ELSE {}]
  BY <1>2
<1> HIDE DEF F
<1>4. \A n \in Name : F[n] = {n} \cup IF p[n] \in Name THEN F[p[n]] ELSE {}
  BY <1>3
<1>5. \A n \in Name : F[n] \in SUBSET Name
  <2> DEFINE Bad == {n \in Name : F[n] \notin SUBSET Name}
  <2> SUFFICES ASSUME Bad # {} PROVE FALSE
    OBVIOUS
  <2>1. PICK n \in Bad : \A m \in Bad : n =< m
    <3>1. Bad \in SUBSET Nat
      BY <1>0
    <3> HIDE DEF Bad
    <3> QED BY <3>1, LeastElement
  <2>2. p[n] \in Name => p[n] < n /\ p[n] \in Nat /\ n \in Nat
    BY <1>0, <2>1 DEF Descends
  <2>3. p[n] \in Name => F[p[n]] \in SUBSET Name
    BY <2>1, <2>2
  <2> QED BY <1>4, <2>1, <2>3
<1>6. UpFrom(p) = F
  BY DEF UpFrom, F
<1> QED BY <1>3, <1>4, <1>5, <1>6 DEF IsUp

(* Every chain goes down, can be cut and joined, and does not branch.      *)
LEMMA UpProperties ==
  ASSUME NEW p, Descends(p, Name), NEW A, IsUp(A, p), NEW n \in Name
  PROVE  /\ n \in A[n]
         /\ \A m \in A[n] : m \in Name /\ m <= n /\ A[m] \subseteq A[n]
         /\ \A m, k \in A[n] : m \in A[k] \/ k \in A[m]
<1> DEFINE Good(i) == /\ \A m \in A[i] : m \in Name /\ m <= i /\ A[m] \subseteq A[i]
                      /\ \A m, k \in A[i] : m \in A[k] \/ k \in A[m]
           Bad == {i \in Name : ~ Good(i)}
<1>0. \A i \in Name : i \in Nat
  BY BoundsAssumption DEF Name
<1>1. ASSUME Bad # {} PROVE FALSE
  <2>1. PICK i \in Bad : \A m \in Bad : i =< m
    <3>1. Bad \in SUBSET Nat
      BY <1>0
    <3> HIDE DEF Bad
    <3> QED BY <3>1, <1>1, LeastElement
  <2>2. CASE p[i] \in Name
    <3>1. p[i] < i /\ p[i] \in Nat /\ i \in Nat
      BY <1>0, <2>1, <2>2 DEF Descends
    <3>2. Good(p[i])
      BY <2>1, <2>2, <3>1
    <3>3. A[i] = {i} \cup A[p[i]]
      BY <2>1, <2>2 DEF IsUp
    <3>4. \A m \in A[i] : m = i \/ m \in A[p[i]]
      BY <3>3
    <3>5. ASSUME NEW m \in A[p[i]] PROVE m \in Name /\ m <= i /\ A[m] \subseteq A[i]
      <4>1. m \in Name /\ m <= p[i] /\ m \in Nat
        BY <1>0, <3>2
      <4> QED BY <3>1, <3>2, <3>3, <4>1
    <3>6. \A m \in A[i] : m \in Name /\ m <= i /\ A[m] \subseteq A[i]
      BY <1>0, <2>1, <3>4, <3>5, <3>1
    <3>7. \A m, k \in A[i] : m \in A[k] \/ k \in A[m]
      BY <3>2, <3>3
    <3> QED BY <2>1, <3>6, <3>7
  <2>3. CASE p[i] \notin Name
    <3>1. A[i] = {i}
      BY <2>1, <2>3 DEF IsUp
    <3> QED BY <1>0, <2>1, <3>1
  <2> QED BY <2>2, <2>3
<1>2. Good(n)
  BY <1>1
<1>3. n \in A[n]
  BY DEF IsUp
<1> QED BY <1>2, <1>3

(* Chains that start among names whose parents stay, stay.                 *)
LEMMA UpKept ==
  ASSUME NEW p, Descends(p, Name), NEW A, IsUp(A, p),
         NEW q, NEW B, IsUp(B, q),
         NEW U, U \subseteq Name,
         \A n \in U : q[n] = p[n] /\ (p[n] \in Name => p[n] \in U),
         NEW n \in U
  PROVE  A[n] = B[n] /\ A[n] \subseteq U
<1> DEFINE Bad == {i \in U : ~ (A[i] = B[i] /\ A[i] \subseteq U)}
<1>0. \A i \in Name : i \in Nat
  BY BoundsAssumption DEF Name
<1> SUFFICES ASSUME Bad # {} PROVE FALSE
  OBVIOUS
<1>1. PICK i \in Bad : \A m \in Bad : i =< m
  <2>1. Bad \in SUBSET Nat
    BY <1>0
  <2> HIDE DEF Bad
  <2> QED BY <2>1, LeastElement
<1>2. p[i] \in Name => p[i] < i /\ p[i] \in Nat /\ i \in Nat
  BY <1>0, <1>1 DEF Descends
<1>3. p[i] \in Name => A[p[i]] = B[p[i]] /\ A[p[i]] \subseteq U
  BY <1>1, <1>2
<1>4. /\ A[i] = {i} \cup IF p[i] \in Name THEN A[p[i]] ELSE {}
      /\ B[i] = {i} \cup IF q[i] \in Name THEN B[q[i]] ELSE {}
  BY <1>1 DEF IsUp
<1> QED BY <1>1, <1>3, <1>4

-----------------------------------------------------------------------------
(* What a step does to the directories.                                    *)

DiskTypes ==
  /\ parent \in [Name -> Name \cup {None, Unused}]
  /\ adds \in [Name -> SUBSET Triple]
  /\ rems \in [Name -> SUBSET Triple]
  /\ rollup \in [Name -> Name \cup {None}]
  /\ visible \subseteq Name
  /\ contents \in [Name -> SUBSET Triple]
  /\ workload \in Workloads

DiskShape == DiskTypes /\ MadeInOrder /\ RollupsStandFor

(* The files of a directory other than the rollup file are never written   *)
(* again, and no rollup ever becomes a layer that callers know.            *)
Grows ==
  /\ Used \subseteq Used'
  /\ \A n \in Used : parent'[n] = parent[n] /\ contents'[n] = contents[n]
  /\ visible \subseteq visible'
  /\ visible' \cap Used \subseteq visible

(* Numbers as names.                                                       *)
LEMMA NamesAreNumbers ==
  /\ MaxName \in Nat
  /\ Name \subseteq Nat
  /\ \A n \in Name : n \in Nat /\ n # None /\ n # Unused /\ 1 <= n /\ n <= MaxName
  /\ IsFiniteSet(Name)
  /\ None \notin Name /\ Unused \notin Name /\ None # Unused
<1>1. IsFiniteSet(1 .. MaxName)
  BY BoundsAssumption, FS_Interval
<1> QED BY <1>1, BoundsAssumption, SentinelAssumption DEF Name

(* The chains of parents on disk.                                          *)
Chains ==
  /\ Descends(parent, Name)
  /\ IsUp(Ancestors, parent)
  /\ \A n \in Used : Ancestors[n] \subseteq Used
  /\ \A n \in Used : parent[n] \in visible \cup {None}

LEMMA AncestorsOnDisk ==
  DiskTypes /\ MadeInOrder => Chains
<1> SUFFICES ASSUME DiskTypes, MadeInOrder PROVE Chains
  OBVIOUS
<1>1. \A n \in Name : parent[n] \in Name => n \in Used
  BY NamesAreNumbers DEF Used
<1>2. \A n \in Used : parent[n] \in visible \cup {None}
  BY DEF MadeInOrder, DiskTypes
<1>3. Descends(parent, Name)
  BY <1>1, NamesAreNumbers DEF Descends, MadeInOrder
<1>4. Ancestors = UpFrom(parent)
  BY DEF Ancestors, UpFrom
<1>5. IsUp(Ancestors, parent)
  BY <1>3, <1>4, UpFromExists
<1>6. \A n \in Used : Ancestors[n] \subseteq Used
  <2>1. Used \subseteq Name
    BY DEF Used
  <2>2. \A n \in Used : parent[n] = parent[n] /\ (parent[n] \in Name => parent[n] \in Used)
    BY <1>2, NamesAreNumbers DEF MadeInOrder
  <2> QED BY <1>3, <1>5, <2>1, <2>2, UpKept
<1> QED BY <1>2, <1>3, <1>5, <1>6 DEF Chains

(* The ancestors of a directory stay what they are, and a rollup goes on   *)
(* standing for its layer.                                                 *)
LEMMA StandsForKept ==
  ASSUME DiskTypes, MadeInOrder, DiskTypes', MadeInOrder', Grows
  PROVE  /\ \A n \in Used : Ancestors'[n] = Ancestors[n]
         /\ \A r, n \in Used : StandsFor(r, n) => StandsFor(r, n)'
<1>0. Chains /\ Chains'
  BY AncestorsOnDisk, PTL
<1>1. Descends(parent, Name) /\ IsUp(Ancestors, parent)
  BY <1>0 DEF Chains
<1>2. Descends(parent', Name) /\ IsUp(Ancestors', parent')
  BY <1>0 DEF Chains
<1>3. \A n \in Used : parent'[n] = parent[n] /\ (parent[n] \in Name => parent[n] \in Used)
  BY <1>0, NamesAreNumbers DEF Grows, MadeInOrder, Chains
<1>4. Used \subseteq Name
  BY DEF Used
<1>5. \A n \in Used : Ancestors'[n] = Ancestors[n]
  BY <1>1, <1>2, <1>3, <1>4, UpKept
<1>6. ASSUME NEW r \in Used, NEW n \in Used, StandsFor(r, n) PROVE StandsFor(r, n)'
  BY <1>5, <1>6 DEF StandsFor, Grows
<1> QED BY <1>5, <1>6

(* The same of names that are read off the state before the step.          *)
WillStandFor(r, n) ==
  /\ r \in Used' \ visible'
  /\ contents'[r] = contents'[n]
  /\ parent'[r] # None => parent'[r] \in Ancestors'[n] \ {n}

(* So do the names of a loaded layer, and the steps of a walk.             *)
LEMMA NamesKept ==
  ASSUME Grows
  PROVE  \A s : NamesUsed(s) => NamesUsed(s)'
BY DEF Grows, NamesUsed

LEMMA PathKept ==
  ASSUME DiskTypes, MadeInOrder, DiskTypes', MadeInOrder', Grows
  PROVE  \A p \in Seq(Step) : PathOk(p) => PathOk(p)'
<1> SUFFICES ASSUME NEW p \in Seq(Step), PathOk(p) PROVE PathOk(p)'
  OBVIOUS
<1>1. \A j \in 1 .. Len(p) : p[j] \in Step
  OBVIOUS
<1>2. ASSUME NEW j \in 1 .. Len(p) PROVE StepOk(p[j])' /\ Directory(p[j]) \in Used
  <2>1. StepOk(p[j]) /\ p[j].name \in Used
    BY DEF PathOk, StepOk, MadeInOrder
  <2>2. p[j].rollup # None => p[j].rollup \in Used
    BY <2>1 DEF StepOk, StandsFor
  <2> QED BY <2>1, <2>2, StandsForKept DEF StepOk, Grows, Directory
<1>3. \A j \in 1 .. Len(p) : parent'[Directory(p[j])] = parent[Directory(p[j])]
  BY <1>2 DEF Grows
<1> QED BY <1>2, <1>3 DEF PathOk, Directory

(* A step that leaves the directories alone.                               *)
LEMMA DiskUnchanged ==
  ASSUME DiskShape, UNCHANGED disk
  PROVE  DiskShape' /\ Grows
<1>1. Used' = Used /\ Ancestors' = Ancestors
  BY DEF disk, Used, Ancestors
<1> QED BY <1>1 DEF disk, DiskShape, DiskTypes, MadeInOrder, RollupsStandFor, StandsFor, Grows

(* A directory is made.                                                    *)
LEMMA DiskNewLayer ==
  ASSUME DiskShape, NEW p \in visible \cup {None}, NEW a \in SUBSET Triple,
         NEW r \in SUBSET Triple, NEW c \in SUBSET Triple, NEW seen \in BOOLEAN,
         NewLayer(p, a, r, c, seen)
  PROVE  /\ DiskShape' /\ Grows
         /\ Fresh \in Name \ Used
         /\ Used' = Used \cup {Fresh}
         /\ parent'[Fresh] = p /\ contents'[Fresh] = c
         /\ adds'[Fresh] = a /\ rems'[Fresh] = r
         /\ \A n \in Used : adds'[n] = adds[n] /\ rems'[n] = rems[n]
         /\ visible' = IF seen THEN visible \cup {Fresh} ELSE visible
<1> USE NamesAreNumbers
<1>0. DiskTypes /\ MadeInOrder /\ RollupsStandFor
  BY DEF DiskShape
<1>1. IsFiniteSet(Used) /\ Cardinality(Used) \in Nat
  BY FS_Subset, FS_CardinalityType DEF Used
<1>2. Fresh \in Name
  <2>1. workload.names \in 0 .. MaxName
    BY <1>0, WorkloadsAssumption DEF DiskTypes
  <2> QED BY <1>1, <2>1 DEF NewLayer, Room, Fresh, Name
<1>3. Fresh \notin Used
  BY <1>0, <1>1 DEF MadeInOrder, Fresh
<1>4. p \in Name \cup {None}
  BY <1>0 DEF DiskTypes
<1>5. /\ parent' = [parent EXCEPT ![Fresh] = p]
      /\ adds' = [adds EXCEPT ![Fresh] = a]
      /\ rems' = [rems EXCEPT ![Fresh] = r]
      /\ contents' = [contents EXCEPT ![Fresh] = c]
      /\ visible' = IF seen THEN visible \cup {Fresh} ELSE visible
      /\ rollup' = rollup /\ workload' = workload
  BY DEF NewLayer
<1> HIDE DEF Fresh
<1>6. DiskTypes'
  BY <1>0, <1>2, <1>4, <1>5 DEF DiskTypes
<1>7. Used' = Used \cup {Fresh}
  BY <1>0, <1>2, <1>4, <1>5 DEF DiskTypes, Used
<1>8. /\ parent'[Fresh] = p /\ contents'[Fresh] = c
      /\ adds'[Fresh] = a /\ rems'[Fresh] = r
  BY <1>0, <1>2, <1>5 DEF DiskTypes
<1>9. \A n \in Used : /\ n \in Name /\ n # Fresh
                      /\ parent'[n] = parent[n] /\ contents'[n] = contents[n]
                      /\ adds'[n] = adds[n] /\ rems'[n] = rems[n]
  BY <1>0, <1>2, <1>3, <1>5 DEF DiskTypes, Used
<1>10. Grows
  BY <1>3, <1>5, <1>7, <1>9 DEF Grows
<1>11. MadeInOrder'
  <2>1. Cardinality(Used') = Cardinality(Used) + 1
    BY <1>1, <1>3, <1>7, FS_AddElement
  <2>2. Used' = 1 .. Cardinality(Used')
    <3>1. Used' = (1 .. Cardinality(Used)) \cup {Cardinality(Used) + 1}
      BY <1>0, <1>7 DEF MadeInOrder, Fresh
    <3> QED BY <1>1, <2>1, <3>1
  <2>3. visible' \subseteq Used'
    BY <1>0, <1>5, <1>7 DEF MadeInOrder
  <2>4. p # None => p \in visible' /\ p < Fresh
    <3>1. p # None => p \in Used /\ p \in visible'
      BY <1>0, <1>5 DEF MadeInOrder
    <3>2. Used = 1 .. Cardinality(Used)
      BY <1>0 DEF MadeInOrder
    <3> QED BY <1>1, <3>1, <3>2 DEF Fresh
  <2>5. \A n \in Used' : parent'[n] # None => parent'[n] \in visible' /\ parent'[n] < n
    BY <1>0, <1>5, <1>7, <1>8, <1>9, <2>4 DEF MadeInOrder
  <2> QED BY <2>2, <2>3, <2>5 DEF MadeInOrder
<1>12. RollupsStandFor'
  <2>1. \A x, n \in Used : StandsFor(x, n) => StandsFor(x, n)'
    BY <1>0, <1>6, <1>10, <1>11, StandsForKept
  <2>2. ASSUME NEW n \in Name, rollup'[n] # None
        PROVE  n \in visible' /\ StandsFor(rollup[n], n)'
    <3>1. n \in visible /\ StandsFor(rollup[n], n) /\ n \in Used /\ rollup[n] \in Used
      BY <1>0, <1>5, <2>2 DEF RollupsStandFor, MadeInOrder, StandsFor
    <3> QED BY <1>5, <2>1, <3>1
  <2> QED BY <1>5, <2>2 DEF RollupsStandFor
<1> QED BY <1>2, <1>3, <1>5, <1>6, <1>7, <1>8, <1>9, <1>10, <1>11, <1>12 DEF DiskShape

-----------------------------------------------------------------------------
(* What a step does to the tasks and the cache.                            *)

PC == {"idle", "walk", "build", "register", "invalidate", "panicked"}

MemoryTypes ==
  /\ cache \in [Name -> Stack]
  /\ pc \in [Task -> PC]
  /\ held \in [Task -> Stack]
  /\ path \in [Task -> Seq(Step)]
  /\ goal \in [Task -> Goal]

LEMMA ShapeParts ==
  Shape <=> DiskShape /\ MemoryTypes /\ CacheOk /\ \A t \in Task : TaskOk(t)
BY DEF Shape, TypeOK, DiskShape, DiskTypes, MemoryTypes, PC

(* A task that does nothing.                                               *)
LEMMA TaskKept ==
  ASSUME DiskShape, DiskShape', Grows, MemoryTypes, NEW t \in Task, TaskOk(t),
         pc'[t] = pc[t], held'[t] = held[t], path'[t] = path[t], goal'[t] = goal[t]
  PROVE  TaskOk(t)'
<1>0. DiskTypes /\ MadeInOrder /\ DiskTypes' /\ MadeInOrder'
  BY DEF DiskShape
<1>1. HoldsOk(t)'
  BY NamesKept DEF TaskOk, HoldsOk, Grows
<1>2. WalkOk(t)'
  BY <1>0, PathKept DEF TaskOk, WalkOk, MemoryTypes
<1>3. GoalOk(t)'
  <2>1. RollsUp(t) => RollsUp(t)'
    BY DEF RollsUp, Grows
  <2>2. ASSUME Registers(t) PROVE Registers(t)'
    <3>1. goal[t].layer \in Used
      BY <1>0, <2>2 DEF Registers, MadeInOrder
    <3>2. goal[t].rollup # goal[t].layer => goal[t].rollup \in Used
      BY <2>2 DEF Registers, StandsFor
    <3>3. goal[t].rollup # goal[t].layer => StandsFor(goal[t].rollup, goal[t].layer)'
      <4>1. \A r, n \in Used : StandsFor(r, n) => StandsFor(r, n)'
        BY <1>0, StandsForKept
      <4> QED BY <2>2, <3>1, <3>2, <4>1 DEF Registers
    <3> QED BY <2>2, <3>3 DEF Registers, Grows
  <2> QED BY <2>1, <2>2 DEF TaskOk, GoalOk
<1> QED BY <1>1, <1>2, <1>3 DEF TaskOk

(* The cache, when it is left alone.                                       *)
LEMMA CacheKept ==
  ASSUME Grows, CacheOk, UNCHANGED cache
  PROVE  CacheOk'
BY NamesKept DEF CacheOk

(* What can be put in hand by name.                                        *)
LEMMA HeldName ==
  ASSUME Shape, NEW t \in Task, held[t] # << >>
  PROVE  held[t][1].name \in visible /\ visible \subseteq Used /\ visible \subseteq Name
BY DEF Shape, TaskOk, HoldsOk, MadeInOrder, TypeOK

(* One task takes a step.                                                  *)
LEMMA TaskSteps ==
  ASSUME Shape, DiskShape', Grows, MemoryTypes', CacheOk', NEW t \in Task, TaskOk(t)',
         \A u \in Task \ {t} : /\ pc'[u] = pc[u] /\ held'[u] = held[u]
                               /\ path'[u] = path[u] /\ goal'[u] = goal[u]
  PROVE  Shape'
<1>1. \A u \in Task : TaskOk(u)'
  BY ShapeParts, TaskKept
<1> QED BY <1>1 DEF Shape, TypeOK, DiskShape, DiskTypes, MemoryTypes, PC

(* It starts to walk from a layer that is known.                           *)
LEMMA WalkStarts ==
  ASSUME Shape, DiskShape', Grows, NEW t \in Task, NEW n \in visible', NEW g \in Goal,
         pc' = [pc EXCEPT ![t] = "walk"],
         path' = [path EXCEPT ![t] = <<[name |-> n, rollup |-> None]>>],
         goal' = [goal EXCEPT ![t] = g],
         UNCHANGED <<cache, held>>,
         g = NoGoal \/ RollsUp(t)'
  PROVE  Shape'
<1> USE ShapeParts
<1>1. n \in Name
  BY DEF DiskShape, DiskTypes
<1>2. MemoryTypes'
  <2>1. <<[name |-> n, rollup |-> None]>> \in Seq(Step)
    BY <1>1 DEF Step
  <2> QED BY <2>1 DEF MemoryTypes, PC
<1>3. TaskOk(t)'
  <2>1. HoldsOk(t)'
    BY NamesKept DEF TaskOk, HoldsOk, Grows
  <2>2. WalkOk(t)'
    BY DEF WalkOk, MemoryTypes, PathOk, StepOk
  <2>3. GoalOk(t)'
    BY DEF GoalOk, MemoryTypes
  <2> QED BY <2>1, <2>2, <2>3 DEF TaskOk
<1>4. CacheOk'
  BY CacheKept
<1> QED BY <1>2, <1>3, <1>4, TaskSteps DEF MemoryTypes

(* It goes on to register a rollup, or the layer itself.                   *)
LEMMA RegisterFollows ==
  ASSUME Shape, DiskShape', Grows, NEW t \in Task, NEW n \in visible', NEW r \in Name,
         ToRegister(t, n, r), UNCHANGED <<cache, held, path>>,
         r # n => WillStandFor(r, n)
  PROVE  Shape'
<1> USE ShapeParts
<1>1. n \in Name
  BY DEF DiskShape, DiskTypes
<1>2. MemoryTypes'
  BY <1>1 DEF MemoryTypes, PC, ToRegister, GoTo, Goal
<1>3. TaskOk(t)'
  <2>1. HoldsOk(t)'
    BY NamesKept DEF TaskOk, HoldsOk, Grows
  <2>2. pc'[t] = "register" /\ goal'[t] = [op |-> "register", layer |-> n, rollup |-> r]
    BY DEF ToRegister, GoTo, MemoryTypes
  <2>3. WalkOk(t)' /\ GoalOk(t)'
    BY <2>2 DEF WalkOk, GoalOk, Registers, StandsFor, WillStandFor
  <2> QED BY <2>1, <2>3 DEF TaskOk
<1>4. CacheOk'
  BY CacheKept
<1> QED BY <1>2, <1>3, <1>4, TaskSteps DEF MemoryTypes, ToRegister, GoTo

(* Its call returns.                                                       *)
LEMMA CallReturns ==
  ASSUME Shape, DiskShape', Grows, NEW t \in Task, Returns(t),
         cache' \in [Name -> Stack], CacheOk', UNCHANGED <<held, path>>
  PROVE  Shape'
<1> USE ShapeParts
<1>1. MemoryTypes'
  BY DEF MemoryTypes, PC, Returns, Goal
<1>2. TaskOk(t)'
  <2>1. HoldsOk(t)'
    BY NamesKept DEF TaskOk, HoldsOk, Grows
  <2>2. WalkOk(t)' /\ GoalOk(t)'
    BY DEF WalkOk, GoalOk, Returns, MemoryTypes
  <2> QED BY <2>1, <2>2 DEF TaskOk
<1> QED BY <1>1, <1>2, TaskSteps DEF MemoryTypes, Returns

-----------------------------------------------------------------------------
(* Every step keeps the shape.                                             *)

LEMMA CommitShape ==
  ASSUME Shape, NEW t \in Task, NEW a \in SUBSET Triple, NEW r \in SUBSET Triple, Commit(t, a, r)
  PROVE  Shape'
<1> USE ShapeParts
<1> DEFINE top == held[t][1].name
<1>1. PICK p \in visible \cup {None}, x \in SUBSET Triple, y \in SUBSET Triple, c \in SUBSET Triple :
        NewLayer(p, x, y, c, TRUE)
  <2>1. CASE held[t] # << >>
    <3>1. top \in visible /\ contents[top] \in SUBSET Triple
      BY <2>1, HeldName DEF DiskShape, DiskTypes
    <3>2. (a \ r) \ Triples(held[t]) \in SUBSET Triple /\ (r \ a) \cap Triples(held[t]) \in SUBSET Triple
          /\ (contents[top] \cup (a \ r)) \ (r \ a) \in SUBSET Triple
      BY <3>1
    <3> QED BY <2>1, <3>1, <3>2 DEF Commit
  <2>2. CASE held[t] = << >>
    <3>1. NewLayer(None, a \ r, {}, a \ r, TRUE)
      BY <2>2 DEF Commit
    <3>2. a \ r \in SUBSET Triple /\ {} \in SUBSET Triple
      OBVIOUS
    <3> QED BY <3>1, <3>2
  <2> QED BY <2>1, <2>2
<1>2. DiskShape' /\ Grows /\ Fresh \in visible'
  BY <1>1, DiskNewLayer
<1>3. /\ pc' = [pc EXCEPT ![t] = "walk"]
      /\ path' = [path EXCEPT ![t] = <<[name |-> Fresh, rollup |-> None]>>]
      /\ UNCHANGED <<cache, held, goal>>
      /\ pc[t] = "idle"
  BY DEF Commit, StartWalk, GoTo, Idle
<1>4. goal[t] = NoGoal /\ NoGoal \in Goal /\ goal' = [goal EXCEPT ![t] = NoGoal]
  BY <1>3 DEF TaskOk, GoalOk, MemoryTypes, Goal
<1> HIDE DEF Fresh
<1> QED BY <1>2, <1>3, <1>4, WalkStarts

LEMMA GetLayerShape ==
  ASSUME Shape, NEW t \in Task, NEW n \in visible, GetLayer(t, n)
  PROVE  Shape'
<1> USE ShapeParts
<1>1. DiskShape' /\ Grows /\ n \in visible'
  BY DiskUnchanged DEF GetLayer, disk
<1>2. /\ pc' = [pc EXCEPT ![t] = "walk"]
      /\ path' = [path EXCEPT ![t] = <<[name |-> n, rollup |-> None]>>]
      /\ UNCHANGED <<cache, held, goal>>
      /\ pc[t] = "idle"
  BY DEF GetLayer, StartWalk, GoTo, Idle
<1>3. goal[t] = NoGoal /\ NoGoal \in Goal /\ goal' = [goal EXCEPT ![t] = NoGoal]
  BY <1>2 DEF TaskOk, GoalOk, MemoryTypes, Goal
<1> QED BY <1>1, <1>2, <1>3, WalkStarts

LEMMA SquashShape ==
  ASSUME Shape, NEW t \in Task, Squash(t)
  PROVE  Shape'
<1> USE ShapeParts
<1> DEFINE c == contents[held[t][1].name]
<1>1. c \in SUBSET Triple /\ Triples(held[t]) \in SUBSET Triple /\ {} \in SUBSET Triple
  BY HeldName DEF DiskShape, DiskTypes, Squash, Triples
<1>2. NewLayer(None, Triples(held[t]), {}, c, TRUE)
  BY DEF Squash
<1> HIDE DEF c
<1>3. DiskShape' /\ Grows /\ Fresh \in visible'
  BY <1>1, <1>2, DiskNewLayer
<1>4. /\ pc' = [pc EXCEPT ![t] = "walk"]
      /\ path' = [path EXCEPT ![t] = <<[name |-> Fresh, rollup |-> None]>>]
      /\ UNCHANGED <<cache, held, goal>>
      /\ pc[t] = "idle"
  BY DEF Squash, StartWalk, GoTo, Idle
<1>5. goal[t] = NoGoal /\ NoGoal \in Goal /\ goal' = [goal EXCEPT ![t] = NoGoal]
  BY <1>4 DEF TaskOk, GoalOk, MemoryTypes, Goal
<1> HIDE DEF Fresh
<1> QED BY <1>3, <1>4, <1>5, WalkStarts

LEMMA SquashUptoShape ==
  ASSUME Shape, NEW t \in Task, NEW upto \in visible, SquashUpto(t, upto)
  PROVE  Shape'
<1> USE ShapeParts
<1> DEFINE c == contents[held[t][1].name]
           names == StackNamesUpto(held[t][1].name, upto)
           x == NetAdditions(names, << >>)
           y == NetRemovals(names, << >>)
<1>1. c \in SUBSET Triple /\ x \in SUBSET Triple /\ y \in SUBSET Triple
  BY HeldName DEF DiskShape, DiskTypes, SquashUpto, NetAdditions, NetRemovals
<1>2. NewLayer(upto, x, y, c, TRUE)
  BY DEF SquashUpto
<1> HIDE DEF c, x, y
<1>3. DiskShape' /\ Grows /\ Fresh \in visible'
  BY <1>1, <1>2, DiskNewLayer
<1>4. /\ pc' = [pc EXCEPT ![t] = "walk"]
      /\ path' = [path EXCEPT ![t] = <<[name |-> Fresh, rollup |-> None]>>]
      /\ UNCHANGED <<cache, held, goal>>
      /\ pc[t] = "idle"
  BY DEF SquashUpto, StartWalk, GoTo, Idle
<1>5. goal[t] = NoGoal /\ NoGoal \in Goal /\ goal' = [goal EXCEPT ![t] = NoGoal]
  BY <1>4 DEF TaskOk, GoalOk, MemoryTypes, Goal
<1> HIDE DEF Fresh
<1> QED BY <1>3, <1>4, <1>5, WalkStarts

(* A rollup that was just made stands for its layer.                       *)
LEMMA NewRollup ==
  ASSUME Shape, NEW n \in visible, NEW p \in visible \cup {None},
         p # None => p \in Ancestors[n] \ {n},
         NEW a \in SUBSET Triple, NEW r \in SUBSET Triple,
         NewLayer(p, a, r, contents[n], FALSE)
  PROVE  DiskShape' /\ Grows /\ Fresh \in Name /\ n \in visible' /\ WillStandFor(Fresh, n)
<1> USE ShapeParts
<1>1. contents[n] \in SUBSET Triple /\ n \in Used
  BY DEF DiskShape, DiskTypes, MadeInOrder
<1>2. /\ DiskShape' /\ Grows /\ Fresh \in Name \ Used /\ Used' = Used \cup {Fresh}
      /\ parent'[Fresh] = p /\ contents'[Fresh] = contents[n] /\ visible' = visible
  BY <1>1, DiskNewLayer
<1> HIDE DEF Fresh
<1>3. Fresh \notin visible
  BY <1>2 DEF DiskShape, MadeInOrder
<1>4. contents'[n] = contents[n] /\ Ancestors'[n] = Ancestors[n]
  BY <1>1, <1>2, StandsForKept DEF Grows, DiskShape
<1> QED BY <1>2, <1>3, <1>4 DEF WillStandFor

(* A registered rollup goes on standing for its layer.                     *)
LEMMA KnownRollup ==
  ASSUME Shape, DiskShape', Grows, NEW n \in Name, rollup[n] # None
  PROVE  rollup[n] \in Name /\ WillStandFor(rollup[n], n)
<1>1. /\ rollup[n] \in Name /\ n \in Used /\ rollup[n] \in Used /\ StandsFor(rollup[n], n)
  BY ShapeParts DEF DiskShape, DiskTypes, RollupsStandFor, StandsFor, MadeInOrder
<1>2. \A x, m \in Used : StandsFor(x, m) => WillStandFor(x, m)
  BY ShapeParts, StandsForKept DEF DiskShape, StandsFor, WillStandFor
<1> QED BY <1>1, <1>2

LEMMA RollupShape ==
  ASSUME Shape, NEW t \in Task, Rollup(t)
  PROVE  Shape'
<1> USE ShapeParts
<1> DEFINE top == held[t][1].name
<1>0. top \in visible /\ top \in Name /\ UNCHANGED <<cache, held, path>>
  BY HeldName DEF Rollup
<1>1. CASE ToRegister(t, top, top) /\ UNCHANGED disk
  <2>1. DiskShape' /\ Grows /\ top \in visible'
    BY <1>0, <1>1, DiskUnchanged DEF disk
  <2> HIDE DEF top
  <2> QED BY <1>0, <1>1, <2>1, RegisterFollows
<1>2. CASE rollup[top] # None /\ ToRegister(t, top, rollup[top]) /\ UNCHANGED disk
  <2>1. DiskShape' /\ Grows /\ top \in visible'
    BY <1>0, <1>2, DiskUnchanged DEF disk
  <2> HIDE DEF top
  <2>2. rollup[top] \in Name /\ WillStandFor(rollup[top], top)
    BY <1>0, <1>2, <2>1, KnownRollup
  <2> QED BY <1>0, <1>2, <2>1, <2>2, RegisterFollows
<1>3. CASE NewLayer(None, Triples(held[t]), {}, contents[top], FALSE) /\ ToRegister(t, top, Fresh)
  <2>1. Triples(held[t]) \in SUBSET Triple /\ {} \in SUBSET Triple
    BY DEF Triples
  <2> HIDE DEF top
  <2>2. DiskShape' /\ Grows /\ Fresh \in Name /\ top \in visible' /\ WillStandFor(Fresh, top)
    BY <1>0, <1>3, <2>1, NewRollup
  <2> HIDE DEF Fresh
  <2> QED BY <1>0, <1>3, <2>2, RegisterFollows
<1> QED BY <1>1, <1>2, <1>3 DEF Rollup

LEMMA RollupUptoShape ==
  ASSUME Shape, NEW t \in Task, NEW op \in AllOps, NEW upto \in visible, RollupUpto(t, op, upto)
  PROVE  Shape'
<1> USE ShapeParts
<1> DEFINE top == held[t][1].name
<1>0. /\ top \in visible /\ top \in Name /\ upto \in Name
      /\ UNCHANGED disk /\ UNCHANGED cache /\ UNCHANGED held /\ held[t] # << >> /\ pc[t] = "idle"
      /\ op \in {"rollup_upto", "imprecise_rollup_upto"}
  BY HeldName DEF RollupUpto, Idle
<1>1. DiskShape' /\ Grows /\ top \in visible' /\ upto \in visible'
  BY <1>0, DiskUnchanged DEF disk
<1>2. CASE ToRegister(t, top, top) /\ UNCHANGED path
  <2> HIDE DEF top
  <2> QED BY <1>0, <1>1, <1>2, RegisterFollows
<1>3. CASE rollup[top] # None /\ ToRegister(t, top, rollup[top]) /\ UNCHANGED path
  <2> HIDE DEF top
  <2>1. rollup[top] \in Name /\ WillStandFor(rollup[top], top)
    BY <1>0, <1>1, <1>3, KnownRollup
  <2> QED BY <1>0, <1>1, <1>3, <2>1, RegisterFollows
<1>4. CASE Returns(t) /\ UNCHANGED path
  <2>1. CacheOk' /\ cache' \in [Name -> Stack]
    BY <1>0, <1>1, CacheKept DEF MemoryTypes
  <2> HIDE DEF top
  <2> QED BY <1>0, <1>1, <1>4, <2>1, CallReturns
<1>5. CASE /\ goal' = [goal EXCEPT ![t] = [op |-> op, upto |-> upto]]
           /\ StartWalk(t, upto) /\ GoTo(t, "walk")
  <2> DEFINE g == [op |-> op, upto |-> upto]
  <2>1. g \in Goal /\ RollsUp(t)'
    BY <1>0, <1>1, <1>5 DEF Goal, RollsUp, MemoryTypes
  <2> HIDE DEF g
  <2>2. goal' = [goal EXCEPT ![t] = g]
    BY <1>5 DEF g
  <2> QED BY <1>0, <1>1, <1>5, <2>1, <2>2, WalkStarts DEF StartWalk, GoTo
<1>6. CASE /\ goal' = [goal EXCEPT ![t] = [op |-> op, upto |-> upto]]
           /\ GoTo(t, "build") /\ UNCHANGED path
  <2>1. MemoryTypes'
    <3>1. [op |-> op, upto |-> upto] \in Goal
      BY <1>0 DEF Goal
    <3> QED BY <1>0, <1>6, <3>1 DEF MemoryTypes, GoTo, PC
  <2>2. pc'[t] = "build" /\ goal'[t] = [op |-> op, upto |-> upto]
    BY <1>6 DEF MemoryTypes, GoTo
  <2>3. TaskOk(t)'
    BY <1>0, <1>1, <2>2, NamesKept DEF TaskOk, HoldsOk, WalkOk, GoalOk, RollsUp, Grows
  <2>4. CacheOk'
    BY <1>0, <1>1, CacheKept
  <2> QED BY <1>0, <1>1, <1>6, <2>1, <2>3, <2>4, TaskSteps DEF GoTo, MemoryTypes
<1> QED BY <1>2, <1>3, <1>4, <1>5, <1>6 DEF RollupUpto

LEMMA BuildRollupShape ==
  ASSUME Shape, NEW t \in Task, BuildRollup(t)
  PROVE  Shape'
<1> USE ShapeParts
<1> DEFINE top == held[t][1].name
           upto == goal[t].upto
<1>0. /\ pc[t] = "build" /\ held[t] # << >> /\ upto \in visible
      /\ UNCHANGED cache /\ UNCHANGED held /\ UNCHANGED path
  BY DEF BuildRollup, TaskOk, GoalOk, RollsUp
<1>1. top \in visible /\ top \in Name
  BY <1>0, HeldName
<1>2. CASE Returns(t) /\ UNCHANGED disk
  <2>1. DiskShape' /\ Grows
    BY <1>2, DiskUnchanged
  <2>2. CacheOk' /\ cache' \in [Name -> Stack]
    BY <1>0, <2>1, CacheKept DEF MemoryTypes
  <2> HIDE DEF top, upto
  <2> QED BY <1>0, <1>2, <2>1, <2>2, CallReturns
<1>3. CASE GoTo(t, "panicked") /\ UNCHANGED goal /\ UNCHANGED disk
  <2>1. DiskShape' /\ Grows
    BY <1>3, DiskUnchanged
  <2>2. CacheOk'
    BY <1>0, <2>1, CacheKept
  <2>3. MemoryTypes' /\ pc'[t] = "panicked"
    BY <1>0, <1>3 DEF MemoryTypes, GoTo, PC
  <2>4. TaskOk(t)'
    BY <1>0, <2>1, <2>3, NamesKept DEF TaskOk, HoldsOk, WalkOk, GoalOk, Grows
  <2> QED BY <1>0, <1>3, <2>1, <2>2, <2>3, <2>4, TaskSteps DEF GoTo, MemoryTypes
<1>4. CASE /\ IsAbove(top, upto)
           /\ NewLayer(upto, RollupChange(t).adds, RollupChange(t).rems, contents[top], FALSE)
           /\ ToRegister(t, top, Fresh)
  <2> DEFINE x == RollupChange(t).adds
             y == RollupChange(t).rems
  <2>1. x \in SUBSET Triple /\ y \in SUBSET Triple
    BY DEF RollupChange, NetAdditions, NetRemovals
  <2>2. upto \in Ancestors[top] \ {top}
    BY <1>4 DEF IsAbove
  <2> HIDE DEF top, upto, x, y
  <2>3. NewLayer(upto, x, y, contents[top], FALSE)
    BY <1>4 DEF x, y
  <2>4. DiskShape' /\ Grows /\ Fresh \in Name /\ top \in visible' /\ WillStandFor(Fresh, top)
    BY <1>0, <1>1, <2>1, <2>2, <2>3, NewRollup
  <2> HIDE DEF Fresh
  <2> QED BY <1>0, <1>4, <2>4, RegisterFollows
<1> QED BY <1>2, <1>3, <1>4 DEF BuildRollup

LEMMA RegisterShape ==
  ASSUME Shape, NEW t \in Task, Register(t)
  PROVE  Shape'
<1> USE ShapeParts
<1> DEFINE n == goal[t].layer
           r == goal[t].rollup
<1>0. pc[t] = "register" /\ n \in visible /\ n \in Name /\ (r # n => StandsFor(r, n) /\ r \in Name)
  BY DEF Register, TaskOk, GoalOk, Registers, DiskShape, DiskTypes, StandsFor, Used
<1>1. /\ rollup' = [rollup EXCEPT ![n] = IF n = r THEN rollup[n] ELSE r]
      /\ pc' = [pc EXCEPT ![t] = "invalidate"]
      /\ UNCHANGED <<parent, visible, contents, workload, adds, rems>>
      /\ UNCHANGED <<cache, held, path, goal>>
  BY DEF Register, GoTo
<1>2. Used' = Used /\ Ancestors' = Ancestors
  BY <1>1 DEF Used, Ancestors
<1>3. Grows
  BY <1>1, <1>2 DEF Grows
<1>4. DiskShape'
  <2>1. DiskTypes'
    <3> HIDE DEF n, r
    <3> QED BY <1>0, <1>1 DEF DiskShape, DiskTypes
  <2>2. MadeInOrder'
    BY <1>1, <1>2 DEF DiskShape, MadeInOrder
  <2>3. \A x, m : StandsFor(x, m)' <=> StandsFor(x, m)
    BY <1>1, <1>2 DEF StandsFor
  <2>4. \A m \in Name : rollup'[m] = rollup[m] \/ (m = n /\ rollup'[m] = r /\ r # n)
    <3> HIDE DEF n, r
    <3> QED BY <1>0, <1>1 DEF DiskShape, DiskTypes
  <2>5. \A m \in Name : rollup'[m] # None => m \in visible' /\ StandsFor(rollup'[m], m)
    <3> HIDE DEF n, r
    <3> QED BY <1>0, <1>1, <2>4 DEF DiskShape, RollupsStandFor
  <2>6. RollupsStandFor'
    BY <2>3, <2>5 DEF RollupsStandFor
  <2> QED BY <2>1, <2>2, <2>6 DEF DiskShape
<1>5. MemoryTypes' /\ pc'[t] = "invalidate"
  BY <1>1 DEF MemoryTypes, PC
<1>6. CacheOk'
  BY <1>1, <1>3, CacheKept
<1>7. TaskOk(t)'
  <2>1. HoldsOk(t)'
    BY <1>1, <1>3, NamesKept DEF TaskOk, HoldsOk, Grows
  <2>2. WalkOk(t)'
    BY <1>5 DEF WalkOk
  <2>3. Registers(t)'
    BY <1>0, <1>1, <1>2 DEF TaskOk, GoalOk, Registers, StandsFor
  <2>4. GoalOk(t)'
    BY <1>5, <2>3 DEF GoalOk
  <2> QED BY <2>1, <2>2, <2>4 DEF TaskOk
<1> QED BY <1>1, <1>3, <1>4, <1>5, <1>6, <1>7, TaskSteps DEF MemoryTypes

(* Layers that are dropped from the cache.                                 *)
LEMMA CacheDropped ==
  ASSUME MemoryTypes, CacheOk, Grows, NEW D,
         cache' = [n \in Name |-> IF n \in D THEN << >> ELSE cache[n]]
  PROVE  cache' \in [Name -> Stack] /\ CacheOk'
<1>1. << >> \in Stack /\ Len(<< >>) = 0
  BY EmptySeq DEF Stack
<1>2. NamesUsed(<< >>)'
  BY DEF NamesUsed
<1>3. \A n \in Name : cache'[n] = << >> \/ cache'[n] = cache[n]
  OBVIOUS
<1>4. \A n \in Name : NamesUsed(cache[n])'
  <2>1. \A n \in Name : NamesUsed(cache[n])
    BY DEF CacheOk
  <2>2. \A n \in Name : cache'[n] = << >> \/ cache'[n] = cache[n]
    OBVIOUS
  <2>3. \A n \in Name : \A i \in 1 .. Len(cache[n]) : cache[n][i].name \in Used'
    BY <2>1 DEF NamesUsed, Grows
  <2> QED BY <1>1, <2>2, <2>3 DEF NamesUsed
<1> QED BY <1>1, <1>3, <1>4 DEF CacheOk, MemoryTypes

LEMMA InvalidateShape ==
  ASSUME Shape, NEW t \in Task, Invalidate(t)
  PROVE  Shape'
<1> USE ShapeParts
<1>1. DiskShape' /\ Grows
  BY DiskUnchanged DEF Invalidate
<1> DEFINE D == Ancestors[goal[t].layer]
<1>2. cache' = [n \in Name |-> IF n \in D THEN << >> ELSE cache[n]]
  BY DEF Invalidate
<1> HIDE DEF D
<1>3. cache' \in [Name -> Stack] /\ CacheOk'
  BY <1>1, <1>2, CacheDropped
<1> QED BY <1>1, <1>3, CallReturns DEF Invalidate

LEMMA ExpireShape ==
  ASSUME Shape, Expire
  PROVE  Shape'
<1> USE ShapeParts
<1>1. DiskShape' /\ Grows /\ UNCHANGED pc /\ UNCHANGED held /\ UNCHANGED path /\ UNCHANGED goal
  BY DiskUnchanged DEF Expire
<1> DEFINE D == {n \in Name : ~ (cache[n] # << >> /\ InUse(cache[n]))}
<1>2. cache' = [n \in Name |-> IF n \in D THEN << >> ELSE cache[n]]
  BY DEF Expire
<1> HIDE DEF D
<1>3. cache' \in [Name -> Stack] /\ CacheOk'
  BY <1>1, <1>2, CacheDropped
<1>4. \A t \in Task : TaskOk(t)'
  BY <1>1, TaskKept
<1>5. MemoryTypes'
  BY <1>1, <1>3 DEF MemoryTypes
<1> QED BY <1>1, <1>3, <1>4, <1>5 DEF Shape, TypeOK, DiskShape, DiskTypes, MemoryTypes, PC

-----------------------------------------------------------------------------
(* Walks.                                                                  *)

Entry == [name : Name, adds : SUBSET Triple, rems : SUBSET Triple]

(* Only the name of the layer itself changes when it is wrapped.           *)
LEMMA RenamedProperties ==
  ASSUME NEW s \in Stack, s # << >>, NEW n \in Name
  PROVE  /\ Renamed(s, n) \in Stack /\ Renamed(s, n) # << >> /\ Len(Renamed(s, n)) = Len(s)
         /\ Renamed(s, n)[1] = [name |-> n, adds |-> s[1].adds, rems |-> s[1].rems]
         /\ \A i \in 2 .. Len(s) : Renamed(s, n)[i] = s[i]
<1>0. Len(s) \in Nat \ {0} /\ 1 \in 1 .. Len(s) /\ Stack = Seq(Entry)
  BY EmptySeq DEF Stack, Entry
<1>1. s[1] \in Entry
  BY <1>0, ElementOfSeq
<1> DEFINE e == [s[1] EXCEPT !.name = n]
<1>2. e \in Entry /\ e = [name |-> n, adds |-> s[1].adds, rems |-> s[1].rems]
  BY <1>1 DEF Entry
<1>3. Renamed(s, n) = [s EXCEPT ![1] = e]
  BY DEF Renamed
<1> HIDE DEF e
<1>4. /\ [s EXCEPT ![1] = e] \in Seq(Entry)
      /\ Len([s EXCEPT ![1] = e]) = Len(s)
      /\ \A j \in 1 .. Len(s) : [s EXCEPT ![1] = e][j] = IF j = 1 THEN e ELSE s[j]
  BY <1>0, <1>2, ExceptSeq
<1>5. Renamed(s, n) # << >>
  BY <1>0, <1>3, <1>4, EmptySeq
<1> QED BY <1>0, <1>2, <1>3, <1>4, <1>5

(* The layer at some depth of a loaded one.                                *)
LEMMA SubStack ==
  ASSUME NEW s \in Stack, NEW i \in 1 .. Len(s)
  PROVE  /\ SubSeq(s, i, Len(s)) \in Stack /\ SubSeq(s, i, Len(s)) # << >>
         /\ Len(SubSeq(s, i, Len(s))) = Len(s) - i + 1
         /\ \A j \in 1 .. Len(s) - i + 1 : SubSeq(s, i, Len(s))[j] = s[i + j - 1]
<1>0. Stack = Seq(Entry) /\ Len(s) \in Nat /\ i \in Nat
  BY LenProperties DEF Stack, Entry
<1>1. \A j \in i .. Len(s) : s[j] \in Entry
  BY <1>0
<1>2. /\ SubSeq(s, i, Len(s)) \in Seq(Entry)
      /\ Len(SubSeq(s, i, Len(s))) = IF i <= Len(s) THEN Len(s) - i + 1 ELSE 0
      /\ \A j \in 1 .. Len(s) - i + 1 : SubSeq(s, i, Len(s))[j] = s[i + j - 1]
  BY <1>0, <1>1, SubSeqProperties
<1>3. Len(SubSeq(s, i, Len(s))) = Len(s) - i + 1 /\ Len(s) - i + 1 # 0
  BY <1>0, <1>2
<1>4. SubSeq(s, i, Len(s)) # << >>
  BY <1>3, EmptySeq
<1> QED BY <1>0, <1>2, <1>3, <1>4

(* What is loaded: the directories of the path, on top of the ancestor.    *)
LoadedStep(step) ==
  [name |-> step.name, adds |-> adds[Directory(step)], rems |-> rems[Directory(step)]]

LEMMA LoadProperties ==
  ASSUME DiskTypes, NEW steps \in Seq(Step), NEW ancestor \in Stack
  PROVE  /\ Load(steps, ancestor) \in Stack
         /\ Len(Load(steps, ancestor)) = Len(steps) + Len(ancestor)
         /\ \A i \in 1 .. Len(steps) : Load(steps, ancestor)[i] = LoadedStep(steps[i])
         /\ \A i \in 1 .. Len(ancestor) : Load(steps, ancestor)[Len(steps) + i] = ancestor[i]
<1> DEFINE top == [i \in 1 .. Len(steps) |-> LoadedStep(steps[i])]
<1>0. Stack = Seq(Entry) /\ Len(steps) \in Nat /\ Len(ancestor) \in Nat
  BY LenProperties DEF Stack, Entry
<1>1. Load(steps, ancestor) = top \o ancestor
  BY DEF Load, LoadedStep
<1>2. \A i \in 1 .. Len(steps) : LoadedStep(steps[i]) \in Entry
  <2> TAKE i \in 1 .. Len(steps)
  <2>1. steps[i] \in Step
    BY ElementOfSeq
  <2>2. Directory(steps[i]) \in Name /\ steps[i].name \in Name
    BY <2>1, NamesAreNumbers DEF Step, Directory
  <2> QED BY <2>2 DEF LoadedStep, Entry, DiskTypes
<1>3. top \in Seq(Entry) /\ Len(top) = Len(steps)
  <2>1. top \in [1 .. Len(steps) -> Entry]
    BY <1>2
  <2> HIDE DEF top
  <2>2. top \in Seq(Entry)
    BY <1>0, <2>1, SeqDef
  <2> QED BY <1>0, <2>1, <2>2
<1>4. \A i \in 1 .. Len(steps) : top[i] = LoadedStep(steps[i])
  OBVIOUS
<1> HIDE DEF top
<1>5. /\ top \o ancestor \in Seq(Entry)
      /\ Len(top \o ancestor) = Len(top) + Len(ancestor)
      /\ \A i \in 1 .. Len(top) + Len(ancestor) :
           (top \o ancestor)[i] = IF i <= Len(top) THEN top[i] ELSE ancestor[i - Len(top)]
  BY <1>0, <1>3, ConcatProperties
<1>6. \A i \in 1 .. Len(steps) : (top \o ancestor)[i] = top[i]
  BY <1>0, <1>3, <1>5
<1>7. ASSUME NEW i \in 1 .. Len(ancestor) PROVE (top \o ancestor)[Len(steps) + i] = ancestor[i]
  <2>1. Len(steps) + i \in 1 .. Len(top) + Len(ancestor) /\ ~ (Len(steps) + i <= Len(top))
    BY <1>0, <1>3
  <2>2. (Len(steps) + i) - Len(top) = i
    BY <1>0, <1>3
  <2> QED BY <1>5, <2>1, <2>2
<1> QED BY <1>0, <1>1, <1>3, <1>4, <1>5, <1>6, <1>7

(* What a load puts in the cache: the layer at the place of a step, under  *)
(* its name and the name of its rollup.                                    *)
FromLoad(steps, stack, s, n) ==
  \E i \in 1 .. Len(steps) :
    n \in {steps[i].name, steps[i].rollup} /\ s = Renamed(SubSeq(stack, i, Len(stack)), n)

LEMMA CacheFromLoad ==
  ASSUME NEW steps, NEW stack, CacheLoaded(steps, stack), NEW n \in Name
  PROVE  cache'[n] = cache[n] \/ FromLoad(steps, stack, cache'[n], n)
<1> DEFINE At(i) == n \in {steps[i].name, steps[i].rollup}
<1>1. CASE \E i \in 1 .. Len(steps) : At(i)
  <2> DEFINE i == CHOOSE i \in 1 .. Len(steps) : At(i)
  <2>1. i \in 1 .. Len(steps) /\ At(i)
    BY <1>1
  <2>2. cache'[n] = Renamed(SubSeq(stack, i, Len(stack)), n)
    BY <1>1 DEF CacheLoaded
  <2> HIDE DEF i
  <2> QED BY <2>1, <2>2 DEF FromLoad
<1>2. CASE ~ \E i \in 1 .. Len(steps) : At(i)
  BY <1>2 DEF CacheLoaded
<1> QED BY <1>1, <1>2

LEMMA CacheLoadedShape ==
  ASSUME MemoryTypes, CacheOk, Grows, NEW steps \in Seq(Step), NEW stack \in Stack,
         Len(steps) <= Len(stack), NamesUsed(stack),
         \A i \in 1 .. Len(steps) : {steps[i].name, steps[i].rollup} \subseteq Used \cup {None},
         CacheLoaded(steps, stack)
  PROVE  cache' \in [Name -> Stack] /\ CacheOk'
<1>0. Len(steps) \in Nat /\ Len(stack) \in Nat
  BY LenProperties DEF Stack
<1>1. ASSUME NEW n \in Name
      PROVE  /\ cache'[n] \in Stack
             /\ \A i \in 1 .. Len(cache'[n]) : cache'[n][i].name \in Used
             /\ cache'[n] # << >> => cache'[n][1].name = n
  <2>1. CASE cache'[n] = cache[n]
    BY <2>1 DEF MemoryTypes, CacheOk, NamesUsed
  <2>2. CASE FromLoad(steps, stack, cache'[n], n)
    <3>1. PICK i \in 1 .. Len(steps) :
            n \in {steps[i].name, steps[i].rollup} /\ cache'[n] = Renamed(SubSeq(stack, i, Len(stack)), n)
      BY <2>2 DEF FromLoad
    <3> DEFINE s == SubSeq(stack, i, Len(stack))
    <3>2. i \in 1 .. Len(stack)
      BY <1>0
    <3>3. /\ s \in Stack /\ s # << >> /\ Len(s) = Len(stack) - i + 1
          /\ \A j \in 1 .. Len(stack) - i + 1 : s[j] = stack[i + j - 1]
      BY <3>2, SubStack
    <3>4. /\ cache'[n] \in Stack /\ Len(cache'[n]) = Len(s)
          /\ cache'[n][1] = [name |-> n, adds |-> s[1].adds, rems |-> s[1].rems]
          /\ \A j \in 2 .. Len(s) : cache'[n][j] = s[j]
      <4>1. cache'[n] = Renamed(s, n)
        BY <3>1
      <4> HIDE DEF s
      <4>2. /\ Renamed(s, n) \in Stack /\ Len(Renamed(s, n)) = Len(s)
            /\ Renamed(s, n)[1] = [name |-> n, adds |-> s[1].adds, rems |-> s[1].rems]
            /\ \A j \in 2 .. Len(s) : Renamed(s, n)[j] = s[j]
        BY <3>3, RenamedProperties
      <4> QED BY <4>1, <4>2
    <3>5. n \in Used
      BY <3>1, NamesAreNumbers
    <3>6. \A j \in 1 .. Len(s) : i + j - 1 \in 1 .. Len(stack)
      BY <1>0, <3>2, <3>3
    <3> HIDE DEF s
    <3>7. \A j \in 1 .. Len(s) : cache'[n][j].name \in Used
      <4>1. \A j \in 1 .. Len(s) : j = 1 \/ j \in 2 .. Len(s)
        BY <3>3, <1>0, <3>2
      <4>2. \A j \in 1 .. Len(s) : s[j].name \in Used
        BY <3>3, <3>6 DEF NamesUsed
      <4>3. cache'[n][1].name \in Used
        BY <3>4, <3>5
      <4> QED BY <3>4, <4>1, <4>2, <4>3
    <3> QED BY <3>4, <3>7
  <2> QED BY <2>1, <2>2, CacheFromLoad
<1>2. cache' \in [Name -> Stack]
  <2>1. cache' = [n \in Name |-> cache'[n]]
    BY DEF CacheLoaded
  <2> QED BY <1>1, <2>1
<1> QED BY <1>1, <1>2 DEF CacheOk, NamesUsed, Grows

(* Steps that lead from each directory to its parent and to the ancestor.  *)
Loadable(steps, ancestor) ==
  /\ \A j \in 1 .. Len(steps) : StepOk(steps[j])
  /\ \A j \in 1 .. Len(steps) :
       parent[Directory(steps[j])] = IF j < Len(steps) THEN steps[j + 1].name
                                     ELSE IF ancestor = << >> THEN None ELSE ancestor[1].name
  /\ NamesUsed(ancestor)
  /\ steps = << >> => ancestor # << >> /\ ancestor[1].name \in visible

(* A layer of the cache, under the name of a layer with the same triples.  *)
FromCache(ancestor) ==
  \E n, m \in Used : /\ cache[n] # << >> /\ contents[n] = contents[m]
                     /\ ancestor = Renamed(cache[n], m)

WalkEnds(t) ==
  \E steps \in Seq(Step), ancestor \in Stack :
    /\ EndWalk(t, steps, ancestor)
    /\ Loadable(steps, ancestor)
    /\ ancestor = << >> \/ FromCache(ancestor)

WalkGoesOn(t) ==
  \E steps \in Seq(Step), n \in Name :
    /\ PathOk(steps)
    /\ path' = [path EXCEPT ![t] = steps]
    /\ cache' = [cache EXCEPT ![n] = << >>]
    /\ UNCHANGED <<disk, pc, held, goal>>

(* A round of the loop ends the walk with what can be loaded, or adds a    *)
(* step that leads on.                                                     *)
LEMMA WalkRounds ==
  ASSUME Shape, NEW t \in Task, Walk(t)
  PROVE  pc[t] = "walk" /\ (WalkEnds(t) \/ WalkGoesOn(t))
<1> USE ShapeParts
<1> DEFINE p == path[t]
           last == p[Len(p)]
           before == SubSeq(p, 1, Len(p) - 1)
           current == Directory(last)
<1>1. pc[t] = "walk" /\ PathOk(p) /\ p \in Seq(Step)
  BY DEF Walk, TaskOk, WalkOk, MemoryTypes
<1>2. Len(p) \in Nat \ {0} /\ \A j \in 1 .. Len(p) : p[j] \in Step
  BY <1>1, EmptySeq, ElementOfSeq DEF PathOk
<1>3. \A j \in 1 .. Len(p) : /\ StepOk(p[j]) /\ p[j].name \in Used /\ Directory(p[j]) \in Used
                             /\ contents[Directory(p[j])] = contents[p[j].name]
  <2> TAKE j \in 1 .. Len(p)
  <2>1. StepOk(p[j]) /\ p[j].name \in Used
    BY <1>1 DEF PathOk, StepOk, DiskShape, MadeInOrder
  <2>2. p[j].rollup # None => p[j].rollup \in Used /\ contents[p[j].rollup] = contents[p[j].name]
    BY <2>1 DEF StepOk, StandsFor
  <2> QED BY <2>1, <2>2 DEF Directory
<1>4. /\ before \in Seq(Step) /\ Len(before) = Len(p) - 1
      /\ \A j \in 1 .. Len(p) - 1 : before[j] = p[j]
  <2>1. \A j \in 1 .. Len(p) - 1 : p[j] \in Step
    BY <1>2
  <2> HIDE DEF p
  <2>2. /\ before \in Seq(Step)
        /\ Len(before) = IF 1 <= Len(p) - 1 THEN (Len(p) - 1) - 1 + 1 ELSE 0
        /\ \A j \in 1 .. (Len(p) - 1) - 1 + 1 : before[j] = p[1 + j - 1]
    BY <1>2, <2>1, SubSeqProperties
  <2> HIDE DEF before
  <2>3. Len(before) = Len(p) - 1
    <3>1. \A l \in Nat \ {0} : (IF 1 <= l - 1 THEN (l - 1) - 1 + 1 ELSE 0) = l - 1
      OBVIOUS
    <3> QED BY ONLY <1>2, <2>2, <3>1
  <2>4. \A j \in 1 .. Len(p) - 1 : j \in 1 .. (Len(p) - 1) - 1 + 1 /\ 1 + j - 1 = j
    BY <1>2
  <2> QED BY <2>2, <2>3, <2>4
<1>5. \A j \in 1 .. Len(p) - 1 : parent[Directory(p[j])] = p[j + 1].name
  BY <1>1 DEF PathOk
<1>6. /\ Len(p) \in 1 .. Len(p) /\ last \in Step /\ StepOk(last) /\ last.name \in Used
      /\ current \in Used /\ contents[current] = contents[last.name]
  BY <1>2, <1>3
<1>7. Used \subseteq Name /\ visible \subseteq Used
  BY DEF Used, DiskShape, MadeInOrder
<1>8. CASE cache[current] # << >> /\ EndWalk(t, before, Renamed(cache[current], last.name))
  <2> DEFINE anc == Renamed(cache[current], last.name)
             s == cache[current]
  <2>1. s \in Stack /\ last.name \in Name
    BY <1>6, <1>7 DEF MemoryTypes
  <2>2. /\ anc \in Stack /\ anc # << >> /\ Len(anc) = Len(s)
        /\ anc[1] = [name |-> last.name, adds |-> s[1].adds, rems |-> s[1].rems]
        /\ \A i \in 2 .. Len(s) : anc[i] = s[i]
    BY <1>8, <2>1, RenamedProperties
  <2>3. anc[1].name = last.name
    BY <2>2
  <2>4. NamesUsed(anc)
    <3>1. NamesUsed(s)
      BY <1>6, <1>7 DEF CacheOk
    <3>2. Len(s) \in Nat
      BY <2>1, LenProperties DEF Stack
    <3> HIDE DEF anc, s
    <3>3. ASSUME NEW i \in 1 .. Len(anc) PROVE anc[i].name \in Used
      <4>1. i = 1 \/ i \in 2 .. Len(s)
        BY <2>2, <3>2
      <4> QED BY <1>6, <2>2, <2>3, <3>1, <4>1 DEF NamesUsed
    <3> QED BY <3>3 DEF NamesUsed
  <2>5. FromCache(anc)
    BY <1>6, <1>8 DEF FromCache
  <2>6. Loadable(before, anc)
    <3> HIDE DEF anc, before, last, p
    <3>1. \A j \in 1 .. Len(before) : before[j] = p[j] /\ j \in 1 .. Len(p) /\ j \in 1 .. Len(p) - 1
      BY <1>2, <1>4
    <3>2. \A j \in 1 .. Len(before) : StepOk(before[j])
      BY <1>3, <3>1
    <3>3. ASSUME NEW j \in 1 .. Len(before)
          PROVE  parent[Directory(before[j])] =
                   IF j < Len(before) THEN before[j + 1].name ELSE anc[1].name
      <4>1. parent[Directory(before[j])] = p[j + 1].name
        BY <1>5, <3>1
      <4>2. CASE j < Len(before)
        <5>1. j + 1 \in 1 .. Len(before)
          BY <1>2, <1>4, <4>2
        <5> QED BY <3>1, <4>1, <4>2, <5>1
      <4>3. CASE ~ (j < Len(before))
        <5>1. j + 1 = Len(p)
          BY <1>2, <1>4, <4>3
        <5> QED BY <2>3, <4>1, <4>3, <5>1 DEF last
      <4> QED BY <4>2, <4>3
    <3>4. anc[1].name \in visible
      BY <1>6, <2>3 DEF StepOk
    <3> QED BY <2>2, <2>4, <3>2, <3>3, <3>4 DEF Loadable
  <2> HIDE DEF anc, before
  <2>7. EndWalk(t, before, anc)
    BY <1>8 DEF anc
  <2> QED BY <1>1, <1>4, <2>2, <2>5, <2>6, <2>7 DEF WalkEnds
<1>9. CASE parent[current] = None /\ EndWalk(t, p, << >>)
  <2>1. << >> \in Stack /\ NamesUsed(<< >>)
    BY EmptySeq DEF Stack, NamesUsed
  <2>2. Loadable(p, << >>)
    <3>1. \A j \in 1 .. Len(p) : parent[Directory(p[j])] = IF j < Len(p) THEN p[j + 1].name ELSE None
      <4> HIDE DEF p
      <4> TAKE j \in 1 .. Len(p)
      <4>1. CASE j < Len(p)
        BY <1>2, <1>5, <4>1
      <4>2. CASE ~ (j < Len(p))
        <5>1. j = Len(p)
          BY <1>2, <4>2
        <5> QED BY <1>9, <4>2, <5>1
      <4> QED BY <4>1, <4>2
    <3>2. p # << >> /\ \A j \in 1 .. Len(p) : StepOk(p[j])
      BY <1>1 DEF PathOk
    <3> HIDE DEF p
    <3> QED BY <2>1, <3>1, <3>2 DEF Loadable
  <2> HIDE DEF p
  <2> QED BY <1>1, <1>9, <2>1, <2>2 DEF WalkEnds
<1>10. ASSUME NEW steps \in Seq(Step), PathOk(steps),
              path' = [path EXCEPT ![t] = steps], cache' = [cache EXCEPT ![current] = << >>],
              UNCHANGED <<disk, pc, held, goal>>
       PROVE  WalkGoesOn(t)
  BY <1>6, <1>7, <1>10 DEF WalkGoesOn
<1>11. CASE /\ rollup[current] # None
            /\ path' = [path EXCEPT ![t] = Append(before, [name |-> current, rollup |-> rollup[current]])]
            /\ cache' = [cache EXCEPT ![current] = << >>]
            /\ UNCHANGED <<disk, pc, held, goal>>
  <2> DEFINE e == [name |-> current, rollup |-> rollup[current]]
  <2>1. current \in visible /\ StandsFor(rollup[current], current) /\ rollup[current] \in Name
    BY <1>6, <1>7, <1>11 DEF DiskShape, DiskTypes, RollupsStandFor
  <2>2. current = last.name
    BY <1>6, <2>1 DEF Directory, StepOk, StandsFor
  <2>3. e \in Step /\ StepOk(e)
    BY <1>6, <1>7, <2>1 DEF Step, StepOk
  <2>4. e.name = last.name
    BY <2>2
  <2> HIDE DEF e, before, last, p
  <2>5. /\ Append(before, e) \in Seq(Step) /\ Append(before, e) # << >>
        /\ Len(Append(before, e)) = Len(before) + 1
        /\ \A i \in 1 .. Len(before) : Append(before, e)[i] = before[i]
        /\ Append(before, e)[Len(before) + 1] = e
    BY <1>4, <2>3, AppendProperties
  <2>6. PathOk(Append(before, e))
    <3> DEFINE q == Append(before, e)
    <3> HIDE DEF q
    <3>1. Len(q) = Len(p) /\ q[Len(p)] = e /\ \A j \in 1 .. Len(p) - 1 : q[j] = p[j]
      BY <1>2, <1>4, <2>5 DEF q
    <3>2. \A j \in 1 .. Len(q) : StepOk(q[j])
      <4>1. \A j \in 1 .. Len(q) : j = Len(p) \/ (j \in 1 .. Len(p) - 1 /\ j \in 1 .. Len(p))
        BY <1>2, <3>1
      <4> QED BY <1>3, <2>3, <3>1, <4>1
    <3>3. ASSUME NEW j \in 1 .. Len(q) - 1 PROVE q[j + 1].name = parent[Directory(q[j])]
      <4>1. q[j] = p[j] /\ parent[Directory(p[j])] = p[j + 1].name
        BY <1>5, <3>1
      <4>2. CASE j + 1 = Len(p)
        BY <2>4, <3>1, <4>1, <4>2 DEF last
      <4>3. CASE j + 1 # Len(p)
        <5>1. j + 1 \in 1 .. Len(p) - 1
          BY <1>2, <3>1, <4>3
        <5> QED BY <3>1, <4>1, <5>1
      <4> QED BY <4>2, <4>3
    <3>4. q # << >>
      BY <2>5 DEF q
    <3> QED BY <3>2, <3>3, <3>4 DEF PathOk, q
  <2>7. path' = [path EXCEPT ![t] = Append(before, e)]
    BY <1>11 DEF e
  <2> QED BY <1>1, <1>10, <1>11, <2>5, <2>6, <2>7
<1>12. CASE /\ parent[current] # None
            /\ path' = [path EXCEPT ![t] = Append(p, [name |-> parent[current], rollup |-> None])]
            /\ cache' = [cache EXCEPT ![current] = << >>]
            /\ UNCHANGED <<disk, pc, held, goal>>
  <2> DEFINE e == [name |-> parent[current], rollup |-> None]
  <2>1. parent[current] \in visible
    BY <1>6, <1>12 DEF DiskShape, MadeInOrder
  <2>2. e \in Step /\ StepOk(e) /\ e.name = parent[current]
    BY <1>7, <2>1 DEF Step, StepOk
  <2> HIDE DEF e, p
  <2>3. /\ Append(p, e) \in Seq(Step) /\ Append(p, e) # << >>
        /\ Len(Append(p, e)) = Len(p) + 1
        /\ \A i \in 1 .. Len(p) : Append(p, e)[i] = p[i]
        /\ Append(p, e)[Len(p) + 1] = e
    BY <1>1, <2>2, AppendProperties
  <2>4. PathOk(Append(p, e))
    <3> DEFINE q == Append(p, e)
    <3> HIDE DEF q
    <3>1. Len(q) = Len(p) + 1 /\ q[Len(p) + 1] = e /\ \A j \in 1 .. Len(p) : q[j] = p[j]
      BY <2>3 DEF q
    <3>2. \A j \in 1 .. Len(q) : StepOk(q[j])
      <4>1. \A j \in 1 .. Len(q) : j = Len(p) + 1 \/ j \in 1 .. Len(p)
        BY <1>2, <3>1
      <4> QED BY <1>3, <2>2, <3>1, <4>1
    <3>3. ASSUME NEW j \in 1 .. Len(q) - 1 PROVE q[j + 1].name = parent[Directory(q[j])]
      <4>1. j \in 1 .. Len(p) /\ q[j] = p[j]
        BY <1>2, <3>1
      <4>2. CASE j = Len(p)
        BY <2>2, <3>1, <4>1, <4>2
      <4>3. CASE j # Len(p)
        <5>1. j \in 1 .. Len(p) - 1 /\ j + 1 \in 1 .. Len(p)
          BY <1>2, <4>1, <4>3
        <5> QED BY <1>5, <3>1, <4>1, <5>1
      <4> QED BY <4>2, <4>3
    <3>4. q # << >>
      BY <2>3 DEF q
    <3> QED BY <3>2, <3>3, <3>4 DEF PathOk, q
  <2>5. path' = [path EXCEPT ![t] = Append(p, e)]
    BY <1>12 DEF e
  <2> QED BY <1>1, <1>10, <1>12, <2>3, <2>4, <2>5
<1> QED BY <1>1, <1>8, <1>9, <1>11, <1>12 DEF Walk

(* What is loaded has names of directories, and a first one callers know.  *)
LEMMA LoadNames ==
  ASSUME Shape, NEW steps \in Seq(Step), NEW ancestor \in Stack, Loadable(steps, ancestor)
  PROVE  /\ NamesUsed(Load(steps, ancestor))
         /\ Load(steps, ancestor) # << >>
         /\ Load(steps, ancestor)[1].name \in visible
<1> DEFINE s == Load(steps, ancestor)
<1>0. DiskTypes /\ visible \subseteq Used /\ Len(steps) \in Nat /\ Len(ancestor) \in Nat
  BY ShapeParts, LenProperties DEF DiskShape, MadeInOrder, Stack
<1>1. /\ s \in Stack /\ Len(s) = Len(steps) + Len(ancestor)
      /\ \A i \in 1 .. Len(steps) : s[i] = LoadedStep(steps[i])
      /\ \A i \in 1 .. Len(ancestor) : s[Len(steps) + i] = ancestor[i]
  BY <1>0, LoadProperties
<1> HIDE DEF s
<1>2. \A i \in 1 .. Len(steps) : s[i].name = steps[i].name /\ steps[i].name \in visible
  <2> TAKE i \in 1 .. Len(steps)
  <2>1. s[i] = LoadedStep(steps[i]) /\ StepOk(steps[i])
    BY <1>1 DEF Loadable
  <2> QED BY <2>1 DEF LoadedStep, StepOk
<1>3. ASSUME NEW i \in 1 .. Len(s) PROVE s[i].name \in Used
  <2>1. CASE i \in 1 .. Len(steps)
    BY <1>0, <1>2, <2>1
  <2>2. CASE i \notin 1 .. Len(steps)
    <3>1. i - Len(steps) \in 1 .. Len(ancestor) /\ i = Len(steps) + (i - Len(steps))
      BY <1>0, <1>1, <2>2
    <3>2. s[i] = ancestor[i - Len(steps)]
      BY <1>1, <3>1
    <3> QED BY <3>1, <3>2 DEF Loadable, NamesUsed
  <2> QED BY <2>1, <2>2
<1>4. s # << >> /\ s[1].name \in visible
  <2>1. CASE steps = << >>
    <3>1. Len(steps) = 0 /\ Len(ancestor) \in Nat \ {0} /\ ancestor[1].name \in visible
      BY <2>1, EmptySeq DEF Loadable, Stack
    <3>2. s[1] = ancestor[1] /\ Len(s) # 0
      <4>1. 1 \in 1 .. Len(ancestor) /\ Len(steps) + 1 = 1
        BY <3>1
      <4> QED BY <1>1, <3>1, <4>1
    <3> QED BY <3>1, <3>2, EmptySeq
  <2>2. CASE steps # << >>
    <3>1. Len(steps) \in Nat \ {0}
      BY <2>2, EmptySeq
    <3>2. 1 \in 1 .. Len(steps) /\ Len(s) # 0
      BY <1>0, <1>1, <3>1
    <3> QED BY <1>2, <3>2, EmptySeq
  <2> QED BY <2>1, <2>2
<1>5. NamesUsed(s)
  BY <1>3 DEF NamesUsed
<1> QED BY <1>4, <1>5 DEF s

LEMMA EndWalkShape ==
  ASSUME Shape, NEW t \in Task, pc[t] = "walk",
         NEW steps \in Seq(Step), NEW ancestor \in Stack,
         EndWalk(t, steps, ancestor), Loadable(steps, ancestor)
  PROVE  Shape'
<1> USE ShapeParts
<1> DEFINE s == Load(steps, ancestor)
<1>0. DiskShape' /\ Grows
  BY DiskUnchanged DEF EndWalk
<1>1. /\ s \in Stack /\ Len(s) = Len(steps) + Len(ancestor)
      /\ NamesUsed(s) /\ s # << >> /\ s[1].name \in visible
  BY LoadProperties, LoadNames DEF DiskShape
<1>2. /\ CacheLoaded(steps, s)
      /\ path' = [path EXCEPT ![t] = << >>]
      /\ \/ /\ goal[t] = NoGoal
            /\ held' = [held EXCEPT ![t] = s]
            /\ Returns(t)
         \/ /\ goal[t] # NoGoal
            /\ GoTo(t, "build")
            /\ UNCHANGED held /\ UNCHANGED goal
  BY DEF EndWalk
<1> HIDE DEF s
<1>3. cache' \in [Name -> Stack] /\ CacheOk'
  <2>1. Len(steps) <= Len(s)
    BY <1>1, LenProperties DEF Stack
  <2>2. \A i \in 1 .. Len(steps) : {steps[i].name, steps[i].rollup} \subseteq Used \cup {None}
    BY DEF Loadable, StepOk, StandsFor, DiskShape, MadeInOrder
  <2> QED BY <1>0, <1>1, <1>2, <2>1, <2>2, CacheLoadedShape
<1>4. MemoryTypes'
  <2>1. path' \in [Task -> Seq(Step)]
    BY <1>2, EmptySeq DEF MemoryTypes
  <2>2. /\ pc' \in [Task -> PC] /\ held' \in [Task -> Stack] /\ goal' \in [Task -> Goal]
    <3>1. CASE held' = [held EXCEPT ![t] = s] /\ Returns(t)
      BY <1>1, <3>1 DEF MemoryTypes, PC, Returns, Goal
    <3>2. CASE GoTo(t, "build") /\ UNCHANGED held /\ UNCHANGED goal
      BY <3>2 DEF MemoryTypes, PC, GoTo
    <3> QED BY <1>2, <3>1, <3>2
  <2> QED BY <1>3, <2>1, <2>2 DEF MemoryTypes
<1>5. TaskOk(t)'
  <2>1. HoldsOk(t)'
    <3>1. CASE held' = [held EXCEPT ![t] = s]
      <4>1. held'[t] = s
        BY <3>1 DEF MemoryTypes
      <4> QED BY <1>0, <1>1, <4>1 DEF HoldsOk, NamesUsed, Grows
    <3>2. CASE UNCHANGED held
      BY <1>0, <3>2, NamesKept DEF TaskOk, HoldsOk, Grows
    <3> QED BY <1>2, <3>1, <3>2
  <2>2. pc'[t] \in {"idle", "build"} /\ (pc'[t] = "idle" => goal'[t] = NoGoal)
        /\ (pc'[t] = "build" => goal'[t] = goal[t] /\ goal[t] # NoGoal /\ UNCHANGED held)
    BY <1>2 DEF Returns, GoTo, MemoryTypes
  <2>3. WalkOk(t)'
    BY <2>2 DEF WalkOk
  <2>4. GoalOk(t)'
    <3>1. pc'[t] = "build" => RollsUp(t)
      BY <2>2 DEF TaskOk, GoalOk
    <3>2. pc'[t] = "build" => RollsUp(t)'
      BY <1>0, <2>2, <3>1 DEF RollsUp, Grows
    <3> QED BY <2>2, <3>2 DEF GoalOk
  <2> QED BY <2>1, <2>3, <2>4 DEF TaskOk
<1> QED BY <1>0, <1>2, <1>3, <1>4, <1>5, TaskSteps DEF MemoryTypes, Returns, GoTo

LEMMA WalkShape ==
  ASSUME Shape, NEW t \in Task, Walk(t)
  PROVE  Shape'
<1> USE ShapeParts
<1>1. CASE WalkEnds(t)
  BY <1>1, WalkRounds, EndWalkShape DEF WalkEnds
<1>2. CASE WalkGoesOn(t)
  <2>1. PICK steps \in Seq(Step), n \in Name :
          /\ PathOk(steps)
          /\ path' = [path EXCEPT ![t] = steps]
          /\ cache' = [cache EXCEPT ![n] = << >>]
          /\ UNCHANGED <<disk, pc, held, goal>>
    BY <1>2 DEF WalkGoesOn
  <2>2. DiskShape' /\ Grows
    BY <2>1, DiskUnchanged
  <2>3. cache' = [m \in Name |-> IF m \in {n} THEN << >> ELSE cache[m]]
    BY <2>1 DEF MemoryTypes
  <2>4. cache' \in [Name -> Stack] /\ CacheOk'
    BY <2>2, <2>3, CacheDropped
  <2>5. MemoryTypes'
    BY <2>1, <2>4 DEF MemoryTypes
  <2>6. TaskOk(t)'
    <3>1. HoldsOk(t)'
      BY <2>1, <2>2, NamesKept DEF TaskOk, HoldsOk, Grows
    <3>2. PathOk(steps)'
      BY <2>1, <2>2, PathKept DEF DiskShape
    <3>3. path'[t] = steps
      BY <2>1 DEF MemoryTypes
    <3>4. WalkOk(t)'
      BY <3>2, <3>3 DEF WalkOk
    <3>5. GoalOk(t)'
      BY <2>1, <2>2, WalkRounds DEF TaskOk, GoalOk, RollsUp, Grows
    <3> QED BY <3>1, <3>4, <3>5 DEF TaskOk
  <2> QED BY <2>1, <2>2, <2>4, <2>5, <2>6, TaskSteps DEF MemoryTypes
<1> QED BY <1>1, <1>2, WalkRounds

-----------------------------------------------------------------------------
(* The shape is an invariant, and what follows from it.                    *)

LEMMA InitShape == Init => Shape
<1> SUFFICES ASSUME Init PROVE Shape
  OBVIOUS
<1>1. Used = {} /\ Cardinality(Used) = 0
  BY NamesAreNumbers, FS_EmptySet DEF Init, Used
<1>2. TypeOK
  BY EmptySeq DEF Init, TypeOK, Stack, Goal
<1>3. MadeInOrder
  BY <1>1 DEF Init, MadeInOrder
<1>4. RollupsStandFor /\ CacheOk
  BY EmptySeq DEF Init, RollupsStandFor, CacheOk, NamesUsed
<1>5. \A t \in Task : TaskOk(t)
  BY EmptySeq DEF Init, TaskOk, HoldsOk, WalkOk, GoalOk, NamesUsed
<1> QED BY <1>2, <1>3, <1>4, <1>5 DEF Shape

LEMMA NextShape == Shape /\ [Next]_vars => Shape'
<1> SUFFICES ASSUME Shape, [Next]_vars PROVE Shape'
  OBVIOUS
<1>1. CASE Next
  <2>1. ASSUME NEW t \in Task, Proceed(t) PROVE Shape'
    BY <2>1, WalkShape, BuildRollupShape, RegisterShape, InvalidateShape DEF Proceed
  <2> QED BY <1>1, <2>1, CommitShape, GetLayerShape, RollupShape, RollupUptoShape, SquashShape,
             SquashUptoShape, ExpireShape DEF Next
<1>2. CASE UNCHANGED vars
  <2>1. DiskShape' /\ Grows
    BY <1>2, ShapeParts, DiskUnchanged DEF vars, disk
  <2>2. CacheOk' /\ \A t \in Task : TaskOk(t)'
    BY <1>2, <2>1, ShapeParts, CacheKept, TaskKept DEF vars
  <2> QED BY <1>2, <2>1, <2>2 DEF vars, Shape, TypeOK, DiskShape, DiskTypes
<1> QED BY <1>1, <1>2

LEMMA ShapeInvariant == Spec => []Shape
<1> QED BY InitShape, NextShape, PTL DEF Spec

(* Types: whatever the callers do, every file, cache entry, path and goal  *)
(* is well formed; in particular no walk ever reads the parent or rollup   *)
(* file of a directory that is not there.                                  *)
THEOREM TypeCorrect == Spec => []TypeOK
<1>1. Shape => TypeOK
  BY DEF Shape
<1> QED BY <1>1, ShapeInvariant, PTL

(* No loops: the rollup file of a layer, and then parent files, lead       *)
(* strictly below the layer, for every workload (register_rollup's "let's  *)
(* not create a loop").                                                    *)
THEOREM NoLoops == Spec => []RollupLeadsBelow
<1>1. Shape => RollupLeadsBelow
  <2> SUFFICES ASSUME Shape, NEW n \in Name, rollup[n] # None
               PROVE  /\ Ancestors[rollup[n]] \ {rollup[n]} \subseteq Ancestors[n] \ {n}
                      /\ rollup[n] # n /\ rollup[rollup[n]] = None
    BY DEF RollupLeadsBelow
  <2> DEFINE r == rollup[n]
  <2>1. /\ n \in visible /\ StandsFor(r, n) /\ r \in Used \ visible /\ r \in Name
        /\ DiskTypes /\ MadeInOrder
    BY ShapeParts DEF DiskShape, RollupsStandFor, StandsFor, DiskTypes
  <2>2. r # n /\ rollup[r] = None
    BY <2>1, ShapeParts DEF DiskShape, RollupsStandFor
  <2>3. Chains
    BY <2>1, AncestorsOnDisk
  <2>4. Ancestors[r] = {r} \cup IF parent[r] \in Name THEN Ancestors[parent[r]] ELSE {}
    BY <2>1, <2>3 DEF Chains, IsUp
  <2>5. CASE parent[r] \in Name
    <3> DEFINE p == parent[r]
    <3>1. p \in Ancestors[n] \ {n}
      BY <2>1, <2>5, NamesAreNumbers DEF StandsFor
    <3>2. \A m \in Name : \A k \in Ancestors[m] : k \in Name /\ k <= m /\ Ancestors[k] \subseteq Ancestors[m]
      BY <2>3, UpProperties DEF Chains
    <3> HIDE DEF p
    <3>3. p \in Name /\ p < n /\ Ancestors[p] \subseteq Ancestors[n]
      <4>1. p \in Name /\ p <= n /\ p # n /\ Ancestors[p] \subseteq Ancestors[n]
        BY <3>1, <3>2
      <4>2. p \in Nat /\ n \in Nat
        BY <4>1, NamesAreNumbers
      <4> QED BY <4>1, <4>2
    <3>4. n \notin Ancestors[p]
      BY <3>2, <3>3, NamesAreNumbers
    <3> QED BY <2>2, <2>4, <2>5, <3>3, <3>4 DEF p
  <2>6. CASE parent[r] \notin Name
    BY <2>2, <2>4, <2>6
  <2> QED BY <2>5, <2>6
<1> QED BY <1>1, ShapeInvariant, PTL

-----------------------------------------------------------------------------
(***************************************************************************)
(* What is stored and loaded, when no rollup is made by                    *)
(* imprecise_rollup_upto (the run layer_stack_imprecise shows why).        *)
(***************************************************************************)

(* No caller uses imprecise_rollup_upto.                                   *)
OnlyPrecise == "imprecise_rollup_upto" \notin workload.ops

(* The triples below a directory, and below a layer of a loaded stack.     *)
Under(n) == IF parent[n] \in Name THEN contents[parent[n]] ELSE {}

Below(stack, i, c) == IF i = Len(stack) THEN {} ELSE c[stack[i + 1].name]

(* Every directory, and every layer of a loaded stack, has exactly the     *)
(* changes from what is below it.                                          *)
ExactOnDisk ==
  \A n \in Used : adds[n] = contents[n] \ Under(n) /\ rems[n] = Under(n) \ contents[n]

Exact(stack, c) ==
  \A i \in 1 .. Len(stack) :
    /\ stack[i].adds = c[stack[i].name] \ Below(stack, i, c)
    /\ stack[i].rems = Below(stack, i, c) \ c[stack[i].name]

Meaning ==
  /\ OnlyPrecise
  /\ \A t \in Task : goal[t].op # "imprecise_rollup_upto"
  /\ ExactOnDisk
  /\ \A t \in Task : Exact(held[t], contents)
  /\ \A n \in Name : Exact(cache[n], contents)

IInv == Shape /\ Meaning

-----------------------------------------------------------------------------
(* What a loaded layer answers.                                            *)

(* The topmost layer that mentions a triple decides, and the answer is     *)
(* what the layer was made with.                                           *)
LEMMA AnswersAreContents ==
  ASSUME NEW s \in Stack, s # << >>, NEW c \in [Name -> SUBSET Triple], Exact(s, c)
  PROVE  Triples(s) = c[s[1].name]
<1> DEFINE L == Len(s)
           C(i) == c[s[i].name]
<1>0. L \in Nat \ {0} /\ \A i \in 1 .. L : s[i].name \in Name /\ C(i) \in SUBSET Triple
  <2>1. L \in Nat \ {0}
    BY EmptySeq DEF Stack
  <2>2. \A i \in 1 .. L : s[i] \in Entry
    BY ElementOfSeq DEF Stack, Entry
  <2> QED BY <2>1, <2>2 DEF Entry
<1>1. \A i \in 1 .. L : i # L => /\ s[i].adds = C(i) \ C(i + 1)
                                 /\ s[i].rems = C(i + 1) \ C(i)
  BY DEF Exact, Below
<1>2. s[L].adds = C(L) /\ s[L].rems = {}
  <2>1. L \in 1 .. L
    BY <1>0
  <2>2. Below(s, L, c) = {}
    BY DEF Below
  <2>3. s[L].adds = C(L) \ Below(s, L, c) /\ s[L].rems = Below(s, L, c) \ C(L)
    BY <2>1 DEF Exact
  <2> QED BY <2>2, <2>3
<1> HIDE DEF C, L
<1>3. ASSUME NEW x \in C(1) PROVE TripleExists(s, x)
  <2> DEFINE T == {i \in 1 .. L : i = L \/ x \notin C(i + 1)}
  <2>1. PICK k \in T : \A i \in T : k =< i
    <3>1. L \in T /\ T \in SUBSET Nat
      BY <1>0
    <3> HIDE DEF T
    <3> QED BY <3>1, LeastElement
  <2>2. \A j \in 1 .. k - 1 : j \in 1 .. L /\ j # L /\ x \in C(j + 1)
    BY <1>0, <2>1
  <2>3. ASSUME NEW j \in 1 .. k PROVE x \in C(j)
    <3>1. CASE j = 1
      BY <1>3, <3>1
    <3>2. CASE j # 1
      <4>1. j - 1 \in 1 .. k - 1 /\ (j - 1) + 1 = j
        BY <1>0, <2>1, <3>2
      <4> QED BY <2>2, <4>1
    <3> QED BY <3>1, <3>2
  <2>4. k \in 1 .. k /\ k \in 1 .. L
    BY <1>0, <2>1
  <2>5. x \in s[k].adds
    <3>1. x \in C(k)
      BY <2>3, <2>4
    <3>2. CASE k = L
      BY <1>2, <3>1, <3>2
    <3>3. CASE k # L
      <4>1. x \notin C(k + 1)
        BY <2>1, <3>3
      <4> QED BY <1>1, <2>4, <3>1, <3>3, <4>1
    <3> QED BY <3>2, <3>3
  <2>6. ASSUME NEW j \in 1 .. k - 1 PROVE x \notin s[j].adds \cup s[j].rems
    <3>1. x \in C(j + 1) /\ x \in C(j) /\ j \in 1 .. L /\ j # L
      <4>1. j \in 1 .. k
        BY <1>0, <2>1
      <4> QED BY <2>2, <2>3, <4>1
    <3> QED BY <1>1, <3>1
  <2> QED BY <2>4, <2>5, <2>6 DEF TripleExists, L
<1>4. ASSUME NEW x, TripleExists(s, x) PROVE x \in C(1)
  <2>1. PICK k \in 1 .. L : x \in s[k].adds /\ \A j \in 1 .. k - 1 : x \notin s[j].adds \cup s[j].rems
    BY <1>4 DEF TripleExists, L
  <2>2. x \in C(k)
    BY <1>1, <1>2, <2>1
  <2> DEFINE T == {j \in 1 .. k : x \in C(j)}
  <2>3. PICK m \in T : \A j \in T : m =< j
    <3>1. k \in T /\ T \in SUBSET Nat
      BY <1>0, <2>1, <2>2
    <3> HIDE DEF T
    <3> QED BY <3>1, LeastElement
  <2>4. ASSUME m # 1 PROVE FALSE
    <3>1. m - 1 \in 1 .. k - 1 /\ m - 1 \in 1 .. k /\ m - 1 \in 1 .. L /\ m - 1 # L /\ (m - 1) + 1 = m
      BY <1>0, <2>1, <2>3, <2>4
    <3>2. x \notin C(m - 1)
      BY <1>0, <2>1, <2>3, <3>1
    <3>3. s[m - 1].rems = C(m) \ C(m - 1)
      BY <1>1, <3>1
    <3> QED BY <2>1, <2>3, <3>1, <3>2, <3>3
  <2> QED BY <2>3, <2>4
<1>5. C(1) \in SUBSET Triple
  BY <1>0
<1> QED BY <1>3, <1>4, <1>5 DEF Triples, C

-----------------------------------------------------------------------------
(* Changes over several layers cancel to the change from one end to the    *)
(* other.                                                                  *)

Has(S, x) == IF x \in S THEN 1 ELSE 0

LEMMA CountOneMore ==
  ASSUME NEW S, IsFiniteSet(S), NEW y, y \notin S, NEW P
  PROVE  /\ Cardinality({i \in S : i \in P}) \in Nat
         /\ Cardinality({i \in S \cup {y} : i \in P}) = Cardinality({i \in S : i \in P}) + Has(P, y)
<1> DEFINE F == {i \in S : i \in P}
<1>1. IsFiniteSet(F) /\ Cardinality(F) \in Nat /\ y \notin F
  BY FS_Subset, FS_CardinalityType
<1>2. CASE y \in P
  <2>1. {i \in S \cup {y} : i \in P} = F \cup {y}
    BY <1>2
  <2> HIDE DEF F
  <2> QED BY <1>1, <1>2, <2>1, FS_AddElement DEF Has, F
<1>3. CASE y \notin P
  <2>1. {i \in S \cup {y} : i \in P} = F
    BY <1>3
  <2> HIDE DEF F
  <2>2. Cardinality(F) + Has(P, y) = Cardinality(F)
    BY <1>1, <1>3 DEF Has
  <2> QED BY <1>1, <2>1, <2>2 DEF F
<1> QED BY <1>2, <1>3

(* Over the first k layers of a loaded one.                                *)
AddedAbove(s, k, x) == Cardinality({i \in 1 .. k : i \in {j \in Nat : x \in s[j].adds}})
RemovedAbove(s, k, x) == Cardinality({i \in 1 .. k : i \in {j \in Nat : x \in s[j].rems}})

LEMMA StackTelescopes ==
  ASSUME NEW s \in Stack, NEW c \in [Name -> SUBSET Triple], Exact(s, c), NEW x,
         NEW k \in Nat, k < Len(s)
  PROVE  /\ AddedAbove(s, k, x) \in Nat /\ RemovedAbove(s, k, x) \in Nat
         /\ AddedAbove(s, k, x) + Has(c[s[k + 1].name], x)
              = RemovedAbove(s, k, x) + Has(c[s[1].name], x)
<1> DEFINE A == {j \in Nat : x \in s[j].adds}
           R == {j \in Nat : x \in s[j].rems}
           a(i) == Cardinality({j \in 1 .. i : j \in A})
           r(i) == Cardinality({j \in 1 .. i : j \in R})
           h(i) == Has(c[s[i].name], x)
           S == {i \in Nat : i < Len(s) => a(i) \in Nat /\ r(i) \in Nat /\ a(i) + h(i + 1) = r(i) + h(1)}
<1>0. Len(s) \in Nat
  BY LenProperties DEF Stack
<1>1. 0 \in S
  <2>1. {j \in 1 .. 0 : j \in A} = {} /\ {j \in 1 .. 0 : j \in R} = {}
    OBVIOUS
  <2> QED BY <2>1, FS_EmptySet DEF Has
<1>2. ASSUME NEW i \in Nat, i \in S PROVE i + 1 \in S
  <2> SUFFICES ASSUME i + 1 < Len(s)
               PROVE  /\ a(i + 1) \in Nat /\ r(i + 1) \in Nat
                      /\ a(i + 1) + h(i + 2) = r(i + 1) + h(1)
    OBVIOUS
  <2>1. /\ s[i + 1].adds = c[s[i + 1].name] \ c[s[i + 2].name]
        /\ s[i + 1].rems = c[s[i + 2].name] \ c[s[i + 1].name]
    <3>1. i + 1 \in 1 .. Len(s) /\ i + 1 # Len(s) /\ (i + 1) + 1 = i + 2
      BY <1>0
    <3> QED BY <3>1 DEF Exact, Below
  <2>2. 1 .. (i + 1) = (1 .. i) \cup {i + 1} /\ IsFiniteSet(1 .. i) /\ i + 1 \notin 1 .. i
    <3>1. IsFiniteSet(1 .. i)
      BY FS_Interval
    <3>2. 1 .. (i + 1) = (1 .. i) \cup {i + 1} /\ i + 1 \notin 1 .. i
      OBVIOUS
    <3> QED BY <3>1, <3>2
  <2>3. a(i + 1) = a(i) + Has(A, i + 1) /\ r(i + 1) = r(i) + Has(R, i + 1)
    <3> HIDE DEF A, R
    <3> QED BY <2>2, CountOneMore
  <2>4. Has(A, i + 1) + h(i + 2) = Has(R, i + 1) + h(i + 1)
    BY <2>1 DEF Has
  <2>5. a(i) \in Nat /\ r(i) \in Nat /\ a(i) + h(i + 1) = r(i) + h(1)
    BY <1>0, <1>2
  <2>6. Has(A, i + 1) \in Nat /\ Has(R, i + 1) \in Nat /\ h(i + 1) \in Nat /\ h(i + 2) \in Nat /\ h(1) \in Nat
    BY DEF Has
  <2> HIDE DEF a, r, h, A, R, S
  <2> QED BY ONLY <2>3, <2>4, <2>5, <2>6
<1>3. k \in S
  <2> HIDE DEF S
  <2>1. Nat \subseteq S
    BY <1>1, <1>2, SetInduction
  <2> QED BY <2>1
<1> QED BY <1>3 DEF AddedAbove, RemovedAbove

(* Over the directories from a layer down to an ancestor of it.            *)
AddedOnDisk(names, x) == Cardinality({n \in names : n \in {m \in Name : x \in adds[m]}})
RemovedOnDisk(names, x) == Cardinality({n \in names : n \in {m \in Name : x \in rems[m]}})

Telescopes(n, a, x) ==
  LET names == Ancestors[n] \ Ancestors[a] IN
  /\ AddedOnDisk(names, x) \in Nat /\ RemovedOnDisk(names, x) \in Nat
  /\ AddedOnDisk(names, x) + Has(contents[a], x) = RemovedOnDisk(names, x) + Has(contents[n], x)

LEMMA DiskTelescopes ==
  ASSUME DiskTypes, MadeInOrder, ExactOnDisk, NEW x,
         NEW n \in Used, NEW a \in Ancestors[n]
  PROVE  Telescopes(n, a, x)
<1>0. Chains /\ Used \subseteq Name
  BY AncestorsOnDisk DEF Used
<1>1. \A m \in Name : /\ m \in Ancestors[m]
                      /\ \A k \in Ancestors[m] : k \in Name /\ k <= m /\ Ancestors[k] \subseteq Ancestors[m]
  BY <1>0, UpProperties DEF Chains
<1> DEFINE Bad == {m \in Used : a \in Ancestors[m] /\ ~ Telescopes(m, a, x)}
<1> SUFFICES ASSUME Bad # {} PROVE FALSE
  OBVIOUS
<1>2. PICK m \in Bad : \A k \in Bad : m =< k
  <2>1. Bad \in SUBSET Nat
    BY <1>0, NamesAreNumbers
  <2> HIDE DEF Bad
  <2> QED BY <2>1, LeastElement
<1>3. m \in Used /\ m \in Name /\ m \in Nat /\ a \in Ancestors[m] /\ a \in Name /\ a \in Nat
  BY <1>0, <1>1, <1>2, NamesAreNumbers
<1>4. CASE a = m
  <2>1. Ancestors[m] \ Ancestors[a] = {}
    BY <1>4
  <2>2. AddedOnDisk({}, x) = 0 /\ RemovedOnDisk({}, x) = 0
    BY FS_EmptySet DEF AddedOnDisk, RemovedOnDisk
  <2>3. Telescopes(m, a, x)
    BY <1>4, <2>1, <2>2 DEF Telescopes, Has
  <2> QED BY <1>2, <2>3
<1>5. CASE a # m
  <2> DEFINE p == parent[m]
             names == Ancestors[p] \ Ancestors[a]
             A == {k \in Name : x \in adds[k]}
             R == {k \in Name : x \in rems[k]}
  <2>1. Ancestors[m] = {m} \cup IF p \in Name THEN Ancestors[p] ELSE {}
    BY <1>0, <1>3 DEF Chains, IsUp
  <2>2. p \in Name /\ a \in Ancestors[p]
    BY <1>3, <1>5, <2>1
  <2>3. p \in Used /\ p < m /\ p \in Nat
    BY <1>3, <2>2, NamesAreNumbers DEF MadeInOrder
  <2>4. Telescopes(p, a, x)
    BY <1>2, <1>3, <2>2, <2>3
  <2>5. m \notin Ancestors[p] /\ m \notin Ancestors[a]
    <3>1. a <= p
      BY <1>1, <2>2
    <3> QED BY <1>1, <1>3, <2>2, <2>3, <3>1
  <2>6. Ancestors[m] \ Ancestors[a] = names \cup {m} /\ m \notin names
    BY <2>1, <2>2, <2>5
  <2>7. IsFiniteSet(names)
    <3>1. names \in SUBSET Name
      BY <1>1, <2>2
    <3> HIDE DEF names
    <3> QED BY <3>1, NamesAreNumbers, FS_Subset
  <2>8. /\ AddedOnDisk(names \cup {m}, x) = AddedOnDisk(names, x) + Has(A, m)
        /\ RemovedOnDisk(names \cup {m}, x) = RemovedOnDisk(names, x) + Has(R, m)
    <3> HIDE DEF names, A, R
    <3>1. /\ Cardinality({i \in names \cup {m} : i \in A}) = Cardinality({i \in names : i \in A}) + Has(A, m)
          /\ Cardinality({i \in names \cup {m} : i \in R}) = Cardinality({i \in names : i \in R}) + Has(R, m)
      BY <2>6, <2>7, CountOneMore
    <3> QED BY <3>1 DEF AddedOnDisk, RemovedOnDisk, A, R
  <2>9. adds[m] = contents[m] \ contents[p] /\ rems[m] = contents[p] \ contents[m]
    BY <1>3, <2>2 DEF ExactOnDisk, Under
  <2>10. Has(A, m) + Has(contents[p], x) = Has(R, m) + Has(contents[m], x)
    BY <1>3, <2>9 DEF Has
  <2>11. /\ AddedOnDisk(names, x) \in Nat /\ RemovedOnDisk(names, x) \in Nat
         /\ AddedOnDisk(names, x) + Has(contents[a], x) = RemovedOnDisk(names, x) + Has(contents[p], x)
    BY <2>4 DEF Telescopes
  <2>12. /\ Has(A, m) \in Nat /\ Has(R, m) \in Nat /\ Has(contents[p], x) \in Nat
         /\ Has(contents[m], x) \in Nat /\ Has(contents[a], x) \in Nat
    BY DEF Has
  <2> HIDE DEF names, A, R, p
  <2>13. /\ AddedOnDisk(names \cup {m}, x) \in Nat /\ RemovedOnDisk(names \cup {m}, x) \in Nat
         /\ AddedOnDisk(names \cup {m}, x) + Has(contents[a], x)
              = RemovedOnDisk(names \cup {m}, x) + Has(contents[m], x)
    BY ONLY <2>8, <2>10, <2>11, <2>12
  <2>14. Telescopes(m, a, x)
    BY <2>6, <2>13 DEF Telescopes
  <2> QED BY <1>2, <2>14
<1> QED BY <1>4, <1>5

(* What is left over after cancelling.                                     *)
LEMMA NetIsChange ==
  ASSUME NEW names, NEW stack, NEW hi \in SUBSET Triple, NEW lo \in SUBSET Triple,
         \A x \in Triple : /\ Added(names, stack, x) \in Nat /\ Removed(names, stack, x) \in Nat
                           /\ Added(names, stack, x) + Has(lo, x) = Removed(names, stack, x) + Has(hi, x)
  PROVE  NetAdditions(names, stack) = hi \ lo /\ NetRemovals(names, stack) = lo \ hi
<1>1. \A x \in Triple : Added(names, stack, x) > Removed(names, stack, x) <=> x \in hi \ lo
  BY DEF Has
<1>2. \A x \in Triple : Removed(names, stack, x) > Added(names, stack, x) <=> x \in lo \ hi
  BY DEF Has
<1> QED BY <1>1, <1>2 DEF NetAdditions, NetRemovals

(* Counting on disk and in the first k layers of a loaded one.             *)
LEMMA AddedRemovedCounts ==
  ASSUME NEW names \in SUBSET Name, NEW s \in Stack, NEW k \in Nat, k <= Len(s), NEW x
  PROVE  /\ Added(names, SubSeq(s, 1, k), x) = AddedOnDisk(names, x) + AddedAbove(s, k, x)
         /\ Removed(names, SubSeq(s, 1, k), x) = RemovedOnDisk(names, x) + RemovedAbove(s, k, x)
<1> DEFINE u == SubSeq(s, 1, k)
<1>0. Stack = Seq(Entry) /\ Len(s) \in Nat
  BY LenProperties DEF Stack, Entry
<1>1. \A i \in 1 .. k : s[i] \in Entry
  BY <1>0, ElementOfSeq
<1>2. /\ Len(u) = IF 1 <= k THEN k - 1 + 1 ELSE 0
      /\ \A i \in 1 .. k - 1 + 1 : u[i] = s[1 + i - 1]
  BY <1>0, <1>1, SubSeqProperties
<1> HIDE DEF u
<1>3. Len(u) = k /\ \A i \in 1 .. k : u[i] = s[i]
  <2>1. (IF 1 <= k THEN k - 1 + 1 ELSE 0) = k /\ \A i \in 1 .. k : i \in 1 .. k - 1 + 1 /\ 1 + i - 1 = i
    OBVIOUS
  <2> QED BY <1>2, <2>1
<1>4. /\ {i \in 1 .. Len(u) : x \in u[i].adds} = {i \in 1 .. k : i \in {j \in Nat : x \in s[j].adds}}
      /\ {i \in 1 .. Len(u) : x \in u[i].rems} = {i \in 1 .. k : i \in {j \in Nat : x \in s[j].rems}}
  BY <1>3
<1>5. /\ {n \in names : x \in adds[n]} = {n \in names : n \in {m \in Name : x \in adds[m]}}
      /\ {n \in names : x \in rems[n]} = {n \in names : n \in {m \in Name : x \in rems[m]}}
  OBVIOUS
<1> QED BY <1>4, <1>5 DEF Added, Removed, AddedOnDisk, RemovedOnDisk, AddedAbove, RemovedAbove, u

(* The changes of a squash_upto, which are read from disk.                 *)
LEMMA SquashChange ==
  ASSUME DiskTypes, MadeInOrder, ExactOnDisk, NEW n \in Used, NEW a \in Ancestors[n]
  PROVE  /\ NetAdditions(StackNamesUpto(n, a), << >>) = contents[n] \ contents[a]
         /\ NetRemovals(StackNamesUpto(n, a), << >>) = contents[a] \ contents[n]
<1> DEFINE names == StackNamesUpto(n, a)
<1>1. /\ contents[n] \in SUBSET Triple /\ contents[a] \in SUBSET Triple /\ names \in SUBSET Name
  <2>1. Chains /\ n \in Name
    BY AncestorsOnDisk DEF Used
  <2>2. Ancestors[n] \in SUBSET Name
    BY <2>1 DEF Chains, IsUp
  <2> QED BY <2>1, <2>2 DEF DiskTypes, StackNamesUpto
<1>2. ASSUME NEW x \in Triple
      PROVE  /\ Added(names, << >>, x) = AddedOnDisk(names, x)
             /\ Removed(names, << >>, x) = RemovedOnDisk(names, x)
             /\ AddedOnDisk(names, x) \in Nat /\ RemovedOnDisk(names, x) \in Nat
             /\ AddedOnDisk(names, x) + Has(contents[a], x) = RemovedOnDisk(names, x) + Has(contents[n], x)
  <2>1. Telescopes(n, a, x)
    BY DiskTelescopes
  <2>2. /\ AddedOnDisk(names, x) \in Nat /\ RemovedOnDisk(names, x) \in Nat
        /\ AddedOnDisk(names, x) + Has(contents[a], x) = RemovedOnDisk(names, x) + Has(contents[n], x)
    BY <2>1 DEF Telescopes, StackNamesUpto
  <2>3. Cardinality({i \in 1 .. Len(<< >>) : x \in << >>[i].adds}) = 0
        /\ Cardinality({i \in 1 .. Len(<< >>) : x \in << >>[i].rems}) = 0
    <3>1. {i \in 1 .. Len(<< >>) : x \in << >>[i].adds} = {} /\ {i \in 1 .. Len(<< >>) : x \in << >>[i].rems} = {}
      BY EmptySeq
    <3> QED BY <3>1, FS_EmptySet
  <2>4. /\ {m \in names : x \in adds[m]} = {m \in names : m \in {k \in Name : x \in adds[k]}}
        /\ {m \in names : x \in rems[m]} = {m \in names : m \in {k \in Name : x \in rems[k]}}
    <3> HIDE DEF names
    <3> QED BY <1>1
  <2>5. Added(names, << >>, x) = AddedOnDisk(names, x) + 0 /\ Removed(names, << >>, x) = RemovedOnDisk(names, x) + 0
    BY <2>3, <2>4 DEF Added, Removed, AddedOnDisk, RemovedOnDisk
  <2> QED BY <2>2, <2>5
<1> HIDE DEF names
<1> DEFINE hi == contents[n]
           lo == contents[a]
           none == << >>
<1>3. NetAdditions(names, none) = hi \ lo /\ NetRemovals(names, none) = lo \ hi
  <2>1. \A x \in Triple : /\ Added(names, none, x) \in Nat /\ Removed(names, none, x) \in Nat
                          /\ Added(names, none, x) + Has(lo, x) = Removed(names, none, x) + Has(hi, x)
    BY <1>2
  <2>2. hi \in SUBSET Triple /\ lo \in SUBSET Triple
    BY <1>1
  <2> HIDE DEF hi, lo, none
  <2> QED BY <2>1, <2>2, NetIsChange
<1> QED BY <1>3 DEF names

(* safe_upto_bound ends: there is a layer it cannot go beyond.             *)
Follows(s, upto, i) == s[i + 1].name \in StackNamesUpto(s[1].name, upto)

LEMMA BoundExists ==
  ASSUME NEW s \in Stack, s # << >>, NEW upto
  PROVE  LET i == BoundIndex(s, upto)
         IN  /\ i \in 1 .. Len(s)
             /\ i = Len(s) \/ ~ Follows(s, upto, i)
             /\ \A j \in 1 .. i - 1 : Follows(s, upto, j)
<1> DEFINE P(i) == /\ i = Len(s) \/ ~ Follows(s, upto, i)
                   /\ \A j \in 1 .. i - 1 : Follows(s, upto, j)
           T == {i \in 1 .. Len(s) : i = Len(s) \/ ~ Follows(s, upto, i)}
<1>0. Len(s) \in Nat \ {0}
  BY EmptySeq DEF Stack
<1>1. PICK k \in T : \A i \in T : k =< i
  <2>1. Len(s) \in T /\ T \in SUBSET Nat
    BY <1>0
  <2> HIDE DEF T
  <2> QED BY <2>1, LeastElement
<1>2. \A j \in 1 .. k - 1 : j \in 1 .. Len(s) /\ j \notin T
  BY <1>0, <1>1
<1>3. k \in 1 .. Len(s) /\ P(k)
  BY <1>0, <1>1, <1>2
<1>4. BoundIndex(s, upto) = CHOOSE i \in 1 .. Len(s) : P(i)
  BY DEF BoundIndex, Follows
<1> HIDE DEF P
<1>5. BoundIndex(s, upto) \in 1 .. Len(s) /\ P(BoundIndex(s, upto))
  BY <1>3, <1>4
<1> QED BY <1>5 DEF P

(* The changes of a rollup_upto: from memory above the bound, and from     *)
(* disk below it.                                                          *)
LEMMA RollupChangeIsExact ==
  ASSUME Shape, Meaning, NEW t \in Task, RollsUp(t), IsAbove(held[t][1].name, goal[t].upto)
  PROVE  LET top == contents[held[t][1].name]
             upto == contents[goal[t].upto]
         IN  RollupChange(t).adds = top \ upto /\ RollupChange(t).rems = upto \ top
<1> USE ShapeParts
<1> DEFINE s == held[t]
           u == goal[t].upto
           b == BoundIndex(s, u)
           safe == SafeUptoBound(s, u)
           names == StackNamesUpto(safe, u)
           k == IF safe = u THEN b ELSE b - 1
<1>1. /\ s \in Stack /\ s # << >> /\ s[1].name \in visible /\ u \in visible
      /\ DiskTypes /\ MadeInOrder /\ ExactOnDisk /\ Exact(s, contents) /\ NamesUsed(s)
      /\ contents \in [Name -> SUBSET Triple] /\ visible \subseteq Used /\ Used \subseteq Name
  BY HeldName DEF RollsUp, MemoryTypes, DiskShape, DiskTypes, Meaning, MadeInOrder, TaskOk, HoldsOk, Used
<1>2. goal[t].op = "rollup_upto"
  BY DEF RollsUp, Meaning
<1>3. u # s[1].name /\ u \in Ancestors[s[1].name]
  BY DEF IsAbove
<1>4. /\ RollupChange(t).adds = NetAdditions(names, SubSeq(s, 1, k))
      /\ RollupChange(t).rems = NetRemovals(names, SubSeq(s, 1, k))
  BY <1>2 DEF RollupChange, AboveBound
<1>5. /\ b \in 1 .. Len(s)
      /\ b = Len(s) \/ ~ Follows(s, u, b)
      /\ \A j \in 1 .. b - 1 : Follows(s, u, j)
  BY <1>1, BoundExists
<1>6. safe = IF b < Len(s) /\ s[b + 1].name = u THEN u ELSE s[b].name
  BY DEF SafeUptoBound
<1>7. Chains
  BY <1>1, AncestorsOnDisk
<1>8. Len(s) \in Nat /\ Len(s) # 0
  BY <1>1, EmptySeq DEF Stack
<1> HIDE DEF b, safe, names, k
<1>9. s[b].name \in Used /\ s[b].name # u /\ u \in Ancestors[s[b].name]
  <2>1. CASE b = 1
    BY <1>1, <1>3, <2>1
  <2>2. CASE b # 1
    <3>1. b - 1 \in 1 .. b - 1 /\ (b - 1) + 1 = b
      BY <1>5, <1>8, <2>2
    <3>2. s[b].name \in Ancestors[s[1].name] \ Ancestors[u]
      BY <1>5, <3>1 DEF Follows, StackNamesUpto
    <3>3. u \in Ancestors[u] /\ (s[b].name \in Ancestors[u] \/ u \in Ancestors[s[b].name])
      BY <1>1, <1>3, <1>7, <3>2, UpProperties DEF Chains
    <3> QED BY <1>1, <1>5, <3>2, <3>3 DEF NamesUsed
  <2> QED BY <2>1, <2>2
<1>10. /\ k \in Nat /\ k < Len(s) /\ s[k + 1].name = safe
       /\ safe \in Used /\ u \in Ancestors[safe] /\ names \in SUBSET Name
  <2>1. CASE b < Len(s) /\ s[b + 1].name = u
    <3>1. safe = u /\ k = b
      BY <1>6, <2>1 DEF k
    <3>2. k \in Nat /\ k < Len(s) /\ s[k + 1].name = safe
      BY <1>5, <1>8, <2>1, <3>1
    <3>3. u \in Used /\ u \in Ancestors[u] /\ Ancestors[u] \in SUBSET Name
      BY <1>1, <1>7, UpProperties DEF Chains, IsUp
    <3> QED BY <3>1, <3>2, <3>3 DEF names, StackNamesUpto
  <2>2. CASE ~ (b < Len(s) /\ s[b + 1].name = u)
    <3>1. safe = s[b].name /\ k = b - 1
      BY <1>6, <1>9, <2>2 DEF k
    <3>2. k \in Nat /\ k < Len(s) /\ k + 1 = b
      BY <1>5, <1>8, <3>1
    <3>3. Ancestors[safe] \in SUBSET Name
      BY <1>1, <1>7, <1>9, <3>1 DEF Chains, IsUp
    <3> QED BY <1>9, <3>1, <3>2, <3>3 DEF names, StackNamesUpto
  <2> QED BY <2>1, <2>2
<1> DEFINE hi == contents[s[1].name]
           lo == contents[u]
<1>11. ASSUME NEW x \in Triple
       PROVE  /\ Added(names, SubSeq(s, 1, k), x) \in Nat /\ Removed(names, SubSeq(s, 1, k), x) \in Nat
              /\ Added(names, SubSeq(s, 1, k), x) + Has(lo, x) = Removed(names, SubSeq(s, 1, k), x) + Has(hi, x)
  <2>1. /\ AddedAbove(s, k, x) \in Nat /\ RemovedAbove(s, k, x) \in Nat
        /\ AddedAbove(s, k, x) + Has(contents[s[k + 1].name], x) = RemovedAbove(s, k, x) + Has(hi, x)
    BY <1>1, <1>10, StackTelescopes
  <2>2. Telescopes(safe, u, x)
    BY <1>1, <1>10, DiskTelescopes
  <2>3. /\ AddedOnDisk(names, x) \in Nat /\ RemovedOnDisk(names, x) \in Nat
        /\ AddedOnDisk(names, x) + Has(lo, x) = RemovedOnDisk(names, x) + Has(contents[safe], x)
    BY <2>2 DEF Telescopes, names, StackNamesUpto
  <2>4. k <= Len(s)
    BY <1>8, <1>10
  <2>5. /\ Added(names, SubSeq(s, 1, k), x) = AddedOnDisk(names, x) + AddedAbove(s, k, x)
        /\ Removed(names, SubSeq(s, 1, k), x) = RemovedOnDisk(names, x) + RemovedAbove(s, k, x)
    <3> HIDE DEF s
    <3> QED BY <1>1, <1>10, <2>4, AddedRemovedCounts
  <2>6. contents[s[k + 1].name] = contents[safe]
    BY <1>10
  <2>7. Has(lo, x) \in Nat /\ Has(hi, x) \in Nat /\ Has(contents[safe], x) \in Nat
    BY DEF Has
  <2> HIDE DEF lo, hi, s, u
  <2> QED BY ONLY <2>1, <2>3, <2>5, <2>6, <2>7
<1>12. hi \in SUBSET Triple /\ lo \in SUBSET Triple
  BY <1>1
<1> DEFINE v == SubSeq(s, 1, k)
<1>13. NetAdditions(names, v) = hi \ lo /\ NetRemovals(names, v) = lo \ hi
  <2> HIDE DEF hi, lo, v
  <2>1. \A x \in Triple : /\ Added(names, v, x) \in Nat /\ Removed(names, v, x) \in Nat
                          /\ Added(names, v, x) + Has(lo, x) = Removed(names, v, x) + Has(hi, x)
    BY <1>11 DEF v
  <2> QED BY <1>12, <2>1, NetIsChange
<1> QED BY <1>4, <1>13

-----------------------------------------------------------------------------
(* What a step does to the meaning of the files and of the loaded layers.  *)

LEMMA ExactKept ==
  ASSUME Grows, NEW s \in Stack, NamesUsed(s), Exact(s, contents)
  PROVE  Exact(s, contents')
<1>0. Len(s) \in Nat
  BY LenProperties DEF Stack
<1>1. \A i \in 1 .. Len(s) : contents'[s[i].name] = contents[s[i].name]
  BY DEF Grows, NamesUsed
<1>2. \A i \in 1 .. Len(s) : Below(s, i, contents') = Below(s, i, contents)
  <2> TAKE i \in 1 .. Len(s)
  <2>1. CASE i = Len(s)
    BY <2>1 DEF Below
  <2>2. CASE i # Len(s)
    <3>1. i + 1 \in 1 .. Len(s)
      BY <1>0, <2>2
    <3> QED BY <1>1, <2>2, <3>1 DEF Below
  <2> QED BY <2>1, <2>2
<1> QED BY <1>1, <1>2 DEF Exact

(* Every layer in hand or in the cache stays, or is a new one that is      *)
(* exact.                                                                  *)
LEMMA MeaningSteps ==
  ASSUME IInv, Grows, ExactOnDisk', UNCHANGED workload,
         \A t \in Task : goal'[t].op # "imprecise_rollup_upto",
         \A t \in Task : held'[t] = held[t] \/ Exact(held'[t], contents'),
         \A n \in Name : cache'[n] = cache[n] \/ Exact(cache'[n], contents')
  PROVE  Meaning'
<1>1. /\ \A t \in Task : held[t] \in Stack /\ NamesUsed(held[t]) /\ Exact(held[t], contents)
      /\ \A n \in Name : cache[n] \in Stack /\ NamesUsed(cache[n]) /\ Exact(cache[n], contents)
  BY ShapeParts DEF IInv, MemoryTypes, TaskOk, HoldsOk, CacheOk, Meaning
<1>2. /\ \A t \in Task : Exact(held'[t], contents')
      /\ \A n \in Name : Exact(cache'[n], contents')
  BY <1>1, ExactKept
<1>3. OnlyPrecise'
  BY DEF IInv, Meaning, OnlyPrecise
<1> QED BY <1>2, <1>3 DEF Meaning

(* An empty place in the cache.                                            *)
LEMMA ExactEmpty ==
  ASSUME NEW c
  PROVE  Exact(<< >>, c)
BY EmptySeq DEF Exact

(* A step that writes no file but a rollup file.                           *)
LEMMA ExactDiskKept ==
  ASSUME ExactOnDisk, UNCHANGED <<parent, adds, rems, contents>>
  PROVE  ExactOnDisk'
BY DEF ExactOnDisk, Under, Used

(* A directory is made that has the changes from its parent.               *)
LEMMA ExactNewLayer ==
  ASSUME Shape, ExactOnDisk, NEW p \in visible \cup {None}, NEW a, NEW r,
         NEW c \in SUBSET Triple, NEW seen \in BOOLEAN, NewLayer(p, a, r, c, seen),
         p \in Name => a = c \ contents[p] /\ r = contents[p] \ c,
         p = None => a = c /\ r = {}
  PROVE  Grows /\ ExactOnDisk' /\ UNCHANGED workload
<1>0. DiskShape /\ visible \subseteq Used /\ Used \subseteq Name /\ (p \in Name <=> p # None)
  BY ShapeParts, NamesAreNumbers DEF DiskShape, MadeInOrder, Used
<1>1. a \in SUBSET Triple /\ r \in SUBSET Triple
  BY <1>0 DEF DiskShape, DiskTypes
<1>2. /\ DiskShape' /\ Grows
      /\ Fresh \in Name \ Used
      /\ Used' = Used \cup {Fresh}
      /\ parent'[Fresh] = p /\ contents'[Fresh] = c
      /\ adds'[Fresh] = a /\ rems'[Fresh] = r
      /\ \A n \in Used : adds'[n] = adds[n] /\ rems'[n] = rems[n]
  <2>1. PICK A \in SUBSET Triple, R \in SUBSET Triple : A = a /\ R = r
    BY <1>1
  <2>2. NewLayer(p, A, R, c, seen)
    BY <2>1
  <2>3. /\ DiskShape' /\ Grows
        /\ Fresh \in Name \ Used
        /\ Used' = Used \cup {Fresh}
        /\ parent'[Fresh] = p /\ contents'[Fresh] = c
        /\ adds'[Fresh] = A /\ rems'[Fresh] = R
        /\ \A n \in Used : adds'[n] = adds[n] /\ rems'[n] = rems[n]
    BY <1>0, <2>2, DiskNewLayer
  <2> QED BY <2>1, <2>3, Zenon
<1> HIDE DEF Fresh
<1>3. ASSUME NEW n \in Used PROVE adds'[n] = contents'[n] \ Under(n)' /\ rems'[n] = Under(n)' \ contents'[n]
  <2>1. parent'[n] = parent[n] /\ contents'[n] = contents[n]
    BY <1>2 DEF Grows
  <2>2. parent[n] \in Name => contents'[parent[n]] = contents[parent[n]]
    <3>1. parent[n] \in Name => parent[n] \in Used
      BY <1>0, NamesAreNumbers DEF DiskShape, MadeInOrder
    <3> QED BY <1>2, <3>1 DEF Grows
  <2> QED BY <1>2, <2>1, <2>2 DEF ExactOnDisk, Under
<1>4. ASSUME NEW n \in Used', n = Fresh
      PROVE  adds'[n] = contents'[n] \ Under(n)' /\ rems'[n] = Under(n)' \ contents'[n]
  <2>1. p \in Name => contents'[p] = contents[p]
    BY <1>0, <1>2 DEF Grows
  <2>2. Under(n)' = IF p \in Name THEN contents[p] ELSE {}
    BY <1>2, <1>4, <2>1 DEF Under
  <2> QED BY <1>0, <1>2, <1>4, <2>2
<1>5. ExactOnDisk'
  BY <1>2, <1>3, <1>4 DEF ExactOnDisk
<1> QED BY <1>2, <1>5 DEF NewLayer

-----------------------------------------------------------------------------
(* Every step keeps the meaning.                                           *)

LEMMA CommitMeaning ==
  ASSUME IInv, NEW t \in Task, NEW a \in SUBSET Triple, NEW r \in SUBSET Triple, Commit(t, a, r)
  PROVE  Meaning'
<1> USE ShapeParts DEF IInv
<1>1. Grows /\ ExactOnDisk' /\ UNCHANGED workload
  <2>1. CASE held[t] # << >>
    <3> DEFINE top == held[t][1].name
               c == (contents[top] \cup (a \ r)) \ (r \ a)
               x == (a \ r) \ Triples(held[t])
               y == (r \ a) \cap Triples(held[t])
    <3>1. top \in visible /\ top \in Name /\ contents \in [Name -> SUBSET Triple] /\ held[t] \in Stack
      BY <2>1, HeldName DEF DiskShape, DiskTypes, MemoryTypes
    <3>2. Triples(held[t]) = contents[top]
      BY <2>1, <3>1, AnswersAreContents DEF Meaning
    <3>3. NewLayer(top, x, y, c, TRUE)
      BY <2>1 DEF Commit
    <3>4. c \in SUBSET Triple /\ x = c \ contents[top] /\ y = contents[top] \ c
      BY <3>1, <3>2
    <3> HIDE DEF x, y, c, top
    <3>5. top # None
      BY <3>1, NamesAreNumbers
    <3> QED BY <3>1, <3>3, <3>4, <3>5, ExactNewLayer DEF Meaning
  <2>2. CASE held[t] = << >>
    <3> DEFINE c == a \ r
    <3>1. NewLayer(None, c, {}, c, TRUE) /\ c \in SUBSET Triple
      BY <2>2 DEF Commit
    <3> HIDE DEF c
    <3> QED BY <3>1, NamesAreNumbers, ExactNewLayer DEF Meaning
  <2> QED BY <2>1, <2>2
<1>2. UNCHANGED cache /\ UNCHANGED held /\ UNCHANGED goal
  BY DEF Commit
<1> QED BY <1>1, <1>2, MeaningSteps DEF Meaning

LEMMA SquashMeaning ==
  ASSUME IInv, NEW t \in Task, Squash(t)
  PROVE  Meaning'
<1> USE ShapeParts DEF IInv
<1>1. Grows /\ ExactOnDisk' /\ UNCHANGED workload
  <2> DEFINE c == contents[held[t][1].name]
  <2>1. /\ c \in SUBSET Triple /\ held[t] \in Stack /\ held[t] # << >>
        /\ contents \in [Name -> SUBSET Triple]
    BY HeldName DEF DiskShape, DiskTypes, MemoryTypes, Squash
  <2>2. Triples(held[t]) = c
    BY <2>1, AnswersAreContents DEF Meaning
  <2>3. NewLayer(None, c, {}, c, TRUE)
    BY <2>2 DEF Squash
  <2> HIDE DEF c
  <2> QED BY <2>1, <2>3, NamesAreNumbers, ExactNewLayer DEF Meaning
<1>2. UNCHANGED cache /\ UNCHANGED held /\ UNCHANGED goal
  BY DEF Squash
<1> QED BY <1>1, <1>2, MeaningSteps DEF Meaning

LEMMA SquashUptoMeaning ==
  ASSUME IInv, NEW t \in Task, NEW upto \in visible, SquashUpto(t, upto)
  PROVE  Meaning'
<1> USE ShapeParts DEF IInv
<1>1. Grows /\ ExactOnDisk' /\ UNCHANGED workload
  <2> DEFINE top == held[t][1].name
             c == contents[top]
             x == NetAdditions(StackNamesUpto(top, upto), << >>)
             y == NetRemovals(StackNamesUpto(top, upto), << >>)
  <2>1. /\ c \in SUBSET Triple /\ top \in Used /\ upto \in Ancestors[top] /\ upto \in Name
        /\ DiskTypes /\ MadeInOrder /\ ExactOnDisk
    BY HeldName DEF DiskShape, DiskTypes, SquashUpto, IsAbove, Meaning
  <2>2. NewLayer(upto, x, y, c, TRUE)
    BY DEF SquashUpto
  <2>3. x = c \ contents[upto] /\ y = contents[upto] \ c
    <3> HIDE DEF top
    <3> QED BY <2>1, SquashChange
  <2> HIDE DEF x, y, c, top
  <2>4. upto # None
    BY <2>1, NamesAreNumbers
  <2> QED BY <2>1, <2>2, <2>3, <2>4, ExactNewLayer
<1>2. UNCHANGED cache /\ UNCHANGED held /\ UNCHANGED goal
  BY DEF SquashUpto
<1> QED BY <1>1, <1>2, MeaningSteps DEF Meaning

(* A task sets itself another goal.                                        *)
LEMMA GoalSet ==
  ASSUME IInv, NEW t \in Task, NEW g, g.op # "imprecise_rollup_upto",
         goal' = [goal EXCEPT ![t] = g]
  PROVE  \A u \in Task : goal'[u].op # "imprecise_rollup_upto"
BY ShapeParts DEF IInv, Meaning, MemoryTypes

LEMMA GoalSetByStep ==
  ASSUME IInv, NEW t \in Task, NEW n, NEW r, Returns(t) \/ ToRegister(t, n, r)
  PROVE  \A u \in Task : goal'[u].op # "imprecise_rollup_upto"
<1>1. CASE Returns(t)
  <2>1. NoGoal.op # "imprecise_rollup_upto"
    BY DEF NoGoal
  <2> HIDE DEF NoGoal
  <2> QED BY <1>1, <2>1, GoalSet DEF Returns
<1>2. CASE ToRegister(t, n, r)
  <2> DEFINE g == [op |-> "register", layer |-> n, rollup |-> r]
  <2>1. g.op # "imprecise_rollup_upto" /\ goal' = [goal EXCEPT ![t] = g]
    BY <1>2 DEF ToRegister
  <2> HIDE DEF g
  <2> QED BY <2>1, GoalSet
<1> QED BY <1>1, <1>2

(* Steps that make no directory.                                           *)
LEMMA DiskUnchangedMeaning ==
  ASSUME IInv, UNCHANGED disk,
         \A t \in Task : goal'[t].op # "imprecise_rollup_upto",
         \A t \in Task : held'[t] = held[t] \/ Exact(held'[t], contents),
         \A n \in Name : cache'[n] = cache[n] \/ Exact(cache'[n], contents)
  PROVE  Meaning'
<1>1. Grows /\ UNCHANGED workload /\ UNCHANGED contents
  BY ShapeParts, DiskUnchanged DEF IInv, disk
<1>2. ExactOnDisk'
  BY ExactDiskKept DEF IInv, Meaning, disk
<1> QED BY <1>1, <1>2, MeaningSteps

LEMMA GetLayerMeaning ==
  ASSUME IInv, NEW t \in Task, NEW n \in visible, GetLayer(t, n)
  PROVE  Meaning'
BY DiskUnchangedMeaning DEF IInv, Meaning, GetLayer

LEMMA RollupMeaning ==
  ASSUME IInv, NEW t \in Task, Rollup(t)
  PROVE  Meaning'
<1> USE ShapeParts DEF IInv
<1> DEFINE top == held[t][1].name
           c == contents[top]
<1>0. /\ UNCHANGED cache /\ UNCHANGED held /\ held[t] # << >> /\ held[t] \in Stack
      /\ c \in SUBSET Triple /\ contents \in [Name -> SUBSET Triple]
  BY HeldName DEF Rollup, MemoryTypes, DiskShape, DiskTypes
<1>1. \A u \in Task : goal'[u].op # "imprecise_rollup_upto"
  BY GoalSetByStep DEF Rollup
<1>2. CASE UNCHANGED disk
  BY <1>0, <1>1, <1>2, DiskUnchangedMeaning
<1>3. CASE NewLayer(None, Triples(held[t]), {}, c, FALSE)
  <2>1. Triples(held[t]) = c
    BY <1>0, AnswersAreContents DEF Meaning
  <2>2. NewLayer(None, c, {}, c, FALSE)
    BY <1>3, <2>1
  <2> HIDE DEF c
  <2>3. Grows /\ ExactOnDisk' /\ UNCHANGED workload
    BY <1>0, <2>2, NamesAreNumbers, ExactNewLayer DEF Meaning
  <2> QED BY <1>0, <1>1, <2>3, MeaningSteps
<1> QED BY <1>2, <1>3 DEF Rollup

LEMMA RollupUptoMeaning ==
  ASSUME IInv, NEW t \in Task, NEW op \in AllOps, NEW upto \in visible, RollupUpto(t, op, upto)
  PROVE  Meaning'
<1>0. UNCHANGED disk /\ UNCHANGED cache /\ UNCHANGED held
  BY DEF RollupUpto
<1>1. \A u \in Task : goal'[u].op # "imprecise_rollup_upto"
  <2>1. op # "imprecise_rollup_upto"
    BY DEF RollupUpto, IInv, Meaning, OnlyPrecise
  <2> DEFINE g == [op |-> op, upto |-> upto]
  <2>2. CASE goal' = [goal EXCEPT ![t] = g]
    <3>1. g.op # "imprecise_rollup_upto"
      BY <2>1
    <3> HIDE DEF g
    <3> QED BY <2>2, <3>1, GoalSet
  <2>3. ASSUME NEW n, NEW r, Returns(t) \/ ToRegister(t, n, r)
        PROVE  \A u \in Task : goal'[u].op # "imprecise_rollup_upto"
    BY <2>3, GoalSetByStep
  <2> QED BY <2>2, <2>3 DEF RollupUpto
<1> QED BY <1>0, <1>1, DiskUnchangedMeaning

LEMMA BuildRollupMeaning ==
  ASSUME IInv, NEW t \in Task, BuildRollup(t)
  PROVE  Meaning'
<1> USE ShapeParts DEF IInv
<1> DEFINE top == held[t][1].name
           upto == goal[t].upto
<1>0. UNCHANGED cache /\ UNCHANGED held /\ RollsUp(t)
  BY DEF BuildRollup, TaskOk, GoalOk
<1>1. \A u \in Task : goal'[u].op # "imprecise_rollup_upto"
  <2>1. CASE UNCHANGED goal
    BY <2>1 DEF Meaning
  <2>2. CASE Returns(t) \/ ToRegister(t, top, Fresh)
    BY <2>2, GoalSetByStep
  <2> QED BY <2>1, <2>2 DEF BuildRollup
<1>2. CASE UNCHANGED disk
  BY <1>0, <1>1, <1>2, DiskUnchangedMeaning
<1>3. CASE /\ IsAbove(top, upto)
           /\ NewLayer(upto, RollupChange(t).adds, RollupChange(t).rems, contents[top], FALSE)
  <2> DEFINE c == contents[top]
             x == RollupChange(t).adds
             y == RollupChange(t).rems
  <2>1. x = c \ contents[upto] /\ y = contents[upto] \ c
    BY <1>0, <1>3, RollupChangeIsExact
  <2>2. c \in SUBSET Triple /\ upto \in visible /\ upto \in Name
    BY <1>0, HeldName DEF RollsUp, DiskShape, DiskTypes
  <2>3. NewLayer(upto, x, y, c, FALSE)
    BY <1>3
  <2> HIDE DEF x, y, c, top, upto
  <2>4. Grows /\ ExactOnDisk' /\ UNCHANGED workload
    BY <2>1, <2>2, <2>3, NamesAreNumbers, ExactNewLayer DEF Meaning
  <2> QED BY <1>0, <1>1, <2>4, MeaningSteps
<1> QED BY <1>2, <1>3 DEF BuildRollup

LEMMA RegisterMeaning ==
  ASSUME IInv, NEW t \in Task, Register(t)
  PROVE  Meaning'
<1>1. /\ UNCHANGED <<parent, adds, rems, visible, contents, workload>>
      /\ UNCHANGED cache /\ UNCHANGED held /\ UNCHANGED goal
  BY DEF Register
<1>2. Grows
  BY <1>1 DEF Grows, Used
<1>3. ExactOnDisk'
  BY <1>1, ExactDiskKept DEF IInv, Meaning
<1> QED BY <1>1, <1>2, <1>3, MeaningSteps DEF IInv, Meaning

LEMMA InvalidateMeaning ==
  ASSUME IInv, NEW t \in Task, Invalidate(t)
  PROVE  Meaning'
<1>1. UNCHANGED disk /\ UNCHANGED held
  BY DEF Invalidate
<1>2. \A n \in Name : cache'[n] = cache[n] \/ Exact(cache'[n], contents)
  BY ExactEmpty DEF Invalidate
<1>3. \A u \in Task : goal'[u].op # "imprecise_rollup_upto"
  BY ShapeParts DEF Invalidate, Returns, NoGoal, IInv, Meaning, MemoryTypes
<1> QED BY <1>1, <1>2, <1>3, DiskUnchangedMeaning

LEMMA ExpireMeaning ==
  ASSUME IInv, Expire
  PROVE  Meaning'
<1>1. UNCHANGED disk /\ UNCHANGED held /\ UNCHANGED goal
  BY DEF Expire
<1>2. \A n \in Name : cache'[n] = cache[n] \/ Exact(cache'[n], contents)
  BY ExactEmpty DEF Expire
<1> QED BY <1>1, <1>2, DiskUnchangedMeaning DEF IInv, Meaning

-----------------------------------------------------------------------------
(* What a walk loads.                                                      *)

(* A layer may be wrapped under the name of one with the same triples.     *)
LEMMA RenamedExact ==
  ASSUME NEW s \in Stack, s # << >>, NEW n \in Name, NEW c, Exact(s, c), c[n] = c[s[1].name]
  PROVE  Exact(Renamed(s, n), c)
<1> DEFINE q == Renamed(s, n)
<1>0. Len(s) \in Nat \ {0}
  BY EmptySeq DEF Stack
<1>1. /\ Len(q) = Len(s)
      /\ q[1] = [name |-> n, adds |-> s[1].adds, rems |-> s[1].rems]
      /\ \A i \in 2 .. Len(s) : q[i] = s[i]
  BY RenamedProperties
<1> HIDE DEF q
<1>2. \A i \in 1 .. Len(s) : i = 1 \/ i \in 2 .. Len(s)
  BY <1>0
<1>3. \A i \in 1 .. Len(s) : /\ c[q[i].name] = c[s[i].name]
                             /\ q[i].adds = s[i].adds /\ q[i].rems = s[i].rems
  BY <1>1, <1>2
<1>4. \A i \in 1 .. Len(s) : Below(q, i, c) = Below(s, i, c)
  <2> TAKE i \in 1 .. Len(s)
  <2>1. i # Len(s) => i + 1 \in 1 .. Len(s)
    BY <1>0
  <2> QED BY <1>1, <1>3, <2>1 DEF Below
<1>5. Exact(q, c)
  BY <1>1, <1>3, <1>4 DEF Exact
<1> QED BY <1>5 DEF q

(* The layer at some depth of an exact one is exact.                       *)
LEMMA SubStackExact ==
  ASSUME NEW s \in Stack, NEW i \in 1 .. Len(s), NEW c, Exact(s, c)
  PROVE  Exact(SubSeq(s, i, Len(s)), c)
<1> DEFINE q == SubSeq(s, i, Len(s))
           L == Len(s)
<1>0. L \in Nat /\ i \in 1 .. L
  BY LenProperties DEF Stack
<1>1. Len(q) = L - i + 1 /\ \A j \in 1 .. L - i + 1 : q[j] = s[i + j - 1]
  BY SubStack
<1>2. Exact(s, c) <=> \A j \in 1 .. L : /\ s[j].adds = c[s[j].name] \ Below(s, j, c)
                                        /\ s[j].rems = Below(s, j, c) \ c[s[j].name]
  BY DEF Exact
<1>3. \A j \in 1 .. L : Below(s, j, c) = IF j = L THEN {} ELSE c[s[j + 1].name]
  BY DEF Below
<1> HIDE DEF q, L
<1>4. ASSUME NEW j \in 1 .. Len(q)
      PROVE  /\ q[j].adds = c[q[j].name] \ Below(q, j, c)
             /\ q[j].rems = Below(q, j, c) \ c[q[j].name]
  <2>1. j \in 1 .. L - i + 1 /\ i + j - 1 \in 1 .. L /\ q[j] = s[i + j - 1]
    BY <1>0, <1>1
  <2>2. Below(q, j, c) = Below(s, i + j - 1, c)
    <3>1. CASE j = Len(q)
      <4>1. i + j - 1 = L
        BY <1>0, <1>1, <3>1
      <4> QED BY <1>3, <2>1, <3>1, <4>1 DEF Below
    <3>2. CASE j # Len(q)
      <4>1. i + j - 1 # L /\ j + 1 \in 1 .. L - i + 1 /\ i + (j + 1) - 1 = (i + j - 1) + 1
        BY <1>0, <1>1, <3>2
      <4>2. q[j + 1] = s[(i + j - 1) + 1]
        BY <1>1, <4>1
      <4> QED BY <1>3, <2>1, <3>2, <4>1, <4>2 DEF Below
    <3> QED BY <3>1, <3>2
  <2> QED BY <1>2, <2>1, <2>2
<1>5. Exact(q, c)
  BY <1>4 DEF Exact
<1> QED BY <1>5 DEF q, L

(* Directories loaded on top of an exact ancestor are exact.               *)
LEMMA LoadIsExact ==
  ASSUME IInv, NEW steps \in Seq(Step), NEW ancestor \in Stack, Loadable(steps, ancestor),
         Exact(ancestor, contents)
  PROVE  Exact(Load(steps, ancestor), contents)
<1> USE ShapeParts DEF IInv
<1> DEFINE s == Load(steps, ancestor)
           n == Len(steps)
           m == Len(ancestor)
<1>0. DiskTypes /\ n \in Nat /\ m \in Nat /\ (ancestor = << >> <=> m = 0)
  BY EmptySeq, LenProperties DEF DiskShape, Stack
<1>1. /\ Len(s) = n + m
      /\ \A i \in 1 .. n : s[i] = LoadedStep(steps[i])
      /\ \A i \in 1 .. m : s[n + i] = ancestor[i]
  BY <1>0, LoadProperties
<1>2. \A j \in 1 .. n : /\ StepOk(steps[j])
                        /\ parent[Directory(steps[j])] =
                             IF j < n THEN steps[j + 1].name
                             ELSE IF ancestor = << >> THEN None ELSE ancestor[1].name
  BY DEF Loadable
<1>3. \A j \in 1 .. m : /\ ancestor[j].adds = contents[ancestor[j].name] \ Below(ancestor, j, contents)
                        /\ ancestor[j].rems = Below(ancestor, j, contents) \ contents[ancestor[j].name]
                        /\ ancestor[j].name \in Used
  BY DEF Exact, Loadable, NamesUsed
<1>4. visible \subseteq Used /\ Used \subseteq Name
  BY DEF DiskShape, MadeInOrder, Used
<1>5. \A j \in 1 .. m : Below(ancestor, j, contents) = IF j = m THEN {} ELSE contents[ancestor[j + 1].name]
  BY DEF Below
<1>6. \A j : Below(s, j, contents) = IF j = n + m THEN {} ELSE contents[s[j + 1].name]
  BY <1>1 DEF Below
<1> HIDE DEF s, n, m
<1>7. ASSUME NEW i \in 1 .. n
      PROVE  /\ s[i].adds = contents[s[i].name] \ Below(s, i, contents)
             /\ s[i].rems = Below(s, i, contents) \ contents[s[i].name]
  <2> DEFINE d == Directory(steps[i])
  <2>1. /\ d \in Used /\ contents[d] = contents[steps[i].name]
        /\ s[i].name = steps[i].name /\ s[i].adds = adds[d] /\ s[i].rems = rems[d]
    <3>1. s[i] = LoadedStep(steps[i]) /\ StepOk(steps[i])
      BY <1>1, <1>2
    <3>2. s[i].name = steps[i].name /\ s[i].adds = adds[d] /\ s[i].rems = rems[d]
      BY <3>1 DEF LoadedStep
    <3>3. d \in Used /\ contents[d] = contents[steps[i].name]
      BY <1>4, <3>1 DEF Directory, StepOk, StandsFor
    <3> QED BY <3>2, <3>3
  <2>2. adds[d] = contents[d] \ Under(d) /\ rems[d] = Under(d) \ contents[d]
    BY <2>1 DEF Meaning, ExactOnDisk
  <2>3. Under(d) = Below(s, i, contents)
    <3>1. CASE i < n
      <4>1. parent[d] = steps[i + 1].name /\ i + 1 \in 1 .. n /\ i # n + m
        BY <1>0, <1>2, <3>1
      <4>2. s[i + 1].name = parent[d] /\ parent[d] \in Name
        <5>1. s[i + 1] = LoadedStep(steps[i + 1]) /\ StepOk(steps[i + 1])
          BY <1>1, <1>2, <4>1
        <5>2. s[i + 1].name = steps[i + 1].name
          BY <5>1 DEF LoadedStep
        <5> QED BY <1>4, <4>1, <5>1, <5>2 DEF StepOk
      <4> QED BY <1>6, <4>1, <4>2 DEF Under
    <3>2. CASE ~ (i < n) /\ m = 0
      <4>1. parent[d] = None /\ i = n + m
        BY <1>0, <1>2, <3>2
      <4> QED BY <1>6, <4>1, NamesAreNumbers DEF Under
    <3>3. CASE ~ (i < n) /\ m # 0
      <4>1. parent[d] = ancestor[1].name /\ i # n + m /\ i = n /\ 1 \in 1 .. m
        BY <1>0, <1>2, <3>3
      <4>2. s[i + 1] = ancestor[1] /\ parent[d] \in Name
        BY <1>1, <1>3, <1>4, <4>1
      <4> QED BY <1>6, <4>1, <4>2 DEF Under
    <3> QED BY <3>1, <3>2, <3>3
  <2> QED BY <2>1, <2>2, <2>3
<1>8. ASSUME NEW i \in 1 .. n + m, i \notin 1 .. n
      PROVE  /\ s[i].adds = contents[s[i].name] \ Below(s, i, contents)
             /\ s[i].rems = Below(s, i, contents) \ contents[s[i].name]
  <2> DEFINE j == i - n
  <2>1. j \in 1 .. m /\ i = n + j /\ (j = m <=> i = n + m)
    BY <1>0, <1>8
  <2>2. s[i] = ancestor[j]
    BY <1>1, <2>1
  <2>3. Below(s, i, contents) = Below(ancestor, j, contents)
    <3>1. CASE j = m
      BY <1>5, <1>6, <2>1, <3>1
    <3>2. CASE j # m
      <4>1. j + 1 \in 1 .. m /\ i + 1 = n + (j + 1)
        BY <1>0, <2>1, <3>2
      <4>2. s[i + 1] = ancestor[j + 1]
        BY <1>1, <4>1
      <4> QED BY <1>5, <1>6, <2>1, <3>2, <4>2
    <3> QED BY <3>1, <3>2
  <2> HIDE DEF j
  <2> QED BY <1>3, <2>1, <2>2, <2>3
<1>9. Exact(s, contents)
  BY <1>1, <1>7, <1>8 DEF Exact
<1> QED BY <1>9 DEF s

LEMMA EndWalkMeaning ==
  ASSUME IInv, NEW t \in Task, NEW steps \in Seq(Step), NEW ancestor \in Stack,
         EndWalk(t, steps, ancestor), Loadable(steps, ancestor),
         ancestor = << >> \/ FromCache(ancestor)
  PROVE  Meaning'
<1> USE ShapeParts DEF IInv
<1> DEFINE s == Load(steps, ancestor)
<1>0. DiskTypes /\ visible \subseteq Used /\ Used \subseteq Name
  BY DEF DiskShape, MadeInOrder, Used
<1>1. Exact(ancestor, contents)
  <2>1. CASE ancestor = << >>
    BY <2>1, ExactEmpty
  <2>2. CASE FromCache(ancestor)
    <3>1. PICK n \in Used, m \in Used : /\ cache[n] # << >> /\ contents[n] = contents[m]
                                        /\ ancestor = Renamed(cache[n], m)
      BY <2>2 DEF FromCache
    <3>2. cache[n] \in Stack /\ Exact(cache[n], contents) /\ cache[n][1].name = n /\ m \in Name
      BY <1>0, <3>1 DEF MemoryTypes, Meaning, CacheOk
    <3> QED BY <3>1, <3>2, RenamedExact
  <2> QED BY <2>1, <2>2
<1>2. Exact(s, contents)
  BY <1>1, LoadIsExact
<1>3. /\ s \in Stack /\ Len(s) = Len(steps) + Len(ancestor) /\ Len(steps) \in Nat /\ Len(ancestor) \in Nat
      /\ \A i \in 1 .. Len(steps) : s[i] = LoadedStep(steps[i])
  BY <1>0, LoadProperties, LenProperties DEF Stack
<1>4. CacheLoaded(steps, s) /\ UNCHANGED disk
  BY DEF EndWalk
<1>5. \A u \in Task : held'[u] = held[u] \/ Exact(held'[u], contents)
  <2>1. \A u \in Task : held'[u] = held[u] \/ held'[u] = s
    BY DEF EndWalk, MemoryTypes
  <2> QED BY <1>2, <2>1
<1>6. \A u \in Task : goal'[u].op # "imprecise_rollup_upto"
  <2>1. CASE Returns(t)
    BY <2>1, GoalSetByStep
  <2>2. CASE UNCHANGED goal
    BY <2>2 DEF Meaning
  <2> QED BY <2>1, <2>2 DEF EndWalk
<1> HIDE DEF s
<1>7. ASSUME NEW n \in Name, FromLoad(steps, s, cache'[n], n) PROVE Exact(cache'[n], contents)
  <2>1. PICK i \in 1 .. Len(steps) :
          n \in {steps[i].name, steps[i].rollup} /\ cache'[n] = Renamed(SubSeq(s, i, Len(s)), n)
    BY <1>7 DEF FromLoad
  <2> DEFINE q == SubSeq(s, i, Len(s))
  <2>2. i \in 1 .. Len(s)
    BY <1>3
  <2>3. /\ q \in Stack /\ q # << >> /\ Exact(q, contents)
        /\ \A j \in 1 .. Len(s) - i + 1 : q[j] = s[i + j - 1]
    BY <1>2, <1>3, <2>2, SubStack, SubStackExact
  <2>4. q[1].name = steps[i].name
    <3>1. 1 \in 1 .. Len(s) - i + 1 /\ i + 1 - 1 = i
      BY <1>3, <2>2
    <3>2. q[1] = s[i]
      BY <2>3, <3>1
    <3>3. q[1] = LoadedStep(steps[i])
      BY <1>3, <3>2
    <3> QED BY <3>3 DEF LoadedStep
  <2>5. contents[n] = contents[steps[i].name]
    <3>1. StepOk(steps[i])
      BY DEF Loadable
    <3> QED BY <2>1, <3>1, NamesAreNumbers DEF StepOk, StandsFor
  <2> HIDE DEF q
  <2>6. Exact(Renamed(q, n), contents)
    BY <2>3, <2>4, <2>5, RenamedExact
  <2> QED BY <2>1, <2>6 DEF q
<1>8. \A n \in Name : cache'[n] = cache[n] \/ Exact(cache'[n], contents)
  BY <1>4, <1>7, CacheFromLoad
<1> QED BY <1>4, <1>5, <1>6, <1>8, DiskUnchangedMeaning

LEMMA WalkMeaning ==
  ASSUME IInv, NEW t \in Task, Walk(t)
  PROVE  Meaning'
<1>1. CASE WalkEnds(t)
  BY <1>1, EndWalkMeaning DEF WalkEnds
<1>2. CASE WalkGoesOn(t)
  <2>1. PICK n \in Name : cache' = [cache EXCEPT ![n] = << >>] /\ UNCHANGED <<disk, pc, held, goal>>
    BY <1>2 DEF WalkGoesOn
  <2>2. \A m \in Name : cache'[m] = cache[m] \/ Exact(cache'[m], contents)
    BY <2>1, ShapeParts, ExactEmpty DEF IInv, MemoryTypes
  <2> QED BY <2>1, <2>2, DiskUnchangedMeaning DEF IInv, Meaning
<1> QED BY <1>1, <1>2, WalkRounds DEF IInv

-----------------------------------------------------------------------------
(* The meaning is an invariant.                                            *)

LEMMA InitMeaning == Init /\ OnlyPrecise => IInv
<1> SUFFICES ASSUME Init, OnlyPrecise PROVE IInv
  OBVIOUS
<1>1. Used = {}
  BY DEF Init, Used
<1>2. ExactOnDisk
  BY <1>1 DEF ExactOnDisk
<1>3. \A t \in Task : goal[t].op # "imprecise_rollup_upto"
  BY DEF Init, NoGoal
<1>4. Meaning
  BY <1>2, <1>3, ExactEmpty DEF Init, Meaning
<1> QED BY <1>4, InitShape DEF IInv

LEMMA NextMeaning == IInv /\ [Next]_vars => IInv'
<1> SUFFICES ASSUME IInv, [Next]_vars PROVE IInv'
  OBVIOUS
<1>1. Shape'
  BY NextShape DEF IInv
<1>2. CASE Next
  <2>1. ASSUME NEW t \in Task, Proceed(t) PROVE Meaning'
    BY <2>1, WalkMeaning, BuildRollupMeaning, RegisterMeaning, InvalidateMeaning DEF Proceed
  <2>2. Meaning'
    BY <1>2, <2>1, CommitMeaning, GetLayerMeaning, RollupMeaning, RollupUptoMeaning, SquashMeaning,
       SquashUptoMeaning, ExpireMeaning DEF Next
  <2> QED BY <1>1, <2>2 DEF IInv
<1>3. CASE UNCHANGED vars
  <2>1. Meaning'
    BY <1>3, DiskUnchangedMeaning DEF vars, disk, IInv, Meaning
  <2> QED BY <1>1, <2>1 DEF IInv
<1> QED BY <1>2, <1>3

LEMMA MeaningInvariant == Spec /\ OnlyPrecise => []IInv
<1> QED BY InitMeaning, NextMeaning, PTL DEF Spec

(* Layers do not change: when no caller uses imprecise_rollup_upto, every  *)
(* layer in hand or in the cache has exactly the triples it was committed  *)
(* or squashed with, whatever rollups were made, registered and loaded in  *)
(* its place, cached, invalidated or expired, and in whatever order.       *)
THEOREM LayersLoadAsCommitted == Spec /\ OnlyPrecise => []LoadedIsOriginal
<1>1. IInv => LoadedIsOriginal
  <2> SUFFICES ASSUME IInv PROVE LoadedIsOriginal
    OBVIOUS
  <2>1. /\ contents \in [Name -> SUBSET Triple]
        /\ \A t \in Task : held[t] \in Stack /\ Exact(held[t], contents)
        /\ \A n \in Name : /\ cache[n] \in Stack /\ Exact(cache[n], contents)
                           /\ cache[n] # << >> => cache[n][1].name = n
    BY ShapeParts DEF IInv, DiskShape, DiskTypes, MemoryTypes, Meaning, CacheOk
  <2> QED BY <2>1, AnswersAreContents DEF LoadedIsOriginal
<1> QED BY <1>1, MeaningInvariant, PTL

-----------------------------------------------------------------------------
(* What the files give.                                                    *)

StoredIsContents == \A n \in Used : Stored[n] = contents[n]

(* Read through whichever rollup files there are, the files of a layer     *)
(* give the triples it was made with.                                      *)
LEMMA FilesGiveContents == IInv => StoredIsContents
<1> SUFFICES ASSUME IInv PROVE StoredIsContents
  OBVIOUS
<1> USE ShapeParts DEF IInv
<1> DEFINE D(n) == IF rollup[n] = None THEN n ELSE rollup[n]
           F == CHOOSE F : F = [n \in Name |->
                  adds[D(n)] \cup ((IF parent[D(n)] \in Name THEN F[parent[D(n)]] ELSE {}) \ rems[D(n)])]
           below == [n \in Name |-> parent[D(n)]]
           base == [n \in Name |-> adds[D(n)]]
           step == [q \in Name \X SUBSET Triple |-> adds[D(q[1])] \cup (q[2] \ rems[D(q[1])])]
<1>0. DiskTypes /\ MadeInOrder /\ visible \subseteq Used /\ Used \subseteq Name /\ Chains
  BY AncestorsOnDisk DEF DiskShape, MadeInOrder, Used
<1>1. \A n \in Name : D(n) \in Name /\ adds[D(n)] \in SUBSET Triple /\ rems[D(n)] \in SUBSET Triple
  BY <1>0 DEF DiskTypes
<1>2. ASSUME NEW n \in Name, parent[D(n)] \in Name PROVE parent[D(n)] < n
  <2>1. CASE rollup[n] = None
    BY <1>0, <1>2, <2>1 DEF Chains, Descends
  <2>2. CASE rollup[n] # None
    <3>1. parent[D(n)] \in Ancestors[n] /\ parent[D(n)] # n
      BY <1>2, <2>2, NamesAreNumbers DEF DiskShape, RollupsStandFor, StandsFor
    <3>2. parent[D(n)] <= n
      BY <1>0, <3>1, UpProperties DEF Chains
    <3>3. parent[D(n)] \in Nat /\ n \in Nat
      BY <1>2, NamesAreNumbers
    <3> QED BY <3>1, <3>2, <3>3
  <2> QED BY <2>1, <2>2
<1>3. ASSUME NEW n \in Used PROVE D(n) \in Used /\ contents[D(n)] = contents[n]
  BY <1>0 DEF DiskShape, RollupsStandFor, StandsFor
<1> HIDE DEF D
<1>4. PICK f \in [Name -> SUBSET Triple] : IsRecursive(f, Name, below, base, step)
  <2>1. Descends(below, Name)
    BY <1>2 DEF Descends
  <2>2. base \in [Name -> SUBSET Triple] /\ step \in [Name \X SUBSET Triple -> SUBSET Triple]
    BY <1>1
  <2> HIDE DEF below, base, step
  <2> QED BY <2>1, <2>2, NamesAreNumbers, RecursionExists
<1>5. f = [n \in Name |-> adds[D(n)] \cup ((IF parent[D(n)] \in Name THEN f[parent[D(n)]] ELSE {}) \ rems[D(n)])]
  <2> SUFFICES ASSUME NEW n \in Name
               PROVE  f[n] = adds[D(n)] \cup ((IF parent[D(n)] \in Name THEN f[parent[D(n)]] ELSE {}) \ rems[D(n)])
    OBVIOUS
  <2>1. f[n] = IF below[n] \in Name THEN step[<<n, f[below[n]]>>] ELSE base[n]
    BY <1>4 DEF IsRecursive
  <2>2. below[n] = parent[D(n)]
    OBVIOUS
  <2>3. CASE parent[D(n)] \in Name
    <3>1. f[n] = step[<<n, f[parent[D(n)]]>>] /\ f[parent[D(n)]] \in SUBSET Triple
      BY <1>4, <2>1, <2>2, <2>3
    <3>2. <<n, f[parent[D(n)]]>> \in Name \X SUBSET Triple
      BY <3>1
    <3>3. f[n] = adds[D(n)] \cup (f[parent[D(n)]] \ rems[D(n)])
      BY <3>1, <3>2
    <3> QED BY <2>3, <3>3
  <2>4. CASE parent[D(n)] \notin Name
    <3>1. f[n] = adds[D(n)]
      BY <2>1, <2>2, <2>4
    <3> QED BY <2>4, <3>1
  <2> QED BY <2>3, <2>4
<1>6. F = [n \in Name |-> adds[D(n)] \cup ((IF parent[D(n)] \in Name THEN F[parent[D(n)]] ELSE {}) \ rems[D(n)])]
  BY <1>5
<1>7. Stored = F
  BY DEF Stored, D
<1> HIDE DEF F
<1>8. \A n \in Name : F[n] = adds[D(n)] \cup ((IF parent[D(n)] \in Name THEN F[parent[D(n)]] ELSE {}) \ rems[D(n)])
  BY <1>6
<1> DEFINE Bad == {n \in Used : F[n] # contents[n]}
<1>9. ASSUME Bad # {} PROVE FALSE
  <2>1. PICK n \in Bad : \A m \in Bad : n =< m
    <3>1. Bad \in SUBSET Nat
      BY <1>0, NamesAreNumbers
    <3> HIDE DEF Bad
    <3> QED BY <1>9, <3>1, LeastElement
  <2> DEFINE d == D(n)
  <2>2. n \in Used /\ n \in Name /\ d \in Used /\ contents[d] = contents[n]
    BY <1>0, <1>3, <2>1
  <2>3. adds[d] = contents[d] \ Under(d) /\ rems[d] = Under(d) \ contents[d]
    BY <2>2 DEF Meaning, ExactOnDisk
  <2>4. (IF parent[d] \in Name THEN F[parent[d]] ELSE {}) = Under(d)
    <3>1. CASE parent[d] \in Name
      <4>1. parent[d] < n /\ parent[d] \in Nat /\ n \in Nat
        BY <1>2, <2>2, <3>1, NamesAreNumbers
      <4>2. parent[d] \in Used
        BY <1>0, <2>2, <3>1, NamesAreNumbers DEF MadeInOrder
      <4>3. F[parent[d]] = contents[parent[d]]
        BY <2>1, <4>1, <4>2
      <4> QED BY <3>1, <4>3 DEF Under
    <3>2. CASE parent[d] \notin Name
      BY <3>2 DEF Under
    <3> QED BY <3>1, <3>2
  <2>5. F[n] = adds[d] \cup (Under(d) \ rems[d])
    BY <1>8, <2>2, <2>4
  <2>6. F[n] = contents[n]
    BY <2>2, <2>3, <2>5
  <2> QED BY <2>1, <2>6
<1> QED BY <1>7, <1>9 DEF StoredIsContents

-----------------------------------------------------------------------------
(* The store of immutable layers.                                          *)

Layers == [n \in visible |-> Stored[n]]
Given == [t \in Task |-> [name |-> IF held[t] = << >> THEN None ELSE held[t][1].name,
                          triples |-> Triples(held[t])]]

(* What the callers see of a state.                                        *)
Seen ==
  /\ Layers = [n \in visible |-> contents[n]]
  /\ \A n \in visible : contents[n] \in SUBSET Triple
  /\ visible \subseteq Used /\ Used \subseteq Name

LEMMA SeenContents == IInv => Seen
<1> SUFFICES ASSUME IInv PROVE Seen
  OBVIOUS
<1>1. StoredIsContents
  BY FilesGiveContents
<1>2. visible \subseteq Used /\ Used \subseteq Name /\ contents \in [Name -> SUBSET Triple]
  BY ShapeParts DEF IInv, DiskShape, DiskTypes, MadeInOrder, Used
<1> QED BY <1>1, <1>2 DEF Seen, Layers, StoredIsContents

(* A directory is made for callers to see.                                 *)
LEMMA LayerMade ==
  ASSUME IInv, Seen, Seen', Grows, UNCHANGED held, NEW n \in Name \ Used, visible' = visible \cup {n}
  PROVE  Promised!Next
<1>1. Layers = [m \in visible |-> contents[m]] /\ Layers' = [m \in visible' |-> contents'[m]]
  BY DEF Seen
<1>2. \A m \in visible : Layers'[m] = Layers[m]
  BY <1>1 DEF Seen, Grows
<1>3. Layers'[n] \subseteq Triple /\ n \notin visible
  BY <1>1 DEF Seen
<1>4. DOMAIN Layers = visible /\ DOMAIN Layers' = visible'
  BY <1>1
<1>5. Given' = Given
  BY DEF Given
<1> HIDE DEF Layers, Given
<1>6. /\ n \notin DOMAIN Layers
      /\ DOMAIN Layers' = DOMAIN Layers \cup {n}
      /\ Layers'[n] \subseteq Triple
      /\ \A m \in DOMAIN Layers : Layers'[m] = Layers[m]
      /\ Given' = Given
  BY <1>2, <1>3, <1>4, <1>5
<1>7. Promised!Make(n)
  BY <1>6 DEF Promised!Make, Layers, Given
<1> QED BY <1>7 DEF Promised!Next

(* Callers see nothing of a step that makes no layer for them and puts     *)
(* none in anyone's hand.                                                  *)
LEMMA NothingSeen ==
  ASSUME Seen, Seen', Grows, UNCHANGED held, visible' = visible
  PROVE  UNCHANGED Promised!vars
<1>1. Layers' = Layers
  BY DEF Seen, Grows
<1>2. Given' = Given
  BY DEF Given
<1> QED BY <1>1, <1>2 DEF Promised!vars, Layers, Given

(* A walk that ends puts the layer that was asked for in the hand of the   *)
(* task.                                                                   *)
LEMMA LayerGiven ==
  ASSUME IInv, Seen, Seen', Grows, visible' = visible, NEW t \in Task, NEW s \in Stack, s # << >>,
         held' = [held EXCEPT ![t] = s], s[1].name \in visible,
         Triples(s) = contents[s[1].name]
  PROVE  Promised!Next
<1> DEFINE n == s[1].name
<1>1. Layers' = Layers /\ Layers = [m \in visible |-> contents[m]]
  BY DEF Seen, Grows
<1>2. held'[t] = s /\ \A u \in Task \ {t} : held'[u] = held[u]
  BY ShapeParts DEF IInv, MemoryTypes
<1> DEFINE g == [name |-> n, triples |-> contents[n]]
<1>3. Given' = [Given EXCEPT ![t] = g]
  BY <1>2 DEF Given
<1>4. Given'[t] = g
  BY <1>3 DEF Given
<1>5. DOMAIN Layers = visible /\ n \in visible /\ Layers[n] = contents[n]
  BY <1>1
<1>6. /\ Given'[t].name = n
      /\ Given'[t].triples = Layers[n]
      /\ Given' = [Given EXCEPT ![t] = Given'[t]]
      /\ Layers' = Layers
  <2>1. g.name = n /\ g.triples = Layers[n]
    BY <1>5
  <2> HIDE DEF g, n
  <2> QED BY <1>1, <1>3, <1>4, <2>1
<1> HIDE DEF n
<1>7. Promised!Get(t, n)
  BY <1>6 DEF Promised!Get, Layers, Given
<1>8. n \in DOMAIN Layers
  BY <1>5
<1> QED BY <1>7, <1>8 DEF Promised!Next, Layers

LEMMA InitSeen == Init => Promised!Init
<1> SUFFICES ASSUME Init PROVE Promised!Init
  OBVIOUS
<1>1. \A t \in Task : held[t] = << >>
  BY DEF Init
<1>2. Triples(<< >>) = {}
  BY EmptySeq DEF Triples, TripleExists
<1>3. Given = [t \in Task |-> [name |-> None, triples |-> {}]]
  BY <1>1, <1>2 DEF Given
<1>4. Layers = [n \in {} |-> {}]
  BY DEF Init, Layers
<1> QED BY <1>3, <1>4 DEF Promised!Init, Promised!Nothing, Layers, Given

LEMMA NextSeen ==
  ASSUME IInv, IInv', [Next]_vars
  PROVE  [Promised!Next]_(Promised!vars)
<1> USE ShapeParts
<1>0. Seen /\ Seen'
  BY SeenContents, PTL
<1>1. ASSUME NEW p \in visible \cup {None}, NEW a \in SUBSET Triple, NEW r \in SUBSET Triple,
             NEW c \in SUBSET Triple, NewLayer(p, a, r, c, TRUE), UNCHANGED held
      PROVE  Promised!Next
  <2>1. Grows /\ Fresh \in Name \ Used /\ visible' = visible \cup {Fresh}
    BY <1>1, DiskNewLayer DEF IInv
  <2> HIDE DEF Fresh
  <2> QED BY <1>0, <1>1, <2>1, LayerMade
<1>2. ASSUME NEW p \in visible \cup {None}, NEW a \in SUBSET Triple, NEW r \in SUBSET Triple,
             NEW c \in SUBSET Triple, NewLayer(p, a, r, c, FALSE), UNCHANGED held
      PROVE  UNCHANGED Promised!vars
  <2>1. Grows /\ visible' = visible
    BY <1>2, DiskNewLayer DEF IInv
  <2> QED BY <1>0, <1>2, <2>1, NothingSeen
<1>3. ASSUME UNCHANGED disk, UNCHANGED held
      PROVE  UNCHANGED Promised!vars
  <2>1. Grows /\ visible' = visible
    BY <1>3, DiskUnchanged DEF IInv, disk
  <2> QED BY <1>0, <1>3, <2>1, NothingSeen
<1>4. \A t \in Task : held[t] # << >> => /\ held[t][1].name \in visible
                                         /\ contents[held[t][1].name] \in SUBSET Triple
  BY HeldName DEF IInv, DiskShape, DiskTypes
<1>5. \A t \in Task : Triples(held[t]) \in SUBSET Triple
  BY DEF Triples
<1>6. ASSUME NEW t \in Task, NEW a \in SUBSET Triple, NEW r \in SUBSET Triple, Commit(t, a, r)
      PROVE  Promised!Next
  <2>0. UNCHANGED held
    BY <1>6 DEF Commit
  <2>1. CASE held[t] # << >>
    <3> DEFINE top == held[t][1].name
               c == (contents[top] \cup (a \ r)) \ (r \ a)
               x == (a \ r) \ Triples(held[t])
               y == (r \ a) \cap Triples(held[t])
    <3>1. NewLayer(top, x, y, c, TRUE) /\ top \in visible
      BY <1>4, <1>6, <2>1 DEF Commit
    <3>2. x \in SUBSET Triple /\ y \in SUBSET Triple /\ c \in SUBSET Triple
      BY <1>4, <2>1
    <3> HIDE DEF top, c, x, y
    <3> QED BY <1>1, <2>0, <3>1, <3>2
  <2>2. CASE held[t] = << >>
    <3> DEFINE c == a \ r
    <3>1. NewLayer(None, c, {}, c, TRUE) /\ c \in SUBSET Triple /\ {} \in SUBSET Triple
      BY <1>6, <2>2 DEF Commit
    <3> HIDE DEF c
    <3> QED BY <1>1, <2>0, <3>1
  <2> QED BY <2>1, <2>2
<1>7. ASSUME NEW t \in Task, Squash(t) PROVE Promised!Next
  <2> DEFINE c == contents[held[t][1].name]
             x == Triples(held[t])
  <2>1. NewLayer(None, x, {}, c, TRUE) /\ UNCHANGED held /\ c \in SUBSET Triple /\ {} \in SUBSET Triple
    BY <1>4, <1>7 DEF Squash
  <2>2. x \in SUBSET Triple
    BY <1>5
  <2> HIDE DEF c, x
  <2> QED BY <1>1, <2>1, <2>2
<1>8. ASSUME NEW t \in Task, NEW upto \in visible, SquashUpto(t, upto) PROVE Promised!Next
  <2> DEFINE c == contents[held[t][1].name]
             x == NetAdditions(StackNamesUpto(held[t][1].name, upto), << >>)
             y == NetRemovals(StackNamesUpto(held[t][1].name, upto), << >>)
  <2>1. NewLayer(upto, x, y, c, TRUE) /\ UNCHANGED held /\ c \in SUBSET Triple
    BY <1>4, <1>8 DEF SquashUpto
  <2>2. x \in SUBSET Triple /\ y \in SUBSET Triple
    BY DEF NetAdditions, NetRemovals
  <2> HIDE DEF c, x, y
  <2> QED BY <1>1, <2>1, <2>2
<1>9. ASSUME NEW t \in Task, Rollup(t) PROVE UNCHANGED Promised!vars
  <2> DEFINE c == contents[held[t][1].name]
             x == Triples(held[t])
  <2>1. /\ UNCHANGED held /\ c \in SUBSET Triple /\ {} \in SUBSET Triple
        /\ UNCHANGED disk \/ NewLayer(None, x, {}, c, FALSE)
    BY <1>4, <1>9 DEF Rollup
  <2>2. x \in SUBSET Triple
    BY <1>5
  <2> HIDE DEF c, x
  <2> QED BY <1>2, <1>3, <2>1, <2>2
<1>10. ASSUME NEW t \in Task, BuildRollup(t) PROVE UNCHANGED Promised!vars
  <2> DEFINE c == contents[held[t][1].name]
             x == RollupChange(t).adds
             y == RollupChange(t).rems
             u == goal[t].upto
  <2>0. RollsUp(t)
    BY <1>10 DEF BuildRollup, IInv, TaskOk, GoalOk
  <2>1. /\ UNCHANGED held /\ c \in SUBSET Triple /\ u \in visible
        /\ UNCHANGED disk \/ NewLayer(u, x, y, c, FALSE)
    BY <1>4, <1>10, <2>0 DEF BuildRollup, RollsUp
  <2>2. x \in SUBSET Triple /\ y \in SUBSET Triple
    BY DEF RollupChange, NetAdditions, NetRemovals
  <2> HIDE DEF c, x, y, u
  <2> QED BY <1>2, <1>3, <2>1, <2>2
<1>11. ASSUME NEW t \in Task, Register(t) PROVE UNCHANGED Promised!vars
  <2>1. UNCHANGED <<parent, visible, contents>> /\ UNCHANGED held
    BY <1>11 DEF Register
  <2>2. Grows
    BY <2>1 DEF Grows, Used
  <2> QED BY <1>0, <2>1, <2>2, NothingSeen
<1>12. ASSUME NEW t \in Task, Walk(t) PROVE Promised!Next \/ UNCHANGED Promised!vars
  <2>1. CASE WalkGoesOn(t)
    BY <1>3, <2>1 DEF WalkGoesOn
  <2>2. CASE WalkEnds(t)
    <3>1. PICK steps \in Seq(Step), ancestor \in Stack :
            EndWalk(t, steps, ancestor) /\ Loadable(steps, ancestor)
      BY <2>2 DEF WalkEnds
    <3> DEFINE s == Load(steps, ancestor)
    <3>2. UNCHANGED disk /\ (UNCHANGED held \/ held' = [held EXCEPT ![t] = s])
      BY <3>1 DEF EndWalk
    <3>3. s \in Stack /\ s # << >> /\ s[1].name \in visible
      BY <3>1, LoadProperties, LoadNames DEF IInv, DiskShape
    <3> HIDE DEF s
    <3>4. CASE UNCHANGED held
      BY <1>3, <3>2, <3>4
    <3>5. CASE held' = [held EXCEPT ![t] = s]
      <4>1. Grows /\ visible' = visible /\ contents' = contents
        BY <3>2, DiskUnchanged DEF IInv, disk
      <4>2. held'[t] = s
        BY <3>5 DEF IInv, MemoryTypes
      <4>3. Exact(held'[t], contents')
        BY DEF IInv, Meaning
      <4>4. Exact(s, contents) /\ contents \in [Name -> SUBSET Triple]
        BY <4>1, <4>2, <4>3 DEF IInv, DiskShape, DiskTypes
      <4>5. Triples(s) = contents[s[1].name]
        BY <3>3, <4>4, AnswersAreContents
      <4> QED BY <1>0, <3>3, <3>5, <4>1, <4>5, LayerGiven
    <3> QED BY <3>2, <3>4, <3>5
  <2> QED BY <1>12, <2>1, <2>2, WalkRounds DEF IInv
<1>13. ASSUME NEW t \in Task, Proceed(t) PROVE Promised!Next \/ UNCHANGED Promised!vars
  BY <1>3, <1>10, <1>11, <1>12, <1>13 DEF Proceed, Invalidate
<1>14. CASE Next
  <2>1. ASSUME NEW t \in Task, NEW n \in visible, GetLayer(t, n) PROVE UNCHANGED Promised!vars
    BY <1>3, <2>1 DEF GetLayer
  <2>2. ASSUME NEW t \in Task, NEW op \in AllOps, NEW upto \in visible, RollupUpto(t, op, upto)
        PROVE  UNCHANGED Promised!vars
    BY <1>3, <2>2 DEF RollupUpto
  <2>3. ASSUME Expire PROVE UNCHANGED Promised!vars
    BY <1>3, <2>3 DEF Expire
  <2> QED BY <1>6, <1>7, <1>8, <1>9, <1>13, <1>14, <2>1, <2>2, <2>3 DEF Next
<1>15. CASE UNCHANGED vars
  BY <1>3, <1>15 DEF vars, disk
<1> QED BY <1>14, <1>15

(* When no caller uses imprecise_rollup_upto, the files, the rollups and   *)
(* the cache implement the store of immutable layers LayerStore: what the  *)
(* files of a layer give never changes, whatever rollup files appear, and  *)
(* a load gives a layer under its name with the triples its files give.    *)
THEOREM StoreOfImmutableLayers == Spec /\ OnlyPrecise => ImplementsLayerStore
<1>1. IInv /\ IInv' /\ [Next]_vars => [Promised!Next]_(Promised!vars)
  BY NextSeen
<1> QED BY <1>1, InitSeen, MeaningInvariant, PTL DEF Spec, ImplementsLayerStore, Promised!Spec
==============================================================================
