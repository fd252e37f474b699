---------------------- MODULE ArchiveLayerStore_proofs ----------------------
(***************************************************************************)
(* What holds of the archive layer store for any number of callers, layers *)
(* and mishaps.                                                            *)
(*                                                                         *)
(* A layer is in the construction map only while it has no archive.  That  *)
(* is not checked in one place: create_named_directory looks at the disk,  *)
(* and then, after a point where it can be overtaken, at the map, and      *)
(* finalize empties the map before it writes the archive.  It holds as     *)
(* long as writers of one store are about different layers: new layers     *)
(* have new names, and ~Rivals leaves out two imports of one layer at the  *)
(* same time.  It is what keeps a complete archive from being written      *)
(* again.                                                                  *)
(*                                                                         *)
(* The last part is about the form of an archive file, and independent of  *)
(* the rest: what is read from it is what was put into it.                 *)
(***************************************************************************)
EXTENDS ArchiveLayerStore, InductionLemmas, FiniteSetTheorems, SequenceTheorems, TLAPS
LOCAL INSTANCE SequencesExt

-----------------------------------------------------------------------------
(* The form of a call.                                                     *)
WriterFields ==
  {"op", "store", "pc", "dirs", "ids", "work", "held", "left", "at", "image", "off"}

WriterOk(j) ==
  /\ WriterFields \subseteq DOMAIN j
  /\ j.pc \in {"exists", "claim", "work", "insert", "open", "chunk"}
  /\ j.ids \subseteq Layer /\ j.left \subseteq j.ids
  /\ j.pc \in {"exists", "claim"} =>
       j.dirs \in Seq(Layer) /\ j.dirs # << >> /\ \A i \in 1..Len(j.dirs) : j.dirs[i] \in j.ids
  /\ j.pc \in {"open", "chunk"} => j.at \in j.left

ReaderOk(j) ==
  /\ {"part", "child", "work", "held", "seen"} \subseteq DOMAIN j
  /\ j.pc \in {"parent", "work", "insert", "done"}

ExporterOk(j) == {"dirs", "tar"} \subseteq DOMAIN j /\ j.pc \in {"tar", "failed"}

SetRollupCall ==
  [op : {"set_rollup"}, store : {"origin"}, pc : {"lock", "create", "write"},
   at : Layer, lines : {"1"} \X RollupName]

SetterOk(j) == j.at \in Layer /\ j.pc \in {"lock", "create", "write"} /\ j \in SetRollupCall

GetterOk(j) ==
  "seen" \in DOMAIN j /\ j.at \in Layer /\ j.pc \in {"lock", "read", "done", "failed"}

JobOk(j) ==
  /\ {"op", "store", "pc", "at"} \subseteq DOMAIN j /\ j.store \in Store
  /\ \/ j.op = "write" /\ WriterOk(j)
     \/ j.op = "read" /\ ReaderOk(j)
     \/ j.op = "parent_name" /\ j.pc = "done"
     \/ j.op = "export" /\ ExporterOk(j)
     \/ j.op = "set_rollup" /\ SetterOk(j)
     \/ j.op = "get_rollup" /\ GetterOk(j)

Typed ==
  /\ DOMAIN job = Task /\ \A t \in Task : job[t] # Idle => JobOk(job[t])
  /\ DOMAIN construction = Store /\ \A s \in Store : DOMAIN construction[s] = Layer
  /\ DOMAIN archive = Store /\ \A s \in Store : DOMAIN archive[s] = Layer
  /\ DOMAIN acked = Store /\ \A s \in Store : acked[s] \subseteq Layer
  /\ DOMAIN rollup = Layer

-----------------------------------------------------------------------------
(* What each action does with the call of its task.                        *)
ByTask(t) ==
  \/ \E l \in Layer : StartBuild(t, l) \/ StartGetRollup(t, l)
  \/ \E dirs \in Requests : StartImport(t, dirs) \/ StartExport(t, dirs)
  \/ \E s \in Store, l \in Layer :
       ReadParentName(t, s, l) \/ \E part \in Asked : StartRead(t, s, l, part)
  \/ \E l \in Layer, r \in RollupName : write_rollup_file(t, l, r)
  \/ create_named_directory(t) \/ Claim(t) \/ PoisonedLock(t) \/ get_file(t) \/ InsertFile(t)
  \/ write_file(t) \/ DropBuilder(t) \/ finalize(t)
  \/ StoreOpen(t) \/ store_layer_file(t) \/ Stored(t)
  \/ AskParent(t) \/ MapFiles(t) \/ Return(t)
  \/ export_layers(t) \/ ExportDone(t)
  \/ LockExclusive(t) \/ set_rollup(t) \/ LockShared(t) \/ get_rollup(t)

LEMMA NextIsByTask == Next <=> Crash \/ \E t \in Task : ByTask(t)
BY DEF Next, ByTask

JobOk1(j) == j # Idle => JobOk(j)

(* A step of a task that changes fields of its call.                       *)
Moves(t) == DOMAIN job' = Task /\ \A u \in Task : u # t => job'[u] = job[u]

LEMMA ToSetOf ==
  ASSUME NEW q \in Seq(Layer)
  PROVE  /\ ToSet(q) \subseteq Layer
         /\ \A i \in 1..Len(q) : q[i] \in ToSet(q)
BY DEF ToSet

LEMMA NewWriter ==
  ASSUME NEW s \in Store, NEW dirs \in Seq(Layer), dirs # << >>, NEW work
  PROVE  /\ JobOk(Writer(s, dirs, work))
         /\ Writer(s, dirs, work).op = "write"
         /\ Writer(s, dirs, work).store = s
         /\ Writer(s, dirs, work).pc = "exists"
         /\ Writer(s, dirs, work).ids = ToSet(dirs)
         /\ Writer(s, dirs, work).left = ToSet(dirs)
<1>. DEFINE j == Writer(s, dirs, work)
<1>1. /\ DOMAIN j = WriterFields
      /\ j.op = "write" /\ j.store = s /\ j.pc = "exists" /\ j.dirs = dirs
      /\ j.ids = ToSet(dirs) /\ j.left = ToSet(dirs)
  BY DEF Writer, WriterFields
<1>2. {"op", "store", "pc", "at"} \subseteq WriterFields
  BY DEF WriterFields
<1>. HIDE DEF j
<1>3. WriterOk(j)
  BY <1>1, ToSetOf DEF WriterOk
<1>4. JobOk(j)
  BY <1>1, <1>2, <1>3 DEF JobOk
<1>. QED BY <1>1, <1>4 DEF j

-----------------------------------------------------------------------------
(* A call that goes on writing, but neither claims a directory nor stores  *)
(* an archive.                                                             *)
GoesOn(j, k) ==
  k # Idle /\ k.op = "write" =>
    /\ j # Idle /\ j.op = "write" /\ k.store = j.store /\ k.ids = j.ids /\ k.left = j.left
    /\ k.pc \in {"exists", "work", "insert"}

(* A call that holds no lock of a rollup file.                             *)
Unlocked(k) ==
  k # Idle => /\ ~(k.op = "set_rollup" /\ k.pc \in {"create", "write"})
              /\ ~(k.op = "get_rollup" /\ k.pc = "read")

(* A step that leaves the disk alone and opens no directory.               *)
Quiet(t) ==
  /\ Moves(t) /\ JobOk1(job'[t]) /\ GoesOn(job[t], job'[t])
  /\ archive' = archive /\ acked' = acked
  /\ DOMAIN construction' = Store /\ \A s \in Store : DOMAIN construction'[s] = Layer
  /\ \A s \in Store, l \in Layer : construction[s][l] = NoDir => construction'[s][l] = NoDir

LEMMA QuietUpdate ==
  ASSUME Typed, NEW t \in Task, NEW k, job' = [job EXCEPT ![t] = k],
         JobOk1(k), GoesOn(job[t], k),
         construction' = construction, archive' = archive, acked' = acked
  PROVE  Quiet(t) /\ job'[t] = k
<1>1. Moves(t) /\ job'[t] = k
  BY DEF Typed, Moves
<1>. QED BY <1>1 DEF Quiet, Typed

LEMMA IdleUpdate ==
  ASSUME Typed, NEW t \in Task, End(t),
         construction' = construction, archive' = archive, acked' = acked
  PROVE  Quiet(t) /\ job'[t] = Idle
BY QuietUpdate DEF End, JobOk1, GoesOn

LEMMA GetRollupStarts ==
  ASSUME Typed, NEW t \in Task, NEW l \in Layer, StartGetRollup(t, l)
  PROVE  Quiet(t) /\ Unlocked(job'[t])
<1>. DEFINE k == [op |-> "get_rollup", store |-> "origin", pc |-> "lock", at |-> l, seen |-> None]
<1>1. JobOk1(k) /\ GoesOn(job[t], k) /\ Unlocked(k)
  BY DEF JobOk1, JobOk, GetterOk, GoesOn, Unlocked, Store
<1>. QED BY <1>1, QuietUpdate DEF StartGetRollup, Call

LEMMA ExportStarts ==
  ASSUME Typed, NEW t \in Task, NEW dirs \in Requests, StartExport(t, dirs)
  PROVE  Quiet(t) /\ Unlocked(job'[t])
<1>. DEFINE k == [op |-> "export", store |-> "origin", pc |-> "tar", dirs |-> dirs,
                  tar |-> << >>, at |-> None]
<1>1. JobOk1(k) /\ GoesOn(job[t], k) /\ Unlocked(k)
  BY DEF JobOk1, JobOk, ExporterOk, GoesOn, Unlocked, Store
<1>. QED BY <1>1, QuietUpdate DEF StartExport, Call

LEMMA ParentNameRead ==
  ASSUME Typed, NEW t \in Task, NEW s \in Store, NEW l \in Layer, ReadParentName(t, s, l)
  PROVE  Quiet(t) /\ Unlocked(job'[t])
<1>. DEFINE k == [op |-> "parent_name", store |-> s, pc |-> "done", at |-> l,
                  seen |-> get_parent(s, l)]
<1>1. JobOk1(k) /\ GoesOn(job[t], k) /\ Unlocked(k)
  BY DEF JobOk1, JobOk, GoesOn, Unlocked
<1>. QED BY <1>1, QuietUpdate DEF ReadParentName, Call

LEMMA ReadStarts ==
  ASSUME Typed, NEW t \in Task, NEW s \in Store, NEW l \in Layer, NEW part \in Asked,
         StartRead(t, s, l, part)
  PROVE  Quiet(t) /\ Unlocked(job'[t])
<1>. DEFINE k == Reader(s, l, part)
<1>1. /\ DOMAIN k = {"op", "store", "pc", "at", "part", "child", "early", "work", "held", "seen"}
      /\ k.op = "read" /\ k.store = s /\ k.pc \in {"parent", "work"}
  BY DEF Reader
<1>2. job' = [job EXCEPT ![t] = k]
  BY DEF StartRead, Call
<1>. HIDE DEF k
<1>3. JobOk1(k) /\ GoesOn(job[t], k) /\ Unlocked(k)
  BY <1>1 DEF JobOk1, JobOk, ReaderOk, GoesOn, Unlocked
<1>. QED BY <1>2, <1>3, QuietUpdate DEF StartRead

LEMMA SetRollupStarts ==
  ASSUME Typed, NEW t \in Task, NEW l \in Layer, NEW r \in RollupName, write_rollup_file(t, l, r)
  PROVE  Quiet(t) /\ Unlocked(job'[t])
<1>. DEFINE k == [op |-> "set_rollup", store |-> "origin", pc |-> "lock", at |-> l,
                  lines |-> <<"1", r>>]
<1>1. k \in SetRollupCall
  BY DEF SetRollupCall
<1>2. JobOk1(k) /\ GoesOn(job[t], k) /\ Unlocked(k)
  BY <1>1 DEF JobOk1, JobOk, SetterOk, GoesOn, Unlocked, Store
<1>. QED BY <1>2, QuietUpdate DEF write_rollup_file, Call

(* A reader or a writer that works through its list.                       *)
LEMMA WorkGoesOn ==
  ASSUME Typed, NEW t \in Task, job[t] # Idle, job[t].pc \in {"work", "insert"},
         NEW k, DOMAIN k = DOMAIN job[t], k.pc \in {"work", "insert"},
         \A x \in DOMAIN k : x \notin {"pc", "work", "held"} => k[x] = job[t][x]
  PROVE  JobOk1(k) /\ GoesOn(job[t], k) /\ Unlocked(k)
<1>1. JobOk(job[t]) /\ job[t].op \in {"read", "write"}
  BY DEF Typed, JobOk, SetterOk, GetterOk, ExporterOk
<1>2. k.op = job[t].op /\ k.store = job[t].store
  BY <1>1 DEF JobOk
<1>3. CASE job[t].op = "read"
  <2>1. ReaderOk(k)
    BY <1>1, <1>3 DEF JobOk, ReaderOk
  <2>. QED BY <1>1, <1>2, <1>3, <2>1 DEF JobOk1, JobOk, GoesOn, Unlocked
<1>4. CASE job[t].op = "write"
  <2>1. WriterOk(job[t])
    BY <1>1, <1>4 DEF JobOk
  <2>2. k.ids = job[t].ids /\ k.left = job[t].left
    BY <2>1 DEF WriterOk, WriterFields
  <2>3. WriterOk(k)
    BY <2>1, <2>2 DEF WriterOk
  <2>. QED BY <1>1, <1>2, <1>4, <2>2, <2>3 DEF JobOk1, JobOk, GoesOn, Unlocked
<1>. QED BY <1>1, <1>3, <1>4

LEMMA WorkStep ==
  ASSUME Typed, NEW t \in Task, job[t] # Idle, job[t].pc \in {"work", "insert"},
         NEW k, DOMAIN k = DOMAIN job[t], k.pc \in {"work", "insert"},
         \A x \in DOMAIN k : x \notin {"pc", "work", "held"} => k[x] = job[t][x],
         job' = [job EXCEPT ![t] = k],
         construction' = construction, archive' = archive, acked' = acked
  PROVE  Quiet(t) /\ Unlocked(job'[t])
<1>1. JobOk1(k) /\ GoesOn(job[t], k) /\ Unlocked(k)
  BY WorkGoesOn
<1>. QED BY <1>1, QuietUpdate

LEMMA Holds ==
  ASSUME Typed, NEW t \in Task, job[t] # Idle, job[t].pc \in {"work", "insert"}, NEW h, Hold(t, h)
  PROVE  \E k : /\ job' = [job EXCEPT ![t] = k]
                /\ DOMAIN k = DOMAIN job[t] /\ k.pc \in {"work", "insert"}
                /\ \A x \in DOMAIN k : x \notin {"pc", "work", "held"} => k[x] = job[t][x]
<1>1. PICK g : job' = [job EXCEPT ![t].work = Tail(@), ![t].pc = "work", ![t].held = g]
  BY DEF Hold
<1>2. "pc" \in DOMAIN job[t] /\ DOMAIN job = Task
  BY DEF Typed, JobOk
<1>. DEFINE k == [job[t] EXCEPT !.work = Tail(@), !.pc = "work", !.held = g]
<1>3. job' = [job EXCEPT ![t] = k]
  BY <1>1
<1>4. /\ DOMAIN k = DOMAIN job[t] /\ k.pc \in {"work", "insert"}
      /\ \A x \in DOMAIN k : x \notin {"pc", "work", "held"} => k[x] = job[t][x]
  BY <1>2
<1>. HIDE DEF k
<1>. QED BY <1>3, <1>4

LEMMA HoldsRest ==
  ASSUME Typed, NEW t \in Task, job[t] # Idle, job[t].pc \in {"work", "insert"}, HoldRest(t)
  PROVE  \E k : /\ job' = [job EXCEPT ![t] = k]
                /\ DOMAIN k = DOMAIN job[t] /\ k.pc \in {"work", "insert"}
                /\ \A x \in DOMAIN k : x \notin {"pc", "work", "held"} => k[x] = job[t][x]
<1>1. PICK g : job' = [job EXCEPT ![t].work = << >>, ![t].held = g]
  BY DEF HoldRest
<1>2. "pc" \in DOMAIN job[t] /\ DOMAIN job = Task
  BY DEF Typed, JobOk
<1>. DEFINE k == [job[t] EXCEPT !.work = << >>, !.held = g]
<1>3. job' = [job EXCEPT ![t] = k]
  BY <1>1
<1>4. /\ DOMAIN k = DOMAIN job[t] /\ k.pc \in {"work", "insert"}
      /\ \A x \in DOMAIN k : x \notin {"pc", "work", "held"} => k[x] = job[t][x]
  BY <1>2
<1>. HIDE DEF k
<1>. QED BY <1>3, <1>4

LEMMA FileIsGot ==
  ASSUME Typed, NEW t \in Task, get_file(t)
  PROVE  Quiet(t) /\ Unlocked(job'[t])
<1>1. /\ job[t] # Idle /\ job[t].pc = "work"
      /\ construction' = construction /\ archive' = archive /\ acked' = acked
      /\ \/ HoldRest(t) \/ \E h : Hold(t, h)
         \/ job' = [job EXCEPT ![t].pc = "insert"]
  BY DEF get_file, NextWork
<1>2. CASE job' = [job EXCEPT ![t].pc = "insert"]
  <2>. DEFINE k == [job[t] EXCEPT !.pc = "insert"]
  <2>1. "pc" \in DOMAIN job[t] /\ DOMAIN job = Task
    BY <1>1 DEF Typed, JobOk
  <2>2. job' = [job EXCEPT ![t] = k]
    BY <1>2
  <2>3. /\ DOMAIN k = DOMAIN job[t] /\ k.pc \in {"work", "insert"}
        /\ \A x \in DOMAIN k : x \notin {"pc", "work", "held"} => k[x] = job[t][x]
    BY <2>1
  <2>. HIDE DEF k
  <2>. QED BY <1>1, <2>2, <2>3, WorkStep
<1>. QED BY <1>1, <1>2, Holds, HoldsRest, WorkStep

LEMMA FileIsWritten ==
  ASSUME Typed, NEW t \in Task, write_file(t)
  PROVE  Quiet(t) /\ Unlocked(job'[t])
<1>1. /\ job[t] # Idle /\ job[t].pc = "work"
      /\ construction' = construction /\ archive' = archive /\ acked' = acked
      /\ End(t) \/ job' = [job EXCEPT ![t].work = Tail(@)]
  BY DEF write_file, NextWork
<1>2. CASE job' = [job EXCEPT ![t].work = Tail(@)]
  <2>. DEFINE k == [job[t] EXCEPT !.work = Tail(@)]
  <2>1. "pc" \in DOMAIN job[t] /\ DOMAIN job = Task
    BY <1>1 DEF Typed, JobOk
  <2>2. job' = [job EXCEPT ![t] = k]
    BY <1>2
  <2>3. /\ DOMAIN k = DOMAIN job[t] /\ k.pc \in {"work", "insert"}
        /\ \A x \in DOMAIN k : x \notin {"pc", "work", "held"} => k[x] = job[t][x]
    BY <1>1, <2>1
  <2>. HIDE DEF k
  <2>. QED BY <1>1, <2>2, <2>3, WorkStep
<1>. QED BY <1>1, <1>2, IdleUpdate DEF Unlocked

LEMMA FileIsInserted ==
  ASSUME Typed, NEW t \in Task, InsertFile(t)
  PROVE  Quiet(t) /\ Unlocked(job'[t])
<1>. DEFINE s == job[t].store
            w == Head(job[t].work)
<1>1. /\ job[t] # Idle /\ job[t].pc = "insert"
      /\ archive' = archive /\ acked' = acked
      /\ \/ /\ UnderConstruction(s, w.layer)
            /\ Hold(t, t)
            /\ \E g : construction' = [construction EXCEPT ![s][w.layer] = g]
         \/ End(t) /\ construction' = construction
  BY DEF InsertFile
<1>. HIDE DEF w
<1>2. CASE End(t) /\ construction' = construction
  BY <1>1, <1>2, IdleUpdate DEF Unlocked
<1>3. ASSUME NEW g, construction' = [construction EXCEPT ![s][w.layer] = g],
             UnderConstruction(s, w.layer), Hold(t, t)
      PROVE  Quiet(t) /\ Unlocked(job'[t])
  <2>1. PICK k : /\ job' = [job EXCEPT ![t] = k]
                 /\ DOMAIN k = DOMAIN job[t] /\ k.pc \in {"work", "insert"}
                 /\ \A x \in DOMAIN k : x \notin {"pc", "work", "held"} => k[x] = job[t][x]
    BY <1>1, <1>3, Holds
  <2>2. JobOk1(k) /\ GoesOn(job[t], k) /\ Unlocked(k)
    BY <1>1, <2>1, WorkGoesOn
  <2>3. Moves(t) /\ job'[t] = k
    BY <2>1 DEF Typed, Moves
  <2>4. DOMAIN construction' = Store /\ \A r \in Store : DOMAIN construction'[r] = Layer
    BY <1>3 DEF Typed
  <2>5. ASSUME NEW r \in Store, NEW l \in Layer, construction[r][l] = NoDir
        PROVE  construction'[r][l] = NoDir
    BY <1>3, <2>5 DEF Typed, UnderConstruction
  <2>. QED BY <1>1, <2>2, <2>3, <2>4, <2>5 DEF Quiet
<1>. QED BY <1>1, <1>2, <1>3

LEMMA LockIsPoisoned ==
  ASSUME Typed, NEW t \in Task, PoisonedLock(t)
  PROVE  Quiet(t) /\ Unlocked(job'[t])
BY IdleUpdate DEF PoisonedLock, Unlocked

LEMMA BuilderIsDropped ==
  ASSUME Typed, NEW t \in Task, DropBuilder(t)
  PROVE  Quiet(t) /\ Unlocked(job'[t])
BY IdleUpdate DEF DropBuilder, Unlocked

(* Calls that are not about writing a layer.                               *)
LEMMA OtherStep ==
  ASSUME Typed, NEW t \in Task, NEW k, job' = [job EXCEPT ![t] = k],
         k # Idle => JobOk(k) /\ k.op # "write",
         construction' = construction, archive' = archive, acked' = acked
  PROVE  Quiet(t) /\ job'[t] = k
<1>1. JobOk1(k) /\ GoesOn(job[t], k)
  BY DEF JobOk1, GoesOn
<1>. QED BY <1>1, QuietUpdate

LEMMA ParentIsAsked ==
  ASSUME Typed, NEW t \in Task, AskParent(t)
  PROVE  Quiet(t) /\ Unlocked(job'[t])
<1>1. /\ job[t] # Idle /\ job[t].pc = "parent"
      /\ construction' = construction /\ archive' = archive /\ acked' = acked
      /\ \/ End(t)
         \/ \E c, b, w : job' = [job EXCEPT ![t].pc = "work", ![t].child = c, ![t].early = b, ![t].work = w]
  BY DEF AskParent, End
<1>2. CASE \E c, b, w : job' = [job EXCEPT ![t].pc = "work", ![t].child = c, ![t].early = b, ![t].work = w]
  <2>1. PICK c, b, w :
          job' = [job EXCEPT ![t].pc = "work", ![t].child = c, ![t].early = b, ![t].work = w]
    BY <1>2
  <2>. DEFINE k == [job[t] EXCEPT !.pc = "work", !.child = c, !.early = b, !.work = w]
  <2>2. /\ JobOk(job[t]) /\ job[t].op = "read" /\ ReaderOk(job[t])
        /\ {"op", "store", "pc", "at"} \subseteq DOMAIN job[t]
    BY <1>1 DEF Typed, JobOk, WriterOk, ExporterOk, SetterOk, GetterOk
  <2>3. job' = [job EXCEPT ![t] = k]
    BY <2>1
  <2>4. /\ DOMAIN k = DOMAIN job[t] /\ k.pc = "work"
        /\ k.op = "read" /\ k.store = job[t].store
    BY <2>2
  <2>. HIDE DEF k
  <2>5. JobOk(k) /\ Unlocked(k) /\ k.op # "write"
    BY <2>2, <2>4 DEF JobOk, ReaderOk, Unlocked
  <2>. QED BY <1>1, <2>3, <2>5, OtherStep
<1>. QED BY <1>1, <1>2, IdleUpdate DEF Unlocked

LEMMA FilesAreMapped ==
  ASSUME Typed, NEW t \in Task, MapFiles(t)
  PROVE  Quiet(t) /\ Unlocked(job'[t])
<1>1. PICK g : /\ job[t] # Idle /\ job[t].op = "read" /\ job[t].pc = "work"
               /\ construction' = construction /\ archive' = archive /\ acked' = acked
               /\ job' = [job EXCEPT ![t].pc = "done", ![t].seen = g]
  BY DEF MapFiles
<1>. DEFINE k == [job[t] EXCEPT !.pc = "done", !.seen = g]
<1>2. /\ JobOk(job[t]) /\ ReaderOk(job[t])
      /\ {"op", "store", "pc", "at"} \subseteq DOMAIN job[t]
  BY <1>1 DEF Typed, JobOk
<1>3. job' = [job EXCEPT ![t] = k]
  BY <1>1
<1>4. /\ DOMAIN k = DOMAIN job[t] /\ k.pc = "done"
      /\ k.op = "read" /\ k.store = job[t].store
  BY <1>1, <1>2
<1>. HIDE DEF k
<1>5. JobOk(k) /\ Unlocked(k) /\ k.op # "write"
  BY <1>2, <1>4 DEF JobOk, ReaderOk, Unlocked
<1>. QED BY <1>1, <1>3, <1>5, OtherStep

LEMMA CallReturns ==
  ASSUME Typed, NEW t \in Task, Return(t)
  PROVE  Quiet(t) /\ Unlocked(job'[t])
BY IdleUpdate DEF Return, Unlocked

LEMMA LayerIsExported ==
  ASSUME Typed, NEW t \in Task, export_layers(t)
  PROVE  Quiet(t) /\ Unlocked(job'[t])
<1>1. /\ job[t] # Idle /\ job[t].pc = "tar"
      /\ construction' = construction /\ archive' = archive /\ acked' = acked
      /\ \/ \E l : job' = [job EXCEPT ![t].pc = "failed", ![t].at = l]
         \/ \E g : job' = [job EXCEPT ![t].dirs = Tail(@), ![t].tar = @ \o g]
  BY DEF export_layers
<1>2. /\ JobOk(job[t]) /\ job[t].op = "export" /\ ExporterOk(job[t])
      /\ {"op", "store", "pc", "at"} \subseteq DOMAIN job[t]
  BY <1>1 DEF Typed, JobOk, WriterOk, ReaderOk, SetterOk, GetterOk
<1>3. ASSUME NEW k, job' = [job EXCEPT ![t] = k], DOMAIN k = DOMAIN job[t],
             k.pc \in {"tar", "failed"}, k.op = "export", k.store = job[t].store
      PROVE  Quiet(t) /\ Unlocked(job'[t])
  <2>1. JobOk(k) /\ Unlocked(k) /\ k.op # "write"
    BY <1>2, <1>3 DEF JobOk, ExporterOk, Unlocked
  <2>. QED BY <1>1, <1>3, <2>1, OtherStep
<1>4. ASSUME NEW l, job' = [job EXCEPT ![t].pc = "failed", ![t].at = l]
      PROVE  Quiet(t) /\ Unlocked(job'[t])
  <2>. DEFINE k == [job[t] EXCEPT !.pc = "failed", !.at = l]
  <2>1. job' = [job EXCEPT ![t] = k]
    BY <1>4
  <2>2. /\ DOMAIN k = DOMAIN job[t] /\ k.pc = "failed"
        /\ k.op = "export" /\ k.store = job[t].store
    BY <1>2
  <2>. HIDE DEF k
  <2>. QED BY <1>3, <2>1, <2>2
<1>5. ASSUME NEW g, job' = [job EXCEPT ![t].dirs = Tail(@), ![t].tar = @ \o g]
      PROVE  Quiet(t) /\ Unlocked(job'[t])
  <2>. DEFINE k == [job[t] EXCEPT !.dirs = Tail(@), !.tar = @ \o g]
  <2>1. job' = [job EXCEPT ![t] = k]
    BY <1>5
  <2>2. /\ DOMAIN k = DOMAIN job[t] /\ k.pc = "tar"
        /\ k.op = "export" /\ k.store = job[t].store
    BY <1>1, <1>2
  <2>. HIDE DEF k
  <2>. QED BY <1>3, <2>1, <2>2
<1>. QED BY <1>1, <1>4, <1>5

LEMMA ExportReturns ==
  ASSUME Typed, NEW t \in Task, ExportDone(t)
  PROVE  Quiet(t) /\ Unlocked(job'[t])
BY IdleUpdate DEF ExportDone, Unlocked

(* A call about a rollup that goes on to another point.                    *)
RollupMove(j, k) ==
  /\ \/ j.op = "set_rollup" /\ k.pc \in {"create", "write"} /\ k \in SetRollupCall
     \/ j.op = "get_rollup" /\ k.pc \in {"read", "done", "failed"}
  /\ DOMAIN k = DOMAIN j
  /\ \A x \in DOMAIN k : x \notin {"pc", "seen"} => k[x] = j[x]

LEMMA RollupStep ==
  ASSUME Typed, NEW t \in Task, job[t] # Idle, NEW k, RollupMove(job[t], k),
         job' = [job EXCEPT ![t] = k],
         construction' = construction, archive' = archive, acked' = acked
  PROVE  /\ Quiet(t) /\ job'[t] = k
         /\ k.op = job[t].op /\ k.at = job[t].at
<1>1. JobOk(job[t]) /\ {"op", "store", "pc", "at"} \subseteq DOMAIN job[t]
  BY DEF Typed, JobOk
<1>2. k.op = job[t].op /\ k.at = job[t].at /\ k.store = job[t].store
  BY <1>1 DEF RollupMove
<1>3. JobOk(k) /\ k.op # "write"
  BY <1>1, <1>2 DEF JobOk, SetterOk, GetterOk, RollupMove
<1>. QED BY <1>2, <1>3, OtherStep

LEMMA ExclusiveIsTaken ==
  ASSUME Typed, NEW t \in Task, LockExclusive(t)
  PROVE  /\ Quiet(t)
         /\ \/ job'[t] = Idle
            \/ /\ Exclusive(job[t].at) \cup Shared(job[t].at) = {}
               /\ job'[t].op = "set_rollup" /\ job'[t].pc = "create" /\ job'[t].at = job[t].at
<1>1. /\ job[t] # Idle /\ job[t].op = "set_rollup"
      /\ construction' = construction /\ archive' = archive /\ acked' = acked
      /\ \/ End(t)
         \/ /\ Exclusive(job[t].at) \cup Shared(job[t].at) = {}
            /\ job' = [job EXCEPT ![t].pc = "create"]
  BY DEF LockExclusive
<1>2. CASE End(t)
  BY <1>1, <1>2, IdleUpdate
<1>3. CASE /\ Exclusive(job[t].at) \cup Shared(job[t].at) = {}
           /\ job' = [job EXCEPT ![t].pc = "create"]
  <2>. DEFINE k == [job[t] EXCEPT !.pc = "create"]
  <2>1. job' = [job EXCEPT ![t] = k]
    BY <1>3
  <2>2. "pc" \in DOMAIN job[t]
    BY <1>1 DEF Typed, JobOk
  <2>3. /\ DOMAIN k = DOMAIN job[t] /\ k.pc = "create"
        /\ \A x \in DOMAIN k : x \notin {"pc", "seen"} => k[x] = job[t][x]
    BY <2>2
  <2>5. k \in SetRollupCall
    <3>1. job[t] \in SetRollupCall
      BY <1>1 DEF Typed, JobOk, SetterOk
    <3>. QED BY <3>1 DEF SetRollupCall
  <2>. HIDE DEF k
  <2>4. Quiet(t) /\ job'[t] = k /\ k.op = job[t].op /\ k.at = job[t].at
    <3>1. RollupMove(job[t], k)
      BY <1>1, <2>3, <2>5 DEF RollupMove
    <3>. QED BY <1>1, <2>1, <3>1, RollupStep
  <2>. QED BY <1>1, <1>3, <2>3, <2>4
<1>. QED BY <1>1, <1>2, <1>3

LEMMA SharedIsTaken ==
  ASSUME Typed, NEW t \in Task, LockShared(t)
  PROVE  /\ Quiet(t)
         /\ \/ job'[t] = Idle
            \/ /\ Exclusive(job[t].at) = {}
               /\ job'[t].op = "get_rollup" /\ job'[t].pc = "read" /\ job'[t].at = job[t].at
<1>1. /\ job[t] # Idle /\ job[t].op = "get_rollup"
      /\ construction' = construction /\ archive' = archive /\ acked' = acked
      /\ \/ End(t)
         \/ /\ Exclusive(job[t].at) = {}
            /\ job' = [job EXCEPT ![t].pc = "read"]
  BY DEF LockShared
<1>2. CASE End(t)
  BY <1>1, <1>2, IdleUpdate
<1>3. CASE /\ Exclusive(job[t].at) = {}
           /\ job' = [job EXCEPT ![t].pc = "read"]
  <2>. DEFINE k == [job[t] EXCEPT !.pc = "read"]
  <2>1. job' = [job EXCEPT ![t] = k]
    BY <1>3
  <2>2. "pc" \in DOMAIN job[t]
    BY <1>1 DEF Typed, JobOk
  <2>3. /\ DOMAIN k = DOMAIN job[t] /\ k.pc = "read"
        /\ \A x \in DOMAIN k : x \notin {"pc", "seen"} => k[x] = job[t][x]
    BY <2>2
  <2>. HIDE DEF k
  <2>4. Quiet(t) /\ job'[t] = k /\ k.op = job[t].op /\ k.at = job[t].at
    <3>1. RollupMove(job[t], k)
      BY <1>1, <2>3 DEF RollupMove
    <3>. QED BY <1>1, <2>1, <3>1, RollupStep
  <2>. QED BY <1>1, <1>3, <2>3, <2>4
<1>. QED BY <1>1, <1>2, <1>3

LEMMA RollupIsRead ==
  ASSUME Typed, NEW t \in Task, get_rollup(t)
  PROVE  Quiet(t) /\ Unlocked(job'[t])
<1>1. PICK p, g :
        /\ job[t] # Idle /\ job[t].op = "get_rollup" /\ p \in {"done", "failed"}
        /\ construction' = construction /\ archive' = archive /\ acked' = acked
        /\ job' = [job EXCEPT ![t].pc = p, ![t].seen = g]
  BY DEF get_rollup
<1>. DEFINE k == [job[t] EXCEPT !.pc = p, !.seen = g]
<1>2. job' = [job EXCEPT ![t] = k]
  BY <1>1
<1>3. "pc" \in DOMAIN job[t]
  BY <1>1 DEF Typed, JobOk
<1>4. /\ DOMAIN k = DOMAIN job[t] /\ k.pc = p
      /\ \A x \in DOMAIN k : x \notin {"pc", "seen"} => k[x] = job[t][x]
  BY <1>3
<1>. HIDE DEF k
<1>5. Quiet(t) /\ job'[t] = k /\ k.op = job[t].op
  <2>1. RollupMove(job[t], k)
    BY <1>1, <1>4 DEF RollupMove
  <2>. QED BY <1>1, <1>2, <2>1, RollupStep
<1>. QED BY <1>1, <1>4, <1>5 DEF Unlocked

LEMMA RollupIsSet ==
  ASSUME Typed, NEW t \in Task, set_rollup(t)
  PROVE  /\ Quiet(t)
         /\ job[t] # Idle /\ job[t].op = "set_rollup" /\ job[t].at \in Layer
         /\ \/ /\ job[t].pc = "create" /\ cut' = cut
               /\ rollup' = [rollup EXCEPT ![job[t].at] = << >>]
               /\ job'[t].op = "set_rollup" /\ job'[t].pc = "write" /\ job'[t].at = job[t].at
               /\ job'[t] # Idle
            \/ /\ job[t].pc = "write" /\ cut' = cut \ {job[t].at} /\ job'[t] = Idle
               /\ \E r : rollup' = [rollup EXCEPT ![job[t].at] = <<"1", r>>]
            \/ /\ job[t].pc \in {"create", "write"} /\ job'[t] = Idle /\ rollup' = rollup
               /\ cut' = IF job[t].pc = "write" THEN cut \cup {job[t].at} ELSE cut
<1>1. /\ job[t] # Idle /\ job[t].op = "set_rollup"
      /\ construction' = construction /\ archive' = archive /\ acked' = acked
      /\ \/ /\ job[t].pc = "create" /\ cut' = cut
            /\ rollup' = [rollup EXCEPT ![job[t].at] = << >>]
            /\ job' = [job EXCEPT ![t].pc = "write"]
         \/ /\ job[t].pc = "write" /\ cut' = cut \ {job[t].at} /\ End(t)
            /\ \E r : rollup' = [rollup EXCEPT ![job[t].at] = <<"1", r>>]
         \/ /\ job[t].pc \in {"create", "write"} /\ End(t) /\ rollup' = rollup
            /\ cut' = IF job[t].pc = "write" THEN cut \cup {job[t].at} ELSE cut
  BY DEF set_rollup
<1>2. JobOk(job[t]) /\ job[t].at \in Layer
  BY <1>1 DEF Typed, JobOk, SetterOk
<1>3. CASE End(t)
  <2>1. Quiet(t) /\ job'[t] = Idle
    BY <1>1, <1>3, IdleUpdate
  <2>2. ~(job' = [job EXCEPT ![t].pc = "write"])
    <3>1. job[t] \in SetRollupCall
      BY <1>1 DEF Typed, JobOk, SetterOk
    <3>2. [job[t] EXCEPT !.pc = "write"] \in SetRollupCall
      BY <3>1 DEF SetRollupCall
    <3>. QED BY <2>1, <3>2, IdleAssumption DEF SetRollupCall, Typed
  <2>. QED BY <1>1, <1>2, <2>1, <2>2
<1>4. CASE /\ job[t].pc = "create" /\ cut' = cut
           /\ rollup' = [rollup EXCEPT ![job[t].at] = << >>]
           /\ job' = [job EXCEPT ![t].pc = "write"]
  <2>. DEFINE k == [job[t] EXCEPT !.pc = "write"]
  <2>1. job' = [job EXCEPT ![t] = k]
    BY <1>1, <1>4
  <2>2. "pc" \in DOMAIN job[t]
    BY <1>2 DEF JobOk
  <2>3. /\ DOMAIN k = DOMAIN job[t] /\ k.pc = "write"
        /\ \A x \in DOMAIN k : x \notin {"pc", "seen"} => k[x] = job[t][x]
    BY <2>2
  <2>5. k \in SetRollupCall
    <3>1. job[t] \in SetRollupCall
      BY <1>1 DEF Typed, JobOk, SetterOk
    <3>. QED BY <3>1 DEF SetRollupCall
  <2>. HIDE DEF k
  <2>4. Quiet(t) /\ job'[t] = k /\ k.op = job[t].op /\ k.at = job[t].at
    <3>1. RollupMove(job[t], k)
      BY <1>1, <2>3, <2>5 DEF RollupMove
    <3>. QED BY <1>1, <2>1, <3>1, RollupStep
  <2>6. k # Idle
    BY <2>5, IdleAssumption DEF SetRollupCall
  <2>. QED BY <1>1, <1>2, <1>4, <2>3, <2>4, <2>6
<1>. QED BY <1>1, <1>3, <1>4

-----------------------------------------------------------------------------
(* Calls that write layers.                                                *)
WriterStarts(t) ==
  /\ Moves(t) /\ archive' = archive /\ construction' = construction /\ acked' = acked
  /\ job[t] = Idle /\ JobOk(job'[t]) /\ job'[t].op = "write" /\ job'[t].pc = "exists"
  /\ job'[t].left = job'[t].ids
  /\ Rivals \/ \A l \in job'[t].ids : ~Busy(job'[t].store, l)

LEMMA AnyWriterStarts ==
  ASSUME Typed, NEW t \in Task, NEW s \in Store, NEW dirs \in Seq(Layer), dirs # << >>, NEW w,
         job' = [job EXCEPT ![t] = Writer(s, dirs, w)], job[t] = Idle,
         archive' = archive, construction' = construction, acked' = acked,
         Rivals \/ \A l \in ToSet(dirs) : ~Busy(s, l)
  PROVE  WriterStarts(t)
<1>. DEFINE k == Writer(s, dirs, w)
<1>1. /\ JobOk(k) /\ k.op = "write" /\ k.store = s /\ k.pc = "exists"
      /\ k.ids = ToSet(dirs) /\ k.left = ToSet(dirs)
  BY NewWriter
<1>2. job' = [job EXCEPT ![t] = k]
  OBVIOUS
<1>. HIDE DEF k
<1>3. Moves(t) /\ job'[t] = k
  BY <1>2 DEF Typed, Moves
<1>. QED BY <1>1, <1>3 DEF WriterStarts

LEMMA BuildStarts ==
  ASSUME Typed, NEW t \in Task, NEW l \in Layer, StartBuild(t, l)
  PROVE  WriterStarts(t)
<1>1. PICK w : job' = [job EXCEPT ![t] = Writer("origin", <<l>>, w)]
  BY DEF StartBuild, create_layer, Call
<1>2. /\ archive' = archive /\ construction' = construction /\ acked' = acked
      /\ job[t] = Idle /\ ~Busy("origin", l)
  BY DEF StartBuild, Call
<1>3. \A m \in ToSet(<<l>>) : ~Busy("origin", m)
  BY <1>2 DEF ToSet
<1>4. "origin" \in Store /\ <<l>> \in Seq(Layer) /\ <<l>> # << >>
  BY DEF Store
<1>. QED BY <1>1, <1>2, <1>3, <1>4, AnyWriterStarts

LEMMA ImportStarts ==
  ASSUME Typed, NEW t \in Task, NEW dirs \in Requests, StartImport(t, dirs)
  PROVE  WriterStarts(t)
<1>1. PICK w : job' = [job EXCEPT ![t] = Writer("target", dirs, w)]
  BY DEF StartImport, import_layers, Call
<1>2. /\ archive' = archive /\ construction' = construction /\ acked' = acked
      /\ job[t] = Idle /\ (Rivals \/ \A l \in ToSet(dirs) : ~Busy("target", l))
  BY DEF StartImport, Call
<1>3. "target" \in Store /\ dirs \in Seq(Layer) /\ dirs # << >>
  BY RequestsAssumption DEF Store
<1>. QED BY <1>1, <1>2, <1>3, AnyWriterStarts

(* A writer that goes on to another point.                                 *)
Advances(t) ==
  /\ job[t] # Idle /\ job[t].op = "write" /\ WriterOk(job[t]) /\ job[t].store \in Store
  /\ Moves(t) /\ JobOk(job'[t]) /\ job'[t].op = "write"
  /\ job'[t].store = job[t].store /\ job'[t].ids = job[t].ids

LEMMA WriterIs ==
  ASSUME Typed, NEW t \in Task, job[t] # Idle,
         job[t].op = "write" \/ job[t].pc \in {"exists", "claim", "open", "chunk"}
  PROVE  /\ job[t].op = "write" /\ WriterOk(job[t]) /\ job[t].store \in Store
         /\ JobOk(job[t]) /\ WriterFields \subseteq DOMAIN job[t] /\ DOMAIN job = Task
BY DEF Typed, JobOk, WriterOk, ReaderOk, ExporterOk, SetterOk, GetterOk

LEMMA WriterStep ==
  ASSUME Typed, NEW t \in Task, job[t] # Idle, job[t].op = "write", NEW k,
         job' = [job EXCEPT ![t] = k], DOMAIN k = DOMAIN job[t], WriterOk(k),
         k.op = "write", k.store = job[t].store, k.ids = job[t].ids
  PROVE  Advances(t) /\ job'[t] = k
<1>1. WriterOk(job[t]) /\ job[t].store \in Store /\ JobOk(job[t])
  BY WriterIs
<1>2. Moves(t) /\ job'[t] = k
  BY DEF Typed, Moves
<1>3. JobOk(k)
  BY <1>1 DEF JobOk
<1>. QED BY <1>1, <1>2, <1>3 DEF Advances

LEMMA DiskIsLookedAt ==
  ASSUME Typed, NEW t \in Task, create_named_directory(t)
  PROVE  /\ construction' = construction /\ archive' = archive /\ acked' = acked
         /\ \/ Quiet(t) /\ job'[t] = Idle
            \/ /\ Advances(t) /\ job'[t].pc = "claim" /\ job'[t].left = job[t].left
               /\ archive[job[t].store][Head(job'[t].dirs)] = NoFile
<1>1. /\ job[t] # Idle /\ job[t].pc = "exists"
      /\ construction' = construction /\ archive' = archive /\ acked' = acked
      /\ \/ End(t)
         \/ /\ archive[job[t].store][Head(job[t].dirs)] = NoFile
            /\ job' = [job EXCEPT ![t].pc = "claim"]
  BY DEF create_named_directory, layer_exists
<1>2. CASE End(t)
  BY <1>1, <1>2, IdleUpdate
<1>3. CASE /\ archive[job[t].store][Head(job[t].dirs)] = NoFile
           /\ job' = [job EXCEPT ![t].pc = "claim"]
  <2>. DEFINE k == [job[t] EXCEPT !.pc = "claim"]
  <2>1. job' = [job EXCEPT ![t] = k]
    BY <1>3
  <2>2. job[t].op = "write" /\ WriterOk(job[t]) /\ WriterFields \subseteq DOMAIN job[t]
    BY <1>1, WriterIs
  <2>3. /\ DOMAIN k = DOMAIN job[t] /\ k.pc = "claim" /\ k.dirs = job[t].dirs
        /\ k.op = "write" /\ k.store = job[t].store /\ k.ids = job[t].ids /\ k.left = job[t].left
    BY <2>2 DEF WriterFields
  <2>. HIDE DEF k
  <2>4. WriterOk(k)
    BY <1>1, <2>2, <2>3 DEF WriterOk
  <2>5. Advances(t) /\ job'[t] = k
    BY <1>1, <2>1, <2>2, <2>3, <2>4, WriterStep
  <2>. QED BY <1>1, <1>3, <2>3, <2>5
<1>. QED BY <1>1, <1>2, <1>3

LEMMA RestOf ==
  ASSUME NEW d \in Seq(Layer), d # << >>, Len(d) # 1, NEW S, \A i \in 1..Len(d) : d[i] \in S
  PROVE  /\ Tail(d) \in Seq(Layer) /\ Tail(d) # << >>
         /\ \A i \in 1..Len(Tail(d)) : Tail(d)[i] \in S
<1>1. /\ Tail(d) \in Seq(Layer) /\ Len(Tail(d)) = Len(d) - 1 /\ Len(d) \in Nat \ {0}
      /\ \A i \in 1..Len(Tail(d)) : Tail(d)[i] = d[i + 1]
  BY HeadTailProperties, EmptySeq
<1>2. PICK n \in Nat \ {0, 1} : n = Len(d)
  BY <1>1
<1>3. ASSUME NEW i \in 1..(n - 1)
      PROVE  i + 1 \in 1..n
  BY <1>3
<1>4. Len(Tail(d)) = n - 1 /\ n - 1 # 0
  BY <1>1, <1>2
<1>5. Tail(d) # << >>
  BY <1>4, EmptySeq
<1>. QED BY <1>1, <1>2, <1>3, <1>4, <1>5

LEMMA DirectoryIsClaimed ==
  ASSUME Typed, NEW t \in Task, Claim(t)
  PROVE  /\ archive' = archive /\ acked' = acked
         /\ \/ Quiet(t) /\ job'[t] = Idle
            \/ /\ Advances(t) /\ job[t].pc = "claim" /\ job'[t].pc \in {"work", "exists"}
               /\ job'[t].left = job[t].left /\ Head(job[t].dirs) \in job[t].ids
               /\ \E g : construction' = [construction EXCEPT ![job[t].store][Head(job[t].dirs)] = g]
<1>1. /\ job[t] # Idle /\ job[t].pc = "claim" /\ archive' = archive /\ acked' = acked
      /\ \/ End(t) /\ construction' = construction
         \/ /\ construction' = [construction EXCEPT ![job[t].store][Head(job[t].dirs)] = << >>]
            /\ job' = [job EXCEPT ![t].dirs = Tail(@),
                                  ![t].pc = IF Len(job[t].dirs) = 1 THEN "work" ELSE "exists"]
  BY DEF Claim
<1>2. CASE End(t) /\ construction' = construction
  BY <1>1, <1>2, IdleUpdate
<1>3. CASE /\ construction' = [construction EXCEPT ![job[t].store][Head(job[t].dirs)] = << >>]
           /\ job' = [job EXCEPT ![t].dirs = Tail(@),
                                 ![t].pc = IF Len(job[t].dirs) = 1 THEN "work" ELSE "exists"]
  <2>. DEFINE p == IF Len(job[t].dirs) = 1 THEN "work" ELSE "exists"
              k == [job[t] EXCEPT !.dirs = Tail(@), !.pc = p]
  <2>1. job' = [job EXCEPT ![t] = k]
    BY <1>3
  <2>2. job[t].op = "write" /\ WriterOk(job[t]) /\ WriterFields \subseteq DOMAIN job[t]
    BY <1>1, WriterIs
  <2>3. /\ DOMAIN k = DOMAIN job[t] /\ k.pc = p /\ k.dirs = Tail(job[t].dirs)
        /\ k.op = "write" /\ k.store = job[t].store /\ k.ids = job[t].ids /\ k.left = job[t].left
    BY <2>2 DEF WriterFields
  <2>. HIDE DEF k
  <2>4. /\ job[t].dirs \in Seq(Layer) /\ job[t].dirs # << >>
        /\ \A i \in 1..Len(job[t].dirs) : job[t].dirs[i] \in job[t].ids
    BY <1>1, <2>2 DEF WriterOk
  <2>5. Head(job[t].dirs) \in job[t].ids
    BY <2>4
  <2>6. p = "exists" => /\ k.dirs \in Seq(Layer) /\ k.dirs # << >>
                        /\ \A i \in 1..Len(k.dirs) : k.dirs[i] \in k.ids
    <3>1. SUFFICES ASSUME Len(job[t].dirs) # 1
                   PROVE  /\ k.dirs \in Seq(Layer) /\ k.dirs # << >>
                          /\ \A i \in 1..Len(k.dirs) : k.dirs[i] \in k.ids
      OBVIOUS
    <3>2. /\ Tail(job[t].dirs) \in Seq(Layer) /\ Tail(job[t].dirs) # << >>
          /\ \A i \in 1..Len(Tail(job[t].dirs)) : Tail(job[t].dirs)[i] \in job[t].ids
      BY <2>4, <3>1, RestOf
    <3>. QED BY <2>3, <3>2
  <2>7. p \in {"work", "exists"}
    OBVIOUS
  <2>. HIDE DEF p
  <2>8. WriterOk(k)
    BY <2>2, <2>3, <2>6, <2>7 DEF WriterOk
  <2>9. Advances(t) /\ job'[t] = k
    BY <1>1, <2>1, <2>2, <2>3, <2>8, WriterStep
  <2>. QED BY <1>1, <1>3, <2>3, <2>5, <2>7, <2>9
<1>. QED BY <1>1, <1>2, <1>3

LEMMA DirectoryIsFinalized ==
  ASSUME Typed, NEW t \in Task, finalize(t)
  PROVE  /\ archive' = archive /\ acked' = acked
         /\ \/ Quiet(t) /\ job'[t] = Idle
            \/ /\ Advances(t) /\ job'[t].pc = "open"
               /\ job'[t].left = job[t].left /\ job'[t].at \in job[t].left
               /\ UnderConstruction(job[t].store, job'[t].at)
               /\ construction' = [construction EXCEPT ![job[t].store][job'[t].at] = NoDir]
<1>1. /\ job[t] # Idle /\ job[t].op = "write" /\ job[t].pc = "work"
      /\ archive' = archive /\ acked' = acked
      /\ \/ End(t) /\ construction' = construction
         \/ \E l \in job[t].left : \E g :
              /\ UnderConstruction(job[t].store, l)
              /\ job' = [job EXCEPT ![t].pc = "open", ![t].at = l, ![t].image = g, ![t].held = << >>]
              /\ construction' = [construction EXCEPT ![job[t].store][l] = NoDir]
  BY DEF finalize
<1>2. CASE End(t) /\ construction' = construction
  BY <1>1, <1>2, IdleUpdate
<1>3. ASSUME NEW l \in job[t].left, NEW g, UnderConstruction(job[t].store, l),
             job' = [job EXCEPT ![t].pc = "open", ![t].at = l, ![t].image = g, ![t].held = << >>],
             construction' = [construction EXCEPT ![job[t].store][l] = NoDir]
      PROVE  /\ Advances(t) /\ job'[t].pc = "open"
             /\ job'[t].left = job[t].left /\ job'[t].at = l
  <2>. DEFINE k == [job[t] EXCEPT !.pc = "open", !.at = l, !.image = g, !.held = << >>]
  <2>1. job' = [job EXCEPT ![t] = k]
    BY <1>3
  <2>2. job[t].op = "write" /\ WriterOk(job[t]) /\ WriterFields \subseteq DOMAIN job[t]
    BY <1>1, WriterIs
  <2>3. /\ DOMAIN k = DOMAIN job[t] /\ k.pc = "open" /\ k.at = l
        /\ k.op = "write" /\ k.store = job[t].store /\ k.ids = job[t].ids /\ k.left = job[t].left
    BY <2>2 DEF WriterFields
  <2>. HIDE DEF k
  <2>4. WriterOk(k)
    BY <1>1, <2>2, <2>3 DEF WriterOk
  <2>5. Advances(t) /\ job'[t] = k
    BY <1>1, <2>1, <2>2, <2>3, <2>4, WriterStep
  <2>. QED BY <2>3, <2>5
<1>. QED BY <1>1, <1>2, <1>3

LEMMA ArchiveIsOpened ==
  ASSUME Typed, NEW t \in Task, StoreOpen(t)
  PROVE  /\ construction' = construction /\ acked' = acked
         /\ Advances(t) /\ job[t].pc = "open" /\ job'[t].pc = "chunk"
         /\ job'[t].left = job[t].left /\ job'[t].at = job[t].at /\ job[t].at \in job[t].ids
         /\ job'[t].image = job[t].image /\ job'[t].off = -1
         /\ archive' = [archive EXCEPT ![job[t].store][job[t].at] =
                          Opened(archive[job[t].store][job[t].at], job[t].image)]
<1>1. /\ job[t] # Idle /\ job[t].pc = "open"
      /\ construction' = construction /\ acked' = acked
      /\ job' = [job EXCEPT ![t].pc = "chunk", ![t].off = -1]
      /\ archive' = [archive EXCEPT ![job[t].store][job[t].at] =
                       Opened(archive[job[t].store][job[t].at], job[t].image)]
  BY DEF StoreOpen
<1>. DEFINE k == [job[t] EXCEPT !.pc = "chunk", !.off = -1]
<1>2. job' = [job EXCEPT ![t] = k]
  BY <1>1
<1>3. job[t].op = "write" /\ WriterOk(job[t]) /\ WriterFields \subseteq DOMAIN job[t]
  BY <1>1, WriterIs
<1>4. /\ DOMAIN k = DOMAIN job[t] /\ k.pc = "chunk" /\ k.at = job[t].at
      /\ k.image = job[t].image /\ k.off = -1
      /\ k.op = "write" /\ k.store = job[t].store /\ k.ids = job[t].ids /\ k.left = job[t].left
  BY <1>3 DEF WriterFields
<1>. HIDE DEF k
<1>5. WriterOk(k) /\ job[t].at \in job[t].ids
  BY <1>1, <1>3, <1>4 DEF WriterOk
<1>6. Advances(t) /\ job'[t] = k
  BY <1>1, <1>2, <1>3, <1>4, <1>5, WriterStep
<1>. QED BY <1>1, <1>4, <1>5, <1>6

LEMMA ChunkIsWritten ==
  ASSUME Typed, NEW t \in Task, store_layer_file(t)
  PROVE  /\ construction' = construction /\ acked' = acked
         /\ Advances(t) /\ job[t].pc = "chunk" /\ job'[t].pc = "chunk"
         /\ job'[t].left = job[t].left /\ job'[t].at = job[t].at /\ job[t].at \in job[t].ids
         /\ job'[t].image = job[t].image /\ job[t].off # Len(job[t].image.data)
         /\ job'[t].off > job[t].off
         /\ job'[t].off \in Cuts(job[t].image)
         /\ archive' = [archive EXCEPT ![job[t].store][job[t].at] =
                          Overwritten(@, job[t].image, job[t].off, job'[t].off)]
<1>1. PICK n \in Cuts(job[t].image) :
        /\ job[t] # Idle /\ job[t].pc = "chunk" /\ job[t].off # Len(job[t].image.data)
        /\ construction' = construction /\ acked' = acked /\ n > job[t].off
        /\ archive' = [archive EXCEPT ![job[t].store][job[t].at] =
                         Overwritten(@, job[t].image, job[t].off, n)]
        /\ job' = [job EXCEPT ![t].off = n]
  BY DEF store_layer_file
<1>. DEFINE k == [job[t] EXCEPT !.off = n]
<1>2. job' = [job EXCEPT ![t] = k]
  BY <1>1
<1>3. job[t].op = "write" /\ WriterOk(job[t]) /\ WriterFields \subseteq DOMAIN job[t]
  BY <1>1, WriterIs
<1>4. /\ DOMAIN k = DOMAIN job[t] /\ k.pc = "chunk" /\ k.at = job[t].at
      /\ k.image = job[t].image /\ k.off = n
      /\ k.op = "write" /\ k.store = job[t].store /\ k.ids = job[t].ids /\ k.left = job[t].left
  BY <1>1, <1>3 DEF WriterFields
<1>. HIDE DEF k
<1>5. WriterOk(k) /\ job[t].at \in job[t].ids
  BY <1>1, <1>3, <1>4 DEF WriterOk
<1>6. Advances(t) /\ job'[t] = k
  BY <1>1, <1>2, <1>3, <1>4, <1>5, WriterStep
<1>. QED BY <1>1, <1>4, <1>5, <1>6

LEMMA LayerIsStored ==
  ASSUME Typed, NEW t \in Task, Stored(t)
  PROVE  /\ construction' = construction /\ archive' = archive
         /\ job[t] # Idle /\ job[t].op = "write" /\ WriterOk(job[t]) /\ job[t].store \in Store
         /\ job[t].pc = "chunk" /\ layer_exists(job[t].store, job[t].at)
         /\ job[t].off = Len(job[t].image.data)
         /\ \/ /\ Moves(t) /\ job'[t] = Idle /\ job[t].left = {job[t].at}
               /\ acked' = [acked EXCEPT ![job[t].store] = @ \cup job[t].ids]
            \/ /\ Advances(t) /\ job'[t].pc = "work" /\ acked' = acked
               /\ job'[t].left = job[t].left \ {job[t].at}
<1>1. /\ job[t] # Idle /\ job[t].pc = "chunk" /\ layer_exists(job[t].store, job[t].at)
      /\ job[t].off = Len(job[t].image.data)
      /\ construction' = construction /\ archive' = archive
      /\ \/ /\ End(t) /\ job[t].left = {job[t].at}
            /\ acked' = [acked EXCEPT ![job[t].store] = @ \cup job[t].ids]
         \/ /\ job' = [job EXCEPT ![t].pc = "work", ![t].left = @ \ {job[t].at}, ![t].at = None]
            /\ acked' = acked
  BY DEF Stored
<1>2. /\ job[t].op = "write" /\ WriterOk(job[t]) /\ WriterFields \subseteq DOMAIN job[t]
      /\ job[t].store \in Store
  BY <1>1, WriterIs
<1>3. End(t) => Moves(t) /\ job'[t] = Idle
  BY DEF End, Moves, Typed
<1>4. CASE job' = [job EXCEPT ![t].pc = "work", ![t].left = @ \ {job[t].at}, ![t].at = None]
  <2>. DEFINE k == [job[t] EXCEPT !.pc = "work", !.left = @ \ {job[t].at}, !.at = None]
  <2>1. job' = [job EXCEPT ![t] = k]
    BY <1>4
  <2>2. /\ DOMAIN k = DOMAIN job[t] /\ k.pc = "work" /\ k.left = job[t].left \ {job[t].at}
        /\ k.op = "write" /\ k.store = job[t].store /\ k.ids = job[t].ids
    BY <1>2 DEF WriterFields
  <2>. HIDE DEF k
  <2>3. WriterOk(k)
    BY <1>2, <2>2 DEF WriterOk
  <2>4. Advances(t) /\ job'[t] = k
    BY <1>1, <1>2, <2>1, <2>2, <2>3, WriterStep
  <2>. QED BY <1>1, <1>2, <1>3, <2>2, <2>4
<1>. QED BY <1>1, <1>2, <1>3, <1>4

-----------------------------------------------------------------------------
(* The steps that matter for what is on disk.                              *)
LEMMA DiskSteps ==
  ASSUME Typed, NEW t \in Task, ByTask(t)
  PROVE  \/ Quiet(t) \/ WriterStarts(t) \/ create_named_directory(t) \/ Claim(t) \/ finalize(t)
         \/ StoreOpen(t) \/ store_layer_file(t) \/ Stored(t)
<1>1. ASSUME NEW l \in Layer, StartBuild(t, l) \/ StartGetRollup(t, l)
      PROVE  Quiet(t) \/ WriterStarts(t)
  BY <1>1, BuildStarts, GetRollupStarts
<1>2. ASSUME NEW dirs \in Requests, StartImport(t, dirs) \/ StartExport(t, dirs)
      PROVE  Quiet(t) \/ WriterStarts(t)
  BY <1>2, ImportStarts, ExportStarts
<1>3. ASSUME NEW s \in Store, NEW l \in Layer,
             ReadParentName(t, s, l) \/ \E part \in Asked : StartRead(t, s, l, part)
      PROVE  Quiet(t)
  BY <1>3, ParentNameRead, ReadStarts
<1>4. ASSUME NEW l \in Layer, NEW r \in RollupName, write_rollup_file(t, l, r)
      PROVE  Quiet(t)
  BY <1>4, SetRollupStarts
<1>5. CASE get_file(t) \/ InsertFile(t) \/ write_file(t) \/ DropBuilder(t) \/ PoisonedLock(t)
  BY <1>5, FileIsGot, FileIsInserted, FileIsWritten, BuilderIsDropped, LockIsPoisoned
<1>6. CASE AskParent(t) \/ MapFiles(t) \/ Return(t) \/ export_layers(t) \/ ExportDone(t)
  BY <1>6, ParentIsAsked, FilesAreMapped, CallReturns, LayerIsExported, ExportReturns
<1>7. CASE LockExclusive(t) \/ set_rollup(t) \/ LockShared(t) \/ get_rollup(t)
  BY <1>7, ExclusiveIsTaken, RollupIsSet, SharedIsTaken, RollupIsRead
<1>. QED BY <1>1, <1>2, <1>3, <1>4, <1>5, <1>6, <1>7 DEF ByTask

(* The steps that matter for the rollup files.                             *)
LEMMA WriterUnlocked ==
  ASSUME NEW t \in Task, job'[t] = Idle \/ job'[t].op = "write"
  PROVE  Unlocked(job'[t])
BY DEF Unlocked

LEMMA StepsUnlocked ==
  ASSUME Typed, NEW t \in Task, ByTask(t)
  PROVE  \/ LockExclusive(t) \/ set_rollup(t) \/ LockShared(t)
         \/ Moves(t) /\ Unlocked(job'[t])
<1>0. ASSUME WriterStarts(t)
      PROVE  Moves(t) /\ Unlocked(job'[t])
  BY <1>0, WriterUnlocked DEF WriterStarts
<1>1. ASSUME NEW l \in Layer, StartBuild(t, l) \/ StartGetRollup(t, l)
      PROVE  Moves(t) /\ Unlocked(job'[t])
  BY <1>0, <1>1, BuildStarts, GetRollupStarts DEF Quiet
<1>2. ASSUME NEW dirs \in Requests, StartImport(t, dirs) \/ StartExport(t, dirs)
      PROVE  Moves(t) /\ Unlocked(job'[t])
  BY <1>0, <1>2, ImportStarts, ExportStarts DEF Quiet
<1>3. ASSUME NEW s \in Store, NEW l \in Layer,
             ReadParentName(t, s, l) \/ \E part \in Asked : StartRead(t, s, l, part)
      PROVE  Moves(t) /\ Unlocked(job'[t])
  BY <1>3, ParentNameRead, ReadStarts DEF Quiet
<1>4. ASSUME NEW l \in Layer, NEW r \in RollupName, write_rollup_file(t, l, r)
      PROVE  Moves(t) /\ Unlocked(job'[t])
  BY <1>4, SetRollupStarts DEF Quiet
<1>5. CASE get_file(t) \/ InsertFile(t) \/ write_file(t) \/ DropBuilder(t) \/ PoisonedLock(t)
  BY <1>5, FileIsGot, FileIsInserted, FileIsWritten, BuilderIsDropped, LockIsPoisoned DEF Quiet
<1>6. CASE AskParent(t) \/ MapFiles(t) \/ Return(t) \/ export_layers(t) \/ ExportDone(t)
  BY <1>6, ParentIsAsked, FilesAreMapped, CallReturns, LayerIsExported, ExportReturns DEF Quiet
<1>7. CASE get_rollup(t)
  BY <1>7, RollupIsRead DEF Quiet
<1>8. CASE \/ create_named_directory(t) \/ Claim(t) \/ finalize(t)
           \/ StoreOpen(t) \/ store_layer_file(t) \/ Stored(t)
  <2>1. Moves(t) /\ (job'[t] = Idle \/ job'[t].op = "write")
    <3>1. CASE create_named_directory(t)
      BY <3>1, DiskIsLookedAt DEF Quiet, Advances
    <3>2. CASE Claim(t)
      BY <3>2, DirectoryIsClaimed DEF Quiet, Advances
    <3>3. CASE finalize(t)
      BY <3>3, DirectoryIsFinalized DEF Quiet, Advances
    <3>4. CASE StoreOpen(t)
      BY <3>4, ArchiveIsOpened DEF Advances
    <3>5. CASE Stored(t)
      BY <3>5, LayerIsStored DEF Advances
    <3>6. CASE store_layer_file(t)
      BY <3>6, ChunkIsWritten DEF Advances
    <3>. QED BY <1>8, <3>1, <3>2, <3>3, <3>4, <3>5, <3>6
  <2>. QED BY <2>1, WriterUnlocked
<1>. QED BY <1>1, <1>2, <1>3, <1>4, <1>5, <1>6, <1>7, <1>8 DEF ByTask

LEMMA StepsKeepRollups ==
  ASSUME NEW t \in Task, ByTask(t)
  PROVE  \/ set_rollup(t)
         \/ /\ rollup' = rollup /\ cut' = cut
            /\ job[t] = Idle \/ job[t].pc # "write" \/ job'[t] = job[t]
<1>1. ASSUME NEW l \in Layer, StartBuild(t, l) \/ StartGetRollup(t, l)
      PROVE  rollup' = rollup /\ cut' = cut /\ job[t] = Idle
  BY <1>1 DEF StartBuild, StartGetRollup, Call
<1>2. ASSUME NEW dirs \in Requests, StartImport(t, dirs) \/ StartExport(t, dirs)
      PROVE  rollup' = rollup /\ cut' = cut /\ job[t] = Idle
  BY <1>2 DEF StartImport, StartExport, Call
<1>3. ASSUME NEW s \in Store, NEW l \in Layer,
             ReadParentName(t, s, l) \/ \E part \in Asked : StartRead(t, s, l, part)
      PROVE  rollup' = rollup /\ cut' = cut /\ job[t] = Idle
  BY <1>3 DEF ReadParentName, StartRead, Call
<1>4. ASSUME NEW l \in Layer, NEW r \in RollupName, write_rollup_file(t, l, r)
      PROVE  rollup' = rollup /\ cut' = cut /\ job[t] = Idle
  BY <1>4 DEF write_rollup_file, Call
<1>5. CASE get_file(t) \/ InsertFile(t) \/ write_file(t) \/ DropBuilder(t) \/ PoisonedLock(t)
  BY <1>5 DEF get_file, InsertFile, write_file, DropBuilder, PoisonedLock, NeedsMap, NextWork
<1>6. CASE AskParent(t) \/ MapFiles(t) \/ Return(t) \/ export_layers(t) \/ ExportDone(t)
  BY <1>6 DEF AskParent, MapFiles, Return, export_layers, ExportDone
<1>7. CASE LockExclusive(t) \/ LockShared(t) \/ get_rollup(t)
  BY <1>7 DEF LockExclusive, LockShared, get_rollup
<1>8. CASE create_named_directory(t) \/ Claim(t) \/ finalize(t)
  BY <1>8 DEF create_named_directory, Claim, finalize
<1>9. CASE StoreOpen(t) \/ store_layer_file(t) \/ Stored(t)
  BY <1>9 DEF StoreOpen, store_layer_file, Stored
<1>. QED BY <1>1, <1>2, <1>3, <1>4, <1>5, <1>6, <1>7, <1>8, <1>9 DEF ByTask

-----------------------------------------------------------------------------
(* Types.                                                                  *)
LEMMA TypedInit == Init => Typed
BY DEF Init, Typed

LEMMA MovedJobs ==
  ASSUME Typed, NEW t \in Task, Moves(t), JobOk1(job'[t])
  PROVE  DOMAIN job' = Task /\ \A u \in Task : job'[u] # Idle => JobOk(job'[u])
BY DEF Typed, Moves, JobOk1

LEMMA TypedCrash == Typed /\ Crash => Typed'
BY DEF Typed, Crash

LEMMA TypedJobs ==
  ASSUME Typed, NEW t \in Task, ByTask(t)
  PROVE  DOMAIN job' = Task /\ \A u \in Task : job'[u] # Idle => JobOk(job'[u])
<1>1. CASE Quiet(t)
  BY <1>1, MovedJobs DEF Quiet
<1>2. CASE WriterStarts(t)
  BY <1>2, MovedJobs DEF WriterStarts, JobOk1
<1>3. CASE create_named_directory(t) \/ Claim(t) \/ finalize(t)
  <2>1. Moves(t) /\ (job'[t] # Idle => JobOk(job'[t]))
    BY <1>3, DiskIsLookedAt, DirectoryIsClaimed, DirectoryIsFinalized DEF Quiet, Advances
  <2>. QED BY <2>1, MovedJobs DEF JobOk1
<1>4. CASE StoreOpen(t) \/ store_layer_file(t)
  <2>1. Moves(t) /\ (job'[t] # Idle => JobOk(job'[t]))
    BY <1>4, ArchiveIsOpened, ChunkIsWritten DEF Advances
  <2>. QED BY <2>1, MovedJobs DEF JobOk1
<1>5. CASE Stored(t)
  <2>1. Moves(t) /\ (job'[t] # Idle => JobOk(job'[t]))
    BY <1>5, LayerIsStored DEF Advances
  <2>. QED BY <2>1, MovedJobs DEF JobOk1
<1>. QED BY <1>1, <1>2, <1>3, <1>4, <1>5, DiskSteps

LEMMA TypedDisk ==
  ASSUME Typed, NEW t \in Task, ByTask(t)
  PROVE  /\ DOMAIN construction' = Store /\ \A s \in Store : DOMAIN construction'[s] = Layer
         /\ DOMAIN archive' = Store /\ \A s \in Store : DOMAIN archive'[s] = Layer
         /\ DOMAIN acked' = Store /\ \A s \in Store : acked'[s] \subseteq Layer
         /\ DOMAIN rollup' = Layer
<1>0. DOMAIN rollup' = Layer
  BY StepsKeepRollups, RollupIsSet DEF Typed
<1>1. CASE Quiet(t)
  BY <1>0, <1>1 DEF Quiet, Typed
<1>2. CASE WriterStarts(t)
  BY <1>0, <1>2 DEF WriterStarts, Typed
<1>3. CASE create_named_directory(t)
  BY <1>0, <1>3, DiskIsLookedAt DEF Typed
<1>4. CASE Claim(t)
  <2>1. DOMAIN construction' = Store /\ \A s \in Store : DOMAIN construction'[s] = Layer
    <3>1. CASE Quiet(t)
      BY <3>1 DEF Quiet
    <3>2. ASSUME NEW g, construction' = [construction EXCEPT ![job[t].store][Head(job[t].dirs)] = g]
          PROVE  DOMAIN construction' = Store /\ \A s \in Store : DOMAIN construction'[s] = Layer
      BY <3>2 DEF Typed
    <3>. QED BY <1>4, <3>1, <3>2, DirectoryIsClaimed
  <2>. QED BY <1>0, <1>4, <2>1, DirectoryIsClaimed DEF Typed
<1>5. CASE finalize(t)
  <2>1. DOMAIN construction' = Store /\ \A s \in Store : DOMAIN construction'[s] = Layer
    <3>1. CASE Quiet(t)
      BY <3>1 DEF Quiet
    <3>2. ASSUME NEW l, construction' = [construction EXCEPT ![job[t].store][l] = NoDir]
          PROVE  DOMAIN construction' = Store /\ \A s \in Store : DOMAIN construction'[s] = Layer
      BY <3>2 DEF Typed
    <3>. QED BY <1>5, <3>1, <3>2, DirectoryIsFinalized
  <2>. QED BY <1>0, <1>5, <2>1, DirectoryIsFinalized DEF Typed
<1>6. CASE StoreOpen(t) \/ store_layer_file(t)
  <2>1. DOMAIN archive' = Store /\ \A s \in Store : DOMAIN archive'[s] = Layer
    <3>1. ASSUME NEW a, archive' = [archive EXCEPT ![job[t].store][job[t].at] = a]
          PROVE  DOMAIN archive' = Store /\ \A s \in Store : DOMAIN archive'[s] = Layer
      BY <3>1 DEF Typed
    <3>2. CASE StoreOpen(t)
      BY <3>1, <3>2, ArchiveIsOpened
    <3>3. CASE store_layer_file(t)
      BY <3>1, <3>3, ChunkIsWritten
    <3>. QED BY <1>6, <3>2, <3>3
  <2>. QED BY <1>0, <1>6, <2>1, ArchiveIsOpened, ChunkIsWritten DEF Typed
<1>7. CASE Stored(t)
  <2>1. DOMAIN acked' = Store /\ \A s \in Store : acked'[s] \subseteq Layer
    BY <1>7, LayerIsStored DEF Typed, WriterOk
  <2>. QED BY <1>0, <1>7, <2>1, LayerIsStored DEF Typed
<1>. QED BY <1>1, <1>2, <1>3, <1>4, <1>5, <1>6, <1>7, DiskSteps

LEMMA TypedNext == Typed /\ [Next]_vars => Typed'
<1>1. CASE UNCHANGED vars
  BY <1>1 DEF vars, Typed
<1>2. ASSUME Typed, NEW t \in Task, ByTask(t)
      PROVE  Typed'
  BY <1>2, TypedJobs, TypedDisk DEF Typed
<1>. QED BY <1>1, <1>2, TypedCrash, NextIsByTask

-----------------------------------------------------------------------------
(* What is on disk, and who may write it.                                  *)
Writing(t) == job[t] # Idle /\ job[t].op = "write"

WritersAreApart ==
  \A t, u \in Task :
    t # u /\ Writing(t) /\ Writing(u) /\ job[t].store = job[u].store
      => job[t].ids \cap job[u].ids = {}

ConstructedOrStored ==
  \A s \in Store, l \in Layer : construction[s][l] # NoDir => archive[s][l] = NoFile

WriterPhase(t) ==
  LET s == job[t].store
  IN  /\ job[t].pc = "claim" => archive[s][Head(job[t].dirs)] = NoFile
      /\ job[t].pc \in {"open", "chunk"} => construction[s][job[t].at] = NoDir
      /\ job[t].pc = "open" => archive[s][job[t].at] = NoFile
      /\ job[t].pc = "chunk" => archive[s][job[t].at] = WithWritten(job[t].image, job[t].off)
      /\ \A l \in job[t].ids \ job[t].left : Whole(archive[s][l])

WriterPhases == \A t \in Task : Writing(t) => WriterPhase(t)

(* A commit or an import returns only after the archives are complete.     *)
AckedIsWhole == \A s \in Store : \A l \in acked[s] : Whole(archive[s][l])

OnDisk == WritersAreApart /\ ConstructedOrStored /\ WriterPhases /\ AckedIsWhole

LEMMA OnDiskInit == Init => OnDisk
BY DEF Init, OnDisk, WritersAreApart, ConstructedOrStored, WriterPhases, AckedIsWhole, Writing

LEMMA OnDiskCrash == Typed /\ OnDisk /\ Crash => OnDisk'
<1>. SUFFICES ASSUME Typed, OnDisk, Crash
              PROVE  OnDisk'
  OBVIOUS
<1>1. /\ \A t \in Task : job'[t] = Idle
      /\ \A s \in Store, l \in Layer : construction'[s][l] = NoDir
      /\ archive' = archive /\ acked' = acked
  BY DEF Crash
<1>2. WritersAreApart' /\ WriterPhases'
  BY <1>1 DEF WritersAreApart, WriterPhases, Writing
<1>3. ConstructedOrStored' /\ AckedIsWhole'
  BY <1>1 DEF ConstructedOrStored, AckedIsWhole, OnDisk
<1>. QED BY <1>2, <1>3 DEF OnDisk

LEMMA OnDiskQuiet ==
  ASSUME Typed, OnDisk, NEW t \in Task, Quiet(t)
  PROVE  OnDisk'
<1>1. /\ \A u \in Task : u # t => job'[u] = job[u]
      /\ GoesOn(job[t], job'[t]) /\ archive' = archive /\ acked' = acked
      /\ \A s \in Store, l \in Layer : construction[s][l] = NoDir => construction'[s][l] = NoDir
  BY DEF Quiet, Moves
<1>2. WritersAreApart'
  BY <1>1 DEF GoesOn, OnDisk, WritersAreApart, Writing
<1>3. ConstructedOrStored' /\ AckedIsWhole'
  BY <1>1 DEF OnDisk, ConstructedOrStored, AckedIsWhole
<1>4. WriterPhases'
  <2>1. ASSUME NEW u \in Task, Writing(u)'
        PROVE  WriterPhase(u)'
    <3>1. CASE u # t
      <4>1. Writing(u) /\ job'[u] = job[u] /\ WriterPhase(u)
        BY <1>1, <2>1, <3>1 DEF Writing, OnDisk, WriterPhases
      <4>2. JobOk(job[u]) /\ WriterOk(job[u]) /\ job[u].store \in Store
        BY <4>1 DEF Typed, JobOk, Writing
      <4>3. job[u].pc \in {"open", "chunk"} => job[u].at \in Layer
        BY <4>2 DEF WriterOk
      <4>. QED BY <1>1, <4>1, <4>2, <4>3 DEF WriterPhase
    <3>2. CASE u = t
      <4>1. Writing(t) /\ WriterPhase(t) /\ job'[t].store = job[t].store /\ job'[t].ids = job[t].ids
            /\ job'[t].left = job[t].left /\ job'[t].pc \in {"exists", "work", "insert"}
        BY <1>1, <2>1, <3>2 DEF Writing, GoesOn, OnDisk, WriterPhases
      <4>. QED BY <1>1, <3>2, <4>1 DEF WriterPhase
    <3>. QED BY <3>1, <3>2
  <2>. QED BY <2>1 DEF WriterPhases
<1>. QED BY <1>2, <1>3, <1>4 DEF OnDisk

(* Facts about writers that every step below needs.                        *)
LEMMA WriterFacts ==
  ASSUME Typed, OnDisk, NEW u \in Task, Writing(u)
  PROVE  /\ WriterPhase(u) /\ WriterOk(job[u]) /\ job[u].store \in Store
         /\ job[u].pc = "claim" => Head(job[u].dirs) \in job[u].ids
         /\ job[u].pc \in {"open", "chunk"} => job[u].at \in job[u].ids
         /\ job[u].ids \subseteq Layer
<1>1. WriterPhase(u) /\ JobOk(job[u]) /\ WriterOk(job[u]) /\ job[u].store \in Store
  BY DEF Typed, OnDisk, WriterPhases, Writing, JobOk
<1>2. ASSUME job[u].pc = "claim"
      PROVE  Head(job[u].dirs) \in job[u].ids
  <2>1. /\ job[u].dirs \in Seq(Layer) /\ job[u].dirs # << >>
        /\ \A i \in 1..Len(job[u].dirs) : job[u].dirs[i] \in job[u].ids
    BY <1>1, <1>2 DEF WriterOk
  <2>. QED BY <2>1
<1>. QED BY <1>1, <1>2 DEF WriterOk

LEMMA OnDiskStarts ==
  ASSUME ~Rivals, Typed, OnDisk, NEW t \in Task, WriterStarts(t)
  PROVE  OnDisk'
<1>1. /\ \A u \in Task : u # t => job'[u] = job[u]
      /\ archive' = archive /\ acked' = acked /\ construction' = construction
      /\ job'[t].op = "write" /\ job'[t].pc = "exists" /\ job'[t].left = job'[t].ids
      /\ \A l \in job'[t].ids : ~Busy(job'[t].store, l)
  BY DEF WriterStarts, Moves
<1>2. WritersAreApart'
  <2>1. ASSUME NEW u \in Task, u # t, Writing(u), job[u].store = job'[t].store
        PROVE  job[u].ids \cap job'[t].ids = {}
    BY <1>1, <2>1 DEF Busy, Writing
  <2>2. \A u \in Task : u # t => (Writing(u)' <=> Writing(u))
    BY <1>1 DEF Writing
  <2>. QED BY <1>1, <2>1, <2>2 DEF OnDisk, WritersAreApart
<1>3. ConstructedOrStored' /\ AckedIsWhole'
  BY <1>1 DEF OnDisk, ConstructedOrStored, AckedIsWhole
<1>4. WriterPhases'
  <2>1. ASSUME NEW u \in Task, Writing(u)', u # t
        PROVE  WriterPhase(u)'
    <3>1. Writing(u) /\ job'[u] = job[u] /\ WriterPhase(u)
      BY <1>1, <2>1 DEF Writing, OnDisk, WriterPhases
    <3>. QED BY <1>1, <3>1 DEF WriterPhase
  <2>2. WriterPhase(t)'
    BY <1>1 DEF WriterPhase
  <2>. QED BY <2>1, <2>2 DEF WriterPhases
<1>. QED BY <1>2, <1>3, <1>4 DEF OnDisk

LEMMA ApartAdvances ==
  ASSUME Typed, OnDisk, NEW t \in Task, Advances(t)
  PROVE  WritersAreApart'
<1>1. /\ \A u \in Task : u # t => job'[u] = job[u]
      /\ Writing(t) /\ job'[t].store = job[t].store /\ job'[t].ids = job[t].ids
  BY DEF Advances, Moves, Writing
<1>2. \A u \in Task : u # t => (Writing(u)' <=> Writing(u))
  BY <1>1 DEF Writing
<1>. QED BY <1>1, <1>2 DEF OnDisk, WritersAreApart

LEMMA OnDiskLooked ==
  ASSUME Typed, OnDisk, NEW t \in Task, create_named_directory(t)
  PROVE  OnDisk'
<1>1. CASE Quiet(t)
  BY <1>1, OnDiskQuiet
<1>2. CASE /\ Advances(t) /\ job'[t].pc = "claim" /\ job'[t].left = job[t].left
           /\ archive[job[t].store][Head(job'[t].dirs)] = NoFile
  <2>1. construction' = construction /\ archive' = archive /\ acked' = acked
    BY DiskIsLookedAt
  <2>2. ConstructedOrStored' /\ AckedIsWhole'
    BY <2>1 DEF OnDisk, ConstructedOrStored, AckedIsWhole
  <2>3. ASSUME NEW u \in Task, Writing(u)', u # t
        PROVE  WriterPhase(u)'
    <3>1. Writing(u) /\ job'[u] = job[u] /\ WriterPhase(u)
      BY <1>2, <2>3 DEF Writing, OnDisk, WriterPhases, Advances, Moves
    <3>. QED BY <2>1, <3>1 DEF WriterPhase
  <2>4. WriterPhase(t)'
    <3>1. Writing(t) /\ WriterPhase(t)
      BY <1>2 DEF Writing, OnDisk, WriterPhases, Advances
    <3>2. job'[t].store = job[t].store /\ job'[t].ids = job[t].ids
      BY <1>2 DEF Advances
    <3>. QED BY <1>2, <2>1, <3>1, <3>2 DEF WriterPhase
  <2>5. WritersAreApart'
    BY <1>2, ApartAdvances
  <2>. QED BY <2>2, <2>3, <2>4, <2>5 DEF OnDisk, WriterPhases
<1>. QED BY <1>1, <1>2, DiskIsLookedAt

LEMMA OnDiskClaimed ==
  ASSUME Typed, OnDisk, NEW t \in Task, Claim(t)
  PROVE  OnDisk'
<1>1. CASE Quiet(t)
  BY <1>1, OnDiskQuiet
<1>2. ASSUME Advances(t), job[t].pc = "claim", job'[t].pc \in {"work", "exists"},
             job'[t].left = job[t].left, Head(job[t].dirs) \in job[t].ids,
             NEW g, construction' = [construction EXCEPT ![job[t].store][Head(job[t].dirs)] = g]
      PROVE  OnDisk'
  <2>. DEFINE s == job[t].store
              h == Head(job[t].dirs)
  <2>1. archive' = archive /\ acked' = acked
    BY DirectoryIsClaimed
  <2>2. /\ Writing(t) /\ WriterPhase(t) /\ WriterOk(job[t]) /\ s \in Store /\ h \in Layer
        /\ archive[s][h] = NoFile
    <3>1. Writing(t)
      BY <1>2 DEF Advances, Writing
    <3>2. WriterPhase(t) /\ WriterOk(job[t]) /\ s \in Store /\ job[t].ids \subseteq Layer
      BY <3>1, WriterFacts
    <3>. QED BY <1>2, <3>1, <3>2 DEF WriterPhase
  <2>. HIDE DEF h
  <2>3. \A r \in Store, l \in Layer :
           r # s \/ l # h => construction'[r][l] = construction[r][l]
    BY <1>2, <2>2 DEF Typed, h
  <2>4. ConstructedOrStored' /\ AckedIsWhole'
    BY <2>1, <2>2, <2>3 DEF OnDisk, ConstructedOrStored, AckedIsWhole
  <2>5. ASSUME NEW u \in Task, Writing(u)', u # t
        PROVE  WriterPhase(u)'
    <3>1. Writing(u) /\ job'[u] = job[u] /\ WriterPhase(u)
      BY <1>2, <2>5 DEF Writing, OnDisk, WriterPhases, Advances, Moves
    <3>2. /\ job[u].store \in Store /\ job[u].ids \subseteq Layer
          /\ job[u].pc \in {"open", "chunk"} => job[u].at \in job[u].ids
      BY <3>1, WriterFacts
    <3>3. job[u].store = s => h \notin job[u].ids
      BY <1>2, <2>2, <2>5, <3>1 DEF OnDisk, WritersAreApart, h
    <3>4. job[u].pc \in {"open", "chunk"} => construction'[job[u].store][job[u].at] = NoDir
      BY <2>3, <3>1, <3>2, <3>3 DEF WriterPhase
    <3>. QED BY <2>1, <3>1, <3>4 DEF WriterPhase
  <2>6. WriterPhase(t)'
    <3>1. job'[t].store = job[t].store /\ job'[t].ids = job[t].ids
      BY <1>2 DEF Advances
    <3>. QED BY <1>2, <2>1, <2>2, <3>1 DEF WriterPhase
  <2>7. WritersAreApart'
    BY <1>2, ApartAdvances
  <2>. QED BY <2>4, <2>5, <2>6, <2>7 DEF OnDisk, WriterPhases
<1>. QED BY <1>1, <1>2, DirectoryIsClaimed

LEMMA OnDiskFinalized ==
  ASSUME Typed, OnDisk, NEW t \in Task, finalize(t)
  PROVE  OnDisk'
<1>1. CASE Quiet(t)
  BY <1>1, OnDiskQuiet
<1>2. CASE /\ Advances(t) /\ job'[t].pc = "open"
           /\ job'[t].left = job[t].left /\ job'[t].at \in job[t].left
           /\ UnderConstruction(job[t].store, job'[t].at)
           /\ construction' = [construction EXCEPT ![job[t].store][job'[t].at] = NoDir]
  <2>1. archive' = archive /\ acked' = acked
    BY DirectoryIsFinalized
  <2>2. PICK l : l = job'[t].at
    OBVIOUS
  <2>3. /\ Writing(t) /\ WriterPhase(t) /\ job[t].store \in Store /\ l \in Layer
        /\ construction[job[t].store][l] # NoDir
    <3>1. Writing(t)
      BY <1>2 DEF Advances, Writing
    <3>2. WriterPhase(t) /\ WriterOk(job[t]) /\ job[t].store \in Store /\ job[t].ids \subseteq Layer
      BY <3>1, WriterFacts
    <3>. QED BY <1>2, <2>2, <3>1, <3>2 DEF WriterOk, UnderConstruction
  <2>4. archive[job[t].store][l] = NoFile
    BY <2>3 DEF OnDisk, ConstructedOrStored
  <2>5. /\ \A r \in Store, m \in Layer : construction[r][m] = NoDir => construction'[r][m] = NoDir
        /\ construction'[job[t].store][l] = NoDir
    BY <1>2, <2>2, <2>3 DEF Typed
  <2>6. ConstructedOrStored' /\ AckedIsWhole'
    BY <2>1, <2>5 DEF OnDisk, ConstructedOrStored, AckedIsWhole
  <2>7. ASSUME NEW u \in Task, Writing(u)', u # t
        PROVE  WriterPhase(u)'
    <3>1. Writing(u) /\ job'[u] = job[u] /\ WriterPhase(u)
      BY <1>2, <2>7 DEF Writing, OnDisk, WriterPhases, Advances, Moves
    <3>2. /\ job[u].store \in Store
          /\ job[u].pc \in {"open", "chunk"} => job[u].at \in Layer
      BY <3>1, WriterFacts
    <3>3. job[u].pc \in {"open", "chunk"} => construction'[job[u].store][job[u].at] = NoDir
      BY <2>5, <3>1, <3>2 DEF WriterPhase
    <3>. QED BY <2>1, <3>1, <3>3 DEF WriterPhase
  <2>8. WriterPhase(t)'
    <3>1. job'[t].store = job[t].store /\ job'[t].ids = job[t].ids
      BY <1>2 DEF Advances
    <3>. QED BY <1>2, <2>1, <2>2, <2>3, <2>4, <2>5, <3>1 DEF WriterPhase
  <2>9. WritersAreApart'
    BY <1>2, ApartAdvances
  <2>. QED BY <2>6, <2>7, <2>8, <2>9 DEF OnDisk, WriterPhases
<1>. QED BY <1>1, <1>2, DirectoryIsFinalized

(* Writing an archive that is not complete leaves the others alone.        *)
LEMMA WholeIsKept ==
  ASSUME Typed, OnDisk, NEW t \in Task, StoreOpen(t) \/ store_layer_file(t)
  PROVE  /\ Writing(t) /\ job[t].store \in Store /\ job[t].at \in job[t].ids
         /\ construction[job[t].store][job[t].at] = NoDir
         /\ ~Whole(archive[job[t].store][job[t].at])
         /\ archive'[job[t].store][job[t].at] = WithWritten(job'[t].image, job'[t].off)
         /\ \A s \in Store, l \in Layer :
              s # job[t].store \/ l # job[t].at => archive'[s][l] = archive[s][l]
<1>1. CASE StoreOpen(t)
  <2>1. Writing(t) /\ job[t].pc = "open" /\ job[t].at \in job[t].ids
    BY <1>1, ArchiveIsOpened DEF Advances, Writing
  <2>2. WriterPhase(t) /\ job[t].store \in Store /\ job[t].ids \subseteq Layer
    BY <2>1, WriterFacts
  <2>3. /\ construction[job[t].store][job[t].at] = NoDir
        /\ archive[job[t].store][job[t].at] = NoFile
    BY <2>1, <2>2 DEF WriterPhase
  <2>4. PICK a : archive' = [archive EXCEPT ![job[t].store][job[t].at] = a]
    BY <1>1, ArchiveIsOpened
  <2>6. archive'[job[t].store][job[t].at] = WithWritten(job'[t].image, job'[t].off)
    <3>1. Opened(archive[job[t].store][job[t].at], job[t].image) = WithWritten(job[t].image, -1)
      BY <2>3 DEF Opened
    <3>2. /\ archive' = [archive EXCEPT ![job[t].store][job[t].at] = WithWritten(job[t].image, -1)]
          /\ job'[t].image = job[t].image /\ job'[t].off = -1
      BY <1>1, <3>1, ArchiveIsOpened
    <3>. QED BY <2>1, <2>2, <3>2 DEF Typed
  <2>5. \A s \in Store, l \in Layer :
           s # job[t].store \/ l # job[t].at => archive'[s][l] = archive[s][l]
    BY <2>1, <2>2, <2>4 DEF Typed
  <2>. QED BY <2>1, <2>2, <2>3, <2>5, <2>6 DEF Whole
<1>2. CASE store_layer_file(t)
  <2>1. /\ Writing(t) /\ job[t].pc = "chunk" /\ job[t].at \in job[t].ids
        /\ job[t].off # Len(job[t].image.data)
    BY <1>2, ChunkIsWritten DEF Advances, Writing
  <2>2. WriterPhase(t) /\ job[t].store \in Store /\ job[t].ids \subseteq Layer
    BY <2>1, WriterFacts
  <2>3. /\ construction[job[t].store][job[t].at] = NoDir
        /\ archive[job[t].store][job[t].at] = WithWritten(job[t].image, job[t].off)
        /\ ~Whole(archive[job[t].store][job[t].at])
    <3>1. /\ construction[job[t].store][job[t].at] = NoDir
          /\ archive[job[t].store][job[t].at] = WithWritten(job[t].image, job[t].off)
      BY <2>1, <2>2 DEF WriterPhase
    <3>. QED BY <2>1, <3>1 DEF Whole, WithWritten
  <2>4. PICK a : archive' = [archive EXCEPT ![job[t].store][job[t].at] = a]
    BY <1>2, ChunkIsWritten
  <2>6. archive'[job[t].store][job[t].at] = WithWritten(job'[t].image, job'[t].off)
    <3>. DEFINE n == job'[t].off
                b == archive[job[t].store][job[t].at]
    <3>1. /\ archive' = [archive EXCEPT ![job[t].store][job[t].at] =
                           Overwritten(b, job[t].image, job[t].off, n)]
          /\ job'[t].image = job[t].image /\ n > job[t].off
      BY <1>2, ChunkIsWritten
    <3>2. b.written = job[t].off /\ b = WithWritten(job[t].image, b.written)
      BY <2>3 DEF WithWritten
    <3>. HIDE DEF n, b
    <3>3. Overwritten(b, job[t].image, job[t].off, n) = WithWritten(job[t].image, n)
      BY <3>1, <3>2 DEF Overwritten
    <3>. QED BY <2>1, <2>2, <3>1, <3>3 DEF Typed, n
  <2>5. \A s \in Store, l \in Layer :
           s # job[t].store \/ l # job[t].at => archive'[s][l] = archive[s][l]
    BY <2>1, <2>2, <2>4 DEF Typed
  <2>. QED BY <2>1, <2>2, <2>3, <2>5, <2>6
<1>. QED BY <1>1, <1>2

LEMMA OnDiskWritten ==
  ASSUME Typed, OnDisk, NEW t \in Task, StoreOpen(t) \/ store_layer_file(t)
  PROVE  OnDisk'
<1>. DEFINE s == job[t].store
            m == job[t].at
<1>1. /\ Writing(t) /\ s \in Store /\ m \in job[t].ids /\ construction[s][m] = NoDir
      /\ ~Whole(archive[s][m]) /\ archive'[s][m] = WithWritten(job'[t].image, job'[t].off)
      /\ \A r \in Store, l \in Layer : r # s \/ l # m => archive'[r][l] = archive[r][l]
  BY WholeIsKept
<1>2. /\ construction' = construction /\ acked' = acked
      /\ \A u \in Task : /\ u # t => job'[u] = job[u]
                         /\ Writing(u)' => Writing(u)
      /\ job'[t].store = s /\ job'[t].ids = job[t].ids /\ job'[t].left = job[t].left
      /\ job'[t].at = m /\ job'[t].pc = "chunk"
  <2>1. CASE StoreOpen(t)
    <3>1. \A u \in Task : u # t => job'[u] = job[u]
      BY <2>1, ArchiveIsOpened DEF Advances, Moves
    <3>2. Writing(t)
      BY <1>1
    <3>3. \A u \in Task : u # t => (Writing(u)' => Writing(u))
      BY <3>1 DEF Writing
    <3>. QED BY <2>1, <3>1, <3>2, <3>3, ArchiveIsOpened DEF Advances
  <2>2. CASE store_layer_file(t)
    <3>1. \A u \in Task : u # t => job'[u] = job[u]
      BY <2>2, ChunkIsWritten DEF Advances, Moves
    <3>2. Writing(t)
      BY <1>1
    <3>3. \A u \in Task : u # t => (Writing(u)' => Writing(u))
      BY <3>1 DEF Writing
    <3>. QED BY <2>2, <3>1, <3>2, <3>3, ChunkIsWritten DEF Advances
  <2>. QED BY <2>1, <2>2
<1>3. job[t].ids \subseteq Layer /\ WriterPhase(t) /\ WriterOk(job[t])
  BY <1>1, WriterFacts
<1>. HIDE DEF s, m
<1>4. WritersAreApart'
  BY <1>2 DEF OnDisk, WritersAreApart, s
<1>5. ConstructedOrStored'
  BY <1>1, <1>2 DEF OnDisk, ConstructedOrStored
<1>6. AckedIsWhole'
  BY <1>1, <1>2 DEF OnDisk, AckedIsWhole, Typed
<1>7. ASSUME NEW u \in Task, Writing(u)', u # t
      PROVE  WriterPhase(u)'
  <2>1. Writing(u) /\ job'[u] = job[u]
    BY <1>2, <1>7
  <2>2. /\ WriterPhase(u) /\ job[u].store \in Store
        /\ job[u].pc = "claim" => Head(job[u].dirs) \in job[u].ids
        /\ job[u].pc \in {"open", "chunk"} => job[u].at \in job[u].ids
        /\ job[u].ids \subseteq Layer
    BY <2>1, WriterFacts
  <2>3. job[u].store = s => m \notin job[u].ids
    BY <1>1, <1>7, <2>1 DEF OnDisk, WritersAreApart, s
  <2>4. \A l \in job[u].ids : archive'[job[u].store][l] = archive[job[u].store][l]
    BY <1>1, <2>2, <2>3
  <2>5. job'[u].pc = "claim" => archive'[job'[u].store][Head(job'[u].dirs)] = NoFile
    BY <2>1, <2>2, <2>4 DEF WriterPhase
  <2>6. job'[u].pc \in {"open", "chunk"} => construction'[job'[u].store][job'[u].at] = NoDir
    BY <1>2, <2>1, <2>2 DEF WriterPhase
  <2>7. job'[u].pc = "open" => archive'[job'[u].store][job'[u].at] = NoFile
    BY <2>1, <2>2, <2>4 DEF WriterPhase
  <2>8. \A l \in job'[u].ids \ job'[u].left : Whole(archive'[job'[u].store][l])
    BY <2>1, <2>2, <2>4 DEF WriterPhase
  <2>9. job'[u].pc = "chunk" =>
          archive'[job'[u].store][job'[u].at] = WithWritten(job'[u].image, job'[u].off)
    BY <2>1, <2>2, <2>4 DEF WriterPhase
  <2>. QED BY <2>5, <2>6, <2>7, <2>8, <2>9 DEF WriterPhase, Whole
<1>8. WriterPhase(t)'
  <2>1. \A l \in job[t].ids \ job[t].left : Whole(archive'[s][l])
    <3>1. \A l \in job[t].ids \ job[t].left : Whole(archive[s][l])
      BY <1>3 DEF WriterPhase, s
    <3>2. \A l \in job[t].ids \ job[t].left : archive'[s][l] = archive[s][l]
      BY <1>1, <1>3, <3>1
    <3>. QED BY <3>1, <3>2
  <2>2. construction'[s][m] = NoDir
    BY <1>1, <1>2
  <2>. QED BY <1>1, <1>2, <2>1, <2>2 DEF WriterPhase, Whole
<1>. QED BY <1>4, <1>5, <1>6, <1>7, <1>8 DEF OnDisk, WriterPhases

LEMMA OnDiskStored ==
  ASSUME Typed, OnDisk, NEW t \in Task, Stored(t)
  PROVE  OnDisk'
<1>. DEFINE s == job[t].store
            m == job[t].at
<1>1. /\ construction' = construction /\ archive' = archive
      /\ Writing(t) /\ WriterOk(job[t]) /\ s \in Store /\ Whole(archive[s][m])
  <2>1. /\ construction' = construction /\ archive' = archive
        /\ Writing(t) /\ WriterOk(job[t]) /\ s \in Store /\ job[t].pc = "chunk"
        /\ archive[s][m] # NoFile /\ job[t].off = Len(job[t].image.data)
    BY LayerIsStored DEF Writing, layer_exists
  <2>2. archive[s][m] = WithWritten(job[t].image, job[t].off)
    BY <2>1 DEF OnDisk, WriterPhases, WriterPhase
  <2>. QED BY <2>1, <2>2 DEF Whole, WithWritten
<1>2. \A l \in job[t].ids \ job[t].left : Whole(archive[s][l])
  BY <1>1 DEF OnDisk, WriterPhases, WriterPhase
<1>3. ConstructedOrStored'
  BY <1>1 DEF OnDisk, ConstructedOrStored
<1>4. ASSUME Moves(t), NEW u \in Task, Writing(u)', u # t
      PROVE  WriterPhase(u)'
  <2>1. Writing(u) /\ job'[u] = job[u] /\ WriterPhase(u)
    BY <1>4 DEF Writing, OnDisk, WriterPhases, Moves
  <2>. QED BY <1>1, <2>1 DEF WriterPhase, Whole
<1>5. CASE /\ Moves(t) /\ job'[t] = Idle /\ job[t].left = {m}
           /\ acked' = [acked EXCEPT ![s] = @ \cup job[t].ids]
  <2>1. \A u \in Task : Writing(u)' => Writing(u) /\ job'[u] = job[u] /\ u # t
    BY <1>5 DEF Moves, Writing
  <2>2. WritersAreApart'
    BY <2>1 DEF OnDisk, WritersAreApart
  <2>3. WriterPhases'
    BY <1>4, <1>5, <2>1 DEF WriterPhases
  <2>4. \A l \in job[t].ids : Whole(archive[s][l])
    BY <1>1, <1>2, <1>5
  <2>5. AckedIsWhole'
    BY <1>1, <1>5, <2>4 DEF OnDisk, AckedIsWhole, Typed
  <2>. QED BY <1>3, <2>2, <2>3, <2>5 DEF OnDisk
<1>6. CASE /\ Advances(t) /\ job'[t].pc = "work" /\ acked' = acked
           /\ job'[t].left = job[t].left \ {m}
  <2>1. WritersAreApart'
    BY <1>6, ApartAdvances
  <2>2. AckedIsWhole'
    BY <1>1, <1>6 DEF OnDisk, AckedIsWhole
  <2>3. WriterPhase(t)'
    <3>1. job'[t].store = s /\ job'[t].ids = job[t].ids
      BY <1>6 DEF Advances
    <3>. QED BY <1>1, <1>2, <1>6, <3>1 DEF WriterPhase
  <2>4. WriterPhases'
    BY <1>4, <1>6, <2>3 DEF WriterPhases, Advances
  <2>. QED BY <1>3, <2>1, <2>2, <2>4 DEF OnDisk
<1>. QED BY <1>5, <1>6, LayerIsStored

LEMMA OnDiskNext == ~Rivals /\ Typed /\ OnDisk /\ [Next]_vars => OnDisk'
<1>1. CASE UNCHANGED vars
  BY <1>1 DEF vars, OnDisk, WritersAreApart, ConstructedOrStored, WriterPhases, WriterPhase,
              AckedIsWhole, Writing, Whole
<1>2. ASSUME ~Rivals, Typed, OnDisk, NEW t \in Task, ByTask(t)
      PROVE  OnDisk'
  BY <1>2, DiskSteps, OnDiskQuiet, OnDiskStarts, OnDiskLooked, OnDiskClaimed, OnDiskFinalized,
     OnDiskWritten, OnDiskStored
<1>. QED BY <1>1, <1>2, OnDiskCrash, NextIsByTask

LEMMA DiskInvariant == ASSUME ~Rivals PROVE Spec => [](Typed /\ OnDisk)
<1>1. Init => Typed /\ OnDisk
  BY TypedInit, OnDiskInit
<1>2. Typed /\ OnDisk /\ [Next]_vars => (Typed /\ OnDisk)'
  BY TypedNext, OnDiskNext
<1>. QED BY <1>1, <1>2, PTL DEF Spec

(***************************************************************************)
(* An archive that is complete is never written again as long as no two    *)
(* imports are about the same layer at the same time, however readers and  *)
(* crashes come in between: finalize writes only what                      *)
(* create_named_directory found neither on disk nor in the map.            *)
(***************************************************************************)
THEOREM CompleteArchivesAreImmutable == ASSUME ~Rivals PROVE Spec => StoredNeverChanges
<1>1. Typed /\ OnDisk /\ [Next]_vars =>
        [\A s \in Store, l \in Layer :
           Whole(archive[s][l]) /\ ~Mixed(s, l) => archive'[s][l] = archive[s][l]]_vars
  <2>. SUFFICES ASSUME Typed, OnDisk, Next, NEW s \in Store, NEW l \in Layer, Whole(archive[s][l])
                PROVE  archive'[s][l] = archive[s][l]
    OBVIOUS
  <2>1. CASE Crash
    BY <2>1 DEF Crash
  <2>2. ASSUME NEW t \in Task, ByTask(t)
        PROVE  archive'[s][l] = archive[s][l]
    <3>1. CASE StoreOpen(t) \/ store_layer_file(t)
      BY <3>1, WholeIsKept
    <3>2. CASE ~(StoreOpen(t) \/ store_layer_file(t))
      BY <2>2, <3>2, DiskSteps, DiskIsLookedAt, DirectoryIsClaimed, DirectoryIsFinalized,
         LayerIsStored DEF Quiet, WriterStarts
    <3>. QED BY <3>1, <3>2
  <2>. QED BY <2>1, <2>2, NextIsByTask
<1>. QED BY <1>1, DiskInvariant, PTL DEF Spec, StoredNeverChanges

(***************************************************************************)
(* The archive of every layer whose commit or import has returned is       *)
(* complete, through crashes and whatever else is called, rival imports    *)
(* left out: store_layer_file is waited for, layer by layer, before        *)
(* finalize or import_layers returns.                                      *)
(***************************************************************************)
THEOREM AcknowledgedIsComplete == ASSUME ~Rivals PROVE Spec => []AckedIsWhole
BY DiskInvariant, PTL DEF OnDisk

-----------------------------------------------------------------------------
(* Rollup files.  The file of a layer is empty only while a call that has  *)
(* truncated it holds the lock, or after that call was cut short.          *)
Truncated(t, l) ==
  job[t] # Idle /\ job[t].op = "set_rollup" /\ job[t].at = l /\ job[t].pc = "write"

EmptyIsExplained ==
  \A l \in Layer :
    \/ rollup[l] = NoFile
    \/ rollup[l] = << >> /\ (l \in cut \/ \E t \in Task : Truncated(t, l))
    \/ \E r : rollup[l] = <<"1", r>>

LocksExclude ==
  \A l \in Layer : \A t \in Exclusive(l) : \A u \in Exclusive(l) \cup Shared(l) : t = u

Rollups == EmptyIsExplained /\ LocksExclude

LEMMA RollupsInit == Init => Rollups
BY DEF Init, Rollups, EmptyIsExplained, LocksExclude, Exclusive, Shared

LEMMA RollupsCrash ==
  ASSUME Typed, Rollups, Crash
  PROVE  Rollups'
<1>1. /\ \A t \in Task : job'[t] = Idle
      /\ rollup' = rollup /\ cut' = cut \cup {l \in Layer : rollup[l] = << >>}
  BY DEF Crash
<1>2. LocksExclude'
  BY <1>1 DEF LocksExclude, Exclusive, Shared
<1>3. EmptyIsExplained'
  BY <1>1 DEF EmptyIsExplained, Rollups
<1>. QED BY <1>2, <1>3 DEF Rollups

(* A step that takes no lock.                                              *)
LEMMA LocksUnlocked ==
  ASSUME Rollups, NEW t \in Task, Moves(t), Unlocked(job'[t])
  PROVE  LocksExclude'
<1>1. \A l \in Layer : Exclusive(l)' \subseteq Exclusive(l) /\ Shared(l)' \subseteq Shared(l)
  BY DEF Moves, Unlocked, Exclusive, Shared
<1>. QED BY <1>1 DEF Rollups, LocksExclude

LEMMA LocksNext ==
  ASSUME Typed, Rollups, NEW t \in Task, ByTask(t)
  PROVE  LocksExclude'
<1>1. CASE Moves(t) /\ Unlocked(job'[t])
  BY <1>1, LocksUnlocked
<1>2. CASE LockExclusive(t)
  <2>1. Moves(t)
    BY <1>2, ExclusiveIsTaken DEF Quiet
  <2>2. CASE job'[t] = Idle
    BY <2>1, <2>2, LocksUnlocked DEF Unlocked
  <2>3. CASE /\ Exclusive(job[t].at) \cup Shared(job[t].at) = {}
             /\ job'[t].op = "set_rollup" /\ job'[t].pc = "create" /\ job'[t].at = job[t].at
    <3>0. PICK m : m = job[t].at /\ m = job'[t].at
      BY <2>3
    <3>1. \A u \in Task : u # t => job'[u] = job[u]
      BY <2>1 DEF Moves
    <3>2. \A l \in Layer : l # m =>
            Exclusive(l)' \subseteq Exclusive(l) /\ Shared(l)' \subseteq Shared(l)
      BY <2>3, <3>0, <3>1 DEF Exclusive, Shared
    <3>3. Exclusive(m) = {} /\ Shared(m) = {}
      BY <2>3, <3>0
    <3>4. Exclusive(m)' \subseteq {t} /\ Shared(m)' = {}
      BY <2>3, <3>1, <3>3 DEF Exclusive, Shared
    <3>5. ASSUME NEW l \in Layer
          PROVE  \A v \in Exclusive(l)' : \A u \in Exclusive(l)' \cup Shared(l)' : v = u
      <4>1. CASE l = m
        BY <3>4, <4>1
      <4>2. CASE l # m
        BY <3>2, <4>2 DEF Rollups, LocksExclude
      <4>. QED BY <4>1, <4>2
    <3>. QED BY <3>5 DEF LocksExclude
  <2>. QED BY <1>2, <2>2, <2>3, ExclusiveIsTaken
<1>3. CASE LockShared(t)
  <2>1. Moves(t)
    BY <1>3, SharedIsTaken DEF Quiet
  <2>2. CASE job'[t] = Idle
    BY <2>1, <2>2, LocksUnlocked DEF Unlocked
  <2>3. CASE /\ Exclusive(job[t].at) = {}
             /\ job'[t].op = "get_rollup" /\ job'[t].pc = "read" /\ job'[t].at = job[t].at
    <3>1. PICK m : m = job[t].at /\ m = job'[t].at
      BY <2>3
    <3>2. \A l \in Layer : Exclusive(l)' \subseteq Exclusive(l) /\ Shared(l)' \subseteq Shared(l) \cup {t}
      BY <2>1, <2>3 DEF Moves, Exclusive, Shared
    <3>3. \A l \in Layer : l # m => Shared(l)' \subseteq Shared(l)
      BY <2>1, <2>3, <3>1 DEF Moves, Shared
    <3>4. Exclusive(m) = {}
      BY <2>3, <3>1
    <3>5. ASSUME NEW l \in Layer
          PROVE  \A v \in Exclusive(l)' : \A u \in Exclusive(l)' \cup Shared(l)' : v = u
      <4>1. CASE l = m
        BY <3>2, <3>4, <4>1
      <4>2. CASE l # m
        BY <3>2, <3>3, <4>2 DEF Rollups, LocksExclude
      <4>. QED BY <4>1, <4>2
    <3>. QED BY <3>5 DEF LocksExclude
  <2>. QED BY <1>3, <2>2, <2>3, SharedIsTaken
<1>4. CASE set_rollup(t)
  <2>1. /\ Moves(t) /\ job[t] # Idle /\ job[t].op = "set_rollup" /\ job[t].pc \in {"create", "write"}
        /\ job'[t] = Idle \/ (job'[t].op = "set_rollup" /\ job'[t].at = job[t].at)
    <3>1. Quiet(t) /\ job[t] # Idle /\ job[t].op = "set_rollup"
      BY <1>4, RollupIsSet
    <3>2. /\ job[t].pc \in {"create", "write"}
          /\ job'[t] = Idle \/ (job'[t].op = "set_rollup" /\ job'[t].at = job[t].at)
      BY <1>4, RollupIsSet
    <3>. QED BY <3>1, <3>2 DEF Quiet
  <2>2. \A l \in Layer : Exclusive(l)' \subseteq Exclusive(l) /\ Shared(l)' \subseteq Shared(l)
    BY <2>1 DEF Moves, Exclusive, Shared
  <2>. QED BY <2>2 DEF Rollups, LocksExclude
<1>. QED BY <1>1, <1>2, <1>3, <1>4, StepsUnlocked

LEMMA EmptyNext ==
  ASSUME Typed, Rollups, NEW t \in Task, ByTask(t)
  PROVE  EmptyIsExplained'
<1>0. Moves(t)
  BY StepsUnlocked, ExclusiveIsTaken, SharedIsTaken, RollupIsSet DEF Quiet
<1>1. CASE /\ rollup' = rollup /\ cut' = cut
           /\ job[t] = Idle \/ job[t].pc # "write" \/ job'[t] = job[t]
  <2>1. \A l \in Layer, u \in Task : Truncated(u, l) => Truncated(u, l)'
    BY <1>0, <1>1 DEF Moves, Truncated
  <2>. QED BY <1>1, <2>1 DEF Rollups, EmptyIsExplained
<1>2. CASE set_rollup(t)
  <2>1. PICK m \in Layer : m = job[t].at
    BY <1>2, RollupIsSet
  <2>2. \A l \in Layer, u \in Task : l # m /\ Truncated(u, l) => Truncated(u, l)'
    BY <1>0, <1>2, <2>1, RollupIsSet DEF Moves, Truncated
  <2>3. CASE /\ cut' = cut /\ rollup' = [rollup EXCEPT ![job[t].at] = << >>]
             /\ job'[t].op = "set_rollup" /\ job'[t].pc = "write" /\ job'[t].at = job[t].at
             /\ job'[t] # Idle
    <3>1. Truncated(t, m)'
      BY <2>1, <2>3 DEF Truncated
    <3>2. rollup'[m] = << >> /\ \A l \in Layer : l # m => rollup'[l] = rollup[l]
      BY <2>1, <2>3 DEF Typed
    <3>3. ASSUME NEW l \in Layer, l # m
          PROVE  \/ rollup'[l] = NoFile
                 \/ rollup'[l] = << >> /\ (l \in cut' \/ \E u \in Task : Truncated(u, l)')
                 \/ \E r : rollup'[l] = <<"1", r>>
      BY <2>2, <2>3, <3>2, <3>3 DEF Rollups, EmptyIsExplained
    <3>. QED BY <3>1, <3>2, <3>3 DEF EmptyIsExplained
  <2>4. CASE /\ cut' = cut \ {job[t].at}
             /\ \E r : rollup' = [rollup EXCEPT ![job[t].at] = <<"1", r>>]
    <3>1. PICK r : rollup' = [rollup EXCEPT ![m] = <<"1", r>>]
      BY <2>1, <2>4
    <3>2. rollup'[m] = <<"1", r>> /\ \A l \in Layer : l # m => rollup'[l] = rollup[l]
      BY <3>1 DEF Typed
    <3>3. ASSUME NEW l \in Layer, l # m
          PROVE  \/ rollup'[l] = NoFile
                 \/ rollup'[l] = << >> /\ (l \in cut' \/ \E u \in Task : Truncated(u, l)')
                 \/ \E q : rollup'[l] = <<"1", q>>
      BY <2>1, <2>2, <2>4, <3>2, <3>3 DEF Rollups, EmptyIsExplained
    <3>. QED BY <3>2, <3>3 DEF EmptyIsExplained
  <2>5. CASE /\ job[t].pc \in {"create", "write"} /\ job'[t] = Idle /\ rollup' = rollup
             /\ cut' = IF job[t].pc = "write" THEN cut \cup {job[t].at} ELSE cut
    <3>1. \A u \in Task : Truncated(u, m) => Truncated(u, m)' \/ m \in cut'
      BY <1>0, <2>1, <2>5 DEF Moves, Truncated
    <3>2. cut \subseteq cut'
      BY <2>5
    <3>. QED BY <2>2, <2>5, <3>1, <3>2 DEF Rollups, EmptyIsExplained
  <2>. QED BY <1>2, <2>3, <2>4, <2>5, RollupIsSet
<1>. QED BY <1>1, <1>2, StepsKeepRollups

LEMMA RollupsNext == Typed /\ Rollups /\ [Next]_vars => Rollups'
<1>1. CASE UNCHANGED vars
  BY <1>1 DEF vars, Rollups, EmptyIsExplained, LocksExclude, Truncated, Exclusive, Shared
<1>2. ASSUME Typed, Rollups, NEW t \in Task, ByTask(t)
      PROVE  Rollups'
  BY <1>2, LocksNext, EmptyNext DEF Rollups
<1>. QED BY <1>1, <1>2, RollupsCrash, NextIsByTask

LEMMA RollupInvariant == Spec => [](Typed /\ Rollups)
<1>1. Init => Typed /\ Rollups
  BY TypedInit, RollupsInit
<1>2. Typed /\ Rollups /\ [Next]_vars => (Typed /\ Rollups)'
  BY TypedNext, RollupsNext
<1>. QED BY <1>1, <1>2, PTL DEF Spec

(* A task that reads a rollup file does nothing else.                      *)
LEMMA ReadingTask ==
  ASSUME NEW t \in Task, ByTask(t), job[t] # Idle, job[t].op = "get_rollup", job[t].pc = "read"
  PROVE  get_rollup(t)
<1>1. /\ ~\E l \in Layer : StartBuild(t, l) \/ StartGetRollup(t, l)
      /\ ~\E dirs \in Requests : StartImport(t, dirs) \/ StartExport(t, dirs)
      /\ ~\E l \in Layer, r \in RollupName : write_rollup_file(t, l, r)
  BY DEF StartBuild, StartGetRollup, StartImport, StartExport, write_rollup_file, Call
<1>2. ~\E s \in Store, l \in Layer :
         ReadParentName(t, s, l) \/ \E part \in Asked : StartRead(t, s, l, part)
  BY DEF ReadParentName, StartRead, Call
<1>3. ~(get_file(t) \/ InsertFile(t) \/ write_file(t) \/ DropBuilder(t) \/ PoisonedLock(t))
  BY DEF get_file, InsertFile, write_file, DropBuilder, PoisonedLock, NeedsMap, NextWork
<1>4. ~(AskParent(t) \/ MapFiles(t) \/ Return(t) \/ export_layers(t) \/ ExportDone(t))
  BY DEF AskParent, MapFiles, Return, export_layers, ExportDone
<1>5. ~(LockExclusive(t) \/ LockShared(t) \/ set_rollup(t))
  BY DEF LockExclusive, LockShared, set_rollup
<1>6. ~(create_named_directory(t) \/ Claim(t) \/ finalize(t))
  BY DEF create_named_directory, Claim, finalize
<1>7. ~(StoreOpen(t) \/ store_layer_file(t) \/ Stored(t))
  BY DEF StoreOpen, store_layer_file, Stored
<1>. QED BY <1>1, <1>2, <1>3, <1>4, <1>5, <1>6, <1>7 DEF ByTask

(***************************************************************************)
(* Reading the rollup of a layer panics only when a crash, an error or a   *)
(* dropped call has cut the writing of it short: set_rollup truncates and  *)
(* writes the file under an exclusive lock on the archive, and get_rollup  *)
(* reads it under a shared one.                                            *)
(***************************************************************************)
THEOREM RollupFilesAreReadWhole == Spec => RollupReadIsWhole
<1>1. Typed /\ Rollups /\ [Next]_vars =>
        [\A t \in Task :
           job[t] # Idle /\ job[t].op = "get_rollup" /\ job[t].pc = "read" /\ job'[t] # Idle
             /\ job'[t].pc = "failed"
           => job[t].at \in cut]_vars
  <2>. SUFFICES ASSUME Typed, Rollups, Next, NEW t \in Task,
                       job[t] # Idle, job[t].op = "get_rollup", job[t].pc = "read",
                       job'[t] # Idle, job'[t].pc = "failed"
                PROVE  job[t].at \in cut
    OBVIOUS
  <2>1. PICK u \in Task : ByTask(u)
    BY NextIsByTask DEF Crash
  <2>2. u = t
    <3>1. Moves(u)
      BY <2>1, StepsUnlocked, ExclusiveIsTaken, SharedIsTaken, RollupIsSet DEF Quiet
    <3>. QED BY <3>1 DEF Moves
  <2>3. get_rollup(t)
    BY <2>1, <2>2, ReadingTask
  <2>4. /\ job[t].at \in Layer /\ rollup[job[t].at] # NoFile /\ Len(rollup[job[t].at]) < 2
    <3>1. JobOk(job[t]) /\ job[t].at \in Layer
      BY DEF Typed, JobOk, GetterOk
    <3>2. PICK g : job' = [job EXCEPT
                   ![t].pc = IF rollup[job[t].at] # NoFile /\ Len(rollup[job[t].at]) < 2
                             THEN "failed" ELSE "done",
                   ![t].seen = g]
      BY <2>3 DEF get_rollup
    <3>3. "pc" \in DOMAIN job[t] /\ DOMAIN job = Task
      BY <3>1 DEF JobOk, Typed
    <3>4. job'[t].pc = IF rollup[job[t].at] # NoFile /\ Len(rollup[job[t].at]) < 2
                       THEN "failed" ELSE "done"
      BY <3>2, <3>3
    <3>. QED BY <3>1, <3>4
  <2>5. rollup[job[t].at] = << >>
    /\ (job[t].at \in cut \/ \E v \in Task : Truncated(v, job[t].at))
    <3>1. ASSUME NEW r PROVE Len(<<"1", r>>) = 2
      OBVIOUS
    <3>2. \/ rollup[job[t].at] = << >> /\ (job[t].at \in cut \/ \E v \in Task : Truncated(v, job[t].at))
          \/ \E r : rollup[job[t].at] = <<"1", r>>
      BY <2>4 DEF Rollups, EmptyIsExplained
    <3>3. ASSUME NEW r, rollup[job[t].at] = <<"1", r>> PROVE FALSE
      <4>1. Len(rollup[job[t].at]) = 2
        BY <3>1, <3>3, Zenon
      <4>. QED BY <2>4, <4>1
    <3>. QED BY <3>2, <3>3
  <2>6. ASSUME NEW v \in Task, Truncated(v, job[t].at)
        PROVE  FALSE
    <3>1. v \in Exclusive(job[t].at) /\ t \in Shared(job[t].at)
      BY <2>6 DEF Truncated, Exclusive, Shared
    <3>2. v = t
      BY <2>4, <3>1 DEF Rollups, LocksExclude
    <3>. QED BY <2>6, <3>2 DEF Truncated
  <2>. QED BY <2>5, <2>6
<1>. QED BY <1>1, RollupInvariant, PTL DEF Spec, RollupReadIsWhole

-----------------------------------------------------------------------------
(* The files that can be in an archive, and what they hold.                *)
Contents(B) == UNION {[types -> Seq(B)] : types \in SUBSET FileType}

LEMMA EnumLen == Len(LayerFileEnum) = 19 /\ DOMAIN LayerFileEnum = 1 .. 19
BY DEF LayerFileEnum

LEMMA EnumInjective ==
  ASSUME NEW i \in 1 .. 19, NEW j \in 1 .. 19, LayerFileEnum[i] = LayerFileEnum[j]
  PROVE  i = j
BY DEF LayerFileEnum

LEMMA OrdinalType ==
  /\ \A i \in 1 .. 19 : LayerFileEnum[i] \in FileType /\ Ordinal[LayerFileEnum[i]] = i
  /\ \A e \in FileType : Ordinal[e] \in 1 .. 19 /\ LayerFileEnum[Ordinal[e]] = e
<1>1. FileType = {LayerFileEnum[i] : i \in 1 .. 19}
  BY EnumLen DEF FileType, ToSet
<1>2. ASSUME NEW e \in FileType
      PROVE  Ordinal[e] \in 1 .. 19 /\ LayerFileEnum[Ordinal[e]] = e
  <2>1. \E i \in 1 .. 19 : LayerFileEnum[i] = e
    BY <1>1
  <2>2. Ordinal[e] = CHOOSE i \in 1 .. 19 : LayerFileEnum[i] = e
    BY EnumLen DEF Ordinal
  <2>. QED BY <2>1, <2>2
<1>3. ASSUME NEW i \in 1 .. 19
      PROVE  LayerFileEnum[i] \in FileType /\ Ordinal[LayerFileEnum[i]] = i
  <2>1. LayerFileEnum[i] \in FileType
    BY <1>1
  <2>. QED BY <1>2, <2>1, EnumInjective
<1>. QED BY <1>2, <1>3

Layouts(B) == [offsets : Seq(Nat), data : Seq(B)]

NoFiles == [offsets |-> << >>, data |-> << >>]

LEMMA AddFileType ==
  ASSUME NEW B, NEW layout \in Layouts(B), NEW bytes \in Seq(B)
  PROVE  AddFile(layout, bytes) \in Layouts(B)
<1>1. layout.offsets \in Seq(Nat) /\ layout.data \in Seq(B)
  BY DEF Layouts
<1>2. Len(layout.data) + Len(bytes) \in Nat
  BY <1>1, LenProperties
<1>3. Append(layout.offsets, Len(layout.data) + Len(bytes)) \in Seq(Nat)
  BY <1>1, <1>2, AppendProperties
<1>4. layout.data \o bytes \in Seq(B)
  BY <1>1, ConcatProperties
<1>. QED BY <1>3, <1>4 DEF AddFile, Layouts

(* Layout is the recursive function it is written as.                      *)
LayoutStep(contents, n, before) ==
  IF LayerFileEnum[n] \in DOMAIN contents
  THEN AddFile(before, contents[LayerFileEnum[n]]) ELSE before

LEMMA LayoutRec ==
  ASSUME NEW B, NEW contents \in Contents(B)
  PROVE  /\ Layout(contents)[0] = NoFiles
         /\ \A n \in 1 .. 19 :
              Layout(contents)[n] = LayoutStep(contents, n, Layout(contents)[n - 1])
<1>. DEFINE X == Layouts(B)
            S(n, x) == LayoutStep(contents, n, x)
            step == [p \in (0 .. 19) \X X |-> IF p[1] = 0 THEN p[2] ELSE S(p[1], p[2])]
            F == CHOOSE f : f = [n \in 0 .. 19 |-> IF n = 0 THEN NoFiles ELSE S(n, f[n - 1])]
<1>1. Layout(contents) = F
  BY EnumLen DEF Layout, NoFiles, LayoutStep
<1>2. ASSUME NEW n \in 1 .. 19, NEW x \in X
      PROVE  S(n, x) \in X
  <2>1. LayerFileEnum[n] \in DOMAIN contents => contents[LayerFileEnum[n]] \in Seq(B)
    BY DEF Contents
  <2>. QED BY <2>1, AddFileType DEF LayoutStep
<1>3. NoFiles \in X
  BY EmptySeq DEF NoFiles, Layouts
<1>. HIDE DEF X, S
<1>4. step \in [(0 .. 19) \X X -> X]
  <2>1. ASSUME NEW p \in (0 .. 19) \X X
        PROVE  (IF p[1] = 0 THEN p[2] ELSE S(p[1], p[2])) \in X
    <3>1. p[1] \in 0 .. 19 /\ p[2] \in X
      OBVIOUS
    <3>2. p[1] # 0 => p[1] \in 1 .. 19
      BY <3>1
    <3>. QED BY <1>2, <3>1, <3>2
  <2>. QED BY <2>1
<1>5. PICK f \in [0 .. 19 -> X] : Iterates(f, 19, NoFiles, step)
  <2>. HIDE DEF step
  <2>. QED BY <1>3, <1>4, BoundedRecursion
<1>6. f = [n \in 0 .. 19 |-> IF n = 0 THEN NoFiles ELSE S(n, f[n - 1])]
  <2>1. ASSUME NEW n \in 0 .. 19
        PROVE  f[n] = IF n = 0 THEN NoFiles ELSE S(n, f[n - 1])
    <3>1. CASE n = 0
      BY <1>5, <3>1 DEF Iterates
    <3>2. CASE n # 0
      <4>1. n \in 1 .. 19 /\ n - 1 \in 0 .. 19
        BY <3>2
      <4>2. f[n] = step[<<n, f[n - 1]>>] /\ f[n - 1] \in X
        BY <1>5, <4>1 DEF Iterates
      <4>. QED BY <3>2, <4>1, <4>2
    <3>. QED BY <3>1, <3>2
  <2>. QED BY <1>5, <2>1
<1>7. F = [n \in 0 .. 19 |-> IF n = 0 THEN NoFiles ELSE S(n, F[n - 1])]
  BY <1>6
<1>. HIDE DEF F
<1>8. F[0] = NoFiles /\ \A n \in 1 .. 19 : F[n] = S(n, F[n - 1])
  <2>1. 0 \in 0 .. 19 /\ \A n \in 1 .. 19 : n \in 0 .. 19 /\ n # 0
    OBVIOUS
  <2>. QED BY <1>7, <2>1
<1>. QED BY <1>1, <1>8 DEF S

(* How many files there are up to a place in the enumeration.              *)
Count(P, n) == Cardinality({i \in P : i =< n})

LEMMA CountType ==
  ASSUME NEW P \in SUBSET (1 .. 19), NEW n \in 0 .. 19
  PROVE  IsFiniteSet({i \in P : i =< n}) /\ Count(P, n) \in Nat
<1>1. IsFiniteSet(1 .. 19)
  <2>1. 1 \in Int /\ 19 \in Int
    OBVIOUS
  <2>. QED BY ONLY <2>1, FS_Interval
<1>2. {i \in P : i =< n} \subseteq 1 .. 19
  OBVIOUS
<1>. QED BY <1>1, <1>2, FS_Subset, FS_CardinalityType DEF Count

LEMMA CountStep ==
  ASSUME NEW P \in SUBSET (1 .. 19)
  PROVE  /\ Count(P, 0) = 0
         /\ \A n \in 1 .. 19 :
              Count(P, n) = IF n \in P THEN Count(P, n - 1) + 1 ELSE Count(P, n - 1)
<1>0. \A i \in P : i \in Int /\ i > 0
  OBVIOUS
<1>1. Count(P, 0) = 0
  <2>0. \A i \in P : ~(i =< 0)
    BY <1>0
  <2>1. {i \in P : i =< 0} = {}
    BY <2>0
  <2>. QED BY <2>1, FS_EmptySet DEF Count
<1>2. ASSUME NEW n \in 1 .. 19, n \notin P
      PROVE  Count(P, n) = Count(P, n - 1)
  <2>1. \A i \in P : i =< n <=> i =< n - 1
    BY <1>0, <1>2
  <2>2. {i \in P : i =< n} = {i \in P : i =< n - 1}
    BY <2>1
  <2>. QED BY <2>2 DEF Count
<1>3. ASSUME NEW n \in 1 .. 19, n \in P
      PROVE  Count(P, n) = Count(P, n - 1) + 1
  <2>. DEFINE A == {i \in P : i =< n - 1}
  <2>0. n =< n /\ ~(n =< n - 1) /\ \A i \in P : i =< n <=> i =< n - 1 \/ i = n
    BY <1>0
  <2>1. {i \in P : i =< n} = A \cup {n} /\ n \notin A
    BY <1>3, <2>0
  <2>2. n - 1 \in 0 .. 19
    OBVIOUS
  <2>3. IsFiniteSet(A)
    BY <2>2, CountType
  <2>. HIDE DEF A
  <2>4. Cardinality(A \cup {n}) = Cardinality(A) + 1
    BY <2>1, <2>3, FS_AddElement
  <2>. QED BY <2>1, <2>4 DEF Count, A
<1>. QED BY <1>1, <1>2, <1>3

(* The bounds of the k-th slice.                                           *)
Start(offsets, k) == IF k = 1 THEN 0 ELSE offsets[k - 1]

SliceIs(layout, k, bytes) ==
  /\ Start(layout.offsets, k) \in Nat /\ layout.offsets[k] \in Nat
  /\ Start(layout.offsets, k) =< layout.offsets[k]
  /\ layout.offsets[k] =< Len(layout.data)
  /\ SubSeq(layout.data, Start(layout.offsets, k) + 1, layout.offsets[k]) = bytes

(* What is so after the files up to n were laid out: the offsets tell      *)
(* where each of them is.                                                  *)
LaidOut(B, contents, P, layout, n) ==
  /\ layout \in Layouts(B)
  /\ Len(layout.offsets) = Count(P, n)
  /\ Count(P, n) = 0 => Len(layout.data) = 0
  /\ Count(P, n) > 0 => layout.offsets[Count(P, n)] = Len(layout.data)
  /\ \A i \in P : i =< n =>
       /\ Count(P, i) \in 1 .. Count(P, n)
       /\ SliceIs(layout, Count(P, i), contents[LayerFileEnum[i]])

(* A slice stays what it is when bytes are added behind it, and the added  *)
(* bytes are a slice of their own.                                         *)
LEMMA SliceKept ==
  ASSUME NEW B, NEW d \in Seq(B), NEW x \in Seq(B),
         NEW a \in Nat, NEW z \in Nat, a =< z, z =< Len(d)
  PROVE  SubSeq(d \o x, a + 1, z) = SubSeq(d, a + 1, z)
<1>1. /\ d \o x \in Seq(B) /\ Len(d \o x) = Len(d) + Len(x)
      /\ \A i \in 1 .. Len(d) + Len(x) : (d \o x)[i] = IF i <= Len(d) THEN d[i] ELSE x[i - Len(d)]
  BY ConcatProperties
<1>2. Len(d) \in Nat /\ Len(x) \in Nat
  BY LenProperties
<1>3. SubSeq(d \o x, a + 1, z) = [i \in 1 .. (z - a) |-> (d \o x)[i + a]]
  BY <1>1, <1>2
<1>4. SubSeq(d, a + 1, z) = [i \in 1 .. (z - a) |-> d[i + a]]
  BY <1>2
<1>5. \A i \in 1 .. (z - a) : (d \o x)[i + a] = d[i + a]
  BY <1>1, <1>2
<1>. QED BY <1>3, <1>4, <1>5

LEMMA SliceAdded ==
  ASSUME NEW B, NEW d \in Seq(B), NEW x \in Seq(B)
  PROVE  SubSeq(d \o x, Len(d) + 1, Len(d) + Len(x)) = x
<1>1. /\ d \o x \in Seq(B) /\ Len(d \o x) = Len(d) + Len(x)
      /\ \A i \in 1 .. Len(d) + Len(x) : (d \o x)[i] = IF i <= Len(d) THEN d[i] ELSE x[i - Len(d)]
  BY ConcatProperties
<1>2. Len(d) \in Nat /\ Len(x) \in Nat
  BY LenProperties
<1>3. SubSeq(d \o x, Len(d) + 1, Len(d) + Len(x)) = [i \in 1 .. Len(x) |-> (d \o x)[i + Len(d)]]
  BY <1>1, <1>2
<1>4. \A i \in 1 .. Len(x) : (d \o x)[i + Len(d)] = x[i]
  BY <1>1, <1>2
<1>5. x = [i \in 1 .. Len(x) |-> x[i]]
  BY <1>2
<1>. QED BY <1>3, <1>4, <1>5

LEMMA AddedOffsets ==
  ASSUME NEW B, NEW layout \in Layouts(B), NEW x \in Seq(B)
  PROVE  LET added == AddFile(layout, x)
             c == Len(layout.offsets)
         IN  /\ layout.offsets \in Seq(Nat) /\ layout.data \in Seq(B)
             /\ c \in Nat /\ Len(layout.data) \in Nat /\ Len(x) \in Nat
             /\ added.data = layout.data \o x
             /\ Len(added.data) = Len(layout.data) + Len(x)
             /\ Len(added.offsets) = c + 1
             /\ added.offsets[c + 1] = Len(layout.data) + Len(x)
             /\ \A k \in 1 .. c : added.offsets[k] = layout.offsets[k]
<1>1. layout.offsets \in Seq(Nat) /\ layout.data \in Seq(B)
  BY DEF Layouts
<1>2. Len(layout.offsets) \in Nat /\ Len(layout.data) \in Nat /\ Len(x) \in Nat
  BY <1>1, LenProperties
<1>3. Len(layout.data \o x) = Len(layout.data) + Len(x)
  BY <1>1, ConcatProperties
<1>4. PICK m \in Nat : m = Len(layout.data) + Len(x)
  BY <1>2
<1>5. /\ Len(Append(layout.offsets, m)) = Len(layout.offsets) + 1
      /\ Append(layout.offsets, m)[Len(layout.offsets) + 1] = m
      /\ \A k \in 1 .. Len(layout.offsets) : Append(layout.offsets, m)[k] = layout.offsets[k]
  BY <1>1, AppendProperties
<1>. QED BY <1>1, <1>2, <1>3, <1>4, <1>5 DEF AddFile

LEMMA SliceIsKept ==
  ASSUME NEW B, NEW layout \in Layouts(B), NEW x \in Seq(B), NEW bytes,
         NEW k \in 1 .. Len(layout.offsets), SliceIs(layout, k, bytes)
  PROVE  SliceIs(AddFile(layout, x), k, bytes)
<1>. DEFINE added == AddFile(layout, x)
<1>1. /\ layout.data \in Seq(B) /\ Len(layout.offsets) \in Nat
      /\ Len(layout.data) \in Nat /\ Len(x) \in Nat
      /\ added.data = layout.data \o x /\ Len(added.data) = Len(layout.data) + Len(x)
      /\ \A j \in 1 .. Len(layout.offsets) : added.offsets[j] = layout.offsets[j]
  BY AddedOffsets
<1>. HIDE DEF added
<1>2. k # 1 => k - 1 \in 1 .. Len(layout.offsets)
  BY <1>1
<1>3. added.offsets[k] = layout.offsets[k] /\ Start(added.offsets, k) = Start(layout.offsets, k)
  BY <1>1, <1>2 DEF Start
<1>4. PICK a \in Nat : a = Start(layout.offsets, k)
  BY DEF SliceIs
<1>5. PICK z \in Nat : z = layout.offsets[k]
  BY DEF SliceIs
<1>6. a =< z /\ z =< Len(layout.data) /\ SubSeq(layout.data, a + 1, z) = bytes
  BY <1>4, <1>5 DEF SliceIs
<1>7. SubSeq(added.data, a + 1, z) = bytes
  BY <1>1, <1>6, SliceKept
<1>8. z =< Len(added.data)
  BY <1>1, <1>6
<1>. QED BY <1>3, <1>4, <1>5, <1>6, <1>7, <1>8 DEF SliceIs, added

LEMMA SliceIsAdded ==
  ASSUME NEW B, NEW layout \in Layouts(B), NEW x \in Seq(B), NEW c \in Nat,
         c = Len(layout.offsets), c = 0 => Len(layout.data) = 0,
         c > 0 => layout.offsets[c] = Len(layout.data)
  PROVE  SliceIs(AddFile(layout, x), c + 1, x)
<1>. DEFINE added == AddFile(layout, x)
<1>1. /\ layout.data \in Seq(B) /\ Len(layout.data) \in Nat /\ Len(x) \in Nat
      /\ added.data = layout.data \o x /\ Len(added.data) = Len(layout.data) + Len(x)
      /\ added.offsets[c + 1] = Len(layout.data) + Len(x)
      /\ \A j \in 1 .. c : added.offsets[j] = layout.offsets[j]
  BY AddedOffsets
<1>. HIDE DEF added
<1>2. (c + 1) - 1 = c /\ (c + 1 = 1 <=> c = 0) /\ (c # 0 => c > 0 /\ c \in 1 .. c)
  OBVIOUS
<1>3. Start(added.offsets, c + 1) = Len(layout.data)
  BY <1>1, <1>2 DEF Start
<1>4. SubSeq(added.data, Len(layout.data) + 1, Len(layout.data) + Len(x)) = x
  BY <1>1, SliceAdded
<1>5. Len(layout.data) =< Len(layout.data) + Len(x) /\ Len(layout.data) + Len(x) \in Nat
  BY <1>1
<1>6. PICK n \in Nat, m \in Nat : n = Len(layout.data) /\ m = Len(layout.data) + Len(x)
  BY <1>1, <1>5
<1>7. Start(added.offsets, c + 1) = n /\ added.offsets[c + 1] = m /\ Len(added.data) = m
  BY <1>1, <1>3, <1>6
<1>8. SubSeq(added.data, n + 1, m) = x
  BY <1>4, <1>6, Zenon
<1>9. n =< m /\ m =< m
  <2>1. n =< m
    BY <1>5, <1>6, Zenon
  <2>. QED BY <2>1
<1>10. SliceIs(added, c + 1, x)
  BY <1>7, <1>8, <1>9 DEF SliceIs
<1>. QED BY <1>10 DEF added

LEMMA LaidOutStep ==
  ASSUME NEW B, NEW contents, NEW P \in SUBSET (1 .. 19), NEW n \in 1 .. 19, NEW before, NEW after,
         LaidOut(B, contents, P, before, n - 1),
         IF n \in P THEN /\ contents[LayerFileEnum[n]] \in Seq(B)
                         /\ after = AddFile(before, contents[LayerFileEnum[n]])
                    ELSE after = before
  PROVE  LaidOut(B, contents, P, after, n)
<1>. DEFINE c == Count(P, n - 1)
            x == contents[LayerFileEnum[n]]
<1>0. /\ before \in Layouts(B) /\ Len(before.offsets) = c
      /\ c = 0 => Len(before.data) = 0
      /\ c > 0 => before.offsets[c] = Len(before.data)
      /\ \A i \in P : i =< n - 1 => /\ Count(P, i) \in 1 .. c
                                    /\ SliceIs(before, Count(P, i), contents[LayerFileEnum[i]])
  BY DEF LaidOut
<1>1. c \in Nat
  <2>1. n - 1 \in 0 .. 19
    OBVIOUS
  <2>. QED BY <2>1, CountType
<1>2. \A i \in P : i =< n => i =< n - 1 \/ i = n
  OBVIOUS
<1>3. CASE n \notin P
  <2>1. Count(P, n) = c /\ after = before
    BY <1>3, CountStep
  <2>2. \A i \in P : i =< n => i =< n - 1
    BY <1>2, <1>3
  <2>. HIDE DEF c
  <2>. QED BY <1>0, <2>1, <2>2 DEF LaidOut
<1>4. CASE n \in P
  <2>1. Count(P, n) = c + 1 /\ x \in Seq(B) /\ after = AddFile(before, x)
    BY <1>4, CountStep
  <2>. HIDE DEF c, x
  <2>2. after \in Layouts(B)
    BY <1>0, <2>1, AddFileType
  <2>3. Len(after.offsets) = c + 1 /\ after.offsets[c + 1] = Len(after.data)
    BY <1>0, <2>1, AddedOffsets
  <2>4. SliceIs(after, c + 1, x)
    BY <1>0, <1>1, <2>1, SliceIsAdded
  <2>5. ASSUME NEW i \in P, i =< n - 1
        PROVE  /\ Count(P, i) \in 1 .. (c + 1)
               /\ SliceIs(after, Count(P, i), contents[LayerFileEnum[i]])
    <3>1. Count(P, i) \in 1 .. c /\ SliceIs(before, Count(P, i), contents[LayerFileEnum[i]])
      BY <1>0, <2>5
    <3>2. Count(P, i) \in 1 .. (c + 1)
      BY <1>1, <3>1
    <3>. QED BY <1>0, <2>1, <3>1, <3>2, SliceIsKept
  <2>6. c + 1 # 0 /\ c + 1 \in 1 .. (c + 1)
    BY <1>1
  <2>7. ASSUME NEW i \in P, i =< n
        PROVE  /\ Count(P, i) \in 1 .. Count(P, n)
               /\ SliceIs(after, Count(P, i), contents[LayerFileEnum[i]])
    <3>1. CASE i = n
      BY <2>1, <2>4, <2>6, <3>1 DEF x
    <3>2. CASE i =< n - 1
      BY <2>1, <2>5, <3>2
    <3>. QED BY <1>2, <2>7, <3>1, <3>2
  <2>. QED BY <2>1, <2>2, <2>3, <2>6, <2>7 DEF LaidOut
<1>. QED BY <1>3, <1>4

LEMMA AllLaidOut ==
  ASSUME NEW B, NEW contents \in Contents(B)
  PROVE  /\ from_present(DOMAIN contents) \in SUBSET (1 .. 19)
         /\ LaidOut(B, contents, from_present(DOMAIN contents), Layout(contents)[19], 19)
<1>. DEFINE P == from_present(DOMAIN contents)
            L(n) == Layout(contents)[n]
            T == {n \in 0 .. 19 : LaidOut(B, contents, P, L(n), n)}
<1>1. DOMAIN contents \subseteq FileType /\ \A e \in DOMAIN contents : contents[e] \in Seq(B)
  BY DEF Contents
<1>2. P \in SUBSET (1 .. 19)
  BY <1>1, OrdinalType DEF from_present
<1>3. \A n \in 1 .. 19 : n \in P <=> LayerFileEnum[n] \in DOMAIN contents
  BY <1>1, OrdinalType DEF from_present
<1>4. L(0) = NoFiles /\ \A n \in 1 .. 19 : L(n) = LayoutStep(contents, n, L(n - 1))
  BY LayoutRec
<1>. HIDE DEF P, L
<1>5. 0 \in T
  <2>1. Count(P, 0) = 0 /\ \A i \in P : ~(i =< 0)
    BY <1>2, CountStep
  <2>2. NoFiles \in Layouts(B) /\ Len(NoFiles.offsets) = 0 /\ Len(NoFiles.data) = 0
    BY EmptySeq DEF NoFiles, Layouts
  <2>. QED BY <1>4, <2>1, <2>2 DEF LaidOut
<1>6. ASSUME NEW n \in 1 .. 19, n - 1 \in T
      PROVE  n \in T
  <2>1. LaidOut(B, contents, P, L(n - 1), n - 1) /\ n \in 0 .. 19
    BY <1>6
  <2>2. IF n \in P THEN /\ contents[LayerFileEnum[n]] \in Seq(B)
                        /\ L(n) = AddFile(L(n - 1), contents[LayerFileEnum[n]])
                   ELSE L(n) = L(n - 1)
    BY <1>1, <1>3, <1>4 DEF LayoutStep
  <2>3. LaidOut(B, contents, P, L(n), n)
    BY <1>2, <2>1, <2>2, LaidOutStep
  <2>. QED BY <2>1, <2>3
<1>. HIDE DEF T
<1>7. 19 \in Nat /\ 19 \in 0 .. 19
  OBVIOUS
<1>8. 19 \in T
  BY <1>5, <1>6, <1>7, BoundedInduction
<1>. QED BY <1>2, <1>8 DEF T, P, L

(***************************************************************************)
(* The slices that are read from an archive are the files that were put in *)
(* it, whichever files those are: the bits of the header, the offsets      *)
(* finalize tallies and the ranges range_for computes from them agree.     *)
(***************************************************************************)
THEOREM ArchiveHoldsItsFiles ==
  ASSUME NEW B, NEW contents \in Contents(B), NEW n
  PROVE  Slices(WithWritten(ArchiveBytes(contents), n)) = contents
<1>. DEFINE P == from_present(DOMAIN contents)
            layout == Layout(contents)[19]
            a == WithWritten(ArchiveBytes(contents), n)
<1>1. /\ a.presence = P /\ a.offsets = layout.offsets /\ a.data = layout.data
  BY EnumLen DEF WithWritten, ArchiveBytes
<1>2. /\ DOMAIN contents \subseteq FileType
      /\ contents = [e \in DOMAIN contents |-> contents[e]]
  BY DEF Contents
<1>3. \A e \in FileType : Ordinal[e] \in P <=> e \in DOMAIN contents
  BY <1>2, OrdinalType DEF from_present
<1>. HIDE DEF a, P, layout
<1>4. {x \in FileType : is_present(a, x)} = DOMAIN contents
  BY <1>1, <1>2, <1>3 DEF is_present
<1>5. ASSUME NEW e \in DOMAIN contents
      PROVE  slice_for(a, e) = contents[e]
  <2>1. e \in FileType /\ Ordinal[e] \in P /\ Ordinal[e] \in 1 .. 19 /\ LayerFileEnum[Ordinal[e]] = e
    BY <1>2, <1>3, OrdinalType
  <2>2. PICK k : k = Count(P, Ordinal[e])
    OBVIOUS
  <2>3. SliceIs(layout, k, contents[e])
    <3>1. LaidOut(B, contents, P, layout, 19)
      BY AllLaidOut DEF P, layout
    <3>2. Ordinal[e] =< 19
      BY <2>1
    <3>. QED BY <2>1, <2>2, <3>1, <3>2 DEF LaidOut
  <2>4. file_index(a, e) = k
    BY <1>1, <2>2 DEF file_index, Count
  <2>5. /\ range_for(a, e)[1] = Start(layout.offsets, k)
        /\ range_for(a, e)[2] = layout.offsets[k]
    BY <1>1, <2>4 DEF range_for, Start
  <2>6. slice_for(a, e) = SubSeq(layout.data, Start(layout.offsets, k) + 1, layout.offsets[k])
    BY <1>1, <2>5, Zenon DEF slice_for
  <2>. QED BY <2>3, <2>6 DEF SliceIs
<1>6. Slices(a) = [e \in DOMAIN contents |-> slice_for(a, e)]
  BY <1>4 DEF Slices
<1>. QED BY <1>2, <1>5, <1>6 DEF a
=============================================================================
