-------------------------- MODULE ArchiveLayerStore --------------------------
(***************************************************************************)
(* ArchiveLayerStore over a DirectoryArchiveBackend (storage/archive.rs),  *)
(* the files of its layers (module LayerFiles) and the packs that carry    *)
(* layers from one store to another (storage/pack.rs).                     *)
(*                                                                         *)
(* A layer that is being written is a directory of the construction map:   *)
(* one handle for each file type anybody has asked for.  finalize takes    *)
(* the directory out of the map, and only then writes its archive, chunk   *)
(* by chunk and in place.  The map is behind a lock that is given up       *)
(* between the steps of one call; every action below is what a call does   *)
(* between two points where it can be overtaken.  A crash takes the map    *)
(* and the calls, and leaves the files.                                    *)
(*                                                                         *)
(* There are two stores: layers are built, rolled up and exported in       *)
(* "origin", and imported into "target".                                   *)
(***************************************************************************)
EXTENDS LayerFiles
LOCAL INSTANCE SequencesExt

CONSTANTS
  Task,          \* concurrent callers
  Layer,         \* layer names
  ParentOf,      \* the parent of each layer, or None
  Rolled,        \* layers that were made by a rollup, and have id maps
  RollupName,    \* the names layers are rolled up to
  None,          \* Option::None
  NoDir, NoFile, \* no such directory in the map; no such file
  Open,          \* a file under construction
  Persistent,    \* a handle that leads to the archive
  Error,         \* a call that returned Err
  Idle,          \* a task between two calls
  Asked,         \* the parts of a layer that are asked for
  Requests,      \* the lists of layers exports and imports are asked for
  MaxMishaps,    \* bound on mishaps, failed calls and races
  EarlyParts,    \* the parts asked for of layers that are, or will be, under construction
  Rivals         \* whether two callers import the same layer at the same time

ASSUME ParentAssumption == ParentOf \in [Layer -> Layer \cup {None}]
ASSUME RolledAssumption == Rolled \subseteq Layer
ASSUME AskedAssumption == Asked \subseteq Part
ASSUME RequestsAssumption == Requests \subseteq Seq(Layer) /\ << >> \notin Requests
ASSUME MaxMishapsAssumption == MaxMishaps \in Nat
ASSUME EarlyPartsAssumption == EarlyParts \subseteq {"origin", "target"} \X Asked
ASSUME RivalsAssumption == Rivals \in BOOLEAN
ASSUME PersistentAssumption == Persistent \notin Task
ASSUME IdleAssumption ==
  Idle \notin [op : {"set_rollup"}, store : {"origin"}, pc : {"lock", "create", "write"},
               at : Layer, lines : {"1"} \X RollupName]

Store == {"origin", "target"}

VARIABLES
  construction,  \* the directories under construction: file type -> who made its handle
  handles,       \* what is behind the handles: Open, or the contents of a finished file
  archive,       \* the archive file of each layer
  rollup,        \* the rollup file of each layer of origin, as its lines
  pack,          \* the last pack that was exported
  job,           \* the call each task is in
  acked,         \* layers whose commit or import has returned
  absent,        \* layers imported from a pack that did not have them (history)
  disturbed,     \* layers a reader put a handle into, and layers stored again (history)
  cut,           \* layers whose set_rollup was cut short (history)
  mishaps,       \* how often the process died, a call failed or calls raced
  poisoned       \* stores where a call panicked while it had the map locked for writing

vars == <<construction, handles, archive, rollup, pack, job, acked, absent, disturbed, cut, mishaps, poisoned>>

-----------------------------------------------------------------------------
(* What the files of a layer hold: its parent's name, or some bytes of its *)
(* own.                                                                    *)
Byte == Layer \cup {None} \cup (Layer \X FileType \X Nat)

Content(l, e) ==
  IF e = "parent" THEN <<ParentOf[l]>>
  ELSE [i \in 1..(1 + (Ordinal[e] % 2)) |-> <<l, e, i>>]

IsChild(l) == ParentOf[l] # None

(* The files a builder, or a rollup, writes for a layer.                   *)
WrittenFiles(l) ==
  dictionary_files \o (IF l \in Rolled THEN id_map_files ELSE << >>) \o
  (IF IsChild(l) THEN child_triple_files ELSE base_index_files)

Original ==
  [l \in Layer |->
     [e \in {FILENAME_ENUM_MAP[f] : f \in ToSet(WrittenFiles(l))}
              \cup (IF IsChild(l) THEN {"parent"} ELSE {})
        |-> Content(l, e)]]

(* A map with one more key, or another value for it.                       *)
With(f, k, v) == [x \in DOMAIN f \cup {k} |-> IF x = k THEN v ELSE f[x]]

(* An archive of which n bytes are written.                                *)
WithWritten(image, n) ==
  [presence |-> image.presence, offsets |-> image.offsets, data |-> image.data, written |-> n]

(* Sentinels are not what files hold, not answers to yes or no and not     *)
(* archives.                                                               *)
ASSUME ContentAssumption ==
  /\ \A l \in Layer, e \in FileType : Content(l, e) \notin {None, Error, Open}
  /\ Error \notin BOOLEAN \cup {None}
ASSUME NoFileAssumption ==
  NoFile \notin [presence : SUBSET Nat, offsets : Seq(Nat), data : Seq(Byte), written : Int]

Whole(a) == a # NoFile /\ a.written = Len(a.data)

Slices(a) ==
  [e \in {x \in FileType : is_present(a, x)} |-> slice_for(a, e)]

-----------------------------------------------------------------------------
(* The archive files.  written is -1 until the header is there.            *)
get_layer_structure_bytes(s, l, e) ==
  LET a == archive[s][l]
  IN  IF a = NoFile \/ a.written < 0 THEN Error
      ELSE IF ~is_present(a, e) THEN None
      ELSE IF range_for(a, e)[2] > a.written THEN Error
      ELSE slice_for(a, e)

layer_exists(s, l) == archive[s][l] # NoFile

layer_file_exists(s, l, e) ==
  LET a == archive[s][l]
  IN  IF a = NoFile THEN FALSE
      ELSE IF a.written < 0 THEN Error
      ELSE is_present(a, e)

(* The parent is read from the archive, under construction or not.         *)
get_parent(s, l) ==
  LET bytes == get_layer_structure_bytes(s, l, "parent")
  IN  IF bytes \in {Error, None} THEN bytes ELSE bytes[1]

-----------------------------------------------------------------------------
(* The layer store.                                                        *)
UnderConstruction(s, l) == construction[s][l] # NoDir

directory_exists(s, l) == UnderConstruction(s, l) \/ layer_exists(s, l)

(* A file somebody has asked for exists, whether or not it was written.    *)
file_exists(s, l, f) ==
  IF f = "rollup" THEN rollup[l] # NoFile /\ s = "origin"
  ELSE IF UnderConstruction(s, l)
         THEN FILENAME_ENUM_MAP[f] \in DOMAIN construction[s][l]
         ELSE layer_file_exists(s, l, FILENAME_ENUM_MAP[f])

(* map_if_exists of a handle: None for a file that was not written.        *)
map_if_exists(s, l, f, h) ==
  LET e == FILENAME_ENUM_MAP[f]
  IN  IF h = Persistent THEN get_layer_structure_bytes(s, l, e)
      ELSE IF handles[<<s, l, e, h>>] = Open THEN None
      ELSE handles[<<s, l, e, h>>]

(* map_all over the files of a part, held as handles: every file that is   *)
(* not optional has to be there.                                           *)
map_all(s, l, part, child, held) ==
  LET found == [f \in ToSet(FilesOf(part, child)) |-> map_if_exists(s, l, f, held[<<l, f>>])]
      there == {f \in DOMAIN found : found[f] # None}
  IN  IF \/ \E f \in DOMAIN found : found[f] = Error
         \/ \E f \in DOMAIN found : f \notin there \cup MappedIfExists(part, child)
      THEN Error
      ELSE [e \in {FILENAME_ENUM_MAP[f] : f \in there} |->
              found[CHOOSE f \in there : FILENAME_ENUM_MAP[f] = e]]

-----------------------------------------------------------------------------
(* Calls.  A call that writes layers first claims their directories        *)
(* (dirs), then gets and writes files (work), then finalizes (left).       *)
Gets(l, files) == [i \in DOMAIN files |-> [do |-> "get", layer |-> l, file |-> files[i]]]

Writes(l, files) ==
  [i \in DOMAIN files |-> [do |-> "write", layer |-> l, file |-> files[i],
                           bytes |-> Content(l, FILENAME_ENUM_MAP[files[i]])]]

Writer(s, dirs, work) ==
  [op |-> "write", store |-> s, pc |-> "exists", dirs |-> dirs, ids |-> ToSet(dirs),
   work |-> work, held |-> << >>, left |-> ToSet(dirs), at |-> None, image |-> None, off |-> -1]

write_parent_file(l) ==
  IF IsChild(l) THEN Gets(l, <<"parent">>) \o Writes(l, <<"parent">>) ELSE << >>

(* create_base_layer or create_child_layer_files, the builder's commit,    *)
(* and finalize.                                                           *)
create_layer(l) ==
  Writer("origin", <<l>>,
         write_parent_file(l) \o Gets(l, layer_files(IsChild(l))) \o Writes(l, WrittenFiles(l)))

(* Every file of a wanted layer is got, written and synced, in the order   *)
(* of the pack; other entries are skipped.                                 *)
ImportEntry(x) ==
  <<[do |-> "get", layer |-> x.layer, file |-> x.file],
    [do |-> "write", layer |-> x.layer, file |-> x.file, bytes |-> x.bytes]>>

ImportWork(entries, ids) ==
  LET work[n \in 0 .. Len(entries)] ==
        IF n = 0 THEN << >>
        ELSE IF entries[n].layer \in ids /\ entries[n].file # "directory"
               THEN work[n - 1] \o ImportEntry(entries[n])
               ELSE work[n - 1]
  IN  work

import_layers(dirs) ==
  Writer("target", dirs, ImportWork(pack, ToSet(dirs))[Len(pack)])

Reader(s, l, part) ==
  [op |-> "read", store |-> s, pc |-> IF AsksParent(part) THEN "parent" ELSE "work",
   at |-> l, part |-> part, child |-> FALSE, early |-> UnderConstruction(s, l),
   work |-> IF AsksParent(part) THEN << >> ELSE Gets(l, FilesOf(part, FALSE)),
   held |-> << >>, seen |-> None]

Busy(s, l) == \E t \in Task : job[t] # Idle /\ job[t].op = "write" /\ job[t].store = s /\ l \in job[t].ids

(* A call has found the layer not to be on disk, and will claim it.        *)
Claiming(s, l) ==
  \E t \in Task : job[t] # Idle /\ job[t].pc = "claim" /\ job[t].store = s /\ l = Head(job[t].dirs)

(* Crashes, failures and calls that race are counted, and bounded.         *)
Mishap(happens) ==
  IF happens THEN mishaps < MaxMishaps /\ mishaps' = mishaps + 1 ELSE UNCHANGED mishaps

(* What a call is about, and whether it changes any of it.                 *)
About(j) ==
  CASE j.op = "write" -> {"layer"} \X j.ids
    [] j.op = "export" -> {"layer"} \X ToSet(j.dirs)
    [] j.op \in {"read", "parent_name"} -> {<<"layer", j.at>>}
    [] OTHER -> {<<"rollup", j.at>>}

Changes(j) == j.op \in {"write", "set_rollup"}

(* A task makes a call.  Calls that cannot meet are not interleaved: those *)
(* to different stores, which share nothing but the pack, those about      *)
(* different layers, about a layer and a rollup file, and those that       *)
(* change nothing.                                                         *)
Meet(j, k) == About(j) \cap About(k) # {} /\ (Changes(j) \/ Changes(k))

Call(t, j) ==
  LET running == {u \in Task : job[u] # Idle}
  IN  /\ t \notin running
      /\ \A u \in running : job[u].store = j.store
      /\ running = {} \/ \E u \in running : Meet(j, job[u])
      /\ job' = [job EXCEPT ![t] = j]

End(t) == job' = [job EXCEPT ![t] = Idle]

StartBuild(t, l) ==
  /\ Call(t, create_layer(l))
  /\ ~directory_exists("origin", l) /\ ~Busy("origin", l)
  /\ IsChild(l) => ParentOf[l] \in acked["origin"]
  /\ UNCHANGED <<construction, handles, archive, rollup, pack, acked, absent, disturbed, cut, mishaps, poisoned>>

(* Imports may be about the same layers.  Those at the same time are from  *)
(* the same pack.                                                          *)
StartImport(t, dirs) ==
  /\ pack # None /\ Call(t, import_layers(dirs))
  /\ Mishap(\E l \in ToSet(dirs) : Busy("target", l))
  /\ Rivals \/ \A l \in ToSet(dirs) : ~Busy("target", l)
  /\ UNCHANGED <<construction, handles, archive, rollup, pack, acked, absent, disturbed, cut, poisoned>>

(* create_named_directory looks at the disk before it locks the map, and   *)
(* panics when the layer is in either.  A panic with the map locked for    *)
(* writing poisons the lock.                                               *)
create_named_directory(t) ==
  /\ job[t] # Idle /\ job[t].pc = "exists"
  /\ IF layer_exists(job[t].store, Head(job[t].dirs))
     THEN End(t)
     ELSE job' = [job EXCEPT ![t].pc = "claim"]
  /\ UNCHANGED <<construction, handles, archive, rollup, pack, acked, absent, disturbed, cut, mishaps, poisoned>>

Claim(t) ==
  LET s == job[t].store
      l == Head(job[t].dirs)
  IN  /\ job[t] # Idle /\ job[t].pc = "claim" /\ s \notin poisoned
      /\ IF UnderConstruction(s, l)
         THEN End(t) /\ UNCHANGED construction /\ poisoned' = poisoned \cup {s}
         ELSE /\ construction' = [construction EXCEPT ![s][l] = << >>]
              /\ job' = [job EXCEPT ![t].dirs = Tail(@),
                                    ![t].pc = IF Len(job[t].dirs) = 1 THEN "work" ELSE "exists"]
              /\ UNCHANGED poisoned
      /\ UNCHANGED <<handles, archive, rollup, pack, acked, absent, disturbed, cut, mishaps>>

(* The next step of a call is one that locks the map.                      *)
NeedsMap(j) ==
  \/ j.pc \in {"claim", "insert", "parent"}
  \/ j.pc = "tar" /\ j.dirs # << >>
  \/ j.op = "read" /\ j.pc = "work" /\ j.work # << >>
  \/ j.op = "write" /\ j.pc = "work" /\ (j.work # << >> => Head(j.work).do = "get")

(* The unwrap of a poisoned lock panics.                                   *)
PoisonedLock(t) ==
  /\ job[t] # Idle /\ job[t].store \in poisoned /\ NeedsMap(job[t])
  /\ End(t)
  /\ UNCHANGED <<construction, handles, archive, rollup, pack, acked, absent, disturbed, cut, mishaps, poisoned>>

-----------------------------------------------------------------------------
(* get_file, for writers and readers alike: a directory that is not under  *)
(* construction leads to the archive, a handle in the map is shared, and a *)
(* missing one is made after the lock was given up and taken again.        *)
NextWork(t, do) ==
  job[t] # Idle /\ job[t].pc = "work" /\ job[t].work # << >> /\ Head(job[t].work).do = do

Hold(t, h) ==
  LET w == Head(job[t].work)
  IN  job' = [job EXCEPT ![t].work = Tail(@), ![t].pc = "work",
                         ![t].held = With(@, <<w.layer, w.file>>, h)]

(* A layer on disk that nobody is about to claim is never under            *)
(* construction again, so all the handles a reader still needs lead to the *)
(* archive: they are taken in one step.                                    *)
HoldRest(t) ==
  LET rest == {<<w.layer, w.file>> : w \in ToSet(job[t].work)}
  IN  job' = [job EXCEPT ![t].work = << >>,
                         ![t].held = [k \in rest \cup DOMAIN @ |-> IF k \in rest THEN Persistent ELSE @[k]]]

get_file(t) ==
  LET s == job[t].store
      w == Head(job[t].work)
      e == FILENAME_ENUM_MAP[w.file]
  IN  /\ NextWork(t, "get") /\ s \notin poisoned
      /\ IF ~UnderConstruction(s, w.layer)
         THEN IF job[t].op = "read" /\ layer_exists(s, w.layer) /\ ~Claiming(s, w.layer)
              THEN HoldRest(t) ELSE Hold(t, Persistent)
         ELSE IF e \in DOMAIN construction[s][w.layer] THEN Hold(t, construction[s][w.layer][e])
         ELSE job' = [job EXCEPT ![t].pc = "insert"]
      /\ UNCHANGED <<construction, handles, archive, rollup, pack, acked, absent, disturbed, cut, mishaps, poisoned>>

(* The handle goes into the map over one that was put there meanwhile; the *)
(* call panics when the directory has gone.                                *)
InsertFile(t) ==
  LET s == job[t].store
      w == Head(job[t].work)
      e == FILENAME_ENUM_MAP[w.file]
  IN  /\ job[t] # Idle /\ job[t].pc = "insert" /\ s \notin poisoned
      /\ IF UnderConstruction(s, w.layer)
         THEN /\ construction' = [construction EXCEPT ![s][w.layer] = With(@, e, t)]
              /\ handles' = With(handles, <<s, w.layer, e, t>>, Open)
              /\ Hold(t, t)
              /\ UNCHANGED poisoned
         ELSE End(t) /\ UNCHANGED <<construction, handles>> /\ poisoned' = poisoned \cup {s}
      /\ disturbed' = IF job[t].op = "read" /\ UnderConstruction(s, w.layer)
                      THEN disturbed \cup {<<s, w.layer, "reader">>} ELSE disturbed
      /\ UNCHANGED <<archive, rollup, pack, acked, absent, cut, mishaps>>

(* open_write, write_all and sync_all of one file.  A handle can be        *)
(* written once, and a slice of an archive not at all.                     *)
write_file(t) ==
  LET s == job[t].store
      w == Head(job[t].work)
      key == <<s, w.layer, FILENAME_ENUM_MAP[w.file], job[t].held[<<w.layer, w.file>>]>>
  IN  /\ NextWork(t, "write")
      /\ IF key[4] # Persistent /\ handles[key] = Open
         THEN /\ handles' = [handles EXCEPT ![key] = w.bytes]
              /\ job' = [job EXCEPT ![t].work = Tail(@)]
         ELSE End(t) /\ UNCHANGED handles
      /\ UNCHANGED <<construction, archive, rollup, pack, acked, absent, disturbed, cut, mishaps, poisoned>>

(* A builder that is dropped before its commit.                            *)
DropBuilder(t) ==
  /\ NextWork(t, "write") /\ job[t].op = "write" /\ job[t].store = "origin"
  /\ job[t].work = Writes(Head(job[t].work).layer, WrittenFiles(Head(job[t].work).layer))
  /\ End(t)
  /\ UNCHANGED <<construction, handles, archive, rollup, pack, acked, absent, disturbed, cut, mishaps, poisoned>>

-----------------------------------------------------------------------------
(* finalize takes the directory out of the map and keeps the files that    *)
(* were finished ...                                                       *)
FinishedFiles(s, l) ==
  {e \in DOMAIN construction[s][l] : handles[<<s, l, e, construction[s][l][e]>>] # Open}

\* mutant: a file that only rollups have is left out
FinalizedContents_without_idmap(s, l) ==
  [e \in FinishedFiles(s, l) \ {"node_value_idmap"} |-> handles[<<s, l, e, construction[s][l][e]>>]]
FinalizedContents(s, l) ==
  [e \in FinishedFiles(s, l) |-> handles[<<s, l, e, construction[s][l][e]>>]]

(* Handles nobody can reach any more.                                      *)
WithoutHandles(s, l, t) ==
  IF \E u \in Task \ {t} : job[u] # Idle /\ job[u].op = "read" /\ job[u].store = s /\ job[u].at = l
  THEN handles
  ELSE [k \in {x \in DOMAIN handles : <<x[1], x[2]>> # <<s, l>>} |-> handles[k]]

finalize(t) ==
  LET s == job[t].store
  IN  /\ job[t] # Idle /\ job[t].op = "write" /\ job[t].pc = "work" /\ job[t].work = << >>
      /\ s \notin poisoned
      /\ \E l \in job[t].left :
           IF UnderConstruction(s, l)
           THEN /\ job' = [job EXCEPT ![t].pc = "open", ![t].at = l,
                                      ![t].image = ArchiveBytes(FinalizedContents(s, l)),
                                      ![t].held = << >>]
                /\ construction' = [construction EXCEPT ![s][l] = NoDir]
                /\ handles' = WithoutHandles(s, l, t)
                /\ UNCHANGED poisoned
           ELSE End(t) /\ UNCHANGED <<construction, handles>> /\ poisoned' = poisoned \cup {s}
      /\ UNCHANGED <<archive, rollup, pack, acked, absent, disturbed, cut, mishaps>>

(* ... and store_layer_file opens the archive, which a rival import may    *)
(* have made already, and does not truncate it ...                         *)
\* mutant: the file is truncated when it is opened
Opened_truncated(a, image) == WithWritten(image, -1)
Opened(a, image) == IF a = NoFile THEN WithWritten(image, -1) ELSE a

StoreOpen(t) ==
  LET s == job[t].store
      l == job[t].at
  IN  /\ job[t] # Idle /\ job[t].pc = "open"
      /\ archive' = [archive EXCEPT ![s][l] = Opened(archive[s][l], job[t].image)]
      /\ job' = [job EXCEPT ![t].pc = "chunk", ![t].off = -1]
      /\ absent' = IF s = "target" /\ \A i \in DOMAIN pack : pack[i].layer # l
                   THEN absent \cup {l} ELSE absent
      /\ disturbed' = IF layer_exists(s, l) THEN disturbed \cup {<<s, l, "rival">>} ELSE disturbed
      /\ UNCHANGED <<construction, handles, rollup, pack, acked, cut, mishaps, poisoned>>

(* ... and writes it from front to end, over what is there: the same, or   *)
(* an image that differs.                                                  *)
Cuts(image) == {Len(image.data) \div 2, Len(image.data)}

Overwritten(a, image, from, to) ==
  LET written == IF to > a.written THEN to ELSE a.written
      header == IF from < 0 THEN image ELSE a
      tail == IF to > a.written THEN image.data ELSE a.data
  IN  IF a = WithWritten(image, a.written) THEN WithWritten(image, written)
      ELSE [presence |-> header.presence, offsets |-> header.offsets,
            data |-> [i \in DOMAIN tail |->
                        IF i > to THEN tail[i] ELSE IF i > from THEN image.data[i] ELSE a.data[i]],
            written |-> written]

store_layer_file(t) ==
  LET s == job[t].store
      l == job[t].at
  IN  /\ job[t] # Idle /\ job[t].pc = "chunk" /\ job[t].off # Len(job[t].image.data)
      /\ \E n \in Cuts(job[t].image) :
           /\ n > job[t].off
           /\ archive' = [archive EXCEPT ![s][l] = Overwritten(@, job[t].image, job[t].off, n)]
           /\ job' = [job EXCEPT ![t].off = n]
      /\ UNCHANGED <<construction, handles, rollup, pack, acked, absent, disturbed, cut, mishaps, poisoned>>

(* When the last layer is stored the commit, or the import, returns.       *)
Stored(t) ==
  LET s == job[t].store
      l == job[t].at
  IN  /\ job[t] # Idle /\ job[t].pc = "chunk"
      /\ layer_exists(s, l) /\ job[t].off = Len(job[t].image.data)
      /\ IF job[t].left = {l}
         THEN /\ End(t)
              /\ acked' = [acked EXCEPT ![s] = @ \cup job[t].ids]
         ELSE /\ job' = [job EXCEPT ![t].pc = "work", ![t].left = @ \ {l}, ![t].at = None]
              /\ UNCHANGED acked
      /\ UNCHANGED <<construction, handles, archive, rollup, pack, absent, disturbed, cut, mishaps, poisoned>>

-----------------------------------------------------------------------------
(* Readers.  A layer that is neither in the map nor on disk is not found.  *)
(* The name of a layer is known before it is stored: the builder tells it, *)
(* and an import is given it.                                              *)
StartRead(t, s, l, part) ==
  /\ Call(t, Reader(s, l, part)) /\ s \notin poisoned
  /\ directory_exists(s, l)
  /\ UnderConstruction(s, l) \/ Claiming(s, l) => <<s, part>> \in EarlyParts
  /\ Mishap(UnderConstruction(s, l) \/ Claiming(s, l))
  /\ UNCHANGED <<construction, handles, archive, rollup, pack, acked, absent, disturbed, cut, poisoned>>

(* layer_has_parent.                                                       *)
AskParent(t) ==
  /\ job[t] # Idle /\ job[t].pc = "parent" /\ job[t].store \notin poisoned
  /\ \E child \in {file_exists(job[t].store, job[t].at, "parent")} :
       job' = IF child = Error THEN [job EXCEPT ![t] = Idle]
              ELSE [job EXCEPT ![t].pc = "work", ![t].child = child,
                               ![t].early = @ \/ UnderConstruction(job[t].store, job[t].at),
                               ![t].work = Gets(job[t].at, FilesOf(job[t].part, child))]
  /\ UNCHANGED <<construction, handles, archive, rollup, pack, acked, absent, disturbed, cut, mishaps, poisoned>>

MapFiles(t) ==
  LET j == job[t]
  IN  /\ j # Idle /\ j.op = "read" /\ j.pc = "work" /\ j.work = << >>
      /\ job' = [job EXCEPT ![t].pc = "done",
                            ![t].seen = map_all(j.store, j.at, j.part, j.child, j.held)]
      /\ UNCHANGED <<construction, handles, archive, rollup, pack, acked, absent, disturbed, cut, mishaps, poisoned>>

(* get_layer_parent_name, in one step.                                     *)
ReadParentName(t, s, l) ==
  /\ Call(t, [op |-> "parent_name", store |-> s, pc |-> "done", at |-> l, seen |-> get_parent(s, l)])
  /\ UNCHANGED <<construction, handles, archive, rollup, pack, acked, absent, disturbed, cut, mishaps, poisoned>>

Return(t) ==
  /\ job[t] # Idle /\ job[t].pc \in {"done", "failed"}
  /\ End(t)
  /\ handles' = IF job[t].op = "read" /\ ~UnderConstruction(job[t].store, job[t].at)
                THEN WithoutHandles(job[t].store, job[t].at, t) ELSE handles
  /\ UNCHANGED <<construction, archive, rollup, pack, acked, absent, disturbed, cut, mishaps, poisoned>>

-----------------------------------------------------------------------------
(* Packs.                                                                  *)
PackFiles(child) ==
  SHARED_REQUIRED_FILES \o SHARED_OPTIONAL_FILES \o
  IF child THEN CHILD_LAYER_REQUIRED_FILES \o CHILD_LAYER_OPTIONAL_FILES
           ELSE BASE_LAYER_REQUIRED_FILES \o BASE_LAYER_OPTIONAL_FILES

PackRequires(child) ==
  ToSet(SHARED_REQUIRED_FILES \o
        IF child THEN CHILD_LAYER_REQUIRED_FILES ELSE BASE_LAYER_REQUIRED_FILES)

(* What is read of a file for a pack: None if it does not exist.           *)
tar_append_file(s, l, f) ==
  LET handle == IF UnderConstruction(s, l) THEN construction[s][l][FILENAME_ENUM_MAP[f]]
                ELSE Persistent
      bytes == map_if_exists(s, l, f, handle)
  IN  IF file_exists(s, l, f) = Error THEN Error
      ELSE IF ~file_exists(s, l, f) THEN None
      ELSE IF bytes = None THEN Error ELSE bytes

(* tar_append_layer fails when a file that is required is not there or a   *)
(* file cannot be read.  The rollup file is skipped.                       *)
Packed(child) == ToSet(PackFiles(child)) \ {"rollup"}

tar_fails(s, l) ==
  LET child == file_exists(s, l, "parent") = TRUE
  IN  \/ file_exists(s, l, "parent") = Error
      \/ \E f \in Packed(child) : tar_append_file(s, l, f) = Error
      \/ \E f \in PackRequires(child) : tar_append_file(s, l, f) = None

tar_append_layer(s, l) ==
  LET files == PackFiles(file_exists(s, l, "parent") = TRUE)
      tar[n \in 0 .. Len(files)] ==
        IF n = 0 THEN <<[layer |-> l, file |-> "directory", bytes |-> << >>]>>
        ELSE IF files[n] = "rollup" \/ tar_append_file(s, l, files[n]) = None
               THEN tar[n - 1]
               ELSE Append(tar[n - 1], [layer |-> l, file |-> files[n],
                                        bytes |-> tar_append_file(s, l, files[n])])
  IN  tar[Len(files)]

StartExport(t, dirs) ==
  /\ Call(t, [op |-> "export", store |-> "origin", pc |-> "tar", dirs |-> dirs, tar |-> << >>, at |-> None])
  /\ UNCHANGED <<construction, handles, archive, rollup, pack, acked, absent, disturbed, cut, mishaps, poisoned>>

export_layers(t) ==
  LET l == Head(job[t].dirs)
  IN  /\ job[t] # Idle /\ job[t].pc = "tar" /\ job[t].dirs # << >> /\ "origin" \notin poisoned
      /\ job' = IF tar_fails("origin", l)
                THEN [job EXCEPT ![t].pc = "failed", ![t].at = l]
                ELSE [job EXCEPT ![t].dirs = Tail(@), ![t].tar = @ \o tar_append_layer("origin", l)]
      /\ UNCHANGED <<construction, handles, archive, rollup, pack, acked, absent, disturbed, cut, mishaps, poisoned>>

ExportDone(t) ==
  /\ job[t] # Idle /\ job[t].pc = "tar" /\ job[t].dirs = << >>
  /\ pack' = job[t].tar
  /\ End(t)
  /\ UNCHANGED <<construction, handles, archive, rollup, acked, absent, disturbed, cut, mishaps, poisoned>>

(* The parents a pack tells of, entry by entry: any file makes its layer   *)
(* known, and only the parent file gives it a parent.                      *)
\* mutant: a later file of the layer takes its parent away
PackEntryParent_overwritten(known, x) ==
  With(known, x.layer, IF x.file = "parent" THEN x.bytes[1] ELSE None)
PackEntryParent(known, x) ==
  IF x.file = "parent" THEN With(known, x.layer, x.bytes[1])
  ELSE IF x.layer \in DOMAIN known THEN known
  ELSE With(known, x.layer, None)

pack_layer_parents(p) ==
  LET known[n \in 0 .. Len(p)] ==
        IF n = 0 THEN << >> ELSE PackEntryParent(known[n - 1], p[n])
  IN  known[Len(p)]

-----------------------------------------------------------------------------
(* Rollup files, guarded by a lock on the archive file of the layer.       *)
Exclusive(l) == {t \in Task : job[t] # Idle /\ job[t].op = "set_rollup" /\ job[t].at = l
                                /\ job[t].pc \in {"create", "write"}}
Shared(l) == {t \in Task : job[t] # Idle /\ job[t].op = "get_rollup" /\ job[t].at = l
                             /\ job[t].pc = "read"}

(* write_rollup_file: the writer buffers the two lines, and its sync_all   *)
(* takes the name from the second and calls set_rollup.  A base layer is   *)
(* never given a rollup.                                                   *)
write_rollup_file(t, l, r) ==
  /\ Call(t, [op |-> "set_rollup", store |-> "origin", pc |-> "lock", at |-> l, lines |-> <<"1", r>>])
  /\ IsChild(l)
  /\ UNCHANGED <<construction, handles, archive, rollup, pack, acked, absent, disturbed, cut, mishaps, poisoned>>

LockExclusive(t) ==
  /\ job[t] # Idle /\ job[t].op = "set_rollup" /\ job[t].pc = "lock"
  /\ IF layer_exists("origin", job[t].at)
     THEN /\ Exclusive(job[t].at) \cup Shared(job[t].at) = {}
          /\ job' = [job EXCEPT ![t].pc = "create"]
     ELSE End(t)
  /\ UNCHANGED <<construction, handles, archive, rollup, pack, acked, absent, disturbed, cut, mishaps, poisoned>>

(* The file is truncated, and then written, unless the call fails or is    *)
(* dropped before.                                                         *)
set_rollup(t) ==
  LET l == job[t].at
  IN  /\ job[t] # Idle /\ job[t].op = "set_rollup"
      /\ \/ /\ job[t].pc = "create"
            /\ rollup' = [rollup EXCEPT ![l] = << >>]
            /\ job' = [job EXCEPT ![t].pc = "write"]
            /\ UNCHANGED <<cut, mishaps>>
         \/ /\ job[t].pc = "write"
            /\ rollup' = [rollup EXCEPT ![l] = <<"1", job[t].lines[2]>>]
            /\ cut' = cut \ {l} /\ UNCHANGED mishaps
            /\ End(t)
         \/ /\ job[t].pc \in {"create", "write"}
            /\ cut' = IF job[t].pc = "write" THEN cut \cup {l} ELSE cut
            /\ End(t)
            /\ UNCHANGED rollup
            /\ Mishap(TRUE)
      /\ UNCHANGED <<construction, handles, archive, pack, acked, absent, disturbed, poisoned>>

StartGetRollup(t, l) ==
  /\ Call(t, [op |-> "get_rollup", store |-> "origin", pc |-> "lock", at |-> l, seen |-> None])
  /\ UNCHANGED <<construction, handles, archive, rollup, pack, acked, absent, disturbed, cut, mishaps, poisoned>>

\* mutant: the lock is not waited for
LockShared_at_once(t) ==
  /\ job[t] # Idle /\ job[t].op = "get_rollup" /\ job[t].pc = "lock"
  /\ job' = [job EXCEPT ![t].pc = "read"]
  /\ UNCHANGED <<construction, handles, archive, rollup, pack, acked, absent, disturbed, cut, mishaps, poisoned>>
LockShared(t) ==
  /\ job[t] # Idle /\ job[t].op = "get_rollup" /\ job[t].pc = "lock"
  /\ IF layer_exists("origin", job[t].at)
     THEN /\ Exclusive(job[t].at) = {}
          /\ job' = [job EXCEPT ![t].pc = "read"]
     ELSE End(t)
  /\ UNCHANGED <<construction, handles, archive, rollup, pack, acked, absent, disturbed, cut, mishaps, poisoned>>

(* A rollup file without a second line is a panic.                         *)
get_rollup(t) ==
  LET lines == rollup[job[t].at]
  IN  /\ job[t] # Idle /\ job[t].op = "get_rollup" /\ job[t].pc = "read"
      /\ job' = [job EXCEPT ![t].pc = IF lines # NoFile /\ Len(lines) < 2 THEN "failed" ELSE "done",
                            ![t].seen = IF lines = NoFile \/ Len(lines) < 2 THEN None ELSE lines[2]]
      /\ UNCHANGED <<construction, handles, archive, rollup, pack, acked, absent, disturbed, cut, mishaps, poisoned>>

-----------------------------------------------------------------------------
(* The process dies, and is started again.                                 *)
Crash ==
  /\ Mishap(TRUE)
  /\ job' = [t \in Task |-> Idle]
  /\ construction' = [s \in Store |-> [l \in Layer |-> NoDir]]
  /\ handles' = << >>
  /\ cut' = cut \cup {l \in Layer : rollup[l] = << >>}
  /\ poisoned' = {}
  /\ UNCHANGED <<archive, rollup, pack, acked, absent, disturbed>>

Init ==
  /\ construction = [s \in Store |-> [l \in Layer |-> NoDir]]
  /\ handles = << >>
  /\ archive = [s \in Store |-> [l \in Layer |-> NoFile]]
  /\ rollup = [l \in Layer |-> NoFile]
  /\ pack = None
  /\ job = [t \in Task |-> Idle]
  /\ acked = [s \in Store |-> {}]
  /\ absent = {} /\ disturbed = {} /\ cut = {} /\ mishaps = 0 /\ poisoned = {}

Next ==
  \/ Crash
  \/ \E t \in Task :
       \/ \E l \in Layer : StartBuild(t, l) \/ StartGetRollup(t, l)
       \/ \E dirs \in Requests : StartImport(t, dirs) \/ StartExport(t, dirs)
       \/ \E s \in Store, l \in Layer :
            ReadParentName(t, s, l) \/ \E part \in Asked : StartRead(t, s, l, part)
       \/ \E l \in Layer, r \in RollupName : write_rollup_file(t, l, r)
       \/ create_named_directory(t) \/ Claim(t) \/ PoisonedLock(t) \/ get_file(t) \/ InsertFile(t)
       \/ write_file(t) \/ DropBuilder(t) \/ finalize(t)
       \/ StoreOpen(t) \/ store_layer_file(t) \/ Stored(t)
       \/ AskParent(t) \/ MapFiles(t) \/ Return(t)
       \/ export_layers(t) \/ ExportDone(t)
       \/ LockExclusive(t) \/ set_rollup(t) \/ LockShared(t) \/ get_rollup(t)

Spec == Init /\ [][Next]_vars

-----------------------------------------------------------------------------
(* What a reader of a part of a layer should see.                          *)
Expected ==
  [l \in Layer |-> [part \in Part |->
     [e \in {FILENAME_ENUM_MAP[f] : f \in ToSet(FilesOf(part, IsChild(l)))} \cap DOMAIN Original[l]
        |-> Original[l][e]]]]

(* A layer that an import made without having it; one into whose directory *)
(* a reader put a handle of its own, here or where it comes from; and one  *)
(* where that happened and that was stored again by a rival import.        *)
Absent(s, l) == s = "target" /\ l \in absent
Disturbed(s, l) == <<s, l, "reader">> \in disturbed \/ <<"origin", l, "reader">> \in disturbed
Mixed(s, l) == {<<s, l, "reader">>, <<s, l, "rival">>} \subseteq disturbed

(* Files of the layer as they were written for it.                         *)
AreOf(files, l) == \A e \in DOMAIN files : e \in DOMAIN Original[l] /\ files[e] = Original[l][e]

(* A reader that met the layer under construction.                         *)
MetUnderConstruction(j) == j.early \/ \E k \in DOMAIN j.held : j.held[k] # Persistent

(***************************************************************************)
(* A call that reads a layer, or a part of it, fails or sees only files    *)
(* that were written for the layer, each of them whole: whether the layer  *)
(* is under construction, being stored, stored a second time by a rival    *)
(* import, cut short by a crash, or copied through a pack.  It sees all of *)
(* the files, and takes a child layer for a child layer, unless it met the *)
(* layer under construction, or the layer was disturbed there.  Of a pack, *)
(* pack_layer_parents reads every layer with its parent.                   *)
(***************************************************************************)
ReadsAreExact ==
  /\ \A t \in Task :
       LET j == job[t]
       IN  /\ j # Idle /\ j.op = "read" /\ j.pc = "done" /\ j.seen # Error /\ ~Mixed(j.store, j.at) =>
                /\ AreOf(j.seen, j.at)
                /\ \/ j.seen = Expected[j.at][j.part]
                   \/ MetUnderConstruction(j) \/ Absent(j.store, j.at) \/ Disturbed(j.store, j.at)
           /\ j # Idle /\ j.op = "parent_name" /\ j.seen # Error /\ ~Mixed(j.store, j.at) =>
                j.seen = ParentOf[j.at] \/ Absent(j.store, j.at)
  /\ pack # None =>
       pack_layer_parents(pack) = [l \in {pack[i].layer : i \in DOMAIN pack} |-> ParentOf[l]]

(* After a commit or an import has returned, the layers it was about are   *)
(* on disk with every file that was written for them, and stay there       *)
(* through mishaps, poisoned locks, rival imports and whatever else is     *)
(* called.  Nothing is said of a layer that was not in the pack, or was    *)
(* disturbed and stored twice; of one that was only disturbed, files can   *)
(* be lost, and those that are there are right.                            *)
AckedIsRetrievable ==
  \A s \in Store : \A l \in acked[s] :
    \/ Absent(s, l) \/ Mixed(s, l)
    \/ /\ Whole(archive[s][l])
       /\ AreOf(Slices(archive[s][l]), l)
       /\ Disturbed(s, l) \/ DOMAIN Slices(archive[s][l]) = DOMAIN Original[l]

(* "After this operation, the specified layers will be retrievable from    *)
(* this store, provided they existed in the pack" (import_layers): all     *)
(* files of a layer that was imported from a store where it is complete    *)
(* are there.                                                              *)
ImportedIsRetrievable ==
  \A l \in acked["target"] \ absent :
    <<"origin", l, "reader">> \notin disturbed => Slices(archive["target"][l]) = Original[l]

(* What is in a complete archive never changes, although store_layer_file  *)
(* writes in place and an import that looked at the disk before the layer  *)
(* was stored, and at the construction map after, stores the layer once    *)
(* more: it writes the bytes that are there.  The exception is a layer     *)
(* that a reader disturbed as well: then the two images differ.            *)
StoredNeverChanges ==
  [][\A s \in Store, l \in Layer :
       Whole(archive[s][l]) /\ ~Mixed(s, l) => archive'[s][l] = archive[s][l]]_vars

(* An export fails only over a layer that is not completely stored, or     *)
(* lost files as it was disturbed: the files it requires are files every   *)
(* builder writes.                                                         *)
ExportNeedsOnlyStored ==
  [][\A t \in Task :
       job[t] # Idle /\ job[t].op = "export" /\ job[t].pc = "tar" /\ job'[t] # Idle /\ job'[t].pc = "failed"
         => ~Whole(archive["origin"][job'[t].at]) \/ Disturbed("origin", job'[t].at)]_vars

(* Reading the rollup of a layer panics only when a crash, an error or a   *)
(* dropped call has cut the writing of it short: the lock on the archive   *)
(* keeps readers from the truncated file.                                  *)
RollupReadIsWhole ==
  [][\A t \in Task :
       job[t] # Idle /\ job[t].op = "get_rollup" /\ job[t].pc = "read" /\ job'[t] # Idle
         /\ job'[t].pc = "failed"
       => job[t].at \in cut]_vars
=============================================================================
