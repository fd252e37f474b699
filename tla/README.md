# Verification of terminusdb-store

terminusdb-store keeps graphs as stacks of immutable layers. A layer is a set of
triples (a base layer) or additions to and removals from a parent layer (a child
layer). Labels give mutable names to layers: a named graph is a label, its head
the layer the label points at. This directory holds TLA+ models of the parts of
the store in which state changes, model-checking runs for them, and proofs.

## 1. Inventory

| component | state | operations | what is hard | correct when |
|---|---|---|---|---|
| named graphs (`store/mod.rs`, `storage/label.rs`, `storage/memory.rs`) | a label (layer, version) per graph; the parent of every layer | create, delete, head, set_head, force_set_head, force_set_head_version, commit | each call reads, decides and swaps with awaits in between; retry loop; labels recreated with the same versions | no acknowledged update is lost; set_head only advances; a versioned update replaces what its caller saw; calls return |
| directory label store (`storage/directory.rs`, `storage/locking.rs`) | one file per label, advisory locks | create/get/set/delete_label | several processes; unlink without a lock; file created before it is locked; truncate and write in two steps; crashes | the answers are those of an atomic store |
| cached directory label store (`storage/directory.rs`) | a map, and one file per label | open, create/get/set/clear/delete | file first, map second; calls dropped or failing between; restarts | what was acknowledged is on disk |
| LRU archive cache (`storage/archive.rs`) | cache entries (resolving or resolved), their order, a byte counter; layer files | get_layer_bytes, store_layer_file, evict_to_target | mutex released during lookups; barriers; cancelled readers; eviction among resolving entries; files written in place | counter exact and bounded; eviction ends; readers answered; bytes complete |
| layers on disk and in memory (`storage/layer.rs`, `delta.rs`, `cache.rs`) | layer directories with parent and rollup files; a weak cache of loaded stacks | commit, get_layer, rollup, rollup_upto, imprecise_rollup_upto, register_rollup, squash, squash_upto | rollups registered while others walk and load; stale cache entries; partial rollups over rollups | a layer always has the triples it was committed with |
| layer builder (`layer/builder.rs`, `simple_builder.rs`) | pending additions and removals, ids of new strings; adjacency lists being written | add, remove, commit, build indexes | ids given out per call and renumbered at commit; cancelling additions against removals and against the parent; skipped subjects, sparse numbering | the committed change is the one the calls mean, in well-formed lists |
| layers and iterators (`layer/layer.rs`, `layer/internal/*`) | none in a layer (immutable); positions and look-ahead in an iterator | seek and iterate by subject, predicate, object; look up; count | merging sorted streams of additions and removals of many layers; positions in several lists that must stay in step; nearest instead of exact seeks | every way to read a stack gives the set the stack denotes |
| dictionaries and id maps (`layer/id_map.rs`, `delta.rs`, `base_merge.rs`) | none (immutable) | look up strings and ids, value ranges; merge the dictionaries of a stack | renumbering when stacks are merged, maps made of maps, one part of a stack in memory and one on disk | ids keep naming the same thing |
| archive layer store (`storage/archive.rs`, `consts.rs`, `file.rs`) | construction map of layers being written; archive files; rollup files | create_named_directory, get_file, finalize, reads of slices, get_rollup, set_rollup | locks given up between two steps; a layer that is in neither place; files written in place; crashes | what is read is what was written; a finalized layer has all its files |
| packs (`storage/pack.rs`) | none | export_layers, import_layers, pack_layer_parents | lists of required files; layers read while they are imported | imported layers are retrievable |
| synchronous interface (`store/sync.rs`), file handles (`storage/file.rs`, `memory.rs`, `copy.rs`), logging | none of their own | — | — | — |

How they interact: a named graph calls the label store (get_label, set_label) and,
for the ancestor check, the layer store (parent files). Layer loading and rollups
go through the layer cache and the layer files; with the archive store, files come
through the LRU cache. Nothing calls back; every interaction is an awaited call,
and other tasks run at every await.

`PROJECT.json` lists under "hazards" where this is hard to test, line by line.

## 2. Modules

| module | models | composed of |
|---|---|---|
| `NamedGraph` | clients of one label, for both kinds of label store | an atomic label store, justified by `DirectoryLabelStore` |
| `DirectoryLabelStore` | the file operations behind one label, compared with an atomic store | |
| `CachedDirectoryLabelStore` | map and files of the caching store | |
| `LruArchive` | the byte cache and the files behind it | |
| `LayerStore` | what a layer store promises: immutable layers | |
| `LayerStack` | layer directories, rollups, squashes, the layer cache and loading; implements `LayerStore` | layers as sets of triples, justified by `TripleLayers`; ids that keep their meaning, justified by `Dictionaries` |
| `Dictionaries` | builders, dictionaries and id maps of a stack, renumbering by rollup, squash and merge, lookups, value ranges | |
| `LayerFiles` | the file types of a layer, the lists of files its readers ask for, the form of an archive | |
| `ArchiveLayerStore` | construction map, archives, rollup files and packs | `LayerFiles`; the LRU cache between it and the files is `LruArchive` |
| `TripleLayers` | the adjacency lists of a layer, the iterators over a layer and over a stack, lookups and counts | |
| `MC*` | the instances for TLC (symmetry sets, sizes) | |
| `NamedGraph_proofs`, `DirectoryLabelStore_proofs`, `CachedDirectoryLabelStore_proofs`, `LruArchive_proofs`, `LayerStack_proofs`, `ArchiveLayerStore_proofs` | theorems about the module of that name (section 5) | `InductionLemmas` |
| `ArchiveLayerStoreContents_proofs` | what is in archives, packs and answers | `ArchiveLayerStore_proofs` |
| `InductionLemmas` | induction and recursion over numbers, stated about sets and functions | |

The operators marked `mutant:` in the modules are deliberately wrong variants of
the definition that follows them; no specification uses them. Each stands for a
plausible bug and shows that some property notices it (`PROJECT.json`, "mutants").

### NamedGraph
`label` is the label on record, `parent` the parent files. A head-moving call is
three steps, `GetLabel`, `Check` (set_head only) and `SwapOk`/`SwapFails`, as in
`store/mod.rs` 752-834; `read` is the local `label` of those functions, `base` what
the client last saw from head_version. `SwapMatches` is the comparison of
set_label_option: the whole label in the directory stores, the version alone in
`MemoryLabelStore`. layer_is_ancestor_of is read in one step: parent files never
change once a layer is committed. It is stated as "in every set that contains the
descendant and is closed under parents", the least fixed point that its loop
computes, which the proofs can use without recursion. `acked` and `past` are
history variables.

### DirectoryLabelStore
One label; directory entry (`dir`) and files (`content`) are separate, so that a
process can hold a file that was unlinked. The steps are the file operations of
create_label, get_label, set_label_option and delete_label, at the granularity at
which another process can observe them: a write is one step while the exclusive
lock is held, truncate and write are two. Correctness is linearizability: the
history variable `explained` carries every way to explain the answers so far by an
atomic store, and must never become empty. A call that fails with InvalidData
(empty file) must be explicable as having had no effect.

### CachedDirectoryLabelStore
The map lock makes one call run at a time, so a call is its file step and its map
step, and `Cut` stops it in between (an I/O error, a dropped future, or the death
of the process). Restarting reads all files again. File contents are modelled with
their length, since overwriting without truncation keeps the tail of longer old
contents. Only clear_label shortens the contents of a file; the properties say that this
and a create cut short are all that can break one.

### LruArchive
Each action is a section of code under the cache mutex; fetching and writing happen
outside it. An entry is absent, Resolving, or resolved with so many bytes; lengths
count chunks, and a layer file grows one chunk at a time as DirectoryArchiveBackend
writes it. The eviction loop is one step: its effect is given by the number of keys
it passes (`Passes`), and where it would find nothing to pop, the action is
disabled and `EvictionSucceeds` false. `Cancel` drops a reader that is fetching.
`StoredIsRetrievable` is about what a call made now would be answered (`Answer`): by a
resolved entry, by the barrier of a resolving one, or by the file. The code fails it in two
ways (findings 6 and 7), which are exempted by name and only while the entry lasts that
they left behind: an entry in `early`, a history variable, rests on a lookup made before
the file was whole; an `Abandoned` one has lost its resolver and has an empty barrier.
`BarrierIsFilled` is about histories without a dropped reader.

### LayerStack
Names are numbers in order of creation. A directory has `parent`, `adds`, `rems`,
`rollup`. A loaded layer is the sequence of its own and its immediate parents'
changes, where a rollup takes the name of the layer it stands for. `Walk` is one
round of the loop of get_layer_with_cache, `EndWalk` the loading that follows it.
A rollup is made (`Rollup`, or `RollupUpto` and `BuildRollup`), registered
(`Register`) and the cache is invalidated (`Invalidate`) in separate steps.
`contents` is a history variable: the triples each layer was committed with.
Triples are identified with their ids; `Dictionaries` has the renumbering.
`Misses` covers get_layer_from_cache, which removes a dead reference after it has let
go of the lock and can remove a live layer: in a workload with "expire" any lookup may
have met a reference that was dead, which is more than the code can do.
What callers do is a constant, `Workloads`: which tasks, how many directories and
layers, which operations; Init picks one.
A rollup_upto to an ancestor nearer than the one the loaded layer was rolled up to
ends in the panic of immediate_layers_upto; it is the state `"panicked"` of a task,
and the other properties hold with tasks that ended there.

`ImplementsLayerStore` is the refinement. `LayerStore` has a map from names to sets of
triples, which a commit or a squash extends (`Make`) and nothing ever changes, and the
layer each caller was given (`Get`). The map is what the files give when every rollup
is read in place of its layer (`Stored`), so a rollup file that appears must not change
it; the layer given is what a task has in hand. All other steps are stutters.
`LayerStore` does not say which triples a new layer has, nor which layer a task asked for:
that a layer goes on having the triples of its commit is `LoadedIsOriginal`, that those
are what the caller meant is `TriplesAreMeant` of `Dictionaries`.

### Dictionaries
One caller at a time: concurrency is in `LayerStack`, and this module adds what ids
mean. Strings are numbers in lexical order. A directory has its sorted dictionaries,
the id maps if it is a rollup, and its changes in ids. `held` is the loaded stack in
hand, which may be older than the newest rollup files. A builder is a record of the
maps and counters of SimpleLayerBuilder; `Committed` is its commit, from the cancelling
of additions and removals to the renumbering and the check against the parent.
`dictionary_rollup_upto` merges the part of the stack below `safe_upto_bound` from the
files and the part above from memory; the predicate maps of the latter are the wrong
ones, as in the code, and `astray` records that this has made a difference. Two history
variables say what is right: `named`, the sequence of what the ids of each layer name,
and `contents`, its triples as strings. merge_base_layer removes duplicates, squash
removes unused strings; both start new ids. triples_value_range takes the position of
a value from TypedDict (external) and is compared with the values between the bounds.

### LayerFiles and ArchiveLayerStore
`LayerFiles` has the enumeration of file types, which decides the order of the slices in
an archive; an archive is its set of types, its offsets and its data, and `range_for`
finds a slice as the code does. Files that are always used together count as one.
In `ArchiveLayerStore` a file handle is one entry of the construction map, `get_file`
takes a read lock, and where it finds no handle, `InsertFile` is a step of its own.
`finalize` takes the directory out of the map, `store_layer_file` writes the archive in
several writes over whatever is there (`Overwritten`), and in between readers find what
there is. A reader asks for a part of a layer (`Asked`): whether it has a parent first, then
each file of the list the code has for that part. Layers are built in one store and
imported into another.

A layer's name is known before the layer is stored: the builder tells it, and an import is
given it. So a reader may ask for a layer under construction (the parts in `EarlyParts`),
and two imports may name the same layer (`Rivals`). A panic while the map is locked for
writing (`Claim` of a layer in the map, `InsertFile` and `finalize` of one that has gone)
poisons the lock, and from then on every call of that store that locks the map panics
(`PoisonedLock`), until the process is started again. set_rollup can fail or be dropped
before the truncate and before the write. A crash keeps only the files. What went wrong is
recorded in history variables, and each property names the cases it exempts: `absent` (imported
from a pack that does not have the layer), `disturbed` (a reader put a handle into its
directory; it was stored again by a rival import), `cut` (a set_rollup was cut short).

Calls that cannot meet are not interleaved (`Call`): calls to different stores, which
share nothing but the pack; calls about different layers, or about a layer and a rollup
file; and calls that change nothing. Two calls about different layers meet only through
a poisoned lock, and what such a panic leaves of the other call is also left when that
call is stopped by a crash or never goes on.

### TripleLayers
A layer is written by `add_triple` and `build_object_index` from sorted triples into
the lists s_p, sp_o and o_ps, with the arrays subjects and objects if it is a child
(`sparse`). An adjacency list of tdb_succinct is the sequence of its pairs, with the
hole `<<left, 0>>` for a left that was skipped; positions count from 0 and offsets
are computed as in the code, so that an iterator that loses step reads wrong numbers
here as it would there. The iterators are records of positions and a look-ahead
(`peeked`); `SubjectNext`, `PredicateNext`, `ObjectNext` are their `next`, and
`MergeNext` and `ChangesNext` are one round of the loops that merge the iterators of
all layers of a stack.
Layers never change, so the model builds a stack (`CommitBase`, `CommitChild`), opens
one cursor (`Triples`, `TriplesS`, ..., `Changes`) and steps it (`NextTriple`), past
its end too. Lookups, counts and the queries of one layer (`triple_changes_s` and the
like) keep no state and are operators that invariants compare with `contents`, the
history of what was committed. seek_subject_predicate, for a subject that a sparse
layer does not have, passes over the small predicates of the next subject; the model
does the same, and that no caller notices is part of what is checked.

## 3. Runs

| run | instance | checks |
|---|---|---|
| `named_graph` | 2 clients, 2 layers, 4 operations each, directory store, all operations | NoLostUpdate, HeadHistoryIsKept, SetHeadAdvances, VersionedUpdateIsExact, CallsReturn |
| `directory_label_store` | 2 processes, 6 calls, 1 crash | Linearizable, EmptyOnlyWhileCreated, CallsReturn |
| `cached_label_store` | 2 labels, versions up to 11, clear_label, 3 cut calls, restarts | AckedIsOnDisk, DiskAtMostOneAhead, BrokenOnlyByCutOrClear |
| `lru_archive` | 2 tasks, layers of 1, 2 and 3 chunks, limit 3, 5 calls, 1 cancellation | AccountedAndBounded, EvictionSucceeds, OrderMatchesEntries, ResolvingHasResolver, StoredIsRetrievable, BarrierIsFilled, CallsReturn |
| `layer_stack` | 2 tasks on 3 layers and 4 directories; 1 task on 4 layers and 6 directories; 1 task with every operation on 3 layers and 5 directories | LoadedIsOriginal, RollupLeadsBelow, ImplementsLayerStore |
| `layer_stack_imprecise` | with imprecise_rollup_upto | finding: LoadedIsOriginal fails |
| `triple_layers` | 5 triples, stacks of up to 4 layers with up to 4 effective changes, 2 changes given to a builder | ScansAreExact (what each iterator returns, in order, once, and then None, and the net changes of a stack); LookupsAgree (lookups of one triple, single_triple_sp and the counts); LayersAreMinimal, LayerChangesAreExact |
| `triple_layers_by_object` | the same | finding: ObjectChangesShareObject fails |
| `archive_store` | 2 tasks, a base layer and a rolled up child of it, every operation, early readers, rival imports, 1 mishap | ReadsAreExact (the parents that a pack names included), AckedIsRetrievable, StoredNeverChanges, ExportNeedsOnlyStored, RollupReadIsWhole |
| `archive_store_early` | one base layer, asked for while it is imported | finding: ImportedIsRetrievable fails |
| `dictionaries` | 4 commits of one call and up to 6 directories with rollups; 3 commits and squashes; 3 commits and merges | IdsKeepNaming, TriplesAreMeant, ValueRangeIsExact, DictionariesAreUsed |
| `dictionaries_rollup_upto` | the same | finding: RollupHasAllTriples fails |

The passing runs of NamedGraph, the two label stores, LruArchive, LayerStack and TripleLayers
also check `TypeOK`.

**Bounds.** Two actors are enough for every race between a check and the swap that
relies on it, and one more actor only repeats the role of the second; for the
properties of section 5 the proofs remove this and every other bound. Versions go to
11 in `CachedDirectoryLabelStore`, past the version at which the text of a label
becomes longer. Five calls are what create, get, delete, create,
set takes, the shortest way to meet a recreated label. Six chunks in three layers
against a limit of three force evictions of one and of two entries. Four layers and
two rollups are the smallest stack in which a rollup ends inside another one; that case
needs no second task, and the races between a walk and a rollup need no fourth layer,
so `layer_stack` has one workload for each. In `Dictionaries` three triples arrive in an
order other than the lexical one, with a node that is an object too and values of two
datatypes. Two layers are enough in `ArchiveLayerStore`: one with a parent file, id maps
and removals, one without. `MaxMishaps` is 1 there: it counts crashes, calls of set_rollup
that are cut short, readers of layers under construction and rival imports, so that each
of them meets everything else and they do not meet one another; a poisoned lock is not
counted. Early readers ask for the number of removals, in either store: that is the removal
files of a child, and none of a layer that is taken for a base layer; a load of the whole
layer is in `archive_store_early`. One
triple is enough for `LayerStack`, where triples do not interact. In `TripleLayers`
they do, by their positions: the five triples have subjects with one and two
predicates, predicates with one and two objects, and a subject and an object that a
layer can skip; four layers and four changes let a triple be added, removed, added
and removed again. Ids from 0 to one past the largest are asked for. All bounds are CONSTANTS and appear in guards (`MaxOps`,
`MaxVersion`, `MaxFailures`, `MaxCrashes`, `MaxCancels`, `MaxMishaps`, `MaxName`, `MaxLayers`,
`MaxChanges`, `MaxTotal`, and the numbers of a workload).
Deadlock checking is off because the bounded clients stop.

**Fairness** is weak fairness of the steps inside a call that has begun: the runtime
polls a woken task, a mutex or lock that is free is granted. Nothing is assumed
about clients starting calls, about crashes or about cancellations.
`NamedGraph!CallsReturn` holds because each rival starts finitely many calls; with
rivals that never stop, force_set_head can be overtaken for ever.

## 4. Findings

Shown by a run:

1. imprecise_rollup_upto over a stack with a rollup that spans upto loses changes
   (`layer_stack_imprecise`).
2. A loaded child layer, asked for the additions or removals of an object it does not
   mention, answers with those of the next object it does mention; its files answer
   correctly (`triple_layers_by_object`).
3. get_file of the archive store can replace a handle that another caller has just
   inserted. A reader of a layer that is being imported makes the import lose a file
   (`archive_store_early`). Such a reader also sees the files that are there so far, and
   takes a child for a base layer before its parent file is written; what it sees are
   whole files of the layer (ReadsAreExact, with `disturbed` and MetUnderConstruction).
4. rollup_upto over layers one of which was loaded as a rollup numbers predicates by
   the map of nodes and values (`dictionaries_rollup_upto`): commit A, B, C, roll up C
   to A, load D over it and roll up D to A.

Seen while modelling, and named as exceptions in properties that hold:

5. `CachedDirectoryLabelStore` does not truncate: after clear_label the file has a tail
   of the old contents, and the next open fails (`HasTail` in AckedIsOnDisk,
   BrokenOnlyByCutOrClear).
6. What `LruArchiveBackend` looked up before a layer file was whole stays in the cache when
   the layer has been stored, since store_layer_file does not replace an entry: the first
   part of the bytes, or a Resolving entry with the answer "not found" if its reader was
   dropped before it took the mutex again (`early` in StoredIsRetrievable). The layer is
   answered like this until the entry is removed.
7. A reader dropped during its lookup leaves a Resolving entry with an empty barrier,
   and the next reader panics (`Abandoned` in StoredIsRetrievable; BarrierIsFilled).
8. A crash, an I/O error or a dropped call in set_rollup leaves an empty rollup file, and
   get_rollup panics on it (`cut` in RollupReadIsWhole). An import makes archives without
   files for layers that are not in the pack, although store/mod.rs:925 says that such
   layers are silently ignored: from then on the store has a layer of that name, which
   cannot be loaded, and a later import of it panics. The properties say nothing of these
   layers (`absent`). A failed import leaves its names taken.
9. Two imports of the same layer at the same time: create_named_directory asks the disk
   before it locks the construction map, so one import can claim a layer that the other
   has stored in between, and write its archive again. The comment at archive.rs:1468 says
   that the layer is in neither place by then. It writes the bytes that are there, so
   nobody notices (StoredNeverChanges, ReadsAreExact, `Rivals`), unless a reader has put
   handles of its own into one of the two directories: then the two images differ, the
   archive changes under its readers, and is a mixture of both (`Mixed`). If the layer is
   still in the map the second import panics with the lock held, and every later call of
   the store panics.
10. get_predicate_count of the cached layer store answers with the count of values for a
   layer that is not cached; nothing calls it there.
11. triples_p and triple_additions_p of predicate 0 return triples: predicates are numbered
   from 1 on, and 0 marks the holes that subjects without triples leave in a base layer;
   the lookup in the wavelet tree finds the holes, and the iterator goes on from each to
   the next triple (`FindsHoles` in ScansAreExact and LayerChangesAreExact). By subject and
   by object the scans compare the id, and 0 finds nothing.

## 5. Proofs

All theorems hold for any sets of clients, tasks, processes and layers and any number of
calls, crashes and cancellations; the bounds of the runs are constants of which the proofs
only use that they are numbers. The constants' assumptions are the ASSUMEs of each module.
They say that sentinels are not values, that bounds are numbers, that `Proc` is finite
(`DirectoryLabelStore`; explanations order the calls in progress), that there is a layer
(`LruArchive`) and, in `ArchiveLayerStore`, that `Idle` is not a call, `NoFile` not an
archive, `Persistent` not a task, and that `None`, `Error` and `Open` are not contents.

| module | theorem | states |
|---|---|---|
| `NamedGraph_proofs` | TypeCorrect, NoUpdateIsLost, HistoryIsKept | `[]TypeOK`, `[]NoLostUpdate`, `[]HeadHistoryIsKept` |
| | DirectorySetHeadAdvances, SetHeadAdvancesUntilDeleted | `SetHeadAdvances`, for the directory stores; for both stores until the first delete |
| | VersionedUpdates | `VersionedUpdateIsExact` |
| `DirectoryLabelStore_proofs` | LabelFileIsAtomic | `[]Linearizable` |
| | TypeCorrect, EmptyOnlyBeforeFirstLock | `[]TypeOK`, `[]EmptyOnlyWhileCreated` |
| `CachedDirectoryLabelStore_proofs` | TypeCorrect, AcknowledgedIsOnDisk, MapLagsByOne, OpenFailsForTwoReasons | `[]TypeOK`, `[]AckedIsOnDisk`, `[]DiskAtMostOneAhead`, `[]BrokenOnlyByCutOrClear` |
| `LruArchive_proofs` | TypeCorrect, CounterIsExact, EvictionNeverPanics, KeysAreEntries | `[]TypeOK`, `[]AccountedAndBounded`, `[]EvictionSucceeds`, `[]OrderMatchesEntries` |
| | OneResolver, StoredIsAnsweredWhole, WaitersAreAnswered | `[]ResolvingHasResolver`, `[]StoredIsRetrievable`, `[]BarrierIsFilled` |
| `LayerStack_proofs` | TypeCorrect, NoLoops | `[]TypeOK`, `[]RollupLeadsBelow` |
| | LayersLoadAsCommitted, StoreOfImmutableLayers | `[]LoadedIsOriginal` and `ImplementsLayerStore`, without imprecise rollups |
| `ArchiveLayerStore_proofs` | RollupFilesAreReadWhole | `RollupReadIsWhole` |
| | CompleteArchivesAreImmutable | `StoredNeverChanges`, without rival imports |
| | AcknowledgedIsComplete | the archive of every acknowledged layer is complete, without rival imports |
| | ArchiveHoldsItsFiles | the slices of an archive are the files that were put in it |
| `ArchiveLayerStoreContents_proofs` | AcknowledgedIsRetrievable, ReadersSeeWhatWasWritten, StoredLayersAreExported | `[]AckedIsRetrievable`, `[]ReadsAreExact`, `ExportNeedsOnlyStored`, without early readers and rival imports |

**NamedGraph.** None of the properties is inductive alone. The invariant `IInv` adds
`CallsHoldLabels` (what a call knows between its steps: past the check of set_head,
the layer it was given descends from the label it read) and `VersionsIdentify`
(until the label is deleted, a label someone read is no newer than the label on
record, and equal to it when the versions are equal: there is no ABA). The lemma
`SwapIsExact` draws from them that a successful swap replaces the label that was
read, which is all the theorems need. Committing a layer must not disturb ancestry:
`CommitKeepsAncestors`, because a layer that is being committed had no parent before.
SetHeadAdvances is not provable for the memory store once labels are deleted: that
store compares only versions, and a label deleted and created again repeats them, so
a set_head that read the old label can replace the head of the new one. This is where
`VersionsIdentify` has its hypothesis.

**DirectoryLabelStore.** `Program` is about the files: who holds which lock, that a file
is empty only between a truncate or a create and the write that follows, that a label
never counts more versions than there were calls. Linearizability needs a second
invariant, `HasFamily`: among the explanations there is a family `W`, all of whose members
have the label `L` that the linked file stands for (`Stands`: its contents, or what the
process that truncated or created it is about to write). In the explanation of the present
a call on the linked file takes effect when it answers, a create when its file appears. A
call on a file that was unlinked takes effect before the delete; when that file is
unlinked it is not known yet which of the calls on it will be answered, and in which
order, so `W` keeps one member for every order in which they might (`ClosedUnderMoves`),
and loses those that the answers refute. `W` is never empty (`Present`), and that is
`Linearizable`. `FamilyDeleted` is the step that makes the orders, `FamilyAnswers` the one
that uses them.

**CachedDirectoryLabelStore.** `IInv` adds what a call in progress has done
(`CallsInProgress`), that a file is shorter than its label only while it is created or
after that was cut short (`ShortOnlyWhenCreated`), and that the map is at most one
version behind whether or not the store is open (`MapBehindDisk`). A file
is never shorter than the text of its label otherwise, since a write that does not
truncate can only lengthen it; what remains behind a shorter text is the exception the
theorems name.

**LruArchive.** `IInv` is `Typed`, `Sound` (order, entries and counter fit one another: each
key once in the order, the counter the sum of the lengths, within the limit),
`ResolvingHasResolver`, `Fetched` (a resolver has filled its barrier before it installs),
`Whole` (what an entry or the barrier of a resolving one would answer is all of the file,
unless it rests on an early lookup), `Answered` and `Writing`. Most of the work is about the sum over a sequence of
keys: removing a key, appending one and splitting the order where the eviction loop stops
(`WithoutTotal`, `AppendTotal`, `SplitTotal`). `EnoughToFree` draws from `Sound` that the
loop ends before it runs out of resolved keys.

**LayerStack.** `Shape` holds in every workload: directories have the order of their names,
a rollup stands for a layer (the same contents, a parent from below that layer), walks,
caches and goals refer to what is there. `NoLoops` follows. `Meaning` says that every
directory and every layer of a loaded stack has exactly the changes from the contents
below it to its own; what a stack yields is then a telescoping sum (`StackTelescopes`,
`DiskTelescopes`), and a rollup has the net changes of what it spans
(`RollupChangeIsExact`). Its hypothesis `OnlyPrecise` (no caller uses
imprecise_rollup_upto) cannot be dropped: finding 1 is a counterexample. The
refinement maps what the files give to the abstract map of layers; `FilesGiveContents` shows
that this is `contents`, and `NextSeen` that each action is a `Make`, a `Get` or a stutter.

**ArchiveLayerStore.** `OnDisk` has `ConstructedOrStored` (a layer in the construction map has
no archive), and for the moments where that is true for no single reason, `WriterPhases`:
a writer that has asked the disk finds no archive, one that has finalized finds no
directory, and what it has behind it is complete. `WritersAreApart` is why no other writer
interferes; it holds as new layers have new names, and, for imports, by the hypothesis
`~Rivals`: a rival import stores an archive that is complete (finding 9), and that it
writes the same bytes is only model-checked.
`AckedIsWhole` follows from the third part of `WriterPhases`. `Rollups` says
that an empty rollup file has a set_rollup that holds the lock, or one that was cut short, to explain it,
and that the locks exclude each other. The form of archives is separate: `LaidOutStep` is
one round of the loop of finalize, and after 19 rounds the offsets counted from the
presence bits before a file are those at which its bytes were put (`SliceIs`, `Count`).

**ArchiveLayerStoreContents.** `Contained` follows the bytes of a layer from its builder
to its readers. `ArchiveOk`: an archive is the image of the files written for its layer,
however many of its bytes are on disk. `DirOk`: a finished handle in the construction map
holds what was written for its layer, and all files a builder needs are in the map before
the first of them is finished. `PackOk`: a pack has all files of its layers, and no other
bytes. `CallOk`, one part per kind of call: the work a writer has left, with what is in the
map, makes up all of the layer (`BuilderOk`), it holds the handles that are in the map
(`HeldOk`, `InsertOk`), what it finalizes is what is due; a reader has asked for a layer
that is on disk, and the handles it holds lead there. A call's part survives the steps of
the others since a step touches only directories of layers that its own call writes
(`Untouched`, `Local`), and writers are apart by `WritersAreApart`. The work lists of
builders and imports are taken apart by induction over the list (`BuildWorkOk`,
`ImportWorkIs`), packs likewise (`TarIs`, `PackParents`), and what is read from an archive is
`ArchiveHoldsItsFiles`. The hypotheses are `~Rivals`, for `OnDisk`, and `EarlyParts = {}`,
nobody reads a layer under construction: with early readers `InsertOk` fails, a reader puts its handle over the one a writer holds, and that is
finding 3. A layer that an import names and its pack does not have is stored without
files (finding 8); `absent` names these, here as in the properties.

**Induction.** The induction theorems of the library have an operator as a parameter, which
the provers cannot instantiate. `InductionLemmas` has them about sets instead:
a set with 0 and with the successors of its members has all numbers (`SetInduction`, from
`LeastElement`), and a recursive function that is given by its step exists
(`RecursionExists`, and `BoundedRecursion` up to a bound). With these the recursive functions
of the models are shown to satisfy their equations (`BytesOfRec`, `KeepingRec`,
`ExtensionsRec`, `UpFromExists`, `LayoutRec`), which the prover does not take for
granted, and what they compute is proved by induction.

**Only model-checked.**

- Liveness: `CallsReturn` of three modules.
- `ArchiveLayerStore` with early readers (`ReadsAreExact`, `AckedIsRetrievable`,
  `ExportNeedsOnlyStored`) and with rival imports (these and `StoredNeverChanges`).
- `TripleLayers`: its iterators are RECURSIVE operators.
- `Dictionaries`: what ids name after a rollup, a squash or a merge is about sorted
  dictionaries and counts over stacks; no invariant for it has been tried yet.

## 6. Not modelled

- Encodings: bit indexes, wavelet trees, front coding, log arrays (the tdb-succinct
  library, of which the models use what it promises), the tar format of packs.
- The dictionaries of an imprecise rollup: its triples are wrong already.
- The layer stores in memory and in plain directories: the operations of the archive
  store with one map or file per name and no finalize. copy.rs copies file by file.
  new_memory.rs is not part of the build.
- store/sync.rs blocks on one asynchronous call per method; logging only prints.
- layer_changes, PartiallyResolvedTriple and the cached get_predicate_count, which
  nothing calls; write_bytes, sizes, and listings (labels(), layers()), which change
  nothing.
- Directory entries are assumed durable once made: create_label syncs the file and not
  its directory. The `noreadlock` feature of locking.rs, which turns shared locks off.

## 7. Plan

1. `Dictionaries`: inner_to_outer and outer_to_inner are inverse on the maps rollups make,
   as lemmas.
2. `ArchiveLayerStore`: the theorems of its contents with early readers and rival imports, by
   an invariant that says which handle of a file is the one that finalize finds.
