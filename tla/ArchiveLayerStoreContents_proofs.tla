-------------------- MODULE ArchiveLayerStoreContents_proofs --------------------
(***************************************************************************)
(* What is in the archives, in the packs and in the answers readers get,   *)
(* for any number of callers, layers and mishaps, as long as nobody asks   *)
(* for a layer while it is under construction (EarlyParts = {}; the run    *)
(* archive_store_early shows what happens otherwise) and no two callers    *)
(* import the same layer at the same time (~Rivals).                       *)
(*                                                                         *)
(* The invariant Contained follows the bytes of a layer from the builder's *)
(* list of files through the handles of the construction map, the image    *)
(* that finalize makes and the archive to the pack and back.  A call's own *)
(* part of it (CallOk) survives the steps of the others because a step     *)
(* touches only directories of layers its own call writes (Local).         *)
(***************************************************************************)
EXTENDS ArchiveLayerStore_proofs
LOCAL INSTANCE SequencesExt

-----------------------------------------------------------------------------
(* The inductive invariant.                                                *)

(* A layer that the pack an import reads does not have.                    *)
NotInPack(s, l) == s = "target" /\ \A i \in DOMAIN pack : pack[i].layer # l

(* What finalize has to find for a layer ...                               *)
Due(s, l) == IF NotInPack(s, l) THEN << >> ELSE Original[l]

(* ... and what is in its archive then.                                    *)
Final(s, l) == IF Absent(s, l) THEN << >> ELSE Original[l]

(* An archive is made of the files of its layer, however much of it has    *)
(* been written.                                                           *)
ArchiveOk(s, l) ==
  archive[s][l] # NoFile =>
    /\ archive[s][l].written \in Int
    /\ archive[s][l] = WithWritten(ArchiveBytes(Final(s, l)), archive[s][l].written)

(* An entry of a pack: the directory of a layer, or a file of it.          *)
Entry == [layer : Layer, file : FILENAMES \cup {"directory"}, bytes : Seq(Byte)]

EntryOk(x) ==
  x.file # "directory" =>
    /\ FILENAME_ENUM_MAP[x.file] \in DOMAIN Original[x.layer]
    /\ x.bytes = Original[x.layer][FILENAME_ENUM_MAP[x.file]]

Carries(p, l, e) ==
  \E x \in ToSet(p) : x.layer = l /\ x.file # "directory" /\ FILENAME_ENUM_MAP[x.file] = e

(* A pack has all of what was written for the layers it has, and nothing   *)
(* else.                                                                   *)
PackOk(p) ==
  /\ p \in Seq(Entry)
  /\ \A x \in ToSet(p) : EntryOk(x)
  /\ \A x \in ToSet(p) : \A e \in DOMAIN Original[x.layer] : Carries(p, x.layer, e)

(* The types of the files a builder asks for.                              *)
Types(l) ==
  {FILENAME_ENUM_MAP[f] : f \in ToSet(layer_files(IsChild(l)))} \cup (IF IsChild(l) THEN {"parent"} ELSE {})

(* The handle of a file type that is in the map.                           *)
Key(s, l, e) == <<s, l, e, construction[s][l][e]>>

Finished(s, l, e) == e \in DOMAIN construction[s][l] /\ handles[Key(s, l, e)] # Open

(* A finished handle of a directory in the map holds what was written for  *)
(* the layer.  A builder has asked for all of its files by the time one of *)
(* them is finished, the parent aside.                                     *)
DirOk(s, l) ==
  construction[s][l] # NoDir =>
    /\ DOMAIN construction[s][l] \subseteq FileType
    /\ \A e \in DOMAIN construction[s][l] :
         /\ Key(s, l, e) \in DOMAIN handles /\ construction[s][l][e] # Persistent
         /\ handles[Key(s, l, e)] = Open \/ (e \in DOMAIN Original[l] /\ handles[Key(s, l, e)] = Original[l][e])
    /\ s = "origin" =>
         /\ DOMAIN construction[s][l] \subseteq Types(l)
         /\ \A e \in DOMAIN construction[s][l] :
              e # "parent" /\ Finished(s, l, e) => Types(l) \subseteq DOMAIN construction[s][l]

(* A file to be got, or to be written.                                     *)
Item ==
  [do : {"get"}, layer : Layer, file : FILENAMES]
    \cup [do : {"write"}, layer : Layer, file : FILENAMES, bytes : Seq(Byte)]

Has(q, do, l, e) ==
  \E w \in ToSet(q) : w.do = do /\ w.layer = l /\ FILENAME_ENUM_MAP[w.file] = e

(* Calls are about files of their own layers, and write what was written   *)
(* for those.                                                              *)
ItemOk(j, w) ==
  /\ w.layer \in j.ids /\ ~NotInPack(j.store, w.layer)
  /\ j.store = "origin" => FILENAME_ENUM_MAP[w.file] \in Types(w.layer)
  /\ w.do = "write" => /\ FILENAME_ENUM_MAP[w.file] \in DOMAIN Original[w.layer]
                       /\ w.bytes = Original[w.layer][FILENAME_ENUM_MAP[w.file]]

(* Every file is got before it is written.                                 *)
Ready(q, held) ==
  \A i \in 1 .. Len(q) : q[i].do = "write" =>
    \/ <<q[i].layer, q[i].file>> \in held
    \/ \E k \in 1 .. (i - 1) : q[k].do = "get" /\ q[k].layer = q[i].layer /\ q[k].file = q[i].file

(* A builder asks for all of its files before it writes one of them, the   *)
(* parent aside.                                                           *)
GetsFirst(q) ==
  \A i, k \in 1 .. Len(q) :
    i < k /\ q[i].do = "write" /\ FILENAME_ENUM_MAP[q[i].file] # "parent" => q[k].do # "get"

Early(j) == j.pc \in {"exists", "claim"}

(* Handles a writer holds are the ones in the map.                         *)
HeldOk(j) ==
  \A k \in DOMAIN j.held :
    /\ k[1] \in j.ids /\ k[2] \in FILENAMES
    /\ \/ j.held[k] = Persistent
       \/ construction[j.store][k[1]] = NoDir
       \/ /\ FILENAME_ENUM_MAP[k[2]] \in DOMAIN construction[j.store][k[1]]
          /\ j.held[k] = construction[j.store][k[1]][FILENAME_ENUM_MAP[k[2]]]

WorkOk(j) ==
  /\ j.work \in Seq(Item) /\ \A w \in ToSet(j.work) : ItemOk(j, w)
  /\ Ready(j.work, DOMAIN j.held)
  /\ Early(j) => DOMAIN j.held = {}

(* Nobody else makes the handle a writer is about to make.                 *)
InsertOk(j) ==
  j.pc = "insert" =>
    /\ j.work # << >> /\ Head(j.work).do = "get"
    /\ \/ construction[j.store][Head(j.work).layer] = NoDir
       \/ FILENAME_ENUM_MAP[Head(j.work).file] \notin DOMAIN construction[j.store][Head(j.work).layer]

(* What is due is still to be written, or was written.                     *)
LeftOk(j) ==
  \A l \in j.left : \A e \in DOMAIN Due(j.store, l) :
    \/ Has(j.work, "write", l, e)
    \/ ~Early(j) /\ (construction[j.store][l] = NoDir \/ Finished(j.store, l, e))

(* Nobody asks for files of a layer that is not in the pack.               *)
EmptyOk(j) ==
  \A l \in j.ids : NotInPack(j.store, l) =>
    \/ Early(j) /\ l \in ToSet(j.dirs)
    \/ construction[j.store][l] \in {NoDir, << >>}

(* A builder still has to ask for the files that are not in the map.       *)
BuilderOk(j) ==
  j.store = "origin" =>
    /\ GetsFirst(j.work)
    /\ \A l \in j.ids : \A e \in Types(l) :
         \/ Has(j.work, "get", l, e)
         \/ ~Early(j) /\ (construction[j.store][l] = NoDir \/ e \in DOMAIN construction[j.store][l])

(* A writer.  What it finalizes is what is due.                            *)
WriteOk(j) ==
  /\ WorkOk(j) /\ HeldOk(j) /\ InsertOk(j) /\ LeftOk(j) /\ EmptyOk(j) /\ BuilderOk(j)
  /\ j.pc \in {"open", "chunk"} => j.image = ArchiveBytes(Due(j.store, j.at))
  /\ j.store = "target" => pack # None

(* A reader asks for a layer that is on disk, and holds handles that lead  *)
(* there.                                                                  *)
ReadOk(j) ==
  /\ j.at \in Layer /\ j.part \in Part /\ archive[j.store][j.at] # NoFile /\ j.pc # "insert"
  /\ j.work \in Seq(Item) /\ \A w \in ToSet(j.work) : w.do = "get" /\ w.layer = j.at
  /\ \A k \in DOMAIN j.held : j.held[k] = Persistent
  /\ j.child \in BOOLEAN
  /\ j.pc = "work" =>
       /\ \A f \in ToSet(FilesOf(j.part, j.child)) :
            \/ <<j.at, f>> \in DOMAIN j.held
            \/ \E w \in ToSet(j.work) : w.file = f
       /\ AsksParent(j.part) => Absent(j.store, j.at) \/ j.child = IsChild(j.at)
  /\ j.pc = "done" => \/ j.seen = Error \/ j.seen = Expected[j.at][j.part]
                      \/ Absent(j.store, j.at) /\ DOMAIN j.seen = {}

(* A call that has read the name of a parent.                              *)
NameOk(j) ==
  \/ j.seen = Error
  \/ j.at \in Layer /\ archive[j.store][j.at] # NoFile
       /\ (Absent(j.store, j.at) \/ j.seen = ParentOf[j.at])

(* An export, and what it has so far.                                      *)
ExportOk(j) == j.store = "origin" /\ j.dirs \in Seq(Layer) /\ PackOk(j.tar)

(* The archive that is being written is there.                             *)
StoringOk(j) == j.pc = "chunk" => archive[j.store][j.at] # NoFile

CallOk(j) ==
  /\ j.op = "write" => WriteOk(j) /\ StoringOk(j)
  /\ j.op = "read" => ReadOk(j)
  /\ j.op = "parent_name" => NameOk(j)
  /\ j.op = "export" => ExportOk(j)

(* The calls in progress are all to one store.                             *)
OneStore == \A t, u \in Task : job[t] # Idle /\ job[u] # Idle => job[t].store = job[u].store

Contained ==
  /\ OneStore
  /\ \A s \in Store, l \in Layer : ArchiveOk(s, l) /\ DirOk(s, l)
  /\ \A l \in absent : l \in Layer /\ archive["target"][l] # NoFile
  /\ pack # None => PackOk(pack)
  /\ \A t \in Task : job[t] # Idle => CallOk(job[t])

(* Sequences, as sets.                                                     *)
LEMMA ToSetConcat ==
  ASSUME NEW A, NEW a \in Seq(A), NEW b \in Seq(A)
  PROVE  a \o b \in Seq(A) /\ ToSet(a \o b) = ToSet(a) \cup ToSet(b)
<1>1. /\ a \o b \in Seq(A) /\ Len(a \o b) = Len(a) + Len(b)
      /\ \A i \in 1 .. Len(a) + Len(b) : (a \o b)[i] = IF i <= Len(a) THEN a[i] ELSE b[i - Len(a)]
  BY ConcatProperties
<1>2. Len(a) \in Nat /\ Len(b) \in Nat
  BY LenProperties
<1>3. ASSUME NEW x \in ToSet(a) \cup ToSet(b) PROVE x \in ToSet(a \o b)
  <2>1. CASE x \in ToSet(a)
    BY <1>1, <1>2, <2>1 DEF ToSet
  <2>2. CASE x \in ToSet(b)
    <3>1. PICK i \in 1 .. Len(b) : b[i] = x
      BY <2>2 DEF ToSet
    <3>2. Len(a) + i \in 1 .. Len(a) + Len(b) /\ ~(Len(a) + i <= Len(a)) /\ (Len(a) + i) - Len(a) = i
      BY <1>2
    <3>3. (a \o b)[Len(a) + i] = x
      BY <1>1, <3>1, <3>2
    <3>. QED BY <1>1, <3>2, <3>3 DEF ToSet
  <2>. QED BY <1>3, <2>1, <2>2
<1>4. ASSUME NEW x \in ToSet(a \o b) PROVE x \in ToSet(a) \cup ToSet(b)
  <2>1. PICK i \in 1 .. Len(a) + Len(b) : (a \o b)[i] = x
    BY <1>1, <1>4 DEF ToSet
  <2>2. CASE i <= Len(a)
    BY <1>1, <1>2, <2>1, <2>2 DEF ToSet
  <2>3. CASE ~(i <= Len(a))
    <3>1. i - Len(a) \in 1 .. Len(b)
      BY <1>2, <2>3
    <3>. QED BY <1>1, <2>1, <2>3, <3>1 DEF ToSet
  <2>. QED BY <2>2, <2>3
<1>. QED BY <1>1, <1>3, <1>4

(* The types of files, and the names that stand for them.                  *)
LEMMA FileTypeIs ==
  FileType = {"node_dictionary", "predicate_dictionary", "value_dictionary",
    "node_value_idmap", "predicate_idmap",
    "pos_subjects", "pos_objects", "neg_subjects", "neg_objects",
    "pos_s_p", "pos_sp_o", "pos_o_ps", "pos_wavelet",
    "neg_s_p", "neg_sp_o", "neg_o_ps", "neg_wavelet",
    "parent", "rollup"}
BY DEF FileType, ToSet, LayerFileEnum

LEMMA EnumMapIs ==
  /\ \A f \in FileType : FILENAME_ENUM_MAP[f] = f /\ f \in FILENAMES
  /\ FILENAME_ENUM_MAP["base_subjects"] = "pos_subjects"
  /\ FILENAME_ENUM_MAP["base_objects"] = "pos_objects"
  /\ FILENAME_ENUM_MAP["base_s_p"] = "pos_s_p"
  /\ FILENAME_ENUM_MAP["base_sp_o"] = "pos_sp_o"
  /\ FILENAME_ENUM_MAP["base_o_ps"] = "pos_o_ps"
  /\ FILENAME_ENUM_MAP["base_wavelet"] = "pos_wavelet"
  /\ \A f \in BaseNames : f \in FILENAMES
BY FileTypeIs DEF FILENAME_ENUM_MAP, FILENAMES, BaseNames

LEMMA NamesFacts ==
  ASSUME NEW f \in FILENAMES
  PROVE  /\ FILENAME_ENUM_MAP[f] \in FileType
         /\ f # "directory"
         /\ FILENAME_ENUM_MAP[f] = "parent" => f = "parent"
BY FileTypeIs, EnumMapIs DEF FILENAMES, BaseNames

-----------------------------------------------------------------------------
(* The lists of files, as sets.                                            *)
DictionaryTypes == {"node_dictionary", "predicate_dictionary", "value_dictionary"}
IdMapTypes == {"node_value_idmap", "predicate_idmap"}
IndexTypes == {"pos_s_p", "pos_sp_o", "pos_o_ps", "pos_wavelet"}
BaseIndexNames == {"base_s_p", "base_sp_o", "base_o_ps", "base_wavelet"}
ChildTypes ==
  {"pos_subjects", "pos_objects", "neg_subjects", "neg_objects", "pos_s_p", "pos_sp_o", "pos_o_ps",
   "neg_s_p", "neg_sp_o", "neg_o_ps", "pos_wavelet", "neg_wavelet"}

LEMMA DictionaryFiles ==
  dictionary_files \in Seq(FILENAMES) /\ ToSet(dictionary_files) = DictionaryTypes
BY FileTypeIs DEF ToSet, dictionary_files, SHARED_REQUIRED_FILES, DictionaryTypes, FILENAMES

LEMMA IdMapFiles == id_map_files \in Seq(FILENAMES) /\ ToSet(id_map_files) = IdMapTypes
BY FileTypeIs DEF ToSet, id_map_files, IdMapTypes, FILENAMES

LEMMA BaseIndexFiles ==
  base_index_files \in Seq(FILENAMES) /\ ToSet(base_index_files) = BaseIndexNames
BY DEF ToSet, base_index_files, BaseIndexNames, FILENAMES, BaseNames

LEMMA ChildTripleFiles ==
  child_triple_files \in Seq(FILENAMES) /\ ToSet(child_triple_files) = ChildTypes
BY FileTypeIs DEF ToSet, child_triple_files, ChildTypes, FILENAMES

(* The files a builder writes ...                                          *)
LEMMA WrittenNames ==
  ASSUME NEW l \in Layer
  PROVE  /\ WrittenFiles(l) \in Seq(FILENAMES)
         /\ ToSet(WrittenFiles(l)) = DictionaryTypes \cup (IF l \in Rolled THEN IdMapTypes ELSE {})
                                       \cup (IF IsChild(l) THEN ChildTypes ELSE BaseIndexNames)
<1>. DEFINE a == dictionary_files
            b == IF l \in Rolled THEN id_map_files ELSE << >>
            c == IF IsChild(l) THEN child_triple_files ELSE base_index_files
<1>1. a \in Seq(FILENAMES) /\ ToSet(a) = DictionaryTypes
  BY DictionaryFiles
<1>2. b \in Seq(FILENAMES) /\ ToSet(b) = IF l \in Rolled THEN IdMapTypes ELSE {}
  <2>1. << >> \in Seq(FILENAMES) /\ ToSet(<< >>) = {}
    BY DEF ToSet
  <2>. QED BY <2>1, IdMapFiles
<1>3. c \in Seq(FILENAMES) /\ ToSet(c) = IF IsChild(l) THEN ChildTypes ELSE BaseIndexNames
  BY BaseIndexFiles, ChildTripleFiles
<1>4. WrittenFiles(l) = (a \o b) \o c
  BY DEF WrittenFiles
<1>. HIDE DEF a, b, c
<1>5. PICK ab \in Seq(FILENAMES) : ab = a \o b /\ ToSet(ab) = ToSet(a) \cup ToSet(b)
  BY <1>1, <1>2, ToSetConcat, ZenonT(60)
<1>6. ab \o c \in Seq(FILENAMES) /\ ToSet(ab \o c) = ToSet(ab) \cup ToSet(c)
  BY <1>3, ToSetConcat
<1>. QED BY <1>1, <1>2, <1>3, <1>4, <1>5, <1>6

(* ... and the ones it asks for.                                           *)
LEMMA LayerFilesAre ==
  ASSUME NEW c \in BOOLEAN
  PROVE  /\ layer_files(c) \in Seq(FILENAMES)
         /\ ToSet(layer_files(c)) = DictionaryTypes \cup IdMapTypes
              \cup (IF c THEN ChildTypes ELSE BaseIndexNames \cup {"base_subjects", "base_objects"})
<1>1. /\ dictionary_files \o id_map_files \in Seq(FILENAMES)
      /\ ToSet(dictionary_files \o id_map_files) = DictionaryTypes \cup IdMapTypes
  BY DictionaryFiles, IdMapFiles, ToSetConcat
<1>2. /\ <<"base_subjects", "base_objects">> \in Seq(FILENAMES)
      /\ ToSet(<<"base_subjects", "base_objects">>) = {"base_subjects", "base_objects"}
  BY DEF ToSet, FILENAMES, BaseNames
<1>. DEFINE a == dictionary_files \o id_map_files
            b == <<"base_subjects", "base_objects">>
<1>3. base_layer_files = (a \o b) \o base_index_files /\ child_layer_files = a \o child_triple_files
  BY DEF base_layer_files, child_layer_files
<1>. HIDE DEF a, b
<1>0. a \in Seq(FILENAMES) /\ b \in Seq(FILENAMES)
  BY <1>1, <1>2 DEF a, b
<1>4. PICK ab \in Seq(FILENAMES) : ab = a \o b /\ ToSet(ab) = ToSet(a) \cup ToSet(b)
  BY <1>0, ToSetConcat
<1>5. /\ base_layer_files \in Seq(FILENAMES)
      /\ ToSet(base_layer_files) = ToSet(ab) \cup ToSet(base_index_files)
  <2>1. base_layer_files = ab \o base_index_files
    BY <1>3, <1>4
  <2>. QED BY <2>1, BaseIndexFiles, ToSetConcat
<1>6. /\ child_layer_files \in Seq(FILENAMES)
      /\ ToSet(child_layer_files) = ToSet(a) \cup ToSet(child_triple_files)
  BY <1>0, <1>3, ChildTripleFiles, ToSetConcat
<1>7. /\ ToSet(base_layer_files) = DictionaryTypes \cup IdMapTypes
              \cup (BaseIndexNames \cup {"base_subjects", "base_objects"})
      /\ ToSet(child_layer_files) = DictionaryTypes \cup IdMapTypes \cup ChildTypes
  BY <1>1, <1>2, <1>4, <1>5, <1>6, BaseIndexFiles, ChildTripleFiles DEF a, b
<1>. QED BY <1>5, <1>6, <1>7 DEF layer_files

LEMMA TypesOfNames ==
  /\ \A f \in DictionaryTypes \cup IdMapTypes \cup ChildTypes \cup {"parent"} :
       f \in FileType /\ f \in FILENAMES /\ FILENAME_ENUM_MAP[f] = f
  /\ {FILENAME_ENUM_MAP[f] : f \in BaseIndexNames} = IndexTypes
  /\ BaseIndexNames \subseteq FILENAMES /\ IndexTypes \subseteq FileType
<1>1. \A f \in DictionaryTypes \cup IdMapTypes \cup ChildTypes \cup {"parent"} : f \in FileType
  BY FileTypeIs DEF DictionaryTypes, IdMapTypes, ChildTypes
<1>2. {FILENAME_ENUM_MAP[f] : f \in BaseIndexNames} = IndexTypes
  BY EnumMapIs DEF BaseIndexNames, IndexTypes
<1>3. BaseIndexNames \subseteq FILENAMES
  BY DEF BaseIndexNames, FILENAMES, BaseNames
<1>4. IndexTypes \subseteq FileType
  BY FileTypeIs DEF IndexTypes
<1>. QED BY <1>1, <1>2, <1>3, <1>4, EnumMapIs

(* What is written for a layer, type by type.                              *)
LEMMA OriginalTypes ==
  ASSUME NEW l \in Layer
  PROVE  /\ DOMAIN Original[l] = DictionaryTypes \cup (IF l \in Rolled THEN IdMapTypes ELSE {})
                \cup (IF IsChild(l) THEN ChildTypes \cup {"parent"} ELSE IndexTypes)
         /\ DOMAIN Original[l] \subseteq FileType
         /\ \A e \in DOMAIN Original[l] : Original[l][e] = Content(l, e)
         /\ \A f \in ToSet(WrittenFiles(l)) : f \in FILENAMES /\ FILENAME_ENUM_MAP[f] \in DOMAIN Original[l]
<1>. DEFINE D == {FILENAME_ENUM_MAP[f] : f \in ToSet(WrittenFiles(l))}
                   \cup (IF IsChild(l) THEN {"parent"} ELSE {})
<1>1. Original[l] = [e \in D |-> Content(l, e)]
  BY DEF Original
<1>2. D = DictionaryTypes \cup (IF l \in Rolled THEN IdMapTypes ELSE {})
                \cup (IF IsChild(l) THEN ChildTypes \cup {"parent"} ELSE IndexTypes)
  <2>1. CASE IsChild(l)
    BY <2>1, WrittenNames, TypesOfNames
  <2>2. CASE ~IsChild(l)
    BY <2>2, WrittenNames, TypesOfNames
  <2>. QED BY <2>1, <2>2
<1>3. D \subseteq FileType
  BY <1>2, TypesOfNames
<1>4. \A f \in ToSet(WrittenFiles(l)) : f \in FILENAMES /\ FILENAME_ENUM_MAP[f] \in D
  <2>1. ToSet(WrittenFiles(l)) \subseteq FILENAMES
    BY WrittenNames, TypesOfNames
  <2>. QED BY <2>1
<1>. HIDE DEF D
<1>. QED BY <1>1, <1>2, <1>3, <1>4

(* What is written for a layer is asked for.                               *)
LEMMA TypesAre ==
  ASSUME NEW l \in Layer
  PROVE  /\ Types(l) = DictionaryTypes \cup IdMapTypes
              \cup (IF IsChild(l) THEN ChildTypes \cup {"parent"}
                    ELSE IndexTypes \cup {"pos_subjects", "pos_objects"})
         /\ Types(l) \subseteq FileType
         /\ DOMAIN Original[l] \subseteq Types(l)
         /\ \A f \in ToSet(layer_files(IsChild(l))) : FILENAME_ENUM_MAP[f] \in Types(l)
<1>0. IsChild(l) \in BOOLEAN
  BY DEF IsChild
<1>1. Types(l) = DictionaryTypes \cup IdMapTypes
              \cup (IF IsChild(l) THEN ChildTypes \cup {"parent"}
                    ELSE IndexTypes \cup {"pos_subjects", "pos_objects"})
  <2>1. CASE IsChild(l)
    <3>1. ToSet(layer_files(TRUE)) = DictionaryTypes \cup IdMapTypes \cup ChildTypes
      BY LayerFilesAre
    <3>2. layer_files(IsChild(l)) = layer_files(TRUE)
      BY <2>1 DEF layer_files
    <3>3. Types(l) = {FILENAME_ENUM_MAP[f] : f \in ToSet(layer_files(TRUE))} \cup {"parent"}
      BY <2>1, <3>2 DEF Types
    <3>4. {FILENAME_ENUM_MAP[f] : f \in ToSet(layer_files(TRUE))} = ToSet(layer_files(TRUE))
      BY <3>1, TypesOfNames
    <3>. QED BY <2>1, <3>1, <3>3, <3>4
  <2>2. CASE ~IsChild(l)
    <3>1. ToSet(layer_files(FALSE)) = DictionaryTypes \cup IdMapTypes
              \cup (BaseIndexNames \cup {"base_subjects", "base_objects"})
      BY LayerFilesAre
    <3>2. {FILENAME_ENUM_MAP[f] : f \in {"base_subjects", "base_objects"}} = {"pos_subjects", "pos_objects"}
      BY EnumMapIs
    <3>3. {FILENAME_ENUM_MAP[f] : f \in DictionaryTypes \cup IdMapTypes} = DictionaryTypes \cup IdMapTypes
      BY TypesOfNames
    <3>5. layer_files(IsChild(l)) = layer_files(FALSE)
      BY <2>2 DEF layer_files
    <3>4. Types(l) = {FILENAME_ENUM_MAP[f] : f \in ToSet(layer_files(FALSE))}
      BY <2>2, <3>5 DEF Types
    <3>. QED BY <2>2, <3>1, <3>2, <3>3, <3>4, TypesOfNames, ZenonT(60)
  <2>. QED BY <2>1, <2>2
<1>2. {"pos_subjects", "pos_objects"} \subseteq FileType
  BY FileTypeIs
<1>. QED BY <1>1, <1>2, OriginalTypes, TypesOfNames DEF Types

(* What files hold.                                                        *)
LEMMA ContentIs ==
  ASSUME NEW l \in Layer, NEW e \in FileType
  PROVE  /\ Content(l, e) \in Seq(Byte) /\ Content(l, e) \notin {None, Error, Open}
         /\ e = "parent" => Content(l, e) = <<ParentOf[l]>>
<1>1. CASE e = "parent"
  <2>1. ParentOf[l] \in Byte
    BY ParentAssumption DEF Byte
  <2>2. Content(l, e) = <<ParentOf[l]>>
    BY <1>1 DEF Content
  <2>. QED BY <2>1, <2>2, ContentAssumption
<1>2. CASE e # "parent"
  <2>1. 1 + (Ordinal[e] % 2) \in Nat
    <3>1. Ordinal[e] \in 1 .. 19
      BY OrdinalType
    <3>. QED BY <3>1
  <2>2. PICK n \in Nat : n = 1 + (Ordinal[e] % 2)
    BY <2>1
  <2>3. Content(l, e) = [i \in 1 .. n |-> <<l, e, i>>]
    BY <1>2, <2>2 DEF Content
  <2>4. \A i \in 1 .. n : <<l, e, i>> \in Byte
    BY DEF Byte
  <2>5. [i \in 1 .. n |-> <<l, e, i>>] \in Seq(Byte)
    BY <2>4
  <2>. QED BY <1>2, <2>3, <2>5, ContentAssumption
<1>. QED BY <1>1, <1>2

LEMMA OriginalContents ==
  ASSUME NEW l \in Layer
  PROVE  Original[l] \in Contents(Byte) /\ << >> \in Contents(Byte)
<1>1. /\ Original[l] \in [DOMAIN Original[l] -> Seq(Byte)]
      /\ DOMAIN Original[l] \in SUBSET FileType
  <2>1. \A e \in DOMAIN Original[l] : Original[l][e] \in Seq(Byte)
    BY OriginalTypes, ContentIs
  <2>2. Original[l] = [e \in DOMAIN Original[l] |-> Original[l][e]]
    BY DEF Original
  <2>. QED BY <2>1, <2>2, OriginalTypes
<1>2. << >> \in [{} -> Seq(Byte)] /\ {} \in SUBSET FileType
  OBVIOUS
<1>. QED BY <1>1, <1>2 DEF Contents

LEMMA OriginalParent ==
  ASSUME NEW l \in Layer
  PROVE  /\ "parent" \in DOMAIN Original[l] <=> IsChild(l)
         /\ "parent" \in DOMAIN Original[l] => Original[l]["parent"] = <<ParentOf[l]>>
<1>1. "parent" \notin DictionaryTypes \cup IdMapTypes \cup IndexTypes
  BY DEF DictionaryTypes, IdMapTypes, IndexTypes
<1>. QED BY <1>1, OriginalTypes, ContentIs

(* The place of a file in an archive, and what is there.                   *)
LEMMA ArchiveSlices ==
  ASSUME NEW B, NEW contents \in Contents(B), NEW n, NEW a,
         a = WithWritten(ArchiveBytes(contents), n), NEW e \in FileType
  PROVE  /\ a.data \in Seq(B) /\ a.written = n
         /\ is_present(a, e) <=> e \in DOMAIN contents
         /\ e \in DOMAIN contents =>
              /\ slice_for(a, e) = contents[e]
              /\ range_for(a, e)[2] \in Nat /\ range_for(a, e)[2] =< Len(a.data)
<1>. DEFINE P == from_present(DOMAIN contents)
            layout == Layout(contents)[19]
<1>1. /\ a.presence = P /\ a.offsets = layout.offsets /\ a.data = layout.data /\ a.written = n
  BY EnumLen DEF WithWritten, ArchiveBytes
<1>2. DOMAIN contents \subseteq FileType
  BY DEF Contents
<1>3. \A x \in FileType : Ordinal[x] \in P <=> x \in DOMAIN contents
  BY <1>2, OrdinalType DEF from_present
<1>4. LaidOut(B, contents, P, layout, 19)
  BY AllLaidOut
<1>. HIDE DEF P, layout
<1>5. is_present(a, e) <=> e \in DOMAIN contents
  BY <1>1, <1>3 DEF is_present
<1>6. a.data \in Seq(B)
  BY <1>1, <1>4 DEF LaidOut, Layouts
<1>7. ASSUME e \in DOMAIN contents
      PROVE  /\ slice_for(a, e) = contents[e]
             /\ range_for(a, e)[2] \in Nat /\ range_for(a, e)[2] =< Len(a.data)
  <2>1. Ordinal[e] \in P /\ Ordinal[e] \in 1 .. 19 /\ LayerFileEnum[Ordinal[e]] = e
    BY <1>3, <1>7, OrdinalType
  <2>2. PICK k : k = Count(P, Ordinal[e])
    OBVIOUS
  <2>3. SliceIs(layout, k, contents[e])
    <3>1. Ordinal[e] =< 19
      BY <2>1
    <3>. QED BY <1>4, <2>1, <2>2, <3>1 DEF LaidOut
  <2>4. file_index(a, e) = k
    BY <1>1, <2>2 DEF file_index, Count
  <2>5. /\ range_for(a, e)[1] = Start(layout.offsets, k)
        /\ range_for(a, e)[2] = layout.offsets[k]
    BY <1>1, <2>4 DEF range_for, Start
  <2>6. slice_for(a, e) = SubSeq(layout.data, Start(layout.offsets, k) + 1, layout.offsets[k])
    BY <1>1, <2>5, Zenon DEF slice_for
  <2>. QED BY <1>1, <2>3, <2>5, <2>6 DEF SliceIs
<1>. QED BY <1>1, <1>5, <1>6, <1>7

LEMMA FinalContents ==
  ASSUME NEW s, NEW l \in Layer
  PROVE  Final(s, l) \in Contents(Byte) /\ Due(s, l) \in Contents(Byte)
BY OriginalContents DEF Final, Due

(* What is read from an archive: nothing, or what was written.             *)
LEMMA ArchiveIsRead ==
  ASSUME NEW s \in Store, NEW l \in Layer, ArchiveOk(s, l), archive[s][l] # NoFile, NEW e \in FileType
  PROVE  /\ layer_file_exists(s, l, e) # Error => layer_file_exists(s, l, e) = (e \in DOMAIN Final(s, l))
         /\ get_layer_structure_bytes(s, l, e) # Error =>
              get_layer_structure_bytes(s, l, e) = IF e \in DOMAIN Final(s, l) THEN Final(s, l)[e] ELSE None
         /\ Whole(archive[s][l]) => /\ layer_file_exists(s, l, e) = (e \in DOMAIN Final(s, l))
                                    /\ get_layer_structure_bytes(s, l, e) =
                                         IF e \in DOMAIN Final(s, l) THEN Final(s, l)[e] ELSE None
<1>. DEFINE a == archive[s][l]
            c == Final(s, l)
<1>1. a.written \in Int /\ a = WithWritten(ArchiveBytes(c), a.written) /\ c \in Contents(Byte)
  BY FinalContents DEF ArchiveOk
<1>2. /\ a.data \in Seq(Byte)
      /\ is_present(a, e) <=> e \in DOMAIN c
      /\ e \in DOMAIN c => /\ slice_for(a, e) = c[e]
                           /\ range_for(a, e)[2] \in Nat /\ range_for(a, e)[2] =< Len(a.data)
  <2>. HIDE DEF a, c
  <2>. QED BY <1>1, ArchiveSlices
<1>3. a # NoFile
  OBVIOUS
<1>4. /\ layer_file_exists(s, l, e) = IF a.written < 0 THEN Error ELSE is_present(a, e)
      /\ get_layer_structure_bytes(s, l, e) =
           IF a.written < 0 THEN Error
           ELSE IF ~is_present(a, e) THEN None
           ELSE IF range_for(a, e)[2] > a.written THEN Error
           ELSE slice_for(a, e)
  BY <1>3 DEF layer_file_exists, get_layer_structure_bytes
<1>5. is_present(a, e) \in BOOLEAN
  BY DEF is_present
<1>. HIDE DEF a, c
<1>6. ASSUME Whole(a)
      PROVE  ~(a.written < 0) /\ (e \in DOMAIN c => ~(range_for(a, e)[2] > a.written))
  <2>1. a.written = Len(a.data) /\ Len(a.data) \in Nat
    BY <1>2, <1>6, LenProperties DEF Whole
  <2>. QED BY <1>2, <2>1
<1>7. is_present(a, e) = (e \in DOMAIN c)
  BY <1>2, <1>5
<1>8. /\ layer_file_exists(s, l, e) # Error => layer_file_exists(s, l, e) = (e \in DOMAIN c)
      /\ get_layer_structure_bytes(s, l, e) # Error =>
           get_layer_structure_bytes(s, l, e) = IF e \in DOMAIN c THEN c[e] ELSE None
  <2>1. CASE a.written < 0
    BY <1>4, <2>1
  <2>2. CASE ~(a.written < 0)
    BY <1>2, <1>4, <1>7, <2>2
  <2>. QED BY <2>1, <2>2
<1>9. ASSUME Whole(a)
      PROVE  /\ layer_file_exists(s, l, e) = (e \in DOMAIN c)
             /\ get_layer_structure_bytes(s, l, e) = IF e \in DOMAIN c THEN c[e] ELSE None
  BY <1>2, <1>4, <1>6, <1>7, <1>9
<1>. QED BY <1>8, <1>9 DEF a, c

-----------------------------------------------------------------------------
(* The files of a pack.                                                    *)
LEMMA PackFileNames ==
  ASSUME NEW c \in BOOLEAN
  PROVE  /\ PackFiles(c) \in Seq(FILENAMES)
         /\ Packed(c) = DictionaryTypes \cup IdMapTypes
              \cup (IF c THEN ChildTypes \cup {"parent"} ELSE BaseIndexNames \cup {"base_subjects", "base_objects"})
         /\ PackRequires(c) \subseteq DictionaryTypes
              \cup (IF c THEN ChildTypes \cup {"parent"} ELSE BaseIndexNames)
         /\ "node_dictionary" \in PackRequires(c)
         /\ "parent" \in Packed(c) <=> c
<1>. DEFINE sr == SHARED_REQUIRED_FILES
            so == SHARED_OPTIONAL_FILES
            r == IF c THEN CHILD_LAYER_REQUIRED_FILES ELSE BASE_LAYER_REQUIRED_FILES
            o == IF c THEN CHILD_LAYER_OPTIONAL_FILES ELSE BASE_LAYER_OPTIONAL_FILES
<1>1. sr \in Seq(FILENAMES) /\ ToSet(sr) = DictionaryTypes
  BY FileTypeIs DEF ToSet, SHARED_REQUIRED_FILES, DictionaryTypes, FILENAMES
<1>2. so \in Seq(FILENAMES) /\ ToSet(so) = IdMapTypes \cup {"rollup"}
  BY FileTypeIs DEF ToSet, SHARED_OPTIONAL_FILES, IdMapTypes, FILENAMES
<1>3. /\ r \in Seq(FILENAMES)
      /\ ToSet(r) = IF c THEN {"parent", "pos_s_p", "pos_sp_o", "pos_o_ps", "pos_wavelet",
                               "neg_s_p", "neg_sp_o", "neg_o_ps", "neg_wavelet"} ELSE BaseIndexNames
  <2>1. /\ CHILD_LAYER_REQUIRED_FILES \in Seq(FILENAMES)
        /\ ToSet(CHILD_LAYER_REQUIRED_FILES) = {"parent", "pos_s_p", "pos_sp_o", "pos_o_ps", "pos_wavelet",
                               "neg_s_p", "neg_sp_o", "neg_o_ps", "neg_wavelet"}
    BY FileTypeIs DEF ToSet, CHILD_LAYER_REQUIRED_FILES, FILENAMES
  <2>2. /\ BASE_LAYER_REQUIRED_FILES \in Seq(FILENAMES)
        /\ ToSet(BASE_LAYER_REQUIRED_FILES) = BaseIndexNames
    BY DEF ToSet, BASE_LAYER_REQUIRED_FILES, FILENAMES, BaseNames, BaseIndexNames
  <2>. QED BY <2>1, <2>2
<1>4. /\ o \in Seq(FILENAMES)
      /\ ToSet(o) = IF c THEN {"pos_subjects", "pos_objects", "neg_subjects", "neg_objects"}
                    ELSE {"base_subjects", "base_objects"}
  <2>1. /\ CHILD_LAYER_OPTIONAL_FILES \in Seq(FILENAMES)
        /\ ToSet(CHILD_LAYER_OPTIONAL_FILES) = {"pos_subjects", "pos_objects", "neg_subjects", "neg_objects"}
    BY FileTypeIs DEF ToSet, CHILD_LAYER_OPTIONAL_FILES, FILENAMES
  <2>2. /\ BASE_LAYER_OPTIONAL_FILES \in Seq(FILENAMES)
        /\ ToSet(BASE_LAYER_OPTIONAL_FILES) = {"base_subjects", "base_objects"}
    BY DEF ToSet, BASE_LAYER_OPTIONAL_FILES, FILENAMES, BaseNames
  <2>. QED BY <2>1, <2>2
<1>5. PackFiles(c) = sr \o so \o (r \o o) /\ PackRequires(c) = ToSet(sr \o r)
  BY DEF PackFiles, PackRequires
<1>. HIDE DEF sr, so, r, o
<1>6. PICK a \in Seq(FILENAMES) : a = sr \o so /\ ToSet(a) = ToSet(sr) \cup ToSet(so)
  BY <1>1, <1>2, ToSetConcat, ZenonT(60)
<1>7. PICK b \in Seq(FILENAMES) : b = r \o o /\ ToSet(b) = ToSet(r) \cup ToSet(o)
  BY <1>3, <1>4, ToSetConcat, ZenonT(60)
<1>8. PackFiles(c) = a \o b
  BY <1>5, <1>6, <1>7
<1>9. PackFiles(c) \in Seq(FILENAMES) /\ ToSet(PackFiles(c)) = ToSet(a) \cup ToSet(b)
  BY <1>8, ToSetConcat
<1>10. PackRequires(c) = ToSet(sr) \cup ToSet(r)
  BY <1>1, <1>3, <1>5, ToSetConcat
<1>11. ToSet(r) \cup ToSet(o) =
         IF c THEN ChildTypes \cup {"parent"} ELSE BaseIndexNames \cup {"base_subjects", "base_objects"}
  BY <1>3, <1>4 DEF ChildTypes
<1>12. "rollup" \notin DictionaryTypes \cup IdMapTypes \cup ChildTypes \cup {"parent"} \cup BaseIndexNames
                         \cup {"base_subjects", "base_objects"}
  BY DEF ChildTypes, DictionaryTypes, IdMapTypes, BaseIndexNames
<1>13. Packed(c) = DictionaryTypes \cup IdMapTypes
              \cup (IF c THEN ChildTypes \cup {"parent"} ELSE BaseIndexNames \cup {"base_subjects", "base_objects"})
  BY <1>1, <1>2, <1>6, <1>7, <1>9, <1>11, <1>12 DEF Packed
<1>14. PackRequires(c) \subseteq DictionaryTypes \cup (IF c THEN ChildTypes \cup {"parent"} ELSE BaseIndexNames)
  BY <1>1, <1>3, <1>10 DEF ChildTypes
<1>15. "node_dictionary" \in PackRequires(c)
  BY <1>1, <1>10 DEF DictionaryTypes
<1>16. "parent" \in Packed(c) <=> c
  <2>1. "parent" \notin DictionaryTypes \cup IdMapTypes \cup BaseIndexNames \cup {"base_subjects", "base_objects"}
    BY DEF DictionaryTypes, IdMapTypes, BaseIndexNames
  <2>. QED BY <1>13, <2>1
<1>. QED BY <1>9, <1>13, <1>14, <1>15, <1>16

(* A pack has room for all of the files of a layer, and requires none that *)
(* is not written.                                                         *)
LEMMA PackedIsOriginal ==
  ASSUME NEW l \in Layer
  PROVE  /\ Packed(IsChild(l)) \subseteq FILENAMES
         /\ PackRequires(IsChild(l)) \subseteq Packed(IsChild(l))
         /\ \A f \in PackRequires(IsChild(l)) : FILENAME_ENUM_MAP[f] \in DOMAIN Original[l]
         /\ \A e \in DOMAIN Original[l] : \E f \in Packed(IsChild(l)) : FILENAME_ENUM_MAP[f] = e
<1>0. IsChild(l) \in BOOLEAN
  BY DEF IsChild
<1>1. Packed(IsChild(l)) \subseteq FILENAMES
  <2>1. {"base_subjects", "base_objects"} \subseteq FILENAMES
    BY DEF FILENAMES, BaseNames
  <2>. QED BY <1>0, <2>1, PackFileNames, TypesOfNames
<1>2. PackRequires(IsChild(l)) \subseteq Packed(IsChild(l))
  BY <1>0, PackFileNames
<1>3. \A f \in PackRequires(IsChild(l)) : FILENAME_ENUM_MAP[f] \in DOMAIN Original[l]
  <2>1. CASE IsChild(l)
    <3>1. PackRequires(IsChild(l)) \subseteq DictionaryTypes \cup ChildTypes \cup {"parent"}
      BY <1>0, <2>1, PackFileNames
    <3>2. DictionaryTypes \cup ChildTypes \cup {"parent"} \subseteq DOMAIN Original[l]
      BY <2>1, OriginalTypes
    <3>. QED BY <3>1, <3>2, TypesOfNames
  <2>2. CASE ~IsChild(l)
    <3>1. PackRequires(IsChild(l)) \subseteq DictionaryTypes \cup BaseIndexNames
      BY <1>0, <2>2, PackFileNames
    <3>2. DictionaryTypes \cup IndexTypes \subseteq DOMAIN Original[l]
      BY <2>2, OriginalTypes
    <3>. QED BY <3>1, <3>2, TypesOfNames
  <2>. QED BY <2>1, <2>2
<1>4. ASSUME NEW e \in DOMAIN Original[l]
      PROVE  \E f \in Packed(IsChild(l)) : FILENAME_ENUM_MAP[f] = e
  <2>1. CASE e \in DictionaryTypes \cup IdMapTypes
    BY <1>0, <2>1, PackFileNames, TypesOfNames
  <2>2. CASE IsChild(l) /\ e \in ChildTypes \cup {"parent"}
    BY <1>0, <2>2, PackFileNames, TypesOfNames
  <2>3. CASE ~IsChild(l) /\ e \in IndexTypes
    <3>1. BaseIndexNames \subseteq Packed(IsChild(l))
      BY <1>0, <2>3, PackFileNames
    <3>. QED BY <2>3, <3>1, TypesOfNames
  <2>. QED BY <2>1, <2>2, <2>3, OriginalTypes
<1>. QED BY <1>1, <1>2, <1>3, <1>4

LEMMA SaysYesOrNo ==
  ASSUME NEW x \in BOOLEAN
  PROVE  x # Error
BY ContentAssumption, Zenon

LEMMA FileTypesAsk ==
  /\ "parent" \in FILENAMES /\ FILENAME_ENUM_MAP["parent"] = "parent" /\ "parent" \in FileType
  /\ "node_dictionary" \in FILENAMES /\ FILENAME_ENUM_MAP["node_dictionary"] = "node_dictionary"
  /\ "node_dictionary" \in FileType /\ "node_dictionary" # "parent"
BY FileTypeIs, EnumMapIs

LEMMA TypesParent ==
  ASSUME NEW l \in Layer
  PROVE  "parent" \in Types(l) <=> IsChild(l)
<1>1. "parent" \notin DictionaryTypes \cup IdMapTypes \cup IndexTypes \cup {"pos_subjects", "pos_objects"}
  BY DEF DictionaryTypes, IdMapTypes, IndexTypes
<1>. QED BY <1>1, TypesAre

(* What an export reads of a layer that is under construction.             *)
LEMMA ConstructedFile ==
  ASSUME NEW l \in Layer, DirOk("origin", l), UnderConstruction("origin", l),
         NEW f \in FILENAMES, f # "rollup"
  PROVE  LET e == FILENAME_ENUM_MAP[f]
             d == construction["origin"][l]
         IN  /\ file_exists("origin", l, f) = (e \in DOMAIN d)
             /\ e \notin DOMAIN d => tar_append_file("origin", l, f) = None
             /\ e \in DOMAIN d /\ tar_append_file("origin", l, f) # Error =>
                  /\ Finished("origin", l, e) /\ e \in DOMAIN Original[l]
                  /\ tar_append_file("origin", l, f) = Original[l][e]
<1>. DEFINE e == FILENAME_ENUM_MAP[f]
            d == construction["origin"][l]
<1>1. file_exists("origin", l, f) = (e \in DOMAIN d)
  BY DEF file_exists
<1>2. file_exists("origin", l, f) # Error
  <2>1. (e \in DOMAIN d) \in BOOLEAN
    OBVIOUS
  <2>. QED BY <1>1, <2>1, SaysYesOrNo, Zenon
<1>3. ASSUME e \notin DOMAIN d
      PROVE  tar_append_file("origin", l, f) = None
  BY <1>1, <1>2, <1>3 DEF tar_append_file
<1>4. ASSUME e \in DOMAIN d, tar_append_file("origin", l, f) # Error
      PROVE  /\ Finished("origin", l, e) /\ e \in DOMAIN Original[l]
             /\ tar_append_file("origin", l, f) = Original[l][e]
  <2>1. d[e] # Persistent /\ d # NoDir
    BY <1>4 DEF DirOk, UnderConstruction
  <2>2. map_if_exists("origin", l, f, d[e]) =
          IF handles[Key("origin", l, e)] = Open THEN None ELSE handles[Key("origin", l, e)]
    BY <2>1 DEF map_if_exists, Key
  <2>3. tar_append_file("origin", l, f) =
          IF map_if_exists("origin", l, f, d[e]) = None THEN Error ELSE map_if_exists("origin", l, f, d[e])
    BY <1>1, <1>2, <1>4 DEF tar_append_file
  <2>4. handles[Key("origin", l, e)] # Open
    BY <1>4, <2>2, <2>3
  <2>5. e \in DOMAIN Original[l] /\ handles[Key("origin", l, e)] = Original[l][e]
    BY <1>4, <2>1, <2>4 DEF DirOk
  <2>. QED BY <1>4, <2>2, <2>3, <2>4, <2>5 DEF Finished
<1>. QED BY <1>1, <1>3, <1>4

(* ... and of one that is on disk.                                         *)
LEMMA StoredFile ==
  ASSUME NEW l \in Layer, ArchiveOk("origin", l), ~UnderConstruction("origin", l),
         archive["origin"][l] # NoFile, NEW f \in FILENAMES, f # "rollup"
  PROVE  LET e == FILENAME_ENUM_MAP[f]
         IN  /\ file_exists("origin", l, f) # Error =>
                  file_exists("origin", l, f) = (e \in DOMAIN Original[l])
             /\ tar_append_file("origin", l, f) # Error =>
                  tar_append_file("origin", l, f) = IF e \in DOMAIN Original[l] THEN Original[l][e] ELSE None
             /\ Whole(archive["origin"][l]) =>
                  /\ file_exists("origin", l, f) = (e \in DOMAIN Original[l])
                  /\ tar_append_file("origin", l, f) = IF e \in DOMAIN Original[l] THEN Original[l][e] ELSE None
<1>. DEFINE e == FILENAME_ENUM_MAP[f]
            bytes == get_layer_structure_bytes("origin", l, e)
            orig == IF e \in DOMAIN Original[l] THEN Original[l][e] ELSE None
<1>0. e \in FileType /\ "origin" \in Store
  BY NamesFacts DEF Store
<1>1. Final("origin", l) = Original[l]
  BY DEF Final, Absent
<1>2. /\ file_exists("origin", l, f) = layer_file_exists("origin", l, e)
      /\ map_if_exists("origin", l, f, Persistent) = bytes
  BY DEF file_exists, map_if_exists
<1>3. tar_append_file("origin", l, f) =
        IF file_exists("origin", l, f) = Error THEN Error
        ELSE IF ~file_exists("origin", l, f) THEN None
        ELSE IF bytes = None THEN Error ELSE bytes
  BY <1>2 DEF tar_append_file
<1>4. /\ layer_file_exists("origin", l, e) # Error =>
           layer_file_exists("origin", l, e) = (e \in DOMAIN Original[l])
      /\ bytes # Error => bytes = orig
      /\ Whole(archive["origin"][l]) =>
           layer_file_exists("origin", l, e) = (e \in DOMAIN Original[l]) /\ bytes = orig
  BY <1>0, <1>1, ArchiveIsRead
<1>5. e \in DOMAIN Original[l] => Original[l][e] \notin {None, Error}
  BY <1>0, OriginalTypes, ContentIs
<1>6. (e \in DOMAIN Original[l]) # Error
  <2>1. (e \in DOMAIN Original[l]) \in BOOLEAN
    OBVIOUS
  <2>. QED BY <2>1, SaysYesOrNo, Zenon
<1>. HIDE DEF e, bytes, orig
<1>7. ASSUME tar_append_file("origin", l, f) # Error
      PROVE  tar_append_file("origin", l, f) = orig
  <2>1. file_exists("origin", l, f) = (e \in DOMAIN Original[l])
    BY <1>2, <1>3, <1>4, <1>7
  <2>2. CASE e \notin DOMAIN Original[l]
    BY <1>3, <1>6, <2>1, <2>2 DEF orig
  <2>3. CASE e \in DOMAIN Original[l]
    <3>1. tar_append_file("origin", l, f) = IF bytes = None THEN Error ELSE bytes
      BY <1>3, <1>6, <2>1, <2>3
    <3>2. bytes # Error
      BY <1>7, <3>1
    <3>. QED BY <1>4, <1>7, <3>1, <3>2
  <2>. QED BY <2>2, <2>3
<1>8. ASSUME Whole(archive["origin"][l])
      PROVE  /\ file_exists("origin", l, f) = (e \in DOMAIN Original[l])
             /\ tar_append_file("origin", l, f) = orig
  <2>1. file_exists("origin", l, f) = (e \in DOMAIN Original[l]) /\ bytes = orig
    BY <1>2, <1>4, <1>8
  <2>2. CASE e \notin DOMAIN Original[l]
    BY <1>3, <1>6, <2>1, <2>2 DEF orig
  <2>3. CASE e \in DOMAIN Original[l]
    <3>1. tar_append_file("origin", l, f) = IF bytes = None THEN Error ELSE bytes
      BY <1>3, <1>6, <2>1, <2>3
    <3>. QED BY <1>5, <2>1, <2>3, <3>1 DEF orig
  <2>. QED BY <2>1, <2>2, <2>3
<1>. QED BY <1>2, <1>4, <1>7, <1>8 DEF e, orig

(* An export that does not fail reads what was written.                    *)
LEMMA ExportedIsOriginal ==
  ASSUME NEW l \in Layer, ArchiveOk("origin", l), DirOk("origin", l), ~tar_fails("origin", l)
  PROVE  /\ (file_exists("origin", l, "parent") = TRUE) <=> IsChild(l)
         /\ \A f \in Packed(IsChild(l)) :
              tar_append_file("origin", l, f) =
                IF FILENAME_ENUM_MAP[f] \in DOMAIN Original[l] THEN Original[l][FILENAME_ENUM_MAP[f]] ELSE None
<1>. DEFINE child == file_exists("origin", l, "parent") = TRUE
<1>0. child \in BOOLEAN
  OBVIOUS
<1>1. /\ file_exists("origin", l, "parent") # Error
      /\ \A f \in Packed(child) : tar_append_file("origin", l, f) # Error
      /\ \A f \in PackRequires(child) : tar_append_file("origin", l, f) # None
  BY DEF tar_fails
<1>2. "parent" # "rollup" /\ "node_dictionary" # "rollup"
  OBVIOUS
<1>3. /\ "node_dictionary" \in PackRequires(child) /\ "node_dictionary" \in Packed(child)
      /\ "rollup" \notin Packed(child)
  BY <1>0, PackFileNames DEF Packed, DictionaryTypes
<1>4. \A f \in Packed(IsChild(l)) : f \in FILENAMES /\ f # "rollup"
  BY PackedIsOriginal DEF Packed
<1>5. CASE UnderConstruction("origin", l)
  <2>. DEFINE d == construction["origin"][l]
  <2>1. Finished("origin", l, "node_dictionary") /\ "node_dictionary" \in DOMAIN d
    BY <1>1, <1>2, <1>3, <1>5, FileTypesAsk, ConstructedFile
  <2>2. Types(l) \subseteq DOMAIN d /\ DOMAIN d \subseteq Types(l)
    BY <1>5, <2>1, FileTypesAsk DEF DirOk, UnderConstruction
  <2>3. child <=> "parent" \in DOMAIN d
    BY <1>2, <1>5, FileTypesAsk, ConstructedFile
  <2>4. child <=> IsChild(l)
    BY <2>2, <2>3, TypesParent
  <2>5. ASSUME NEW f \in Packed(IsChild(l))
        PROVE  tar_append_file("origin", l, f) =
                IF FILENAME_ENUM_MAP[f] \in DOMAIN Original[l] THEN Original[l][FILENAME_ENUM_MAP[f]] ELSE None
    <3>1. tar_append_file("origin", l, f) # Error
      <4>1. Packed(child) = Packed(IsChild(l))
        BY <2>4 DEF Packed, PackFiles
      <4>. QED BY <1>1, <4>1
    <3>2. DOMAIN Original[l] \subseteq DOMAIN d
      BY <2>2, TypesAre
    <3>. QED BY <1>4, <1>5, <3>1, <3>2, ConstructedFile
  <2>. QED BY <2>4, <2>5
<1>6. CASE ~UnderConstruction("origin", l)
  <2>1. archive["origin"][l] # NoFile
    <3>. SUFFICES ASSUME archive["origin"][l] = NoFile PROVE FALSE
      OBVIOUS
    <3>1. file_exists("origin", l, "node_dictionary") = FALSE
      BY <1>2, <1>6 DEF file_exists, layer_file_exists
    <3>2. FALSE # Error
      BY ContentAssumption
    <3>3. tar_append_file("origin", l, "node_dictionary") = None
      BY <3>1, <3>2 DEF tar_append_file
    <3>. QED BY <1>1, <1>3, <3>3
  <2>2. child <=> IsChild(l)
    BY <1>1, <1>2, <1>6, <2>1, FileTypesAsk, StoredFile, OriginalParent
  <2>3. ASSUME NEW f \in Packed(IsChild(l))
        PROVE  tar_append_file("origin", l, f) =
                IF FILENAME_ENUM_MAP[f] \in DOMAIN Original[l] THEN Original[l][FILENAME_ENUM_MAP[f]] ELSE None
    <3>1. tar_append_file("origin", l, f) # Error
      <4>1. Packed(child) = Packed(IsChild(l))
        BY <2>2 DEF Packed, PackFiles
      <4>. QED BY <1>1, <4>1
    <3>. QED BY <1>4, <1>6, <2>1, <3>1, StoredFile
  <2>. QED BY <2>2, <2>3
<1>. QED BY <1>5, <1>6

(* A layer that is completely stored can be exported.                      *)
LEMMA StoredIsExported ==
  ASSUME NEW l \in Layer, ArchiveOk("origin", l), ~UnderConstruction("origin", l),
         Whole(archive["origin"][l])
  PROVE  ~tar_fails("origin", l)
<1>. DEFINE child == file_exists("origin", l, "parent") = TRUE
<1>0. archive["origin"][l] # NoFile
  BY DEF Whole
<1>1. file_exists("origin", l, "parent") = ("parent" \in DOMAIN Original[l])
  BY <1>0, FileTypesAsk, StoredFile
<1>2. file_exists("origin", l, "parent") # Error /\ (child <=> IsChild(l))
  <2>1. ("parent" \in DOMAIN Original[l]) \in BOOLEAN
    OBVIOUS
  <2>2. file_exists("origin", l, "parent") # Error
    BY <1>1, <2>1, SaysYesOrNo, Zenon
  <2>. QED BY <1>1, <2>2, OriginalParent
<1>3. Packed(child) = Packed(IsChild(l)) /\ PackRequires(child) = PackRequires(IsChild(l))
  BY <1>2 DEF Packed, PackFiles, PackRequires
<1>4. ASSUME NEW f \in Packed(IsChild(l))
      PROVE  /\ tar_append_file("origin", l, f) # Error
             /\ FILENAME_ENUM_MAP[f] \in DOMAIN Original[l] => tar_append_file("origin", l, f) # None
  <2>1. f \in FILENAMES /\ f # "rollup" /\ FILENAME_ENUM_MAP[f] \in FileType
    BY PackedIsOriginal, NamesFacts DEF Packed
  <2>2. tar_append_file("origin", l, f) =
          IF FILENAME_ENUM_MAP[f] \in DOMAIN Original[l] THEN Original[l][FILENAME_ENUM_MAP[f]] ELSE None
    BY <1>0, <2>1, StoredFile
  <2>3. FILENAME_ENUM_MAP[f] \in DOMAIN Original[l] => Original[l][FILENAME_ENUM_MAP[f]] \notin {None, Error}
    BY <2>1, OriginalTypes, ContentIs
  <2>4. None # Error
    BY ContentAssumption
  <2>. QED BY <2>2, <2>3, <2>4
<1>. QED BY <1>2, <1>3, <1>4, PackedIsOriginal DEF tar_fails

LEMMA ToSetAppend ==
  ASSUME NEW A, NEW q \in Seq(A), NEW x \in A
  PROVE  Append(q, x) \in Seq(A) /\ ToSet(Append(q, x)) = ToSet(q) \cup {x}
<1>1. /\ Append(q, x) \in Seq(A) /\ Len(Append(q, x)) = Len(q) + 1
      /\ \A i \in 1 .. Len(q) : Append(q, x)[i] = q[i]
      /\ Append(q, x)[Len(q) + 1] = x
  BY AppendProperties
<1>2. PICK n \in Nat : n = Len(q)
  BY LenProperties
<1>3. \A i \in 1 .. (n + 1) : i \in 1 .. n \/ i = n + 1
  OBVIOUS
<1>4. \A i \in 1 .. n : i \in 1 .. (n + 1)
  OBVIOUS
<1>5. n + 1 \in 1 .. (n + 1)
  OBVIOUS
<1>. QED BY <1>1, <1>2, <1>3, <1>4, <1>5 DEF ToSet

LEMMA ToSetTail ==
  ASSUME NEW A, NEW q \in Seq(A), q # << >>
  PROVE  /\ Head(q) \in A /\ Tail(q) \in Seq(A) /\ Head(q) = q[1]
         /\ Len(q) \in Nat \ {0} /\ Len(Tail(q)) = Len(q) - 1
         /\ \A i \in 1 .. Len(Tail(q)) : Tail(q)[i] = q[i + 1]
         /\ ToSet(q) = {Head(q)} \cup ToSet(Tail(q))
<1>1. /\ Head(q) \in A /\ Tail(q) \in Seq(A) /\ Head(q) = q[1]
      /\ Len(Tail(q)) = Len(q) - 1 /\ Len(q) \in Nat \ {0}
      /\ \A i \in 1 .. Len(Tail(q)) : Tail(q)[i] = q[i + 1]
  BY HeadTailProperties, EmptySeq
<1>2. PICK n \in Nat \ {0} : n = Len(q)
  BY <1>1
<1>3. \A i \in 1 .. (n - 1) : i + 1 \in 1 .. n
  OBVIOUS
<1>4. \A i \in 1 .. n : i = 1 \/ (i - 1 \in 1 .. (n - 1) /\ (i - 1) + 1 = i)
  OBVIOUS
<1>5. 1 \in 1 .. n
  OBVIOUS
<1>6. ToSet(q) = {q[i] : i \in 1 .. n} /\ ToSet(Tail(q)) = {Tail(q)[i] : i \in 1 .. (n - 1)}
  <2>1. DOMAIN q = 1 .. n
    BY <1>2, LenProperties
  <2>2. DOMAIN Tail(q) = 1 .. (n - 1)
    BY <1>1, <1>2, LenProperties
  <2>. QED BY <2>1, <2>2 DEF ToSet
<1>7. ASSUME NEW x \in ToSet(q) PROVE x \in {Head(q)} \cup ToSet(Tail(q))
  <2>1. PICK i \in 1 .. n : x = q[i]
    BY <1>6, <1>7
  <2>2. CASE i = 1
    BY <1>1, <2>1, <2>2
  <2>3. CASE i - 1 \in 1 .. (n - 1) /\ (i - 1) + 1 = i
    BY <1>1, <1>2, <1>6, <2>1, <2>3
  <2>. QED BY <1>4, <2>2, <2>3
<1>8. ASSUME NEW x \in {Head(q)} \cup ToSet(Tail(q)) PROVE x \in ToSet(q)
  BY <1>1, <1>2, <1>3, <1>5, <1>6, <1>8
<1>. QED BY <1>1, <1>7, <1>8

-----------------------------------------------------------------------------
(* Packs.                                                                  *)
LEMMA PackOkEmpty == PackOk(<< >>)
BY DEF PackOk, ToSet

(* A pack that is continued.                                               *)
LEMMA PackOkConcat ==
  ASSUME NEW p, NEW q, PackOk(p), PackOk(q)
  PROVE  PackOk(p \o q)
<1>1. p \o q \in Seq(Entry) /\ ToSet(p \o q) = ToSet(p) \cup ToSet(q)
  BY ToSetConcat DEF PackOk
<1>2. \A l, e : Carries(p, l, e) \/ Carries(q, l, e) => Carries(p \o q, l, e)
  BY <1>1 DEF Carries
<1>3. \A x \in ToSet(p \o q) : EntryOk(x)
  BY <1>1 DEF PackOk
<1>4. ASSUME NEW x \in ToSet(p \o q), NEW e \in DOMAIN Original[x.layer]
      PROVE  Carries(p \o q, x.layer, e)
  BY <1>1, <1>2, <1>4 DEF PackOk
<1>. QED BY <1>1, <1>3, <1>4 DEF PackOk

(* The list tar_append_layer makes, file by file.                          *)
TarEntry(l, f) ==
  [layer |-> l, file |-> f, bytes |-> Original[l][FILENAME_ENUM_MAP[f]]]

InTar(l, f) == f # "rollup" /\ FILENAME_ENUM_MAP[f] \in DOMAIN Original[l]

TarSteps(l, files, T) ==
  /\ ToSet(files) \ {"rollup"} = Packed(IsChild(l))
  /\ T[0] = <<[layer |-> l, file |-> "directory", bytes |-> << >>]>>
  /\ \A n \in 1 .. Len(files) :
       T[n] = IF InTar(l, files[n]) THEN Append(T[n - 1], TarEntry(l, files[n])) ELSE T[n - 1]
  /\ tar_append_layer("origin", l) = T[Len(files)]

LEMMA TarIs ==
  ASSUME NEW l \in Layer, ArchiveOk("origin", l), DirOk("origin", l), ~tar_fails("origin", l)
  PROVE  \E files \in Seq(FILENAMES) : \E T : TarSteps(l, files, T)
<1>. DEFINE child == file_exists("origin", l, "parent") = TRUE
            files == PackFiles(child)
            X == Seq(Entry)
            zero == <<[layer |-> l, file |-> "directory", bytes |-> << >>]>>
            S(n, x) == IF files[n] = "rollup" \/ tar_append_file("origin", l, files[n]) = None
                       THEN x
                       ELSE Append(x, [layer |-> l, file |-> files[n],
                                       bytes |-> tar_append_file("origin", l, files[n])])
            F == CHOOSE f : f = [n \in 0 .. Len(files) |-> IF n = 0 THEN zero ELSE S(n, f[n - 1])]
<1>1. tar_append_layer("origin", l) = F[Len(files)]
  BY DEF tar_append_layer
<1>2. /\ child <=> IsChild(l)
      /\ \A f \in Packed(IsChild(l)) :
              tar_append_file("origin", l, f) =
                IF FILENAME_ENUM_MAP[f] \in DOMAIN Original[l] THEN Original[l][FILENAME_ENUM_MAP[f]] ELSE None
  BY ExportedIsOriginal
<1>3. files = PackFiles(IsChild(l)) /\ files \in Seq(FILENAMES) /\ ToSet(files) \ {"rollup"} = Packed(IsChild(l))
  <2>1. files = PackFiles(IsChild(l))
    BY <1>2 DEF PackFiles
  <2>2. IsChild(l) \in BOOLEAN
    BY DEF IsChild
  <2>. QED BY <2>1, <2>2, PackFileNames DEF Packed
<1>. HIDE DEF child, files
<1>4. PICK N \in Nat : N = Len(files)
  BY <1>3, LenProperties
<1>5. ASSUME NEW n \in 1 .. N
      PROVE  /\ files[n] \in FILENAMES
             /\ files[n] = "rollup" \/ files[n] \in Packed(IsChild(l))
             /\ FILENAME_ENUM_MAP[files[n]] \in FileType
  <2>1. files[n] \in FILENAMES /\ files[n] \in ToSet(files)
    BY <1>3, <1>4, <1>5 DEF ToSet
  <2>. QED BY <1>3, <2>1, NamesFacts
<1>6. \A e \in DOMAIN Original[l] : Original[l][e] # None /\ Original[l][e] \in Seq(Byte)
  BY OriginalTypes, ContentIs
<1>7. \A n \in 1 .. N, x \in X :
        S(n, x) = IF InTar(l, files[n]) THEN Append(x, TarEntry(l, files[n])) ELSE x
  BY <1>2, <1>5, <1>6 DEF InTar, TarEntry
<1>8. ASSUME NEW n \in 1 .. N, InTar(l, files[n])
      PROVE  TarEntry(l, files[n]) \in Entry
  BY <1>5, <1>6, <1>8 DEF InTar, TarEntry, Entry
<1>9. zero \in X
  BY DEF Entry
<1>. DEFINE step == [p \in (0 .. N) \X X |-> IF p[1] = 0 THEN p[2] ELSE S(p[1], p[2])]
<1>. HIDE DEF S
<1>10. \A n \in 1 .. N, x \in X : S(n, x) \in X
  BY <1>7, <1>8, AppendProperties
<1>. HIDE DEF X, zero
<1>11. step \in [(0 .. N) \X X -> X]
  <2>1. ASSUME NEW p \in (0 .. N) \X X
        PROVE  (IF p[1] = 0 THEN p[2] ELSE S(p[1], p[2])) \in X
    <3>1. p[1] \in 0 .. N /\ p[2] \in X
      OBVIOUS
    <3>2. p[1] # 0 => p[1] \in 1 .. N
      BY <3>1
    <3>. QED BY <1>10, <3>1, <3>2
  <2>. QED BY <2>1
<1>12. PICK f \in [0 .. N -> X] : Iterates(f, N, zero, step)
  <2>. HIDE DEF step
  <2>. QED BY <1>9, <1>11, BoundedRecursion
<1>13. f = [n \in 0 .. N |-> IF n = 0 THEN zero ELSE S(n, f[n - 1])]
  <2>1. ASSUME NEW n \in 0 .. N
        PROVE  f[n] = IF n = 0 THEN zero ELSE S(n, f[n - 1])
    <3>1. CASE n = 0
      BY <1>12, <3>1 DEF Iterates
    <3>2. CASE n # 0
      <4>1. n \in 1 .. N /\ n - 1 \in 0 .. N
        BY <3>2
      <4>2. f[n] = step[<<n, f[n - 1]>>] /\ f[n - 1] \in X
        BY <1>12, <4>1 DEF Iterates
      <4>. QED BY <3>2, <4>1, <4>2
    <3>. QED BY <3>1, <3>2
  <2>. QED BY <1>12, <2>1
<1>14. F = [n \in 0 .. N |-> IF n = 0 THEN zero ELSE S(n, F[n - 1])]
  BY <1>4, <1>13
<1>. HIDE DEF F
<1>15. F[0] = zero /\ \A n \in 1 .. N : F[n] = S(n, F[n - 1])
  <2>1. 0 \in 0 .. N /\ \A n \in 1 .. N : n \in 0 .. N /\ n # 0
    OBVIOUS
  <2>. QED BY <1>14, <2>1
<1>16. \A n \in 0 .. N : F[n] \in X
  <2>. DEFINE T == {n \in 0 .. N : F[n] \in X}
  <2>1. 0 \in T
    BY <1>9, <1>15
  <2>2. ASSUME NEW n \in 1 .. N, n - 1 \in T PROVE n \in T
    BY <1>10, <1>15, <2>2
  <2>. HIDE DEF T
  <2>3. \A n \in 0 .. N : n \in T
    BY <2>1, <2>2, BoundedInduction
  <2>. QED BY <2>3 DEF T
<1>17. \A n \in 1 .. N : F[n] = IF InTar(l, files[n]) THEN Append(F[n - 1], TarEntry(l, files[n])) ELSE F[n - 1]
  <2>1. \A n \in 1 .. N : n - 1 \in 0 .. N
    OBVIOUS
  <2>. QED BY <1>7, <1>15, <1>16, <2>1
<1>18. TarSteps(l, files, F)
  BY <1>1, <1>3, <1>4, <1>15, <1>17 DEF zero, TarSteps
<1>. QED BY <1>3, <1>18

(* The part of a pack that is about one layer.                             *)
LEMMA TarIsOk ==
  ASSUME NEW l \in Layer, ArchiveOk("origin", l), DirOk("origin", l), ~tar_fails("origin", l)
  PROVE  PackOk(tar_append_layer("origin", l))
<1>0. PICK files \in Seq(FILENAMES) : \E T : TarSteps(l, files, T)
  BY TarIs
<1>1. PICK T : TarSteps(l, files, T)
  BY <1>0
<1>. USE DEF TarSteps
<1>2. PICK N \in Nat : N = Len(files)
  BY LenProperties
<1>. DEFINE Ok(n) == /\ T[n] \in Seq(Entry)
                     /\ \A x \in ToSet(T[n]) : x.layer = l /\ EntryOk(x)
                     /\ \A k \in 1 .. n : InTar(l, files[k]) => Carries(T[n], l, FILENAME_ENUM_MAP[files[k]])
            I == {n \in 0 .. N : Ok(n)}
<1>3. 0 \in I
  <2>. DEFINE x == [layer |-> l, file |-> "directory", bytes |-> << >>]
  <2>1. << >> \in Seq(Byte)
    OBVIOUS
  <2>2. x \in Entry
    BY <2>1 DEF Entry
  <2>3. EntryOk(x) /\ x.layer = l
    BY DEF EntryOk
  <2>. HIDE DEF x
  <2>4. <<x>> \in Seq(Entry) /\ ToSet(<<x>>) = {x}
    BY <2>2 DEF ToSet
  <2>5. T[0] = <<x>>
    BY <1>1 DEF x
  <2>6. \A k \in 1 .. 0 : FALSE
    OBVIOUS
  <2>7. \A y \in ToSet(T[0]) : y.layer = l /\ EntryOk(y)
    BY <2>3, <2>4, <2>5
  <2>8. Ok(0)
    BY <2>4, <2>5, <2>6, <2>7
  <2>. QED BY <1>2, <2>8
<1>4. ASSUME NEW n \in 1 .. N, n - 1 \in I PROVE n \in I
  <2>1. Ok(n - 1) /\ n \in 0 .. N
    BY <1>4
  <2>2. \A k \in 1 .. n : k \in 1 .. (n - 1) \/ k = n
    OBVIOUS
  <2>3. CASE ~InTar(l, files[n])
    <3>1. T[n] = T[n - 1]
      BY <1>1, <1>2, <2>3
    <3>. QED BY <2>1, <2>2, <2>3, <3>1
  <2>4. CASE InTar(l, files[n])
    <3>1. T[n] = Append(T[n - 1], TarEntry(l, files[n]))
      BY <1>1, <1>2, <2>4
    <3>2. files[n] \in FILENAMES /\ files[n] # "directory"
      BY <1>2, NamesFacts
    <3>3. Original[l][FILENAME_ENUM_MAP[files[n]]] \in Seq(Byte)
      BY <2>4, OriginalTypes, ContentIs DEF InTar
    <3>4. PICK x \in Entry : x = TarEntry(l, files[n])
      BY <3>2, <3>3 DEF TarEntry, Entry
    <3>5. x.layer = l /\ x.file = files[n] /\ EntryOk(x)
      BY <2>4, <3>4 DEF TarEntry, EntryOk, InTar
    <3>6. T[n] \in Seq(Entry) /\ ToSet(T[n]) = ToSet(T[n - 1]) \cup {x}
      BY <2>1, <3>1, <3>4, ToSetAppend
    <3>7. \A e : Carries(T[n - 1], l, e) => Carries(T[n], l, e)
      BY <3>6 DEF Carries
    <3>8. Carries(T[n], l, FILENAME_ENUM_MAP[files[n]])
      BY <3>2, <3>5, <3>6 DEF Carries
    <3>9. \A k \in 1 .. n : InTar(l, files[k]) => Carries(T[n], l, FILENAME_ENUM_MAP[files[k]])
      BY <2>1, <2>2, <3>7, <3>8
    <3>. QED BY <2>1, <3>5, <3>6, <3>9
  <2>. QED BY <2>3, <2>4
<1>. HIDE DEF I
<1>5. \A n \in 0 .. N : n \in I
  BY <1>3, <1>4, BoundedInduction
<1>6. Ok(N)
  BY <1>5 DEF I
<1>7. ASSUME NEW e \in DOMAIN Original[l]
      PROVE  Carries(T[N], l, e)
  <2>1. PICK f \in Packed(IsChild(l)) : FILENAME_ENUM_MAP[f] = e
    BY PackedIsOriginal
  <2>2. f \in ToSet(files) /\ f # "rollup"
    BY <1>1, <2>1
  <2>3. PICK k \in 1 .. N : files[k] = f
    <3>1. DOMAIN files = 1 .. N
      BY <1>2, LenProperties
    <3>. QED BY <2>2, <3>1 DEF ToSet
  <2>4. InTar(l, files[k])
    BY <2>1, <2>2, <2>3 DEF InTar
  <2>. QED BY <1>6, <2>1, <2>3, <2>4
<1>8. tar_append_layer("origin", l) = T[N]
  BY <1>1, <1>2
<1>. HIDE DEF Ok
<1>9. T[N] \in Seq(Entry) /\ \A x \in ToSet(T[N]) : x.layer = l /\ EntryOk(x)
  BY <1>6 DEF Ok
<1>. QED BY <1>7, <1>8, <1>9 DEF PackOk

-----------------------------------------------------------------------------
(* Lists of work.                                                          *)
Got(q) == {<<w.layer, w.file>> : w \in {v \in ToSet(q) : v.do = "get"}}

LEMMA ConcatIndices ==
  ASSUME NEW A, NEW p \in Seq(A), NEW q \in Seq(A)
  PROVE  /\ p \o q \in Seq(A) /\ Len(p) \in Nat /\ Len(q) \in Nat /\ Len(p \o q) = Len(p) + Len(q)
         /\ \A i \in 1 .. Len(p) : (p \o q)[i] = p[i]
         /\ \A i \in 1 .. Len(q) : (p \o q)[Len(p) + i] = q[i]
         /\ \A i \in 1 .. (Len(p) + Len(q)) :
              i \in 1 .. Len(p) \/ (i > Len(p) /\ i - Len(p) \in 1 .. Len(q) /\ (p \o q)[i] = q[i - Len(p)])
<1>1. PICK m \in Nat : m = Len(p)
  BY LenProperties
<1>2. PICK n \in Nat : n = Len(q)
  BY LenProperties
<1>3. p \o q \in Seq(A) /\ Len(p \o q) = m + n
  BY <1>1, <1>2, ConcatProperties
<1>4. \A i \in 1 .. (m + n) : (p \o q)[i] = IF i =< m THEN p[i] ELSE q[i - m]
  BY <1>1, <1>2, ConcatProperties
<1>5. \A i \in 1 .. m : i \in 1 .. (m + n) /\ i =< m
  OBVIOUS
<1>6. \A i \in 1 .. n : m + i \in 1 .. (m + n) /\ ~(m + i =< m) /\ (m + i) - m = i
  OBVIOUS
<1>7. \A i \in 1 .. (m + n) : i \in 1 .. m \/ (i > m /\ ~(i =< m) /\ i - m \in 1 .. n)
  OBVIOUS
<1>8. \A i \in 1 .. m : (p \o q)[i] = p[i]
  BY <1>4, <1>5
<1>9. \A i \in 1 .. n : (p \o q)[m + i] = q[i]
  BY <1>4, <1>6
<1>10. \A i \in 1 .. (m + n) : i \in 1 .. m \/ (i > m /\ i - m \in 1 .. n /\ (p \o q)[i] = q[i - m])
  BY <1>4, <1>7
<1>. QED BY <1>1, <1>2, <1>3, <1>8, <1>9, <1>10

(* A list of work may rely on what the list before it has got.             *)
LEMMA ReadyConcat ==
  ASSUME NEW p \in Seq(Item), NEW q \in Seq(Item), NEW held, Ready(p, held), Ready(q, held \cup Got(p))
  PROVE  Ready(p \o q, held)
<1>1. PICK m \in Nat, n \in Nat : m = Len(p) /\ n = Len(q)
  BY LenProperties
<1>2. /\ Len(p \o q) = m + n
      /\ \A i \in 1 .. m : (p \o q)[i] = p[i]
      /\ \A i \in 1 .. n : (p \o q)[m + i] = q[i]
      /\ \A i \in 1 .. (m + n) : i \in 1 .. m \/ (i > m /\ i - m \in 1 .. n /\ (p \o q)[i] = q[i - m])
  BY <1>1, ConcatIndices
<1>3. ASSUME NEW i \in 1 .. (m + n), (p \o q)[i].do = "write"
      PROVE  \/ <<(p \o q)[i].layer, (p \o q)[i].file>> \in held
             \/ \E k \in 1 .. (i - 1) : /\ (p \o q)[k].do = "get" /\ (p \o q)[k].layer = (p \o q)[i].layer
                                        /\ (p \o q)[k].file = (p \o q)[i].file
  <2>1. CASE i \in 1 .. m
    <3>1. (p \o q)[i] = p[i]
      BY <1>2, <2>1
    <3>2. \A k \in 1 .. (i - 1) : k \in 1 .. m
      BY <2>1
    <3>. QED BY <1>1, <1>2, <1>3, <2>1, <3>1, <3>2 DEF Ready
  <2>2. CASE i > m /\ i - m \in 1 .. n /\ (p \o q)[i] = q[i - m]
    <3>. DEFINE x == q[i - m]
    <3>1. x.do = "write" /\ i - m \in 1 .. Len(q)
      BY <1>1, <1>3, <2>2
    <3>2. \/ <<x.layer, x.file>> \in held \cup Got(p)
          \/ \E k \in 1 .. ((i - m) - 1) : q[k].do = "get" /\ q[k].layer = x.layer /\ q[k].file = x.file
      BY <3>1 DEF Ready
    <3>. HIDE DEF x
    <3>3. ASSUME <<x.layer, x.file>> \in Got(p)
          PROVE  \E k \in 1 .. (i - 1) : (p \o q)[k].do = "get" /\ (p \o q)[k].layer = x.layer
                                           /\ (p \o q)[k].file = x.file
      <4>1. PICK k \in 1 .. m : p[k].do = "get" /\ p[k].layer = x.layer /\ p[k].file = x.file
        <5>1. DOMAIN p = 1 .. m
          BY <1>1, LenProperties
        <5>. QED BY <3>3, <5>1 DEF Got, ToSet
      <4>2. k \in 1 .. (i - 1)
        BY <2>2
      <4>. QED BY <1>2, <4>1, <4>2
    <3>4. ASSUME NEW k \in 1 .. ((i - m) - 1), q[k].do = "get" /\ q[k].layer = x.layer /\ q[k].file = x.file
          PROVE  \E h \in 1 .. (i - 1) : (p \o q)[h].do = "get" /\ (p \o q)[h].layer = x.layer
                                           /\ (p \o q)[h].file = x.file
      <4>1. m + k \in 1 .. (i - 1) /\ k \in 1 .. n
        BY <2>2
      <4>2. (p \o q)[m + k] = q[k]
        BY <1>2, <4>1
      <4>. QED BY <3>4, <4>1, <4>2
    <3>5. (p \o q)[i] = x
      BY <2>2 DEF x
    <3>. QED BY <3>2, <3>3, <3>4, <3>5
  <2>. QED BY <1>2, <2>1, <2>2
<1>. QED BY <1>2, <1>3 DEF Ready

LEMMA ReadyTail ==
  ASSUME NEW q \in Seq(Item), q # << >>, NEW held, NEW more, Ready(q, held),
         held \subseteq more,
         Head(q).do = "get" => <<Head(q).layer, Head(q).file>> \in more
  PROVE  /\ Ready(Tail(q), more)
         /\ Head(q).do = "write" => <<Head(q).layer, Head(q).file>> \in held
<1>1. /\ Head(q) = q[1] /\ Len(q) \in Nat \ {0} /\ Len(Tail(q)) = Len(q) - 1
      /\ \A i \in 1 .. Len(Tail(q)) : Tail(q)[i] = q[i + 1]
  BY ToSetTail
<1>2. PICK n \in Nat \ {0} : n = Len(q)
  BY <1>1
<1>3. ASSUME Head(q).do = "write" PROVE <<Head(q).layer, Head(q).file>> \in held
  <2>1. 1 \in 1 .. n /\ \A k \in 1 .. (1 - 1) : FALSE
    OBVIOUS
  <2>. QED BY <1>1, <1>2, <1>3, <2>1 DEF Ready
<1>4. ASSUME NEW i \in 1 .. (n - 1), Tail(q)[i].do = "write",
             <<Tail(q)[i].layer, Tail(q)[i].file>> \notin more
      PROVE  \E k \in 1 .. (i - 1) : /\ Tail(q)[k].do = "get" /\ Tail(q)[k].layer = Tail(q)[i].layer
                                     /\ Tail(q)[k].file = Tail(q)[i].file
  <2>1. Tail(q)[i] = q[i + 1] /\ i + 1 \in 1 .. n
    BY <1>1, <1>2
  <2>2. PICK k \in 1 .. ((i + 1) - 1) :
           q[k].do = "get" /\ q[k].layer = q[i + 1].layer /\ q[k].file = q[i + 1].file
    BY <1>2, <1>4, <2>1 DEF Ready
  <2>3. k # 1
    BY <1>1, <1>4, <2>1, <2>2
  <2>4. k - 1 \in 1 .. (i - 1) /\ k - 1 \in 1 .. (n - 1) /\ (k - 1) + 1 = k
    BY <2>3
  <2>5. Tail(q)[k - 1] = q[k]
    BY <1>1, <1>2, <2>4
  <2>. QED BY <2>1, <2>2, <2>4, <2>5
<1>. QED BY <1>1, <1>2, <1>3, <1>4 DEF Ready

LEMMA GetsFirstTail ==
  ASSUME NEW q \in Seq(Item), q # << >>, GetsFirst(q)
  PROVE  /\ GetsFirst(Tail(q))
         /\ Head(q).do = "write" /\ FILENAME_ENUM_MAP[Head(q).file] # "parent" =>
              \A w \in ToSet(Tail(q)) : w.do # "get"
<1>1. /\ Head(q) = q[1] /\ Len(q) \in Nat \ {0} /\ Len(Tail(q)) = Len(q) - 1
      /\ \A i \in 1 .. Len(Tail(q)) : Tail(q)[i] = q[i + 1] /\ Tail(q) \in Seq(Item)
  BY ToSetTail
<1>2. PICK n \in Nat \ {0} : n = Len(q)
  BY <1>1
<1>3. \A i \in 1 .. (n - 1) : Tail(q)[i] = q[i + 1] /\ i + 1 \in 1 .. n /\ 1 < i + 1
  BY <1>1, <1>2
<1>4. GetsFirst(Tail(q))
  <2>1. \A i, k \in 1 .. (n - 1) : i < k => i + 1 < k + 1
    OBVIOUS
  <2>. QED BY <1>1, <1>2, <1>3, <2>1 DEF GetsFirst
<1>5. ASSUME Head(q).do = "write", FILENAME_ENUM_MAP[Head(q).file] # "parent", NEW w \in ToSet(Tail(q))
      PROVE  w.do # "get"
  <2>1. PICK i \in 1 .. (n - 1) : w = Tail(q)[i]
    BY <1>1, <1>2, <1>5, ToSetTail, LenProperties DEF ToSet
  <2>2. 1 \in 1 .. n
    OBVIOUS
  <2>. QED BY <1>1, <1>2, <1>3, <1>5, <2>1, <2>2 DEF GetsFirst
<1>. QED BY <1>4, <1>5

(* The second list has no request after a file was written in the first.   *)
LEMMA GetsFirstConcat ==
  ASSUME NEW p \in Seq(Item), NEW q \in Seq(Item), GetsFirst(p), GetsFirst(q),
         \/ \A w \in ToSet(p) : w.do = "write" => FILENAME_ENUM_MAP[w.file] = "parent"
         \/ \A w \in ToSet(q) : w.do # "get"
  PROVE  GetsFirst(p \o q)
<1>1. PICK m \in Nat, n \in Nat : m = Len(p) /\ n = Len(q)
  BY LenProperties
<1>2. /\ Len(p \o q) = m + n
      /\ \A i \in 1 .. m : (p \o q)[i] = p[i]
      /\ \A i \in 1 .. (m + n) : i \in 1 .. m \/ (i > m /\ i - m \in 1 .. n /\ (p \o q)[i] = q[i - m])
  BY <1>1, ConcatIndices
<1>3. ASSUME NEW i \in 1 .. (m + n), NEW k \in 1 .. (m + n), i < k, (p \o q)[i].do = "write",
             FILENAME_ENUM_MAP[(p \o q)[i].file] # "parent"
      PROVE  (p \o q)[k].do # "get"
  <2>1. CASE i \in 1 .. m /\ k \in 1 .. m
    BY <1>1, <1>2, <1>3, <2>1 DEF GetsFirst
  <2>2. CASE i \in 1 .. m /\ k > m /\ k - m \in 1 .. n /\ (p \o q)[k] = q[k - m]
    <3>1. p[i] \in ToSet(p) /\ q[k - m] \in ToSet(q)
      BY <1>1, <2>2 DEF ToSet
    <3>. QED BY <1>2, <1>3, <2>2, <3>1
  <2>3. CASE i > m /\ k > m /\ i - m \in 1 .. n /\ k - m \in 1 .. n
             /\ (p \o q)[i] = q[i - m] /\ (p \o q)[k] = q[k - m]
    <3>1. i - m < k - m
      BY <1>3
    <3>. QED BY <1>1, <1>3, <2>3, <3>1 DEF GetsFirst
  <2>4. ~(i > m /\ k \in 1 .. m)
    BY <1>3
  <2>. QED BY <1>2, <2>1, <2>2, <2>3, <2>4
<1>. QED BY <1>2, <1>3 DEF GetsFirst

(* The list of an import, entry by entry.                                  *)
Wanted(x, ids) == x.layer \in ids /\ x.file # "directory"

LEMMA ImportItems ==
  ASSUME NEW x \in Entry, x.file # "directory"
  PROVE  /\ ImportEntry(x) \in Seq(Item)
         /\ ToSet(ImportEntry(x)) =
              {[do |-> "get", layer |-> x.layer, file |-> x.file],
               [do |-> "write", layer |-> x.layer, file |-> x.file, bytes |-> x.bytes]}
         /\ \A held : Ready(ImportEntry(x), held)
<1>. DEFINE g == [do |-> "get", layer |-> x.layer, file |-> x.file]
            w == [do |-> "write", layer |-> x.layer, file |-> x.file, bytes |-> x.bytes]
<1>1. x.layer \in Layer /\ x.file \in FILENAMES /\ x.bytes \in Seq(Byte)
  BY DEF Entry
<1>2. g \in Item /\ w \in Item
  BY <1>1 DEF Item
<1>3. /\ g.do = "get" /\ w.do = "write" /\ g.layer = x.layer /\ w.layer = x.layer
      /\ g.file = x.file /\ w.file = x.file
  OBVIOUS
<1>4. ImportEntry(x) = <<g, w>>
  BY DEF ImportEntry
<1>. HIDE DEF g, w
<1>5. ASSUME NEW held PROVE Ready(<<g, w>>, held)
  <2>1. 1 \in 1 .. (2 - 1)
    OBVIOUS
  <2>. QED BY <1>3, <2>1 DEF Ready
<1>6. <<g, w>> \in Seq(Item) /\ ToSet(<<g, w>>) = {g, w}
  BY <1>2 DEF ToSet
<1>. QED BY <1>4, <1>5, <1>6 DEF g, w

LEMMA ReadyMore ==
  ASSUME NEW q, NEW held, NEW more, held \subseteq more, Ready(q, held)
  PROVE  Ready(q, more)
BY DEF Ready

(* ImportWork as a sequence of steps.                                      *)
LEMMA ImportWorkIs ==
  ASSUME NEW p, PackOk(p), NEW ids
  PROVE  LET W == ImportWork(p, ids)
         IN  /\ W[0] = << >> /\ W[Len(p)] \in Seq(Item)
             /\ \A n \in 1 .. Len(p) :
                  /\ W[n - 1] \in Seq(Item)
                  /\ W[n] = IF Wanted(p[n], ids) THEN W[n - 1] \o ImportEntry(p[n]) ELSE W[n - 1]
<1>. DEFINE X == Seq(Item)
            S(n, x) == IF p[n].layer \in ids /\ p[n].file # "directory" THEN x \o ImportEntry(p[n]) ELSE x
            F == CHOOSE f : f = [n \in 0 .. Len(p) |-> IF n = 0 THEN << >> ELSE S(n, f[n - 1])]
<1>1. ImportWork(p, ids) = F
  BY DEF ImportWork
<1>2. PICK N \in Nat : N = Len(p)
  BY LenProperties DEF PackOk
<1>3. ASSUME NEW n \in 1 .. N PROVE p[n] \in Entry
  BY <1>2 DEF PackOk
<1>4. \A n \in 1 .. N, x \in X : S(n, x) = IF Wanted(p[n], ids) THEN x \o ImportEntry(p[n]) ELSE x
  BY DEF Wanted
<1>9. << >> \in X
  OBVIOUS
<1>. DEFINE step == [q \in (0 .. N) \X X |-> IF q[1] = 0 THEN q[2] ELSE S(q[1], q[2])]
<1>. HIDE DEF S
<1>10. \A n \in 1 .. N, x \in X : S(n, x) \in X
  <2>1. ASSUME NEW n \in 1 .. N, NEW x \in X, Wanted(p[n], ids)
        PROVE  x \o ImportEntry(p[n]) \in X
    <3>1. ImportEntry(p[n]) \in X
      BY <1>3, <2>1, ImportItems DEF Wanted
    <3>. QED BY <3>1
  <2>. QED BY <1>4, <2>1
<1>. HIDE DEF X
<1>11. step \in [(0 .. N) \X X -> X]
  <2>1. ASSUME NEW q \in (0 .. N) \X X
        PROVE  (IF q[1] = 0 THEN q[2] ELSE S(q[1], q[2])) \in X
    <3>1. q[1] \in 0 .. N /\ q[2] \in X
      OBVIOUS
    <3>2. q[1] # 0 => q[1] \in 1 .. N
      BY <3>1
    <3>. QED BY <1>10, <3>1, <3>2
  <2>. QED BY <2>1
<1>12. PICK f \in [0 .. N -> X] : Iterates(f, N, << >>, step)
  <2>. HIDE DEF step
  <2>. QED BY <1>9, <1>11, BoundedRecursion
<1>13. f = [n \in 0 .. N |-> IF n = 0 THEN << >> ELSE S(n, f[n - 1])]
  <2>1. ASSUME NEW n \in 0 .. N
        PROVE  f[n] = IF n = 0 THEN << >> ELSE S(n, f[n - 1])
    <3>1. CASE n = 0
      BY <1>12, <3>1 DEF Iterates
    <3>2. CASE n # 0
      <4>1. n \in 1 .. N /\ n - 1 \in 0 .. N
        BY <3>2
      <4>2. f[n] = step[<<n, f[n - 1]>>] /\ f[n - 1] \in X
        BY <1>12, <4>1 DEF Iterates
      <4>. QED BY <3>2, <4>1, <4>2
    <3>. QED BY <3>1, <3>2
  <2>. QED BY <1>12, <2>1
<1>14. F = [n \in 0 .. N |-> IF n = 0 THEN << >> ELSE S(n, F[n - 1])]
  BY <1>2, <1>13
<1>. HIDE DEF F
<1>15. F[0] = << >> /\ \A n \in 1 .. N : F[n] = S(n, F[n - 1])
  <2>1. 0 \in 0 .. N /\ \A n \in 1 .. N : n \in 0 .. N /\ n # 0
    OBVIOUS
  <2>. QED BY <1>14, <2>1
<1>16. \A n \in 0 .. N : F[n] \in X
  <2>. DEFINE T == {n \in 0 .. N : F[n] \in X}
  <2>1. 0 \in T
    BY <1>9, <1>15
  <2>2. ASSUME NEW n \in 1 .. N, n - 1 \in T PROVE n \in T
    BY <1>10, <1>15, <2>2
  <2>. HIDE DEF T
  <2>3. \A n \in 0 .. N : n \in T
    BY <2>1, <2>2, BoundedInduction
  <2>. QED BY <2>3 DEF T
<1>17. \A n \in 1 .. N : /\ F[n - 1] \in X
                         /\ F[n] = IF Wanted(p[n], ids) THEN F[n - 1] \o ImportEntry(p[n]) ELSE F[n - 1]
  <2>1. \A n \in 1 .. N : n - 1 \in 0 .. N
    OBVIOUS
  <2>. QED BY <1>4, <1>15, <1>16, <2>1
<1>18. N \in 0 .. N
  OBVIOUS
<1>. QED BY <1>1, <1>2, <1>15, <1>16, <1>17, <1>18 DEF X

(* Every file of a wanted layer is got and then written, and nothing else. *)
LEMMA ImportWorkOk ==
  ASSUME NEW p, PackOk(p), NEW ids
  PROVE  LET q == ImportWork(p, ids)[Len(p)]
         IN  /\ q \in Seq(Item) /\ Ready(q, {})
             /\ \A w \in ToSet(q) :
                  /\ w.layer \in ids /\ \E x \in ToSet(p) : x.layer = w.layer
                  /\ w.do = "write" => /\ FILENAME_ENUM_MAP[w.file] \in DOMAIN Original[w.layer]
                                       /\ w.bytes = Original[w.layer][FILENAME_ENUM_MAP[w.file]]
             /\ \A x \in ToSet(p) :
                  Wanted(x, ids) => Has(q, "write", x.layer, FILENAME_ENUM_MAP[x.file])
<1>1. PICK W : /\ W = ImportWork(p, ids)
               /\ W[0] = << >> /\ W[Len(p)] \in Seq(Item)
               /\ \A n \in 1 .. Len(p) :
                    /\ W[n - 1] \in Seq(Item)
                    /\ W[n] = IF Wanted(p[n], ids) THEN W[n - 1] \o ImportEntry(p[n]) ELSE W[n - 1]
  BY ImportWorkIs
<1>2. PICK N \in Nat : N = Len(p)
  BY LenProperties DEF PackOk
<1>. DEFINE Fine(w) == /\ w.layer \in ids /\ \E x \in ToSet(p) : x.layer = w.layer
                       /\ w.do = "write" => /\ FILENAME_ENUM_MAP[w.file] \in DOMAIN Original[w.layer]
                                            /\ w.bytes = Original[w.layer][FILENAME_ENUM_MAP[w.file]]
            Ok(n) == /\ W[n] \in Seq(Item) /\ Ready(W[n], {})
                     /\ \A w \in ToSet(W[n]) : Fine(w)
                     /\ \A k \in 1 .. n : Wanted(p[k], ids) =>
                          Has(W[n], "write", p[k].layer, FILENAME_ENUM_MAP[p[k].file])
            I == {n \in 0 .. N : Ok(n)}
<1>3. 0 \in I
  <2>1. \A k \in 1 .. 0 : FALSE
    OBVIOUS
  <2>2. << >> \in Seq(Item) /\ ToSet(<< >>) = {} /\ Ready(<< >>, {})
    BY DEF ToSet, Ready
  <2>. HIDE DEF Fine
  <2>3. Ok(0)
    BY <1>1, <2>1, <2>2
  <2>. QED BY <1>2, <2>3
<1>. HIDE DEF Fine
<1>4. ASSUME NEW n \in 1 .. N, n - 1 \in I PROVE n \in I
  <2>1. Ok(n - 1) /\ n \in 0 .. N
    BY <1>4
  <2>2. \A k \in 1 .. n : k \in 1 .. (n - 1) \/ k = n
    OBVIOUS
  <2>3. CASE ~Wanted(p[n], ids)
    <3>1. W[n] = W[n - 1]
      BY <1>1, <1>2, <2>3
    <3>2. Ok(n)
      BY <2>1, <2>2, <2>3, <3>1
    <3>. QED BY <2>1, <3>2
  <2>4. CASE Wanted(p[n], ids)
    <3>1. W[n] = W[n - 1] \o ImportEntry(p[n])
      BY <1>1, <1>2, <2>4
    <3>2. p[n] \in ToSet(p) /\ p[n] \in Entry /\ EntryOk(p[n])
      BY <1>2 DEF PackOk, ToSet
    <3>. DEFINE g == [do |-> "get", layer |-> p[n].layer, file |-> p[n].file]
                w == [do |-> "write", layer |-> p[n].layer, file |-> p[n].file, bytes |-> p[n].bytes]
    <3>3. /\ ImportEntry(p[n]) \in Seq(Item) /\ ToSet(ImportEntry(p[n])) = {g, w}
          /\ \A held : Ready(ImportEntry(p[n]), held)
      BY <2>4, <3>2, ImportItems DEF Wanted
    <3>4. Fine(g) /\ Fine(w)
      BY <2>4, <3>2 DEF Wanted, EntryOk, Fine
    <3>5. w.do = "write" /\ w.layer = p[n].layer /\ w.file = p[n].file
      OBVIOUS
    <3>. HIDE DEF g, w
    <3>6. W[n] \in Seq(Item) /\ ToSet(W[n]) = ToSet(W[n - 1]) \cup {g, w}
      BY <2>1, <3>1, <3>3, ToSetConcat
    <3>7. Ready(W[n], {})
      <4>1. Ready(W[n - 1], {}) /\ Ready(ImportEntry(p[n]), {} \cup Got(W[n - 1]))
        BY <2>1, <3>3
      <4>. QED BY <2>1, <3>1, <3>3, <4>1, ReadyConcat, SMTT(30)
    <3>8. \A v \in ToSet(W[n]) : Fine(v)
      BY <2>1, <3>4, <3>6
    <3>9. \A l, e : Has(W[n - 1], "write", l, e) => Has(W[n], "write", l, e)
      BY <3>6 DEF Has
    <3>10. Has(W[n], "write", p[n].layer, FILENAME_ENUM_MAP[p[n].file])
      BY <3>5, <3>6 DEF Has
    <3>11. \A k \in 1 .. n : Wanted(p[k], ids) =>
             Has(W[n], "write", p[k].layer, FILENAME_ENUM_MAP[p[k].file])
      BY <2>1, <2>2, <3>9, <3>10
    <3>12. Ok(n)
      BY <3>6, <3>7, <3>8, <3>11
    <3>. QED BY <2>1, <3>12
  <2>. QED BY <2>3, <2>4
<1>. HIDE DEF I
<1>5. \A n \in 0 .. N : n \in I
  BY <1>3, <1>4, BoundedInduction
<1>6. Ok(N)
  BY <1>5 DEF I
<1>7. ASSUME NEW x \in ToSet(p), Wanted(x, ids)
      PROVE  Has(W[N], "write", x.layer, FILENAME_ENUM_MAP[x.file])
  <2>1. PICK k \in 1 .. N : p[k] = x
    <3>1. DOMAIN p = 1 .. N
      BY <1>2, LenProperties DEF PackOk
    <3>. QED BY <3>1 DEF ToSet
  <2>. QED BY <1>6, <1>7, <2>1
<1>. QED BY <1>1, <1>2, <1>6, <1>7 DEF Fine

(* The parents a pack tells of.                                            *)
Parents == UNION {[D -> Layer \cup {None}] : D \in SUBSET Layer}

LEMMA EntryParent ==
  ASSUME NEW x \in Entry, EntryOk(x), x.file = "parent"
  PROVE  x.bytes[1] = ParentOf[x.layer]
<1>1. x.layer \in Layer
  BY DEF Entry
<1>2. FILENAME_ENUM_MAP["parent"] = "parent"
  BY FileTypesAsk
<1>3. "parent" \in DOMAIN Original[x.layer] /\ x.bytes = Original[x.layer]["parent"]
  BY <1>2 DEF EntryOk
<1>4. x.bytes = <<ParentOf[x.layer]>>
  BY <1>1, <1>3, OriginalParent
<1>. QED BY <1>4

LEMMA EntryIsRead ==
  ASSUME NEW x \in Entry, EntryOk(x), NEW known \in Parents
  PROVE  /\ PackEntryParent(known, x) \in Parents
         /\ DOMAIN PackEntryParent(known, x) = DOMAIN known \cup {x.layer}
         /\ \A l \in DOMAIN known : l # x.layer => PackEntryParent(known, x)[l] = known[l]
         /\ PackEntryParent(known, x)[x.layer] =
              IF x.file = "parent" THEN ParentOf[x.layer]
              ELSE IF x.layer \in DOMAIN known THEN known[x.layer] ELSE None
<1>. DEFINE v == IF x.file = "parent" THEN ParentOf[x.layer] ELSE None
            new == With(known, x.layer, v)
<1>1. PICK D \in SUBSET Layer : known \in [D -> Layer \cup {None}]
  BY DEF Parents
<1>2. x.layer \in Layer
  BY DEF Entry
<1>3. v \in Layer \cup {None}
  BY <1>2, ParentAssumption
<1>4. x.file = "parent" => x.bytes[1] = v
  BY EntryParent
<1>5. PackEntryParent(known, x) = IF x.file # "parent" /\ x.layer \in DOMAIN known THEN known ELSE new
  BY <1>4 DEF PackEntryParent
<1>. HIDE DEF v
<1>6. /\ DOMAIN new = D \cup {x.layer} /\ new[x.layer] = v
      /\ \A l \in D : l # x.layer => new[l] = known[l]
      /\ new = [l \in D \cup {x.layer} |-> IF l = x.layer THEN v ELSE known[l]]
  BY <1>1 DEF With
<1>7. new \in [D \cup {x.layer} -> Layer \cup {None}]
  BY <1>1, <1>3, <1>6
<1>8. new \in Parents
  BY <1>1, <1>2, <1>7 DEF Parents
<1>. HIDE DEF new
<1>. QED BY <1>1, <1>5, <1>6, <1>8 DEF v

LEMMA ParentsRec ==
  ASSUME NEW p, PackOk(p)
  PROVE  \E F : /\ F[0] = << >> /\ F[Len(p)] = pack_layer_parents(p)
                /\ \A n \in 0 .. Len(p) : F[n] \in Parents
                /\ \A n \in 1 .. Len(p) : F[n] = PackEntryParent(F[n - 1], p[n])
<1>. DEFINE X == Parents
            S(n, x) == PackEntryParent(x, p[n])
            F == CHOOSE f : f = [n \in 0 .. Len(p) |-> IF n = 0 THEN << >> ELSE S(n, f[n - 1])]
<1>1. pack_layer_parents(p) = F[Len(p)]
  BY DEF pack_layer_parents
<1>2. PICK N \in Nat : N = Len(p)
  BY LenProperties DEF PackOk
<1>3. ASSUME NEW n \in 1 .. N PROVE p[n] \in Entry /\ EntryOk(p[n])
  <2>1. p[n] \in Entry /\ p[n] \in ToSet(p)
    BY <1>2 DEF PackOk, ToSet
  <2>. QED BY <2>1 DEF PackOk
<1>9. << >> \in X
  <2>1. << >> \in [{} -> Layer \cup {None}]
    OBVIOUS
  <2>. QED BY <2>1 DEF Parents
<1>10. \A n \in 1 .. N, x \in X : S(n, x) \in X
  BY <1>3, EntryIsRead
<1>. DEFINE step == [q \in (0 .. N) \X X |-> IF q[1] = 0 THEN q[2] ELSE S(q[1], q[2])]
<1>. HIDE DEF S, X
<1>11. step \in [(0 .. N) \X X -> X]
  <2>1. ASSUME NEW q \in (0 .. N) \X X
        PROVE  (IF q[1] = 0 THEN q[2] ELSE S(q[1], q[2])) \in X
    <3>1. q[1] \in 0 .. N /\ q[2] \in X
      OBVIOUS
    <3>2. q[1] # 0 => q[1] \in 1 .. N
      BY <3>1
    <3>. QED BY <1>10, <3>1, <3>2
  <2>. QED BY <2>1
<1>12. PICK f \in [0 .. N -> X] : Iterates(f, N, << >>, step)
  <2>. HIDE DEF step
  <2>. QED BY <1>9, <1>11, BoundedRecursion
<1>13. f = [n \in 0 .. N |-> IF n = 0 THEN << >> ELSE S(n, f[n - 1])]
  <2>1. ASSUME NEW n \in 0 .. N
        PROVE  f[n] = IF n = 0 THEN << >> ELSE S(n, f[n - 1])
    <3>1. CASE n = 0
      BY <1>12, <3>1 DEF Iterates
    <3>2. CASE n # 0
      <4>1. n \in 1 .. N /\ n - 1 \in 0 .. N
        BY <3>2
      <4>2. f[n] = step[<<n, f[n - 1]>>] /\ f[n - 1] \in X
        BY <1>12, <4>1 DEF Iterates
      <4>. QED BY <3>2, <4>1, <4>2
    <3>. QED BY <3>1, <3>2
  <2>. QED BY <1>12, <2>1
<1>14. F = [n \in 0 .. N |-> IF n = 0 THEN << >> ELSE S(n, F[n - 1])]
  BY <1>2, <1>13
<1>. HIDE DEF F
<1>15. F[0] = << >> /\ \A n \in 1 .. N : F[n] = S(n, F[n - 1])
  <2>1. 0 \in 0 .. N /\ \A n \in 1 .. N : n \in 0 .. N /\ n # 0
    OBVIOUS
  <2>. QED BY <1>14, <2>1
<1>16. \A n \in 0 .. N : F[n] \in X
  <2>. DEFINE T == {n \in 0 .. N : F[n] \in X}
  <2>1. 0 \in T
    BY <1>9, <1>15
  <2>2. ASSUME NEW n \in 1 .. N, n - 1 \in T PROVE n \in T
    BY <1>10, <1>15, <2>2
  <2>. HIDE DEF T
  <2>3. \A n \in 0 .. N : n \in T
    BY <2>1, <2>2, BoundedInduction
  <2>. QED BY <2>3 DEF T
<1>. QED BY <1>1, <1>2, <1>15, <1>16 DEF S, X

(* Every layer of a pack is read with its parent, whichever of its files   *)
(* comes first.                                                            *)
LEMMA PackParents ==
  ASSUME NEW p, PackOk(p)
  PROVE  pack_layer_parents(p) = [l \in {p[i].layer : i \in DOMAIN p} |-> ParentOf[l]]
<1>1. PICK F : /\ F[0] = << >> /\ F[Len(p)] = pack_layer_parents(p)
               /\ \A n \in 0 .. Len(p) : F[n] \in Parents
               /\ \A n \in 1 .. Len(p) : F[n] = PackEntryParent(F[n - 1], p[n])
  BY ParentsRec
<1>2. PICK N \in Nat : N = Len(p) /\ DOMAIN p = 1 .. N
  BY LenProperties DEF PackOk
<1>3. ASSUME NEW n \in 1 .. N PROVE p[n] \in Entry /\ EntryOk(p[n]) /\ p[n].layer \in Layer /\ p[n] \in ToSet(p)
  <2>1. p[n] \in Entry /\ p[n] \in ToSet(p)
    BY <1>2 DEF PackOk, ToSet
  <2>. QED BY <2>1 DEF PackOk, Entry
<1>. DEFINE Ok(n) == /\ DOMAIN F[n] = {p[i].layer : i \in 1 .. n}
                     /\ \A l \in DOMAIN F[n] : F[n][l] \in {None, ParentOf[l]}
                     /\ \A k \in 1 .. n : p[k].file = "parent" => F[n][p[k].layer] = ParentOf[p[k].layer]
            I == {n \in 0 .. N : Ok(n)}
<1>4. 0 \in I
  <2>1. \A k \in 1 .. 0 : FALSE
    OBVIOUS
  <2>2. DOMAIN F[0] = {}
    BY <1>1
  <2>3. Ok(0)
    BY <2>1, <2>2
  <2>. QED BY <1>2, <2>3
<1>5. ASSUME NEW n \in 1 .. N, n - 1 \in I PROVE n \in I
  <2>1. Ok(n - 1) /\ n \in 0 .. N /\ n - 1 \in 0 .. N
    BY <1>5
  <2>2. \A k \in 1 .. n : k \in 1 .. (n - 1) \/ k = n
    OBVIOUS
  <2>3. \A k \in 1 .. (n - 1) : k \in 1 .. n
    OBVIOUS
  <2>4. n \in 1 .. n
    OBVIOUS
  <2>. DEFINE m == p[n].layer
              f == F[n - 1]
              g == F[n]
  <2>5. /\ DOMAIN g = DOMAIN f \cup {m}
        /\ \A l \in DOMAIN f : l # m => g[l] = f[l]
        /\ g[m] = IF p[n].file = "parent" THEN ParentOf[m] ELSE IF m \in DOMAIN f THEN f[m] ELSE None
    <3>1. f \in Parents /\ g = PackEntryParent(f, p[n])
      BY <1>1, <1>2, <2>1
    <3>2. p[n] \in Entry /\ EntryOk(p[n])
      BY <1>3
    <3>. HIDE DEF f, g
    <3>. QED BY <3>1, <3>2, EntryIsRead, ZenonT(60)
  <2>6. DOMAIN g = {p[i].layer : i \in 1 .. n}
    <3>1. DOMAIN f = {p[i].layer : i \in 1 .. (n - 1)}
      BY <2>1
    <3>. HIDE DEF f, g
    <3>. QED BY <2>2, <2>3, <2>4, <2>5, <3>1
  <2>7. \A l \in DOMAIN g : g[l] \in {None, ParentOf[l]}
    BY <2>1, <2>5
  <2>8. ASSUME NEW k \in 1 .. n, p[k].file = "parent"
        PROVE  g[p[k].layer] = ParentOf[p[k].layer]
    <3>1. CASE k \in 1 .. (n - 1)
      <4>1. p[k].layer \in DOMAIN f /\ f[p[k].layer] = ParentOf[p[k].layer]
        BY <2>1, <2>8, <3>1
      <4>. QED BY <2>5, <4>1
    <3>2. CASE k = n
      BY <2>5, <2>8, <3>2
    <3>. QED BY <2>2, <3>1, <3>2
  <2>9. Ok(n)
    BY <2>6, <2>7, <2>8
  <2>. QED BY <2>1, <2>9
<1>. HIDE DEF I
<1>6. \A n \in 0 .. N : n \in I
  BY <1>4, <1>5, BoundedInduction
<1>7. Ok(N)
  BY <1>6 DEF I
<1>8. ASSUME NEW l \in DOMAIN F[N] PROVE F[N][l] = ParentOf[l]
  <2>1. PICK i \in 1 .. N : l = p[i].layer
    BY <1>7, <1>8
  <2>2. l \in Layer
    BY <1>3, <2>1
  <2>3. CASE IsChild(l)
    <3>1. Carries(p, l, "parent")
      BY <1>3, <2>1, <2>2, <2>3, OriginalParent DEF PackOk
    <3>2. PICK x \in ToSet(p) : x.layer = l /\ x.file # "directory" /\ FILENAME_ENUM_MAP[x.file] = "parent"
      BY <3>1 DEF Carries
    <3>3. PICK k \in 1 .. N : x = p[k]
      BY <1>2, <3>2 DEF ToSet
    <3>4. x.file = "parent"
      BY <1>3, <3>2, <3>3, NamesFacts DEF Entry
    <3>. QED BY <1>7, <3>2, <3>3, <3>4
  <2>4. CASE ~IsChild(l)
    BY <1>7, <1>8, <2>2, <2>4 DEF IsChild
  <2>. QED BY <2>3, <2>4
<1>9. F[N] \in Parents /\ F[N] = pack_layer_parents(p)
  BY <1>1, <1>2
<1>10. F[N] = [l \in DOMAIN F[N] |-> F[N][l]]
  BY <1>9 DEF Parents
<1>. QED BY <1>2, <1>7, <1>8, <1>9, <1>10

(* Gets and Writes, as sets.                                               *)
LEMMA GetsAre ==
  ASSUME NEW l \in Layer, NEW files \in Seq(FILENAMES)
  PROVE  /\ Gets(l, files) \in Seq(Item)
         /\ \A w \in ToSet(Gets(l, files)) : w.do = "get" /\ w.layer = l /\ w.file \in ToSet(files)
         /\ \A f \in ToSet(files) : \E w \in ToSet(Gets(l, files)) : w.do = "get" /\ w.layer = l /\ w.file = f
         /\ \A held : Ready(Gets(l, files), held)
         /\ GetsFirst(Gets(l, files))
<1>. DEFINE q == Gets(l, files)
<1>1. PICK n \in Nat : n = Len(files) /\ DOMAIN files = 1 .. n
  BY LenProperties
<1>2. q = [i \in 1 .. n |-> [do |-> "get", layer |-> l, file |-> files[i]]]
  BY <1>1 DEF Gets
<1>3. \A i \in 1 .. n : /\ q[i] \in Item /\ q[i].do = "get" /\ q[i].layer = l /\ q[i].file = files[i]
  BY <1>1, <1>2 DEF Item
<1>4. q \in Seq(Item) /\ Len(q) = n /\ DOMAIN q = 1 .. n
  <2>1. q \in [1 .. n -> Item]
    BY <1>2, <1>3
  <2>. QED BY <2>1, <1>2
<1>. HIDE DEF q
<1>5. ToSet(q) = {q[i] : i \in 1 .. n} /\ ToSet(files) = {files[i] : i \in 1 .. n}
  BY <1>1, <1>4 DEF ToSet
<1>6. \A w \in ToSet(q) : w.do = "get" /\ w.layer = l /\ w.file \in ToSet(files)
  BY <1>3, <1>5
<1>7. \A f \in ToSet(files) : \E w \in ToSet(q) : w.do = "get" /\ w.layer = l /\ w.file = f
  BY <1>3, <1>5
<1>8. /\ \A held : Ready(q, held)
      /\ GetsFirst(q)
  BY <1>3, <1>4 DEF Ready, GetsFirst
<1>. QED BY <1>4, <1>6, <1>7, <1>8 DEF q

LEMMA WritesAre ==
  ASSUME NEW l \in Layer, NEW files \in Seq(FILENAMES)
  PROVE  /\ Writes(l, files) \in Seq(Item)
         /\ \A w \in ToSet(Writes(l, files)) :
              /\ w.do = "write" /\ w.layer = l /\ w.file \in ToSet(files)
              /\ w.bytes = Content(l, FILENAME_ENUM_MAP[w.file])
         /\ \A f \in ToSet(files) : \E w \in ToSet(Writes(l, files)) : w.do = "write" /\ w.layer = l /\ w.file = f
         /\ \A held : (\A f \in ToSet(files) : <<l, f>> \in held) => Ready(Writes(l, files), held)
         /\ GetsFirst(Writes(l, files))
<1>. DEFINE q == Writes(l, files)
<1>1. PICK n \in Nat : n = Len(files) /\ DOMAIN files = 1 .. n
  BY LenProperties
<1>2. q = [i \in 1 .. n |-> [do |-> "write", layer |-> l, file |-> files[i],
                             bytes |-> Content(l, FILENAME_ENUM_MAP[files[i]])]]
  BY <1>1 DEF Writes
<1>3. \A i \in 1 .. n : files[i] \in FILENAMES /\ Content(l, FILENAME_ENUM_MAP[files[i]]) \in Seq(Byte)
  BY <1>1, NamesFacts, ContentIs
<1>4. \A i \in 1 .. n : /\ q[i] \in Item /\ q[i].do = "write" /\ q[i].layer = l /\ q[i].file = files[i]
                        /\ q[i].bytes = Content(l, FILENAME_ENUM_MAP[files[i]])
  BY <1>2, <1>3 DEF Item
<1>5. q \in Seq(Item) /\ Len(q) = n /\ DOMAIN q = 1 .. n
  <2>0. DOMAIN q = 1 .. n /\ q = [i \in 1 .. n |-> q[i]]
    BY <1>2
  <2>. HIDE DEF q
  <2>1. q \in [1 .. n -> Item]
    BY <1>4, <2>0
  <2>. QED BY <2>0, <2>1
<1>. HIDE DEF q
<1>6. ToSet(q) = {q[i] : i \in 1 .. n} /\ ToSet(files) = {files[i] : i \in 1 .. n}
  BY <1>1, <1>5 DEF ToSet
<1>7. \A w \in ToSet(q) : /\ w.do = "write" /\ w.layer = l /\ w.file \in ToSet(files)
                          /\ w.bytes = Content(l, FILENAME_ENUM_MAP[w.file])
  BY <1>4, <1>6
<1>8. \A f \in ToSet(files) : \E w \in ToSet(q) : w.do = "write" /\ w.layer = l /\ w.file = f
  BY <1>4, <1>6
<1>9. \A held : (\A f \in ToSet(files) : <<l, f>> \in held) => Ready(q, held)
  BY <1>4, <1>5, <1>6 DEF Ready
<1>10. GetsFirst(q)
  BY <1>4, <1>5 DEF GetsFirst
<1>. QED BY <1>5, <1>7, <1>8, <1>9, <1>10 DEF q

LEMMA ParentWork ==
  ASSUME NEW l \in Layer
  PROVE  LET q == write_parent_file(l)
         IN  /\ q \in Seq(Item) /\ Ready(q, {}) /\ GetsFirst(q)
             /\ \A w \in ToSet(q) :
                  /\ IsChild(l) /\ w.layer = l /\ w.file = "parent"
                  /\ w.do = "write" => w.bytes = Content(l, "parent")
             /\ IsChild(l) => Has(q, "get", l, "parent") /\ Has(q, "write", l, "parent")
<1>1. CASE ~IsChild(l)
  <2>1. write_parent_file(l) = << >>
    BY <1>1 DEF write_parent_file
  <2>2. << >> \in Seq(Item) /\ ToSet(<< >>) = {} /\ Ready(<< >>, {}) /\ GetsFirst(<< >>)
    BY DEF ToSet, Ready, GetsFirst
  <2>. QED BY <1>1, <2>1, <2>2
<1>2. CASE IsChild(l)
  <2>2. "parent" \in FILENAMES /\ FILENAME_ENUM_MAP["parent"] = "parent"
    BY FileTypesAsk
  <2>3. PICK files \in Seq(FILENAMES) : files = <<"parent">> /\ ToSet(files) = {"parent"}
    <3>1. <<"parent">> \in Seq(FILENAMES) /\ ToSet(<<"parent">>) = {"parent"}
      BY <2>2 DEF ToSet
    <3>. QED BY <3>1, Zenon
  <2>. DEFINE g == Gets(l, files)
              w == Writes(l, files)
              q == write_parent_file(l)
  <2>1. q = g \o w
    BY <1>2, <2>3 DEF write_parent_file
  <2>4. /\ g \in Seq(Item) /\ Ready(g, {}) /\ GetsFirst(g)
        /\ \A v \in ToSet(g) : v.do = "get" /\ v.layer = l /\ v.file = "parent"
        /\ \E v \in ToSet(g) : v.do = "get" /\ v.layer = l /\ v.file = "parent"
    <3>1. /\ g \in Seq(Item) /\ Ready(g, {}) /\ GetsFirst(g)
          /\ \A v \in ToSet(g) : v.do = "get" /\ v.layer = l /\ v.file \in ToSet(files)
          /\ \A f \in ToSet(files) : \E v \in ToSet(g) : v.do = "get" /\ v.layer = l /\ v.file = f
      BY GetsAre
    <3>. HIDE DEF g
    <3>. QED BY <2>3, <3>1
  <2>5. /\ w \in Seq(Item) /\ GetsFirst(w)
        /\ \A v \in ToSet(w) : v.do = "write" /\ v.layer = l /\ v.file = "parent" /\ v.bytes = Content(l, "parent")
        /\ \E v \in ToSet(w) : v.do = "write" /\ v.layer = l /\ v.file = "parent"
        /\ \A held : <<l, "parent">> \in held => Ready(w, held)
    <3>1. /\ w \in Seq(Item) /\ GetsFirst(w)
          /\ \A v \in ToSet(w) : /\ v.do = "write" /\ v.layer = l /\ v.file \in ToSet(files)
                                 /\ v.bytes = Content(l, FILENAME_ENUM_MAP[v.file])
          /\ \A f \in ToSet(files) : \E v \in ToSet(w) : v.do = "write" /\ v.layer = l /\ v.file = f
          /\ \A held : (\A f \in ToSet(files) : <<l, f>> \in held) => Ready(w, held)
      BY WritesAre
    <3>. HIDE DEF w
    <3>. QED BY <2>2, <2>3, <3>1
  <2>. HIDE DEF g, w
  <2>6. <<l, "parent">> \in {} \cup Got(g)
    BY <2>4 DEF Got
  <2>7. Ready(w, {} \cup Got(g))
    BY <2>5, <2>6
  <2>8. g \o w \in Seq(Item) /\ ToSet(g \o w) = ToSet(g) \cup ToSet(w)
    BY <2>4, <2>5, ToSetConcat
  <2>9. Ready(g \o w, {})
    BY <2>4, <2>5, <2>7, ReadyConcat
  <2>10. GetsFirst(g \o w)
    BY <2>4, <2>5, GetsFirstConcat
  <2>11. Has(g \o w, "get", l, "parent") /\ Has(g \o w, "write", l, "parent")
    BY <2>2, <2>4, <2>5, <2>8 DEF Has
  <2>12. \A v \in ToSet(g \o w) : v.layer = l /\ v.file = "parent" /\ (v.do = "write" => v.bytes = Content(l, "parent"))
    BY <2>4, <2>5, <2>8
  <2>. HIDE DEF q
  <2>13. q \in Seq(Item) /\ Ready(q, {}) /\ GetsFirst(q)
    BY <2>1, <2>8, <2>9, <2>10
  <2>14. Has(q, "get", l, "parent") /\ Has(q, "write", l, "parent")
    BY <2>1, <2>11
  <2>. QED BY <1>2, <2>1, <2>12, <2>13, <2>14 DEF q
<1>. QED BY <1>1, <1>2

(* The list of a builder.                                                  *)
BuildWork(l) ==
  write_parent_file(l) \o Gets(l, layer_files(IsChild(l))) \o Writes(l, WrittenFiles(l))

(* A builder gets every file before it writes it, asks for all of its      *)
(* files before it writes one, and writes exactly what the layer is.       *)
LEMMA BuildWorkOk ==
  ASSUME NEW l \in Layer
  PROVE  LET q == BuildWork(l)
         IN  /\ q \in Seq(Item) /\ Ready(q, {}) /\ GetsFirst(q)
             /\ \A w \in ToSet(q) :
                  /\ w.layer = l /\ FILENAME_ENUM_MAP[w.file] \in Types(l)
                  /\ w.do = "write" => /\ FILENAME_ENUM_MAP[w.file] \in DOMAIN Original[l]
                                       /\ w.bytes = Original[l][FILENAME_ENUM_MAP[w.file]]
             /\ \A e \in DOMAIN Original[l] : Has(q, "write", l, e)
             /\ \A e \in Types(l) : Has(q, "get", l, e)
<1>. DEFINE h == write_parent_file(l)
            g == Gets(l, layer_files(IsChild(l)))
            w == Writes(l, WrittenFiles(l))
            q == BuildWork(l)
<1>0. IsChild(l) \in BOOLEAN /\ FILENAME_ENUM_MAP["parent"] = "parent"
  BY FileTypesAsk DEF IsChild
<1>1. /\ h \in Seq(Item) /\ Ready(h, {}) /\ GetsFirst(h)
      /\ \A v \in ToSet(h) : /\ IsChild(l) /\ v.layer = l /\ v.file = "parent"
                             /\ v.do = "write" => v.bytes = Content(l, "parent")
      /\ IsChild(l) => Has(h, "get", l, "parent") /\ Has(h, "write", l, "parent")
  BY ParentWork
<1>2. layer_files(IsChild(l)) \in Seq(FILENAMES) /\ WrittenFiles(l) \in Seq(FILENAMES)
  BY <1>0, LayerFilesAre, WrittenNames
<1>3. ToSet(WrittenFiles(l)) \subseteq ToSet(layer_files(IsChild(l)))
  BY <1>0, LayerFilesAre, WrittenNames
<1>4. /\ g \in Seq(Item) /\ GetsFirst(g) /\ \A held : Ready(g, held)
      /\ \A v \in ToSet(g) : v.do = "get" /\ v.layer = l /\ v.file \in ToSet(layer_files(IsChild(l)))
      /\ \A f \in ToSet(layer_files(IsChild(l))) : \E v \in ToSet(g) : v.do = "get" /\ v.layer = l /\ v.file = f
  BY <1>2, GetsAre
<1>5. /\ w \in Seq(Item) /\ GetsFirst(w)
      /\ \A v \in ToSet(w) : /\ v.do = "write" /\ v.layer = l /\ v.file \in ToSet(WrittenFiles(l))
                             /\ v.bytes = Content(l, FILENAME_ENUM_MAP[v.file])
      /\ \A f \in ToSet(WrittenFiles(l)) : \E v \in ToSet(w) : v.do = "write" /\ v.layer = l /\ v.file = f
      /\ \A held : (\A f \in ToSet(WrittenFiles(l)) : <<l, f>> \in held) => Ready(w, held)
  BY <1>2, WritesAre
<1>6. q = (h \o g) \o w
  BY DEF BuildWork
<1>. HIDE DEF h, g, w, q
<1>7. /\ h \o g \in Seq(Item) /\ ToSet(h \o g) = ToSet(h) \cup ToSet(g)
      /\ q \in Seq(Item) /\ ToSet(q) = ToSet(h) \cup ToSet(g) \cup ToSet(w)
  <2>1. h \o g \in Seq(Item) /\ ToSet(h \o g) = ToSet(h) \cup ToSet(g)
    BY <1>1, <1>4, ToSetConcat
  <2>2. PICK hg : hg = h \o g
    OBVIOUS
  <2>3. hg \o w \in Seq(Item) /\ ToSet(hg \o w) = ToSet(hg) \cup ToSet(w)
    <3>1. hg \in Seq(Item) /\ w \in Seq(Item)
      BY <1>5, <2>1, <2>2
    <3>. QED BY <3>1, ToSetConcat
  <2>4. q = hg \o w /\ ToSet(hg) = ToSet(h) \cup ToSet(g)
    BY <1>6, <2>1, <2>2
  <2>5. q \in Seq(Item) /\ ToSet(q) = ToSet(hg) \cup ToSet(w)
    BY <2>3, <2>4
  <2>. QED BY <2>1, <2>4, <2>5
<1>8. Ready(q, {})
  <2>1. Ready(g, {} \cup Got(h))
    BY <1>4
  <2>2. Ready(h \o g, {})
    BY <1>1, <1>4, <2>1, ReadyConcat
  <2>3. \A f \in ToSet(WrittenFiles(l)) : <<l, f>> \in {} \cup Got(h \o g)
    <3>1. ASSUME NEW f \in ToSet(WrittenFiles(l)) PROVE <<l, f>> \in Got(h \o g)
      <4>1. PICK v \in ToSet(g) : v.do = "get" /\ v.layer = l /\ v.file = f
        BY <1>3, <1>4, <3>1
      <4>. QED BY <1>7, <4>1 DEF Got
    <3>. QED BY <3>1
  <2>4. Ready(w, {} \cup Got(h \o g))
    BY <1>5, <2>3
  <2>. QED BY <1>5, <1>6, <1>7, <2>2, <2>4, ReadyConcat
<1>9. GetsFirst(q)
  <2>1. GetsFirst(h \o g)
    BY <1>0, <1>1, <1>4, GetsFirstConcat
  <2>2. \A v \in ToSet(w) : v.do # "get"
    BY <1>5
  <2>. QED BY <1>5, <1>6, <1>7, <2>1, <2>2, GetsFirstConcat
<1>10. ASSUME NEW v \in ToSet(q)
       PROVE  /\ v.layer = l /\ FILENAME_ENUM_MAP[v.file] \in Types(l)
              /\ v.do = "write" => /\ FILENAME_ENUM_MAP[v.file] \in DOMAIN Original[l]
                                   /\ v.bytes = Original[l][FILENAME_ENUM_MAP[v.file]]
  <2>1. CASE v \in ToSet(h)
    <3>1. "parent" \in DOMAIN Original[l] /\ "parent" \in Types(l) /\ Original[l]["parent"] = Content(l, "parent")
      BY <1>1, <2>1, OriginalParent, OriginalTypes, TypesParent
    <3>. QED BY <1>0, <1>1, <2>1, <3>1
  <2>2. CASE v \in ToSet(g)
    BY <1>4, <2>2, TypesAre
  <2>3. CASE v \in ToSet(w)
    <3>1. FILENAME_ENUM_MAP[v.file] \in DOMAIN Original[l] /\ DOMAIN Original[l] \subseteq Types(l)
      BY <1>5, <2>3, OriginalTypes, TypesAre
    <3>2. v.bytes = Original[l][FILENAME_ENUM_MAP[v.file]]
      BY <1>5, <2>3, <3>1, OriginalTypes
    <3>. QED BY <1>5, <2>3, <3>1, <3>2
  <2>. QED BY <1>7, <2>1, <2>2, <2>3
<1>11. ASSUME NEW e \in DOMAIN Original[l] PROVE Has(q, "write", l, e)
  <2>1. e \in {FILENAME_ENUM_MAP[f] : f \in ToSet(WrittenFiles(l))} \/ (IsChild(l) /\ e = "parent")
    BY <1>11 DEF Original
  <2>2. CASE e \in {FILENAME_ENUM_MAP[f] : f \in ToSet(WrittenFiles(l))}
    <3>1. PICK f \in ToSet(WrittenFiles(l)) : e = FILENAME_ENUM_MAP[f]
      BY <2>2
    <3>. QED BY <1>5, <1>7, <3>1 DEF Has
  <2>3. CASE IsChild(l) /\ e = "parent"
    BY <1>1, <1>7, <2>3 DEF Has
  <2>. QED BY <2>1, <2>2, <2>3
<1>12. ASSUME NEW e \in Types(l) PROVE Has(q, "get", l, e)
  <2>1. e \in {FILENAME_ENUM_MAP[f] : f \in ToSet(layer_files(IsChild(l)))} \/ (IsChild(l) /\ e = "parent")
    BY <1>12 DEF Types
  <2>2. CASE e \in {FILENAME_ENUM_MAP[f] : f \in ToSet(layer_files(IsChild(l)))}
    <3>1. PICK f \in ToSet(layer_files(IsChild(l))) : e = FILENAME_ENUM_MAP[f]
      BY <2>2
    <3>. QED BY <1>4, <1>7, <3>1 DEF Has
  <2>3. CASE IsChild(l) /\ e = "parent"
    BY <1>1, <1>7, <2>3 DEF Has
  <2>. QED BY <2>1, <2>2, <2>3
<1>. QED BY <1>7, <1>8, <1>9, <1>10, <1>11, <1>12 DEF q

-----------------------------------------------------------------------------
(* A writer that has just been called.                                     *)
LEMMA CallFields ==
  ASSUME NEW s, NEW dirs, NEW work, NEW j, j = Writer(s, dirs, work)
  PROVE  /\ j.op = "write" /\ j.store = s /\ j.pc = "exists" /\ j.dirs = dirs
         /\ j.ids = ToSet(dirs) /\ j.work = work /\ DOMAIN j.held = {} /\ j.left = ToSet(dirs)
         /\ Early(j)
BY DEF Writer, Early

(* A builder, and an import, start with all of what is due in their work.  *)
LEMMA BuilderIsOk ==
  ASSUME NEW l \in Layer, NEW j, j = create_layer(l)
  PROVE  WriteOk(j)
<1>1. j = Writer("origin", <<l>>, BuildWork(l))
  BY DEF create_layer, BuildWork
<1>2. ToSet(<<l>>) = {l}
  BY DEF ToSet
<1>3. /\ j.store = "origin" /\ j.pc = "exists" /\ j.ids = {l} /\ j.left = {l}
      /\ j.work = BuildWork(l) /\ DOMAIN j.held = {} /\ Early(j)
  BY <1>1, <1>2, CallFields
<1>4. /\ j.work \in Seq(Item) /\ Ready(j.work, {}) /\ GetsFirst(j.work)
      /\ \A w \in ToSet(j.work) :
           /\ w.layer = l /\ FILENAME_ENUM_MAP[w.file] \in Types(l)
           /\ w.do = "write" => /\ FILENAME_ENUM_MAP[w.file] \in DOMAIN Original[l]
                                /\ w.bytes = Original[l][FILENAME_ENUM_MAP[w.file]]
      /\ \A e \in DOMAIN Original[l] : Has(j.work, "write", l, e)
      /\ \A e \in Types(l) : Has(j.work, "get", l, e)
  BY <1>3, BuildWorkOk
<1>5. \A m : ~NotInPack("origin", m)
  BY DEF NotInPack
<1>6. WorkOk(j)
  BY <1>3, <1>4, <1>5 DEF WorkOk, ItemOk
<1>7. HeldOk(j) /\ InsertOk(j) /\ EmptyOk(j)
  BY <1>3, <1>5 DEF HeldOk, InsertOk, EmptyOk
<1>8. LeftOk(j)
  BY <1>3, <1>4, <1>5 DEF LeftOk, Due
<1>9. BuilderOk(j)
  BY <1>3, <1>4 DEF BuilderOk
<1>. QED BY <1>3, <1>6, <1>7, <1>8, <1>9 DEF WriteOk

LEMMA ImporterIsOk ==
  ASSUME NEW dirs \in Seq(Layer), pack # None, PackOk(pack), NEW j, j = import_layers(dirs)
  PROVE  WriteOk(j)
<1>. DEFINE ids == ToSet(dirs)
            q == ImportWork(pack, ids)[Len(pack)]
<1>1. j = Writer("target", dirs, q)
  BY DEF import_layers
<1>2. /\ q \in Seq(Item) /\ Ready(q, {})
      /\ \A w \in ToSet(q) :
           /\ w.layer \in ids /\ \E x \in ToSet(pack) : x.layer = w.layer
           /\ w.do = "write" => /\ FILENAME_ENUM_MAP[w.file] \in DOMAIN Original[w.layer]
                                /\ w.bytes = Original[w.layer][FILENAME_ENUM_MAP[w.file]]
      /\ \A x \in ToSet(pack) : Wanted(x, ids) => Has(q, "write", x.layer, FILENAME_ENUM_MAP[x.file])
  BY ImportWorkOk
<1>. HIDE DEF q, ids
<1>3. /\ j.store = "target" /\ j.pc = "exists" /\ j.ids = ids /\ j.left = ids /\ j.dirs = dirs
      /\ j.work = q /\ DOMAIN j.held = {} /\ Early(j)
  BY <1>1, CallFields DEF ids
<1>4. \A l : NotInPack("target", l) <=> ~ \E x \in ToSet(pack) : x.layer = l
  BY DEF NotInPack, ToSet
<1>5. WorkOk(j)
  BY <1>2, <1>3, <1>4 DEF WorkOk, ItemOk
<1>6. HeldOk(j) /\ InsertOk(j) /\ BuilderOk(j)
  BY <1>3 DEF HeldOk, InsertOk, BuilderOk
<1>7. EmptyOk(j)
  BY <1>3 DEF EmptyOk, ids
<1>8. LeftOk(j)
  <2>1. ASSUME NEW l \in ids, NEW e \in DOMAIN Due("target", l) PROVE Has(q, "write", l, e)
    <3>1. ~NotInPack("target", l) /\ e \in DOMAIN Original[l]
      BY <2>1 DEF Due
    <3>2. Carries(pack, l, e)
      <4>1. PICK x \in ToSet(pack) : x.layer = l
        BY <1>4, <3>1
      <4>. QED BY <3>1, <4>1 DEF PackOk
    <3>3. PICK x \in ToSet(pack) : x.layer = l /\ x.file # "directory" /\ FILENAME_ENUM_MAP[x.file] = e
      BY <3>2 DEF Carries
    <3>. QED BY <1>2, <2>1, <3>3 DEF Wanted
  <2>. QED BY <1>3, <2>1 DEF LeftOk
<1>. QED BY <1>3, <1>5, <1>6, <1>7, <1>8 DEF WriteOk

-----------------------------------------------------------------------------
(* What a step does not touch.                                             *)
(* The directory of a layer and the handles in it stay as they are.        *)
Untouched(s, l) ==
  /\ construction'[s][l] = construction[s][l]
  /\ construction[s][l] # NoDir =>
       \A e \in DOMAIN construction[s][l] :
         /\ Key(s, l, e) \in DOMAIN handles => Key(s, l, e) \in DOMAIN handles'
         /\ handles'[Key(s, l, e)] = handles[Key(s, l, e)]

LEMMA UntouchedFiles ==
  ASSUME NEW s, NEW l, Untouched(s, l), construction[s][l] # NoDir, NEW e
  PROVE  /\ Finished(s, l, e)' <=> Finished(s, l, e)
         /\ e \in DOMAIN construction[s][l] => Key(s, l, e)' = Key(s, l, e)
BY DEF Untouched, Finished, Key

LEMMA UntouchedDir ==
  ASSUME NEW s, NEW l, Untouched(s, l), DirOk(s, l)
  PROVE  DirOk(s, l)'
<1>. SUFFICES ASSUME construction[s][l] # NoDir PROVE DirOk(s, l)'
  BY DEF Untouched, DirOk
<1>1. construction'[s][l] = construction[s][l]
  BY DEF Untouched
<1>2. \A e \in DOMAIN construction[s][l] :
        /\ Key(s, l, e)' = Key(s, l, e) /\ (Finished(s, l, e)' <=> Finished(s, l, e))
        /\ Key(s, l, e) \in DOMAIN handles => Key(s, l, e) \in DOMAIN handles'
        /\ handles'[Key(s, l, e)] = handles[Key(s, l, e)]
  BY UntouchedFiles DEF Untouched
<1>. QED BY <1>1, <1>2 DEF DirOk

(* A writer whose directories are not touched.                             *)
LEMMA UntouchedWriter ==
  ASSUME NEW j, WriteOk(j), j.left \subseteq j.ids, j.pc \in {"open", "chunk"} => j.at \in j.ids,
         \A l \in j.ids : Untouched(j.store, l), j.store \in Store,
         j.store = "target" => pack' = pack
  PROVE  WriteOk(j)'
<1>1. \A l : NotInPack(j.store, l)' <=> NotInPack(j.store, l)
  BY DEF NotInPack
<1>2. \A l : Due(j.store, l)' = Due(j.store, l)
  BY <1>1 DEF Due
<1>3. \A l \in j.ids : construction'[j.store][l] = construction[j.store][l]
  BY DEF Untouched
<1>4. WorkOk(j)'
  BY <1>1 DEF WriteOk, WorkOk, ItemOk
<1>5. HeldOk(j)'
  BY <1>3 DEF WriteOk, HeldOk
<1>6. InsertOk(j)'
  <2>1. j.work # << >> => Head(j.work).layer \in j.ids
    <3>1. j.work \in Seq(Item) /\ \A w \in ToSet(j.work) : w.layer \in j.ids
      BY DEF WriteOk, WorkOk, ItemOk
    <3>. QED BY <3>1, ToSetTail
  <2>. QED BY <1>3, <2>1 DEF WriteOk, InsertOk
<1>7. LeftOk(j)'
  <2>1. \A l \in j.ids : \A e : construction[j.store][l] # NoDir =>
           (Finished(j.store, l, e)' <=> Finished(j.store, l, e))
    BY UntouchedFiles
  <2>. QED BY <1>2, <1>3, <2>1 DEF WriteOk, LeftOk
<1>8. EmptyOk(j)'
  BY <1>1, <1>3 DEF WriteOk, EmptyOk
<1>9. BuilderOk(j)'
  BY <1>3 DEF WriteOk, BuilderOk
<1>. QED BY <1>2, <1>4, <1>5, <1>6, <1>7, <1>8, <1>9 DEF WriteOk

-----------------------------------------------------------------------------
(* A step of one task, for the calls of the others.                        *)
DiskGrows ==
  /\ \A s \in Store, l \in Layer : archive[s][l] # NoFile => archive'[s][l] # NoFile
  /\ absent \subseteq absent'

(* A call that is not touched.                                             *)
LEMMA KeptCall ==
  ASSUME NEW j, JobOk(j), CallOk(j), DiskGrows,
         j.op = "write" => \A l \in j.ids : Untouched(j.store, l),
         j.store = "target" => pack' = pack
  PROVE  CallOk(j)'
<1>1. j.store \in Store
  BY DEF JobOk
<1>2. ASSUME j.op = "write" PROVE WriteOk(j)' /\ StoringOk(j)'
  <2>1. WriterOk(j) /\ WriteOk(j) /\ StoringOk(j)
    BY <1>2 DEF JobOk, CallOk
  <2>2. j.left \subseteq j.ids /\ (j.pc \in {"open", "chunk"} => j.at \in j.ids)
    BY <2>1 DEF WriterOk
  <2>3. StoringOk(j)'
    BY <1>1, <2>1 DEF StoringOk, DiskGrows, WriterOk
  <2>. QED BY <1>1, <1>2, <2>1, <2>2, <2>3, UntouchedWriter
<1>3. ASSUME j.op = "read" PROVE ReadOk(j)'
  <2>1. ReadOk(j) /\ j.at \in Layer
    BY <1>3 DEF CallOk, ReadOk
  <2>2. Absent(j.store, j.at) => Absent(j.store, j.at)'
    BY DEF Absent, DiskGrows
  <2>3. archive'[j.store][j.at] # NoFile
    BY <1>1, <2>1 DEF ReadOk, DiskGrows
  <2>. QED BY <2>1, <2>2, <2>3 DEF ReadOk
<1>4. ASSUME j.op = "parent_name" PROVE NameOk(j)'
  <2>1. NameOk(j)
    BY <1>4 DEF CallOk
  <2>2. Absent(j.store, j.at) => Absent(j.store, j.at)'
    BY DEF Absent, DiskGrows
  <2>. QED BY <1>1, <2>1, <2>2 DEF NameOk, DiskGrows
<1>5. ASSUME j.op = "export" PROVE ExportOk(j)'
  BY <1>5 DEF CallOk, ExportOk
<1>. QED BY <1>2, <1>3, <1>4, <1>5 DEF CallOk

CallsOk(t) == job[t] # Idle => CallOk(job[t])

(* What a step of t may touch.                                             *)
Local(t) ==
  /\ Moves(t) /\ DiskGrows
  /\ \A s \in Store, l \in Layer :
       Untouched(s, l) \/ (Writing(t) /\ job[t].store = s /\ l \in job[t].ids)
  /\ pack' = pack \/ (job[t] # Idle /\ job[t].store = "origin")

LEMMA OthersAreKept ==
  ASSUME Typed, OnDisk, Contained, NEW t \in Task, Local(t), NEW u \in Task, u # t
  PROVE  CallsOk(u)'
<1>. SUFFICES ASSUME job[u] # Idle PROVE CallsOk(u)'
  <2>1. job'[u] = job[u]
    BY DEF Local, Moves
  <2>. QED BY <2>1 DEF CallsOk
<1>1. PICK j : j = job[u]
  OBVIOUS
<1>2. job'[u] = j
  BY <1>1 DEF Local, Moves
<1>3. JobOk(j) /\ CallOk(j)
  BY <1>1 DEF Typed, Contained
<1>4. ASSUME j.op = "write", NEW l \in j.ids PROVE Untouched(j.store, l)
  <2>1. WriterOk(j) /\ j.store \in Store /\ l \in Layer
    BY <1>3, <1>4 DEF JobOk, WriterOk
  <2>2. Writing(u)
    BY <1>1, <1>4 DEF Writing
  <2>3. ~(Writing(t) /\ job[t].store = j.store /\ l \in job[t].ids)
    BY <1>1, <1>4, <2>2 DEF OnDisk, WritersAreApart
  <2>. QED BY <2>1, <2>3 DEF Local
<1>5. j.store = "target" => pack' = pack
  BY <1>1 DEF Local, Contained, OneStore
<1>6. CallOk(j)'
  BY <1>3, <1>4, <1>5, KeptCall DEF Local
<1>. QED BY <1>2, <1>6 DEF CallsOk

(* A call stays with its store, and a new one joins the others.            *)
Joins(t, s) == job[t] = Idle /\ \A u \in Task : job[u] # Idle => job[u].store = s

LEMMA CallJoins ==
  ASSUME NEW t \in Task, NEW j, Call(t, j)
  PROVE  Joins(t, j.store) /\ job' = [job EXCEPT ![t] = j]
BY DEF Call, Joins

StoreKept(t) ==
  job'[t] # Idle => \/ job[t] # Idle /\ job'[t].store = job[t].store
                    \/ Joins(t, job'[t].store)

LEMMA OneStoreKept ==
  ASSUME Contained, NEW t \in Task, Moves(t), StoreKept(t)
  PROVE  OneStore'
<1>1. \A u \in Task : u # t => job'[u] = job[u]
  BY DEF Moves
<1>2. ASSUME NEW u \in Task, u # t, job'[u] # Idle, job'[t] # Idle
      PROVE  job'[u].store = job'[t].store
  BY <1>1, <1>2 DEF StoreKept, Joins, Contained, OneStore
<1>3. ASSUME NEW u \in Task, NEW v \in Task, u # t, v # t, job'[u] # Idle, job'[v] # Idle
      PROVE  job'[u].store = job'[v].store
  BY <1>1, <1>3 DEF Contained, OneStore
<1>. QED BY <1>2, <1>3 DEF OneStore

(* What is left to show of a step of t.                                    *)
LEMMA AllOk ==
  ASSUME Typed, OnDisk, Contained, NEW t \in Task, Local(t), StoreKept(t), CallsOk(t)',
         \A s \in Store, l \in Layer : ArchiveOk(s, l)' /\ DirOk(s, l)',
         \A l \in absent' : l \in Layer /\ archive'["target"][l] # NoFile,
         pack' # None => PackOk(pack')
  PROVE  Contained'
<1>1. OneStore'
  BY OneStoreKept DEF Local
<1>2. \A u \in Task : CallsOk(u)'
  BY OthersAreKept
<1>3. (\A u \in Task : job[u] # Idle => CallOk(job[u]))'
  BY <1>2 DEF CallsOk
<1>4. (pack # None => PackOk(pack))'
  BY DEF PackOk
<1>. QED BY <1>1, <1>3, <1>4 DEF Contained

(* A step that changes nothing but the call.                               *)
Still == UNCHANGED <<construction, handles, archive, pack, absent>>

LEMMA StillUntouched ==
  ASSUME Still
  PROVE  \A s, l : Untouched(s, l)
BY DEF Still, Untouched

LEMMA ArchiveKept ==
  ASSUME archive' = archive, absent' = absent, NEW s, NEW l, ArchiveOk(s, l)
  PROVE  ArchiveOk(s, l)'
<1>1. Final(s, l)' = Final(s, l)
  BY DEF Final, Absent
<1>. QED BY <1>1 DEF ArchiveOk

LEMMA StillStep ==
  ASSUME Typed, OnDisk, Contained, Typed', NEW t \in Task, Still, NEW k, job' = [job EXCEPT ![t] = k],
         k # Idle => /\ CallOk(k)
                     /\ (job[t] # Idle /\ k.store = job[t].store) \/ Joins(t, k.store)
  PROVE  Contained'
<1>1. Moves(t) /\ job'[t] = k
  BY DEF Moves, Typed
<1>0. k # Idle => JobOk(k)
  BY <1>1 DEF Typed
<1>2. DiskGrows
  BY DEF DiskGrows, Still
<1>3. Local(t)
  BY <1>1, <1>2, StillUntouched DEF Local, Still
<1>4. StoreKept(t)
  BY <1>1 DEF StoreKept
<1>5. CallsOk(t)'
  <2>1. k # Idle => CallOk(k)'
    BY <1>0, <1>2, StillUntouched, KeptCall DEF Still
  <2>. QED BY <1>1, <2>1 DEF CallsOk
<1>6. \A s \in Store, l \in Layer : ArchiveOk(s, l)' /\ DirOk(s, l)'
  BY StillUntouched, ArchiveKept, UntouchedDir DEF Contained, Still
<1>7. pack' = pack /\ absent' = absent /\ archive' = archive
  BY DEF Still
<1>8. \A l \in absent' : l \in Layer /\ archive'["target"][l] # NoFile
  BY <1>7 DEF Contained
<1>9. pack' # None => PackOk(pack')
  BY <1>7 DEF Contained
<1>. QED BY <1>3, <1>4, <1>5, <1>6, <1>8, <1>9, AllOk

LEMMA EndStep ==
  ASSUME Typed, OnDisk, Contained, Typed', NEW t \in Task, Still, End(t)
  PROVE  Contained'
BY StillStep DEF End

LEMMA NamesAre ==
  /\ \A f \in FileType : f \in FILENAMES
  /\ \A f \in BaseNames : f \in FILENAMES
  /\ FileType = {"node_dictionary", "predicate_dictionary", "value_dictionary",
    "node_value_idmap", "predicate_idmap",
    "pos_subjects", "pos_objects", "neg_subjects", "neg_objects",
    "pos_s_p", "pos_sp_o", "pos_o_ps", "pos_wavelet",
    "neg_s_p", "neg_sp_o", "neg_o_ps", "neg_wavelet",
    "parent", "rollup"}
BY FileTypeIs, EnumMapIs

(* The lists of files readers ask for.                                     *)
LEMMA FilesOfAre ==
  ASSUME NEW part \in Part, NEW c \in BOOLEAN
  PROVE  FilesOf(part, c) \in Seq(FILENAMES)
<1>. USE NamesAre DEF BaseNames
<1>1. /\ node_dictionary_files \in Seq(FILENAMES) /\ predicate_dictionary_files \in Seq(FILENAMES)
      /\ value_dictionary_files \in Seq(FILENAMES) /\ node_value_idmap_files \in Seq(FILENAMES)
      /\ predicate_idmap_files \in Seq(FILENAMES)
  BY DEF node_dictionary_files, predicate_dictionary_files, value_dictionary_files,
         node_value_idmap_files, predicate_idmap_files
<1>2. triple_addition_files(c) \in Seq(FILENAMES) /\ triple_removal_files(c) \in Seq(FILENAMES)
  <2>1. <<"pos_s_p", "pos_sp_o", "pos_subjects">> \in Seq(FILENAMES)
    OBVIOUS
  <2>2. <<"base_s_p", "base_sp_o", "base_subjects">> \in Seq(FILENAMES)
    OBVIOUS
  <2>3. <<"neg_s_p", "neg_sp_o", "neg_subjects">> \in Seq(FILENAMES)
    OBVIOUS
  <2>4. << >> \in Seq(FILENAMES)
    OBVIOUS
  <2>. QED BY <2>1, <2>2, <2>3, <2>4 DEF triple_addition_files, triple_removal_files
<1>3. /\ predicate_wavelet_addition_files(c) \in Seq(FILENAMES)
      /\ predicate_wavelet_removal_files(c) \in Seq(FILENAMES)
  <2>1. /\ <<"pos_wavelet">> \in Seq(FILENAMES) /\ <<"base_wavelet">> \in Seq(FILENAMES)
        /\ <<"neg_wavelet">> \in Seq(FILENAMES) /\ << >> \in Seq(FILENAMES)
    OBVIOUS
  <2>. QED BY <2>1 DEF predicate_wavelet_addition_files, predicate_wavelet_removal_files
<1>4. /\ triple_addition_files_by_object(c) \in Seq(FILENAMES)
      /\ triple_removal_files_by_object(c) \in Seq(FILENAMES)
  <2>1. <<"pos_o_ps", "pos_s_p", "pos_subjects", "pos_objects">> \in Seq(FILENAMES)
    OBVIOUS
  <2>2. <<"base_o_ps", "base_s_p", "base_subjects", "base_objects">> \in Seq(FILENAMES)
    OBVIOUS
  <2>3. <<"neg_o_ps", "neg_s_p", "neg_subjects", "neg_objects">> \in Seq(FILENAMES)
    OBVIOUS
  <2>4. << >> \in Seq(FILENAMES)
    OBVIOUS
  <2>. QED BY <2>1, <2>2, <2>3, <2>4 DEF triple_addition_files_by_object, triple_removal_files_by_object
<1>5. /\ triple_layer_addition_count_files(c) \in Seq(FILENAMES)
      /\ triple_layer_removal_count_files(c) \in Seq(FILENAMES)
  <2>1. /\ <<"pos_s_p", "pos_sp_o">> \in Seq(FILENAMES) /\ <<"base_s_p", "base_sp_o">> \in Seq(FILENAMES)
        /\ <<"neg_s_p", "neg_sp_o">> \in Seq(FILENAMES) /\ << >> \in Seq(FILENAMES)
    OBVIOUS
  <2>2. <<"neg_s_p", "neg_sp_o">> \o predicate_wavelet_removal_files(c) \in Seq(FILENAMES)
    BY <1>3, <2>1, ConcatProperties
  <2>3. (IF c THEN <<"pos_s_p", "pos_sp_o">> ELSE <<"base_s_p", "base_sp_o">>)
          \o predicate_wavelet_addition_files(c) \in Seq(FILENAMES)
    <3>1. (IF c THEN <<"pos_s_p", "pos_sp_o">> ELSE <<"base_s_p", "base_sp_o">>) \in Seq(FILENAMES)
      BY <2>1
    <3>. QED BY <1>3, <3>1, ConcatProperties
  <2>. QED BY <2>1, <2>2, <2>3 DEF triple_layer_addition_count_files, triple_layer_removal_count_files
<1>6. layer_files(c) \in Seq(FILENAMES)
  BY LayerFilesAre
<1>7. /\ node_dictionary_files \o value_dictionary_files \o node_value_idmap_files \in Seq(FILENAMES)
      /\ predicate_dictionary_files \o predicate_idmap_files \in Seq(FILENAMES)
      /\ triple_addition_files(c) \o predicate_wavelet_addition_files(c) \in Seq(FILENAMES)
      /\ triple_removal_files(c) \o predicate_wavelet_removal_files(c) \in Seq(FILENAMES)
  BY <1>1, <1>2, <1>3, ConcatProperties
<1>. QED BY <1>1, <1>2, <1>4, <1>5, <1>6, <1>7 DEF FilesOf, Part

LEMMA FilesWithoutParent ==
  ASSUME NEW part \in Part, ~AsksParent(part), NEW c, NEW d
  PROVE  FilesOf(part, c) = FilesOf(part, d)
BY DEF AsksParent, FilesOf

-----------------------------------------------------------------------------
(* What readers are given by an archive.                                   *)
(* The name of the parent ...                                              *)
LEMMA NameIsRead ==
  ASSUME NEW s \in Store, NEW l \in Layer, ArchiveOk(s, l)
  PROVE  \/ get_parent(s, l) = Error
         \/ archive[s][l] # NoFile /\ (Absent(s, l) \/ get_parent(s, l) = ParentOf[l])
<1>1. CASE archive[s][l] = NoFile
  BY <1>1 DEF get_parent, get_layer_structure_bytes
<1>2. CASE archive[s][l] # NoFile /\ ~Absent(s, l)
  <2>. DEFINE bytes == get_layer_structure_bytes(s, l, "parent")
  <2>1. "parent" \in FileType /\ Final(s, l) = Original[l]
    BY <1>2, FileTypesAsk DEF Final
  <2>2. bytes # Error => bytes = IF "parent" \in DOMAIN Original[l] THEN Original[l]["parent"] ELSE None
    BY <1>2, <2>1, ArchiveIsRead
  <2>3. get_parent(s, l) = IF bytes \in {Error, None} THEN bytes ELSE bytes[1]
    BY DEF get_parent
  <2>. HIDE DEF bytes
  <2>4. CASE IsChild(l)
    <3>1. bytes # Error => bytes = <<ParentOf[l]>>
      BY <2>2, <2>4, OriginalParent
    <3>2. <<ParentOf[l]>> # None
      BY FileTypesAsk, ContentIs
    <3>3. bytes # Error => get_parent(s, l) = <<ParentOf[l]>>[1]
      BY <2>3, <3>1, <3>2
    <3>4. <<ParentOf[l]>>[1] = ParentOf[l]
      OBVIOUS
    <3>. QED BY <1>2, <2>3, <3>3, <3>4
  <2>5. CASE ~IsChild(l)
    <3>1. bytes # Error => bytes = None
      BY <2>2, <2>5, OriginalParent
    <3>2. ParentOf[l] = None
      BY <2>5 DEF IsChild
    <3>. QED BY <1>2, <2>3, <3>1, <3>2
  <2>. QED BY <2>4, <2>5
<1>. QED BY <1>1, <1>2

(* ... whether there is one ...                                            *)
LEMMA ParentIsFound ==
  ASSUME NEW s \in Store, NEW l \in Layer, ArchiveOk(s, l), archive[s][l] # NoFile, ~UnderConstruction(s, l),
         file_exists(s, l, "parent") # Error
  PROVE  /\ file_exists(s, l, "parent") \in BOOLEAN
         /\ Absent(s, l) \/ file_exists(s, l, "parent") = IsChild(l)
<1>1. file_exists(s, l, "parent") = layer_file_exists(s, l, "parent") /\ "parent" \in FileType
  BY FileTypesAsk DEF file_exists
<1>2. layer_file_exists(s, l, "parent") = ("parent" \in DOMAIN Final(s, l))
  BY <1>1, ArchiveIsRead
<1>3. ~Absent(s, l) => Final(s, l) = Original[l]
  BY DEF Final
<1>4. file_exists(s, l, "parent") = ("parent" \in DOMAIN Final(s, l))
  BY <1>1, <1>2, Zenon
<1>5. file_exists(s, l, "parent") \in BOOLEAN
  <2>1. ("parent" \in DOMAIN Final(s, l)) \in BOOLEAN
    OBVIOUS
  <2>2. PICK x : x = ("parent" \in DOMAIN Final(s, l))
    BY Zenon
  <2>3. x \in BOOLEAN
    BY <2>1, <2>2, Zenon
  <2>. QED BY <1>4, <2>2, <2>3, Zenon
<1>6. Absent(s, l) \/ file_exists(s, l, "parent") = ("parent" \in DOMAIN Original[l])
  BY <1>3, <1>4, Zenon
<1>7. CASE IsChild(l)
  <2>1. ("parent" \in DOMAIN Original[l]) = TRUE /\ IsChild(l) = TRUE
    BY <1>7, OriginalParent DEF IsChild
  <2>2. Absent(s, l) \/ file_exists(s, l, "parent") = TRUE
    BY <1>6, <2>1, Zenon
  <2>. QED BY <1>5, <2>1, <2>2, Zenon
<1>8. CASE ~IsChild(l)
  <2>1. ("parent" \in DOMAIN Original[l]) = FALSE /\ IsChild(l) = FALSE
    BY <1>8, OriginalParent DEF IsChild
  <2>2. Absent(s, l) \/ file_exists(s, l, "parent") = FALSE
    BY <1>6, <2>1, Zenon
  <2>. QED BY <1>5, <2>1, <2>2, Zenon
<1>. QED BY <1>7, <1>8

(* ... and the files of a part.                                            *)
LEMMA FilesAreRead ==
  ASSUME NEW s \in Store, NEW l \in Layer, ArchiveOk(s, l), archive[s][l] # NoFile, ~Absent(s, l),
         NEW part \in Part, NEW child \in BOOLEAN, AsksParent(part) => child = IsChild(l),
         NEW held, \A f \in ToSet(FilesOf(part, child)) : held[<<l, f>>] = Persistent,
         map_all(s, l, part, child, held) # Error
  PROVE  map_all(s, l, part, child, held) = Expected[l][part]
<1>. DEFINE files == ToSet(FilesOf(part, child))
            found == [f \in files |-> map_if_exists(s, l, f, held[<<l, f>>])]
            there == {f \in DOMAIN found : found[f] # None}
            seen == [e \in {FILENAME_ENUM_MAP[f] : f \in there} |->
                       found[CHOOSE f \in there : FILENAME_ENUM_MAP[f] = e]]
<1>1. /\ \A f \in DOMAIN found : found[f] # Error
      /\ map_all(s, l, part, child, held) = seen
  BY DEF map_all
<1>2. files \subseteq FILENAMES
  BY FilesOfAre DEF ToSet
<1>3. FilesOf(part, child) = FilesOf(part, IsChild(l))
  BY FilesWithoutParent
<1>4. ASSUME NEW f \in files
      PROVE  /\ FILENAME_ENUM_MAP[f] \in FileType
             /\ found[f] = IF FILENAME_ENUM_MAP[f] \in DOMAIN Original[l]
                           THEN Original[l][FILENAME_ENUM_MAP[f]] ELSE None
  <2>1. FILENAME_ENUM_MAP[f] \in FileType
    BY <1>2, <1>4, NamesFacts
  <2>2. found[f] = get_layer_structure_bytes(s, l, FILENAME_ENUM_MAP[f])
    BY <1>4 DEF map_if_exists
  <2>3. found[f] # Error
    BY <1>1, <1>4
  <2>4. Final(s, l) = Original[l]
    BY DEF Final
  <2>. HIDE DEF found, files
  <2>. QED BY <2>1, <2>2, <2>3, <2>4, ArchiveIsRead
<1>5. \A e \in DOMAIN Original[l] : Original[l][e] # None
  BY OriginalTypes, ContentIs
<1>6. DOMAIN found = files
  OBVIOUS
<1>. HIDE DEF found, files
<1>7. there = {f \in files : FILENAME_ENUM_MAP[f] \in DOMAIN Original[l]}
  BY <1>4, <1>5, <1>6
<1>. DEFINE types == {FILENAME_ENUM_MAP[f] : f \in files} \cap DOMAIN Original[l]
<1>8. {FILENAME_ENUM_MAP[f] : f \in there} = types
  BY <1>7
<1>9. ASSUME NEW e \in types
      PROVE  found[CHOOSE f \in there : FILENAME_ENUM_MAP[f] = e] = Original[l][e]
  <2>. DEFINE c == CHOOSE f \in there : FILENAME_ENUM_MAP[f] = e
  <2>1. \E f \in there : FILENAME_ENUM_MAP[f] = e
    BY <1>8, <1>9
  <2>. HIDE DEF there
  <2>2. c \in there /\ FILENAME_ENUM_MAP[c] = e
    BY <2>1
  <2>. HIDE DEF c
  <2>3. c \in files /\ FILENAME_ENUM_MAP[c] \in DOMAIN Original[l]
    BY <1>7, <2>2
  <2>4. found[c] = Original[l][e]
    BY <1>4, <2>2, <2>3
  <2>. QED BY <2>4 DEF c
<1>. HIDE DEF there
<1>10. seen = [e \in types |-> Original[l][e]]
  BY <1>8, <1>9
<1>11. Expected[l][part] = [e \in types |-> Original[l][e]]
  BY <1>3 DEF Expected, files
<1>. QED BY <1>1, <1>10, <1>11

(* ... and nothing of a layer that was not in the pack.                    *)
LEMMA NothingIsRead ==
  ASSUME NEW s \in Store, NEW l \in Layer, ArchiveOk(s, l), archive[s][l] # NoFile, Absent(s, l),
         NEW part \in Part, NEW child \in BOOLEAN,
         NEW held, \A f \in ToSet(FilesOf(part, child)) : held[<<l, f>>] = Persistent,
         map_all(s, l, part, child, held) # Error
  PROVE  DOMAIN map_all(s, l, part, child, held) = {}
<1>. DEFINE files == ToSet(FilesOf(part, child))
            found == [f \in files |-> map_if_exists(s, l, f, held[<<l, f>>])]
            there == {f \in DOMAIN found : found[f] # None}
            seen == [e \in {FILENAME_ENUM_MAP[f] : f \in there} |->
                       found[CHOOSE f \in there : FILENAME_ENUM_MAP[f] = e]]
<1>1. /\ \A f \in DOMAIN found : found[f] # Error
      /\ map_all(s, l, part, child, held) = seen
  BY DEF map_all
<1>2. files \subseteq FILENAMES
  BY FilesOfAre DEF ToSet
<1>3. Final(s, l) = << >>
  BY DEF Final
<1>4. ASSUME NEW f \in files PROVE found[f] = None
  <2>1. FILENAME_ENUM_MAP[f] \in FileType
    BY <1>2, <1>4, NamesFacts
  <2>2. found[f] = get_layer_structure_bytes(s, l, FILENAME_ENUM_MAP[f])
    BY <1>4 DEF map_if_exists
  <2>3. found[f] # Error
    BY <1>1, <1>4
  <2>4. FILENAME_ENUM_MAP[f] \notin DOMAIN Final(s, l)
    BY <1>3
  <2>. HIDE DEF found, files
  <2>. QED BY <2>1, <2>2, <2>3, <2>4, ArchiveIsRead
<1>5. there = {}
  BY <1>4
<1>. HIDE DEF there
<1>6. DOMAIN seen = {}
  BY <1>5
<1>. QED BY <1>1, <1>6

-----------------------------------------------------------------------------
(* Calls that start.                                                       *)
LEMMA OtherOpStep ==
  ASSUME Typed, OnDisk, Contained, Typed', NEW t \in Task, Still, NEW k, job' = [job EXCEPT ![t] = k],
         k # Idle => /\ k.op \in {"set_rollup", "get_rollup"}
                     /\ (job[t] # Idle /\ k.store = job[t].store) \/ Joins(t, k.store)
  PROVE  Contained'
BY StillStep DEF CallOk

LEMMA BuildKeeps ==
  ASSUME Typed, OnDisk, Contained, Typed', NEW t \in Task, NEW l \in Layer, StartBuild(t, l)
  PROVE  Contained'
<1>1. PICK k : k = create_layer(l)
  OBVIOUS
<1>2. WriteOk(k)
  BY <1>1, BuilderIsOk
<1>3. k.op = "write" /\ k.store = "origin" /\ k.pc = "exists"
  BY <1>1, CallFields DEF create_layer
<1>4. CallOk(k)
  BY <1>2, <1>3 DEF CallOk, StoringOk
<1>5. Still /\ job' = [job EXCEPT ![t] = k] /\ Joins(t, k.store)
  BY <1>1, CallJoins DEF StartBuild, Still
<1>. QED BY <1>3, <1>4, <1>5, StillStep

LEMMA ImportKeeps ==
  ASSUME Typed, OnDisk, Contained, Typed', NEW t \in Task, NEW dirs \in Requests, StartImport(t, dirs)
  PROVE  Contained'
<1>1. PICK k : k = import_layers(dirs)
  OBVIOUS
<1>2. pack # None /\ dirs \in Seq(Layer)
  BY RequestsAssumption DEF StartImport
<1>3. WriteOk(k)
  BY <1>1, <1>2, ImporterIsOk DEF Contained
<1>4. k.op = "write" /\ k.store = "target" /\ k.pc = "exists"
  BY <1>1, CallFields DEF import_layers
<1>5. CallOk(k)
  BY <1>3, <1>4 DEF CallOk, StoringOk
<1>6. Still /\ job' = [job EXCEPT ![t] = k] /\ Joins(t, k.store)
  BY <1>1, CallJoins DEF StartImport, Still
<1>. QED BY <1>4, <1>5, <1>6, StillStep

LEMMA ExportKeeps ==
  ASSUME Typed, OnDisk, Contained, Typed', NEW t \in Task, NEW dirs \in Requests, StartExport(t, dirs)
  PROVE  Contained'
<1>1. PICK k : k = [op |-> "export", store |-> "origin", pc |-> "tar", dirs |-> dirs, tar |-> << >>, at |-> None]
  OBVIOUS
<1>2. k.op = "export" /\ k.store = "origin" /\ k.dirs = dirs /\ k.tar = << >>
  BY <1>1
<1>3. dirs \in Seq(Layer)
  BY RequestsAssumption
<1>4. CallOk(k)
  BY <1>2, <1>3, PackOkEmpty DEF CallOk, ExportOk
<1>5. Still /\ job' = [job EXCEPT ![t] = k] /\ Joins(t, k.store)
  BY <1>1, CallJoins DEF StartExport, Still
<1>. QED BY <1>2, <1>4, <1>5, StillStep

LEMMA NameKeeps ==
  ASSUME Typed, OnDisk, Contained, Typed', NEW t \in Task, NEW s \in Store, NEW l \in Layer,
         ReadParentName(t, s, l)
  PROVE  Contained'
<1>1. PICK k : k = [op |-> "parent_name", store |-> s, pc |-> "done", at |-> l, seen |-> get_parent(s, l)]
  OBVIOUS
<1>2. k.op = "parent_name" /\ k.store = s /\ k.at = l /\ k.seen = get_parent(s, l)
  BY <1>1
<1>3. ArchiveOk(s, l)
  BY DEF Contained
<1>4. NameOk(k)
  BY <1>2, <1>3, NameIsRead DEF NameOk
<1>5. CallOk(k)
  BY <1>2, <1>4 DEF CallOk
<1>6. Still /\ job' = [job EXCEPT ![t] = k] /\ Joins(t, k.store)
  BY <1>1, CallJoins DEF ReadParentName, Still
<1>. QED BY <1>2, <1>5, <1>6, StillStep

LEMMA ReadKeeps ==
  ASSUME Typed, OnDisk, Contained, Typed', EarlyParts = {}, NEW t \in Task, NEW s \in Store, NEW l \in Layer,
         NEW part \in Asked, StartRead(t, s, l, part)
  PROVE  Contained'
<1>1. PICK k : k = Reader(s, l, part)
  OBVIOUS
<1>2. /\ k.op = "read" /\ k.store = s /\ k.at = l /\ k.part = part /\ k.child = FALSE
      /\ k.pc = (IF AsksParent(part) THEN "parent" ELSE "work") /\ DOMAIN k.held = {}
      /\ k.work = IF AsksParent(part) THEN << >> ELSE Gets(l, FilesOf(part, FALSE))
  BY <1>1 DEF Reader
<1>3. part \in Part /\ archive[s][l] # NoFile
  BY AskedAssumption DEF StartRead, directory_exists, layer_exists
<1>4. FilesOf(part, FALSE) \in Seq(FILENAMES)
  BY <1>3, FilesOfAre
<1>5. /\ k.work \in Seq(Item) /\ \A w \in ToSet(k.work) : w.do = "get" /\ w.layer = l
      /\ ~AsksParent(part) => \A f \in ToSet(FilesOf(part, FALSE)) : \E w \in ToSet(k.work) : w.file = f
  <2>1. CASE AsksParent(part)
    <3>1. << >> \in Seq(Item) /\ ToSet(<< >>) = {}
      BY DEF ToSet
    <3>. QED BY <1>2, <2>1, <3>1
  <2>2. CASE ~AsksParent(part)
    <3>1. k.work = Gets(l, FilesOf(part, FALSE))
      BY <1>2, <2>2
    <3>2. PICK files \in Seq(FILENAMES) : files = FilesOf(part, FALSE)
      BY <1>4
    <3>3. /\ Gets(l, files) \in Seq(Item)
          /\ \A w \in ToSet(Gets(l, files)) : w.do = "get" /\ w.layer = l
          /\ \A f \in ToSet(files) : \E w \in ToSet(Gets(l, files)) : w.file = f
      BY GetsAre
    <3>4. k.work = Gets(l, files)
      BY <3>1, <3>2
    <3>. QED BY <3>2, <3>3, <3>4
  <2>. QED BY <2>1, <2>2
<1>6. ReadOk(k)
  BY <1>2, <1>3, <1>5 DEF ReadOk
<1>7. CallOk(k)
  BY <1>2, <1>6 DEF CallOk
<1>8. Still /\ job' = [job EXCEPT ![t] = k] /\ Joins(t, k.store)
  BY <1>1, CallJoins DEF StartRead, Still
<1>. QED BY <1>2, <1>7, <1>8, StillStep

LEMMA RollupStartsKeep ==
  ASSUME Typed, OnDisk, Contained, Typed', NEW t \in Task, NEW l \in Layer,
         StartGetRollup(t, l) \/ \E r \in RollupName : write_rollup_file(t, l, r)
  PROVE  Contained'
<1>1. ASSUME StartGetRollup(t, l) PROVE Contained'
  <2>1. PICK k : k = [op |-> "get_rollup", store |-> "origin", pc |-> "lock", at |-> l, seen |-> None]
    OBVIOUS
  <2>2. Still /\ job' = [job EXCEPT ![t] = k] /\ Joins(t, k.store) /\ k.op = "get_rollup"
    BY <1>1, <2>1, CallJoins DEF StartGetRollup, Still
  <2>. QED BY <2>2, OtherOpStep
<1>2. ASSUME NEW r \in RollupName, write_rollup_file(t, l, r) PROVE Contained'
  <2>1. PICK k : k = [op |-> "set_rollup", store |-> "origin", pc |-> "lock", at |-> l, lines |-> <<"1", r>>]
    OBVIOUS
  <2>2. Still /\ job' = [job EXCEPT ![t] = k] /\ Joins(t, k.store) /\ k.op = "set_rollup"
    BY <1>2, <2>1, CallJoins DEF write_rollup_file, Still
  <2>. QED BY <2>2, OtherOpStep
<1>. QED BY <1>1, <1>2

(* Calls about rollup files that go on.                                    *)
LEMMA RollupsKeep ==
  ASSUME Typed, OnDisk, Contained, Typed', NEW t \in Task,
         LockExclusive(t) \/ set_rollup(t) \/ LockShared(t) \/ get_rollup(t)
  PROVE  Contained'
<1>1. Still /\ job[t] # Idle /\ job[t].op \in {"set_rollup", "get_rollup"}
  BY DEF LockExclusive, set_rollup, LockShared, get_rollup, Still
<1>2. \/ End(t)
      \/ \E p : job' = [job EXCEPT ![t].pc = p]
      \/ \E p, x : job' = [job EXCEPT ![t].pc = p, ![t].seen = x]
  <2>1. LockExclusive(t) => End(t) \/ job' = [job EXCEPT ![t].pc = "create"]
    BY DEF LockExclusive
  <2>2. set_rollup(t) => End(t) \/ job' = [job EXCEPT ![t].pc = "write"]
    BY DEF set_rollup
  <2>3. LockShared(t) => End(t) \/ job' = [job EXCEPT ![t].pc = "read"]
    BY DEF LockShared
  <2>4. ASSUME get_rollup(t) PROVE \E p, x : job' = [job EXCEPT ![t].pc = p, ![t].seen = x]
    <3>1. PICK p, x : /\ p = IF rollup[job[t].at] # NoFile /\ Len(rollup[job[t].at]) < 2
                             THEN "failed" ELSE "done"
                      /\ x = IF rollup[job[t].at] = NoFile \/ Len(rollup[job[t].at]) < 2
                             THEN None ELSE rollup[job[t].at][2]
      OBVIOUS
    <3>2. job' = [job EXCEPT ![t].pc = p, ![t].seen = x]
      BY <2>4, <3>1 DEF get_rollup
    <3>. QED BY <3>2, Zenon
  <2>. QED BY <2>1, <2>2, <2>3, <2>4
<1>3. {"op", "store", "pc", "at"} \subseteq DOMAIN job[t] /\ DOMAIN job = Task
  BY <1>1 DEF Typed, JobOk
<1>4. ASSUME NEW p, job' = [job EXCEPT ![t].pc = p] PROVE Contained'
  <2>1. PICK k : k = [job[t] EXCEPT !.pc = p]
    OBVIOUS
  <2>2. job' = [job EXCEPT ![t] = k] /\ k.op = job[t].op /\ k.store = job[t].store
    BY <1>3, <1>4, <2>1
  <2>. QED BY <1>1, <2>2, OtherOpStep
<1>5. ASSUME NEW p, NEW x, job' = [job EXCEPT ![t].pc = p, ![t].seen = x] PROVE Contained'
  <2>1. PICK k : k = [job[t] EXCEPT !.pc = p, !.seen = x]
    OBVIOUS
  <2>2. job' = [job EXCEPT ![t] = k] /\ k.op = job[t].op /\ k.store = job[t].store
    BY <1>3, <1>5, <2>1
  <2>. QED BY <1>1, <2>2, OtherOpStep
<1>. QED BY <1>1, <1>2, <1>4, <1>5, EndStep

-----------------------------------------------------------------------------
(* Writers that go on.                                                     *)
LEMMA WriterOf ==
  ASSUME Typed, Contained, NEW t \in Task, Writing(t)
  PROVE  /\ WriterOk(job[t]) /\ WriteOk(job[t]) /\ job[t].store \in Store
         /\ WriterFields \subseteq DOMAIN job[t] /\ DOMAIN job = Task
BY DEF Typed, Contained, Writing, JobOk, WriterOk, CallOk

LEMMA LookKeeps ==
  ASSUME Typed, OnDisk, Contained, Typed', NEW t \in Task, create_named_directory(t)
  PROVE  Contained'
<1>1. Still /\ job[t] # Idle /\ job[t].pc = "exists" /\ (End(t) \/ job' = [job EXCEPT ![t].pc = "claim"])
  BY DEF create_named_directory, Still
<1>2. CASE job' = [job EXCEPT ![t].pc = "claim"]
  <2>1. Writing(t)
    BY <1>1, WriterIs DEF Writing
  <2>2. PICK j : j = job[t]
    OBVIOUS
  <2>3. WriterOk(j) /\ WriteOk(j) /\ WriterFields \subseteq DOMAIN j /\ DOMAIN job = Task
        /\ j.op = "write" /\ j.pc = "exists"
    BY <1>1, <2>1, <2>2, WriterOf DEF Writing
  <2>4. PICK k : k = [j EXCEPT !.pc = "claim"]
    OBVIOUS
  <2>5. /\ job' = [job EXCEPT ![t] = k] /\ k.pc = "claim" /\ k.op = "write" /\ k.store = j.store
        /\ k.ids = j.ids /\ k.left = j.left /\ k.dirs = j.dirs /\ k.work = j.work /\ k.held = j.held
    BY <1>2, <2>2, <2>3, <2>4 DEF WriterFields
  <2>6. Early(j) /\ Early(k)
    BY <2>3, <2>5 DEF Early
  <2>7. WorkOk(k) /\ HeldOk(k)
    BY <2>3, <2>5, <2>6 DEF WriteOk, WorkOk, HeldOk, ItemOk
  <2>8. InsertOk(k)
    BY <2>5 DEF InsertOk
  <2>9. LeftOk(k) /\ EmptyOk(k) /\ BuilderOk(k)
    BY <2>3, <2>5, <2>6 DEF WriteOk, LeftOk, EmptyOk, BuilderOk
  <2>10. WriteOk(k)
    BY <2>3, <2>5, <2>7, <2>8, <2>9 DEF WriteOk
  <2>11. CallOk(k)
    BY <2>5, <2>10 DEF CallOk, StoringOk
  <2>. QED BY <1>1, <2>2, <2>5, <2>11, StillStep
<1>. QED BY <1>1, <1>2, EndStep

(* The first item of the work is done.                                     *)
LEMMA RestOfWork ==
  ASSUME NEW j, NEW k, WorkOk(j), j.work # << >>, ~Early(k),
         k.work = Tail(j.work), k.ids = j.ids, k.store = j.store,
         DOMAIN j.held \subseteq DOMAIN k.held,
         Head(j.work).do = "get" => <<Head(j.work).layer, Head(j.work).file>> \in DOMAIN k.held
  PROVE  /\ WorkOk(k) /\ Head(j.work) \in Item /\ ItemOk(j, Head(j.work))
         /\ ToSet(j.work) = {Head(j.work)} \cup ToSet(k.work)
         /\ Head(j.work).do = "write" => <<Head(j.work).layer, Head(j.work).file>> \in DOMAIN j.held
<1>1. j.work \in Seq(Item) /\ \A w \in ToSet(j.work) : ItemOk(j, w)
  BY DEF WorkOk
<1>2. /\ Head(j.work) \in Item /\ k.work \in Seq(Item)
      /\ ToSet(j.work) = {Head(j.work)} \cup ToSet(k.work)
  BY <1>1, ToSetTail
<1>3. /\ Ready(k.work, DOMAIN k.held)
      /\ Head(j.work).do = "write" => <<Head(j.work).layer, Head(j.work).file>> \in DOMAIN j.held
  BY <1>1, ReadyTail DEF WorkOk
<1>4. \A w : ItemOk(j, w) => ItemOk(k, w)
  BY DEF ItemOk
<1>5. WorkOk(k)
  BY <1>1, <1>2, <1>3, <1>4 DEF WorkOk
<1>. QED BY <1>1, <1>2, <1>3, <1>5

LEMMA ItemIs ==
  ASSUME NEW w \in Item
  PROVE  w.do \in {"get", "write"} /\ w.layer \in Layer /\ w.file \in FILENAMES
         /\ FILENAME_ENUM_MAP[w.file] \in FileType
BY NamesFacts DEF Item

(* A handle that is there, or that leads to the archive, is held.          *)
LEMMA WriterHolds ==
  ASSUME NEW j, NEW k, NEW h, WriteOk(j), j.work # << >>, Head(j.work).do = "get", j.left \subseteq j.ids,
         j.pc = "work", k.pc = "work", k.work = Tail(j.work), k.ids = j.ids, k.store = j.store, k.left = j.left,
         k.held = With(j.held, <<Head(j.work).layer, Head(j.work).file>>, h),
         LET w == Head(j.work)
             c == construction[j.store][w.layer]
             e == FILENAME_ENUM_MAP[w.file]
         IN  c = NoDir \/ (e \in DOMAIN c /\ h = c[e])
  PROVE  WriteOk(k)
<1>. DEFINE w == Head(j.work)
            c == construction[j.store][w.layer]
            e == FILENAME_ENUM_MAP[w.file]
            key == <<w.layer, w.file>>
<1>0. ~Early(j) /\ ~Early(k)
  BY DEF Early
<1>1. /\ DOMAIN k.held = DOMAIN j.held \cup {key} /\ k.held[key] = h
      /\ \A x \in DOMAIN j.held : x # key => k.held[x] = j.held[x]
  BY DEF With
<1>2. /\ WorkOk(k) /\ w \in Item /\ ItemOk(j, w) /\ ToSet(j.work) = {w} \cup ToSet(k.work)
  <2>1. WorkOk(j)
    BY DEF WriteOk
  <2>. QED BY <1>0, <1>1, <2>1, RestOfWork
<1>3. w.layer \in j.ids /\ w.file \in FILENAMES /\ w.do = "get"
  BY <1>2, ItemIs DEF ItemOk
<1>4. HeldOk(k)
  <2>1. ASSUME NEW x \in DOMAIN k.held
        PROVE  /\ x[1] \in k.ids /\ x[2] \in FILENAMES
               /\ \/ k.held[x] = Persistent
                  \/ construction[k.store][x[1]] = NoDir
                  \/ /\ FILENAME_ENUM_MAP[x[2]] \in DOMAIN construction[k.store][x[1]]
                     /\ k.held[x] = construction[k.store][x[1]][FILENAME_ENUM_MAP[x[2]]]
    <3>1. CASE x = key
      <4>1. x[1] = w.layer /\ x[2] = w.file /\ k.held[x] = h
        BY <1>1, <3>1
      <4>. QED BY <1>3, <4>1
    <3>2. CASE x # key
      <4>1. x \in DOMAIN j.held /\ k.held[x] = j.held[x]
        BY <1>1, <3>2
      <4>. QED BY <4>1 DEF WriteOk, HeldOk
    <3>. QED BY <3>1, <3>2
  <2>. QED BY <2>1 DEF HeldOk
<1>. HIDE DEF w
<1>5. InsertOk(k)
  BY DEF InsertOk
<1>6. LeftOk(k)
  <2>1. \A l, x : Has(j.work, "write", l, x) => Has(k.work, "write", l, x)
    BY <1>2, <1>3 DEF Has
  <2>. QED BY <1>0, <2>1 DEF WriteOk, LeftOk
<1>7. EmptyOk(k)
  BY <1>0 DEF WriteOk, EmptyOk
<1>8. BuilderOk(k)
  <2>1. \A l, x : Has(j.work, "get", l, x) => Has(k.work, "get", l, x) \/ (l = w.layer /\ x = e)
    BY <1>2 DEF Has
  <2>2. c = NoDir \/ e \in DOMAIN c
    BY DEF w
  <2>3. j.store = "origin" => GetsFirst(k.work)
    <3>1. j.work \in Seq(Item)
      BY DEF WriteOk, WorkOk
    <3>. QED BY <3>1, GetsFirstTail DEF WriteOk, BuilderOk
  <2>. QED BY <1>0, <2>1, <2>2, <2>3 DEF WriteOk, BuilderOk
<1>. QED BY <1>2, <1>4, <1>5, <1>6, <1>7, <1>8 DEF WriteOk

-----------------------------------------------------------------------------
(* Calls that go on, and change nothing but themselves.                    *)

(* A task that has work is a writer or a reader.                           *)
LEMMA WorkerIs ==
  ASSUME Typed, Contained, NEW t \in Task, job[t] # Idle, job[t].pc \in {"work", "insert", "parent"}
  PROVE  \/ Writing(t) /\ job[t].pc # "parent"
         \/ /\ job[t].op = "read" /\ ReaderOk(job[t]) /\ ReadOk(job[t]) /\ job[t].store \in Store
            /\ {"op", "store", "pc", "at"} \subseteq DOMAIN job[t] /\ DOMAIN job = Task
<1>1. JobOk(job[t]) /\ CallOk(job[t]) /\ DOMAIN job = Task
  BY DEF Typed, Contained
<1>2. job[t].op = "write" \/ job[t].op = "read"
  BY <1>1 DEF JobOk, ExporterOk, SetterOk, GetterOk
<1>3. CASE job[t].op = "write"
  <2>1. WriterOk(job[t])
    BY <1>1, <1>3 DEF JobOk
  <2>. QED BY <1>3, <2>1 DEF Writing, WriterOk
<1>4. CASE job[t].op = "read"
  BY <1>1, <1>4 DEF JobOk, CallOk
<1>. QED BY <1>2, <1>3, <1>4

LEMMA WriterGets ==
  ASSUME Typed, OnDisk, Contained, Typed', NEW t \in Task, get_file(t), Writing(t)
  PROVE  Contained'
<1>1. PICK j : j = job[t]
  OBVIOUS
<1>2. /\ Still /\ j.pc = "work" /\ j.work # << >> /\ Head(j.work).do = "get" /\ j.op = "write" /\ j # Idle
  BY <1>1 DEF get_file, NextWork, Still, Writing
<1>3. WriterOk(j) /\ WriteOk(j) /\ WriterFields \subseteq DOMAIN j /\ DOMAIN job = Task /\ j.left \subseteq j.ids
  BY <1>1, WriterOf DEF WriterOk
<1>. DEFINE w == Head(j.work)
            c == construction[j.store][w.layer]
            e == FILENAME_ENUM_MAP[w.file]
<1>4. \/ c = NoDir /\ Hold(t, Persistent)
      \/ c # NoDir /\ e \in DOMAIN c /\ Hold(t, c[e])
      \/ c # NoDir /\ e \notin DOMAIN c /\ job' = [job EXCEPT ![t].pc = "insert"]
  BY <1>1, <1>2 DEF get_file, UnderConstruction
<1>5. ASSUME NEW h, Hold(t, h), c = NoDir \/ (e \in DOMAIN c /\ h = c[e])
      PROVE  Contained'
  <2>. DEFINE held == With(j.held, <<w.layer, w.file>>, h)
  <2>1. job' = [job EXCEPT ![t].work = Tail(@), ![t].pc = "work", ![t].held = With(@, <<w.layer, w.file>>, h)]
    BY <1>1, <1>5 DEF Hold
  <2>2. PICK k : k = [j EXCEPT !.work = Tail(@), !.pc = "work", !.held = held]
    OBVIOUS
  <2>3. job' = [job EXCEPT ![t] = k]
    BY <1>1, <1>3, <2>1, <2>2 DEF WriterFields
  <2>4. /\ k.pc = "work" /\ k.work = Tail(j.work) /\ k.held = held
        /\ k.op = "write" /\ k.ids = j.ids /\ k.store = j.store /\ k.left = j.left
    BY <1>2, <1>3, <2>2 DEF WriterFields
  <2>5. WriteOk(k)
    BY <1>2, <1>3, <1>5, <2>4, WriterHolds
  <2>6. CallOk(k)
    BY <2>4, <2>5 DEF CallOk, StoringOk
  <2>. QED BY <1>1, <1>2, <2>3, <2>4, <2>6, StillStep
<1>6. ASSUME c # NoDir, e \notin DOMAIN c, job' = [job EXCEPT ![t].pc = "insert"]
      PROVE  Contained'
  <2>1. PICK k : k = [j EXCEPT !.pc = "insert"]
    OBVIOUS
  <2>2. job' = [job EXCEPT ![t] = k]
    BY <1>1, <1>6, <2>1
  <2>3. /\ k.pc = "insert" /\ k.work = j.work /\ k.held = j.held
        /\ k.op = "write" /\ k.ids = j.ids /\ k.store = j.store /\ k.left = j.left
    BY <1>2, <1>3, <2>1 DEF WriterFields
  <2>4. ~Early(j) /\ ~Early(k)
    BY <1>2, <2>3 DEF Early
  <2>5. WorkOk(k) /\ HeldOk(k)
    BY <1>3, <2>3, <2>4 DEF WriteOk, WorkOk, ItemOk, HeldOk
  <2>6. InsertOk(k)
    BY <1>2, <1>6, <2>3 DEF InsertOk
  <2>7. LeftOk(k) /\ EmptyOk(k) /\ BuilderOk(k)
    BY <1>3, <2>3, <2>4 DEF WriteOk, LeftOk, EmptyOk, BuilderOk
  <2>8. CallOk(k)
    BY <1>3, <2>3, <2>5, <2>6, <2>7 DEF WriteOk, CallOk, StoringOk
  <2>. QED BY <1>1, <1>2, <2>2, <2>3, <2>8, StillStep
<1>. QED BY <1>4, <1>5, <1>6

(* All the handles of a reader lead to the archive.                        *)
LEMMA ReaderGets ==
  ASSUME Typed, OnDisk, Contained, Typed', NEW t \in Task, get_file(t), job[t].op = "read"
  PROVE  Contained'
<1>1. PICK j : j = job[t]
  OBVIOUS
<1>2. /\ Still /\ j.pc = "work" /\ j.work # << >> /\ j.op = "read" /\ j # Idle
  BY <1>1 DEF get_file, NextWork, Still
<1>3. /\ ReaderOk(j) /\ ReadOk(j) /\ j.store \in Store /\ {"op", "store", "pc", "at"} \subseteq DOMAIN j
      /\ DOMAIN job = Task
  BY <1>1, <1>2, WorkerIs DEF Writing
<1>4. Head(j.work).layer = j.at /\ j.at \in Layer
  <2>1. j.work \in Seq(Item) /\ \A w \in ToSet(j.work) : w.layer = j.at
    BY <1>3 DEF ReadOk
  <2>. QED BY <1>2, <1>3, <2>1, ToSetTail DEF ReadOk
<1>5. construction[j.store][j.at] = NoDir /\ archive[j.store][j.at] # NoFile
  BY <1>3, <1>4 DEF ReadOk, OnDisk, ConstructedOrStored
<1>a. ~Claiming(j.store, j.at)
  <2>. SUFFICES ASSUME NEW u \in Task, job[u] # Idle, job[u].pc = "claim", job[u].store = j.store,
                       j.at = Head(job[u].dirs)
                PROVE  FALSE
    BY DEF Claiming
  <2>1. Writing(u)
    BY WriterIs DEF Writing
  <2>. QED BY <1>5, <2>1 DEF OnDisk, WriterPhases, WriterPhase
<1>6. HoldRest(t)
  BY <1>1, <1>2, <1>4, <1>5, <1>a DEF get_file, UnderConstruction, layer_exists
<1>. DEFINE rest == {<<w.layer, w.file>> : w \in ToSet(j.work)}
            held == [x \in rest \cup DOMAIN j.held |-> IF x \in rest THEN Persistent ELSE j.held[x]]
<1>7. PICK k : k = [j EXCEPT !.work = << >>, !.held = held]
  OBVIOUS
<1>8. job' = [job EXCEPT ![t] = k]
  BY <1>1, <1>3, <1>6, <1>7 DEF HoldRest, ReaderOk
<1>9. /\ k.op = "read" /\ k.store = j.store /\ k.pc = "work" /\ k.at = j.at /\ k.part = j.part
      /\ k.child = j.child /\ k.work = << >> /\ k.held = held
  BY <1>2, <1>3, <1>7 DEF ReaderOk
<1>10. << >> \in Seq(Item) /\ ToSet(<< >>) = {}
  BY DEF ToSet
<1>11. DOMAIN held = rest \cup DOMAIN j.held /\ \A x \in DOMAIN held : held[x] = Persistent
  BY <1>3 DEF ReadOk
<1>12. ASSUME NEW f \in ToSet(FilesOf(j.part, j.child)) PROVE <<j.at, f>> \in DOMAIN held
  <2>1. \/ <<j.at, f>> \in DOMAIN j.held
        \/ \E w \in ToSet(j.work) : w.file = f /\ w.layer = j.at
    BY <1>2, <1>3, <1>12 DEF ReadOk
  <2>. QED BY <1>11, <2>1
<1>. HIDE DEF held
<1>13. ReadOk(k)
  BY <1>3, <1>9, <1>10, <1>11, <1>12, <1>2 DEF ReadOk
<1>14. CallOk(k)
  BY <1>9, <1>13 DEF CallOk
<1>. QED BY <1>1, <1>2, <1>8, <1>9, <1>14, StillStep

LEMMA GetKeeps ==
  ASSUME Typed, OnDisk, Contained, Typed', NEW t \in Task, get_file(t)
  PROVE  Contained'
<1>1. job[t] # Idle /\ job[t].pc = "work"
  BY DEF get_file, NextWork
<1>. QED BY <1>1, WorkerIs, WriterGets, ReaderGets

LEMMA DropKeeps ==
  ASSUME Typed, OnDisk, Contained, Typed', NEW t \in Task, DropBuilder(t)
  PROVE  Contained'
BY EndStep DEF DropBuilder, Still

LEMMA PoisonedKeeps ==
  ASSUME Typed, OnDisk, Contained, Typed', NEW t \in Task, PoisonedLock(t)
  PROVE  Contained'
BY EndStep DEF PoisonedLock, Still

LEMMA StoredKeeps ==
  ASSUME Typed, OnDisk, Contained, Typed', NEW t \in Task, Stored(t)
  PROVE  Contained'
<1>1. /\ Still /\ job[t] # Idle /\ job[t].pc = "chunk"
      /\ \/ End(t)
         \/ job' = [job EXCEPT ![t].pc = "work", ![t].left = @ \ {job[t].at}, ![t].at = None]
  BY DEF Stored, Still
<1>2. Writing(t)
  BY <1>1, WriterIs DEF Writing
<1>3. CASE job' = [job EXCEPT ![t].pc = "work", ![t].left = @ \ {job[t].at}, ![t].at = None]
  <2>1. PICK j : j = job[t]
    OBVIOUS
  <2>2. WriterOk(j) /\ WriteOk(j) /\ WriterFields \subseteq DOMAIN j /\ DOMAIN job = Task
        /\ j.op = "write" /\ j.pc = "chunk"
    BY <1>1, <1>2, <2>1, WriterOf DEF Writing
  <2>3. PICK k : k = [j EXCEPT !.pc = "work", !.left = @ \ {j.at}, !.at = None]
    OBVIOUS
  <2>4. job' = [job EXCEPT ![t] = k]
    BY <1>3, <2>1, <2>2, <2>3 DEF WriterFields
  <2>5. /\ k.pc = "work" /\ k.op = "write" /\ k.store = j.store
        /\ k.ids = j.ids /\ k.left = j.left \ {j.at} /\ k.work = j.work /\ k.held = j.held
    BY <2>2, <2>3 DEF WriterFields
  <2>6. ~Early(j) /\ ~Early(k)
    BY <2>2, <2>5 DEF Early
  <2>7. WorkOk(k) /\ HeldOk(k)
    BY <2>2, <2>5, <2>6 DEF WriteOk, WorkOk, HeldOk, ItemOk
  <2>8. InsertOk(k)
    BY <2>5 DEF InsertOk
  <2>9. LeftOk(k) /\ EmptyOk(k) /\ BuilderOk(k)
    BY <2>2, <2>5, <2>6 DEF WriteOk, LeftOk, EmptyOk, BuilderOk
  <2>10. CallOk(k)
    BY <2>2, <2>5, <2>7, <2>8, <2>9 DEF WriteOk, CallOk, StoringOk
  <2>. QED BY <1>1, <2>1, <2>4, <2>5, <2>10, StillStep
<1>. QED BY <1>1, <1>3, EndStep

LEMMA AskKeeps ==
  ASSUME Typed, OnDisk, Contained, Typed', NEW t \in Task, AskParent(t)
  PROVE  Contained'
<1>1. PICK j : j = job[t]
  OBVIOUS
<1>2. Still /\ j # Idle /\ j.pc = "parent"
  BY <1>1 DEF AskParent, Still
<1>3. /\ j.op = "read" /\ ReaderOk(j) /\ ReadOk(j) /\ j.store \in Store
      /\ {"op", "store", "pc", "at"} \subseteq DOMAIN j /\ DOMAIN job = Task
  BY <1>1, <1>2, WorkerIs
<1>4. PICK c, b :
               /\ c = file_exists(j.store, j.at, "parent")
               /\ job' = IF c = Error THEN [job EXCEPT ![t] = Idle]
                         ELSE [job EXCEPT ![t].pc = "work", ![t].child = c, ![t].early = b,
                                          ![t].work = Gets(j.at, FilesOf(j.part, c))]
  BY <1>1 DEF AskParent
<1>5. CASE c = Error
  BY <1>2, <1>4, <1>5, EndStep DEF End
<1>6. CASE c # Error
  <2>1. j.at \in Layer /\ j.part \in Part /\ archive[j.store][j.at] # NoFile
    BY <1>3 DEF ReadOk
  <2>2. ~UnderConstruction(j.store, j.at) /\ ArchiveOk(j.store, j.at)
    BY <1>3, <2>1 DEF OnDisk, ConstructedOrStored, UnderConstruction, Contained
  <2>3. c \in BOOLEAN /\ (Absent(j.store, j.at) \/ c = IsChild(j.at))
    BY <1>3, <1>4, <1>6, <2>1, <2>2, ParentIsFound
  <2>4. PICK files \in Seq(FILENAMES) : files = FilesOf(j.part, c)
    BY <2>1, <2>3, FilesOfAre
  <2>5. /\ Gets(j.at, files) \in Seq(Item)
        /\ \A w \in ToSet(Gets(j.at, files)) : w.do = "get" /\ w.layer = j.at
        /\ \A f \in ToSet(files) : \E w \in ToSet(Gets(j.at, files)) : w.file = f
    BY <2>1, GetsAre
  <2>6. PICK q : q = Gets(j.at, files)
    OBVIOUS
  <2>7. PICK k : k = [j EXCEPT !.pc = "work", !.child = c, !.early = b, !.work = q]
    OBVIOUS
  <2>8. job' = [job EXCEPT ![t] = k]
    BY <1>1, <1>4, <1>6, <2>4, <2>6, <2>7
  <2>9. /\ k.op = "read" /\ k.store = j.store /\ k.pc = "work" /\ k.at = j.at /\ k.part = j.part
        /\ k.child = c /\ k.work = q /\ k.held = j.held
    BY <1>3, <2>7 DEF ReaderOk
  <2>10. ReadOk(k)
    BY <1>3, <2>3, <2>4, <2>5, <2>6, <2>9 DEF ReadOk
  <2>11. CallOk(k)
    BY <2>9, <2>10 DEF CallOk
  <2>. QED BY <1>1, <1>2, <2>8, <2>9, <2>11, StillStep
<1>. QED BY <1>5, <1>6

LEMMA MapKeeps ==
  ASSUME Typed, OnDisk, Contained, Typed', NEW t \in Task, MapFiles(t)
  PROVE  Contained'
<1>1. PICK j : j = job[t]
  OBVIOUS
<1>2. /\ Still /\ j # Idle /\ j.op = "read" /\ j.pc = "work" /\ j.work = << >>
  BY <1>1 DEF MapFiles, Still
<1>3. /\ ReaderOk(j) /\ ReadOk(j) /\ j.store \in Store
      /\ {"op", "store", "pc", "at"} \subseteq DOMAIN j /\ DOMAIN job = Task
  BY <1>1, <1>2, WorkerIs DEF Writing
<1>4. PICK m : m = map_all(j.store, j.at, j.part, j.child, j.held)
  OBVIOUS
<1>5. PICK k : k = [j EXCEPT !.pc = "done", !.seen = m]
  OBVIOUS
<1>6. job' = [job EXCEPT ![t] = k]
  BY <1>1, <1>4, <1>5 DEF MapFiles
<1>7. /\ k.op = "read" /\ k.store = j.store /\ k.pc = "done" /\ k.at = j.at /\ k.part = j.part
      /\ k.child = j.child /\ k.work = j.work /\ k.held = j.held /\ k.seen = m
  BY <1>2, <1>3, <1>5 DEF ReaderOk
<1>8. j.at \in Layer /\ j.part \in Part /\ j.child \in BOOLEAN /\ archive[j.store][j.at] # NoFile
  BY <1>3 DEF ReadOk
<1>9. m = Error \/ m = Expected[j.at][j.part] \/ (Absent(j.store, j.at) /\ DOMAIN m = {})
  <2>1. ToSet(j.work) = {}
    BY <1>2 DEF ToSet
  <2>2. \A f \in ToSet(FilesOf(j.part, j.child)) : j.held[<<j.at, f>>] = Persistent
    BY <1>2, <1>3, <2>1 DEF ReadOk
  <2>3. ArchiveOk(j.store, j.at)
    BY <1>3, <1>8 DEF Contained
  <2>4. AsksParent(j.part) => Absent(j.store, j.at) \/ j.child = IsChild(j.at)
    BY <1>2, <1>3 DEF ReadOk
  <2>5. CASE ~Absent(j.store, j.at)
    BY <1>3, <1>4, <1>8, <2>2, <2>3, <2>4, <2>5, FilesAreRead
  <2>6. CASE Absent(j.store, j.at)
    BY <1>3, <1>4, <1>8, <2>2, <2>3, <2>6, NothingIsRead
  <2>. QED BY <2>5, <2>6
<1>10. ReadOk(k)
  BY <1>3, <1>7, <1>9 DEF ReadOk
<1>11. CallOk(k)
  BY <1>7, <1>10 DEF CallOk
<1>. QED BY <1>1, <1>2, <1>6, <1>7, <1>11, StillStep

LEMMA ExporterOf ==
  ASSUME Typed, Contained, NEW t \in Task, job[t] # Idle, job[t].pc = "tar"
  PROVE  /\ job[t].op = "export" /\ ExportOk(job[t])
         /\ {"op", "store", "pc", "at", "dirs", "tar"} \subseteq DOMAIN job[t] /\ DOMAIN job = Task
<1>1. JobOk(job[t]) /\ CallOk(job[t]) /\ DOMAIN job = Task
  BY DEF Typed, Contained
<1>2. job[t].op = "export"
  BY <1>1 DEF JobOk, WriterOk, ReaderOk, SetterOk, GetterOk
<1>. QED BY <1>1, <1>2 DEF JobOk, ExporterOk, CallOk

LEMMA TarKeeps ==
  ASSUME Typed, OnDisk, Contained, Typed', NEW t \in Task, export_layers(t)
  PROVE  Contained'
<1>1. PICK j : j = job[t]
  OBVIOUS
<1>2. /\ Still /\ j # Idle /\ j.pc = "tar" /\ j.dirs # << >>
  BY <1>1 DEF export_layers, Still
<1>3. /\ j.op = "export" /\ ExportOk(j)
      /\ {"op", "store", "pc", "at", "dirs", "tar"} \subseteq DOMAIN j /\ DOMAIN job = Task
  BY <1>1, <1>2, ExporterOf
<1>4. PICK l : l = Head(j.dirs)
  OBVIOUS
<1>5. l \in Layer /\ Tail(j.dirs) \in Seq(Layer)
  BY <1>2, <1>3, <1>4, ToSetTail DEF ExportOk
<1>6. CASE tar_fails("origin", l)
  <2>1. PICK k : k = [j EXCEPT !.pc = "failed", !.at = l]
    OBVIOUS
  <2>2. job' = [job EXCEPT ![t] = k]
    BY <1>1, <1>4, <1>6, <2>1 DEF export_layers
  <2>3. k.op = "export" /\ k.store = j.store /\ k.dirs = j.dirs /\ k.tar = j.tar
    BY <1>3, <2>1
  <2>4. CallOk(k)
    BY <1>3, <2>3 DEF CallOk, ExportOk
  <2>. QED BY <1>1, <1>2, <2>2, <2>3, <2>4, StillStep
<1>7. CASE ~tar_fails("origin", l)
  <2>0. PICK tar : tar = j.tar \o tar_append_layer("origin", l)
    OBVIOUS
  <2>1. PICK k : k = [j EXCEPT !.dirs = Tail(j.dirs), !.tar = tar]
    OBVIOUS
  <2>2. job' = [job EXCEPT ![t] = k]
    BY <1>1, <1>3, <1>4, <1>7, <2>0, <2>1 DEF export_layers
  <2>3. k.op = "export" /\ k.store = j.store /\ k.dirs = Tail(j.dirs) /\ k.tar = tar
    BY <1>3, <2>1
  <2>4. ArchiveOk("origin", l) /\ DirOk("origin", l)
    BY <1>5 DEF Contained, Store
  <2>5. PackOk(tar)
    BY <1>3, <1>5, <1>7, <2>0, <2>4, TarIsOk, PackOkConcat DEF ExportOk
  <2>6. CallOk(k)
    BY <1>3, <1>5, <2>3, <2>5 DEF CallOk, ExportOk
  <2>. QED BY <1>1, <1>2, <2>2, <2>3, <2>6, StillStep
<1>. QED BY <1>6, <1>7

-----------------------------------------------------------------------------
(* Steps that change the map, the handles or the disk.                     *)

LEMMA ToSetNone ==
  ASSUME NEW A, NEW q \in Seq(A), Len(q) = 0
  PROVE  ToSet(q) = {}
<1>1. q = << >>
  BY EmptySeq
<1>. QED BY <1>1 DEF ToSet

(* A writer goes on, and touches nothing but one of its layers.            *)
LEMMA WriterStepOk ==
  ASSUME Typed, OnDisk, Contained, Typed', NEW t \in Task, Writing(t),
         NEW k, job' = [job EXCEPT ![t] = k],
         k # Idle => k.op = "write" /\ k.store = job[t].store /\ k.pc # "chunk" /\ WriteOk(k)',
         NEW l \in job[t].ids, NEW st, st = job[t].store,
         \A s \in Store, m \in Layer : s # st \/ m # l => Untouched(s, m),
         DirOk(st, l)', pack' = pack, archive' = archive, absent' = absent
  PROVE  Contained'
<1>1. Moves(t) /\ job'[t] = k
  BY DEF Moves, Typed
<1>2. DiskGrows
  BY DEF DiskGrows
<1>3. Local(t)
  BY <1>1, <1>2 DEF Local
<1>4. StoreKept(t)
  BY <1>1 DEF StoreKept, Writing
<1>5. CallsOk(t)'
  <2>1. k # Idle => CallOk(k)'
    BY DEF CallOk, StoringOk
  <2>. QED BY <1>1, <2>1 DEF CallsOk
<1>6. ASSUME NEW s \in Store, NEW m \in Layer PROVE ArchiveOk(s, m)' /\ DirOk(s, m)'
  <2>1. ArchiveOk(s, m) /\ DirOk(s, m)
    BY DEF Contained
  <2>2. ArchiveOk(s, m)'
    BY <2>1, ArchiveKept
  <2>3. CASE s = st /\ m = l
    BY <2>2, <2>3
  <2>4. CASE s # st \/ m # l
    <3>1. Untouched(s, m)
      BY <2>4
    <3>. QED BY <2>1, <2>2, <3>1, UntouchedDir
  <2>. QED BY <2>3, <2>4
<1>7. \A m \in absent' : m \in Layer /\ archive'["target"][m] # NoFile
  BY DEF Contained
<1>8. pack' # None => PackOk(pack')
  BY DEF Contained
<1>. QED BY <1>3, <1>4, <1>5, <1>6, <1>7, <1>8, AllOk

LEMMA ClaimKeeps ==
  ASSUME Typed, OnDisk, Contained, Typed', NEW t \in Task, Claim(t)
  PROVE  Contained'
<1>1. PICK j : j = job[t]
  OBVIOUS
<1>2. j # Idle /\ j.pc = "claim" /\ Writing(t)
  BY <1>1, WriterIs DEF Claim, Writing
<1>3. /\ WriterOk(j) /\ WriteOk(j) /\ WriterFields \subseteq DOMAIN j /\ DOMAIN job = Task
      /\ j.store \in Store /\ j.op = "write"
  BY <1>1, <1>2, WriterOf DEF Writing
<1>4. PICK l : l = Head(j.dirs)
  OBVIOUS
<1>5. /\ l \in j.ids /\ l \in Layer /\ j.dirs \in Seq(Layer) /\ j.dirs # << >>
      /\ ToSet(j.dirs) = {l} \cup ToSet(Tail(j.dirs)) /\ Len(j.dirs) \in Nat \ {0}
      /\ (Len(j.dirs) = 1 => ToSet(Tail(j.dirs)) = {})
  <2>1. j.dirs \in Seq(Layer) /\ j.dirs # << >> /\ \A i \in 1..Len(j.dirs) : j.dirs[i] \in j.ids
    BY <1>2, <1>3 DEF WriterOk
  <2>2. /\ Head(j.dirs) = j.dirs[1] /\ Head(j.dirs) \in Layer /\ Tail(j.dirs) \in Seq(Layer)
        /\ Len(j.dirs) \in Nat \ {0} /\ Len(Tail(j.dirs)) = Len(j.dirs) - 1
        /\ ToSet(j.dirs) = {Head(j.dirs)} \cup ToSet(Tail(j.dirs))
    BY <2>1, ToSetTail
  <2>3. Len(j.dirs) = 1 => ToSet(Tail(j.dirs)) = {}
    <3>1. PICK q \in Seq(Layer) : q = Tail(j.dirs) /\ Len(q) = Len(j.dirs) - 1
      BY <2>2
    <3>2. Len(j.dirs) = 1 => Len(q) = 0
      BY <3>1
    <3>3. Len(q) = 0 => ToSet(q) = {}
      BY ToSetNone
    <3>. QED BY <3>1, <3>2, <3>3
  <2>. QED BY <1>4, <2>1, <2>2, <2>3
<1>6. UNCHANGED <<handles, archive, pack, absent>>
  BY DEF Claim
<1>7. CASE UnderConstruction(j.store, l)
  <2>1. Still /\ End(t)
    BY <1>1, <1>4, <1>6, <1>7 DEF Claim, Still
  <2>. QED BY <2>1, EndStep
<1>8. CASE ~UnderConstruction(j.store, l)
  <2>1. construction' = [construction EXCEPT ![j.store][l] = << >>]
    BY <1>1, <1>4, <1>8 DEF Claim
  <2>2. PICK pc : pc = IF Len(j.dirs) = 1 THEN "work" ELSE "exists"
    OBVIOUS
  <2>3. PICK k : k = [j EXCEPT !.dirs = Tail(j.dirs), !.pc = pc]
    OBVIOUS
  <2>4. job' = [job EXCEPT ![t] = k]
    BY <1>1, <1>3, <1>4, <1>8, <2>2, <2>3 DEF Claim, WriterFields
  <2>5. /\ k.dirs = Tail(j.dirs) /\ k.pc = pc /\ k.op = "write" /\ k.store = j.store
        /\ k.ids = j.ids /\ k.left = j.left /\ k.work = j.work /\ k.held = j.held
    BY <1>3, <2>3 DEF WriterFields
  <2>6. /\ Early(j) /\ (Early(k) <=> Len(j.dirs) # 1) /\ k.pc # "insert" /\ k.pc # "open" /\ k.pc # "chunk"
    BY <1>2, <2>2, <2>5 DEF Early
  <2>7. /\ construction'[j.store][l] = << >>
        /\ \A s \in Store, m \in Layer : s # j.store \/ m # l => construction'[s][m] = construction[s][m]
    BY <1>3, <1>5, <2>1 DEF Typed
  <2>8. \A s \in Store, m \in Layer : s # j.store \/ m # l => Untouched(s, m)
    BY <1>6, <2>7 DEF Untouched
  <2>9. DirOk(j.store, l)'
    BY <2>7 DEF DirOk
  <2>10. \A s, m : NotInPack(s, m)' <=> NotInPack(s, m)
    BY <1>6 DEF NotInPack
  <2>11. \A s, m : Due(s, m)' = Due(s, m)
    BY <2>10 DEF Due
  <2>12. WorkOk(k)' /\ HeldOk(k)'
    <3>1. WorkOk(j) /\ DOMAIN j.held = {}
      BY <1>3, <2>6 DEF WriteOk, WorkOk
    <3>2. \A w : ItemOk(j, w) => ItemOk(k, w)'
      BY <2>5, <2>10 DEF ItemOk
    <3>. QED BY <2>5, <3>1, <3>2 DEF WorkOk, HeldOk
  <2>13. InsertOk(k)'
    BY <2>6 DEF InsertOk
  <2>14. LeftOk(k)'
    BY <1>3, <2>5, <2>6, <2>11 DEF WriteOk, LeftOk
  <2>15. EmptyOk(k)'
    <3>1. ASSUME NEW m \in k.ids, NotInPack(k.store, m)'
          PROVE  (Early(k) /\ m \in ToSet(k.dirs)) \/ construction'[k.store][m] \in {NoDir, << >>}
      <4>1. m \in j.ids /\ NotInPack(j.store, m) /\ m \in Layer
        BY <1>3, <2>5, <2>10, <3>1 DEF WriterOk
      <4>2. m \in ToSet(j.dirs) \/ construction[j.store][m] \in {NoDir, << >>}
        BY <1>3, <4>1 DEF WriteOk, EmptyOk
      <4>3. CASE m = l
        BY <2>5, <2>7, <4>3
      <4>4. CASE m # l
        BY <1>3, <1>5, <2>5, <2>6, <2>7, <4>1, <4>2, <4>4
      <4>. QED BY <4>3, <4>4
    <3>. QED BY <3>1 DEF EmptyOk
  <2>16. BuilderOk(k)'
    <3>1. BuilderOk(j)
      BY <1>3 DEF WriteOk
    <3>2. j.store = "origin" => /\ GetsFirst(j.work)
                                /\ \A m \in j.ids : \A e \in Types(m) : Has(j.work, "get", m, e)
      BY <2>6, <3>1 DEF BuilderOk
    <3>. QED BY <2>5, <3>2 DEF BuilderOk
  <2>17. WriteOk(k)'
    BY <1>3, <1>6, <2>5, <2>6, <2>12, <2>13, <2>14, <2>15, <2>16 DEF WriteOk
  <2>18. PICK st : st = j.store
    OBVIOUS
  <2>. QED BY <1>1, <1>2, <1>5, <1>6, <2>4, <2>5, <2>6, <2>8, <2>9, <2>17, <2>18, WriterStepOk
<1>. QED BY <1>7, <1>8

(* A new handle goes into the map, and nobody else holds one for its file. *)
LEMMA InsertKeeps ==
  ASSUME Typed, OnDisk, Contained, Typed', NEW t \in Task, InsertFile(t)
  PROVE  Contained'
<1>1. PICK j : j = job[t]
  OBVIOUS
<1>2. j # Idle /\ j.pc = "insert" /\ Writing(t)
  BY <1>1, WorkerIs DEF InsertFile, ReadOk
<1>3. /\ WriterOk(j) /\ WriteOk(j) /\ WriterFields \subseteq DOMAIN j /\ DOMAIN job = Task
      /\ j.op = "write" /\ j.left \subseteq j.ids /\ j.ids \subseteq Layer
  BY <1>1, <1>2, WriterOf DEF Writing, WriterOk
<1>4. PICK s \in Store : s = j.store
  BY <1>1, <1>2, WriterOf
<1>5. PICK w : w = Head(j.work)
  OBVIOUS
<1>6. j.work # << >> /\ w.do = "get" /\ WorkOk(j)
  BY <1>2, <1>3, <1>5 DEF WriteOk, InsertOk
<1>7. PICK e : e = FILENAME_ENUM_MAP[w.file]
  OBVIOUS
<1>8. PICK l : l = w.layer
  OBVIOUS
<1>9. UNCHANGED <<archive, pack, absent>>
  BY DEF InsertFile
<1>10. CASE ~UnderConstruction(s, l)
  <2>1. Still /\ End(t)
    BY <1>1, <1>4, <1>5, <1>8, <1>9, <1>10 DEF InsertFile, Still
  <2>. QED BY <2>1, EndStep
<1>11. CASE UnderConstruction(s, l)
  <2>. DEFINE c == construction[s][l]
  <2>1. /\ construction' = [construction EXCEPT ![s][l] = With(@, e, t)]
        /\ handles' = With(handles, <<s, l, e, t>>, Open)
        /\ Hold(t, t)
    BY <1>1, <1>4, <1>5, <1>7, <1>8, <1>11 DEF InsertFile
  <2>2. PICK held : held = With(j.held, <<l, w.file>>, t)
    OBVIOUS
  <2>3. PICK k : k = [j EXCEPT !.work = Tail(j.work), !.pc = "work", !.held = held]
    OBVIOUS
  <2>4. job' = [job EXCEPT ![t] = k]
    BY <1>1, <1>3, <1>5, <1>8, <2>1, <2>2, <2>3 DEF Hold, WriterFields
  <2>5. /\ k.pc = "work" /\ k.work = Tail(j.work) /\ k.held = held
        /\ k.op = "write" /\ k.ids = j.ids /\ k.store = s /\ k.left = j.left
    BY <1>3, <1>4, <2>3 DEF WriterFields
  <2>6. ~Early(j) /\ ~Early(k)
    BY <1>2, <2>5 DEF Early
  <2>7. /\ DOMAIN held = DOMAIN j.held \cup {<<l, w.file>>} /\ held[<<l, w.file>>] = t
        /\ \A x \in DOMAIN j.held : x # <<l, w.file>> => held[x] = j.held[x]
    BY <2>2 DEF With
  <2>8. WorkOk(k) /\ w \in Item /\ ItemOk(j, w) /\ ToSet(j.work) = {w} \cup ToSet(k.work)
    <3>1. DOMAIN j.held \subseteq DOMAIN k.held /\ <<Head(j.work).layer, Head(j.work).file>> \in DOMAIN k.held
      BY <1>5, <1>8, <2>5, <2>7
    <3>2. k.store = j.store /\ k.ids = j.ids /\ k.work = Tail(j.work)
      BY <1>4, <2>5
    <3>. QED BY <1>5, <1>6, <2>6, <3>1, <3>2, RestOfWork
  <2>9. /\ l \in j.ids /\ l \in Layer /\ w.file \in FILENAMES /\ e \in FileType /\ ~NotInPack(s, l)
        /\ s = "origin" => e \in Types(l)
    BY <1>3, <1>4, <1>7, <1>8, <2>8, ItemIs DEF ItemOk
  <2>10. c # NoDir /\ e \notin DOMAIN c
    BY <1>2, <1>3, <1>4, <1>5, <1>7, <1>8, <1>11 DEF WriteOk, InsertOk, UnderConstruction
  <2>11. DirOk(s, l) /\ \A m \in Layer, r \in Store : DirOk(r, m)
    BY <2>9 DEF Contained
  <2>12. /\ construction'[s][l] = With(c, e, t)
         /\ \A r \in Store, m \in Layer : r # s \/ m # l => construction'[r][m] = construction[r][m]
    BY <2>1, <2>9 DEF Typed
  <2>13. /\ DOMAIN construction'[s][l] = DOMAIN c \cup {e} /\ construction'[s][l][e] = t
         /\ \A x \in DOMAIN c : construction'[s][l][x] = c[x]
    BY <2>10, <2>12 DEF With
  <2>14. /\ DOMAIN handles' = DOMAIN handles \cup {<<s, l, e, t>>} /\ handles'[<<s, l, e, t>>] = Open
         /\ \A x \in DOMAIN handles : x # <<s, l, e, t>> => handles'[x] = handles[x]
    BY <2>1 DEF With
  <2>15. ASSUME NEW r \in Store, NEW m \in Layer, r # s \/ m # l PROVE Untouched(r, m)
    <3>1. ASSUME construction[r][m] # NoDir, NEW x \in DOMAIN construction[r][m]
          PROVE  Key(r, m, x) \in DOMAIN handles' /\ handles'[Key(r, m, x)] = handles[Key(r, m, x)]
      <4>1. Key(r, m, x) \in DOMAIN handles
        BY <2>11, <3>1 DEF DirOk
      <4>2. Key(r, m, x) # <<s, l, e, t>>
        BY <2>15 DEF Key
      <4>. QED BY <2>14, <4>1, <4>2
    <3>. QED BY <2>12, <2>15, <3>1 DEF Untouched
  <2>16. ASSUME NEW x \in DOMAIN c
         PROVE  /\ Key(s, l, x)' = Key(s, l, x) /\ Key(s, l, x) \in DOMAIN handles'
                /\ handles'[Key(s, l, x)] = handles[Key(s, l, x)]
                /\ Finished(s, l, x)' <=> Finished(s, l, x)
    <3>1. Key(s, l, x)' = Key(s, l, x)
      BY <2>13 DEF Key
    <3>2. Key(s, l, x) \in DOMAIN handles
      BY <2>10, <2>11 DEF DirOk
    <3>3. Key(s, l, x) # <<s, l, e, t>>
      BY <2>10 DEF Key
    <3>4. handles'[Key(s, l, x)] = handles[Key(s, l, x)]
      BY <2>14, <3>2, <3>3
    <3>. QED BY <2>13, <2>14, <3>1, <3>2, <3>4 DEF Finished
  <2>17. /\ Key(s, l, e)' = <<s, l, e, t>> /\ ~Finished(s, l, e)'
    BY <2>13, <2>14 DEF Key, Finished
  <2>18. DirOk(s, l)'
    <3>1. DOMAIN construction'[s][l] \subseteq FileType
      BY <2>9, <2>10, <2>11, <2>13 DEF DirOk
    <3>2. ASSUME NEW x \in DOMAIN construction'[s][l]
          PROVE  /\ Key(s, l, x)' \in DOMAIN handles' /\ construction'[s][l][x] # Persistent
                 /\ \/ handles'[Key(s, l, x)'] = Open
                    \/ x \in DOMAIN Original[l] /\ handles'[Key(s, l, x)'] = Original[l][x]
      <4>1. CASE x = e
        BY <2>13, <2>14, <2>17, <4>1, PersistentAssumption
      <4>2. CASE x # e
        <5>1. x \in DOMAIN c
          BY <2>13, <4>2
        <5>. QED BY <2>10, <2>11, <2>13, <2>16, <5>1 DEF DirOk
      <4>. QED BY <4>1, <4>2
    <3>3. s = "origin" => DOMAIN construction'[s][l] \subseteq Types(l)
      BY <2>9, <2>10, <2>11, <2>13 DEF DirOk
    <3>4. ASSUME s = "origin", NEW x \in DOMAIN construction'[s][l], x # "parent", Finished(s, l, x)'
          PROVE  Types(l) \subseteq DOMAIN construction'[s][l]
      <4>1. x \in DOMAIN c /\ Finished(s, l, x)
        BY <2>13, <2>16, <2>17, <3>4
      <4>. QED BY <2>10, <2>11, <2>13, <3>4, <4>1 DEF DirOk
    <3>. QED BY <3>1, <3>2, <3>3, <3>4 DEF DirOk
  <2>19. \A r, m : NotInPack(r, m)' <=> NotInPack(r, m)
    BY <1>9 DEF NotInPack
  <2>20. \A r, m : Due(r, m)' = Due(r, m)
    BY <2>19 DEF Due
  <2>21. WorkOk(k)'
    <3>1. \A v : ItemOk(k, v) => ItemOk(k, v)'
      BY <2>19 DEF ItemOk
    <3>. QED BY <2>6, <2>8, <3>1 DEF WorkOk
  <2>22. HeldOk(k)'
    <3>1. ASSUME NEW x \in DOMAIN k.held
          PROVE  /\ x[1] \in k.ids /\ x[2] \in FILENAMES
                 /\ \/ k.held[x] = Persistent
                    \/ construction'[k.store][x[1]] = NoDir
                    \/ /\ FILENAME_ENUM_MAP[x[2]] \in DOMAIN construction'[k.store][x[1]]
                       /\ k.held[x] = construction'[k.store][x[1]][FILENAME_ENUM_MAP[x[2]]]
      <4>1. CASE x = <<l, w.file>>
        <5>1. x[1] = l /\ x[2] = w.file /\ k.held[x] = t
          BY <2>5, <2>7, <4>1
        <5>. QED BY <1>7, <2>5, <2>9, <2>13, <5>1
      <4>2. CASE x # <<l, w.file>>
        <5>1. x \in DOMAIN j.held /\ k.held[x] = j.held[x]
          BY <2>5, <2>7, <3>1, <4>2
        <5>2. /\ x[1] \in j.ids /\ x[2] \in FILENAMES
              /\ \/ j.held[x] = Persistent
                 \/ construction[s][x[1]] = NoDir
                 \/ /\ FILENAME_ENUM_MAP[x[2]] \in DOMAIN construction[s][x[1]]
                    /\ j.held[x] = construction[s][x[1]][FILENAME_ENUM_MAP[x[2]]]
          BY <1>3, <1>4, <5>1 DEF WriteOk, HeldOk
        <5>3. CASE x[1] = l
          BY <2>5, <2>10, <2>13, <5>1, <5>2, <5>3
        <5>4. CASE x[1] # l
          BY <1>3, <2>5, <2>12, <5>1, <5>2, <5>4
        <5>. QED BY <5>3, <5>4
      <4>. QED BY <4>1, <4>2
    <3>. QED BY <3>1 DEF HeldOk
  <2>23. InsertOk(k)'
    BY <2>5 DEF InsertOk
  <2>24. LeftOk(k)'
    <3>1. ASSUME NEW m \in k.left, NEW x \in DOMAIN Due(k.store, m)'
          PROVE  \/ Has(k.work, "write", m, x)
                 \/ construction'[k.store][m] = NoDir \/ Finished(k.store, m, x)'
      <4>1. m \in j.left /\ m \in Layer /\ x \in DOMAIN Due(s, m)
        BY <1>3, <2>5, <2>20, <3>1
      <4>2. \/ Has(j.work, "write", m, x)
            \/ construction[s][m] = NoDir \/ Finished(s, m, x)
        BY <1>3, <1>4, <4>1 DEF WriteOk, LeftOk
      <4>3. CASE Has(j.work, "write", m, x)
        BY <1>6, <2>8, <4>3 DEF Has
      <4>4. CASE construction[s][m] = NoDir
        BY <2>5, <2>10, <2>12, <4>1, <4>4
      <4>5. CASE Finished(s, m, x) /\ construction[s][m] # NoDir
        <5>1. CASE m = l
          BY <2>5, <2>16, <4>5, <5>1 DEF Finished
        <5>2. CASE m # l
          BY <2>5, <2>15, <4>1, <4>5, <5>2, UntouchedFiles
        <5>. QED BY <5>1, <5>2
      <4>. QED BY <4>2, <4>3, <4>4, <4>5
    <3>2. ~Early(k)'
      BY <2>6 DEF Early
    <3>. QED BY <3>1, <3>2 DEF LeftOk
  <2>25. EmptyOk(k)'
    <3>1. ASSUME NEW m \in k.ids, NotInPack(k.store, m)' PROVE construction'[k.store][m] \in {NoDir, << >>}
      <4>1. m \in j.ids /\ m \in Layer /\ NotInPack(s, m) /\ m # l
        BY <1>3, <2>5, <2>9, <2>19, <3>1
      <4>2. construction[s][m] \in {NoDir, << >>}
        BY <1>3, <1>4, <2>6, <4>1 DEF WriteOk, EmptyOk
      <4>. QED BY <2>5, <2>12, <4>1, <4>2
    <3>. QED BY <3>1 DEF EmptyOk
  <2>26. BuilderOk(k)'
    <3>1. ASSUME s = "origin", NEW m \in k.ids, NEW x \in Types(m)
          PROVE  \/ Has(k.work, "get", m, x)
                 \/ construction'[s][m] = NoDir \/ x \in DOMAIN construction'[s][m]
      <4>1. m \in j.ids /\ m \in Layer
        BY <1>3, <2>5
      <4>2. \/ Has(j.work, "get", m, x)
            \/ construction[s][m] = NoDir \/ x \in DOMAIN construction[s][m]
        BY <1>3, <1>4, <2>6, <3>1, <4>1 DEF WriteOk, BuilderOk
      <4>3. CASE Has(j.work, "get", m, x)
        <5>1. Has(k.work, "get", m, x) \/ (m = l /\ x = e)
          BY <1>7, <1>8, <2>8, <4>3 DEF Has
        <5>. QED BY <2>13, <5>1
      <4>4. CASE m = l /\ ~Has(j.work, "get", m, x)
        BY <2>10, <2>13, <4>2, <4>4
      <4>5. CASE m # l /\ ~Has(j.work, "get", m, x)
        BY <2>12, <4>1, <4>2, <4>5
      <4>. QED BY <4>3, <4>4, <4>5
    <3>2. s = "origin" => GetsFirst(k.work)
      <4>1. j.work \in Seq(Item)
        BY <1>6 DEF WorkOk
      <4>. QED BY <1>3, <1>4, <1>6, <2>5, <4>1, GetsFirstTail DEF WriteOk, BuilderOk
    <3>3. ~Early(k)'
      BY <2>6 DEF Early
    <3>. QED BY <2>5, <3>1, <3>2, <3>3 DEF BuilderOk
  <2>27. WriteOk(k)'
    BY <1>3, <1>4, <1>9, <2>5, <2>21, <2>22, <2>23, <2>24, <2>25, <2>26 DEF WriteOk
  <2>. QED BY <1>1, <1>2, <1>4, <1>9, <2>4, <2>5, <2>9, <2>15, <2>18, <2>27, WriterStepOk
<1>. QED BY <1>10, <1>11

LEMMA OriginalIsNotOpen ==
  ASSUME NEW l \in Layer, NEW e \in DOMAIN Original[l]
  PROVE  Original[l][e] # Open
BY OriginalTypes, ContentAssumption

(* The handle that is written is the one in the map, or of a directory     *)
(* that has gone.                                                          *)
LEMMA WriteKeeps ==
  ASSUME Typed, OnDisk, Contained, Typed', NEW t \in Task, write_file(t)
  PROVE  Contained'
<1>1. PICK j : j = job[t]
  OBVIOUS
<1>2. PICK w : w = Head(j.work)
  OBVIOUS
<1>3. j # Idle /\ j.pc = "work" /\ j.work # << >> /\ w.do = "write"
  BY <1>1, <1>2 DEF write_file, NextWork
<1>4. Writing(t)
  <2>1. ~ReadOk(j)
    <3>1. ASSUME ReadOk(j) PROVE FALSE
      <4>1. j.work \in Seq(Item) /\ \A v \in ToSet(j.work) : v.do = "get"
        BY <3>1 DEF ReadOk
      <4>2. w \in ToSet(j.work)
        BY <1>2, <1>3, <4>1, ToSetTail
      <4>. QED BY <1>3, <4>1, <4>2
    <3>. QED BY <3>1
  <2>. QED BY <1>1, <1>3, <2>1, WorkerIs
<1>5. /\ WriterOk(j) /\ WriteOk(j) /\ WriterFields \subseteq DOMAIN j /\ DOMAIN job = Task
      /\ j.op = "write" /\ j.left \subseteq j.ids /\ j.ids \subseteq Layer /\ WorkOk(j)
  BY <1>1, <1>4, WriterOf DEF Writing, WriterOk, WriteOk
<1>6. PICK s \in Store : s = j.store
  BY <1>1, <1>4, WriterOf
<1>7. PICK e : e = FILENAME_ENUM_MAP[w.file]
  OBVIOUS
<1>8. PICK l : l = w.layer
  OBVIOUS
<1>9. UNCHANGED <<construction, archive, pack, absent>>
  BY DEF write_file
<1>10. PICK h : h = j.held[<<l, w.file>>]
  OBVIOUS
<1>11. PICK key : key = <<s, l, e, h>>
  OBVIOUS
<1>12. \/ h # Persistent /\ handles[key] = Open /\ handles' = [handles EXCEPT ![key] = w.bytes]
            /\ job' = [job EXCEPT ![t].work = Tail(@)]
       \/ End(t) /\ UNCHANGED handles
  BY <1>1, <1>2, <1>6, <1>7, <1>8, <1>10, <1>11 DEF write_file
<1>13. CASE End(t) /\ UNCHANGED handles
  BY <1>9, <1>13, EndStep DEF Still
<1>14. CASE h # Persistent /\ handles[key] = Open /\ handles' = [handles EXCEPT ![key] = w.bytes]
            /\ job' = [job EXCEPT ![t].work = Tail(@)]
  <2>. DEFINE c == construction[s][l]
  <2>1. PICK k : k = [j EXCEPT !.work = Tail(j.work)]
    OBVIOUS
  <2>2. job' = [job EXCEPT ![t] = k]
    BY <1>1, <1>5, <1>14, <2>1 DEF WriterFields
  <2>3. /\ k.pc = "work" /\ k.work = Tail(j.work) /\ k.held = j.held
        /\ k.op = "write" /\ k.ids = j.ids /\ k.store = s /\ k.left = j.left
    BY <1>3, <1>5, <1>6, <2>1 DEF WriterFields
  <2>4. ~Early(j) /\ ~Early(k)
    BY <1>3, <2>3 DEF Early
  <2>5. /\ WorkOk(k) /\ w \in Item /\ ItemOk(j, w) /\ ToSet(j.work) = {w} \cup ToSet(k.work)
        /\ <<l, w.file>> \in DOMAIN j.held
    <3>1. k.store = j.store /\ k.ids = j.ids /\ k.work = Tail(j.work) /\ DOMAIN j.held \subseteq DOMAIN k.held
      BY <1>6, <2>3
    <3>2. Head(j.work).do # "get" /\ Head(j.work).do = "write"
      BY <1>2, <1>3
    <3>3. /\ WorkOk(k) /\ Head(j.work) \in Item /\ ItemOk(j, Head(j.work))
          /\ ToSet(j.work) = {Head(j.work)} \cup ToSet(k.work)
          /\ <<Head(j.work).layer, Head(j.work).file>> \in DOMAIN j.held
      BY <1>3, <1>5, <2>4, <3>1, <3>2, RestOfWork
    <3>. QED BY <1>2, <1>8, <3>3
  <2>6. /\ l \in j.ids /\ l \in Layer /\ w.file \in FILENAMES /\ e \in FileType
        /\ e \in DOMAIN Original[l] /\ w.bytes = Original[l][e] /\ w.bytes # Open
    BY <1>3, <1>5, <1>7, <1>8, <2>5, ItemIs, OriginalIsNotOpen DEF ItemOk
  <2>7. c = NoDir \/ (e \in DOMAIN c /\ h = c[e])
    <3>1. PICK x \in DOMAIN j.held : x = <<l, w.file>>
      BY <2>5
    <3>2. x[1] = l /\ x[2] = w.file
      BY <3>1
    <3>3. \/ j.held[x] = Persistent
          \/ construction[j.store][x[1]] = NoDir
          \/ /\ FILENAME_ENUM_MAP[x[2]] \in DOMAIN construction[j.store][x[1]]
             /\ j.held[x] = construction[j.store][x[1]][FILENAME_ENUM_MAP[x[2]]]
      BY <1>5 DEF WriteOk, HeldOk
    <3>. QED BY <1>6, <1>7, <1>10, <1>14, <3>1, <3>2, <3>3
  <2>8. DirOk(s, l) /\ \A m \in Layer, r \in Store : DirOk(r, m)
    BY <2>6 DEF Contained
  <2>9. /\ DOMAIN handles' = DOMAIN handles
        /\ \A x : x # key => handles'[x] = handles[x]
        /\ key \in DOMAIN handles => handles'[key] = w.bytes
    BY <1>14
  <2>10. ASSUME NEW r \in Store, NEW m \in Layer, r # s \/ m # l PROVE Untouched(r, m)
    <3>1. ASSUME NEW x PROVE Key(r, m, x) # key
      BY <1>11, <2>10 DEF Key
    <3>. QED BY <1>9, <2>9, <3>1 DEF Untouched
  <2>11. ASSUME c # NoDir, NEW x \in DOMAIN c
         PROVE  /\ Key(s, l, x)' = Key(s, l, x) /\ Key(s, l, x) \in DOMAIN handles'
                /\ x # e => handles'[Key(s, l, x)] = handles[Key(s, l, x)]
                /\ x = e => handles'[Key(s, l, x)] = Original[l][e]
                /\ Finished(s, l, x)' <=> x = e \/ Finished(s, l, x)
    <3>1. Key(s, l, x)' = Key(s, l, x)
      BY <1>9 DEF Key
    <3>2. Key(s, l, x) \in DOMAIN handles
      BY <2>8, <2>11 DEF DirOk
    <3>3. CASE x = e
      <4>1. Key(s, l, x) = key
        BY <1>11, <2>7, <2>11, <3>3 DEF Key
      <4>2. handles'[Key(s, l, x)] = Original[l][e]
        BY <2>6, <2>9, <3>2, <4>1
      <4>. QED BY <1>9, <2>6, <2>9, <2>11, <3>1, <3>2, <3>3, <4>2 DEF Finished
    <3>4. CASE x # e
      <4>1. Key(s, l, x) # key
        BY <1>11, <3>4 DEF Key
      <4>2. handles'[Key(s, l, x)] = handles[Key(s, l, x)]
        BY <2>9, <4>1
      <4>. QED BY <1>9, <2>9, <2>11, <3>1, <3>2, <3>4, <4>2 DEF Finished
    <3>. QED BY <3>3, <3>4
  <2>12. \A r, m, x : Has(j.work, "get", m, x) <=> Has(k.work, "get", m, x)
    BY <1>3, <2>5 DEF Has
  <2>13. j.work \in Seq(Item)
    BY <1>5 DEF WorkOk
  <2>14. DirOk(s, l)'
    <3>. SUFFICES ASSUME c # NoDir PROVE DirOk(s, l)'
      BY <1>9 DEF DirOk
    <3>1. DOMAIN c \subseteq FileType /\ (s = "origin" => DOMAIN c \subseteq Types(l))
      BY <2>8 DEF DirOk
    <3>2. ASSUME NEW x \in DOMAIN c
          PROVE  /\ Key(s, l, x)' \in DOMAIN handles' /\ c[x] # Persistent
                 /\ \/ handles'[Key(s, l, x)'] = Open
                    \/ x \in DOMAIN Original[l] /\ handles'[Key(s, l, x)'] = Original[l][x]
      BY <2>6, <2>8, <2>11 DEF DirOk
    <3>3. ASSUME s = "origin", NEW x \in DOMAIN c, x # "parent", Finished(s, l, x)'
          PROVE  Types(l) \subseteq DOMAIN c
      <4>1. CASE x = e
        <5>1. \A v \in ToSet(k.work) : v.do # "get"
          BY <1>2, <1>3, <1>5, <1>6, <1>7, <2>3, <2>13, <3>3, <4>1, GetsFirstTail DEF WriteOk, BuilderOk
        <5>2. \A y : ~Has(j.work, "get", l, y)
          BY <2>12, <5>1 DEF Has
        <5>. QED BY <1>5, <1>6, <2>6, <3>3, <5>2 DEF WriteOk, BuilderOk
      <4>2. CASE x # e
        <5>1. Finished(s, l, x)
          BY <2>11, <3>3, <4>2
        <5>. QED BY <2>8, <3>3, <5>1 DEF DirOk
      <4>. QED BY <4>1, <4>2
    <3>. QED BY <1>9, <3>1, <3>2, <3>3 DEF DirOk
  <2>15. \A r, m : NotInPack(r, m)' <=> NotInPack(r, m)
    BY <1>9 DEF NotInPack
  <2>16. \A r, m : Due(r, m)' = Due(r, m)
    BY <2>15 DEF Due
  <2>17. WorkOk(k)'
    <3>1. \A v : ItemOk(k, v) => ItemOk(k, v)'
      BY <2>15 DEF ItemOk
    <3>. QED BY <2>4, <2>5, <3>1 DEF WorkOk
  <2>18. HeldOk(k)'
    BY <1>5, <1>6, <1>9, <2>3 DEF WriteOk, HeldOk
  <2>19. InsertOk(k)'
    BY <2>3 DEF InsertOk
  <2>20. LeftOk(k)'
    <3>1. ASSUME NEW m \in k.left, NEW x \in DOMAIN Due(k.store, m)'
          PROVE  \/ Has(k.work, "write", m, x)
                 \/ construction'[k.store][m] = NoDir \/ Finished(k.store, m, x)'
      <4>1. m \in j.left /\ m \in Layer /\ x \in DOMAIN Due(s, m)
        BY <1>5, <2>3, <2>16, <3>1
      <4>2. \/ Has(j.work, "write", m, x)
            \/ construction[s][m] = NoDir \/ Finished(s, m, x)
        BY <1>5, <1>6, <4>1 DEF WriteOk, LeftOk
      <4>3. CASE construction[s][m] = NoDir
        BY <1>9, <2>3, <4>3
      <4>4. CASE construction[s][m] # NoDir /\ Has(j.work, "write", m, x)
        <5>1. Has(k.work, "write", m, x) \/ (m = l /\ x = e)
          BY <1>7, <1>8, <2>5, <4>4 DEF Has
        <5>2. CASE m = l /\ x = e
          BY <2>3, <2>7, <2>11, <4>4, <5>2
        <5>. QED BY <5>1, <5>2
      <4>5. CASE construction[s][m] # NoDir /\ Finished(s, m, x)
        <5>1. CASE m = l
          BY <2>3, <2>11, <4>5, <5>1 DEF Finished
        <5>2. CASE m # l
          BY <2>3, <2>10, <4>1, <4>5, <5>2, UntouchedFiles
        <5>. QED BY <5>1, <5>2
      <4>. QED BY <4>2, <4>3, <4>4, <4>5
    <3>2. ~Early(k)'
      BY <2>4 DEF Early
    <3>. QED BY <3>1, <3>2 DEF LeftOk
  <2>21. EmptyOk(k)'
    BY <1>5, <1>6, <1>9, <2>3, <2>4, <2>15 DEF WriteOk, EmptyOk
  <2>22. BuilderOk(k)'
    <3>1. s = "origin" => GetsFirst(k.work)
      BY <1>3, <1>5, <1>6, <2>3, <2>13, GetsFirstTail DEF WriteOk, BuilderOk
    <3>2. ~Early(k)'
      BY <2>4 DEF Early
    <3>. QED BY <1>5, <1>6, <1>9, <2>3, <2>12, <3>1, <3>2 DEF WriteOk, BuilderOk
  <2>23. WriteOk(k)'
    BY <1>5, <1>6, <1>9, <2>3, <2>17, <2>18, <2>19, <2>20, <2>21, <2>22 DEF WriteOk
  <2>. QED BY <1>1, <1>4, <1>6, <1>9, <2>2, <2>3, <2>6, <2>10, <2>14, <2>23, WriterStepOk
<1>. QED BY <1>12, <1>13, <1>14

(* When the work is done the files that are finished are the files that    *)
(* are due.                                                                *)
LEMMA FinalizedIsDue ==
  ASSUME NEW j, NEW s, NEW l \in Layer, WriteOk(j), j.store = s, j.work = << >>, ~Early(j), l \in j.left, l \in j.ids,
         DirOk(s, l), construction[s][l] # NoDir
  PROVE  FinalizedContents(s, l) = Due(s, l)
<1>. DEFINE c == construction[s][l]
            F == FinalizedContents(s, l)
<1>1. \A m, e : ~Has(j.work, "write", m, e)
  BY DEF Has, ToSet
<1>2. \A e \in DOMAIN Due(s, l) : Finished(s, l, e)
  BY <1>1 DEF WriteOk, LeftOk
<1>3. F = [e \in FinishedFiles(s, l) |-> handles[Key(s, l, e)]]
  BY DEF FinalizedContents, Key
<1>4. \A e : e \in FinishedFiles(s, l) <=> Finished(s, l, e)
  BY DEF FinishedFiles, Finished, Key
<1>5. CASE NotInPack(s, l)
  <2>1. c = << >>
    BY <1>5 DEF WriteOk, EmptyOk
  <2>2. FinishedFiles(s, l) = {}
    BY <2>1 DEF FinishedFiles
  <2>3. F = << >>
    BY <1>3, <2>2
  <2>. QED BY <1>5, <2>3 DEF Due
<1>6. CASE ~NotInPack(s, l)
  <2>1. Due(s, l) = Original[l]
    BY <1>6 DEF Due
  <2>2. \A e \in FinishedFiles(s, l) : e \in DOMAIN Original[l] /\ handles[Key(s, l, e)] = Original[l][e]
    BY <1>4 DEF DirOk, Finished
  <2>3. FinishedFiles(s, l) = DOMAIN Original[l]
    BY <1>2, <1>4, <2>1, <2>2
  <2>4. Original[l] = [e \in DOMAIN Original[l] |-> Original[l][e]]
    BY DEF Original
  <2>. QED BY <1>3, <2>1, <2>2, <2>3, <2>4
<1>. QED BY <1>5, <1>6

(* Handles of directories that are still in the map are kept.              *)
LEMMA HandlesAreKept ==
  ASSUME NEW s, NEW l, NEW t, NEW H, H = WithoutHandles(s, l, t), NEW k \in DOMAIN handles, k[1] # s \/ k[2] # l
  PROVE  k \in DOMAIN H /\ H[k] = handles[k]
<1>1. H = handles \/ H = [x \in {y \in DOMAIN handles : <<y[1], y[2]>> # <<s, l>>} |-> handles[x]]
  BY DEF WithoutHandles
<1>. QED BY <1>1

(* Removing the handles of one layer does not touch the others.            *)
LEMMA UntouchedBut ==
  ASSUME NEW s, NEW l, NEW t, handles' = WithoutHandles(s, l, t),
         NEW r, NEW m, r # s \/ m # l, construction'[r][m] = construction[r][m], DirOk(r, m)
  PROVE  Untouched(r, m)
<1>1. PICK H : H = WithoutHandles(s, l, t)
  OBVIOUS
<1>2. ASSUME construction[r][m] # NoDir, NEW x \in DOMAIN construction[r][m]
      PROVE  Key(r, m, x) \in DOMAIN H /\ H[Key(r, m, x)] = handles[Key(r, m, x)]
  <2>1. Key(r, m, x) \in DOMAIN handles
    BY <1>2 DEF DirOk
  <2>2. PICK k : k = Key(r, m, x)
    OBVIOUS
  <2>3. k[1] # s \/ k[2] # l
    BY <2>2 DEF Key
  <2>. QED BY <1>1, <2>1, <2>2, <2>3, HandlesAreKept
<1>. QED BY <1>1, <1>2 DEF Untouched

(* The directory is taken out of the map, and its image is what is due.    *)
LEMMA FinalizeKeeps ==
  ASSUME Typed, OnDisk, Contained, Typed', NEW t \in Task, finalize(t)
  PROVE  Contained'
<1>1. PICK j : j = job[t]
  OBVIOUS
<1>2. j # Idle /\ j.op = "write" /\ j.pc = "work" /\ j.work = << >> /\ Writing(t)
  BY <1>1 DEF finalize, Writing
<1>3. /\ WriterOk(j) /\ WriteOk(j) /\ WriterFields \subseteq DOMAIN j /\ DOMAIN job = Task
      /\ j.left \subseteq j.ids /\ j.ids \subseteq Layer /\ WorkOk(j)
  BY <1>1, <1>2, WriterOf DEF WriterOk, WriteOk
<1>4. PICK s \in Store : s = j.store
  BY <1>1, <1>2, WriterOf
<1>5. UNCHANGED <<archive, pack, absent>>
  BY DEF finalize
<1>6. PICK l \in j.left :
           IF UnderConstruction(s, l)
           THEN /\ job' = [job EXCEPT ![t].pc = "open", ![t].at = l,
                                      ![t].image = ArchiveBytes(FinalizedContents(s, l)),
                                      ![t].held = << >>]
                /\ construction' = [construction EXCEPT ![s][l] = NoDir]
                /\ handles' = WithoutHandles(s, l, t)
           ELSE End(t) /\ UNCHANGED <<construction, handles>>
  BY <1>1, <1>4 DEF finalize
<1>7. l \in j.ids /\ l \in Layer
  BY <1>3
<1>8. CASE ~UnderConstruction(s, l)
  BY <1>5, <1>6, <1>8, EndStep DEF Still
<1>9. CASE UnderConstruction(s, l)
  <2>1. PICK image : image = ArchiveBytes(FinalizedContents(s, l))
    OBVIOUS
  <2>2. PICK k : k = [j EXCEPT !.pc = "open", !.at = l, !.image = image, !.held = << >>]
    OBVIOUS
  <2>3. job' = [job EXCEPT ![t] = k]
    BY <1>1, <1>6, <1>9, <2>1, <2>2
  <2>4. /\ k.pc = "open" /\ k.at = l /\ k.image = image /\ DOMAIN k.held = {} /\ k.work = j.work
        /\ k.op = "write" /\ k.ids = j.ids /\ k.store = s /\ k.left = j.left
    BY <1>2, <1>3, <1>4, <2>2 DEF WriterFields
  <2>5. ~Early(j) /\ ~Early(k)
    BY <1>2, <2>4 DEF Early
  <2>6. /\ construction'[s][l] = NoDir
        /\ \A r \in Store, m \in Layer : r # s \/ m # l => construction'[r][m] = construction[r][m]
    BY <1>6, <1>7, <1>9 DEF Typed
  <2>7. \A r \in Store, m \in Layer : DirOk(r, m)
    BY DEF Contained
  <2>8. \A r \in Store, m \in Layer : r # s \/ m # l => Untouched(r, m)
    BY <1>6, <1>9, <2>6, <2>7, UntouchedBut
  <2>9. DirOk(s, l)'
    BY <2>6 DEF DirOk
  <2>10. \A r, m : NotInPack(r, m)' <=> NotInPack(r, m)
    BY <1>5 DEF NotInPack
  <2>11. \A r, m : Due(r, m)' = Due(r, m)
    BY <2>10 DEF Due
  <2>12. image = ArchiveBytes(Due(s, l))
    <3>1. construction[s][l] # NoDir
      BY <1>9 DEF UnderConstruction
    <3>2. FinalizedContents(s, l) = Due(s, l)
      BY <1>2, <1>3, <1>4, <1>7, <2>5, <2>7, <3>1, FinalizedIsDue
    <3>. QED BY <2>1, <3>2
  <2>13. WorkOk(k)'
    <3>1. << >> \in Seq(Item) /\ ToSet(<< >>) = {} /\ Len(<< >>) = 0
      BY DEF ToSet
    <3>2. k.work = << >>
      BY <1>2, <2>4
    <3>3. Ready(k.work, DOMAIN k.held)
      BY <3>1, <3>2 DEF Ready
    <3>. QED BY <2>4, <3>1, <3>2, <3>3 DEF WorkOk
  <2>14. HeldOk(k)' /\ InsertOk(k)'
    BY <2>4 DEF HeldOk, InsertOk
  <2>15. LeftOk(k)'
    <3>1. ASSUME NEW m \in k.left, NEW x \in DOMAIN Due(k.store, m)'
          PROVE  \/ Has(k.work, "write", m, x)
                 \/ construction'[k.store][m] = NoDir \/ Finished(k.store, m, x)'
      <4>1. m \in j.left /\ m \in Layer /\ x \in DOMAIN Due(s, m)
        BY <1>3, <2>4, <2>11, <3>1
      <4>2. \/ Has(j.work, "write", m, x)
            \/ construction[s][m] = NoDir \/ Finished(s, m, x)
        BY <1>3, <1>4, <4>1 DEF WriteOk, LeftOk
      <4>3. CASE m = l
        BY <2>4, <2>6, <4>3
      <4>4. CASE m # l /\ construction[s][m] # NoDir /\ Finished(s, m, x)
        BY <2>4, <2>8, <4>1, <4>4, UntouchedFiles
      <4>5. CASE m # l /\ (construction[s][m] = NoDir \/ Has(j.work, "write", m, x))
        BY <2>4, <2>6, <4>1, <4>5
      <4>. QED BY <4>2, <4>3, <4>4, <4>5
    <3>2. ~Early(k)'
      BY <2>5 DEF Early
    <3>. QED BY <3>1, <3>2 DEF LeftOk
  <2>16. EmptyOk(k)'
    <3>1. ASSUME NEW m \in k.ids, NotInPack(k.store, m)' PROVE construction'[k.store][m] \in {NoDir, << >>}
      <4>1. m \in j.ids /\ m \in Layer /\ NotInPack(s, m)
        BY <1>3, <2>4, <2>10, <3>1
      <4>2. construction[s][m] \in {NoDir, << >>}
        BY <1>3, <1>4, <2>5, <4>1 DEF WriteOk, EmptyOk
      <4>. QED BY <2>4, <2>6, <4>1, <4>2
    <3>. QED BY <3>1 DEF EmptyOk
  <2>17. BuilderOk(k)'
    <3>1. ASSUME s = "origin", NEW m \in k.ids, NEW x \in Types(m)
          PROVE  \/ Has(k.work, "get", m, x)
                 \/ construction'[s][m] = NoDir \/ x \in DOMAIN construction'[s][m]
      <4>1. m \in j.ids /\ m \in Layer
        BY <1>3, <2>4
      <4>2. \/ Has(j.work, "get", m, x)
            \/ construction[s][m] = NoDir \/ x \in DOMAIN construction[s][m]
        BY <1>3, <1>4, <2>5, <3>1, <4>1 DEF WriteOk, BuilderOk
      <4>3. CASE m = l
        BY <2>6, <4>3
      <4>4. CASE m # l
        BY <2>4, <2>6, <4>1, <4>2, <4>4
      <4>. QED BY <4>3, <4>4
    <3>2. s = "origin" => GetsFirst(k.work)
      BY <1>3, <1>4, <2>4 DEF WriteOk, BuilderOk
    <3>3. ~Early(k)'
      BY <2>5 DEF Early
    <3>. QED BY <2>4, <3>1, <3>2, <3>3 DEF BuilderOk
  <2>18. WriteOk(k)'
    <3>1. k.image = ArchiveBytes(Due(k.store, k.at)')
      BY <2>4, <2>11, <2>12
    <3>2. k.store = "target" => pack' # None
      BY <1>3, <1>4, <1>5, <2>4 DEF WriteOk
    <3>. QED BY <2>13, <2>14, <2>15, <2>16, <2>17, <3>1, <3>2 DEF WriteOk
  <2>19. l \in job[t].ids /\ s = job[t].store /\ k.op = "write" /\ k.pc # "chunk" /\ k.store = job[t].store
    BY <1>1, <1>4, <1>7, <2>4
  <2>20. pack' = pack /\ archive' = archive /\ absent' = absent
    BY <1>5
  <2>. QED BY <1>2, <2>3, <2>8, <2>9, <2>18, <2>19, <2>20, WriterStepOk
<1>. QED BY <1>8, <1>9

LEMMA ReturnKeeps ==
  ASSUME Typed, OnDisk, Contained, Typed', NEW t \in Task, Return(t)
  PROVE  Contained'
<1>1. UNCHANGED <<construction, archive, pack, absent>> /\ End(t) /\ job[t] # Idle
  BY DEF Return
<1>2. Moves(t) /\ job'[t] = Idle
  BY <1>1 DEF Moves, Typed, End
<1>3. ASSUME NEW r \in Store, NEW m \in Layer PROVE Untouched(r, m)
  <2>1. PICK j : j = job[t]
    OBVIOUS
  <2>2. DirOk(r, m)
    BY DEF Contained
  <2>3. CASE handles' = handles
    BY <1>1, <2>3 DEF Untouched
  <2>4. CASE handles' # handles
    <3>1. handles' = WithoutHandles(j.store, j.at, t) /\ construction[j.store][j.at] = NoDir
      BY <2>1, <2>4 DEF Return, UnderConstruction
    <3>2. CASE r = j.store /\ m = j.at
      BY <1>1, <3>1, <3>2 DEF Untouched
    <3>3. CASE r # j.store \/ m # j.at
      BY <1>1, <2>2, <3>1, <3>3, UntouchedBut
    <3>. QED BY <3>2, <3>3
  <2>. QED BY <2>3, <2>4
<1>4. DiskGrows
  BY <1>1 DEF DiskGrows
<1>5. Local(t) /\ StoreKept(t) /\ CallsOk(t)'
  BY <1>1, <1>2, <1>3, <1>4 DEF Local, StoreKept, CallsOk
<1>6. \A s \in Store, l \in Layer : ArchiveOk(s, l)' /\ DirOk(s, l)'
  BY <1>1, <1>3, ArchiveKept, UntouchedDir DEF Contained
<1>7. /\ \A l \in absent' : l \in Layer /\ archive'["target"][l] # NoFile
      /\ pack' # None => PackOk(pack')
  BY <1>1 DEF Contained
<1>. QED BY <1>5, <1>6, <1>7, AllOk

LEMMA ExportDoneKeeps ==
  ASSUME Typed, OnDisk, Contained, Typed', NEW t \in Task, ExportDone(t)
  PROVE  Contained'
<1>1. /\ UNCHANGED <<construction, handles, archive, absent>> /\ End(t) /\ pack' = job[t].tar
      /\ job[t] # Idle /\ job[t].pc = "tar"
  BY DEF ExportDone
<1>2. ExportOk(job[t])
  BY <1>1, ExporterOf
<1>3. Moves(t) /\ job'[t] = Idle
  BY <1>1 DEF Moves, Typed, End
<1>4. \A s, l : Untouched(s, l)
  BY <1>1 DEF Untouched
<1>5. DiskGrows
  BY <1>1 DEF DiskGrows
<1>6. Local(t) /\ StoreKept(t) /\ CallsOk(t)'
  BY <1>1, <1>2, <1>3, <1>4, <1>5 DEF Local, StoreKept, CallsOk, ExportOk
<1>7. \A s \in Store, l \in Layer : ArchiveOk(s, l)' /\ DirOk(s, l)'
  BY <1>1, <1>4, ArchiveKept, UntouchedDir DEF Contained
<1>8. \A l \in absent' : l \in Layer /\ archive'["target"][l] # NoFile
  BY <1>1 DEF Contained
<1>9. pack' # None => PackOk(pack')
  BY <1>1, <1>2 DEF ExportOk
<1>. QED BY <1>6, <1>7, <1>8, <1>9, AllOk

LEMMA CrashKeeps == Contained /\ Crash => Contained'
<1>. SUFFICES ASSUME Contained, Crash PROVE Contained'
  OBVIOUS
<1>1. /\ UNCHANGED <<archive, pack, absent>> /\ job' = [t \in Task |-> Idle]
      /\ construction' = [s \in Store |-> [l \in Layer |-> NoDir]]
  BY DEF Crash
<1>2. OneStore' /\ (\A t \in Task : job[t] # Idle => CallOk(job[t]))'
  BY <1>1 DEF OneStore
<1>3. \A s \in Store, l \in Layer : ArchiveOk(s, l)' /\ DirOk(s, l)'
  <2>1. ASSUME NEW s \in Store, NEW l \in Layer PROVE ArchiveOk(s, l)' /\ DirOk(s, l)'
    <3>1. ArchiveOk(s, l)'
      BY <1>1, ArchiveKept DEF Contained
    <3>2. construction'[s][l] = NoDir
      BY <1>1
    <3>. QED BY <3>1, <3>2 DEF DirOk
  <2>. QED BY <2>1
<1>4. (\A l \in absent : l \in Layer /\ archive["target"][l] # NoFile)'
  BY <1>1 DEF Contained
<1>5. (pack # None => PackOk(pack))'
  <2>1. PackOk(pack)' <=> PackOk(pack')
    BY DEF PackOk
  <2>. QED BY <1>1, <2>1 DEF Contained
<1>. QED BY <1>2, <1>3, <1>4, <1>5 DEF Contained

LEMMA ContainedInit == Init => Contained
<1>. SUFFICES ASSUME Init PROVE Contained
  OBVIOUS
<1>1. /\ construction = [s \in Store |-> [l \in Layer |-> NoDir]]
      /\ archive = [s \in Store |-> [l \in Layer |-> NoFile]]
      /\ pack = None /\ job = [t \in Task |-> Idle] /\ absent = {}
  BY DEF Init
<1>2. \A s \in Store, l \in Layer : construction[s][l] = NoDir /\ archive[s][l] = NoFile
  BY <1>1
<1>3. \A s \in Store, l \in Layer : ArchiveOk(s, l) /\ DirOk(s, l)
  BY <1>2 DEF ArchiveOk, DirOk
<1>. QED BY <1>1, <1>3 DEF Contained, OneStore

(* An archive is not NoFile.                                               *)
LEMMA ArchiveTyped ==
  ASSUME NEW contents \in Contents(Byte), NEW n \in Int
  PROVE  WithWritten(ArchiveBytes(contents), n) # NoFile
<1>. DEFINE P == from_present(DOMAIN contents)
            layout == Layout(contents)[19]
<1>1. WithWritten(ArchiveBytes(contents), n) =
        [presence |-> P, offsets |-> layout.offsets, data |-> layout.data, written |-> n]
  BY EnumLen DEF WithWritten, ArchiveBytes
<1>2. DOMAIN contents \subseteq FileType
  BY DEF Contents
<1>3. P \in SUBSET Nat
  BY <1>2, OrdinalType DEF from_present
<1>4. LaidOut(Byte, contents, P, layout, 19)
  BY AllLaidOut
<1>. HIDE DEF P, layout
<1>5. layout.offsets \in Seq(Nat) /\ layout.data \in Seq(Byte)
  BY <1>4 DEF LaidOut, Layouts
<1>6. WithWritten(ArchiveBytes(contents), n)
        \in [presence : SUBSET Nat, offsets : Seq(Nat), data : Seq(Byte), written : Int]
  BY <1>1, <1>3, <1>5
<1>. QED BY <1>6, NoFileAssumption

(* The archive of a writer's layer is written.                             *)
LEMMA ArchiveStep ==
  ASSUME Typed, OnDisk, Contained, Typed', NEW t \in Task, Writing(t),
         NEW k, Moves(t), job'[t] = k, JobOk(k), k.op = "write", k.store = job[t].store, WriteOk(k),
         UNCHANGED <<construction, handles, pack>>,
         NEW s \in Store, NEW l \in Layer, archive'[s][l] # NoFile, k.store = s, k.at = l,
         \A r \in Store, m \in Layer : r # s \/ m # l => archive'[r][m] = archive[r][m],
         absent \subseteq absent', \A m \in absent' : m \in absent \/ (s = "target" /\ m = l),
         ArchiveOk(s, l)'
  PROVE  Contained'
<1>2. DiskGrows
  BY DEF DiskGrows
<1>3. \A r, m : Untouched(r, m)
  BY DEF Untouched
<1>4. Local(t)
  BY <1>2, <1>3 DEF Local
<1>5. StoreKept(t)
  BY DEF StoreKept, Writing
<1>6. CallsOk(t)'
  <2>1. JobOk(k) /\ k.store \in Store
    BY DEF JobOk
  <2>2. WriterOk(k)
    BY <2>1 DEF JobOk
  <2>3. k.left \subseteq k.ids /\ (k.pc \in {"open", "chunk"} => k.at \in k.ids)
    BY <2>2 DEF WriterOk
  <2>4. WriteOk(k)'
    BY <1>3, <2>1, <2>3, UntouchedWriter
  <2>5. StoringOk(k)'
    BY DEF StoringOk
  <2>. QED BY <2>4, <2>5 DEF CallsOk, CallOk
<1>7. ASSUME NEW r \in Store, NEW m \in Layer PROVE ArchiveOk(r, m)' /\ DirOk(r, m)'
  <2>1. ArchiveOk(r, m) /\ DirOk(r, m)
    BY DEF Contained
  <2>2. DirOk(r, m)'
    BY <1>3, <2>1, UntouchedDir
  <2>3. CASE r = s /\ m = l
    BY <2>2, <2>3
  <2>4. CASE r # s \/ m # l
    <3>1. archive'[r][m] = archive[r][m]
      BY <2>4
    <3>2. Absent(r, m)' <=> Absent(r, m)
      BY <2>4 DEF Absent
    <3>3. Final(r, m)' = Final(r, m)
      BY <3>2 DEF Final
    <3>. QED BY <2>1, <2>2, <3>1, <3>3 DEF ArchiveOk
  <2>. QED BY <2>3, <2>4
<1>8. pack' # None => PackOk(pack')
  BY DEF Contained
<1>9. ASSUME NEW m \in absent' PROVE m \in Layer /\ archive'["target"][m] # NoFile
  <2>1. CASE m \in absent
    <3>1. m \in Layer /\ archive["target"][m] # NoFile
      BY <2>1 DEF Contained
    <3>. QED BY <3>1 DEF Store
  <2>2. CASE m \notin absent
    BY <1>9, <2>2
  <2>. QED BY <2>1, <2>2
<1>. QED BY <1>4, <1>5, <1>6, <1>7, <1>8, <1>9, AllOk

(* A layer that is not in the pack is marked when its archive is made.     *)
LEMMA OpenKeeps ==
  ASSUME Typed, OnDisk, Contained, Typed', NEW t \in Task, StoreOpen(t)
  PROVE  Contained'
<1>1. PICK j : j = job[t]
  OBVIOUS
<1>2. j # Idle /\ j.pc = "open" /\ Writing(t)
  BY <1>1, WriterIs DEF StoreOpen, Writing
<1>3. /\ WriterOk(j) /\ WriteOk(j) /\ WriterFields \subseteq DOMAIN j /\ DOMAIN job = Task
      /\ j.op = "write" /\ j.left \subseteq j.ids /\ j.ids \subseteq Layer /\ j.at \in j.left
  BY <1>1, <1>2, WriterOf DEF Writing, WriterOk
<1>4. PICK s \in Store : s = j.store
  BY <1>1, <1>2, WriterOf
<1>5. PICK l \in Layer : l = j.at
  BY <1>3
<1>6. archive[s][l] = NoFile
  BY <1>1, <1>2, <1>4, <1>5 DEF OnDisk, WriterPhases, WriterPhase
<1>7. l \notin absent \/ s # "target"
  BY <1>6 DEF Contained
<1>8. /\ archive' = [archive EXCEPT ![s][l] = WithWritten(j.image, -1)]
      /\ job' = [job EXCEPT ![t].pc = "chunk", ![t].off = -1]
      /\ absent' = IF NotInPack(s, l) THEN absent \cup {l} ELSE absent
      /\ UNCHANGED <<construction, handles, pack>>
  BY <1>1, <1>4, <1>5, <1>6 DEF StoreOpen, Opened, NotInPack
<1>9. j.image = ArchiveBytes(Due(s, l))
  BY <1>2, <1>3, <1>4, <1>5 DEF WriteOk
<1>10. PICK a : a = WithWritten(ArchiveBytes(Due(s, l)), -1)
  OBVIOUS
<1>11. a # NoFile /\ a.written = -1
  <2>1. a # NoFile
    BY <1>10, FinalContents, ArchiveTyped
  <2>2. a.written = -1
    BY <1>10 DEF WithWritten
  <2>. QED BY <2>1, <2>2
<1>12. /\ archive'[s][l] = a
       /\ \A r \in Store, m \in Layer : r # s \/ m # l => archive'[r][m] = archive[r][m]
  BY <1>8, <1>9, <1>10 DEF Typed
<1>13. Final(s, l)' = Due(s, l)
  <2>1. Absent(s, l)' <=> NotInPack(s, l)
    BY <1>7, <1>8 DEF Absent, NotInPack
  <2>. QED BY <2>1 DEF Final, Due
<1>14. ArchiveOk(s, l)'
  BY <1>10, <1>11, <1>12, <1>13 DEF ArchiveOk
<1>15. PICK k : k = [j EXCEPT !.pc = "chunk", !.off = -1]
  OBVIOUS
<1>16. Moves(t) /\ job'[t] = k
  BY <1>1, <1>3, <1>8, <1>15 DEF Moves
<1>17. /\ k.pc = "chunk" /\ k.op = "write" /\ k.store = j.store /\ k.at = j.at /\ k.image = j.image
       /\ k.ids = j.ids /\ k.left = j.left /\ k.work = j.work /\ k.held = j.held
  BY <1>3, <1>15 DEF WriterFields
<1>18. WriteOk(k)
  <2>1. ~Early(j) /\ ~Early(k)
    BY <1>2, <1>17 DEF Early
  <2>2. WorkOk(k) /\ HeldOk(k)
    BY <1>3, <1>17, <2>1 DEF WriteOk, WorkOk, HeldOk, ItemOk
  <2>3. InsertOk(k)
    BY <1>17 DEF InsertOk
  <2>4. LeftOk(k) /\ EmptyOk(k) /\ BuilderOk(k)
    BY <1>3, <1>17, <2>1 DEF WriteOk, LeftOk, EmptyOk, BuilderOk
  <2>. QED BY <1>2, <1>3, <1>17, <2>2, <2>3, <2>4 DEF WriteOk
<1>19. absent \subseteq absent' /\ \A m \in absent' : m \in absent \/ (s = "target" /\ m = l)
  BY <1>8 DEF NotInPack
<1>20. k.store = job[t].store /\ k.store = s /\ k.at = l
  BY <1>1, <1>4, <1>5, <1>17
<1>21. JobOk(k)
  BY <1>16, ArchiveIsOpened DEF Advances
<1>. QED BY <1>2, <1>8, <1>11, <1>12, <1>14, <1>16, <1>17, <1>18, <1>19, <1>20, <1>21, ArchiveStep, ZenonT(60)

LEMMA ChunkKeeps ==
  ASSUME Typed, OnDisk, Contained, Typed', NEW t \in Task, store_layer_file(t)
  PROVE  Contained'
<1>1. PICK j : j = job[t]
  OBVIOUS
<1>2. j # Idle /\ j.pc = "chunk" /\ Writing(t)
  BY <1>1, WriterIs DEF store_layer_file, Writing
<1>3. /\ WriterOk(j) /\ WriteOk(j) /\ WriterFields \subseteq DOMAIN j /\ DOMAIN job = Task
      /\ j.op = "write" /\ j.left \subseteq j.ids /\ j.ids \subseteq Layer /\ j.at \in j.left
  BY <1>1, <1>2, WriterOf DEF Writing, WriterOk
<1>4. PICK s \in Store : s = j.store
  BY <1>1, <1>2, WriterOf
<1>5. PICK l \in Layer : l = j.at
  BY <1>3
<1>6. PICK n \in Cuts(j.image) :
        /\ n > j.off /\ archive' = [archive EXCEPT ![s][l] = Overwritten(@, j.image, j.off, n)]
        /\ job' = [job EXCEPT ![t].off = n]
  BY <1>1, <1>4, <1>5 DEF store_layer_file
<1>7. UNCHANGED <<construction, handles, pack, absent>>
  BY DEF store_layer_file
<1>8. n \in Int
  <2>1. j.image = ArchiveBytes(Due(s, l))
    BY <1>2, <1>3, <1>4, <1>5 DEF WriteOk
  <2>2. WithWritten(ArchiveBytes(Due(s, l)), 0).data \in Seq(Byte)
    <3>1. Due(s, l) \in Contents(Byte) /\ "parent" \in FileType
      BY FinalContents, FileTypeIs
    <3>. QED BY <3>1, ArchiveSlices
  <2>3. j.image.data \in Seq(Byte)
    BY <2>1, <2>2 DEF WithWritten
  <2>4. Len(j.image.data) \in Nat
    BY <2>3, LenProperties
  <2>5. PICK size \in Nat : size = Len(j.image.data)
    BY <2>4
  <2>6. n \in {size \div 2, size}
    BY <1>6, <2>5 DEF Cuts
  <2>. QED BY <2>6
<1>9. ArchiveOk(s, l)
  BY DEF Contained
<1>10. archive[s][l] # NoFile
  BY <1>1, <1>2, <1>4, <1>5 DEF Contained, CallOk, Writing, StoringOk
<1>11. PICK b : b = ArchiveBytes(Final(s, l))
  OBVIOUS
<1>12. archive[s][l] = WithWritten(b, archive[s][l].written)
  BY <1>9, <1>10, <1>11 DEF ArchiveOk
<1>13. PICK a : a = WithWritten(b, n)
  OBVIOUS
<1>a. archive[s][l] = WithWritten(j.image, j.off)
  BY <1>1, <1>2, <1>4, <1>5 DEF OnDisk, WriterPhases, WriterPhase
<1>14. Overwritten(archive[s][l], j.image, j.off, n) = a /\ a.written = n
  <2>1. WithWritten(j.image, n) = WithWritten(b, n)
    BY <1>12, <1>a DEF WithWritten
  <2>2. archive[s][l].written = j.off
    BY <1>a DEF WithWritten
  <2>3. Overwritten(archive[s][l], j.image, j.off, n) = WithWritten(j.image, n)
    BY <1>6, <1>a, <2>2 DEF Overwritten
  <2>. QED BY <1>13, <2>1, <2>3 DEF WithWritten
<1>15. /\ archive'[s][l] = a
       /\ \A r \in Store, m \in Layer : r # s \/ m # l => archive'[r][m] = archive[r][m]
  BY <1>6, <1>14 DEF Typed
<1>16. Final(s, l)' = Final(s, l)
  BY <1>7 DEF Final, Absent
<1>17. ArchiveOk(s, l)'
  BY <1>8, <1>11, <1>13, <1>14, <1>15, <1>16 DEF ArchiveOk
<1>18. a # NoFile
  BY <1>8, <1>11, <1>13, FinalContents, ArchiveTyped
<1>b. PICK k : k = [j EXCEPT !.off = n]
  OBVIOUS
<1>19. Moves(t) /\ job'[t] = k
  BY <1>1, <1>3, <1>6, <1>b DEF Moves
<1>c. /\ k.pc = "chunk" /\ k.op = "write" /\ k.store = j.store /\ k.at = j.at /\ k.image = j.image
      /\ k.ids = j.ids /\ k.left = j.left /\ k.work = j.work /\ k.held = j.held
  BY <1>2, <1>3, <1>b DEF WriterFields
<1>20. k.store = job[t].store /\ k.store = s /\ k.at = l /\ absent' = absent
  BY <1>1, <1>4, <1>5, <1>7, <1>c
<1>21. JobOk(k)
  BY <1>19, ChunkIsWritten DEF Advances
<1>22. WriteOk(k)
  <2>1. ~Early(j) /\ ~Early(k)
    BY <1>2, <1>c DEF Early
  <2>2. WorkOk(k) /\ HeldOk(k)
    BY <1>3, <1>c, <2>1 DEF WriteOk, WorkOk, HeldOk, ItemOk
  <2>3. InsertOk(k)
    BY <1>c DEF InsertOk
  <2>4. LeftOk(k) /\ EmptyOk(k) /\ BuilderOk(k)
    BY <1>3, <1>c, <2>1 DEF WriteOk, LeftOk, EmptyOk, BuilderOk
  <2>. QED BY <1>2, <1>3, <1>c, <2>2, <2>3, <2>4 DEF WriteOk
<1>. QED BY <1>2, <1>7, <1>15, <1>17, <1>18, <1>19, <1>20, <1>21, <1>22, <1>c, ArchiveStep, ZenonT(60)

-----------------------------------------------------------------------------
(* The invariant, and what follows from it.                                *)

LEMMA ContainedSame ==
  ASSUME Contained, UNCHANGED vars
  PROVE  Contained'
<1>1. /\ UNCHANGED <<construction, handles, archive, pack, absent>> /\ job' = job
  BY DEF vars
<1>2. \A s, l : Untouched(s, l)
  BY <1>1 DEF Untouched
<1>3. \A s \in Store, l \in Layer : ArchiveOk(s, l)' /\ DirOk(s, l)'
  BY <1>1, <1>2, ArchiveKept, UntouchedDir DEF Contained
<1>4. OneStore'
  BY <1>1 DEF Contained, OneStore
<1>5. /\ (\A l \in absent : l \in Layer /\ archive["target"][l] # NoFile)'
      /\ (pack # None => PackOk(pack))'
  BY <1>1 DEF Contained, PackOk
<1>6. ASSUME NEW t \in Task, job[t] # Idle PROVE CallOk(job[t])'
  <2>1. CallOk(job[t])
    BY <1>6 DEF Contained
  <2>2. CallOk(job[t])' <=> CallOk(job[t])
    BY <1>1 DEF CallOk, WriteOk, StoringOk, ReadOk, NameOk, ExportOk, WorkOk, HeldOk, InsertOk, LeftOk, EmptyOk,
                BuilderOk, ItemOk, NotInPack, Due, Absent, Early, Finished, Key, Has, PackOk
  <2>. QED BY <2>1, <2>2
<1>7. (\A t \in Task : job[t] # Idle => CallOk(job[t]))'
  BY <1>1, <1>6
<1>. QED BY <1>3, <1>4, <1>5, <1>7 DEF Contained

(* Every step keeps the invariant.                                         *)
LEMMA ContainedNext == EarlyParts = {} /\ Typed /\ OnDisk /\ Contained /\ [Next]_vars => Contained'
<1>1. CASE UNCHANGED vars
  BY <1>1, ContainedSame
<1>2. ASSUME EarlyParts = {}, Typed, OnDisk, Contained, Typed', NEW t \in Task, ByTask(t)
      PROVE  Contained'
  <2>1. ASSUME NEW l \in Layer, StartBuild(t, l) PROVE Contained'
    BY <1>2, <2>1, BuildKeeps
  <2>2. ASSUME NEW dirs \in Requests, StartImport(t, dirs) \/ StartExport(t, dirs) PROVE Contained'
    BY <1>2, <2>2, ImportKeeps, ExportKeeps
  <2>3. ASSUME NEW s \in Store, NEW l \in Layer,
               ReadParentName(t, s, l) \/ \E part \in Asked : StartRead(t, s, l, part)
        PROVE  Contained'
    BY <1>2, <2>3, NameKeeps, ReadKeeps
  <2>4. ASSUME NEW l \in Layer, StartGetRollup(t, l) \/ \E r \in RollupName : write_rollup_file(t, l, r)
        PROVE  Contained'
    BY <1>2, <2>4, RollupStartsKeep
  <2>5. CASE create_named_directory(t) \/ Claim(t) \/ PoisonedLock(t) \/ get_file(t) \/ InsertFile(t)
    BY <1>2, <2>5, LookKeeps, ClaimKeeps, PoisonedKeeps, GetKeeps, InsertKeeps
  <2>6. CASE write_file(t) \/ DropBuilder(t) \/ finalize(t)
    BY <1>2, <2>6, WriteKeeps, DropKeeps, FinalizeKeeps
  <2>7. CASE StoreOpen(t) \/ store_layer_file(t) \/ Stored(t)
    BY <1>2, <2>7, OpenKeeps, ChunkKeeps, StoredKeeps
  <2>8. CASE AskParent(t) \/ MapFiles(t) \/ Return(t)
    BY <1>2, <2>8, AskKeeps, MapKeeps, ReturnKeeps
  <2>9. CASE export_layers(t) \/ ExportDone(t)
    BY <1>2, <2>9, TarKeeps, ExportDoneKeeps
  <2>10. CASE LockExclusive(t) \/ set_rollup(t) \/ LockShared(t) \/ get_rollup(t)
    BY <1>2, <2>10, RollupsKeep
  <2>. QED BY <1>2, <2>1, <2>2, <2>3, <2>4, <2>5, <2>6, <2>7, <2>8, <2>9, <2>10 DEF ByTask
<1>. QED BY <1>1, <1>2, CrashKeeps, TypedNext, NextIsByTask

(* What is in the files, from the first state on.                          *)
LEMMA ContainedInvariant == ASSUME EarlyParts = {}, ~Rivals PROVE Spec => [](Typed /\ OnDisk /\ Contained)
<1>1. Init => Contained
  BY ContainedInit
<1>2. Typed /\ OnDisk /\ Contained /\ [Next]_vars => Contained'
  BY ContainedNext
<1>. QED BY <1>1, <1>2, DiskInvariant, PTL DEF Spec

(***************************************************************************)
(* After a commit or an import has returned, the layers it was about are   *)
(* read back from their archives with every file that was written for      *)
(* them, through mishaps and whatever else is called (create_layer,        *)
(* import_layers, finalize and store_layer_file).                          *)
(***************************************************************************)
THEOREM AcknowledgedIsRetrievable == ASSUME EarlyParts = {}, ~Rivals PROVE Spec => []AckedIsRetrievable
<1>1. Typed /\ OnDisk /\ Contained => AckedIsRetrievable
  <2>. SUFFICES ASSUME Typed, OnDisk, Contained, NEW s \in Store, NEW l \in acked[s], ~Absent(s, l)
                PROVE  Whole(archive[s][l]) /\ Slices(archive[s][l]) = Original[l]
    BY DEF AckedIsRetrievable, AreOf
  <2>1. l \in Layer /\ Whole(archive[s][l])
    BY DEF Typed, OnDisk, AckedIsWhole
  <2>2. ArchiveOk(s, l) /\ archive[s][l] # NoFile
    BY <2>1 DEF Contained, Whole
  <2>3. PICK n : archive[s][l] = WithWritten(ArchiveBytes(Final(s, l)), n)
    BY <2>2 DEF ArchiveOk
  <2>4. Final(s, l) \in Contents(Byte)
    BY <2>1, FinalContents
  <2>5. Slices(archive[s][l]) = Final(s, l)
    BY <2>3, <2>4, ArchiveHoldsItsFiles
  <2>. QED BY <2>1, <2>5 DEF Final
<1>. QED BY <1>1, ContainedInvariant, PTL

(***************************************************************************)
(* A call that reads a layer, or a part of it, fails or gets exactly what  *)
(* was written for it, and pack_layer_parents reads every layer of a pack  *)
(* with its parent: nobody is given the bytes of another file, of a layer  *)
(* that is half written, or a base layer for a child layer.                *)
(***************************************************************************)
THEOREM ReadersSeeWhatWasWritten == ASSUME EarlyParts = {}, ~Rivals PROVE Spec => []ReadsAreExact
<1>1. Contained => ReadsAreExact
  <2>. SUFFICES ASSUME Contained PROVE ReadsAreExact
    OBVIOUS
  <2>1. ASSUME NEW t \in Task, NEW j, j = job[t], j # Idle, j.op = "read", j.pc = "done", j.seen # Error
        PROVE  AreOf(j.seen, j.at) /\ (j.seen = Expected[j.at][j.part] \/ Absent(j.store, j.at))
    <3>1. j.at \in Layer /\ j.part \in Part
          /\ (j.seen = Expected[j.at][j.part] \/ (Absent(j.store, j.at) /\ DOMAIN j.seen = {}))
      BY <2>1 DEF Contained, CallOk, ReadOk
    <3>2. \A e \in DOMAIN Expected[j.at][j.part] :
            e \in DOMAIN Original[j.at] /\ Expected[j.at][j.part][e] = Original[j.at][e]
      BY <3>1 DEF Expected
    <3>. QED BY <3>1, <3>2 DEF AreOf
  <2>3. ASSUME NEW t \in Task, NEW j, j = job[t], j # Idle, j.op = "parent_name", j.seen # Error
        PROVE  j.seen = ParentOf[j.at] \/ Absent(j.store, j.at)
    BY <2>3 DEF Contained, CallOk, NameOk
  <2>2. pack # None => pack_layer_parents(pack) = [l \in {pack[i].layer : i \in DOMAIN pack} |-> ParentOf[l]]
    BY PackParents DEF Contained
  <2>. QED BY <2>1, <2>2, <2>3 DEF ReadsAreExact
<1>. QED BY <1>1, ContainedInvariant, PTL

(* A task that exports does nothing else.                                  *)
LEMMA ExportingTask ==
  ASSUME NEW t \in Task, ByTask(t), job[t] # Idle, job[t].op = "export", job[t].pc = "tar"
  PROVE  export_layers(t) \/ ExportDone(t) \/ PoisonedLock(t)
<1>1. /\ ~\E l \in Layer : StartBuild(t, l) \/ StartGetRollup(t, l)
      /\ ~\E dirs \in Requests : StartImport(t, dirs) \/ StartExport(t, dirs)
      /\ ~\E l \in Layer, r \in RollupName : write_rollup_file(t, l, r)
  BY DEF StartBuild, StartGetRollup, StartImport, StartExport, write_rollup_file, Call
<1>2. ~\E s \in Store, l \in Layer :
         ReadParentName(t, s, l) \/ \E part \in Asked : StartRead(t, s, l, part)
  BY DEF ReadParentName, StartRead, Call
<1>3. ~(get_file(t) \/ InsertFile(t) \/ write_file(t) \/ DropBuilder(t))
  BY DEF get_file, InsertFile, write_file, DropBuilder, NextWork
<1>4. ~(AskParent(t) \/ MapFiles(t) \/ Return(t))
  BY DEF AskParent, MapFiles, Return
<1>5. ~(LockExclusive(t) \/ LockShared(t) \/ set_rollup(t) \/ get_rollup(t))
  BY DEF LockExclusive, LockShared, set_rollup, get_rollup
<1>6. ~(create_named_directory(t) \/ Claim(t) \/ finalize(t))
  BY DEF create_named_directory, Claim, finalize
<1>7. ~(StoreOpen(t) \/ store_layer_file(t) \/ Stored(t))
  BY DEF StoreOpen, store_layer_file, Stored
<1>. QED BY <1>1, <1>2, <1>3, <1>4, <1>5, <1>6, <1>7 DEF ByTask

(***************************************************************************)
(* An export fails only over a layer that is not completely stored: what   *)
(* tar_append_layer requires of a base layer and of a child layer are      *)
(* files every builder writes for one, and every file of an archive that   *)
(* is complete can be read.                                                *)
(***************************************************************************)
THEOREM StoredLayersAreExported == ASSUME EarlyParts = {}, ~Rivals PROVE Spec => ExportNeedsOnlyStored
<1>1. Typed /\ OnDisk /\ Contained /\ [Next]_vars =>
        [\A t \in Task :
           job[t] # Idle /\ job[t].op = "export" /\ job[t].pc = "tar" /\ job'[t] # Idle /\ job'[t].pc = "failed"
             => ~Whole(archive["origin"][job'[t].at]) \/ Disturbed("origin", job'[t].at)]_vars
  <2>. SUFFICES ASSUME Typed, OnDisk, Contained, Next, NEW t \in Task,
                       job[t] # Idle, job[t].op = "export", job[t].pc = "tar",
                       job'[t] # Idle, job'[t].pc = "failed"
                PROVE  ~Whole(archive["origin"][job'[t].at])
    OBVIOUS
  <2>1. PICK u \in Task : ByTask(u)
    BY NextIsByTask DEF Crash
  <2>2. u = t
    <3>1. Moves(u)
      BY <2>1, StepsUnlocked, ExclusiveIsTaken, SharedIsTaken, RollupIsSet DEF Quiet
    <3>. QED BY <3>1 DEF Moves
  <2>3. DOMAIN job = Task /\ {"op", "store", "pc", "at", "dirs", "tar"} \subseteq DOMAIN job[t]
        /\ ExportOk(job[t])
    BY ExporterOf
  <2>4. export_layers(t)
    BY <2>1, <2>2, <2>3, ExportingTask DEF ExportDone, PoisonedLock, End
  <2>5. PICK l : l = Head(job[t].dirs)
    OBVIOUS
  <2>6. tar_fails("origin", l) /\ job' = [job EXCEPT ![t].pc = "failed", ![t].at = l]
    <3>1. CASE tar_fails("origin", l)
      BY <2>4, <2>5, <3>1 DEF export_layers
    <3>2. CASE ~tar_fails("origin", l)
      <4>1. PICK x : job' = [job EXCEPT ![t].dirs = Tail(@), ![t].tar = x]
        BY <2>4, <2>5, <3>2 DEF export_layers
      <4>2. job'[t].pc = job[t].pc
        BY <2>3, <4>1
      <4>. QED BY <4>2
    <3>. QED BY <3>1, <3>2
  <2>7. job'[t].at = l
    BY <2>3, <2>6
  <2>8. l \in Layer
    BY <2>3, <2>4, <2>5, ToSetTail DEF export_layers, ExportOk
  <2>9. ASSUME Whole(archive["origin"][l]) PROVE FALSE
    <3>1. archive["origin"][l] # NoFile /\ "origin" \in Store
      BY <2>9 DEF Whole, Store
    <3>2. ~UnderConstruction("origin", l)
      BY <2>8, <3>1 DEF OnDisk, ConstructedOrStored, UnderConstruction
    <3>3. ArchiveOk("origin", l)
      BY <2>8, <3>1 DEF Contained
    <3>. QED BY <2>6, <2>8, <2>9, <3>2, <3>3, StoredIsExported
  <2>. QED BY <2>7, <2>9
<1>. QED BY <1>1, ContainedInvariant, PTL DEF Spec, ExportNeedsOnlyStored
=============================================================================
