----------------------------- MODULE LayerFiles -----------------------------
(***************************************************************************)
(* The files a layer is kept in: their names and their place in an archive *)
(* (storage/consts.rs), which of them each reader of a layer asks for      *)
(* (storage/layer.rs, storage/file.rs), and the form of an archive file    *)
(* (storage/archive.rs).                                                   *)
(*                                                                         *)
(* Files that are always opened, written and mapped together count as one: *)
(* the blocks and the offsets of a dictionary, the bits, blocks and        *)
(* sblocks of a bit index, the four files of an adjacency list.            *)
(***************************************************************************)
EXTENDS Integers, Sequences, FiniteSets
LOCAL INSTANCE SequencesExt

(* The file types in the order of the enumeration, which is the order of   *)
(* the slices in an archive and of the bits in its header.                 *)
LayerFileEnum ==
  <<"node_dictionary", "predicate_dictionary", "value_dictionary",
    "node_value_idmap", "predicate_idmap",
    "pos_subjects", "pos_objects", "neg_subjects", "neg_objects",
    "pos_s_p", "pos_sp_o", "pos_o_ps", "pos_wavelet",
    "neg_s_p", "neg_sp_o", "neg_o_ps", "neg_wavelet",
    "parent", "rollup">>

FileType == ToSet(LayerFileEnum)

BaseNames == {"base_subjects", "base_objects", "base_s_p", "base_sp_o", "base_o_ps", "base_wavelet"}

FILENAMES == FileType \cup BaseNames

(* The file type a name stands for: a base layer keeps its triples where a *)
(* child layer keeps its additions.                                        *)
FILENAME_ENUM_MAP ==
  [f \in FILENAMES |->
     CASE f = "base_subjects" -> "pos_subjects" [] f = "base_objects" -> "pos_objects"
       [] f = "base_s_p" -> "pos_s_p"           [] f = "base_sp_o" -> "pos_sp_o"
       [] f = "base_o_ps" -> "pos_o_ps"         [] f = "base_wavelet" -> "pos_wavelet"
       [] OTHER -> f]

-----------------------------------------------------------------------------
(* What a pack holds of a layer.                                           *)
SHARED_REQUIRED_FILES == <<"node_dictionary", "predicate_dictionary", "value_dictionary">>

SHARED_OPTIONAL_FILES == <<"node_value_idmap", "predicate_idmap", "rollup">>

\* mutant: a file that base layers are not written with
BASE_LAYER_REQUIRED_FILES_with_subjects ==
  <<"base_s_p", "base_sp_o", "base_o_ps", "base_wavelet", "base_subjects">>

BASE_LAYER_REQUIRED_FILES == <<"base_s_p", "base_sp_o", "base_o_ps", "base_wavelet">>

BASE_LAYER_OPTIONAL_FILES == <<"base_subjects", "base_objects">>

CHILD_LAYER_REQUIRED_FILES ==
  <<"parent", "pos_s_p", "pos_sp_o", "pos_o_ps", "pos_wavelet",
    "neg_s_p", "neg_sp_o", "neg_o_ps", "neg_wavelet">>

CHILD_LAYER_OPTIONAL_FILES == <<"pos_subjects", "pos_objects", "neg_subjects", "neg_objects">>

-----------------------------------------------------------------------------
(* The files each call asks for, in the order it asks; child says whether  *)
(* the layer was found to have a parent.                                   *)
dictionary_files == SHARED_REQUIRED_FILES
id_map_files == <<"node_value_idmap", "predicate_idmap">>

base_index_files == <<"base_s_p", "base_sp_o", "base_o_ps", "base_wavelet">>

base_layer_files ==
  dictionary_files \o id_map_files \o <<"base_subjects", "base_objects">> \o base_index_files

child_triple_files ==
  <<"pos_subjects", "pos_objects", "neg_subjects", "neg_objects",
    "pos_s_p", "pos_sp_o", "pos_o_ps", "neg_s_p", "neg_sp_o", "neg_o_ps",
    "pos_wavelet", "neg_wavelet">>

child_layer_files == dictionary_files \o id_map_files \o child_triple_files

layer_files(child) == IF child THEN child_layer_files ELSE base_layer_files

node_dictionary_files == <<"node_dictionary">>
predicate_dictionary_files == <<"predicate_dictionary">>
value_dictionary_files == <<"value_dictionary">>
node_value_idmap_files == <<"node_value_idmap">>
predicate_idmap_files == <<"predicate_idmap">>

triple_addition_files(child) ==
  IF child THEN <<"pos_s_p", "pos_sp_o", "pos_subjects">>
           ELSE <<"base_s_p", "base_sp_o", "base_subjects">>

(* A base layer has no removals, so there is nothing to ask for.           *)
triple_removal_files(child) ==
  IF child THEN <<"neg_s_p", "neg_sp_o", "neg_subjects">> ELSE <<>>

predicate_wavelet_addition_files(child) ==
  IF child THEN <<"pos_wavelet">> ELSE <<"base_wavelet">>

predicate_wavelet_removal_files(child) ==
  IF child THEN <<"neg_wavelet">> ELSE <<>>

triple_addition_files_by_object(child) ==
  IF child THEN <<"pos_o_ps", "pos_s_p", "pos_subjects", "pos_objects">>
           ELSE <<"base_o_ps", "base_s_p", "base_subjects", "base_objects">>

triple_removal_files_by_object(child) ==
  IF child THEN <<"neg_o_ps", "neg_s_p", "neg_subjects", "neg_objects">> ELSE <<>>

triple_layer_addition_count_files(child) ==
  (IF child THEN <<"pos_s_p", "pos_sp_o">> ELSE <<"base_s_p", "base_sp_o">>)
    \o predicate_wavelet_addition_files(child)

triple_layer_removal_count_files(child) ==
  IF child THEN <<"neg_s_p", "neg_sp_o">> \o predicate_wavelet_removal_files(child) ELSE <<>>

(* What a caller can ask of a layer: the whole of it, or one of its parts. *)
Part == {"layer", "node_dictionary", "predicate_dictionary", "value_dictionary",
         "node_value_idmap", "predicate_idmap",
         "triple_additions", "triple_removals", "triple_additions_p", "triple_removals_p",
         "triple_additions_o", "triple_removals_o", "addition_count", "removal_count"}

(* The id map of a layer is read after the sizes of its dictionaries.      *)
FilesOf(part, child) ==
  CASE part = "layer" -> layer_files(child)
    [] part = "node_dictionary" -> node_dictionary_files
    [] part = "predicate_dictionary" -> predicate_dictionary_files
    [] part = "value_dictionary" -> value_dictionary_files
    [] part = "node_value_idmap" ->
         node_dictionary_files \o value_dictionary_files \o node_value_idmap_files
    [] part = "predicate_idmap" -> predicate_dictionary_files \o predicate_idmap_files
    [] part = "triple_additions" -> triple_addition_files(child)
    [] part = "triple_removals" -> triple_removal_files(child)
    [] part = "triple_additions_p" ->
         triple_addition_files(child) \o predicate_wavelet_addition_files(child)
    [] part = "triple_removals_p" ->
         triple_removal_files(child) \o predicate_wavelet_removal_files(child)
    [] part = "triple_additions_o" -> triple_addition_files_by_object(child)
    [] part = "triple_removals_o" -> triple_removal_files_by_object(child)
    [] part = "addition_count" -> triple_layer_addition_count_files(child)
    [] part = "removal_count" -> triple_layer_removal_count_files(child)

(* The calls that first find out whether the layer has a parent.           *)
AsksParent(part) ==
  part \notin {"node_dictionary", "predicate_dictionary", "value_dictionary",
               "node_value_idmap", "predicate_idmap"}

SubjectsAndObjects ==
  {"base_subjects", "base_objects", "pos_subjects", "pos_objects", "neg_subjects", "neg_objects"}

(* The files that are mapped only if they exist.  Loading a child layer    *)
(* needs its subjects and objects, which every other reader can do without. *)
MappedIfExists(part, child) ==
  {"node_value_idmap", "predicate_idmap"} \cup
  (IF part = "layer" /\ child THEN {} ELSE SubjectsAndObjects)

-----------------------------------------------------------------------------
(* An archive file: a word with a bit for each file type that is present,  *)
(* the end of every slice, and the slices.  contents is a function from    *)
(* the file types present to what the files hold.                          *)
Ordinal == [e \in FileType |-> CHOOSE i \in DOMAIN LayerFileEnum : LayerFileEnum[i] = e]

from_present(types) == {Ordinal[e] : e \in types}

(* The sorted files, one after the other: the tally of their lengths goes  *)
(* into the offsets, and their bytes behind the bytes of those before.     *)
AddFile(layout, bytes) ==
  [offsets |-> Append(layout.offsets, Len(layout.data) + Len(bytes)),
   data    |-> layout.data \o bytes]

Layout(contents) ==
  LET layout[n \in 0 .. Len(LayerFileEnum)] ==
        IF n = 0 THEN [offsets |-> << >>, data |-> << >>]
        ELSE IF LayerFileEnum[n] \in DOMAIN contents
               THEN AddFile(layout[n - 1], contents[LayerFileEnum[n]])
               ELSE layout[n - 1]
  IN  layout

ArchiveBytes(contents) ==
  LET layout == Layout(contents)[Len(LayerFileEnum)]
  IN  [presence |-> from_present(DOMAIN contents),
       offsets  |-> layout.offsets,
       data     |-> layout.data]

is_present(header, e) == Ordinal[e] \in header.presence

(* rank1 - 1, counted from one.                                            *)
file_index(header, e) == Cardinality({i \in header.presence : i =< Ordinal[e]})

\* mutant: a slice starts one file too early
range_for_shifted(header, e) ==
  LET i == file_index(header, e)
  IN  <<IF i =< 2 THEN 0 ELSE header.offsets[i - 2], header.offsets[i]>>

(* The bounds of a slice that is present.                                  *)
range_for(header, e) ==
  LET i == file_index(header, e)
  IN  <<IF i = 1 THEN 0 ELSE header.offsets[i - 1], header.offsets[i]>>

slice_for(archive, e) ==
  SubSeq(archive.data, range_for(archive, e)[1] + 1, range_for(archive, e)[2])
=============================================================================
