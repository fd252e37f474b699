--------------------- MODULE CachedDirectoryLabelStore ---------------------
(***************************************************************************)
(* CachedDirectoryLabelStore (storage/directory.rs): label files mirrored  *)
(* in a map that is read once, when the store is opened.                   *)
(*                                                                         *)
(* The write lock on the map is held throughout create_label,              *)
(* set_label_option and delete_label, so one such call runs at a time; but *)
(* each awaits file operations in the middle, where it can fail, be        *)
(* dropped by its caller, or die with the process, leaving map and file    *)
(* apart.                                                                  *)
(***************************************************************************)
EXTENDS Naturals

CONSTANTS
  Name,        \* label names
  Layer,       \* layer names
  None,        \* Option::None
  Absent,      \* no entry in the map, no file
  MaxVersion,  \* labels are not updated beyond this version (bounds the model)
  MaxFailures  \* how many calls and opens are cut short

ASSUME BoundsAssumption == MaxVersion \in Nat /\ MaxFailures \in Nat

VARIABLES
  labels,      \* the map, when the store is open
  file,        \* the label files: what was last written, and the length
  state,       \* "closed", "open", or "broken" when opening failed
  running,     \* the call in progress, between its file step and its map step
  failures,    \* calls cut short so far
  acked,       \* what the last successful call on each label left (history)
  unsettled    \* labels with a call cut short since then (history)

vars == <<labels, file, state, running, failures, acked, unsettled>>

Label == [layer : Layer \cup {None}, version : 0 .. MaxVersion]

Idle == [op |-> "none"]

NewEmpty == [layer |-> None, version |-> 0]

\* mutant: an update is counted twice
CountsTwice(l, layer) == [layer |-> layer, version |-> l.version + 2]

WithUpdatedLayer(l, layer) == [layer |-> layer, version |-> l.version + 1]

(***************************************************************************)
(* The file format: the version in decimal and a newline, then the layer   *)
(* as 40 hexadecimal digits, or nothing, and a newline.                    *)
(***************************************************************************)
Digits(n) ==
  LET Count[k \in 0 .. n] == IF k < 10 THEN 1 ELSE 1 + Count[k \div 10]
  IN  Count[n]

ContentsLength(l) == Digits(l.version) + 1 + (IF l.layer = None THEN 0 ELSE 40) + 1

File == [label : Label, length : Nat]

ASSUME SentinelAssumption == Absent \notin Label /\ Absent \notin File

(* get_label_from_data accepts exactly two lines: whatever is left of      *)
(* longer, earlier contents behind the last newline makes a third.         *)
Parses(f) == f.length = ContentsLength(f.label)

TypeOK ==
  /\ labels \in [Name -> Label \cup {Absent}]
  /\ file \in [Name -> File \cup {Absent}]
  /\ state \in {"closed", "open", "broken"}
  /\ running \in {Idle} \cup [op : {"create", "created", "set"}, name : Name, label : Label]
                        \cup [op : {"delete"}, name : Name]
  /\ failures \in 0 .. MaxFailures
  /\ acked \in [Name -> Label \cup {Absent}]
  /\ unsettled \subseteq Name

Init ==
  /\ labels = [n \in Name |-> Absent]
  /\ file = [n \in Name |-> Absent]
  /\ state = "closed"
  /\ running = Idle
  /\ failures = 0
  /\ acked = [n \in Name |-> Absent]
  /\ unsettled = {}

Present == {n \in Name : file[n] # Absent}
Unreadable == {n \in Present : ~ Parses(file[n])}

(* CachedDirectoryLabelStore::open reads every label file and fails if one *)
(* of them does not parse.                                                 *)
Open ==
  /\ state = "closed"
  /\ IF Unreadable = {}
       THEN /\ labels' = [n \in Name |-> IF n \in Present THEN file[n].label ELSE Absent]
            /\ state' = "open"
       ELSE /\ state' = "broken"
            /\ UNCHANGED labels
  /\ UNCHANGED <<file, running, failures, acked, unsettled>>

Free == state = "open" /\ running = Idle

(* The call reports success.                                               *)
Acknowledge(n, l) ==
  /\ acked' = [acked EXCEPT ![n] = l]
  /\ unsettled' = unsettled \ {n}
  /\ running' = Idle

(* create_label makes an empty file with create_new; a file that is on     *)
(* disk but not in the map is an error.                                    *)
CreateFile(n) ==
  /\ Free
  /\ labels[n] = Absent
  /\ file[n] = Absent
  /\ file' = [file EXCEPT ![n] = [label |-> NewEmpty, length |-> 0]]
  /\ running' = [op |-> "create", name |-> n, label |-> NewEmpty]
  /\ UNCHANGED <<labels, state, failures, acked, unsettled>>

(* Then it writes the empty label, flushes and syncs.                      *)
WriteCreated ==
  /\ running.op = "create"
  /\ file' = [file EXCEPT ![running.name].length = ContentsLength(NewEmpty)]
  /\ running' = [running EXCEPT !.op = "created"]
  /\ UNCHANGED <<labels, state, failures, acked, unsettled>>

\* mutant: the new contents stay in a buffer that is never flushed
KeepsOld(f, l) == f

\* mutant: the contents are cut to the length the file had
NotExtended(f, l) == [label |-> l, length |-> f.length]

(* What write_all leaves when the file is opened without truncation.       *)
Overwritten(f, l) ==
  [label |-> l,
   length |-> IF f.length > ContentsLength(l) THEN f.length ELSE ContentsLength(l)]

(* set_label_option (set_label and clear_label), up to sync_data, for a    *)
(* caller whose label is the one in the map; any other caller gets None,   *)
(* or an error when the label is missing.                                  *)
SetFile(n, layer) ==
  /\ Free
  /\ labels[n] # Absent
  /\ file[n] # Absent
  /\ labels[n].version < MaxVersion
  /\ LET new == WithUpdatedLayer(labels[n], layer) IN
       /\ file' = [file EXCEPT ![n] = Overwritten(file[n], new)]
       /\ running' = [op |-> "set", name |-> n, label |-> new]
  /\ UNCHANGED <<labels, state, failures, acked, unsettled>>

(* ... and the insertion into the map that follows.                        *)
InsertLabel ==
  /\ running.op \in {"created", "set"}
  /\ labels' = [labels EXCEPT ![running.name] = running.label]
  /\ Acknowledge(running.name, running.label)
  /\ UNCHANGED <<file, state, failures>>

\* mutant: the file goes first, the entry later
FileGoesFirst(n) ==
  /\ Free
  /\ labels[n] # Absent
  /\ file' = [file EXCEPT ![n] = Absent]
  /\ running' = [op |-> "delete", name |-> n]
  /\ UNCHANGED <<labels, state, failures, acked, unsettled>>

(* delete_label removes the entry from the map first ...                   *)
DeleteEntry(n) ==
  /\ Free
  /\ labels[n] # Absent
  /\ labels' = [labels EXCEPT ![n] = Absent]
  /\ running' = [op |-> "delete", name |-> n]
  /\ UNCHANGED <<file, state, failures, acked, unsettled>>

(* ... and the file second.                                                *)
DeleteFile ==
  /\ running.op = "delete"
  /\ file[running.name] # Absent
  /\ file' = [file EXCEPT ![running.name] = Absent]
  /\ Acknowledge(running.name, Absent)
  /\ UNCHANGED <<labels, state, failures>>

(* A call is cut short between its file step and its map step: a file      *)
(* operation fails, or the caller drops the future.                        *)
Abandon ==
  /\ running # Idle
  /\ failures < MaxFailures
  /\ failures' = failures + 1
  /\ unsettled' = unsettled \cup {running.name}
  /\ running' = Idle
  /\ UNCHANGED <<labels, file, state, acked>>

(* The process ends, in the middle of a call or not; the map is lost.      *)
Stop ==
  /\ state \in {"open", "broken"}
  /\ failures < MaxFailures
  /\ failures' = failures + 1
  /\ unsettled' = IF running = Idle THEN unsettled ELSE unsettled \cup {running.name}
  /\ running' = Idle
  /\ labels' = [n \in Name |-> Absent]
  /\ state' = "closed"
  /\ UNCHANGED <<file, acked>>

Next ==
  \/ Open
  \/ \E n \in Name : CreateFile(n) \/ DeleteEntry(n)
  \/ \E n \in Name, layer \in Layer \cup {None} : SetFile(n, layer)
  \/ WriteCreated
  \/ InsertLabel
  \/ DeleteFile
  \/ Abandon
  \/ Stop

Spec == Init /\ [][Next]_vars

-----------------------------------------------------------------------------
(* Properties.                                                             *)

(* A clear_label wrote its 40 bytes less over a label that had a layer,    *)
(* and the tail of the old contents is still there.                        *)
HasTail(f) == f.length > ContentsLength(f.label)

(***************************************************************************)
(* What a successful call left survives a restart: unless a call on that   *)
(* label is in progress or was cut short since, its file holds exactly the *)
(* acknowledged label, and there is no file where a delete succeeded.  The *)
(* file parses too, unless a clear_label left a tail in it.                *)
(***************************************************************************)
AckedIsOnDisk ==
  \A n \in Name :
    n \in unsettled \/ (running # Idle /\ running.name = n)
    \/ IF acked[n] = Absent
         THEN file[n] = Absent
         ELSE /\ file[n] # Absent
              /\ file[n].label = acked[n]
              /\ Parses(file[n]) \/ HasTail(file[n])

(***************************************************************************)
(* The map never runs ahead of the disk, and lags by at most one update:   *)
(* the file of a cached label holds that label or its direct successor,    *)
(* however many calls were cut short.                                      *)
(***************************************************************************)
DiskAtMostOneAhead ==
  state = "open" =>
    \A n \in Name :
      labels[n] # Absent =>
        /\ file[n] # Absent
        /\ \/ file[n].label = labels[n]
           \/ file[n].label.version = labels[n].version + 1

(***************************************************************************)
(* Opening the store fails for two reasons only: a create_label that was   *)
(* cut short before its first write left an empty file, or a clear_label   *)
(* left the tail of longer contents in a file, whether it was cut short or *)
(* acknowledged.                                                           *)
(***************************************************************************)
BrokenOnlyByCutOrClear ==
  state = "broken" =>
    \E n \in Name : /\ file[n] # Absent
                    /\ (file[n].length = 0 /\ n \in unsettled) \/ HasTail(file[n])
=============================================================================
