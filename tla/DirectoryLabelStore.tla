------------------------ MODULE DirectoryLabelStore ------------------------
(***************************************************************************)
(* One label file of a DirectoryLabelStore (storage/directory.rs), used    *)
(* by several processes at once, with the advisory locks of                *)
(* storage/locking.rs.                                                     *)
(*                                                                         *)
(* The directory entry and the file behind it are kept apart: delete_label *)
(* unlinks the entry without taking the lock, so a process that opened the *)
(* file earlier goes on reading or writing a file no one can find any      *)
(* more, while a later create_label makes a new one.  create_label makes   *)
(* the file before it locks and fills it, and set_label_option truncates   *)
(* the file before it writes the new contents.                             *)
(*                                                                         *)
(* Every call is compared with an atomic label store by carrying along all *)
(* the ways the calls so far can be explained by one (linearizability).    *)
(***************************************************************************)
EXTENDS Naturals, FiniteSets

CONSTANTS
  Proc,        \* processes (or tasks) using the directory
  Layer,       \* layer names a label may point at
  None,        \* Option::None
  Absent,      \* there is no such label
  Pending,     \* a call that has not been explained yet
  Empty,       \* the contents of a file of length zero
  NoFile,      \* no directory entry, no open file
  MaxOps,      \* how many calls are made in all (bounds the model)
  MaxCrashes   \* how many processes die in the middle of a call

ASSUME BoundsAssumption == MaxOps \in Nat /\ MaxCrashes \in Nat
ASSUME ProcAssumption == IsFiniteSet(Proc)

(* The labels there can be, and the answers of an atomic label store.      *)
AnyLabel == [layer : Layer \cup {None}, version : Nat]

AnyAnswer ==
  {<<"ok">>, <<"exists">>, <<"gone">>, <<"some">>, <<"none">>, <<"true">>, <<"false">>}
    \cup ({"label"} \X (AnyLabel \cup {Absent}))

ASSUME SentinelAssumption ==
  /\ Absent \notin AnyLabel /\ Empty \notin AnyLabel
  /\ NoFile \notin Nat
  /\ Pending \notin AnyAnswer

VARIABLES
  dir,         \* the file the directory entry leads to, or NoFile
  content,     \* what each file holds
  pc,          \* where each process is in its call
  fd,          \* the file each process has open
  call,        \* the call each process is in
  known,       \* the label each process holds from an earlier call
  ops,         \* calls started
  crashes,     \* processes that died in a call
  explained    \* the explanations of the calls made so far (history)

vars == <<dir, content, pc, fd, call, known, ops, crashes, explained>>

(* Enough files for one linked and one held open by each process.          *)
File == 1 .. (Cardinality(Proc) + 1)

Label == [layer : Layer \cup {None}, version : 0 .. MaxOps]

Call ==
  [op : {"create", "get", "set", "delete"},
   label : Label \cup {Absent},
   layer : Layer \cup {None}]

TypeOK ==
  /\ dir \in File \cup {NoFile}
  /\ content \in [File -> Label \cup {Empty}]
  /\ pc \in [Proc -> {"idle", "started", "open_new", "create_lock", "create_write",
                      "get_lock", "set_lock", "truncate", "write"}]
  /\ fd \in [Proc -> File \cup {NoFile}]
  /\ call \in [Proc -> Call]
  /\ known \in [Proc -> Label \cup {Absent}]
  /\ ops \in 0 .. MaxOps
  /\ crashes \in 0 .. MaxCrashes
  /\ \A e \in explained : e.label \in Label \cup {Absent}

NewEmpty == [layer |-> None, version |-> 0]

\* mutant: the version counts down
CountsDown(l, layer) == [layer |-> layer, version |-> l.version - 1]

WithUpdatedLayer(l, layer) == [layer |-> layer, version |-> l.version + 1]

NoCall == [op |-> "get", label |-> Absent, layer |-> None]

-----------------------------------------------------------------------------
(* The atomic label store the calls are compared with: the trait           *)
(* LabelStore, as MemoryLabelStore and the callers in store/mod.rs take it.*)

Applied(label, c) ==
  CASE c.op = "create" -> IF label = Absent THEN NewEmpty ELSE label
    [] c.op = "get"    -> label
    [] c.op = "set"    -> IF label # Absent /\ label = c.label
                            THEN WithUpdatedLayer(label, c.layer)
                            ELSE label
    [] c.op = "delete" -> Absent

Answer(label, c) ==
  CASE c.op = "create" -> IF label = Absent THEN <<"ok">> ELSE <<"exists">>
    [] c.op = "get"    -> <<"label", label>>
    [] c.op = "set"    -> IF label = Absent THEN <<"gone">>
                          ELSE IF label = c.label THEN <<"some">> ELSE <<"none">>
    [] c.op = "delete" -> IF label = Absent THEN <<"false">> ELSE <<"true">>

(***************************************************************************)
(* An explanation is the label after the calls it has applied and, for     *)
(* each process in a call, the answer that call got, or Pending.           *)
(***************************************************************************)
Explain(e, p) ==
  [label |-> Applied(e.label, call[p]),
   answer |-> [e.answer EXCEPT ![p] = Answer(e.label, call[p])]]

Forget(e, p) == [e EXCEPT !.answer[p] = Pending]

Running == {p \in Proc : pc[p] # "idle"}

OneMore(E) ==
  E \cup UNION {{Explain(e, p) : p \in {q \in Running : e.answer[q] = Pending}} : e \in E}

(* The explanations, extended by running calls in every possible order.    *)
Extensions ==
  LET Within[n \in 0 .. Cardinality(Proc)] ==
        IF n = 0 THEN explained ELSE OneMore(Within[n - 1])
  IN  Within[Cardinality(Proc)]

-----------------------------------------------------------------------------
Init ==
  /\ dir = NoFile
  /\ content = [f \in File |-> Empty]
  /\ pc = [p \in Proc |-> "idle"]
  /\ fd = [p \in Proc |-> NoFile]
  /\ call = [p \in Proc |-> NoCall]
  /\ known = [p \in Proc |-> Absent]
  /\ ops = 0
  /\ crashes = 0
  /\ explained = {[label |-> Absent, answer |-> [p \in Proc |-> Pending]]}

\* mutant: the lock is given up before the new contents are written
ReleasedEarly(p, f) == fd[p] = f /\ pc[p] \in {"create_write", "truncate"}

\* mutant: the opened file is locked by another handle of the same process
LockedTwice(p, f) ==
  fd[p] = f /\ pc[p] \in {"create_lock", "create_write", "truncate", "write"}

(***************************************************************************)
(* The lock of a file is held exclusively from the moment create_label or  *)
(* set_label_option obtained it until the call drops the file.  A reader   *)
(* keeps its shared lock only within the step that reads.                  *)
(***************************************************************************)
HoldsExclusive(p, f) == fd[p] = f /\ pc[p] \in {"create_write", "truncate", "write"}

\* mutant: the file is used whether or not the lock was obtained
LockIgnored(f) == TRUE

CanLock(f) == \A p \in Proc : ~ HoldsExclusive(p, f)

(* The call of process p comes to an end; the file it had open is dropped, *)
(* and with it the lock.                                                   *)
Ends(p) ==
  /\ pc' = [pc EXCEPT ![p] = "idle"]
  /\ fd' = [fd EXCEPT ![p] = NoFile]
  /\ call' = [call EXCEPT ![p] = NoCall]

(* It ends with an answer the atomic store could have given,               *)
Answers(p, result) ==
  /\ Ends(p)
  /\ explained' = {Forget(e, p) : e \in {x \in Extensions : x.answer[p] = result}}

(* or with the error InvalidData, which promises that it changed nothing.  *)
AnswersInvalid(p) ==
  /\ Ends(p)
  /\ explained' = {e \in explained : e.answer[p] = Pending}

GoTo(p, where) == pc' = [pc EXCEPT ![p] = where]

Start(p) ==
  /\ pc[p] = "idle"
  /\ ops < MaxOps
  /\ ops' = ops + 1
  /\ \E op \in {"create", "get", "set", "delete"}, layer \in Layer \cup {None} :
       /\ op = "set" => known[p] # Absent
       /\ op # "set" => layer = None
       /\ call' = [call EXCEPT ![p] =
                     [op |-> op,
                      label |-> IF op = "set" THEN known[p] ELSE Absent,
                      layer |-> layer]]
  /\ GoTo(p, "started")
  /\ UNCHANGED <<dir, content, fd, known, crashes, explained>>

(* create_label asks for the metadata first.                               *)
CreateCheck(p) ==
  /\ pc[p] = "started" /\ call[p].op = "create"
  /\ \/ /\ dir # NoFile
        /\ Answers(p, <<"exists">>)
     \/ /\ dir = NoFile
        /\ GoTo(p, "open_new")
        /\ UNCHANGED <<fd, call, explained>>
  /\ UNCHANGED <<dir, content, known, ops, crashes>>

(* ExclusiveLockedFile::create_and_open opens with create_new ...          *)
CreateOpen(p) ==
  /\ pc[p] = "open_new"
  /\ \/ /\ dir # NoFile
        /\ Answers(p, <<"exists">>)
        /\ UNCHANGED <<dir, content>>
     \/ /\ dir = NoFile
        /\ LET f == CHOOSE x \in File : \A q \in Proc : fd[q] # x IN
             /\ dir' = f
             /\ content' = [content EXCEPT ![f] = Empty]
             /\ fd' = [fd EXCEPT ![p] = f]
        /\ GoTo(p, "create_lock")
        /\ UNCHANGED <<call, explained>>
  /\ UNCHANGED <<known, ops, crashes>>

(* ... and only then waits for the lock.                                   *)
CreateLock(p) ==
  /\ pc[p] = "create_lock"
  /\ CanLock(fd[p])
  /\ GoTo(p, "create_write")
  /\ UNCHANGED <<dir, content, fd, call, known, ops, crashes, explained>>

(* The initial contents are written, flushed and synced.                   *)
CreateWrite(p) ==
  /\ pc[p] = "create_write"
  /\ content' = [content EXCEPT ![fd[p]] = NewEmpty]
  /\ known' = [known EXCEPT ![p] = NewEmpty]
  /\ Answers(p, <<"ok">>)
  /\ UNCHANGED <<dir, ops, crashes>>

(* get_label opens the file; NotFound is answered with None.               *)
GetOpen(p) ==
  /\ pc[p] = "started" /\ call[p].op = "get"
  /\ \/ /\ dir = NoFile
        /\ Answers(p, <<"label", Absent>>)
     \/ /\ dir # NoFile
        /\ fd' = [fd EXCEPT ![p] = dir]
        /\ GoTo(p, "get_lock")
        /\ UNCHANGED <<call, explained>>
  /\ UNCHANGED <<dir, content, known, ops, crashes>>

(* Under the shared lock the contents are read and parsed; an empty file   *)
(* does not have the two lines get_label_from_data insists on.             *)
GetRead(p) ==
  /\ pc[p] = "get_lock"
  /\ CanLock(fd[p])
  /\ \/ /\ content[fd[p]] = Empty
        /\ AnswersInvalid(p)
        /\ UNCHANGED known
     \/ /\ content[fd[p]] # Empty
        /\ known' = [known EXCEPT ![p] = content[fd[p]]]
        /\ Answers(p, <<"label", content[fd[p]]>>)
  /\ UNCHANGED <<dir, content, ops, crashes>>

(* set_label_option opens the file for reading and writing.                *)
SetOpen(p) ==
  /\ pc[p] = "started" /\ call[p].op = "set"
  /\ \/ /\ dir = NoFile
        /\ Answers(p, <<"gone">>)
     \/ /\ dir # NoFile
        /\ fd' = [fd EXCEPT ![p] = dir]
        /\ GoTo(p, "set_lock")
        /\ UNCHANGED <<call, explained>>
  /\ UNCHANGED <<dir, content, known, ops, crashes>>

(* Once it has the lock it compares the label on file with its argument.   *)
SetCompare(p) ==
  /\ pc[p] = "set_lock"
  /\ CanLock(fd[p])
  /\ \/ /\ content[fd[p]] = Empty
        /\ AnswersInvalid(p)
     \/ /\ content[fd[p]] \notin {Empty, call[p].label}
        /\ Answers(p, <<"none">>)
     \/ /\ content[fd[p]] = call[p].label
        /\ GoTo(p, "truncate")
        /\ UNCHANGED <<fd, call, explained>>
  /\ UNCHANGED <<dir, content, known, ops, crashes>>

SetTruncate(p) ==
  /\ pc[p] = "truncate"
  /\ content' = [content EXCEPT ![fd[p]] = Empty]
  /\ GoTo(p, "write")
  /\ UNCHANGED <<dir, fd, call, known, ops, crashes, explained>>

SetWrite(p) ==
  /\ pc[p] = "write"
  /\ LET new == WithUpdatedLayer(call[p].label, call[p].layer) IN
       /\ content' = [content EXCEPT ![fd[p]] = new]
       /\ known' = [known EXCEPT ![p] = new]
  /\ Answers(p, <<"some">>)
  /\ UNCHANGED <<dir, ops, crashes>>

(* delete_label unlinks without a lock.                                    *)
DeleteUnlink(p) ==
  /\ pc[p] = "started" /\ call[p].op = "delete"
  /\ Answers(p, IF dir = NoFile THEN <<"false">> ELSE <<"true">>)
  /\ dir' = NoFile
  /\ UNCHANGED <<content, known, ops, crashes>>

(***************************************************************************)
(* The process dies inside a call: the kernel drops its locks, the files   *)
(* stay as they are.  Its call may or may not have taken effect.           *)
(***************************************************************************)
Crash(p) ==
  /\ pc[p] # "idle"
  /\ crashes < MaxCrashes
  /\ crashes' = crashes + 1
  /\ Ends(p)
  /\ known' = [known EXCEPT ![p] = Absent]
  /\ explained' = {Forget(e, p) : e \in Extensions}
  /\ UNCHANGED <<dir, content, ops>>

Proceed(p) ==
  \/ CreateCheck(p) \/ CreateOpen(p) \/ CreateLock(p) \/ CreateWrite(p)
  \/ GetOpen(p) \/ GetRead(p)
  \/ SetOpen(p) \/ SetCompare(p) \/ SetTruncate(p) \/ SetWrite(p)
  \/ DeleteUnlink(p)

Next == \E p \in Proc : Start(p) \/ Proceed(p) \/ Crash(p)

Spec == Init /\ [][Next]_vars

(***************************************************************************)
(* A call is polled until it returns, and a blocked flock is granted once  *)
(* its file is no longer locked.                                           *)
(***************************************************************************)
Fairness == \A p \in Proc : WF_vars(Proceed(p))

FairSpec == Spec /\ Fairness

-----------------------------------------------------------------------------
(* Properties.                                                             *)

(***************************************************************************)
(* delete_label claims that not locking is "indistinguishable from the     *)
(* case where the read/write and the remove happened in reverse order".    *)
(* In full: the answers all processes get, deletes and calls caught in the *)
(* middle of one included, are those of some order of atomic calls, each   *)
(* taking effect between its start and its end; a call that fails with     *)
(* InvalidData has no effect, a call cut off by a crash at most one.       *)
(***************************************************************************)
Linearizable == explained # {}

(***************************************************************************)
(* Without a crash, the only file a process that gets the lock can find    *)
(* empty is one whose creator is still waiting for its first lock: the     *)
(* window between truncate and write is never seen.                        *)
(***************************************************************************)
EmptyOnlyWhileCreated ==
  \A p \in Proc :
    /\ crashes = 0
    /\ pc[p] \in {"get_lock", "set_lock"}
    /\ CanLock(fd[p])
    /\ content[fd[p]] = Empty
    => \E q \in Proc : pc[q] = "create_lock" /\ fd[q] = fd[p]

(***************************************************************************)
(* Every call returns, whoever holds the locks and whoever dies: a lock is *)
(* never waited for in vain.                                               *)
(***************************************************************************)
CallsReturn == \A p \in Proc : pc[p] # "idle" ~> pc[p] = "idle"
=============================================================================
