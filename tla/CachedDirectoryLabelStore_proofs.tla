------------------ MODULE CachedDirectoryLabelStore_proofs ------------------
(***************************************************************************)
(* Proofs about CachedDirectoryLabelStore, for any label names, layers and *)
(* versions and however many calls are cut short.                          *)
(***************************************************************************)
EXTENDS CachedDirectoryLabelStore, InductionLemmas

-----------------------------------------------------------------------------
(* The decimal digits of a version: the recursive function is well defined. *)
LEMMA DigitsType ==
  ASSUME NEW n \in Nat PROVE Digits(n) \in Nat
<1> DEFINE D == 0 .. n
           F == CHOOSE F : F = [k \in D |-> IF k < 10 THEN 1 ELSE 1 + F[k \div 10]]
           below == [k \in D |-> IF k < 10 THEN 0 - 1 ELSE k \div 10]
           base == [k \in D |-> 1]
           step == [p \in D \X Nat |-> 1 + p[2]]
<1>1. PICK f \in [D -> Nat] : IsRecursive(f, D, below, base, step)
  <2>1. D \subseteq Nat
    OBVIOUS
  <2>2. Descends(below, D)
    BY DEF Descends
  <2>3. base \in [D -> Nat] /\ step \in [D \X Nat -> Nat]
    OBVIOUS
  <2> HIDE DEF D, below, base, step
  <2> QED BY <2>1, <2>2, <2>3, RecursionExists
<1>2. f = [k \in D |-> IF k < 10 THEN 1 ELSE 1 + f[k \div 10]]
  <2> SUFFICES ASSUME NEW k \in D PROVE f[k] = IF k < 10 THEN 1 ELSE 1 + f[k \div 10]
    OBVIOUS
  <2>0. f[k] = IF below[k] \in D THEN step[<<k, f[below[k]]>>] ELSE base[k]
    BY <1>1 DEF IsRecursive
  <2>1. CASE k < 10
    BY <2>0, <2>1
  <2>2. CASE ~ (k < 10)
    <3>1. k \div 10 \in D /\ below[k] = k \div 10
      BY <2>2
    <3>2. f[k] = step[<<k, f[k \div 10]>>] /\ f[k \div 10] \in Nat
      BY <1>1, <2>0, <3>1
    <3> QED BY <3>1, <3>2, <2>2
  <2> QED BY <2>1, <2>2
<1>3. F = [k \in D |-> IF k < 10 THEN 1 ELSE 1 + F[k \div 10]]
  <2> HIDE DEF D
  <2> QED BY <1>2
<1>4. \A k \in D : F[k] \in Nat
  <2> HIDE DEF F
  <2> DEFINE S == {k \in Nat : \A j \in 0 .. k : j \in D => F[j] \in Nat}
  <2>1. 0 \in S
    <3>1. F[0] = 1
      BY <1>3
    <3>2. \A j \in 0 .. 0 : j = 0
      OBVIOUS
    <3> QED BY <3>1, <3>2
  <2>2. ASSUME NEW k \in Nat, k \in S PROVE k + 1 \in S
    <3>1. ASSUME k + 1 \in D PROVE F[k + 1] \in Nat
      <4>1. k + 1 >= 10 => (k + 1) \div 10 \in 0 .. k /\ (k + 1) \div 10 \in D
        BY <3>1
      <4>2. k + 1 >= 10 => F[(k + 1) \div 10] \in Nat
        BY <4>1, <2>2
      <4>3. F[k + 1] = IF k + 1 < 10 THEN 1 ELSE 1 + F[(k + 1) \div 10]
        BY <1>3, <3>1
      <4> QED BY <4>2, <4>3
    <3>2. \A j \in 0 .. k + 1 : j = k + 1 \/ j \in 0 .. k
      OBVIOUS
    <3> QED BY <3>1, <3>2, <2>2
  <2> HIDE DEF S
  <2>3. Nat \subseteq S
    BY <2>1, <2>2, SetInduction
  <2> QED BY <2>3 DEF S
<1>5. Digits(n) = F[n]
  BY DEF Digits
<1> QED BY <1>4, <1>5

(* The length of the contents of a label.                                  *)
LEMMA ContentsLengthType ==
  ASSUME NEW l \in Label PROVE ContentsLength(l) \in Nat
<1>1. Digits(l.version) \in Nat
  BY DigitsType, BoundsAssumption DEF Label
<1> QED BY <1>1 DEF ContentsLength

-----------------------------------------------------------------------------
(* The inductive invariant.                                                *)

(* What a call has done to the files and the map while it is in progress.  *)
CallsInProgress ==
  /\ running # Idle => state = "open"
  /\ running.op = "create" =>
       /\ running.label = NewEmpty
       /\ file[running.name] = [label |-> NewEmpty, length |-> 0]
       /\ labels[running.name] = Absent
  /\ running.op \in {"created", "set"} =>
       /\ file[running.name] # Absent
       /\ file[running.name].label = running.label
       /\ file[running.name].length >= ContentsLength(running.label)
  /\ running.op = "created" => labels[running.name] = Absent
  /\ running.op = "delete" => labels[running.name] = Absent

(* A file is shorter than its label only while it is being created, or     *)
(* when that was cut short; then it is empty, and not in the map.          *)
ShortOnlyWhenCreated ==
  \A n \in Name :
    file[n] # Absent =>
      \/ file[n].length >= ContentsLength(file[n].label)
      \/ /\ file[n].length = 0
         /\ labels[n] = Absent
         /\ n \in unsettled \/ (running.op = "create" /\ running.name = n)

(* DiskAtMostOneAhead, whether or not the store is open.                   *)
MapBehindDisk ==
  \A n \in Name :
    labels[n] # Absent =>
      /\ file[n] # Absent
      /\ \/ file[n].label = labels[n]
         \/ file[n].label.version = labels[n].version + 1

IInv ==
  /\ TypeOK
  /\ CallsInProgress
  /\ ShortOnlyWhenCreated
  /\ MapBehindDisk
  /\ AckedIsOnDisk
  /\ BrokenOnlyByCutOrClear

(* The initial states satisfy the invariant.                               *)
LEMMA InitIInv == Init => IInv
BY BoundsAssumption
   DEF Init, IInv, TypeOK, CallsInProgress, ShortOnlyWhenCreated, MapBehindDisk,
       AckedIsOnDisk, BrokenOnlyByCutOrClear, Idle

(* Open keeps the invariant. *)
LEMMA OpenStep ==
  ASSUME IInv, Open PROVE IInv'
<1> USE SentinelAssumption, BoundsAssumption, ContentsLengthType DEF IInv, Open
<1>1. TypeOK'
  BY DEF TypeOK, Label, File, Present, Unreadable, Parses
<1>0. running = Idle /\ running.op = "none"
  BY DEF CallsInProgress, Idle
<1>2. CallsInProgress'
  BY <1>0 DEF CallsInProgress, Idle
<1>3. ShortOnlyWhenCreated'
  BY DEF TypeOK, Label, File, CallsInProgress, ShortOnlyWhenCreated, MapBehindDisk, Present, Unreadable, Parses
<1>4. MapBehindDisk'
  BY DEF TypeOK, Label, File, CallsInProgress, MapBehindDisk, Present, Unreadable, Parses
<1>5. AckedIsOnDisk'
  BY DEF TypeOK, Label, File, CallsInProgress, AckedIsOnDisk, Parses, HasTail, ShortOnlyWhenCreated, Present, Unreadable
<1>6. BrokenOnlyByCutOrClear'
  <2> SUFFICES ASSUME NEW n \in Unreadable
               PROVE  (file[n].length = 0 /\ n \in unsettled) \/ HasTail(file[n])
    BY DEF BrokenOnlyByCutOrClear, Unreadable, Present
  <2>1. n \in Name /\ file[n] # Absent /\ file[n] \in File /\ file[n].length # ContentsLength(file[n].label)
    BY DEF Unreadable, Present, Parses, TypeOK
  <2>2. file[n].length \in Nat /\ ContentsLength(file[n].label) \in Nat
    BY <2>1 DEF File
  <2> QED BY <1>0, <2>1, <2>2 DEF ShortOnlyWhenCreated, HasTail
<1> QED BY <1>1, <1>2, <1>3, <1>4, <1>5, <1>6

(* CreateFile keeps the invariant. *)
LEMMA CreateFileStep ==
  ASSUME IInv, NEW n \in Name, CreateFile(n) PROVE IInv'
<1> USE SentinelAssumption, BoundsAssumption, ContentsLengthType DEF IInv, CreateFile
<1>1. TypeOK'
  BY DEF TypeOK, Label, File, Free, Idle, NewEmpty
<1>2. CallsInProgress'
  BY DEF TypeOK, Label, File, CallsInProgress, MapBehindDisk, ShortOnlyWhenCreated, Free, Idle, NewEmpty
<1>3. ShortOnlyWhenCreated'
  BY DEF TypeOK, Label, File, CallsInProgress, ShortOnlyWhenCreated, MapBehindDisk, Free, Idle, NewEmpty
<1>4. MapBehindDisk'
  BY DEF TypeOK, Label, File, CallsInProgress, MapBehindDisk, Free, Idle, NewEmpty
<1>5. AckedIsOnDisk'
  BY DEF TypeOK, Label, File, CallsInProgress, AckedIsOnDisk, Parses, HasTail, ShortOnlyWhenCreated, Free, Idle, NewEmpty
<1>6. BrokenOnlyByCutOrClear'
  BY DEF TypeOK, Label, File, CallsInProgress, ShortOnlyWhenCreated, BrokenOnlyByCutOrClear, HasTail, Parses, Free, Idle, NewEmpty
<1> QED BY <1>1, <1>2, <1>3, <1>4, <1>5, <1>6

(* DeleteEntry keeps the invariant. *)
LEMMA DeleteEntryStep ==
  ASSUME IInv, NEW n \in Name, DeleteEntry(n) PROVE IInv'
<1> USE SentinelAssumption, BoundsAssumption, ContentsLengthType DEF IInv, DeleteEntry
<1>1. TypeOK'
  BY DEF TypeOK, Label, File, Free, Idle
<1>2. CallsInProgress'
  BY DEF TypeOK, Label, File, CallsInProgress, MapBehindDisk, ShortOnlyWhenCreated, Free, Idle
<1>3. ShortOnlyWhenCreated'
  BY DEF TypeOK, Label, File, CallsInProgress, ShortOnlyWhenCreated, MapBehindDisk, Free, Idle
<1>4. MapBehindDisk'
  BY DEF TypeOK, Label, File, CallsInProgress, MapBehindDisk, Free, Idle
<1>5. AckedIsOnDisk'
  BY DEF TypeOK, Label, File, CallsInProgress, AckedIsOnDisk, Parses, HasTail, ShortOnlyWhenCreated, Free, Idle
<1>6. BrokenOnlyByCutOrClear'
  BY DEF TypeOK, Label, File, CallsInProgress, ShortOnlyWhenCreated, BrokenOnlyByCutOrClear, HasTail, Parses, Free, Idle
<1> QED BY <1>1, <1>2, <1>3, <1>4, <1>5, <1>6

(* SetFile keeps the invariant. *)
LEMMA SetFileStep ==
  ASSUME IInv, NEW n \in Name, NEW layer \in Layer \cup {None}, SetFile(n, layer) PROVE IInv'
<1> USE SentinelAssumption, BoundsAssumption, ContentsLengthType DEF IInv, SetFile
<1>1. TypeOK'
  BY DEF TypeOK, Label, File, Free, Idle, WithUpdatedLayer, Overwritten
<1>2. CallsInProgress'
  BY DEF TypeOK, Label, File, CallsInProgress, MapBehindDisk, ShortOnlyWhenCreated, Free, Idle, WithUpdatedLayer, Overwritten
<1>3. ShortOnlyWhenCreated'
  BY DEF TypeOK, Label, File, CallsInProgress, ShortOnlyWhenCreated, MapBehindDisk, Free, Idle, WithUpdatedLayer, Overwritten
<1>4. MapBehindDisk'
  BY DEF TypeOK, Label, File, CallsInProgress, MapBehindDisk, Free, Idle, WithUpdatedLayer, Overwritten
<1>5. AckedIsOnDisk'
  BY DEF TypeOK, Label, File, CallsInProgress, AckedIsOnDisk, Parses, HasTail, ShortOnlyWhenCreated, Free, Idle, WithUpdatedLayer, Overwritten
<1>6. BrokenOnlyByCutOrClear'
  BY DEF TypeOK, Label, File, CallsInProgress, ShortOnlyWhenCreated, BrokenOnlyByCutOrClear, HasTail, Parses, Free, Idle, WithUpdatedLayer, Overwritten
<1> QED BY <1>1, <1>2, <1>3, <1>4, <1>5, <1>6

(* WriteCreated keeps the invariant. *)
LEMMA WriteCreatedStep ==
  ASSUME IInv, WriteCreated PROVE IInv'
<1> USE SentinelAssumption, BoundsAssumption, ContentsLengthType DEF IInv, WriteCreated
<1>0. NewEmpty \in Label /\ ContentsLength(NewEmpty) \in Nat
  BY DEF NewEmpty, Label
<1>1. TypeOK'
  <2>1. running \in [op : {"create", "created", "set"}, name : Name, label : Label]
    BY DEF TypeOK, Idle
  <2>2. file[running.name] \in File
    BY <1>0, <2>1 DEF CallsInProgress, File
  <2>3. file' \in [Name -> File \cup {Absent}]
    BY <1>0, <2>1, <2>2 DEF TypeOK, File
  <2>4. running' \in [op : {"create", "created", "set"}, name : Name, label : Label]
    BY <2>1
  <2> QED BY <2>3, <2>4 DEF TypeOK
<1>2. CallsInProgress'
  BY DEF TypeOK, Label, File, CallsInProgress, MapBehindDisk, ShortOnlyWhenCreated, Idle, NewEmpty
<1>3. ShortOnlyWhenCreated'
  BY DEF TypeOK, Label, File, CallsInProgress, ShortOnlyWhenCreated, MapBehindDisk, Idle, NewEmpty
<1>4. MapBehindDisk'
  BY DEF TypeOK, Label, File, CallsInProgress, MapBehindDisk, Idle, NewEmpty
<1>5. AckedIsOnDisk'
  BY DEF TypeOK, Label, File, CallsInProgress, AckedIsOnDisk, Parses, HasTail, ShortOnlyWhenCreated, Idle, NewEmpty
<1>6. BrokenOnlyByCutOrClear'
  BY DEF TypeOK, Label, File, CallsInProgress, ShortOnlyWhenCreated, BrokenOnlyByCutOrClear, HasTail, Parses, Idle, NewEmpty
<1> QED BY <1>1, <1>2, <1>3, <1>4, <1>5, <1>6

(* InsertLabel keeps the invariant. *)
LEMMA InsertLabelStep ==
  ASSUME IInv, InsertLabel PROVE IInv'
<1> USE SentinelAssumption, BoundsAssumption, ContentsLengthType DEF IInv, InsertLabel
<1>1. TypeOK'
  BY DEF TypeOK, Label, File, Acknowledge, Idle
<1>2. CallsInProgress'
  BY DEF TypeOK, Label, File, CallsInProgress, MapBehindDisk, ShortOnlyWhenCreated, Acknowledge, Idle
<1>3. ShortOnlyWhenCreated'
  BY DEF TypeOK, Label, File, CallsInProgress, ShortOnlyWhenCreated, MapBehindDisk, Acknowledge, Idle
<1>4. MapBehindDisk'
  BY DEF TypeOK, Label, File, CallsInProgress, MapBehindDisk, Acknowledge, Idle
<1>5. AckedIsOnDisk'
  <2>1. /\ running.name \in Name /\ running.label \in Label /\ running.label # Absent
        /\ running # Idle
    BY DEF TypeOK, Idle
  <2>2. /\ file[running.name] # Absent
        /\ file[running.name].label = running.label
        /\ Parses(file[running.name]) \/ HasTail(file[running.name])
    <3>1. file[running.name] \in File
      BY <2>1 DEF CallsInProgress, TypeOK
    <3>2. file[running.name].length \in Nat /\ ContentsLength(running.label) \in Nat
      BY <2>1, <3>1 DEF File
    <3> QED BY <3>2 DEF CallsInProgress, Parses, HasTail
  <2> SUFFICES ASSUME NEW n \in Name, n # running.name, n \notin unsettled
               PROVE  IF acked[n] = Absent
                        THEN file[n] = Absent
                        ELSE /\ file[n] # Absent
                             /\ file[n].label = acked[n]
                             /\ Parses(file[n]) \/ HasTail(file[n])
    BY <2>1, <2>2 DEF AckedIsOnDisk, Acknowledge, TypeOK, Parses, HasTail
  <2> QED BY DEF AckedIsOnDisk
<1>6. BrokenOnlyByCutOrClear'
  BY DEF TypeOK, Label, File, CallsInProgress, ShortOnlyWhenCreated, BrokenOnlyByCutOrClear, HasTail, Parses, Acknowledge, Idle
<1> QED BY <1>1, <1>2, <1>3, <1>4, <1>5, <1>6

(* DeleteFile keeps the invariant. *)
LEMMA DeleteFileStep ==
  ASSUME IInv, DeleteFile PROVE IInv'
<1> USE SentinelAssumption, BoundsAssumption, ContentsLengthType DEF IInv, DeleteFile
<1>1. TypeOK'
  BY DEF TypeOK, Label, File, Acknowledge, Idle
<1>2. CallsInProgress'
  BY DEF TypeOK, Label, File, CallsInProgress, MapBehindDisk, ShortOnlyWhenCreated, Acknowledge, Idle
<1>3. ShortOnlyWhenCreated'
  BY DEF TypeOK, Label, File, CallsInProgress, ShortOnlyWhenCreated, MapBehindDisk, Acknowledge, Idle
<1>4. MapBehindDisk'
  BY DEF TypeOK, Label, File, CallsInProgress, MapBehindDisk, Acknowledge, Idle
<1>5. AckedIsOnDisk'
  BY DEF TypeOK, Label, File, CallsInProgress, AckedIsOnDisk, Parses, HasTail, ShortOnlyWhenCreated, Acknowledge, Idle
<1>6. BrokenOnlyByCutOrClear'
  BY DEF TypeOK, Label, File, CallsInProgress, ShortOnlyWhenCreated, BrokenOnlyByCutOrClear, HasTail, Parses, Acknowledge, Idle
<1> QED BY <1>1, <1>2, <1>3, <1>4, <1>5, <1>6

(* Abandon keeps the invariant. *)
LEMMA AbandonStep ==
  ASSUME IInv, Abandon PROVE IInv'
<1> USE SentinelAssumption, BoundsAssumption, ContentsLengthType DEF IInv, Abandon
<1>1. TypeOK'
  BY DEF TypeOK, Label, File, Idle
<1>2. CallsInProgress'
  BY DEF TypeOK, Label, File, CallsInProgress, MapBehindDisk, ShortOnlyWhenCreated, Idle
<1>3. ShortOnlyWhenCreated'
  BY DEF TypeOK, Label, File, CallsInProgress, ShortOnlyWhenCreated, MapBehindDisk, Idle
<1>4. MapBehindDisk'
  BY DEF TypeOK, Label, File, CallsInProgress, MapBehindDisk, Idle
<1>5. AckedIsOnDisk'
  BY DEF TypeOK, Label, File, CallsInProgress, AckedIsOnDisk, Parses, HasTail, ShortOnlyWhenCreated, Idle
<1>6. BrokenOnlyByCutOrClear'
  BY DEF TypeOK, Label, File, CallsInProgress, ShortOnlyWhenCreated, BrokenOnlyByCutOrClear, HasTail, Parses, Idle
<1> QED BY <1>1, <1>2, <1>3, <1>4, <1>5, <1>6

(* Stop keeps the invariant. *)
LEMMA StopStep ==
  ASSUME IInv, Stop PROVE IInv'
<1> USE SentinelAssumption, BoundsAssumption, ContentsLengthType DEF IInv, Stop
<1>1. TypeOK'
  BY DEF TypeOK, Label, File, Idle
<1>2. CallsInProgress'
  BY DEF TypeOK, Label, File, CallsInProgress, MapBehindDisk, ShortOnlyWhenCreated, Idle
<1>3. ShortOnlyWhenCreated'
  BY DEF TypeOK, Label, File, CallsInProgress, ShortOnlyWhenCreated, MapBehindDisk, Idle
<1>4. MapBehindDisk'
  BY DEF TypeOK, Label, File, CallsInProgress, MapBehindDisk, Idle
<1>5. AckedIsOnDisk'
  BY DEF TypeOK, Label, File, CallsInProgress, AckedIsOnDisk, Parses, HasTail, ShortOnlyWhenCreated, Idle
<1>6. BrokenOnlyByCutOrClear'
  BY DEF TypeOK, Label, File, CallsInProgress, ShortOnlyWhenCreated, BrokenOnlyByCutOrClear, HasTail, Parses, Idle
<1> QED BY <1>1, <1>2, <1>3, <1>4, <1>5, <1>6

(* Every step keeps the invariant.                                         *)
LEMMA NextIInv ==
  ASSUME IInv, [Next]_vars PROVE IInv'
<1>1. CASE UNCHANGED vars
  BY <1>1 DEF vars, IInv, TypeOK, CallsInProgress, ShortOnlyWhenCreated, MapBehindDisk,
              AckedIsOnDisk, BrokenOnlyByCutOrClear, Parses, HasTail
<1>2. CASE Next
  BY <1>2, OpenStep, CreateFileStep, DeleteEntryStep, SetFileStep, WriteCreatedStep,
     InsertLabelStep, DeleteFileStep, AbandonStep, StopStep DEF Next
<1> QED BY <1>1, <1>2

LEMMA Invariance == Spec => []IInv
BY InitIInv, NextIInv, PTL DEF Spec

-----------------------------------------------------------------------------
(* Every reachable state of the caching label store is well typed.         *)
THEOREM TypeCorrect == Spec => []TypeOK
<1>1. IInv => TypeOK
  BY DEF IInv
<1> QED BY <1>1, Invariance, PTL

(* What create_label, set_label, clear_label or delete_label acknowledged  *)
(* is what the file holds, whichever other calls were cut short and        *)
(* however often the store was reopened.                                   *)
THEOREM AcknowledgedIsOnDisk == Spec => []AckedIsOnDisk
<1>1. IInv => AckedIsOnDisk
  BY DEF IInv
<1> QED BY <1>1, Invariance, PTL

(* The map of the open store lags behind its files by at most one update   *)
(* of each label, and is never ahead of them.                              *)
THEOREM MapLagsByOne == Spec => []DiskAtMostOneAhead
<1>1. IInv => DiskAtMostOneAhead
  BY DEF IInv, MapBehindDisk, DiskAtMostOneAhead
<1> QED BY <1>1, Invariance, PTL

(* A store that does not open has a label file that create_label was cut   *)
(* off from, or that clear_label left a tail in.                           *)
THEOREM OpenFailsForTwoReasons == Spec => []BrokenOnlyByCutOrClear
<1>1. IInv => BrokenOnlyByCutOrClear
  BY DEF IInv
<1> QED BY <1>1, Invariance, PTL
=============================================================================
