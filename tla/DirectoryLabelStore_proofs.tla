--------------------- MODULE DirectoryLabelStore_proofs ---------------------
(***************************************************************************)
(* Proofs about DirectoryLabelStore, for any finite set of processes, any  *)
(* layers, and however many calls and crashes there are.                   *)
(***************************************************************************)
EXTENDS DirectoryLabelStore, InductionLemmas, FiniteSetTheorems

N == Cardinality(Proc)

Expl == [label : AnyLabel \cup {Absent}, answer : [Proc -> AnyAnswer \cup {Pending}]]

(* The calls and the explanations have their types.                        *)
HistoryTyped == call \in [Proc -> Call] /\ explained \subseteq Expl

-----------------------------------------------------------------------------
(* Explanations.                                                           *)

LEMMA ProcsAreCounted == N \in Nat
BY ProcAssumption, FS_CardinalityType DEF N

LEMMA LabelsAreLabels == Label \subseteq AnyLabel
BY DEF Label, AnyLabel

(* What the atomic store does to a label, and what it answers.             *)
LEMMA AtomicTypes ==
  ASSUME NEW x \in AnyLabel \cup {Absent}, NEW c \in Call
  PROVE  Applied(x, c) \in AnyLabel \cup {Absent} /\ Answer(x, c) \in AnyAnswer
<1>1. c.op \in {"create", "get", "set", "delete"} /\ c.layer \in Layer \cup {None}
  BY DEF Call
<1>2. NewEmpty \in AnyLabel
  BY DEF NewEmpty, AnyLabel
<1>3. x # Absent => WithUpdatedLayer(x, c.layer) \in AnyLabel
  BY <1>1 DEF WithUpdatedLayer, AnyLabel
<1>4. Applied(x, c) \in AnyLabel \cup {Absent}
  BY <1>1, <1>2, <1>3 DEF Applied
<1>5. Answer(x, c) \in AnyAnswer
  BY <1>1 DEF Answer, AnyAnswer
<1> QED BY <1>4, <1>5

(* Explaining one more call.                                               *)
LEMMA ExplainProperties ==
  ASSUME HistoryTyped, NEW e \in Expl, NEW p \in Proc
  PROVE  /\ Explain(e, p) \in Expl
         /\ Explain(e, p).label = Applied(e.label, call[p])
         /\ Explain(e, p).answer[p] = Answer(e.label, call[p])
         /\ Explain(e, p).answer[p] # Pending
         /\ \A q \in Proc : q # p => Explain(e, p).answer[q] = e.answer[q]
<1>1. e.label \in AnyLabel \cup {Absent} /\ e.answer \in [Proc -> AnyAnswer \cup {Pending}] /\ call[p] \in Call
  BY DEF Expl, HistoryTyped
<1> DEFINE x == Applied(e.label, call[p])
           a == Answer(e.label, call[p])
<1>2. x \in AnyLabel \cup {Absent} /\ a \in AnyAnswer /\ a # Pending
  BY <1>1, AtomicTypes, SentinelAssumption
<1>3. Explain(e, p) = [label |-> x, answer |-> [e.answer EXCEPT ![p] = a]]
  BY DEF Explain
<1> HIDE DEF x, a
<1>4. /\ [e.answer EXCEPT ![p] = a] \in [Proc -> AnyAnswer \cup {Pending}]
      /\ [e.answer EXCEPT ![p] = a][p] = a
      /\ \A q \in Proc : q # p => [e.answer EXCEPT ![p] = a][q] = e.answer[q]
  BY <1>1, <1>2
<1>5. Explain(e, p).label = x /\ Explain(e, p).answer = [e.answer EXCEPT ![p] = a]
  BY <1>3
<1>6. Explain(e, p) \in Expl
  BY <1>2, <1>3, <1>4 DEF Expl
<1> QED BY <1>2, <1>4, <1>5, <1>6 DEF x, a

LEMMA OneMoreElements ==
  ASSUME NEW E, NEW x
  PROVE  x \in OneMore(E) <=>
           \/ x \in E
           \/ \E e \in E : \E p \in Running : e.answer[p] = Pending /\ x = Explain(e, p)
BY DEF OneMore

(* Extensions is built step by step from explained.                        *)
BuildsExtensions(W) ==
  /\ W[0] = explained
  /\ \A n \in 1 .. N : W[n] = OneMore(W[n - 1])
  /\ Extensions = W[N]

LEMMA ExtensionsRec ==
  ASSUME HistoryTyped
  PROVE  \E W \in [0 .. N -> SUBSET Expl] : BuildsExtensions(W)
<1> DEFINE F == CHOOSE f : f = [n \in 0 .. N |-> IF n = 0 THEN explained ELSE OneMore(f[n - 1])]
           step == [x \in (0 .. N) \X SUBSET Expl |-> OneMore(x[2])]
<1>0. N \in Nat /\ explained \in SUBSET Expl
  BY ProcsAreCounted DEF HistoryTyped
<1>1. ASSUME NEW E \in SUBSET Expl PROVE OneMore(E) \in SUBSET Expl
  <2> SUFFICES ASSUME NEW x \in OneMore(E) PROVE x \in Expl
    OBVIOUS
  <2>1. \A e \in E : \A p \in Running : Explain(e, p) \in Expl
    BY ExplainProperties DEF Running
  <2> QED BY <2>1, OneMoreElements
<1>2. Extensions = F[N]
  BY DEF Extensions, N
<1> HIDE DEF N
<1>3. PICK f \in [0 .. N -> SUBSET Expl] : Iterates(f, N, explained, step)
  <2>1. step \in [(0 .. N) \X SUBSET Expl -> SUBSET Expl]
    BY <1>1
  <2> HIDE DEF step
  <2> QED BY <1>0, <2>1, BoundedRecursion
<1>4. f[0] = explained /\ \A n \in 1 .. N : f[n] = OneMore(f[n - 1])
  <2>1. f[0] = explained
    BY <1>3 DEF Iterates
  <2>2. ASSUME NEW n \in 1 .. N PROVE f[n] = OneMore(f[n - 1])
    <3>1. f[n] = step[<<n, f[n - 1]>>]
      BY <1>3 DEF Iterates
    <3>2. n \in 0 .. N /\ f[n - 1] \in SUBSET Expl
      BY <1>0, <1>3
    <3> QED BY <3>1, <3>2
  <2> QED BY <2>1, <2>2
<1>5. f = [n \in 0 .. N |-> IF n = 0 THEN explained ELSE OneMore(f[n - 1])]
  <2>1. \A n \in 0 .. N : n = 0 \/ n \in 1 .. N
    BY <1>0
  <2> QED BY <1>3, <1>4, <2>1
<1>6. F = [n \in 0 .. N |-> IF n = 0 THEN explained ELSE OneMore(F[n - 1])]
  BY <1>5
<1> HIDE DEF F
<1>7. F[0] = explained /\ \A n \in 1 .. N : F[n] = OneMore(F[n - 1])
  <2>1. 0 \in 0 .. N /\ \A n \in 1 .. N : n \in 0 .. N /\ n # 0
    BY <1>0
  <2> QED BY <1>6, <2>1
<1>8. \A n \in 0 .. N : F[n] \in SUBSET Expl
  <2> DEFINE T == {n \in 0 .. N : F[n] \in SUBSET Expl}
  <2>1. 0 \in T
    BY <1>0, <1>7
  <2>2. ASSUME NEW n \in 1 .. N, n - 1 \in T PROVE n \in T
    <3>1. F[n - 1] \in SUBSET Expl /\ n \in 0 .. N
      BY <1>0, <2>2
    <3>2. F[n] \in SUBSET Expl
      BY <1>1, <1>7, <3>1
    <3> QED BY <3>1, <3>2
  <2> HIDE DEF T
  <2>3. \A n \in 0 .. N : n \in T
    BY <1>0, <2>1, <2>2, BoundedInduction
  <2> QED BY <2>3 DEF T
<1>9. F \in [0 .. N -> SUBSET Expl]
  BY <1>6, <1>8
<1> QED BY <1>2, <1>7, <1>9 DEF BuildsExtensions

(* Every explanation found before is an extension.                         *)
LEMMA ExtensionsContain ==
  ASSUME HistoryTyped
  PROVE  explained \subseteq Extensions /\ Extensions \subseteq Expl
<1>0. N \in Nat
  BY ProcsAreCounted
<1>1. PICK W \in [0 .. N -> SUBSET Expl] : BuildsExtensions(W)
  BY ExtensionsRec
<1> DEFINE T == {n \in 0 .. N : explained \subseteq W[n]}
<1>2. 0 \in T
  BY <1>0, <1>1 DEF BuildsExtensions
<1>3. ASSUME NEW n \in 1 .. N, n - 1 \in T PROVE n \in T
  <2>1. W[n - 1] \subseteq W[n]
    BY <1>1, OneMoreElements DEF BuildsExtensions
  <2> QED BY <1>0, <1>3, <2>1
<1> HIDE DEF T
<1>4. \A n \in 0 .. N : n \in T
  BY <1>0, <1>2, <1>3, BoundedInduction
<1>5. N \in 0 .. N
  BY <1>0
<1>6. explained \subseteq W[N] /\ W[N] \subseteq Expl
  BY <1>1, <1>4, <1>5 DEF T
<1> QED BY <1>1, <1>6 DEF BuildsExtensions

(* They are the least set that holds those and is closed under explaining  *)
(* running calls.                                                          *)
LEMMA ExtensionsLeast ==
  ASSUME HistoryTyped, NEW X, explained \subseteq X,
         \A e \in Expl : \A p \in Running :
           e \in X /\ e.answer[p] = Pending => Explain(e, p) \in X
  PROVE  Extensions \subseteq X
<1>0. N \in Nat
  BY ProcsAreCounted
<1>1. PICK W \in [0 .. N -> SUBSET Expl] : BuildsExtensions(W)
  BY ExtensionsRec
<1> DEFINE T == {n \in 0 .. N : W[n] \subseteq X}
<1>2. 0 \in T
  BY <1>0, <1>1 DEF BuildsExtensions
<1>3. ASSUME NEW n \in 1 .. N, n - 1 \in T PROVE n \in T
  <2>1. n \in 0 .. N /\ n - 1 \in 0 .. N /\ W[n - 1] \subseteq X /\ W[n - 1] \subseteq Expl
    BY <1>0, <1>1, <1>3
  <2>2. W[n] = OneMore(W[n - 1])
    BY <1>1 DEF BuildsExtensions
  <2>3. \A x \in W[n] : x \in X
    BY <2>1, <2>2, OneMoreElements
  <2> QED BY <2>1, <2>3
<1> HIDE DEF T
<1>4. \A n \in 0 .. N : n \in T
  BY <1>0, <1>2, <1>3, BoundedInduction
<1>5. N \in 0 .. N
  BY <1>0
<1> QED BY <1>1, <1>4, <1>5 DEF T, BuildsExtensions

(* The calls an explanation has explained.                                 *)
Explained(e) == {p \in Proc : e.answer[p] # Pending}

(* And they are closed: an explanation that appears in the last round has  *)
(* explained every call.                                                   *)
LEMMA ExtensionsClosed ==
  ASSUME HistoryTyped, NEW e \in Extensions, NEW p \in Running, e.answer[p] = Pending
  PROVE  Explain(e, p) \in Extensions
<1>0. N \in Nat
  BY ProcsAreCounted
<1>1. PICK W \in [0 .. N -> SUBSET Expl] : BuildsExtensions(W)
  BY ExtensionsRec
<1>2. \A n \in 1 .. N : W[n] = OneMore(W[n - 1])
  BY <1>1 DEF BuildsExtensions
<1>3. ASSUME NEW S \in SUBSET Proc PROVE IsFiniteSet(S) /\ Cardinality(S) \in Nat /\ Cardinality(S) <= N
  BY ProcAssumption, FS_Subset, FS_CardinalityType DEF N
<1> DEFINE New(n, x) == n = 0 \/ x \notin W[n - 1]
           T == {n \in 0 .. N : \A x \in W[n] : New(n, x) => Cardinality(Explained(x)) >= n}
<1>4. 0 \in T
  <2>1. \A x : Cardinality(Explained(x)) >= 0
    BY <1>3 DEF Explained
  <2> QED BY <1>0, <2>1
<1>5. ASSUME NEW n \in 1 .. N, n - 1 \in T PROVE n \in T
  <2>0. n \in 0 .. N /\ n - 1 \in 0 .. N /\ n # 0 /\ W[n - 1] \subseteq Expl
    BY <1>0, <1>1
  <2> SUFFICES ASSUME NEW x \in W[n], x \notin W[n - 1] PROVE Cardinality(Explained(x)) >= n
    BY <2>0
  <2>1. PICK y \in W[n - 1], q \in Running : y.answer[q] = Pending /\ x = Explain(y, q)
    BY <1>2, OneMoreElements
  <2>2. New(n - 1, y)
    <3> SUFFICES ASSUME n - 1 # 0, y \in W[(n - 1) - 1] PROVE FALSE
      OBVIOUS
    <3>1. n - 1 \in 1 .. N
      BY <1>0
    <3>2. x \in W[n - 1]
      BY <1>2, <2>1, <3>1, OneMoreElements
    <3> QED BY <3>2
  <2>3. Cardinality(Explained(y)) >= n - 1
    BY <1>5, <2>1, <2>2
  <2>4. q \in Proc /\ y \in Expl
    BY <2>0, <2>1 DEF Running
  <2>5. Explained(x) = Explained(y) \cup {q} /\ q \notin Explained(y)
    BY <2>1, <2>4, ExplainProperties DEF Explained
  <2>6. Cardinality(Explained(x)) = Cardinality(Explained(y)) + 1
    <3>1. Explained(y) \in SUBSET Proc
      BY DEF Explained
    <3> QED BY <1>3, <2>5, <3>1, FS_AddElement
  <2>7. Cardinality(Explained(y)) \in Nat
    BY <1>3 DEF Explained
  <2> QED BY <1>0, <2>3, <2>6, <2>7
<1>6. \A n \in 0 .. N : n \in T
  <2> HIDE DEF T
  <2> QED BY <1>0, <1>4, <1>5, BoundedInduction
<1>7. e \in W[N] /\ Extensions = W[N] /\ p \in Proc
  BY <1>1 DEF BuildsExtensions, Running
<1>8. N # 0
  BY <1>7, ProcAssumption, FS_EmptySet DEF N
<1>9. N \in 1 .. N /\ N \in 0 .. N
  BY <1>0, <1>8
<1>10. e \in W[N - 1]
  <2> SUFFICES ASSUME e \notin W[N - 1] PROVE FALSE
    OBVIOUS
  <2>1. Cardinality(Explained(e)) >= N
    BY <1>6, <1>7, <1>9
  <2>2. Explained(e) \in SUBSET Proc /\ Explained(e) # Proc
    BY <1>7 DEF Explained
  <2>3. Cardinality(Explained(e)) # N
    BY <2>2, ProcAssumption, FS_Subset DEF N
  <2>4. Cardinality(Explained(e)) \in Nat /\ Cardinality(Explained(e)) <= N
    BY <1>3, <2>2
  <2> HIDE DEF N
  <2> QED BY <1>0, <2>1, <2>3, <2>4
<1>11. Explain(e, p) \in W[N]
  BY <1>2, <1>9, <1>10, OneMoreElements
<1> QED BY <1>7, <1>11

-----------------------------------------------------------------------------
(* The state of the files and of the processes.                            *)

(* TypeOK, but for the explanations.                                       *)
Typed ==
  /\ dir \in File \cup {NoFile}
  /\ content \in [File -> Label \cup {Empty}]
  /\ pc \in [Proc -> {"idle", "started", "open_new", "create_lock", "create_write",
                      "get_lock", "set_lock", "truncate", "write"}]
  /\ fd \in [Proc -> File \cup {NoFile}]
  /\ call \in [Proc -> Call]
  /\ known \in [Proc -> Label \cup {Absent}]
  /\ ops \in 0 .. MaxOps
  /\ crashes \in 0 .. MaxCrashes

(* Where a process is says what it has open, what it was asked to do, and  *)
(* what it finds in the file it has locked or created.                     *)
ProcOk ==
  \A p \in Proc :
    /\ fd[p] = NoFile <=> pc[p] \in {"idle", "started", "open_new"}
    /\ pc[p] \in {"open_new", "create_lock", "create_write"} => call[p].op = "create"
    /\ pc[p] = "get_lock" => call[p].op = "get"
    /\ pc[p] \in {"set_lock", "truncate", "write"} => call[p].op = "set"
    /\ pc[p] # "idle" /\ call[p].op = "set" =>
         call[p].label \in Label /\ call[p].label.version < ops
    /\ pc[p] = "truncate" => content[fd[p]] = call[p].label
    /\ pc[p] \in {"create_lock", "create_write", "write"} => content[fd[p]] = Empty

(* Whoever else has open a file that is being created or written waits.    *)
Exclusive ==
  \A p, q \in Proc :
    p # q /\ fd[p] = fd[q] /\ pc[p] \in {"create_lock", "create_write", "truncate", "write"}
      => pc[q] \in {"get_lock", "set_lock"}

(* Versions count the calls made.                                          *)
Versions ==
  /\ \A f \in File : content[f] # Empty => content[f].version <= ops
  /\ \A p \in Proc : known[p] # Absent => known[p].version <= ops

(* A file in use is empty only while it is being created or written, as    *)
(* long as no process died.                                                *)
Filled ==
  crashes = 0 =>
    \A f \in File :
      (f = dir \/ \E p \in Proc : fd[p] = f) /\ content[f] = Empty =>
        \E q \in Proc : fd[q] = f /\ pc[q] \in {"create_lock", "create_write", "write"}

Program == Typed /\ ProcOk /\ Exclusive /\ Versions /\ Filled

(* Only process p takes a step.                                            *)
Only(p) ==
  \A q \in Proc : q # p =>
    pc'[q] = pc[q] /\ fd'[q] = fd[q] /\ call'[q] = call[q] /\ known'[q] = known[q]

LEMMA LabelFacts ==
  /\ NewEmpty \in Label /\ NewEmpty.version = 0 /\ NewEmpty # Empty /\ NewEmpty # Absent
  /\ Absent \notin Label /\ Empty \notin Label /\ NoCall \in Call
  /\ \A x \in Label : x.version \in Nat
  /\ NoFile \notin File
<1>1. NewEmpty \in Label /\ NewEmpty.version = 0
  BY BoundsAssumption DEF NewEmpty, Label
<1>2. Absent \notin Label /\ Empty \notin Label
  BY LabelsAreLabels, SentinelAssumption
<1>3. NoCall \in Call
  BY DEF NoCall, Call
<1>4. \A x \in Label : x.version \in Nat
  BY BoundsAssumption DEF Label
<1>5. NoFile \notin File
  BY SentinelAssumption, ProcsAreCounted DEF File, N
<1> QED BY <1>1, <1>2, <1>3, <1>4, <1>5

(* A file that no process has open.                                        *)
LEMMA FreeFile ==
  ASSUME Typed
  PROVE  \E x \in File : \A q \in Proc : fd[q] # x
<1>1. IsFiniteSet(File) /\ Cardinality(File) = N + 1
  <2>1. File = 1 .. (N + 1) /\ N \in Nat /\ 1 \in Int /\ N + 1 \in Int
    BY ProcsAreCounted DEF File, N
  <2> HIDE DEF N
  <2> QED BY <2>1, FS_Interval
<1>2. Cardinality(Proc) < Cardinality(File)
  BY <1>1, ProcsAreCounted DEF N
<1> SUFFICES ASSUME \A x \in File : \E q \in Proc : fd[q] = x PROVE FALSE
  OBVIOUS
<1> DEFINE g == [x \in File |-> CHOOSE q \in Proc : fd[q] = x]
<1>3. g \in [File -> Proc] /\ \A x \in File : fd[g[x]] = x
  OBVIOUS
<1> HIDE DEF g
<1>4. \E x, y \in File : x # y /\ g[x] = g[y]
  BY <1>1, <1>2, <1>3, ProcAssumption, FS_PigeonHole
<1> QED BY <1>3, <1>4

(* A call that has no file, or waits, ends.                                *)
LEMMA EndsOk ==
  ASSUME Program, NEW p \in Proc, Ends(p), content' = content, ops' = ops,
         dir' \in {dir, NoFile}, crashes' \in 0 .. MaxCrashes,
         crashes' = 0 => crashes = 0 /\ pc[p] \notin {"create_lock", "create_write", "write"},
         known' \in [Proc -> Label \cup {Absent}],
         \A q \in Proc : q # p => known'[q] = known[q],
         known'[p] # Absent => known'[p].version <= ops
  PROVE  Program'
<1>0. Typed /\ ProcOk /\ Exclusive /\ Versions /\ Filled
  BY DEF Program
<1>1. /\ pc' \in [Proc -> {"idle", "started", "open_new", "create_lock", "create_write",
                           "get_lock", "set_lock", "truncate", "write"}]
      /\ fd' \in [Proc -> File \cup {NoFile}] /\ call' \in [Proc -> Call]
      /\ pc'[p] = "idle" /\ fd'[p] = NoFile /\ Only(p)
  BY <1>0, LabelFacts DEF Ends, Typed, Only
<1>2. Typed'
  BY <1>0, <1>1 DEF Typed
<1>3. ProcOk'
  BY <1>0, <1>1 DEF ProcOk, Only
<1>4. Exclusive'
  <2>1. \A q \in Proc : fd[q] = NoFile => pc[q] \in {"idle", "started", "open_new"}
    BY <1>0 DEF ProcOk
  <2> QED BY <1>0, <1>1, <2>1 DEF Exclusive, Only
<1>5. Versions'
  BY <1>0, <1>1 DEF Versions, Only
<1>6. Filled'
  <2> SUFFICES ASSUME crashes' = 0, NEW f \in File, content[f] = Empty,
                      f = dir' \/ \E q \in Proc : fd'[q] = f
               PROVE  \E q \in Proc : fd'[q] = f /\ pc'[q] \in {"create_lock", "create_write", "write"}
    BY DEF Filled
  <2>1. f = dir \/ \E q \in Proc : fd[q] = f
    BY <1>1, LabelFacts DEF Only
  <2>2. PICK q \in Proc : fd[q] = f /\ pc[q] \in {"create_lock", "create_write", "write"}
    BY <1>0, <2>1 DEF Filled
  <2>3. q # p
    BY <2>2
  <2> QED BY <1>1, <2>2, <2>3 DEF Only
<1> QED BY <1>2, <1>3, <1>4, <1>5, <1>6 DEF Program

LEMMA StartOk ==
  ASSUME Program, NEW p \in Proc, Start(p)
  PROVE  Program'
<1>0. Typed /\ ProcOk /\ Exclusive /\ Versions /\ Filled
  BY DEF Program
<1>1. /\ pc[p] = "idle" /\ ops < MaxOps /\ ops' = ops + 1 /\ pc' = [pc EXCEPT ![p] = "started"]
      /\ UNCHANGED <<dir, content, fd, known, crashes, explained>>
  BY DEF Start, GoTo
<1>2. PICK op \in {"create", "get", "set", "delete"}, layer \in Layer \cup {None} :
        /\ op = "set" => known[p] # Absent
        /\ call' = [call EXCEPT ![p] = [op |-> op, label |-> IF op = "set" THEN known[p] ELSE Absent, layer |-> layer]]
  BY DEF Start
<1> DEFINE c == [op |-> op, label |-> IF op = "set" THEN known[p] ELSE Absent, layer |-> layer]
<1>3. c \in Call /\ c.op = op /\ (op = "set" => c.label = known[p])
  BY <1>0 DEF Call, Typed
<1>4. call' = [call EXCEPT ![p] = c]
  BY <1>2
<1> HIDE DEF c
<1>5. /\ call' \in [Proc -> Call] /\ call'[p] = c /\ pc'[p] = "started" /\ Only(p)
      /\ ops' \in 0 .. MaxOps /\ ops \in Nat
  BY <1>0, <1>1, <1>3, <1>4, BoundsAssumption DEF Typed, Only
<1>6. Typed'
  BY <1>0, <1>1, <1>5 DEF Typed
<1>7. ProcOk'
  <2>1. op = "set" => c.label \in Label /\ c.label.version < ops'
    BY <1>0, <1>1, <1>2, <1>3, <1>5, LabelFacts DEF Typed, Versions
  <2>2. \A q \in Proc : pc[q] # "idle" /\ call[q].op = "set" => call[q].label \in Label /\ call[q].label.version < ops'
    BY <1>0, <1>1, <1>5, LabelFacts DEF ProcOk
  <2>3. \A q \in Proc : q # p =>
          pc'[q] = pc[q] /\ fd'[q] = fd[q] /\ call'[q] = call[q]
    BY <1>5 DEF Only
  <2> SUFFICES ASSUME NEW q \in Proc
               PROVE  /\ fd'[q] = NoFile <=> pc'[q] \in {"idle", "started", "open_new"}
                      /\ pc'[q] \in {"open_new", "create_lock", "create_write"} => call'[q].op = "create"
                      /\ pc'[q] = "get_lock" => call'[q].op = "get"
                      /\ pc'[q] \in {"set_lock", "truncate", "write"} => call'[q].op = "set"
                      /\ pc'[q] # "idle" /\ call'[q].op = "set" =>
                           call'[q].label \in Label /\ call'[q].label.version < ops'
                      /\ pc'[q] = "truncate" => content'[fd'[q]] = call'[q].label
                      /\ pc'[q] \in {"create_lock", "create_write", "write"} => content'[fd'[q]] = Empty
    BY DEF ProcOk
  <2>4. CASE q = p
    BY <1>0, <1>1, <1>3, <1>5, <2>1, <2>4 DEF ProcOk
  <2>5. CASE q # p
    BY <1>0, <1>1, <2>2, <2>3, <2>5 DEF ProcOk
  <2> QED BY <2>4, <2>5
<1>8. Exclusive'
  <2>1. \A q \in Proc : fd[q] = fd[p] => pc[q] \in {"idle", "started", "open_new"}
    BY <1>0, <1>1 DEF ProcOk
  <2> QED BY <1>0, <1>1, <1>5, <2>1 DEF Exclusive, Only
<1>9. Versions'
  BY <1>0, <1>1, <1>5, LabelFacts DEF Versions, Typed
<1>10. Filled'
  BY <1>0, <1>1, <1>5 DEF Filled, Only
<1> QED BY <1>6, <1>7, <1>8, <1>9, <1>10 DEF Program

(* A process goes on with the file it has, and changes nothing.            *)
LEMMA GoesOn ==
  ASSUME Program, NEW p \in Proc, NEW where, GoTo(p, where),
         UNCHANGED <<dir, content, fd, call, known, ops, crashes>>,
         \/ pc[p] = "started" /\ where = "open_new" /\ call[p].op = "create"
         \/ pc[p] = "create_lock" /\ where = "create_write"
         \/ pc[p] = "set_lock" /\ where = "truncate" /\ CanLock(fd[p]) /\ content[fd[p]] = call[p].label
  PROVE  Program'
<1>0. Typed /\ ProcOk /\ Exclusive /\ Versions /\ Filled
  BY DEF Program
<1>1. /\ pc' \in [Proc -> {"idle", "started", "open_new", "create_lock", "create_write",
                           "get_lock", "set_lock", "truncate", "write"}]
      /\ pc'[p] = where /\ Only(p)
  BY <1>0 DEF GoTo, Typed, Only
<1>2. Typed' /\ Versions'
  BY <1>0, <1>1 DEF Typed, Versions
<1>3. ProcOk'
  BY <1>0, <1>1, LabelFacts DEF ProcOk, Only
<1>4. Exclusive'
  <2>1. ASSUME pc[p] = "set_lock", NEW q \in Proc, q # p, fd[q] = fd[p]
        PROVE  pc[q] \in {"get_lock", "set_lock"}
    <3>1. fd[q] # NoFile
      BY <1>0, <2>1 DEF ProcOk
    <3>2. pc[q] \notin {"create_write", "truncate", "write"}
      BY <2>1 DEF CanLock, HoldsExclusive
    <3>3. pc[q] # "create_lock"
      BY <1>0, <2>1, LabelFacts DEF ProcOk
    <3> QED BY <1>0, <3>1, <3>2, <3>3 DEF ProcOk, Typed
  <2>2. ASSUME pc[p] = "started", NEW q \in Proc, q # p, fd[q] = fd[p]
        PROVE  pc[q] \in {"idle", "started", "open_new"}
    BY <1>0, <2>2 DEF ProcOk
  <2> SUFFICES ASSUME NEW q \in Proc, NEW r \in Proc, q # r, fd[q] = fd[r],
                      pc'[q] \in {"create_lock", "create_write", "truncate", "write"}
               PROVE  pc'[r] \in {"get_lock", "set_lock"}
    BY DEF Exclusive
  <2>3. CASE q = p
    BY <1>0, <1>1, <2>1, <2>3 DEF Exclusive, Only
  <2>4. CASE r = p
    BY <1>0, <1>1, <2>1, <2>2, <2>4 DEF Exclusive, Only
  <2>5. CASE q # p /\ r # p
    BY <1>0, <1>1, <2>5 DEF Exclusive, Only
  <2> QED BY <2>3, <2>4, <2>5
<1>5. Filled'
  BY <1>0, <1>1 DEF Filled, Only
<1> QED BY <1>2, <1>3, <1>4, <1>5 DEF Program

(* A process opens the file the directory leads to.                        *)
LEMMA Opens ==
  ASSUME Program, NEW p \in Proc, NEW where, GoTo(p, where), dir # NoFile,
         fd' = [fd EXCEPT ![p] = dir], pc[p] = "started",
         UNCHANGED <<dir, content, call, known, ops, crashes>>,
         \/ where = "get_lock" /\ call[p].op = "get"
         \/ where = "set_lock" /\ call[p].op = "set"
  PROVE  Program'
<1>0. Typed /\ ProcOk /\ Exclusive /\ Versions /\ Filled
  BY DEF Program
<1>1. /\ pc' \in [Proc -> {"idle", "started", "open_new", "create_lock", "create_write",
                           "get_lock", "set_lock", "truncate", "write"}]
      /\ fd' \in [Proc -> File \cup {NoFile}]
      /\ pc'[p] = where /\ fd'[p] = dir /\ Only(p)
  BY <1>0 DEF GoTo, Typed, Only
<1>2. Typed' /\ Versions'
  BY <1>0, <1>1 DEF Typed, Versions
<1>3. ProcOk'
  BY <1>0, <1>1, LabelFacts DEF ProcOk, Only
<1>4. Exclusive'
  BY <1>0, <1>1 DEF Exclusive, Only
<1>5. Filled'
  <2> SUFFICES ASSUME crashes = 0, NEW f \in File, content[f] = Empty,
                      f = dir \/ \E q \in Proc : fd'[q] = f
               PROVE  \E q \in Proc : fd'[q] = f /\ pc'[q] \in {"create_lock", "create_write", "write"}
    BY DEF Filled
  <2>1. f = dir \/ \E q \in Proc : fd[q] = f
    BY <1>1 DEF Only
  <2>2. PICK q \in Proc : fd[q] = f /\ pc[q] \in {"create_lock", "create_write", "write"}
    BY <1>0, <2>1 DEF Filled
  <2> QED BY <1>1, <2>2 DEF Only
<1> QED BY <1>2, <1>3, <1>4, <1>5 DEF Program

(* create_new gives the creator a file of its own.                         *)
LEMMA OpensNew ==
  ASSUME Program, NEW p \in Proc, NEW f \in File, \A q \in Proc : fd[q] # f,
         pc[p] = "open_new", GoTo(p, "create_lock"), dir' = f,
         content' = [content EXCEPT ![f] = Empty], fd' = [fd EXCEPT ![p] = f],
         UNCHANGED <<call, known, ops, crashes>>
  PROVE  Program'
<1>0. Typed /\ ProcOk /\ Exclusive /\ Versions /\ Filled
  BY DEF Program
<1>1. /\ pc' \in [Proc -> {"idle", "started", "open_new", "create_lock", "create_write",
                           "get_lock", "set_lock", "truncate", "write"}]
      /\ fd' \in [Proc -> File \cup {NoFile}] /\ content' \in [File -> Label \cup {Empty}]
      /\ pc'[p] = "create_lock" /\ fd'[p] = f /\ content'[f] = Empty /\ Only(p)
      /\ \A g \in File : g # f => content'[g] = content[g]
  BY <1>0 DEF GoTo, Typed, Only
<1>2. Typed' /\ Versions'
  BY <1>0, <1>1 DEF Typed, Versions
<1>3. \A q \in Proc : q # p => fd'[q] # f /\ (fd'[q] # NoFile => content'[fd'[q]] = content[fd[q]])
  BY <1>0, <1>1 DEF Only, Typed
<1>4. ProcOk'
  <2> SUFFICES ASSUME NEW q \in Proc
               PROVE  /\ fd'[q] = NoFile <=> pc'[q] \in {"idle", "started", "open_new"}
                      /\ pc'[q] \in {"open_new", "create_lock", "create_write"} => call'[q].op = "create"
                      /\ pc'[q] = "get_lock" => call'[q].op = "get"
                      /\ pc'[q] \in {"set_lock", "truncate", "write"} => call'[q].op = "set"
                      /\ pc'[q] # "idle" /\ call'[q].op = "set" =>
                           call'[q].label \in Label /\ call'[q].label.version < ops'
                      /\ pc'[q] = "truncate" => content'[fd'[q]] = call'[q].label
                      /\ pc'[q] \in {"create_lock", "create_write", "write"} => content'[fd'[q]] = Empty
    BY DEF ProcOk
  <2>1. CASE q = p
    BY <1>0, <1>1, <2>1, LabelFacts DEF ProcOk
  <2>2. CASE q # p
    BY <1>0, <1>1, <1>3, <2>2 DEF ProcOk, Only
  <2> QED BY <2>1, <2>2
<1>5. Exclusive'
  BY <1>0, <1>1, <1>3 DEF Exclusive, Only
<1>6. Filled'
  <2> SUFFICES ASSUME crashes = 0, NEW g \in File, content'[g] = Empty,
                      g = dir' \/ \E q \in Proc : fd'[q] = g
               PROVE  \E q \in Proc : fd'[q] = g /\ pc'[q] \in {"create_lock", "create_write", "write"}
    BY DEF Filled
  <2>1. CASE g = f
    BY <1>1, <2>1
  <2>2. CASE g # f
    <3>1. content[g] = Empty /\ \E q \in Proc : fd[q] = g
      BY <1>1, <2>2 DEF Only
    <3>2. PICK q \in Proc : fd[q] = g /\ pc[q] \in {"create_lock", "create_write", "write"}
      BY <1>0, <3>1 DEF Filled
    <3>3. q # p
      BY <3>2
    <3> QED BY <1>1, <3>2, <3>3 DEF Only
  <2> QED BY <2>1, <2>2
<1> QED BY <1>2, <1>4, <1>5, <1>6 DEF Program

(* The file is truncated under the lock.                                   *)
LEMMA Truncates ==
  ASSUME Program, NEW p \in Proc, SetTruncate(p)
  PROVE  Program'
<1>0. Typed /\ ProcOk /\ Exclusive /\ Versions /\ Filled
  BY DEF Program
<1> DEFINE f == fd[p]
<1>1. /\ pc[p] = "truncate" /\ pc' = [pc EXCEPT ![p] = "write"]
      /\ content' = [content EXCEPT ![f] = Empty]
      /\ UNCHANGED <<dir, fd, call, known, ops, crashes>>
  BY DEF SetTruncate, GoTo
<1>2. f \in File
  BY <1>0, <1>1 DEF ProcOk, Typed
<1> HIDE DEF f
<1>3. /\ pc' \in [Proc -> {"idle", "started", "open_new", "create_lock", "create_write",
                           "get_lock", "set_lock", "truncate", "write"}]
      /\ content' \in [File -> Label \cup {Empty}]
      /\ pc'[p] = "write" /\ content'[f] = Empty /\ Only(p)
      /\ \A g \in File : g # f => content'[g] = content[g]
  BY <1>0, <1>1, <1>2 DEF Typed, Only
<1>4. Typed' /\ Versions'
  BY <1>0, <1>1, <1>3 DEF Typed, Versions
<1>5. \A q \in Proc : q # p /\ fd[q] = f => pc[q] \in {"get_lock", "set_lock"}
  BY <1>0, <1>1 DEF Exclusive, f
<1>6. ProcOk'
  <2>1. \A q \in Proc : fd[q] \in File \/ fd[q] = NoFile
    BY <1>0 DEF Typed
  <2> SUFFICES ASSUME NEW q \in Proc
               PROVE  /\ fd'[q] = NoFile <=> pc'[q] \in {"idle", "started", "open_new"}
                      /\ pc'[q] \in {"open_new", "create_lock", "create_write"} => call'[q].op = "create"
                      /\ pc'[q] = "get_lock" => call'[q].op = "get"
                      /\ pc'[q] \in {"set_lock", "truncate", "write"} => call'[q].op = "set"
                      /\ pc'[q] # "idle" /\ call'[q].op = "set" =>
                           call'[q].label \in Label /\ call'[q].label.version < ops'
                      /\ pc'[q] = "truncate" => content'[fd'[q]] = call'[q].label
                      /\ pc'[q] \in {"create_lock", "create_write", "write"} => content'[fd'[q]] = Empty
    BY DEF ProcOk
  <2>2. CASE q = p
    BY <1>0, <1>1, <1>2, <1>3, <2>2, LabelFacts DEF ProcOk, f
  <2>3. CASE q # p
    BY <1>0, <1>1, <1>3, <1>5, <2>1, <2>3 DEF ProcOk, Only
  <2> QED BY <2>2, <2>3
<1>7. Exclusive'
  BY <1>0, <1>1, <1>3 DEF Exclusive, Only
<1>8. Filled'
  <2> SUFFICES ASSUME crashes = 0, NEW g \in File, content'[g] = Empty,
                      g = dir \/ \E q \in Proc : fd[q] = g
               PROVE  \E q \in Proc : fd[q] = g /\ pc'[q] \in {"create_lock", "create_write", "write"}
    BY <1>1 DEF Filled
  <2>1. CASE g = f
    BY <1>3, <2>1 DEF f
  <2>2. CASE g # f
    <3>1. PICK q \in Proc : fd[q] = g /\ pc[q] \in {"create_lock", "create_write", "write"}
      BY <1>0, <1>3, <2>2 DEF Filled
    <3>2. q # p
      BY <2>2, <3>1 DEF f
    <3> QED BY <1>3, <3>1, <3>2 DEF Only
  <2> QED BY <2>1, <2>2
<1> QED BY <1>4, <1>6, <1>7, <1>8 DEF Program

(* A label is written under the lock, and the call ends.                   *)
LEMMA Writes ==
  ASSUME Program, NEW p \in Proc, pc[p] \in {"create_write", "write"}, Ends(p),
         NEW x \in Label, x.version <= ops,
         content' = [content EXCEPT ![fd[p]] = x], known' = [known EXCEPT ![p] = x],
         UNCHANGED <<dir, ops, crashes>>
  PROVE  Program'
<1>0. Typed /\ ProcOk /\ Exclusive /\ Versions /\ Filled
  BY DEF Program
<1> DEFINE f == fd[p]
<1>2. f \in File
  BY <1>0 DEF ProcOk, Typed
<1>3. /\ pc' \in [Proc -> {"idle", "started", "open_new", "create_lock", "create_write",
                           "get_lock", "set_lock", "truncate", "write"}]
      /\ fd' \in [Proc -> File \cup {NoFile}] /\ call' \in [Proc -> Call]
      /\ content' \in [File -> Label \cup {Empty}] /\ known' \in [Proc -> Label \cup {Absent}]
      /\ pc'[p] = "idle" /\ fd'[p] = NoFile /\ known'[p] = x /\ content'[f] = x /\ Only(p)
      /\ \A g \in File : g # f => content'[g] = content[g]
  BY <1>0, <1>2, LabelFacts DEF Ends, Typed, Only
<1>5. \A q \in Proc : q # p /\ fd[q] = f => pc[q] \in {"get_lock", "set_lock"}
  BY <1>0 DEF Exclusive
<1>a. \A q \in Proc : fd[q] \in File \/ fd[q] = NoFile
  BY <1>0 DEF Typed
<1> HIDE DEF f
<1>4. Typed' /\ Versions'
  BY <1>0, <1>3 DEF Typed, Versions, Only
<1>6. ProcOk'
  <2> SUFFICES ASSUME NEW q \in Proc
               PROVE  /\ fd'[q] = NoFile <=> pc'[q] \in {"idle", "started", "open_new"}
                      /\ pc'[q] \in {"open_new", "create_lock", "create_write"} => call'[q].op = "create"
                      /\ pc'[q] = "get_lock" => call'[q].op = "get"
                      /\ pc'[q] \in {"set_lock", "truncate", "write"} => call'[q].op = "set"
                      /\ pc'[q] # "idle" /\ call'[q].op = "set" =>
                           call'[q].label \in Label /\ call'[q].label.version < ops'
                      /\ pc'[q] = "truncate" => content'[fd'[q]] = call'[q].label
                      /\ pc'[q] \in {"create_lock", "create_write", "write"} => content'[fd'[q]] = Empty
    BY DEF ProcOk
  <2>1. CASE q = p
    BY <1>3, <2>1
  <2>2. CASE q # p
    BY <1>0, <1>3, <1>5, <1>a, <2>2 DEF ProcOk, Only
  <2> QED BY <2>1, <2>2
<1>7. Exclusive'
  <2>1. \A q \in Proc : fd[q] = NoFile => pc[q] \in {"idle", "started", "open_new"}
    BY <1>0 DEF ProcOk
  <2> QED BY <1>0, <1>3, <2>1 DEF Exclusive, Only
<1>8. Filled'
  <2> SUFFICES ASSUME crashes = 0, NEW g \in File, content'[g] = Empty,
                      g = dir \/ \E q \in Proc : fd'[q] = g
               PROVE  \E q \in Proc : fd'[q] = g /\ pc'[q] \in {"create_lock", "create_write", "write"}
    BY DEF Filled
  <2>1. g # f /\ content[g] = Empty
    BY <1>3, LabelFacts
  <2>2. g = dir \/ \E q \in Proc : fd[q] = g
    BY <1>3, LabelFacts DEF Only
  <2>3. PICK q \in Proc : fd[q] = g /\ pc[q] \in {"create_lock", "create_write", "write"}
    BY <1>0, <2>1, <2>2 DEF Filled
  <2>4. q # p
    BY <2>1, <2>3 DEF f
  <2> QED BY <1>3, <2>3, <2>4 DEF Only
<1> QED BY <1>4, <1>6, <1>7, <1>8 DEF Program

-----------------------------------------------------------------------------
(* The labels of the explanations.                                         *)

Dated(e) == e.label # Absent => e.label.version <= ops

Recorded == explained \subseteq Expl /\ \A e \in explained : Dated(e)

LEMMA ForgetProperties ==
  ASSUME NEW e \in Expl, NEW p \in Proc
  PROVE  /\ Forget(e, p) \in Expl
         /\ Forget(e, p).label = e.label
         /\ Forget(e, p).answer[p] = Pending
         /\ \A q \in Proc : q # p => Forget(e, p).answer[q] = e.answer[q]
<1>1. e.label \in AnyLabel \cup {Absent} /\ e.answer \in [Proc -> AnyAnswer \cup {Pending}]
  BY DEF Expl
<1>2. e = [label |-> e.label, answer |-> e.answer]
  BY DEF Expl
<1>3. Forget(e, p) = [label |-> e.label, answer |-> [e.answer EXCEPT ![p] = Pending]]
  BY <1>2 DEF Forget
<1>4. /\ [e.answer EXCEPT ![p] = Pending] \in [Proc -> AnyAnswer \cup {Pending}]
      /\ [e.answer EXCEPT ![p] = Pending][p] = Pending
      /\ \A q \in Proc : q # p => [e.answer EXCEPT ![p] = Pending][q] = e.answer[q]
  BY <1>1
<1>5. Forget(e, p).label = e.label /\ Forget(e, p).answer = [e.answer EXCEPT ![p] = Pending]
  BY <1>3
<1>6. Forget(e, p) \in Expl
  BY <1>1, <1>3, <1>4 DEF Expl
<1> QED BY <1>4, <1>5, <1>6

LEMMA ProgramHistory ==
  ASSUME Program, Recorded
  PROVE  HistoryTyped
BY DEF Program, Typed, Recorded, HistoryTyped

(* No explanation gives a label more versions than there were calls.       *)
LEMMA ExtensionsDated ==
  ASSUME Program, Recorded
  PROVE  \A e \in Extensions : e \in Expl /\ Dated(e)
<1> DEFINE X == {e \in Expl : Dated(e)}
<1>0. HistoryTyped /\ ops \in Nat /\ call \in [Proc -> Call] /\ ProcOk
  BY ProgramHistory, BoundsAssumption DEF Program, Typed
<1>1. explained \subseteq X
  BY DEF Recorded
<1>2. ASSUME NEW e \in Expl, NEW p \in Running, e \in X PROVE Explain(e, p) \in X
  <2>1. p \in Proc /\ pc[p] # "idle" /\ e.label \in AnyLabel \cup {Absent} /\ Dated(e)
    BY <1>2 DEF Running, Expl
  <2>2. Explain(e, p) \in Expl /\ Explain(e, p).label = Applied(e.label, call[p])
    BY <1>0, <2>1, ExplainProperties
  <2>3. call[p].op = "set" => call[p].label \in Label /\ call[p].label.version < ops
    BY <1>0, <2>1 DEF ProcOk
  <2>4. call[p].op \in {"create", "get", "set", "delete"}
    BY <1>0, <2>1 DEF Call
  <2> DEFINE x == e.label
             c == call[p]
  <2> HIDE DEF x, c
  <2>5. CASE c.op = "create"
    <3>1. Applied(x, c) = IF x = Absent THEN NewEmpty ELSE x
      BY <2>5 DEF Applied
    <3> QED BY <1>0, <2>1, <2>2, <3>1, LabelFacts DEF Dated, x, c
  <2>6. CASE c.op = "get"
    <3>1. Applied(x, c) = x
      BY <2>6 DEF Applied
    <3> QED BY <2>1, <2>2, <3>1 DEF Dated, x, c
  <2>7. CASE c.op = "set"
    <3>1. Applied(x, c) = IF x # Absent /\ x = c.label THEN WithUpdatedLayer(x, c.layer) ELSE x
      BY <2>7 DEF Applied
    <3>2. x = c.label => WithUpdatedLayer(x, c.layer).version <= ops
      BY <1>0, <2>3, <2>7, LabelFacts DEF WithUpdatedLayer, c
    <3> QED BY <2>1, <2>2, <3>1, <3>2 DEF Dated, x, c
  <2>8. CASE c.op = "delete"
    <3>1. Applied(x, c) = Absent
      BY <2>8 DEF Applied
    <3> QED BY <2>1, <2>2, <3>1 DEF Dated, x, c
  <2> QED BY <2>4, <2>5, <2>6, <2>7, <2>8 DEF c
<1> HIDE DEF X
<1>3. Extensions \subseteq X
  BY <1>0, <1>1, <1>2, ExtensionsLeast
<1> QED BY <1>3 DEF X

(* So after any of the ways a call ends.                                   *)
LEMMA RecordedKept ==
  ASSUME Program, Recorded, ops' \in Nat, ops <= ops', NEW p \in Proc,
         \/ explained' \subseteq explained
         \/ explained' \subseteq {Forget(e, p) : e \in Extensions}
  PROVE  Recorded'
<1>0. ops \in Nat /\ \A e \in explained : e \in Expl /\ Dated(e)
  BY BoundsAssumption DEF Program, Typed, Recorded
<1>1. \A e \in explained' : e \in Expl /\ (e.label # Absent => e.label.version <= ops)
  <2>1. CASE explained' \subseteq explained
    BY <1>0, <2>1 DEF Dated
  <2>2. CASE explained' \subseteq {Forget(e, p) : e \in Extensions}
    BY <2>2, ExtensionsDated, ForgetProperties DEF Dated
  <2> QED BY <2>1, <2>2
<1>2. \A e \in explained' : e.label # Absent => e.label.version \in Nat
  BY <1>1 DEF Expl, AnyLabel
<1> QED BY <1>0, <1>1, <1>2 DEF Recorded, Dated

-----------------------------------------------------------------------------
(* The programs' invariant is kept by every step.                          *)
LEMMA InitProgram ==
  ASSUME Init PROVE Program /\ Recorded
<1> USE DEF Init
<1>1. Typed
  BY LabelFacts, BoundsAssumption DEF Typed
<1>2. ProcOk /\ Exclusive
  BY DEF ProcOk, Exclusive
<1>3. Versions /\ Filled
  BY LabelFacts DEF Versions, Filled
<1>4. Recorded
  <2>1. [p \in Proc |-> Pending] \in [Proc -> AnyAnswer \cup {Pending}]
    OBVIOUS
  <2>2. [label |-> Absent, answer |-> [p \in Proc |-> Pending]] \in Expl
    BY <2>1 DEF Expl
  <2>3. [label |-> Absent, answer |-> [p \in Proc |-> Pending]].label = Absent
    OBVIOUS
  <2> QED BY <2>2, <2>3 DEF Recorded, Dated
<1> QED BY <1>1, <1>2, <1>3, <1>4 DEF Program

LEMMA ProceedProgram ==
  ASSUME Program, Recorded, NEW p \in Proc, Proceed(p)
  PROVE  Program' /\ Recorded'
<1>0. Typed /\ ProcOk /\ Versions /\ ops \in Nat /\ crashes \in 0 .. MaxCrashes
  BY BoundsAssumption DEF Program, Typed
<1>1. ASSUME NEW r, Answers(p, r) PROVE explained' \subseteq {Forget(e, p) : e \in Extensions}
  BY <1>1 DEF Answers
<1>2. ASSUME AnswersInvalid(p) PROVE explained' \subseteq explained
  BY <1>2 DEF AnswersInvalid
<1>a. ASSUME ops' = ops, NEW r, Answers(p, r) PROVE Recorded'
  <2>1. explained' \subseteq {Forget(e, p) : e \in Extensions} /\ ops' \in Nat /\ ops <= ops'
    BY <1>0, <1>1, <1>a
  <2> QED BY <2>1, RecordedKept
<1>b. ASSUME ops' = ops, explained' \subseteq explained PROVE Recorded'
  <2>1. ops' \in Nat /\ ops <= ops'
    BY <1>0, <1>b
  <2> QED BY <1>b, <2>1, RecordedKept
<1>3. ASSUME Ends(p), UNCHANGED <<content, known, ops, crashes>>, dir' \in {dir, NoFile},
             pc[p] \notin {"create_lock", "create_write", "write"}
      PROVE  Program'
  BY <1>0, <1>3, EndsOk DEF Typed, Versions
<1>4. CASE CreateCheck(p)
  <2>1. CASE dir # NoFile /\ Answers(p, <<"exists">>)
    <3>1. Program'
      BY <1>3, <1>4, <2>1 DEF CreateCheck, Answers
    <3>2. Recorded'
      BY <1>a, <1>4, <2>1 DEF CreateCheck
    <3> QED BY <3>1, <3>2
  <2>2. CASE GoTo(p, "open_new") /\ UNCHANGED <<fd, call, explained>>
    <3>1. Program'
      BY <1>4, <2>2, GoesOn DEF CreateCheck
    <3>2. Recorded'
      BY <1>b, <1>4, <2>2 DEF CreateCheck
    <3> QED BY <3>1, <3>2
  <2> QED BY <1>4, <2>1, <2>2 DEF CreateCheck
<1>5. CASE CreateOpen(p)
  <2>1. CASE Answers(p, <<"exists">>) /\ UNCHANGED <<dir, content>>
    <3>1. Program'
      BY <1>3, <1>5, <2>1 DEF CreateOpen, Answers
    <3>2. Recorded'
      BY <1>a, <1>5, <2>1 DEF CreateOpen
    <3> QED BY <3>1, <3>2
  <2>2. CASE dir = NoFile /\ explained' = explained
    <3> DEFINE f == CHOOSE x \in File : \A q \in Proc : fd[q] # x
    <3>1. f \in File /\ \A q \in Proc : fd[q] # f
      BY <1>0, FreeFile
    <3>2. /\ dir' = f /\ content' = [content EXCEPT ![f] = Empty] /\ fd' = [fd EXCEPT ![p] = f]
          /\ pc[p] = "open_new" /\ GoTo(p, "create_lock") /\ UNCHANGED <<call, known, ops, crashes>>
      BY <1>5, <2>2 DEF CreateOpen
    <3> HIDE DEF f
    <3>3. Program'
      BY <3>1, <3>2, OpensNew
    <3> QED BY <1>b, <2>2, <3>2, <3>3
  <2> QED BY <1>5, <2>1, <2>2 DEF CreateOpen
<1>6. CASE CreateLock(p)
  <2>1. Program'
    BY <1>6, GoesOn DEF CreateLock
  <2>2. Recorded'
    BY <1>b, <1>6 DEF CreateLock
  <2> QED BY <2>1, <2>2
<1>7. CASE CreateWrite(p)
  <2>1. Program'
    <3>1. NewEmpty \in Label /\ NewEmpty.version <= ops
      BY <1>0, LabelFacts
    <3>2. /\ content' = [content EXCEPT ![fd[p]] = NewEmpty] /\ known' = [known EXCEPT ![p] = NewEmpty]
          /\ pc[p] = "create_write" /\ Ends(p) /\ UNCHANGED <<dir, ops, crashes>>
      BY <1>7 DEF CreateWrite, Answers
    <3> QED BY <3>1, <3>2, Writes
  <2>2. Recorded'
    BY <1>a, <1>7 DEF CreateWrite
  <2> QED BY <2>1, <2>2
<1>8. CASE GetOpen(p)
  <2>1. CASE Answers(p, <<"label", Absent>>)
    <3>1. Program'
      BY <1>3, <1>8, <2>1 DEF GetOpen, Answers
    <3>2. Recorded'
      BY <1>a, <1>8, <2>1 DEF GetOpen
    <3> QED BY <3>1, <3>2
  <2>2. CASE dir # NoFile /\ fd' = [fd EXCEPT ![p] = dir] /\ GoTo(p, "get_lock") /\ UNCHANGED <<call, explained>>
    <3>1. Program'
      BY <1>8, <2>2, Opens DEF GetOpen
    <3>2. Recorded'
      BY <1>b, <1>8, <2>2 DEF GetOpen
    <3> QED BY <3>1, <3>2
  <2> QED BY <1>8, <2>1, <2>2 DEF GetOpen
<1>9. CASE GetRead(p)
  <2>1. CASE AnswersInvalid(p) /\ UNCHANGED known
    <3>1. Program'
      BY <1>3, <1>9, <2>1 DEF GetRead, AnswersInvalid
    <3>2. Recorded'
      BY <1>2, <1>b, <1>9, <2>1 DEF GetRead
    <3> QED BY <3>1, <3>2
  <2>2. CASE /\ content[fd[p]] # Empty /\ known' = [known EXCEPT ![p] = content[fd[p]]]
             /\ Answers(p, <<"label", content[fd[p]]>>)
    <3>1. fd[p] \in File /\ content[fd[p]] \in Label /\ content[fd[p]].version <= ops
      BY <1>0, <1>9, <2>2 DEF GetRead, ProcOk, Typed, Versions
    <3>2. /\ known' \in [Proc -> Label \cup {Absent}] /\ known'[p] = content[fd[p]]
          /\ \A q \in Proc : q # p => known'[q] = known[q]
      BY <1>0, <2>2, <3>1 DEF Typed
    <3>3. Program'
      BY <1>0, <1>9, <2>2, <3>1, <3>2, EndsOk DEF GetRead, Answers
    <3> QED BY <1>a, <1>9, <2>2, <3>3 DEF GetRead
  <2> QED BY <1>9, <2>1, <2>2 DEF GetRead
<1>10. CASE SetOpen(p)
  <2>1. CASE Answers(p, <<"gone">>)
    <3>1. Program'
      BY <1>3, <1>10, <2>1 DEF SetOpen, Answers
    <3>2. Recorded'
      BY <1>a, <1>10, <2>1 DEF SetOpen
    <3> QED BY <3>1, <3>2
  <2>2. CASE dir # NoFile /\ fd' = [fd EXCEPT ![p] = dir] /\ GoTo(p, "set_lock") /\ UNCHANGED <<call, explained>>
    <3>1. Program'
      BY <1>10, <2>2, Opens DEF SetOpen
    <3>2. Recorded'
      BY <1>b, <1>10, <2>2 DEF SetOpen
    <3> QED BY <3>1, <3>2
  <2> QED BY <1>10, <2>1, <2>2 DEF SetOpen
<1>11. CASE SetCompare(p)
  <2>1. CASE AnswersInvalid(p)
    <3>1. Program'
      BY <1>3, <1>11, <2>1 DEF SetCompare, AnswersInvalid
    <3>2. Recorded'
      BY <1>2, <1>b, <1>11, <2>1 DEF SetCompare
    <3> QED BY <3>1, <3>2
  <2>2. CASE Answers(p, <<"none">>)
    <3>1. Program'
      BY <1>3, <1>11, <2>2 DEF SetCompare, Answers
    <3>2. Recorded'
      BY <1>a, <1>11, <2>2 DEF SetCompare
    <3> QED BY <3>1, <3>2
  <2>3. CASE content[fd[p]] = call[p].label /\ GoTo(p, "truncate") /\ UNCHANGED <<fd, call, explained>>
    <3>1. Program'
      BY <1>11, <2>3, GoesOn DEF SetCompare
    <3>2. Recorded'
      BY <1>b, <1>11, <2>3 DEF SetCompare
    <3> QED BY <3>1, <3>2
  <2> QED BY <1>11, <2>1, <2>2, <2>3 DEF SetCompare
<1>12. CASE SetTruncate(p)
  <2>1. Program'
    BY <1>12, Truncates DEF SetTruncate
  <2>2. Recorded'
    BY <1>b, <1>12 DEF SetTruncate
  <2> QED BY <2>1, <2>2
<1>13. CASE SetWrite(p)
  <2> DEFINE x == WithUpdatedLayer(call[p].label, call[p].layer)
  <2>1. call[p].label \in Label /\ call[p].label.version < ops /\ call[p].layer \in Layer \cup {None}
    BY <1>0, <1>13 DEF SetWrite, ProcOk, Typed, Call
  <2>2. x \in Label /\ x.version <= ops
    <3>1. call[p].label.version + 1 \in 0 .. MaxOps /\ call[p].label.version + 1 <= ops
      BY <1>0, <2>1, LabelFacts, BoundsAssumption DEF Typed
    <3> QED BY <2>1, <3>1 DEF WithUpdatedLayer, Label
  <2>3. /\ content' = [content EXCEPT ![fd[p]] = x] /\ known' = [known EXCEPT ![p] = x]
        /\ pc[p] = "write" /\ Ends(p) /\ UNCHANGED <<dir, ops, crashes>>
    BY <1>13 DEF SetWrite, Answers
  <2>4. Recorded'
    BY <1>a, <1>13 DEF SetWrite
  <2> HIDE DEF x
  <2>5. Program'
    BY <2>2, <2>3, Writes
  <2> QED BY <2>4, <2>5
<1>14. CASE DeleteUnlink(p)
  <2>1. PICK r : Answers(p, r)
    BY <1>14 DEF DeleteUnlink
  <2>2. Program'
    BY <1>3, <1>14, <2>1 DEF DeleteUnlink, Answers
  <2> QED BY <1>a, <1>14, <2>1, <2>2 DEF DeleteUnlink
<1> QED BY <1>4, <1>5, <1>6, <1>7, <1>8, <1>9, <1>10, <1>11, <1>12, <1>13, <1>14 DEF Proceed

LEMMA NextProgram ==
  ASSUME Program, Recorded, [Next]_vars
  PROVE  Program' /\ Recorded'
<1>0. Typed /\ ops \in Nat
  BY BoundsAssumption DEF Program, Typed
<1>1. CASE UNCHANGED vars
  BY <1>1 DEF vars, Program, Typed, ProcOk, Exclusive, Versions, Filled, Recorded, Dated
<1>2. ASSUME NEW p \in Proc, Start(p) PROVE Program' /\ Recorded'
  <2>1. Program'
    BY <1>2, StartOk
  <2>2. ops' \in Nat /\ ops <= ops' /\ explained' \subseteq explained
    BY <1>0, <1>2 DEF Start
  <2> QED BY <2>1, <2>2, RecordedKept
<1>3. ASSUME NEW p \in Proc, Proceed(p) PROVE Program' /\ Recorded'
  BY <1>3, ProceedProgram
<1>4. ASSUME NEW p \in Proc, Crash(p) PROVE Program' /\ Recorded'
  <2>1. /\ crashes' \in 0 .. MaxCrashes /\ crashes' # 0
        /\ known' \in [Proc -> Label \cup {Absent}] /\ known'[p] = Absent
        /\ \A q \in Proc : q # p => known'[q] = known[q]
    BY <1>0, <1>4, BoundsAssumption DEF Crash, Typed
  <2>2. Program'
    BY <1>4, <2>1, EndsOk DEF Crash
  <2> QED BY <1>0, <1>4, <2>2, RecordedKept DEF Crash
<1> QED BY <1>1, <1>2, <1>3, <1>4 DEF Next

(***************************************************************************)
(* Every reachable state is well typed; in particular no label, on file or *)
(* in an explanation, counts more versions than there were calls.          *)
(***************************************************************************)
THEOREM TypeCorrect == Spec => []TypeOK
<1>1. Init => Program /\ Recorded
  BY InitProgram
<1>2. (Program /\ Recorded) /\ [Next]_vars => (Program /\ Recorded)'
  BY NextProgram
<1>3. Program /\ Recorded => TypeOK
  <2> SUFFICES ASSUME Program, Recorded PROVE TypeOK
    OBVIOUS
  <2>1. ASSUME NEW e \in explained PROVE e.label \in Label \cup {Absent}
    <3>1. e.label \in AnyLabel \cup {Absent} /\ Dated(e) /\ ops \in 0 .. MaxOps
      BY DEF Recorded, Expl, Program, Typed
    <3> QED BY <3>1, BoundsAssumption DEF Dated, AnyLabel, Label
  <2> QED BY <2>1 DEF Program, Typed, TypeOK
<1> QED BY <1>1, <1>2, <1>3, PTL DEF Spec

(***************************************************************************)
(* Without a crash, get_label and set_label_option find a file empty only  *)
(* when its creator is still waiting for its first lock.                   *)
(***************************************************************************)
THEOREM EmptyOnlyBeforeFirstLock == Spec => []EmptyOnlyWhileCreated
<1>1. Init => Program /\ Recorded
  BY InitProgram
<1>2. (Program /\ Recorded) /\ [Next]_vars => (Program /\ Recorded)'
  BY NextProgram
<1>3. Program => EmptyOnlyWhileCreated
  <2> SUFFICES ASSUME Program, NEW p \in Proc, crashes = 0, pc[p] \in {"get_lock", "set_lock"},
                      CanLock(fd[p]), content[fd[p]] = Empty
               PROVE  \E q \in Proc : pc[q] = "create_lock" /\ fd[q] = fd[p]
    BY DEF EmptyOnlyWhileCreated
  <2>1. fd[p] \in File
    BY DEF Program, ProcOk, Typed
  <2>2. PICK q \in Proc : fd[q] = fd[p] /\ pc[q] \in {"create_lock", "create_write", "write"}
    BY <2>1 DEF Program, Filled
  <2> QED BY <2>2 DEF CanLock, HoldsExclusive
<1> QED BY <1>1, <1>2, <1>3, PTL DEF Spec

-----------------------------------------------------------------------------
(* Extensions from one state to the next.                                  *)

LEMMA ExplEqual ==
  ASSUME NEW a \in Expl, NEW b \in Expl, a.label = b.label,
         \A q \in Proc : a.answer[q] = b.answer[q]
  PROVE  a = b
<1>1. a.answer = b.answer
  <2>1. a.answer \in [Proc -> AnyAnswer \cup {Pending}] /\ b.answer \in [Proc -> AnyAnswer \cup {Pending}]
    BY DEF Expl
  <2> QED BY <2>1
<1>2. a = [label |-> a.label, answer |-> a.answer] /\ b = [label |-> b.label, answer |-> b.answer]
  BY DEF Expl
<1> QED BY <1>1, <1>2

Closed ==
  /\ explained \subseteq Extensions /\ Extensions \subseteq Expl
  /\ \A e \in Extensions : \A p \in Running : e.answer[p] = Pending => Explain(e, p) \in Extensions

LEMMA ClosedNow == HistoryTyped => Closed
BY ExtensionsContain, ExtensionsClosed DEF Closed

LEMMA ClosedNext == HistoryTyped' => Closed'
BY ClosedNow, PTL

(* Process p may start or end a call, or go on with its call.  What was an *)
(* extension stays one, if p's call was not yet explained, as long as what *)
(* was an explanation stays one.                                           *)
LEMMA ExtensionsKept ==
  ASSUME HistoryTyped, HistoryTyped', NEW P \in SUBSET Proc,
         \A e \in explained : (\A p \in P : e.answer[p] = Pending) => e \in explained',
         \A q \in Running : q \in P \/ (q \in Running' /\ call'[q] = call[q])
  PROVE  \A e \in Extensions : (\A p \in P : e.answer[p] = Pending) => e \in Extensions'
<1>0. Closed'
  BY ClosedNext
<1>1. PICK X : X = {e \in Expl : (\A p \in P : e.answer[p] = Pending) => e \in Extensions'}
  OBVIOUS
<1>2. explained \subseteq X
  <2>1. explained' \subseteq Extensions'
    BY <1>0 DEF Closed
  <2> QED BY <1>1, <2>1 DEF HistoryTyped
<1>3. ASSUME NEW e \in Expl, NEW q \in Running, e \in X, e.answer[q] = Pending
      PROVE  Explain(e, q) \in X
  <2>1. /\ Explain(e, q) \in Expl /\ q \in Proc
        /\ Explain(e, q).answer[q] # Pending
        /\ \A p \in Proc : p # q => Explain(e, q).answer[p] = e.answer[p]
    BY ExplainProperties DEF Running
  <2> SUFFICES ASSUME \A p \in P : Explain(e, q).answer[p] = Pending
               PROVE  Explain(e, q) \in Extensions'
    BY <1>1, <2>1
  <2>2. q \notin P
    BY <2>1
  <2>3. q \in Running' /\ call'[q] = call[q]
    BY <2>2
  <2>4. e \in Extensions'
    <3>1. \A p \in P : p \in Proc /\ p # q
      BY <2>2
    <3>2. \A p \in P : e.answer[p] = Pending
      BY <2>1, <3>1
    <3> QED BY <1>1, <1>3, <3>2
  <2>5. Explain(e, q)' \in Extensions'
    BY <1>0, <1>3, <2>3, <2>4 DEF Closed
  <2>6. Explain(e, q)' = Explain(e, q)
    BY <2>3 DEF Explain
  <2> QED BY <2>5, <2>6
<1>4. Extensions \subseteq X
  BY <1>2, <1>3, ExtensionsLeast
<1> QED BY <1>1, <1>4

-----------------------------------------------------------------------------
(***************************************************************************)
(* The explanations to keep.  A call on the linked file, or on none, takes *)
(* effect when it answers (create_label, when the file appears).  A call   *)
(* on a file that has been unlinked took effect before the delete, and in  *)
(* which order the holders of that file did is decided only when they      *)
(* answer; so every order is kept: an explanation goes with the label each *)
(* unlinked file would hold had the calls explained so far been made, and  *)
(* the next call on such a file extends the pair.                          *)
(***************************************************************************)
Value == AnyLabel \cup {Absent}
Values == [File -> Value]

(* The label file f stands for: its contents, or what the process that     *)
(* truncated or created it is about to write, or has just replaced.        *)
Stands(f, x) ==
  \/ content[f] # Empty /\ x = content[f]
  \/ /\ content[f] = Empty
     /\ \E q \in Proc : /\ fd[q] = f
                        /\ \/ pc[q] = "write" /\ x = call[q].label
                           \/ pc[q] \in {"create_lock", "create_write"} /\ x = NewEmpty

Due(p) == IF pc[p] \in {"create_lock", "create_write"} THEN <<"ok">> ELSE Pending

(* Process p is in a call on an unlinked file.                             *)
Adrift(p) == fd[p] \in File /\ fd[p] # dir /\ pc[p] \in {"get_lock", "set_lock", "truncate", "write"}

(* Call c of process p is made on file f.                                  *)
Moves(e, v, p, f, c, e2, v2) ==
  /\ e2.label = e.label
  /\ e2.answer[p] = Answer(v[f], c)
  /\ \A q \in Proc : q # p => e2.answer[q] = e.answer[q]
  /\ v2[f] = Applied(v[f], c)
  /\ \A g \in File : g # f => v2[g] = v[g]

LinkedIs(L) ==
  /\ L \in Value
  /\ dir = NoFile <=> L = Absent
  /\ dir # NoFile => \A x : Stands(dir, x) => x = L

Explains(W, L) ==
  /\ W \subseteq Expl \X Values
  /\ \A e \in Expl, v \in Values : <<e, v>> \in W =>
       /\ e \in Extensions /\ e.label = L
       /\ \A p \in Proc : ~ Adrift(p) => e.answer[p] = Due(p)

Present(W) ==
  \E e \in Expl, v \in Values :
    /\ <<e, v>> \in W
    /\ \A p \in Proc : e.answer[p] = Due(p)
    /\ \A f \in File : f # dir => \A x : Stands(f, x) => v[f] = x

ClosedUnderMoves(W) ==
  \A p \in Proc : Adrift(p) =>
    \A e, e2 \in Expl, v, v2 \in Values :
      <<e, v>> \in W /\ e.answer[p] = Pending /\ Moves(e, v, p, fd[p], call[p], e2, v2)
        => <<e2, v2>> \in W

Family(W, L) == LinkedIs(L) /\ Explains(W, L) /\ Present(W) /\ ClosedUnderMoves(W)

(* A call explained is a call made on its file.                            *)
LEMMA MoveExists ==
  ASSUME NEW e \in Expl, NEW v \in Values, NEW p \in Proc, NEW f \in File, NEW c \in Call
  PROVE  \E e2 \in Expl, v2 \in Values : Moves(e, v, p, f, c, e2, v2)
<1> DEFINE a == Answer(v[f], c)
           x == Applied(v[f], c)
<1>1. a \in AnyAnswer /\ x \in Value /\ v[f] \in Value
  BY AtomicTypes DEF Values, Value
<1> HIDE DEF a, x
<1> DEFINE t == [e.answer EXCEPT ![p] = a]
           e2 == [label |-> e.label, answer |-> t]
           v2 == [v EXCEPT ![f] = x]
<1>2. e.label \in AnyLabel \cup {Absent} /\ e.answer \in [Proc -> AnyAnswer \cup {Pending}]
  BY DEF Expl
<1>3. /\ t \in [Proc -> AnyAnswer \cup {Pending}] /\ t[p] = a
      /\ \A q \in Proc : q # p => t[q] = e.answer[q]
  BY <1>1, <1>2
<1>4. v2 \in Values /\ v2[f] = x /\ \A g \in File : g # f => v2[g] = v[g]
  BY <1>1 DEF Values
<1> HIDE DEF t, v2
<1>5. e2 \in Expl /\ e2.label = e.label /\ e2.answer = t
  BY <1>2, <1>3 DEF Expl
<1> HIDE DEF e2
<1>6. Moves(e, v, p, f, c, e2, v2)
  BY <1>3, <1>4, <1>5 DEF Moves, a, x
<1> QED BY <1>4, <1>5, <1>6

(* An explanation with the same answers elsewhere moves the same way.      *)
LEMMA MovesAlike ==
  ASSUME NEW e \in Expl, NEW v \in Values, NEW v2 \in Values, NEW p \in Proc, NEW f \in File, NEW c \in Call,
         NEW d, NEW d2, Moves(d, v, p, f, c, d2, v2)
  PROVE  \E e2 \in Expl : Moves(e, v, p, f, c, e2, v2)
<1>1. PICK e2 \in Expl, w \in Values : Moves(e, v, p, f, c, e2, w)
  BY MoveExists
<1>2. Moves(e, v, p, f, c, e2, v2)
  BY <1>1 DEF Moves
<1> QED BY <1>2

(* Steps that explain nothing and leave every file standing for the same   *)
(* label.                                                                  *)
LEMMA FamilyStays ==
  ASSUME HistoryTyped, HistoryTyped', NEW W, NEW L, Family(W, L), explained' = explained, dir' = dir,
         dir \in File \cup {NoFile},
         \A q \in Running : q \in Running' /\ call'[q] = call[q],
         \A q \in Proc : (Adrift(q)' <=> Adrift(q)) /\ Due(q)' = Due(q),
         \A q \in Proc : Adrift(q) => fd'[q] = fd[q] /\ call'[q] = call[q],
         \A f \in File : \A x : Stands(f, x)' => Stands(f, x)
  PROVE  Family(W, L)'
<1>1. LinkedIs(L) /\ Explains(W, L) /\ Present(W) /\ ClosedUnderMoves(W)
  BY DEF Family
<1>2. Extensions \subseteq Extensions'
  <2>1. PICK P \in SUBSET Proc : P = {}
    OBVIOUS
  <2>2. \A e \in Extensions : (\A p \in P : e.answer[p] = Pending) => e \in Extensions'
    BY <2>1, ExtensionsKept
  <2> QED BY <2>1, <2>2
<1>3. LinkedIs(L)'
  <2>1. ASSUME dir # NoFile, NEW x, Stands(dir, x)' PROVE x = L
    <3>1. PICK f \in File : f = dir
      BY <2>1
    <3>2. Stands(f, x)'
      BY <2>1, <3>1 DEF Stands
    <3> QED BY <1>1, <2>1, <3>1, <3>2 DEF LinkedIs
  <2> QED BY <1>1, <2>1 DEF LinkedIs
<1>4. Explains(W, L)'
  BY <1>1, <1>2 DEF Explains
<1>5. Present(W)'
  BY <1>1 DEF Present
<1>6. ClosedUnderMoves(W)'
  BY <1>1 DEF ClosedUnderMoves
<1> QED BY <1>3, <1>4, <1>5, <1>6 DEF Family

(* Explanation d is e with the call of process p explained or forgotten.   *)
Became(e, p, M, b, d) ==
  d.label = M /\ d.answer[p] = b /\ \A q \in Proc : q # p => d.answer[q] = e.answer[q]

LEMMA BecameExists ==
  ASSUME NEW e \in Expl, NEW p \in Proc, NEW M \in Value, NEW b \in AnyAnswer \cup {Pending}
  PROVE  \E d \in Expl : Became(e, p, M, b, d)
<1> DEFINE t == [e.answer EXCEPT ![p] = b]
           d == [label |-> M, answer |-> t]
<1>1. e.answer \in [Proc -> AnyAnswer \cup {Pending}]
  BY DEF Expl
<1>2. t \in [Proc -> AnyAnswer \cup {Pending}] /\ t[p] = b /\ \A q \in Proc : q # p => t[q] = e.answer[q]
  BY <1>1
<1> HIDE DEF t
<1>3. d \in Expl /\ d.label = M /\ d.answer = t
  BY <1>2 DEF Expl, Value
<1> HIDE DEF d
<1>4. Became(e, p, M, b, d)
  BY <1>2, <1>3 DEF Became
<1> QED BY <1>3, <1>4

LEMMA BecameIs ==
  ASSUME HistoryTyped, NEW e \in Expl, NEW p \in Proc, NEW d \in Expl
  PROVE  /\ Became(e, p, e.label, Pending, d) => d = Forget(e, p)
         /\ Became(e, p, Applied(e.label, call[p]), Answer(e.label, call[p]), d) => d = Explain(e, p)
         /\ Became(e, p, Applied(e.label, call[p]), Pending, d) => d = Forget(Explain(e, p), p)
<1>1. Became(e, p, e.label, Pending, d) => d = Forget(e, p)
  <2> SUFFICES ASSUME Became(e, p, e.label, Pending, d) PROVE d = Forget(e, p)
    OBVIOUS
  <2>1. \A q \in Proc : d.answer[q] = Forget(e, p).answer[q]
    BY ForgetProperties DEF Became
  <2> QED BY <2>1, ForgetProperties, ExplEqual DEF Became
<1>2. Became(e, p, Applied(e.label, call[p]), Answer(e.label, call[p]), d) => d = Explain(e, p)
  <2> SUFFICES ASSUME Became(e, p, Applied(e.label, call[p]), Answer(e.label, call[p]), d) PROVE d = Explain(e, p)
    OBVIOUS
  <2>1. \A q \in Proc : d.answer[q] = Explain(e, p).answer[q]
    BY ExplainProperties DEF Became
  <2> QED BY <2>1, ExplainProperties, ExplEqual DEF Became
<1>3. Became(e, p, Applied(e.label, call[p]), Pending, d) => d = Forget(Explain(e, p), p)
  <2> SUFFICES ASSUME Became(e, p, Applied(e.label, call[p]), Pending, d) PROVE d = Forget(Explain(e, p), p)
    OBVIOUS
  <2>1. PICK x \in Expl : x = Explain(e, p)
    BY ExplainProperties
  <2>2. x.label = Applied(e.label, call[p]) /\ \A q \in Proc : q # p => x.answer[q] = e.answer[q]
    BY <2>1, ExplainProperties
  <2>3. \A q \in Proc : d.answer[q] = Forget(x, p).answer[q]
    BY <2>2, ForgetProperties DEF Became
  <2>4. d.label = Forget(x, p).label /\ Forget(x, p) \in Expl
    BY <2>2, ForgetProperties DEF Became
  <2> QED BY <2>1, <2>3, <2>4, ExplEqual
<1> QED BY <1>1, <1>2, <1>3

(* The step of process p leaves the others where they are, and its own     *)
(* call, as far as it goes on, explained by b.                             *)
OnlyMoves(p, b) ==
  /\ ~ Adrift(p)' /\ Due(p)' = b /\ b \in AnyAnswer \cup {Pending}
  /\ \A q \in Proc : q # p => /\ Adrift(q)' <=> Adrift(q)
                              /\ Due(q)' = Due(q) /\ fd'[q] = fd[q] /\ call'[q] = call[q]

(* An extension of label L that has answered p with a is carried over.     *)
Carried(L, p, a, M, b) ==
  \A e \in Extensions : e.label = L /\ e.answer[p] = a =>
    \A d \in Expl : Became(e, p, M, b, d) => d \in Extensions'

(* Among the explanations kept, the one that explains p's call with a, and *)
(* no other call that need not be, has the right values.                   *)
Chosen(W, p, a) ==
  \E e \in Expl, v \in Values :
    /\ <<e, v>> \in W /\ e.answer[p] = a
    /\ \A q \in Proc : q # p => e.answer[q] = Due(q)
    /\ \A f \in File : f # dir' => \A x : Stands(f, x)' => v[f] = x

(* One process takes a step that explains its call, or ends it: the same   *)
(* happens to every explanation kept that agrees with the answer it gave.  *)
LEMMA FamilyMapped ==
  ASSUME NEW W, NEW L, Family(W, L), NEW p \in Proc, NEW M, NEW a, NEW b,
         HistoryTyped, HistoryTyped',
         OnlyMoves(p, b), LinkedIs(M)', Carried(L, p, a, M, b), Chosen(W, p, a)
  PROVE  \E W1 : Family(W1, M)'
<1>0. Explains(W, L) /\ ClosedUnderMoves(W) /\ M \in Value
  BY DEF Family, LinkedIs
<1>1. PICK W1 : W1 = {u \in Expl \X Values : \E e \in Expl :
                        <<e, u[2]>> \in W /\ e.answer[p] = a /\ Became(e, p, M, b, u[1])}
  OBVIOUS
<1>a. /\ ~ Adrift(p)' /\ Due(p)' = b /\ b \in AnyAnswer \cup {Pending}
      /\ \A q \in Proc : q # p => /\ Adrift(q)' <=> Adrift(q)
                                  /\ Due(q)' = Due(q) /\ fd'[q] = fd[q] /\ call'[q] = call[q]
  BY DEF OnlyMoves
<1>2. /\ W1 \subseteq Expl \X Values
      /\ \A d \in Expl, v \in Values : <<d, v>> \in W1 <=>
           \E e \in Expl : <<e, v>> \in W /\ e.answer[p] = a /\ Became(e, p, M, b, d)
  BY <1>1
<1>3. Explains(W1, M)'
  <2> SUFFICES ASSUME NEW d \in Expl, NEW v \in Values, <<d, v>> \in W1
               PROVE  /\ d \in Extensions' /\ d.label = M
                      /\ \A q \in Proc : ~ Adrift(q)' => d.answer[q] = Due(q)'
    BY <1>2 DEF Explains
  <2>1. PICK e \in Expl : <<e, v>> \in W /\ e.answer[p] = a /\ Became(e, p, M, b, d)
    BY <1>2
  <2>2. e \in Extensions /\ e.label = L /\ \A q \in Proc : ~ Adrift(q) => e.answer[q] = Due(q)
    BY <1>0, <2>1 DEF Explains
  <2>3. d \in Extensions'
    BY <2>1, <2>2 DEF Carried
  <2> QED BY <1>a, <2>1, <2>2, <2>3 DEF Became
<1>4. Present(W1)'
  <2>1. PICK e \in Expl, v \in Values :
           /\ <<e, v>> \in W /\ e.answer[p] = a
           /\ \A q \in Proc : q # p => e.answer[q] = Due(q)
           /\ \A f \in File : f # dir' => \A x : Stands(f, x)' => v[f] = x
    BY DEF Chosen
  <2>2. PICK d \in Expl : Became(e, p, M, b, d)
    BY <1>0, <1>a, BecameExists
  <2>3. <<d, v>> \in W1
    BY <1>2, <2>1, <2>2
  <2>4. \A q \in Proc : d.answer[q] = Due(q)'
    BY <1>a, <2>1, <2>2 DEF Became
  <2> QED BY <2>1, <2>3, <2>4 DEF Present
<1>5. ClosedUnderMoves(W1)'
  <2> SUFFICES ASSUME NEW q \in Proc, Adrift(q)', NEW d \in Expl, NEW d2 \in Expl,
                      NEW v \in Values, NEW v2 \in Values, <<d, v>> \in W1, d.answer[q] = Pending,
                      Moves(d, v, q, fd'[q], call'[q], d2, v2)
               PROVE  <<d2, v2>> \in W1
    BY DEF ClosedUnderMoves
  <2>1. PICK e \in Expl : <<e, v>> \in W /\ e.answer[p] = a /\ Became(e, p, M, b, d)
    BY <1>2
  <2>2. q # p /\ Adrift(q) /\ fd'[q] = fd[q] /\ call'[q] = call[q] /\ e.answer[q] = Pending
    BY <1>a, <2>1 DEF Became
  <2>3. fd[q] \in File /\ call[q] \in Call
    BY <2>2 DEF Adrift, HistoryTyped
  <2>4. PICK e2 \in Expl : Moves(e, v, q, fd[q], call[q], e2, v2)
    BY <2>2, <2>3, MovesAlike
  <2>5. <<e2, v2>> \in W
    BY <1>0, <2>1, <2>2, <2>4 DEF ClosedUnderMoves
  <2>6. e2.answer[p] = a /\ Became(e2, p, M, b, d2)
    BY <2>1, <2>2, <2>4 DEF Moves, Became
  <2> QED BY <1>2, <2>5, <2>6
<1> QED BY <1>3, <1>4, <1>5 DEF Family

-----------------------------------------------------------------------------
(* The file is unlinked: the calls its holders are in become the calls of  *)
(* an unlinked file.  H are the holders; t explains some of their calls.   *)

Overlay(H, e, t, d) ==
  /\ d.label = t.label
  /\ \A q \in Proc : d.answer[q] = IF q \in H THEN t.answer[q] ELSE e.answer[q]

LEMMA OverlayExists ==
  ASSUME NEW H, NEW e \in Expl, NEW t \in Expl
  PROVE  \E d \in Expl : Overlay(H, e, t, d)
<1> DEFINE r == [q \in Proc |-> IF q \in H THEN t.answer[q] ELSE e.answer[q]]
           d == [label |-> t.label, answer |-> r]
<1>1. /\ t.label \in AnyLabel \cup {Absent} /\ e.answer \in [Proc -> AnyAnswer \cup {Pending}]
      /\ t.answer \in [Proc -> AnyAnswer \cup {Pending}]
  BY DEF Expl
<1>2. /\ r \in [Proc -> AnyAnswer \cup {Pending}]
      /\ \A q \in Proc : r[q] = IF q \in H THEN t.answer[q] ELSE e.answer[q]
  BY <1>1
<1> HIDE DEF r
<1>3. d \in Expl /\ d.label = t.label /\ d.answer = r
  BY <1>1, <1>2 DEF Expl
<1> HIDE DEF d
<1>4. Overlay(H, e, t, d)
  BY <1>2, <1>3 DEF Overlay
<1> QED BY <1>3, <1>4

(* The holders can make the calls t explains before the delete, whatever   *)
(* the calls on other unlinked files have come to.                         *)
Valid(W, H, t) ==
  /\ t \in Expl /\ t.label # Absent
  /\ \A e \in Expl, v \in Values : <<e, v>> \in W =>
       \A d \in Expl : Overlay(H, e, t, d) => d \in Extensions

LEMMA ValidStep ==
  ASSUME HistoryTyped, NEW W, NEW H \in SUBSET Proc, NEW t, Valid(W, H, t), NEW q \in H, q \in Running,
         t.answer[q] = Pending, call[q].op \in {"get", "set"}, NEW t2 \in Expl,
         Became(t, q, Applied(t.label, call[q]), Answer(t.label, call[q]), t2)
  PROVE  Valid(W, H, t2)
<1>0. Closed
  BY ClosedNow
<1>1. t \in Expl /\ t.label # Absent /\ t.label \in Value /\ q \in Proc
  BY DEF Valid, Expl, Value
<1>2. t2.label # Absent
  <2> DEFINE c == call[q]
             x == t.label
  <2>1. c.op \in {"get", "set"} /\ x # Absent /\ x \in AnyLabel /\ t2.label = Applied(x, c)
    BY <1>1 DEF Became, Value
  <2> HIDE DEF c, x
  <2>2. CASE c.op = "get"
    BY <2>1, <2>2 DEF Applied
  <2>3. CASE c.op = "set"
    <3>1. Applied(x, c) = IF x # Absent /\ x = c.label THEN WithUpdatedLayer(x, c.layer) ELSE x
      BY <2>3 DEF Applied
    <3>2. WithUpdatedLayer(x, c.layer) # Absent
      <4>1. call[q] \in Call
        BY <1>1 DEF HistoryTyped
      <4>2. WithUpdatedLayer(x, c.layer) \in AnyLabel
        BY <2>1, <4>1 DEF WithUpdatedLayer, AnyLabel, Call, c
      <4> QED BY <4>2, SentinelAssumption
    <3> QED BY <2>1, <3>1, <3>2
  <2> QED BY <2>1, <2>2, <2>3
<1>3. ASSUME NEW e \in Expl, NEW v \in Values, <<e, v>> \in W, NEW d2 \in Expl, Overlay(H, e, t2, d2)
      PROVE  d2 \in Extensions
  <2>1. PICK d \in Expl : Overlay(H, e, t, d)
    BY <1>1, OverlayExists
  <2>2. d \in Extensions
    BY <1>3, <2>1 DEF Valid
  <2>3. d.answer[q] = Pending /\ d.label = t.label
    BY <1>1, <2>1 DEF Overlay
  <2>4. Explain(d, q) \in Extensions
    BY <1>0, <2>2, <2>3 DEF Closed
  <2>5. Became(d, q, Applied(d.label, call[q]), Answer(d.label, call[q]), d2)
    <3>1. d2.label = Applied(t.label, call[q]) /\ d2.answer[q] = Answer(t.label, call[q])
      BY <1>1, <1>3 DEF Overlay, Became
    <3>2. \A r \in Proc : r # q => d2.answer[r] = d.answer[r]
      BY <1>3, <2>1 DEF Overlay, Became
    <3> QED BY <2>3, <3>1, <3>2 DEF Became
  <2>6. d2 = Explain(d, q)
    BY <1>1, <2>5, BecameIs
  <2> QED BY <2>4, <2>6
<1> QED BY <1>2, <1>3 DEF Valid

(* Explanation and values after the delete of file f by process p.         *)
Deleted(H, f, p, e, v, t, d, w) ==
  /\ d.label = Absent /\ d.answer[p] = Pending
  /\ \A q \in Proc : q # p => d.answer[q] = IF q \in H THEN t.answer[q] ELSE e.answer[q]
  /\ w[f] = t.label
  /\ \A g \in File : g # f => w[g] = v[g]

LEMMA FamilyDeleted ==
  ASSUME Program, HistoryTyped, HistoryTyped', NEW W, NEW L, Family(W, L), NEW p \in Proc,
         DeleteUnlink(p), dir # NoFile
  PROVE  \E W1 : Family(W1, Absent)'
<1>0. /\ LinkedIs(L) /\ Explains(W, L) /\ Present(W) /\ ClosedUnderMoves(W)
      /\ Closed /\ Closed' /\ Typed /\ ProcOk
  BY ClosedNow, ClosedNext DEF Family, Program
<1>1. PICK f \in File : f = dir
  BY <1>0 DEF Typed
<1>2. PICK H \in SUBSET Proc : H = {q \in Proc : fd[q] = f /\ pc[q] \in {"get_lock", "set_lock", "truncate", "write"}}
  OBVIOUS
<1>3. /\ pc[p] = "started" /\ call[p].op = "delete" /\ Ends(p) /\ dir' = NoFile /\ content' = content
      /\ explained' = {Forget(e, p) : e \in {x \in Extensions : x.answer[p] = <<"true">>}}
  BY DEF DeleteUnlink, Answers
<1>4. /\ pc'[p] = "idle" /\ fd'[p] = NoFile /\ fd[p] = NoFile /\ p \in Running /\ p \notin H /\ ~ Adrift(p)
      /\ \A q \in Proc : q # p => pc'[q] = pc[q] /\ fd'[q] = fd[q] /\ call'[q] = call[q]
  BY <1>0, <1>2, <1>3, LabelFacts DEF Ends, Typed, ProcOk, Running, Adrift
<1>5. \A q \in H : ~ Adrift(q) /\ Due(q) = Pending /\ q \in Running /\ call[q].op \in {"get", "set"} /\ fd[q] = f
  BY <1>0, <1>1, <1>2 DEF Adrift, Due, Running, ProcOk
<1>6. \A q \in Proc : Adrift(q)' <=> q # p /\ (Adrift(q) \/ q \in H)
  BY <1>1, <1>2, <1>3, <1>4, LabelFacts DEF Adrift
<1>7. Due(p) = Pending /\ Due(p)' = Pending /\ \A q \in Proc : Due(q)' = Due(q)
  BY <1>3, <1>4 DEF Due
<1>8. \A g \in File : \A x : Stands(g, x)' => Stands(g, x)
  BY <1>3, <1>4 DEF Stands
<1>9. L # Absent /\ \A x : Stands(f, x) => x = L
  BY <1>0, <1>1 DEF LinkedIs
<1>10. PICK W1 : W1 = {u \in Expl \X Values : \E e \in Expl, v \in Values, t \in Expl :
                         <<e, v>> \in W /\ Valid(W, H, t) /\ Deleted(H, f, p, e, v, t, u[1], u[2])}
  OBVIOUS
<1>11. /\ W1 \subseteq Expl \X Values
       /\ \A d \in Expl, w \in Values : <<d, w>> \in W1 <=>
            \E e \in Expl, v \in Values, t \in Expl :
              <<e, v>> \in W /\ Valid(W, H, t) /\ Deleted(H, f, p, e, v, t, d, w)
  BY <1>10
<1>12. LinkedIs(Absent)'
  BY <1>3 DEF LinkedIs, Value
<1>13. Explains(W1, Absent)'
  <2> SUFFICES ASSUME NEW d \in Expl, NEW w \in Values, <<d, w>> \in W1
               PROVE  /\ d \in Extensions' /\ d.label = Absent
                      /\ \A q \in Proc : ~ Adrift(q)' => d.answer[q] = Due(q)'
    BY <1>11 DEF Explains
  <2>1. PICK e \in Expl, v \in Values, t \in Expl :
          <<e, v>> \in W /\ Valid(W, H, t) /\ Deleted(H, f, p, e, v, t, d, w)
    BY <1>11
  <2>2. PICK o \in Expl : Overlay(H, e, t, o)
    BY OverlayExists
  <2>3. \A q \in Proc : ~ Adrift(q) => e.answer[q] = Due(q)
    BY <1>0, <2>1 DEF Explains
  <2>4. o \in Extensions /\ o.label # Absent /\ o.answer[p] = Pending
    BY <1>4, <1>7, <2>1, <2>2, <2>3 DEF Valid, Overlay
  <2>5. Explain(o, p) \in Extensions
    BY <1>0, <1>4, <2>4 DEF Closed
  <2>6. Applied(o.label, call[p]) = Absent /\ Answer(o.label, call[p]) = <<"true">>
    BY <1>3, <2>4 DEF Applied, Answer
  <2>7. Forget(Explain(o, p), p) \in explained'
    BY <1>3, <2>5, <2>6, ExplainProperties
  <2>8. Became(o, p, Applied(o.label, call[p]), Pending, d)
    BY <2>1, <2>2, <2>6 DEF Became, Deleted, Overlay
  <2>9. d \in Extensions'
    BY <1>0, <2>7, <2>8, BecameIs DEF Closed
  <2>10. \A q \in Proc : ~ Adrift(q)' => d.answer[q] = Due(q)'
    BY <1>6, <1>7, <2>1, <2>3 DEF Deleted
  <2> QED BY <2>1, <2>9, <2>10 DEF Deleted
<1>14. Present(W1)'
  <2>1. PICK e \in Expl, v \in Values :
           /\ <<e, v>> \in W
           /\ \A q \in Proc : e.answer[q] = Due(q)
           /\ \A g \in File : g # dir => \A x : Stands(g, x) => v[g] = x
    BY <1>0 DEF Present
  <2>2. e.label = L
    BY <1>0, <2>1 DEF Explains
  <2>3. Valid(W, H, e)
    <3>1. ASSUME NEW y \in Expl, NEW z \in Values, <<y, z>> \in W, NEW d \in Expl, Overlay(H, y, e, d)
          PROVE  d \in Extensions
      <4>1. y \in Extensions /\ y.label = L /\ \A q \in Proc : ~ Adrift(q) => y.answer[q] = Due(q)
        BY <1>0, <3>1 DEF Explains
      <4>2. d.label = y.label
        BY <2>2, <3>1, <4>1 DEF Overlay
      <4>3. \A q \in Proc : d.answer[q] = y.answer[q]
        BY <1>5, <2>1, <3>1, <4>1 DEF Overlay
      <4>4. d = y
        BY <4>2, <4>3, ExplEqual
      <4> QED BY <4>1, <4>4
    <3> QED BY <1>9, <2>2, <3>1 DEF Valid
  <2>4. PICK d \in Expl : Became(e, p, Absent, Pending, d)
    BY BecameExists DEF Value
  <2>5. PICK w \in Values : w[f] = L /\ \A g \in File : g # f => w[g] = v[g]
    <3>1. L \in Value
      BY <1>0 DEF LinkedIs
    <3>2. [v EXCEPT ![f] = L] \in Values
      BY <3>1 DEF Values
    <3>3. [v EXCEPT ![f] = L][f] = L /\ \A g \in File : g # f => [v EXCEPT ![f] = L][g] = v[g]
      BY DEF Values
    <3> QED BY <3>2, <3>3
  <2>6. Deleted(H, f, p, e, v, e, d, w)
    BY <2>2, <2>4, <2>5 DEF Deleted, Became
  <2>7. <<d, w>> \in W1
    BY <1>11, <2>1, <2>3, <2>6
  <2>8. \A q \in Proc : d.answer[q] = Due(q)'
    BY <1>7, <2>1, <2>4 DEF Became
  <2>9. \A g \in File : \A x : Stands(g, x)' => w[g] = x
    BY <1>1, <1>8, <1>9, <2>1, <2>5
  <2> QED BY <2>7, <2>8, <2>9 DEF Present
<1>15. ClosedUnderMoves(W1)'
  <2> SUFFICES ASSUME NEW q \in Proc, Adrift(q)', NEW d \in Expl, NEW d2 \in Expl,
                      NEW w \in Values, NEW w2 \in Values, <<d, w>> \in W1, d.answer[q] = Pending,
                      Moves(d, w, q, fd'[q], call'[q], d2, w2)
               PROVE  <<d2, w2>> \in W1
    BY DEF ClosedUnderMoves
  <2>1. PICK e \in Expl, v \in Values, t \in Expl :
          <<e, v>> \in W /\ Valid(W, H, t) /\ Deleted(H, f, p, e, v, t, d, w)
    BY <1>11
  <2>2. q # p /\ (Adrift(q) \/ q \in H) /\ Moves(d, w, q, fd[q], call[q], d2, w2) /\ call[q] \in Call
    BY <1>4, <1>6 DEF HistoryTyped
  <2>3. CASE q \in H
    <3>1. t.answer[q] = Pending /\ fd[q] = f /\ w[f] = t.label /\ t.label \in Value
      BY <1>5, <2>1, <2>2, <2>3 DEF Deleted, Expl, Value
    <3>2. Applied(t.label, call[q]) \in Value /\ Answer(t.label, call[q]) \in AnyAnswer
      BY <2>2, <3>1, AtomicTypes DEF Value
    <3>3. PICK t2 \in Expl : Became(t, q, Applied(t.label, call[q]), Answer(t.label, call[q]), t2)
      BY <3>2, BecameExists
    <3>4. Valid(W, H, t2)
      BY <1>5, <2>1, <2>3, <3>1, <3>3, ValidStep
    <3>5. Deleted(H, f, p, e, v, t2, d2, w2)
      BY <1>4, <2>1, <2>2, <2>3, <3>1, <3>3 DEF Deleted, Became, Moves
    <3> QED BY <1>11, <2>1, <3>4, <3>5
  <2>4. CASE q \notin H
    <3>1. Adrift(q) /\ fd[q] \in File /\ fd[q] # f /\ e.answer[q] = Pending /\ w[fd[q]] = v[fd[q]]
      BY <1>1, <2>1, <2>2, <2>4 DEF Deleted, Adrift
    <3>2. PICK e2 \in Expl, v2 \in Values : Moves(e, v, q, fd[q], call[q], e2, v2)
      BY <2>2, <3>1, MoveExists
    <3>3. <<e2, v2>> \in W
      BY <1>0, <2>1, <3>1, <3>2 DEF ClosedUnderMoves
    <3>4. Deleted(H, f, p, e2, v2, t, d2, w2)
      BY <1>4, <2>1, <2>2, <2>4, <3>1, <3>2 DEF Deleted, Moves
    <3> QED BY <1>11, <2>1, <3>3, <3>4
  <2> QED BY <2>3, <2>4
<1> QED BY <1>12, <1>13, <1>14, <1>15 DEF Family

-----------------------------------------------------------------------------
(* The ways a call ends.                                                   *)

LEMMA EndsFrame ==
  ASSUME Program, NEW p \in Proc, Ends(p), dir' = dir
  PROVE  /\ ~ Adrift(p)' /\ Due(p)' = Pending
         /\ \A q \in Proc : q # p => /\ Adrift(q)' <=> Adrift(q)
                                     /\ Due(q)' = Due(q) /\ fd'[q] = fd[q] /\ call'[q] = call[q]
         /\ \A q \in Running : q # p => q \in Running'
         /\ \A f \in File : content'[f] = content[f] => \A x : Stands(f, x)' => Stands(f, x)
<1>1. /\ pc'[p] = "idle" /\ fd'[p] = NoFile
      /\ \A q \in Proc : q # p => pc'[q] = pc[q] /\ fd'[q] = fd[q] /\ call'[q] = call[q]
  BY DEF Ends, Program, Typed
<1>2. ~ Adrift(p)' /\ Due(p)' = Pending
  BY <1>1 DEF Adrift, Due
<1>3. \A q \in Proc : q # p => (Adrift(q)' <=> Adrift(q)) /\ Due(q)' = Due(q)
  BY <1>1 DEF Adrift, Due
<1>4. \A q \in Running : q # p => q \in Running'
  BY <1>1 DEF Running
<1>5. ASSUME NEW f \in File, content'[f] = content[f], NEW x, Stands(f, x)' PROVE Stands(f, x)
  BY <1>1, <1>5 DEF Stands
<1> QED BY <1>1, <1>2, <1>3, <1>4, <1>5

(* A call that ends as it was explained: a failed read, a crash, a create. *)
LEMMA FamilyDrops ==
  ASSUME Program, HistoryTyped, HistoryTyped', NEW W, NEW L, Family(W, L), NEW p \in Proc, Ends(p), dir' = dir,
         \A e \in Extensions : e.answer[p] = Due(p) => Forget(e, p) \in Extensions',
         \A f \in File : \A x : Stands(f, x)' => Stands(f, x)
  PROVE  \E W1 : Family(W1, L)'
<1>0. LinkedIs(L) /\ Present(W) /\ dir \in File \cup {NoFile}
  BY DEF Family, Program, Typed
<1>1. LinkedIs(L)'
  <2>1. ASSUME dir # NoFile, NEW x, Stands(dir, x)' PROVE x = L
    <3>1. PICK f \in File : f = dir
      BY <1>0, <2>1
    <3>2. Stands(f, x)'
      BY <2>1, <3>1 DEF Stands
    <3> QED BY <1>0, <2>1, <3>1, <3>2 DEF LinkedIs
  <2> QED BY <1>0, <2>1 DEF LinkedIs
<1>2. PICK a : a = Due(p)
  OBVIOUS
<1>3. Carried(L, p, a, L, Pending)
  <2>1. Extensions \subseteq Expl
    BY ExtensionsContain
  <2> QED BY <1>2, <2>1, BecameIs DEF Carried
<1>4. Chosen(W, p, a)
  <2>1. PICK e \in Expl, v \in Values :
           /\ <<e, v>> \in W
           /\ \A q \in Proc : e.answer[q] = Due(q)
           /\ \A f \in File : f # dir => \A x : Stands(f, x) => v[f] = x
    BY <1>0 DEF Present
  <2>2. e.answer[p] = a /\ \A q \in Proc : q # p => e.answer[q] = Due(q)
    BY <1>2, <2>1
  <2>3. \A f \in File : f # dir' => \A x : Stands(f, x)' => v[f] = x
    BY <2>1
  <2> QED BY <2>1, <2>2, <2>3 DEF Chosen
<1>5. PICK b : b = Pending
  OBVIOUS
<1>6. OnlyMoves(p, b)
  BY <1>5, EndsFrame DEF OnlyMoves
<1> QED BY <1>1, <1>3, <1>4, <1>5, <1>6, FamilyMapped

(* A call on the linked file, or on no file, takes effect as it answers.   *)
LEMMA FamilyAnswers ==
  ASSUME Program, HistoryTyped, HistoryTyped', NEW W, NEW L, Family(W, L), NEW p \in Running,
         ~ Adrift(p), Due(p) = Pending, dir' = dir, NEW M, M = Applied(L, call[p]),
         Answers(p, Answer(L, call[p])), dir = NoFile <=> M = Absent,
         \A f \in File : f = dir => \A x : Stands(f, x)' => x = M,
         \A f \in File : f # dir => \A x : Stands(f, x)' => Stands(f, x)
  PROVE  \E W1 : Family(W1, M)'
<1>0. LinkedIs(L) /\ Present(W) /\ dir \in File \cup {NoFile} /\ p \in Proc /\ L \in Value /\ call[p] \in Call
  BY DEF Family, Program, Typed, Running, LinkedIs
<1>1. LinkedIs(M)'
  <2>1. ASSUME dir # NoFile, NEW x, Stands(dir, x)' PROVE x = M
    <3>1. PICK f \in File : f = dir
      BY <1>0, <2>1
    <3>2. Stands(f, x)'
      BY <2>1, <3>1 DEF Stands
    <3> QED BY <3>1, <3>2
  <2>2. M \in Value
    BY <1>0, AtomicTypes DEF Value
  <2> QED BY <2>1, <2>2 DEF LinkedIs
<1>2. PICK b : b = Pending
  OBVIOUS
<1>3. Carried(L, p, b, M, b)
  <2> SUFFICES ASSUME NEW e \in Extensions, e.label = L, e.answer[p] = b, NEW d \in Expl, Became(e, p, M, b, d)
               PROVE  d \in Extensions'
    BY DEF Carried
  <2>1. Closed /\ Closed' /\ e \in Expl
    BY ClosedNow, ClosedNext DEF Closed
  <2>2. Explain(e, p) \in Extensions /\ Explain(e, p).answer[p] = Answer(L, call[p])
    BY <1>0, <1>2, <2>1, ExplainProperties DEF Closed
  <2>3. Forget(Explain(e, p), p) \in explained'
    BY <2>2 DEF Answers
  <2>4. d = Forget(Explain(e, p), p)
    BY <1>0, <1>2, <2>1, BecameIs
  <2> QED BY <2>1, <2>3, <2>4 DEF Closed
<1>4. Chosen(W, p, b)
  BY <1>0, <1>2 DEF Present, Chosen
<1>5. OnlyMoves(p, b)
  BY <1>0, <1>2, EndsFrame DEF Answers, OnlyMoves
<1> QED BY <1>0, <1>1, <1>3, <1>4, <1>5, FamilyMapped

(* A call on an unlinked file is the next of the calls made on that file.  *)
LEMMA FamilyMoves ==
  ASSUME Program, HistoryTyped, HistoryTyped', NEW W, NEW L, Family(W, L), NEW p \in Proc,
         Adrift(p), dir' = dir, NEW x, Stands(fd[p], x), Answers(p, Answer(x, call[p])),
         \A y : \A f \in File : f = fd[p] /\ Stands(f, y)' => y = Applied(x, call[p]),
         \A f \in File : f # fd[p] => content'[f] = content[f]
  PROVE  \E W1 : Family(W1, L)'
<1>0. /\ LinkedIs(L) /\ Present(W) /\ ClosedUnderMoves(W) /\ dir \in File \cup {NoFile} /\ call[p] \in Call
      /\ fd[p] \in File /\ fd[p] # dir /\ Due(p) = Pending /\ Ends(p)
  BY DEF Family, Program, Typed, Adrift, Due, Answers
<1>1. \A f \in File : f # fd[p] => \A y : Stands(f, y)' => Stands(f, y)
  BY <1>0, EndsFrame
<1>2. LinkedIs(L)'
  <2>1. ASSUME dir # NoFile, NEW y, Stands(dir, y)' PROVE y = L
    <3>1. PICK f \in File : f = dir
      BY <1>0, <2>1
    <3>2. Stands(f, y)'
      BY <2>1, <3>1 DEF Stands
    <3> QED BY <1>0, <1>1, <2>1, <3>1, <3>2 DEF LinkedIs
  <2> QED BY <1>0, <2>1 DEF LinkedIs
<1>3. PICK b, a : b = Pending /\ a = Answer(x, call[p])
  OBVIOUS
<1>4. Carried(L, p, a, L, b)
  <2>1. Closed /\ Closed'
    BY ClosedNow, ClosedNext
  <2>2. \A e \in Extensions : e.answer[p] = a => Forget(e, p) \in explained'
    BY <1>3 DEF Answers
  <2> QED BY <1>3, <2>1, <2>2, BecameIs DEF Closed, Carried
<1>5. Chosen(W, p, a)
  <2>1. PICK e \in Expl, v \in Values :
           /\ <<e, v>> \in W
           /\ \A q \in Proc : e.answer[q] = Due(q)
           /\ \A f \in File : f # dir => \A y : Stands(f, y) => v[f] = y
    BY <1>0 DEF Present
  <2>2. v[fd[p]] = x /\ e.answer[p] = Pending
    BY <1>0, <2>1
  <2>3. PICK e2 \in Expl, v2 \in Values : Moves(e, v, p, fd[p], call[p], e2, v2)
    BY <1>0, MoveExists
  <2>4. <<e2, v2>> \in W
    BY <1>0, <2>1, <2>2, <2>3 DEF ClosedUnderMoves
  <2>5. e2.answer[p] = a /\ \A q \in Proc : q # p => e2.answer[q] = Due(q)
    BY <1>3, <2>1, <2>2, <2>3 DEF Moves
  <2>6. ASSUME NEW f \in File, f # dir', NEW y, Stands(f, y)' PROVE v2[f] = y
    <3>1. CASE f = fd[p]
      BY <2>2, <2>3, <2>6, <3>1 DEF Moves
    <3>2. CASE f # fd[p]
      BY <1>1, <2>1, <2>3, <2>6, <3>2 DEF Moves
    <3> QED BY <3>1, <3>2
  <2> QED BY <2>4, <2>5, <2>6 DEF Chosen
<1>6. OnlyMoves(p, b)
  BY <1>0, <1>3, EndsFrame DEF OnlyMoves
<1> QED BY <1>2, <1>4, <1>5, <1>6, FamilyMapped

(* A call that has read or written its file answers.                       *)
LEMMA FileAnswers ==
  ASSUME Program, HistoryTyped, HistoryTyped', NEW W, NEW L, Family(W, L), NEW p \in Proc,
         pc[p] \in {"get_lock", "set_lock", "write"}, dir' = dir, NEW x, Stands(fd[p], x),
         Answers(p, Answer(x, call[p])), Applied(x, call[p]) # Absent,
         \A y : \A f \in File : f = fd[p] /\ Stands(f, y)' => y = Applied(x, call[p]),
         \A f \in File : f # fd[p] => content'[f] = content[f]
  PROVE  \E W1, L1 : Family(W1, L1)'
<1>0. /\ fd[p] \in File /\ Due(p) = Pending /\ p \in Running /\ Ends(p) /\ LinkedIs(L)
      /\ dir \in File \cup {NoFile} /\ NoFile \notin File
  BY LabelFacts DEF Program, Typed, ProcOk, Due, Running, Answers, Family
<1>1. CASE Adrift(p)
  <2>1. \E W1 : Family(W1, L)'
    BY <1>1, FamilyMoves
  <2> QED BY <2>1
<1>2. CASE ~ Adrift(p)
  <2>1. fd[p] = dir /\ dir # NoFile
    BY <1>0, <1>2 DEF Adrift
  <2>2. x = L
    BY <1>0, <2>1 DEF LinkedIs
  <2>3. PICK M : M = Applied(L, call[p])
    OBVIOUS
  <2>4. \A f \in File : f # dir => \A y : Stands(f, y)' => Stands(f, y)
    BY <1>0, <2>1, EndsFrame
  <2>5. \A f \in File : f = dir => \A y : Stands(f, y)' => y = M
    BY <2>1, <2>2, <2>3
  <2>6. (dir = NoFile <=> M = Absent) /\ Answers(p, Answer(L, call[p]))
    BY <2>1, <2>2, <2>3
  <2>7. \E W1 : Family(W1, M)'
    BY <1>0, <1>2, <2>3, <2>4, <2>5, <2>6, FamilyAnswers
  <2> QED BY <2>7
<1> QED BY <1>1, <1>2

(* A call that has opened no file answers, and changes nothing.            *)
LEMMA UnopenedAnswers ==
  ASSUME Program, HistoryTyped, HistoryTyped', NEW W, NEW L, Family(W, L), NEW p \in Proc,
         pc[p] \in {"started", "open_new"}, dir' = dir, content' = content,
         Answers(p, Answer(L, call[p])), Applied(L, call[p]) = L
  PROVE  \E W1, L1 : Family(W1, L1)'
<1>0. /\ Due(p) = Pending /\ p \in Running /\ Ends(p) /\ LinkedIs(L) /\ ~ Adrift(p)
  BY LabelFacts DEF Program, Typed, ProcOk, Due, Running, Answers, Family, Adrift
<1>1. PICK M : M = Applied(L, call[p])
  OBVIOUS
<1>2. \A f \in File : \A y : Stands(f, y)' => Stands(f, y)
  BY <1>0, EndsFrame
<1>3. (dir = NoFile <=> M = Absent) /\ \A f \in File : f = dir => \A y : Stands(f, y)' => y = M
  BY <1>0, <1>1, <1>2, LabelFacts DEF LinkedIs
<1>4. \E W1 : Family(W1, M)'
  BY <1>0, <1>1, <1>2, <1>3, FamilyAnswers
<1> QED BY <1>4

(* A read or a compare of an empty file fails.                             *)
LEMMA InvalidAnswers ==
  ASSUME Program, HistoryTyped, HistoryTyped', NEW W, NEW L, Family(W, L), NEW p \in Proc,
         pc[p] \in {"get_lock", "set_lock"}, dir' = dir, content' = content, AnswersInvalid(p)
  PROVE  \E W1, L1 : Family(W1, L1)'
<1>0. Due(p) = Pending /\ Ends(p)
  BY DEF Due, AnswersInvalid
<1>1. \A f \in File : \A y : Stands(f, y)' => Stands(f, y)
  BY <1>0, EndsFrame
<1>2. \A e \in Extensions : e.answer[p] = Due(p) => Forget(e, p) \in Extensions'
  <2>1. PICK P \in SUBSET Proc : P = {p}
    OBVIOUS
  <2>2. \A e \in explained : (\A q \in P : e.answer[q] = Pending) => e \in explained'
    BY <2>1 DEF AnswersInvalid
  <2>3. \A q \in Running : q \in P \/ (q \in Running' /\ call'[q] = call[q])
    BY <1>0, <2>1, EndsFrame DEF Running
  <2>4. \A e \in Extensions : (\A q \in P : e.answer[q] = Pending) => e \in Extensions'
    BY <2>2, <2>3, ExtensionsKept
  <2>5. ASSUME NEW e \in Extensions, e.answer[p] = Pending PROVE Forget(e, p) = e
    <3>1. e \in Expl
      BY ExtensionsContain
    <3>2. Became(e, p, e.label, Pending, e)
      BY <2>5 DEF Became
    <3> QED BY <3>1, <3>2, BecameIs
  <2> QED BY <1>0, <2>1, <2>4, <2>5
<1>3. \E W1 : Family(W1, L)'
  BY <1>0, <1>1, <1>2, FamilyDrops
<1> QED BY <1>3

(* create_label makes the label when it makes the file.                    *)
LEMMA FamilyCreates ==
  ASSUME Program, HistoryTyped, HistoryTyped', NEW W, NEW L, Family(W, L), NEW p \in Proc,
         pc[p] = "open_new", GoTo(p, "create_lock"), dir = NoFile, explained' = explained, call' = call,
         NEW f \in File, \A q \in Proc : fd[q] # f, dir' = f,
         content' = [content EXCEPT ![f] = Empty], fd' = [fd EXCEPT ![p] = f]
  PROVE  \E W1, L1 : Family(W1, L1)'
<1>0. Typed /\ ProcOk /\ LinkedIs(L) /\ Present(W) /\ L = Absent
  BY DEF Program, Family, LinkedIs
<1>1. /\ pc'[p] = "create_lock" /\ fd'[p] = f /\ content'[f] = Empty
      /\ \A q \in Proc : q # p => pc'[q] = pc[q] /\ fd'[q] = fd[q] /\ call'[q] = call[q]
      /\ \A g \in File : g # f => content'[g] = content[g]
  BY <1>0 DEF GoTo, Typed
<1>2. p \in Running /\ Due(p) = Pending /\ call[p] \in Call /\ call[p].op = "create" /\ f # NoFile
  BY <1>0, LabelFacts DEF Running, Due, ProcOk, Typed
<1>3. Applied(L, call[p]) = NewEmpty /\ Answer(L, call[p]) = <<"ok">>
  BY <1>0, <1>2 DEF Applied, Answer
<1>4. LinkedIs(NewEmpty)'
  <2>1. ASSUME NEW x, Stands(f, x)' PROVE x = NewEmpty
    BY <1>1, <2>1 DEF Stands
  <2>2. ASSUME NEW x, Stands(dir, x)' PROVE x = NewEmpty
    BY <2>1, <2>2 DEF Stands
  <2>3. NewEmpty \in Value
    BY LabelFacts, LabelsAreLabels DEF Value
  <2> QED BY <1>2, <2>2, <2>3, LabelFacts DEF LinkedIs
<1>5. PICK b, M, a : b = <<"ok">> /\ M = NewEmpty /\ a = Pending
  OBVIOUS
<1>6. OnlyMoves(p, b)
  <2>1. b \in AnyAnswer
    BY <1>5 DEF AnyAnswer
  <2>2. ~ Adrift(p)' /\ Due(p)' = b
    BY <1>1, <1>5 DEF Adrift, Due
  <2>3. \A q \in Proc : q # p => (Adrift(q)' <=> Adrift(q)) /\ Due(q)' = Due(q)
    BY <1>1, LabelFacts DEF Adrift, Due
  <2> QED BY <1>1, <2>1, <2>2, <2>3 DEF OnlyMoves
<1>7. Carried(L, p, a, M, b)
  <2> SUFFICES ASSUME NEW e \in Extensions, e.label = L, e.answer[p] = a, NEW d \in Expl, Became(e, p, M, b, d)
               PROVE  d \in Extensions'
    BY DEF Carried
  <2>1. Closed /\ Closed' /\ e \in Expl
    BY ClosedNow, ClosedNext DEF Closed
  <2>2. Explain(e, p) \in Extensions
    BY <1>2, <1>5, <2>1 DEF Closed
  <2>3. d = Explain(e, p)
    BY <1>3, <1>5, <2>1, BecameIs
  <2>4. PICK P \in SUBSET Proc : P = {}
    OBVIOUS
  <2>5. \A q \in Running : q \in Running' /\ call'[q] = call[q]
    BY <1>1 DEF Running
  <2>6. \A x \in Extensions : (\A q \in P : x.answer[q] = Pending) => x \in Extensions'
    BY <2>4, <2>5, ExtensionsKept
  <2> QED BY <2>2, <2>3, <2>4, <2>6
<1>8. Chosen(W, p, a)
  <2>1. PICK e \in Expl, v \in Values :
           /\ <<e, v>> \in W
           /\ \A q \in Proc : e.answer[q] = Due(q)
           /\ \A g \in File : g # dir => \A y : Stands(g, y) => v[g] = y
    BY <1>0 DEF Present
  <2>2. ASSUME NEW g \in File, g # f, NEW x, Stands(g, x)' PROVE Stands(g, x)
    BY <1>1, <2>2 DEF Stands
  <2>3. \A g \in File : g # f => \A x : Stands(g, x)' => v[g] = x
    BY <2>1, <2>2, LabelFacts
  <2> QED BY <1>2, <1>5, <2>1, <2>3 DEF Chosen
<1>9. LinkedIs(M)'
  BY <1>4, <1>5 DEF LinkedIs
<1>10. \E W1 : Family(W1, M)'
  BY <1>6, <1>7, <1>8, <1>9, FamilyMapped
<1> QED BY <1>10

-----------------------------------------------------------------------------
(* Every step keeps a family of explanations.                              *)

HasFamily == \E W, L : Family(W, L)

LEMMA InitFamily ==
  ASSUME Init PROVE HasFamily
<1>0. Program /\ Recorded /\ HistoryTyped
  BY InitProgram, ProgramHistory
<1> DEFINE e == [label |-> Absent, answer |-> [p \in Proc |-> Pending]]
           v == [f \in File |-> Absent]
<1>1. explained = {e}
  BY DEF Init
<1>2. e.label = Absent /\ \A p \in Proc : e.answer[p] = Pending
  OBVIOUS
<1> HIDE DEF e
<1>3. e \in Expl /\ e \in Extensions
  BY <1>0, <1>1, ClosedNow DEF Closed, HistoryTyped
<1>4. v \in Values
  BY DEF Values, Value
<1> HIDE DEF v
<1>5. \A p \in Proc : ~ Adrift(p) /\ Due(p) = Pending
  BY DEF Init, Adrift, Due
<1>6. \A f, x : f \in File => ~ Stands(f, x)
  BY DEF Init, Stands
<1>7. PICK W, L : W = {<<e, v>>} /\ L = Absent
  OBVIOUS
<1>8. LinkedIs(L)
  BY <1>7 DEF LinkedIs, Value, Init
<1>9. Explains(W, L)
  BY <1>2, <1>3, <1>4, <1>5, <1>7 DEF Explains
<1>10. Present(W)
  BY <1>2, <1>3, <1>4, <1>5, <1>6, <1>7 DEF Present
<1>11. ClosedUnderMoves(W)
  BY <1>5 DEF ClosedUnderMoves
<1> QED BY <1>8, <1>9, <1>10, <1>11 DEF Family, HasFamily

(* A process that goes on, and explains nothing.                           *)
LEMMA GoesOnFamily ==
  ASSUME Program, HistoryTyped, HistoryTyped', HasFamily, NEW p \in Proc,
         explained' = explained, dir' = dir,
         \A q \in Proc : q # p => pc'[q] = pc[q] /\ fd'[q] = fd[q] /\ call'[q] = call[q],
         pc'[p] # "idle", pc[p] = "idle" \/ call'[p] = call[p],
         Adrift(p)' <=> Adrift(p), Due(p)' = Due(p), Adrift(p) => fd'[p] = fd[p],
         \A f \in File : \A x : Stands(f, x)' => Stands(f, x)
  PROVE  HasFamily'
<1>1. PICK W, L : Family(W, L)
  BY DEF HasFamily
<1>2. dir \in File \cup {NoFile}
  BY DEF Program, Typed
<1>3. \A q \in Running : q \in Running' /\ call'[q] = call[q]
  BY DEF Running
<1>4. \A q \in Proc : (Adrift(q)' <=> Adrift(q)) /\ Due(q)' = Due(q)
  <2>1. ASSUME NEW q \in Proc, q # p PROVE (Adrift(q)' <=> Adrift(q)) /\ Due(q)' = Due(q)
    BY <2>1 DEF Adrift, Due
  <2> QED BY <2>1
<1>5. \A q \in Proc : Adrift(q) => fd'[q] = fd[q] /\ call'[q] = call[q]
  BY DEF Adrift
<1>6. Family(W, L)'
  BY <1>1, <1>2, <1>3, <1>4, <1>5, FamilyStays
<1> QED BY <1>6 DEF HasFamily

LEMMA StartFamily ==
  ASSUME Program, HistoryTyped, HistoryTyped', HasFamily, NEW p \in Proc, Start(p)
  PROVE  HasFamily'
<1>1. PICK c : call' = [call EXCEPT ![p] = c]
  BY DEF Start
<1>2. /\ pc[p] = "idle" /\ pc'[p] = "started" /\ explained' = explained /\ dir' = dir
      /\ content' = content /\ fd' = fd
      /\ \A q \in Proc : q # p => pc'[q] = pc[q] /\ call'[q] = call[q]
  BY <1>1 DEF Start, GoTo, Program, Typed
<1>3. Adrift(p)' <=> Adrift(p)
  BY <1>2 DEF Adrift
<1>4. Due(p)' = Due(p)
  BY <1>2 DEF Due
<1>5. ASSUME NEW f \in File, NEW x, Stands(f, x)' PROVE Stands(f, x)
  BY <1>2, <1>5 DEF Stands
<1> QED BY <1>2, <1>3, <1>4, <1>5, GoesOnFamily

(* A process goes on with its call on the file it has, or opens the linked *)
(* one.                                                                    *)
LEMMA GoToFamily ==
  ASSUME Program, HistoryTyped, HistoryTyped', HasFamily, NEW p \in Proc, NEW where, GoTo(p, where),
         UNCHANGED <<dir, content, call, explained>>,
         \/ fd' = fd /\ pc[p] = "started" /\ where = "open_new"
         \/ fd' = fd /\ pc[p] = "create_lock" /\ where = "create_write"
         \/ fd' = fd /\ pc[p] = "set_lock" /\ where = "truncate"
         \/ /\ fd' = [fd EXCEPT ![p] = dir] /\ dir # NoFile
            /\ pc[p] = "started" /\ where \in {"get_lock", "set_lock"}
  PROVE  HasFamily'
<1>0. Typed /\ ProcOk
  BY DEF Program
<1>1. /\ pc'[p] = where /\ \A q \in Proc : q # p => pc'[q] = pc[q] /\ fd'[q] = fd[q]
      /\ fd'[p] = fd[p] \/ fd'[p] = dir
      /\ fd' = fd \/ (pc[p] = "started" /\ fd'[p] = dir)
  BY <1>0 DEF GoTo, Typed
<1>2. Adrift(p)' <=> Adrift(p)
  BY <1>0, <1>1, LabelFacts DEF Adrift, ProcOk
<1>3. Due(p)' = Due(p)
  BY <1>1 DEF Due
<1>4. ASSUME NEW f \in File, NEW x, Stands(f, x)' PROVE Stands(f, x)
  <2>1. CASE content[f] # Empty
    BY <1>4, <2>1 DEF Stands
  <2>2. CASE content[f] = Empty
    <3>1. PICK q \in Proc : /\ fd'[q] = f
                            /\ \/ pc'[q] = "write" /\ x = call[q].label
                               \/ pc'[q] \in {"create_lock", "create_write"} /\ x = NewEmpty
      BY <1>4, <2>2 DEF Stands
    <3>2. CASE q # p
      BY <1>1, <2>2, <3>1, <3>2 DEF Stands
    <3>3. CASE q = p
      BY <1>1, <2>2, <3>1, <3>3 DEF Stands
    <3> QED BY <3>2, <3>3
  <2> QED BY <2>1, <2>2
<1>5. pc'[p] # "idle" /\ call'[p] = call[p] /\ \A q \in Proc : call'[q] = call[q]
  BY <1>1
<1>6. Adrift(p) => fd'[p] = fd[p]
  BY <1>1 DEF Adrift
<1> QED BY <1>1, <1>2, <1>3, <1>4, <1>5, <1>6, GoesOnFamily

LEMMA TruncateFamily ==
  ASSUME Program, HistoryTyped, HistoryTyped', HasFamily, NEW p \in Proc, SetTruncate(p)
  PROVE  HasFamily'
<1>0. Typed /\ ProcOk /\ Exclusive
  BY DEF Program
<1>1. PICK g \in File : g = fd[p]
  BY <1>0 DEF SetTruncate, Typed, ProcOk
<1>2. /\ pc[p] = "truncate" /\ pc'[p] = "write" /\ explained' = explained /\ dir' = dir /\ call' = call /\ fd' = fd
      /\ content'[g] = Empty /\ content[g] = call[p].label /\ content[g] # Empty
      /\ \A q \in Proc : q # p => pc'[q] = pc[q] /\ fd'[q] = fd[q] /\ call'[q] = call[q]
      /\ \A f \in File : f # g => content'[f] = content[f]
  BY <1>0, <1>1, LabelFacts DEF SetTruncate, GoTo, Typed, ProcOk
<1>3. Adrift(p)' <=> Adrift(p)
  BY <1>2 DEF Adrift
<1>4. Due(p)' = Due(p)
  BY <1>2 DEF Due
<1>5. ASSUME NEW f \in File, NEW x, Stands(f, x)' PROVE Stands(f, x)
  <2>1. CASE f = g
    <3>1. \A q \in Proc : q # p /\ fd[q] = g => pc[q] \in {"get_lock", "set_lock"}
      BY <1>0, <1>1, <1>2 DEF Exclusive
    <3>2. x = content[g]
      BY <1>2, <1>5, <2>1, <3>1 DEF Stands
    <3> QED BY <1>2, <2>1, <3>2 DEF Stands
  <2>2. CASE f # g
    BY <1>1, <1>2, <1>5, <2>2 DEF Stands
  <2> QED BY <2>1, <2>2
<1>6. pc'[p] # "idle" /\ call'[p] = call[p] /\ fd'[p] = fd[p]
  BY <1>2
<1> QED BY <1>2, <1>3, <1>4, <1>5, <1>6, GoesOnFamily

(* create_label answers: the label was made when the file was.             *)
LEMMA CreateWriteFamily ==
  ASSUME Program, HistoryTyped, HistoryTyped', HasFamily, NEW p \in Proc, CreateWrite(p)
  PROVE  HasFamily'
<1>0. Typed /\ ProcOk
  BY DEF Program
<1>1. PICK g \in File : g = fd[p]
  BY <1>0 DEF CreateWrite, Typed, ProcOk
<1>2. /\ Ends(p) /\ pc[p] = "create_write" /\ dir' = dir /\ Due(p) = <<"ok">>
      /\ explained' = {Forget(e, p) : e \in {x \in Extensions : x.answer[p] = <<"ok">>}}
      /\ content[g] = Empty /\ content'[g] = NewEmpty
      /\ \A f \in File : f # g => content'[f] = content[f]
  BY <1>0, <1>1 DEF CreateWrite, Answers, Due, Typed, ProcOk
<1>3. \A e \in Extensions : e.answer[p] = Due(p) => Forget(e, p) \in Extensions'
  <2>1. Closed'
    BY ClosedNext
  <2>2. \A e \in Extensions : e.answer[p] = Due(p) => Forget(e, p) \in explained'
    BY <1>2
  <2> QED BY <2>1, <2>2 DEF Closed
<1>4. \A f \in File : \A x : Stands(f, x)' => Stands(f, x)
  <2> SUFFICES ASSUME NEW f \in File, NEW x, Stands(f, x)' PROVE Stands(f, x)
    OBVIOUS
  <2>1. CASE f = g
    <3>1. x = NewEmpty
      BY <1>2, <2>1, LabelFacts DEF Stands
    <3> QED BY <1>1, <1>2, <2>1, <3>1 DEF Stands
  <2>2. CASE f # g
    BY <1>2, <2>2, EndsFrame
  <2> QED BY <2>1, <2>2
<1>5. PICK W, L : Family(W, L)
  BY DEF HasFamily
<1>6. \E W1 : Family(W1, L)'
  BY <1>2, <1>3, <1>4, <1>5, FamilyDrops
<1> QED BY <1>6 DEF HasFamily

LEMMA CrashFamily ==
  ASSUME Program, HistoryTyped, HistoryTyped', HasFamily, NEW p \in Proc, Crash(p)
  PROVE  HasFamily'
<1>1. Ends(p) /\ dir' = dir /\ content' = content /\ explained' = {Forget(e, p) : e \in Extensions}
  BY DEF Crash
<1>2. \A e \in Extensions : e.answer[p] = Due(p) => Forget(e, p) \in Extensions'
  <2>1. Closed'
    BY ClosedNext
  <2>2. \A e \in Extensions : Forget(e, p) \in explained'
    BY <1>1
  <2> QED BY <2>1, <2>2 DEF Closed
<1>3. \A f \in File : \A x : Stands(f, x)' => Stands(f, x)
  BY <1>1, EndsFrame
<1>4. PICK W, L : Family(W, L)
  BY DEF HasFamily
<1>5. \E W1 : Family(W1, L)'
  BY <1>1, <1>2, <1>3, <1>4, FamilyDrops
<1> QED BY <1>5 DEF HasFamily

(* get_label and set_label_option under the lock.                          *)
LEMMA GetReadFamily ==
  ASSUME Program, HistoryTyped, HistoryTyped', HasFamily, NEW p \in Proc, GetRead(p)
  PROVE  HasFamily'
<1>0. Typed /\ ProcOk /\ pc[p] = "get_lock" /\ UNCHANGED <<dir, content>>
  BY DEF Program, GetRead
<1>1. PICK W, L : Family(W, L)
  BY DEF HasFamily
<1>2. CASE AnswersInvalid(p)
  <2>1. \E W1, L1 : Family(W1, L1)'
    BY <1>0, <1>1, <1>2, InvalidAnswers
  <2> QED BY <2>1 DEF HasFamily
<1>3. CASE content[fd[p]] # Empty /\ Answers(p, <<"label", content[fd[p]]>>)
  <2>0. PICK x : x = content[fd[p]]
    OBVIOUS
  <2>1. PICK g \in File : g = fd[p] /\ x = content[g]
    BY <1>0, <2>0 DEF Typed, ProcOk
  <2>2. call[p].op = "get" /\ x \in Label
    BY <1>0, <1>3, <2>1 DEF ProcOk, Typed
  <2>3. Applied(x, call[p]) = x /\ Answer(x, call[p]) = <<"label", x>> /\ x # Absent
    BY <2>2, LabelFacts DEF Applied, Answer
  <2>4. Stands(fd[p], x)
    BY <1>3, <2>1 DEF Stands
  <2>5. ASSUME NEW y, NEW f \in File, f = fd[p], Stands(f, y)' PROVE y = Applied(x, call[p])
    BY <1>0, <1>3, <2>1, <2>3, <2>5 DEF Stands
  <2>6. Answers(p, Answer(x, call[p]))
    BY <1>3, <2>1, <2>3
  <2>7. \E W1, L1 : Family(W1, L1)'
    BY <1>0, <1>1, <2>3, <2>4, <2>5, <2>6, FileAnswers
  <2> QED BY <2>7 DEF HasFamily
<1> QED BY <1>2, <1>3 DEF GetRead

LEMMA SetCompareFamily ==
  ASSUME Program, HistoryTyped, HistoryTyped', HasFamily, NEW p \in Proc, SetCompare(p)
  PROVE  HasFamily'
<1>0. Typed /\ ProcOk /\ pc[p] = "set_lock" /\ UNCHANGED <<dir, content>>
  BY DEF Program, SetCompare
<1>1. PICK W, L : Family(W, L)
  BY DEF HasFamily
<1>2. CASE AnswersInvalid(p)
  <2>1. \E W1, L1 : Family(W1, L1)'
    BY <1>0, <1>1, <1>2, InvalidAnswers
  <2> QED BY <2>1 DEF HasFamily
<1>3. CASE content[fd[p]] \notin {Empty, call[p].label} /\ Answers(p, <<"none">>)
  <2>0. PICK x : x = content[fd[p]]
    OBVIOUS
  <2>1. PICK g \in File : g = fd[p] /\ x = content[g]
    BY <1>0, <2>0 DEF Typed, ProcOk
  <2>2. call[p].op = "set" /\ x \in Label /\ x # call[p].label
    BY <1>0, <1>3, <2>1 DEF ProcOk, Typed
  <2>3. Applied(x, call[p]) = x /\ Answer(x, call[p]) = <<"none">> /\ x # Absent
    BY <2>2, LabelFacts DEF Applied, Answer
  <2>4. Stands(fd[p], x)
    BY <1>3, <2>1 DEF Stands
  <2>5. ASSUME NEW y, NEW f \in File, f = fd[p], Stands(f, y)' PROVE y = Applied(x, call[p])
    BY <1>0, <1>3, <2>1, <2>3, <2>5 DEF Stands
  <2>6. Answers(p, Answer(x, call[p]))
    BY <1>3, <2>1, <2>3
  <2>7. \E W1, L1 : Family(W1, L1)'
    BY <1>0, <1>1, <2>3, <2>4, <2>5, <2>6, FileAnswers
  <2> QED BY <2>7 DEF HasFamily
<1>4. CASE GoTo(p, "truncate") /\ UNCHANGED <<fd, call, explained>>
  BY <1>0, <1>4, GoToFamily
<1> QED BY <1>2, <1>3, <1>4 DEF SetCompare

LEMMA SetWriteFamily ==
  ASSUME Program, HistoryTyped, HistoryTyped', HasFamily, NEW p \in Proc, SetWrite(p)
  PROVE  HasFamily'
<1>0. Typed /\ ProcOk /\ pc[p] = "write" /\ dir' = dir /\ Answers(p, <<"some">>)
  BY DEF Program, SetWrite
<1>1. PICK W, L : Family(W, L)
  BY DEF HasFamily
<1>a. PICK x, n : x = call[p].label /\ n = WithUpdatedLayer(call[p].label, call[p].layer)
  OBVIOUS
<1>2. PICK g \in File : g = fd[p] /\ x = call[p].label /\ n = WithUpdatedLayer(call[p].label, call[p].layer)
  BY <1>0, <1>a DEF Typed, ProcOk
<1>3. /\ content'[g] = n /\ content[g] = Empty
      /\ \A f \in File : f # g => content'[f] = content[f]
  BY <1>0, <1>2 DEF SetWrite, Typed, ProcOk
<1>4. call[p].op = "set" /\ x \in Label /\ call[p] \in Call
  BY <1>0, <1>2 DEF ProcOk, Typed
<1>5. n # Absent /\ n # Empty
  <2>1. n \in AnyLabel
    BY <1>2, <1>4 DEF WithUpdatedLayer, AnyLabel, Label, Call
  <2> QED BY <2>1, SentinelAssumption
<1>6. Applied(x, call[p]) = n /\ Answer(x, call[p]) = <<"some">>
  BY <1>2, <1>4, LabelFacts DEF Applied, Answer
<1>7. Stands(fd[p], x)
  BY <1>0, <1>2, <1>3 DEF Stands
<1>8. ASSUME NEW y, NEW f \in File, f = fd[p], Stands(f, y)' PROVE y = Applied(x, call[p])
  BY <1>2, <1>3, <1>5, <1>6, <1>8 DEF Stands
<1>9. Answers(p, Answer(x, call[p])) /\ Applied(x, call[p]) # Absent
  BY <1>0, <1>5, <1>6
<1>10. \E W1, L1 : Family(W1, L1)'
  BY <1>0, <1>1, <1>2, <1>3, <1>7, <1>8, <1>9, FileAnswers
<1> QED BY <1>10 DEF HasFamily

(* The calls that find a file, or none, without opening it.                *)
LEMMA UnopenedFamily ==
  ASSUME Program, HistoryTyped, HistoryTyped', HasFamily, NEW p \in Proc, NEW r, Answers(p, r),
         dir' = dir, content' = content,
         \/ pc[p] \in {"started", "open_new"} /\ call[p].op = "create" /\ dir # NoFile /\ r = <<"exists">>
         \/ pc[p] = "started" /\ call[p].op = "get" /\ dir = NoFile /\ r = <<"label", Absent>>
         \/ pc[p] = "started" /\ call[p].op = "set" /\ dir = NoFile /\ r = <<"gone">>
         \/ pc[p] = "started" /\ call[p].op = "delete" /\ dir = NoFile /\ r = <<"false">>
  PROVE  HasFamily'
<1>1. PICK W, L : Family(W, L)
  BY DEF HasFamily
<1>2. dir = NoFile <=> L = Absent
  BY <1>1 DEF Family, LinkedIs
<1>3. Applied(L, call[p]) = L /\ Answer(L, call[p]) = r
  BY <1>2 DEF Applied, Answer
<1>4. \E W1, L1 : Family(W1, L1)'
  BY <1>1, <1>3, UnopenedAnswers
<1> QED BY <1>4 DEF HasFamily

LEMMA ProceedFamily ==
  ASSUME Program, HistoryTyped, HistoryTyped', HasFamily, NEW p \in Proc, Proceed(p)
  PROVE  HasFamily'
<1>0. Typed /\ ProcOk
  BY DEF Program
<1>1. CASE CreateCheck(p)
  <2>1. CASE dir # NoFile /\ Answers(p, <<"exists">>)
    BY <1>1, <2>1, UnopenedFamily DEF CreateCheck
  <2>2. CASE GoTo(p, "open_new") /\ UNCHANGED <<fd, call, explained>>
    BY <1>1, <2>2, GoToFamily DEF CreateCheck
  <2> QED BY <1>1, <2>1, <2>2 DEF CreateCheck
<1>2. CASE CreateOpen(p)
  <2>1. CASE dir # NoFile /\ Answers(p, <<"exists">>) /\ UNCHANGED <<dir, content>>
    <3>1. pc[p] = "open_new" /\ call[p].op = "create"
      BY <1>0, <1>2 DEF CreateOpen, ProcOk
    <3> QED BY <2>1, <3>1, UnopenedFamily
  <2>2. CASE dir = NoFile
    <3> DEFINE f == CHOOSE x \in File : \A q \in Proc : fd[q] # x
    <3>1. f \in File /\ \A q \in Proc : fd[q] # f
      BY <1>0, FreeFile
    <3>2. /\ dir' = f /\ content' = [content EXCEPT ![f] = Empty] /\ fd' = [fd EXCEPT ![p] = f]
          /\ pc[p] = "open_new" /\ GoTo(p, "create_lock") /\ call' = call /\ explained' = explained
      BY <1>2, <2>2 DEF CreateOpen
    <3>3. PICK W, L : Family(W, L)
      BY DEF HasFamily
    <3> HIDE DEF f
    <3>4. PICK g : g = f
      OBVIOUS
    <3>5. \E W1, L1 : Family(W1, L1)'
      BY <2>2, <3>1, <3>2, <3>3, <3>4, FamilyCreates
    <3> QED BY <3>5 DEF HasFamily
  <2> QED BY <1>2, <2>1, <2>2 DEF CreateOpen
<1>3. CASE CreateLock(p)
  BY <1>3, GoToFamily DEF CreateLock
<1>4. CASE GetOpen(p)
  <2>1. CASE dir = NoFile /\ Answers(p, <<"label", Absent>>)
    BY <1>4, <2>1, UnopenedFamily DEF GetOpen
  <2>2. CASE dir # NoFile /\ fd' = [fd EXCEPT ![p] = dir] /\ GoTo(p, "get_lock") /\ UNCHANGED <<call, explained>>
    BY <1>4, <2>2, GoToFamily DEF GetOpen
  <2> QED BY <1>4, <2>1, <2>2 DEF GetOpen
<1>5. CASE SetOpen(p)
  <2>1. CASE dir = NoFile /\ Answers(p, <<"gone">>)
    BY <1>5, <2>1, UnopenedFamily DEF SetOpen
  <2>2. CASE dir # NoFile /\ fd' = [fd EXCEPT ![p] = dir] /\ GoTo(p, "set_lock") /\ UNCHANGED <<call, explained>>
    BY <1>5, <2>2, GoToFamily DEF SetOpen
  <2> QED BY <1>5, <2>1, <2>2 DEF SetOpen
<1>6. CASE DeleteUnlink(p)
  <2>1. CASE dir = NoFile
    <3>1. Answers(p, <<"false">>) /\ pc[p] = "started" /\ call[p].op = "delete" /\ dir' = dir /\ content' = content
      BY <1>6, <2>1 DEF DeleteUnlink
    <3> QED BY <2>1, <3>1, UnopenedFamily
  <2>2. CASE dir # NoFile
    <3>1. PICK W, L : Family(W, L)
      BY DEF HasFamily
    <3>2. \E W1 : Family(W1, Absent)'
      BY <1>6, <2>2, <3>1, FamilyDeleted
    <3> QED BY <3>2 DEF HasFamily
  <2> QED BY <2>1, <2>2
<1> QED BY <1>1, <1>2, <1>3, <1>4, <1>5, <1>6, CreateWriteFamily, GetReadFamily, SetCompareFamily,
           TruncateFamily, SetWriteFamily DEF Proceed

LEMMA NextFamily ==
  ASSUME Program, Recorded, HasFamily, [Next]_vars
  PROVE  HasFamily'
<1>0. HistoryTyped /\ HistoryTyped'
  <2>1. Program' /\ Recorded'
    BY NextProgram
  <2>2. HistoryTyped'
    BY <2>1 DEF Program, Typed, Recorded, HistoryTyped
  <2> QED BY <2>2, ProgramHistory
<1>1. CASE UNCHANGED vars
  <2>1. PICK W, L : Family(W, L)
    BY DEF HasFamily
  <2>2. \A q \in Running : q \in Running' /\ call'[q] = call[q]
    BY <1>1 DEF vars, Running
  <2>3. \A q \in Proc : (Adrift(q)' <=> Adrift(q)) /\ Due(q)' = Due(q) /\ fd'[q] = fd[q] /\ call'[q] = call[q]
    BY <1>1 DEF vars, Adrift, Due
  <2>4. \A f \in File : \A x : Stands(f, x)' => Stands(f, x)
    BY <1>1 DEF vars, Stands
  <2>5. dir' = dir /\ explained' = explained /\ dir \in File \cup {NoFile}
    BY <1>1 DEF vars, Program, Typed
  <2>6. Family(W, L)'
    BY <1>0, <2>1, <2>2, <2>3, <2>4, <2>5, FamilyStays
  <2> QED BY <2>6 DEF HasFamily
<1>2. ASSUME NEW p \in Proc, Start(p) PROVE HasFamily'
  BY <1>0, <1>2, StartFamily
<1>3. ASSUME NEW p \in Proc, Proceed(p) PROVE HasFamily'
  BY <1>0, <1>3, ProceedFamily
<1>4. ASSUME NEW p \in Proc, Crash(p) PROVE HasFamily'
  BY <1>0, <1>4, CrashFamily
<1> QED BY <1>1, <1>2, <1>3, <1>4 DEF Next

(***************************************************************************)
(* The answers that processes get from the label file, whatever creates,   *)
(* reads, updates, deletes and crashes overlap, are those of an atomic     *)
(* label store: delete_label's claim that its missing lock cannot be       *)
(* noticed holds for any number of processes and calls.                    *)
(***************************************************************************)
THEOREM LabelFileIsAtomic == Spec => []Linearizable
<1>1. Init => Program /\ Recorded /\ HasFamily
  BY InitProgram, InitFamily
<1>2. (Program /\ Recorded /\ HasFamily) /\ [Next]_vars => (Program /\ Recorded /\ HasFamily)'
  BY NextProgram, NextFamily
<1>3. Program /\ Recorded /\ HasFamily => Linearizable
  <2> SUFFICES ASSUME Program, Recorded, HasFamily, explained = {} PROVE FALSE
    BY DEF Linearizable
  <2>1. HistoryTyped
    BY ProgramHistory
  <2>2. PICK X : X = {}
    OBVIOUS
  <2>3. Extensions \subseteq X
    BY <2>1, <2>2, ExtensionsLeast
  <2>4. PICK W, L : Family(W, L)
    BY DEF HasFamily
  <2>5. \E e \in Expl : e \in Extensions
    BY <2>4 DEF Family, Present, Explains
  <2> QED BY <2>2, <2>3, <2>5
<1> QED BY <1>1, <1>2, <1>3, PTL DEF Spec
=============================================================================
