-------------------------- MODULE NamedGraph_proofs --------------------------
(***************************************************************************)
(* Proofs about NamedGraph, for any number of clients, layers and calls    *)
(* and for both kinds of label store.                                      *)
(***************************************************************************)
EXTENDS NamedGraph, TLAPS

USE DEF AllOps

-----------------------------------------------------------------------------
(* The inductive invariant.                                                *)

(* A call past its get_label holds a label; past the check of set_head it  *)
(* holds one its layer may replace, and in force_set_head_version one of   *)
(* the version its caller saw.                                             *)
CallsHoldLabels ==
  \A c \in Client :
    /\ pc[c] # "idle" => arg[c] \in Layer
    /\ pc[c] # "idle" /\ call[c] = "force_set_head_version" => base[c] # NoLabel
    /\ pc[c] = "check" => call[c] = "set_head"
    /\ pc[c] \in {"check", "set_label"} => read[c] \in Label
    /\ pc[c] = "set_label" /\ call[c] = "set_head" => SetIsOk(c)
    /\ pc[c] = "set_label" /\ call[c] = "force_set_head_version"
         => read[c].version = base[c].version

(* A label someone has fetched is not newer than the label on record, and  *)
(* is the label on record if it has its version.                           *)
IsPast(l) ==
  /\ label # NoLabel
  /\ l.version <= label.version
  /\ l.version = label.version => l = label

(* Until the label is deleted, versions identify labels.                   *)
VersionsIdentify ==
  past # "deleted" =>
    \A c \in Client :
      /\ read[c] # NoLabel => IsPast(read[c])
      /\ base[c] # NoLabel => IsPast(base[c])

IInv ==
  /\ TypeOK
  /\ CallsHoldLabels
  /\ NoLostUpdate
  /\ VersionsIdentify
  /\ HeadHistoryIsKept

-----------------------------------------------------------------------------
(* Committing a layer makes no new way for a set to be closed: the layer   *)
(* committed had no parent file before, and all others keep theirs.        *)
LEMMA CommitKeepsClosed ==
  ASSUME TypeOK, NEW l \in Layer \ Committed, NEW p,
         parent' = [parent EXCEPT ![l] = p],
         NEW S \in SUBSET Layer, ParentClosed(S)'
  PROVE  ParentClosed(S)
<1> SUFFICES ASSUME NEW k \in S, parent[k] \in Layer
             PROVE  parent[k] \in S
  BY DEF ParentClosed
<1>1. k # l
  BY SentinelAssumption DEF Committed
<1>2. parent'[k] = parent[k]
  BY <1>1 DEF TypeOK
<1> QED
  BY <1>2 DEF ParentClosed

(* So what is an ancestor stays one: committing a layer only adds to the   *)
(* layers that layer_is_ancestor_of visits.                                *)
LEMMA CommitKeepsAncestors ==
  ASSUME TypeOK, NEW l \in Layer \ Committed, NEW p,
         parent' = [parent EXCEPT ![l] = p],
         NEW d, NEW a, LayerIsAncestorOf(d, a)
  PROVE  \A S \in SUBSET Layer : d \in S /\ ParentClosed(S)' => a \in S
BY CommitKeepsClosed DEF LayerIsAncestorOf

(* The ancestor relation of layer_is_ancestor_of is transitive.            *)
LEMMA AncestorTransitive ==
  ASSUME NEW a, NEW b, NEW c, LayerIsAncestorOf(a, b), LayerIsAncestorOf(b, c)
  PROVE  LayerIsAncestorOf(a, c)
BY DEF LayerIsAncestorOf

(* Every layer is an ancestor of itself.                                   *)
LEMMA AncestorReflexive ==
  ASSUME NEW a PROVE LayerIsAncestorOf(a, a)
BY DEF LayerIsAncestorOf

-----------------------------------------------------------------------------
(* The initial states satisfy the invariant.                               *)
LEMMA InitIInv == Init => IInv
BY SentinelAssumption
   DEF Init, IInv, TypeOK, CallsHoldLabels, NoLostUpdate, VersionsIdentify,
       HeadHistoryIsKept

(* Every action keeps the types.                                           *)
LEMMA TypeStep ==
  ASSUME IInv, [Next]_vars PROVE TypeOK'
<1> USE DEF IInv, TypeOK
<1>1. ASSUME NEW c \in Client, Commit(c) PROVE TypeOK'
  BY <1>1 DEF Commit, Begin, Committed
<1>2. ASSUME NEW c \in Client, Create(c) PROVE TypeOK'
  BY <1>2 DEF Create, Begin, NewEmpty, Label
<1>3. ASSUME NEW c \in Client, Delete(c) PROVE TypeOK'
  BY <1>3 DEF Delete, Begin
<1>4. ASSUME NEW c \in Client, HeadVersion(c) PROVE TypeOK'
  BY <1>4 DEF HeadVersion, Begin
<1>5. ASSUME NEW c \in Client, NEW operation \in AllOps, NEW layer \in Committed,
             StartCall(c, operation, layer)
      PROVE  TypeOK'
  BY <1>5 DEF StartCall, Begin, Committed
<1>6. ASSUME NEW c \in Client, GetLabel(c) PROVE TypeOK'
  BY <1>6 DEF GetLabel, Return
<1>7. ASSUME NEW c \in Client, Check(c) PROVE TypeOK'
  BY <1>7 DEF Check, Return
<1>8. ASSUME NEW c \in Client, SwapOk(c) PROVE TypeOK'
  <2>1. /\ read[c] \in Label
        /\ arg[c] \in Layer
    BY <1>8 DEF SwapOk, CallsHoldLabels
  <2>2. WithUpdatedLayer(read[c], arg[c]) \in Label
    BY <2>1 DEF WithUpdatedLayer, Label
  <2> QED
    BY <1>8, <2>2 DEF SwapOk, Return
<1>9. ASSUME NEW c \in Client, SwapFails(c) PROVE TypeOK'
  BY <1>9 DEF SwapFails, Return
<1>10. ASSUME UNCHANGED vars PROVE TypeOK'
  BY <1>10 DEF vars
<1> QED
  BY <1>1, <1>2, <1>3, <1>4, <1>5, <1>6, <1>7, <1>8, <1>9, <1>10 DEF Next, Proceed

(* Every action leaves the calls under way holding what they need.         *)
LEMMA CallsStep ==
  ASSUME IInv, [Next]_vars PROVE CallsHoldLabels'
<1> USE DEF IInv, CallsHoldLabels
<1>0. TypeOK
  OBVIOUS
<1>1. ASSUME NEW c \in Client, Commit(c) PROVE CallsHoldLabels'
  <2>1. PICK l \in Layer \ Committed, p \in Committed \cup {None} :
          parent' = [parent EXCEPT ![l] = p]
    BY <1>1 DEF Commit
  <2>2. ASSUME NEW k \in Client, SetIsOk(k) PROVE SetIsOk(k)'
    <3>1. read'[k] = read[k] /\ arg'[k] = arg[k]
      BY <1>1 DEF Commit
    <3>2. CASE read[k].layer = None
      BY <3>1, <3>2 DEF SetIsOk
    <3>3. CASE LayerIsAncestorOf(arg[k], read[k].layer)
      <4>1. \A S \in SUBSET Layer :
              arg[k] \in S /\ ParentClosed(S)' => read[k].layer \in S
        BY <1>0, <2>1, <3>3, CommitKeepsAncestors
      <4> QED
        BY <3>1, <4>1 DEF SetIsOk, LayerIsAncestorOf
    <3> QED
      BY <2>2, <3>2, <3>3 DEF SetIsOk
  <2> QED
    BY <1>1, <2>2 DEF Commit
<1>2. ASSUME NEW c \in Client, Create(c) \/ Delete(c) \/ HeadVersion(c)
      PROVE  CallsHoldLabels'
  BY <1>0, <1>2 DEF Create, Delete, HeadVersion, Begin, TypeOK, SetIsOk,
                    LayerIsAncestorOf, ParentClosed
<1>3. ASSUME NEW c \in Client, NEW operation \in AllOps, NEW layer \in Committed,
             StartCall(c, operation, layer)
      PROVE  CallsHoldLabels'
  BY <1>0, <1>3 DEF StartCall, Begin, TypeOK, Committed, SetIsOk, LayerIsAncestorOf,
                    ParentClosed
<1>4. ASSUME NEW c \in Client, GetLabel(c) PROVE CallsHoldLabels'
  BY <1>0, <1>4 DEF GetLabel, Return, TypeOK, SetIsOk, LayerIsAncestorOf, ParentClosed
<1>5. ASSUME NEW c \in Client, Check(c) PROVE CallsHoldLabels'
  BY <1>0, <1>5 DEF Check, Return, TypeOK, SetIsOk, LayerIsAncestorOf, ParentClosed
<1>6. ASSUME NEW c \in Client, SwapOk(c) PROVE CallsHoldLabels'
  BY <1>0, <1>6 DEF SwapOk, Return, TypeOK, SetIsOk, LayerIsAncestorOf, ParentClosed
<1>7. ASSUME NEW c \in Client, SwapFails(c) PROVE CallsHoldLabels'
  BY <1>0, <1>7 DEF SwapFails, Return, TypeOK, SetIsOk, LayerIsAncestorOf, ParentClosed
<1>8. ASSUME UNCHANGED vars PROVE CallsHoldLabels'
  BY <1>8 DEF vars, SetIsOk, LayerIsAncestorOf, ParentClosed
<1> QED
  BY <1>1, <1>2, <1>3, <1>4, <1>5, <1>6, <1>7, <1>8 DEF Next, Proceed

(* A swap that succeeds is given a label with the version on record, and   *)
(* unless the label was deleted it is the very label on record.            *)
LEMMA SwapIsExact ==
  ASSUME IInv, NEW c \in Client, SwapOk(c)
  PROVE  /\ label \in Label
         /\ read[c] \in Label
         /\ arg[c] \in Layer
         /\ read[c].version = label.version
         /\ Backend = "directory" \/ past # "deleted" => read[c] = label
<1>1. /\ label \in Label
      /\ read[c] \in Label
      /\ arg[c] \in Layer
      /\ read[c].version = label.version
  BY DEF IInv, TypeOK, CallsHoldLabels, SwapOk, SwapMatches
<1>2. CASE Backend = "directory"
  BY <1>1, <1>2 DEF SwapOk, SwapMatches
<1>3. CASE past # "deleted"
  <2>1. read[c] # NoLabel
    BY <1>1, SentinelAssumption DEF Label
  <2> QED
    BY <1>1, <1>3, <2>1 DEF IInv, VersionsIdentify, IsPast
<1> QED
  BY <1>1, <1>2, <1>3

(* Every action keeps the version equal to the number of acknowledgements. *)
LEMMA NoLostUpdateStep ==
  ASSUME IInv, [Next]_vars PROVE NoLostUpdate'
<1> USE DEF IInv, NoLostUpdate
<1>1. ASSUME NEW c \in Client, Create(c) PROVE NoLostUpdate'
  BY <1>1 DEF Create, NewEmpty
<1>2. ASSUME NEW c \in Client, Delete(c) PROVE NoLostUpdate'
  BY <1>2 DEF Delete
<1>3. ASSUME NEW c \in Client, SwapOk(c) PROVE NoLostUpdate'
  <2>1. read[c].version = acked
    BY <1>3, SwapIsExact DEF SwapOk, SwapMatches
  <2> QED
    BY <1>3, <2>1 DEF SwapOk, WithUpdatedLayer
<1>4. ASSUME UNCHANGED <<label, acked>> PROVE NoLostUpdate'
  BY <1>4
<1> QED
  BY <1>1, <1>2, <1>3, <1>4
     DEF Next, Proceed, Commit, HeadVersion, StartCall, GetLabel, Check, SwapFails, vars

(* Every action keeps versions telling labels apart.                       *)
LEMMA VersionsStep ==
  ASSUME IInv, [Next]_vars PROVE VersionsIdentify'
<1> USE DEF IInv, VersionsIdentify, IsPast
<1>0. TypeOK
  OBVIOUS
<1>1. ASSUME NEW c \in Client, Create(c) PROVE VersionsIdentify'
  BY <1>0, <1>1 DEF Create, TypeOK
<1>2. ASSUME NEW c \in Client, Delete(c) PROVE VersionsIdentify'
  BY <1>2 DEF Delete
<1>3. ASSUME NEW c \in Client, HeadVersion(c) PROVE VersionsIdentify'
  BY <1>0, <1>3 DEF HeadVersion, TypeOK, Label
<1>4. ASSUME NEW c \in Client, GetLabel(c) PROVE VersionsIdentify'
  BY <1>0, <1>4 DEF GetLabel, Return, TypeOK, Label
<1>5. ASSUME NEW c \in Client, SwapOk(c) PROVE VersionsIdentify'
  <2> SUFFICES ASSUME past' # "deleted"
               PROVE  VersionsIdentify'
    BY DEF VersionsIdentify
  <2>1. past # "deleted"
    BY <1>5 DEF SwapOk
  <2>2. label' # NoLabel /\ label \in Label /\ label'.version = label.version + 1
    <3>1. label \in Label /\ label' \in Label /\ label'.version = label.version + 1
      BY <1>5, SwapIsExact DEF SwapOk, WithUpdatedLayer, Label
    <3> QED
      BY <3>1, SentinelAssumption DEF Label
  <2>3. ASSUME NEW l \in Label, l.version <= label.version
        PROVE  l.version <= label'.version /\ l.version # label'.version
    BY <2>2, <2>3 DEF Label
  <2>4. ASSUME NEW k \in Client, read'[k] # NoLabel PROVE IsPast(read[k])' 
    <3>1. read'[k] = read[k] /\ read[k] \in Label
      BY <1>0, <1>5, <2>4 DEF SwapOk, Return, TypeOK
    <3> QED
      BY <2>1, <2>2, <2>3, <2>4, <3>1
  <2>5. ASSUME NEW k \in Client, base'[k] # NoLabel PROVE IsPast(base[k])' 
    <3>1. base'[k] = base[k] /\ base[k] \in Label
      BY <1>0, <1>5, <2>5 DEF SwapOk, TypeOK
    <3> QED
      BY <2>1, <2>2, <2>3, <2>5, <3>1
  <2> QED
    BY <2>4, <2>5
<1>6. ASSUME NEW c \in Client, Check(c) \/ SwapFails(c) PROVE VersionsIdentify'
  BY <1>0, <1>6 DEF Check, SwapFails, Return, TypeOK
<1>7. ASSUME UNCHANGED <<label, read, base, past>> PROVE VersionsIdentify'
  BY <1>7
<1> QED
  BY <1>1, <1>2, <1>3, <1>4, <1>5, <1>6, <1>7
     DEF Next, Proceed, Commit, StartCall, vars

(* Every action keeps the heads clients have seen among the ancestors of   *)
(* the head.                                                               *)
LEMMA HistoryStep ==
  ASSUME IInv, [Next]_vars PROVE HeadHistoryIsKept'
<1> USE DEF IInv, HeadHistoryIsKept
<1>0. TypeOK
  OBVIOUS
<1>1. ASSUME NEW c \in Client, Commit(c) PROVE HeadHistoryIsKept'
  <2>1. PICK l \in Layer \ Committed, p \in Committed \cup {None} :
          parent' = [parent EXCEPT ![l] = p]
    BY <1>1 DEF Commit
  <2>2. ASSUME NEW d, NEW a, LayerIsAncestorOf(d, a)
        PROVE  \A S \in SUBSET Layer : d \in S /\ ParentClosed(S)' => a \in S
    BY <1>0, <2>1, <2>2, CommitKeepsAncestors
  <2>3. UNCHANGED <<label, base, past>>
    BY <1>1 DEF Commit
  <2> QED
    BY <2>2, <2>3 DEF LayerIsAncestorOf
<1>2. ASSUME NEW c \in Client, Create(c) PROVE HeadHistoryIsKept'
  BY <1>2 DEF Create
<1>3. ASSUME NEW c \in Client, Delete(c) PROVE HeadHistoryIsKept'
  BY <1>3 DEF Delete
<1>4. ASSUME NEW c \in Client, HeadVersion(c) PROVE HeadHistoryIsKept'
  BY <1>0, <1>4 DEF HeadVersion, TypeOK, LayerIsAncestorOf, ParentClosed
<1>5. ASSUME NEW c \in Client, SwapOk(c) PROVE HeadHistoryIsKept'
  <2> SUFFICES ASSUME NEW k \in Client, past' = "advanced",
                      base'[k] # NoLabel, base'[k].layer # None
               PROVE  /\ label' # NoLabel
                      /\ label'.layer # None
                      /\ LayerIsAncestorOf(label.layer, base[k].layer)'
    OBVIOUS
  <2>1. past = "advanced" /\ call[c] = "set_head" /\ base'[k] = base[k]
    BY <1>0, <1>5 DEF SwapOk, TypeOK
  <2>2. /\ read[c] = label
        /\ arg[c] \in Layer
        /\ label' = WithUpdatedLayer(label, arg[c])
        /\ label' \in Label
    BY <1>5, <2>1, SwapIsExact DEF SwapOk, WithUpdatedLayer, Label
  <2>3. label' # NoLabel /\ label'.layer = arg[c] /\ label'.layer # None
    BY <2>2, SentinelAssumption DEF WithUpdatedLayer, Label
  <2>4. label.layer # None /\ LayerIsAncestorOf(label.layer, base[k].layer)
    BY <2>1
  <2>5. LayerIsAncestorOf(arg[c], label.layer)
    BY <1>5, <2>1, <2>2, <2>4 DEF SwapOk, CallsHoldLabels, SetIsOk
  <2>6. LayerIsAncestorOf(label'.layer, base[k].layer)
    BY <2>3, <2>4, <2>5, AncestorTransitive
  <2> QED
    BY <1>5, <2>1, <2>3, <2>6 DEF SwapOk, LayerIsAncestorOf, ParentClosed
<1>6. ASSUME UNCHANGED <<label, parent, base, past>> PROVE HeadHistoryIsKept'
  BY <1>6 DEF LayerIsAncestorOf, ParentClosed
<1> QED
  BY <1>1, <1>2, <1>3, <1>4, <1>5, <1>6
     DEF Next, Proceed, StartCall, GetLabel, Check, SwapFails, vars

(* IInv is an invariant of the specification.                              *)
LEMMA Invariance == Spec => []IInv
<1>1. IInv /\ [Next]_vars => IInv'
  BY TypeStep, CallsStep, NoLostUpdateStep, VersionsStep, HistoryStep DEF IInv
<1> QED
  BY <1>1, InitIInv, PTL DEF Spec

-----------------------------------------------------------------------------
(* Type correctness.                                                       *)
THEOREM TypeCorrect == Spec => []TypeOK
<1>1. IInv => TypeOK
  BY DEF IInv
<1> QED
  BY <1>1, Invariance, PTL

(***************************************************************************)
(* No acknowledged update is lost: with either label store, for any number *)
(* of clients racing through set_head, force_set_head,                     *)
(* force_set_head_version, delete and create, the version counts exactly   *)
(* the acknowledged updates.                                               *)
(***************************************************************************)
THEOREM NoUpdateIsLost == Spec => []NoLostUpdate
<1>1. IInv => NoLostUpdate
  BY DEF IInv
<1> QED
  BY <1>1, Invariance, PTL

(***************************************************************************)
(* As long as only set_head moves the head, every head a client ever saw   *)
(* is an ancestor of the head, with either label store.                    *)
(***************************************************************************)
THEOREM HistoryIsKept == Spec => []HeadHistoryIsKept
<1>1. IInv => HeadHistoryIsKept
  BY DEF IInv
<1> QED
  BY <1>1, Invariance, PTL

(* Only the swap of the client itself tells it that it succeeded.          *)
LEMMA SuccessIsSwap ==
  ASSUME IInv, [Next]_vars, NEW c \in Client, NEW operation, Succeeds(c, operation)
  PROVE  SwapOk(c)
<1> USE DEF Succeeds
<1>0. acked \in Nat /\ acked' = acked + 1 /\ acked' # acked /\ acked' # 0
  BY DEF IInv, TypeOK
<1>1. PICK d \in Client : Create(d) \/ SwapOk(d)
  BY <1>0 DEF Next, Proceed, Commit, Delete, HeadVersion, StartCall, GetLabel, Check,
              SwapFails, vars
<1>2. SwapOk(d)
  BY <1>0, <1>1 DEF Create
<1>3. d = c
  BY <1>2 DEF SwapOk, Return, IInv, TypeOK
<1> QED
  BY <1>2, <1>3

(* A successful swap of set_head replaces the head by a descendant, if it  *)
(* compared the whole label or the label was never deleted.                *)
LEMMA SwapAdvances ==
  ASSUME IInv, NEW c \in Client, SwapOk(c), call[c] = "set_head", label.layer # None,
         Backend = "directory" \/ past # "deleted"
  PROVE  LayerIsAncestorOf(label'.layer, label.layer)
<1>1. read[c] = label
  BY SwapIsExact
<1>2. label'.layer = arg[c]
  BY DEF SwapOk, WithUpdatedLayer
<1>3. SetIsOk(c)
  BY DEF IInv, CallsHoldLabels, SwapOk
<1> QED
  BY <1>1, <1>2, <1>3 DEF SetIsOk

(***************************************************************************)
(* With the directory label stores, set_head only ever moves the head to a *)
(* descendant, though other clients may move, delete and recreate the      *)
(* label between its check and its swap.                                   *)
(***************************************************************************)
THEOREM DirectorySetHeadAdvances ==
  ASSUME Backend = "directory" PROVE Spec => SetHeadAdvances
<1>1. IInv /\ [Next]_vars =>
        [\A c \in Client :
           Succeeds(c, "set_head") /\ label.layer # None
             => LayerIsAncestorOf(label'.layer, label.layer)]_vars
  <2> SUFFICES ASSUME IInv, [Next]_vars, NEW c \in Client,
                      Succeeds(c, "set_head"), label.layer # None
               PROVE  LayerIsAncestorOf(label'.layer, label.layer)
    OBVIOUS
  <2>1. SwapOk(c) /\ call[c] = "set_head"
    BY SuccessIsSwap DEF Succeeds
  <2> QED
    BY <2>1, SwapAdvances
<1> QED
  BY <1>1, Invariance, PTL DEF Spec, SetHeadAdvances

(***************************************************************************)
(* With either label store, and so with MemoryLabelStore, which compares   *)
(* only versions, the same holds until the label is first deleted.         *)
(***************************************************************************)
THEOREM SetHeadAdvancesUntilDeleted ==
  Spec => [][\A c \in Client :
               Succeeds(c, "set_head") /\ label.layer # None /\ past # "deleted"
                 => LayerIsAncestorOf(label'.layer, label.layer)]_vars
<1>1. IInv /\ [Next]_vars =>
        [\A c \in Client :
           Succeeds(c, "set_head") /\ label.layer # None /\ past # "deleted"
             => LayerIsAncestorOf(label'.layer, label.layer)]_vars
  <2> SUFFICES ASSUME IInv, [Next]_vars, NEW c \in Client,
                      Succeeds(c, "set_head"), label.layer # None, past # "deleted"
               PROVE  LayerIsAncestorOf(label'.layer, label.layer)
    OBVIOUS
  <2>1. SwapOk(c) /\ call[c] = "set_head"
    BY SuccessIsSwap DEF Succeeds
  <2> QED
    BY <2>1, SwapAdvances
<1> QED
  BY <1>1, Invariance, PTL DEF Spec

(***************************************************************************)
(* With either label store, a successful force_set_head_version replaces   *)
(* exactly the label its caller saw, until the label is first deleted.     *)
(***************************************************************************)
THEOREM VersionedUpdates == Spec => VersionedUpdateIsExact
<1>1. IInv /\ [Next]_vars =>
        [\A c \in Client :
           Succeeds(c, "force_set_head_version") /\ past # "deleted"
             => label = base[c]]_vars
  <2> SUFFICES ASSUME IInv, [Next]_vars, NEW c \in Client,
                      Succeeds(c, "force_set_head_version"), past # "deleted"
               PROVE  label = base[c]
    OBVIOUS
  <2>1. SwapOk(c) /\ call[c] = "force_set_head_version"
    BY SuccessIsSwap DEF Succeeds
  <2>2. read[c] = label
    BY <2>1, SwapIsExact
  <2>3. base[c] # NoLabel /\ base[c].version = label.version
    BY <2>1, <2>2 DEF IInv, CallsHoldLabels, SwapOk
  <2> QED
    BY <2>3 DEF IInv, VersionsIdentify, IsPast
<1> QED
  BY <1>1, Invariance, PTL DEF Spec, VersionedUpdateIsExact
=============================================================================
