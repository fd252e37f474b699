----------------------------- MODULE NamedGraph -----------------------------
(***************************************************************************)
(* A named graph and the clients that move its head.                       *)
(*                                                                         *)
(* A named graph is one label of a label store: a record of the layer it   *)
(* points at and a version.  Clients commit layers, read the head, and     *)
(* move it with NamedGraph::set_head, force_set_head and                   *)
(* force_set_head_version (store/mod.rs).  Each of these reads the label   *)
(* with get_label, decides, and then writes with set_label, a              *)
(* compare-and-swap; any step of another client can fall in between.       *)
(*                                                                         *)
(* Labels of different names share nothing, so one label is modelled.      *)
(* The label store is either MemoryLabelStore, whose swap compares only    *)
(* the version, or one of the two directory label stores, whose swap       *)
(* compares the whole label.                                               *)
(***************************************************************************)
EXTENDS Naturals

CONSTANTS
  Client,     \* users of the store, each issuing one call at a time
  Layer,      \* names of layers, committed or still to be committed
  None,       \* Option::None: no layer, no parent
  NoLabel,    \* the label does not exist
  Unused,     \* the parent of a layer that has not been committed
  Backend,    \* "memory" or "directory"
  Ops,        \* the operations the clients of this instance use
  MaxOps      \* how many operations each client starts (bounds the model)

AllOps == {"set_head", "force_set_head", "force_set_head_version", "delete"}

ASSUME BackendAssumption == Backend \in {"memory", "directory"}
ASSUME OpsAssumption == Ops \subseteq AllOps
ASSUME MaxOpsAssumption == MaxOps \in Nat
ASSUME SentinelAssumption ==
  /\ None \notin Layer
  /\ Unused \notin Layer \cup {None}
  /\ NoLabel \notin [layer : Layer \cup {None}, version : Nat]

VARIABLES
  label,      \* the label on record, or NoLabel
  parent,     \* the parent file of every layer
  pc,         \* where each client is in its call
  call,       \* the call each client is in
  arg,        \* the layer the call was given
  read,       \* the label the call fetched with get_label
  base,       \* the label head_version last showed the client
  ops,        \* operations each client has started
  acked,      \* updates acknowledged since the label was created (history)
  past        \* the roughest thing done to the label so far (history)

vars == <<label, parent, pc, call, arg, read, base, ops, acked, past>>

Label == [layer : Layer \cup {None}, version : Nat]

TypeOK ==
  /\ label \in Label \cup {NoLabel}
  /\ parent \in [Layer -> Layer \cup {None, Unused}]
  /\ pc \in [Client -> {"idle", "get_label", "check", "set_label"}]
  /\ call \in [Client -> AllOps]
  /\ arg \in [Client -> Layer \cup {None}]
  /\ read \in [Client -> Label \cup {NoLabel}]
  /\ base \in [Client -> Label \cup {NoLabel}]
  /\ ops \in [Client -> Nat]
  /\ acked \in Nat
  /\ past \in {"advanced", "forced", "deleted"}

Committed == {l \in Layer : parent[l] # Unused}

(***************************************************************************)
(* layer_is_ancestor_of walks the parent files from the descendant until   *)
(* it meets the ancestor or a base layer.  The layers it visits are the    *)
(* least set that holds the descendant and is closed under the parent      *)
(* files, which is how the walk is stated here.                            *)
(***************************************************************************)
ParentClosed(S) == \A l \in S : parent[l] \in Layer => parent[l] \in S

LayerIsAncestorOf(descendant, ancestor) ==
  \A S \in SUBSET Layer : descendant \in S /\ ParentClosed(S) => ancestor \in S

(* Label::new_empty, and Label::with_updated_layer of the label l.         *)
NewEmpty == [layer |-> None, version |-> 0]

\* mutant: the version counts down
CountsDown(l, layer) == [layer |-> layer, version |-> l.version - 1]

WithUpdatedLayer(l, layer) == [layer |-> layer, version |-> l.version + 1]

Init ==
  /\ label = NoLabel
  /\ parent = [l \in Layer |-> Unused]
  /\ pc = [c \in Client |-> "idle"]
  /\ call = [c \in Client |-> "set_head"]
  /\ arg = [c \in Client |-> None]
  /\ read = [c \in Client |-> NoLabel]
  /\ base = [c \in Client |-> NoLabel]
  /\ ops = [c \in Client |-> 0]
  /\ acked = 0
  /\ past = "advanced"

-----------------------------------------------------------------------------
(* A client begins an operation.                                           *)
Begin(c) ==
  /\ pc[c] = "idle"
  /\ ops[c] < MaxOps
  /\ ops' = [ops EXCEPT ![c] = @ + 1]

(* The call of client c returns, whatever it returns.                      *)
Return(c) ==
  /\ pc' = [pc EXCEPT ![c] = "idle"]
  /\ arg' = [arg EXCEPT ![c] = None]
  /\ read' = [read EXCEPT ![c] = NoLabel]

(***************************************************************************)
(* StoreLayerBuilder::commit: a builder opened on a committed layer, or a  *)
(* base layer builder, becomes a layer under a name nobody else uses.      *)
(* Until commit returns no one can name the layer, so it is one step.      *)
(***************************************************************************)
Commit(c) ==
  /\ Begin(c)
  /\ \E l \in Layer \ Committed, p \in Committed \cup {None} :
       parent' = [parent EXCEPT ![l] = p]
  /\ UNCHANGED <<label, pc, call, arg, read, base, acked, past>>

(* Store::create -> create_label; an existing label is an error.           *)
Create(c) ==
  /\ Begin(c)
  /\ label = NoLabel
  /\ label' = NewEmpty
  /\ acked' = 0
  /\ UNCHANGED <<parent, pc, call, arg, read, base, past>>

(* Store::delete and NamedGraph::delete -> delete_label.                   *)
Delete(c) ==
  /\ "delete" \in Ops
  /\ Begin(c)
  /\ label # NoLabel
  /\ label' = NoLabel
  /\ past' = "deleted"
  /\ UNCHANGED <<parent, pc, call, arg, read, base, acked>>

(* NamedGraph::head_version: the client remembers what it saw.             *)
HeadVersion(c) ==
  /\ Begin(c)
  /\ label # NoLabel
  /\ base' = [base EXCEPT ![c] = label]
  /\ UNCHANGED <<label, parent, pc, call, arg, read, acked, past>>

(* One of the three head-moving calls starts with a committed layer.       *)
StartCall(c, operation, layer) ==
  /\ operation \in Ops \ {"delete"}
  /\ operation = "force_set_head_version" => base[c] # NoLabel
  /\ Begin(c)
  /\ call' = [call EXCEPT ![c] = operation]
  /\ arg' = [arg EXCEPT ![c] = layer]
  /\ pc' = [pc EXCEPT ![c] = "get_label"]
  /\ UNCHANGED <<label, parent, read, base, acked, past>>

(***************************************************************************)
(* get_label inside a head-moving call.  A missing label ends the call     *)
(* with an error; force_set_head_version ends with false when the version  *)
(* is not the one the caller asked for; set_head goes on to the ancestor   *)
(* check, the others straight to the swap.                                 *)
(***************************************************************************)
GetLabel(c) ==
  /\ pc[c] = "get_label"
  /\ IF \/ label = NoLabel
        \/ /\ call[c] = "force_set_head_version"
           /\ label.version # base[c].version
       THEN Return(c)
       ELSE /\ read' = [read EXCEPT ![c] = label]
            /\ pc' = [pc EXCEPT ![c] =
                        IF call[c] = "set_head" THEN "check" ELSE "set_label"]
            /\ UNCHANGED arg
  /\ UNCHANGED <<label, parent, call, base, ops, acked, past>>

\* mutant: set_head does not look at the layers at all
CheckForgotten(c) == TRUE

(* The check of set_head: an empty label accepts any layer.                *)
SetIsOk(c) ==
  \/ read[c].layer = None
  \/ LayerIsAncestorOf(arg[c], read[c].layer)

Check(c) ==
  /\ pc[c] = "check"
  /\ IF SetIsOk(c)
       THEN /\ pc' = [pc EXCEPT ![c] = "set_label"]
            /\ UNCHANGED <<arg, read>>
       ELSE Return(c)
  /\ UNCHANGED <<label, parent, call, base, ops, acked, past>>

\* mutant: set_label_option overwrites whatever label there is
OverwritesAny(l) == label # NoLabel

(* What set_label_option compares before it writes.                        *)
SwapMatches(l) ==
  /\ label # NoLabel
  /\ IF Backend = "memory" THEN label.version = l.version ELSE label = l

(* set_label: the swap succeeds and the call reports success.              *)
SwapOk(c) ==
  /\ pc[c] = "set_label"
  /\ SwapMatches(read[c])
  /\ label' = WithUpdatedLayer(read[c], arg[c])
  /\ acked' = acked + 1
  /\ past' = IF call[c] # "set_head" /\ past = "advanced" THEN "forced" ELSE past
  /\ Return(c)
  /\ UNCHANGED <<parent, call, base, ops>>

\* mutant: the loop of force_set_head swaps again without reading again
RetriesStale(c) ==
  /\ pc[c] = "set_label"
  /\ ~ SwapMatches(read[c])
  /\ IF call[c] = "force_set_head" /\ label # NoLabel
       THEN UNCHANGED <<pc, read, arg>>
       ELSE Return(c)
  /\ UNCHANGED <<label, parent, call, base, ops, acked, past>>

(* set_label answers None, or fails because the label is gone: the calls   *)
(* return, except that force_set_head reads the label again after None.    *)
SwapFails(c) ==
  /\ pc[c] = "set_label"
  /\ ~ SwapMatches(read[c])
  /\ IF call[c] = "force_set_head" /\ label # NoLabel
       THEN /\ pc' = [pc EXCEPT ![c] = "get_label"]
            /\ read' = [read EXCEPT ![c] = NoLabel]
            /\ UNCHANGED arg
       ELSE Return(c)
  /\ UNCHANGED <<label, parent, call, base, ops, acked, past>>

-----------------------------------------------------------------------------
(* The steps inside a call that has started.                               *)
Proceed(c) == GetLabel(c) \/ Check(c) \/ SwapOk(c) \/ SwapFails(c)

Next ==
  \E c \in Client :
    \/ Commit(c)
    \/ Create(c)
    \/ Delete(c)
    \/ HeadVersion(c)
    \/ \E operation \in AllOps, layer \in Committed : StartCall(c, operation, layer)
    \/ Proceed(c)

Spec == Init /\ [][Next]_vars

(***************************************************************************)
(* A call that has started is polled until it returns: its futures never   *)
(* wait on another client, and the runtime polls every woken task.         *)
(***************************************************************************)
Fairness == \A c \in Client : WF_vars(Proceed(c))

FairSpec == Spec /\ Fairness

-----------------------------------------------------------------------------
(* Properties.                                                             *)

(***************************************************************************)
(* No lost update: the version of a label is the number of updates its     *)
(* clients were told had succeeded since it was created.  Two calls that   *)
(* read the same label cannot both be told they succeeded.                 *)
(***************************************************************************)
NoLostUpdate ==
  label # NoLabel => label.version = acked

(* The step in which client c is told that its call moved the head.        *)
Succeeds(c, operation) ==
  /\ call[c] = operation
  /\ pc[c] = "set_label"
  /\ acked' = acked + 1
  /\ pc'[c] = "idle"

(***************************************************************************)
(* "Set the database label to the given layer if it is a valid ancestor,   *)
(* returning false otherwise": a successful set_head replaces a head only  *)
(* by one of its descendants, whatever happened between its check and its  *)
(* swap.                                                                   *)
(***************************************************************************)
SetHeadAdvances ==
  [][\A c \in Client :
       Succeeds(c, "set_head") /\ label.layer # None
         => LayerIsAncestorOf(label'.layer, label.layer)]_vars

(***************************************************************************)
(* A successful force_set_head_version replaces exactly the label the      *)
(* client saw with head_version: no update came in between.  A label that  *)
(* was deleted and created again counts its versions from zero again.      *)
(***************************************************************************)
VersionedUpdateIsExact ==
  [][\A c \in Client :
       Succeeds(c, "force_set_head_version") /\ past # "deleted"
         => label = base[c]]_vars

(***************************************************************************)
(* As long as only set_head has moved the head, history is kept: whatever  *)
(* layer a client once saw as the head is an ancestor of the head, however *)
(* many calls raced in between.                                            *)
(***************************************************************************)
HeadHistoryIsKept ==
  \A c \in Client :
    past = "advanced" /\ base[c] # NoLabel /\ base[c].layer # None
      => /\ label # NoLabel
         /\ label.layer # None
         /\ LayerIsAncestorOf(label.layer, base[c].layer)

(***************************************************************************)
(* Every call returns: the retry loop of force_set_head ends once the      *)
(* other clients stop overtaking it (each starts finitely many calls).     *)
(***************************************************************************)
CallsReturn ==
  \A c \in Client : pc[c] # "idle" ~> pc[c] = "idle"
=============================================================================
