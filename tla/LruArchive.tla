----------------------------- MODULE LruArchive -----------------------------
(***************************************************************************)
(* LruArchiveBackend (storage/archive.rs): a cache of whole layer files in *)
(* front of a DirectoryArchiveBackend, bounded in bytes.                   *)
(*                                                                         *)
(* The cache is behind one mutex, and every action below is a section of   *)
(* code that holds it; the mutex is given up while the origin is read or   *)
(* written.  A layer being fetched has a Resolving entry whose barrier the *)
(* other readers of that layer wait on.  The origin writes a layer file in *)
(* place, chunk by chunk, so a reader can find a part of it.               *)
(*                                                                         *)
(* Lengths are counted in chunks.  An entry is NoEntry, Resolving, or the  *)
(* number of bytes of a Resolved entry.                                    *)
(***************************************************************************)
EXTENDS Integers, Sequences

CONSTANTS
  Task,        \* concurrent callers
  Layer,       \* layer names
  Size,        \* the full length of each layer file
  Limit,       \* limit_bytes
  NoEntry, Resolving,
  Missing,     \* no such file; also the answer of a failed lookup
  NoAnswer,    \* a barrier whose resolver has not answered
  EarlyReads,  \* whether layers are asked for before they are stored
  MaxOps,      \* how many calls are made in all (bounds the model)
  MaxCancels   \* how many callers drop their call while it fetches

ASSUME LayerAssumption == Layer # {}
ASSUME SizeAssumption == Size \in [Layer -> Nat]
ASSUME LimitAssumption == Limit \in Nat
ASSUME EarlyReadsAssumption == EarlyReads \in BOOLEAN
ASSUME BoundsAssumption == MaxOps \in Nat /\ MaxCancels \in Nat
ASSUME SentinelAssumption ==
  /\ NoEntry \notin Nat /\ Resolving \notin Nat /\ NoEntry # Resolving
  /\ Missing \notin Nat /\ NoAnswer \notin Nat /\ Missing # NoAnswer

VARIABLES
  origin,      \* how much of each layer file is on disk
  stored,      \* layers whose store_layer_file has returned
  early,       \* layers whose entry rests on a lookup made before the file was whole
  entry,       \* the cache entry of each layer
  order,       \* the keys of the cache, least recently used first
  current,     \* the byte counter
  pc, layer,   \* where each task is, and the layer it asked for
  lookup,      \* what the origin, or a barrier, gave the task
  barrier,     \* what the barrier of a Resolving entry holds
  ops, cancels

vars == <<origin, stored, early, entry, order, current, pc, layer, lookup, barrier, ops, cancels>>

Lookup == Nat \cup {Missing, NoAnswer}

TypeOK ==
  /\ origin \in [Layer -> Nat \cup {Missing}]
  /\ stored \subseteq Layer /\ early \subseteq Layer
  /\ entry \in [Layer -> Nat \cup {NoEntry, Resolving}]
  /\ order \in Seq(Layer)
  /\ current \in Nat
  /\ pc \in [Task -> {"idle", "fetch", "install", "wait", "woken",
                      "write", "put", "panicked"}]
  /\ layer \in [Task -> Layer]
  /\ lookup \in [Task -> Lookup]
  /\ barrier \in [Layer -> Lookup]
  /\ ops \in 0 .. MaxOps
  /\ cancels \in 0 .. MaxCancels

Init ==
  /\ origin = [l \in Layer |-> Missing]
  /\ stored = {} /\ early = {}
  /\ entry = [l \in Layer |-> NoEntry]
  /\ order = << >>
  /\ current = 0
  /\ pc = [t \in Task |-> "idle"]
  /\ layer \in [Task -> {CHOOSE l \in Layer : TRUE}]
  /\ lookup = [t \in Task |-> NoAnswer]
  /\ barrier = [l \in Layer |-> NoAnswer]
  /\ ops = 0
  /\ cancels = 0

-----------------------------------------------------------------------------
(* The least-recently-used order.                                          *)
IsResolved(l) == entry[l] \in Nat

(* The keys of s that are in S, in the same order.                         *)
Keeping(s, S) ==
  LET kept[i \in 0 .. Len(s)] ==
        IF i = 0 THEN << >>
        ELSE IF s[i] \in S THEN Append(kept[i - 1], s[i]) ELSE kept[i - 1]
  IN  kept[Len(s)]

Without(s, l) == Keeping(s, Layer \ {l})

Promote(s, l) == Append(Without(s, l), l)

(***************************************************************************)
(* ensure_additional_cache_space: resolved entries are popped in order     *)
(* until enough bytes are free; the resolving ones met on the way are      *)
(* promoted instead.  FreedBy(n) is what the first n keys give back.       *)
(***************************************************************************)
EntryBytes(e) == IF e \in Nat THEN e ELSE 0

(* The bytes that the first keys of s hold, when e is the cache's entries. *)
BytesOf(s, e) ==
  LET held[i \in 0 .. Len(s)] ==
        IF i = 0 THEN 0 ELSE held[i - 1] + EntryBytes(e[s[i]])
  IN  held

FreedBy(n) == BytesOf(order, entry)[n]

CanFree(required) == FreedBy(Len(order)) >= required

(* How many keys the loop goes through.                                    *)
Passes(required) ==
  IF required = 0
    THEN 0
    ELSE CHOOSE n \in 1 .. Len(order) :
           FreedBy(n) >= required /\ FreedBy(n - 1) < required

Popped(n) == {l \in Layer : \E i \in 1 .. n : order[i] = l /\ IsResolved(l)}

EntryAfter(n) == [l \in Layer |-> IF l \in Popped(n) THEN NoEntry ELSE entry[l]]

\* mutant: resolving entries met on the way are popped as well
PopsResolving(n) == SubSeq(order, n + 1, Len(order))

OrderAfter(n) ==
  SubSeq(order, n + 1, Len(order))
    \o Keeping(SubSeq(order, 1, n), {l \in Layer : ~ IsResolved(l)})

\* mutant: room is assumed from the check made before the lookup
RequiresNothing(bytes) == 0

(* ensure_enough_cache_space: what has to be freed for so many bytes.      *)
Required(bytes) ==
  LET remaining == IF Limit > current THEN Limit - current ELSE 0
  IN  IF remaining < bytes THEN bytes - remaining ELSE 0

\* mutant: what eviction freed is not taken off the counter
FreedNotCounted(l, bytes) ==
  LET n == Passes(Required(bytes)) IN
    /\ entry' = [EntryAfter(n) EXCEPT ![l] = bytes]
    /\ order' = Promote(OrderAfter(n), l)
    /\ current' = current + bytes

(***************************************************************************)
(* Room is made for the bytes and the layer becomes the newest Resolved    *)
(* entry.                                                                  *)
(***************************************************************************)
Admit(l, bytes) ==
  LET n == Passes(Required(bytes)) IN
    /\ entry' = [EntryAfter(n) EXCEPT ![l] = bytes]
    /\ order' = Promote(OrderAfter(n), l)
    /\ current' = current - FreedBy(n) + bytes

\* mutant: a failed lookup leaves its Resolving entry behind
KeepsFailed(l) == UNCHANGED <<entry, order, current>>

(* What an early lookup left behind is forgotten with its entry.           *)
ForgetDropped == early' = {l \in early : entry'[l] # NoEntry}

(* drop_from_cache of a Resolving entry.                                   *)
DropFromCache(l) ==
  /\ entry' = [entry EXCEPT ![l] = NoEntry]
  /\ order' = Without(order, l)
  /\ UNCHANGED current

-----------------------------------------------------------------------------
Begin == ops < MaxOps /\ ops' = ops + 1

GoTo(t, where) == pc' = [pc EXCEPT ![t] = where]

(***************************************************************************)
(* get_layer_bytes, first section: a Resolved entry is answered at once, a *)
(* Resolving one is waited for as long as its resolver holds the barrier,  *)
(* and otherwise the task becomes the resolver.                            *)
(***************************************************************************)
Resolvers(l) == {t \in Task : pc[t] \in {"fetch", "install"} /\ layer[t] = l}

Get(t, l) ==
  /\ pc[t] = "idle"
  /\ EarlyReads \/ l \in stored
  /\ Begin
  /\ layer' = [layer EXCEPT ![t] = l]
  /\ \/ /\ IsResolved(l)
        /\ order' = Promote(order, l)
        /\ UNCHANGED <<entry, pc>>
        /\ UNCHANGED <<lookup, barrier>>
     \/ /\ entry[l] = Resolving
        /\ order' = Promote(order, l)
        /\ IF Resolvers(l) # {}
             THEN GoTo(t, "wait") /\ UNCHANGED lookup
             ELSE GoTo(t, "woken") /\ lookup' = [lookup EXCEPT ![t] = barrier[l]]
        /\ UNCHANGED <<entry, barrier>>
     \/ /\ entry[l] = NoEntry
        /\ entry' = [entry EXCEPT ![l] = Resolving]
        /\ order' = Append(order, l)
        /\ barrier' = [barrier EXCEPT ![l] = NoAnswer]
        /\ GoTo(t, "fetch")
        /\ UNCHANGED lookup
  /\ UNCHANGED <<origin, stored, early, current, cancels>>

\* mutant: the last byte of the file is not read
OriginBytes_cut(l) == IF origin[l] \in Nat \ {0} THEN origin[l] - 1 ELSE origin[l]

(* get_layer_bytes of the origin: whatever is on disk, or an error.        *)
OriginBytes(l) == origin[l]

\* mutant: the resolver keeps what it found to itself
FillBarrier_not(l) == UNCHANGED barrier

(* The barrier is filled with it for the tasks that wait.                  *)
FillBarrier(l) == barrier' = [barrier EXCEPT ![l] = OriginBytes(l)]

(* The origin is read without the mutex.                                   *)
Fetch(t) ==
  LET l == layer[t] IN
  /\ pc[t] = "fetch"
  /\ lookup' = [lookup EXCEPT ![t] = OriginBytes(l)]
  /\ FillBarrier(l)
  /\ early' = IF origin[l] # Size[l] THEN early \cup {l} ELSE early
  /\ GoTo(t, "install")
  /\ UNCHANGED <<origin, stored, entry, order, current, layer, ops, cancels>>

(* The tasks waiting on the barrier of resolver t.                         *)
Waiters(t) == {w \in Task : pc[w] = "wait" /\ layer[w] = layer[t]}

\* mutant: the barrier is not released
WakesNobody(t) ==
  /\ pc' = [pc EXCEPT ![t] = "idle"]
  /\ lookup' = [lookup EXCEPT ![t] = NoAnswer]
  /\ UNCHANGED barrier

(* The resolver returns or is dropped, which unlocks its barrier.          *)
Release(t) ==
  /\ pc' = [w \in Task |-> IF w = t THEN "idle"
                           ELSE IF w \in Waiters(t) THEN "woken" ELSE pc[w]]
  /\ lookup' = [w \in Task |-> IF w = t THEN NoAnswer
                               ELSE IF w \in Waiters(t) THEN barrier[layer[t]]
                               ELSE lookup[w]]
  /\ UNCHANGED barrier

(***************************************************************************)
(* get_layer_bytes, last section: the Resolving entry becomes Resolved,    *)
(* once there is room for it, or is dropped when the lookup failed or the  *)
(* layer is larger than the whole cache.                                   *)
(***************************************************************************)
Install(t) ==
  LET l == layer[t]
      bytes == lookup[t]
  IN
  /\ pc[t] = "install"
  /\ \/ /\ bytes = Missing \/ (bytes # Missing /\ bytes > Limit)
        /\ DropFromCache(l)
        /\ Release(t)
     \/ /\ bytes # Missing /\ bytes <= Limit
        /\ CanFree(Required(bytes))
        /\ Admit(l, bytes)
        /\ Release(t)
  /\ ForgetDropped
  /\ UNCHANGED <<origin, stored, layer, ops, cancels>>

(* A waiter gets the barrier's value; a barrier nobody ever filled makes   *)
(* its unwrap panic.                                                       *)
Woken(t) ==
  /\ pc[t] = "woken"
  /\ IF lookup[t] = NoAnswer
       THEN GoTo(t, "panicked") /\ UNCHANGED lookup
       ELSE GoTo(t, "idle") /\ lookup' = [lookup EXCEPT ![t] = NoAnswer]
  /\ UNCHANGED <<origin, stored, early, entry, order, current, layer, barrier, ops, cancels>>

(* A caller drops a call that is fetching: its barrier is released empty,  *)
(* and its Resolving entry stays.                                          *)
Cancel(t) ==
  /\ pc[t] \in {"fetch", "install"}
  /\ cancels < MaxCancels
  /\ cancels' = cancels + 1
  /\ Release(t)
  /\ UNCHANGED <<origin, stored, early, entry, order, current, layer, ops>>

(* store_layer_file of the origin: the file is created, then written.      *)
Store(t, l) ==
  /\ pc[t] = "idle"
  /\ origin[l] = Missing
  /\ Begin
  /\ layer' = [layer EXCEPT ![t] = l]
  /\ origin' = [origin EXCEPT ![l] = 0]
  /\ GoTo(t, "write")
  /\ UNCHANGED <<stored, early, entry, order, current, lookup, barrier, cancels>>

WriteChunk(t) ==
  /\ pc[t] = "write"
  /\ origin[layer[t]] < Size[layer[t]]
  /\ origin' = [origin EXCEPT ![layer[t]] = @ + 1]
  /\ UNCHANGED <<stored, early, entry, order, current, pc, layer, lookup, barrier, ops, cancels>>

Written(t) ==
  /\ pc[t] = "write"
  /\ origin[layer[t]] = Size[layer[t]]
  /\ GoTo(t, "put")
  /\ UNCHANGED <<origin, stored, early, entry, order, current, layer, lookup, barrier, ops, cancels>>

(* store_layer_file of the cache, after the origin's: the layer is put in  *)
(* unless it is there already, or does not fit.                            *)
Put(t) ==
  LET l == layer[t] IN
  /\ pc[t] = "put"
  /\ \/ /\ entry[l] # NoEntry \/ Size[l] > Limit
        /\ UNCHANGED <<entry, order, current>>
     \/ /\ entry[l] = NoEntry /\ Size[l] <= Limit
        /\ CanFree(Required(Size[l]))
        /\ Admit(l, Size[l])
  /\ stored' = stored \cup {l}
  /\ ForgetDropped
  /\ GoTo(t, "idle")
  /\ UNCHANGED <<origin, layer, lookup, barrier, ops, cancels>>

\* mutant: the target is taken off the counter too
TargetCountedTwice(t, target) ==
  /\ pc[t] = "idle"
  /\ Begin
  /\ current > target
  /\ CanFree(current - target)
  /\ LET n == Passes(current - target) IN
       /\ entry' = EntryAfter(n)
       /\ order' = OrderAfter(n)
       /\ current' = current - target - FreedBy(n)
  /\ ForgetDropped
  /\ UNCHANGED <<origin, stored, pc, layer, lookup, barrier, cancels>>

(* evict_to_target, for a target below what is in use.                     *)
EvictToTarget(t, target) ==
  /\ pc[t] = "idle"
  /\ Begin
  /\ current > target
  /\ CanFree(current - target)
  /\ LET n == Passes(current - target) IN
       /\ entry' = EntryAfter(n)
       /\ order' = OrderAfter(n)
       /\ current' = current - FreedBy(n)
  /\ ForgetDropped
  /\ UNCHANGED <<origin, stored, pc, layer, lookup, barrier, cancels>>

-----------------------------------------------------------------------------
(* The steps of calls under way.                                           *)
Proceed(t) ==
  \/ Fetch(t) \/ Install(t) \/ Woken(t)
  \/ WriteChunk(t) \/ Written(t) \/ Put(t)

Next ==
  \E t \in Task :
    \/ \E l \in Layer : Get(t, l) \/ Store(t, l)
    \/ \E target \in 0 .. Limit : EvictToTarget(t, target)
    \/ Proceed(t)
    \/ Cancel(t)

Spec == Init /\ [][Next]_vars

(* Every task that can run is polled; the mutex is never held across a     *)
(* lookup.                                                                 *)
Fairness == \A t \in Task : WF_vars(Proceed(t))

FairSpec == Spec /\ Fairness

-----------------------------------------------------------------------------
(* Properties.                                                             *)

(***************************************************************************)
(* The byte counter is the sum of the lengths of the Resolved entries, and *)
(* never exceeds the limit, whatever calls ran between the two sections of *)
(* get_layer_bytes.                                                        *)
(***************************************************************************)
AccountedAndBounded ==
  /\ current = FreedBy(Len(order))
  /\ current <= Limit

(***************************************************************************)
(* The eviction loop always finds enough to pop before it runs: it neither *)
(* meets its "cache is empty but stored entries were expected" panic nor   *)
(* spins, holding the mutex, over entries that are all Resolving.          *)
(***************************************************************************)
EvictionSucceeds ==
  /\ \A target \in 0 .. Limit : current > target => CanFree(current - target)
  /\ \A t \in Task :
       /\ pc[t] = "install" /\ lookup[t] # Missing =>
            lookup[t] > Limit \/ CanFree(Required(lookup[t]))
       /\ pc[t] = "put" =>
            Size[layer[t]] > Limit \/ CanFree(Required(Size[layer[t]]))

(***************************************************************************)
(* "someone is already looking up this layer. we'll wait for them to be    *)
(* done": a layer is fetched by one task at a time, its resolver finds its *)
(* Resolving entry again, and, until a call is dropped, a Resolving entry  *)
(* has a resolver at work.                                                 *)
(***************************************************************************)
ResolvingHasResolver ==
  \A l \in Layer :
    /\ \A t, u \in Resolvers(l) : t = u
    /\ Resolvers(l) # {} => entry[l] = Resolving
    /\ entry[l] = Resolving /\ cancels = 0 => Resolvers(l) # {}

(***************************************************************************)
(* The keys of the cache are exactly the layers with an entry, each once:  *)
(* the resolver finds its own entry again ("layer resolving entry not      *)
(* found in cache") whatever was evicted meanwhile.                        *)
(***************************************************************************)
OrderMatchesEntries ==
  /\ \A l \in Layer : entry[l] # NoEntry <=> \E i \in 1 .. Len(order) : order[i] = l
  /\ \A i, j \in 1 .. Len(order) : order[i] = order[j] => i = j

(***************************************************************************)
(* What a call of get_layer_bytes made now for the layer is answered: its  *)
(* Resolved entry; the barrier of a Resolving one, once it is filled or    *)
(* nobody is left to fill it; and otherwise what the origin holds.         *)
(***************************************************************************)
Answer(l) ==
  IF IsResolved(l) THEN entry[l]
  ELSE IF entry[l] = Resolving /\ (barrier[l] # NoAnswer \/ Resolvers(l) = {})
    THEN barrier[l]
    ELSE OriginBytes(l)

(* A resolver was dropped during its lookup and left a Resolving entry     *)
(* whose barrier nobody will fill.                                         *)
Abandoned(l) == entry[l] = Resolving /\ Resolvers(l) = {} /\ barrier[l] = NoAnswer

(***************************************************************************)
(* A layer is retrievable from the moment its store_layer_file returns: a  *)
(* call made now is answered all of its bytes, whether an entry, a barrier *)
(* or the origin answers.  The two ways in which the code fails this are   *)
(* exempted by name, and only as long as they last: an entry that rests on *)
(* a lookup made before the file was whole, which store_layer_file does    *)
(* not replace and which serves a part of the bytes or "not found", and an *)
(* abandoned entry.  Once eviction or drop_from_cache has removed such an  *)
(* entry the layer is retrievable again.                                   *)
(***************************************************************************)
StoredIsRetrievable ==
  \A l \in stored : Answer(l) = Size[l] \/ l \in early \/ Abandoned(l)

(* The value a reader finds in a barrier it waited for is there, and its   *)
(* unwrap does not panic, as long as no resolver was dropped during its    *)
(* lookup.                                                                 *)
BarrierIsFilled == cancels = 0 => \A t \in Task : pc[t] # "panicked"

(* Every call returns, or panics on an empty barrier: no reader waits for  *)
(* ever on a barrier, a dropped resolver's included.                       *)
CallsReturn == \A t \in Task : pc[t] # "idle" ~> pc[t] \in {"idle", "panicked"}
=============================================================================
