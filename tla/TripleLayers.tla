---------------------------- MODULE TripleLayers ----------------------------
(***************************************************************************)
(* How a layer stores its triples and how a stack of layers is read.       *)
(*                                                                         *)
(* A layer is written once, from sorted triples, as adjacency lists and    *)
(* indexes (layer/builder.rs).  A reader merges the additions and removals *)
(* of all layers of a stack while it walks positions in those lists        *)
(* (layer/internal/subject_iterator.rs, predicate_iterator.rs,             *)
(* object_iterator.rs), or looks single triples up (layer/internal/mod.rs).*)
(* Layers never change, so a stack is built first (CommitBase,             *)
(* CommitChild) and read through one cursor afterwards.                    *)
(***************************************************************************)
EXTENDS Integers, Sequences, FiniteSets, SequencesExt

CONSTANTS
  Triple,       \* the triples <<subject, predicate, object>> of ids; 0 is no id
  MaxLayers,    \* bound: layers in the stack
  MaxChanges,   \* bound: triples given to one builder
  MaxTotal,     \* bound: changes with an effect in the stack
  None          \* Rust's None

ASSUME TripleAssumption == \A t \in Triple : \A i \in 1..3 : t[i] \in Nat \ {0}

ASSUME BoundsAssumption == {MaxLayers, MaxChanges, MaxTotal} \subseteq Nat

VARIABLES
  layers,    \* the stack, newest first: [pos, neg], triple lists or None
  cursor,    \* the open iterator: its kind and the state of its parts
  asked,     \* what the cursor was opened for
  returned,  \* history: what it has returned
  ended,     \* whether its last answer was None
  contents   \* history: the triples of each layer of the stack, newest first

vars == <<layers, cursor, asked, returned, ended, contents>>

(* The ids to ask for: 0, those in use and those up to one beyond them.    *)
Ids(i) == 0..(Max({t[i] : t \in Triple}) + 1)

(* The derived order on IdTriple, and on any tuple of ids.                 *)
Less(a, b) == \E i \in 1..Len(a) : a[i] < b[i] /\ \A j \in 1..(i - 1) : a[j] = b[j]

Sorted(S) == [i \in 1..Cardinality(S) |->
               CHOOSE x \in S : Cardinality({y \in S : Less(y, x)}) = i - 1]

-----------------------------------------------------------------------------
(* Adjacency lists (tdb_succinct): the pairs <<left, right>> in order.     *)
(* Every left from 1 to the last one has an entry; one that was skipped    *)
(* has the entry <<left, 0>>.  Positions count from 0.                     *)

right_count(l) == Len(l)

left_count(l) == IF l = <<>> THEN 0 ELSE Last(l)[1]

num_at_pos(l, pos) == l[pos + 1][2]

left_at_pos(l, pos) == l[pos + 1][1]

bit_at_pos(l, pos) == pos + 1 = Len(l) \/ l[pos + 2][1] # l[pos + 1][1]

(* The position of the first entry of a left; where the left before it has *)
(* no entry, the code unwraps a None, and this has no value.               *)
offset_for(l, left) ==
  IF left = 1 THEN 0
  ELSE CHOOSE n \in 1..Len(l) : l[n][1] = left - 1 /\ bit_at_pos(l, n - 1)

push(l, left, right) ==
  l \o [i \in 1..(left - left_count(l) - 1) |-> <<left_count(l) + i, 0>>]
    \o << <<left, right>> >>

stream_pairs(l) == SelectSeq(l, LAMBDA pair : pair[2] # 0)

(* Monotonic arrays and wavelet trees.                                     *)
nearest_index_of(a, x) == Cardinality({i \in 1..Len(a) : a[i] < x})

lookup(l, x) ==
  LET at == {i \in 1..Len(l) : l[i][2] = x}
  IN  [k \in 1..Cardinality(at) |->
        (CHOOSE i \in at : Cardinality({j \in at : j < i}) = k - 1) - 1]

-----------------------------------------------------------------------------
(* Building a layer's lists.                                               *)

new_builder(sparse) ==
  [sparse |-> sparse, subjects |-> <<>>, s_p |-> <<>>, sp_o |-> <<>>,
   last_subject |-> 0, last_predicate |-> 0]

(* mutant: a new predicate of the same subject is taken for the old one.   *)
add_triple_one_predicate(b, t) ==
  LET new      == t[1] # b.last_subject
      subjects == IF b.sparse /\ new THEN Append(b.subjects, t[1]) ELSE b.subjects
      s_p      == IF ~new THEN b.s_p
                  ELSE push(b.s_p, IF b.sparse THEN Len(subjects) ELSE t[1], t[2])
  IN  IF 0 \in {t[1], t[2], t[3]} THEN b
      ELSE [b EXCEPT !.subjects = subjects, !.s_p = s_p,
                     !.sp_o = push(b.sp_o, Len(s_p), t[3]),
                     !.last_subject = t[1], !.last_predicate = t[2]]

(* Triples arrive sorted and without repetition, so the panics of the      *)
(* builder and of push are not met.                                        *)
add_triple(b, t) ==
  LET new      == t[1] # b.last_subject
      same     == ~new /\ t[2] = b.last_predicate
      subjects == IF b.sparse /\ new THEN Append(b.subjects, t[1]) ELSE b.subjects
      mapped   == IF b.sparse THEN Len(subjects) ELSE t[1]
      s_p      == IF same THEN b.s_p ELSE push(b.s_p, mapped, t[2])
  IN  IF 0 \in {t[1], t[2], t[3]} THEN b
      ELSE [b EXCEPT !.subjects = subjects, !.s_p = s_p,
                     !.sp_o = push(b.sp_o, Len(s_p), t[3]),
                     !.last_subject = t[1], !.last_predicate = t[2]]

(* The pairs (object, position of its subject and predicate), sorted; a    *)
(* sparse index numbers the objects in use without gaps.  Sorting by       *)
(* chunks that are then merged is sorting.                                 *)
build_object_index(sparse, sp_o) ==
  LET pairs == Sorted({<<e[2], e[1]>> : e \in ToSet(stream_pairs(sp_o))})
      step(index, pair) ==
        LET new     == sparse /\ pair[1] \notin ToSet(index.objects)
            objects == IF new THEN Append(index.objects, pair[1]) ELSE index.objects
            left    == IF sparse THEN Len(objects) ELSE pair[1]
        IN  [objects |-> objects, o_ps |-> push(index.o_ps, left, pair[2])]
  IN  FoldLeft(step, [objects |-> <<>>, o_ps |-> <<>>], pairs)

finalize(b) ==
  LET index == build_object_index(b.sparse, b.sp_o)
  IN  [sparse |-> b.sparse, subjects |-> b.subjects, s_p |-> b.s_p, sp_o |-> b.sp_o,
       objects |-> index.objects, o_ps |-> index.o_ps]

build(sparse, S) == finalize(FoldLeft(add_triple, new_builder(sparse), Sorted(S)))

-----------------------------------------------------------------------------
(* Reading one layer's additions or removals: triple lists d, or None.     *)

(* The position of the objects of s and p, or None.                        *)
sp_o_position(d, s, p) ==
  LET s_position == IF d.sparse THEN nearest_index_of(d.subjects, s) ELSE s - 1
      known      == IF d.sparse THEN s \in ToSet(d.subjects) ELSE s <= left_count(d.s_p)
      at         == {i \in 1..Len(d.s_p) : d.s_p[i] = <<s_position + 1, p>>}
  IN  IF s = 0 \/ p = 0 \/ ~known \/ at = {} THEN None
      ELSE offset_for(d.sp_o, CHOOSE i \in at : TRUE)

(* The objects from a position to the end of its list.                     *)
objects_from(d, pos) ==
  LET run == {i \in (pos + 1)..Len(d.sp_o) : d.sp_o[i][1] = d.sp_o[pos + 1][1]}
  IN  [k \in 1..Cardinality(run) |-> d.sp_o[pos + k][2]]

objects_of(d, s, p) ==
  IF d = None THEN <<>>
  ELSE LET pos == sp_o_position(d, s, p)
       IN  IF pos = None THEN <<>> ELSE objects_from(d, pos)

layer_triple_exists(d, t) == t[3] # 0 /\ t[3] \in ToSet(objects_of(d, t[1], t[2]))

(* triple_addition_exists and triple_removal_exists: a base layer has no   *)
(* removals.                                                               *)
triple_change_exists(d, t) == d # None /\ layer_triple_exists(d, t)

(* mutant: the holes that skipped subjects leave are counted as triples.   *)
triple_count_holes(d) == IF d = None THEN 0 ELSE right_count(d.sp_o)

(* The number of triples: holes in s_p have one hole each in sp_o.         *)
triple_count(d) == IF d = None THEN 0 ELSE right_count(d.sp_o) - Len(lookup(d.s_p, 0))

(* The two triple streams: the entries of sp_o, each with the s_p entry    *)
(* that its left side counts, and in a child the subject that counts.      *)
BaseTripleStream(d) ==
  LET s_p == stream_pairs(d.s_p)
      poll(st, e) ==
        LET moved == e[1] > st.last_sp
            at    == IF moved THEN st.at + 1 ELSE st.at
        IN  [at |-> at, last_sp |-> e[1],
             out |-> Append(st.out, <<s_p[at][1], s_p[at][2], e[2]>>)]
  IN  FoldLeft(poll, [at |-> 0, last_sp |-> 0, out |-> <<>>], stream_pairs(d.sp_o)).out

ChildTripleStream(d) ==
  LET s_p == stream_pairs(d.s_p)
      poll(st, e) ==
        LET moved == e[1] > st.last_sp
            at    == IF moved THEN st.at + 1 ELSE st.at
            sub   == IF moved /\ s_p[at][1] > st.last_s THEN st.sub + 1 ELSE st.sub
        IN  [at |-> at, sub |-> sub, last_s |-> s_p[at][1], last_sp |-> e[1],
             out |-> Append(st.out, <<d.subjects[sub], s_p[at][2], e[2]>>)]
  IN  FoldLeft(poll, [at |-> 0, sub |-> 0, last_s |-> 0, last_sp |-> 0, out |-> <<>>],
               stream_pairs(d.sp_o)).out

-----------------------------------------------------------------------------
(* Iterators over one layer's additions or removals.  A step gives the     *)
(* iterator's new state and what it returns.                               *)

SubjectIterator == [s |-> 0, sp |-> 0, spo |-> 0, peeked |-> None]

at_subject(d, subject) ==
  IF d.sparse THEN nearest_index_of(d.subjects, subject) ELSE subject - 1

seek_subject_ref(d, subject) ==
  IF subject = 0 THEN SubjectIterator
  ELSE LET s  == at_subject(d, subject)
           sp == IF s >= left_count(d.s_p) THEN right_count(d.s_p) ELSE offset_for(d.s_p, s + 1)
       IN  [s |-> s, sp |-> sp, peeked |-> None,
            spo |-> IF s >= left_count(d.s_p) THEN right_count(d.sp_o)
                    ELSE offset_for(d.sp_o, sp + 1)]

(* mutant: past the subject's last predicate, the subject is not moved.    *)
seek_subject_predicate_stuck(d, subject, predicate) ==
  IF predicate = 0 \/ subject = 0 \/ at_subject(d, subject) >= left_count(d.s_p)
  THEN seek_subject_ref(d, subject)
  ELSE LET s    == at_subject(d, subject)
           next == offset_for(d.s_p, s + 2)
           hits == {pos \in offset_for(d.s_p, s + 1)..(next - 1) :
                      num_at_pos(d.s_p, pos) >= predicate}
           sp   == IF hits = {} THEN next ELSE Min(hits)
       IN  [s |-> s, sp |-> sp, spo |-> offset_for(d.sp_o, sp + 1), peeked |-> None]

seek_subject_predicate_ref(d, subject, predicate) ==
  IF predicate = 0 \/ subject = 0 \/ at_subject(d, subject) >= left_count(d.s_p)
  THEN seek_subject_ref(d, subject)
  ELSE LET s    == at_subject(d, subject)
           next == offset_for(d.s_p, s + 2)
           hits == {pos \in offset_for(d.s_p, s + 1)..(next - 1) :
                      num_at_pos(d.s_p, pos) >= predicate}
           sp   == IF hits = {} THEN next ELSE Min(hits)
       IN  [s |-> IF hits = {} THEN s + 1 ELSE s, sp |-> sp,
            spo |-> offset_for(d.sp_o, sp + 1), peeked |-> None]

seek_s_p_pos(d, pos) ==
  [s |-> left_at_pos(d.s_p, pos) - 1, sp |-> pos, spo |-> offset_for(d.sp_o, pos + 1),
   peeked |-> None]

RECURSIVE SubjectNext(_, _)
SubjectNext(d, it) ==
  IF it.peeked # None THEN << [it EXCEPT !.peeked = None], it.peeked >>
  ELSE IF it.spo >= right_count(d.sp_o) THEN <<it, None>>
  ELSE LET predicate == num_at_pos(d.s_p, it.sp)
           object    == num_at_pos(d.sp_o, it.spo)
           last_o    == predicate = 0 \/ bit_at_pos(d.sp_o, it.spo)
           last_p    == last_o /\ bit_at_pos(d.s_p, it.sp)
           moved     == [s   |-> IF last_p THEN it.s + 1 ELSE it.s,
                         sp  |-> IF last_o THEN it.sp + 1 ELSE it.sp,
                         spo |-> it.spo + 1, peeked |-> None]
           subject   == IF d.sparse THEN d.subjects[it.s + 1] ELSE it.s + 1
       IN  IF predicate = 0 \/ object = 0 THEN SubjectNext(d, moved)
           ELSE << moved, <<subject, predicate, object>> >>

Peek(step) == << [step[1] EXCEPT !.peeked = step[2]], step[2] >>

PredicateIterator(d, predicate) ==
  [found |-> IF d = None THEN <<>> ELSE lookup(d.s_p, predicate), at |-> 0,
   boundary |-> TRUE, inner |-> SubjectIterator, peeked |-> None]

(* mutant: positions of the same subject are taken for one run.            *)
sp_boundary_by_subject(result, ahead) == ahead = None \/ ahead[1] # result[1]

(* Whether the triple ahead is of another subject or predicate.            *)
sp_boundary(result, ahead) ==
  ahead = None \/ <<ahead[1], ahead[2]>> # <<result[1], result[2]>>

PredicateResult(it, result, ahead) ==
  << [it EXCEPT !.inner = ahead[1], !.boundary = sp_boundary(result, ahead[2])], result >>

PredicateStep(d, it, step) == PredicateResult(it, step[2], Peek(SubjectNext(d, step[1])))

PredicateNext(d, it) ==
  IF it.peeked # None THEN << [it EXCEPT !.peeked = None], it.peeked >>
  ELSE IF ~it.boundary THEN PredicateStep(d, it, SubjectNext(d, it.inner))
  ELSE IF it.at >= Len(it.found) THEN <<it, None>>
  ELSE PredicateStep(d, [it EXCEPT !.at = @ + 1],
                     SubjectNext(d, seek_s_p_pos(d, it.found[it.at + 1])))

ObjectIterator == [o |-> 0, ops |-> 0, peeked |-> None, stop |-> FALSE, hit |-> FALSE]

(* mutant: the nearest object of a sparse index is taken from after it.    *)
seek_object_ref_after(d, object) ==
  IF object = 0 THEN ObjectIterator
  ELSE LET o == IF d.sparse THEN nearest_index_of(d.objects, object + 1) ELSE object - 1
       IN  [ObjectIterator EXCEPT !.o = o,
              !.ops = IF o >= left_count(d.o_ps) THEN right_count(d.o_ps)
                      ELSE offset_for(d.o_ps, o + 1)]

seek_object_ref(d, object) ==
  IF object = 0 THEN ObjectIterator
  ELSE LET o == IF d.sparse THEN nearest_index_of(d.objects, object) ELSE object - 1
       IN  [ObjectIterator EXCEPT !.o = o,
              !.ops = IF o >= left_count(d.o_ps) THEN right_count(d.o_ps)
                      ELSE offset_for(d.o_ps, o + 1)]

RECURSIVE ObjectNext(_, _)
ObjectNext(d, it) ==
  IF it.peeked # None THEN << [it EXCEPT !.peeked = None], it.peeked >>
  ELSE IF (it.stop /\ it.hit) \/ it.ops >= right_count(d.o_ps) THEN <<it, None>>
  ELSE LET sp    == num_at_pos(d.o_ps, it.ops)
           last  == bit_at_pos(d.o_ps, it.ops)
           moved == [it EXCEPT !.o = IF last THEN @ + 1 ELSE @, !.ops = @ + 1,
                               !.hit = @ \/ (last /\ it.stop)]
           pair  == d.s_p[sp]
       IN  IF sp = 0 THEN ObjectNext(d, moved)
           ELSE << moved, << IF d.sparse THEN d.subjects[pair[1]] ELSE pair[1], pair[2],
                             IF d.sparse THEN d.objects[it.o + 1] ELSE it.o + 1 >> >>

(* One iterator, or None.                                                  *)
Step(kind, d, it) ==
  IF d = None THEN <<it, None>>
  ELSE CASE kind = "p" -> PredicateNext(d, it)
         [] kind = "o" -> ObjectNext(d, it)
         [] OTHER      -> SubjectNext(d, it)

-----------------------------------------------------------------------------
(* Asking one layer for its additions or its removals (triple_additions,   *)
(* triple_removals and their variants by subject, predicate and object).   *)
(* A loaded layer and its files answer alike, except by object.            *)

RECURSIVE CollectFrom(_, _, _)
CollectFrom(kind, d, step) ==
  IF step[2] = None THEN <<>>
  ELSE <<step[2]>> \o CollectFrom(kind, d, Step(kind, d, step[1]))

Collect(kind, d, it) == IF d = None THEN <<>> ELSE CollectFrom(kind, d, Step(kind, d, it))

(* What is asked for: an id at each of some places of a triple.            *)
Matches(t, ask) == \A i \in DOMAIN ask : t[i] = ask[i]

TakeWhile(seq, ask) ==
  LET fails == {i \in 1..Len(seq) : ~Matches(seq[i], ask)}
  IN  IF fails = {} THEN seq ELSE SubSeq(seq, 1, Min(fails) - 1)

triple_changes(d) == Collect("all", d, SubjectIterator)

triple_changes_s(d, s) == TakeWhile(Collect("s", d, seek_subject_ref(d, s)), <<s>>)

(* mutant: the subject is not compared once it has been sought.            *)
triple_changes_sp_any_subject(d, s, p) ==
  TakeWhile(Collect("sp", d, seek_subject_predicate_ref(d, s, p)), 2 :> p)

triple_changes_sp(d, s, p) ==
  TakeWhile(Collect("sp", d, seek_subject_predicate_ref(d, s, p)), <<s, p>>)

triple_changes_p(d, p) == Collect("p", d, PredicateIterator(d, p))

(* By object: a loaded layer relies on stop_at_boundary alone.             *)
internal_triple_changes_o(d, o) ==
  Collect("o", d, [seek_object_ref(d, o) EXCEPT !.stop = TRUE])

file_triple_changes_o(d, o) == TakeWhile(internal_triple_changes_o(d, o), 3 :> o)

(* The layer cache answers for the layers it holds, rollups aside.         *)
triple_changes_o(cached, d, o) ==
  IF cached THEN internal_triple_changes_o(d, o) ELSE file_triple_changes_o(d, o)

-----------------------------------------------------------------------------
(* Reading a stack.                                                        *)

(* mutant: removals are not looked at.                                     *)
triple_exists_blind(ls, t) == \E i \in 1..Len(ls) : triple_change_exists(ls[i].pos, t)

triple_exists(ls, t) ==
  LET hits == {i \in 1..Len(ls) :
                 triple_change_exists(ls[i].pos, t) \/ triple_change_exists(ls[i].neg, t)}
  IN  0 \notin {t[1], t[2], t[3]} /\ hits # {} /\ triple_change_exists(ls[Min(hits)].pos, t)

(* mutant: only the newest layer's removals are excluded.                  *)
single_triple_sp_newest(ls, s, p) ==
  LET excluded(i) == IF i = 1 THEN {} ELSE ToSet(objects_of(ls[i - 1].neg, s, p))
      left(i)     == SelectSeq(objects_of(ls[i].pos, s, p), LAMBDA o : o \notin excluded(i))
      hits        == {i \in 1..Len(ls) : left(i) # <<>>}
  IN  IF hits = {} THEN None ELSE <<s, p, left(Min(hits))[1]>>

(* From the newest layer down, the first addition that no removal above it *)
(* excludes.                                                               *)
single_triple_sp(ls, s, p) ==
  LET excluded(i) == UNION {ToSet(objects_of(ls[j].neg, s, p)) : j \in 1..(i - 1)}
      left(i)     == SelectSeq(objects_of(ls[i].pos, s, p), LAMBDA o : o \notin excluded(i))
      hits        == {i \in 1..Len(ls) : left(i) # <<>>}
  IN  IF hits = {} THEN None ELSE <<s, p, left(Min(hits))[1]>>

triple_addition_count(ls) == FoldLeft(LAMBDA n, l : n + triple_count(l.pos), 0, ls)

triple_removal_count(ls) == FoldLeft(LAMBDA n, l : n + triple_count(l.neg), 0, ls)

(* Iterators over a stack: positives and negatives, newest first.          *)

PeekAt(kind, d, it) == IF d = None THEN <<it, None>> ELSE Peek(Step(kind, d, it))

Iterators(peeks) == [i \in 1..Len(peeks) |-> peeks[i][1]]

(* The iterators after next on number i, which was peeked at just before.  *)
TakeNext(its, i) == [its EXCEPT ![i].peeked = None]

Key(kind, t) == IF kind = "o" THEN <<t[3], t[1], t[2]>> ELSE t

(* min_by_key: the first of the lowest.                                    *)
Lowest(kind, peeks) ==
  LET some == {i \in 1..Len(peeks) : peeks[i][2] # None}
  IN  IF some = {} THEN 0
      ELSE CHOOSE i \in some : \A j \in some :
             \/ Less(Key(kind, peeks[i][2]), Key(kind, peeks[j][2]))
             \/ (peeks[i][2] = peeks[j][2] /\ i <= j)

PeekAdditions(ls, c) == [i \in 1..Len(c.pos) |-> PeekAt(c.kind, ls[i].pos, c.pos[i])]

(* The removals of the n newest layers.                                    *)
PeekRemovals(ls, c, n) == [i \in 1..n |-> PeekAt(c.kind, ls[i].neg, c.neg[i])]

(* A round of the loop over a stack: the lowest addition, unless a newer   *)
(* layer removes it; then there is another round.                          *)
MergeLowest(c, peeks, low, npeeks) ==
  LET equal == {i \in 1..Len(npeeks) : npeeks[i][2] = peeks[low][2]}
      last  == IF equal = {} THEN Len(npeeks) ELSE Min(equal)
      neg   == [i \in 1..Len(c.neg) |-> IF i <= last THEN npeeks[i][1] ELSE c.neg[i]]
  IN  [cursor |-> [c EXCEPT !.pos = TakeNext(Iterators(peeks), low),
                            !.neg = IF equal = {} THEN neg ELSE TakeNext(neg, last)],
       answer |-> peeks[low][2],
       again  |-> equal # {}]

MergeNext(ls, c, peeks) ==
  LET low == Lowest(c.kind, peeks)
  IN  IF low = 0
      THEN [cursor |-> [c EXCEPT !.pos = Iterators(peeks)], answer |-> None, again |-> FALSE]
      ELSE MergeLowest(c, peeks, low, PeekRemovals(ls, c, low - 1))

(* A round over the changes of the layers of c: an addition and a removal  *)
(* of the same triple cancel each other.                                   *)
ChangesNext(c, peeks, npeeks) ==
  LET p       == Lowest(c.kind, peeks)
      n       == Lowest(c.kind, npeeks)
      added   == p # 0 /\ (n = 0 \/ ~Less(npeeks[n][2], peeks[p][2]))
      removed == n # 0 /\ (p = 0 \/ ~Less(peeks[p][2], npeeks[n][2]))
      pos     == Iterators(peeks)
      neg     == Iterators(npeeks)
  IN  [cursor |-> [c EXCEPT !.pos = IF added THEN TakeNext(pos, p) ELSE pos,
                            !.neg = IF removed THEN TakeNext(neg, n) ELSE neg],
       answer |-> CASE added   -> <<"addition", peeks[p][2]>>
                    [] removed -> <<"removal", npeeks[n][2]>>
                    [] OTHER   -> None,
       again  |-> added /\ removed]

Round(ls, c) ==
  IF c.kind = "changes"
  THEN ChangesNext(c, PeekAdditions(ls, c), PeekRemovals(ls, c, Len(c.neg)))
  ELSE MergeNext(ls, c, PeekAdditions(ls, c))

RECURSIVE LastRound(_, _)
LastRound(ls, round) ==
  IF round.again THEN LastRound(ls, Round(ls, round.cursor)) ELSE round

-----------------------------------------------------------------------------
Init ==
  /\ layers = <<>> /\ contents = <<>>
  /\ cursor = None /\ asked = <<>> /\ returned = <<>> /\ ended = FALSE

ChangeSet == {S \in SUBSET Triple : Cardinality(S) <= MaxChanges}

(* How much of the stack's bound is used: the changes that had an effect.  *)
Changed(c) ==
  FoldLeft(LAMBDA n, i : n + Cardinality((c[i] \ c[i + 1]) \cup (c[i + 1] \ c[i])),
           Cardinality(Last(c)), [i \in 1..(Len(c) - 1) |-> i])

Commit(layer, content) ==
  /\ layers' = <<layer>> \o layers
  /\ contents' = <<content>> \o contents
  /\ Changed(contents') <= MaxTotal
  /\ UNCHANGED <<cursor, asked, returned, ended>>

CommitBase(S) ==
  /\ layers = <<>>
  /\ Commit([pos |-> build(FALSE, S), neg |-> None], S)

(* mutant: what the parent already has is added again.                     *)
CommitChild_unfiltered(A, R) ==
  /\ cursor = None /\ layers # <<>> /\ Len(layers) < MaxLayers
  /\ Commit([pos |-> build(TRUE, A),
             neg |-> build(TRUE, {t \in R : triple_exists(layers, t)})],
            (contents[1] \ R) \cup A)

(* Additions and removals are disjoint (the layer builder cancels what is  *)
(* in both); those without effect on the parent are filtered out.          *)
CommitChild(A, R) ==
  /\ cursor = None /\ layers # <<>> /\ Len(layers) < MaxLayers
  /\ Commit([pos |-> build(TRUE, {t \in A : ~triple_exists(layers, t)}),
             neg |-> build(TRUE, {t \in R : triple_exists(layers, t)})],
            (contents[1] \ R) \cup A)

(* The iterator over one layer's additions or removals as it is opened.    *)
Start(kind, ask, d) ==
  IF d = None THEN None
  ELSE CASE kind = "s"  -> seek_subject_ref(d, ask[1])
         [] kind = "sp" -> seek_subject_predicate_ref(d, ask[1], ask[2])
         [] kind = "p"  -> PredicateIterator(d, ask[2])
         [] kind = "o"  -> seek_object_ref(d, ask[3])
         [] OTHER       -> SubjectIterator

(* A cursor over the newest layers, as many as size says.                  *)
Open(kind, ask, size) ==
  /\ cursor = None /\ layers # <<>>
  /\ cursor' = [kind |-> kind,
                pos |-> [i \in 1..size |-> Start(kind, ask, layers[i].pos)],
                neg |-> [i \in 1..size |-> Start(kind, ask, layers[i].neg)]]
  /\ asked' = ask
  /\ UNCHANGED <<layers, contents, returned, ended>>

Triples == Open("all", <<>>, Len(layers))

TriplesS(s) == Open("s", <<s>>, Len(layers))

TriplesSP(s, p) == Open("sp", <<s, p>>, Len(layers))

TriplesP(p) == Open("p", 2 :> p, Len(layers))

TriplesO(o) == Open("o", 3 :> o, Len(layers))

(* mutant: the parent's own changes are taken in.                          *)
Changes_inclusive(k) == k < Len(layers) /\ Open("changes", <<k>>, k + 1)

(* The changes between the top of the stack and the layer k below it.      *)
Changes(k) == k < Len(layers) /\ Open("changes", <<k>>, k)

(* triples_s, triples_sp and triples_o end with take_while, which stays at *)
(* None once its condition failed.                                         *)
NextTriple ==
  /\ cursor # None
  /\ \E round \in {LastRound(layers, Round(layers, cursor))} :
       LET bounded == cursor.kind \in {"s", "sp", "o"}
           stays   == bounded /\ ended
           none    == \/ stays
                      \/ round.answer = None
                      \/ bounded /\ ~Matches(round.answer, asked)
       IN  /\ cursor' = IF stays THEN cursor ELSE round.cursor
           /\ returned' = IF none THEN returned ELSE Append(returned, round.answer)
           /\ ended' = none
  /\ UNCHANGED <<layers, contents, asked>>

Next ==
  \/ \E S \in ChangeSet : CommitBase(S)
  \/ \E S \in ChangeSet : \E A \in SUBSET S : CommitChild(A, S \ A)
  \/ Triples
  \/ \E s \in Ids(1) : TriplesS(s)
  \/ \E s \in Ids(1), p \in Ids(2) : TriplesSP(s, p)
  \/ \E p \in Ids(2) : TriplesP(p)
  \/ \E o \in Ids(3) : TriplesO(o)
  \/ \E k \in 1..(MaxLayers - 1) : Changes(k)
  \/ NextTriple

Spec == Init /\ [][Next]_vars

-----------------------------------------------------------------------------
(* Lists as the readers need them: lefts without gaps, rights ascending,   *)
(* one left of sp_o for each entry of s_p.                                 *)
WellFormed(d) ==
  /\ \A l \in {d.s_p, d.sp_o, d.o_ps} : \A i \in 1..Len(l) :
       LET before == IF i = 1 THEN <<0, 0>> ELSE l[i - 1]
       IN  \/ l[i][1] = before[1] + 1
           \/ l[i][1] = before[1] /\ l[i][2] > before[2] /\ before[2] # 0
  /\ left_count(d.sp_o) = right_count(d.s_p)
  /\ d.sparse => Len(d.subjects) = left_count(d.s_p) /\ Len(d.objects) = left_count(d.o_ps)

(* TypeOK: every layer's lists are well formed, whatever was committed     *)
(* (TripleFileBuilder, build_object_index), and the history is of the same *)
(* length as the stack.                                                    *)
TypeOK ==
  /\ cursor = None => \A i \in 1..Len(layers) : \A d \in {layers[i].pos, layers[i].neg} \ {None} :
                        WellFormed(d)
  /\ \A i \in 1..Len(layers) : layers[i].neg = None <=> i = Len(layers)
  /\ Len(contents) = Len(layers) /\ \A i \in 1..Len(contents) : contents[i] \subseteq Triple
  /\ ended \in BOOLEAN

IsOpen(kinds) == cursor # None /\ cursor.kind \in kinds

(* Predicates are numbered from 1 on, and 0 marks the holes that subjects  *)
(* without triples leave in a base layer.  lookup does not tell the two    *)
(* apart: asked for predicate 0 it finds the holes.                        *)
FindsHoles(d, p) == p = 0 /\ d # None /\ \E i \in 1..Len(d.s_p) : d.s_p[i][2] = 0

ScanIsExact(wanted) == IsPrefix(returned, wanted) /\ (ended => returned = wanted)

(***************************************************************************)
(* Every iterator over a stack, stepped to its end and past it, returns    *)
(* exactly what was asked for, in order, each once, and then None for      *)
(* good: triples, triples_s and triples_sp (subject_iterator.rs),          *)
(* triples_p (predicate_iterator.rs), triples_o and with it each part of   *)
(* triples_value_range (object_iterator.rs).  Removals in one layer of     *)
(* what an older one added, and additions of what was removed before, are  *)
(* accounted for.  InternalTripleStackIterator, from which rollups and     *)
(* squashes are written, returns the net difference between a layer and an *)
(* ancestor, however often a triple went back and forth in between.  The   *)
(* one exception is triples_p of predicate 0, which is none, over a base   *)
(* layer with holes: it returns the triples that follow the holes.         *)
(***************************************************************************)
ScansAreExact ==
  /\ IsOpen({"all", "s", "sp", "o"}) \/ (IsOpen({"p"}) /\ ~FindsHoles(Last(layers).pos, asked[2])) =>
       ScanIsExact(Sorted({t \in contents[1] : Matches(t, asked)}))
  /\ IsOpen({"changes"}) =>
       LET top   == contents[1]
           below == contents[asked[1] + 1]
           diff  == Sorted((top \ below) \cup (below \ top))
       IN  ScanIsExact([i \in 1..Len(diff) |->
             <<IF diff[i] \in top THEN "addition" ELSE "removal", diff[i]>>])

(* The stack, while it is built: later it does not change.                 *)
Building == cursor = None /\ layers # <<>>

(***************************************************************************)
(* The lookups that go down a stack agree with the triples it was          *)
(* committed with: triple_exists; single_triple_sp, which finds a triple   *)
(* if there is one; and triple_addition_count less triple_removal_count,   *)
(* so that holes in a base layer are not counted and no change is counted  *)
(* without effect (layer/internal/mod.rs).                                 *)
(***************************************************************************)
LookupsAgree ==
  Building =>
    /\ \A t \in Triple : triple_exists(layers, t) <=> t \in contents[1]
    /\ \A s \in Ids(1), p \in Ids(2) :
         LET found == single_triple_sp(layers, s, p)
             all   == {t \in contents[1] : t[1] = s /\ t[2] = p}
         IN  IF all = {} THEN found = None ELSE found \in all
    /\ triple_addition_count(layers) - triple_removal_count(layers) = Cardinality(contents[1])

(* What the newest layer should have added and removed, and its lists;     *)
(* older layers were the newest once.                                      *)
TopChanges ==
  LET parent == IF Len(layers) = 1 THEN {} ELSE contents[2]
  IN  << <<layers[1].pos, contents[1] \ parent>>, <<layers[1].neg, parent \ contents[1]>> >>

(* A layer adds only what its parent has not and removes only what it has  *)
(* (ChildLayerFileBuilderPhase2); merging and counting rely on it.  What a *)
(* layer adds and removes is read here through its triple streams, which   *)
(* delta rollups and merges of base layers use (child.rs, base.rs).        *)
LayersAreMinimal ==
  Building => \A i \in 1..2 :
    LET d == TopChanges[i][1]
    IN  IF d = None THEN TopChanges[i][2] = {}
        ELSE Sorted(TopChanges[i][2]) = IF d.sparse THEN ChildTripleStream(d) ELSE BaseTripleStream(d)

(* triple_additions, triple_removals, their variants by subject and by     *)
(* predicate and the existence checks tell a layer's changes exactly, in   *)
(* order, and for ids that the layer does not mention nothing              *)
(* (storage/layer.rs), predicate 0 of a layer with holes apart.            *)
LayerChangesAreExact ==
  Building => \A i \in 1..2 :
    LET d   == TopChanges[i][1]
        all == TopChanges[i][2]
    IN  /\ triple_changes(d) = Sorted(all)
        /\ \A s \in Ids(1) : triple_changes_s(d, s) = Sorted({t \in all : t[1] = s})
        /\ \A s \in Ids(1), p \in Ids(2) :
             triple_changes_sp(d, s, p) = Sorted({t \in all : t[1] = s /\ t[2] = p})
        /\ \A p \in Ids(2) :
             FindsHoles(d, p) \/ triple_changes_p(d, p) = Sorted({t \in all : t[2] = p})
        /\ \A t \in Triple : triple_change_exists(d, t) <=> t \in all

(* What StoreLayer documents for triple_additions_o and triple_removals_o: *)
(* the changes of the layer that share the object (store/mod.rs), be the   *)
(* layer in the cache or not.                                              *)
ObjectChangesShareObject ==
  Building => \A i \in 1..2, cached \in BOOLEAN, o \in Ids(3) \ {0} :
    triple_changes_o(cached, TopChanges[i][1], o) =
      Sorted({t \in TopChanges[i][2] : t[3] = o})
=============================================================================
