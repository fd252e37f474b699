--------------------------- MODULE LruArchive_proofs ---------------------------
(***************************************************************************)
(* Proofs about LruArchive, for any tasks, layers, file sizes and limit,   *)
(* and however many calls are made and dropped.                            *)
(***************************************************************************)
EXTENDS LruArchive, InductionLemmas, SequenceTheorems

Entries == [Layer -> Nat \cup {NoEntry, Resolving}]

(* All the bytes that the keys of s hold.                                  *)
Total(s, e) == BytesOf(s, e)[Len(s)]

Occurs(s, l) == \E i \in 1 .. Len(s) : s[i] = l

Distinct(s) == \A i, j \in 1 .. Len(s) : s[i] = s[j] => i = j

-----------------------------------------------------------------------------
(* Sums over the keys of the cache.                                        *)

(* An entry holds a number of bytes.                                       *)
LEMMA EntryBytesType ==
  ASSUME NEW e \in Entries, NEW l \in Layer
  PROVE  EntryBytes(e[l]) \in Nat
BY DEF Entries, EntryBytes

(* BytesOf is the recursive function it is written as.                     *)
LEMMA BytesOfRec ==
  ASSUME NEW s \in Seq(Layer), NEW e \in Entries
  PROVE  /\ BytesOf(s, e) \in [0 .. Len(s) -> Nat]
         /\ BytesOf(s, e)[0] = 0
         /\ \A i \in 1 .. Len(s) :
              BytesOf(s, e)[i] = BytesOf(s, e)[i - 1] + EntryBytes(e[s[i]])
<1> DEFINE n == Len(s)
           step == [p \in (0 .. n) \X Nat |-> p[2] + (IF p[1] = 0 THEN 0 ELSE EntryBytes(e[s[p[1]]]))]
           F == CHOOSE f : f = [i \in 0 .. n |-> IF i = 0 THEN 0 ELSE f[i - 1] + EntryBytes(e[s[i]])]
<1>0. n \in Nat /\ \A i \in 1 .. n : s[i] \in Layer
  BY LenProperties, ElementOfSeq
<1>1. \A i \in 1 .. n : EntryBytes(e[s[i]]) \in Nat
  BY <1>0, EntryBytesType
<1>2. PICK f \in [0 .. n -> Nat] : Iterates(f, n, 0, step)
  <2>0. ASSUME NEW p \in (0 .. n) \X Nat
        PROVE  p[2] + (IF p[1] = 0 THEN 0 ELSE EntryBytes(e[s[p[1]]])) \in Nat
    <3>1. p[1] \in 0 .. n /\ p[2] \in Nat
      OBVIOUS
    <3>2. p[1] # 0 => EntryBytes(e[s[p[1]]]) \in Nat
      <4> HIDE DEF n
      <4>1. p[1] # 0 => p[1] \in 1 .. n
        BY <3>1, <1>0
      <4> QED BY <4>1, <1>1
    <3> QED BY <3>1, <3>2
  <2>1. step \in [(0 .. n) \X Nat -> Nat]
    BY <2>0
  <2> HIDE DEF step, n
  <2> QED BY <1>0, <2>1, BoundedRecursion
<1>3. \A i \in 1 .. n : f[i - 1] \in Nat /\ f[i] = f[i - 1] + EntryBytes(e[s[i]])
  <2> SUFFICES ASSUME NEW i \in 1 .. n
               PROVE  f[i - 1] \in Nat /\ f[i] = f[i - 1] + EntryBytes(e[s[i]])
    OBVIOUS
  <2> HIDE DEF step, n
  <2>1. i \in 0 .. n /\ i # 0 /\ i - 1 \in 0 .. n
    BY <1>0
  <2>2. f[i] = step[<<i, f[i - 1]>>]
    BY <1>2 DEF Iterates
  <2>3. f[i - 1] \in Nat
    BY <1>2, <2>1
  <2> QED BY <2>1, <2>2, <2>3 DEF step
<1>4. f[0] = 0
  BY <1>2 DEF Iterates
<1>5. f = [i \in 0 .. n |-> IF i = 0 THEN 0 ELSE f[i - 1] + EntryBytes(e[s[i]])]
  <2> HIDE DEF n, step
  <2>1. \A i \in 0 .. n : i = 0 \/ i \in 1 .. n
    BY <1>0
  <2> QED BY <2>1, <1>2, <1>3, <1>4
<1>6. F = [i \in 0 .. n |-> IF i = 0 THEN 0 ELSE F[i - 1] + EntryBytes(e[s[i]])]
  <2> HIDE DEF n
  <2> QED BY <1>5
<1>7. BytesOf(s, e) = F
  BY DEF BytesOf
<1> HIDE DEF F
<1>8. \A i \in 0 .. n : F[i] = IF i = 0 THEN 0 ELSE F[i - 1] + EntryBytes(e[s[i]])
  BY <1>6
<1>9. F[0] = 0 /\ \A i \in 1 .. n : F[i] = F[i - 1] + EntryBytes(e[s[i]])
  <2> HIDE DEF n
  <2>1. 0 \in 0 .. n /\ \A i \in 1 .. n : i \in 0 .. n /\ i # 0
    BY <1>0
  <2> QED BY <1>8, <2>1
<1>10. \A i \in 0 .. n : i \in {j \in 0 .. n : F[j] \in Nat}
  <2> HIDE DEF n
  <2> DEFINE T == {j \in 0 .. n : F[j] \in Nat}
  <2>1. 0 \in T
    BY <1>0, <1>9
  <2>2. ASSUME NEW i \in 1 .. n, i - 1 \in T PROVE i \in T
    <3>1. F[i - 1] \in Nat /\ i \in 0 .. n
      BY <1>0, <2>2
    <3> QED BY <3>1, <1>9, <1>1
  <2> HIDE DEF T
  <2>3. \A i \in 0 .. n : i \in T
    BY <1>0, <2>1, <2>2, BoundedInduction
  <2> QED BY <2>3 DEF T
<1>11. F \in [0 .. n -> Nat]
  <2> HIDE DEF n
  <2> QED BY <1>6, <1>10
<1> QED BY <1>7, <1>9, <1>11

(* Sequences whose keys hold the same bytes have the same sums.            *)
LEMMA SameBytes ==
  ASSUME NEW s \in Seq(Layer), NEW t \in Seq(Layer), NEW e \in Entries, NEW f \in Entries,
         NEW n \in Nat, n <= Len(s), n <= Len(t),
         \A i \in 1 .. n : EntryBytes(e[s[i]]) = EntryBytes(f[t[i]])
  PROVE  BytesOf(s, e)[n] = BytesOf(t, f)[n]
<1> DEFINE A == BytesOf(s, e)
           B == BytesOf(t, f)
           T == {i \in 0 .. n : A[i] = B[i]}
<1>0. Len(s) \in Nat /\ Len(t) \in Nat
  BY LenProperties
<1>1. 0 \in T
  BY BytesOfRec
<1>2. ASSUME NEW i \in 1 .. n, i - 1 \in T PROVE i \in T
  <2>1. i \in 1 .. Len(s) /\ i \in 1 .. Len(t) /\ i \in 0 .. n
    BY <1>0
  <2>2. A[i] = A[i - 1] + EntryBytes(e[s[i]]) /\ B[i] = B[i - 1] + EntryBytes(f[t[i]])
    BY <2>1, BytesOfRec
  <2>3. A[i - 1] = B[i - 1]
    BY <1>2
  <2> HIDE DEF A, B
  <2> QED BY <2>1, <2>2, <2>3
<1> HIDE DEF T
<1>3. \A i \in 0 .. n : i \in T
  BY <1>1, <1>2, BoundedInduction
<1>4. n \in 0 .. n
  OBVIOUS
<1> QED BY <1>3, <1>4 DEF T

(* What follows the first n keys is added to what they hold.               *)
LEMMA ShiftedBytes ==
  ASSUME NEW s \in Seq(Layer), NEW t \in Seq(Layer), NEW e \in Entries,
         NEW n \in Nat, n + Len(t) <= Len(s),
         \A i \in 1 .. Len(t) : t[i] = s[n + i]
  PROVE  BytesOf(s, e)[n + Len(t)] = BytesOf(s, e)[n] + Total(t, e)
<1> DEFINE A == BytesOf(s, e)
           B == BytesOf(t, e)
           T == {i \in 0 .. Len(t) : A[n + i] = A[n] + B[i]}
<1>0. Len(s) \in Nat /\ Len(t) \in Nat
  BY LenProperties
<1>a. A \in [0 .. Len(s) -> Nat] /\ B \in [0 .. Len(t) -> Nat] /\ B[0] = 0
  BY BytesOfRec
<1>1. 0 \in T
  <2>1. n \in 0 .. Len(s) /\ n + 0 = n /\ 0 \in 0 .. Len(t)
    BY <1>0
  <2> HIDE DEF A, B
  <2> QED BY <1>a, <2>1
<1>2. ASSUME NEW i \in 1 .. Len(t), i - 1 \in T PROVE i \in T
  <2>1. n + i \in 1 .. Len(s) /\ i \in 0 .. Len(t) /\ (n + i) - 1 = n + (i - 1)
    BY <1>0
  <2>2. A[n + i] = A[(n + i) - 1] + EntryBytes(e[s[n + i]]) /\ B[i] = B[i - 1] + EntryBytes(e[t[i]])
    BY <2>1, BytesOfRec
  <2>3. A[n + (i - 1)] = A[n] + B[i - 1] /\ t[i] = s[n + i]
    BY <1>2
  <2>4. A[n] \in Nat /\ B[i - 1] \in Nat
    <3>1. n \in 0 .. Len(s) /\ i - 1 \in 0 .. Len(t)
      BY <1>0
    <3> HIDE DEF A, B
    <3> QED BY <1>a, <3>1
  <2>5. EntryBytes(e[t[i]]) \in Nat
    BY EntryBytesType, ElementOfSeq
  <2> HIDE DEF A, B
  <2> QED BY <2>1, <2>2, <2>3, <2>4, <2>5
<1> HIDE DEF T
<1>3. \A i \in 0 .. Len(t) : i \in T
  BY <1>0, <1>1, <1>2, BoundedInduction
<1>4. Len(t) \in 0 .. Len(t)
  BY <1>0
<1> QED BY <1>3, <1>4 DEF T, Total

(* Total and its parts are numbers.                                        *)
LEMMA TotalType ==
  ASSUME NEW s \in Seq(Layer), NEW e \in Entries
  PROVE  Total(s, e) \in Nat
<1>1. Len(s) \in 0 .. Len(s)
  BY LenProperties
<1>2. BytesOf(s, e) \in [0 .. Len(s) -> Nat]
  BY BytesOfRec
<1> QED BY <1>1, <1>2 DEF Total

(* The total depends only on what the keys hold.                           *)
LEMMA SameTotal ==
  ASSUME NEW s \in Seq(Layer), NEW e \in Entries, NEW f \in Entries,
         \A i \in 1 .. Len(s) : EntryBytes(e[s[i]]) = EntryBytes(f[s[i]])
  PROVE  Total(s, e) = Total(s, f)
<1>1. Len(s) \in Nat /\ Len(s) <= Len(s)
  BY LenProperties
<1> QED BY <1>1, SameBytes DEF Total

(* The total of two lists of keys.                                         *)
LEMMA ConcatTotal ==
  ASSUME NEW s \in Seq(Layer), NEW t \in Seq(Layer), NEW e \in Entries
  PROVE  Total(s \o t, e) = Total(s, e) + Total(t, e)
<1> DEFINE u == s \o t
<1>1. u \in Seq(Layer) /\ Len(u) = Len(s) + Len(t) /\ Len(s) \in Nat /\ Len(t) \in Nat
  BY ConcatProperties, LenProperties
<1>2. \A i \in 1 .. Len(s) : u[i] = s[i]
  <2>1. \A i \in 1 .. Len(s) : i \in 1 .. Len(s) + Len(t) /\ i <= Len(s)
    BY <1>1
  <2> QED BY <2>1, ConcatProperties
<1>3. \A i \in 1 .. Len(t) : t[i] = u[Len(s) + i]
  <2> SUFFICES ASSUME NEW i \in 1 .. Len(t) PROVE t[i] = u[Len(s) + i]
    OBVIOUS
  <2>1. Len(s) + i \in 1 .. Len(s) + Len(t) /\ ~ (Len(s) + i <= Len(s)) /\ (Len(s) + i) - Len(s) = i
    BY <1>1
  <2> QED BY <2>1, ConcatProperties
<1> HIDE DEF u
<1>4. BytesOf(u, e)[Len(s)] = BytesOf(s, e)[Len(s)]
  <2>1. Len(s) <= Len(s) /\ Len(s) <= Len(u)
    BY <1>1
  <2> QED BY <1>1, <1>2, <2>1, SameBytes
<1>5. BytesOf(u, e)[Len(s) + Len(t)] = BytesOf(u, e)[Len(s)] + Total(t, e)
  <2>1. Len(s) + Len(t) <= Len(u)
    BY <1>1
  <2> QED BY <1>1, <1>3, <2>1, ShiftedBytes
<1> QED BY <1>1, <1>4, <1>5 DEF Total, u

(* The total of a list and one more key.                                   *)
LEMMA AppendTotal ==
  ASSUME NEW s \in Seq(Layer), NEW l \in Layer, NEW e \in Entries
  PROVE  Total(Append(s, l), e) = Total(s, e) + EntryBytes(e[l])
<1> DEFINE u == Append(s, l)
           n == Len(s)
<1>1. u \in Seq(Layer) /\ Len(u) = n + 1 /\ n \in Nat /\ u[n + 1] = l
  BY AppendProperties, LenProperties
<1>2. \A i \in 1 .. n : u[i] = s[i]
  BY AppendProperties
<1> HIDE DEF u
<1>3. BytesOf(u, e)[n] = BytesOf(s, e)[n]
  <2>1. n <= n /\ n <= Len(u)
    BY <1>1
  <2> QED BY <1>1, <1>2, <2>1, SameBytes
<1>4. BytesOf(u, e)[n + 1] = BytesOf(u, e)[n] + EntryBytes(e[l])
  <2>1. n + 1 \in 1 .. Len(u) /\ (n + 1) - 1 = n
    BY <1>1
  <2>2. BytesOf(u, e)[n + 1] = BytesOf(u, e)[(n + 1) - 1] + EntryBytes(e[u[n + 1]])
    BY <1>1, <2>1, BytesOfRec
  <2> QED BY <1>1, <2>1, <2>2
<1> QED BY <1>1, <1>3, <1>4 DEF Total, u

(* Keys that are not resolved hold nothing.                                *)
LEMMA NothingHeld ==
  ASSUME NEW s \in Seq(Layer), NEW e \in Entries,
         \A i \in 1 .. Len(s) : EntryBytes(e[s[i]]) = 0
  PROVE  Total(s, e) = 0
<1> DEFINE T == {i \in 0 .. Len(s) : BytesOf(s, e)[i] = 0}
<1>0. Len(s) \in Nat
  BY LenProperties
<1>1. 0 \in T
  BY <1>0, BytesOfRec
<1>2. ASSUME NEW i \in 1 .. Len(s), i - 1 \in T PROVE i \in T
  <2>1. BytesOf(s, e)[i] = BytesOf(s, e)[i - 1] + EntryBytes(e[s[i]]) /\ i \in 0 .. Len(s)
    BY <1>0, BytesOfRec
  <2> QED BY <2>1, <1>2
<1> HIDE DEF T
<1>3. \A i \in 0 .. Len(s) : i \in T
  BY <1>0, <1>1, <1>2, BoundedInduction
<1>4. Len(s) \in 0 .. Len(s)
  BY <1>0
<1> QED BY <1>3, <1>4 DEF T, Total

(* What the first n keys hold, and the rest.                               *)
LEMMA SplitTotal ==
  ASSUME NEW s \in Seq(Layer), NEW e \in Entries, NEW n \in 0 .. Len(s)
  PROVE  Total(s, e) = BytesOf(s, e)[n] + Total(SubSeq(s, n + 1, Len(s)), e)
<1> DEFINE t == SubSeq(s, n + 1, Len(s))
<1>0. Len(s) \in Nat /\ n \in Nat
  BY LenProperties
<1>1. t \in Seq(Layer) /\ Len(t) = Len(s) - n /\ \A i \in 1 .. Len(t) : t[i] = s[n + i]
  <2>1. n + 1 \in 1 .. Len(s) + 1 /\ Len(s) \in n .. Len(s)
    BY <1>0
  <2>2. \A i \in (n + 1) .. Len(s) : s[i] \in Layer
    BY <1>0, ElementOfSeq
  <2> QED BY <1>0, <2>1, <2>2, SubSeqProperties
<1> HIDE DEF t
<1>2. n + Len(t) = Len(s)
  BY <1>0, <1>1
<1>3. n + Len(t) <= Len(s)
  BY <1>0, <1>2
<1>4. BytesOf(s, e)[n + Len(t)] = BytesOf(s, e)[n] + Total(t, e)
  BY <1>0, <1>1, <1>3, ShiftedBytes
<1> QED BY <1>2, <1>4 DEF Total, t

-----------------------------------------------------------------------------
(* Parts of the order.                                                     *)

(* Keeping is the recursive function it is written as: its value for each  *)
(* prefix is made of that for the prefix before it.                        *)
KeepsInOrder(K, s, S) ==
  /\ K[0] = << >>
  /\ \A i \in 1 .. Len(s) : K[i] = IF s[i] \in S THEN Append(K[i - 1], s[i]) ELSE K[i - 1]
  /\ Keeping(s, S) = K[Len(s)]

LEMMA KeepingRec ==
  ASSUME NEW s \in Seq(Layer), NEW S
  PROVE  \E K \in [0 .. Len(s) -> Seq(Layer)] : KeepsInOrder(K, s, S)
<1> DEFINE n == Len(s)
           One(i, k) == IF s[i] \in S THEN Append(k, s[i]) ELSE k
           step == [p \in (0 .. n) \X Seq(Layer) |-> IF p[1] = 0 THEN p[2] ELSE One(p[1], p[2])]
           F == CHOOSE f : f = [i \in 0 .. n |-> IF i = 0 THEN << >> ELSE
                                 IF s[i] \in S THEN Append(f[i - 1], s[i]) ELSE f[i - 1]]
<1>0. n \in Nat /\ \A i \in 1 .. n : s[i] \in Layer
  BY LenProperties, ElementOfSeq
<1>1. << >> \in Seq(Layer) /\ \A i \in 1 .. n : \A k \in Seq(Layer) : One(i, k) \in Seq(Layer)
  BY <1>0, AppendProperties, EmptySeq
<1>7. Keeping(s, S) = F[n]
  BY DEF Keeping
<1> HIDE DEF n, One
<1>2. PICK f \in [0 .. n -> Seq(Layer)] : Iterates(f, n, << >>, step)
  <2>0. ASSUME NEW p \in (0 .. n) \X Seq(Layer)
        PROVE  (IF p[1] = 0 THEN p[2] ELSE One(p[1], p[2])) \in Seq(Layer)
    <3>1. p[1] \in 0 .. n /\ p[2] \in Seq(Layer)
      OBVIOUS
    <3>2. p[1] # 0 => p[1] \in 1 .. n
      BY <3>1, <1>0
    <3> QED BY <3>1, <3>2, <1>1
  <2>1. step \in [(0 .. n) \X Seq(Layer) -> Seq(Layer)]
    BY <2>0
  <2> HIDE DEF step
  <2> QED BY <1>0, <1>1, <2>1, BoundedRecursion
<1>3. ASSUME NEW i \in 1 .. n
      PROVE  f[i] = One(i, f[i - 1])
  <2>1. i \in 0 .. n /\ i # 0 /\ i - 1 \in 0 .. n
    BY <1>0
  <2>2. f[i] = step[<<i, f[i - 1]>>]
    <3> HIDE DEF step
    <3> QED BY <1>2 DEF Iterates
  <2>3. f[i - 1] \in Seq(Layer)
    BY <1>2, <2>1
  <2> QED BY <2>1, <2>2, <2>3
<1>4. f[0] = << >>
  <2> HIDE DEF step
  <2> QED BY <1>2 DEF Iterates
<1> HIDE DEF step
<1>5. f = [i \in 0 .. n |-> IF i = 0 THEN << >> ELSE
             IF s[i] \in S THEN Append(f[i - 1], s[i]) ELSE f[i - 1]]
  <2>1. \A i \in 0 .. n : i = 0 \/ i \in 1 .. n
    BY <1>0
  <2> QED BY <2>1, <1>2, <1>3, <1>4 DEF One
<1>6. F = [i \in 0 .. n |-> IF i = 0 THEN << >> ELSE
             IF s[i] \in S THEN Append(F[i - 1], s[i]) ELSE F[i - 1]]
  BY <1>5
<1> HIDE DEF F
<1>8. F[0] = << >> /\ \A i \in 1 .. n : F[i] = One(i, F[i - 1])
  <2>1. 0 \in 0 .. n /\ \A i \in 1 .. n : i \in 0 .. n /\ i # 0
    BY <1>0
  <2>2. \A i \in 0 .. n : F[i] = IF i = 0 THEN << >> ELSE One(i, F[i - 1])
    BY <1>6 DEF One
  <2> QED BY <2>1, <2>2
<1>9. \A i \in 0 .. n : F[i] \in Seq(Layer)
  <2> DEFINE T == {j \in 0 .. n : F[j] \in Seq(Layer)}
  <2>1. 0 \in T
    <3>1. F[0] \in Seq(Layer)
      BY <1>8, EmptySeq, Zenon
    <3> QED BY <1>0, <3>1
  <2>2. ASSUME NEW i \in 1 .. n, i - 1 \in T PROVE i \in T
    <3>1. F[i - 1] \in Seq(Layer) /\ i \in 0 .. n
      BY <1>0, <2>2
    <3>2. F[i] \in Seq(Layer)
      BY <3>1, <1>8, <1>1
    <3> QED BY <3>1, <3>2
  <2> HIDE DEF T
  <2>3. \A i \in 0 .. n : i \in T
    BY <1>0, <2>1, <2>2, BoundedInduction
  <2> QED BY <2>3 DEF T
<1>10. F \in [0 .. n -> Seq(Layer)]
  BY <1>6, <1>9
<1>11. KeepsInOrder(F, s, S)
  BY <1>7, <1>8 DEF KeepsInOrder, One, n
<1> QED BY <1>10, <1>11 DEF n

(* The keys of a list and one more.                                        *)
LEMMA AppendKeys ==
  ASSUME NEW s \in Seq(Layer), NEW x \in Layer
  PROVE  /\ Append(s, x) \in Seq(Layer)
         /\ \A l : Occurs(Append(s, x), l) <=> Occurs(s, l) \/ l = x
         /\ Distinct(s) /\ ~ Occurs(s, x) => Distinct(Append(s, x))
<1> DEFINE u == Append(s, x)
           n == Len(s)
<1>1. u \in Seq(Layer) /\ Len(u) = n + 1 /\ n \in Nat /\ u[n + 1] = x
  BY AppendProperties, LenProperties
<1>2. \A i \in 1 .. n : u[i] = s[i]
  BY AppendProperties
<1> HIDE DEF u
<1>3. \A i \in 1 .. n + 1 : i = n + 1 \/ i \in 1 .. n
  BY <1>1
<1>4. n + 1 \in 1 .. n + 1 /\ \A i \in 1 .. n : i \in 1 .. n + 1 /\ i # n + 1
  BY <1>1
<1>5. ASSUME NEW l PROVE Occurs(u, l) <=> Occurs(s, l) \/ l = x
  <2>1. Occurs(u, l) <=> \E i \in 1 .. n + 1 : u[i] = l
    BY <1>1 DEF Occurs
  <2> HIDE DEF n
  <2>2. Occurs(s, l) <=> \E i \in 1 .. n : s[i] = l
    BY DEF Occurs, n
  <2>3. (\E i \in 1 .. n + 1 : u[i] = l) => Occurs(s, l) \/ l = x
    BY <1>1, <1>2, <1>3, <2>2
  <2>4. Occurs(s, l) => \E i \in 1 .. n + 1 : u[i] = l
    BY <1>2, <1>4, <2>2
  <2>5. l = x => \E i \in 1 .. n + 1 : u[i] = l
    BY <1>1, <1>4
  <2> QED BY <2>1, <2>3, <2>4, <2>5
<1>6. ASSUME Distinct(s), ~ Occurs(s, x) PROVE Distinct(u)
  <2> SUFFICES ASSUME NEW i \in 1 .. n + 1, NEW j \in 1 .. n + 1, u[i] = u[j] PROVE i = j
    BY <1>1 DEF Distinct
  <2>1. \A k \in 1 .. n : u[k] # x
    BY <1>2, <1>6 DEF Occurs
  <2>2. \A k, m \in 1 .. n : u[k] = u[m] => k = m
    BY <1>2, <1>6 DEF Distinct
  <2> HIDE DEF n
  <2> QED BY <1>1, <1>3, <2>1, <2>2
<1> QED BY <1>1, <1>5, <1>6 DEF u

(* The keys of two lists.                                                  *)
LEMMA ConcatKeys ==
  ASSUME NEW s \in Seq(Layer), NEW t \in Seq(Layer)
  PROVE  /\ s \o t \in Seq(Layer)
         /\ \A l : Occurs(s \o t, l) <=> Occurs(s, l) \/ Occurs(t, l)
         /\ Distinct(s) /\ Distinct(t) /\ (\A l : ~ (Occurs(s, l) /\ Occurs(t, l))) => Distinct(s \o t)
<1> DEFINE u == s \o t
           n == Len(s)
           m == Len(t)
<1>1. u \in Seq(Layer) /\ Len(u) = n + m /\ n \in Nat /\ m \in Nat
  BY ConcatProperties, LenProperties
<1>2. \A i \in 1 .. n + m : u[i] = IF i <= n THEN s[i] ELSE t[i - n]
  BY ConcatProperties
<1>3. \A i \in 1 .. n : i \in 1 .. n + m /\ i <= n
  BY <1>1
<1>4. \A i \in 1 .. m : i + n \in 1 .. n + m /\ ~ (i + n <= n) /\ (i + n) - n = i
  BY <1>1
<1>5. \A i \in 1 .. n + m : IF i <= n THEN i \in 1 .. n ELSE i - n \in 1 .. m
  BY <1>1
<1> HIDE DEF u
<1>6. ASSUME NEW l PROVE Occurs(u, l) <=> Occurs(s, l) \/ Occurs(t, l)
  <2>1. Occurs(u, l) <=> \E i \in 1 .. n + m : u[i] = l
    BY <1>1 DEF Occurs
  <2>2. Occurs(s, l) <=> \E i \in 1 .. n : s[i] = l
    BY DEF Occurs
  <2>3. Occurs(t, l) <=> \E i \in 1 .. m : t[i] = l
    BY DEF Occurs
  <2> HIDE DEF n, m
  <2>4. Occurs(u, l) => Occurs(s, l) \/ Occurs(t, l)
    BY <2>1, <2>2, <2>3, <1>2, <1>5
  <2>5. Occurs(s, l) => Occurs(u, l)
    BY <2>1, <2>2, <1>2, <1>3
  <2>6. ASSUME Occurs(t, l) PROVE Occurs(u, l)
    <3>1. PICK i \in 1 .. m : t[i] = l
      BY <2>3, <2>6
    <3>2. u[i + n] = l /\ i + n \in 1 .. n + m
      BY <3>1, <1>2, <1>4
    <3> QED BY <2>1, <3>2
  <2> QED BY <2>4, <2>5, <2>6
<1>7. ASSUME Distinct(s), Distinct(t), \A l : ~ (Occurs(s, l) /\ Occurs(t, l)) PROVE Distinct(u)
  <2> SUFFICES ASSUME NEW i \in 1 .. n + m, NEW j \in 1 .. n + m, u[i] = u[j] PROVE i = j
    BY <1>1 DEF Distinct
  <2>1. \A k \in 1 .. n, h \in 1 .. m : s[k] # t[h]
    BY <1>7 DEF Occurs
  <2>2. \A k, h \in 1 .. n : s[k] = s[h] => k = h
    BY <1>7 DEF Distinct
  <2>3. \A k, h \in 1 .. m : t[k] = t[h] => k = h
    BY <1>7 DEF Distinct
  <2> HIDE DEF n, m
  <2>4. CASE i <= n /\ j <= n
    BY <1>2, <1>5, <2>2, <2>4
  <2>5. CASE i <= n /\ ~ (j <= n)
    BY <1>2, <1>5, <2>1, <2>5
  <2>6. CASE ~ (i <= n) /\ j <= n
    BY <1>2, <1>5, <2>1, <2>6
  <2>7. CASE ~ (i <= n) /\ ~ (j <= n)
    <3>1. i - n = j - n
      BY <1>2, <1>5, <2>3, <2>7
    <3> QED BY <3>1, <1>1
  <2> QED BY <2>4, <2>5, <2>6, <2>7
<1> QED BY <1>1, <1>6, <1>7 DEF u

(* The keys before and after a position.                                   *)
LEMMA SplitKeys ==
  ASSUME NEW s \in Seq(Layer), NEW n \in 0 .. Len(s)
  PROVE  /\ SubSeq(s, 1, n) \in Seq(Layer)
         /\ SubSeq(s, n + 1, Len(s)) \in Seq(Layer)
         /\ \A l : Occurs(SubSeq(s, 1, n), l) <=> \E i \in 1 .. n : s[i] = l
         /\ \A l : Occurs(SubSeq(s, n + 1, Len(s)), l) <=> \E i \in (n + 1) .. Len(s) : s[i] = l
         /\ Distinct(s) => Distinct(SubSeq(s, 1, n)) /\ Distinct(SubSeq(s, n + 1, Len(s)))
<1> DEFINE a == SubSeq(s, 1, n)
           m == Len(s)
           b == SubSeq(s, n + 1, m)
<1>0. m \in Nat /\ n \in Nat /\ n <= m /\ \A i \in 1 .. m : s[i] \in Layer
  BY LenProperties, ElementOfSeq
<1>1. a \in Seq(Layer) /\ Len(a) = n /\ \A i \in 1 .. n : a[i] = s[i]
  <2>1. 1 \in 1 .. m + 1 /\ n \in 0 .. m /\ \A i \in 1 .. n : i \in 1 .. m /\ (1 + i) - 1 = i
    BY <1>0
  <2>2. \A i \in 1 .. n : s[i] \in Layer
    BY <1>0, <2>1
  <2> QED BY <1>0, <2>1, <2>2, SubSeqProperties
<1>2. b \in Seq(Layer) /\ Len(b) = m - n /\ \A i \in 1 .. m - n : b[i] = s[n + i]
  <2>1. n + 1 \in 1 .. m + 1 /\ m \in n .. m
    BY <1>0
  <2>2. \A i \in (n + 1) .. m : s[i] \in Layer
    BY <1>0
  <2> QED BY <1>0, <2>1, <2>2, SubSeqProperties
<1> HIDE DEF a, b
<1>3. \A l : Occurs(a, l) <=> \E i \in 1 .. n : s[i] = l
  BY <1>1 DEF Occurs
<1>4. ASSUME NEW l PROVE Occurs(b, l) <=> \E i \in (n + 1) .. m : s[i] = l
  <2>1. Occurs(b, l) <=> \E i \in 1 .. m - n : s[n + i] = l
    BY <1>2 DEF Occurs
  <2> HIDE DEF m
  <2>2. \A i \in 1 .. m - n : n + i \in (n + 1) .. m
    BY <1>0
  <2>3. \A i \in (n + 1) .. m : i - n \in 1 .. m - n /\ n + (i - n) = i
    BY <1>0
  <2> QED BY <2>1, <2>2, <2>3
<1>5. ASSUME Distinct(s) PROVE Distinct(a) /\ Distinct(b)
  <2>0. \A i, j \in 1 .. m : s[i] = s[j] => i = j
    BY <1>5 DEF Distinct
  <2> HIDE DEF m
  <2>1. Distinct(a)
    <3>1. \A i \in 1 .. n : i \in 1 .. m
      BY <1>0
    <3> QED BY <1>1, <2>0, <3>1 DEF Distinct
  <2>2. Distinct(b)
    <3> SUFFICES ASSUME NEW i \in 1 .. m - n, NEW j \in 1 .. m - n, b[i] = b[j] PROVE i = j
      BY <1>2 DEF Distinct
    <3>1. n + i \in 1 .. m /\ n + j \in 1 .. m /\ i \in Int /\ j \in Int
      BY <1>0
    <3>2. n + i = n + j
      BY <1>2, <2>0, <3>1
    <3> QED BY <1>0, <3>1, <3>2
  <2> QED BY <2>1, <2>2
<1> QED BY <1>1, <1>2, <1>3, <1>4, <1>5 DEF a, b

(* Keeping a set of the keys.                                              *)
LEMMA KeepingKeys ==
  ASSUME NEW s \in Seq(Layer), NEW S
  PROVE  /\ Keeping(s, S) \in Seq(Layer)
         /\ \A l : Occurs(Keeping(s, S), l) <=> l \in S /\ Occurs(s, l)
         /\ Distinct(s) => Distinct(Keeping(s, S))
<1> DEFINE n == Len(s)
<1>0. n \in Nat /\ \A i \in 1 .. n : s[i] \in Layer
  BY LenProperties, ElementOfSeq
<1>1. PICK K \in [0 .. n -> Seq(Layer)] : KeepsInOrder(K, s, S)
  BY KeepingRec
<1> DEFINE Has(i) == \A l : Occurs(K[i], l) <=> l \in S /\ \E j \in 1 .. i : s[j] = l
           T == {i \in 0 .. n : Has(i) /\ (Distinct(s) => Distinct(K[i]))}
<1>2. 0 \in T
  <2>1. K[0] = << >>
    BY <1>1 DEF KeepsInOrder
  <2>2. Len(<< >>) = 0 /\ \A i \in 1 .. 0 : FALSE
    OBVIOUS
  <2>3. \A l : ~ Occurs(K[0], l)
    BY <2>1, <2>2 DEF Occurs
  <2>4. Distinct(K[0])
    BY <2>1, <2>2 DEF Distinct
  <2> QED BY <1>0, <2>2, <2>3, <2>4
<1>3. ASSUME NEW i \in 1 .. n, i - 1 \in T PROVE i \in T
  <2>0. i \in 0 .. n /\ i - 1 \in 0 .. n /\ K[i - 1] \in Seq(Layer) /\ s[i] \in Layer
    BY <1>0, <1>1
  <2>1. K[i] = IF s[i] \in S THEN Append(K[i - 1], s[i]) ELSE K[i - 1]
    BY <1>1 DEF KeepsInOrder
  <2>2. Has(i - 1) /\ (Distinct(s) => Distinct(K[i - 1]))
    BY <1>3
  <2>3. \A j \in 1 .. i : j = i \/ j \in 1 .. i - 1
    BY <1>0
  <2>4. i \in 1 .. i /\ \A j \in 1 .. i - 1 : j \in 1 .. i /\ j \in 1 .. n /\ j # i
    BY <1>0
  <2>5. CASE s[i] \in S
    <3>1. \A l : Occurs(K[i], l) <=> Occurs(K[i - 1], l) \/ l = s[i]
      BY <2>0, <2>1, <2>5, AppendKeys
    <3>2. Has(i)
      BY <3>1, <2>2, <2>3, <2>4, <2>5
    <3>3. ASSUME Distinct(s) PROVE Distinct(K[i])
      <4>1. \A j \in 1 .. i - 1 : s[j] # s[i]
        BY <2>4, <3>3 DEF Distinct
      <4>2. ~ Occurs(K[i - 1], s[i])
        BY <2>2, <4>1
      <4> QED BY <2>0, <2>1, <2>2, <2>5, <3>3, <4>2, AppendKeys
    <3> QED BY <2>0, <3>2, <3>3
  <2>6. CASE s[i] \notin S
    <3>1. Has(i)
      BY <2>1, <2>2, <2>3, <2>4, <2>6
    <3> QED BY <2>0, <2>1, <2>2, <2>6, <3>1
  <2> QED BY <2>5, <2>6
<1> HIDE DEF T
<1>4. \A i \in 0 .. n : i \in T
  BY <1>0, <1>2, <1>3, BoundedInduction
<1>5. n \in 0 .. n
  BY <1>0
<1>6. Has(n) /\ (Distinct(s) => Distinct(K[n])) /\ K[n] \in Seq(Layer)
  BY <1>1, <1>4, <1>5 DEF T
<1>7. Keeping(s, S) = K[n]
  BY <1>1 DEF KeepsInOrder
<1> QED BY <1>6, <1>7 DEF Occurs

(* A key that is taken out takes what it holds with it.                    *)
LEMMA WithoutTotal ==
  ASSUME NEW s \in Seq(Layer), Distinct(s), NEW e \in Entries, NEW l \in Layer
  PROVE  Total(s, e) = Total(Without(s, l), e) + (IF Occurs(s, l) THEN EntryBytes(e[l]) ELSE 0)
<1> DEFINE n == Len(s)
           S == Layer \ {l}
<1>0. n \in Nat /\ \A i \in 1 .. n : s[i] \in Layer
  BY LenProperties, ElementOfSeq
<1>1. PICK K \in [0 .. n -> Seq(Layer)] : KeepsInOrder(K, s, S)
  BY KeepingRec
<1> DEFINE Out(i) == IF \E j \in 1 .. i : s[j] = l THEN EntryBytes(e[l]) ELSE 0
           T == {i \in 0 .. n : BytesOf(s, e)[i] = Total(K[i], e) + Out(i)}
<1>2. 0 \in T
  <2>1. K[0] = << >> /\ << >> \in Seq(Layer)
    BY <1>1, EmptySeq DEF KeepsInOrder
  <2>2. BytesOf(<< >>, e)[0] = 0 /\ Len(<< >>) = 0
    BY <2>1, BytesOfRec, EmptySeq
  <2>3. Total(K[0], e) = 0
    BY <2>1, <2>2 DEF Total
  <2>4. Out(0) = 0
    OBVIOUS
  <2>5. BytesOf(s, e)[0] = 0
    BY BytesOfRec
  <2> QED BY <1>0, <2>3, <2>4, <2>5
<1>3. ASSUME NEW i \in 1 .. n, i - 1 \in T PROVE i \in T
  <2>0. i \in 0 .. n /\ i - 1 \in 0 .. n /\ K[i - 1] \in Seq(Layer) /\ s[i] \in Layer
    BY <1>0, <1>1
  <2>1. K[i] = IF s[i] # l THEN Append(K[i - 1], s[i]) ELSE K[i - 1]
    BY <1>1, <2>0 DEF KeepsInOrder
  <2>2. BytesOf(s, e)[i] = BytesOf(s, e)[i - 1] + EntryBytes(e[s[i]])
    BY BytesOfRec
  <2>3. BytesOf(s, e)[i - 1] = Total(K[i - 1], e) + Out(i - 1)
    BY <1>3
  <2>4. \A j \in 1 .. i : j = i \/ j \in 1 .. i - 1
    BY <1>0
  <2>5. i \in 1 .. i /\ \A j \in 1 .. i - 1 : j \in 1 .. i /\ j \in 1 .. n /\ j # i
    BY <1>0
  <2>6. Total(K[i - 1], e) \in Nat /\ EntryBytes(e[l]) \in Nat /\ EntryBytes(e[s[i]]) \in Nat
    BY <2>0, TotalType, EntryBytesType
  <2>7. CASE s[i] = l
    <3>1. \A j \in 1 .. i - 1 : s[j] # l
      BY <2>5, <2>7 DEF Distinct
    <3>2. Out(i - 1) = 0 /\ Out(i) = EntryBytes(e[l])
      BY <3>1, <2>5, <2>7
    <3>3. Total(K[i], e) = Total(K[i - 1], e)
      BY <2>1, <2>7
    <3> HIDE DEF Out
    <3> QED BY <2>0, <2>2, <2>3, <2>6, <2>7, <3>2, <3>3
  <2>8. CASE s[i] # l
    <3>1. Out(i) = Out(i - 1) /\ Out(i) \in Nat
      BY <2>4, <2>5, <2>6, <2>8
    <3>2. Total(K[i], e) = Total(K[i - 1], e) + EntryBytes(e[s[i]])
      BY <2>0, <2>1, <2>8, AppendTotal
    <3> HIDE DEF Out
    <3> QED BY <2>0, <2>2, <2>3, <2>6, <3>1, <3>2
  <2> QED BY <2>7, <2>8
<1> HIDE DEF T
<1>4. \A i \in 0 .. n : i \in T
  BY <1>0, <1>2, <1>3, BoundedInduction
<1>5. n \in 0 .. n
  BY <1>0
<1>6. BytesOf(s, e)[n] = Total(K[n], e) + Out(n)
  BY <1>4, <1>5 DEF T
<1>7. Without(s, l) = K[n]
  BY <1>1 DEF KeepsInOrder, Without
<1> QED BY <1>6, <1>7 DEF Total, Occurs

-----------------------------------------------------------------------------
(* The inductive invariant.                                                *)

(* The keys of the order are the layers that have an entry, each once.     *)
KeysOk(s, e) ==
  /\ \A l \in Layer : e[l] # NoEntry <=> Occurs(s, l)
  /\ Distinct(s)

(* The order, the entries and the counter fit one another and the limit.   *)
Sound(s, e, c) ==
  /\ s \in Seq(Layer) /\ e \in Entries
  /\ KeysOk(s, e)
  /\ c = Total(s, e) /\ c <= Limit

(* What a resolver found is in its barrier, and is all of the file unless  *)
(* its lookup was early.                                                   *)
Fetched ==
  \A t \in Task : pc[t] = "install" =>
    /\ lookup[t] \in Nat \cup {Missing}
    /\ layer[t] \in early \/ lookup[t] = Size[layer[t]]
    /\ barrier[layer[t]] # NoAnswer

(* What is cached, or is found in the barrier of a Resolving entry, is all *)
(* of the file unless it comes from an early lookup.                       *)
Whole ==
  \A l \in Layer \ early :
    /\ IsResolved(l) => entry[l] = Size[l]
    /\ entry[l] = Resolving /\ barrier[l] # NoAnswer => barrier[l] = Size[l]

(* Until a call is dropped, every reader that is woken has an answer.      *)
Answered ==
  cancels = 0 => \A t \in Task : pc[t] # "panicked" /\ (pc[t] = "woken" => lookup[t] # NoAnswer)

(* A file that is being written is on disk, and is whole once written.     *)
Writing ==
  /\ \A t \in Task : pc[t] = "write" => origin[layer[t]] \in Nat
  /\ \A t \in Task : pc[t] = "put" => origin[layer[t]] = Size[layer[t]]
  /\ \A l \in stored : origin[l] = Size[l]

(* The types of what is not in the cache.                                  *)
Typed ==
  /\ origin \in [Layer -> Nat \cup {Missing}]
  /\ stored \subseteq Layer /\ early \subseteq Layer
  /\ pc \in [Task -> {"idle", "fetch", "install", "wait", "woken",
                      "write", "put", "panicked"}]
  /\ layer \in [Task -> Layer]
  /\ lookup \in [Task -> Lookup]
  /\ barrier \in [Layer -> Lookup]
  /\ ops \in 0 .. MaxOps
  /\ cancels \in 0 .. MaxCancels

IInv ==
  /\ Typed
  /\ Sound(order, entry, current)
  /\ ResolvingHasResolver
  /\ Fetched
  /\ Whole
  /\ Answered
  /\ Writing

-----------------------------------------------------------------------------
(* What the sections of code that hold the mutex do to the cache.          *)

(* The eviction loop stops at a key, having freed what was required.       *)
LEMMA PassesWithin ==
  ASSUME order \in Seq(Layer), entry \in Entries, NEW required \in Nat, CanFree(required)
  PROVE  Passes(required) \in 0 .. Len(order) /\ FreedBy(Passes(required)) >= required
<1> DEFINE n == Len(order)
           A == BytesOf(order, entry)
<1>0. n \in Nat /\ A \in [0 .. n -> Nat] /\ A[0] = 0
  BY LenProperties, BytesOfRec
<1>1. \A i : FreedBy(i) = A[i]
  BY DEF FreedBy
<1>2. A[n] >= required
  BY DEF CanFree, FreedBy
<1> HIDE DEF A
<1>3. CASE required = 0
  BY <1>0, <1>1, <1>3 DEF Passes
<1>4. CASE required # 0
  <2> DEFINE T == {i \in 0 .. n : A[i] >= required}
             Stop(i) == A[i] >= required /\ A[i - 1] < required
  <2>1. T \subseteq Nat /\ n \in T
    BY <1>0, <1>2
  <2>2. PICK x \in T : \A y \in T : x =< y
    <3> HIDE DEF T
    <3> QED BY <2>1, LeastElement
  <2>3. x \in 0 .. n /\ x # 0 /\ A[x] >= required
    BY <1>0, <1>4, <2>2
  <2>4. x \in 1 .. n /\ x - 1 \in 0 .. n /\ ~ (x =< x - 1)
    BY <1>0, <2>3
  <2>5. A[x - 1] < required
    <3>1. x - 1 \notin T
      BY <2>2, <2>4
    <3>2. A[x - 1] \in Nat
      BY <1>0, <2>4
    <3> QED BY <2>4, <3>1, <3>2
  <2>6. \E i \in 1 .. n : Stop(i)
    BY <2>3, <2>4, <2>5
  <2>7. Passes(required) = CHOOSE i \in 1 .. n : Stop(i)
    BY <1>1, <1>4 DEF Passes
  <2> HIDE DEF Stop
  <2>8. Passes(required) \in 1 .. n /\ Stop(Passes(required))
    BY <2>6, <2>7
  <2> QED BY <1>0, <1>1, <2>8 DEF Stop
<1> QED BY <1>3, <1>4

(* Only resolved entries are popped.                                       *)
LEMMA EntryAfterKeeps ==
  ASSUME entry \in Entries, NEW n
  PROVE  /\ EntryAfter(n) \in Entries
         /\ \A l \in Layer : \/ EntryAfter(n)[l] = entry[l] /\ l \notin Popped(n)
                             \/ entry[l] \in Nat /\ EntryAfter(n)[l] = NoEntry /\ l \in Popped(n)
<1>1. \A l \in Popped(n) : entry[l] \in Nat
  BY DEF Popped, IsResolved
<1>2. \A l \in Layer : EntryAfter(n)[l] = IF l \in Popped(n) THEN NoEntry ELSE entry[l]
  BY DEF EntryAfter
<1>3. EntryAfter(n) \in Entries
  BY DEF EntryAfter, Entries
<1> QED BY <1>1, <1>2, <1>3

(* Popping the first n keys leaves keys and entries that fit one another,  *)
(* and takes off exactly the bytes they held.                              *)
LEMMA Evicted ==
  ASSUME order \in Seq(Layer), entry \in Entries, KeysOk(order, entry), NEW n \in 0 .. Len(order)
  PROVE  /\ OrderAfter(n) \in Seq(Layer)
         /\ KeysOk(OrderAfter(n), EntryAfter(n))
         /\ FreedBy(n) \in Nat
         /\ Total(order, entry) = FreedBy(n) + Total(OrderAfter(n), EntryAfter(n))
<1> DEFINE a == SubSeq(order, 1, n)
           b == SubSeq(order, n + 1, Len(order))
           U == {l \in Layer : ~ IsResolved(l)}
           k == Keeping(a, U)
           e == EntryAfter(n)
<1>0. Len(order) \in Nat /\ n \in Nat /\ n <= Len(order) /\ \A i \in 1 .. Len(order) : order[i] \in Layer
  BY LenProperties, ElementOfSeq
<1>1. a \in Seq(Layer) /\ b \in Seq(Layer) /\ Distinct(a) /\ Distinct(b)
  BY SplitKeys DEF KeysOk
<1>2. \A l : Occurs(a, l) <=> \E i \in 1 .. n : order[i] = l
  BY SplitKeys
<1>3. \A l : Occurs(b, l) <=> \E i \in (n + 1) .. Len(order) : order[i] = l
  BY SplitKeys
<1>4. k \in Seq(Layer) /\ Distinct(k) /\ \A l : Occurs(k, l) <=> l \in U /\ Occurs(a, l)
  BY <1>1, KeepingKeys
<1>5. OrderAfter(n) = b \o k
  BY DEF OrderAfter
<1>6. /\ e \in Entries
      /\ \A l \in Layer : \/ e[l] = entry[l] /\ l \notin Popped(n)
                          \/ entry[l] \in Nat /\ e[l] = NoEntry /\ l \in Popped(n)
  BY EntryAfterKeeps
<1>7. \A l : ~ (Occurs(a, l) /\ Occurs(b, l))
  <2> SUFFICES ASSUME NEW i \in 1 .. n, NEW j \in (n + 1) .. Len(order), order[i] = order[j]
               PROVE  FALSE
    BY <1>2, <1>3
  <2>1. i \in 1 .. Len(order) /\ j \in 1 .. Len(order) /\ i # j
    BY <1>0
  <2> QED BY <2>1 DEF KeysOk, Distinct
<1>8. \A l : Occurs(order, l) <=> Occurs(a, l) \/ Occurs(b, l)
  <2>1. \A i \in 1 .. Len(order) : i \in 1 .. n \/ i \in (n + 1) .. Len(order)
    BY <1>0
  <2>2. \A i \in 1 .. n : i \in 1 .. Len(order)
    BY <1>0
  <2>3. \A i \in (n + 1) .. Len(order) : i \in 1 .. Len(order)
    BY <1>0
  <2> QED BY <1>2, <1>3, <2>1, <2>2, <2>3 DEF Occurs
<1>9. \A l \in Layer : l \in Popped(n) <=> Occurs(a, l) /\ l \notin U
  BY <1>2 DEF Popped
<1> HIDE DEF a, b, k, e
<1>10. OrderAfter(n) \in Seq(Layer) /\ KeysOk(OrderAfter(n), e)
  <2>1. b \o k \in Seq(Layer) /\ \A l : Occurs(b \o k, l) <=> Occurs(b, l) \/ Occurs(k, l)
    BY <1>1, <1>4, ConcatKeys
  <2>2. Distinct(b \o k)
    BY <1>1, <1>4, <1>7, ConcatKeys
  <2>3. ASSUME NEW l \in Layer PROVE e[l] # NoEntry <=> Occurs(b \o k, l)
    <3>1. entry[l] # NoEntry <=> Occurs(order, l)
      BY DEF KeysOk
    <3>2. CASE l \in Popped(n)
      <4>1. e[l] = NoEntry
        BY <1>6, <3>2
      <4>2. Occurs(a, l) /\ l \notin U
        BY <1>9, <3>2
      <4> QED BY <4>1, <4>2, <2>1, <1>4, <1>7
    <3>3. CASE l \notin Popped(n)
      <4>1. e[l] = entry[l] /\ (Occurs(a, l) => l \in U)
        BY <1>6, <1>9, <3>3
      <4> QED BY <4>1, <3>1, <1>4, <1>8, <2>1
    <3> QED BY <3>2, <3>3
  <2> QED BY <1>5, <2>1, <2>2, <2>3 DEF KeysOk
<1>11. FreedBy(n) \in Nat
  <2>1. BytesOf(order, entry) \in [0 .. Len(order) -> Nat]
    BY BytesOfRec
  <2> QED BY <2>1 DEF FreedBy
<1>12. Total(order, entry) = FreedBy(n) + Total(b, entry)
  BY SplitTotal DEF FreedBy, b
<1>13. Total(b, entry) = Total(b, e)
  <2>1. ASSUME NEW i \in 1 .. Len(b) PROVE EntryBytes(entry[b[i]]) = EntryBytes(e[b[i]])
    <3>1. b[i] \in Layer /\ Occurs(b, b[i])
      BY <1>1, ElementOfSeq DEF Occurs
    <3>2. b[i] \notin Popped(n)
      BY <3>1, <1>7, <1>9
    <3> QED BY <3>1, <3>2, <1>6
  <2> QED BY <1>1, <1>6, <2>1, SameTotal
<1>14. Total(k, e) = 0
  <2>1. ASSUME NEW i \in 1 .. Len(k) PROVE EntryBytes(e[k[i]]) = 0
    <3>1. k[i] \in Layer /\ Occurs(k, k[i])
      BY <1>4, ElementOfSeq DEF Occurs
    <3>2. k[i] \in U /\ entry[k[i]] \notin Nat
      BY <3>1, <1>4 DEF IsResolved
    <3>3. e[k[i]] \notin Nat
      BY <3>1, <3>2, <1>6, SentinelAssumption
    <3> QED BY <3>3 DEF EntryBytes
  <2> QED BY <1>4, <1>6, <2>1, NothingHeld
<1>15. Total(b \o k, e) = Total(b, e) + Total(k, e)
  BY <1>1, <1>4, <1>6, ConcatTotal
<1>16. Total(b, e) \in Nat
  BY <1>1, <1>6, TotalType
<1>17. Total(order, entry) = FreedBy(n) + Total(OrderAfter(n), e)
  BY <1>5, <1>12, <1>13, <1>14, <1>15, <1>16
<1> QED BY <1>10, <1>11, <1>17 DEF e

(* Taking a key out, its entry with it.                                    *)
LEMMA TakenOut ==
  ASSUME NEW s \in Seq(Layer), NEW e \in Entries, KeysOk(s, e), NEW l \in Layer
  PROVE  /\ Without(s, l) \in Seq(Layer) /\ Distinct(Without(s, l))
         /\ \A x \in Layer : Occurs(Without(s, l), x) <=> Occurs(s, x) /\ x # l
         /\ \A f \in Entries :
              (\A x \in Layer : x # l => f[x] = e[x])
                => Total(s, e) = Total(Without(s, l), f) + EntryBytes(e[l])
<1> DEFINE w == Without(s, l)
<1>1. w \in Seq(Layer) /\ Distinct(w) /\ \A x : Occurs(w, x) <=> x \in Layer \ {l} /\ Occurs(s, x)
  BY KeepingKeys DEF Without, KeysOk
<1>2. Total(s, e) = Total(w, e) + (IF Occurs(s, l) THEN EntryBytes(e[l]) ELSE 0)
  BY WithoutTotal DEF KeysOk
<1>3. ~ Occurs(s, l) => EntryBytes(e[l]) = 0
  BY SentinelAssumption DEF KeysOk, EntryBytes
<1> HIDE DEF w
<1>4. Total(s, e) = Total(w, e) + EntryBytes(e[l])
  BY <1>2, <1>3
<1>5. ASSUME NEW f \in Entries, \A x \in Layer : x # l => f[x] = e[x]
      PROVE  Total(w, e) = Total(w, f)
  <2>1. \A i \in 1 .. Len(w) : w[i] \in Layer /\ Occurs(w, w[i])
    BY <1>1, ElementOfSeq DEF Occurs
  <2>2. \A i \in 1 .. Len(w) : EntryBytes(e[w[i]]) = EntryBytes(f[w[i]])
    BY <2>1, <1>1, <1>5
  <2> QED BY <1>1, <1>5, <2>2, SameTotal
<1> QED BY <1>1, <1>4, <1>5 DEF w

(* Making a key the newest, with some value for its entry.                 *)
LEMMA Promoted ==
  ASSUME NEW s \in Seq(Layer), NEW e \in Entries, KeysOk(s, e), NEW l \in Layer,
         NEW v \in Nat \cup {Resolving}
  PROVE  /\ Promote(s, l) \in Seq(Layer)
         /\ [e EXCEPT ![l] = v] \in Entries
         /\ KeysOk(Promote(s, l), [e EXCEPT ![l] = v])
         /\ Total(Promote(s, l), [e EXCEPT ![l] = v]) + EntryBytes(e[l]) = Total(s, e) + EntryBytes(v)
<1> DEFINE w == Without(s, l)
           f == [e EXCEPT ![l] = v]
<1>1. f \in Entries /\ f[l] = v /\ \A x \in Layer : x # l => f[x] = e[x]
  BY DEF Entries
<1>2. /\ w \in Seq(Layer) /\ Distinct(w)
      /\ \A x \in Layer : Occurs(w, x) <=> Occurs(s, x) /\ x # l
      /\ Total(s, e) = Total(w, f) + EntryBytes(e[l])
  <2> HIDE DEF f
  <2> QED BY <1>1, TakenOut
<1> HIDE DEF f, w
<1>3. /\ Append(w, l) \in Seq(Layer) /\ Distinct(Append(w, l))
      /\ \A x \in Layer : Occurs(Append(w, l), x) <=> Occurs(w, x) \/ x = l
  BY <1>2, AppendKeys
<1>4. \A x \in Layer : f[x] # NoEntry <=> Occurs(Append(w, l), x)
  <2>1. v # NoEntry
    BY SentinelAssumption
  <2> QED BY <1>1, <1>2, <1>3, <2>1 DEF KeysOk
<1>5. Total(Append(w, l), f) = Total(w, f) + EntryBytes(v)
  BY <1>1, <1>2, AppendTotal
<1>6. Promote(s, l) = Append(w, l)
  BY DEF Promote, w
<1>7. Total(w, f) \in Nat /\ EntryBytes(v) \in Nat /\ EntryBytes(e[l]) \in Nat
  BY <1>1, <1>2, TotalType, EntryBytesType
<1>8. Total(Append(w, l), f) + EntryBytes(e[l]) = Total(s, e) + EntryBytes(v)
  BY <1>2, <1>5, <1>7
<1> QED BY <1>1, <1>3, <1>4, <1>6, <1>8 DEF KeysOk, f

(* The counter is a number, and counts what the order holds.               *)
LEMMA SoundCounter ==
  ASSUME Sound(order, entry, current)
  PROVE  current \in Nat /\ current = FreedBy(Len(order))
BY TotalType DEF Sound, FreedBy, Total

(* Making room for bytes that fit asks for no more than is in use.         *)
LEMMA RequiredProperties ==
  ASSUME Sound(order, entry, current), NEW bytes \in Nat, bytes <= Limit
  PROVE  /\ Required(bytes) \in Nat
         /\ current + bytes - Required(bytes) <= Limit
         /\ Required(bytes) <= current
<1>1. current \in Nat /\ current <= Limit /\ Limit \in Nat
  BY SoundCounter, LimitAssumption DEF Sound
<1> QED BY <1>1 DEF Required

(* What may be asked of the eviction loop it can free.                     *)
LEMMA EnoughToFree ==
  ASSUME Sound(order, entry, current), NEW required \in Nat, required <= current
  PROVE  CanFree(required)
BY SoundCounter DEF CanFree

(* Room is made and the layer becomes a resolved entry.                    *)
LEMMA AdmitCache ==
  ASSUME Sound(order, entry, current), NEW l \in Layer, entry[l] \notin Nat,
         NEW bytes \in Nat, bytes <= Limit, CanFree(Required(bytes)), Admit(l, bytes)
  PROVE  /\ Sound(order', entry', current')
         /\ entry'[l] = bytes
         /\ \A x \in Layer \ {l} :
              entry'[x] = entry[x] \/ (entry[x] \in Nat /\ entry'[x] = NoEntry)
<1> DEFINE n == Passes(Required(bytes))
           s == OrderAfter(n)
           e == EntryAfter(n)
<1>0. order \in Seq(Layer) /\ entry \in Entries /\ KeysOk(order, entry) /\ current = Total(order, entry)
  BY DEF Sound
<1>1. Required(bytes) \in Nat /\ current + bytes - Required(bytes) <= Limit /\ current \in Nat
  BY RequiredProperties, SoundCounter
<1>2. n \in 0 .. Len(order) /\ FreedBy(n) >= Required(bytes)
  BY <1>0, <1>1, PassesWithin
<1>3. entry' = [e EXCEPT ![l] = bytes] /\ order' = Promote(s, l) /\ current' = current - FreedBy(n) + bytes
  BY DEF Admit
<1> HIDE DEF n
<1>4. /\ s \in Seq(Layer) /\ KeysOk(s, e) /\ FreedBy(n) \in Nat
      /\ Total(order, entry) = FreedBy(n) + Total(s, e)
  BY <1>0, <1>2, Evicted
<1>5. e \in Entries /\ \A x \in Layer : e[x] = entry[x] \/ (entry[x] \in Nat /\ e[x] = NoEntry)
  BY <1>0, EntryAfterKeeps
<1> HIDE DEF s, e
<1>6. /\ order' \in Seq(Layer) /\ entry' \in Entries /\ KeysOk(order', entry')
      /\ Total(order', entry') + EntryBytes(e[l]) = Total(s, e) + EntryBytes(bytes)
  <2>1. bytes \in Nat \cup {Resolving}
    OBVIOUS
  <2>2. /\ Promote(s, l) \in Seq(Layer) /\ [e EXCEPT ![l] = bytes] \in Entries
        /\ KeysOk(Promote(s, l), [e EXCEPT ![l] = bytes])
        /\ Total(Promote(s, l), [e EXCEPT ![l] = bytes]) + EntryBytes(e[l])
             = Total(s, e) + EntryBytes(bytes)
    BY <1>4, <1>5, <2>1, Promoted
  <2> QED BY <1>3, <2>2
<1>7. EntryBytes(e[l]) = 0 /\ EntryBytes(bytes) = bytes
  BY <1>5, SentinelAssumption DEF EntryBytes
<1>8. Total(s, e) \in Nat /\ Total(order', entry') \in Nat
  BY <1>4, <1>5, <1>6, TotalType
<1>9. current' = Total(order', entry') /\ current' <= Limit
  <2>1. Total(order', entry') = Total(s, e) + bytes
    BY <1>6, <1>7, <1>8
  <2>2. current' = Total(s, e) + bytes
    BY <1>0, <1>1, <1>3, <1>4, <1>8
  <2>3. current' <= Limit
    BY <1>1, <1>2, <1>3, <1>4, LimitAssumption
  <2> QED BY <2>1, <2>2, <2>3
<1>10. entry'[l] = bytes /\ \A x \in Layer \ {l} : entry'[x] = e[x]
  BY <1>3, <1>5 DEF Entries
<1> QED BY <1>5, <1>6, <1>9, <1>10 DEF Sound

(* Entries are popped and nothing is put in.                               *)
LEMMA EvictCache ==
  ASSUME Sound(order, entry, current), NEW required \in Nat, required <= current,
         entry' = EntryAfter(Passes(required)), order' = OrderAfter(Passes(required)),
         current' = current - FreedBy(Passes(required))
  PROVE  /\ Sound(order', entry', current')
         /\ \A x \in Layer : entry'[x] = entry[x] \/ (entry[x] \in Nat /\ entry'[x] = NoEntry)
<1> DEFINE n == Passes(required)
<1>0. order \in Seq(Layer) /\ entry \in Entries /\ KeysOk(order, entry) /\ current = Total(order, entry)
  BY DEF Sound
<1>1. current \in Nat /\ current <= Limit
  BY SoundCounter DEF Sound
<1>2. n \in 0 .. Len(order)
  BY <1>0, EnoughToFree, PassesWithin
<1>3. entry' = EntryAfter(n) /\ order' = OrderAfter(n) /\ current' = current - FreedBy(n)
  OBVIOUS
<1> HIDE DEF n
<1>4. /\ order' \in Seq(Layer) /\ KeysOk(order', entry') /\ FreedBy(n) \in Nat
      /\ Total(order, entry) = FreedBy(n) + Total(order', entry')
  BY <1>0, <1>2, <1>3, Evicted
<1>5. /\ entry' \in Entries
      /\ \A x \in Layer : entry'[x] = entry[x] \/ (entry[x] \in Nat /\ entry'[x] = NoEntry)
  BY <1>0, <1>3, EntryAfterKeeps
<1>6. Total(order', entry') \in Nat
  BY <1>4, <1>5, TotalType
<1>7. current' = Total(order', entry') /\ current' <= Limit
  BY <1>0, <1>1, <1>3, <1>4, <1>6, LimitAssumption
<1> QED BY <1>4, <1>5, <1>7 DEF Sound

(* A Resolving entry is dropped.                                           *)
LEMMA DropCache ==
  ASSUME Sound(order, entry, current), NEW l \in Layer, entry[l] = Resolving, DropFromCache(l)
  PROVE  /\ Sound(order', entry', current')
         /\ entry'[l] = NoEntry
         /\ \A x \in Layer \ {l} : entry'[x] = entry[x]
<1>0. order \in Seq(Layer) /\ entry \in Entries /\ KeysOk(order, entry) /\ current = Total(order, entry)
  BY DEF Sound
<1>1. entry' = [entry EXCEPT ![l] = NoEntry] /\ order' = Without(order, l) /\ current' = current
  BY DEF DropFromCache
<1>2. entry' \in Entries /\ entry'[l] = NoEntry /\ \A x \in Layer : x # l => entry'[x] = entry[x]
  BY <1>0, <1>1 DEF Entries
<1>3. /\ order' \in Seq(Layer) /\ Distinct(order')
      /\ \A x \in Layer : Occurs(order', x) <=> Occurs(order, x) /\ x # l
      /\ Total(order, entry) = Total(order', entry') + EntryBytes(entry[l])
  <2> DEFINE f == entry'
             w == Without(order, l)
  <2>1. f \in Entries /\ (\A x \in Layer : x # l => f[x] = entry[x]) /\ order' = w
    BY <1>1, <1>2
  <2>2. /\ w \in Seq(Layer) /\ Distinct(w)
        /\ \A x \in Layer : Occurs(w, x) <=> Occurs(order, x) /\ x # l
    BY <1>0, TakenOut
  <2>3. Total(order, entry) = Total(w, f) + EntryBytes(entry[l])
    <3> HIDE DEF f
    <3> QED BY <1>0, <2>1, TakenOut
  <2> HIDE DEF w
  <2> QED BY <2>1, <2>2, <2>3
<1>4. EntryBytes(entry[l]) = 0 /\ Total(order', entry') \in Nat
  BY <1>2, <1>3, TotalType, SentinelAssumption DEF EntryBytes
<1>5. KeysOk(order', entry')
  BY <1>0, <1>2, <1>3 DEF KeysOk
<1>6. current' = Total(order', entry') /\ current' <= Limit
  BY <1>0, <1>1, <1>3, <1>4 DEF Sound
<1> QED BY <1>2, <1>3, <1>5, <1>6 DEF Sound

(* An entry that is there is promoted.                                     *)
LEMMA PromoteCache ==
  ASSUME Sound(order, entry, current), NEW l \in Layer, entry[l] # NoEntry,
         order' = Promote(order, l), entry' = entry, current' = current
  PROVE  Sound(order', entry', current')
<1>0. order \in Seq(Layer) /\ entry \in Entries /\ KeysOk(order, entry) /\ current = Total(order, entry)
  BY DEF Sound
<1>1. entry[l] \in Nat \cup {Resolving} /\ entry = [entry EXCEPT ![l] = entry[l]]
  BY <1>0 DEF Entries
<1>2. /\ Promote(order, l) \in Seq(Layer)
      /\ KeysOk(Promote(order, l), [entry EXCEPT ![l] = entry[l]])
      /\ Total(Promote(order, l), [entry EXCEPT ![l] = entry[l]]) + EntryBytes(entry[l])
           = Total(order, entry) + EntryBytes(entry[l])
  BY <1>0, <1>1, Promoted
<1>3. order' \in Seq(Layer) /\ KeysOk(order', entry)
      /\ Total(order', entry) + EntryBytes(entry[l]) = Total(order, entry) + EntryBytes(entry[l])
  BY <1>1, <1>2
<1>4. Total(order', entry) \in Nat /\ Total(order, entry) \in Nat /\ EntryBytes(entry[l]) \in Nat
  BY <1>0, <1>3, TotalType, EntryBytesType
<1>5. Total(order', entry) = Total(order, entry)
  BY <1>3, <1>4
<1> QED BY <1>0, <1>3, <1>5 DEF Sound

(* A Resolving entry is put in for a layer that has none.                  *)
LEMMA InsertCache ==
  ASSUME Sound(order, entry, current), NEW l \in Layer, entry[l] = NoEntry,
         order' = Append(order, l), entry' = [entry EXCEPT ![l] = Resolving], current' = current
  PROVE  /\ Sound(order', entry', current')
         /\ entry'[l] = Resolving
         /\ \A x \in Layer \ {l} : entry'[x] = entry[x]
<1>0. order \in Seq(Layer) /\ entry \in Entries /\ KeysOk(order, entry) /\ current = Total(order, entry)
  BY DEF Sound
<1>1. entry' \in Entries /\ entry'[l] = Resolving /\ \A x \in Layer : x # l => entry'[x] = entry[x]
  BY <1>0 DEF Entries
<1>2. ~ Occurs(order, l)
  BY <1>0 DEF KeysOk
<1>3. /\ order' \in Seq(Layer) /\ Distinct(order')
      /\ \A x \in Layer : Occurs(order', x) <=> Occurs(order, x) \/ x = l
  BY <1>0, <1>2, AppendKeys DEF KeysOk
<1>4. KeysOk(order', entry')
  BY <1>0, <1>1, <1>3, SentinelAssumption DEF KeysOk
<1>5. Total(order', entry') = Total(order, entry') + EntryBytes(entry'[l])
  BY <1>0, <1>1, AppendTotal
<1>6. Total(order, entry') = Total(order, entry)
  <2>1. \A i \in 1 .. Len(order) : order[i] \in Layer /\ order[i] # l
    BY <1>0, <1>2, ElementOfSeq DEF Occurs
  <2>2. \A i \in 1 .. Len(order) : EntryBytes(entry'[order[i]]) = EntryBytes(entry[order[i]])
    BY <1>1, <2>1
  <2> QED BY <1>0, <1>1, <2>2, SameTotal
<1>7. EntryBytes(entry'[l]) = 0 /\ Total(order, entry) \in Nat
  BY <1>0, <1>1, TotalType, SentinelAssumption DEF EntryBytes
<1>8. current' = Total(order', entry') /\ current' <= Limit
  BY <1>0, <1>5, <1>6, <1>7 DEF Sound
<1> QED BY <1>1, <1>3, <1>4, <1>8 DEF Sound

-----------------------------------------------------------------------------
(* Every action keeps the invariant.                                       *)

(* A step that makes no resolver and no Resolving entry, and ends none.    *)
LEMMA ResolversKept ==
  ASSUME ResolvingHasResolver, cancels' = cancels,
         \A u \in Task : pc'[u] \in {"fetch", "install"} <=> pc[u] \in {"fetch", "install"},
         \A u \in Task : pc[u] \in {"fetch", "install"} => layer'[u] = layer[u],
         \A x \in Layer : entry'[x] = Resolving <=> entry[x] = Resolving
  PROVE  ResolvingHasResolver'
<1>1. \A x \in Layer : {u \in Task : pc'[u] \in {"fetch", "install"} /\ layer'[u] = x} = Resolvers(x)
  BY DEF Resolvers
<1>2. \A x \in Layer : Resolvers(x)' = Resolvers(x)
  BY <1>1 DEF Resolvers
<1> QED BY <1>2 DEF ResolvingHasResolver

(* The resolver of a layer has its Resolving entry, and is the only one.   *)
LEMMA ResolverFindsEntry ==
  ASSUME ResolvingHasResolver, layer \in [Task -> Layer],
         NEW t \in Task, pc[t] \in {"fetch", "install"}
  PROVE  /\ entry[layer[t]] = Resolving
         /\ \A u \in Task : pc[u] \in {"fetch", "install"} /\ layer[u] = layer[t] => u = t
<1>1. layer[t] \in Layer /\ t \in Resolvers(layer[t])
  BY DEF Resolvers
<1>2. \A u \in Task : pc[u] \in {"fetch", "install"} /\ layer[u] = layer[t] => u \in Resolvers(layer[t])
  BY DEF Resolvers
<1> QED BY <1>1, <1>2 DEF ResolvingHasResolver

LEMMA InitOk ==
  ASSUME Init PROVE IInv
<1> USE DEF Init
<1>1. Typed
  <2>1. (CHOOSE l \in Layer : TRUE) \in Layer
    BY LayerAssumption
  <2>2. layer \in [Task -> Layer]
    BY <2>1
  <2> QED BY <2>2, BoundsAssumption DEF Typed, Lookup
<1>2. Sound(order, entry, current)
  <2>1. order \in Seq(Layer) /\ Len(order) = 0 /\ entry \in Entries
    BY EmptySeq DEF Entries
  <2>2. \A i \in 1 .. 0 : FALSE
    OBVIOUS
  <2>3. KeysOk(order, entry)
    BY <2>1, <2>2 DEF KeysOk, Occurs, Distinct
  <2>4. Total(order, entry) = 0
    BY <2>1, BytesOfRec DEF Total
  <2> QED BY <2>1, <2>3, <2>4, LimitAssumption DEF Sound
<1>3. ResolvingHasResolver
  <2>1. \A l \in Layer : Resolvers(l) = {} /\ entry[l] # Resolving
    BY SentinelAssumption DEF Resolvers
  <2> QED BY <2>1 DEF ResolvingHasResolver
<1>4. Fetched /\ Answered /\ Writing
  BY DEF Fetched, Answered, Writing
<1>5. Whole
  BY SentinelAssumption DEF Whole, IsResolved
<1> QED BY <1>1, <1>2, <1>3, <1>4, <1>5 DEF IInv

LEMMA GetOk ==
  ASSUME IInv, NEW t \in Task, NEW l \in Layer, Get(t, l)
  PROVE  IInv'
<1> DEFINE Hit == IsResolved(l) /\ order' = Promote(order, l)
                    /\ entry' = entry /\ pc' = pc /\ lookup' = lookup /\ barrier' = barrier
           Wait == entry[l] = Resolving /\ order' = Promote(order, l)
                    /\ (IF Resolvers(l) # {}
                          THEN GoTo(t, "wait") /\ lookup' = lookup
                          ELSE GoTo(t, "woken") /\ lookup' = [lookup EXCEPT ![t] = barrier[l]])
                    /\ entry' = entry /\ barrier' = barrier
           Miss == entry[l] = NoEntry /\ entry' = [entry EXCEPT ![l] = Resolving]
                    /\ order' = Append(order, l)
                    /\ barrier' = [barrier EXCEPT ![l] = NoAnswer]
                    /\ GoTo(t, "fetch") /\ lookup' = lookup
<1>1. /\ pc[t] = "idle" /\ layer' = [layer EXCEPT ![t] = l]
      /\ ops < MaxOps /\ ops' = ops + 1
      /\ origin' = origin /\ stored' = stored /\ early' = early
      /\ current' = current /\ cancels' = cancels
  BY DEF Get, Begin
<1>2. Hit \/ Wait \/ Miss
  BY DEF Get
<1>3. Typed /\ Sound(order, entry, current) /\ ResolvingHasResolver /\ Fetched /\ Whole /\ Answered /\ Writing
  BY DEF IInv
<1>4. entry \in Entries /\ entry \in [Layer -> Nat \cup {NoEntry, Resolving}]
  BY <1>3 DEF Sound, Entries
<1>5. layer' \in [Task -> Layer] /\ layer'[t] = l /\ \A u \in Task : u # t => layer'[u] = layer[u]
  BY <1>1, <1>3 DEF Typed
<1>6. ops' \in 0 .. MaxOps
  BY <1>1, <1>3, BoundsAssumption DEF Typed
<1>7. CASE Hit
  <2>1. Typed'
    BY <1>1, <1>3, <1>5, <1>6, <1>7 DEF Typed
  <2>2. Sound(order', entry', current')
    BY <1>1, <1>3, <1>7, PromoteCache, SentinelAssumption DEF IsResolved
  <2>3. ResolvingHasResolver'
    BY <1>1, <1>3, <1>5, <1>7, ResolversKept
  <2>4. Fetched' /\ Whole' /\ Answered' /\ Writing'
    BY <1>1, <1>3, <1>5, <1>7 DEF Fetched, Whole, Answered, Writing, IsResolved
  <2> QED BY <2>1, <2>2, <2>3, <2>4 DEF IInv
<1>8. CASE Wait
  <2>0. /\ pc' \in [Task -> {"idle", "fetch", "install", "wait", "woken", "write", "put", "panicked"}]
        /\ pc'[t] \in {"wait", "woken"} /\ \A u \in Task : u # t => pc'[u] = pc[u]
        /\ lookup' \in [Task -> Lookup] /\ \A u \in Task : u # t => lookup'[u] = lookup[u]
        /\ pc'[t] = "woken" => Resolvers(l) = {}
    BY <1>3, <1>8 DEF GoTo, Typed
  <2>1. Typed'
    BY <1>1, <1>3, <1>5, <1>6, <1>8, <2>0 DEF Typed
  <2>2. Sound(order', entry', current')
    BY <1>1, <1>3, <1>8, PromoteCache, SentinelAssumption
  <2>3. ResolvingHasResolver'
    BY <1>1, <1>3, <1>5, <1>8, <2>0, ResolversKept
  <2>4. Fetched' /\ Whole' /\ Writing'
    BY <1>1, <1>3, <1>5, <1>8, <2>0 DEF Fetched, Whole, Writing, IsResolved
  <2>5. Answered'
    <3>1. cancels = 0 => Resolvers(l) # {}
      BY <1>3, <1>8 DEF ResolvingHasResolver
    <3> QED BY <1>1, <1>3, <2>0, <3>1 DEF Answered
  <2> QED BY <2>1, <2>2, <2>3, <2>4, <2>5 DEF IInv
<1>9. CASE Miss
  <2>0. /\ pc' \in [Task -> {"idle", "fetch", "install", "wait", "woken", "write", "put", "panicked"}]
        /\ pc'[t] = "fetch" /\ \A u \in Task : u # t => pc'[u] = pc[u]
        /\ barrier' \in [Layer -> Lookup] /\ \A x \in Layer : x # l => barrier'[x] = barrier[x]
    BY <1>3, <1>9 DEF GoTo, Typed, Lookup
  <2>1. Typed'
    BY <1>1, <1>3, <1>5, <1>6, <1>9, <2>0 DEF Typed
  <2>2. /\ Sound(order', entry', current')
        /\ entry'[l] = Resolving /\ \A x \in Layer \ {l} : entry'[x] = entry[x]
    BY <1>1, <1>3, <1>9, InsertCache
  <2>3. \A u \in Task : pc[u] \in {"fetch", "install"} => layer[u] # l
    BY <1>3, <1>9, ResolverFindsEntry, SentinelAssumption DEF Typed
  <2>4. ResolvingHasResolver'
    <3>1. \A u \in Task : u # t => (pc'[u] \in {"fetch", "install"} <=> pc[u] \in {"fetch", "install"})
      BY <2>0
    <3>2. Resolvers(l)' = {t}
      BY <1>1, <1>5, <2>0, <2>3 DEF Resolvers
    <3>3. \A x \in Layer \ {l} : Resolvers(x)' = Resolvers(x)
      BY <1>1, <1>5, <2>0 DEF Resolvers
    <3> QED BY <1>1, <1>3, <2>2, <3>2, <3>3 DEF ResolvingHasResolver
  <2>5. Fetched'
    <3> SUFFICES ASSUME NEW u \in Task, pc'[u] = "install"
                 PROVE  /\ lookup'[u] \in Nat \cup {Missing}
                        /\ layer'[u] \in early' \/ lookup'[u] = Size[layer'[u]]
                        /\ barrier'[layer'[u]] # NoAnswer
      BY DEF Fetched
    <3>1. u # t /\ pc[u] = "install" /\ layer'[u] = layer[u] /\ layer[u] # l /\ layer[u] \in Layer
      BY <1>3, <1>5, <2>0, <2>3 DEF Typed
    <3> QED BY <1>1, <1>3, <1>9, <2>0, <3>1 DEF Fetched
  <2>6. Whole'
    <3>1. barrier'[l] = NoAnswer
      BY <1>3, <1>9 DEF Typed
    <3> QED BY <1>1, <1>3, <2>0, <2>2, <3>1, SentinelAssumption DEF Whole, IsResolved
  <2>7. Answered' /\ Writing'
    BY <1>1, <1>3, <1>5, <1>9, <2>0 DEF Answered, Writing
  <2> QED BY <2>1, <2>2, <2>4, <2>5, <2>6, <2>7 DEF IInv
<1> QED BY <1>2, <1>7, <1>8, <1>9

LEMMA FetchOk ==
  ASSUME IInv, NEW t \in Task, Fetch(t)
  PROVE  IInv'
<1> DEFINE l == layer[t]
<1>1. /\ pc[t] = "fetch" /\ pc' = [pc EXCEPT ![t] = "install"]
      /\ lookup' = [lookup EXCEPT ![t] = origin[l]]
      /\ barrier' = [barrier EXCEPT ![l] = origin[l]]
      /\ early' = IF origin[l] # Size[l] THEN early \cup {l} ELSE early
      /\ UNCHANGED <<origin, stored, entry, order, current, layer, ops, cancels>>
  BY DEF Fetch, GoTo, FillBarrier, OriginBytes
<1>2. Typed /\ Sound(order, entry, current) /\ ResolvingHasResolver /\ Fetched /\ Whole /\ Answered /\ Writing
  BY DEF IInv
<1>3. l \in Layer /\ origin[l] \in Nat \cup {Missing} /\ origin[l] # NoAnswer
  BY <1>2, SentinelAssumption DEF Typed
<1> HIDE DEF l
<1>4. /\ pc'[t] = "install" /\ \A u \in Task : u # t => pc'[u] = pc[u]
      /\ lookup'[t] = origin[l] /\ \A u \in Task : u # t => lookup'[u] = lookup[u]
      /\ barrier'[l] = origin[l] /\ \A x \in Layer : x # l => barrier'[x] = barrier[x]
      /\ early \subseteq early' /\ (origin[l] = Size[l] \/ l \in early')
  BY <1>1, <1>2, <1>3 DEF Typed
<1>5. Typed'
  BY <1>1, <1>2, <1>3 DEF Typed, Lookup
<1>6. Sound(order', entry', current')
  BY <1>1, <1>2
<1>7. ResolvingHasResolver'
  BY <1>1, <1>2, <1>4, ResolversKept
<1>8. Fetched'
  <2> SUFFICES ASSUME NEW u \in Task, pc'[u] = "install"
               PROVE  /\ lookup'[u] \in Nat \cup {Missing}
                      /\ layer'[u] \in early' \/ lookup'[u] = Size[layer'[u]]
                      /\ barrier'[layer'[u]] # NoAnswer
    BY DEF Fetched
  <2>1. CASE u = t
    BY <1>1, <1>3, <1>4, <2>1 DEF l
  <2>2. CASE u # t
    <3>1. pc[u] = "install" /\ layer[u] \in Layer /\ layer'[u] = layer[u]
      BY <1>1, <1>2, <1>4, <2>2 DEF Typed
    <3>2. layer[u] # l
      BY <1>1, <1>2, <2>2, <3>1, ResolverFindsEntry DEF Typed, l
    <3> QED BY <1>2, <1>4, <2>2, <3>1, <3>2 DEF Fetched
  <2> QED BY <2>1, <2>2
<1>9. Whole'
  <2>1. \A x \in Layer \ early' : x \in Layer \ early /\ (x = l => barrier'[x] = Size[x])
    BY <1>4
  <2> QED BY <1>1, <1>2, <1>4, <2>1 DEF Whole, IsResolved
<1>10. Answered' /\ Writing'
  BY <1>1, <1>2, <1>4 DEF Answered, Writing
<1> QED BY <1>5, <1>6, <1>7, <1>8, <1>9, <1>10 DEF IInv

(* A resolver that ends stops resolving, and wakes those that wait for it. *)
LEMMA Released ==
  ASSUME IInv, NEW t \in Task, pc[t] \in {"fetch", "install"}, Release(t), layer' = layer
  PROVE  /\ pc' \in [Task -> {"idle", "fetch", "install", "wait", "woken", "write", "put", "panicked"}]
         /\ lookup' \in [Task -> Lookup]
         /\ barrier' = barrier
         /\ \A u \in Task :
              \/ u = t /\ pc'[u] = "idle"
              \/ u # t /\ pc'[u] = pc[u] /\ lookup'[u] = lookup[u]
              \/ pc[u] = "wait" /\ pc'[u] = "woken" /\ lookup'[u] = barrier[layer[t]]
         /\ Resolvers(layer[t])' = {}
         /\ \A x \in Layer \ {layer[t]} : Resolvers(x)' = Resolvers(x)
<1>1. Typed /\ ResolvingHasResolver
  BY DEF IInv
<1>2. layer[t] \in Layer /\ barrier[layer[t]] \in Lookup /\ NoAnswer \in Lookup
  BY <1>1 DEF Typed, Lookup
<1>3. \A u \in Task : /\ pc'[u] = IF u = t THEN "idle" ELSE IF u \in Waiters(t) THEN "woken" ELSE pc[u]
                      /\ lookup'[u] = IF u = t THEN NoAnswer
                                      ELSE IF u \in Waiters(t) THEN barrier[layer[t]] ELSE lookup[u]
  BY DEF Release
<1>4. /\ pc' \in [Task -> {"idle", "fetch", "install", "wait", "woken", "write", "put", "panicked"}]
      /\ lookup' \in [Task -> Lookup]
  BY <1>1, <1>2 DEF Release, Typed
<1>5. \A u \in Waiters(t) : pc[u] = "wait"
  BY DEF Waiters
<1>6. \A u \in Task :
        \/ u = t /\ pc'[u] = "idle"
        \/ u # t /\ pc'[u] = pc[u] /\ lookup'[u] = lookup[u]
        \/ pc[u] = "wait" /\ pc'[u] = "woken" /\ lookup'[u] = barrier[layer[t]]
  BY <1>3, <1>5
<1>7. \A u \in Task : pc'[u] \in {"fetch", "install"} <=> u # t /\ pc[u] \in {"fetch", "install"}
  BY <1>6
<1>8. \A u \in Task : pc[u] \in {"fetch", "install"} /\ layer[u] = layer[t] => u = t
  BY <1>1, ResolverFindsEntry DEF Typed
<1>9. Resolvers(layer[t])' = {}
  BY <1>7, <1>8 DEF Resolvers
<1>10. \A x \in Layer \ {layer[t]} : Resolvers(x)' = Resolvers(x)
  BY <1>7 DEF Resolvers
<1> QED BY <1>4, <1>6, <1>9, <1>10 DEF Release

LEMMA InstallOk ==
  ASSUME IInv, NEW t \in Task, Install(t)
  PROVE  IInv'
<1> DEFINE l == layer[t]
           bytes == lookup[t]
<1>1. /\ pc[t] = "install" /\ Release(t) /\ early' = {x \in early : entry'[x] # NoEntry}
      /\ UNCHANGED <<origin, stored, layer, ops, cancels>>
  BY DEF Install, ForgetDropped
<1>2. Typed /\ Sound(order, entry, current) /\ ResolvingHasResolver /\ Fetched /\ Whole /\ Answered /\ Writing
  BY DEF IInv
<1>3. /\ l \in Layer /\ bytes \in Nat \cup {Missing} /\ barrier[l] # NoAnswer
      /\ l \in early \/ bytes = Size[l]
  BY <1>1, <1>2 DEF Fetched, Typed
<1>4. entry[l] = Resolving
  BY <1>1, <1>2, ResolverFindsEntry DEF Typed
<1>5. \/ (bytes = Missing \/ (bytes # Missing /\ bytes > Limit)) /\ DropFromCache(l)
      \/ bytes # Missing /\ bytes <= Limit /\ CanFree(Required(bytes)) /\ Admit(l, bytes)
  BY DEF Install
<1>6. /\ pc' \in [Task -> {"idle", "fetch", "install", "wait", "woken", "write", "put", "panicked"}]
      /\ lookup' \in [Task -> Lookup]
      /\ barrier' = barrier
      /\ \A u \in Task :
           \/ u = t /\ pc'[u] = "idle"
           \/ u # t /\ pc'[u] = pc[u] /\ lookup'[u] = lookup[u]
           \/ pc[u] = "wait" /\ pc'[u] = "woken" /\ lookup'[u] = barrier[l]
      /\ Resolvers(l)' = {}
      /\ \A x \in Layer \ {l} : Resolvers(x)' = Resolvers(x)
  BY <1>1, Released
<1>a. l' = l
  BY <1>1
<1> HIDE DEF l, bytes
<1>7. /\ Sound(order', entry', current')
      /\ entry'[l] = NoEntry \/ (entry'[l] = bytes /\ bytes \in Nat)
      /\ \A x \in Layer \ {l} : entry'[x] = entry[x] \/ (entry[x] \in Nat /\ entry'[x] = NoEntry)
  <2>1. CASE DropFromCache(l)
    BY <1>2, <1>3, <1>4, <2>1, DropCache
  <2>2. CASE bytes # Missing /\ bytes <= Limit /\ CanFree(Required(bytes)) /\ Admit(l, bytes)
    <3>1. bytes \in Nat /\ entry[l] \notin Nat
      BY <1>3, <1>4, <2>2, SentinelAssumption
    <3> QED BY <1>2, <1>3, <2>2, <3>1, AdmitCache
  <2> QED BY <1>5, <2>1, <2>2
<1>8. Typed'
  BY <1>1, <1>2, <1>6 DEF Typed
<1>9. ResolvingHasResolver'
  <2>1. entry'[l] # Resolving
    BY <1>7, SentinelAssumption
  <2>2. \A x \in Layer \ {l} : entry'[x] = Resolving <=> entry[x] = Resolving
    BY <1>7, SentinelAssumption
  <2>3. \A x \in Layer : Resolvers(x)' = IF x = l THEN {} ELSE Resolvers(x)
    BY <1>6, <1>a
  <2> QED BY <1>1, <1>2, <2>1, <2>2, <2>3 DEF ResolvingHasResolver
<1>b. \A x \in early : x # l /\ entry[x] = Resolving => x \in early'
  BY <1>1, <1>2, <1>7, SentinelAssumption DEF Typed
<1>10. Fetched' /\ Writing'
  <2>1. ASSUME NEW u \in Task, pc'[u] = "install"
        PROVE  pc[u] = "install" /\ lookup'[u] = lookup[u] /\ layer[u] # l /\ entry[layer[u]] = Resolving
    <3>1. u # t /\ pc[u] = "install" /\ lookup'[u] = lookup[u]
      BY <1>6, <2>1
    <3>2. layer[u] # layer[t] /\ entry[layer[u]] = Resolving
      BY <1>1, <1>2, <3>1, ResolverFindsEntry DEF Typed
    <3> QED BY <3>1, <3>2 DEF l
  <2>2. Fetched'
    BY <1>1, <1>2, <1>6, <1>b, <2>1 DEF Fetched
  <2>3. Writing'
    BY <1>1, <1>2, <1>6 DEF Writing
  <2> QED BY <2>2, <2>3
<1>11. Whole'
  <2> SUFFICES ASSUME NEW x \in Layer \ early'
               PROVE  /\ entry'[x] \in Nat => entry'[x] = Size[x]
                      /\ entry'[x] = Resolving /\ barrier'[x] # NoAnswer => barrier'[x] = Size[x]
    BY DEF Whole, IsResolved
  <2>1. CASE x = l
    <3>1. x \in early => entry'[x] = NoEntry
      BY <1>1
    <3>2. entry'[x] # Resolving
      BY <1>7, <2>1, SentinelAssumption
    <3> QED BY <1>3, <1>7, <2>1, <3>1, <3>2, SentinelAssumption
  <2>2. CASE x # l
    <3>1. x \in early => entry'[x] = NoEntry
      BY <1>1
    <3> QED BY <1>2, <1>6, <1>7, <2>2, <3>1, SentinelAssumption DEF Whole, IsResolved
  <2> QED BY <2>1, <2>2
<1>12. Answered'
  BY <1>1, <1>2, <1>3, <1>6 DEF Answered
<1> QED BY <1>7, <1>8, <1>9, <1>10, <1>11, <1>12 DEF IInv

LEMMA CancelOk ==
  ASSUME IInv, NEW t \in Task, Cancel(t)
  PROVE  IInv'
<1>1. /\ pc[t] \in {"fetch", "install"} /\ cancels < MaxCancels /\ cancels' = cancels + 1 /\ Release(t)
      /\ UNCHANGED <<origin, stored, early, entry, order, current, layer, ops>>
  BY DEF Cancel
<1>2. Typed /\ Sound(order, entry, current) /\ ResolvingHasResolver /\ Fetched /\ Whole /\ Answered /\ Writing
  BY DEF IInv
<1>3. cancels' \in 0 .. MaxCancels /\ cancels' # 0 /\ layer[t] \in Layer
  BY <1>1, <1>2, BoundsAssumption DEF Typed
<1>4. /\ pc' \in [Task -> {"idle", "fetch", "install", "wait", "woken", "write", "put", "panicked"}]
      /\ lookup' \in [Task -> Lookup]
      /\ barrier' = barrier
      /\ \A u \in Task :
           \/ u = t /\ pc'[u] = "idle"
           \/ u # t /\ pc'[u] = pc[u] /\ lookup'[u] = lookup[u]
           \/ pc[u] = "wait" /\ pc'[u] = "woken" /\ lookup'[u] = barrier[layer[t]]
      /\ Resolvers(layer[t])' = {}
      /\ \A x \in Layer \ {layer[t]} : Resolvers(x)' = Resolvers(x)
  BY <1>1, Released
<1>5. Typed'
  BY <1>1, <1>2, <1>3, <1>4 DEF Typed
<1>6. Sound(order', entry', current')
  BY <1>1, <1>2
<1>7. ResolvingHasResolver'
  BY <1>1, <1>2, <1>3, <1>4 DEF ResolvingHasResolver
<1>8. Fetched' /\ Writing' /\ Whole' /\ Answered'
  BY <1>1, <1>2, <1>3, <1>4 DEF Fetched, Writing, Whole, Answered, IsResolved
<1> QED BY <1>5, <1>6, <1>7, <1>8 DEF IInv

LEMMA WokenOk ==
  ASSUME IInv, NEW t \in Task, Woken(t)
  PROVE  IInv'
<1>1. /\ pc[t] = "woken"
      /\ UNCHANGED <<origin, stored, early, entry, order, current, layer, barrier, ops, cancels>>
  BY DEF Woken
<1>2. Typed /\ Sound(order, entry, current) /\ ResolvingHasResolver /\ Fetched /\ Whole /\ Answered /\ Writing
  BY DEF IInv
<1>3. /\ pc' \in [Task -> {"idle", "fetch", "install", "wait", "woken", "write", "put", "panicked"}]
      /\ lookup' \in [Task -> Lookup]
      /\ pc'[t] \in {"idle", "panicked"} /\ (pc'[t] = "panicked" => lookup[t] = NoAnswer)
      /\ \A u \in Task : u # t => pc'[u] = pc[u] /\ lookup'[u] = lookup[u]
  BY <1>2 DEF Woken, GoTo, Typed, Lookup
<1>4. Typed'
  BY <1>1, <1>2, <1>3 DEF Typed
<1>5. ResolvingHasResolver'
  BY <1>1, <1>2, <1>3, ResolversKept
<1>6. Fetched' /\ Writing' /\ Whole' /\ Answered' /\ Sound(order', entry', current')
  BY <1>1, <1>2, <1>3 DEF Fetched, Writing, Whole, Answered, IsResolved
<1> QED BY <1>4, <1>5, <1>6 DEF IInv

LEMMA StoreOk ==
  ASSUME IInv, NEW t \in Task, NEW l \in Layer, Store(t, l)
  PROVE  IInv'
<1>1. /\ pc[t] = "idle" /\ origin[l] = Missing /\ ops < MaxOps /\ ops' = ops + 1
      /\ layer' = [layer EXCEPT ![t] = l] /\ origin' = [origin EXCEPT ![l] = 0]
      /\ pc' = [pc EXCEPT ![t] = "write"]
      /\ UNCHANGED <<stored, early, entry, order, current, lookup, barrier, cancels>>
  BY DEF Store, Begin, GoTo
<1>2. Typed /\ Sound(order, entry, current) /\ ResolvingHasResolver /\ Fetched /\ Whole /\ Answered /\ Writing
  BY DEF IInv
<1>3. ops' \in 0 .. MaxOps
  BY <1>1, <1>2, BoundsAssumption DEF Typed
<1>4. /\ pc'[t] = "write" /\ layer'[t] = l /\ origin'[l] = 0
      /\ \A u \in Task : u # t => pc'[u] = pc[u] /\ layer'[u] = layer[u]
      /\ \A x \in Layer : x # l => origin'[x] = origin[x]
  BY <1>1, <1>2 DEF Typed
<1>5. Typed'
  BY <1>1, <1>2, <1>3 DEF Typed
<1>6. ResolvingHasResolver'
  BY <1>1, <1>2, <1>4, ResolversKept
<1>7. Fetched' /\ Whole' /\ Answered' /\ Sound(order', entry', current')
  BY <1>1, <1>2, <1>4 DEF Fetched, Whole, Answered, IsResolved
<1>a. \A x \in Layer : origin[x] = Size[x] => x # l
  BY <1>1, SizeAssumption, SentinelAssumption
<1>8. Writing'
  BY <1>1, <1>2, <1>4, <1>a DEF Writing, Typed
<1> QED BY <1>5, <1>6, <1>7, <1>8 DEF IInv

LEMMA WriteChunkOk ==
  ASSUME IInv, NEW t \in Task, WriteChunk(t)
  PROVE  IInv'
<1>1. /\ pc[t] = "write" /\ origin' = [origin EXCEPT ![layer[t]] = @ + 1]
      /\ origin[layer[t]] < Size[layer[t]]
      /\ UNCHANGED <<stored, early, entry, order, current, pc, layer, lookup, barrier, ops, cancels>>
  BY DEF WriteChunk
<1>2. Typed /\ Sound(order, entry, current) /\ ResolvingHasResolver /\ Fetched /\ Whole /\ Answered /\ Writing
  BY DEF IInv
<1>3. layer[t] \in Layer /\ origin[layer[t]] \in Nat
  BY <1>1, <1>2 DEF Typed, Writing
<1>4. /\ origin' \in [Layer -> Nat \cup {Missing}] /\ origin'[layer[t]] \in Nat
      /\ \A x \in Layer : x # layer[t] => origin'[x] = origin[x]
  BY <1>1, <1>2, <1>3 DEF Typed
<1>5. Typed'
  BY <1>1, <1>2, <1>4 DEF Typed
<1>6. ResolvingHasResolver'
  BY <1>1, <1>2, ResolversKept
<1>7. Fetched' /\ Whole' /\ Answered' /\ Sound(order', entry', current')
  BY <1>1, <1>2 DEF Fetched, Whole, Answered, IsResolved
<1>a. \A x \in Layer : origin[x] = Size[x] => x # layer[t]
  BY <1>1, <1>3, SizeAssumption
<1>8. Writing'
  BY <1>1, <1>2, <1>4, <1>a DEF Writing, Typed
<1> QED BY <1>5, <1>6, <1>7, <1>8 DEF IInv

LEMMA WrittenOk ==
  ASSUME IInv, NEW t \in Task, Written(t)
  PROVE  IInv'
<1>1. /\ pc[t] = "write" /\ pc' = [pc EXCEPT ![t] = "put"] /\ origin[layer[t]] = Size[layer[t]]
      /\ UNCHANGED <<origin, stored, early, entry, order, current, layer, lookup, barrier, ops, cancels>>
  BY DEF Written, GoTo
<1>2. Typed /\ Sound(order, entry, current) /\ ResolvingHasResolver /\ Fetched /\ Whole /\ Answered /\ Writing
  BY DEF IInv
<1>3. pc'[t] = "put" /\ \A u \in Task : u # t => pc'[u] = pc[u]
  BY <1>1, <1>2 DEF Typed
<1>4. Typed'
  BY <1>1, <1>2 DEF Typed
<1>5. ResolvingHasResolver'
  BY <1>1, <1>2, <1>3, ResolversKept
<1>6. Fetched' /\ Writing' /\ Whole' /\ Answered' /\ Sound(order', entry', current')
  BY <1>1, <1>2, <1>3 DEF Fetched, Writing, Whole, Answered, IsResolved
<1> QED BY <1>4, <1>5, <1>6 DEF IInv

LEMMA PutOk ==
  ASSUME IInv, NEW t \in Task, Put(t)
  PROVE  IInv'
<1> DEFINE l == layer[t]
<1>1. /\ pc[t] = "put" /\ pc' = [pc EXCEPT ![t] = "idle"] /\ stored' = stored \cup {l}
      /\ early' = {x \in early : entry'[x] # NoEntry}
      /\ UNCHANGED <<origin, layer, lookup, barrier, ops, cancels>>
  BY DEF Put, GoTo, ForgetDropped
<1>2. Typed /\ Sound(order, entry, current) /\ ResolvingHasResolver /\ Fetched /\ Whole /\ Answered /\ Writing
  BY DEF IInv
<1>3. \/ UNCHANGED <<entry, order, current>>
      \/ entry[l] = NoEntry /\ Size[l] <= Limit /\ CanFree(Required(Size[l])) /\ Admit(l, Size[l])
  BY DEF Put
<1>4. l \in Layer /\ Size[l] \in Nat
  BY <1>2, SizeAssumption DEF Typed
<1> HIDE DEF l
<1>5. /\ Sound(order', entry', current')
      /\ entry'[l] = entry[l] \/ (entry[l] = NoEntry /\ entry'[l] = Size[l])
      /\ \A x \in Layer \ {l} : entry'[x] = entry[x] \/ (entry[x] \in Nat /\ entry'[x] = NoEntry)
  <2>1. CASE UNCHANGED <<entry, order, current>>
    BY <1>2, <2>1
  <2>2. CASE entry[l] = NoEntry /\ Size[l] <= Limit /\ CanFree(Required(Size[l])) /\ Admit(l, Size[l])
    <3>1. entry[l] \notin Nat
      BY <2>2, SentinelAssumption
    <3> QED BY <1>2, <1>4, <2>2, <3>1, AdmitCache
  <2> QED BY <1>3, <2>1, <2>2
<1>6. pc'[t] = "idle" /\ \A u \in Task : u # t => pc'[u] = pc[u]
  BY <1>1, <1>2 DEF Typed
<1>7. Typed'
  BY <1>1, <1>2, <1>4 DEF Typed
<1>8. ResolvingHasResolver'
  <2>1. \A x \in Layer : entry'[x] = Resolving <=> entry[x] = Resolving
    BY <1>4, <1>5, SentinelAssumption
  <2> QED BY <1>1, <1>2, <1>6, <2>1, ResolversKept
<1>9. Whole'
  <2>1. \A x \in Layer \ early' : x \in Layer \ early \/ entry'[x] = NoEntry
    BY <1>1
  <2>2. ASSUME NEW x \in Layer \ early'
        PROVE  /\ entry'[x] \in Nat => entry'[x] = Size[x]
               /\ entry'[x] = Resolving /\ barrier'[x] # NoAnswer => barrier'[x] = Size[x]
    <3>1. CASE entry'[x] = entry[x]
      BY <1>1, <1>2, <2>1, <3>1, SentinelAssumption DEF Whole, IsResolved
    <3>2. CASE entry'[x] = NoEntry
      BY <3>2, SentinelAssumption
    <3>3. CASE x = l /\ entry'[x] = Size[x]
      BY <1>4, <3>3, SentinelAssumption
    <3> QED BY <1>5, <3>1, <3>2, <3>3
  <2> QED BY <2>2 DEF Whole, IsResolved
<1>10. Fetched'
  <2>1. \A x \in early : entry[x] = Resolving => x \in early'
    BY <1>1, <1>2, <1>5, SentinelAssumption DEF Typed
  <2>2. \A u \in Task : pc'[u] = "install" => pc[u] = "install" /\ entry[layer[u]] = Resolving
    BY <1>2, <1>6, ResolverFindsEntry DEF Typed
  <2> QED BY <1>1, <1>2, <2>1, <2>2 DEF Fetched
<1>11. Writing' /\ Answered'
  BY <1>1, <1>2, <1>6 DEF Writing, Answered, l
<1> QED BY <1>5, <1>7, <1>8, <1>9, <1>10, <1>11 DEF IInv

LEMMA EvictToTargetOk ==
  ASSUME IInv, NEW t \in Task, NEW target \in 0 .. Limit, EvictToTarget(t, target)
  PROVE  IInv'
<1> DEFINE required == current - target
<1>1. /\ ops < MaxOps /\ ops' = ops + 1 /\ current > target
      /\ entry' = EntryAfter(Passes(required)) /\ order' = OrderAfter(Passes(required))
      /\ current' = current - FreedBy(Passes(required))
      /\ early' = {x \in early : entry'[x] # NoEntry}
      /\ UNCHANGED <<origin, stored, pc, layer, lookup, barrier, cancels>>
  BY DEF EvictToTarget, Begin, ForgetDropped
<1>2. Typed /\ Sound(order, entry, current) /\ ResolvingHasResolver /\ Fetched /\ Whole /\ Answered /\ Writing
  BY DEF IInv
<1>3. required \in Nat /\ required <= current
  BY <1>1, <1>2, SoundCounter, LimitAssumption
<1>4. ops' \in 0 .. MaxOps
  BY <1>1, <1>2, BoundsAssumption DEF Typed
<1> HIDE DEF required
<1>5. /\ Sound(order', entry', current')
      /\ \A x \in Layer : entry'[x] = entry[x] \/ (entry[x] \in Nat /\ entry'[x] = NoEntry)
  BY <1>1, <1>2, <1>3, EvictCache
<1>6. Typed'
  BY <1>1, <1>2, <1>4 DEF Typed
<1>7. ResolvingHasResolver'
  <2>1. \A x \in Layer : entry'[x] = Resolving <=> entry[x] = Resolving
    BY <1>5, SentinelAssumption
  <2> QED BY <1>1, <1>2, <2>1, ResolversKept
<1>8. Fetched'
  <2>1. \A x \in early : entry[x] = Resolving => x \in early'
    BY <1>1, <1>2, <1>5, SentinelAssumption DEF Typed
  <2>2. \A u \in Task : pc[u] = "install" => entry[layer[u]] = Resolving
    BY <1>2, ResolverFindsEntry DEF Typed
  <2> QED BY <1>1, <1>2, <2>1, <2>2 DEF Fetched
<1>9. Whole'
  <2>1. \A x \in Layer \ early' : x \in Layer \ early \/ entry'[x] = NoEntry
    BY <1>1
  <2> QED BY <1>1, <1>2, <1>5, <2>1, SentinelAssumption DEF Whole, IsResolved
<1>10. Writing' /\ Answered'
  BY <1>1, <1>2 DEF Writing, Answered
<1> QED BY <1>5, <1>6, <1>7, <1>8, <1>9, <1>10 DEF IInv

-----------------------------------------------------------------------------
(* The theorems.                                                           *)

(* The invariant is kept by every step.                                    *)
LEMMA NextOk ==
  ASSUME IInv, [Next]_vars
  PROVE  IInv'
<1>1. CASE UNCHANGED vars
  <2> USE <1>1 DEF vars
  <2>1. Typed'
    BY DEF IInv, Typed
  <2>2. Sound(order', entry', current')
    BY DEF IInv
  <2>3. ResolvingHasResolver'
    BY ResolversKept DEF IInv
  <2>4. Fetched' /\ Whole' /\ Answered' /\ Writing'
    BY DEF IInv, Fetched, Whole, Answered, Writing, IsResolved
  <2> QED BY <2>1, <2>2, <2>3, <2>4 DEF IInv
<1>2. ASSUME NEW t \in Task, NEW l \in Layer, Get(t, l) PROVE IInv'
  BY <1>2, GetOk
<1>3. ASSUME NEW t \in Task, NEW l \in Layer, Store(t, l) PROVE IInv'
  BY <1>3, StoreOk
<1>4. ASSUME NEW t \in Task, NEW target \in 0 .. Limit, EvictToTarget(t, target) PROVE IInv'
  BY <1>4, EvictToTargetOk
<1>5. ASSUME NEW t \in Task, Proceed(t) PROVE IInv'
  BY <1>5, FetchOk, InstallOk, WokenOk, WriteChunkOk, WrittenOk, PutOk DEF Proceed
<1>6. ASSUME NEW t \in Task, Cancel(t) PROVE IInv'
  BY <1>6, CancelOk
<1> QED BY <1>1, <1>2, <1>3, <1>4, <1>5, <1>6 DEF Next

(* It holds in every reachable state.                                      *)
LEMMA Invariance == Spec => []IInv
<1>1. Init => IInv
  BY InitOk
<1>2. IInv /\ [Next]_vars => IInv'
  BY NextOk
<1> QED BY <1>1, <1>2, PTL DEF Spec

(***************************************************************************)
(* Every reachable state of the cache is well typed: the byte counter of   *)
(* LruArchiveBackend, an unsigned integer, is never taken below zero.      *)
(***************************************************************************)
THEOREM TypeCorrect == Spec => []TypeOK
<1>1. IInv => TypeOK
  BY SoundCounter DEF IInv, Sound, Typed, TypeOK, Entries
<1> QED BY <1>1, Invariance, PTL

(***************************************************************************)
(* The counter is exactly the bytes of the Resolved entries, and within    *)
(* the limit, whatever get_layer_bytes, store_layer_file and               *)
(* evict_to_target ran in between.                                         *)
(***************************************************************************)
THEOREM CounterIsExact == Spec => []AccountedAndBounded
<1>1. IInv => AccountedAndBounded
  BY SoundCounter DEF IInv, Sound, AccountedAndBounded
<1> QED BY <1>1, Invariance, PTL

(***************************************************************************)
(* ensure_additional_cache_space always has enough to pop: it reaches      *)
(* neither its panic nor an endless round of promotions.                   *)
(***************************************************************************)
THEOREM EvictionNeverPanics == Spec => []EvictionSucceeds
<1>1. ASSUME IInv PROVE EvictionSucceeds
  <2>1. Sound(order, entry, current) /\ Fetched /\ Typed
    BY <1>1 DEF IInv
  <2>2. current \in Nat
    BY <2>1, SoundCounter
  <2>3. ASSUME NEW target \in 0 .. Limit, current > target PROVE CanFree(current - target)
    <3>1. current - target \in Nat /\ current - target <= current
      BY <2>2, <2>3, LimitAssumption
    <3> QED BY <2>1, <3>1, EnoughToFree
  <2>4. ASSUME NEW bytes \in Nat PROVE bytes > Limit \/ CanFree(Required(bytes))
    <3> SUFFICES ASSUME bytes <= Limit PROVE CanFree(Required(bytes))
      BY LimitAssumption
    <3>1. Required(bytes) \in Nat /\ Required(bytes) <= current
      BY <2>1, RequiredProperties
    <3> QED BY <2>1, <3>1, EnoughToFree
  <2>5. ASSUME NEW t \in Task, pc[t] = "install", lookup[t] # Missing PROVE lookup[t] \in Nat
    BY <2>1, <2>5 DEF Fetched
  <2>6. \A t \in Task : Size[layer[t]] \in Nat
    BY <2>1, SizeAssumption DEF Typed
  <2> QED BY <2>3, <2>4, <2>5, <2>6 DEF EvictionSucceeds
<1>2. IInv => EvictionSucceeds
  BY <1>1
<1> QED BY <1>2, Invariance, PTL

(***************************************************************************)
(* The keys of the cache are the layers with an entry, each once, so that  *)
(* the resolver of get_layer_bytes finds its entry again.                  *)
(***************************************************************************)
THEOREM KeysAreEntries == Spec => []OrderMatchesEntries
<1>1. IInv => OrderMatchesEntries
  BY DEF IInv, Sound, KeysOk, Occurs, Distinct, OrderMatchesEntries
<1> QED BY <1>1, Invariance, PTL

(***************************************************************************)
(* A layer is fetched from the origin by at most one caller at a time, and *)
(* a Resolving entry has a caller at work until a call is dropped.         *)
(***************************************************************************)
THEOREM OneResolver == Spec => []ResolvingHasResolver
<1>1. IInv => ResolvingHasResolver
  BY DEF IInv
<1> QED BY <1>1, Invariance, PTL

(***************************************************************************)
(* Once store_layer_file has returned, get_layer_bytes is answered all of  *)
(* the layer's bytes, by the cache, by a barrier or by the origin, unless  *)
(* the layer's entry rests on a lookup made before the file was whole or   *)
(* was left behind by a resolver dropped during its lookup.                *)
(***************************************************************************)
THEOREM StoredIsAnsweredWhole == Spec => []StoredIsRetrievable
<1>1. ASSUME IInv, NEW l \in stored, l \notin early, ~ Abandoned(l)
      PROVE  Answer(l) = Size[l]
  <2>1. l \in Layer \ early /\ origin[l] = Size[l] /\ Whole
    BY <1>1 DEF IInv, Typed, Writing
  <2>2. CASE IsResolved(l)
    BY <2>1, <2>2 DEF Whole, Answer
  <2>3. CASE ~ IsResolved(l) /\ entry[l] = Resolving /\ barrier[l] # NoAnswer
    BY <2>1, <2>3 DEF Whole, Answer
  <2>4. CASE ~ IsResolved(l) /\ ~ (entry[l] = Resolving /\ barrier[l] # NoAnswer)
    BY <1>1, <2>1, <2>4 DEF Abandoned, Answer, OriginBytes
  <2> QED BY <2>2, <2>3, <2>4
<1>2. IInv => StoredIsRetrievable
  BY <1>1 DEF StoredIsRetrievable
<1> QED BY <1>2, Invariance, PTL

(***************************************************************************)
(* The unwrap of a waiting reader of get_layer_bytes does not panic as     *)
(* long as no resolver was dropped.                                        *)
(***************************************************************************)
THEOREM WaitersAreAnswered == Spec => []BarrierIsFilled
<1>1. IInv => BarrierIsFilled
  BY DEF IInv, Answered, BarrierIsFilled
<1> QED BY <1>1, Invariance, PTL
================================================================================
