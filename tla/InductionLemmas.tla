--------------------------- MODULE InductionLemmas ---------------------------
(***************************************************************************)
(* Induction and recursion on natural numbers in a first-order form, which *)
(* the proofs of the other modules use for chains of parents, stacks of    *)
(* layers, and sums over the keys of a cache.                              *)
(***************************************************************************)
EXTENDS Integers, TLAPS, WellFoundedInduction

(* Every set of natural numbers has a least element: WFMin takes a set     *)
(* where the library's induction theorems take an operator.                *)
LEMMA LeastElement ==
  ASSUME NEW T \in SUBSET Nat, T # {}
  PROVE  \E x \in T : \A y \in T : x =< y
<1>1. \E x \in T : \A y \in T : ~ (<<y, x>> \in OpToRel(<, Nat))
  BY NatLessThanWellFounded, WFMin
<1>2. PICK x \in T : \A y \in T : ~ (<<y, x>> \in {p \in Nat \X Nat : p[1] < p[2]})
  BY <1>1 DEF OpToRel
<1>3. \A y \in T : ~ (y < x)
  BY <1>2
<1> QED BY <1>3

(* So what holds of zero and passes from n to n + 1 holds of all numbers;  *)
(* used with S the set of the numbers something holds of.                  *)
LEMMA SetInduction ==
  ASSUME NEW S, 0 \in S, \A n \in Nat : n \in S => n + 1 \in S
  PROVE  Nat \subseteq S
<1> SUFFICES ASSUME NEW n \in Nat \ S PROVE FALSE
  OBVIOUS
<1>1. PICK x \in Nat \ S : \A y \in Nat \ S : x =< y
  BY LeastElement
<1>2. x # 0 /\ x - 1 \in Nat /\ x - 1 \in S
  BY <1>1
<1> QED BY <1>1, <1>2

(***************************************************************************)
(* A function on numbers may be defined by recursion: when its value at n  *)
(* is made, by step, of its value at one smaller number below[n], or is    *)
(* base[n] when there is no such number in the domain.  This is the shape  *)
(* of every recursive function of the project that proofs are about.       *)
(***************************************************************************)
Descends(below, D) == \A n \in D : below[n] \in D => below[n] < n

IsRecursive(f, D, below, base, step) ==
  \A n \in D : f[n] = IF below[n] \in D THEN step[<<n, f[below[n]]>>] ELSE base[n]

(* There is such a function.                                               *)
LEMMA RecursionExists ==
  ASSUME NEW D, D \subseteq Nat, NEW X,
         NEW below, Descends(below, D),
         NEW base, base \in [D -> X],
         NEW step, step \in [D \X X -> X]
  PROVE  \E f \in [D -> X] : IsRecursive(f, D, below, base, step)
<1> USE DEF Descends, IsRecursive
<1> DEFINE Dom(m) == {n \in D : n < m}
           Eq(g, n) == g[n] = IF below[n] \in D THEN step[<<n, g[below[n]]>>] ELSE base[n]
           Ok(g, m) == g \in [Dom(m) -> X] /\ \A n \in Dom(m) : Eq(g, n)
<1>0. \A n \in D : n \in Nat
  OBVIOUS
<1> USE <1>0
<1>1. ASSUME NEW g, NEW h, NEW k \in Nat, NEW m \in Nat, Ok(g, k), Ok(h, m), NEW n \in D, n < k, n < m
      PROVE  g[n] = h[n]
  <2> DEFINE Bad == {j \in D : j < k /\ j < m /\ g[j] # h[j]}
  <2> SUFFICES ASSUME Bad # {} PROVE FALSE
    BY <1>1
  <2>1. PICK x \in Bad : \A y \in Bad : x =< y
    <3> HIDE DEF Ok
    <3> QED BY LeastElement
  <2>2. Eq(g, x) /\ Eq(h, x)
    BY <1>1, <2>1
  <2>3. CASE below[x] \in D
    <3>1. below[x] < x /\ below[x] \in Nat /\ x \in Nat
      BY <2>1, <2>3
    <3>2. below[x] \notin Bad
      BY <2>1, <3>1
    <3>3. g[below[x]] = h[below[x]]
      BY <3>1, <3>2, <2>1, <2>3
    <3> QED BY <2>1, <2>2, <2>3, <3>3
  <2>4. CASE below[x] \notin D
    BY <2>1, <2>2, <2>4
  <2> QED BY <2>3, <2>4
<1>2. \A m \in Nat : \E g : Ok(g, m)
  <2> DEFINE S == {m \in Nat : \E g : Ok(g, m)}
  <2>1. 0 \in S
    <3>0. \A n \in D : ~ (n < 0)
      OBVIOUS
    <3>1. Dom(0) = {}
      BY <3>0
    <3>2. Ok([n \in {} |-> 0], 0)
      BY <3>1
    <3> QED BY <3>2
  <2>2. ASSUME NEW m \in Nat, m \in S PROVE m + 1 \in S
    <3>1. PICK g : Ok(g, m)
      BY <2>2
    <3> DEFINE v == IF below[m] \in D THEN step[<<m, g[below[m]]>>] ELSE base[m]
               h == [n \in Dom(m + 1) |-> IF n = m THEN v ELSE g[n]]
    <3>2. \A n \in Dom(m + 1) : n \in Nat /\ (n = m \/ n \in Dom(m))
      OBVIOUS
    <3>3. m \in D => v \in X
      <4>1. m \in D /\ below[m] \in D => below[m] \in Dom(m)
        OBVIOUS
      <4> QED BY <4>1, <3>1
    <3>4. h \in [Dom(m + 1) -> X]
      BY <3>1, <3>2, <3>3
    <3>5. ASSUME NEW n \in Dom(m + 1) PROVE Eq(h, n)
      <4>0. n \in D /\ n \in Nat /\ n < m + 1
        BY <3>5
      <4>1. below[n] \in D => below[n] \in Dom(m + 1) /\ below[n] # m
        <5> SUFFICES ASSUME below[n] \in D PROVE below[n] \in Dom(m + 1) /\ below[n] # m
          OBVIOUS
        <5>1. below[n] < n /\ below[n] \in Nat
          BY <4>0
        <5> QED BY <4>0, <5>1
      <4>2. below[n] \in D => h[below[n]] = g[below[n]]
        BY <4>1
      <4>3. CASE n = m
        BY <4>2, <4>3, <3>5
      <4>4. CASE n # m
        <5>1. n \in Dom(m)
          BY <3>2, <4>4
        <5>2. Eq(g, n)
          BY <3>1, <5>1
        <5>3. h[n] = g[n]
          BY <4>4, <3>5
        <5> QED BY <5>2, <5>3, <4>2
      <4> QED BY <4>3, <4>4
    <3>6. Ok(h, m + 1)
      BY <3>4, <3>5
    <3> HIDE DEF Ok
    <3> QED BY <3>6
  <2> HIDE DEF S
  <2>3. Nat \subseteq S
    BY <2>1, <2>2, SetInduction
  <2> QED BY <2>3 DEF S
<1> DEFINE G(n) == CHOOSE g : Ok(g, n + 1)
           f == [n \in D |-> G(n)[n]]
<1>3. ASSUME NEW n \in D PROVE Ok(G(n), n + 1)
  <2> HIDE DEF Ok
  <2>1. n + 1 \in Nat
    OBVIOUS
  <2> QED BY <1>2, <2>1
<1>4. f \in [D -> X]
  <2>1. \A n \in D : n \in Dom(n + 1)
    OBVIOUS
  <2>2. \A n \in D : G(n)[n] \in X
    <3> HIDE DEF G
    <3> QED BY <1>3, <2>1
  <2> HIDE DEF G
  <2> QED BY <2>2
<1>5. ASSUME NEW n \in D PROVE Eq(f, n)
  <2>0. n \in Dom(n + 1)
    BY <1>5
  <2>1. Eq(G(n), n)
    <3> HIDE DEF G
    <3> QED BY <1>3, <2>0
  <2>2. ASSUME below[n] \in D PROVE f[below[n]] = G(n)[below[n]]
    <3> DEFINE b == below[n]
    <3>1. b \in D /\ b \in Nat /\ b < n /\ n \in Nat
      BY <2>2
    <3>2. Ok(G(b), b + 1) /\ Ok(G(n), n + 1)
      BY <1>3, <3>1
    <3> HIDE DEF Ok, G, b
    <3>3. b + 1 \in Nat /\ n + 1 \in Nat /\ b < b + 1 /\ b < n + 1
      BY <3>1
    <3>4. G(b)[b] = G(n)[b]
      BY <3>1, <3>2, <3>3, <1>1
    <3> QED BY <3>4, <3>1 DEF b
  <2>3. f[n] = G(n)[n]
    OBVIOUS
  <2> HIDE DEF G, f
  <2> QED BY <2>1, <2>2, <2>3
<1> HIDE DEF f
<1> QED BY <1>4, <1>5

(* Induction up to a bound, along the positions of a sequence.             *)
LEMMA BoundedInduction ==
  ASSUME NEW n \in Nat, NEW T, 0 \in T, \A i \in 1 .. n : i - 1 \in T => i \in T
  PROVE  \A i \in 0 .. n : i \in T
<1> DEFINE S == {k \in Nat : k \in 0 .. n => k \in T}
<1>1. 0 \in S
  OBVIOUS
<1>2. ASSUME NEW k \in Nat, k \in S PROVE k + 1 \in S
  <2> SUFFICES ASSUME k + 1 \in 0 .. n PROVE k + 1 \in T
    OBVIOUS
  <2>1. k \in 0 .. n /\ k + 1 \in 1 .. n /\ (k + 1) - 1 = k
    OBVIOUS
  <2>2. k \in T
    BY <1>2, <2>1
  <2> QED BY <2>1, <2>2
<1> HIDE DEF S
<1>3. Nat \subseteq S
  BY <1>1, <1>2, SetInduction
<1> QED BY <1>3 DEF S

(* Recursion up to a bound: each value is made of the one before it.       *)
Iterates(f, n, zero, step) ==
  /\ f[0] = zero
  /\ \A i \in 1 .. n : f[i] = step[<<i, f[i - 1]>>]

LEMMA BoundedRecursion ==
  ASSUME NEW n \in Nat, NEW X, NEW zero \in X,
         NEW step, step \in [(0 .. n) \X X -> X]
  PROVE  \E f \in [0 .. n -> X] : Iterates(f, n, zero, step)
<1> DEFINE D == 0 .. n
           below == [i \in D |-> i - 1]
           base == [i \in D |-> zero]
<1>1. D \subseteq Nat /\ Descends(below, D) /\ base \in [D -> X]
  BY DEF Descends
<1>2. PICK f \in [D -> X] : IsRecursive(f, D, below, base, step)
  <2> HIDE DEF D, below, base
  <2>1. step \in [D \X X -> X]
    BY DEF D
  <2> QED BY <1>1, <2>1, RecursionExists
<1>3. ASSUME NEW i \in D
      PROVE  f[i] = IF i = 0 THEN zero ELSE step[<<i, f[i - 1]>>]
  <2>1. f[i] = IF below[i] \in D THEN step[<<i, f[below[i]]>>] ELSE base[i]
    BY <1>2 DEF IsRecursive
  <2>2. below[i] = i - 1 /\ base[i] = zero /\ (i - 1 \in D <=> i # 0)
    OBVIOUS
  <2> HIDE DEF D, below, base
  <2> QED BY <2>1, <2>2
<1>4. Iterates(f, n, zero, step)
  <2>1. 0 \in D /\ \A i \in 1 .. n : i \in D /\ i # 0
    OBVIOUS
  <2> HIDE DEF D
  <2> QED BY <2>1, <1>3 DEF Iterates
<1> QED BY <1>2, <1>4
==============================================================================
