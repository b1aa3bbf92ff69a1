----------------------------- MODULE Induction ------------------------------
(***************************************************************************)
(* Induction over numbers, stated for sets, and that a function defined by *)
(* recursion over 0 .. N is defined: what the proofs about the model's     *)
(* recursive functions rest on.  The source of all of it is that the       *)
(* finite sets of numbers are well-founded under inclusion.                *)
(***************************************************************************)
EXTENDS Integers, FiniteSets, FiniteSetTheorems, WellFoundedInduction, TLAPS

(* A set of numbers has a least one.                                       *)
LEMMA LeastOf ==
  ASSUME NEW M \in SUBSET Nat, M # {}
  PROVE  \E m \in M : \A n \in M : m <= n
<1> DEFINE Up(n) == 0 .. n
           T == {Up(n) : n \in M}
           R == StrictSubsetOrdering(Nat)
<1>1. IsWellFoundedOn(R, FiniteSubsetsOf(Nat))
  BY FS_StrictSubsetOrderingWellFounded
<1>2. \A n \in Nat : Up(n) \in FiniteSubsetsOf(Nat)
  <2> TAKE n \in Nat
  <2>1. IsFiniteSet(0 .. n)
    BY FS_Interval
  <2>2. 0 .. n \in SUBSET Nat
    OBVIOUS
  <2>3. QED
    BY <2>1, <2>2 DEF FiniteSubsetsOf
<1>3. T \subseteq FiniteSubsetsOf(Nat) /\ T # {}
  BY <1>2
<1>4. PICK x \in T : \A y \in T : ~ (<<y, x>> \in R)
  <2> HIDE DEF T, R
  <2>1. QED
    BY <1>1, <1>3, WFMin
<1>5. PICK m \in M : x = Up(m)
  OBVIOUS
<1>6. ASSUME NEW n \in M, ~ (m <= n)
      PROVE  FALSE
  <2>1. Up(n) \in SUBSET Nat /\ Up(m) \in SUBSET Nat
    OBVIOUS
  <2>2. Up(n) \subseteq Up(m) /\ m \in Up(m) /\ m \notin Up(n)
    BY <1>6
  <2>3. <<Up(n), Up(m)>> \in R
    <3> HIDE DEF Up
    <3>1. QED
      BY <2>1, <2>2, Zenon DEF StrictSubsetOrdering
  <2>4. QED
    BY <1>4, <1>5, <2>3
<1>7. QED
  BY <1>6

(* Induction.                                                              *)
LEMMA SetInduction ==
  ASSUME NEW M, 0 \in M, \A n \in Nat : n \in M => n + 1 \in M
  PROVE  Nat \subseteq M
<1> SUFFICES ASSUME Nat \ M # {}
             PROVE  FALSE
  OBVIOUS
<1>1. PICK m \in Nat \ M : \A n \in Nat \ M : m <= n
  BY LeastOf
<1>2. m # 0 /\ m - 1 \in Nat /\ m = (m - 1) + 1
  BY <1>1
<1>3. m - 1 \notin Nat \ M
  BY <1>1, <1>2
<1>4. QED
  BY <1>1, <1>2, <1>3

(* Induction up to a bound.                                                *)
LEMMA BoundedInduction ==
  ASSUME NEW N \in Nat, NEW M, 0 \in M, \A n \in 0 .. N - 1 : n \in M => n + 1 \in M
  PROVE  0 .. N \subseteq M
<1> DEFINE W == {n \in Nat : n <= N => n \in M}
<1>1. 0 \in W
  OBVIOUS
<1>2. ASSUME NEW n \in Nat, n \in W
      PROVE  n + 1 \in W
  <2>1. CASE n + 1 <= N
    <3>1. n \in 0 .. N - 1
      BY <2>1
    <3>2. n \in M
      BY <1>2, <3>1
    <3>3. QED
      BY <3>1, <3>2
  <2>2. CASE ~(n + 1 <= N)
    BY <2>2
  <2>3. QED
    BY <2>1, <2>2
<1>3. Nat \subseteq W
  <2> HIDE DEF W
  <2>1. QED
    BY <1>1, <1>2, SetInduction
<1>4. QED
  BY <1>3

(* A function on 0 .. N that starts with v, and Step gives each next value *)
(* from the one before and the number of the step.                         *)
StepsOf(V, N) == [V \X (1 .. N) -> V]
CountsUp(f, N, V, v, Step) ==
  f \in [0 .. N -> V] /\ f[0] = v /\ \A n \in 1 .. N : f[n] = Step[<<f[n - 1], n>>]

(* There is one, so a definition by recursion over 0 .. N defines it.      *)
LEMMA CountingDefines ==
  ASSUME NEW N \in Nat, NEW V, NEW v \in V, NEW Step \in StepsOf(V, N)
  PROVE  \E f : CountsUp(f, N, V, v, Step)
<1> USE DEF StepsOf
<1> DEFINE Upto(f, m) == f[0] = v /\ \A n \in 1 .. m : f[n] = Step[<<f[n - 1], n>>]
           M == {m \in 0 .. N : \E f \in [0 .. m -> V] : Upto(f, m)}
<1>1. 0 \in M
  <2> DEFINE f == [n \in 0 .. 0 |-> v]
  <2>1. f \in [0 .. 0 -> V] /\ Upto(f, 0)
    OBVIOUS
  <2> HIDE DEF f
  <2>2. 0 \in 0 .. N
    OBVIOUS
  <2>3. QED
    BY <2>1, <2>2
<1>2. ASSUME NEW m \in 0 .. N - 1, m \in M
      PROVE  m + 1 \in M
  <2>1. PICK f \in [0 .. m -> V] : Upto(f, m)
    BY <1>2
  <2> DEFINE last == Step[<<f[m], m + 1>>]
             g == [n \in 0 .. m + 1 |-> IF n = m + 1 THEN last ELSE f[n]]
  <2>2. m + 1 \in 1 .. N /\ m \in 0 .. m /\ m \in Nat
    OBVIOUS
  <2>3. last \in V
    BY <2>2
  <2>4. g \in [0 .. m + 1 -> V]
    <3>1. \A n \in 0 .. m + 1 : n # m + 1 => n \in 0 .. m
      BY <2>2
    <3> HIDE DEF last
    <3>2. QED
      BY <2>3, <3>1
  <2>5. \A n \in 0 .. m : g[n] = f[n]
    BY <2>2
  <2>6. g[m + 1] = last
    BY <2>2
  <2>7. Upto(g, m + 1)
    <3>1. g[0] = v
      BY <2>1, <2>2, <2>5
    <3>2. ASSUME NEW n \in 1 .. m + 1
          PROVE  g[n] = Step[<<g[n - 1], n>>]
      <4>1. CASE n = m + 1
        <5>1. g[n - 1] = f[m]
          BY <2>2, <2>5, <4>1
        <5>2. QED
          BY <2>6, <4>1, <5>1
      <4>2. CASE n # m + 1
        <5>1. n \in 1 .. m /\ n \in 0 .. m /\ n - 1 \in 0 .. m
          BY <2>2, <4>2
        <5>2. QED
          BY <2>1, <2>5, <5>1
      <4>3. QED
        BY <4>1, <4>2
    <3>3. QED
      BY <3>1, <3>2
  <2> HIDE DEF g, Upto
  <2>8. QED
    BY <2>2, <2>4, <2>7
<1>3. 0 .. N \subseteq M
  <2> HIDE DEF M
  <2>1. QED
    BY <1>1, <1>2, BoundedInduction
<1>4. N \in M
  <2>1. N \in 0 .. N
    OBVIOUS
  <2> HIDE DEF M
  <2>2. QED
    BY <1>3, <2>1
<1>5. PICK f \in [0 .. N -> V] : Upto(f, N)
  BY <1>4
<1>6. CountsUp(f, N, V, v, Step)
  BY <1>5 DEF CountsUp
<1>7. QED
  BY <1>6
=============================================================================
