------------------------------ MODULE Iteration ------------------------------
(***************************************************************************)
(* Lemmas that the proofs about recursive functions use: induction for a   *)
(* property given by the set of numbers that have it, and the function     *)
(* that repeats a step.                                                    *)
(***************************************************************************)
EXTENDS Integers, WellFoundedInduction, TLAPS

(* A set of natural numbers has a least element.                           *)
LEMMA LeastExists ==
  ASSUME NEW S \in SUBSET Nat, S # {}
  PROVE  \E x \in S : \A y \in S : x <= y
<1>1. PICK x \in S : \A y \in S : ~ (<<y, x>> \in OpToRel(<, Nat))
  BY WFMin, NatLessThanWellFounded
<1>2. \A y \in S : x <= y
  <2>. SUFFICES ASSUME NEW y \in S, y < x  PROVE FALSE
    BY DEF OpToRel
  <2>1. x \in Nat /\ y \in Nat
    OBVIOUS
  <2>2. <<y, x>> \in OpToRel(<, Nat)
    BY <2>1 DEF OpToRel
  <2>. QED
    BY <1>1, <2>2
<1>. QED
  BY <1>2

(* A set that has 0 and the successor of each of its numbers has them all. *)
LEMMA Induction ==
  ASSUME NEW S \in SUBSET Nat, 0 \in S, \A n \in S : n + 1 \in S
  PROVE  S = Nat
<1>. SUFFICES ASSUME Nat \ S # {}  PROVE FALSE
  OBVIOUS
<1>1. PICK x \in Nat \ S : \A e \in Nat \ S : x <= e
  BY LeastExists
<1>2. x # 0 /\ x - 1 \in Nat /\ x - 1 < x
  BY <1>1
<1>3. x - 1 \in S
  BY <1>1, <1>2
<1>. QED
  BY <1>1, <1>2, <1>3

(* There is a function that starts with x and goes on by the step F.       *)
Repeats(F, x, m, g) ==
  /\ g[0] = x
  /\ \A n \in 1..m : g[n] = F[<<g[n - 1], n>>]

LEMMA Repeated ==
  ASSUME NEW S, NEW F \in [S \X Nat -> S], NEW x \in S, NEW m \in Nat
  PROVE  \E g \in [0..m -> S] : Repeats(F, x, m, g)
<1>. DEFINE N == {n \in Nat : \E g \in [0..n -> S] : Repeats(F, x, n, g)}
<1>1. 0 \in N
  <2>. DEFINE g == [n \in 0..0 |-> x]
  <2>1. g \in [0..0 -> S] /\ Repeats(F, x, 0, g)
    BY DEF Repeats
  <2>. QED
    BY <2>1
<1>2. ASSUME NEW n \in N  PROVE n + 1 \in N
  <2>1. n \in Nat
    OBVIOUS
  <2>2. PICK g \in [0..n -> S] : Repeats(F, x, n, g)
    OBVIOUS
  <2>. DEFINE y == F[<<g[n], n + 1>>]
              h == [i \in 0..(n + 1) |-> IF i <= n THEN g[i] ELSE y]
  <2>3. y \in S
    BY <2>1
  <2>. HIDE DEF y, N
  <2>4. h \in [0..(n + 1) -> S]
    BY <2>1, <2>3
  <2>5. h[0] = x /\ h[n + 1] = y /\ h[n] = g[n]
    BY <2>1, <2>2 DEF Repeats
  <2>6. ASSUME NEW i \in 1..(n + 1)  PROVE h[i] = F[<<h[i - 1], i>>]
    <3>1. CASE i = n + 1
      <4>1. i - 1 = n
        BY <2>1, <3>1
      <4>. QED
        BY <2>5, <3>1, <4>1 DEF y
    <3>2. CASE i # n + 1
      <4>1. i \in 1..n /\ i - 1 \in 0..n /\ i \in 0..n
        BY <2>1, <3>2
      <4>2. h[i] = g[i] /\ h[i - 1] = g[i - 1]
        BY <2>1, <4>1
      <4>. QED
        BY <2>2, <4>1, <4>2 DEF Repeats
    <3>. QED
      BY <3>1, <3>2
  <2>. HIDE DEF h
  <2>7. Repeats(F, x, n + 1, h)
    BY <2>5, <2>6 DEF Repeats
  <2>. QED
    BY <2>1, <2>4, <2>7 DEF N
<1>. HIDE DEF N
<1>3. N \in SUBSET Nat
  BY DEF N
<1>4. N = Nat
  BY <1>1, <1>2, <1>3, Induction
<1>. QED
  BY <1>4 DEF N
=============================================================================
