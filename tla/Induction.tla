---- MODULE Induction ----
(***************************************************************************)
(* Induction and recursion along 0..n.  The modules of the proofs cite     *)
(* these for what the recursive functions of the models compute: the       *)
(* induction theorems of the library take an operator, which no prover     *)
(* here instantiates, so the statements below are about sets.              *)
(***************************************************************************)
EXTENDS Integers, WellFoundedInduction, TLAPS

\* Every nonempty set of naturals has a least element.
LEMMA LeastElement ==
    ASSUME NEW T \in SUBSET Nat, T # {}
    PROVE  \E m \in T : \A n \in T : m <= n
<1> DEFINE R == {ss \in Nat \X Nat : ss[1] < ss[2]}
<1>1. IsWellFoundedOn(R, Nat)
  BY NatLessThanWellFounded DEF OpToRel
<1>2. \A x, y \in Nat : <<y, x>> \notin R => x <= y
  OBVIOUS
<1> HIDE DEF R
<1>3. \E x \in T : \A y \in T : ~ (<<y, x>> \in R)
  BY <1>1, WFMin
<1> QED  BY <1>2, <1>3

\* Induction up to n.
LEMMA UpTo ==
    ASSUME NEW n \in Nat, NEW T, 0 \in T, \A k \in 1..n : k - 1 \in T => k \in T
    PROVE  \A k \in 0..n : k \in T
<1> DEFINE Out == {k \in 0..n : k \notin T}
<1> SUFFICES ASSUME Out # {} PROVE FALSE
  OBVIOUS
<1>0. Out \in SUBSET Nat
  OBVIOUS
<1> HIDE DEF Out
<1>1. PICK m \in Out : \A k \in Out : m <= k
  BY <1>0, LeastElement
<1> USE DEF Out
<1>2. m \in 1..n
  BY <1>1
<1>3. m - 1 \in 0..n /\ m - 1 \notin Out
  BY <1>1, <1>2
<1> QED  BY <1>1, <1>2, <1>3

\* A recursive definition along 0..n has a function that satisfies it.
StepsIn(g, n, S) == g \in [S \X (1..n) -> S]
Follows(f, n, t, g) == f[0] = t /\ \A k \in 1..n : f[k] = g[<<f[k - 1], k>>]

LEMMA RecursionUpTo ==
    ASSUME NEW n \in Nat, NEW S, NEW t \in S, NEW g, StepsIn(g, n, S)
    PROVE  \E f \in [0..n -> S] : Follows(f, n, t, g)
<1> DEFINE T == {m \in 0..n : \E f \in [0..m -> S] : Follows(f, m, t, g)}
<1>1. 0 \in T
  <2> DEFINE h == [k \in 0..0 |-> t]
  <2>1. h \in [0..0 -> S] /\ Follows(h, 0, t, g)
    BY DEF Follows
  <2> HIDE DEF h
  <2> QED  BY <2>1
<1>2. ASSUME NEW m \in 1..n, m - 1 \in T PROVE m \in T
  <2>1. PICK f \in [0..(m - 1) -> S] : Follows(f, m - 1, t, g)
    BY <1>2
  <2>2. g[<<f[m - 1], m>>] \in S
    BY DEF StepsIn
  <2> DEFINE h == [k \in 0..m |-> IF k = m THEN g[<<f[m - 1], m>>] ELSE f[k]]
  <2>3. h \in [0..m -> S]
    BY <2>2
  <2>4. h[0] = t
    BY <2>1 DEF Follows
  <2>5. ASSUME NEW k \in 1..m PROVE h[k] = g[<<h[k - 1], k>>]
    <3>1. h[k - 1] = f[k - 1]
      OBVIOUS
    <3>2. CASE k = m
      <4>1. h[k] = g[<<f[k - 1], k>>]
        BY <3>2
      <4> HIDE DEF h
      <4> QED  BY <3>1, <4>1
    <3>3. CASE k # m
      <4>1. k \in 1..(m - 1) /\ h[k] = f[k]
        BY <3>3
      <4> QED  BY <2>1, <3>1, <4>1 DEF Follows
    <3> QED  BY <3>2, <3>3
  <2> HIDE DEF h
  <2>6. Follows(h, m, t, g)
    BY <2>4, <2>5 DEF Follows
  <2> QED  BY <2>3, <2>6
<1> HIDE DEF T
<1>3. n \in T
  BY <1>1, <1>2, UpTo
<1> QED  BY <1>3 DEF T

\* What holds of the first value of a sequence of values, and from each to the next, holds of
\* the last.
LEMMA AlongTheWay ==
    ASSUME NEW n \in Nat, NEW f, NEW J, <<0, f[0]>> \in J,
           \A k \in 1..n : <<k - 1, f[k - 1]>> \in J => <<k, f[k]>> \in J
    PROVE  <<n, f[n]>> \in J
<1> DEFINE T == {k \in 0..n : <<k, f[k]>> \in J}
<1>1. 0 \in T /\ \A k \in 1..n : k - 1 \in T => k \in T
  OBVIOUS
<1> HIDE DEF T
<1>2. n \in T
  BY <1>1, UpTo
<1> QED  BY <1>2 DEF T
====
