----------------------------- MODULE Induction ------------------------------
(***************************************************************************)
(* Induction over the natural numbers without an operator for the property *)
(* that is proved: sets stand for properties, functions for the steps of a *)
(* recursion.                                                              *)
(***************************************************************************)
EXTENDS Integers, WellFoundedInduction, TLAPS

(* Every set of natural numbers has a least one.                           *)
LEMMA Least ==
    ASSUME NEW T \in SUBSET Nat, T # {}
    PROVE  \E n \in T : \A m \in T : n <= m
<1>1. PICK n \in T : \A m \in T : <<m, n>> \notin OpToRel(<, Nat)
  BY WFMin, NatLessThanWellFounded
<1>2. \A m \in T : ~(m < n)
  BY <1>1 DEF OpToRel
<1> QED BY <1>2

(* A set with 0 and the successor of each of its numbers has them all.     *)
LEMMA Successors ==
    ASSUME NEW T, 0 \in T, \A n \in Nat : n \in T => n + 1 \in T
    PROVE  \A n \in Nat : n \in T
<1> SUFFICES ASSUME Nat \ T # {} PROVE FALSE
  OBVIOUS
<1>1. PICK n \in Nat \ T : \A m \in Nat \ T : n <= m
  BY Least
<1>2. n - 1 \in Nat /\ (n - 1) + 1 = n /\ ~(n <= n - 1)
  BY <1>1
<1>3. n - 1 \in T
  BY <1>1, <1>2
<1> QED BY <1>1, <1>2, <1>3

(* The same up to a bound.                                                 *)
LEMMA SuccessorsUpTo ==
    ASSUME NEW N \in Nat, NEW T, 0 \in T, \A n \in 0..(N - 1) : n \in T => n + 1 \in T
    PROVE  \A n \in 0..N : n \in T
<1> DEFINE U == {n \in Nat : n <= N => n \in T}
<1>1. 0 \in U
  OBVIOUS
<1>2. ASSUME NEW n \in Nat, n \in U PROVE n + 1 \in U
  <2>1. CASE n + 1 <= N
    <3>1. n <= N /\ n \in 0..(N - 1)
      BY <2>1
    <3> QED BY <3>1, <1>2
  <2>2. CASE ~(n + 1 <= N)
    BY <2>2
  <2> QED BY <2>1, <2>2
<1>3. \A n \in Nat : n \in U
  <2> HIDE DEF U
  <2> QED BY <1>1, <1>2, Successors
<1> QED BY <1>3

(* A first value and a step make a function: F maps a number and the value *)
(* there to the value at its successor.                                    *)
Iterates(f, S, s, F) ==
    f \in [Nat -> S] /\ f[0] = s /\ \A n \in Nat : f[n + 1] = F[<<n, f[n]>>]

LEMMA Iteration ==
    ASSUME NEW S, NEW s, NEW F, s \in S, F \in [Nat \X S -> S]
    PROVE  \E f : Iterates(f, S, s, F)
<1> DEFINE Starts(g, n) == /\ g \in [0..n -> S] /\ g[0] = s
                           /\ \A i \in 0..(n - 1) : g[i + 1] = F[<<i, g[i]>>]
           T == {n \in Nat : \E g : Starts(g, n)}
<1>1. 0 \in T
  <2>1. Starts([i \in 0..0 |-> s], 0)
    OBVIOUS
  <2> QED BY <2>1
<1>2. ASSUME NEW n \in Nat, n \in T PROVE n + 1 \in T
  <2>1. PICK g : Starts(g, n)
    BY <1>2
  <2> DEFINE h == [i \in 0..(n + 1) |-> IF i <= n THEN g[i] ELSE F[<<n, g[n]>>]]
  <2>2. h \in [0..(n + 1) -> S]
    <3>1. g[n] \in S
      BY <2>1
    <3> QED BY <2>1, <3>1
  <2>3. h[0] = s
    BY <2>1
  <2>4. ASSUME NEW i \in 0..n PROVE h[i + 1] = F[<<i, h[i]>>]
    <3>1. CASE i < n
      <4>1. i \in 0..(n - 1) /\ i + 1 <= n /\ i + 1 \in 0..(n + 1) /\ i \in 0..(n + 1)
        BY <3>1
      <4> QED BY <2>1, <4>1
    <3>2. CASE i = n
      BY <3>2
    <3> QED BY <3>1, <3>2
  <2>5. Starts(h, n + 1)
    <3>1. (n + 1) - 1 = n
      OBVIOUS
    <3> HIDE DEF h
    <3> QED BY <2>2, <2>3, <2>4, <3>1
  <2>6. \E k : Starts(k, n + 1)
    <3> HIDE DEF h, Starts
    <3> QED BY <2>5
  <2> QED
    <3> HIDE DEF h, Starts
    <3> QED BY <2>6
<1>3. \A n \in Nat : \E g : Starts(g, n)
  <2>1. \A n \in Nat : n \in T
    <3> HIDE DEF T
    <3> QED BY <1>1, <1>2, Successors
  <2> QED BY <2>1
<1>4. ASSUME NEW n \in Nat, NEW m \in Nat, n <= m, NEW g, NEW h, Starts(g, n), Starts(h, m)
      PROVE  \A i \in 0..n : g[i] = h[i]
  <2> DEFINE U == {i \in 0..n : g[i] = h[i]}
  <2>1. 0 \in U
    BY <1>4
  <2>2. ASSUME NEW i \in 0..(n - 1), i \in U PROVE i + 1 \in U
    <3>1. i \in 0..(m - 1) /\ i + 1 \in 0..n
      BY <1>4
    <3>2. g[i + 1] = F[<<i, g[i]>>] /\ h[i + 1] = F[<<i, h[i]>>]
      BY <1>4, <3>1
    <3> QED BY <2>2, <3>1, <3>2
  <2>3. \A i \in 0..n : i \in U
    <3> HIDE DEF U
    <3> QED BY <2>1, <2>2, SuccessorsUpTo
  <2> QED BY <2>3
<1> DEFINE G(n) == CHOOSE g : Starts(g, n)
           f == [n \in Nat |-> G(n)[n]]
<1>5. \A n \in Nat : Starts(G(n), n)
  BY <1>3
<1> HIDE DEF G
<1>6. f \in [Nat -> S]
  BY <1>5
<1>7. f[0] = s
  BY <1>5
<1>8. ASSUME NEW n \in Nat PROVE f[n + 1] = F[<<n, f[n]>>]
  <2>1. Starts(G(n), n) /\ Starts(G(n + 1), n + 1)
    BY <1>5
  <2>2. G(n)[n] = G(n + 1)[n]
    <3>1. n <= n + 1 /\ n + 1 \in Nat /\ n \in 0..n
      OBVIOUS
    <3> HIDE DEF Starts
    <3> QED BY <1>4, <2>1, <3>1
  <2>3. n \in 0..((n + 1) - 1)
    OBVIOUS
  <2>4. G(n + 1)[n + 1] = F[<<n, G(n + 1)[n]>>]
    BY <2>1, <2>3
  <2> QED BY <2>2, <2>4
<1> HIDE DEF f
<1> QED BY <1>6, <1>7, <1>8 DEF Iterates
=============================================================================
