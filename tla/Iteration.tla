------------------------------ MODULE Iteration ------------------------------
(***************************************************************************)
(* Induction and recursion over the natural numbers, stated of sets and    *)
(* functions: what a function that is defined by recursion on Nat needs to *)
(* be unfolded, and the least number that satisfies a condition.           *)
(***************************************************************************)
EXTENDS Integers, TLAPS, WellFoundedInduction

\* A set of natural numbers that is not empty has a least one.
LEMMA LeastOf ==
    ASSUME NEW S, S \subseteq Nat, S # {}
    PROVE  \E n \in S : \A m \in S : n <= m
<1>1. PICK n \in S : \A m \in S : ~ (<<m, n>> \in OpToRel(<, Nat))
  BY NatLessThanWellFounded, WFMin, Zenon
<1>2. \A m \in S : ~(m < n)
  BY <1>1 DEF OpToRel
<1>3. \A m \in S : m \in Nat
  OBVIOUS
<1> QED BY <1>2, <1>3

\* Induction: a set that holds 0 and the successor of each of its numbers
\* holds them all.
LEMMA Induct ==
    ASSUME NEW S, 0 \in S, \A n \in Nat : n \in S => n + 1 \in S
    PROVE  Nat \subseteq S
<1> SUFFICES ASSUME Nat \ S # {} PROVE FALSE
  OBVIOUS
<1>1. PICK n \in Nat \ S : \A m \in Nat \ S : n <= m
  BY LeastOf
<1>2. n # 0 /\ n - 1 \in Nat /\ n - 1 \in S
  BY <1>1
<1> QED BY <1>1, <1>2

\* f begins with x and goes on by G, for n steps.
Iterates(f, x, G, n) == f[0] = x /\ \A k \in 1..n : f[k] = G[f[k - 1]]

\* It goes on for ever.
IteratesOn(f, x, G) == f[0] = x /\ \A k \in Nat : f[k + 1] = G[f[k]]

\* Functions that begin with x and go on by G for n steps exist.
LEMMA PrefixExists ==
    ASSUME NEW T, NEW x \in T, NEW G \in [T -> T], NEW n \in Nat
    PROVE  \E f \in [Nat -> T] : Iterates(f, x, G, n)
<1> DEFINE S == {m \in Nat : \E f \in [Nat -> T] : Iterates(f, x, G, m)}
<1>1. 0 \in S
  <2>1. [k \in Nat |-> x] \in [Nat -> T] /\ Iterates([k \in Nat |-> x], x, G, 0)
    BY DEF Iterates
  <2> QED BY <2>1
<1>2. ASSUME NEW m \in Nat, m \in S
      PROVE  m + 1 \in S
  <2>1. PICK f \in [Nat -> T] : Iterates(f, x, G, m)
    BY <1>2
  <2>2. PICK g \in [Nat -> T] : g = [f EXCEPT ![m + 1] = G[f[m]]]
    OBVIOUS
  <2>3. g[0] = x /\ g[m + 1] = G[f[m]] /\ \A k \in 0..m : g[k] = f[k]
    BY <2>1, <2>2 DEF Iterates
  <2>4. ASSUME NEW k \in 1..(m + 1)
        PROVE  g[k] = G[g[k - 1]]
    <3>1. CASE k = m + 1
      BY <2>3, <3>1
    <3>2. CASE k \in 1..m
      <4>1. g[k] = f[k] /\ g[k - 1] = f[k - 1] /\ f[k] = G[f[k - 1]]
        BY <2>1, <2>3, <3>2 DEF Iterates
      <4> QED BY <4>1
    <3> QED BY <3>1, <3>2
  <2>5. Iterates(g, x, G, m + 1)
    BY <2>3, <2>4 DEF Iterates
  <2> QED BY <2>5
<1> HIDE DEF S
<1>3. Nat \subseteq S
  BY <1>1, <1>2, Induct
<1> QED BY <1>3 DEF S

\* Recursion: the function that begins with x and goes on by G exists.
LEMMA IterationExists ==
    ASSUME NEW T, NEW x \in T, NEW G \in [T -> T]
    PROVE  \E f \in [Nat -> T] : IteratesOn(f, x, G)
<1>0. \A n \in Nat : \E h \in [Nat -> T] : Iterates(h, x, G, n)
  BY PrefixExists
<1> DEFINE pre == [n \in Nat |-> CHOOSE h \in [Nat -> T] : Iterates(h, x, G, n)]
           f == [n \in Nat |-> pre[n][n]]
<1>1. ASSUME NEW n \in Nat
      PROVE  pre[n] \in [Nat -> T] /\ Iterates(pre[n], x, G, n)
  <2>1. \E h \in [Nat -> T] : Iterates(h, x, G, n)
    BY <1>0
  <2> QED BY <2>1
<1> HIDE DEF pre
<1>2. ASSUME NEW n \in Nat
      PROVE  pre[n][n] = pre[n + 1][n]
  <2> DEFINE S == {k \in Nat : k <= n => pre[n][k] = pre[n + 1][k]}
  <2>1. 0 \in S
    BY <1>1 DEF Iterates
  <2>2. ASSUME NEW k \in Nat, k \in S
        PROVE  k + 1 \in S
    <3> SUFFICES ASSUME k + 1 <= n PROVE pre[n][k + 1] = pre[n + 1][k + 1]
      OBVIOUS
    <3>1. /\ pre[n][k] = pre[n + 1][k] /\ (k + 1) - 1 = k
          /\ k + 1 \in 1..n /\ k + 1 \in 1..(n + 1)
      BY <2>2
    <3>2. pre[n][k + 1] = G[pre[n][k]]
      BY <1>1, <3>1 DEF Iterates
    <3>3. pre[n + 1][k + 1] = G[pre[n + 1][k]]
      BY <1>1, <3>1 DEF Iterates
    <3> QED BY <3>1, <3>2, <3>3
  <2> HIDE DEF S
  <2>3. Nat \subseteq S
    BY <2>1, <2>2, Induct
  <2> QED BY <2>3 DEF S
<1>3. f \in [Nat -> T] /\ f[0] = x
  BY <1>1 DEF Iterates
<1>4. ASSUME NEW k \in Nat
      PROVE  f[k + 1] = G[f[k]]
  <2>1. k + 1 \in Nat /\ (k + 1) - 1 = k /\ k + 1 \in 1..(k + 1)
    OBVIOUS
  <2>2. pre[k][k] = pre[k + 1][k]
    BY <1>2
  <2>3. pre[k + 1][k + 1] = G[pre[k + 1][k]]
    BY <1>1, <2>1 DEF Iterates
  <2> QED BY <2>1, <2>2, <2>3
<1> HIDE DEF f
<1> QED BY <1>3, <1>4 DEF IteratesOn
=============================================================================
