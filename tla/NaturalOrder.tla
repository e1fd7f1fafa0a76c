---------------------------- MODULE NaturalOrder ----------------------------
(***************************************************************************)
(* Facts about natural numbers that the proofs of several components need: *)
(* least elements, induction over a set, and functions that are defined by *)
(* iteration.  They are stated of sets and functions, never of operators.  *)
(***************************************************************************)
EXTENDS Integers, WellFoundedInduction, TLAPS

(* A set of natural numbers has a least element.                           *)
LEMMA LeastNatural ==
  ASSUME NEW S \in SUBSET Nat, S # {}
  PROVE  \E m \in S : \A n \in S : m <= n
<1> DEFINE R == OpToRel(<, Nat)
<1>1. IsWellFoundedOn(R, Nat)
  BY NatLessThanWellFounded
<1>2. PICK m \in S : \A n \in S : ~ (<<n, m>> \in R)
  <2> HIDE DEF R
  <2> QED BY <1>1, WFMin
<1>3. \A n \in S : ~ (n < m)
  BY <1>2 DEF OpToRel
<1> QED BY <1>3

(* Induction over the natural numbers.                                     *)
LEMMA SetOfAllNaturals ==
  ASSUME NEW S, 0 \in S, \A n \in Nat : n \in S => n + 1 \in S
  PROVE  Nat \subseteq S
<1> SUFFICES ASSUME Nat \ S # {} PROVE FALSE
  OBVIOUS
<1>1. PICK m \in Nat \ S : \A n \in Nat \ S : m <= n
  BY LeastNatural
<1>2. m # 0 /\ m - 1 \in Nat /\ m - 1 \in S
  BY <1>1
<1>3. (m - 1) + 1 \in S
  BY <1>2
<1> QED BY <1>1, <1>3

(* h is what G makes of x, up to the n-th time.                            *)
IteratedUpTo(h, S, x, G, n) ==
  /\ h \in [0 .. n -> S]
  /\ h[0] = x
  /\ \A i \in 1 .. n : h[i] = G[h[i - 1]]

LEMMA IteratedAlike ==
  ASSUME NEW S, NEW x, NEW G, NEW a \in Nat, NEW b \in Nat, NEW g, NEW h,
         IteratedUpTo(g, S, x, G, a), IteratedUpTo(h, S, x, G, b)
  PROVE  \A n \in Nat : n <= a /\ n <= b => g[n] = h[n]
<1> DEFINE A == {n \in Nat : n <= a /\ n <= b => g[n] = h[n]}
<1>1. 0 \in A
  BY DEF IteratedUpTo
<1>2. ASSUME NEW n \in Nat, n \in A PROVE n + 1 \in A
  <2> SUFFICES ASSUME n + 1 <= a, n + 1 <= b PROVE g[n + 1] = h[n + 1]
    OBVIOUS
  <2>1. g[n] = h[n]
    BY <1>2
  <2>2. n + 1 \in 1 .. a /\ n + 1 \in 1 .. b /\ (n + 1) - 1 = n
    OBVIOUS
  <2> QED BY <2>1, <2>2 DEF IteratedUpTo
<1>3. Nat \subseteq A
  <2> HIDE DEF A
  <2> QED BY <1>1, <1>2, SetOfAllNaturals
<1> QED BY <1>3

LEMMA IteratedExists ==
  ASSUME NEW S, NEW x \in S, NEW G \in [S -> S]
  PROVE  \A n \in Nat : \E h : IteratedUpTo(h, S, x, G, n)
<1> DEFINE A == {n \in Nat : \E h : IteratedUpTo(h, S, x, G, n)}
<1>1. 0 \in A
  <2>1. IteratedUpTo([i \in 0 .. 0 |-> x], S, x, G, 0)
    BY DEF IteratedUpTo
  <2> QED BY <2>1
<1>2. ASSUME NEW n \in Nat, n \in A PROVE n + 1 \in A
  <2>1. PICK h : IteratedUpTo(h, S, x, G, n)
    BY <1>2
  <2> DEFINE k == [i \in 0 .. n + 1 |-> IF i = n + 1 THEN G[h[n]] ELSE h[i]]
  <2>2. h[n] \in S /\ G[h[n]] \in S
    BY <2>1 DEF IteratedUpTo
  <2>3. k \in [0 .. n + 1 -> S] /\ k[0] = x
    BY <2>1, <2>2 DEF IteratedUpTo
  <2>4. ASSUME NEW i \in 1 .. n + 1 PROVE k[i] = G[k[i - 1]]
    <3>1. i - 1 \in 0 .. n /\ k[i - 1] = h[i - 1]
      OBVIOUS
    <3>2. CASE i = n + 1
      BY <3>1, <3>2
    <3>3. CASE i \in 1 .. n
      BY <3>1, <3>3, <2>1 DEF IteratedUpTo
    <3> QED BY <3>2, <3>3
  <2> HIDE DEF k
  <2>5. IteratedUpTo(k, S, x, G, n + 1)
    BY <2>3, <2>4 DEF IteratedUpTo
  <2> QED BY <2>5
<1>3. Nat \subseteq A
  <2> HIDE DEF A
  <2> QED BY <1>1, <1>2, SetOfAllNaturals
<1> QED BY <1>3

(* A function that is iterated within a set has one sequence of results,   *)
(* and they all lie in that set.                                           *)
LEMMA Iteration ==
  ASSUME NEW S, NEW x \in S, NEW G \in [S -> S]
  PROVE  \E h \in [Nat -> S] :
            \A n \in Nat : h[n] = IF n = 0 THEN x ELSE G[h[n - 1]]
<1> DEFINE part == [n \in Nat |-> CHOOSE h : IteratedUpTo(h, S, x, G, n)]
           all == [n \in Nat |-> part[n][n]]
<1>1. ASSUME NEW n \in Nat PROVE IteratedUpTo(part[n], S, x, G, n)
  BY IteratedExists
<1> HIDE DEF part
<1>2. ASSUME NEW n \in Nat PROVE all[n] \in S
  BY <1>1 DEF IteratedUpTo
<1>3. ASSUME NEW n \in Nat PROVE all[n] = IF n = 0 THEN x ELSE G[all[n - 1]]
  <2>1. CASE n = 0
    BY <2>1, <1>1 DEF IteratedUpTo
  <2>2. CASE n # 0
    <3>1. n - 1 \in Nat /\ n \in 1 .. n
      BY <2>2
    <3>2. part[n][n] = G[part[n][n - 1]]
      BY <3>1, <1>1 DEF IteratedUpTo
    <3>3. part[n][n - 1] = part[n - 1][n - 1]
      <4>1. PICK b, g, h :
              b \in Nat /\ b = n - 1 /\ g = part[n] /\ h = part[b]
        BY <3>1
      <4>2. b \in Nat /\ IteratedUpTo(g, S, x, G, n)
            /\ IteratedUpTo(h, S, x, G, b)
        BY <4>1, <1>1
      <4>3. \A m \in Nat : m <= n /\ m <= b => g[m] = h[m]
        BY <4>2, IteratedAlike
      <4> QED BY <4>1, <4>3
    <3> QED BY <2>2, <3>1, <3>2, <3>3
  <2> QED BY <2>1, <2>2
<1>4. all \in [Nat -> S]
  BY <1>2
<1> HIDE DEF all
<1> QED BY <1>3, <1>4
=============================================================================
