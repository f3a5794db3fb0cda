------------------------------ MODULE Recursion ------------------------------
(***************************************************************************)
(* Induction over the natural numbers, and functions defined by recursion  *)
(* over them, without operator parameters: a predicate is given as the set *)
(* of the numbers that satisfy it, a recursive step as a function.         *)
(***************************************************************************)
EXTENDS Integers, WellFoundedInduction, TLAPS

\* A set with 0 that is closed under the successor has every number.
LEMMA NatInSet ==
    ASSUME NEW S, 0 \in S, \A n \in Nat : n \in S => n + 1 \in S
    PROVE  \A n \in Nat : n \in S
  <1> DEFINE T == Nat \ S
             R == OpToRel(<, Nat)
  <1>1. SUFFICES ASSUME T # {} PROVE FALSE
    OBVIOUS
  <1>2. PICK x \in T : \A y \in T : ~ (<<y, x>> \in R)
    <2>1. IsWellFoundedOn(R, Nat)
      BY NatLessThanWellFounded
    <2>2. T \subseteq Nat
      OBVIOUS
    <2> HIDE DEF T, R
    <2> QED
      BY <1>1, <2>1, <2>2, WFMin
  <1>3. x \in Nat /\ x # 0 /\ x - 1 \in Nat
    OBVIOUS
  <1>4. x - 1 \in T
    <2>1. x - 1 \in S => (x - 1) + 1 \in S
      BY <1>3
    <2> QED
      BY <1>3, <2>1
  <1>5. <<x - 1, x>> \in R
    BY <1>3 DEF OpToRel
  <1> QED
    BY <1>2, <1>4, <1>5

-----------------------------------------------------------------------------
(* f[0] = c and f[n] = H[n][f[n - 1]].                                       *)

Recurses(f, c, H) ==
    f[0] = c /\ \A n \in Nat : f[n + 1] = H[n + 1][f[n]]

\* Such a function on 0 .. n.
Starts(f, n, c, H) ==
    /\ f[0] = c
    /\ \A i \in 1 .. n : f[i] = H[i][f[i - 1]]

\* Two of them agree as far as both go.
LEMMA StartsAgree ==
    ASSUME NEW c, NEW H, NEW m \in Nat, NEW f, NEW g,
           Starts(f, m, c, H), Starts(g, m, c, H)
    PROVE  \A i \in 0 .. m : f[i] = g[i]
  <1> DEFINE S == {i \in Nat : i <= m => f[i] = g[i]}
  <1>1. 0 \in S
    BY DEF Starts
  <1>2. ASSUME NEW i \in Nat, i \in S PROVE i + 1 \in S
    <2> SUFFICES ASSUME i + 1 <= m PROVE f[i + 1] = g[i + 1]
      OBVIOUS
    <2>1. f[i] = g[i] /\ i + 1 \in 1 .. m /\ (i + 1) - 1 = i
      BY <1>2
    <2> QED
      BY <2>1 DEF Starts
  <1> HIDE DEF S
  <1>3. \A i \in Nat : i \in S
    BY <1>1, <1>2, NatInSet
  <1> QED
    BY <1>3 DEF S

\* There is one for every n.
LEMMA StartExists ==
    ASSUME NEW T, NEW c \in T, NEW H \in [Nat -> [T -> T]]
    PROVE  \A n \in Nat : \E f \in [Nat -> T] : Starts(f, n, c, H)
  <1> DEFINE S == {n \in Nat : \E f \in [Nat -> T] : Starts(f, n, c, H)}
  <1>1. 0 \in S
    <2>1. [i \in Nat |-> c] \in [Nat -> T] /\ Starts([i \in Nat |-> c], 0, c, H)
      BY DEF Starts
    <2> QED
      BY <2>1
  <1>2. ASSUME NEW n \in Nat, n \in S PROVE n + 1 \in S
    <2>1. PICK f \in [Nat -> T] : Starts(f, n, c, H)
      BY <1>2
    <2> DEFINE g == [f EXCEPT ![n + 1] = H[n + 1][f[n]]]
    <2>2. H[n + 1][f[n]] \in T
      OBVIOUS
    <2>3. g \in [Nat -> T]
      BY <2>2
    <2>4. g[0] = c
      BY <2>1 DEF Starts
    <2>5. ASSUME NEW i \in 1 .. n + 1 PROVE g[i] = H[i][g[i - 1]]
      <3>1. CASE i = n + 1
        BY <3>1
      <3>2. CASE i \in 1 .. n
        <4>1. f[i] = H[i][f[i - 1]] /\ g[i] = f[i] /\ g[i - 1] = f[i - 1]
          BY <2>1, <3>2 DEF Starts
        <4> QED
          BY <4>1
      <3> QED
        BY <3>1, <3>2
    <2>6. Starts(g, n + 1, c, H)
      BY <2>4, <2>5 DEF Starts
    <2> HIDE DEF g
    <2> QED
      BY <2>3, <2>6
  <1> HIDE DEF S
  <1>3. \A n \in Nat : n \in S
    BY <1>1, <1>2, NatInSet
  <1> QED
    BY <1>3 DEF S

\* A function defined by recursion exists and is what its definition says.
LEMMA RecursiveFunction ==
    ASSUME NEW T, NEW c \in T, NEW H \in [Nat -> [T -> T]]
    PROVE  \E f \in [Nat -> T] : Recurses(f, c, H)
  <1> DEFINE p[n \in Nat] == CHOOSE g \in [Nat -> T] : Starts(g, n, c, H)
             f == [n \in Nat |-> p[n][n]]
  <1>1. \A n \in Nat : p[n] \in [Nat -> T] /\ Starts(p[n], n, c, H)
    BY StartExists
  <1> HIDE DEF p
  <1>2. f \in [Nat -> T]
    BY <1>1
  <1>3. f[0] = c
    BY <1>1 DEF Starts
  <1>4. ASSUME NEW n \in Nat PROVE f[n + 1] = H[n + 1][f[n]]
    <2>1. Starts(p[n + 1], n, c, H)
      BY <1>1 DEF Starts
    <2>2. p[n + 1][n] = p[n][n]
      BY <1>1, <2>1, StartsAgree
    <2>3. p[n + 1][n + 1] = H[n + 1][p[n + 1][n]]
      <3>1. Starts(p[n + 1], n + 1, c, H) /\ n + 1 \in 1 .. n + 1 /\ (n + 1) - 1 = n
        BY <1>1
      <3> QED
        BY <3>1 DEF Starts
    <2> QED
      BY <2>2, <2>3
  <1> HIDE DEF f
  <1> QED
    BY <1>2, <1>3, <1>4 DEF Recurses
=============================================================================
