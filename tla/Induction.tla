------------------------------- MODULE Induction -------------------------------
(***************************************************************************)
(* Induction on natural numbers, stated of sets rather than of predicates, *)
(* so that the provers can instantiate it: to show that P holds for every  *)
(* number, apply SetInduction to the set {n \in Nat : P(n)}; definitions   *)
(* by recursion on 0..n; and the length of sequences without repetition.   *)
(***************************************************************************)
EXTENDS Naturals, Sequences, FiniteSetTheorems, TLAPS

(* A set of natural numbers that is not empty has a least element.         *)
LEMMA LeastElement ==
  ASSUME NEW T, T \subseteq Nat, T # {}
  PROVE  \E x \in T : \A y \in T : x <= y
<1>1. PICK x \in T : \A y \in T : ~ (<<y, x>> \in OpToRel(<, Nat))
  BY NatLessThanWellFounded, WFMin
<1>2. \A y \in T : y < x => <<y, x>> \in OpToRel(<, Nat)
  BY DEF OpToRel
<1>3. \A y \in T : ~ (y < x)
  BY <1>1, <1>2
<1> QED  BY <1>3

(* Induction.                                                              *)
LEMMA SetInduction ==
  ASSUME NEW T, 0 \in T, \A n \in Nat : n \in T => n + 1 \in T
  PROVE  Nat \subseteq T
<1> SUFFICES ASSUME Nat \ T # {} PROVE FALSE
  OBVIOUS
<1>1. PICK x \in Nat \ T : \A y \in Nat \ T : x <= y
  BY LeastElement
<1>2. x - 1 \in Nat /\ x - 1 \in T
  BY <1>1
<1> QED  BY <1>1, <1>2

(* A recurrence of n steps over the set T has a solution.  Its parts are   *)
(* named so that the provers find the instance.                            *)
Recurrence(T, x, n, next) == x \in T /\ n \in Nat /\ next \in [1..n -> [T -> T]]

Solves(f, T, x, n, next) ==
  f \in [0..n -> T] /\ f[0] = x /\ \A i \in 1..n : f[i] = next[i][f[i - 1]]

LEMMA Recursion ==
  ASSUME NEW T, NEW x, NEW n, NEW next, Recurrence(T, x, n, next)
  PROVE  \E f : Solves(f, T, x, n, next)
<1> USE DEF Recurrence
<1> DEFINE Def(f, m) == f[0] = x /\ \A i \in 1..m : f[i] = next[i][f[i - 1]]
           S == {m \in Nat : m <= n => \E f \in [0..m -> T] : Def(f, m)}
<1>1. 0 \in S
  <2>1. [i \in 0..0 |-> x] \in [0..0 -> T] /\ Def([i \in 0..0 |-> x], 0)
    OBVIOUS
  <2> QED  BY <2>1
<1>2. \A m \in Nat : m \in S => m + 1 \in S
  <2> SUFFICES ASSUME NEW m \in S, m + 1 <= n
               PROVE  \E f \in [0..m + 1 -> T] : Def(f, m + 1)
    OBVIOUS
  <2>1. PICK f \in [0..m -> T] : Def(f, m)
    OBVIOUS
  <2> DEFINE g == [i \in 0..m + 1 |-> IF i = m + 1 THEN next[m + 1][f[m]] ELSE f[i]]
  <2>2. g \in [0..m + 1 -> T]
    OBVIOUS
  <2>3. g[m + 1] = next[m + 1][f[m]] /\ \A i \in 0..m : g[i] = f[i]
    OBVIOUS
  <2> HIDE DEF g
  <2>4. Def(g, m + 1)
    <3>1. \A i \in 1..m : g[i] = next[i][g[i - 1]]
      BY <2>1, <2>3
    <3>2. g[m + 1] = next[m + 1][g[(m + 1) - 1]]
      BY <2>3
    <3> QED  BY <2>1, <2>3, <3>1, <3>2
  <2> QED  BY <2>2, <2>4
<1>3. n \in S
  <2> HIDE DEF S
  <2> QED  BY <1>1, <1>2, SetInduction
<1> QED  BY <1>3 DEF Solves

(* A sequence without repetition is not longer than there are elements.    *)
LEMMA NoRepetition ==
  ASSUME NEW T, IsFiniteSet(T), NEW s \in Seq(T),
         \A i, j \in 1..Len(s) : s[i] = s[j] => i = j
  PROVE  Len(s) <= Cardinality(T)
<1>1. Len(s) \in Nat /\ s \in [1..Len(s) -> T] OBVIOUS
<1>2. s \in Injection(1..Len(s), T) BY <1>1 DEF Injection, IsInjective
<1>3. Cardinality(1..Len(s)) <= Cardinality(T) BY <1>2, FS_Injection
<1>4. Cardinality(1..Len(s)) = Len(s) BY <1>1, FS_Interval
<1> QED BY <1>3, <1>4

(* There are not more elements than the sequence is long.                  *)
LEMMA FewElements ==
  ASSUME NEW T, NEW s \in Seq(T)
  PROVE  LET S == {s[i] : i \in 1..Len(s)}
         IN  IsFiniteSet(S) /\ Cardinality(S) <= Len(s)
<1> DEFINE S == {s[i] : i \in 1..Len(s)}
<1>1. Len(s) \in Nat /\ DOMAIN s = 1..Len(s) /\ s \in [1..Len(s) -> S]
  OBVIOUS
<1>2. s \in Surjection(1..Len(s), S) BY <1>1 DEF Surjection
<1>3. IsFiniteSet(1..Len(s)) /\ Cardinality(1..Len(s)) = Len(s) BY <1>1, FS_Interval
<1> HIDE DEF S
<1>4. IsFiniteSet(S) /\ Cardinality(S) <= Cardinality(1..Len(s))
  BY <1>2, <1>3, FS_Surjection
<1> QED BY <1>3, <1>4 DEF S

================================================================================
