------------------------------- MODULE Induction -------------------------------
(***************************************************************************)
(* Induction and recursion over the natural numbers, stated about sets and *)
(* functions instead of operators, so that the provers can use them.       *)
(***************************************************************************)
EXTENDS FiniteSetsExt, WellFoundedInduction, TLAPS

\* The order of the naturals is well-founded.
LEMMA LessIsWellFounded == IsWellFoundedOn({p \in Nat \X Nat : p[1] < p[2]}, Nat)
BY NatLessThanWellFounded DEF OpToRel

\* A set of natural numbers that is not empty has a least element.
LEMMA Least ==
  ASSUME NEW S \in SUBSET Nat, S # {}
  PROVE  \E n \in S : \A m \in S : n <= m
<1> DEFINE R == {p \in Nat \X Nat : p[1] < p[2]}
<1>1. \A m, n \in Nat : <<m, n>> \in R <=> m < n
  OBVIOUS
<1>2. PICK n \in S : \A m \in S : <<m, n>> \notin R
  <2> HIDE DEF R
  <2> QED
    BY LessIsWellFounded, WFMin DEF R
<1>3. \A m \in S : ~ (m < n)
  <2> HIDE DEF R
  <2> QED
    BY <1>1, <1>2
<1> QED
  BY <1>3

\* Induction over the naturals, the property given as a set.
LEMMA SetInduction ==
  ASSUME NEW S, 0 \in S, \A n \in Nat : n \in S => n + 1 \in S
  PROVE  Nat \subseteq S
<1> SUFFICES ASSUME Nat \ S # {} PROVE FALSE
  OBVIOUS
<1>1. PICK n \in Nat \ S : \A m \in Nat \ S : n <= m
  BY Least
<1>2. n - 1 \in Nat /\ n - 1 \in S
  BY <1>1
<1> QED
  BY <1>2

\* Likewise for the numbers up to N.
LEMMA BoundedInduction ==
  ASSUME NEW N \in Nat, NEW S, 0 \in S,
         \A n \in 0..(N - 1) : n \in S => n + 1 \in S
  PROVE  0..N \subseteq S
<1> DEFINE T == {n \in Nat : n <= N => n \in S}
<1>1. Nat \subseteq T
  <2>1. 0 \in T
    OBVIOUS
  <2>2. \A n \in Nat : n \in T => n + 1 \in T
    OBVIOUS
  <2> HIDE DEF T
  <2> QED
    BY <2>1, <2>2, SetInduction
<1> QED
  BY <1>1

\* The least and the greatest element of a bounded set.
LEMMA MinIsLeast ==
  ASSUME NEW S \in SUBSET Nat, S # {}
  PROVE  /\ Min(S) \in S
         /\ \A x \in S : Min(S) <= x
BY Least DEF Min

\* Likewise for Max.
LEMMA MaxIsGreatest ==
  ASSUME NEW N \in Nat, NEW S \in SUBSET (0..N), S # {}
  PROVE  /\ Max(S) \in S
         /\ \A x \in S : x <= Max(S)
<1>1. PICK d \in {n \in Nat : N - n \in S} : \A e \in {n \in Nat : N - n \in S} : d <= e
  <2>1. PICK x \in S : TRUE
    OBVIOUS
  <2>2. N - x \in Nat /\ N - (N - x) = x
    OBVIOUS
  <2> QED
    BY <2>1, <2>2, Least
<1>2. N - d \in S /\ \A x \in S : x <= N - d
  <2> SUFFICES ASSUME NEW x \in S PROVE x <= N - d
    BY <1>1
  <2>1. N - x \in Nat /\ N - (N - x) = x
    OBVIOUS
  <2> QED
    BY <1>1, <2>1
<1> QED
  BY <1>2 DEF Max

\* f has the value base at 0, and at every other number up to N that which step
\* makes of its value at the number before.
Follows(f, N, S, base, step) ==
  /\ f \in [0..N -> S]
  /\ f[0] = base
  /\ \A n \in 1..N : f[n] = step[<<n, f[n - 1]>>]

\* A recursive function of the naturals follows its definition.
LEMMA Recursion ==
  ASSUME NEW N \in Nat, NEW S, NEW base \in S, NEW step \in [(1..N) \X S -> S]
  PROVE  \E f : Follows(f, N, S, base, step)
<1> DEFINE T == {n \in 0..N : \E f : Follows(f, n, S, base, step)}
<1>1. 0 \in T
  <2>1. Follows([k \in 0..0 |-> base], 0, S, base, step)
    BY DEF Follows
  <2> QED
    BY <2>1
<1>2. ASSUME NEW n \in 0..(N - 1), n \in T
      PROVE  n + 1 \in T
  <2>1. PICK f : Follows(f, n, S, base, step)
    BY <1>2
  <2> DEFINE g == [k \in 0..(n + 1) |-> IF k = n + 1 THEN step[<<k, f[k - 1]>>] ELSE f[k]]
  <2>2. f[n] \in S /\ step[<<n + 1, f[n]>>] \in S
    BY <2>1 DEF Follows
  <2>3. g \in [0..(n + 1) -> S]
    BY <2>1, <2>2 DEF Follows
  <2>4. Follows(g, n + 1, S, base, step)
    BY <2>1, <2>3 DEF Follows
  <2> QED
    BY <2>4
<1>3. N \in T
  <2> HIDE DEF T
  <2> QED
    BY <1>1, <1>2, BoundedInduction
<1> QED
  BY <1>3
=============================================================================
