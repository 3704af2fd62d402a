--------------------------------- MODULE Sums ---------------------------------
(***************************************************************************)
(* What the proofs need to know of sums over finite sets.  The modules sum *)
(* balances, teams and bonds by folds; each fold is shown to be a          *)
(* SumFunctionOnSet, and the facts below are about that operator, about    *)
(* products and shares, about folds that compute other things than sums,   *)
(* about sequences that are joined and lists that name a set.              *)
(*                                                                         *)
(* Induction goes by sets of what it has been shown for, as the provers    *)
(* can instantiate a set but no predicate.                                 *)
(***************************************************************************)
EXTENDS SequencesExt, FiniteSetTheorems, SequenceTheorems, TLAPS

-----------------------------------------------------------------------------
(***************************************************************************)
(* Induction.                                                              *)
(***************************************************************************)

\* What holds of zero, and of the successor of a number it holds of, holds of
\* all natural numbers.
LEMMA NatSetInduction ==
    ASSUME NEW Q, 0 \in Q, \A n \in Nat : n \in Q => n + 1 \in Q
    PROVE  Nat \subseteq Q
<1> SUFFICES ASSUME Nat \ Q # {} PROVE FALSE
  OBVIOUS
<1>1. PICK n \in Nat \ Q : \A m \in Nat \ Q : ~(<<m, n>> \in OpToRel(<, Nat))
  BY NatLessThanWellFounded, WFMin
<1>2. \A m \in Nat \ Q : ~(m < n)
  BY <1>1 DEF OpToRel
<1>3. n # 0 /\ n - 1 \in Nat /\ n - 1 < n /\ n - 1 + 1 = n
  OBVIOUS
<1> QED
  BY <1>2, <1>3

\* What holds of a subset whenever it holds of it without any one of its
\* elements, holds of all subsets of a finite set.
LEMMA SubsetInduction ==
    ASSUME NEW S, IsFiniteSet(S), NEW Q,
           \A T \in SUBSET S : (\A x \in T : T \ {x} \in Q) => T \in Q
    PROVE  SUBSET S \subseteq Q
<1> SUFFICES ASSUME (SUBSET S) \ Q # {} PROVE FALSE
  OBVIOUS
<1>1. IsWellFoundedOn(StrictSubsetOrdering(S), SUBSET S)
  <2>1. FiniteSubsetsOf(S) = SUBSET S
    BY FS_FiniteSubsetsOfFinite
  <2>2. IsWellFoundedOn(StrictSubsetOrdering(S), FiniteSubsetsOf(S))
    BY FS_StrictSubsetOrderingWellFounded
  <2> QED
    BY <2>1, <2>2
<1>2. PICK T \in (SUBSET S) \ Q :
         \A U \in (SUBSET S) \ Q : ~(<<U, T>> \in StrictSubsetOrdering(S))
  BY <1>1, WFMin
<1>3. ASSUME NEW x \in T PROVE T \ {x} \in Q
  <2> DEFINE U == T \ {x}
  <2>1. U \in SUBSET S /\ U \subseteq T /\ U # T
    OBVIOUS
  <2>2. <<U, T>> \in StrictSubsetOrdering(S)
    BY <2>1 DEF StrictSubsetOrdering
  <2> QED
    BY <1>2, <2>1, <2>2
<1> QED
  BY <1>2, <1>3

\* Two functions of the subsets of a finite set agree if they do whenever they
\* agree on what is left without some element.
StayEqual(S, g, h) ==
    \A T \in SUBSET S : (\A x \in T : g[T \ {x}] = h[T \ {x}]) => g[T] = h[T]

LEMMA SubsetFunctionsAgree ==
    ASSUME NEW S, IsFiniteSet(S), NEW g, NEW h, StayEqual(S, g, h)
    PROVE  g[S] = h[S]
<1> DEFINE Q == {T \in SUBSET S : g[T] = h[T]}
<1>1. ASSUME NEW T \in SUBSET S, \A x \in T : T \ {x} \in Q
      PROVE  T \in Q
  BY <1>1 DEF StayEqual
<1> HIDE DEF Q
<1>2. SUBSET S \subseteq Q
  BY <1>1, SubsetInduction
<1> QED
  BY <1>2 DEF Q

-----------------------------------------------------------------------------
(***************************************************************************)
(* Products and quotients.                                                 *)
(***************************************************************************)

\* A quotient is natural and no more than its numerator allows.
LEMMA Quotient ==
    ASSUME NEW n \in Nat, NEW d \in Nat, d > 0
    PROVE  n \div d \in Nat /\ d * (n \div d) <= n
<1>1. n \div d \in Int /\ d * (n \div d) <= n /\ n < d * (n \div d) + d
  OBVIOUS
<1>2. n \div d >= 0
  <2>1. SUFFICES ASSUME n \div d < 0 PROVE FALSE
    BY <1>1
  <2>2. n \div d + 1 <= 0
    BY <1>1, <2>1
  <2>3. d * (n \div d + 1) <= 0
    BY <1>1, <2>2
  <2> QED
    BY <1>1, <2>3
<1> QED
  BY <1>1, <1>2

LEMMA ProductNat == ASSUME NEW a \in Nat, NEW b \in Nat PROVE a * b \in Nat
OBVIOUS

\* Products keep the order of their factors.
LEMMA ProductsOrdered ==
    ASSUME NEW a \in Nat, NEW b \in Nat, NEW c \in Nat, NEW d \in Nat,
           a <= b, c <= d
    PROVE  a * c <= b * d
<1>1. a * c <= b * c
  OBVIOUS
<1>2. b * c <= b * d
  OBVIOUS
<1>3. a * c \in Nat /\ b * c \in Nat /\ b * d \in Nat
  BY ProductNat
<1> QED
  BY <1>1, <1>2, <1>3

\* A factor can be left out on both sides.
LEMMA FactorCancels ==
    ASSUME NEW a \in Nat, NEW b \in Nat, NEW f \in Nat, f > 0, f * a <= f * b
    PROVE  a <= b
<1>1. SUFFICES ASSUME b + 1 <= a PROVE FALSE
  OBVIOUS
<1>2. f * (b + 1) <= f * a
  BY <1>1, ProductsOrdered
<1>3. f * (b + 1) = f * b + f
  OBVIOUS
<1>4. f * a \in Nat /\ f * b \in Nat
  BY ProductNat
<1> QED
  BY <1>2, <1>3, <1>4

\* Quotients by the same divisor keep the order.
LEMMA QuotientsOrdered ==
    ASSUME NEW m \in Nat, NEW n \in Nat, NEW d \in Nat, d > 0, m <= n
    PROVE  m \div d <= n \div d
<1> DEFINE q == m \div d
           r == n \div d
<1>1. q \in Nat /\ r \in Nat /\ d * q <= m
  BY Quotient
<1>2. n < d * r + d
  OBVIOUS
<1> HIDE DEF q, r
<1>3. ASSUME q > r PROVE FALSE
  <2>1. d * (r + 1) <= d * q
    BY <1>1, <1>3, ProductsOrdered
  <2>2. d * (r + 1) = d * r + d /\ d * r \in Nat /\ d * q \in Nat
    BY <1>1, ProductNat
  <2> QED
    BY <1>1, <1>2, <2>1, <2>2
<1>4. q <= r
  BY <1>1, <1>3
<1> QED
  BY <1>4 DEF q, r

-----------------------------------------------------------------------------
(***************************************************************************)
(* SumFunctionOnSet by its equation.                                       *)
(***************************************************************************)
AddsUp(g, f, D) ==
    g = [s \in SUBSET D |-> IF s = {} THEN 0
                            ELSE LET x == CHOOSE x \in s : TRUE
                                 IN  f[x] + g[s \ {x}]]

LEMMA SumIsChosen ==
    ASSUME NEW f, NEW D
    PROVE  SumFunctionOnSet(f, D) = (CHOOSE g : AddsUp(g, f, D))[D]
BY DEF SumFunctionOnSet, FoldFunctionOnSet, MapThenFoldSet, AddsUp

\* The sum of a finite set is that of one element and the rest.
SumEquation(f, s) ==
    SumFunctionOnSet(f, s) =
       IF s = {} THEN 0
       ELSE LET x == CHOOSE x \in s : TRUE
            IN  f[x] + SumFunctionOnSet(f, s \ {x})

LEMMA SumUnfolds ==
    ASSUME NEW f, NEW D, IsFiniteSet(D)
    PROVE  SumEquation(f, D)
<1> DEFINE Q == {T \in SUBSET D : \A s \in SUBSET T : SumEquation(f, s)}
<1>1. ASSUME NEW T \in SUBSET D, \A x \in T : T \ {x} \in Q
      PROVE  T \in Q
  <2> DEFINE sum(s) == SumFunctionOnSet(f, s)
             rhs == IF T = {} THEN 0
                    ELSE LET x == CHOOSE x \in T : TRUE IN f[x] + sum(T \ {x})
             g == [s \in SUBSET T |-> IF s = T THEN rhs ELSE sum(s)]
             h == CHOOSE k : AddsUp(k, f, T)
  <2>1. ASSUME NEW s \in SUBSET T, s # T PROVE SumEquation(f, s)
    <3>1. PICK x \in T : x \notin s
      BY <2>1
    <3>2. s \in SUBSET (T \ {x})
      BY <3>1
    <3> QED
      BY <1>1, <3>1, <3>2
  <2>2. AddsUp(g, f, T)
    <3>1. ASSUME NEW s \in SUBSET T
          PROVE  g[s] = IF s = {} THEN 0
                        ELSE LET x == CHOOSE x \in s : TRUE IN f[x] + g[s \ {x}]
      <4>1. CASE s = {}
        BY <2>1, <4>1 DEF SumEquation
      <4>2. CASE s # {}
        <5> DEFINE x == CHOOSE x \in s : TRUE
        <5>1. x \in s
          BY <4>2
        <5>2. s \ {x} \in SUBSET T /\ s \ {x} # T
          BY <5>1
        <5>3. g[s \ {x}] = sum(s \ {x})
          BY <5>2
        <5>4. g[s] = f[x] + sum(s \ {x})
          BY <2>1, <4>2 DEF SumEquation
        <5> QED
          BY <4>2, <5>3, <5>4
      <4> QED
        BY <4>1, <4>2
    <3> QED
      BY <3>1 DEF AddsUp
  <2>3. AddsUp(h, f, T)
    BY <2>2
  <2> HIDE DEF g, h
  <2>4. ASSUME NEW U \in SUBSET T, \A x \in U : g[U \ {x}] = h[U \ {x}]
        PROVE  g[U] = h[U]
    <3> DEFINE x == CHOOSE x \in U : TRUE
    <3>1. CASE U = {}
      BY <2>2, <2>3, <3>1 DEF AddsUp
    <3>2. CASE U # {}
      <4>1. x \in U
        BY <3>2
      <4>2. g[U] = f[x] + g[U \ {x}]
        BY <2>2, <3>2 DEF AddsUp
      <4>3. h[U] = f[x] + h[U \ {x}]
        BY <2>3, <3>2 DEF AddsUp
      <4> QED
        BY <2>4, <4>1, <4>2, <4>3
    <3> QED
      BY <3>1, <3>2
  <2>5. g[T] = h[T]
    <3>1. IsFiniteSet(T)
      BY FS_Subset
    <3>2. StayEqual(T, g, h)
      BY <2>4 DEF StayEqual
    <3> QED
      BY <3>1, <3>2, SubsetFunctionsAgree
  <2>6. sum(T) = rhs
    <3>1. sum(T) = h[T]
      BY SumIsChosen DEF h
    <3>2. g[T] = rhs
      BY DEF g
    <3> QED
      BY <2>5, <3>1, <3>2
  <2>7. SumEquation(f, T)
    BY <2>6 DEF SumEquation
  <2> QED
    BY <2>1, <2>7
<1> HIDE DEF Q
<1>2. SUBSET D \subseteq Q
  BY <1>1, SubsetInduction
<1> QED
  BY <1>2 DEF Q

-----------------------------------------------------------------------------
(***************************************************************************)
(* Facts about sums of integers.                                           *)
(***************************************************************************)
LEMMA SumOfNone ==
    ASSUME NEW f
    PROVE  SumFunctionOnSet(f, {}) = 0
BY SumUnfolds, FS_EmptySet DEF SumEquation

\* A sum of integers is one.
LEMMA SumIsInteger ==
    ASSUME NEW D, IsFiniteSet(D), NEW f, \A x \in D : f[x] \in Int
    PROVE  SumFunctionOnSet(f, D) \in Int
<1> DEFINE sum(s) == SumFunctionOnSet(f, s)
           Q == {T \in SUBSET D : sum(T) \in Int}
<1>1. ASSUME NEW T \in SUBSET D, \A x \in T : T \ {x} \in Q
      PROVE  T \in Q
  <2>1. CASE T = {}
    BY <2>1, SumOfNone
  <2>2. CASE T # {}
    <3> DEFINE x == CHOOSE x \in T : TRUE
    <3>1. x \in T
      BY <2>2
    <3>2. sum(T) = f[x] + sum(T \ {x})
      BY <2>2, SumUnfolds, FS_Subset DEF SumEquation
    <3>3. sum(T \ {x}) \in Int /\ f[x] \in Int
      BY <1>1, <3>1
    <3> QED
      BY <3>2, <3>3
  <2> QED
    BY <2>1, <2>2
<1> HIDE DEF Q
<1>2. SUBSET D \subseteq Q
  BY <1>1, SubsetInduction
<1> QED
  BY <1>2 DEF Q

\* Any element can be taken out of a sum, not just the one that is chosen.
LEMMA SumWithout ==
    ASSUME NEW D, IsFiniteSet(D), NEW f, \A x \in D : f[x] \in Int, NEW y \in D
    PROVE  SumFunctionOnSet(f, D) = f[y] + SumFunctionOnSet(f, D \ {y})
<1> DEFINE sum(s) == SumFunctionOnSet(f, s)
           Q == {T \in SUBSET D : \A x \in T : sum(T) = f[x] + sum(T \ {x})}
<1>0. \A T \in SUBSET D : IsFiniteSet(T) /\ sum(T) \in Int
  BY SumIsInteger, FS_Subset
<1>1. ASSUME NEW T \in SUBSET D, \A x \in T : T \ {x} \in Q
      PROVE  T \in Q
  <2>1. ASSUME NEW x \in T PROVE sum(T) = f[x] + sum(T \ {x})
    <3> DEFINE c == CHOOSE z \in T : TRUE
               rest == (T \ {x}) \ {c}
    <3>1. c \in T
      OBVIOUS
    <3>2. sum(T) = f[c] + sum(T \ {c})
      <4>1. SumEquation(f, T)
        BY <1>0, SumUnfolds
      <4> QED
        BY <4>1 DEF SumEquation
    <3>3. CASE x = c
      BY <3>2, <3>3
    <3>4. CASE x # c
      <4> HIDE DEF c, sum
      <4>1. sum(T \ {c}) = f[x] + sum((T \ {c}) \ {x})
        BY <1>1, <3>1, <3>4
      <4>2. sum(T \ {x}) = f[c] + sum(rest)
        BY <1>1, <3>1, <3>4
      <4>3. sum(T \ {c}) = f[x] + sum(rest)
        <5>1. (T \ {c}) \ {x} = rest
          OBVIOUS
        <5> QED
          BY <4>1, <5>1
      <4>4. f[x] \in Int /\ f[c] \in Int /\ sum(rest) \in Int
        BY <1>0, <3>1
      <4> HIDE DEF rest, Q
      <4> QED
        BY <3>2, <4>2, <4>3, <4>4
    <3> QED
      BY <3>3, <3>4
  <2> QED
    BY <2>1
<1> HIDE DEF Q
<1>2. SUBSET D \subseteq Q
  BY <1>1, SubsetInduction
<1>3. D \in Q
  BY <1>2
<1> QED
  BY <1>3 DEF Q

\* The sum tells nothing of a function but its values on the set.
LEMMA SumOfEquals ==
    ASSUME NEW D, IsFiniteSet(D), NEW f, NEW h, \A x \in D : f[x] = h[x]
    PROVE  SumFunctionOnSet(f, D) = SumFunctionOnSet(h, D)
<1> DEFINE Q == {T \in SUBSET D : SumFunctionOnSet(f, T) = SumFunctionOnSet(h, T)}
<1>1. ASSUME NEW T \in SUBSET D, \A x \in T : T \ {x} \in Q
      PROVE  T \in Q
  <2>1. SumEquation(f, T) /\ SumEquation(h, T)
    BY SumUnfolds, FS_Subset
  <2>2. CASE T = {}
    BY <2>1, <2>2 DEF SumEquation
  <2>3. CASE T # {}
    <3> DEFINE x == CHOOSE x \in T : TRUE
    <3>1. x \in T
      BY <2>3
    <3>2. SumFunctionOnSet(f, T \ {x}) = SumFunctionOnSet(h, T \ {x})
      BY <1>1, <3>1
    <3> QED
      BY <2>1, <2>3, <3>1, <3>2 DEF SumEquation
  <2> QED
    BY <2>2, <2>3
<1> HIDE DEF Q
<1>2. SUBSET D \subseteq Q
  BY <1>1, SubsetInduction
<1> QED
  BY <1>2 DEF Q

\* A sum changes by as much as the value of the one element that changes.
LEMMA SumChanges ==
    ASSUME NEW D, IsFiniteSet(D), NEW f, NEW h, NEW y \in D,
           \A x \in D : f[x] \in Int /\ h[x] \in Int,
           \A x \in D \ {y} : h[x] = f[x]
    PROVE  SumFunctionOnSet(h, D) = SumFunctionOnSet(f, D) - f[y] + h[y]
<1> DEFINE rest == D \ {y}
<1>1. IsFiniteSet(rest)
  BY FS_Subset
<1>2. SumFunctionOnSet(f, rest) = SumFunctionOnSet(h, rest)
  BY <1>1, SumOfEquals
<1>3. SumFunctionOnSet(f, rest) \in Int
  BY <1>1, SumIsInteger
<1>4. SumFunctionOnSet(f, D) = f[y] + SumFunctionOnSet(f, rest)
  BY SumWithout
<1>5. SumFunctionOnSet(h, D) = h[y] + SumFunctionOnSet(h, rest)
  BY SumWithout
<1>6. f[y] \in Int /\ h[y] \in Int
  OBVIOUS
<1> HIDE DEF rest
<1> QED
  BY <1>2, <1>3, <1>4, <1>5, <1>6

\* Sums of natural numbers keep the order of their terms.
LEMMA SumKeepsOrder ==
    ASSUME NEW D, IsFiniteSet(D), NEW f, NEW h,
           \A x \in D : f[x] \in Int /\ h[x] \in Int /\ f[x] <= h[x]
    PROVE  SumFunctionOnSet(f, D) <= SumFunctionOnSet(h, D)
<1> DEFINE Q == {T \in SUBSET D : SumFunctionOnSet(f, T) <= SumFunctionOnSet(h, T)}
<1>1. ASSUME NEW T \in SUBSET D, \A x \in T : T \ {x} \in Q
      PROVE  T \in Q
  <2>1. CASE T = {}
    BY <2>1, SumOfNone
  <2>2. CASE T # {}
    <3>1. PICK x \in T : TRUE
      BY <2>2
    <3> DEFINE rest == T \ {x}
    <3>2. IsFiniteSet(T) /\ IsFiniteSet(rest)
      BY FS_Subset
    <3>3. /\ SumFunctionOnSet(f, T) = f[x] + SumFunctionOnSet(f, rest)
          /\ SumFunctionOnSet(h, T) = h[x] + SumFunctionOnSet(h, rest)
      BY <3>2, SumWithout
    <3>4. SumFunctionOnSet(f, rest) \in Int /\ SumFunctionOnSet(h, rest) \in Int
      BY <3>2, SumIsInteger
    <3>5. SumFunctionOnSet(f, rest) <= SumFunctionOnSet(h, rest)
      BY <1>1
    <3>6. f[x] \in Int /\ h[x] \in Int /\ f[x] <= h[x]
      OBVIOUS
    <3> HIDE DEF rest
    <3>7. SumFunctionOnSet(f, T) <= SumFunctionOnSet(h, T)
      BY <3>3, <3>4, <3>5, <3>6
    <3> QED
      BY <3>7
  <2> QED
    BY <2>1, <2>2
<1> HIDE DEF Q
<1>2. SUBSET D \subseteq Q
  BY <1>1, SubsetInduction
<1> QED
  BY <1>2 DEF Q

\* A function is added to another one on a part of the domain.
LEMMA SumOfAdded ==
    ASSUME NEW D, IsFiniteSet(D), NEW S \in SUBSET D, NEW f, NEW g, NEW h,
           \A x \in D : f[x] \in Int /\ h[x] \in Int, \A x \in S : g[x] \in Int,
           \A x \in D : h[x] = IF x \in S THEN f[x] + g[x] ELSE f[x]
    PROVE  SumFunctionOnSet(h, D) = SumFunctionOnSet(f, D) + SumFunctionOnSet(g, S)
<1> DEFINE Q == {T \in SUBSET D : SumFunctionOnSet(h, T) =
                   SumFunctionOnSet(f, T) + SumFunctionOnSet(g, S \cap T)}
<1>1. ASSUME NEW T \in SUBSET D, \A x \in T : T \ {x} \in Q
      PROVE  T \in Q
  <2>1. CASE T = {}
    BY <2>1, SumOfNone
  <2>2. CASE T # {}
    <3>1. PICK y \in T : TRUE
      BY <2>2
    <3> DEFINE U == T \ {y}
               ft == SumFunctionOnSet(f, T)
               gt == SumFunctionOnSet(g, S \cap T)
               ht == SumFunctionOnSet(h, T)
               fu == SumFunctionOnSet(f, U)
               gu == SumFunctionOnSet(g, S \cap U)
               hu == SumFunctionOnSet(h, U)
    <3>2. IsFiniteSet(T) /\ IsFiniteSet(U) /\ IsFiniteSet(S \cap T) /\ IsFiniteSet(S \cap U)
      BY FS_Subset
    <3>3. hu = fu + gu
      BY <1>1, <3>1
    <3>4. ft = f[y] + fu /\ ht = h[y] + hu
      BY <3>1, <3>2, SumWithout
    <3>5. gt = IF y \in S THEN g[y] + gu ELSE gu
      <4>1. CASE y \in S
        <5>1. (S \cap T) \ {y} = S \cap U /\ y \in S \cap T
          BY <3>1, <4>1
        <5>2. gt = g[y] + SumFunctionOnSet(g, (S \cap T) \ {y})
          BY <3>2, <5>1, SumWithout
        <5> QED
          BY <4>1, <5>1, <5>2
      <4>2. CASE y \notin S
        <5>1. S \cap T = S \cap U
          BY <4>2
        <5> QED
          BY <4>2, <5>1
      <4> QED
        BY <4>1, <4>2
    <3>6. fu \in Int /\ gu \in Int /\ hu \in Int
      BY <3>2, SumIsInteger
    <3>7. /\ f[y] \in Int /\ h[y] \in Int /\ (y \in S => g[y] \in Int)
          /\ h[y] = IF y \in S THEN f[y] + g[y] ELSE f[y]
      BY <3>1
    <3> HIDE DEF ft, gt, ht, fu, gu, hu
    <3>8. ht = ft + gt
      BY <3>3, <3>4, <3>5, <3>6, <3>7
    <3> QED
      BY <3>8 DEF ft, gt, ht
  <2> QED
    BY <2>1, <2>2
<1>2. SUBSET D \subseteq Q
  <2> HIDE DEF Q
  <2> QED
    BY <1>1, SubsetInduction
<1>3. D \in Q /\ S \cap D = S
  BY <1>2
<1> QED
  BY <1>3

LEMMA SumOfBoth ==
    ASSUME NEW D, IsFiniteSet(D), NEW f, NEW g, NEW h,
           \A x \in D : f[x] \in Int /\ g[x] \in Int /\ h[x] = f[x] + g[x]
    PROVE  SumFunctionOnSet(h, D) = SumFunctionOnSet(f, D) + SumFunctionOnSet(g, D)
<1>1. /\ D \in SUBSET D /\ \A x \in D : h[x] \in Int
      /\ \A x \in D : h[x] = IF x \in D THEN f[x] + g[x] ELSE f[x]
  OBVIOUS
<1> QED
  BY <1>1, SumOfAdded

\* The same for what grows by no less.
LEMMA SumGrowsBy ==
    ASSUME NEW D, IsFiniteSet(D), NEW S \in SUBSET D, NEW f, NEW g, NEW h,
           \A x \in D : f[x] \in Int /\ h[x] \in Int, \A x \in S : g[x] \in Int,
           \A x \in D : h[x] >= IF x \in S THEN f[x] + g[x] ELSE f[x]
    PROVE  SumFunctionOnSet(h, D) >= SumFunctionOnSet(f, D) + SumFunctionOnSet(g, S)
<1> DEFINE k == [x \in D |-> IF x \in S THEN f[x] + g[x] ELSE f[x]]
<1>1. \A x \in D : k[x] \in Int /\ k[x] <= h[x]
                   /\ k[x] = IF x \in S THEN f[x] + g[x] ELSE f[x]
  OBVIOUS
<1> HIDE DEF k
<1>2. SumFunctionOnSet(k, D) = SumFunctionOnSet(f, D) + SumFunctionOnSet(g, S)
  BY <1>1, SumOfAdded
<1>3. SumFunctionOnSet(k, D) <= SumFunctionOnSet(h, D)
  BY <1>1, SumKeepsOrder
<1>4. SumFunctionOnSet(k, D) \in Int /\ SumFunctionOnSet(h, D) \in Int
  BY <1>1, SumIsInteger
<1> QED
  BY <1>2, <1>3, <1>4

\* A factor all terms have can be taken out of a sum.
LEMMA SumScaled ==
    ASSUME NEW D, IsFiniteSet(D), NEW f, \A x \in D : f[x] \in Nat, NEW a \in Nat,
           NEW h, \A x \in D : h[x] = a * f[x]
    PROVE  SumFunctionOnSet(h, D) = a * SumFunctionOnSet(f, D)
<1> DEFINE Q == {T \in SUBSET D : SumFunctionOnSet(h, T) = a * SumFunctionOnSet(f, T)}
<1>1. ASSUME NEW T \in SUBSET D, \A x \in T : T \ {x} \in Q
      PROVE  T \in Q
  <2>1. CASE T = {}
    <3>1. a * 0 = 0
      OBVIOUS
    <3> QED
      BY <2>1, <3>1, SumOfNone
  <2>2. CASE T # {}
    <3>1. PICK x \in T : TRUE
      BY <2>2
    <3> DEFINE rest == T \ {x}
               ft == SumFunctionOnSet(f, T)
               fr == SumFunctionOnSet(f, rest)
               ht == SumFunctionOnSet(h, T)
               hr == SumFunctionOnSet(h, rest)
    <3>2. IsFiniteSet(T) /\ IsFiniteSet(rest)
      BY FS_Subset
    <3>3. /\ f[x] \in Nat /\ h[x] = a * f[x] /\ h[x] \in Int
          /\ \A y \in T : f[y] \in Int /\ h[y] \in Int
      BY ProductNat
    <3>4. ft = f[x] + fr /\ ht = h[x] + hr
      BY <3>2, <3>3, SumWithout
    <3>5. fr \in Int /\ hr = a * fr
      BY <1>1, <3>2, SumIsInteger
    <3> HIDE DEF ft, fr, ht, hr
    <3>6. a * (f[x] + fr) = a * f[x] + a * fr
      BY <3>3, <3>5
    <3>7. ht = a * ft
      BY <3>3, <3>4, <3>5, <3>6
    <3> QED
      BY <3>7 DEF ht, ft
  <2> QED
    BY <2>1, <2>2
<1> HIDE DEF Q
<1>2. SUBSET D \subseteq Q
  BY <1>1, SubsetInduction
<1> QED
  BY <1>2 DEF Q

\* Equal terms add up to as many times their value.
LEMMA SumOfConstant ==
    ASSUME NEW D, IsFiniteSet(D), NEW v \in Int, NEW f, \A x \in D : f[x] = v
    PROVE  SumFunctionOnSet(f, D) = Cardinality(D) * v
<1> DEFINE Q == {T \in SUBSET D : SumFunctionOnSet(f, T) = Cardinality(T) * v}
<1>1. ASSUME NEW T \in SUBSET D, \A x \in T : T \ {x} \in Q
      PROVE  T \in Q
  <2>1. CASE T = {}
    <3>1. 0 * v = 0
      OBVIOUS
    <3> QED
      BY <2>1, <3>1, SumOfNone, FS_EmptySet
  <2>2. CASE T # {}
    <3>1. PICK x \in T : TRUE
      BY <2>2
    <3> DEFINE rest == T \ {x}
               n == Cardinality(rest)
               ft == SumFunctionOnSet(f, T)
               fr == SumFunctionOnSet(f, rest)
    <3>2. IsFiniteSet(T) /\ IsFiniteSet(rest)
      BY FS_Subset
    <3>3. ft = v + fr
      BY <3>2, SumWithout
    <3>4. n \in Nat /\ Cardinality(T) = n + 1
      BY <3>1, <3>2, FS_RemoveElement, FS_CardinalityType
    <3>5. fr = n * v
      BY <1>1
    <3> HIDE DEF n, ft, fr
    <3>6. (n + 1) * v = n * v + v /\ n * v \in Int
      BY <3>4
    <3>7. ft = (n + 1) * v
      BY <3>3, <3>5, <3>6
    <3> QED
      BY <3>4, <3>7 DEF ft
  <2> QED
    BY <2>1, <2>2
<1> HIDE DEF Q
<1>2. SUBSET D \subseteq Q
  BY <1>1, SubsetInduction
<1> QED
  BY <1>2 DEF Q

\* Without values other than zero there is nothing to sum.
LEMMA SumOfZeros ==
    ASSUME NEW D, IsFiniteSet(D), NEW f, \A x \in D : f[x] = 0
    PROVE  SumFunctionOnSet(f, D) = 0
<1> DEFINE Q == {T \in SUBSET D : SumFunctionOnSet(f, T) = 0}
<1>1. ASSUME NEW T \in SUBSET D, \A x \in T : T \ {x} \in Q
      PROVE  T \in Q
  <2>1. SumEquation(f, T)
    BY SumUnfolds, FS_Subset
  <2>2. CASE T = {}
    BY <2>1, <2>2 DEF SumEquation
  <2>3. CASE T # {}
    <3> DEFINE x == CHOOSE x \in T : TRUE
    <3>1. x \in T
      BY <2>3
    <3>2. f[x] = 0 /\ SumFunctionOnSet(f, T \ {x}) = 0
      BY <1>1, <3>1
    <3> QED
      BY <2>1, <2>3, <3>2 DEF SumEquation
  <2> QED
    BY <2>2, <2>3
<1> HIDE DEF Q
<1>2. SUBSET D \subseteq Q
  BY <1>1, SubsetInduction
<1> QED
  BY <1>2 DEF Q

\* A sum of natural numbers is one, and none of them exceeds it.
LEMMA SumIsNatural ==
    ASSUME NEW D, IsFiniteSet(D), NEW f, \A x \in D : f[x] \in Nat
    PROVE  /\ SumFunctionOnSet(f, D) \in Nat
           /\ \A x \in D : f[x] <= SumFunctionOnSet(f, D)
<1> DEFINE none == [x \in D |-> 0]
<1>1. ASSUME NEW T \in SUBSET D PROVE SumFunctionOnSet(f, T) \in Nat
  <2>1. IsFiniteSet(T)
    BY FS_Subset
  <2>2. SumFunctionOnSet(none, T) = 0
    BY <2>1, SumOfZeros
  <2>3. \A x \in T : f[x] \in Int /\ none[x] \in Int /\ none[x] <= f[x]
    OBVIOUS
  <2> HIDE DEF none
  <2>4. SumFunctionOnSet(none, T) <= SumFunctionOnSet(f, T)
    BY <2>1, <2>3, SumKeepsOrder
  <2>5. SumFunctionOnSet(f, T) \in Int
    BY <2>1, <2>3, SumIsInteger
  <2> QED
    BY <2>2, <2>4, <2>5
<1>2. ASSUME NEW x \in D PROVE f[x] <= SumFunctionOnSet(f, D)
  <2>1. SumFunctionOnSet(f, D) = f[x] + SumFunctionOnSet(f, D \ {x})
    BY SumWithout
  <2>2. SumFunctionOnSet(f, D \ {x}) \in Nat /\ f[x] \in Nat
    BY <1>1
  <2> QED
    BY <2>1, <2>2
<1> QED
  BY <1>1, <1>2

\* Terms that are a share of others, times a number, add up to such a share.
LEMMA SumOfShares ==
    ASSUME NEW D, IsFiniteSet(D), NEW f, NEW g, NEW whole \in Nat, NEW amount \in Nat,
           \A x \in D : f[x] \in Nat /\ g[x] \in Nat,
           \A x \in D : whole * g[x] <= amount * f[x]
    PROVE  whole * SumFunctionOnSet(g, D) <= amount * SumFunctionOnSet(f, D)
<1> DEFINE ff == [x \in D |-> amount * f[x]]
           gg == [x \in D |-> whole * g[x]]
<1>1. \A x \in D : /\ ff[x] = amount * f[x] /\ gg[x] = whole * g[x]
                   /\ ff[x] \in Int /\ gg[x] \in Int /\ gg[x] <= ff[x]
  BY ProductNat
<1> HIDE DEF ff, gg
<1>2. /\ SumFunctionOnSet(ff, D) = amount * SumFunctionOnSet(f, D)
      /\ SumFunctionOnSet(gg, D) = whole * SumFunctionOnSet(g, D)
  BY <1>1, SumScaled
<1>3. SumFunctionOnSet(gg, D) <= SumFunctionOnSet(ff, D)
  BY <1>1, SumKeepsOrder
<1> QED
  BY <1>2, <1>3

\* Shares of an amount, each rounded down, are together no more than it.
LEMMA SharesWithin ==
    ASSUME NEW D, IsFiniteSet(D), NEW f, NEW g, NEW whole \in Nat, NEW amount \in Nat,
           whole > 0, \A x \in D : f[x] \in Nat /\ g[x] \in Nat,
           \A x \in D : whole * g[x] <= amount * f[x],
           SumFunctionOnSet(f, D) <= whole
    PROVE  SumFunctionOnSet(g, D) <= amount
<1> DEFINE sf == SumFunctionOnSet(f, D)
           sg == SumFunctionOnSet(g, D)
<1>1. sf \in Nat /\ sg \in Nat /\ sf <= whole /\ whole * sg <= amount * sf
  BY SumIsNatural, SumOfShares
<1> HIDE DEF sf, sg
<1>2. amount * sf <= amount * whole
  BY <1>1, ProductsOrdered
<1>3. /\ amount * sf \in Nat /\ whole * sg \in Nat
      /\ amount * whole \in Nat /\ amount * whole = whole * amount
  BY <1>1, ProductNat
<1>4. whole * sg <= whole * amount
  BY <1>1, <1>2, <1>3
<1>5. sg <= amount
  BY <1>1, <1>4, FactorCancels
<1> QED
  BY <1>5 DEF sg

\* The sum over two sets without a common element.
LEMMA SumOfParts ==
    ASSUME NEW A, IsFiniteSet(A), NEW B, IsFiniteSet(B), A \cap B = {},
           NEW f, \A x \in A \cup B : f[x] \in Int
    PROVE  SumFunctionOnSet(f, A \cup B) = SumFunctionOnSet(f, A) + SumFunctionOnSet(f, B)
<1> DEFINE sum(S) == SumFunctionOnSet(f, S)
           Q == {T \in SUBSET B : sum(A \cup T) = sum(A) + sum(T)}
<1>1. IsFiniteSet(A \cup B) /\ \A T \in SUBSET B : IsFiniteSet(A \cup T) /\ IsFiniteSet(T)
  BY FS_Union, FS_Subset
<1>2. sum(A) \in Int /\ \A T \in SUBSET B : sum(T) \in Int
  BY <1>1, SumIsInteger
<1>3. ASSUME NEW T \in SUBSET B, \A x \in T : T \ {x} \in Q
      PROVE  T \in Q
  <2>1. CASE T = {}
    <3>1. sum(T) = 0 /\ sum(A \cup T) = sum(A)
      <4>1. A \cup T = A
        BY <2>1
      <4> QED
        BY <2>1, <4>1, SumOfNone
    <3> HIDE DEF sum
    <3>2. sum(A \cup T) = sum(A) + sum(T)
      BY <1>2, <3>1
    <3> QED
      BY <3>2
  <2>2. CASE T # {}
    <3>1. PICK x \in T : TRUE
      BY <2>2
    <3> DEFINE rest == T \ {x}
    <3>2. (A \cup T) \ {x} = A \cup rest
      BY <3>1
    <3>3. sum(A \cup T) = f[x] + sum(A \cup rest)
      <4> DEFINE D == A \cup T
      <4>1. IsFiniteSet(D) /\ x \in D /\ \A y \in D : f[y] \in Int
        BY <1>1, <3>1
      <4> HIDE DEF D
      <4>2. sum(D) = f[x] + sum(D \ {x})
        BY <4>1, SumWithout
      <4> QED
        BY <3>2, <4>2 DEF D
    <3>4. sum(T) = f[x] + sum(rest)
      BY <1>1, <3>1, SumWithout
    <3>5. sum(A \cup rest) = sum(A) + sum(rest) /\ sum(rest) \in Int /\ f[x] \in Int
      BY <1>2, <1>3, <3>1
    <3> HIDE DEF sum, rest
    <3>6. sum(A \cup T) = sum(A) + sum(T)
      BY <1>2, <3>3, <3>4, <3>5
    <3> QED
      BY <3>6
  <2> QED
    BY <2>1, <2>2
<1> HIDE DEF Q
<1>4. SUBSET B \subseteq Q
  BY <1>3, SubsetInduction
<1> QED
  BY <1>4 DEF Q

-----------------------------------------------------------------------------
(***************************************************************************)
(* The folds the modules use are such sums.  Whatever element a fold takes *)
(* at each step, a function that adds up in that order is the sum.         *)
(***************************************************************************)

\* A finite set of numbers that is not empty has a greatest one.
LEMMA MaxIsMember ==
    ASSUME NEW S \in SUBSET Int, IsFiniteSet(S), S # {}
    PROVE  Max(S) \in S /\ \A x \in S : x <= Max(S)
<1> DEFINE HasMax(T) == \E x \in T : \A y \in T : x >= y
           Q == {T \in SUBSET S : T # {} => HasMax(T)}
<1>1. ASSUME NEW T \in SUBSET S, \A x \in T : T \ {x} \in Q
      PROVE  T \in Q
  <2> SUFFICES ASSUME T # {} PROVE HasMax(T)
    OBVIOUS
  <2>1. PICK x \in T : TRUE
    OBVIOUS
  <2>2. CASE T = {x}
    BY <2>2
  <2>3. CASE T # {x}
    <3>1. T \ {x} # {} /\ T \ {x} \in Q
      BY <1>1, <2>3
    <3>2. PICK z \in T \ {x} : \A y \in T \ {x} : z >= y
      BY <3>1
    <3>3. CASE z >= x
      BY <3>2, <3>3
    <3>4. CASE x >= z
      BY <3>2, <3>4
    <3> QED
      BY <3>3, <3>4
  <2> QED
    BY <2>2, <2>3
<1> HIDE DEF Q
<1>2. SUBSET S \subseteq Q
  BY <1>1, SubsetInduction
<1>3. HasMax(S)
  BY <1>2 DEF Q
<1> QED
  BY <1>3 DEF Max

\* A fold of a sequence from the left takes the greatest index first.
FoldsLeft(g, f, D) ==
    g = [s \in SUBSET D |-> IF s = {} THEN 0
                            ELSE LET i == Max(s) IN g[s \ {i}] + f[i]]

LEMMA FoldsLeftIsSum ==
    ASSUME NEW D \in SUBSET Int, IsFiniteSet(D), NEW f, \A i \in D : f[i] \in Int
    PROVE  /\ \E g : FoldsLeft(g, f, D)
           /\ \A g : FoldsLeft(g, f, D) => g[D] = SumFunctionOnSet(f, D)
<1> DEFINE sum(s) == SumFunctionOnSet(f, s)
           h == [s \in SUBSET D |-> sum(s)]
<1>1. ASSUME NEW s \in SUBSET D, s # {}
      PROVE  Max(s) \in s /\ sum(s) = sum(s \ {Max(s)}) + f[Max(s)]
  <2>1. IsFiniteSet(s)
    BY FS_Subset
  <2>2. Max(s) \in s
    BY <1>1, <2>1, MaxIsMember
  <2>3. sum(s) = f[Max(s)] + sum(s \ {Max(s)})
    BY <2>1, <2>2, SumWithout
  <2>4. IsFiniteSet(s \ {Max(s)})
    BY FS_Subset
  <2>5. sum(s \ {Max(s)}) \in Int /\ f[Max(s)] \in Int
    BY <2>2, <2>4, SumIsInteger
  <2> QED
    BY <2>2, <2>3, <2>5
<1>2. sum({}) = 0
  BY SumOfNone
<1>3. FoldsLeft(h, f, D)
  <2>1. ASSUME NEW s \in SUBSET D
        PROVE  h[s] = IF s = {} THEN 0
                      ELSE LET i == Max(s) IN h[s \ {i}] + f[i]
    <3>1. CASE s = {}
      BY <1>2, <3>1
    <3>2. CASE s # {}
      <4>1. s \ {Max(s)} \in SUBSET D
        OBVIOUS
      <4> QED
        BY <1>1, <3>2, <4>1
    <3> QED
      BY <3>1, <3>2
  <2> QED
    BY <2>1 DEF FoldsLeft
<1>4. ASSUME NEW g, FoldsLeft(g, f, D) PROVE g[D] = sum(D)
  <2> HIDE DEF sum
  <2>1. ASSUME NEW T \in SUBSET D, \A x \in T : g[T \ {x}] = h[T \ {x}]
        PROVE  g[T] = h[T]
    <3>1. CASE T = {}
      BY <1>2, <1>4, <3>1 DEF FoldsLeft
    <3>2. CASE T # {}
      <4>1. g[T] = g[T \ {Max(T)}] + f[Max(T)]
        BY <1>4, <3>2 DEF FoldsLeft
      <4>2. h[T] = h[T \ {Max(T)}] + f[Max(T)]
        BY <1>1, <3>2
      <4>3. g[T \ {Max(T)}] = h[T \ {Max(T)}]
        BY <1>1, <2>1, <3>2
      <4> QED
        BY <4>1, <4>2, <4>3
    <3> QED
      BY <3>1, <3>2
  <2> HIDE DEF h
  <2>2. StayEqual(D, g, h)
    BY <2>1 DEF StayEqual
  <2>3. g[D] = h[D]
    BY <2>2, SubsetFunctionsAgree
  <2> QED
    BY <2>3 DEF h
<1> QED
  BY <1>3, <1>4

LEMMA FoldLeftIsSum ==
    ASSUME NEW n \in Nat, NEW seq, DOMAIN seq = 1..n, \A i \in 1..n : seq[i] \in Int
    PROVE  FoldLeft(+, 0, seq) = SumFunctionOnSet(seq, 1..n)
<1> DEFINE g == CHOOSE k : FoldsLeft(k, seq, 1..n)
<1>1. FoldLeft(+, 0, seq) = g[1..n]
  BY DEF FoldLeft, MapThenFoldSet, FoldsLeft
<1>2. IsFiniteSet(1..n) /\ 1..n \in SUBSET Int
  BY FS_Interval
<1>3. \E k : FoldsLeft(k, seq, 1..n)
  BY <1>2, FoldsLeftIsSum
<1>4. FoldsLeft(g, seq, 1..n)
  BY <1>3
<1> HIDE DEF g
<1> QED
  BY <1>1, <1>2, <1>4, FoldsLeftIsSum

\* What adds up in the order in which elements are chosen is the sum.
LEMMA AddsUpIsSum ==
    ASSUME NEW D, IsFiniteSet(D), NEW f
    PROVE  /\ \E g : AddsUp(g, f, D)
           /\ \A g : AddsUp(g, f, D) => g[D] = SumFunctionOnSet(f, D)
<1> DEFINE h == [s \in SUBSET D |-> SumFunctionOnSet(f, s)]
<1>1. AddsUp(h, f, D)
  <2>1. ASSUME NEW s \in SUBSET D
        PROVE  h[s] = IF s = {} THEN 0
                      ELSE LET x == CHOOSE x \in s : TRUE IN f[x] + h[s \ {x}]
    <3>1. SumEquation(f, s)
      BY SumUnfolds, FS_Subset
    <3>2. \A x \in s : h[s \ {x}] = SumFunctionOnSet(f, s \ {x})
      OBVIOUS
    <3> QED
      BY <3>1, <3>2 DEF SumEquation
  <2> QED
    BY <2>1 DEF AddsUp
<1>2. ASSUME NEW g, AddsUp(g, f, D) PROVE g[D] = h[D]
  <2> HIDE DEF h
  <2>1. ASSUME NEW T \in SUBSET D, \A x \in T : g[T \ {x}] = h[T \ {x}]
        PROVE  g[T] = h[T]
    <3> DEFINE x == CHOOSE x \in T : TRUE
    <3>1. CASE T = {}
      BY <1>1, <1>2, <3>1 DEF AddsUp
    <3>2. CASE T # {}
      <4>1. x \in T
        BY <3>2
      <4>2. g[T] = f[x] + g[T \ {x}]
        BY <1>2, <3>2 DEF AddsUp
      <4>3. h[T] = f[x] + h[T \ {x}]
        BY <1>1, <3>2 DEF AddsUp
      <4> QED
        BY <2>1, <4>1, <4>2, <4>3
    <3> QED
      BY <3>1, <3>2
  <2>2. StayEqual(D, g, h)
    BY <2>1 DEF StayEqual
  <2> QED
    BY <2>2, SubsetFunctionsAgree
<1> QED
  BY <1>1, <1>2

-----------------------------------------------------------------------------
(***************************************************************************)
(* Sums of sums.                                                           *)
(***************************************************************************)

\* A sum is the sum, over the keys of the elements, of what has the key.
OfKey(f, key, k, D) == [x \in D |-> IF key[x] = k THEN f[x] ELSE 0]
SumsOfKeys(f, key, K, D) == [k \in K |-> SumFunctionOnSet(OfKey(f, key, k, D), D)]

LEMMA SumByKey ==
    ASSUME NEW D, IsFiniteSet(D), NEW K, IsFiniteSet(K), NEW f, NEW key,
           \A x \in D : f[x] \in Int /\ key[x] \in K
    PROVE  SumFunctionOnSet(f, D) = SumFunctionOnSet(SumsOfKeys(f, key, K, D), K)
<1> DEFINE part(k) == OfKey(f, key, k, D)
           parts(T) == [k \in K |-> SumFunctionOnSet(part(k), T)]
           Q == {T \in SUBSET D :
                   SumFunctionOnSet(f, T) = SumFunctionOnSet(parts(T), K)}
<1>0. \A k \in K, x \in D : part(k)[x] = IF key[x] = k THEN f[x] ELSE 0
  BY DEF OfKey
<1>1. ASSUME NEW T \in SUBSET D, \A x \in T : T \ {x} \in Q
      PROVE  T \in Q
  <2>1. CASE T = {}
    <3>1. \A k \in K : parts(T)[k] = 0
      BY <2>1, SumOfNone
    <3> HIDE DEF parts
    <3>2. SumFunctionOnSet(parts(T), K) = 0
      BY <3>1, SumOfZeros
    <3> QED
      BY <2>1, <3>2, SumOfNone
  <2>2. CASE T # {}
    <3>1. PICK y \in T : TRUE
      BY <2>2
    <3> DEFINE rest == T \ {y}
    <3>2. IsFiniteSet(T) /\ IsFiniteSet(rest)
      BY FS_Subset
    <3>3. SumFunctionOnSet(f, T) = f[y] + SumFunctionOnSet(f, rest)
      BY <3>2, SumWithout
    <3>4. SumFunctionOnSet(f, rest) = SumFunctionOnSet(parts(rest), K)
      BY <1>1
    <3> HIDE DEF Q
    <3>5. ASSUME NEW k \in K
          PROVE  /\ parts(T)[k] \in Int /\ parts(rest)[k] \in Int
                 /\ parts(T)[k] = (IF key[y] = k THEN f[y] ELSE 0) + parts(rest)[k]
      <4>1. \A x \in T : part(k)[x] \in Int
        BY <1>0
      <4> HIDE DEF part
      <4>2. SumFunctionOnSet(part(k), T) \in Int /\ SumFunctionOnSet(part(k), rest) \in Int
        BY <3>2, <4>1, SumIsInteger
      <4>3. SumFunctionOnSet(part(k), T) = part(k)[y] + SumFunctionOnSet(part(k), rest)
        BY <3>2, <4>1, SumWithout
      <4> QED
        BY <1>0, <4>2, <4>3
    <3> HIDE DEF parts
    <3> DEFINE k == key[y]
    <3>6. /\ k \in K
          /\ \A j \in K : parts(rest)[j] \in Int /\ parts(T)[j] \in Int
          /\ \A j \in K \ {k} : parts(T)[j] = parts(rest)[j]
      BY <3>5
    <3>7. SumFunctionOnSet(parts(T), K) =
            SumFunctionOnSet(parts(rest), K) - parts(rest)[k] + parts(T)[k]
      <4> DEFINE old == parts(rest)
                 new == parts(T)
      <4>1. /\ k \in K
            /\ \A j \in K : old[j] \in Int /\ new[j] \in Int
            /\ \A j \in K \ {k} : new[j] = old[j]
        BY <3>6
      <4> HIDE DEF old, new, k
      <4>2. SumFunctionOnSet(new, K) = SumFunctionOnSet(old, K) - old[k] + new[k]
        BY <4>1, SumChanges, SMTT(90)
      <4> QED
        BY <4>2 DEF old, new
    <3>8. SumFunctionOnSet(parts(rest), K) \in Int
      BY <3>6, SumIsInteger
    <3>9. parts(T)[k] = f[y] + parts(rest)[k] /\ f[y] \in Int /\ parts(rest)[k] \in Int
      BY <3>5, <3>6
    <3> HIDE DEF rest, k
    <3>10. SumFunctionOnSet(f, T) = SumFunctionOnSet(parts(T), K)
      BY <3>3, <3>4, <3>7, <3>8, <3>9
    <3> QED
      BY <3>10 DEF Q
  <2> QED
    BY <2>1, <2>2
<1> HIDE DEF Q
<1>2. SUBSET D \subseteq Q
  BY <1>1, SubsetInduction
<1>3. D \in Q
  BY <1>2
<1> QED
  BY <1>3 DEF Q, SumsOfKeys

\* A sum over pairs is the sum of the sums over the second components.
SecondsOf(f, a, B) == [b \in B |-> f[<<a, b>>]]
SumsOfSeconds(f, A, B) == [a \in A |-> SumFunctionOnSet(SecondsOf(f, a, B), B)]

LEMMA SumOfOneFirst ==
    ASSUME NEW A, NEW B, IsFiniteSet(A \X B), IsFiniteSet(B), NEW f,
           \A x \in A \X B : f[x] \in Int,
           NEW S \in SUBSET A, NEW a \in A, a \notin S
    PROVE  SumFunctionOnSet(f, (S \X B) \cup ({a} \X B)) =
             SumFunctionOnSet(f, S \X B) + SumFunctionOnSet(SecondsOf(f, a, B), B)
<1> DEFINE all(U) == (S \X B) \cup ({a} \X U)
           base == SumFunctionOnSet(f, S \X B)
           row(U) == SumFunctionOnSet(SecondsOf(f, a, B), U)
           Q == {U \in SUBSET B : SumFunctionOnSet(f, all(U)) = base + row(U)}
<1>0. /\ base \in Int
      /\ \A b \in B : SecondsOf(f, a, B)[b] = f[<<a, b>>] /\ f[<<a, b>>] \in Int
  <2>1. S \X B \in SUBSET (A \X B)
    OBVIOUS
  <2>2. IsFiniteSet(S \X B)
    BY <2>1, FS_Subset
  <2> QED
    BY <2>1, <2>2, SumIsInteger DEF SecondsOf
<1>1. ASSUME NEW U \in SUBSET B, \A b \in U : U \ {b} \in Q
      PROVE  U \in Q
  <2>1. CASE U = {}
    <3>1. SumFunctionOnSet(f, all(U)) = base
      <4>1. all(U) = S \X B
        BY <2>1
      <4> QED
        BY <4>1
    <3>2. row(U) = 0
      BY <2>1, SumOfNone
    <3> HIDE DEF all, row, base
    <3> QED
      BY <1>0, <3>1, <3>2
  <2>2. CASE U # {}
    <3>1. PICK b \in U : TRUE
      BY <2>2
    <3> DEFINE rest == U \ {b}
    <3>2. SumFunctionOnSet(f, all(rest)) = base + row(rest)
      BY <1>1
    <3>3. /\ all(U) \in SUBSET (A \X B)
          /\ <<a, b>> \in all(U)
          /\ all(U) \ {<<a, b>>} = all(rest)
      OBVIOUS
    <3> HIDE DEF all, Q, base
    <3>4. IsFiniteSet(all(U)) /\ \A x \in all(U) : f[x] \in Int
      BY <3>3, FS_Subset
    <3>5. SumFunctionOnSet(f, all(U)) = f[<<a, b>>] + SumFunctionOnSet(f, all(rest))
      <4> DEFINE x == <<a, b>>
      <4>1. x \in all(U)
        BY <3>3
      <4> HIDE DEF x
      <4>2. SumFunctionOnSet(f, all(U)) = f[x] + SumFunctionOnSet(f, all(U) \ {x})
        BY <3>4, <4>1, SumWithout
      <4> QED
        BY <3>3, <4>2 DEF x
    <3>6. IsFiniteSet(U) /\ IsFiniteSet(rest)
      BY FS_Subset
    <3>7. row(U) = f[<<a, b>>] + row(rest)
      BY <1>0, <3>6, SumWithout
    <3>8. row(rest) \in Int /\ f[<<a, b>>] \in Int
      BY <1>0, <3>6, SumIsInteger
    <3> HIDE DEF row, rest
    <3>9. SumFunctionOnSet(f, all(U)) = base + row(U)
      BY <1>0, <3>2, <3>5, <3>7, <3>8
    <3> QED
      BY <3>9 DEF Q
  <2> QED
    BY <2>1, <2>2
<1> HIDE DEF Q
<1>2. SUBSET B \subseteq Q
  BY <1>1, SubsetInduction
<1>3. B \in Q
  BY <1>2
<1> QED
  BY <1>3 DEF Q

LEMMA SumOverPairs ==
    ASSUME NEW A, IsFiniteSet(A), NEW B, IsFiniteSet(B), NEW f,
           \A x \in A \X B : f[x] \in Int
    PROVE  SumFunctionOnSet(f, A \X B) = SumFunctionOnSet(SumsOfSeconds(f, A, B), A)
<1> DEFINE rows == [a \in A |-> SumFunctionOnSet(SecondsOf(f, a, B), B)]
           Q == {S \in SUBSET A :
                   SumFunctionOnSet(f, S \X B) = SumFunctionOnSet(rows, S)}
<1>0. IsFiniteSet(A \X B)
  BY FS_Product
<1>1. \A a \in A : rows[a] \in Int
  <2> SUFFICES ASSUME NEW a \in A PROVE SumFunctionOnSet(SecondsOf(f, a, B), B) \in Int
    OBVIOUS
  <2>1. \A b \in B : SecondsOf(f, a, B)[b] \in Int
    BY DEF SecondsOf
  <2> QED
    BY <2>1, SumIsInteger
<1>2. ASSUME NEW S \in SUBSET A, \A a \in S : S \ {a} \in Q
      PROVE  S \in Q
  <2>1. CASE S = {}
    <3>1. S \X B = {}
      BY <2>1
    <3> QED
      BY <2>1, <3>1, SumOfNone
  <2>2. CASE S # {}
    <3>1. PICK a \in S : TRUE
      BY <2>2
    <3> DEFINE rest == S \ {a}
    <3>2. SumFunctionOnSet(f, rest \X B) = SumFunctionOnSet(rows, rest)
      BY <1>2
    <3>3. S \X B = (rest \X B) \cup ({a} \X B)
      OBVIOUS
    <3>4. rest \in SUBSET A /\ a \in A /\ a \notin rest
      OBVIOUS
    <3> HIDE DEF rest, Q
    <3>5. SumFunctionOnSet(f, S \X B) =
            SumFunctionOnSet(f, rest \X B) + SumFunctionOnSet(SecondsOf(f, a, B), B)
      BY <1>0, <3>3, <3>4, SumOfOneFirst
    <3>6. IsFiniteSet(S) /\ IsFiniteSet(rest)
      BY <3>4, FS_Subset
    <3>7. SumFunctionOnSet(rows, S) = rows[a] + SumFunctionOnSet(rows, rest)
      <4>1. \A x \in S : rows[x] \in Int
        BY <1>1
      <4> HIDE DEF rows
      <4> QED
        BY <3>6, <4>1, SumWithout DEF rest
    <3>8. rows[a] = SumFunctionOnSet(SecondsOf(f, a, B), B)
      BY <3>4
    <3>9. SumFunctionOnSet(rows, rest) \in Int /\ rows[a] \in Int
      <4> HIDE DEF rows
      <4> QED
        BY <1>1, <3>4, <3>6, SumIsInteger
    <3> HIDE DEF rows
    <3>10. SumFunctionOnSet(f, S \X B) = SumFunctionOnSet(rows, S)
      BY <3>2, <3>5, <3>7, <3>8, <3>9
    <3> QED
      BY <3>10 DEF Q
  <2> QED
    BY <2>1, <2>2
<1> HIDE DEF Q
<1>3. SUBSET A \subseteq Q
  BY <1>2, SubsetInduction
<1>4. A \in Q
  BY <1>3
<1> QED
  BY <1>4 DEF Q, SumsOfSeconds

\* A sum over the first numbers grows by the last of them.
LEMMA SumOfOneMore ==
    ASSUME NEW n \in Nat, NEW f, NEW h,
           \A i \in 1..(n + 1) : f[i] \in Int, \A i \in 1..n : h[i] = f[i]
    PROVE  /\ SumFunctionOnSet(h, 1..n) \in Int
           /\ SumFunctionOnSet(f, 1..(n + 1)) = SumFunctionOnSet(h, 1..n) + f[n + 1]
<1> DEFINE S == 1..(n + 1)
           T == 1..n
<1>1. n + 1 \in S /\ S \ {n + 1} = T /\ IsFiniteSet(S) /\ IsFiniteSet(T)
  <2>1. n + 1 \in S /\ S \ {n + 1} = T
    OBVIOUS
  <2>2. n \in Int /\ n + 1 \in Int /\ 1 \in Int
    OBVIOUS
  <2> QED
    BY <2>1, <2>2, FS_Interval
<1>2. \A i \in S : f[i] \in Int
  OBVIOUS
<1>3. \A i \in T : h[i] = f[i] /\ h[i] \in Int
  <2>1. \A i \in T : i \in S
    OBVIOUS
  <2> QED
    BY <1>2, <2>1
<1>4. f[n + 1] \in Int
  BY <1>1, <1>2
<1> HIDE DEF S, T
<1>5. SumFunctionOnSet(f, S) = f[n + 1] + SumFunctionOnSet(f, T)
  BY <1>1, <1>2, SumWithout
<1>6. SumFunctionOnSet(h, T) = SumFunctionOnSet(f, T)
  BY <1>1, <1>3, SumOfEquals
<1>7. SumFunctionOnSet(h, T) \in Int
  BY <1>1, <1>3, SumIsInteger
<1> QED
  BY <1>4, <1>5, <1>6, <1>7 DEF S, T

\* A sum with one term that is not zero.
LEMMA SumOfSingle ==
    ASSUME NEW D, IsFiniteSet(D), NEW y \in D, NEW f, f[y] \in Int,
           \A x \in D \ {y} : f[x] = 0
    PROVE  SumFunctionOnSet(f, D) = f[y]
<1>1. \A x \in D : f[x] \in Int
  OBVIOUS
<1>2. SumFunctionOnSet(f, D) = f[y] + SumFunctionOnSet(f, D \ {y})
  BY <1>1, SumWithout
<1>3. SumFunctionOnSet(f, D \ {y}) = 0
  BY FS_Subset, SumOfZeros
<1> QED
  BY <1>2, <1>3

\* A sum does not depend on the names of what is summed.
LEMMA SumOfRenamed ==
    ASSUME NEW D, IsFiniteSet(D), NEW E, NEW key \in Bijection(D, E),
           NEW f, \A y \in E : f[y] \in Int,
           NEW h, \A x \in D : h[x] = f[key[x]]
    PROVE  SumFunctionOnSet(h, D) = SumFunctionOnSet(f, E)
<1>1. /\ key \in [D -> E] /\ \A y \in E : \E x \in D : key[x] = y
      /\ \A a, b \in D : key[a] = key[b] => a = b
  BY DEF Bijection, Injection, Surjection, IsInjective
<1>2. IsFiniteSet(E)
  BY FS_Bijection DEF ExistsBijection
<1>3. \A x \in D : h[x] \in Int /\ key[x] \in E
  BY <1>1
<1>4. SumFunctionOnSet(h, D) = SumFunctionOnSet(SumsOfKeys(h, key, E, D), E)
  BY <1>2, <1>3, SumByKey
<1>5. ASSUME NEW y \in E
      PROVE  SumFunctionOnSet(OfKey(h, key, y, D), D) = f[y]
  <2> DEFINE part == OfKey(h, key, y, D)
  <2>1. PICK x \in D : key[x] = y
    BY <1>1
  <2>2. \A z \in D : part[z] = IF key[z] = y THEN h[z] ELSE 0
    BY DEF OfKey
  <2>3. part[x] = f[y] /\ f[y] \in Int /\ \A z \in D \ {x} : part[z] = 0
    BY <1>1, <2>1, <2>2
  <2> HIDE DEF part
  <2>4. SumFunctionOnSet(part, D) = part[x]
    BY <2>3, SumOfSingle
  <2> QED
    BY <2>3, <2>4 DEF part
<1>6. \A y \in E : SumsOfKeys(h, key, E, D)[y] = f[y]
  BY <1>5 DEF SumsOfKeys
<1>7. SumFunctionOnSet(SumsOfKeys(h, key, E, D), E) = SumFunctionOnSet(f, E)
  BY <1>2, <1>6, SumOfEquals
<1> QED
  BY <1>4, <1>7

-----------------------------------------------------------------------------
(***************************************************************************)
(* A fold of a sequence from the left that computes other things than sums *)
(* exists as well.  What a step makes of a result and an index is given as *)
(* a function of the two.                                                  *)
(***************************************************************************)
StepsFrom(g, base, step, D) ==
    g = [s \in SUBSET D |-> IF s = {} THEN base
                            ELSE LET i == Max(s) IN step[<<g[s \ {i}], i>>]]

Result(base, step, D) == (CHOOSE g : StepsFrom(g, base, step, D))[D]
ResultEquation(base, step, s) ==
    Result(base, step, s) =
       IF s = {} THEN base
       ELSE LET i == Max(s) IN step[<<Result(base, step, s \ {i}), i>>]

LEMMA ResultUnfolds ==
    ASSUME NEW D \in SUBSET Int, IsFiniteSet(D), NEW base, NEW step
    PROVE  ResultEquation(base, step, D)
<1> DEFINE Q == {T \in SUBSET D : \A s \in SUBSET T : ResultEquation(base, step, s)}
<1>0. \A s \in SUBSET D : s # {} => Max(s) \in s
  BY MaxIsMember, FS_Subset
<1>1. ASSUME NEW T \in SUBSET D, \A x \in T : T \ {x} \in Q
      PROVE  T \in Q
  <2> DEFINE result(s) == Result(base, step, s)
             rhs == IF T = {} THEN base
                    ELSE LET i == Max(T) IN step[<<result(T \ {i}), i>>]
             g == [s \in SUBSET T |-> IF s = T THEN rhs ELSE result(s)]
             h == CHOOSE k : StepsFrom(k, base, step, T)
  <2>1. ASSUME NEW s \in SUBSET T, s # T PROVE ResultEquation(base, step, s)
    <3>1. PICK x \in T : x \notin s
      BY <2>1
    <3>2. s \in SUBSET (T \ {x})
      BY <3>1
    <3> QED
      BY <1>1, <3>1, <3>2
  <2>2. StepsFrom(g, base, step, T)
    <3>1. ASSUME NEW s \in SUBSET T
          PROVE  g[s] = IF s = {} THEN base
                        ELSE LET i == Max(s) IN step[<<g[s \ {i}], i>>]
      <4>1. CASE s = {}
        BY <2>1, <4>1 DEF ResultEquation
      <4>2. CASE s # {}
        <5> DEFINE i == Max(s)
        <5>1. i \in s
          BY <1>0, <4>2
        <5> HIDE DEF i
        <5>2. s \ {i} \in SUBSET T /\ s \ {i} # T
          BY <5>1
        <5>3. g[s \ {i}] = result(s \ {i})
          BY <5>2
        <5>4. g[s] = step[<<result(s \ {i}), i>>]
          <6>1. CASE s = T
            BY <4>2, <6>1 DEF i
          <6>2. CASE s # T
            BY <2>1, <4>2, <6>2 DEF ResultEquation, i
          <6> QED
            BY <6>1, <6>2
        <5> QED
          BY <4>2, <5>3, <5>4 DEF i
      <4> QED
        BY <4>1, <4>2
    <3> QED
      BY <3>1 DEF StepsFrom
  <2>3. StepsFrom(h, base, step, T)
    BY <2>2
  <2> HIDE DEF g, h
  <2>4. ASSUME NEW U \in SUBSET T, \A x \in U : g[U \ {x}] = h[U \ {x}]
        PROVE  g[U] = h[U]
    <3> DEFINE i == Max(U)
    <3>1. CASE U = {}
      BY <2>2, <2>3, <3>1 DEF StepsFrom
    <3>2. CASE U # {}
      <4>1. i \in U
        BY <1>0, <3>2
      <4>2. g[U] = step[<<g[U \ {i}], i>>]
        BY <2>2, <3>2 DEF StepsFrom
      <4>3. h[U] = step[<<h[U \ {i}], i>>]
        BY <2>3, <3>2 DEF StepsFrom
      <4> QED
        BY <2>4, <4>1, <4>2, <4>3
    <3> QED
      BY <3>1, <3>2
  <2>5. g[T] = h[T]
    <3>1. IsFiniteSet(T)
      BY FS_Subset
    <3>2. StayEqual(T, g, h)
      BY <2>4 DEF StayEqual
    <3> QED
      BY <3>1, <3>2, SubsetFunctionsAgree
  <2>6. result(T) = rhs
    <3>1. result(T) = h[T]
      BY DEF h, Result
    <3>2. g[T] = rhs
      BY DEF g
    <3> QED
      BY <2>5, <3>1, <3>2
  <2>7. ResultEquation(base, step, T)
    BY <2>6 DEF ResultEquation
  <2> QED
    BY <2>1, <2>7
<1> HIDE DEF Q
<1>2. SUBSET D \subseteq Q
  BY <1>1, SubsetInduction
<1> QED
  BY <1>2 DEF Q

LEMMA StepsExist ==
    ASSUME NEW D \in SUBSET Int, IsFiniteSet(D), NEW base, NEW step
    PROVE  \E g : StepsFrom(g, base, step, D)
<1> DEFINE g == [s \in SUBSET D |-> Result(base, step, s)]
<1>1. ASSUME NEW s \in SUBSET D
      PROVE  g[s] = IF s = {} THEN base
                    ELSE LET i == Max(s) IN step[<<g[s \ {i}], i>>]
  <2>1. ResultEquation(base, step, s)
    BY ResultUnfolds, FS_Subset
  <2>2. CASE s = {}
    BY <2>1, <2>2 DEF ResultEquation
  <2>3. CASE s # {}
    <3> DEFINE i == Max(s)
    <3>1. s \ {i} \in SUBSET D
      OBVIOUS
    <3> HIDE DEF i
    <3>2. g[s \ {i}] = Result(base, step, s \ {i})
      BY <3>1
    <3>3. Result(base, step, s) = step[<<Result(base, step, s \ {i}), i>>]
      BY <2>1, <2>3 DEF ResultEquation, i
    <3> QED
      BY <2>3, <3>2, <3>3 DEF i
  <2> QED
    BY <2>2, <2>3
<1>2. StepsFrom(g, base, step, D)
  BY <1>1 DEF StepsFrom
<1> QED
  BY <1>2

\* The greatest of the first numbers is the last one.
LEMMA LastIsMax ==
    ASSUME NEW n \in Nat, n # 0
    PROVE  Max(1..n) = n /\ (1..n) \ {n} = 1..(n - 1)
<1>1. IsFiniteSet(1..n) /\ 1..n \in SUBSET Int /\ n \in 1..n
  BY FS_Interval
<1>2. Max(1..n) \in 1..n /\ n <= Max(1..n)
  BY <1>1, MaxIsMember
<1> QED
  BY <1>2

\* A fold whose steps stay in a set has its results in that set.
LEMMA ResultsStayIn ==
    ASSUME NEW D \in SUBSET Int, IsFiniteSet(D), NEW R, NEW base \in R, NEW step,
           \A x \in R \X D : step[x] \in R,
           NEW g, StepsFrom(g, base, step, D)
    PROVE  \A s \in SUBSET D : g[s] \in R
<1> DEFINE Q == {s \in SUBSET D : g[s] \in R}
<1>1. ASSUME NEW s \in SUBSET D, \A x \in s : s \ {x} \in Q
      PROVE  s \in Q
  <2>1. CASE s = {}
    BY <2>1 DEF StepsFrom
  <2>2. CASE s # {}
    <3> DEFINE i == Max(s)
    <3>1. i \in s
      BY <2>2, MaxIsMember, FS_Subset
    <3>2. g[s] = step[<<g[s \ {i}], i>>]
      BY <2>2 DEF StepsFrom
    <3> HIDE DEF i
    <3>3. <<g[s \ {i}], i>> \in R \X D
      BY <1>1, <3>1
    <3> QED
      BY <3>2, <3>3
  <2> QED
    BY <2>1, <2>2
<1> HIDE DEF Q
<1>2. SUBSET D \subseteq Q
  BY <1>1, SubsetInduction
<1> QED
  BY <1>2 DEF Q

ResultsOf(g, R, base, step, D) ==
    /\ g = [s \in SUBSET D |-> g[s]]
    /\ \A s \in SUBSET D : g[s] \in R
    /\ g[{}] = base
    /\ \A s \in SUBSET D : s # {} =>
          /\ Max(s) \in s
          /\ g[s] = step[<<g[s \ {Max(s)}], Max(s)>>]

\* A fold of steps that stay in a set exists, and its results are in the set.
LEMMA ResultsExist ==
    ASSUME NEW n \in Nat, NEW R, NEW base \in R, NEW step,
           \A x \in R \X (1..n) : step[x] \in R
    PROVE  \E g : ResultsOf(g, R, base, step, 1..n)
<1> DEFINE D == 1..n
<1>1. IsFiniteSet(D) /\ D \in SUBSET Int
  BY FS_Interval
<1> HIDE DEF D
<1>2. PICK g : StepsFrom(g, base, step, D)
  BY <1>1, StepsExist
<1>3. \A s \in SUBSET D : g[s] \in R
  BY <1>1, <1>2, ResultsStayIn DEF D
<1>4. g = [s \in SUBSET D |-> g[s]]
  BY <1>2 DEF StepsFrom
<1>5. g[{}] = base
  BY <1>2 DEF StepsFrom
<1>6. ASSUME NEW s \in SUBSET D, s # {}
      PROVE  /\ Max(s) \in s
             /\ g[s] = step[<<g[s \ {Max(s)}], Max(s)>>]
  <2>1. Max(s) \in s
    BY <1>1, <1>6, MaxIsMember, FS_Subset
  <2>2. g[s] = LET i == Max(s) IN step[<<g[s \ {i}], i>>]
    BY <1>2, <1>6 DEF StepsFrom
  <2> QED
    BY <2>1, <2>2
<1> QED
  BY <1>3, <1>4, <1>5, <1>6 DEF D, ResultsOf

\* The results of the prefixes stay in a set that the steps stay in.
LEMMA PrefixesStayIn ==
    ASSUME NEW n \in Nat, NEW R, NEW c, c[{}] \in R,
           \A k \in 1..n : c[1..(k - 1)] \in R => c[1..k] \in R
    PROVE  \A k \in 0..n : c[1..k] \in R
<1> DEFINE Q == {k \in Nat : k <= n => c[1..k] \in R}
<1>1. 0 \in Q
  <2>1. 1..0 = {}
    OBVIOUS
  <2> QED
    BY <2>1
<1>2. ASSUME NEW k \in Nat, k \in Q
      PROVE  k + 1 \in Q
  <2> SUFFICES ASSUME k + 1 <= n PROVE c[1..(k + 1)] \in R
    OBVIOUS
  <2>1. c[1..k] \in R /\ k + 1 \in 1..n /\ (k + 1) - 1 = k
    BY <1>2
  <2> QED
    BY <2>1
<1> HIDE DEF Q
<1>3. Nat \subseteq Q
  BY <1>1, <1>2, NatSetInduction
<1> QED
  BY <1>3 DEF Q

-----------------------------------------------------------------------------
(***************************************************************************)
(* Sequences that are joined.  `worth` says what each element counts for.  *)
(***************************************************************************)
WorthOf(vec, worth) == SumFunctionOnSet([i \in DOMAIN vec |-> worth[vec[i]]], DOMAIN vec)

LEMMA WorthTyped ==
    ASSUME NEW S, NEW worth \in [S -> Int], NEW vec \in Seq(S)
    PROVE  /\ Len(vec) \in Nat /\ DOMAIN vec = 1..Len(vec) /\ IsFiniteSet(1..Len(vec))
           /\ \A i \in 1..Len(vec) : worth[vec[i]] \in Int
           /\ WorthOf(vec, worth) \in Int
<1> DEFINE n == Len(vec)
           f == [i \in DOMAIN vec |-> worth[vec[i]]]
<1>1. n \in Nat /\ DOMAIN vec = 1..n /\ \A i \in 1..n : vec[i] \in S
  BY LenProperties, ElementOfSeq
<1>2. \A i \in 1..n : worth[vec[i]] \in Int /\ f[i] = worth[vec[i]]
  BY <1>1
<1>3. IsFiniteSet(1..n)
  BY <1>1, FS_Interval
<1> HIDE DEF f
<1>4. SumFunctionOnSet(f, 1..n) \in Int
  BY <1>2, <1>3, SumIsInteger
<1> QED
  BY <1>1, <1>2, <1>3, <1>4 DEF WorthOf, f

LEMMA WorthOfNothing ==
    ASSUME NEW worth
    PROVE  WorthOf(<< >>, worth) = 0
<1> DEFINE f == [i \in DOMAIN << >> |-> worth[<< >>[i]]]
<1>1. DOMAIN << >> = {}
  OBVIOUS
<1> HIDE DEF f
<1>2. SumFunctionOnSet(f, DOMAIN << >>) = 0
  BY <1>1, SumOfNone
<1> QED
  BY <1>2 DEF WorthOf, f

\* Two sequences joined are worth what both are.
LEMMA WorthOfJoined ==
    ASSUME NEW S, NEW worth \in [S -> Int], NEW s \in Seq(S), NEW t \in Seq(S)
    PROVE  WorthOf(s \o t, worth) = WorthOf(s, worth) + WorthOf(t, worth)
<1> DEFINE m == Len(s)
           n == Len(t)
           both == s \o t
           f == [i \in DOMAIN both |-> worth[both[i]]]
           fs == [i \in DOMAIN s |-> worth[s[i]]]
           ft == [i \in DOMAIN t |-> worth[t[i]]]
           A == 1..m
           B == (m + 1)..(m + n)
           shift == [i \in 1..n |-> m + i]
<1>1. /\ both \in Seq(S) /\ Len(both) = m + n /\ m \in Nat /\ n \in Nat
      /\ \A i \in 1..m : both[i] = s[i]
      /\ \A i \in 1..n : both[m + i] = t[i]
  <2>1. both \in Seq(S) /\ Len(both) = m + n /\ m \in Nat /\ n \in Nat
    BY ConcatProperties, LenProperties
  <2>2. \A i \in 1..(m + n) : both[i] = IF i <= m THEN s[i] ELSE t[i - m]
    BY ConcatProperties
  <2>3. \A i \in 1..m : both[i] = s[i]
    BY <2>1, <2>2
  <2>4. \A i \in 1..n : m + i \in 1..(m + n) /\ ~(m + i <= m) /\ (m + i) - m = i
    BY <2>1
  <2> QED
    BY <2>1, <2>2, <2>3, <2>4
<1> HIDE DEF both
<1>2. /\ DOMAIN both = 1..(m + n) /\ DOMAIN s = 1..m /\ DOMAIN t = 1..n
      /\ \A i \in 1..(m + n) : worth[both[i]] \in Int
  BY <1>1, WorthTyped
<1> HIDE DEF m, n
<1>3. /\ A \cup B = 1..(m + n) /\ A \cap B = {} /\ IsFiniteSet(A) /\ IsFiniteSet(B)
      /\ IsFiniteSet(1..n)
  <2>1. A \cup B = 1..(m + n) /\ A \cap B = {}
    BY <1>1
  <2>2. 1 \in Int /\ m \in Int /\ n \in Int /\ m + 1 \in Int /\ m + n \in Int
    BY <1>1
  <2> QED
    BY <2>1, <2>2, FS_Interval
<1>4. \A i \in 1..(m + n) : f[i] \in Int /\ f[i] = worth[both[i]]
  BY <1>2
<1>5. \A i \in A : i \in 1..(m + n) /\ fs[i] = f[i]
  <2>1. \A i \in A : i \in 1..(m + n)
    BY <1>3
  <2> QED
    BY <1>1, <1>2, <1>4, <2>1
<1>6. \A i \in 1..n : ft[i] = f[shift[i]]
  <2>1. \A i \in 1..n : m + i \in 1..(m + n)
    BY <1>1
  <2> QED
    BY <1>1, <1>2, <1>4, <2>1
<1>7. shift \in Bijection(1..n, B)
  <2>1. shift \in [1..n -> B]
    BY <1>1
  <2>2. \A i, j \in 1..n : shift[i] = shift[j] => i = j
    BY <1>1
  <2>3. \A b \in B : \E i \in 1..n : shift[i] = b
    <3> TAKE b \in B
    <3>1. b - m \in 1..n /\ m + (b - m) = b
      BY <1>1
    <3> QED
      BY <3>1
  <2> HIDE DEF shift, B
  <2> QED
    BY <2>1, <2>2, <2>3 DEF Bijection, Injection, Surjection, IsInjective
<1> HIDE DEF f, fs, ft, A, B, shift
<1>8. SumFunctionOnSet(f, A \cup B) = SumFunctionOnSet(f, A) + SumFunctionOnSet(f, B)
  BY <1>3, <1>4, SumOfParts
<1>9. SumFunctionOnSet(f, A) = SumFunctionOnSet(fs, A)
  BY <1>3, <1>4, <1>5, SumOfEquals
<1>10. SumFunctionOnSet(ft, 1..n) = SumFunctionOnSet(f, B)
  <2>1. \A b \in B : f[b] \in Int
    BY <1>3, <1>4
  <2> QED
    <3> DEFINE D == 1..n
    <3>1. /\ IsFiniteSet(D) /\ shift \in Bijection(D, B)
          /\ \A b \in B : f[b] \in Int
          /\ \A i \in D : ft[i] = f[shift[i]]
      BY <1>3, <1>6, <1>7, <2>1
    <3> HIDE DEF D
    <3>2. SumFunctionOnSet(ft, D) = SumFunctionOnSet(f, B)
      BY <3>1, SumOfRenamed
    <3> QED
      BY <3>2 DEF D
<1>11. /\ WorthOf(both, worth) = SumFunctionOnSet(f, 1..(m + n))
       /\ WorthOf(s, worth) = SumFunctionOnSet(fs, 1..m)
       /\ WorthOf(t, worth) = SumFunctionOnSet(ft, 1..n)
  BY <1>2 DEF WorthOf, f, fs, ft
<1> QED
  BY <1>3, <1>8, <1>9, <1>10, <1>11 DEF A, both

\* The first sequences of a list, joined.
JoinedTo(g, seqs) ==
    g = [i \in 1..Len(seqs) |-> IF i = 1 THEN seqs[i] ELSE g[i - 1] \o seqs[i]]

LEMMA JoiningUnfolds ==
    ASSUME NEW S, NEW seqs \in Seq(Seq(S)), Len(seqs) # 0
    PROVE  \E g : JoinedTo(g, seqs) /\ FlattenSeq(seqs) = g[Len(seqs)]
<1> DEFINE n == Len(seqs)
           D == 1..n
           R == Seq(S)
           step == [x \in R \X D |-> x[1] \o seqs[x[2]]]
<1>1. n \in Nat /\ n # 0 /\ \A i \in D : seqs[i] \in R
  BY LenProperties, ElementOfSeq
<1>2. << >> \in R /\ \A x \in R \X D : step[x] \in R
  <2>1. ASSUME NEW x \in R \X D PROVE step[x] \in R
    <3>1. x[1] \in R /\ seqs[x[2]] \in R /\ step[x] = x[1] \o seqs[x[2]]
      BY <1>1
    <3> QED
      BY <3>1, ConcatProperties
  <2> QED
    BY <2>1, EmptySeq
<1>3. PICK r : ResultsOf(r, R, << >>, step, D)
  <2> HIDE DEF step, R
  <2>1. << >> \in R /\ n \in Nat /\ \A x \in R \X (1..n) : step[x] \in R
    BY <1>1, <1>2
  <2> HIDE DEF n
  <2> QED
    BY <2>1, ResultsExist
<1> DEFINE g == [i \in D |-> r[1..i]]
<1>4. ASSUME NEW i \in D
      PROVE  g[i] = IF i = 1 THEN seqs[i] ELSE g[i - 1] \o seqs[i]
  <2>1. i \in Nat /\ i # 0 /\ Max(1..i) = i /\ (1..i) \ {i} = 1..(i - 1)
    BY <1>1, LastIsMax
  <2>2. 1..i \in SUBSET D /\ 1..i # {}
    <3>1. i \in 1..i /\ \A j \in 1..i : j \in 1..n
      BY <1>1
    <3> QED
      BY <3>1
  <2>3. r[1..(i - 1)] \in R /\ r[1..i] = step[<<r[1..(i - 1)], i>>]
    <3> HIDE DEF step, R, D
    <3> QED
      BY <1>3, <2>1, <2>2 DEF ResultsOf
  <2>4. r[1..i] = r[1..(i - 1)] \o seqs[i]
    <3> HIDE DEF D, R
    <3> QED
      BY <2>3
  <2>5. CASE i = 1
    <3>1. 1..(i - 1) = {}
      BY <2>5
    <3>2. r[{}] = << >>
      BY <1>3 DEF ResultsOf
    <3>3. g[i] = << >> \o seqs[i]
      BY <2>4, <3>1, <3>2
    <3>4. << >> \o seqs[i] = seqs[i]
      BY <1>1, ConcatEmptySeq
    <3> QED
      BY <2>5, <3>3, <3>4
  <2>6. CASE i # 1
    <3>1. i - 1 \in D
      BY <1>1, <2>1, <2>6
    <3> QED
      BY <2>4, <2>6, <3>1
  <2> QED
    BY <2>5, <2>6
<1>5. JoinedTo(g, seqs)
  <2> DEFINE rhs(i) == IF i = 1 THEN seqs[i] ELSE g[i - 1] \o seqs[i]
  <2>1. \A i \in D : g[i] = rhs(i)
    BY <1>4
  <2> HIDE DEF rhs
  <2>2. g = [i \in D |-> rhs(i)]
    BY <2>1
  <2> QED
    BY <2>2 DEF JoinedTo, rhs
<1> DEFINE c == CHOOSE h : JoinedTo(h, seqs)
<1>6. JoinedTo(c, seqs)
  BY <1>5
<1>7. FlattenSeq(seqs) = c[n]
  BY <1>1 DEF FlattenSeq, JoinedTo
<1> QED
  BY <1>6, <1>7

\* A list of sequences is worth what each of them is.
LEMMA WorthOfAll ==
    ASSUME NEW S, NEW worth \in [S -> Int], NEW seqs \in Seq(Seq(S)),
           NEW f, \A i \in 1..Len(seqs) : f[i] = WorthOf(seqs[i], worth)
    PROVE  /\ FlattenSeq(seqs) \in Seq(S)
           /\ WorthOf(FlattenSeq(seqs), worth) = SumFunctionOnSet(f, 1..Len(seqs))
<1> DEFINE n == Len(seqs)
<1>1. /\ n \in Nat /\ seqs \in [1..n -> Seq(S)]
      /\ \A i \in 1..n : seqs[i] \in Seq(S) /\ f[i] \in Int
  <2>1. n \in Nat /\ seqs \in [1..n -> Seq(S)] /\ \A i \in 1..n : seqs[i] \in Seq(S)
    BY LenProperties, ElementOfSeq
  <2> QED
    BY <2>1, WorthTyped
<1>2. CASE n = 0
  <2>1. seqs = << >> /\ 1..n = {}
    BY <1>1, <1>2, EmptySeq
  <2>2. FlattenSeq(seqs) = << >>
    BY <1>2, <2>1 DEF FlattenSeq
  <2>3. SumFunctionOnSet(f, {}) = 0
    BY SumOfNone
  <2> QED
    BY <2>1, <2>2, <2>3, WorthOfNothing, EmptySeq
<1>3. CASE n # 0
  <2>1. PICK g : JoinedTo(g, seqs) /\ FlattenSeq(seqs) = g[n]
    BY <1>3, JoiningUnfolds
  <2> HIDE DEF n
  <2>2. \A i \in 1..n : g[i] = IF i = 1 THEN seqs[i] ELSE g[i - 1] \o seqs[i]
    BY <2>1 DEF JoinedTo, n
  <2> DEFINE sum(k) == SumFunctionOnSet(f, 1..k)
             Q == {k \in Nat : k + 1 <= n => /\ g[k + 1] \in Seq(S)
                                             /\ WorthOf(g[k + 1], worth) = sum(k + 1)}
  <2>3. ASSUME NEW k \in Nat, k + 1 <= n
        PROVE  sum(k) \in Int /\ sum(k + 1) = sum(k) + f[k + 1]
    <3>1. \A i \in 1..(k + 1) : f[i] \in Int
      BY <1>1, <2>3
    <3> QED
      BY <3>1, SumOfOneMore
  <2>4. 0 \in Q
    <3>1. 1 \in 1..n /\ 0 + 1 = 1 /\ 0 + 1 <= n /\ 1..0 = {}
      BY <1>1, <1>3
    <3>2. g[1] = seqs[1] /\ g[1] \in Seq(S)
      BY <1>1, <2>2, <3>1
    <3>3. WorthOf(g[1], worth) = f[1] /\ f[1] \in Int
      BY <1>1, <3>1, <3>2 DEF n
    <3>4. sum(1) = sum(0) + f[1] /\ sum(0) = 0
      BY <2>3, <3>1, SumOfNone
    <3> HIDE DEF sum
    <3>5. WorthOf(g[1], worth) = sum(1)
      BY <3>3, <3>4
    <3> QED
      BY <3>1, <3>2, <3>5
  <2>5. ASSUME NEW k \in Nat, k \in Q PROVE k + 1 \in Q
    <3> SUFFICES ASSUME (k + 1) + 1 <= n
                 PROVE  /\ g[(k + 1) + 1] \in Seq(S)
                        /\ WorthOf(g[(k + 1) + 1], worth) = sum((k + 1) + 1)
      OBVIOUS
    <3> DEFINE i == (k + 1) + 1
    <3>1. i \in 1..n /\ i # 1 /\ i - 1 = k + 1 /\ k + 1 <= n
      BY <1>1
    <3>2. g[k + 1] \in Seq(S) /\ WorthOf(g[k + 1], worth) = sum(k + 1)
      BY <2>5, <3>1
    <3>3. g[i] = g[k + 1] \o seqs[i] /\ seqs[i] \in Seq(S)
      BY <1>1, <2>2, <3>1
    <3>4. WorthOf(seqs[i], worth) = f[i] /\ f[i] \in Int
      BY <1>1, <3>1 DEF n
    <3>5. sum(k + 1) \in Int /\ sum(i) = sum(k + 1) + f[i]
      BY <2>3
    <3> HIDE DEF i, sum
    <3> DEFINE s == g[k + 1]
               t == seqs[i]
    <3>6. g[i] \in Seq(S) /\ WorthOf(g[i], worth) = WorthOf(s, worth) + f[i]
      <4>1. s \in Seq(S) /\ t \in Seq(S) /\ g[i] = s \o t /\ WorthOf(t, worth) = f[i]
        BY <3>2, <3>3, <3>4
      <4> HIDE DEF s, t
      <4>2. s \o t \in Seq(S)
        BY <4>1, ConcatProperties
      <4>3. WorthOf(s \o t, worth) = WorthOf(s, worth) + WorthOf(t, worth)
        BY <4>1, WorthOfJoined
      <4> QED
        BY <4>1, <4>2, <4>3
    <3> QED
      BY <3>2, <3>5, <3>6 DEF i
  <2> HIDE DEF Q
  <2>6. n - 1 \in Q
    <3>1. n - 1 \in Nat
      BY <1>1, <1>3 DEF n
    <3>2. \A k \in Nat : k \in Q => k + 1 \in Q
      BY <2>5
    <3>3. Nat \subseteq Q
      BY <2>4, <3>2, NatSetInduction
    <3> QED
      BY <3>1, <3>3
  <2>7. (n - 1) + 1 = n
    BY <1>1
  <2>8. g[n] \in Seq(S) /\ WorthOf(g[n], worth) = sum(n)
    BY <1>1, <2>6, <2>7 DEF Q
  <2> QED
    BY <2>1, <2>8 DEF n
<1> QED
  BY <1>2, <1>3

-----------------------------------------------------------------------------
(***************************************************************************)
(* Lists that name each element of a set once, and no other.               *)
(***************************************************************************)
Names(list, W) ==
    /\ list \in Seq(W)
    /\ \A w \in W : \E i \in 1..Len(list) : list[i] = w
    /\ \A i, j \in 1..Len(list) : list[i] = list[j] => i = j

LEMMA NamesOfNone == Names(<< >>, {})
<1>1. << >> \in Seq({}) /\ Len(<< >>) = 0 /\ 1..0 = {}
  BY EmptySeq
<1> QED
  BY <1>1 DEF Names

\* One more name, at the end.
LEMMA OneMoreName ==
    ASSUME NEW list, NEW W, Names(list, W), NEW x, x \notin W
    PROVE  Names(Append(list, x), W \cup {x})
<1> DEFINE n == Len(list)
           V == W \cup {x}
           more == Append(list, x)
<1>1. list \in Seq(W) /\ list \in Seq(V) /\ x \in V /\ n \in Nat
  <2>1. list \in Seq(W)
    BY DEF Names
  <2>2. list \in Seq(V)
    BY <2>1
  <2> QED
    BY <2>1, <2>2, LenProperties
<1>2. /\ more \in Seq(V) /\ Len(more) = n + 1 /\ more[n + 1] = x
      /\ \A i \in 1..n : more[i] = list[i]
  <2> HIDE DEF V
  <2> QED
    BY <1>1, AppendProperties
<1>3. /\ \A i \in 1..n : list[i] \in W
      /\ \A w \in W : \E i \in 1..n : list[i] = w
      /\ \A i, j \in 1..n : list[i] = list[j] => i = j
  BY <1>1, ElementOfSeq DEF Names
<1> HIDE DEF n, more
<1>4. \A i \in 1..(n + 1) : i \in 1..n \/ i = n + 1
  BY <1>1
<1>5. n + 1 \in 1..(n + 1) /\ \A i \in 1..n : i \in 1..(n + 1)
  BY <1>1
<1>6. \A w \in V : \E i \in 1..(n + 1) : more[i] = w
  BY <1>2, <1>3, <1>5
<1>7. \A i, j \in 1..(n + 1) : more[i] = more[j] => i = j
  <2>1. \A i \in 1..n : more[i] # x
    BY <1>2, <1>3
  <2> QED
    BY <1>2, <1>3, <1>4, <2>1
<1> HIDE DEF V
<1>8. Names(more, V)
  BY <1>2, <1>6, <1>7 DEF Names
<1> QED
  BY <1>8 DEF more, V

LEMMA NamesCounted ==
    ASSUME NEW list, NEW W, Names(list, W)
    PROVE  /\ ToSet(list) = W /\ IsFiniteSet(W)
           /\ Cardinality(W) = Len(list) /\ Len(list) \in Nat
           /\ \A i \in 1..Len(list) : list[i] \in W
<1> DEFINE n == Len(list)
<1>1. /\ n \in Nat /\ DOMAIN list = 1..n /\ \A i \in 1..n : list[i] \in W
  BY LenProperties, ElementOfSeq DEF Names
<1>2. /\ \A w \in W : \E i \in 1..n : list[i] = w
      /\ \A i, j \in 1..n : list[i] = list[j] => i = j
  BY DEF Names
<1>3. ToSet(list) = W
  BY <1>1, <1>2 DEF ToSet
<1> DEFINE f == [i \in 1..n |-> list[i]]
<1>4. f \in Bijection(1..n, W)
  BY <1>1, <1>2 DEF Bijection, Injection, Surjection, IsInjective
<1>5. IsFiniteSet(1..n) /\ Cardinality(1..n) = n
  BY <1>1, FS_Interval
<1>6. IsFiniteSet(W) /\ Cardinality(W) = n
  <2> HIDE DEF f, n
  <2> QED
    BY <1>4, <1>5, FS_Bijection DEF ExistsBijection
<1> QED
  BY <1>1, <1>3, <1>6

\* The first elements that a list names: one more is a new one.
LEMMA FirstOfList ==
    ASSUME NEW list, NEW W, Names(list, W), NEW k \in Nat, k + 1 <= Len(list)
    PROVE  LET first(m) == {list[i] : i \in 1..m}
           IN  /\ k + 1 \in 1..Len(list) /\ (k + 1) - 1 = k
               /\ list[k + 1] \in W /\ list[k + 1] \notin first(k)
               /\ first(k) \subseteq W /\ IsFiniteSet(first(k))
               /\ first(k + 1) = first(k) \cup {list[k + 1]}
<1> DEFINE n == Len(list)
           first(m) == {list[i] : i \in 1..m}
<1>1. /\ n \in Nat /\ IsFiniteSet(W)
      /\ \A i \in 1..n : list[i] \in W
      /\ \A i, j \in 1..n : list[i] = list[j] => i = j
  BY NamesCounted DEF Names
<1>2. k + 1 \in 1..n /\ (k + 1) - 1 = k /\ \A i \in 1..k : i \in 1..n /\ i # k + 1
  BY <1>1
<1>3. 1..(k + 1) = (1..k) \cup {k + 1}
  OBVIOUS
<1>4. first(k) \subseteq W
  BY <1>1, <1>2
<1>5. IsFiniteSet(first(k))
  BY <1>1, <1>4, FS_Subset
<1> QED
  BY <1>1, <1>2, <1>3, <1>4, <1>5

===============================================================================
