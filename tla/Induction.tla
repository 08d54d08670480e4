----------------------------- MODULE Induction -----------------------------
(***************************************************************************)
(* Induction and recursion in a form the provers can use.  The theorems of   *)
(* the library take the predicate or the body of the definition as an        *)
(* operator; here a property is the set of what has it, and the step of a    *)
(* fold is a function.                                                       *)
(***************************************************************************)
EXTENDS Integers, Functions, FiniteSetTheorems, WellFoundedInduction, TLAPS

-----------------------------------------------------------------------------
(* Naturals and finite sets.                                                *)

\* A non-empty set of naturals has a least element.
LEMMA LeastNatural ==
  ASSUME NEW T, T \subseteq Nat, T # {}
  PROVE  \E x \in T : \A y \in T : x <= y
PROOF
<1> DEFINE R == OpToRel(<, Nat)
<1>1. IsWellFoundedOn(R, Nat)
  BY NatLessThanWellFounded
<1>2. \A x, y \in Nat : y < x => <<y, x>> \in R
  BY DEF OpToRel
<1> HIDE DEF R
<1>3. \E x \in T : \A y \in T : <<y, x>> \notin R
  BY <1>1, WFMin
<1>4. PICK x \in T : \A y \in T : <<y, x>> \notin R
  BY <1>3
<1>5. ASSUME NEW y \in T
      PROVE  x <= y
  <2>1. x \in Nat /\ y \in Nat /\ ~ (y < x)
    BY <1>2, <1>4
  <2> QED  BY <2>1, SMT
<1> QED  BY <1>4, <1>5

\* Induction, with the property given as the set of the numbers that have it.
LEMMA SetInduction ==
  ASSUME NEW S, 0 \in S, \A n \in Nat : n \in S => n + 1 \in S
  PROVE  Nat \subseteq S
PROOF
<1> SUFFICES ASSUME Nat \ S # {}
             PROVE  FALSE
  OBVIOUS
<1>1. PICK x \in Nat \ S : \A y \in Nat \ S : x <= y
  BY LeastNatural, Zenon
<1>2. x # 0 /\ x - 1 \in Nat
  BY <1>1, SMT
<1>3. x - 1 \in S
  BY <1>1, <1>2, SMT
<1> QED  BY <1>1, <1>2, <1>3, SMT

\* The same over the subsets of a finite set, one element at a time.
LEMMA SubsetInduction ==
  ASSUME NEW S, IsFiniteSet(S), NEW Z, {} \in Z,
         \A t \in SUBSET S : t # {} /\ (\A x \in t : t \ {x} \in Z) => t \in Z
  PROVE  SUBSET S \subseteq Z
PROOF
<1> DEFINE N == {n \in Nat : \A t \in SUBSET S : Cardinality(t) = n => t \in Z}
<1>1. \A t \in SUBSET S : IsFiniteSet(t) /\ Cardinality(t) \in Nat
  BY FS_Subset, FS_CardinalityType
<1>2. 0 \in N
  BY <1>1, FS_EmptySet
<1>3. ASSUME NEW n \in Nat, n \in N
      PROVE  n + 1 \in N
  <2>1. ASSUME NEW t \in SUBSET S, Cardinality(t) = n + 1
        PROVE  t \in Z
    <3>1. t # {}
      <4>1. Cardinality({}) = 0
        BY FS_EmptySet, Zenon
      <4>2. Cardinality({}) # Cardinality(t)
        BY <2>1, <4>1, SMT
      <4> QED  BY <4>2
    <3>2. ASSUME NEW x \in t
          PROVE  t \ {x} \in Z
      <4>1. Cardinality(t \ {x}) = n
        <5>1. Cardinality(t \ {x}) = Cardinality(t) - 1
          BY <1>1, FS_RemoveElement
        <5> QED  BY <2>1, <5>1
      <4>2. t \ {x} \in SUBSET S
        OBVIOUS
      <4> QED  BY <1>3, <4>1, <4>2
    <3> QED  BY <3>1, <3>2
  <2> QED  BY <2>1
<1>4. Nat \subseteq N
  <2> HIDE DEF N
  <2> QED  BY <1>2, <1>3, SetInduction
<1> QED  BY <1>1, <1>4

-----------------------------------------------------------------------------
(* Functions of a natural number that look back at one smaller number p[n].  *)

BackStep(f, B, b, p, step, n) == IF n \in B THEN b[n] ELSE step[<<n, f[p[n]]>>]

LooksBack(f, B, b, p, step, m) ==
  \A n \in Nat : n <= m => f[n] = BackStep(f, B, b, p, step, n)

\* Two functions that look back in the same way are equal.
LEMMA BackUnique ==
  ASSUME NEW B, NEW b, NEW p \in [Nat -> Nat], \A n \in Nat \ B : p[n] < n, NEW step,
         NEW m \in Nat, NEW f, NEW g,
         LooksBack(f, B, b, p, step, m), LooksBack(g, B, b, p, step, m)
  PROVE  f[m] = g[m]
PROOF
<1> DEFINE T == {n \in Nat : n <= m /\ f[n] # g[n]}
<1> SUFFICES ASSUME T # {}
             PROVE  FALSE
  BY SMT
<1>1. PICK n \in T : \A k \in T : n <= k
  BY LeastNatural, Zenon
<1>2. n \in Nat /\ n <= m /\ f[n] # g[n]
  BY <1>1
<1>3. n \notin B
  BY <1>2 DEF BackStep, LooksBack
<1>4. p[n] \in Nat /\ p[n] < n
  BY <1>2, <1>3
<1>5. p[n] \notin T /\ p[n] <= m
  BY <1>1, <1>2, <1>4, SMT
<1>6. f[p[n]] = g[p[n]]
  BY <1>4, <1>5
<1>7. f[n] = BackStep(f, B, b, p, step, n) /\ g[n] = BackStep(g, B, b, p, step, n)
  BY <1>2 DEF LooksBack
<1>8. f[n] = step[<<n, f[p[n]]>>] /\ g[n] = step[<<n, g[p[n]]>>]
  BY <1>3, <1>7, Zenon DEF BackStep
<1> QED  BY <1>2, <1>6, <1>8, Zenon

BackType(V, B, b, p, step) ==
  /\ b \in [Nat -> V]
  /\ p \in [Nat -> Nat] /\ \A n \in Nat \ B : p[n] < n
  /\ step \in [Nat \X V -> V]

BackFunction(f, V, B, b, p, step) ==
  /\ f \in [Nat -> V]
  /\ \A n \in Nat : f[n] = BackStep(f, B, b, p, step, n)

\* A function of the numbers that looks back to smaller ones exists.
LEMMA BackRecursion ==
  ASSUME NEW V, NEW B, NEW b, NEW p, NEW step, BackType(V, B, b, p, step)
  PROVE  \E f : BackFunction(f, V, B, b, p, step)
PROOF
<1> USE DEF BackType
<1> DEFINE Good(f, m) ==
             /\ f \in [Nat -> V]
             /\ LooksBack(f, B, b, p, step, m)
           N == {m \in Nat : \E f : Good(f, m)}
<1>1. ASSUME NEW f \in [Nat -> V], NEW n \in Nat
      PROVE  BackStep(f, B, b, p, step, n) \in V
  <2>1. CASE n \in B
    BY <2>1 DEF BackStep
  <2>2. CASE n \notin B
    <3>1. <<n, f[p[n]]>> \in Nat \X V
      OBVIOUS
    <3> QED  BY <2>2, <3>1 DEF BackStep
  <2> QED  BY <2>1, <2>2
<1>2. \A n \in Nat : n <= 0 => n = 0
  BY SMT
<1>3. 0 \in N
  <2>1. 0 \in B
    <3>1. p[0] \in Nat /\ ~(p[0] < 0)
      BY SMT
    <3> QED  BY <3>1
  <2>2. \A n \in Nat : n <= 0 => b[n] = BackStep(b, B, b, p, step, n)
    BY <1>2, <2>1 DEF BackStep
  <2> QED  BY <2>2 DEF LooksBack
<1>4. ASSUME NEW m \in Nat, m \in N
      PROVE  m + 1 \in N
  <2>1. PICK f : Good(f, m)
    BY <1>4
  <2> DEFINE h == [n \in Nat |-> IF n = m + 1 THEN BackStep(f, B, b, p, step, n)
                                 ELSE f[n]]
  <2>2. h \in [Nat -> V]
    BY <1>1, <2>1
  <2>3. \A n \in Nat : n <= m + 1 => (h[n] = BackStep(f, B, b, p, step, n))
    BY <2>1, SMT DEF LooksBack
  <2>4. \A n \in Nat : n <= m => h[n] = f[n]
    BY SMT
  <2> HIDE DEF h
  <2>5. ASSUME NEW n \in Nat, n <= m + 1
        PROVE  BackStep(f, B, b, p, step, n) = BackStep(h, B, b, p, step, n)
    <3>1. CASE n \in B
      BY <3>1 DEF BackStep
    <3>2. CASE n \notin B
      <4>1. p[n] \in Nat /\ p[n] <= m
        BY <2>5, <3>2, SMT
      <4> QED  BY <2>4, <3>2, <4>1 DEF BackStep
    <3> QED  BY <3>1, <3>2
  <2>6. Good(h, m + 1)
    BY <2>2, <2>3, <2>5 DEF LooksBack
  <2>7. \E g : Good(g, m + 1)
    <3> HIDE DEF Good
    <3> QED  BY <2>6
  <2> QED  BY <2>7
<1>5. \A m \in Nat : \E f : Good(f, m)
  <2>1. Nat \subseteq N
    <3> HIDE DEF N
    <3> QED  BY <1>3, <1>4, SetInduction
  <2> HIDE DEF Good
  <2> QED  BY <2>1
<1> DEFINE G(m) == CHOOSE f : Good(f, m)
           F == [n \in Nat |-> G(n)[n]]
<1>6. \A m \in Nat : Good(G(m), m)
  <2> HIDE DEF Good
  <2> QED  BY <1>5
<1> HIDE DEF G
<1>7. F \in [Nat -> V]
  BY <1>6
<1>8. ASSUME NEW n \in Nat
      PROVE  F[n] = BackStep(F, B, b, p, step, n)
  <2>1. n <= n
    BY SMT
  <2>2. G(n)[n] = BackStep(G(n), B, b, p, step, n)
    BY <1>6, <2>1 DEF LooksBack
  <2>3. CASE n \in B
    BY <2>2, <2>3 DEF BackStep
  <2>4. CASE n \notin B
    <3> DEFINE q == p[n]
    <3>1. q \in Nat /\ q < n
      BY <2>4
    <3> HIDE DEF q
    <3>2. LooksBack(G(q), B, b, p, step, q)
      BY <1>6, <3>1
    <3>3. LooksBack(G(n), B, b, p, step, q)
      <4>1. \A k \in Nat : k <= q => k <= n
        BY <3>1, SMT
      <4> QED  BY <1>6, <4>1 DEF LooksBack
    <3>4. G(n)[q] = G(q)[q]
      BY <3>1, <3>2, <3>3, BackUnique
    <3>5. F[q] = G(n)[q]
      BY <3>1, <3>4
    <3>6. F[n] = step[<<n, G(n)[q]>>]
      BY <2>2, <2>4 DEF BackStep, q
    <3> HIDE DEF F
    <3> QED  BY <2>4, <3>5, <3>6 DEF BackStep, q
  <2> QED  BY <2>3, <2>4
<1> HIDE DEF F
<1> QED  BY <1>7, <1>8 DEF BackFunction

-----------------------------------------------------------------------------
(* Folds: an element c[t] of the set t is taken at a time.                  *)

FoldStep(g, S, base, step, c, t) ==
  IF t = {} THEN base ELSE step[<<c[t], g[t \ {c[t]}]>>]

\* A function of the subsets that takes one element at a time exists.
LEMMA FoldRecursion ==
  ASSUME NEW S, IsFiniteSet(S), NEW V, NEW base \in V, NEW step \in [S \X V -> V],
         NEW c, \A t \in SUBSET S : t # {} => c[t] \in t
  PROVE  \E g \in [SUBSET S -> V] :
           \A t \in SUBSET S : g[t] = FoldStep(g, S, base, step, c, t)
PROOF
<1> DEFINE Good(g, n) ==
             /\ g \in [SUBSET S -> V]
             /\ \A t \in SUBSET S :
                  Cardinality(t) <= n => g[t] = FoldStep(g, S, base, step, c, t)
           N == {n \in Nat : \E g : Good(g, n)}
<1>1. \A t \in SUBSET S : IsFiniteSet(t) /\ Cardinality(t) \in Nat
  BY FS_Subset, FS_CardinalityType
<1>2. 0 \in N
  <2> DEFINE g == [t \in SUBSET S |-> base]
  <2>1. \A t \in SUBSET S : Cardinality(t) <= 0 => t = {}
    BY <1>1, FS_EmptySet
  <2>2. Good(g, 0)
    BY <2>1 DEF FoldStep
  <2> QED  BY <2>2
<1>3. ASSUME NEW n \in Nat, n \in N
      PROVE  n + 1 \in N
  <2>1. PICK g : Good(g, n)
    BY <1>3
  <2> DEFINE h == [t \in SUBSET S |-> IF Cardinality(t) = n + 1
                                      THEN FoldStep(g, S, base, step, c, t)
                                      ELSE g[t]]
  <2>2. h \in [SUBSET S -> V]
    <3>1. ASSUME NEW t \in SUBSET S
          PROVE  FoldStep(g, S, base, step, c, t) \in V
      <4>1. CASE t = {}
        BY <4>1 DEF FoldStep
      <4>2. CASE t # {}
        <5>1. c[t] \in S /\ g[t \ {c[t]}] \in V
          BY <2>1, <4>2
        <5>2. <<c[t], g[t \ {c[t]}]>> \in S \X V
          BY <5>1
        <5> QED  BY <4>2, <5>2 DEF FoldStep
      <4> QED  BY <4>1, <4>2
    <3> QED  BY <2>1, <3>1
  <2>3. ASSUME NEW t \in SUBSET S, Cardinality(t) <= n + 1
        PROVE  h[t] = FoldStep(h, S, base, step, c, t)
    <3>1. h[t] = FoldStep(g, S, base, step, c, t)
      <4>1. CASE Cardinality(t) = n + 1
        BY <4>1
      <4>2. CASE Cardinality(t) # n + 1
        <5>1. Cardinality(t) <= n
          BY <1>1, <2>3, <4>2
        <5> QED  BY <2>1, <4>2, <5>1
      <4> QED  BY <4>1, <4>2
    <3>2. CASE t = {}
      <4> HIDE DEF h
      <4> QED  BY <3>1, <3>2 DEF FoldStep
    <3>3. CASE t # {}
      <4>1. t \ {c[t]} \in SUBSET S
        OBVIOUS
      <4>2. Cardinality(t \ {c[t]}) # n + 1
        <5>1. c[t] \in t
          BY <3>3
        <5>2. Cardinality(t \ {c[t]}) = Cardinality(t) - 1
          BY <1>1, <5>1, FS_RemoveElement
        <5> QED  BY <1>1, <2>3, <5>2
      <4>3. h[t \ {c[t]}] = g[t \ {c[t]}]
        BY <4>1, <4>2
      <4> HIDE DEF h
      <4> QED  BY <3>1, <3>3, <4>3 DEF FoldStep
    <3> QED  BY <3>2, <3>3
  <2>4. Good(h, n + 1)
    <3> HIDE DEF h
    <3> QED  BY <2>2, <2>3
  <2>5. \E f : Good(f, n + 1)
    <3> HIDE DEF h, Good
    <3> QED  BY <2>4
  <2> QED  BY <2>5
<1>4. Cardinality(S) \in N
  <2> HIDE DEF N
  <2> QED  BY <1>1, <1>2, <1>3, SetInduction
<1>5. PICK g : Good(g, Cardinality(S))
  BY <1>4
<1>6. \A t \in SUBSET S : Cardinality(t) <= Cardinality(S)
  BY FS_Subset
<1> QED  BY <1>5, <1>6

\* There is only one such function.
LEMMA FoldUnique ==
  ASSUME NEW S, IsFiniteSet(S), NEW base, NEW step, NEW c,
         \A t \in SUBSET S : t # {} => c[t] \in t,
         NEW g, NEW h,
         \A t \in SUBSET S : g[t] = FoldStep(g, S, base, step, c, t),
         \A t \in SUBSET S : h[t] = FoldStep(h, S, base, step, c, t)
  PROVE  \A t \in SUBSET S : g[t] = h[t]
PROOF
<1> DEFINE Z == {t \in SUBSET S : g[t] = h[t]}
<1>1. {} \in Z
  BY DEF FoldStep
<1>2. ASSUME NEW t \in SUBSET S, t # {}, \A x \in t : t \ {x} \in Z
      PROVE  t \in Z
  <2>1. g[t \ {c[t]}] = h[t \ {c[t]}]
    BY <1>2
  <2> QED  BY <1>2, <2>1 DEF FoldStep
<1>3. SUBSET S \subseteq Z
  <2> HIDE DEF Z
  <2> QED  BY <1>1, <1>2, SubsetInduction
<1> QED  BY <1>3

-----------------------------------------------------------------------------
(* The sum of the values of a function.                                      *)

SumStep(g, f, t) ==
  IF t = {} THEN 0 ELSE f[CHOOSE x \in t : TRUE] + g[t \ {CHOOSE x \in t : TRUE}]

\* The definition of the community modules, its operator arguments applied.
LEMMA SumIsChoice ==
  ASSUME NEW f
  PROVE  SumFunction(f) =
           (CHOOSE g : g = [t \in SUBSET DOMAIN f |-> SumStep(g, f, t)])[DOMAIN f]
BY Zenon DEF SumFunction, SumFunctionOnSet, FoldFunctionOnSet, MapThenFoldSet,
             SumStep

\* A function of the subsets that adds one element at a time ends in the sum.
LEMMA SumRecursion ==
  ASSUME NEW S, IsFiniteSet(S), NEW f \in [S -> Int]
  PROVE  \E g \in [SUBSET S -> Int] :
           /\ \A t \in SUBSET S : g[t] = SumStep(g, f, t)
           /\ SumFunction(f) = g[S]
PROOF
<1> DEFINE step == [p \in S \X Int |-> f[p[1]] + p[2]]
           c    == [t \in SUBSET S |-> CHOOSE x \in t : TRUE]
<1>1. step \in [S \X Int -> Int]
  <2>1. ASSUME NEW p \in S \X Int
        PROVE  f[p[1]] + p[2] \in Int
    <3>1. p[1] \in S /\ p[2] \in Int
      OBVIOUS
    <3>2. f[p[1]] \in Int
      BY <3>1
    <3> QED  BY <3>1, <3>2
  <2> QED  BY <2>1
<1>2. \A t \in SUBSET S : t # {} => c[t] \in t
  OBVIOUS
<1>3. ASSUME NEW g, NEW t \in SUBSET S, g[t \ {c[t]}] \in Int
      PROVE  FoldStep(g, S, 0, step, c, t) = SumStep(g, f, t)
  <2>1. CASE t = {}
    BY <2>1 DEF FoldStep, SumStep
  <2>2. CASE t # {}
    <3> DEFINE x == CHOOSE x \in t : TRUE
    <3>1. c[t] = x /\ x \in t
      BY <2>2
    <3> HIDE DEF c, x
    <3>2. <<x, g[t \ {x}]>> \in S \X Int
      BY <1>3, <3>1
    <3>3. step[<<x, g[t \ {x}]>>] = f[x] + g[t \ {x}]
      BY <3>2
    <3> HIDE DEF step
    <3>4. FoldStep(g, S, 0, step, c, t) = f[x] + g[t \ {x}]
      BY <2>2, <3>1, <3>3 DEF FoldStep
    <3> USE DEF x
    <3> QED  BY <2>2, <3>4 DEF SumStep
  <2> QED  BY <2>1, <2>2
<1> HIDE DEF step, c
<1>4. PICK g \in [SUBSET S -> Int] :
             \A t \in SUBSET S : g[t] = FoldStep(g, S, 0, step, c, t)
  <2>1. 0 \in Int
    OBVIOUS
  <2>2. \A base \in Int : \A st \in [S \X Int -> Int] : \A d :
          (\A t \in SUBSET S : t # {} => d[t] \in t) =>
            \E g \in [SUBSET S -> Int] :
              \A t \in SUBSET S : g[t] = FoldStep(g, S, base, st, d, t)
    BY FoldRecursion, Zenon
  <2>3. \A d :
          (\A t \in SUBSET S : t # {} => d[t] \in t) =>
            \E g \in [SUBSET S -> Int] :
              \A t \in SUBSET S : g[t] = FoldStep(g, S, 0, step, d, t)
    BY <1>1, <2>1, <2>2, Zenon
  <2> QED  BY <1>2, <2>3, Zenon
<1>5. \A t \in SUBSET S : g[t] = SumStep(g, f, t)
  <2>1. \A t \in SUBSET S : g[t \ {c[t]}] \in Int
    BY <1>4
  <2> QED  BY <1>3, <1>4, <2>1
<1>6. DOMAIN f = S
  OBVIOUS
<1>7. g = [t \in SUBSET DOMAIN f |-> SumStep(g, f, t)]
  BY <1>4, <1>5, <1>6
<1> DEFINE h == CHOOSE h : h = [t \in SUBSET DOMAIN f |-> SumStep(h, f, t)]
<1>8. h = [t \in SUBSET DOMAIN f |-> SumStep(h, f, t)]
  BY <1>7
<1>9. SumFunction(f) = h[S]
  BY <1>6, SumIsChoice
<1> HIDE DEF h
<1>10. \A t \in SUBSET S : g[t] = h[t]
  <2> DEFINE Z == {t \in SUBSET S : g[t] = h[t]}
  <2>1. \A t \in SUBSET S : h[t] = SumStep(h, f, t)
    BY <1>6, <1>8
  <2>2. {} \in Z
    BY <1>5, <2>1 DEF SumStep
  <2>3. ASSUME NEW t \in SUBSET S, t # {}, \A x \in t : t \ {x} \in Z
        PROVE  t \in Z
    <3> DEFINE x == CHOOSE x \in t : TRUE
    <3>1. x \in t
      BY <2>3
    <3>2. g[t \ {x}] = h[t \ {x}]
      BY <2>3, <3>1
    <3>3. SumStep(g, f, t) = SumStep(h, f, t)
      BY <3>2 DEF SumStep
    <3> HIDE DEF x
    <3> QED  BY <1>5, <2>1, <3>3
  <2>4. SUBSET S \subseteq Z
    <3> HIDE DEF Z
    <3> QED  BY <2>2, <2>3, SubsetInduction
  <2> QED  BY <2>4
<1> QED  BY <1>4, <1>5, <1>9, <1>10

\* The sum of integers is one.
LEMMA SumIsInt ==
  ASSUME NEW S, IsFiniteSet(S), NEW f \in [S -> Int]
  PROVE  SumFunction(f) \in Int
PROOF
<1>1. PICK g \in [SUBSET S -> Int] : SumFunction(f) = g[S]
  BY SumRecursion
<1> QED  BY <1>1

\* Where two functions differ in one place only, so do their sums.
LEMMA SumChanges ==
  ASSUME NEW S, IsFiniteSet(S), NEW f \in [S -> Int], NEW h \in [S -> Int],
         NEW i \in S, \A j \in S \ {i} : h[j] = f[j]
  PROVE  SumFunction(h) = SumFunction(f) + h[i] - f[i]
PROOF
<1>1. PICK a \in [SUBSET S -> Int] :
             /\ \A t \in SUBSET S : a[t] = SumStep(a, f, t)
             /\ SumFunction(f) = a[S]
  BY SumRecursion
<1>2. PICK b \in [SUBSET S -> Int] :
             /\ \A t \in SUBSET S : b[t] = SumStep(b, h, t)
             /\ SumFunction(h) = b[S]
  BY SumRecursion
<1> DEFINE d    == h[i] - f[i]
           Z    == {t \in SUBSET S : b[t] = a[t] + (IF i \in t THEN d ELSE 0)}
<1>3. {} \in Z
  BY <1>1, <1>2 DEF SumStep
<1>4. ASSUME NEW t \in SUBSET S, t # {}, \A x \in t : t \ {x} \in Z
      PROVE  t \in Z
  <2> DEFINE x == CHOOSE x \in t : TRUE
             u == t \ {x}
  <2>1. x \in t
    BY <1>4
  <2>2. b[u] = a[u] + (IF i \in u THEN d ELSE 0)
    BY <1>4, <2>1
  <2>3. a[t] = f[x] + a[u] /\ b[t] = h[x] + b[u]
    BY <1>1, <1>2, <1>4 DEF SumStep
  <2>4. u \in SUBSET S /\ x \in S
    BY <2>1
  <2>5. i \in u <=> i \in t /\ i # x
    OBVIOUS
  <2> HIDE DEF x, u
  <2>6. /\ a[u] \in Int /\ a[t] \in Int /\ b[u] \in Int /\ b[t] \in Int
        /\ f[x] \in Int /\ h[x] \in Int /\ f[i] \in Int /\ h[i] \in Int
    BY <1>1, <1>2, <2>4
  <2>7. CASE x = i
    BY <2>1, <2>2, <2>3, <2>5, <2>6, <2>7
  <2>8. CASE x # i
    <3>1. h[x] = f[x]
      BY <2>4, <2>8
    <3> QED  BY <2>2, <2>3, <2>5, <2>6, <2>8, <3>1
  <2> QED  BY <2>7, <2>8
<1>5. SUBSET S \subseteq Z
  <2> HIDE DEF Z
  <2> QED  BY <1>3, <1>4, SubsetInduction
<1>6. b[S] = a[S] + d
  BY <1>5
<1>7. /\ a[S] \in Int /\ b[S] \in Int /\ f[i] \in Int /\ h[i] \in Int
  OBVIOUS
<1> QED  BY <1>1, <1>2, <1>6, <1>7

Adds(g, S, f) ==
  /\ g \in [SUBSET S -> Int]
  /\ \A t \in SUBSET S : g[t] = SumStep(g, f, t)

\* The order in which the elements are taken makes no difference.
LEMMA AnyOrder ==
  ASSUME NEW S, IsFiniteSet(S), NEW f \in [S -> Int], NEW g,
         Adds(g, S, f), NEW s \in SUBSET S, NEW e \in s
  PROVE  g[s] = f[e] + g[s \ {e}]
PROOF
<1> DEFINE Z == {t \in SUBSET S : \A x \in t : g[t] = f[x] + g[t \ {x}]}
<1>1. {} \in Z
  OBVIOUS
<1>2. ASSUME NEW t \in SUBSET S, t # {}, \A x \in t : t \ {x} \in Z, NEW x \in t
      PROVE  g[t] = f[x] + g[t \ {x}]
  <2> DEFINE y == CHOOSE y \in t : TRUE
  <2>1. y \in t /\ g[t] = f[y] + g[t \ {y}]
    BY <1>2 DEF SumStep, Adds
  <2> HIDE DEF y
  <2>2. CASE x = y
    BY <2>1, <2>2
  <2>3. CASE x # y
    <3>1. x \in t \ {y} /\ y \in t \ {x}
      BY <2>1, <2>3
    <3> DEFINE u == (t \ {y}) \ {x}
    <3>2. g[t \ {y}] = f[x] + g[u]
      BY <1>2, <2>1, <3>1
    <3>3. (t \ {x}) \ {y} = u
      OBVIOUS
    <3>4. g[t \ {x}] = f[y] + g[(t \ {x}) \ {y}]
      BY <1>2, <3>1
    <3>5. u \in SUBSET S
      OBVIOUS
    <3> HIDE DEF u
    <3>6. g[u] \in Int /\ f[x] \in Int /\ f[y] \in Int
      BY <2>1, <3>5 DEF Adds
    <3>7. g[t] = f[y] + (f[x] + g[u])
      BY <2>1, <3>2
    <3>8. g[t \ {x}] = f[y] + g[u]
      BY <3>3, <3>4
    <3> QED  BY <3>6, <3>7, <3>8
  <2> QED  BY <2>2, <2>3
<1>3. \A t \in SUBSET S : t # {} /\ (\A x \in t : t \ {x} \in Z) => t \in Z
  BY <1>2
<1>4. SUBSET S \subseteq Z
  <2> HIDE DEF Z
  <2> QED  BY <1>1, <1>3, SubsetInduction
<1> QED  BY <1>4

IntValued(f, S) == f \in [S -> Int]

Without(h, f, S, x) ==
  IntValued(f, S) /\ IntValued(h, S \ {x}) /\ \A i \in S \ {x} : h[i] = f[i]

\* An element can be taken out of the sum.
LEMMA SumWithout ==
  ASSUME NEW S, IsFiniteSet(S), NEW x \in S, NEW f, NEW h, Without(h, f, S, x)
  PROVE  SumFunction(f) = f[x] + SumFunction(h)
PROOF
<1> DEFINE R == S \ {x}
<1>1. IsFiniteSet(R) /\ h \in [R -> Int] /\ R \in SUBSET S
  BY FS_Subset DEF Without, IntValued
<1>2. PICK a \in [SUBSET S -> Int] :
             /\ \A t \in SUBSET S : a[t] = SumStep(a, f, t)
             /\ SumFunction(f) = a[S]
  BY SumRecursion DEF Without, IntValued
<1>3. \A i \in R : h[i] = f[i]
  BY DEF Without
<1>4. PICK b \in [SUBSET R -> Int] :
             /\ \A t \in SUBSET R : b[t] = SumStep(b, h, t)
             /\ SumFunction(h) = b[R]
  BY <1>1, SumRecursion
<1> DEFINE Z == {t \in SUBSET R : a[t] = b[t]}
<1>5. {} \in Z
  BY <1>2, <1>4 DEF SumStep
<1>6. ASSUME NEW t \in SUBSET R, t # {}, \A y \in t : t \ {y} \in Z
      PROVE  t \in Z
  <2> DEFINE y == CHOOSE y \in t : TRUE
  <2>1. y \in t /\ y \in R
    BY <1>6
  <2>2. a[t \ {y}] = b[t \ {y}]
    BY <1>6, <2>1
  <2>3. a[t] = f[y] + a[t \ {y}]
    BY <1>1, <1>2, <1>6 DEF SumStep
  <2>4. b[t] = h[y] + b[t \ {y}]
    BY <1>4, <1>6 DEF SumStep
  <2> HIDE DEF y
  <2> QED  BY <1>3, <2>1, <2>2, <2>3, <2>4
<1>7. SUBSET R \subseteq Z
  <2>1. \A t \in SUBSET R : t # {} /\ (\A y \in t : t \ {y} \in Z) => t \in Z
    BY <1>6
  <2>2. IsFiniteSet(R)
    BY <1>1
  <2> HIDE DEF Z, R
  <2> QED  BY <1>5, <2>1, <2>2, SubsetInduction, Zenon
<1>8. a[R] = b[R]
  BY <1>7
<1>9. a[S] = f[x] + a[S \ {x}]
  <2>1. Adds(a, S, f)
    BY <1>2 DEF Adds
  <2>2. f \in [S -> Int] /\ S \in SUBSET S
    BY DEF Without, IntValued
  <2> QED  BY <2>1, <2>2, AnyOrder
<1> QED  BY <1>2, <1>4, <1>8, <1>9

\* A common factor can be taken out of the sum.
LEMMA SumScaled ==
  ASSUME NEW S, IsFiniteSet(S), NEW f, NEW h, IntValued(f, S), IntValued(h, S),
         NEW k \in Int, \A i \in S : h[i] = k * f[i]
  PROVE  SumFunction(h) = k * SumFunction(f)
PROOF
<1> USE DEF IntValued
<1>1. PICK a \in [SUBSET S -> Int] :
             /\ \A t \in SUBSET S : a[t] = SumStep(a, f, t)
             /\ SumFunction(f) = a[S]
  BY SumRecursion
<1>2. PICK b \in [SUBSET S -> Int] :
             /\ \A t \in SUBSET S : b[t] = SumStep(b, h, t)
             /\ SumFunction(h) = b[S]
  BY SumRecursion
<1> DEFINE Z == {t \in SUBSET S : b[t] = k * a[t]}
<1>3. {} \in Z
  <2>1. a[{}] = 0 /\ b[{}] = 0
    BY <1>1, <1>2 DEF SumStep
  <2> QED  BY <2>1
<1>4. ASSUME NEW t \in SUBSET S, t # {}, \A x \in t : t \ {x} \in Z
      PROVE  t \in Z
  <2> DEFINE x == CHOOSE x \in t : TRUE
             u == t \ {x}
  <2>1. x \in t /\ x \in S /\ u \in SUBSET S
    BY <1>4
  <2>2. b[u] = k * a[u]
    BY <1>4, <2>1
  <2>3. a[t] = f[x] + a[u] /\ b[t] = h[x] + b[u]
    BY <1>1, <1>2, <1>4 DEF SumStep
  <2> HIDE DEF x, u
  <2>4. h[x] = k * f[x] /\ f[x] \in Int /\ a[u] \in Int
    BY <1>1, <2>1
  <2>5. k * (f[x] + a[u]) = k * f[x] + k * a[u]
    BY <2>4, SMT
  <2>6. b[t] = k * a[t]
    BY <2>2, <2>3, <2>4, <2>5
  <2> QED  BY <2>6
<1>5. SUBSET S \subseteq Z
  <2> HIDE DEF Z
  <2> QED  BY <1>3, <1>4, SubsetInduction
<1>6. b[S] = k * a[S]
  BY <1>5
<1> QED  BY <1>1, <1>2, <1>6

\* The sum of no values is zero.
LEMMA SumOfNothing ==
  ASSUME NEW f, DOMAIN f = {}
  PROVE  SumFunction(f) = 0
PROOF
<1> DEFINE h == CHOOSE h : h = [t \in SUBSET DOMAIN f |-> SumStep(h, f, t)]
<1>1. \E h0 : h0 = [t \in SUBSET DOMAIN f |-> SumStep(h0, f, t)]
  <2> DEFINE z == [t \in {{}} |-> 0]
  <2>1. z = [t \in SUBSET DOMAIN f |-> SumStep(z, f, t)]
    BY DEF SumStep
  <2> QED  BY <2>1
<1>2. h = [t \in SUBSET DOMAIN f |-> SumStep(h, f, t)]
  BY <1>1
<1>3. SumFunction(f) = h[DOMAIN f]
  BY SumIsChoice
<1> HIDE DEF h
<1> QED  BY <1>2, <1>3 DEF SumStep

\* The sum of natural numbers is one.
LEMMA SumIsNat ==
  ASSUME NEW S, IsFiniteSet(S), NEW f \in [S -> Nat]
  PROVE  SumFunction(f) \in Nat
PROOF
<1>1. f \in [S -> Int]
  OBVIOUS
<1>2. PICK a \in [SUBSET S -> Int] :
             /\ \A t \in SUBSET S : a[t] = SumStep(a, f, t)
             /\ SumFunction(f) = a[S]
  BY <1>1, SumRecursion
<1> DEFINE Z == {t \in SUBSET S : a[t] \in Nat}
<1>3. {} \in Z
  BY <1>2 DEF SumStep
<1>4. ASSUME NEW t \in SUBSET S, t # {}, \A x \in t : t \ {x} \in Z
      PROVE  t \in Z
  <2> DEFINE x == CHOOSE x \in t : TRUE
  <2>1. x \in t
    BY <1>4
  <2>2. a[t \ {x}] \in Nat /\ f[x] \in Nat
    BY <1>4, <2>1
  <2>3. a[t] = f[x] + a[t \ {x}]
    BY <1>2, <1>4 DEF SumStep
  <2> HIDE DEF x
  <2> QED  BY <2>2, <2>3
<1>5. SUBSET S \subseteq Z
  <2> HIDE DEF Z
  <2> QED  BY <1>3, <1>4, SubsetInduction
<1> QED  BY <1>2, <1>5

\* The sum of zeros is zero.
LEMMA SumOfZeros ==
  ASSUME NEW S, IsFiniteSet(S), NEW f, IntValued(f, S), \A i \in S : f[i] = 0
  PROVE  SumFunction(f) = 0
PROOF
<1>1. 0 \in Int /\ \A i \in S : f[i] = 0 * f[i]
  BY DEF IntValued
<1>2. SumFunction(f) = 0 * SumFunction(f)
  BY <1>1, SumScaled
<1>3. SumFunction(f) \in Int
  BY SumIsInt DEF IntValued
<1> QED  BY <1>2, <1>3
=============================================================================
