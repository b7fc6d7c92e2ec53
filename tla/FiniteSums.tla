------------------------------ MODULE FiniteSums ------------------------------
(***************************************************************************)
(* Induction over the natural numbers as the principle of the least        *)
(* element, and what the conservation proofs need to know of sums over a   *)
(* finite set: MapThenSumSet adds the values one by one, in an order that  *)
(* depends on the set only.                                                *)
(***************************************************************************)
EXTENDS FiniteSetsExt, FiniteSetTheorems, TLAPS

Below == {ss \in Nat \X Nat : ss[1] < ss[2]}

\* The order of the natural numbers is well founded.
LEMMA BelowWellFounded == IsWellFoundedOn(Below, Nat)
BY Zenon, NatLessThanWellFounded DEF Below, OpToRel

\* A set of natural numbers that is not empty has a least element.
LEMMA Least ==
    ASSUME NEW T \in SUBSET Nat, T # {}
    PROVE  \E n \in T : \A m \in T : n <= m
<1>1. PICK n \in T : \A m \in T : ~(<<m, n>> \in Below)
  BY BelowWellFounded, WFMin
<1>2. ASSUME NEW m \in T PROVE n <= m
  <2>1. ~(<<m, n>> \in Below) /\ m \in Nat /\ n \in Nat
    BY <1>1
  <2> QED BY <2>1 DEF Below
<1> QED BY <1>2

\* What is true of 0, and of n + 1 if it is of n, is true of every number.
LEMMA CountingUp ==
    ASSUME NEW T \in SUBSET Nat, 0 \in T, \A n \in T : n + 1 \in T
    PROVE  T = Nat
<1> SUFFICES ASSUME Nat \ T # {} PROVE FALSE
  OBVIOUS
<1>1. PICK n \in Nat \ T : \A m \in Nat \ T : n <= m
  BY Least
<1>2. n # 0 /\ n - 1 \in Nat
  OBVIOUS
<1>3. n - 1 \in T
  BY <1>1, <1>2
<1>4. (n - 1) + 1 \in T
  BY <1>3
<1> QED BY <1>1, <1>2, <1>4

\* Induction over the subsets of a finite set.
LEMMA SubsetInduction ==
    ASSUME NEW S, IsFiniteSet(S), NEW G \in SUBSET SUBSET S, {} \in G,
           \A M \in SUBSET S : M # {} /\ (\A x \in M : M \ {x} \in G) => M \in G
    PROVE  \A M \in SUBSET S : M \in G
<1> DEFINE T == {n \in Nat : \A M \in SUBSET S : Cardinality(M) = n => M \in G}
<1>1. \A M \in SUBSET S : IsFiniteSet(M) /\ Cardinality(M) \in Nat /\ (Cardinality(M) = 0 <=> M = {})
  BY FS_Subset, FS_CardinalityType, FS_EmptySet
<1>2. 0 \in T
  BY <1>1
<1>3. ASSUME NEW n \in T PROVE n + 1 \in T
  <2> SUFFICES ASSUME NEW M \in SUBSET S, Cardinality(M) = n + 1 PROVE M \in G
    OBVIOUS
  <2>1. M # {}
    BY <1>1
  <2>2. ASSUME NEW x \in M PROVE M \ {x} \in G
    <3>1. M \ {x} \in SUBSET S /\ Cardinality(M \ {x}) = n
      BY <1>1, FS_RemoveElement
    <3> QED BY <3>1
  <2> QED BY <2>1, <2>2
<1> HIDE DEF T
<1>4. T \in SUBSET Nat
  BY DEF T
<1>5. T = Nat
  BY <1>2, <1>3, <1>4, CountingUp
<1> QED BY <1>1, <1>5 DEF T

\* A finite set of numbers that is not empty has a greatest element.
LEMMA MaxIsIn ==
    ASSUME NEW S \in SUBSET Nat, IsFiniteSet(S), S # {}
    PROVE  Max(S) \in S
<1> DEFINE G == {M \in SUBSET S : M # {} => \E x \in M : \A y \in M : x >= y}
<1>1. {} \in G /\ G \in SUBSET SUBSET S
  OBVIOUS
<1>2. ASSUME NEW M \in SUBSET S, M # {}, \A x \in M : M \ {x} \in G
      PROVE  M \in G
  <2>1. PICK x \in M : TRUE
    BY <1>2
  <2>2. CASE M \ {x} = {}
    BY <2>1, <2>2
  <2>3. CASE M \ {x} # {}
    <3>1. PICK y \in M \ {x} : \A z \in M \ {x} : y >= z
      BY <1>2, <2>1, <2>3
    <3>2. (\A z \in M : x >= z) \/ (\A z \in M : y >= z)
      BY <2>1, <3>1
    <3> QED BY <3>1, <3>2
  <2> QED BY <2>2, <2>3
<1> HIDE DEF G
<1>3. S \in G
  BY <1>1, <1>2, SubsetInduction
<1>4. \E x \in S : \A y \in S : x >= y
  BY <1>3 DEF G
<1> QED BY <1>4 DEF Max

-----------------------------------------------------------------------------
Sum(f, S) == MapThenSumSet(LAMBDA x : f[x], S)

One(s) == CHOOSE x \in s : TRUE
Step(f, g, s) == IF s = {} THEN 0 ELSE f[One(s)] + g[s \ {One(s)}]
Adds(f, S, g) == g = [s \in SUBSET S |-> Step(f, g, s)]
Partial(f, S) == CHOOSE g : Adds(f, S, g)

\* The sum is the last of the partial sums.
LEMMA SumIs ==
    ASSUME NEW f, NEW S
    PROVE  Sum(f, S) = Partial(f, S)[S]
BY DEF Sum, MapThenSumSet, MapThenFoldSet, Partial, Adds, Step, One

\* Taking one element out of a finite set.
LEMMA TakeOne ==
    ASSUME NEW s, IsFiniteSet(s), s # {}
    PROVE  /\ One(s) \in s
           /\ IsFiniteSet(s \ {One(s)})
           /\ Cardinality(s) \in Nat /\ Cardinality(s \ {One(s)}) = Cardinality(s) - 1
<1>1. One(s) \in s
  BY DEF One
<1> QED BY <1>1, FS_RemoveElement, FS_CardinalityType

\* The recursion in MapThenSumSet defines a function.
LEMMA PartialSums ==
    ASSUME NEW S, IsFiniteSet(S), NEW f \in [S -> Int]
    PROVE  /\ Adds(f, S, Partial(f, S))
           /\ Partial(f, S) \in [SUBSET S -> Int]
<1> DEFINE Upto(n, g) == \A s \in SUBSET S : Cardinality(s) <= n => g[s] = Step(f, g, s)
           Bad == {n \in Nat : ~ \E g \in [SUBSET S -> Int] : Upto(n, g)}
<1>0. \A s \in SUBSET S : IsFiniteSet(s) /\ Cardinality(s) \in Nat
                            /\ (Cardinality(s) = 0 <=> s = {})
  BY FS_Subset, FS_CardinalityType, FS_EmptySet
<1>1. ASSUME NEW g \in [SUBSET S -> Int], NEW s \in SUBSET S
      PROVE  Step(f, g, s) \in Int
  <2>1. CASE s = {}
    BY <2>1 DEF Step
  <2>2. CASE s # {}
    <3>1. One(s) \in S /\ s \ {One(s)} \in SUBSET S
      BY <1>0, <2>2, TakeOne
    <3> QED BY <2>2, <3>1 DEF Step
  <2> QED BY <2>1, <2>2
<1>2. Bad = {}
  <2> SUFFICES ASSUME Bad # {} PROVE FALSE
    OBVIOUS
  <2>1. PICK n \in Bad : \A m \in Bad : n <= m
    <3> HIDE DEF Upto
    <3> QED BY Least
  <2>2. n \in Nat /\ ~ \E g \in [SUBSET S -> Int] : Upto(n, g)
    OBVIOUS
  <2>3. CASE n = 0
    <3> DEFINE z == [s \in SUBSET S |-> 0]
    <3>1. z \in [SUBSET S -> Int]
      OBVIOUS
    <3>2. Upto(0, z)
      BY <1>0 DEF Step
    <3> QED BY <2>2, <2>3, <3>1, <3>2
  <2>4. CASE n # 0
    <3>1. n - 1 \in Nat /\ n - 1 \notin Bad
      <4> HIDE DEF Bad
      <4> QED BY <2>1, <2>2, <2>4
    <3>2. PICK g \in [SUBSET S -> Int] : Upto(n - 1, g)
      BY <3>1
    <3> DEFINE h == [s \in SUBSET S |-> Step(f, g, s)]
    <3>3. h \in [SUBSET S -> Int]
      BY <1>1
    <3>4. ASSUME NEW s \in SUBSET S, Cardinality(s) <= n PROVE h[s] = Step(f, h, s)
      <4>1. CASE s = {}
        BY <4>1 DEF Step
      <4>2. CASE s # {}
        <5> DEFINE r == s \ {One(s)}
        <5>1. r \in SUBSET S /\ Cardinality(r) <= n - 1
          BY <1>0, <2>2, <3>4, <4>2, TakeOne
        <5>2. g[r] = Step(f, g, r)
          BY <3>2, <5>1
        <5>3. h[r] = g[r]
          BY <5>1, <5>2
        <5>4. h[s] = f[One(s)] + g[r] /\ Step(f, h, s) = f[One(s)] + h[r]
          BY <4>2 DEF Step
        <5> QED BY <5>3, <5>4
      <4> QED BY <4>1, <4>2
    <3>5. Upto(n, h)
      BY <3>4
    <3> QED BY <2>2, <3>3, <3>5
  <2> QED BY <2>3, <2>4
<1>3. PICK g \in [SUBSET S -> Int] : Upto(Cardinality(S), g)
  BY <1>0, <1>2
<1>4. ASSUME NEW s \in SUBSET S PROVE g[s] = Step(f, g, s)
  <2>1. Cardinality(s) <= Cardinality(S)
    BY FS_Subset
  <2> QED BY <1>3, <2>1
<1>5. Adds(f, S, g)
  BY <1>4 DEF Adds
<1>6. Adds(f, S, Partial(f, S))
  BY <1>5 DEF Partial
<1> DEFINE P == Partial(f, S)
<1>7. P = [s \in SUBSET S |-> Step(f, P, s)]
  BY <1>6 DEF Adds
<1>8. P \in [SUBSET S -> Int]
  <2> DEFINE Odd == {n \in Nat : \E s \in SUBSET S : Cardinality(s) = n /\ P[s] \notin Int}
  <2> HIDE DEF P
  <2>1. Odd = {}
    <3> SUFFICES ASSUME Odd # {} PROVE FALSE
      OBVIOUS
    <3>1. PICK n \in Odd : \A m \in Odd : n <= m
      BY Least
    <3>2. PICK s \in SUBSET S : Cardinality(s) = n /\ P[s] \notin Int
      OBVIOUS
    <3>3. P[s] = Step(f, P, s)
      BY <1>7
    <3>4. s # {}
      BY <3>2, <3>3 DEF Step
    <3>5. s \ {One(s)} \in SUBSET S /\ One(s) \in S /\ Cardinality(s \ {One(s)}) = n - 1 /\ n - 1 \in Nat
      <4>1. /\ One(s) \in s /\ Cardinality(s) \in Nat
            /\ IsFiniteSet(s \ {One(s)}) /\ Cardinality(s \ {One(s)}) = Cardinality(s) - 1
        BY <1>0, <3>4, TakeOne
      <4>2. Cardinality(s \ {One(s)}) \in Nat
        BY <4>1, FS_CardinalityType
      <4> QED BY <3>2, <4>1, <4>2
    <3>6. P[s \ {One(s)}] \in Int
      BY <3>1, <3>5
    <3>7. Step(f, P, s) \in Int
      BY <3>4, <3>5, <3>6 DEF Step
    <3> QED BY <3>2, <3>3, <3>7
  <2>2. ASSUME NEW s \in SUBSET S PROVE P[s] \in Int
    BY <1>0, <2>1
  <2> QED BY <1>7, <2>2
<1> QED BY <1>6, <1>8

\* A change of one value changes the sum by as much.
LEMMA SumUpdate ==
    ASSUME NEW S, IsFiniteSet(S), NEW f \in [S -> Int], NEW p \in S, NEW v \in Int
    PROVE  /\ Sum(f, S) \in Int
           /\ Sum([f EXCEPT ![p] = v], S) = Sum(f, S) + v - f[p]
<1> DEFINE h == [f EXCEPT ![p] = v]
           P == Partial(f, S)
           Q == Partial(h, S)
           Delta(s) == IF p \in s THEN v - f[p] ELSE 0
           Bad == {n \in Nat : \E s \in SUBSET S : Cardinality(s) = n /\ Q[s] # P[s] + Delta(s)}
<1>1. h \in [S -> Int]
  OBVIOUS
<1>2. /\ P \in [SUBSET S -> Int] /\ Q \in [SUBSET S -> Int]
      /\ \A s \in SUBSET S : P[s] = Step(f, P, s) /\ Q[s] = Step(h, Q, s)
  <2> HIDE DEF h
  <2>1. Adds(f, S, P) /\ P \in [SUBSET S -> Int]
    BY PartialSums
  <2>2. Adds(h, S, Q) /\ Q \in [SUBSET S -> Int]
    BY <1>1, PartialSums
  <2> HIDE DEF P, Q
  <2> QED BY <2>1, <2>2 DEF Adds
<1>3. \A s \in SUBSET S : IsFiniteSet(s) /\ Cardinality(s) \in Nat
  BY FS_Subset, FS_CardinalityType
<1> HIDE DEF P, Q
<1>4. Bad = {}
  <2> SUFFICES ASSUME Bad # {} PROVE FALSE
    OBVIOUS
  <2>1. PICK n \in Bad : \A m \in Bad : n <= m
    <3> HIDE DEF Delta
    <3> QED BY Least
  <2>2. PICK s \in SUBSET S : Cardinality(s) = n /\ Q[s] # P[s] + Delta(s)
    OBVIOUS
  <2>3. s # {}
    <3> SUFFICES ASSUME s = {} PROVE FALSE
      OBVIOUS
    <3>1. P[s] = 0 /\ Q[s] = 0
      BY <1>2 DEF Step
    <3> QED BY <2>2, <3>1
  <2> DEFINE x == One(s)
             r == s \ {x}
  <2>4. x \in s /\ r \in SUBSET S /\ Cardinality(r) = n - 1 /\ n - 1 \in Nat
    <3>1. x \in s /\ Cardinality(s) \in Nat /\ IsFiniteSet(r) /\ Cardinality(r) = Cardinality(s) - 1
      BY <1>3, <2>3, TakeOne
    <3>2. Cardinality(r) \in Nat
      BY <3>1, FS_CardinalityType
    <3> QED BY <2>2, <3>1, <3>2
  <2>5. Q[r] = P[r] + Delta(r)
    BY <2>1, <2>4
  <2>6. P[s] = f[x] + P[r] /\ Q[s] = h[x] + Q[r]
    <3> HIDE DEF h
    <3> QED BY <1>2, <2>3 DEF Step
  <2> HIDE DEF x
  <2>7. P[r] \in Int /\ Q[r] \in Int /\ f[x] \in Int /\ f[p] \in Int
    BY <1>2, <2>4
  <2>8. CASE x = p
    <3>1. Delta(r) = 0 /\ Delta(s) = v - f[p] /\ h[x] = v
      BY <2>4, <2>8
    <3> QED BY <2>2, <2>5, <2>6, <2>7, <2>8, <3>1
  <2>9. CASE x # p
    <3>1. Delta(r) = Delta(s) /\ h[x] = f[x] /\ Delta(s) \in Int
      BY <2>4, <2>7, <2>9
    <3> QED BY <2>2, <2>5, <2>6, <2>7, <3>1
  <2> QED BY <2>8, <2>9
<1>5. Q[S] = P[S] + Delta(S)
  BY <1>3, <1>4
<1>6. Sum(f, S) = P[S] /\ Sum(h, S) = Q[S]
  BY SumIs DEF P, Q
<1>7. P[S] \in Int /\ f[p] \in Int
  BY <1>2
<1> QED BY <1>5, <1>6, <1>7

\* The sum of equal values.
LEMMA SumConstant ==
    ASSUME NEW S, IsFiniteSet(S), NEW c \in Int
    PROVE  Sum([x \in S |-> c], S) = c * Cardinality(S)
<1> DEFINE f == [x \in S |-> c]
           P == Partial(f, S)
           Bad == {n \in Nat : \E s \in SUBSET S : Cardinality(s) = n /\ P[s] # c * n}
<1>1. f \in [S -> Int]
  OBVIOUS
<1>2. P \in [SUBSET S -> Int] /\ \A s \in SUBSET S : P[s] = Step(f, P, s)
  <2> HIDE DEF f
  <2> QED BY <1>1, PartialSums DEF Adds
<1>3. \A s \in SUBSET S : IsFiniteSet(s) /\ Cardinality(s) \in Nat
  BY FS_Subset, FS_CardinalityType
<1> HIDE DEF P
<1>4. Bad = {}
  <2> SUFFICES ASSUME Bad # {} PROVE FALSE
    OBVIOUS
  <2>1. PICK n \in Bad : \A m \in Bad : n <= m
    BY Least
  <2>2. PICK s \in SUBSET S : Cardinality(s) = n /\ P[s] # c * n
    OBVIOUS
  <2>3. s # {}
    <3> SUFFICES ASSUME s = {} PROVE FALSE
      OBVIOUS
    <3>1. P[s] = 0 /\ n = 0
      BY <1>2, <2>2, FS_EmptySet DEF Step
    <3> QED BY <2>2, <3>1
  <2> DEFINE x == One(s)
             r == s \ {x}
  <2>4. x \in s /\ r \in SUBSET S /\ Cardinality(r) = n - 1 /\ n - 1 \in Nat
    <3>1. x \in s /\ Cardinality(s) \in Nat /\ IsFiniteSet(r) /\ Cardinality(r) = Cardinality(s) - 1
      BY <1>3, <2>3, TakeOne
    <3>2. Cardinality(r) \in Nat
      BY <3>1, FS_CardinalityType
    <3> QED BY <2>2, <3>1, <3>2
  <2>5. P[r] = c * (n - 1)
    BY <2>1, <2>4
  <2>6. P[s] = f[x] + P[r]
    <3> HIDE DEF f
    <3> QED BY <1>2, <2>3 DEF Step
  <2> HIDE DEF x
  <2>7. f[x] = c
    BY <2>4
  <2>8. c + c * (n - 1) = c * n
    <3>1. n \in Int
      OBVIOUS
    <3> QED BY <3>1
  <2> QED BY <2>2, <2>5, <2>6, <2>7, <2>8
<1>5. P[S] = c * Cardinality(S)
  BY <1>3, <1>4
<1> QED BY <1>5, SumIs DEF P
=============================================================================
