--------------------------- MODULE DataInduction ---------------------------
(***************************************************************************)
(* Induction over the natural numbers, stated of sets: a proof by          *)
(* induction takes the set of the numbers its claim holds of.  The proofs  *)
(* about sequences of rows, sets of previews and sums of spends rest on    *)
(* it.  It follows from the library's facts that the order of the numbers  *)
(* is well founded and that such an order has minimal elements.            *)
(***************************************************************************)
EXTENDS Integers, FiniteSets, Functions, FiniteSetTheorems, TLAPS

\* A set of natural numbers that is not empty has a smallest element.
LEMMA LeastNumber ==
  ASSUME NEW T \in SUBSET Nat, T # {}
  PROVE  \E least \in T : \A n \in T : least <= n
<1> DEFINE less == {p \in Nat \X Nat : p[1] < p[2]}
<1>1. IsWellFoundedOn(less, Nat)
  BY NatLessThanWellFounded DEF OpToRel
<1>2. PICK least \in T : \A n \in T : <<n, least>> \notin less
  <2> HIDE DEF less
  <2> QED BY <1>1, WFMin
<1>3. \A n \in T : least <= n
  <2> SUFFICES ASSUME NEW n \in T, ~(least <= n) PROVE FALSE
    OBVIOUS
  <2>1. n \in Nat /\ least \in Nat /\ n < least
    OBVIOUS
  <2>2. <<n, least>> \in less
    BY <2>1
  <2> QED BY <1>2, <2>2
<1> QED BY <1>3

\* A set of numbers with 0 and every successor has them all.
LEMMA NatInductionOnSets ==
  ASSUME NEW S \in SUBSET Nat, 0 \in S, \A n \in S : n + 1 \in S
  PROVE  S = Nat
<1> SUFFICES ASSUME Nat \ S # {} PROVE FALSE
  OBVIOUS
<1>1. PICK least \in Nat \ S : \A n \in Nat \ S : least <= n
  BY LeastNumber
<1>2. least # 0 /\ least - 1 \in Nat \ S
  OBVIOUS
<1> QED BY <1>1, <1>2

\* Up to a bound, where the step is known below the bound only.
LEMMA InductionUpTo ==
  ASSUME NEW bound \in Nat, NEW S, 0 \in S,
         \A n \in 0 .. bound - 1 : n \in S => n + 1 \in S
  PROVE  \A n \in 0 .. bound : n \in S
<1> DEFINE All == {n \in Nat : n <= bound => n \in S}
<1>1. All = Nat
  <2>1. All \in SUBSET Nat /\ 0 \in All
    OBVIOUS
  <2>2. \A n \in All : n + 1 \in All
    OBVIOUS
  <2> HIDE DEF All
  <2> QED BY <2>1, <2>2, NatInductionOnSets
<1> QED BY <1>1

\* A finite set of numbers has a largest element.
LEMMA FiniteMaximum ==
  ASSUME NEW T \in SUBSET Int, IsFiniteSet(T), T # {}
  PROVE  \E m \in T : \A n \in T : n <= m
<1> DEFINE Bounded(X) == \E m \in X : \A n \in X : n <= m
           Sizes == {n \in Nat : \A X \in SUBSET Int :
                       IsFiniteSet(X) /\ Cardinality(X) = n + 1 => Bounded(X)}
<1>1. 0 \in Sizes
  <2> SUFFICES ASSUME NEW X \in SUBSET Int, IsFiniteSet(X), Cardinality(X) = 1
               PROVE  Bounded(X)
    OBVIOUS
  <2>1. PICK m : X = {m}
    BY FS_Singleton
  <2> QED BY <2>1
<1>2. \A k \in Sizes : k + 1 \in Sizes
  <2> SUFFICES ASSUME NEW k \in Sizes, NEW X \in SUBSET Int, IsFiniteSet(X),
                      Cardinality(X) = k + 2
               PROVE  Bounded(X)
    OBVIOUS
  <2>1. X # {}
    BY FS_EmptySet
  <2>2. PICK x \in X : TRUE
    BY <2>1
  <2>3. IsFiniteSet(X \ {x}) /\ Cardinality(X \ {x}) = k + 1
    BY <2>2, FS_RemoveElement
  <2>4. PICK m \in X \ {x} : \A n \in X \ {x} : n <= m
    BY <2>3
  <2>5. CASE x <= m
    BY <2>4, <2>5
  <2>6. CASE ~(x <= m)
    BY <2>2, <2>4, <2>6
  <2> QED BY <2>5, <2>6
<1>3. Sizes = Nat
  <2>1. Sizes \in SUBSET Nat
    OBVIOUS
  <2> HIDE DEF Sizes
  <2> QED BY <1>1, <1>2, <2>1, NatInductionOnSets
<1>4. Cardinality(T) \in Nat /\ Cardinality(T) # 0
  BY FS_CardinalityType, FS_EmptySet
<1>5. Cardinality(T) - 1 \in Sizes
  BY <1>3, <1>4
<1> QED BY <1>4, <1>5

\* The subsets of a finite set: the empty one, and each that would belong if it
\* did with any one member less.
LEMMA SubsetInduction ==
  ASSUME NEW D, IsFiniteSet(D), NEW P, {} \in P,
         \A s \in SUBSET D : s # {} /\ (\A x \in s : s \ {x} \in P) => s \in P
  PROVE  \A s \in SUBSET D : s \in P
<1> DEFINE Sizes == {n \in Nat : \A s \in SUBSET D : Cardinality(s) = n => s \in P}
<1>1. ASSUME NEW s \in SUBSET D
      PROVE  /\ Cardinality(s) \in Nat /\ (Cardinality(s) = 0 <=> s = {})
             /\ \A x \in s : s \ {x} \in SUBSET D /\ Cardinality(s \ {x}) = Cardinality(s) - 1
  <2>1. IsFiniteSet(s)
    BY FS_Subset
  <2>2. \A x \in s : Cardinality(s \ {x}) = Cardinality(s) - 1
    BY <2>1, FS_RemoveElement
  <2> QED BY <2>1, <2>2, FS_CardinalityType, FS_EmptySet
<1>2. 0 \in Sizes
  BY <1>1
<1>3. \A n \in Sizes : n + 1 \in Sizes
  <2> SUFFICES ASSUME NEW n \in Sizes, NEW s \in SUBSET D, Cardinality(s) = n + 1
               PROVE  s \in P
    OBVIOUS
  <2>1. s # {}
    BY <1>1
  <2>2. \A x \in s : s \ {x} \in SUBSET D /\ Cardinality(s \ {x}) = n
    BY <1>1
  <2> QED BY <2>1, <2>2
<1>4. Sizes = Nat
  <2>1. Sizes \in SUBSET Nat
    OBVIOUS
  <2> HIDE DEF Sizes
  <2> QED BY <1>2, <1>3, <2>1, NatInductionOnSets
<1> QED BY <1>1, <1>4

-----------------------------------------------------------------------------
\* What SumFunctionOnSet adds up, from the member it takes first.
Some(s) == CHOOSE x \in s : TRUE
Adds(f, sets, g) ==
  g = [s \in sets |-> IF s = {} THEN 0 ELSE f[Some(s)] + g[s \ {Some(s)}]]

\* The fold of a finite set is a function of its subsets: up to each number of
\* members there is one.
LEMMA SumIsFold ==
  ASSUME NEW f, NEW S, IsFiniteSet(S)
  PROVE  \E g : Adds(f, SUBSET S, g) /\ SumFunctionOnSet(f, S) = g[S]
<1> DEFINE iter == CHOOSE g : Adds(f, SUBSET S, g)
           Upto(n) == {s \in SUBSET S : Cardinality(s) <= n}
           Sizes == {n \in Nat : \E g : Adds(f, Upto(n), g)}
<1>1. SumFunctionOnSet(f, S) = iter[S]
  BY DEF SumFunctionOnSet, FoldFunctionOnSet, MapThenFoldSet, Some, Adds
<1>2. \A s \in SUBSET S : IsFiniteSet(s) /\ Cardinality(s) \in Nat
                          /\ (Cardinality(s) = 0 <=> s = {})
                          /\ Cardinality(s) <= Cardinality(S)
  BY FS_Subset, FS_CardinalityType, FS_EmptySet
<1>3. \A s \in SUBSET S : s # {} =>
        Some(s) \in s /\ s \ {Some(s)} \in SUBSET S
        /\ Cardinality(s \ {Some(s)}) = Cardinality(s) - 1
  <2> SUFFICES ASSUME NEW s \in SUBSET S, s # {}
               PROVE  Some(s) \in s /\ s \ {Some(s)} \in SUBSET S
                      /\ Cardinality(s \ {Some(s)}) = Cardinality(s) - 1
    OBVIOUS
  <2>1. Some(s) \in s
    BY DEF Some
  <2> QED BY <1>2, <2>1, FS_RemoveElement
<1>4. 0 \in Sizes
  <2> DEFINE g == [s \in Upto(0) |-> 0]
  <2>1. \A s \in Upto(0) : s = {}
    BY <1>2
  <2>2. Adds(f, Upto(0), g)
    <3> HIDE DEF Upto
    <3> QED BY <2>1 DEF Adds
  <2> QED BY <2>2
<1>5. \A n \in Sizes : n + 1 \in Sizes
  <2> SUFFICES ASSUME NEW n \in Sizes PROVE n + 1 \in Sizes
    OBVIOUS
  <2>n. n \in Nat
    OBVIOUS
  <2>g. PICK g : Adds(f, Upto(n), g)
    OBVIOUS
  <2> DEFINE h == [s \in Upto(n + 1) |-> IF s = {} THEN 0 ELSE f[Some(s)] + g[s \ {Some(s)}]]
  <2>1. ASSUME NEW s \in Upto(n + 1), s # {}
        PROVE  h[s \ {Some(s)}] = g[s \ {Some(s)}]
    <3> DEFINE r == s \ {Some(s)}
    <3>1. r \in Upto(n) /\ r \in Upto(n + 1)
      BY <1>2, <1>3, <2>n, <2>1
    <3> HIDE DEF Upto, r
    <3>2. g[r] = IF r = {} THEN 0 ELSE f[Some(r)] + g[r \ {Some(r)}]
      BY <2>g, <3>1 DEF Adds
    <3> QED BY <3>1, <3>2 DEF r
  <2>2. Adds(f, Upto(n + 1), h)
    <3> HIDE DEF Upto
    <3> QED BY <2>1 DEF Adds
  <2> HIDE DEF h
  <2> QED BY <2>n, <2>2
<1>6. Sizes = Nat
  <2>1. Sizes \in SUBSET Nat
    OBVIOUS
  <2> HIDE DEF Sizes
  <2> QED BY <1>4, <1>5, <2>1, NatInductionOnSets
<1>7. Upto(Cardinality(S)) = SUBSET S /\ Cardinality(S) \in Sizes
  <2>1. Cardinality(S) \in Nat
    BY <1>2
  <2> QED BY <1>2, <1>6, <2>1
<1>8. \E g : Adds(f, SUBSET S, g)
  <2>1. \E g : Adds(f, Upto(Cardinality(S)), g)
    BY <1>7
  <2> HIDE DEF Upto
  <2> QED BY <1>7, <2>1
<1>9. Adds(f, SUBSET S, iter)
  BY <1>8
<1> QED BY <1>1, <1>9

\* A sum of a part of a finite set, from its first member.
LEMMA SumFromSome ==
  ASSUME NEW f, NEW D, IsFiniteSet(D), NEW S \in SUBSET D
  PROVE  SumFunctionOnSet(f, S) =
           IF S = {} THEN 0 ELSE f[Some(S)] + SumFunctionOnSet(f, S \ {Some(S)})
<1>1. IsFiniteSet(S)
  BY FS_Subset
<1>2. PICK g : Adds(f, SUBSET S, g) /\ SumFunctionOnSet(f, S) = g[S]
  BY <1>1, SumIsFold
<1>3. CASE S = {}
  BY <1>2, <1>3 DEF Adds
<1>4. CASE S # {}
  <2> DEFINE r == S \ {Some(S)}
  <2>1. IsFiniteSet(r) /\ r \in SUBSET S
    BY <1>1, FS_Subset
  <2>2. PICK k : Adds(f, SUBSET r, k) /\ SumFunctionOnSet(f, r) = k[r]
    BY <2>1, SumIsFold
  <2> DEFINE Agree == {s \in SUBSET r : g[s] = k[s]}
  <2>3. \A s \in SUBSET r : /\ s \in SUBSET S
                            /\ g[s] = IF s = {} THEN 0 ELSE f[Some(s)] + g[s \ {Some(s)}]
                            /\ k[s] = IF s = {} THEN 0 ELSE f[Some(s)] + k[s \ {Some(s)}]
    <3> HIDE DEF r
    <3>1. \A s \in SUBSET r : s \in SUBSET S
      BY <2>1
    <3> QED BY <1>2, <2>2, <3>1 DEF Adds
  <2>4. {} \in Agree
    BY <2>3
  <2>5. ASSUME NEW s \in SUBSET r, s # {}, \A x \in s : s \ {x} \in Agree
        PROVE  s \in Agree
    <3>1. Some(s) \in s
      BY <2>5 DEF Some
    <3>2. g[s \ {Some(s)}] = k[s \ {Some(s)}]
      BY <2>5, <3>1
    <3> QED BY <2>3, <2>5, <3>2
  <2>6. r \in Agree
    <3> HIDE DEF Agree, r
    <3>1. \A s \in SUBSET r : s \in Agree
      BY <2>1, <2>4, <2>5, SubsetInduction
    <3> QED BY <3>1
  <2>7. g[S] = f[Some(S)] + g[r]
    BY <1>2, <1>4 DEF Adds
  <2> QED BY <1>2, <1>4, <2>2, <2>6, <2>7
<1> QED BY <1>3, <1>4

\* A sum of numbers is one.
LEMMA SumTyped ==
  ASSUME NEW f, NEW D, IsFiniteSet(D), \A x \in D : f[x] \in Int
  PROVE  \A S \in SUBSET D : SumFunctionOnSet(f, S) \in Int
<1> DEFINE Sum(s) == SumFunctionOnSet(f, s)
           Typed == {s \in SUBSET D : Sum(s) \in Int}
<1>1. \A s \in SUBSET D : Sum(s) = IF s = {} THEN 0 ELSE f[Some(s)] + Sum(s \ {Some(s)})
  BY SumFromSome
<1>z. Sum({}) = 0
  <2>1. {} \in SUBSET D
    OBVIOUS
  <2> QED BY <2>1, SumFromSome
<1> HIDE DEF Sum
<1>2. {} \in Typed
  BY <1>z
<1>3. ASSUME NEW s \in SUBSET D, s # {}, \A x \in s : s \ {x} \in Typed
      PROVE  s \in Typed
  <2>1. Some(s) \in s
    BY <1>3 DEF Some
  <2>2. Sum(s \ {Some(s)}) \in Int /\ f[Some(s)] \in Int
    BY <1>3, <2>1
  <2> QED BY <1>1, <1>3, <2>2
<1>4. \A s \in SUBSET D : s \in Typed
  <2> HIDE DEF Typed
  <2> QED BY <1>2, <1>3, SubsetInduction
<1> QED BY <1>4 DEF Sum

\* It does not matter which number is added last.
LEMMA SumTakesOut ==
  ASSUME NEW f, NEW D, IsFiniteSet(D), \A x \in D : f[x] \in Int
  PROVE  \A S \in SUBSET D : \A y \in S :
           SumFunctionOnSet(f, S) = f[y] + SumFunctionOnSet(f, S \ {y})
<1> DEFINE Sum(s) == SumFunctionOnSet(f, s)
           Any == {s \in SUBSET D : \A z \in s : Sum(s) = f[z] + Sum(s \ {z})}
<1>1. \A s \in SUBSET D : Sum(s) = IF s = {} THEN 0 ELSE f[Some(s)] + Sum(s \ {Some(s)})
  BY SumFromSome
<1>2. \A s \in SUBSET D : Sum(s) \in Int
  BY SumTyped
<1> HIDE DEF Sum
<1>3. {} \in Any
  OBVIOUS
<1>4. ASSUME NEW s \in SUBSET D, s # {}, \A x \in s : s \ {x} \in Any
      PROVE  s \in Any
  <2> SUFFICES ASSUME NEW z \in s PROVE Sum(s) = f[z] + Sum(s \ {z})
    OBVIOUS
  <2> DEFINE x == Some(s)
  <2>1. x \in s /\ Sum(s) = f[x] + Sum(s \ {x})
    BY <1>1 DEF Some
  <2> HIDE DEF x
  <2>2. CASE x = z
    BY <2>1, <2>2
  <2>3. CASE x # z
    <3>1. Sum(s \ {x}) = f[z] + Sum((s \ {x}) \ {z})
      BY <1>4, <2>1, <2>3
    <3>2. Sum(s \ {z}) = f[x] + Sum((s \ {z}) \ {x})
      BY <1>4, <2>1, <2>3
    <3>3. (s \ {x}) \ {z} = (s \ {z}) \ {x} /\ (s \ {x}) \ {z} \in SUBSET D
      OBVIOUS
    <3>4. f[x] \in Int /\ f[z] \in Int /\ Sum((s \ {x}) \ {z}) \in Int
      BY <1>2, <2>1, <3>3
    <3>5. Sum((s \ {x}) \ {z}) = Sum((s \ {z}) \ {x})
      BY <3>3
    <3> QED BY <2>1, <3>1, <3>2, <3>4, <3>5
  <2> QED BY <2>2, <2>3
<1>5. \A s \in SUBSET D : s \in Any
  <2> HIDE DEF Any
  <2> QED BY <1>3, <1>4, SubsetInduction
<1> QED BY <1>5 DEF Sum

\* The parts of a set add up to the whole.
LEMMA SumOfParts ==
  ASSUME NEW f, NEW D, IsFiniteSet(D), \A x \in D : f[x] \in Int, NEW S \in SUBSET D
  PROVE  \A T \in SUBSET S :
           SumFunctionOnSet(f, S) = SumFunctionOnSet(f, T) + SumFunctionOnSet(f, S \ T)
<1> DEFINE Sum(s) == SumFunctionOnSet(f, s)
           Split == {s \in SUBSET S : Sum(S) = Sum(s) + Sum(S \ s)}
<1>1. \A s \in SUBSET D : \A z \in s : Sum(s) = f[z] + Sum(s \ {z})
  BY SumTakesOut
<1>2. \A s \in SUBSET D : Sum(s) \in Int
  BY SumTyped
<1>3. Sum({}) = 0
  <2>1. {} \in SUBSET D
    OBVIOUS
  <2> QED BY <2>1, SumFromSome
<1>4. IsFiniteSet(S)
  BY FS_Subset
<1> HIDE DEF Sum
<1>5. {} \in Split
  <2>1. S \ {} = S
    OBVIOUS
  <2> QED BY <1>2, <1>3, <2>1
<1>6. ASSUME NEW s \in SUBSET S, s # {}, \A x \in s : s \ {x} \in Split
      PROVE  s \in Split
  <2>1. PICK z \in s : TRUE
    BY <1>6
  <2>2. Sum(S) = Sum(s \ {z}) + Sum(S \ (s \ {z}))
    BY <1>6
  <2>3. Sum(S \ (s \ {z})) = f[z] + Sum(S \ s)
    <3>1. (S \ (s \ {z})) \ {z} = S \ s
      OBVIOUS
    <3>2. S \ (s \ {z}) \in SUBSET D /\ z \in S \ (s \ {z})
      OBVIOUS
    <3> QED BY <1>1, <3>1, <3>2
  <2>4. Sum(s) = f[z] + Sum(s \ {z})
    <3>1. s \in SUBSET D
      OBVIOUS
    <3> QED BY <1>1, <3>1
  <2>5. f[z] \in Int /\ Sum(s \ {z}) \in Int /\ Sum(S \ s) \in Int
    BY <1>2
  <2> QED BY <2>2, <2>3, <2>4, <2>5
<1>7. \A s \in SUBSET S : s \in Split
  <2> HIDE DEF Split
  <2> QED BY <1>4, <1>5, <1>6, SubsetInduction
<1> QED BY <1>7 DEF Sum

\* Numbers that are not negative do not add up to a negative one.
LEMMA SumNotNegative ==
  ASSUME NEW f, NEW D, IsFiniteSet(D), \A x \in D : f[x] \in Int,
         NEW S \in SUBSET D, \A x \in S : f[x] >= 0
  PROVE  SumFunctionOnSet(f, S) >= 0
<1> DEFINE Sum(s) == SumFunctionOnSet(f, s)
           Fine == {s \in SUBSET S : Sum(s) >= 0}
<1>1. \A s \in SUBSET D : Sum(s) = IF s = {} THEN 0 ELSE f[Some(s)] + Sum(s \ {Some(s)})
  BY SumFromSome
<1>2. \A s \in SUBSET D : Sum(s) \in Int
  BY SumTyped
<1>3. IsFiniteSet(S)
  BY FS_Subset
<1>z. Sum({}) = 0
  <2>1. {} \in SUBSET D
    OBVIOUS
  <2> QED BY <2>1, SumFromSome
<1> HIDE DEF Sum
<1>4. {} \in Fine
  BY <1>z
<1>5. ASSUME NEW s \in SUBSET S, s # {}, \A x \in s : s \ {x} \in Fine
      PROVE  s \in Fine
  <2>1. Some(s) \in s
    BY <1>5 DEF Some
  <2>2. /\ Sum(s \ {Some(s)}) >= 0 /\ f[Some(s)] \in Int /\ f[Some(s)] >= 0
    BY <1>5, <2>1
  <2>3. s \in SUBSET D /\ s \ {Some(s)} \in SUBSET D
    OBVIOUS
  <2>4. Sum(s) = f[Some(s)] + Sum(s \ {Some(s)}) /\ Sum(s \ {Some(s)}) \in Int
    BY <1>1, <1>2, <1>5, <2>3
  <2> QED BY <2>2, <2>4
<1>6. \A s \in SUBSET S : s \in Fine
  <2> HIDE DEF Fine
  <2> QED BY <1>3, <1>4, <1>5, SubsetInduction
<1> QED BY <1>6 DEF Sum

\* Numbers that are not positive do not add up to a positive one.
LEMMA SumNotPositive ==
  ASSUME NEW f, NEW D, IsFiniteSet(D), \A x \in D : f[x] \in Int,
         NEW S \in SUBSET D, \A x \in S : f[x] <= 0
  PROVE  SumFunctionOnSet(f, S) <= 0
<1> DEFINE Sum(s) == SumFunctionOnSet(f, s)
           Fine == {s \in SUBSET S : Sum(s) <= 0}
<1>1. \A s \in SUBSET D : Sum(s) = IF s = {} THEN 0 ELSE f[Some(s)] + Sum(s \ {Some(s)})
  BY SumFromSome
<1>2. \A s \in SUBSET D : Sum(s) \in Int
  BY SumTyped
<1>3. IsFiniteSet(S)
  BY FS_Subset
<1>z. Sum({}) = 0
  <2>1. {} \in SUBSET D
    OBVIOUS
  <2> QED BY <2>1, SumFromSome
<1> HIDE DEF Sum
<1>4. {} \in Fine
  BY <1>z
<1>5. ASSUME NEW s \in SUBSET S, s # {}, \A x \in s : s \ {x} \in Fine
      PROVE  s \in Fine
  <2>1. Some(s) \in s
    BY <1>5 DEF Some
  <2>2. /\ Sum(s \ {Some(s)}) <= 0 /\ f[Some(s)] \in Int /\ f[Some(s)] <= 0
    BY <1>5, <2>1
  <2>3. s \in SUBSET D /\ s \ {Some(s)} \in SUBSET D
    OBVIOUS
  <2>4. Sum(s) = f[Some(s)] + Sum(s \ {Some(s)}) /\ Sum(s \ {Some(s)}) \in Int
    BY <1>1, <1>2, <1>5, <2>3
  <2> QED BY <2>2, <2>4
<1>6. \A s \in SUBSET S : s \in Fine
  <2> HIDE DEF Fine
  <2> QED BY <1>3, <1>4, <1>5, SubsetInduction
<1> QED BY <1>6 DEF Sum
=============================================================================
