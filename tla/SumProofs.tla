------------------------------ MODULE SumProofs ------------------------------
(***************************************************************************)
(* The laws of SumFunction, the sum of the values of a function with a     *)
(* finite domain, which the model counts results, drops, requests, shares  *)
(* and durations with.                                                     *)
(*                                                                         *)
(* An induction here is about a set of numbers or of sets that have the    *)
(* property in question: so stated, it has no operator as a parameter.     *)
(***************************************************************************)
EXTENDS Integers, FiniteSetsExt, FiniteSetTheorems, WellFoundedInduction, TLAPS

-----------------------------------------------------------------------------
(* Induction                                                               *)

\* Every set of numbers that is not empty has a least one.
LEMMA LeastNumber ==
    ASSUME NEW T \in SUBSET Nat, T # {}
    PROVE  \E x \in T : \A y \in T : x <= y
<1> DEFINE R == OpToRel(<, Nat)
<1>1. IsWellFoundedOn(R, Nat)
  BY NatLessThanWellFounded
<1>2. \A x, y \in Nat : x < y => <<x, y>> \in R
  BY DEF OpToRel
<1> HIDE DEF R
<1>3. PICK x \in T : \A y \in T : ~(<<y, x>> \in R)
  BY <1>1, WFMin
<1> QED
  <2>1. x \in Nat /\ \A y \in T : y \in Nat /\ ~(y < x)
    BY <1>2, <1>3
  <2> QED
    BY <2>1

\* A set of numbers with 0 and with the successor of each has all of them.
LEMMA NumberInduction ==
    ASSUME NEW G, 0 \in G, \A n \in Nat : n \in G => n + 1 \in G
    PROVE  \A n \in Nat : n \in G
<1> SUFFICES ASSUME NEW m \in Nat, m \notin G PROVE FALSE
  OBVIOUS
<1> DEFINE B == {n \in Nat : n \notin G}
<1>1. PICK n \in B : \A k \in B : n <= k
  <2>1. B \in SUBSET Nat /\ B # {}
    OBVIOUS
  <2> HIDE DEF B
  <2> QED
    BY <2>1, LeastNumber
<1>2. n # 0 /\ n \in Nat
  OBVIOUS
<1>3. n - 1 \in Nat /\ n - 1 \notin B /\ (n - 1) + 1 = n
  <2>1. n - 1 \in Nat /\ ~(n <= n - 1) /\ (n - 1) + 1 = n
    BY <1>2
  <2> HIDE DEF B
  <2> QED
    BY <1>1, <2>1
<1> QED
  BY <1>1, <1>3

\* A set of subsets of S with {}, and with every set whose subsets of one element
\* less are in it, has all subsets of S.
LEMMA SubsetInduction ==
    ASSUME NEW S, IsFiniteSet(S), NEW G, {} \in G,
           \A T \in SUBSET S : T # {} /\ (\A x \in T : T \ {x} \in G) => T \in G
    PROVE  \A T \in SUBSET S : T \in G
<1> DEFINE H == {n \in Nat : \A T \in SUBSET S : Cardinality(T) = n => T \in G}
<1>0. \A T \in SUBSET S : IsFiniteSet(T) /\ Cardinality(T) \in Nat
  BY FS_Subset, FS_CardinalityType
<1>1. 0 \in H
  <2>1. \A T \in SUBSET S : Cardinality(T) = 0 => T = {}
    BY <1>0, FS_EmptySet
  <2> QED
    BY <2>1
<1>2. ASSUME NEW n \in Nat, n \in H PROVE n + 1 \in H
  <2> SUFFICES ASSUME NEW T \in SUBSET S, Cardinality(T) = n + 1 PROVE T \in G
    OBVIOUS
  <2>1. \A x \in T : Cardinality(T \ {x}) = n /\ T \ {x} \in SUBSET S
    BY <1>0, FS_RemoveElement
  <2>2. T # {}
    <3>1. Cardinality({}) = 0 /\ n + 1 # 0
      BY FS_EmptySet
    <3> QED
      BY <3>1
  <2> QED
    BY <1>2, <2>1, <2>2
<1> HIDE DEF H
<1>3. \A n \in Nat : n \in H
  BY <1>1, <1>2, NumberInduction
<1> QED
  BY <1>0, <1>3 DEF H

-----------------------------------------------------------------------------
(* The recursion behind the sum                                            *)

\* Sums of f over the subsets of S, by removing the element that CHOOSE gives.
pick(T) == CHOOSE x \in T : TRUE
Recurs(F, f, S) ==
    F = [T \in SUBSET S |-> IF T = {} THEN 0 ELSE f[pick(T)] + F[T \ {pick(T)}]]

Table(F, f, S) == F \in [SUBSET S -> Int] /\ Recurs(F, f, S)

LEMMA Picked == ASSUME NEW T, T # {} PROVE pick(T) \in T
BY DEF pick

\* There are such sums: k rounds of the recursion give those of the sets of up to k
\* elements.
LEMMA RecursionExists ==
    ASSUME NEW S, IsFiniteSet(S), NEW f \in [S -> Int]
    PROVE  \E F \in [SUBSET S -> Int] : Recurs(F, f, S)
<1> DEFINE step(F, T) == IF T = {} THEN 0 ELSE f[pick(T)] + F[T \ {pick(T)}]
<1> DEFINE H == {k \in Nat : \E F \in [SUBSET S -> Int] :
                    \A T \in SUBSET S : Cardinality(T) <= k => F[T] = step(F, T)}
<1>0. \A T \in SUBSET S : IsFiniteSet(T) /\ Cardinality(T) \in Nat
  BY FS_Subset, FS_CardinalityType
<1>1. 0 \in H
  <2> DEFINE F == [T \in SUBSET S |-> 0]
  <2>1. \A T \in SUBSET S : Cardinality(T) <= 0 => T = {}
    BY <1>0, FS_EmptySet
  <2>2. F \in [SUBSET S -> Int] /\ \A T \in SUBSET S : Cardinality(T) <= 0 => F[T] = step(F, T)
    BY <2>1
  <2> QED
    BY <2>2
<1>2. ASSUME NEW k \in Nat, k \in H PROVE k + 1 \in H
  <2>1. PICK F \in [SUBSET S -> Int] :
           \A T \in SUBSET S : Cardinality(T) <= k => F[T] = step(F, T)
    BY <1>2
  <2> DEFINE F2 == [T \in SUBSET S |-> step(F, T)]
  <2>2. \A T \in SUBSET S : T # {} => /\ pick(T) \in S /\ f[pick(T)] \in Int
                                      /\ T \ {pick(T)} \in SUBSET S
                                      /\ Cardinality(T \ {pick(T)}) = Cardinality(T) - 1
    BY <1>0, Picked, FS_RemoveElement
  <2>3. F2 \in [SUBSET S -> Int]
    <3>1. \A T \in SUBSET S : step(F, T) \in Int
      <4> TAKE T \in SUBSET S
      <4>1. CASE T = {}
        BY <4>1
      <4>2. CASE T # {}
        <5>1. f[pick(T)] \in Int /\ F[T \ {pick(T)}] \in Int
          BY <2>2, <4>2
        <5> QED
          BY <4>2, <5>1
      <4> QED
        BY <4>1, <4>2
    <3> HIDE DEF step
    <3> QED
      BY <3>1
  <2>4. \A T \in SUBSET S : F2[T] = step(F, T)
    OBVIOUS
  <2>5. \A T \in SUBSET S : Cardinality(T) <= k => F2[T] = F[T]
    BY <2>1, <2>4
  <2>6. ASSUME NEW T \in SUBSET S, Cardinality(T) <= k + 1 PROVE F2[T] = step(F2, T)
    <3>1. CASE T = {}
      BY <2>4, <3>1
    <3>2. CASE T # {}
      <4>1. Cardinality(T \ {pick(T)}) <= k
        BY <1>0, <2>2, <2>6, <3>2
      <4>2. F2[T \ {pick(T)}] = F[T \ {pick(T)}]
        BY <2>2, <2>5, <3>2, <4>1
      <4> HIDE DEF F2
      <4> QED
        BY <2>4, <3>2, <4>2
    <3> QED
      BY <3>1, <3>2
  <2> HIDE DEF F2
  <2> QED
    BY <2>3, <2>6
<1> HIDE DEF H
<1>3. \A k \in Nat : k \in H
  BY <1>1, <1>2, NumberInduction
<1>4. Cardinality(S) \in Nat /\ \A T \in SUBSET S : Cardinality(T) <= Cardinality(S)
  BY FS_Subset, FS_CardinalityType
<1>5. PICK F \in [SUBSET S -> Int] :
         \A T \in SUBSET S : Cardinality(T) <= Cardinality(S) => F[T] = step(F, T)
  BY <1>3, <1>4 DEF H
<1>6. F = [T \in SUBSET S |-> step(F, T)]
  <2>1. \A T \in SUBSET S : F[T] = step(F, T)
    BY <1>4, <1>5
  <2> HIDE DEF step
  <2> QED
    BY <2>1
<1> QED
  BY <1>6 DEF Recurs

\* What the recursion says of one set.
LEMMA RecursionStep ==
    ASSUME NEW S, NEW f, NEW F, Recurs(F, f, S), NEW T \in SUBSET S
    PROVE  F[T] = IF T = {} THEN 0 ELSE f[pick(T)] + F[T \ {pick(T)}]
BY DEF Recurs

\* Sums over the subsets of two sets, of functions that agree, agree.
LEMMA RecursionUnique ==
    ASSUME NEW S, NEW R, NEW f, NEW g, NEW F, NEW H, NEW U, IsFiniteSet(U),
           U \subseteq S, U \subseteq R, Recurs(F, f, S), Recurs(H, g, R),
           \A x \in U : f[x] = g[x]
    PROVE  F[U] = H[U]
<1> DEFINE G == {T \in SUBSET U : F[T] = H[T]}
<1>1. {} \in G
  BY RecursionStep
<1>2. ASSUME NEW T \in SUBSET U, T # {}, \A x \in T : T \ {x} \in G PROVE T \in G
  <2>1. pick(T) \in T
    BY <1>2, Picked
  <2>2. F[T \ {pick(T)}] = H[T \ {pick(T)}] /\ f[pick(T)] = g[pick(T)]
    BY <1>2, <2>1
  <2>3. F[T] = f[pick(T)] + F[T \ {pick(T)}]
    BY <1>2, RecursionStep
  <2>4. H[T] = g[pick(T)] + H[T \ {pick(T)}]
    BY <1>2, RecursionStep
  <2> QED
    BY <2>2, <2>3, <2>4
<1> HIDE DEF G
<1>3. \A T \in SUBSET U : T \in G
  BY <1>1, <1>2, SubsetInduction
<1> QED
  BY <1>3 DEF G

\* The order in which elements are removed does not matter.
LEMMA RecursionAnyOrder ==
    ASSUME NEW S, IsFiniteSet(S), NEW f \in [S -> Int], NEW F, Table(F, f, S)
    PROVE  \A T \in SUBSET S : \A x \in T : F[T] = f[x] + F[T \ {x}]
<1>0. F \in [SUBSET S -> Int] /\ Recurs(F, f, S)
  BY DEF Table
<1> DEFINE G == {T \in SUBSET S : \A x \in T : F[T] = f[x] + F[T \ {x}]}
<1>1. {} \in G
  OBVIOUS
<1>2. ASSUME NEW T \in SUBSET S, T # {}, \A x \in T : T \ {x} \in G PROVE T \in G
  <2> SUFFICES ASSUME NEW x \in T PROVE F[T] = f[x] + F[T \ {x}]
    OBVIOUS
  <2> DEFINE c == pick(T)
  <2>0. c \in T
    BY Picked
  <2>1. F[T] = f[c] + F[T \ {c}]
    BY <1>0, <1>2, RecursionStep
  <2> HIDE DEF c
  <2>2. CASE x = c
    BY <2>1, <2>2
  <2>3. CASE x # c
    <3>1. F[T \ {c}] = f[x] + F[(T \ {c}) \ {x}]
      BY <1>2, <2>0, <2>3
    <3>2. F[T \ {x}] = f[c] + F[(T \ {x}) \ {c}]
      BY <1>2, <2>0, <2>3
    <3>3. (T \ {c}) \ {x} = (T \ {x}) \ {c}
      OBVIOUS
    <3>4. PICK rest \in Int : rest = F[(T \ {x}) \ {c}]
      <4>1. (T \ {x}) \ {c} \in SUBSET S
        OBVIOUS
      <4> QED
        BY <1>0, <4>1
    <3>5. f[x] \in Int /\ f[c] \in Int
      BY <2>0
    <3>6. F[T] = f[c] + (f[x] + rest) /\ F[T \ {x}] = f[c] + rest
      BY <2>1, <3>1, <3>2, <3>3, <3>4
    <3>7. \A a, b, d \in Int : a + (b + d) = b + (a + d)
      OBVIOUS
    <3> QED
      BY <3>4, <3>5, <3>6, <3>7
  <2> QED
    BY <2>2, <2>3
<1> HIDE DEF G
<1>3. \A T \in SUBSET S : T \in G
  BY <1>1, <1>2, SubsetInduction
<1> QED
  BY <1>3 DEF G

-----------------------------------------------------------------------------
(* The sum                                                                 *)

\* SumFunction is the last value of that recursion.
LEMMA SumIs ==
    ASSUME NEW S, IsFiniteSet(S), NEW f \in [S -> Int]
    PROVE  \E F \in [SUBSET S -> Int] : Recurs(F, f, S) /\ SumFunction(f) = F[S]
<1> DEFINE I == CHOOSE F : Recurs(F, f, S)
<1>1. PICK F \in [SUBSET S -> Int] : Recurs(F, f, S)
  BY RecursionExists
<1>2. Recurs(I, f, S)
  BY <1>1
<1>3. SumFunction(f) = I[S]
  BY DEF SumFunction, SumFunctionOnSet, FoldFunctionOnSet, MapThenFoldSet, Recurs, pick
<1> HIDE DEF I
<1>4. I[S] = F[S]
  BY <1>1, <1>2, RecursionUnique
<1> QED
  BY <1>1, <1>3, <1>4

\* The sum of no values.
LEMMA SumEmpty ==
    ASSUME NEW f \in [{} -> Int]
    PROVE  SumFunction(f) = 0
<1>1. PICK F \in [SUBSET {} -> Int] : Recurs(F, f, {}) /\ SumFunction(f) = F[{}]
  BY SumIs, FS_EmptySet
<1> QED
  BY <1>1, RecursionStep

\* A sum of integers is an integer.
LEMMA SumInt ==
    ASSUME NEW S, IsFiniteSet(S), NEW f \in [S -> Int]
    PROVE  SumFunction(f) \in Int
<1>1. PICK F \in [SUBSET S -> Int] : SumFunction(f) = F[S]
  BY SumIs
<1>2. S \in SUBSET S
  OBVIOUS
<1> QED
  BY <1>1, <1>2

\* The sum over a part of the domain.
partSum(f, T) == SumFunction([x \in T |-> f[x]])

\* A sum is one of the values and the sum of the others.
LEMMA SumRemove ==
    ASSUME NEW S, IsFiniteSet(S), NEW f \in [S -> Int], NEW x \in S
    PROVE  SumFunction(f) = f[x] + partSum(f, S \ {x})
<1> DEFINE R == S \ {x}
<1> DEFINE g == [y \in R |-> f[y]]
<1>1. IsFiniteSet(R) /\ R \subseteq S /\ g \in [R -> Int]
  BY FS_Subset
<1>2. PICK F \in [SUBSET S -> Int] : Recurs(F, f, S) /\ SumFunction(f) = F[S]
  BY SumIs
<1>3. PICK H \in [SUBSET R -> Int] : Recurs(H, g, R) /\ SumFunction(g) = H[R]
  <2> HIDE DEF g, R
  <2> QED
    BY <1>1, SumIs
<1>4. F[S] = f[x] + F[R]
  <2>0. Table(F, f, S)
    BY <1>2 DEF Table
  <2>1. S \in SUBSET S
    OBVIOUS
  <2> HIDE DEF g
  <2> QED
    BY <2>0, <2>1, RecursionAnyOrder
<1>5. F[R] = H[R]
  <2>1. \A y \in R : f[y] = g[y]
    OBVIOUS
  <2> HIDE DEF g, R
  <2> QED
    BY <1>1, <1>2, <1>3, <2>1, RecursionUnique
<1> QED
  BY <1>2, <1>3, <1>4, <1>5 DEF partSum

-----------------------------------------------------------------------------
(* Sums of parts and of changed functions                                  *)

LEMMA PartRemove ==
    ASSUME NEW T, IsFiniteSet(T), NEW f, \A y \in T : f[y] \in Int, NEW x \in T
    PROVE  partSum(f, T) = f[x] + partSum(f, T \ {x})
<1>1. PICK g : g = [y \in T |-> f[y]]
  OBVIOUS
<1>2. g \in [T -> Int] /\ g[x] = f[x]
  BY <1>1
<1>3. SumFunction(g) = g[x] + partSum(g, T \ {x})
  BY <1>2, SumRemove
<1>4. partSum(g, T \ {x}) = partSum(f, T \ {x})
  <2>1. [y \in T \ {x} |-> g[y]] = [y \in T \ {x} |-> f[y]]
    BY <1>1
  <2> QED
    BY <2>1 DEF partSum
<1> QED
  BY <1>1, <1>2, <1>3, <1>4 DEF partSum

LEMMA PartIs ==
    ASSUME NEW S, IsFiniteSet(S), NEW f \in [S -> Int]
    PROVE  /\ partSum(f, S) = SumFunction(f)
           /\ partSum(f, {}) = 0
           /\ \A T \in SUBSET S : partSum(f, T) \in Int
           /\ \A T \in SUBSET S : \A x \in T : partSum(f, T) = f[x] + partSum(f, T \ {x})
<1>1. [x \in S |-> f[x]] = f
  OBVIOUS
<1>2. partSum(f, {}) = 0
  <2>1. [x \in {} |-> f[x]] \in [{} -> Int]
    OBVIOUS
  <2> QED
    BY <2>1, SumEmpty DEF partSum
<1>3. ASSUME NEW T \in SUBSET S PROVE partSum(f, T) \in Int
  <2>1. IsFiniteSet(T) /\ [x \in T |-> f[x]] \in [T -> Int]
    BY FS_Subset
  <2> QED
    BY <2>1, SumInt DEF partSum
<1>4. ASSUME NEW T \in SUBSET S, NEW x \in T
      PROVE  partSum(f, T) = f[x] + partSum(f, T \ {x})
  <2>1. IsFiniteSet(T) /\ \A y \in T : f[y] \in Int
    BY FS_Subset
  <2> QED
    BY <2>1, PartRemove
<1> QED
  BY <1>1, <1>2, <1>3, <1>4 DEF partSum

\* Where all values are the same, so are the sums.
LEMMA PartSame ==
    ASSUME NEW T, NEW f, NEW g, \A x \in T : f[x] = g[x]
    PROVE  partSum(f, T) = partSum(g, T)
<1>1. [x \in T |-> f[x]] = [x \in T |-> g[x]]
  OBVIOUS
<1> QED
  BY <1>1 DEF partSum

\* A sum after one of the values has changed.
LEMMA SumChange ==
    ASSUME NEW S, IsFiniteSet(S), NEW f \in [S -> Int], NEW g \in [S -> Int],
           NEW x \in S, \A y \in S \ {x} : f[y] = g[y]
    PROVE  SumFunction(g) = (SumFunction(f) - f[x]) + g[x]
<1>1. partSum(f, S \ {x}) = partSum(g, S \ {x}) /\ S \in SUBSET S /\ S \ {x} \in SUBSET S
  BY PartSame
<1>2. /\ partSum(f, S) = SumFunction(f) /\ partSum(f, S) = f[x] + partSum(f, S \ {x})
      /\ partSum(f, S \ {x}) \in Int
  BY <1>1, PartIs
<1>3. partSum(g, S) = SumFunction(g) /\ partSum(g, S) = g[x] + partSum(g, S \ {x})
  BY <1>1, PartIs
<1>4. \A a, b, c \in Int : b + c = ((a + c) - a) + b
  OBVIOUS
<1>5. f[x] \in Int /\ g[x] \in Int
  OBVIOUS
<1> QED
  BY <1>1, <1>2, <1>3, <1>4, <1>5

\* A sum with one more value.
LEMMA SumAdd ==
    ASSUME NEW S, IsFiniteSet(S), NEW f \in [S -> Int], NEW x, x \notin S,
           NEW g \in [S \cup {x} -> Int], \A y \in S : f[y] = g[y]
    PROVE  SumFunction(g) = SumFunction(f) + g[x]
<1> DEFINE R == S \cup {x}
<1>1. IsFiniteSet(R) /\ R \ {x} = S /\ x \in R /\ R \in SUBSET R /\ g[x] \in Int
  BY FS_AddElement
<1>2. partSum(f, S) = SumFunction(f) /\ partSum(f, S) \in Int
  BY PartIs
<1>3. partSum(f, S) = partSum(g, S)
  BY PartSame
<1> HIDE DEF R
<1>4. partSum(g, R) = SumFunction(g) /\ partSum(g, R) = g[x] + partSum(g, R \ {x})
  BY <1>1, PartIs DEF R
<1>5. SumFunction(g) = g[x] + SumFunction(f)
  BY <1>1, <1>2, <1>3, <1>4
<1>6. SumFunction(f) \in Int /\ g[x] \in Int
  BY <1>1, <1>2
<1>7. \A a, b \in Int : a + b = b + a
  OBVIOUS
<1> QED
  BY <1>5, <1>6, <1>7

\* A sum of numbers that are not negative is not negative, and at least as large as
\* each of them.
LEMMA SumNat ==
    ASSUME NEW S, IsFiniteSet(S), NEW f \in [S -> Nat]
    PROVE  SumFunction(f) \in Nat /\ \A x \in S : f[x] <= SumFunction(f)
<1>0. f \in [S -> Int]
  OBVIOUS
<1> DEFINE G == {T \in SUBSET S : partSum(f, T) \in Nat}
<1>1. {} \in G
  BY <1>0, PartIs
<1>2. ASSUME NEW T \in SUBSET S, T # {}, \A x \in T : T \ {x} \in G PROVE T \in G
  <2>1. PICK x \in T : TRUE
    BY <1>2
  <2>2. partSum(f, T) = f[x] + partSum(f, T \ {x})
    BY <1>0, PartIs
  <2>3. f[x] \in Nat /\ partSum(f, T \ {x}) \in Nat
    BY <1>2
  <2> QED
    BY <2>2, <2>3
<1> HIDE DEF G
<1>3. \A T \in SUBSET S : partSum(f, T) \in Nat
  <2>1. \A T \in SUBSET S : T \in G
    BY <1>1, <1>2, SubsetInduction
  <2> QED
    BY <2>1 DEF G
<1>4. ASSUME NEW x \in S PROVE f[x] <= SumFunction(f)
  <2>1. S \in SUBSET S /\ S \ {x} \in SUBSET S
    OBVIOUS
  <2>2. SumFunction(f) = f[x] + partSum(f, S \ {x})
    BY <1>0, <2>1, PartIs
  <2>3. f[x] \in Nat /\ partSum(f, S \ {x}) \in Nat
    BY <1>3, <2>1
  <2> QED
    BY <2>2, <2>3
<1>5. SumFunction(f) \in Nat
  <2>1. SumFunction(f) = partSum(f, S) /\ S \in SUBSET S
    BY <1>0, PartIs
  <2> QED
    BY <1>3, <2>1
<1> QED
  BY <1>4, <1>5

\* A sum of zeros.
LEMMA SumZero ==
    ASSUME NEW S, IsFiniteSet(S), NEW f, f = [x \in S |-> 0]
    PROVE  SumFunction(f) = 0
<1>0. f \in [S -> Int]
  OBVIOUS
<1> DEFINE G == {T \in SUBSET S : partSum(f, T) = 0}
<1>1. {} \in G
  BY <1>0, PartIs
<1>2. ASSUME NEW T \in SUBSET S, T # {}, \A x \in T : T \ {x} \in G PROVE T \in G
  <2>1. PICK x \in T : TRUE
    BY <1>2
  <2>2. partSum(f, T) = f[x] + partSum(f, T \ {x})
    BY <1>0, PartIs
  <2> QED
    BY <1>2, <2>2
<1> HIDE DEF G
<1>3. S \in G
  <2>1. \A T \in SUBSET S : T \in G
    BY <1>1, <1>2, SubsetInduction
  <2> QED
    BY <2>1
<1> QED
  BY <1>0, <1>3, PartIs DEF G

\* The sum of pairwise sums.
LEMMA SumPlus ==
    ASSUME NEW S, IsFiniteSet(S), NEW f \in [S -> Int], NEW g \in [S -> Int],
           NEW h \in [S -> Int], \A x \in S : h[x] = f[x] + g[x]
    PROVE  SumFunction(h) = SumFunction(f) + SumFunction(g)
<1> DEFINE G == {T \in SUBSET S : partSum(h, T) = partSum(f, T) + partSum(g, T)}
<1>1. {} \in G
  <2>1. partSum(f, {}) = 0 /\ partSum(g, {}) = 0 /\ partSum(h, {}) = 0
    BY PartIs
  <2> QED
    BY <2>1
<1>2. ASSUME NEW T \in SUBSET S, T # {}, \A x \in T : T \ {x} \in G PROVE T \in G
  <2>1. PICK x \in T : TRUE
    BY <1>2
  <2> DEFINE R == T \ {x}
  <2>2. /\ partSum(f, T) = f[x] + partSum(f, R) /\ partSum(g, T) = g[x] + partSum(g, R)
        /\ partSum(h, T) = h[x] + partSum(h, R)
    <3>1. partSum(f, T) = f[x] + partSum(f, R)
      BY PartIs
    <3>2. partSum(g, T) = g[x] + partSum(g, R)
      BY PartIs
    <3>3. partSum(h, T) = h[x] + partSum(h, R)
      BY PartIs
    <3> QED
      BY <3>1, <3>2, <3>3
  <2>3. partSum(f, R) \in Int /\ partSum(g, R) \in Int /\ f[x] \in Int /\ g[x] \in Int
    <3>1. partSum(f, R) \in Int
      BY PartIs
    <3>2. partSum(g, R) \in Int
      BY PartIs
    <3> QED
      BY <3>1, <3>2
  <2>4. partSum(h, R) = partSum(f, R) + partSum(g, R) /\ h[x] = f[x] + g[x]
    BY <1>2
  <2>5. \A a, b, c, d \in Int : (a + b) + (c + d) = (a + c) + (b + d)
    OBVIOUS
  <2> HIDE DEF R
  <2>6. partSum(h, T) = partSum(f, T) + partSum(g, T)
    BY <2>2, <2>3, <2>4, <2>5
  <2> QED
    BY <2>6
<1> HIDE DEF G
<1>3. S \in G
  <2>1. \A T \in SUBSET S : T \in G
    BY <1>1, <1>2, SubsetInduction
  <2> QED
    BY <2>1
<1>4. partSum(f, S) = SumFunction(f)
  BY PartIs
<1>5. partSum(g, S) = SumFunction(g)
  BY PartIs
<1>6. partSum(h, S) = SumFunction(h)
  BY PartIs
<1> QED
  BY <1>3, <1>4, <1>5, <1>6 DEF G

\* The sum of multiples.
LEMMA SumTimes ==
    ASSUME NEW S, IsFiniteSet(S), NEW f \in [S -> Int], NEW c \in Int,
           NEW h \in [S -> Int], \A x \in S : h[x] = c * f[x]
    PROVE  SumFunction(h) = c * SumFunction(f)
<1> DEFINE G == {T \in SUBSET S : partSum(h, T) = c * partSum(f, T)}
<1>1. {} \in G
  <2>1. partSum(f, {}) = 0 /\ partSum(h, {}) = 0
    BY PartIs
  <2> QED
    BY <2>1
<1>2. ASSUME NEW T \in SUBSET S, T # {}, \A x \in T : T \ {x} \in G PROVE T \in G
  <2>1. PICK x \in T : TRUE
    BY <1>2
  <2> DEFINE R == T \ {x}
  <2>2. partSum(f, T) = f[x] + partSum(f, R)
    BY PartIs
  <2>3. partSum(h, T) = h[x] + partSum(h, R)
    BY PartIs
  <2>4. partSum(f, R) \in Int /\ f[x] \in Int
    BY PartIs
  <2>5. partSum(h, R) = c * partSum(f, R) /\ h[x] = c * f[x]
    BY <1>2
  <2>6. \A a, b \in Int : c * a + c * b = c * (a + b)
    OBVIOUS
  <2> HIDE DEF R
  <2>7. partSum(h, T) = c * partSum(f, T)
    BY <2>2, <2>3, <2>4, <2>5, <2>6
  <2> QED
    BY <2>7
<1> HIDE DEF G
<1>3. S \in G
  <2>1. \A T \in SUBSET S : T \in G
    BY <1>1, <1>2, SubsetInduction
  <2> QED
    BY <2>1
<1>4. partSum(f, S) = SumFunction(f)
  BY PartIs
<1>5. partSum(h, S) = SumFunction(h)
  BY PartIs
<1> QED
  BY <1>3, <1>4, <1>5 DEF G

-----------------------------------------------------------------------------
(* Sums of sequences                                                       *)

\* One more number at the end of an interval.
LEMMA Interval ==
    ASSUME NEW k \in Nat
    PROVE  /\ IsFiniteSet(1..k) /\ 1..0 = {} /\ k + 1 \in 1..k + 1
           /\ (1..k + 1) \ {k + 1} = 1..k /\ k + 1 \notin 1..k
           /\ (1..k) \cup {k + 1} = 1..k + 1
<1>1. 0 \in Int /\ 1 \in Int /\ k \in Int
  OBVIOUS
<1>2. IsFiniteSet(1..k)
  BY <1>1, FS_Interval
<1> QED
  BY <1>2

\* The sum of a sequence, by its last element.
LEMMA PartLastOf ==
    ASSUME NEW S, IsFiniteSet(S), NEW f \in [S -> Int], NEW k \in Nat, 1..k + 1 \in SUBSET S
    PROVE  partSum(f, 1..k + 1) = f[k + 1] + partSum(f, 1..k)
<1> DEFINE K == 1..k + 1
<1>1. K \in SUBSET S /\ k + 1 \in K /\ K \ {k + 1} = 1..k
  BY Interval
<1> HIDE DEF K
<1>2. partSum(f, K) = f[k + 1] + partSum(f, K \ {k + 1})
  BY <1>1, PartIs
<1> QED
  BY <1>1, <1>2 DEF K

LEMMA PartLast ==
    ASSUME NEW n \in Nat, NEW f \in [1..n -> Int], NEW k \in Nat, k + 1 <= n
    PROVE  /\ partSum(f, 1..k + 1) = f[k + 1] + partSum(f, 1..k)
           /\ f[k + 1] \in Int /\ partSum(f, 1..k) \in Int
<1>1. 1..k + 1 \in SUBSET (1..n) /\ 1..k \in SUBSET (1..n) /\ k + 1 \in 1..n
  OBVIOUS
<1>2. IsFiniteSet(1..n)
  BY Interval
<1> DEFINE N == 1..n
<1>3. f \in [N -> Int] /\ IsFiniteSet(N) /\ 1..k + 1 \in SUBSET N /\ 1..k \in SUBSET N
  BY <1>1, <1>2
<1> HIDE DEF N
<1>4. partSum(f, 1..k + 1) = f[k + 1] + partSum(f, 1..k)
  BY <1>3, PartLastOf
<1>5. partSum(f, 1..k) \in Int
  BY <1>3, PartIs
<1> QED
  BY <1>1, <1>4, <1>5

\* The same, for all parts at once.
Steps(f, n) == \A k \in Nat : k + 1 <= n => partSum(f, 1..k + 1) = f[k + 1] + partSum(f, 1..k)

LEMMA PartSteps ==
    ASSUME NEW n \in Nat, NEW f \in [1..n -> Int]
    PROVE  Steps(f, n)
BY PartLast DEF Steps

LEMMA PartAll ==
    ASSUME NEW n \in Nat, NEW f \in [1..n -> Int]
    PROVE  partSum(f, 1..0) = 0 /\ partSum(f, 1..n) = SumFunction(f) /\ SumFunction(f) \in Int
<1> DEFINE N == 1..n
<1>1. f \in [N -> Int] /\ IsFiniteSet(N)
  BY Interval
<1> HIDE DEF N
<1>2. partSum(f, {}) = 0 /\ partSum(f, N) = SumFunction(f) /\ SumFunction(f) \in Int
  BY <1>1, PartIs, SumInt
<1> QED
  BY <1>2, Interval DEF N

\* Values between two bounds have a sum between the multiples of the bounds.
LEMMA SumBounds ==
    ASSUME NEW n \in Nat, NEW f \in [1..n -> Int], NEW lo \in Int, NEW hi \in Int,
           \A i \in 1..n : lo <= f[i] /\ f[i] <= hi
    PROVE  n * lo <= SumFunction(f) /\ SumFunction(f) <= n * hi
<1> DEFINE G == {k \in Nat : k <= n => k * lo <= partSum(f, 1..k) /\ partSum(f, 1..k) <= k * hi}
<1>1. 0 \in G
  BY PartAll
<1>2. ASSUME NEW k \in Nat, k \in G PROVE k + 1 \in G
  <2> SUFFICES ASSUME k + 1 <= n
               PROVE  /\ (k + 1) * lo <= partSum(f, 1..k + 1)
                      /\ partSum(f, 1..k + 1) <= (k + 1) * hi
    OBVIOUS
  <2>1. k * lo <= partSum(f, 1..k) /\ partSum(f, 1..k) <= k * hi
    BY <1>2
  <2>2. /\ partSum(f, 1..k + 1) = f[k + 1] + partSum(f, 1..k)
        /\ f[k + 1] \in Int /\ partSum(f, 1..k) \in Int
    BY PartLast
  <2>3. lo <= f[k + 1] /\ f[k + 1] <= hi
    OBVIOUS
  <2>4. (k + 1) * lo = k * lo + lo /\ (k + 1) * hi = k * hi + hi
    OBVIOUS
  <2>5. k * lo \in Int /\ k * hi \in Int
    OBVIOUS
  <2>6. \A a, b, c, d, e, g \in Int :
           a <= b /\ b <= c /\ d <= e /\ e <= g => a + d <= e + b /\ e + b <= c + g
    OBVIOUS
  <2> QED
    BY <2>1, <2>2, <2>3, <2>4, <2>5, <2>6
<1> HIDE DEF G
<1>3. n \in G
  BY <1>1, <1>2, NumberInduction
<1> QED
  BY <1>3, PartAll DEF G

\* The sum of n values that are the same.
LEMMA SumConst ==
    ASSUME NEW n \in Nat, NEW f \in [1..n -> Int], NEW c \in Int, \A i \in 1..n : f[i] = c
    PROVE  SumFunction(f) = n * c
<1>1. n * c <= SumFunction(f) /\ SumFunction(f) <= n * c
  <2>1. \A i \in 1..n : c <= f[i] /\ f[i] <= c
    OBVIOUS
  <2> QED
    BY <2>1, SumBounds
<1>2. SumFunction(f) \in Int /\ n * c \in Int
  BY PartAll
<1> QED
  BY <1>1, <1>2

\* How many of the first n are among the first k.
LEMMA SumCount ==
    ASSUME NEW n \in Nat, NEW k \in Nat, k <= n, NEW f \in [1..n -> Int],
           \A i \in 1..n : f[i] = IF i <= k THEN 1 ELSE 0
    PROVE  SumFunction(f) = k
<1> DEFINE G == {j \in Nat : j <= n => partSum(f, 1..j) = IF j <= k THEN j ELSE k}
<1>1. 0 \in G
  BY PartAll
<1>2. ASSUME NEW j \in Nat, j \in G PROVE j + 1 \in G
  <2> SUFFICES ASSUME j + 1 <= n
               PROVE  partSum(f, 1..j + 1) = IF j + 1 <= k THEN j + 1 ELSE k
    OBVIOUS
  <2>1. partSum(f, 1..j) = IF j <= k THEN j ELSE k
    BY <1>2
  <2>2. partSum(f, 1..j + 1) = f[j + 1] + partSum(f, 1..j)
    BY PartLast
  <2>3. f[j + 1] = IF j + 1 <= k THEN 1 ELSE 0
    OBVIOUS
  <2> QED
    BY <2>1, <2>2, <2>3
<1> HIDE DEF G
<1>3. n \in G
  BY <1>1, <1>2, NumberInduction
<1> QED
  BY <1>3, PartAll DEF G

\* A sequence with one more element at the end.
LEMMA SumLast ==
    ASSUME NEW n \in Nat, NEW f \in [1..n -> Int], NEW g \in [1..n + 1 -> Int],
           \A i \in 1..n : g[i] = f[i]
    PROVE  SumFunction(g) = SumFunction(f) + g[n + 1]
<1>1. PICK m \in Nat : m = n + 1
  OBVIOUS
<1>2. g \in [1..m -> Int] /\ n + 1 <= m
  BY <1>1
<1>3. partSum(g, 1..n) = partSum(f, 1..n)
  BY PartSame
<1>4. partSum(f, 1..n) = SumFunction(f) /\ SumFunction(f) \in Int
  BY PartAll
<1>5. partSum(g, 1..m) = SumFunction(g)
  BY <1>2, PartAll
<1>6. partSum(g, 1..n + 1) = g[n + 1] + partSum(g, 1..n) /\ g[n + 1] \in Int
  BY <1>2, PartLast
<1>7. \A a, b \in Int : a + b = b + a
  OBVIOUS
<1>8. SumFunction(g) = g[n + 1] + SumFunction(f)
  BY <1>1, <1>3, <1>4, <1>5, <1>6
<1> QED
  BY <1>4, <1>6, <1>7, <1>8

\* The sum of a sequence, by its first element.
LEMMA SumFirst ==
    ASSUME NEW n \in Nat, NEW f \in [1..n + 1 -> Int], NEW g \in [1..n -> Int],
           \A i \in 1..n : g[i] = f[i + 1]
    PROVE  SumFunction(f) = f[1] + SumFunction(g)
<1> DEFINE G == {k \in Nat : k <= n => partSum(f, 1..k + 1) = f[1] + partSum(g, 1..k)}
<1>0. PICK m \in Nat : m = n + 1
  OBVIOUS
<1>a. f \in [1..m -> Int] /\ f[1] \in Int
  BY <1>0
<1>b. Steps(f, m)
  BY <1>a, PartSteps
<1>1. 0 \in G
  <2>1. partSum(f, 1..0) = 0 /\ partSum(g, 1..0) = 0
    BY <1>0, <1>a, PartAll
  <2>2. partSum(f, 1..0 + 1) = f[0 + 1] + partSum(f, 1..0)
    <3>1. 0 \in Nat /\ 0 + 1 <= m
      BY <1>0
    <3> HIDE DEF G
    <3> QED
      BY <1>b, <3>1 DEF Steps
  <2> QED
    BY <1>0, <1>a, <2>1, <2>2
<1>2. ASSUME NEW k \in Nat, k \in G PROVE k + 1 \in G
  <2> SUFFICES ASSUME k + 1 <= n
               PROVE  partSum(f, 1..(k + 1) + 1) = f[1] + partSum(g, 1..k + 1)
    OBVIOUS
  <2>1. partSum(f, 1..k + 1) = f[1] + partSum(g, 1..k)
    BY <1>2
  <2>2. partSum(g, 1..k + 1) = g[k + 1] + partSum(g, 1..k) /\ partSum(g, 1..k) \in Int
    BY PartLast
  <2>3. partSum(f, 1..(k + 1) + 1) = f[(k + 1) + 1] + partSum(f, 1..k + 1)
    <3>1. PICK j \in Nat : j = k + 1
      OBVIOUS
    <3>2. j + 1 <= m
      BY <1>0, <3>1
    <3>3. partSum(f, 1..j + 1) = f[j + 1] + partSum(f, 1..j)
      BY <1>b, <3>2 DEF Steps
    <3> QED
      BY <3>1, <3>3
  <2>4. g[k + 1] = f[(k + 1) + 1] /\ g[k + 1] \in Int
    OBVIOUS
  <2>5. \A a, b, c \in Int : a + (b + c) = b + (a + c)
    OBVIOUS
  <2> QED
    BY <1>a, <2>1, <2>2, <2>3, <2>4, <2>5
<1> HIDE DEF G
<1>3. n \in G
  BY <1>1, <1>2, NumberInduction
<1>4. partSum(f, 1..n + 1) = SumFunction(f) /\ partSum(g, 1..n) = SumFunction(g)
  BY <1>0, <1>a, PartAll
<1> QED
  BY <1>3, <1>4 DEF G

\* Values that are zero outside of a set add nothing.
LEMMA SumSupport ==
    ASSUME NEW S, IsFiniteSet(S), NEW f \in [S -> Int], NEW T \in SUBSET S,
           \A x \in S \ T : f[x] = 0
    PROVE  SumFunction([x \in T |-> f[x]]) = SumFunction(f)
<1> DEFINE G == {U \in SUBSET S : partSum(f, U) = partSum(f, U \cap T)}
<1>0. {} \cap T = {} /\ S \cap T = T /\ S \in SUBSET S
  OBVIOUS
<1>1. {} \in G
  BY <1>0
<1>2. ASSUME NEW U \in SUBSET S, U # {}, \A x \in U : U \ {x} \in G PROVE U \in G
  <2>1. PICK x \in U : TRUE
    BY <1>2
  <2>2. partSum(f, U \ {x}) = partSum(f, (U \ {x}) \cap T)
    BY <1>2, <2>1
  <2>3. partSum(f, U) = f[x] + partSum(f, U \ {x})
    BY PartIs
  <2>4. CASE x \in T
    <3>1. (U \ {x}) \cap T = (U \cap T) \ {x} /\ U \cap T \in SUBSET S /\ x \in U \cap T
      BY <2>4
    <3>2. partSum(f, U \cap T) = f[x] + partSum(f, (U \cap T) \ {x})
      <4> DEFINE W == U \cap T
      <4>1. W \in SUBSET S /\ x \in W
        BY <3>1
      <4> HIDE DEF W
      <4>2. partSum(f, W) = f[x] + partSum(f, W \ {x})
        BY <4>1, PartIs
      <4> QED
        BY <4>2 DEF W
    <3> QED
      BY <2>2, <2>3, <3>1, <3>2
  <2>5. CASE x \notin T
    <3>1. (U \ {x}) \cap T = U \cap T /\ f[x] = 0
      BY <2>5
    <3>2. partSum(f, U \ {x}) \in Int
      <4>1. U \ {x} \in SUBSET S
        OBVIOUS
      <4> QED
        BY <4>1, PartIs
    <3>3. partSum(f, U) = partSum(f, U \ {x})
      BY <2>3, <3>1, <3>2
    <3>4. partSum(f, U \ {x}) = partSum(f, U \cap T)
      BY <2>2, <3>1
    <3> QED
      BY <3>3, <3>4
  <2> QED
    BY <2>4, <2>5
<1> HIDE DEF G
<1>3. S \in G
  BY <1>0, <1>1, <1>2, SubsetInduction
<1>4. partSum(f, S) = partSum(f, T)
  BY <1>0, <1>3 DEF G
<1>5. partSum(f, S) = SumFunction(f)
  BY PartIs
<1> QED
  BY <1>4, <1>5 DEF partSum
=============================================================================
