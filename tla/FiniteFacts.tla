----------------------------- MODULE FiniteFacts -----------------------------
(***************************************************************************)
(* Lemmas that the proofs of several components rest on, about data rather *)
(* than about the code: sums over finite sets (SumFunctionOnSet of the     *)
(* module Functions), loops over a list, ordered lists, arithmetic, and    *)
(* credits that are earned and paid in turns.                              *)
(*                                                                         *)
(* What needs an induction is proved by descent: were the statement wrong  *)
(* for some number or subset, it would be wrong for a smallest one, which  *)
(* is empty or one larger than one for which it is right.                  *)
(***************************************************************************)
EXTENDS Integers, Sequences, Functions, FiniteSetsExt, FiniteSetTheorems, WellFoundedInduction,
        TLAPS

\* The provers for a step that names none, in turn, with their time limits in seconds.
USE SMTT(10), ZenonT(20), SMTT(40), ZenonT(60)

\* A set of naturals that is not empty has a least element.
LEMMA LeastNumber ==
  ASSUME NEW M \in SUBSET Nat, M # {}
  PROVE  \E n \in M : \A m \in M : n <= m
<1> DEFINE R == OpToRel(<, Nat)
<1>1. \E n \in M : \A m \in M : ~(<<m, n>> \in R)
  BY NatLessThanWellFounded, WFMin
<1>2. PICK n \in M : \A m \in M : ~(<<m, n>> \in R)
  BY <1>1
<1>3. ASSUME NEW m \in M PROVE n <= m
  <2>1. m \in Nat /\ n \in Nat
    OBVIOUS
  <2>2. m < n => <<m, n>> \in R
    BY <2>1 DEF OpToRel
  <2>3. ~(m < n)
    BY <1>2, <2>2
  <2>4. QED
    BY <2>1, <2>3
<1>4. QED
  BY <1>3

\* A family of subsets of a finite set that is not empty has a minimal member.
LEMMA LeastSubset ==
  ASSUME NEW S, IsFiniteSet(S), NEW Fam \in SUBSET (SUBSET S), Fam # {}
  PROVE  \E T \in Fam : \A U \in Fam : U \subseteq T => U = T
<1> DEFINE R == StrictSubsetOrdering(S)
<1>1. IsWellFoundedOn(R, SUBSET S)
  BY FS_StrictSubsetOrderingWellFounded, FS_FiniteSubsetsOfFinite
<1>2. PICK T \in Fam : \A U \in Fam : ~(<<U, T>> \in R)
  BY <1>1, WFMin
<1>3. ASSUME NEW U \in Fam, U \subseteq T, U # T PROVE FALSE
  BY <1>2, <1>3 DEF StrictSubsetOrdering
<1>4. QED
  BY <1>3

-----------------------------------------------------------------------------
(* The recursion behind the sum is solvable, and has one solution *)

Pick(s) == CHOOSE x \in s : TRUE

Body(f, g, s) == IF s = {} THEN 0 ELSE f[Pick(s)] + g[s \ {Pick(s)}]

\* g is the sum of f for all subsets of S, or for those of at most n elements.
Solution(f, S, g) == g = [s \in SUBSET S |-> Body(f, g, s)]

SolutionUpTo(f, S, n, g) ==
  \A s \in SUBSET S : Cardinality(s) <= n => g[s] = Body(f, g, s)

\* The library's definition of the sum, in these terms.
LEMMA SumSolution ==
  ASSUME NEW f, NEW S
  PROVE  SumFunctionOnSet(f, S) = (CHOOSE g : Solution(f, S, g))[S]
BY DEF SumFunctionOnSet, FoldFunctionOnSet, MapThenFoldSet, Body, Pick, Solution

\* Taking the chosen element out of a set leaves one element less.
LEMMA PickFacts ==
  ASSUME NEW S, IsFiniteSet(S), NEW s \in SUBSET S, s # {}
  PROVE  /\ Pick(s) \in s
         /\ s \ {Pick(s)} \in SUBSET S
         /\ Cardinality(s) \in Nat
         /\ Cardinality(s \ {Pick(s)}) = Cardinality(s) - 1
<1>1. Pick(s) \in s
  BY DEF Pick
<1>2. IsFiniteSet(s) /\ Cardinality(s) \in Nat
  BY FS_Subset, FS_CardinalityType
<1>3. QED
  BY <1>1, <1>2, FS_RemoveElement

\* A solution up to n elements yields one up to n + 1.
LEMMA SolvedUpTo ==
  ASSUME NEW S, IsFiniteSet(S), NEW f, \A x \in S : f[x] \in Int
  PROVE  \A n \in Nat : \E g \in [SUBSET S -> Int] : SolutionUpTo(f, S, n, g)
<1> USE DEF SolutionUpTo
<1> DEFINE Solves(g, n) == SolutionUpTo(f, S, n, g)
           Bad == {n \in Nat : ~ \E g \in [SUBSET S -> Int] : Solves(g, n)}
<1>1. SUFFICES ASSUME Bad # {} PROVE FALSE
  OBVIOUS
<1>2. PICK n \in Bad : \A m \in Bad : n <= m
  BY <1>1, LeastNumber
<1>3. CASE n = 0
  <2> DEFINE g == [s \in SUBSET S |-> 0]
  <2>1. Solves(g, 0)
    <3>1. ASSUME NEW s \in SUBSET S, Cardinality(s) <= 0 PROVE s = {}
      BY <3>1, FS_EmptySet, FS_Subset, FS_CardinalityType
    <3>2. QED
      BY <3>1 DEF Body
  <2>2. g \in [SUBSET S -> Int]
    OBVIOUS
  <2>3. QED
    BY <1>2, <1>3, <2>1, <2>2
<1>4. CASE n # 0
  <2>1. n \in Nat /\ n - 1 \in Nat
    BY <1>2, <1>4
  <2>2. n - 1 \notin Bad
    <3> HIDE DEF Bad
    <3> QED BY <1>2, <2>1
  <2>3. PICK g \in [SUBSET S -> Int] : Solves(g, n - 1)
    BY <2>1, <2>2
  <2> DEFINE h == [s \in SUBSET S |-> Body(f, g, s)]
  <2>4. ASSUME NEW s \in SUBSET S PROVE Body(f, g, s) \in Int
    <3>1. CASE s = {}
      BY <3>1 DEF Body
    <3>2. CASE s # {}
      BY <3>2, PickFacts DEF Body
    <3>3. QED
      BY <3>1, <3>2
  <2>5. h \in [SUBSET S -> Int]
    BY <2>4
  <2>6. ASSUME NEW s \in SUBSET S, Cardinality(s) <= n
        PROVE  h[s] = Body(f, h, s)
    <3>1. CASE s = {}
      BY <3>1 DEF Body
    <3>2. CASE s # {}
      <4>1. s \ {Pick(s)} \in SUBSET S /\ Cardinality(s \ {Pick(s)}) <= n - 1
        BY <3>2, <2>1, <2>6, PickFacts
      <4>2. h[s \ {Pick(s)}] = g[s \ {Pick(s)}]
        BY <4>1, <2>3
      <4>3. QED
        BY <4>2, <3>2 DEF Body
    <3>3. QED
      BY <3>1, <3>2
  <2>7. Solves(h, n)
    BY <2>6
  <2>8. QED
    BY <1>2, <2>5, <2>7
<1>5. QED
  BY <1>3, <1>4

\* So there is one for all subsets of a finite set.
LEMMA SolutionExists ==
  ASSUME NEW S, IsFiniteSet(S), NEW f, \A x \in S : f[x] \in Int
  PROVE  \E g \in [SUBSET S -> Int] : Solution(f, S, g)
<1>1. Cardinality(S) \in Nat
  BY FS_CardinalityType
<1>2. PICK g \in [SUBSET S -> Int] : SolutionUpTo(f, S, Cardinality(S), g)
  BY <1>1, SolvedUpTo
<1>3. \A s \in SUBSET S : g[s] = Body(f, g, s)
  BY <1>2, FS_Subset DEF SolutionUpTo
<1>4. Solution(f, S, g)
  BY <1>3 DEF Solution
<1>5. QED
  BY <1>4

\* Solutions for functions that agree on T are equal on the subsets of T.
LEMMA SolutionsAgree ==
  ASSUME NEW S, IsFiniteSet(S), NEW f, NEW f2, NEW T \in SUBSET S, NEW g, NEW h,
         \A x \in T : f[x] = f2[x],
         Solution(f, S, g), Solution(f2, T, h)
  PROVE  \A s \in SUBSET T : g[s] = h[s]
<1> DEFINE Bad == {s \in SUBSET T : g[s] # h[s]}
<1>1. SUFFICES ASSUME Bad # {} PROVE FALSE
  OBVIOUS
<1>2. IsFiniteSet(T)
  BY FS_Subset
<1>3. PICK s \in Bad : \A u \in Bad : u \subseteq s => u = s
  <2>1. Bad \in SUBSET (SUBSET T)
    OBVIOUS
  <2> HIDE DEF Bad
  <2>2. QED
    BY <1>1, <1>2, <2>1, LeastSubset
<1>4. g[s] = Body(f, g, s) /\ h[s] = Body(f2, h, s)
  BY DEF Solution
<1>5. CASE s = {}
  BY <1>4, <1>5 DEF Body
<1>6. CASE s # {}
  <2>1. Pick(s) \in s /\ s \ {Pick(s)} \in SUBSET T
    BY <1>2, <1>6, PickFacts
  <2>2. s \ {Pick(s)} \notin Bad
    BY <2>1, <1>3
  <2>3. f[Pick(s)] = f2[Pick(s)] /\ g[s \ {Pick(s)}] = h[s \ {Pick(s)}]
    BY <2>1, <2>2
  <2>4. QED
    BY <1>4, <1>6, <2>3 DEF Body
<1>7. QED
  BY <1>5, <1>6

\* The sum over a subset of S can be read off any solution for S.
LEMMA SumBySolution ==
  ASSUME NEW S, IsFiniteSet(S), NEW f, \A x \in S : f[x] \in Int,
         NEW T \in SUBSET S, NEW g, Solution(f, S, g)
  PROVE  SumFunctionOnSet(f, T) = g[T]
<1>1. IsFiniteSet(T) /\ \A x \in T : f[x] \in Int
  BY FS_Subset
<1>2. \E h : Solution(f, T, h)
  BY <1>1, SolutionExists
<1>3. Solution(f, T, CHOOSE h : Solution(f, T, h))
  BY <1>2
<1>4. g[T] = (CHOOSE h : Solution(f, T, h))[T]
  BY <1>3, SolutionsAgree
<1>5. QED
  BY <1>4, SumSolution

-----------------------------------------------------------------------------
(* What the sum does *)

\* The sum over no element is 0.
THEOREM SumEmpty == ASSUME NEW f PROVE SumFunctionOnSet(f, {}) = 0
<1>1. IsFiniteSet({}) /\ \A x \in {} : f[x] \in Int
  BY FS_EmptySet
<1>2. PICK g : Solution(f, {}, g)
  BY <1>1, SolutionExists
<1>3. g[{}] = 0
  BY <1>2 DEF Solution, Body
<1>4. QED
  BY <1>1, <1>2, <1>3, SumBySolution

\* A sum of integers is an integer.
THEOREM SumType ==
  ASSUME NEW S, IsFiniteSet(S), NEW f, \A x \in S : f[x] \in Int
  PROVE  SumFunctionOnSet(f, S) \in Int
<1>1. PICK g \in [SUBSET S -> Int] : Solution(f, S, g)
  BY SolutionExists
<1>2. QED
  BY <1>1, SumBySolution

\* The sum without the element that the definition chooses.
LEMMA SumPick ==
  ASSUME NEW S, IsFiniteSet(S), NEW f, \A x \in S : f[x] \in Int, S # {}
  PROVE  SumFunctionOnSet(f, S) = f[Pick(S)] + SumFunctionOnSet(f, S \ {Pick(S)})
<1>1. PICK g \in [SUBSET S -> Int] : Solution(f, S, g)
  BY SolutionExists
<1>2. g[S] = f[Pick(S)] + g[S \ {Pick(S)}]
  BY <1>1 DEF Solution, Body
<1>3. QED
  BY <1>1, <1>2, SumBySolution

\* Any element can be taken out: the order of the summation does not matter.
LEMMA SumRemove ==
  ASSUME NEW S, IsFiniteSet(S), NEW f, \A x \in S : f[x] \in Int, NEW x \in S
  PROVE  SumFunctionOnSet(f, S) = f[x] + SumFunctionOnSet(f, S \ {x})
<1> DEFINE Bad == {T \in SUBSET S : \E y \in T :
                     SumFunctionOnSet(f, T) # f[y] + SumFunctionOnSet(f, T \ {y})}
<1>1. SUFFICES ASSUME Bad # {} PROVE FALSE
  OBVIOUS
<1>2. PICK T \in Bad : \A U \in Bad : U \subseteq T => U = T
  <2>1. Bad \in SUBSET (SUBSET S)
    OBVIOUS
  <2> HIDE DEF Bad
  <2>2. QED
    BY <1>1, <2>1, LeastSubset
<1>3. T \in SUBSET S
  OBVIOUS
<1>4. PICK y \in T : SumFunctionOnSet(f, T) # f[y] + SumFunctionOnSet(f, T \ {y})
  OBVIOUS
<1> HIDE DEF Bad
<1>5. PICK p : p = Pick(T)
  OBVIOUS
<1>6. p \in T
  BY <1>3, <1>4, <1>5 DEF Pick
<1>7. SumFunctionOnSet(f, T) = f[p] + SumFunctionOnSet(f, T \ {p})
  BY <1>3, <1>4, <1>5, FS_Subset, SumPick
<1>8. p # y
  BY <1>4, <1>7
<1>9. ASSUME NEW U \in SUBSET T, NEW z \in U, U # T
      PROVE  SumFunctionOnSet(f, U) = f[z] + SumFunctionOnSet(f, U \ {z})
  BY <1>2, <1>3, <1>9 DEF Bad
<1>10. SumFunctionOnSet(f, T \ {p}) = f[y] + SumFunctionOnSet(f, (T \ {p}) \ {y})
  BY <1>6, <1>8, <1>9
<1>11. SumFunctionOnSet(f, T \ {y}) = f[p] + SumFunctionOnSet(f, (T \ {y}) \ {p})
  BY <1>6, <1>8, <1>9
<1>12. (T \ {y}) \ {p} = (T \ {p}) \ {y}
  OBVIOUS
<1>13. PICK r \in Int : r = SumFunctionOnSet(f, (T \ {p}) \ {y})
  BY <1>3, FS_Subset, SumType
<1> DEFINE FT == SumFunctionOnSet(f, T)
           Fy == SumFunctionOnSet(f, T \ {y})
           Fp == SumFunctionOnSet(f, T \ {p})
<1>14. f[p] \in Int /\ f[y] \in Int
  BY <1>3, <1>6
<1>15. FT # f[y] + Fy /\ FT = f[p] + Fp /\ Fp = f[y] + r /\ Fy = f[p] + r
  BY <1>4, <1>7, <1>10, <1>11, <1>12, <1>13
<1> HIDE DEF FT, Fy, Fp
<1>16. QED
  BY <1>14, <1>15

\* A new element adds its value.
THEOREM SumAdd ==
  ASSUME NEW S, IsFiniteSet(S), NEW x, x \notin S, NEW f, \A y \in S \cup {x} : f[y] \in Int
  PROVE  SumFunctionOnSet(f, S \cup {x}) = f[x] + SumFunctionOnSet(f, S)
<1>1. IsFiniteSet(S \cup {x}) /\ (S \cup {x}) \ {x} = S
  BY FS_AddElement
<1>2. QED
  BY <1>1, SumRemove

\* Functions that agree on S have the same sum over S.
THEOREM SumEqual ==
  ASSUME NEW S, IsFiniteSet(S), NEW f, NEW h, \A x \in S : f[x] \in Int /\ h[x] = f[x]
  PROVE  SumFunctionOnSet(h, S) = SumFunctionOnSet(f, S)
<1>1. PICK g : Solution(f, S, g)
  BY SolutionExists
<1>2. PICK k : Solution(h, S, k)
  BY SolutionExists
<1>3. S \in SUBSET S
  OBVIOUS
<1>4. g[S] = k[S]
  BY <1>1, <1>2, <1>3, SolutionsAgree
<1>5. QED
  BY <1>1, <1>2, <1>3, <1>4, SumBySolution

\* The sum of a pointwise sum is the sum of the sums.
THEOREM SumPlus ==
  ASSUME NEW S, IsFiniteSet(S), NEW f, NEW g, NEW h,
         \A x \in S : f[x] \in Int /\ g[x] \in Int /\ h[x] = f[x] + g[x]
  PROVE  SumFunctionOnSet(h, S) = SumFunctionOnSet(f, S) + SumFunctionOnSet(g, S)
<1> DEFINE Bad == {T \in SUBSET S :
             SumFunctionOnSet(h, T) # SumFunctionOnSet(f, T) + SumFunctionOnSet(g, T)}
<1>1. SUFFICES ASSUME Bad # {} PROVE FALSE
  OBVIOUS
<1>2. PICK T \in Bad : \A U \in Bad : U \subseteq T => U = T
  <2>1. Bad \in SUBSET (SUBSET S)
    OBVIOUS
  <2> HIDE DEF Bad
  <2>2. QED
    BY <1>1, <2>1, LeastSubset
<1>3. IsFiniteSet(T) /\ T \in SUBSET S
  BY FS_Subset
<1>4. CASE T = {}
  BY <1>4, <1>2, SumEmpty
<1>5. CASE T # {}
  <2>1. PICK p \in T : TRUE
    BY <1>5
  <2>2. T \ {p} \in SUBSET S /\ T \ {p} \notin Bad
    BY <1>2, <1>3, <2>1
  <2> HIDE DEF Bad
  <2>3. IsFiniteSet(T \ {p})
    BY <1>3, FS_Subset
  <2>4. SumFunctionOnSet(h, T \ {p}) = SumFunctionOnSet(f, T \ {p}) + SumFunctionOnSet(g, T \ {p})
    BY <2>2 DEF Bad
  <2>5. /\ SumFunctionOnSet(h, T) = h[p] + SumFunctionOnSet(h, T \ {p})
        /\ SumFunctionOnSet(f, T) = f[p] + SumFunctionOnSet(f, T \ {p})
        /\ SumFunctionOnSet(g, T) = g[p] + SumFunctionOnSet(g, T \ {p})
    BY <1>3, SumRemove
  <2>6. PICK a \in Int, b \in Int :
          a = SumFunctionOnSet(f, T \ {p}) /\ b = SumFunctionOnSet(g, T \ {p})
    BY <2>2, <2>3, SumType
  <2>7. SumFunctionOnSet(h, T) = SumFunctionOnSet(f, T) + SumFunctionOnSet(g, T)
    BY <1>3, <2>4, <2>5, <2>6
  <2>8. QED
    BY <2>7 DEF Bad
<1>6. QED
  BY <1>4, <1>5

\* Elements of value zero may be left out.
THEOREM SumSupport ==
  ASSUME NEW S, IsFiniteSet(S), NEW E \in SUBSET S, NEW f, \A x \in S : f[x] \in Int,
         \A x \in S \ E : f[x] = 0
  PROVE  SumFunctionOnSet(f, S) = SumFunctionOnSet(f, E)
<1> DEFINE Bad == {T \in SUBSET S : E \subseteq T /\ SumFunctionOnSet(f, T) # SumFunctionOnSet(f, E)}
<1>1. SUFFICES ASSUME Bad # {} PROVE FALSE
  OBVIOUS
<1>2. PICK T \in Bad : \A U \in Bad : U \subseteq T => U = T
  <2>1. Bad \in SUBSET (SUBSET S)
    OBVIOUS
  <2> HIDE DEF Bad
  <2>2. QED
    BY <1>1, <2>1, LeastSubset
<1>3. IsFiniteSet(T) /\ T \in SUBSET S /\ E \subseteq T /\ T # E
  BY <1>2, FS_Subset
<1>4. PICK p \in T : p \notin E
  BY <1>3
<1>5. T \ {p} \in SUBSET S /\ E \subseteq T \ {p} /\ T \ {p} \notin Bad
  BY <1>2, <1>3, <1>4
<1>6. SumFunctionOnSet(f, T \ {p}) = SumFunctionOnSet(f, E)
  BY <1>5
<1>7. SumFunctionOnSet(f, T) = f[p] + SumFunctionOnSet(f, T \ {p}) /\ f[p] = 0
  BY <1>3, <1>4, SumRemove
<1>8. SumFunctionOnSet(f, E) \in Int
  <2>1. IsFiniteSet(E) /\ \A x \in E : f[x] \in Int
    BY FS_Subset
  <2>2. QED
    BY <2>1, SumType
<1>9. SumFunctionOnSet(f, T) = SumFunctionOnSet(f, E)
  BY <1>6, <1>7, <1>8
<1>10. QED
  BY <1>2, <1>9

\* A sum splits along any set.
THEOREM SumSplit ==
  ASSUME NEW S, IsFiniteSet(S), NEW E, NEW f, \A x \in S : f[x] \in Int
  PROVE  /\ SumFunctionOnSet(f, S \cap E) \in Int /\ SumFunctionOnSet(f, S \ E) \in Int
         /\ SumFunctionOnSet(f, S) = SumFunctionOnSet(f, S \cap E) + SumFunctionOnSet(f, S \ E)
<1> DEFINE in == [x \in S |-> IF x \in E THEN f[x] ELSE 0]
           out == [x \in S |-> IF x \in E THEN 0 ELSE f[x]]
<1>1. \A x \in S : in[x] \in Int /\ out[x] \in Int /\ f[x] = in[x] + out[x]
  OBVIOUS
<1>2. /\ S \cap E \in SUBSET S /\ S \ E \in SUBSET S
      /\ \A x \in S \ (S \cap E) : in[x] = 0
      /\ \A x \in S \ (S \ E) : out[x] = 0
      /\ \A x \in S \cap E : f[x] \in Int /\ in[x] = f[x]
      /\ \A x \in S \ E : f[x] \in Int /\ out[x] = f[x]
  OBVIOUS
<1>3. IsFiniteSet(S \cap E) /\ IsFiniteSet(S \ E)
  BY <1>2, FS_Subset
<1> HIDE DEF in, out
<1>4. SumFunctionOnSet(f, S) = SumFunctionOnSet(in, S) + SumFunctionOnSet(out, S)
  BY <1>1, SumPlus
<1>5. SumFunctionOnSet(in, S) = SumFunctionOnSet(in, S \cap E)
  BY <1>1, <1>2, SumSupport
<1>6. SumFunctionOnSet(out, S) = SumFunctionOnSet(out, S \ E)
  BY <1>1, <1>2, SumSupport
<1>7. SumFunctionOnSet(in, S \cap E) = SumFunctionOnSet(f, S \cap E)
  BY <1>2, <1>3, SumEqual
<1>8. SumFunctionOnSet(out, S \ E) = SumFunctionOnSet(f, S \ E)
  BY <1>2, <1>3, SumEqual
<1>9. SumFunctionOnSet(f, S \cap E) \in Int /\ SumFunctionOnSet(f, S \ E) \in Int
  BY <1>2, <1>3, SumType
<1>10. QED
  BY <1>4, <1>5, <1>6, <1>7, <1>8, <1>9

LEMMA OneMore ==
  ASSUME NEW k \in Int, NEW b \in Int, NEW x \in Int, NEW a \in Int, a <= k * b, x <= b
  PROVE  x + a <= (k + 1) * b
<1>1. (k + 1) * b = k * b + b
  OBVIOUS
<1>2. k * b \in Int
  OBVIOUS
<1>3. QED
  BY <1>1, <1>2

\* A sum is at most the number of its terms times a bound on each.
THEOREM SumAtMost ==
  ASSUME NEW S, IsFiniteSet(S), NEW f, NEW b \in Int, \A x \in S : f[x] \in Int /\ f[x] <= b
  PROVE  SumFunctionOnSet(f, S) <= Cardinality(S) * b
<1> DEFINE Bad == {T \in SUBSET S : ~(SumFunctionOnSet(f, T) <= Cardinality(T) * b)}
<1>1. SUFFICES ASSUME Bad # {} PROVE FALSE
  OBVIOUS
<1>2. PICK T \in Bad : \A U \in Bad : U \subseteq T => U = T
  <2>1. Bad \in SUBSET (SUBSET S)
    OBVIOUS
  <2> HIDE DEF Bad
  <2>2. QED
    BY <1>1, <2>1, LeastSubset
<1>3. IsFiniteSet(T) /\ T \in SUBSET S
  BY FS_Subset
<1>4. CASE T = {}
  <2>1. SumFunctionOnSet(f, T) = 0 /\ Cardinality(T) = 0
    BY <1>4, SumEmpty, FS_EmptySet
  <2>2. QED
    BY <1>2, <2>1
<1>5. CASE T # {}
  <2>1. PICK p \in T : TRUE
    BY <1>5
  <2>2. T \ {p} \in SUBSET S /\ T \ {p} \notin Bad
    BY <1>2, <1>3, <2>1
  <2>3. SumFunctionOnSet(f, T \ {p}) <= Cardinality(T \ {p}) * b
    BY <2>2
  <2>4. IsFiniteSet(T \ {p}) /\ Cardinality(T \ {p}) = Cardinality(T) - 1 /\ Cardinality(T) \in Nat
    BY <1>3, <2>1, FS_RemoveElement, FS_CardinalityType
  <2>5. SumFunctionOnSet(f, T) = f[p] + SumFunctionOnSet(f, T \ {p})
    BY <1>3, SumRemove
  <2>6. SumFunctionOnSet(f, T \ {p}) \in Int /\ f[p] \in Int /\ f[p] <= b
    BY <1>3, <2>1, <2>4, SumType
  <2>7. PICK k \in Int, a \in Int : k = Cardinality(T \ {p}) /\ a = SumFunctionOnSet(f, T \ {p})
    BY <2>4, <2>6
  <2>8. f[p] + a <= (k + 1) * b
    BY <2>3, <2>6, <2>7, OneMore
  <2>9. k + 1 = Cardinality(T)
    BY <2>4, <2>7
  <2>10. SumFunctionOnSet(f, T) <= Cardinality(T) * b
    BY <2>5, <2>7, <2>8, <2>9
  <2>11. QED
    BY <1>2, <2>10
<1>6. QED
  BY <1>4, <1>5

\* A sum of naturals is a natural.
THEOREM SumNatural ==
  ASSUME NEW S, IsFiniteSet(S), NEW f, \A x \in S : f[x] \in Nat
  PROVE  SumFunctionOnSet(f, S) \in Nat
<1> DEFINE Bad == {T \in SUBSET S : SumFunctionOnSet(f, T) \notin Nat}
<1>1. SUFFICES ASSUME Bad # {} PROVE FALSE
  OBVIOUS
<1>2. PICK T \in Bad : \A U \in Bad : U \subseteq T => U = T
  <2>1. Bad \in SUBSET (SUBSET S)
    OBVIOUS
  <2> HIDE DEF Bad
  <2>2. QED
    BY <1>1, <2>1, LeastSubset
<1>3. IsFiniteSet(T) /\ T \in SUBSET S
  BY FS_Subset
<1>4. T # {}
  <2>1. SumFunctionOnSet(f, {}) \in Nat
    BY SumEmpty
  <2>2. QED
    BY <1>2, <2>1
<1>5. PICK p \in T : TRUE
  BY <1>4
<1>6. T \ {p} \in SUBSET S /\ T \ {p} \notin Bad
  BY <1>2, <1>3, <1>5
<1>7. SumFunctionOnSet(f, T \ {p}) \in Nat
  BY <1>6
<1>8. SumFunctionOnSet(f, T) = f[p] + SumFunctionOnSet(f, T \ {p})
  BY <1>3, SumRemove
<1>9. SumFunctionOnSet(f, T) \in Nat
  BY <1>3, <1>7, <1>8
<1>10. QED
  BY <1>2, <1>9

\* Naturals sum to more over a larger set.
THEOREM SumSubset ==
  ASSUME NEW S, IsFiniteSet(S), NEW E \in SUBSET S, NEW f, \A x \in S : f[x] \in Nat
  PROVE  SumFunctionOnSet(f, E) <= SumFunctionOnSet(f, S)
<1>1. S \cap E = E /\ IsFiniteSet(S \ E) /\ \A x \in S \ E : f[x] \in Nat
  BY FS_Difference
<1>2. \A x \in S : f[x] \in Int
  OBVIOUS
<1>3. SumFunctionOnSet(f, S \ E) \in Nat
  BY <1>1, SumNatural
<1>4. /\ SumFunctionOnSet(f, E) \in Int
      /\ SumFunctionOnSet(f, S) = SumFunctionOnSet(f, E) + SumFunctionOnSet(f, S \ E)
  BY <1>1, <1>2, SumSplit
<1>5. QED
  BY <1>3, <1>4

-----------------------------------------------------------------------------
(* Loops over a list *)

\* g holds the intermediate results of a loop of n rounds, or of its first m rounds.
LoopBody(base, step, g, i) == IF i = 0 THEN base ELSE step[g[i - 1]][i]

Loop(base, step, n, g) == g = [i \in 0..n |-> LoopBody(base, step, g, i)]

LoopUpTo(base, step, n, m, g) ==
  \A i \in 0..n : i <= m => g[i] = LoopBody(base, step, g, i)

\* Every loop has its intermediate results.
LEMMA LoopSolvedUpTo ==
  ASSUME NEW T, NEW base \in T, NEW n \in Nat, NEW step \in [T -> [1..n -> T]]
  PROVE  \A m \in Nat : \E g \in [0..n -> T] : LoopUpTo(base, step, n, m, g)
<1> DEFINE Bad == {m \in Nat : ~ \E g \in [0..n -> T] : LoopUpTo(base, step, n, m, g)}
<1>1. SUFFICES ASSUME Bad # {} PROVE FALSE
  OBVIOUS
<1>2. Bad \in SUBSET Nat
  OBVIOUS
<1>3. PICK m \in Bad : \A k \in Bad : m <= k
  <2> HIDE DEF Bad
  <2> QED BY <1>1, <1>2, LeastNumber
<1>4. CASE m = 0
  <2> DEFINE g == [i \in 0..n |-> base]
  <2>1. g \in [0..n -> T]
    OBVIOUS
  <2>2. LoopUpTo(base, step, n, 0, g)
    BY DEF LoopUpTo, LoopBody
  <2>3. QED
    BY <1>3, <1>4, <2>1, <2>2
<1>5. CASE m # 0
  <2>1. m \in Nat /\ m - 1 \in Nat
    BY <1>3, <1>5
  <2>2. m - 1 \notin Bad
    <3> HIDE DEF Bad
    <3> QED BY <1>3, <2>1
  <2>3. PICK g \in [0..n -> T] : LoopUpTo(base, step, n, m - 1, g)
    BY <2>1, <2>2
  <2> DEFINE h == [i \in 0..n |-> LoopBody(base, step, g, i)]
  <2>4. ASSUME NEW i \in 0..n PROVE LoopBody(base, step, g, i) \in T
    <3>1. CASE i = 0
      BY <3>1 DEF LoopBody
    <3>2. CASE i # 0
      <4>1. i \in 1..n /\ i - 1 \in 0..n
        BY <3>2
      <4>2. QED
        BY <3>2, <4>1 DEF LoopBody
    <3>3. QED
      BY <3>1, <3>2
  <2>5. h \in [0..n -> T]
    BY <2>4
  <2>6. ASSUME NEW i \in 0..n, i <= m PROVE h[i] = LoopBody(base, step, h, i)
    <3>1. CASE i = 0
      BY <3>1 DEF LoopBody
    <3>2. CASE i # 0
      <4>1. i - 1 \in 0..n /\ i - 1 <= m - 1
        BY <2>1, <2>6, <3>2
      <4>2. g[i - 1] = LoopBody(base, step, g, i - 1)
        BY <2>3, <4>1 DEF LoopUpTo
      <4>3. h[i - 1] = g[i - 1]
        BY <4>1, <4>2
      <4>4. QED
        BY <3>2, <4>3 DEF LoopBody
    <3>3. QED
      BY <3>1, <3>2
  <2>7. LoopUpTo(base, step, n, m, h)
    BY <2>6 DEF LoopUpTo
  <2>8. QED
    BY <1>3, <2>5, <2>7
<1>6. QED
  BY <1>4, <1>5

LEMMA LoopSolved ==
  ASSUME NEW T, NEW base \in T, NEW n \in Nat, NEW step \in [T -> [1..n -> T]]
  PROVE  \E g \in [0..n -> T] : Loop(base, step, n, g)
<1>1. PICK g \in [0..n -> T] : LoopUpTo(base, step, n, n, g)
  BY LoopSolvedUpTo
<1>2. \A i \in 0..n : g[i] = LoopBody(base, step, g, i)
  BY <1>1 DEF LoopUpTo
<1>3. g = [i \in 0..n |-> LoopBody(base, step, g, i)]
  BY <1>2
<1>4. QED
  BY <1>3 DEF Loop

-----------------------------------------------------------------------------
(* Ordered lists, and lists without repetitions *)

Increasing(s) == \A i, j \in 1..Len(s) : i < j => s[i] < s[j]

\* Two increasing lists of the same numbers are the same.
LEMMA SameOrder ==
  ASSUME NEW P \in SUBSET Int, NEW s \in Seq(P), NEW t \in Seq(P),
         Increasing(s), Increasing(t), Range(s) = Range(t)
  PROVE  s = t
<1>0. Len(s) \in Nat /\ Len(t) \in Nat
  OBVIOUS
<1>a. (\A i \in 1..Len(s) : s[i] \in Int) /\ \A i \in 1..Len(t) : t[i] \in Int
  <2>1. (\A i \in 1..Len(s) : s[i] \in P) /\ \A i \in 1..Len(t) : t[i] \in P
    OBVIOUS
  <2>2. QED
    BY <2>1
<1>1. /\ \A i \in 1..Len(s) : \E j \in 1..Len(t) : s[i] = t[j]
      /\ \A j \in 1..Len(t) : \E i \in 1..Len(s) : s[i] = t[j]
  <2>1. Range(s) = {s[i] : i \in 1..Len(s)} /\ Range(t) = {t[i] : i \in 1..Len(t)}
    BY DEF Range
  <2>2. QED
    BY <2>1
<1> DEFINE Bad == {i \in 1..Len(s) : i > Len(t) \/ s[i] # t[i]}
<1>2. Bad = {}
  <2>1. SUFFICES ASSUME Bad # {} PROVE FALSE
    OBVIOUS
  <2>2. Bad \in SUBSET Nat
    OBVIOUS
  <2>3. PICK i \in Bad : \A j \in Bad : i <= j
    <3> HIDE DEF Bad
    <3> QED BY <2>1, <2>2, LeastNumber
  <2>4. i \in 1..Len(s) /\ (i > Len(t) \/ s[i] # t[i])
    BY <2>3
  <2>5. \A j \in 1..(i - 1) : j \in 1..Len(s) /\ j <= Len(t) /\ s[j] = t[j]
    <3>1. ASSUME NEW j \in 1..(i - 1) PROVE j \in 1..Len(s) /\ j <= Len(t) /\ s[j] = t[j]
      <4>1. j \in 1..Len(s) /\ j < i
        BY <1>0, <2>4
      <4>2. j \notin Bad
        <5> HIDE DEF Bad
        <5> QED BY <2>2, <2>3, <4>1
      <4>3. QED
        BY <1>0, <4>1, <4>2
    <3>2. QED
      BY <3>1
  <2>6. PICK j \in 1..Len(t) : s[i] = t[j]
    BY <1>1, <2>4
  <2>7. j >= i
    <3>1. ASSUME j < i PROVE FALSE
      <4>1. j \in 1..(i - 1)
        BY <1>0, <2>4, <3>1
      <4>2. s[j] = s[i] /\ j \in 1..Len(s)
        BY <2>5, <2>6, <4>1
      <4>3. s[j] < s[i]
        BY <2>4, <3>1, <4>2 DEF Increasing
      <4>4. QED
        BY <1>a, <2>4, <4>2, <4>3
    <3>2. QED
      BY <1>0, <2>4, <3>1
  <2>8. i \in 1..Len(t) /\ s[i] # t[i] /\ i < j
    BY <1>0, <2>4, <2>6, <2>7
  <2>9. PICK k \in 1..Len(s) : s[k] = t[i]
    BY <1>1, <2>8
  <2>10. t[i] < t[j]
    BY <2>6, <2>8 DEF Increasing
  <2>11. k < i
    <3>1. ASSUME k > i PROVE FALSE
      <4>0. i < k
        BY <2>4, <3>1
      <4>1. s[i] < s[k]
        BY <2>4, <4>0 DEF Increasing
      <4>2. QED
        BY <1>a, <2>4, <2>6, <2>9, <2>10, <4>1
    <3>2. k # i
      BY <2>8, <2>9
    <3>3. QED
      BY <2>4, <2>9, <3>1, <3>2
  <2>12. t[k] = t[i] /\ k \in 1..Len(t)
    BY <2>5, <2>9, <2>11, <1>0, <2>4
  <2>13. t[k] < t[i]
    BY <2>8, <2>11, <2>12 DEF Increasing
  <2>14. QED
    BY <1>a, <2>8, <2>12, <2>13
<1>3. \A i \in 1..Len(s) : i <= Len(t) /\ s[i] = t[i]
  BY <1>0, <1>2
<1>4. Len(t) <= Len(s)
  <2>1. ASSUME Len(t) > Len(s) PROVE FALSE
    <3> DEFINE j == Len(s) + 1
    <3>1. j \in 1..Len(t)
      BY <1>0, <2>1
    <3>2. PICK i \in 1..Len(s) : s[i] = t[j]
      BY <1>1, <3>1
    <3>3. t[i] = t[j] /\ i \in 1..Len(t) /\ i < j
      BY <1>0, <1>3, <2>1, <3>2
    <3>4. t[i] < t[j]
      BY <3>1, <3>3 DEF Increasing
    <3>5. QED
      BY <1>a, <3>3, <3>4
  <2>2. QED
    BY <1>0, <2>1
<1>5. Len(s) <= Len(t)
  BY <1>0, <1>3
<1>6. QED
  BY <1>0, <1>3, <1>4, <1>5

\* A list without repetitions has as many elements as places.
LEMMA DistinctCount ==
  ASSUME NEW T, NEW n \in Nat, NEW s \in [1..n -> T], \A i, j \in 1..n : s[i] = s[j] => i = j
  PROVE  Cardinality({s[i] : i \in 1..n}) = n
<1> DEFINE R == {s[i] : i \in 1..n}
<1>1. s \in [1..n -> R]
  OBVIOUS
<1>2. s \in Bijection(1..n, R)
  BY <1>1 DEF Bijection, Injection, Surjection, IsInjective
<1>3. ExistsBijection(1..n, R)
  BY <1>2 DEF ExistsBijection
<1>4. IsFiniteSet(1..n) /\ Cardinality(1..n) = n
  BY FS_Interval
<1>5. QED
  <2> HIDE DEF R
  <2>1. Cardinality(R) = n
    BY <1>3, <1>4, FS_Bijection
  <2>2. QED
    BY <2>1 DEF R

LEMMA PrefixFacts ==
  ASSUME NEW S, NEW s \in Seq(S), NEW k \in Nat, k <= Len(s)
  PROVE  /\ SubSeq(s, 1, k) \in Seq(S) /\ Len(SubSeq(s, 1, k)) = k
         /\ \A i \in 1..k : SubSeq(s, 1, k)[i] = s[i]
OBVIOUS

-----------------------------------------------------------------------------
(* Smallest elements and arithmetic *)

LEMMA MinFacts ==
  ASSUME NEW S \in SUBSET Nat, S # {}
  PROVE  Min(S) \in S /\ \A x \in S : Min(S) <= x
<1>1. \E n \in S : \A m \in S : n =< m
  BY LeastNumber
<1>2. QED
  BY <1>1 DEF Min

\* A list that is not empty has a first element of greatest value.
LEMMA FirstRichest ==
  ASSUME NEW n \in Nat \ {0}, NEW f \in [1..n -> Int]
  PROVE  Min({i \in 1..n : \A j \in 1..n : f[j] <= f[i]}) \in
           {i \in 1..n : \A j \in 1..n : f[j] <= f[i]}
<1> DEFINE Richest(m) == {i \in 1..m : \A j \in 1..m : f[j] <= f[i]}
           Bad == {m \in 1..n : Richest(m) = {}}
<1>1. Bad = {}
  <2>1. SUFFICES ASSUME Bad # {} PROVE FALSE
    OBVIOUS
  <2>2. Bad \in SUBSET Nat
    OBVIOUS
  <2>3. PICK m \in Bad : \A k \in Bad : m <= k
    <3> HIDE DEF Bad
    <3> QED BY <2>1, <2>2, LeastNumber
  <2>4. m \in 1..n /\ Richest(m) = {}
    BY <2>3
  <2>5. CASE m = 1
    <3>1. 1 \in Richest(1)
      OBVIOUS
    <3>2. QED
      BY <2>4, <2>5, <3>1
  <2>6. CASE m # 1
    <3>1. m - 1 \in 1..n /\ m - 1 < m
      BY <2>4, <2>6
    <3>2. m - 1 \notin Bad
      <4> HIDE DEF Bad
      <4> QED BY <2>2, <2>3, <3>1
    <3>3. PICK i \in 1..(m - 1) : \A j \in 1..(m - 1) : f[j] <= f[i]
      BY <3>1, <3>2
    <3>4. f[i] \in Int /\ f[m] \in Int /\ i \in 1..m /\ m \in 1..m /\ \A j \in 1..m : f[j] \in Int
      BY <2>4, <3>1
    <3>5. CASE f[m] <= f[i]
      <4>1. \A j \in 1..m : f[j] <= f[i]
        BY <2>4, <3>3, <3>5
      <4>2. QED
        BY <2>4, <3>4, <4>1
    <3>6. CASE f[i] < f[m]
      <4>1. \A j \in 1..m : f[j] <= f[m]
        BY <2>4, <3>3, <3>4, <3>6
      <4>2. QED
        BY <2>4, <3>4, <4>1
    <3>7. QED
      BY <3>4, <3>5, <3>6
  <2>7. QED
    BY <2>5, <2>6
<1>2. n \in 1..n
  OBVIOUS
<1>3. Richest(n) # {} /\ Richest(n) \in SUBSET Nat
  BY <1>1, <1>2
<1>4. Min(Richest(n)) \in Richest(n)
  <2> HIDE DEF Richest
  <2> QED BY <1>3, MinFacts
<1>5. QED
  BY <1>4

LEMMA ModIsUnique ==
  ASSUME NEW n \in Nat \ {0}, NEW q \in Nat, NEW x \in 0..(n - 1)
  PROVE  (n * q + x) % n = x
OBVIOUS

LEMMA Wraps ==
  ASSUME NEW n \in Nat \ {0}, NEW c \in Nat, NEW k \in 0..(n - 1)
  PROVE  /\ c % n \in 0..(n - 1) /\ (c < n => c % n = c)
         /\ (c + k) % n = IF (c % n) + k < n THEN (c % n) + k ELSE (c % n) + k - n
<1> DEFINE r == c % n
           q == c \div n
<1>1. r \in 0..(n - 1) /\ q \in Nat /\ c = n * q + r
  OBVIOUS
<1>2. c < n => r = c
  OBVIOUS
<1> HIDE DEF r, q
<1>3. CASE r + k < n
  <2>1. c + k = n * q + (r + k) /\ r + k \in 0..(n - 1)
    BY <1>1, <1>3
  <2>2. (c + k) % n = r + k
    BY <1>1, <2>1
  <2>3. QED
    BY <1>1, <1>2, <1>3, <2>2 DEF r
<1>4. CASE r + k >= n
  <2>1. c + k = n * (q + 1) + (r + k - n) /\ r + k - n \in 0..(n - 1)
    BY <1>1, <1>4
  <2>2. q + 1 \in Nat
    BY <1>1
  <2>3. (c + k) % n = r + k - n
    BY <2>1, <2>2, ModIsUnique
  <2>4. QED
    BY <1>1, <1>2, <1>4, <2>3 DEF r
<1>5. QED
  BY <1>1, <1>3, <1>4

LEMMA TimesMonotone ==
  ASSUME NEW m \in Nat, NEW a \in Int, NEW b \in Int, a <= b
  PROVE  m * a \in Int /\ m * b \in Int /\ m * a <= m * b
<1>1. m * (b - a) \in Nat
  <2>1. b - a \in Nat
    OBVIOUS
  <2>2. QED
    BY <2>1
<1>2. m * (b - a) = m * b - m * a
  OBVIOUS
<1>3. m * a \in Int /\ m * b \in Int
  OBVIOUS
<1>4. QED
  BY <1>1, <1>2, <1>3

LEMMA TimesCancels ==
  ASSUME NEW m \in Nat \ {0}, NEW a \in Int, NEW b \in Int, m * a <= m * b
  PROVE  a <= b
<1>1. SUFFICES ASSUME b + 1 <= a PROVE FALSE
  OBVIOUS
<1>2. m * (b + 1) <= m * a /\ m * b \in Int /\ m * a \in Int
  BY <1>1, TimesMonotone
<1>3. m * (b + 1) = m * b + m
  OBVIOUS
<1>4. QED
  BY <1>2, <1>3

\* The bound k * (n - k) for k paths, for one more, and for j fewer.
LEMMA Quadratic ==
  ASSUME NEW n \in Int, NEW k \in Int, NEW j \in Int
  PROVE  /\ k * (n - k) \in Int /\ (k + 1) * (n - (k + 1)) \in Int
         /\ (k - j) * (n - (k - j)) \in Int
         /\ j * ((k + 1) * (n - (k + 1))) + (k - j) * (n - (k - j))
              = (j + 1) * (k * (n - k)) - (j + j * j)
<1>1. k * (n - k) \in Int /\ (k + 1) * (n - (k + 1)) \in Int /\ (k - j) * (n - (k - j)) \in Int
  OBVIOUS
<1>2. (k + 1) * (n - (k + 1)) = k * (n - k) + (n - 2 * k - 1)
  OBVIOUS
<1>3. (k - j) * (n - (k - j)) = k * (n - k) - (j * (n - 2 * k) + j * j)
  OBVIOUS
<1>4. j * ((k + 1) * (n - (k + 1))) = j * (k * (n - k)) + j * (n - 2 * k) - j
  OBVIOUS
<1>5. (j + 1) * (k * (n - k)) = j * (k * (n - k)) + k * (n - k)
  OBVIOUS
<1>6. j * (k * (n - k)) \in Int /\ j * (n - 2 * k) \in Int /\ j * j \in Int
  OBVIOUS
<1>7. QED
  BY <1>1, <1>3, <1>4, <1>5, <1>6

\* A goodput over the smallest one.
LEMMA Quotient ==
  ASSUME NEW g \in Nat, NEW h \in Nat \ {0}, NEW m \in Nat \ {0}, h <= g, g <= m * h
  PROVE  g \div h \in 1..m
<1>1. PICK q \in Int : q = g \div h
  OBVIOUS
<1>2. h * q <= g /\ g < h * q + h
  BY <1>1
<1>3. q >= 1
  <2>1. SUFFICES ASSUME q <= 0 PROVE FALSE
    OBVIOUS
  <2>2. h * q <= h * 0
    BY <2>1, TimesMonotone
  <2>3. QED
    BY <1>2, <2>2
<1>4. q <= m
  <2>1. h * q <= h * m
    BY <1>2
  <2>2. QED
    BY <2>1, TimesCancels
<1>5. QED
  BY <1>1, <1>3, <1>4

-----------------------------------------------------------------------------
(* Credits: in a turn the members of E earn their weights, and the richest pays *)

\* The members of E earn their weights, and best pays the total.
Paid(P, cr, w, E, best, total, new) ==
  \A p \in P : new[p] = IF p = best THEN (cr[p] + w[p]) - total
                        ELSE IF p \in E THEN cr[p] + w[p] ELSE cr[p]

\* One turn: best is the richest of E.
Turn(P, cr, w, E, best, new) ==
  /\ cr \in [P -> Int] /\ w \in [P -> Nat] /\ new \in [P -> Int]
  /\ E \in SUBSET P /\ best \in E
  /\ \A p \in E : cr[p] + w[p] <= cr[best] + w[best]
  /\ Paid(P, cr, w, E, best, SumFunctionOnSet(w, E), new)

\* Moving weights around leaves the sum of the credits as it is.
LEMMA CreditsMove ==
  ASSUME NEW P, IsFiniteSet(P), NEW cr, NEW w, NEW E, NEW best, NEW new,
         Turn(P, cr, w, E, best, new)
  PROVE  SumFunctionOnSet(new, P) = SumFunctionOnSet(cr, P)
<1>0. /\ cr \in [P -> Int] /\ w \in [P -> Nat] /\ new \in [P -> Int]
      /\ E \in SUBSET P /\ best \in E
  BY DEF Turn
<1> USE <1>0
<1>a. PICK total \in Int : total = SumFunctionOnSet(w, E) /\ Paid(P, cr, w, E, best, total, new)
  <2>1. IsFiniteSet(E) /\ \A p \in E : w[p] \in Int
    BY FS_Subset
  <2>2. SumFunctionOnSet(w, E) \in Int
    BY <2>1, SumType
  <2>3. QED
    BY <2>2 DEF Turn
<1> DEFINE gains == [p \in P |-> IF p \in E THEN w[p] ELSE 0]
           debit == [p \in P |-> IF p = best THEN -total ELSE 0]
           mid == [p \in P |-> cr[p] + gains[p]]
<1>1. IsFiniteSet(P) /\ IsFiniteSet(E)
  BY FS_Subset
<1>2. /\ \A p \in P : cr[p] \in Int /\ gains[p] \in Int /\ mid[p] = cr[p] + gains[p]
      /\ \A p \in P : mid[p] \in Int /\ debit[p] \in Int /\ new[p] = mid[p] + debit[p]
  BY <1>a DEF Paid
<1>3. /\ \A p \in P \ E : gains[p] = 0
      /\ \A p \in E : w[p] \in Int /\ gains[p] = w[p]
      /\ \A p \in P \ {best} : debit[p] = 0
      /\ best \in P /\ debit[best] = -total
  OBVIOUS
<1> HIDE DEF gains, debit, mid
<1>4. SumFunctionOnSet(new, P) = SumFunctionOnSet(mid, P) + SumFunctionOnSet(debit, P)
  BY <1>1, <1>2, SumPlus
<1>5. SumFunctionOnSet(mid, P) = SumFunctionOnSet(cr, P) + SumFunctionOnSet(gains, P)
  BY <1>1, <1>2, SumPlus
<1>6. SumFunctionOnSet(gains, P) = total
  <2>1. SumFunctionOnSet(gains, P) = SumFunctionOnSet(gains, E)
    BY <1>1, <1>2, <1>3, SumSupport
  <2>2. SumFunctionOnSet(gains, E) = SumFunctionOnSet(w, E)
    BY <1>1, <1>3, SumEqual
  <2>3. QED
    BY <1>a, <2>1, <2>2
<1>7. SumFunctionOnSet(debit, P) = -total
  <2>1. {best} \in SUBSET P /\ IsFiniteSet({best}) /\ best \in {best} /\ {best} \ {best} = {}
    BY <1>3, FS_Singleton
  <2>2. SumFunctionOnSet(debit, P) = SumFunctionOnSet(debit, {best})
    BY <1>1, <1>2, <1>3, <2>1, SumSupport
  <2>3. SumFunctionOnSet(debit, {best}) = debit[best] + SumFunctionOnSet(debit, {best} \ {best})
    <3>1. \A x \in {best} : debit[x] \in Int
      BY <1>2, <1>3
    <3>2. QED
      BY <2>1, <3>1, SumRemove
  <2>4. SumFunctionOnSet(debit, {best} \ {best}) = 0
    BY <2>1, SumEmpty
  <2>5. SumFunctionOnSet(debit, {best}) = -total + 0
    BY <1>3, <2>3, <2>4
  <2>6. QED
    BY <2>2, <2>5
<1>8. SumFunctionOnSet(cr, P) \in Int
  BY <1>1, <1>2, SumType
<1>9. QED
  BY <1>4, <1>5, <1>6, <1>7, <1>8

\* Any k of the n members of P together are owed at most k * (n - k) half pays.
Drift(P, n, pay, cr) ==
  \A S \in SUBSET P :
    2 * SumFunctionOnSet(cr, S) <= pay * (Cardinality(S) * (n - Cardinality(S)))

\* How k members, j of which earn, get their bound from those of larger and smaller
\* sets.
LEMMA DriftArithmetic ==
  ASSUME NEW T \in Nat, NEW n \in Int, NEW k \in Int, NEW j \in Nat \ {0},
         NEW A \in Int, NEW B \in Int, NEW b \in Int, NEW t \in Int, t <= T,
         A <= j * b,
         2 * (((A + B) + b) - t) <= T * ((k + 1) * (n - (k + 1))),
         2 * B <= T * ((k - j) * (n - (k - j)))
  PROVE  2 * (A + B) <= T * (k * (n - k))
<1>1. PICK c \in Int, c1 \in Int, c2 \in Int :
        /\ c = k * (n - k) /\ c1 = (k + 1) * (n - (k + 1)) /\ c2 = (k - j) * (n - (k - j))
        /\ j * c1 + c2 = (j + 1) * c - (j + j * j)
  <2>1. j \in Int
    OBVIOUS
  <2>2. PICK c \in Int, c1 \in Int, c2 \in Int :
          c = k * (n - k) /\ c1 = (k + 1) * (n - (k + 1)) /\ c2 = (k - j) * (n - (k - j))
    BY <2>1, Quadratic
  <2>3. j * ((k + 1) * (n - (k + 1))) + (k - j) * (n - (k - j))
          = (j + 1) * (k * (n - k)) - (j + j * j)
    BY <2>1, Quadratic
  <2>4. j * c1 + c2 = (j + 1) * c - (j + j * j)
    BY <2>2, <2>3
  <2>5. QED
    BY <2>2, <2>4
<1>2. PICK x \in Int : x = 2 * (A + B)
  OBVIOUS
<1>3. PICK s \in Int, s1 \in Int, s2 \in Int : s = T * c /\ s1 = T * c1 /\ s2 = T * c2
  OBVIOUS
<1>4. x + 2 * b <= s1 + 2 * T /\ 2 * B <= s2
  BY <1>1, <1>2, <1>3
<1>5. PICK q \in Int : q = j * b /\ A <= q
  OBVIOUS
<1>6. j * (x + 2 * b) <= j * (s1 + 2 * T)
  BY <1>4, TimesMonotone
<1>7. PICK y \in Int, z \in Int, u \in Int : y = j * x /\ z = j * s1 /\ u = j * T
  OBVIOUS
<1>8. j * (x + 2 * b) = y + 2 * q
  BY <1>5, <1>7
<1>9. j * (s1 + 2 * T) = z + 2 * u
  BY <1>7
<1>10. y + x <= z + 2 * u + s2
  BY <1>2, <1>4, <1>5, <1>6, <1>8, <1>9
<1>11. z + s2 = (j + 1) * s - (u + j * u)
  <2>1. T * (j * c1 + c2) = T * ((j + 1) * c - (j + j * j))
    BY <1>1
  <2>2. T * (j * c1 + c2) = z + s2
    BY <1>3, <1>7
  <2>3. T * ((j + 1) * c - (j + j * j)) = (j + 1) * s - (u + j * u)
    BY <1>3, <1>7
  <2>4. QED
    BY <2>1, <2>2, <2>3
<1>12. u <= j * u
  <2>1. u \in Nat
    BY <1>7
  <2>2. u * 1 <= u * j
    BY <2>1, TimesMonotone
  <2>3. QED
    BY <2>2
<1>13. (j + 1) * x <= (j + 1) * s
  <2>1. (j + 1) * x = y + x /\ (j + 1) * s \in Int /\ j * u \in Int
    BY <1>7
  <2>2. QED
    BY <1>10, <1>11, <1>12, <2>1
<1>14. x <= s
  BY <1>13, TimesCancels
<1>15. QED
  BY <1>1, <1>2, <1>3, <1>14

\* A set that includes the one that pays does not get richer.
LEMMA PayerGetsNoRicher ==
  ASSUME NEW P, IsFiniteSet(P), NEW cr, NEW w, NEW E, NEW best, NEW new,
         Turn(P, cr, w, E, best, new), NEW S \in SUBSET P, best \in S
  PROVE  SumFunctionOnSet(new, S) <= SumFunctionOnSet(cr, S)
<1>0. /\ cr \in [P -> Int] /\ w \in [P -> Nat] /\ new \in [P -> Int]
      /\ E \in SUBSET P /\ best \in E
      /\ Paid(P, cr, w, E, best, SumFunctionOnSet(w, E), new)
  BY DEF Turn
<1> USE <1>0
<1> DEFINE gains == [p \in P |-> IF p \in E THEN w[p] ELSE 0]
           change == [p \in P |-> new[p] - cr[p]]
           R == S \ {best}
<1>1. IsFiniteSet(P) /\ IsFiniteSet(E) /\ IsFiniteSet(S) /\ IsFiniteSet(R)
  <2>1. R \in SUBSET P
    OBVIOUS
  <2>2. QED
    BY <2>1, FS_Subset
<1>2. PICK total \in Int : total = SumFunctionOnSet(w, E)
  <2>1. \A p \in E : w[p] \in Int
    OBVIOUS
  <2>2. QED
    BY <1>1, <2>1, SumType
<1>3. /\ \A p \in P : gains[p] \in Nat
      /\ \A p \in E : gains[p] = w[p] /\ w[p] \in Int
      /\ \A p \in P \ E : gains[p] = 0
  OBVIOUS
<1>4. /\ \A p \in S : cr[p] \in Int /\ change[p] \in Int /\ new[p] = cr[p] + change[p]
      /\ \A p \in R : gains[p] \in Int /\ change[p] = gains[p]
      /\ change[best] = gains[best] - total
  BY <1>2 DEF Paid
<1>5. /\ E \in SUBSET P /\ S \in SUBSET P /\ best \in S /\ best \in P
      /\ \A p \in P : gains[p] \in Int
      /\ \A p \in S : gains[p] \in Int
  BY <1>3
<1> HIDE DEF gains, change, R
<1>6. SumFunctionOnSet(new, S) = SumFunctionOnSet(cr, S) + SumFunctionOnSet(change, S)
  BY <1>1, <1>4, SumPlus
<1>7. SumFunctionOnSet(change, S) = change[best] + SumFunctionOnSet(change, R)
  BY <1>1, <1>4, <1>5, SumRemove DEF R
<1>8. SumFunctionOnSet(change, R) = SumFunctionOnSet(gains, R)
  BY <1>1, <1>4, SumEqual
<1>9. SumFunctionOnSet(gains, S) = gains[best] + SumFunctionOnSet(gains, R)
  BY <1>1, <1>5, SumRemove DEF R
<1>10. SumFunctionOnSet(gains, S) <= SumFunctionOnSet(gains, P)
  BY <1>1, <1>3, <1>5, SumSubset
<1>11. SumFunctionOnSet(gains, P) = total
  <2>1. SumFunctionOnSet(gains, P) = SumFunctionOnSet(gains, E)
    BY <1>1, <1>3, <1>5, SumSupport
  <2>2. SumFunctionOnSet(gains, E) = SumFunctionOnSet(w, E)
    BY <1>1, <1>3, SumEqual
  <2>3. QED
    BY <1>2, <2>1, <2>2
<1>12. PICK a \in Int, b \in Int, g \in Int :
         /\ a = SumFunctionOnSet(cr, S) /\ b = SumFunctionOnSet(gains, R) /\ g = gains[best]
  BY <1>1, <1>4, <1>5, SumType
<1>13. g + b <= total
  BY <1>9, <1>10, <1>11, <1>12
<1>14. SumFunctionOnSet(new, S) = a + ((g - total) + b)
  BY <1>4, <1>6, <1>7, <1>8, <1>12
<1>15. QED
  BY <1>12, <1>13, <1>14

\* A turn pays out at most the greatest weight for each member.
LEMMA TotalIsAtMost ==
  ASSUME NEW P, IsFiniteSet(P), NEW n, Cardinality(P) = n, NEW m \in Nat,
         NEW E \in SUBSET P, NEW w \in [P -> Int], \A p \in E : w[p] \in 1..m
  PROVE  SumFunctionOnSet(w, E) \in Int /\ SumFunctionOnSet(w, E) <= m * n
<1>1. /\ IsFiniteSet(E) /\ Cardinality(E) \in Nat /\ Cardinality(E) <= n
      /\ m \in Nat /\ n \in Nat
  <2>1. IsFiniteSet(E) /\ Cardinality(E) <= n
    BY FS_Subset
  <2>2. QED
    BY <2>1, FS_CardinalityType
<1>2. m \in Int /\ \A p \in E : w[p] \in Int /\ w[p] <= m
  BY <1>1
<1>3. SumFunctionOnSet(w, E) <= Cardinality(E) * m
  BY <1>1, <1>2, SumAtMost
<1>4. SumFunctionOnSet(w, E) \in Int
  BY <1>1, <1>2, SumType
<1>5. PICK k \in Nat : k = Cardinality(E) /\ k <= n
  BY <1>1
<1>6. m * k <= m * n /\ m * k \in Int /\ m * n \in Int
  BY <1>1, <1>5, TimesMonotone
<1>7. k * m = m * k
  BY <1>1
<1>8. QED
  BY <1>3, <1>4, <1>5, <1>6, <1>7

\* A turn keeps every set of members within its bound.
LEMMA DriftMoves ==
  ASSUME NEW P, IsFiniteSet(P), NEW n, Cardinality(P) = n, NEW pay \in Nat,
         NEW cr, NEW w, NEW E, NEW best, NEW new, Turn(P, cr, w, E, best, new),
         SumFunctionOnSet(w, E) <= pay, Drift(P, n, pay, cr)
  PROVE  Drift(P, n, pay, new)
<1>0. /\ cr \in [P -> Int] /\ w \in [P -> Nat] /\ new \in [P -> Int]
      /\ E \in SUBSET P /\ best \in E
  BY DEF Turn
<1> USE <1>0
<1>1. SUFFICES ASSUME NEW S \in SUBSET P
               PROVE  2 * SumFunctionOnSet(new, S) <=
                        pay * (Cardinality(S) * (n - Cardinality(S)))
  BY DEF Drift
<1>2. Paid(P, cr, w, E, best, SumFunctionOnSet(w, E), new) /\ \A p \in E : w[p] \in Nat
  BY DEF Turn
<1>3. /\ \A T \in SUBSET P : IsFiniteSet(T) /\ Cardinality(T) \in Nat
      /\ \A T \in SUBSET P : \A p \in T : cr[p] \in Int /\ new[p] \in Int
  <2>1. \A T \in SUBSET P : IsFiniteSet(T)
    BY FS_Subset
  <2>2. QED
    BY <2>1, FS_CardinalityType
<1>4. ASSUME NEW T \in SUBSET P
      PROVE  /\ SumFunctionOnSet(cr, T) \in Int /\ SumFunctionOnSet(new, T) \in Int
             /\ best \in T => SumFunctionOnSet(new, T) <= SumFunctionOnSet(cr, T)
             /\ 2 * SumFunctionOnSet(cr, T) <= pay * (Cardinality(T) * (n - Cardinality(T)))
  <2>1. SumFunctionOnSet(cr, T) \in Int /\ SumFunctionOnSet(new, T) \in Int
    BY <1>3, SumType
  <2>2. best \in T => SumFunctionOnSet(new, T) <= SumFunctionOnSet(cr, T)
    BY PayerGetsNoRicher
  <2>3. 2 * SumFunctionOnSet(cr, T) <= pay * (Cardinality(T) * (n - Cardinality(T)))
    BY DEF Drift
  <2>4. QED
    BY <2>1, <2>2, <2>3
<1>5. pay \in Nat /\ n \in Int /\ Cardinality(S) \in Int
  BY <1>3, FS_CardinalityType
<1>6. pay * (Cardinality(S) * (n - Cardinality(S))) \in Int
  BY <1>5
<1>7. CASE best \in S
  <2>1. PICK x \in Int, y \in Int, z \in Int :
          /\ x = SumFunctionOnSet(new, S) /\ y = SumFunctionOnSet(cr, S)
          /\ z = pay * (Cardinality(S) * (n - Cardinality(S)))
    BY <1>4, <1>6
  <2>2. x <= y /\ 2 * y <= z
    BY <1>4, <1>7, <2>1
  <2>3. 2 * x <= z
    BY <2>2
  <2>4. QED
    BY <2>1, <2>3
<1>8. CASE best \notin S
  <2> DEFINE R == S \cup {best}
             j == Cardinality(S \cap E)
             k == Cardinality(S)
             A == SumFunctionOnSet(new, S \cap E)
             B == SumFunctionOnSet(new, S \ E)
             total == SumFunctionOnSet(w, E)
  <2>1. R \in SUBSET P /\ S \cap E \in SUBSET P /\ S \ E \in SUBSET P /\ best \in R
    OBVIOUS
  <2>2. Cardinality(R) = k + 1 /\ Cardinality(S \ E) = k - j /\ k \in Int /\ j \in Nat
    <3>1. IsFiniteSet(S) /\ k \in Nat /\ j \in Nat
      BY <1>3, <2>1
    <3>2. Cardinality(R) = k + 1
      BY <1>8, <3>1, FS_AddElement
    <3>3. Cardinality(S \ E) = k - j
      BY <3>1, FS_Difference
    <3>4. QED
      BY <3>1, <3>2, <3>3
  <2>3. total \in Int /\ total <= pay
    <3>1. IsFiniteSet(E) /\ \A p \in E : w[p] \in Int
      BY <1>3
    <3>2. QED
      BY <3>1, SumType
  <2>4. PICK b \in Int : b = cr[best] + w[best] /\ new[best] = b - total
    BY <1>2, <2>3 DEF Paid
  <2>5. A \in Int /\ B \in Int /\ SumFunctionOnSet(new, S) = A + B
    BY <1>3, SumSplit
  <2>6. A <= j * b
    <3>1. \A p \in S \cap E : new[p] \in Int /\ new[p] <= b
      <4>1. ASSUME NEW p \in S \cap E PROVE new[p] <= b
        <5>1. new[p] = cr[p] + w[p]
          BY <1>2, <1>8 DEF Paid
        <5>2. cr[p] + w[p] <= cr[best] + w[best]
          BY DEF Turn
        <5>3. QED
          BY <2>4, <5>1, <5>2
      <4>2. QED
        BY <4>1
    <3>2. QED
      BY <1>3, <2>1, <3>1, SumAtMost
  <2>7. B = SumFunctionOnSet(cr, S \ E)
    <3>1. \A p \in S \ E : cr[p] \in Int /\ new[p] = cr[p]
      BY <1>2 DEF Paid
    <3>2. QED
      BY <1>3, <2>1, <3>1, SumEqual
  <2>8. 2 * B <= pay * ((k - j) * (n - (k - j)))
    <3> HIDE DEF B, k, j
    <3> QED BY <1>4, <2>1, <2>2, <2>7
  <2>9. 2 * (((A + B) + b) - total) <= pay * ((k + 1) * (n - (k + 1)))
    <3>1. SumFunctionOnSet(new, R) = new[best] + SumFunctionOnSet(new, S)
      <4>1. \A y \in S \cup {best} : new[y] \in Int
        OBVIOUS
      <4>2. QED
        BY <1>3, <1>8, <4>1, SumAdd
    <3> HIDE DEF R, A, B, k, total
    <3>2. /\ SumFunctionOnSet(new, R) \in Int /\ SumFunctionOnSet(cr, R) \in Int
          /\ SumFunctionOnSet(new, R) <= SumFunctionOnSet(cr, R)
          /\ 2 * SumFunctionOnSet(cr, R) <= pay * (Cardinality(R) * (n - Cardinality(R)))
      BY <1>4, <2>1
    <3>3. pay * (Cardinality(R) * (n - Cardinality(R))) = pay * ((k + 1) * (n - (k + 1)))
      BY <2>2
    <3>4. PICK x \in Int, y \in Int, z \in Int :
            /\ x = SumFunctionOnSet(new, R) /\ y = SumFunctionOnSet(cr, R)
            /\ z = pay * ((k + 1) * (n - (k + 1)))
      BY <1>5, <2>2, <3>2
    <3>5. x = ((A + B) + b) - total
      BY <2>3, <2>4, <2>5, <3>1, <3>4
    <3>6. x <= y /\ 2 * y <= z
      BY <3>2, <3>3, <3>4
    <3>7. 2 * x <= z
      BY <3>6
    <3>8. QED
      BY <3>4, <3>5, <3>7
  <2> HIDE DEF R, j, A, B, total
  <2>10. CASE j = 0
    <3>1. S \ E = S
      <4>1. S \cap E = {}
        BY <1>3, <2>1, <2>10, FS_EmptySet DEF j
      <4>2. QED
        BY <4>1
    <3>2. SumFunctionOnSet(new, S) = SumFunctionOnSet(cr, S)
      BY <2>7, <3>1 DEF B
    <3>3. QED
      BY <1>4, <3>2
  <2>11. CASE j # 0
    <3>1. j \in Nat \ {0}
      BY <2>2, <2>11
    <3>2. 2 * (A + B) <= pay * (k * (n - k))
      <4> HIDE DEF k
      <4> QED BY <1>5, <2>2, <2>3, <2>4, <2>5, <2>6, <2>8, <2>9, <3>1, DriftArithmetic
    <3>3. QED
      BY <2>5, <3>2
  <2>12. QED
    BY <2>10, <2>11
<1>9. QED
  BY <1>7, <1>8

\* No credit is further than half of s from zero: the upper bound is the member's own,
\* the lower one that of all the others.
LEMMA CreditIsBounded ==
  ASSUME NEW P, IsFiniteSet(P), NEW n \in Nat \ {0}, Cardinality(P) = n, NEW pay \in Nat,
         NEW cr \in [P -> Int], Drift(P, n, pay, cr), SumFunctionOnSet(cr, P) = 0,
         NEW p \in P, NEW s \in Nat, s = pay * (n - 1)
  PROVE  2 * cr[p] \in -s..s
<1> DEFINE R == P \ {p}
<1>1. /\ IsFiniteSet(P) /\ Cardinality(P) = n /\ IsFiniteSet({p}) /\ Cardinality({p}) = 1
      /\ Cardinality(R) = n - 1 /\ {p} \in SUBSET P /\ R \in SUBSET P
  BY FS_Singleton, FS_RemoveElement
<1>2. \A q \in P : cr[q] \in Int
  OBVIOUS
<1>3. SumFunctionOnSet(cr, {p}) = cr[p] + 0
  <2>1. {p} \ {p} = {} /\ p \in {p} /\ \A q \in {p} : cr[q] \in Int
    OBVIOUS
  <2>2. SumFunctionOnSet(cr, {p}) = cr[p] + SumFunctionOnSet(cr, {p} \ {p})
    BY <1>1, <2>1, SumRemove
  <2>3. QED
    BY <2>1, <2>2, SumEmpty
<1> HIDE DEF R
<1>4. 0 = cr[p] + SumFunctionOnSet(cr, R)
  BY <1>1, <1>2, SumRemove DEF R
<1>5. SumFunctionOnSet(cr, R) \in Int
  BY <1>1, <1>2, SumType, FS_Subset
<1>6. /\ 2 * SumFunctionOnSet(cr, {p}) <= pay * (1 * (n - 1))
      /\ 2 * SumFunctionOnSet(cr, R) <= pay * ((n - 1) * (n - (n - 1)))
  BY <1>1 DEF Drift
<1>7. 1 * (n - 1) = n - 1 /\ (n - 1) * (n - (n - 1)) = n - 1
  BY <1>1
<1>8. 2 * SumFunctionOnSet(cr, {p}) <= s /\ 2 * SumFunctionOnSet(cr, R) <= s
  BY <1>6, <1>7
<1>9. PICK x \in Int, y \in Int : x = cr[p] /\ y = SumFunctionOnSet(cr, R)
  BY <1>5
<1>10. 2 * x <= s /\ 2 * y <= s /\ 0 = x + y
  BY <1>3, <1>4, <1>8, <1>9
<1>11. 2 * x \in -s..s
  BY <1>10
<1>12. QED
  BY <1>9, <1>11

=============================================================================
