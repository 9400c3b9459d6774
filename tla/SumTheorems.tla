---------------------------- MODULE SumTheorems ----------------------------
(***************************************************************************)
(* What SumFunctionOnSet computes over a finite set: the fold of the       *)
(* community modules is defined by recursion on the set, with an arbitrary *)
(* choice of the next element; these lemmas show that the choice does not  *)
(* matter and how the sum follows a change of the set or of one value.     *)
(***************************************************************************)
EXTENDS Sums, FiniteSetTheorems, WellFoundedInduction, TLAPS

\* The element the fold takes next.
Pick(s) == CHOOSE x \in s : TRUE

\* g[s] is the sum of f over s, for every subset s of S.
IsSum(g, f, S) ==
  g = [s \in SUBSET S |-> IF s = {} THEN 0 ELSE f[Pick(s)] + g[s \ {Pick(s)}]]

LEMMA SumUnfolds ==
  ASSUME NEW f, NEW S
  PROVE  SumFunctionOnSet(f, S) = (CHOOSE g : IsSum(g, f, S))[S]
  BY DEF SumFunctionOnSet, FoldFunctionOnSet, MapThenFoldSet, IsSum, Pick

LEMMA PickIn == ASSUME NEW s, s # {} PROVE Pick(s) \in s
  BY DEF Pick

\* Induction over the subsets of a finite set, for the set G of those that are good.
LEMMA SubsetInduction ==
  ASSUME NEW S, IsFiniteSet(S), NEW G,
         \A T \in SUBSET S : (\A U \in SUBSET T : U # T => U \in G) => T \in G
  PROVE  S \in G
<1> DEFINE B == (SUBSET S) \ G
           R == StrictSubsetOrdering(S)
<1> SUFFICES ASSUME B # {} PROVE FALSE
  OBVIOUS
<1>1. IsWellFoundedOn(R, SUBSET S)
  <2>1. FiniteSubsetsOf(S) = SUBSET S
    BY FS_FiniteSubsetsOfFinite
  <2>2. IsWellFoundedOn(R, FiniteSubsetsOf(S))
    BY FS_StrictSubsetOrderingWellFounded
  <2> QED
    BY <2>1, <2>2
<1>2. B \subseteq SUBSET S
  OBVIOUS
<1>3. PICK T \in B : \A U \in B : ~(<<U, T>> \in R)
  <2> HIDE DEF B, R
  <2> QED
    BY <1>1, <1>2, WFMin
<1>4. \A U \in SUBSET T : U # T => U \in G
  BY <1>3, Zenon DEF StrictSubsetOrdering
<1> QED
  BY <1>3, <1>4

-----------------------------------------------------------------------------
(* The recursion has a solution, and only one. *)

LEMMA SumCoherent ==
  ASSUME NEW f, NEW S, NEW W \in SUBSET S, IsFiniteSet(W), NEW g, NEW h,
         IsSum(g, f, S), IsSum(h, f, W)
  PROVE  g[W] = h[W]
<1> DEFINE G == {T \in SUBSET W : g[T] = h[T]}
<1>1. ASSUME NEW T \in SUBSET W, \A U \in SUBSET T : U # T => U \in G PROVE T \in G
  <2>1. CASE T = {}
    BY <2>1 DEF IsSum
  <2>2. CASE T # {}
    <3>1. Pick(T) \in T
      BY <2>2, PickIn
    <3>2. T \ {Pick(T)} \in G
      BY <1>1, <3>1
    <3>3. g[T] = f[Pick(T)] + g[T \ {Pick(T)}] /\ h[T] = f[Pick(T)] + h[T \ {Pick(T)}]
      BY <2>2, Zenon DEF IsSum
    <3> QED
      BY <3>2, <3>3
  <2> QED
    BY <2>1, <2>2
<1>2. W \in G
  <2> HIDE DEF G
  <2> QED
    BY <1>1, SubsetInduction
<1> QED
  BY <1>2

LEMMA SumExists ==
  ASSUME NEW f, NEW S, IsFiniteSet(S)
  PROVE  \E g : IsSum(g, f, S)
<1> DEFINE G == {T \in SUBSET S : \E g : IsSum(g, f, T)}
           Sol(U) == CHOOSE g : IsSum(g, f, U)
           V(U) == Sol(U)[U]
<1>1. ASSUME NEW T \in SUBSET S, \A U \in SUBSET T : U # T => U \in G PROVE T \in G
  <2> DEFINE gT == [s \in SUBSET T |-> IF s = {} THEN 0 ELSE f[Pick(s)] + V(s \ {Pick(s)})]
  <2>1. ASSUME NEW U \in SUBSET T, U # T PROVE IsSum(Sol(U), f, U) /\ IsFiniteSet(U)
    <3>1. \E g : IsSum(g, f, U)
      BY <1>1, <2>1
    <3>2. IsFiniteSet(U)
      BY FS_Subset
    <3> QED
      BY <3>1, <3>2
  <2>2. ASSUME NEW U \in SUBSET T, U # T PROVE V(U) = gT[U]
    <3>1. IsSum(Sol(U), f, U)
      BY <2>1, <2>2
    <3>2. CASE U = {}
      BY <3>1, <3>2, Zenon DEF IsSum
    <3>3. CASE U # {}
      <4> DEFINE w == U \ {Pick(U)}
      <4>1. Pick(U) \in U
        BY <3>3, PickIn
      <4>2. w \in SUBSET U /\ w \in SUBSET T /\ w # T
        BY <2>2, <4>1
      <4>3. IsSum(Sol(w), f, w) /\ IsFiniteSet(w)
        BY <2>1, <4>2, Zenon
      <4>4. Sol(U)[w] = Sol(w)[w]
        <5> HIDE DEF w, Sol
        <5> QED
          BY <3>1, <4>2, <4>3, SumCoherent
      <4>5. Sol(U)[U] = f[Pick(U)] + Sol(U)[w]
        <5> HIDE DEF Sol
        <5> QED
          BY <3>1, <3>3, Zenon DEF IsSum
      <4> QED
        BY <3>3, <4>4, <4>5
    <3> QED
      BY <3>2, <3>3
  <2>3. IsSum(gT, f, T)
    <3>1. ASSUME NEW s \in SUBSET T, s # {} PROVE V(s \ {Pick(s)}) = gT[s \ {Pick(s)}]
      <4>1. Pick(s) \in s
        BY <3>1, PickIn
      <4>2. s \ {Pick(s)} \in SUBSET T /\ s \ {Pick(s)} # T
        BY <4>1
      <4> HIDE DEF V, gT
      <4> QED
        BY <2>2, <4>2
    <3>2. gT = [s \in SUBSET T |-> IF s = {} THEN 0 ELSE f[Pick(s)] + gT[s \ {Pick(s)}]]
      <4> HIDE DEF V
      <4> QED
        BY <3>1, Zenon
    <3> QED
      BY <3>2, Zenon DEF IsSum
  <2> QED
    BY <2>3
<1>2. S \in G
  <2> HIDE DEF G
  <2> QED
    BY <1>1, SubsetInduction
<1> QED
  BY <1>2

-----------------------------------------------------------------------------
(* The sum of a function over a finite set. *)

LEMMA SumRecursion ==
  ASSUME NEW f, NEW S, IsFiniteSet(S)
  PROVE  /\ S = {} => SumFunctionOnSet(f, S) = 0
         /\ S # {} => SumFunctionOnSet(f, S)
                        = f[Pick(S)] + SumFunctionOnSet(f, S \ {Pick(S)})
<1> DEFINE Sol(U) == CHOOSE g : IsSum(g, f, U)
           w == S \ {Pick(S)}
<1>1. IsSum(Sol(S), f, S)
  BY SumExists
<1>2. IsFiniteSet(w) /\ w \in SUBSET S
  BY FS_Subset
<1>3. IsSum(Sol(w), f, w)
  <2>1. \E g : IsSum(g, f, w)
    <3> HIDE DEF w
    <3> QED
      BY <1>2, SumExists
  <2> QED
    BY <2>1
<1>4. Sol(S)[w] = Sol(w)[w]
  <2> HIDE DEF w, Sol
  <2> QED
    BY <1>1, <1>2, <1>3, SumCoherent
<1>5. SumFunctionOnSet(f, S) = Sol(S)[S] /\ SumFunctionOnSet(f, w) = Sol(w)[w]
  BY SumUnfolds, Zenon
<1> HIDE DEF Sol
<1>6. Sol(S)[S] = IF S = {} THEN 0 ELSE f[Pick(S)] + Sol(S)[w]
  BY <1>1, Zenon DEF IsSum
<1> QED
  BY <1>4, <1>5, <1>6

LEMMA SumIsInt ==
  ASSUME NEW f, NEW S, IsFiniteSet(S), \A x \in S : f[x] \in Int
  PROVE  SumFunctionOnSet(f, S) \in Int
<1> DEFINE G == {T \in SUBSET S : SumFunctionOnSet(f, T) \in Int}
<1>1. ASSUME NEW T \in SUBSET S, \A U \in SUBSET T : U # T => U \in G PROVE T \in G
  <2>1. IsFiniteSet(T)
    BY FS_Subset
  <2>2. CASE T = {}
    <3>1. SumFunctionOnSet(f, T) = 0
      BY <2>1, <2>2, SumRecursion, Zenon
    <3> QED
      BY <3>1
  <2>3. CASE T # {}
    <3>1. Pick(T) \in T
      BY <2>3, PickIn
    <3>2. SumFunctionOnSet(f, T \ {Pick(T)}) \in Int
      BY <1>1, <3>1
    <3>3. SumFunctionOnSet(f, T) = f[Pick(T)] + SumFunctionOnSet(f, T \ {Pick(T)})
      BY <2>1, <2>3, SumRecursion
    <3>4. f[Pick(T)] \in Int
      BY <3>1
    <3> QED
      BY <3>2, <3>3, <3>4
  <2> QED
    BY <2>2, <2>3
<1>2. S \in G
  <2> HIDE DEF G
  <2> QED
    BY <1>1, SubsetInduction
<1> QED
  BY <1>2

\* The order does not matter: any element may be taken out first.
LEMMA SumRemove ==
  ASSUME NEW f, NEW S, IsFiniteSet(S), \A x \in S : f[x] \in Int, NEW x \in S
  PROVE  SumFunctionOnSet(f, S) = f[x] + SumFunctionOnSet(f, S \ {x})
<1> DEFINE Sum(T) == SumFunctionOnSet(f, T)
           G == {T \in SUBSET S : \A y \in T : Sum(T) = f[y] + Sum(T \ {y})}
<1>1. ASSUME NEW T \in SUBSET S, \A U \in SUBSET T : U # T => U \in G PROVE T \in G
  <2>1. \A U \in SUBSET S : IsFiniteSet(U)
    BY FS_Subset
  <2>2. \A U \in SUBSET S : Sum(U) \in Int
    BY <2>1, SumIsInt
  <2> SUFFICES ASSUME NEW y \in T PROVE Sum(T) = f[y] + Sum(T \ {y})
    OBVIOUS
  <2> DEFINE p == Pick(T)
  <2>3. p \in T
    BY PickIn
  <2>4. Sum(T) = f[p] + Sum(T \ {p})
    BY <2>1, SumRecursion
  <2>5. CASE y = p
    BY <2>4, <2>5
  <2>6. CASE y # p
    <3>1. T \ {p} \in G /\ T \ {y} \in G
      BY <1>1, <2>3
    <3>2. Sum(T \ {p}) = f[y] + Sum((T \ {p}) \ {y})
      BY <2>6, <3>1
    <3>3. Sum(T \ {y}) = f[p] + Sum((T \ {y}) \ {p})
      BY <2>3, <2>6, <3>1
    <3>4. (T \ {p}) \ {y} = (T \ {y}) \ {p}
      OBVIOUS
    <3>5. f[p] \in Int /\ f[y] \in Int /\ Sum((T \ {y}) \ {p}) \in Int
      BY <2>2, <2>3
    <3> DEFINE r == Sum((T \ {y}) \ {p})
    <3>6. Sum(T) = f[p] + (f[y] + r) /\ Sum(T \ {y}) = f[p] + r
      BY <2>4, <3>2, <3>3, <3>4
    <3>7. f[p] + (f[y] + r) = f[y] + (f[p] + r)
      <4>1. f[p] \in Int /\ f[y] \in Int /\ r \in Int
        BY <3>5
      <4> HIDE DEF r, p
      <4> QED
        BY <4>1
    <3> QED
      BY <3>6, <3>7
  <2> QED
    BY <2>5, <2>6
<1>2. S \in G
  <2> HIDE DEF G
  <2> QED
    BY <1>1, SubsetInduction
<1> QED
  BY <1>2

\* Only the values on the set matter.
LEMMA SumEqual ==
  ASSUME NEW f, NEW g, NEW S, IsFiniteSet(S), \A x \in S : f[x] = g[x]
  PROVE  SumFunctionOnSet(f, S) = SumFunctionOnSet(g, S)
<1> DEFINE G == {T \in SUBSET S : SumFunctionOnSet(f, T) = SumFunctionOnSet(g, T)}
<1>1. ASSUME NEW T \in SUBSET S, \A U \in SUBSET T : U # T => U \in G PROVE T \in G
  <2>1. IsFiniteSet(T)
    BY FS_Subset
  <2>2. CASE T = {}
    BY <2>1, <2>2, SumRecursion, Zenon
  <2>3. CASE T # {}
    <3>1. Pick(T) \in T
      BY <2>3, PickIn
    <3>2. SumFunctionOnSet(f, T \ {Pick(T)}) = SumFunctionOnSet(g, T \ {Pick(T)})
      BY <1>1, <3>1
    <3>3. /\ SumFunctionOnSet(f, T) = f[Pick(T)] + SumFunctionOnSet(f, T \ {Pick(T)})
          /\ SumFunctionOnSet(g, T) = g[Pick(T)] + SumFunctionOnSet(g, T \ {Pick(T)})
      BY <2>1, <2>3, SumRecursion
    <3>4. f[Pick(T)] = g[Pick(T)]
      BY <3>1
    <3> QED
      BY <3>2, <3>3, <3>4
  <2> QED
    BY <2>2, <2>3
<1>2. S \in G
  <2> HIDE DEF G
  <2> QED
    BY <1>1, SubsetInduction
<1> QED
  BY <1>2

\* Changing one value changes the sum by as much.
LEMMA SumUpdate ==
  ASSUME NEW S, IsFiniteSet(S), NEW f, NEW g, NEW x \in S,
         \A y \in S : f[y] \in Int /\ g[y] \in Int,
         \A y \in S : y # x => g[y] = f[y]
  PROVE  SumFunctionOnSet(g, S) = (SumFunctionOnSet(f, S) - f[x]) + g[x]
<1> DEFINE w == S \ {x}
<1>1. IsFiniteSet(w) /\ w \subseteq S
  BY FS_Subset
<1>2. SumFunctionOnSet(f, w) = SumFunctionOnSet(g, w)
  BY <1>1, SumEqual
<1>3. /\ SumFunctionOnSet(f, S) = f[x] + SumFunctionOnSet(f, w)
      /\ SumFunctionOnSet(g, S) = g[x] + SumFunctionOnSet(g, w)
  BY SumRemove
<1>4. SumFunctionOnSet(f, w) \in Int
  BY <1>1, SumIsInt
<1> QED
  BY <1>2, <1>3, <1>4

\* The sum of natural numbers is one, and at least each of them.
LEMMA SumIsNat ==
  ASSUME NEW f, NEW S, IsFiniteSet(S), \A x \in S : f[x] \in Nat
  PROVE  SumFunctionOnSet(f, S) \in Nat
<1> DEFINE G == {T \in SUBSET S : SumFunctionOnSet(f, T) \in Nat}
<1>1. ASSUME NEW T \in SUBSET S, \A U \in SUBSET T : U # T => U \in G PROVE T \in G
  <2>1. IsFiniteSet(T)
    BY FS_Subset
  <2>2. CASE T = {}
    <3>1. SumFunctionOnSet(f, T) = 0
      BY <2>1, <2>2, SumRecursion, Zenon
    <3> QED
      BY <3>1
  <2>3. CASE T # {}
    <3>1. Pick(T) \in T
      BY <2>3, PickIn
    <3>2. SumFunctionOnSet(f, T \ {Pick(T)}) \in Nat
      BY <1>1, <3>1
    <3>3. SumFunctionOnSet(f, T) = f[Pick(T)] + SumFunctionOnSet(f, T \ {Pick(T)})
      BY <2>1, <2>3, SumRecursion
    <3>4. f[Pick(T)] \in Nat
      BY <3>1
    <3> QED
      BY <3>2, <3>3, <3>4
  <2> QED
    BY <2>2, <2>3
<1>2. S \in G
  <2> HIDE DEF G
  <2> QED
    BY <1>1, SubsetInduction
<1> QED
  BY <1>2

\* A set joined with one that has nothing in common with it.
LEMMA SumUnion ==
  ASSUME NEW f, NEW A, NEW B, IsFiniteSet(A), IsFiniteSet(B), A \cap B = {},
         \A x \in A \cup B : f[x] \in Int
  PROVE  SumFunctionOnSet(f, A \cup B) = SumFunctionOnSet(f, A) + SumFunctionOnSet(f, B)
<1> DEFINE Sum(T) == SumFunctionOnSet(f, T)
           G == {T \in SUBSET B : Sum(A \cup T) = Sum(A) + Sum(T)}
<1>1. ASSUME NEW T \in SUBSET B, \A U \in SUBSET T : U # T => U \in G PROVE T \in G
  <2>1. IsFiniteSet(T) /\ IsFiniteSet(A \cup T)
    <3>1. IsFiniteSet(T)
      BY FS_Subset
    <3> QED
      BY <3>1, FS_Union, Zenon
  <2>2. Sum(A) \in Int
    BY SumIsInt
  <2>3. CASE T = {}
    <3>1. A \cup T = A /\ Sum(T) = 0
      BY <2>1, <2>3, SumRecursion, Zenon
    <3> QED
      BY <2>2, <3>1
  <2>4. CASE T # {}
    <3> DEFINE p == Pick(T)
               r == Sum(T \ {p})
    <3>1. p \in T /\ f[p] \in Int
      BY <2>4, PickIn
    <3>2. T \ {p} \in G
      BY <1>1, <3>1
    <3>3. Sum(A \cup (T \ {p})) = Sum(A) + r
      BY <3>2
    <3>4. A \cup (T \ {p}) = (A \cup T) \ {p}
      BY <3>1
    <3>5. Sum(A \cup T) = f[p] + Sum((A \cup T) \ {p})
      <4> HIDE DEF p
      <4> QED
        BY <2>1, <3>1, SumRemove
    <3>6. Sum(T) = f[p] + r
      BY <2>1, <2>4, SumRecursion
    <3>7. r \in Int
      <4>1. IsFiniteSet(T \ {p})
        BY <2>1, FS_Subset
      <4> QED
        BY <4>1, SumIsInt
    <3>8. f[p] + (Sum(A) + r) = Sum(A) + (f[p] + r)
      <4> HIDE DEF r, p
      <4> QED
        BY <2>2, <3>1, <3>7
    <3> QED
      BY <3>3, <3>4, <3>5, <3>6, <3>8, Zenon
  <2> QED
    BY <2>3, <2>4
<1>2. B \in G
  <2> HIDE DEF G
  <2> QED
    BY <1>1, SubsetInduction
<1> QED
  BY <1>2

\* A larger set has a larger sum.
LEMMA SumSubset ==
  ASSUME NEW f, NEW S, IsFiniteSet(S), NEW T \in SUBSET S, \A x \in S : f[x] \in Nat
  PROVE  SumFunctionOnSet(f, T) <= SumFunctionOnSet(f, S)
<1> DEFINE w == S \ T
<1>1. IsFiniteSet(T) /\ IsFiniteSet(w) /\ T \cap w = {} /\ T \cup w = S
  BY FS_Subset
<1>2. SumFunctionOnSet(f, T) \in Nat /\ SumFunctionOnSet(f, w) \in Nat
  BY <1>1, SumIsNat
<1>3. SumFunctionOnSet(f, T \cup w) = SumFunctionOnSet(f, T) + SumFunctionOnSet(f, w)
  <2> HIDE DEF w
  <2> QED
    BY <1>1, SumUnion
<1>4. SumFunctionOnSet(f, S) = SumFunctionOnSet(f, T) + SumFunctionOnSet(f, w)
  BY <1>1, <1>3
<1> HIDE DEF w
<1> QED
  BY <1>2, <1>4

\* A new element.
LEMMA SumInsert ==
  ASSUME NEW f, NEW S, IsFiniteSet(S), NEW x, x \notin S, \A y \in S \cup {x} : f[y] \in Int
  PROVE  SumFunctionOnSet(f, S \cup {x}) = SumFunctionOnSet(f, S) + f[x]
<1>1. IsFiniteSet(S \cup {x}) /\ (S \cup {x}) \ {x} = S
  BY FS_AddElement
<1>2. SumFunctionOnSet(f, S \cup {x}) = f[x] + SumFunctionOnSet(f, (S \cup {x}) \ {x})
  BY <1>1, SumRemove
<1>3. SumFunctionOnSet(f, S) \in Int /\ f[x] \in Int
  BY SumIsInt
<1>4. SumFunctionOnSet(f, S \cup {x}) = f[x] + SumFunctionOnSet(f, S)
  BY <1>1, <1>2
<1> QED
  BY <1>3, <1>4

LEMMA SumConstant ==
  ASSUME NEW f, NEW S, IsFiniteSet(S), NEW c \in Int, \A x \in S : f[x] = c
  PROVE  SumFunctionOnSet(f, S) = c * Cardinality(S)
<1> DEFINE G == {T \in SUBSET S : SumFunctionOnSet(f, T) = c * Cardinality(T)}
<1>1. ASSUME NEW T \in SUBSET S, \A U \in SUBSET T : U # T => U \in G PROVE T \in G
  <2>1. IsFiniteSet(T)
    BY FS_Subset
  <2>2. CASE T = {}
    <3>1. SumFunctionOnSet(f, T) = 0 /\ Cardinality(T) = 0
      BY <2>1, <2>2, SumRecursion, FS_EmptySet, Zenon
    <3> QED
      BY <3>1
  <2>3. CASE T # {}
    <3> DEFINE w == T \ {Pick(T)}
    <3>1. Pick(T) \in T
      BY <2>3, PickIn
    <3>2. SumFunctionOnSet(f, w) = c * Cardinality(w)
      BY <1>1, <3>1
    <3>3. Cardinality(w) = Cardinality(T) - 1 /\ Cardinality(T) \in Nat
      BY <2>1, <3>1, FS_RemoveElement, FS_CardinalityType
    <3>4. SumFunctionOnSet(f, T) = f[Pick(T)] + SumFunctionOnSet(f, w)
      BY <2>1, <2>3, SumRecursion
    <3>5. f[Pick(T)] = c
      BY <3>1
    <3>6. c + c * (Cardinality(T) - 1) = c * Cardinality(T)
      BY <3>3
    <3> QED
      BY <3>2, <3>3, <3>4, <3>5, <3>6
  <2> QED
    BY <2>2, <2>3
<1>2. S \in G
  <2> HIDE DEF G
  <2> QED
    BY <1>1, SubsetInduction
<1> QED
  BY <1>2

\* The elements may be renamed.
LEMMA SumRename ==
  ASSUME NEW A, IsFiniteSet(A), NEW b, \A x, y \in A : b[x] = b[y] => x = y,
         NEW f, NEW g, \A x \in A : f[b[x]] \in Int /\ g[x] = f[b[x]]
  PROVE  SumFunctionOnSet(g, A) = SumFunctionOnSet(f, {b[x] : x \in A})
<1> DEFINE Im(T) == {b[x] : x \in T}
           G == {T \in SUBSET A : SumFunctionOnSet(g, T) = SumFunctionOnSet(f, Im(T))}
<1>1. ASSUME NEW T \in SUBSET A, \A U \in SUBSET T : U # T => U \in G PROVE T \in G
  <2>1. IsFiniteSet(T) /\ IsFiniteSet(Im(T))
    <3>1. IsFiniteSet(T)
      BY FS_Subset
    <3>2. IsFiniteSet(Im(T))
      <4> DEFINE c == [x \in T |-> b[x]]
      <4>1. c \in Surjection(T, Im(T))
        BY DEF Surjection
      <4> HIDE DEF c, Im
      <4> QED
        BY <3>1, <4>1, FS_Surjection
    <3> QED
      BY <3>1, <3>2
  <2>2. CASE T = {}
    <3>1. Im(T) = {}
      BY <2>2
    <3> QED
      BY <2>1, <2>2, <3>1, SumRecursion, Zenon
  <2>3. CASE T # {}
    <3> DEFINE p == Pick(T)
    <3>1. p \in T
      BY <2>3, PickIn
    <3>2. SumFunctionOnSet(g, T \ {p}) = SumFunctionOnSet(f, Im(T \ {p}))
      BY <1>1, <3>1
    <3>3. Im(T \ {p}) = Im(T) \ {b[p]} /\ b[p] \in Im(T)
      BY <3>1
    <3>4. SumFunctionOnSet(g, T) = g[p] + SumFunctionOnSet(g, T \ {p})
      BY <2>1, <2>3, SumRecursion
    <3>5. SumFunctionOnSet(f, Im(T)) = f[b[p]] + SumFunctionOnSet(f, Im(T) \ {b[p]})
      <4>1. \A y \in Im(T) : f[y] \in Int
        OBVIOUS
      <4> HIDE DEF Im, p
      <4> QED
        BY <2>1, <3>3, <4>1, SumRemove
    <3> QED
      BY <3>1, <3>2, <3>3, <3>4, <3>5
  <2> QED
    BY <2>2, <2>3
<1>2. A \in G
  <2> HIDE DEF G
  <2> QED
    BY <1>1, SubsetInduction
<1> QED
  BY <1>2

-----------------------------------------------------------------------------
(* The sum of the values v of the elements of a sequence. *)

LEMMA SeqSumEmpty == ASSUME NEW v PROVE SeqSum(v, <<>>) = 0
<1>1. DOMAIN <<>> = {} /\ IsFiniteSet({})
  BY FS_EmptySet
<1> QED
  BY <1>1, SumRecursion, Zenon DEF SeqSum

LEMMA SeqSumIsNat ==
  ASSUME NEW R, NEW v \in [R -> Nat], NEW s \in Seq(R)
  PROVE  SeqSum(v, s) \in Nat
<1>1. IsFiniteSet(DOMAIN s) /\ \A i \in DOMAIN s : s[i] \in R
  BY FS_Interval
<1> DEFINE f == [i \in DOMAIN s |-> v[s[i]]]
<1>2. \A i \in DOMAIN s : f[i] \in Nat
  BY <1>1
<1> HIDE DEF f
<1>3. SumFunctionOnSet(f, DOMAIN s) \in Nat
  BY <1>1, <1>2, SumIsNat
<1> QED
  BY <1>3 DEF SeqSum, f

LEMMA SeqSumAppend ==
  ASSUME NEW R, NEW v \in [R -> Int], NEW s \in Seq(R), NEW x \in R
  PROVE  SeqSum(v, Append(s, x)) = SeqSum(v, s) + v[x]
<1> DEFINE t == Append(s, x)
           n == Len(s)
           D == 1..n
           f == [i \in DOMAIN s |-> v[s[i]]]
           g == [i \in DOMAIN t |-> v[t[i]]]
<1>1. /\ n \in Nat /\ DOMAIN s = 1..n /\ DOMAIN t = 1..(n + 1)
      /\ t[n + 1] = x /\ \A i \in 1..n : t[i] = s[i] /\ s[i] \in R
  OBVIOUS
<1>2. 1..(n + 1) = D \cup {n + 1} /\ n + 1 \notin D
  BY <1>1
<1>3. IsFiniteSet(D)
  BY <1>1, FS_Interval
<1>4. \A i \in D : g[i] = f[i] /\ f[i] \in Int
  BY <1>1, <1>2
<1>5. g[n + 1] = v[x] /\ v[x] \in Int
  BY <1>1, <1>2
<1>6. SeqSum(v, s) = SumFunctionOnSet(f, D) /\ SeqSum(v, t) = SumFunctionOnSet(g, D \cup {n + 1})
  BY <1>1, <1>2, Zenon DEF SeqSum
<1> HIDE DEF D, f, g, t, n
<1>7. SumFunctionOnSet(g, D \cup {n + 1}) = SumFunctionOnSet(g, D) + g[n + 1]
  BY <1>2, <1>3, <1>4, <1>5, SumInsert
<1>8. SumFunctionOnSet(g, D) = SumFunctionOnSet(f, D)
  BY <1>3, <1>4, SumEqual
<1> QED
  BY <1>5, <1>6, <1>7, <1>8 DEF t

LEMMA SeqSumTail ==
  ASSUME NEW R, NEW v \in [R -> Int], NEW s \in Seq(R), s # <<>>
  PROVE  SeqSum(v, s) = v[Head(s)] + SeqSum(v, Tail(s)) /\ Head(s) \in R /\ Tail(s) \in Seq(R)
<1> DEFINE t == Tail(s)
           n == Len(s)
           D == 1..n
           E == 1..(n - 1)
           f == [i \in DOMAIN s |-> v[s[i]]]
           g == [i \in DOMAIN t |-> v[t[i]]]
           b == [i \in 1..(n - 1) |-> i + 1]
<1>1. /\ n \in Nat \ {0} /\ DOMAIN s = 1..n /\ DOMAIN t = 1..(n - 1) /\ t \in Seq(R)
      /\ Head(s) = s[1] /\ \A i \in 1..n : s[i] \in R
      /\ \A i \in 1..(n - 1) : t[i] = s[i + 1]
  OBVIOUS
<1>2. IsFiniteSet(D) /\ IsFiniteSet(E) /\ 1 \in D
  <2>1. n \in Int /\ n - 1 \in Int /\ 1 \in Int /\ 1 \in D
    BY <1>1
  <2> HIDE DEF n
  <2> QED
    BY <2>1, FS_Interval, Zenon
<1>3. \A i \in D : f[i] = v[s[i]] /\ f[i] \in Int
  BY <1>1
<1>4. \A i \in E : b[i] \in D /\ f[b[i]] \in Int /\ g[i] = f[b[i]]
  BY <1>1
<1>5. \A i, j \in E : b[i] = b[j] => i = j
  BY <1>1
<1>6. {b[i] : i \in E} = D \ {1}
  <2>1. ASSUME NEW j \in D \ {1} PROVE \E i \in E : j = b[i]
    <3>1. j - 1 \in E /\ (j - 1) + 1 = j
      BY <1>1
    <3>2. b[j - 1] = j
      BY <3>1
    <3> QED
      BY <3>1, <3>2
  <2>2. ASSUME NEW i \in E PROVE b[i] \in D \ {1}
    BY <1>1
  <2> HIDE DEF b
  <2> QED
    BY <2>1, <2>2, ZenonT(60)
<1>7. SeqSum(v, s) = SumFunctionOnSet(f, D) /\ SeqSum(v, t) = SumFunctionOnSet(g, E)
  BY <1>1, Zenon DEF SeqSum
<1>8. f[1] = v[Head(s)]
  BY <1>1
<1> HIDE DEF D, E, f, g, b, n, t
<1>9. SumFunctionOnSet(g, E) = SumFunctionOnSet(f, D \ {1})
  <2>1. IsFiniteSet(E)
    BY <1>2, Zenon
  <2>2. \A x \in E : f[b[x]] \in Int /\ g[x] = f[b[x]]
    BY <1>4, Zenon
  <2>3. SumFunctionOnSet(g, E) = SumFunctionOnSet(f, {b[x] : x \in E})
    BY <1>5, <2>1, <2>2, SumRename, SMTT(30)
  <2> QED
    BY <1>6, <2>3, Zenon
<1>10. SumFunctionOnSet(f, D) = f[1] + SumFunctionOnSet(f, D \ {1})
  BY <1>2, <1>3, SumRemove
<1>11. Head(s) \in R /\ t \in Seq(R)
  BY <1>1, <1>2
<1> QED
  BY <1>7, <1>8, <1>9, <1>10, <1>11 DEF t

LEMMA SeqSumConcat ==
  ASSUME NEW R, NEW v \in [R -> Int], NEW s \in Seq(R), NEW t \in Seq(R)
  PROVE  SeqSum(v, s \o t) = SeqSum(v, s) + SeqSum(v, t)
<1> DEFINE u == s \o t
           m == Len(s)
           n == Len(t)
           D == 1..m
           E == 1..n
           F == (m + 1)..(m + n)
           f == [i \in DOMAIN s |-> v[s[i]]]
           g == [i \in DOMAIN t |-> v[t[i]]]
           h == [i \in DOMAIN u |-> v[u[i]]]
           b == [i \in 1..n |-> m + i]
<1>1. /\ m \in Nat /\ n \in Nat /\ DOMAIN s = 1..m /\ DOMAIN t = 1..n /\ DOMAIN u = 1..(m + n)
      /\ \A i \in 1..m : u[i] = s[i] /\ s[i] \in R
      /\ \A i \in 1..n : u[m + i] = t[i] /\ t[i] \in R
  OBVIOUS
<1>2. IsFiniteSet(D) /\ IsFiniteSet(E) /\ IsFiniteSet(F)
  BY <1>1, FS_Interval, SMTT(30)
<1>3. 1..(m + n) = D \cup F /\ D \cap F = {}
  BY <1>1
<1>4. \A i \in D : h[i] = f[i] /\ h[i] \in Int
  BY <1>1
<1>5. \A i \in E : b[i] \in F /\ h[b[i]] \in Int /\ g[i] = h[b[i]]
  <2> TAKE i \in E
  <2>1. m + i \in F /\ m + i \in 1..(m + n)
    BY <1>1
  <2>2. h[m + i] = v[u[m + i]] /\ g[i] = v[t[i]] /\ v[t[i]] \in Int
    BY <1>1, <2>1
  <2> QED
    BY <1>1, <2>1, <2>2
<1>6. \A i, j \in E : b[i] = b[j] => i = j
  BY <1>1
<1>7. {b[i] : i \in E} = F
  <2>1. ASSUME NEW j \in F PROVE \E i \in E : j = b[i]
    <3>1. j - m \in E /\ m + (j - m) = j
      BY <1>1
    <3>2. b[j - m] = j
      BY <3>1
    <3> QED
      BY <3>1, <3>2, Zenon
  <2> HIDE DEF b
  <2> QED
    BY <1>5, <2>1, ZenonT(60)
<1>8. /\ SeqSum(v, s) = SumFunctionOnSet(f, D) /\ SeqSum(v, t) = SumFunctionOnSet(g, E)
      /\ SeqSum(v, u) = SumFunctionOnSet(h, D \cup F)
  BY <1>1, <1>3, Zenon DEF SeqSum
<1> HIDE DEF D, E, F, f, g, h, b, m, n, u
<1>9. SumFunctionOnSet(g, E) = SumFunctionOnSet(h, F)
  BY <1>2, <1>5, <1>6, <1>7, SumRename, SMTT(30)
<1>10. SumFunctionOnSet(f, D) = SumFunctionOnSet(h, D)
  BY <1>2, <1>4, SumEqual
<1>11. \A i \in D \cup F : h[i] \in Int
  BY <1>4, <1>5, <1>7, Zenon
<1>12. SumFunctionOnSet(h, D \cup F) = SumFunctionOnSet(h, D) + SumFunctionOnSet(h, F)
  BY <1>2, <1>3, <1>11, SumUnion
<1> QED
  BY <1>8, <1>9, <1>10, <1>12 DEF u

\* Elements at different positions of s, indexed by A, are worth no more than all of s.
LEMMA SeqSumChosen ==
  ASSUME NEW R, NEW v \in [R -> Nat], NEW s \in Seq(R), NEW A, IsFiniteSet(A), NEW b, NEW g,
         \A x \in A : b[x] \in DOMAIN s /\ g[x] = v[s[b[x]]],
         \A x, y \in A : b[x] = b[y] => x = y
  PROVE  SumFunctionOnSet(g, A) <= SeqSum(v, s)
<1> DEFINE D == DOMAIN s
           f == [i \in DOMAIN s |-> v[s[i]]]
           B == {b[x] : x \in A}
<1>1. IsFiniteSet(D) /\ \A i \in D : f[i] = v[s[i]] /\ f[i] \in Nat /\ f[i] \in Int
  BY FS_Interval
<1>2. B \in SUBSET D /\ \A x \in A : f[b[x]] \in Int /\ g[x] = f[b[x]]
  BY <1>1
<1>3. SeqSum(v, s) = SumFunctionOnSet(f, D)
  BY Zenon DEF SeqSum
<1> HIDE DEF D, f
<1>4. SumFunctionOnSet(g, A) = SumFunctionOnSet(f, B)
  BY <1>2, SumRename, SMTT(30)
<1> HIDE DEF B
<1>5. SumFunctionOnSet(f, B) <= SumFunctionOnSet(f, D)
  BY <1>1, <1>2, SumSubset
<1> QED
  BY <1>3, <1>4, <1>5

\* The distinct elements of s are worth no more than s, and just as much if no element
\* is in s twice.
LEMMA SeqSumRange ==
  ASSUME NEW R, IsFiniteSet(R), NEW v \in [R -> Nat], NEW s \in Seq(R)
  PROVE  /\ SumFunctionOnSet(v, Range(s)) <= SeqSum(v, s)
         /\ IsInjective(s) => SumFunctionOnSet(v, Range(s)) = SeqSum(v, s)
<1>1. Range(s) \subseteq R /\ IsFiniteSet(Range(s)) /\ IsFiniteSet(DOMAIN s)
      /\ \A i \in DOMAIN s : s[i] \in R
  <2>1. Range(s) \subseteq R /\ \A i \in DOMAIN s : s[i] \in R
    BY DEF Range
  <2>2. IsFiniteSet(Range(s))
    BY <2>1, FS_Subset
  <2> QED
    BY <2>1, <2>2, FS_Interval
<1>2. SumFunctionOnSet(v, Range(s)) <= SeqSum(v, s)
  <2> DEFINE b == [x \in Range(s) |-> CHOOSE i \in DOMAIN s : s[i] = x]
  <2>1. \A x \in Range(s) : b[x] \in DOMAIN s /\ s[b[x]] = x
    BY DEF Range
  <2> HIDE DEF b
  <2>2. \A x \in Range(s) : b[x] \in DOMAIN s /\ v[x] = v[s[b[x]]]
    BY <2>1
  <2>3. \A x, y \in Range(s) : b[x] = b[y] => x = y
    BY <2>1
  <2> QED
    BY <1>1, <2>2, <2>3, SeqSumChosen, Zenon
<1>3. ASSUME IsInjective(s) PROVE SumFunctionOnSet(v, Range(s)) = SeqSum(v, s)
  <2> DEFINE D == DOMAIN s
             g == [i \in DOMAIN s |-> v[s[i]]]
  <2>1. /\ IsFiniteSet(D) /\ Range(s) = {s[i] : i \in D}
        /\ \A i \in D : v[s[i]] \in Int /\ g[i] = v[s[i]]
        /\ \A i, j \in D : s[i] = s[j] => i = j
    BY <1>1, <1>3 DEF Range, IsInjective
  <2>2. SeqSum(v, s) = SumFunctionOnSet(g, D)
    BY Zenon DEF SeqSum
  <2> HIDE DEF D, g
  <2>3. SumFunctionOnSet(g, D) = SumFunctionOnSet(v, {s[i] : i \in D})
    BY <2>1, SumRename, SMTT(30)
  <2> QED
    BY <2>1, <2>2, <2>3
<1> QED
  BY <1>2, <1>3

-----------------------------------------------------------------------------
(* The laws of Sums. *)

\* The laws of finite sums that Sums states hold.
THEOREM LawsOfSums == SumLaws
<1>1. FiniteSetLaws
  <2>1. \A S, T : IsFiniteSet(S) /\ T \subseteq S => IsFiniteSet(T)
    BY FS_Subset, Zenon
  <2>2. \A S, x : IsFiniteSet(S) => IsFiniteSet(S \cup {x})
    BY FS_AddElement, Zenon
  <2> QED
    BY <2>1, <2>2, FS_EmptySet, FS_CardinalityType, Zenon DEF FiniteSetLaws
<1>2. SumOfNone
  BY FS_EmptySet, SumRecursion, Zenon DEF SumOfNone
<1>3. SumTypes
  BY SumIsInt, SumIsNat, Zenon DEF SumTypes
<1>4. SumRemoves
  BY SumRemove DEF SumRemoves
<1>5. SumEquals
  BY SumEqual DEF SumEquals
<1>6. SumUpdates
  BY SumUpdate DEF SumUpdates
<1>7. SumUnites
  BY SumUnion, Zenon DEF SumUnites
<1>8. SumMultiplies
  BY SumConstant, Zenon DEF SumMultiplies
<1>9. SeqSumTypes
  BY SeqSumEmpty, SeqSumIsNat, Zenon DEF SeqSumTypes
<1>10. SeqSumAppends
  BY SeqSumAppend, Zenon DEF SeqSumAppends
<1>11. SeqSumSplits
  BY SeqSumTail, Zenon DEF SeqSumSplits
<1> QED
  BY <1>1, <1>2, <1>3, <1>4, <1>5, <1>6, <1>7, <1>8, <1>9, <1>10, <1>11, Zenon DEF SumLaws

\* The weights of the elements of a finite set, in the form of Weighs.
THEOREM LawsOfWeights ==
  ASSUME NEW R, IsFiniteSet(R), NEW v \in [R -> Nat]
  PROVE  Weighs(R, v)
<1>1. v \in [R -> Int] /\ \A x \in R : v[x] \in Nat /\ v[x] \in Int
  OBVIOUS
<1>2. \A T \in SUBSET R : IsFiniteSet(T)
  BY FS_Subset
<1>3. \A T \in SUBSET R : SumFunctionOnSet(v, T) \in Nat
  BY <1>1, <1>2, SumIsNat
<1>4. SumFunctionOnSet(v, {}) = 0
  BY FS_EmptySet, SumRecursion, Zenon
<1>5. \A T \in SUBSET R, W \in SUBSET R : T \cap W = {} =>
        SumFunctionOnSet(v, T \cup W) = SumFunctionOnSet(v, T) + SumFunctionOnSet(v, W)
  BY <1>1, <1>2, SumUnion
<1>6. \A x \in R : SumFunctionOnSet(v, {x}) = v[x]
  <2> SUFFICES ASSUME NEW x \in R PROVE SumFunctionOnSet(v, {x}) = v[x]
    OBVIOUS
  <2>1. SumFunctionOnSet(v, {} \cup {x}) = SumFunctionOnSet(v, {}) + v[x]
    BY <1>1, FS_EmptySet, SumInsert
  <2>2. {} \cup {x} = {x}
    OBVIOUS
  <2> QED
    BY <1>1, <1>4, <2>1, <2>2
<1>7. \A s \in Seq(R) : SeqSum(v, s) \in Nat
  BY SeqSumIsNat
<1>8. SeqSum(v, <<>>) = 0
  BY SeqSumEmpty
<1>9. \A x \in R : SeqSum(v, <<x>>) = v[x]
  <2> SUFFICES ASSUME NEW x \in R PROVE SeqSum(v, <<x>>) = v[x]
    OBVIOUS
  <2>1. <<x>> = Append(<<>>, x) /\ <<>> \in Seq(R)
    OBVIOUS
  <2>2. SeqSum(v, Append(<<>>, x)) = SeqSum(v, <<>>) + v[x]
    BY <1>1, <2>1, SeqSumAppend, Zenon
  <2> QED
    BY <1>1, <1>8, <2>1, <2>2
<1>10. \A s \in Seq(R), t \in Seq(R) : SeqSum(v, s \o t) = SeqSum(v, s) + SeqSum(v, t)
  BY <1>1, SeqSumConcat
<1>11. \A s \in Seq(R) :
         /\ SumFunctionOnSet(v, Range(s)) <= SeqSum(v, s)
         /\ IsInjective(s) => SumFunctionOnSet(v, Range(s)) = SeqSum(v, s)
  BY SeqSumRange
<1>12. ASSUME NEW s \in Seq(R), NEW n \in Nat, NEW f \in [1..n -> DOMAIN s], IsInjective(f)
       PROVE  SeqSum(v, [i \in 1..n |-> s[f[i]]]) <= SeqSum(v, s)
  <2> DEFINE A == 1..n
             r == [i \in 1..n |-> s[f[i]]]
             g == [i \in DOMAIN r |-> v[r[i]]]
  <2>1. IsFiniteSet(A) /\ DOMAIN r = A
    BY FS_Interval
  <2>2. \A i \in A : f[i] \in DOMAIN s /\ g[i] = v[s[f[i]]]
    OBVIOUS
  <2>3. \A i, j \in A : f[i] = f[j] => i = j
    BY <1>12 DEF IsInjective
  <2>4. SeqSum(v, r) = SumFunctionOnSet(g, A)
    BY <2>1, Zenon DEF SeqSum
  <2> HIDE DEF A, g
  <2>5. IsFiniteSet(A)
    BY <2>1
  <2>6. \A x \in A : f[x] \in DOMAIN s /\ g[x] = v[s[f[x]]]
    BY <2>2, Zenon
  <2>7. \A x, y \in A : f[x] = f[y] => x = y
    BY <2>3, Zenon
  <2>8. SumFunctionOnSet(g, A) <= SeqSum(v, s)
    BY <2>5, <2>6, <2>7, SeqSumChosen, ZenonT(30)
  <2> QED
    BY <2>4, <2>8
<1> QED
  BY <1>3, <1>4, <1>5, <1>6, <1>7, <1>8, <1>9, <1>10, <1>11, <1>12, Zenon DEF Weighs
=============================================================================
