-------------------------------- MODULE Sums --------------------------------
(***************************************************************************)
(* The sum of the values of the elements of a sequence, and the laws of    *)
(* finite sums that proofs about the exchange (SumLaws) and about the      *)
(* difficulty of the block queue (Weighs) rest on.  SumTheorems proves the *)
(* laws from the definition of the fold; proofs that name them need        *)
(* neither that definition nor induction over finite sets.                 *)
(***************************************************************************)
EXTENDS Integers, Sequences, Functions, FiniteSets

SeqSum(v, s) == SumFunctionOnSet([i \in DOMAIN s |-> v[s[i]]], DOMAIN s)

FiniteSetLaws ==
  /\ IsFiniteSet({})
  /\ \A S, T : IsFiniteSet(S) /\ T \subseteq S => IsFiniteSet(T)
  /\ \A S, x : IsFiniteSet(S) => IsFiniteSet(S \cup {x})
  /\ \A S : IsFiniteSet(S) => Cardinality(S) \in Nat

SumOfNone ==
  \A f : SumFunctionOnSet(f, {}) = 0

SumTypes ==
  \A f, S : IsFiniteSet(S) =>
    /\ (\A x \in S : f[x] \in Int) => SumFunctionOnSet(f, S) \in Int
    /\ (\A x \in S : f[x] \in Nat) => SumFunctionOnSet(f, S) \in Nat

SumRemoves ==
  \A f, S, y : IsFiniteSet(S) /\ (\A x \in S : f[x] \in Int) /\ y \in S
    => SumFunctionOnSet(f, S) = f[y] + SumFunctionOnSet(f, S \ {y})

SumEquals ==
  \A f, g, S : IsFiniteSet(S) /\ (\A x \in S : f[x] = g[x])
    => SumFunctionOnSet(f, S) = SumFunctionOnSet(g, S)

SumUpdates ==
  \A f, g, S, y :
    IsFiniteSet(S) /\ y \in S /\ (\A x \in S : f[x] \in Int /\ g[x] \in Int)
      /\ (\A x \in S : x # y => g[x] = f[x])
    => SumFunctionOnSet(g, S) = (SumFunctionOnSet(f, S) - f[y]) + g[y]

SumUnites ==
  \A f, A, B :
    IsFiniteSet(A) /\ IsFiniteSet(B) /\ A \cap B = {} /\ (\A x \in A \cup B : f[x] \in Int)
    => SumFunctionOnSet(f, A \cup B) = SumFunctionOnSet(f, A) + SumFunctionOnSet(f, B)

SumMultiplies ==
  \A f, S, c : IsFiniteSet(S) /\ c \in Int /\ (\A x \in S : f[x] = c)
    => SumFunctionOnSet(f, S) = c * Cardinality(S)

SeqSumTypes ==
  /\ \A v : SeqSum(v, <<>>) = 0
  /\ \A R, v, s : v \in [R -> Nat] /\ s \in Seq(R) => SeqSum(v, s) \in Nat

SeqSumAppends ==
  \A R, v, s, x : v \in [R -> Int] /\ s \in Seq(R) /\ x \in R
    => SeqSum(v, Append(s, x)) = SeqSum(v, s) + v[x]

SeqSumSplits ==
  \A R, v, s : v \in [R -> Int] /\ s \in Seq(R) /\ s # <<>>
    => SeqSum(v, s) = v[Head(s)] + SeqSum(v, Tail(s))

SumLaws ==
  /\ FiniteSetLaws
  /\ SumOfNone /\ SumTypes /\ SumRemoves /\ SumEquals /\ SumUpdates /\ SumUnites
  /\ SumMultiplies
  /\ SeqSumTypes /\ SeqSumAppends /\ SeqSumSplits

\* What the weights v of the elements of a finite set R add up to, over subsets of R
\* and over sequences of its elements.
Weighs(R, v) ==
  /\ \A T \in SUBSET R : SumFunctionOnSet(v, T) \in Nat
  /\ SumFunctionOnSet(v, {}) = 0
  /\ \A x \in R : SumFunctionOnSet(v, {x}) = v[x]
  /\ \A T \in SUBSET R, W \in SUBSET R : T \cap W = {} =>
       SumFunctionOnSet(v, T \cup W) = SumFunctionOnSet(v, T) + SumFunctionOnSet(v, W)
  /\ \A s \in Seq(R) : SeqSum(v, s) \in Nat
  /\ SeqSum(v, <<>>) = 0
  /\ \A x \in R : SeqSum(v, <<x>>) = v[x]
  /\ \A s \in Seq(R), t \in Seq(R) : SeqSum(v, s \o t) = SeqSum(v, s) + SeqSum(v, t)
  /\ \A s \in Seq(R) :
       /\ SumFunctionOnSet(v, Range(s)) <= SeqSum(v, s)
       /\ IsInjective(s) => SumFunctionOnSet(v, Range(s)) = SeqSum(v, s)
  /\ \A s \in Seq(R), n \in Nat : \A f \in [1..n -> DOMAIN s] :
       IsInjective(f) => SeqSum(v, [i \in 1..n |-> s[f[i]]]) <= SeqSum(v, s)
=============================================================================
