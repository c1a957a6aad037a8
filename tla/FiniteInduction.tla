--------------------------- MODULE FiniteInduction ---------------------------
(***************************************************************************)
(* Induction in the form that the proofs about the models use it: over a   *)
(* set that holds 0 and with every number its successor, and over the      *)
(* subsets of a finite set.  What a sum over a function computes follows.  *)
(***************************************************************************)
EXTENDS Integers, FiniteSets, Functions, FiniteSetTheorems,
        WellFoundedInduction, TLAPS

\* A nonempty set of natural numbers has a least element.
LEMMA LeastNumber ==
  ASSUME NEW T, T \subseteq Nat, T # {}
  PROVE  \E x \in T : \A y \in T : ~(y < x)
<1> DEFINE R == {ss \in Nat \X Nat : ss[1] < ss[2]}
<1>1. IsWellFoundedOn(R, Nat)
  BY NatLessThanWellFounded, Zenon DEF OpToRel
<1>2. \A x \in Nat, y \in Nat : y < x => <<y, x>> \in R
  OBVIOUS
<1> HIDE DEF R
<1>3. \E x \in T : \A y \in T : ~(<<y, x>> \in R)
  BY <1>1, WFMin, Zenon
<1> QED
  BY <1>2, <1>3, Zenon

\* A set that holds 0 and the successor of each of its numbers holds them all.
LEMMA NatInductive ==
  ASSUME NEW S, 0 \in S, \A n \in Nat : n \in S => n + 1 \in S
  PROVE  Nat \subseteq S
<1> SUFFICES ASSUME Nat \ S # {} PROVE FALSE
  OBVIOUS
<1>1. PICK x \in Nat \ S : \A y \in Nat \ S : ~(y < x)
  BY LeastNumber, Zenon
<1>2. x # 0
  OBVIOUS
<1>3. x - 1 \in Nat /\ x - 1 < x /\ (x - 1) + 1 = x
  BY <1>2
<1>4. x - 1 \in S
  BY <1>1, <1>3
<1> QED
  BY <1>3, <1>4

\* A nonempty set of numbers up to n has a greatest element.
LEMMA GreatestNumber ==
  ASSUME NEW n \in Nat, NEW T, T \subseteq 1..n, T # {}
  PROVE  \E x \in T : \A y \in T : y <= x
<1> DEFINE M == {n - x : x \in T}
<1>1. M \subseteq Nat /\ M # {}
  <2>1. \A x \in T : n - x \in Nat
    OBVIOUS
  <2>2. PICK x : x \in T
    OBVIOUS
  <2>3. n - x \in M
    BY <2>2
  <2> QED
    BY <2>1, <2>3
<1> HIDE DEF M
<1>2. PICK m \in M : \A k \in M : ~(k < m)
  BY <1>1, LeastNumber, Zenon
<1>3. PICK x \in T : m = n - x
  BY DEF M
<1>4. ASSUME NEW y \in T PROVE y <= x
  <2>1. n - y \in M /\ x \in Int /\ y \in Int
    BY DEF M
  <2> QED
    BY <1>2, <1>3, <2>1
<1> QED
  BY <1>4

\* The subsets of D of at most n elements.
UpTo(D, n) == {s \in SUBSET D : Cardinality(s) <= n}

\* Of no elements there is the empty set, and of as many as D has there are all.
LEMMA UpToEnds ==
  ASSUME NEW D, IsFiniteSet(D)
  PROVE  /\ \A s \in UpTo(D, 0) : s = {}
         /\ UpTo(D, Cardinality(D)) = SUBSET D
         /\ D \in UpTo(D, Cardinality(D))
         /\ Cardinality(D) \in Nat
         /\ \A n \in Nat : UpTo(D, n) \subseteq UpTo(D, n + 1)
<1>1. \A s \in SUBSET D : /\ IsFiniteSet(s) /\ Cardinality(s) \in Nat
                          /\ Cardinality(s) <= Cardinality(D)
                          /\ Cardinality(s) = 0 => s = {}
  BY FS_Subset, FS_EmptySet, FS_CardinalityType
<1>2. Cardinality(D) \in Nat
  BY FS_CardinalityType
<1> QED
  BY <1>1, <1>2 DEF UpTo

\* What SumFunction adds up for a set s of indices, given the sums iter of the
\* smaller sets.
SumOf(f, iter, s) ==
  IF s = {} THEN 0
  ELSE f[CHOOSE x \in s : TRUE] + iter[s \ {CHOOSE x \in s : TRUE}]

\* SumFunction is the recursive function of its definition at the whole domain.
LEMMA SumUnfolds ==
  ASSUME NEW f
  PROVE  SumFunction(f) =
           (CHOOSE iter : iter = [s \in SUBSET DOMAIN f |-> SumOf(f, iter, s)])
             [DOMAIN f]
  BY DEF SumFunction, SumFunctionOnSet, FoldFunctionOnSet, MapThenFoldSet, SumOf

\* Without one element a nonempty finite set is smaller by one.
LEMMA OneLess ==
  ASSUME NEW D, IsFiniteSet(D), NEW s \in SUBSET D, s # {}
  PROVE  LET x == CHOOSE y \in s : TRUE
         IN  /\ x \in s
             /\ s \ {x} \in SUBSET D
             /\ Cardinality(s \ {x}) = Cardinality(s) - 1
             /\ Cardinality(s) \in Nat
<1>1. IsFiniteSet(s) /\ Cardinality(s) \in Nat
  BY FS_Subset, FS_CardinalityType
<1> DEFINE x == CHOOSE y \in s : TRUE
<1>2. x \in s
  OBVIOUS
<1> HIDE DEF x
<1>3. Cardinality(s \ {x}) = Cardinality(s) - 1
  BY <1>1, <1>2, FS_RemoveElement, Zenon
<1> QED
  BY <1>1, <1>2, <1>3 DEF x

\* The recursion has a solution on the subsets of up to n elements, for every n.
LEMMA SumExistsUpTo ==
  ASSUME NEW f, IsFiniteSet(DOMAIN f), NEW n \in Nat
  PROVE  \E iter : iter = [s \in UpTo(DOMAIN f, n) |-> SumOf(f, iter, s)]
<1> DEFINE D == DOMAIN f
           N == {m \in Nat : \E iter :
                   iter = [s \in UpTo(D, m) |-> SumOf(f, iter, s)]}
<1>1. 0 \in N
  <2> DEFINE h == [s \in UpTo(D, 0) |-> 0]
  <2>1. ASSUME NEW s \in UpTo(D, 0) PROVE s = {}
    BY FS_Subset, FS_EmptySet, FS_CardinalityType DEF UpTo
  <2>2. h = [s \in UpTo(D, 0) |-> SumOf(f, h, s)]
    BY <2>1 DEF SumOf
  <2> QED
    BY <2>2
<1>2. ASSUME NEW m \in Nat, m \in N PROVE m + 1 \in N
  <2>1. PICK g : g = [s \in UpTo(D, m) |-> SumOf(f, g, s)]
    BY <1>2
  <2> DEFINE h == [s \in UpTo(D, m + 1) |->
                     IF s \in UpTo(D, m) THEN g[s] ELSE SumOf(f, g, s)]
  <2>2. ASSUME NEW s \in UpTo(D, m + 1), s # {}
        PROVE  s \ {CHOOSE x \in s : TRUE} \in UpTo(D, m)
    BY <2>2, OneLess DEF UpTo
  <2>3. ASSUME NEW s \in UpTo(D, m)
        PROVE  s \in UpTo(D, m + 1)
    BY FS_Subset, FS_CardinalityType DEF UpTo
  <2>4. ASSUME NEW s \in UpTo(D, m + 1)
        PROVE  SumOf(f, h, s) = SumOf(f, g, s)
    BY <2>2, <2>3 DEF SumOf
  <2>5. \A s \in UpTo(D, m + 1) : h[s] = SumOf(f, g, s)
    BY <2>1
  <2>6. h = [s \in UpTo(D, m + 1) |-> SumOf(f, h, s)]
    BY <2>4, <2>5
  <2> HIDE DEF h, D
  <2>7. \E iter : iter = [s \in UpTo(D, m + 1) |-> SumOf(f, iter, s)]
    BY <2>6, Zenon
  <2>8. m + 1 \in Nat
    OBVIOUS
  <2> QED
    BY <2>7, <2>8, Zenon
<1>3. Nat \subseteq N
  BY <1>1, <1>2, NatInductive, Zenon
<1> QED
  BY <1>3

\* Over a finite domain the sum obeys its recursion.
LEMMA SumRecursion ==
  ASSUME NEW f, IsFiniteSet(DOMAIN f)
  PROVE  \E iter : /\ iter = [s \in SUBSET DOMAIN f |-> SumOf(f, iter, s)]
                   /\ SumFunction(f) = iter[DOMAIN f]
<1>1. UpTo(DOMAIN f, Cardinality(DOMAIN f)) = SUBSET DOMAIN f
  BY FS_Subset DEF UpTo
<1>2. Cardinality(DOMAIN f) \in Nat
  BY FS_CardinalityType
<1>3. \E iter : iter = [s \in UpTo(DOMAIN f, Cardinality(DOMAIN f)) |->
                          SumOf(f, iter, s)]
  BY <1>2, SumExistsUpTo, Zenon
<1>4. \E iter : iter = [s \in SUBSET DOMAIN f |-> SumOf(f, iter, s)]
  BY <1>1, <1>3, Zenon
<1> QED
  BY <1>4, SumUnfolds, Zenon

\* iter adds up f over the subsets of its domain K.
AddsUp(iter, f, K) ==
  /\ iter = [s \in SUBSET K |-> SumOf(f, iter, s)]
  /\ SumFunction(f) = iter[K]

\* Over a finite domain there is such a function.
LEMMA SumAddsUp ==
  ASSUME NEW K, IsFiniteSet(K), NEW f, DOMAIN f = K
  PROVE  \E iter : AddsUp(iter, f, K)
<1>1. \E iter : /\ iter = [s \in SUBSET DOMAIN f |-> SumOf(f, iter, s)]
                /\ SumFunction(f) = iter[DOMAIN f]
  BY SumRecursion, Zenon
<1> QED
  BY <1>1, Zenon DEF AddsUp

\* The sum of the sizes of disjoint finite sets is the size of their union.
LEMMA SumOfSizes ==
  ASSUME NEW K, IsFiniteSet(K), NEW A, DOMAIN A = K,
         \A k \in K : IsFiniteSet(A[k]),
         \A k, l \in K : k # l => A[k] \cap A[l] = {},
         NEW f, f = [k \in K |-> Cardinality(A[k])],
         NEW U, U = UNION {A[k] : k \in K}
  PROVE  IsFiniteSet(U) /\ SumFunction(f) = Cardinality(U)
<1> DEFINE All(s) == UNION {A[k] : k \in s}
<1>0. PICK iter : AddsUp(iter, f, K)
  <2>1. DOMAIN f = K
    OBVIOUS
  <2> QED
    BY <2>1, SumAddsUp, Zenon
<1>1. iter = [s \in SUBSET K |-> SumOf(f, iter, s)] /\ SumFunction(f) = iter[K]
  BY <1>0, Zenon DEF AddsUp
<1> DEFINE N == {n \in Nat : \A s \in UpTo(K, n) :
                   IsFiniteSet(All(s)) /\ iter[s] = Cardinality(All(s))}
<1>2. 0 \in N
  <2>1. ASSUME NEW s \in UpTo(K, 0)
        PROVE  IsFiniteSet(All(s)) /\ iter[s] = Cardinality(All(s))
    <3>1. s = {}
      BY FS_Subset, FS_EmptySet, FS_CardinalityType DEF UpTo
    <3>2. All(s) = {} /\ iter[s] = 0
      BY <1>1, <3>1 DEF SumOf
    <3> QED
      BY <3>2, FS_EmptySet
  <2> QED
    BY <2>1
<1>3. ASSUME NEW n \in Nat, n \in N PROVE n + 1 \in N
  <2>1. ASSUME NEW s \in UpTo(K, n + 1)
        PROVE  IsFiniteSet(All(s)) /\ iter[s] = Cardinality(All(s))
    <3>1. CASE s = {}
      <4>1. All(s) = {} /\ iter[s] = 0
        BY <1>1, <3>1 DEF SumOf
      <4> QED
        BY <4>1, FS_EmptySet, Zenon
    <3>2. CASE s # {}
      <4> DEFINE x == CHOOSE y \in s : TRUE
                 t == s \ {x}
      <4>1. x \in s /\ t \in UpTo(K, n) /\ s \in SUBSET K
        BY <3>2, OneLess DEF UpTo
      <4>2. iter[s] = Cardinality(A[x]) + iter[t]
        BY <1>1, <3>2, <4>1, Zenon DEF SumOf
      <4> HIDE DEF x
      <4>3. IsFiniteSet(All(t)) /\ iter[t] = Cardinality(All(t))
        BY <1>3, <4>1
      <4>4. All(s) = A[x] \cup All(t) /\ A[x] \cap All(t) = {} /\ IsFiniteSet(A[x])
        BY <4>1
      <4> HIDE DEF All, t
      <4>5. /\ IsFiniteSet(All(s))
            /\ Cardinality(All(s)) = Cardinality(A[x]) + Cardinality(All(t)) - Cardinality({})
        BY <4>3, <4>4, FS_Union
      <4>6. Cardinality({}) = 0 /\ Cardinality(A[x]) \in Nat /\ Cardinality(All(t)) \in Nat
        BY <4>3, <4>4, FS_EmptySet, FS_CardinalityType
      <4> QED
        BY <4>2, <4>3, <4>5, <4>6
    <3> QED
      BY <3>1, <3>2, Zenon
  <2>2. n + 1 \in Nat
    OBVIOUS
  <2> QED
    BY <2>1, <2>2, Zenon
<1>4. Cardinality(K) \in N /\ K \in UpTo(K, Cardinality(K))
  <2>1. Cardinality(K) \in Nat
    BY FS_CardinalityType
  <2> HIDE DEF N
  <2>2. Nat \subseteq N
    BY <1>2, <1>3, NatInductive
  <2> QED
    BY <2>1, <2>2 DEF UpTo
<1> QED
  BY <1>1, <1>4, Zenon

=============================================================================
