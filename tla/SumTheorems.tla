---------------------------- MODULE SumTheorems ----------------------------
(***************************************************************************)
(* Facts about the sums the byte counters of the models are compared with: *)
(* SumFunctionOnSet and SumFunction of the module Functions, over finite   *)
(* index sets, and that other folds over finite sets exist.  The induction *)
(* they need is over sets of sets, so that every step is first-order.      *)
(***************************************************************************)
EXTENDS Integers, FiniteSets, Functions, WellFoundedInduction, FiniteSetTheorems, TLAPS

(* A nonempty set of naturals has a least element.                         *)
LEMMA LeastNatural ==
    ASSUME NEW T \in SUBSET Nat, T # {}
    PROVE  \E x \in T : \A y \in T : x <= y
<1>1. IsWellFoundedOn(OpToRel(<, Nat), Nat)
  BY NatLessThanWellFounded
<1>2. PICK x \in T : \A y \in T : ~(<<y, x>> \in OpToRel(<, Nat))
  BY <1>1, WFMin
<1>3. \A y \in T : ~(y < x)
  BY <1>2 DEF OpToRel
<1> QED
  BY <1>3

(* Induction over the subsets of a finite set: what holds of a set whenever *)
(* it holds of the set without any one of its elements holds of all.       *)
LEMMA SubsetInduction ==
    ASSUME NEW S, IsFiniteSet(S), NEW Good \in SUBSET (SUBSET S),
           \A T \in SUBSET S : (\A x \in T : T \ {x} \in Good) => T \in Good
    PROVE  Good = SUBSET S
<1> SUFFICES ASSUME (SUBSET S) \ Good # {} PROVE FALSE
  OBVIOUS
<1> DEFINE Bad == {Cardinality(T) : T \in (SUBSET S) \ Good}
<1>1. \A T \in SUBSET S : IsFiniteSet(T) /\ Cardinality(T) \in Nat
  BY FS_Subset, FS_CardinalityType
<1>2. Bad \in SUBSET Nat /\ Bad # {}
  BY <1>1
<1>3. PICK n \in Bad : \A m \in Bad : n <= m
  <2> HIDE DEF Bad
  <2> QED
    BY <1>2, LeastNatural
<1>4. PICK T \in (SUBSET S) \ Good : Cardinality(T) = n
  BY <1>3
<1>5. ASSUME NEW x \in T PROVE T \ {x} \in Good
  <2>1. IsFiniteSet(T) /\ Cardinality(T \ {x}) = Cardinality(T) - 1
    BY <1>1, <1>4, FS_RemoveElement
  <2>2. T \ {x} \in SUBSET S /\ Cardinality(T \ {x}) \in Nat
    BY <1>1, <1>4
  <2>3. Cardinality(T \ {x}) < n
    BY <1>2, <1>3, <1>4, <2>1, <2>2
  <2>4. Cardinality(T \ {x}) \notin Bad
    <3> HIDE DEF Bad
    <3> QED
      BY <1>2, <1>3, <2>2, <2>3
  <2> QED
    BY <2>2, <2>4
<1> QED
  BY <1>4, <1>5

-----------------------------------------------------------------------------
(* The element a sum takes out of s first, and the recursion that defines  *)
(* the sum over the subsets of S.                                          *)
First(s) == CHOOSE x \in s : TRUE

Unfolds(f, C, g) ==
    g = [s \in C |-> IF s = {} THEN 0 ELSE f[First(s)] + g[s \ {First(s)}]]

Iter(f, S) == CHOOSE g : Unfolds(f, SUBSET S, g)

LEMMA SumIsIter ==
    ASSUME NEW f, NEW S
    PROVE  SumFunctionOnSet(f, S) = Iter(f, S)[S]
BY DEF SumFunctionOnSet, FoldFunctionOnSet, MapThenFoldSet, Iter, Unfolds, First

LEMMA FirstIn ==
    ASSUME NEW s, s # {}
    PROVE  First(s) \in s
BY DEF First

(* Induction over the naturals, with a set for the predicate.              *)
LEMMA SetInduction ==
    ASSUME NEW N \in SUBSET Nat, 0 \in N, \A n \in N : n + 1 \in N
    PROVE  N = Nat
<1> SUFFICES ASSUME Nat \ N # {} PROVE FALSE
  OBVIOUS
<1>1. PICK x \in Nat \ N : \A y \in Nat \ N : x <= y
  BY LeastNatural
<1>2. x # 0 /\ x - 1 \in Nat
  BY <1>1
<1>3. x - 1 \in N
  BY <1>1, <1>2
<1>4. (x - 1) + 1 \in N
  BY <1>3
<1> QED
  BY <1>1, <1>2, <1>4

LEMMA IterExists ==
    ASSUME NEW f, NEW S, IsFiniteSet(S)
    PROVE  Unfolds(f, SUBSET S, Iter(f, S))
<1> DEFINE UpTo(n) == {s \in SUBSET S : Cardinality(s) <= n}
           N == {n \in Nat : \E g : Unfolds(f, UpTo(n), g)}
<1>1. \A T \in SUBSET S : IsFiniteSet(T) /\ Cardinality(T) \in Nat
  BY FS_Subset, FS_CardinalityType
<1>2. \A s \in SUBSET S : s # {} =>
        /\ First(s) \in s /\ s \ {First(s)} \in SUBSET S
        /\ Cardinality(s \ {First(s)}) = Cardinality(s) - 1
  BY <1>1, FirstIn, FS_RemoveElement
<1>3. 0 \in N
  <2> DEFINE g == [s \in UpTo(0) |-> 0]
  <2>1. \A s \in UpTo(0) : s = {}
    BY <1>1, FS_EmptySet
  <2>2. Unfolds(f, UpTo(0), g)
    BY <2>1 DEF Unfolds
  <2> QED
    BY <2>2
<1>4. ASSUME NEW n \in N PROVE n + 1 \in N
  <2>1. PICK g : Unfolds(f, UpTo(n), g)
    OBVIOUS
  <2> DEFINE h == [s \in UpTo(n + 1) |-> IF s = {} THEN 0 ELSE f[First(s)] + g[s \ {First(s)}]]
  <2>2. \A s \in UpTo(n + 1) : s # {} => s \ {First(s)} \in UpTo(n)
    BY <1>1, <1>2
  <2>3. UpTo(n) \subseteq UpTo(n + 1)
    BY <1>1
  <2>4. \A s \in UpTo(n) : h[s] = g[s]
    BY <2>1, <2>3 DEF Unfolds
  <2>5. Unfolds(f, UpTo(n + 1), h)
    <3> HIDE DEF UpTo
    <3>1. \A s \in UpTo(n + 1) : h[s] = IF s = {} THEN 0 ELSE f[First(s)] + h[s \ {First(s)}]
      BY <2>2, <2>3, <2>4
    <3> QED
      BY <3>1 DEF Unfolds
  <2> HIDE DEF h
  <2> QED
    BY <2>5
<1>5. N = Nat
  <2> HIDE DEF N
  <2>1. N \in SUBSET Nat
    BY DEF N
  <2> QED
    BY <1>3, <1>4, <2>1, SetInduction
<1>6. Cardinality(S) \in N
  BY <1>1, <1>5
<1>7. UpTo(Cardinality(S)) = SUBSET S
  BY <1>1, FS_Subset
<1>8. \E g : Unfolds(f, SUBSET S, g)
  BY <1>6, <1>7
<1> QED
  BY <1>8 DEF Iter

(* The sum over a part of S is what the recursion over S computes for it.  *)
LEMMA IterAgrees ==
    ASSUME NEW f, NEW S, IsFiniteSet(S), NEW T \in SUBSET S
    PROVE  Iter(f, S)[T] = SumFunctionOnSet(f, T)
<1>1. Unfolds(f, SUBSET S, Iter(f, S)) /\ Unfolds(f, SUBSET T, Iter(f, T)) /\ IsFiniteSet(T)
  BY IterExists, FS_Subset
<1> DEFINE Good == {s \in SUBSET T : Iter(f, S)[s] = Iter(f, T)[s]}
<1>2. ASSUME NEW s \in SUBSET T, \A x \in s : s \ {x} \in Good
      PROVE  s \in Good
  <2>1. s \in SUBSET S
    OBVIOUS
  <2>2. /\ Iter(f, S)[s] = IF s = {} THEN 0 ELSE f[First(s)] + Iter(f, S)[s \ {First(s)}]
        /\ Iter(f, T)[s] = IF s = {} THEN 0 ELSE f[First(s)] + Iter(f, T)[s \ {First(s)}]
    BY <1>1, <2>1 DEF Unfolds
  <2> QED
    BY <1>2, <2>2, FirstIn
<1>3. Good = SUBSET T
  <2> HIDE DEF Good
  <2>1. Good \in SUBSET (SUBSET T)
    BY DEF Good
  <2> QED
    BY <1>1, <1>2, <2>1, SubsetInduction
<1>4. T \in Good
  BY <1>3
<1> QED
  BY <1>4, SumIsIter

(* What defines a sum: nothing sums to zero, and any other sum is its first *)
(* term and the sum of the rest.                                           *)
LEMMA SumUnfolds ==
    ASSUME NEW f, NEW S, IsFiniteSet(S)
    PROVE  SumFunctionOnSet(f, S) =
             IF S = {} THEN 0 ELSE f[First(S)] + SumFunctionOnSet(f, S \ {First(S)})
<1>1. Iter(f, S)[S] = IF S = {} THEN 0 ELSE f[First(S)] + Iter(f, S)[S \ {First(S)}]
  <2>1. Unfolds(f, SUBSET S, Iter(f, S))
    BY IterExists
  <2> QED
    BY <2>1 DEF Unfolds
<1>2. Iter(f, S)[S \ {First(S)}] = SumFunctionOnSet(f, S \ {First(S)})
  BY IterAgrees
<1> QED
  BY <1>1, <1>2, SumIsIter

-----------------------------------------------------------------------------
(* A sum of integers is one.                                               *)
LEMMA SumIsInt ==
    ASSUME NEW S, IsFiniteSet(S), NEW f, \A x \in S : f[x] \in Int
    PROVE  SumFunctionOnSet(f, S) \in Int
<1> DEFINE Good == {T \in SUBSET S : SumFunctionOnSet(f, T) \in Int}
<1>1. ASSUME NEW T \in SUBSET S, \A x \in T : T \ {x} \in Good
      PROVE  T \in Good
  <2>1. IsFiniteSet(T)
    BY FS_Subset
  <2>2. SumFunctionOnSet(f, T) =
          IF T = {} THEN 0 ELSE f[First(T)] + SumFunctionOnSet(f, T \ {First(T)})
    BY <2>1, SumUnfolds
  <2>3. CASE T = {}
    BY <2>2, <2>3
  <2>4. CASE T # {}
    <3>1. f[First(T)] \in Int /\ SumFunctionOnSet(f, T \ {First(T)}) \in Int
      BY <1>1, <2>4, FirstIn
    <3> QED
      BY <2>2, <2>4, <3>1
  <2> QED
    BY <2>3, <2>4
<1>2. Good = SUBSET S
  <2> HIDE DEF Good
  <2>1. Good \in SUBSET (SUBSET S)
    BY DEF Good
  <2> QED
    BY <1>1, <2>1, SubsetInduction
<1> QED
  BY <1>2

(* The order does not matter: any term can be taken out first.             *)
LEMMA SumRemove ==
    ASSUME NEW S, IsFiniteSet(S), NEW f, \A x \in S : f[x] \in Int, NEW x \in S
    PROVE  SumFunctionOnSet(f, S) = f[x] + SumFunctionOnSet(f, S \ {x})
<1> DEFINE Total(T) == SumFunctionOnSet(f, T)
           Good == {T \in SUBSET S : \A y \in T : Total(T) = f[y] + Total(T \ {y})}
<1>i. ASSUME NEW T \in SUBSET S PROVE IsFiniteSet(T) /\ Total(T) \in Int
  <2>1. IsFiniteSet(T)
    BY FS_Subset
  <2> QED
    BY <2>1, SumIsInt
<1>s. ASSUME NEW T \in SUBSET S, T # {} PROVE Total(T) = f[First(T)] + Total(T \ {First(T)})
  BY <1>i, <1>s, SumUnfolds
<1> HIDE DEF Total
<1>1. ASSUME NEW T \in SUBSET S, \A y \in T : T \ {y} \in Good
      PROVE  T \in Good
  <2> SUFFICES ASSUME NEW y \in T PROVE Total(T) = f[y] + Total(T \ {y})
    OBVIOUS
  <2> DEFINE c == First(T)
  <2>1. c \in T /\ Total(T) = f[c] + Total(T \ {c})
    BY <1>s, FirstIn
  <2> HIDE DEF c
  <2>2. CASE c = y
    BY <2>1, <2>2
  <2>3. CASE c # y
    <3>1. Total(T \ {c}) = f[y] + Total((T \ {c}) \ {y})
      BY <1>1, <2>1, <2>3
    <3>2. Total(T \ {y}) = f[c] + Total((T \ {y}) \ {c})
      BY <1>1, <2>1, <2>3
    <3>3. (T \ {c}) \ {y} = (T \ {y}) \ {c}
      OBVIOUS
    <3> DEFINE rest == Total((T \ {c}) \ {y})
    <3>4. f[c] \in Int /\ f[y] \in Int /\ rest \in Int
      BY <1>i, <2>1
    <3>5. Total(T \ {c}) = f[y] + rest /\ Total(T \ {y}) = f[c] + rest
      BY <3>1, <3>2, <3>3
    <3> HIDE DEF rest
    <3> QED
      BY <2>1, <3>4, <3>5
  <2> QED
    BY <2>2, <2>3
<1>2. Good = SUBSET S
  <2> HIDE DEF Good
  <2>1. Good \in SUBSET (SUBSET S)
    BY DEF Good
  <2> QED
    BY <1>1, <2>1, SubsetInduction
<1> QED
  BY <1>2 DEF Total

LEMMA SumEmpty ==
    ASSUME NEW f
    PROVE  SumFunctionOnSet(f, {}) = 0
BY SumUnfolds, FS_EmptySet

(* A sum depends on the terms at its indices only.                         *)
LEMMA SumSame ==
    ASSUME NEW S, IsFiniteSet(S), NEW f, NEW g, \A x \in S : f[x] = g[x]
    PROVE  SumFunctionOnSet(f, S) = SumFunctionOnSet(g, S)
<1> DEFINE Good == {T \in SUBSET S : SumFunctionOnSet(f, T) = SumFunctionOnSet(g, T)}
<1>1. ASSUME NEW T \in SUBSET S, \A x \in T : T \ {x} \in Good
      PROVE  T \in Good
  <2>1. IsFiniteSet(T)
    BY FS_Subset
  <2>2. /\ SumFunctionOnSet(f, T) =
             IF T = {} THEN 0 ELSE f[First(T)] + SumFunctionOnSet(f, T \ {First(T)})
        /\ SumFunctionOnSet(g, T) =
             IF T = {} THEN 0 ELSE g[First(T)] + SumFunctionOnSet(g, T \ {First(T)})
    BY <2>1, SumUnfolds
  <2> QED
    BY <1>1, <2>2, FirstIn
<1>2. Good = SUBSET S
  <2> HIDE DEF Good
  <2>1. Good \in SUBSET (SUBSET S)
    BY DEF Good
  <2> QED
    BY <1>1, <2>1, SubsetInduction
<1> QED
  BY <1>2

(* Zeros sum to zero.                                                      *)
LEMMA SumOfZeros ==
    ASSUME NEW S, IsFiniteSet(S), NEW f, \A x \in S : f[x] = 0
    PROVE  SumFunctionOnSet(f, S) = 0
<1> DEFINE Good == {T \in SUBSET S : SumFunctionOnSet(f, T) = 0}
<1>1. ASSUME NEW T \in SUBSET S, \A x \in T : T \ {x} \in Good
      PROVE  T \in Good
  <2>1. IsFiniteSet(T)
    BY FS_Subset
  <2>2. SumFunctionOnSet(f, T) =
          IF T = {} THEN 0 ELSE f[First(T)] + SumFunctionOnSet(f, T \ {First(T)})
    BY <2>1, SumUnfolds
  <2> QED
    BY <1>1, <2>2, FirstIn
<1>2. Good = SUBSET S
  <2> HIDE DEF Good
  <2>1. Good \in SUBSET (SUBSET S)
    BY DEF Good
  <2> QED
    BY <1>1, <2>1, SubsetInduction
<1> QED
  BY <1>2

(* A sum of naturals is one, and no term exceeds it.                       *)
LEMMA SumIsNat ==
    ASSUME NEW S, IsFiniteSet(S), NEW f, \A x \in S : f[x] \in Nat
    PROVE  /\ SumFunctionOnSet(f, S) \in Nat
           /\ \A x \in S : f[x] <= SumFunctionOnSet(f, S)
<1> DEFINE Good == {T \in SUBSET S : SumFunctionOnSet(f, T) \in Nat}
<1>1. ASSUME NEW T \in SUBSET S, \A x \in T : T \ {x} \in Good
      PROVE  T \in Good
  <2>1. IsFiniteSet(T)
    BY FS_Subset
  <2>2. SumFunctionOnSet(f, T) =
          IF T = {} THEN 0 ELSE f[First(T)] + SumFunctionOnSet(f, T \ {First(T)})
    BY <2>1, SumUnfolds
  <2>3. CASE T = {}
    BY <2>2, <2>3
  <2>4. CASE T # {}
    <3>1. f[First(T)] \in Nat /\ SumFunctionOnSet(f, T \ {First(T)}) \in Nat
      BY <1>1, <2>4, FirstIn
    <3> QED
      BY <2>2, <2>4, <3>1
  <2> QED
    BY <2>3, <2>4
<1>2. Good = SUBSET S
  <2> HIDE DEF Good
  <2>1. Good \in SUBSET (SUBSET S)
    BY DEF Good
  <2> QED
    BY <1>1, <2>1, SubsetInduction
<1>3. ASSUME NEW x \in S PROVE f[x] <= SumFunctionOnSet(f, S)
  <2>1. SumFunctionOnSet(f, S) = f[x] + SumFunctionOnSet(f, S \ {x})
    BY SumRemove
  <2>2. S \ {x} \in Good
    BY <1>2
  <2>3. SumFunctionOnSet(f, S \ {x}) \in Nat /\ f[x] \in Nat
    BY <2>2
  <2> QED
    BY <2>1, <2>3
<1> QED
  BY <1>2, <1>3

(* Changing one term changes the sum by as much.                           *)
LEMMA SumChange ==
    ASSUME NEW S, IsFiniteSet(S), NEW x \in S,
           NEW f, \A y \in S : f[y] \in Int, NEW g, g[x] \in Int,
           \A y \in S \ {x} : g[y] = f[y]
    PROVE  SumFunctionOnSet(g, S) = SumFunctionOnSet(f, S) - f[x] + g[x]
<1>1. IsFiniteSet(S \ {x}) /\ \A y \in S : g[y] \in Int
  BY FS_Subset
<1>2. /\ SumFunctionOnSet(f, S) = f[x] + SumFunctionOnSet(f, S \ {x})
      /\ SumFunctionOnSet(g, S) = g[x] + SumFunctionOnSet(g, S \ {x})
  BY <1>1, SumRemove
<1> DEFINE rest == SumFunctionOnSet(f, S \ {x})
<1>3. SumFunctionOnSet(g, S \ {x}) = rest
  BY <1>1, SumSame
<1>4. rest \in Int /\ f[x] \in Int
  BY <1>1, SumIsInt
<1> HIDE DEF rest
<1>5. SumFunctionOnSet(f, S) = f[x] + rest /\ SumFunctionOnSet(g, S) = g[x] + rest
  BY <1>2, <1>3 DEF rest
<1> QED
  BY <1>4, <1>5

(* A part can be taken out at once.                                        *)
LEMMA SumDiff ==
    ASSUME NEW S, IsFiniteSet(S), NEW f, \A x \in S : f[x] \in Int, NEW A \in SUBSET S
    PROVE  SumFunctionOnSet(f, S \ A) = SumFunctionOnSet(f, S) - SumFunctionOnSet(f, A)
<1> DEFINE Total(T) == SumFunctionOnSet(f, T)
           Good == {T \in SUBSET S : Total(S \ T) = Total(S) - Total(T)}
<1>i. ASSUME NEW T \in SUBSET S PROVE IsFiniteSet(T) /\ Total(T) \in Int
  <2>1. IsFiniteSet(T)
    BY FS_Subset
  <2> QED
    BY <2>1, SumIsInt
<1>r. ASSUME NEW T \in SUBSET S, NEW x \in T
      PROVE  Total(T) = f[x] + Total(T \ {x})
  BY <1>i, SumRemove
<1>e. Total({}) = 0
  BY SumEmpty
<1> HIDE DEF Total
<1>1. ASSUME NEW T \in SUBSET S, \A x \in T : T \ {x} \in Good
      PROVE  T \in Good
  <2>1. CASE T = {}
    <3>1. S \ T = S /\ Total(S) \in Int
      BY <1>i, <2>1
    <3> QED
      BY <1>e, <2>1, <3>1
  <2>2. CASE T # {}
    <3>1. PICK x \in T : TRUE
      BY <2>2
    <3> DEFINE U == S \ (T \ {x})
    <3>2. U \in SUBSET S /\ x \in U /\ U \ {x} = S \ T
      OBVIOUS
    <3>3. Total(U) = Total(S) - Total(T \ {x})
      BY <1>1
    <3>4. Total(T) = f[x] + Total(T \ {x})
      BY <1>r
    <3>5. Total(U) = f[x] + Total(S \ T)
      BY <1>r, <3>2
    <3>6. /\ f[x] \in Int /\ Total(T \ {x}) \in Int /\ Total(S) \in Int
          /\ Total(S \ T) \in Int
      BY <1>i
    <3> HIDE DEF U
    <3>7. Total(S \ T) = Total(S) - Total(T)
      BY <3>3, <3>4, <3>5, <3>6
    <3> QED
      BY <3>7
  <2> QED
    BY <2>1, <2>2
<1>2. Good = SUBSET S
  <2> HIDE DEF Good
  <2>1. Good \in SUBSET (SUBSET S)
    BY DEF Good
  <2> QED
    BY <1>1, <2>1, SubsetInduction
<1> QED
  BY <1>2 DEF Total

(* A part of a sum of naturals is no larger than the whole.                *)
LEMMA SumOfPart ==
    ASSUME NEW S, IsFiniteSet(S), NEW f, \A x \in S : f[x] \in Nat, NEW A \in SUBSET S
    PROVE  SumFunctionOnSet(f, A) <= SumFunctionOnSet(f, S)
<1>1. IsFiniteSet(A) /\ IsFiniteSet(S \ A)
  BY FS_Subset
<1> DEFINE s == SumFunctionOnSet(f, S)
           a == SumFunctionOnSet(f, A)
           r == SumFunctionOnSet(f, S \ A)
<1>2. s \in Nat /\ a \in Nat /\ r \in Nat
  BY <1>1, SumIsNat
<1>3. r = s - a
  BY SumDiff
<1> HIDE DEF s, a, r
<1>4. a <= s
  BY <1>2, <1>3
<1> QED
  BY <1>4 DEF a, s

(* Renaming the indices one to one does not change a sum.                  *)
LEMMA SumRenamed ==
    ASSUME NEW S, IsFiniteSet(S), NEW m, \A x, y \in S : m[x] = m[y] => x = y,
           NEW f, NEW g, \A x \in S : g[x] = f[m[x]] /\ g[x] \in Int,
           NEW R, R = {m[x] : x \in S}
    PROVE  /\ IsFiniteSet(R) /\ Cardinality(R) = Cardinality(S)
           /\ SumFunctionOnSet(f, R) = SumFunctionOnSet(g, S)
<1> DEFINE Image(T) == {m[x] : x \in T}
           Good == {T \in SUBSET S : /\ IsFiniteSet(Image(T))
                                     /\ Cardinality(Image(T)) = Cardinality(T)
                                     /\ SumFunctionOnSet(f, Image(T)) = SumFunctionOnSet(g, T)}
<1>1. ASSUME NEW T \in SUBSET S, \A x \in T : T \ {x} \in Good
      PROVE  T \in Good
  <2>1. CASE T = {}
    <3>1. Image(T) = {}
      BY <2>1
    <3> QED
      BY <2>1, <3>1, SumEmpty, FS_EmptySet
  <2>2. CASE T # {}
    <3>1. PICK x \in T : TRUE
      BY <2>2
    <3>2. /\ m[x] \in Image(T) /\ Image(T) \ {m[x]} = Image(T \ {x})
          /\ Image(T) = Image(T \ {x}) \cup {m[x]} /\ m[x] \notin Image(T \ {x})
      OBVIOUS
    <3>3. /\ IsFiniteSet(Image(T \ {x})) /\ IsFiniteSet(T)
          /\ Cardinality(Image(T \ {x})) = Cardinality(T \ {x})
          /\ SumFunctionOnSet(f, Image(T \ {x})) = SumFunctionOnSet(g, T \ {x})
      BY <1>1, FS_Subset
    <3>4. \A y \in Image(T) : f[y] \in Int
      OBVIOUS
    <3>5. f[m[x]] = g[x]
      OBVIOUS
    <3> HIDE DEF Image
    <3>6. IsFiniteSet(Image(T)) /\ Cardinality(Image(T)) = Cardinality(T)
      <4> DEFINE J == Image(T \ {x})
                 y == m[x]
      <4>1. IsFiniteSet(J) /\ y \notin J /\ Image(T) = J \cup {y}
        BY <3>2, <3>3
      <4> HIDE DEF J, y
      <4>2. IsFiniteSet(Image(T)) /\ Cardinality(Image(T)) = Cardinality(J) + 1
        BY <4>1, FS_AddElement
      <4>3. Cardinality(T \ {x}) = Cardinality(T) - 1 /\ Cardinality(T) \in Nat
        BY <3>3, FS_RemoveElement, FS_CardinalityType
      <4> QED
        BY <3>3, <4>2, <4>3 DEF J
    <3>7. SumFunctionOnSet(f, Image(T)) = f[m[x]] + SumFunctionOnSet(f, Image(T) \ {m[x]})
      BY <3>2, <3>4, <3>6, SumRemove
    <3>8. SumFunctionOnSet(g, T) = g[x] + SumFunctionOnSet(g, T \ {x})
      BY <3>3, SumRemove
    <3> QED
      BY <3>2, <3>3, <3>5, <3>6, <3>7, <3>8
  <2> QED
    BY <2>1, <2>2
<1>2. Good = SUBSET S
  <2> HIDE DEF Good
  <2>1. Good \in SUBSET (SUBSET S)
    BY DEF Good
  <2> QED
    BY <1>1, <2>1, SubsetInduction
<1>3. S \in Good /\ R = Image(S)
  BY <1>2
<1> QED
  BY <1>3

-----------------------------------------------------------------------------
(* Sums over the elements of a sequence, indexed by 1 .. n.                *)
LEMMA Interval ==
    ASSUME NEW n \in Nat
    PROVE  /\ IsFiniteSet(1 .. n)
           /\ n + 1 \in 1 .. n + 1 /\ (1 .. n + 1) \ {n + 1} = 1 .. n
<1>1. IsFiniteSet(1 .. n)
  BY FS_Interval
<1>2. n + 1 \in 1 .. n + 1 /\ (1 .. n + 1) \ {n + 1} = 1 .. n
  OBVIOUS
<1> QED
  BY <1>1, <1>2

(* One more element at the end.                                            *)
LEMMA SumAppend ==
    ASSUME NEW n \in Nat, NEW f, NEW g, g[n + 1] \in Int,
           \A i \in 1 .. n : f[i] \in Int /\ g[i] = f[i]
    PROVE  SumFunctionOnSet(g, 1 .. n + 1) = SumFunctionOnSet(f, 1 .. n) + g[n + 1]
<1>1. IsFiniteSet(1 .. n) /\ IsFiniteSet(1 .. n + 1) /\ n + 1 \in 1 .. n + 1
  BY Interval
<1>2. \A i \in 1 .. n + 1 : g[i] \in Int
  OBVIOUS
<1>3. SumFunctionOnSet(g, 1 .. n + 1) = g[n + 1] + SumFunctionOnSet(g, (1 .. n + 1) \ {n + 1})
  BY <1>1, <1>2, SumRemove
<1>4. SumFunctionOnSet(g, (1 .. n + 1) \ {n + 1}) = SumFunctionOnSet(f, 1 .. n)
  <2>1. (1 .. n + 1) \ {n + 1} = 1 .. n
    BY Interval
  <2>2. SumFunctionOnSet(g, 1 .. n) = SumFunctionOnSet(f, 1 .. n)
    BY <1>1, SumSame
  <2> QED
    BY <2>1, <2>2
<1>5. SumFunctionOnSet(f, 1 .. n) \in Int
  BY <1>1, SumIsInt
<1> QED
  BY <1>3, <1>4, <1>5

(* One element less, at any place.                                         *)
LEMMA SumDelete ==
    ASSUME NEW n \in Nat, NEW k \in 1 .. n + 1,
           NEW f, \A i \in 1 .. n + 1 : f[i] \in Int,
           NEW g, \A i \in 1 .. n : g[i] = IF i < k THEN f[i] ELSE f[i + 1]
    PROVE  SumFunctionOnSet(g, 1 .. n) = SumFunctionOnSet(f, 1 .. n + 1) - f[k]
<1> DEFINE F(m) == SumFunctionOnSet(f, 1 .. m)
           G(m) == SumFunctionOnSet(g, 1 .. m)
           N == {m \in Nat : m + 1 \in k .. n + 1 => G(m) = F(m + 1) - f[k]}
<1>f. ASSUME NEW m \in Nat, m + 1 <= n + 1
      PROVE  F(m + 1) = F(m) + f[m + 1] /\ F(m) \in Int /\ F(m + 1) \in Int
  <2>1. \A i \in 1 .. m : f[i] \in Int
    BY <1>f
  <2>2. f[m + 1] \in Int
    BY <1>f
  <2>3. F(m) \in Int
    BY <2>1, Interval, SumIsInt
  <2>4. F(m + 1) = F(m) + f[m + 1]
    BY <2>1, <2>2, SumAppend
  <2> QED
    BY <2>2, <2>3, <2>4
<1>g. ASSUME NEW m \in Nat, m + 1 <= n
      PROVE  G(m + 1) = G(m) + g[m + 1] /\ G(m) \in Int
  <2>0. \A i \in 1 .. n : g[i] \in Int
    <3> SUFFICES ASSUME NEW i \in 1 .. n PROVE g[i] \in Int
      OBVIOUS
    <3>1. i \in 1 .. n + 1 /\ i + 1 \in 1 .. n + 1
      OBVIOUS
    <3> QED
      BY <3>1
  <2>1. \A i \in 1 .. m : g[i] \in Int
    BY <1>g, <2>0
  <2>2. g[m + 1] \in Int
    BY <1>g, <2>0
  <2>3. G(m) \in Int
    BY <2>1, Interval, SumIsInt
  <2>4. G(m + 1) = G(m) + g[m + 1]
    BY <2>1, <2>2, SumAppend
  <2> QED
    BY <2>2, <2>3, <2>4
<1>b. ASSUME NEW m \in Nat, m + 1 = k PROVE G(m) = F(m + 1) - f[k]
  <2>1. \A i \in 1 .. m : g[i] = f[i]
    BY <1>b
  <2>2. G(m) = F(m)
    BY <2>1, Interval, SumSame
  <2>3. F(m + 1) = F(m) + f[k] /\ F(m) \in Int /\ f[k] \in Int
    BY <1>b, <1>f
  <2> HIDE DEF F, G
  <2> QED
    BY <2>2, <2>3
<1> HIDE DEF F, G
<1>1. 0 \in N
  BY <1>b
<1>2. ASSUME NEW m \in N PROVE m + 1 \in N
  <2> SUFFICES ASSUME m + 2 \in k .. n + 1 PROVE G(m + 1) = F(m + 2) - f[k]
    OBVIOUS
  <2>1. CASE m + 2 = k
    BY <2>1, <1>b
  <2>2. CASE m + 2 # k
    <3>1. m \in Nat /\ m + 1 \in k .. n + 1 /\ m + 1 <= n /\ ~(m + 1 < k) /\ m + 1 \in 1 .. n
      BY <2>2
    <3>2. G(m) = F(m + 1) - f[k]
      BY <3>1
    <3>3. G(m + 1) = G(m) + g[m + 1] /\ G(m) \in Int
      BY <3>1, <1>g
    <3>4. g[m + 1] = f[m + 2]
      BY <3>1
    <3>5. m + 1 \in Nat /\ (m + 1) + 1 <= n + 1 /\ (m + 1) + 1 = m + 2
      BY <3>1
    <3>6. F(m + 2) = F(m + 1) + f[m + 2] /\ F(m + 1) \in Int
      BY <3>5, <1>f
    <3>7. f[m + 2] \in Int /\ f[k] \in Int
      BY <3>1
    <3> QED
      BY <3>2, <3>3, <3>4, <3>6, <3>7
  <2> QED
    BY <2>1, <2>2
<1>3. N = Nat
  <2> HIDE DEF N
  <2>1. N \in SUBSET Nat
    BY DEF N
  <2> QED
    BY <1>1, <1>2, <2>1, SetInduction
<1>4. n \in N
  BY <1>3
<1> QED
  BY <1>4 DEF F, G

-----------------------------------------------------------------------------
(* Other folds over a finite set: the recursion with any function h of an  *)
(* element and of the result for the rest has a solution.                  *)
FoldsWith(h, base, C, g) ==
    g = [s \in C |-> IF s = {} THEN base ELSE h[<<First(s), g[s \ {First(s)}]>>]]

LEMMA FoldExists ==
    ASSUME NEW h, NEW base, NEW S, IsFiniteSet(S)
    PROVE  \E g : FoldsWith(h, base, SUBSET S, g)
<1> DEFINE UpTo(n) == {s \in SUBSET S : Cardinality(s) <= n}
           N == {n \in Nat : \E g : FoldsWith(h, base, UpTo(n), g)}
<1>1. \A T \in SUBSET S : IsFiniteSet(T) /\ Cardinality(T) \in Nat
  BY FS_Subset, FS_CardinalityType
<1>2. \A s \in SUBSET S : s # {} =>
        /\ First(s) \in s /\ s \ {First(s)} \in SUBSET S
        /\ Cardinality(s \ {First(s)}) = Cardinality(s) - 1
  BY <1>1, FirstIn, FS_RemoveElement
<1>3. 0 \in N
  <2> DEFINE g == [s \in UpTo(0) |-> base]
  <2>1. \A s \in UpTo(0) : s = {}
    BY <1>1, FS_EmptySet
  <2>2. FoldsWith(h, base, UpTo(0), g)
    BY <2>1 DEF FoldsWith
  <2> QED
    BY <2>2
<1>4. ASSUME NEW n \in N PROVE n + 1 \in N
  <2>1. PICK g : FoldsWith(h, base, UpTo(n), g)
    OBVIOUS
  <2> DEFINE k == [s \in UpTo(n + 1) |->
                     IF s = {} THEN base ELSE h[<<First(s), g[s \ {First(s)}]>>]]
  <2>2. \A s \in UpTo(n + 1) : s # {} => s \ {First(s)} \in UpTo(n)
    BY <1>1, <1>2
  <2>3. UpTo(n) \subseteq UpTo(n + 1)
    BY <1>1
  <2>4. \A s \in UpTo(n) : k[s] = g[s]
    BY <2>1, <2>3 DEF FoldsWith
  <2>5. FoldsWith(h, base, UpTo(n + 1), k)
    <3> HIDE DEF UpTo
    <3>1. \A s \in UpTo(n + 1) :
             k[s] = IF s = {} THEN base ELSE h[<<First(s), k[s \ {First(s)}]>>]
      BY <2>2, <2>3, <2>4
    <3> QED
      BY <3>1 DEF FoldsWith
  <2> HIDE DEF k
  <2> QED
    BY <2>5
<1>5. N = Nat
  <2> HIDE DEF N
  <2>1. N \in SUBSET Nat
    BY DEF N
  <2> QED
    BY <1>3, <1>4, <2>1, SetInduction
<1>6. Cardinality(S) \in N
  BY <1>1, <1>5
<1>7. UpTo(Cardinality(S)) = SUBSET S
  BY <1>1, FS_Subset
<1> QED
  BY <1>6, <1>7
=============================================================================
