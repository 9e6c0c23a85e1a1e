----------------------------- MODULE SumTheorems -----------------------------
(***************************************************************************)
(* What SumFunctionOnSet of the community modules returns for any finite   *)
(* set.  It is a fold, defined by recursion; what is needed of it follows  *)
(* from the well-foundedness of the subsets of a finite set: a statement   *)
(* about them that fails has a minimal set it fails for.                   *)
(***************************************************************************)
EXTENDS Integers, FiniteSetsExt, FiniteSetTheorems, TLAPS

\* g sums f over the subsets of U, one element at a time, as the folds do.
Sums(f, U, g) ==
  g = [s \in SUBSET U |-> IF s = {} THEN 0
                          ELSE f[CHOOSE x \in s : TRUE] + g[s \ {CHOOSE x \in s : TRUE}]]

(* Of sets of subsets of a finite set one is minimal.                      *)
LEMMA MinimalSubset ==
  ASSUME NEW U, IsFiniteSet(U), NEW T, T \subseteq SUBSET U, T # {}
  PROVE  \E s \in T : \A t \in T : t \subseteq s => t = s
<1>1. IsWellFoundedOn(StrictSubsetOrdering(U), SUBSET U)
  BY FS_StrictSubsetOrderingWellFounded, FS_FiniteSubsetsOfFinite
<1>2. PICK s \in T : \A t \in T : ~(<<t, s>> \in StrictSubsetOrdering(U))
  BY <1>1, WFMin
<1>3. \A t \in T : t \subseteq s => t = s
  BY <1>2 DEF StrictSubsetOrdering
<1> QED BY <1>3

(* Such a function is determined by f.                                     *)
LEMMA SumsUnique ==
  ASSUME NEW f, NEW U, NEW V, IsFiniteSet(U), NEW g, NEW h, Sums(f, U, g), Sums(f, V, h),
         NEW S, S \subseteq U, S \subseteq V
  PROVE  g[S] = h[S]
<1> DEFINE T == {t \in SUBSET S : g[t] # h[t]}
<1> SUFFICES ASSUME T # {} PROVE FALSE
  OBVIOUS
<1>1. IsFiniteSet(S)
  BY FS_Subset
<1>2. PICK s \in T : \A t \in T : t \subseteq s => t = s
  <2>1. T \subseteq SUBSET S
    OBVIOUS
  <2> HIDE DEF T
  <2> QED BY <1>1, <2>1, MinimalSubset
<1>3. s # {}
  BY <1>2 DEF Sums
<1> DEFINE c == CHOOSE x \in s : TRUE
<1>4. c \in s
  BY <1>3
<1>5. g[s] = f[c] + g[s \ {c}] /\ h[s] = f[c] + h[s \ {c}]
  BY <1>2, <1>3 DEF Sums
<1>6. g[s \ {c}] = h[s \ {c}]
  BY <1>2, <1>4
<1> QED BY <1>2, <1>5, <1>6

(* A non-empty set of naturals has a least element.                        *)
LEMMA LeastNat ==
  ASSUME NEW T, T \subseteq Nat, T # {}
  PROVE  \E n \in T : \A m \in T : n <= m
<1>1. IsWellFoundedOn(OpToRel(<, Nat), Nat)
  BY NatLessThanWellFounded
<1>2. PICK n \in T : \A m \in T : ~(<<m, n>> \in OpToRel(<, Nat))
  BY <1>1, WFMin
<1>3. \A m \in T : ~(m < n)
  BY <1>2 DEF OpToRel
<1> QED BY <1>3

Small(U, n) == {s \in SUBSET U : Cardinality(s) <= n}

\* g sums f over the subsets of U that have at most n elements.
SumsTo(f, U, n, g) ==
  g = [s \in Small(U, n) |-> IF s = {} THEN 0
                        ELSE f[CHOOSE x \in s : TRUE] + g[s \ {CHOOSE x \in s : TRUE}]]

LEMMA SubsetSizes ==
  ASSUME NEW U, IsFiniteSet(U), NEW s \in SUBSET U
  PROVE  /\ Cardinality(s) \in Nat /\ Cardinality(s) <= Cardinality(U)
         /\ Cardinality(s) = 0 => s = {}
         /\ \A x \in s : Cardinality(s \ {x}) = Cardinality(s) - 1
<1>1. IsFiniteSet(s) /\ Cardinality(s) <= Cardinality(U)
  BY FS_Subset
<1>2. \A x \in s : Cardinality(s \ {x}) = Cardinality(s) - 1
  BY <1>1, FS_RemoveElement
<1> QED BY <1>1, <1>2, FS_CardinalityType, FS_EmptySet

LEMMA SumsToStep ==
  ASSUME NEW f, NEW U, IsFiniteSet(U), NEW n \in Nat, NEW g, SumsTo(f, U, n, g)
  PROVE  \E h : SumsTo(f, U, n + 1, h)
<1> DEFINE c(s) == CHOOSE x \in s : TRUE
           h == [s \in Small(U, n + 1) |-> IF s = {} THEN 0 ELSE f[c(s)] + g[s \ {c(s)}]]
<1>1. ASSUME NEW s \in Small(U, n + 1), s # {}
      PROVE  s \ {c(s)} \in Small(U, n)
  <2>1. c(s) \in s
    BY <1>1
  <2>2. s \in SUBSET U /\ Cardinality(s) <= n + 1
    BY DEF Small
  <2>3. Cardinality(s) \in Nat /\ Cardinality(s \ {c(s)}) = Cardinality(s) - 1
    BY <2>1, <2>2, SubsetSizes
  <2>4. Cardinality(s \ {c(s)}) <= n
    BY <2>2, <2>3
  <2> QED BY <2>2, <2>4 DEF Small
<1>2. ASSUME NEW s \in Small(U, n) PROVE h[s] = g[s]
  <2>1. s \in SUBSET U /\ Cardinality(s) <= n /\ Cardinality(s) \in Nat
    BY SubsetSizes DEF Small
  <2>2. s \in Small(U, n + 1)
    BY <2>1 DEF Small
  <2>3. g[s] = IF s = {} THEN 0 ELSE f[c(s)] + g[s \ {c(s)}]
    BY DEF SumsTo
  <2> QED BY <2>2, <2>3
<1>3. ASSUME NEW s \in Small(U, n + 1)
      PROVE  h[s] = IF s = {} THEN 0 ELSE f[c(s)] + h[s \ {c(s)}]
  <2>1. h[s] = IF s = {} THEN 0 ELSE f[c(s)] + g[s \ {c(s)}]
    OBVIOUS
  <2>2. s # {} => h[s \ {c(s)}] = g[s \ {c(s)}]
    BY <1>1, <1>2
  <2> HIDE DEF h, c
  <2> QED BY <2>1, <2>2
<1>4. h = [s \in Small(U, n + 1) |-> h[s]]
  OBVIOUS
<1>5. h = [s \in Small(U, n + 1) |-> IF s = {} THEN 0 ELSE f[c(s)] + h[s \ {c(s)}]]
  <2> HIDE DEF h, c
  <2>1. [s \in Small(U, n + 1) |-> h[s]]
          = [s \in Small(U, n + 1) |-> IF s = {} THEN 0 ELSE f[c(s)] + h[s \ {c(s)}]]
    BY <1>3, Zenon
  <2> QED BY <1>4, <2>1, Zenon
<1> HIDE DEF h
<1>6. SumsTo(f, U, n + 1, h)
  BY <1>5, Zenon DEF SumsTo
<1> QED BY <1>6

(* There is one for every finite set: its subsets are taken by size.       *)
LEMMA SumsExist ==
  ASSUME NEW f, NEW U, IsFiniteSet(U)
  PROVE  \E g : Sums(f, U, g)
<1> DEFINE T == {n \in Nat : ~ \E g : SumsTo(f, U, n, g)}
<1>1. \E g : SumsTo(f, U, 0, g)
  <2>1. ASSUME NEW s \in Small(U, 0) PROVE s = {}
    BY SubsetSizes DEF Small
  <2>2. SumsTo(f, U, 0, [s \in Small(U, 0) |-> 0])
    BY <2>1 DEF SumsTo
  <2> QED BY <2>2
<1>2. ASSUME T # {} PROVE FALSE
  <2>1. T \subseteq Nat
    OBVIOUS
  <2>2. PICK n \in T : \A m \in T : n <= m
    <3> HIDE DEF T
    <3> QED BY <1>2, <2>1, LeastNat
  <2>3. n \in Nat /\ n # 0 /\ ~ \E g : SumsTo(f, U, n, g)
    BY <1>1, <2>2
  <2>4. n - 1 \in Nat /\ ~(n <= n - 1) /\ (n - 1) + 1 = n
    BY <2>3
  <2>5. n - 1 \notin T
    <3> HIDE DEF T
    <3> QED BY <2>2, <2>4
  <2>6. PICK g : SumsTo(f, U, n - 1, g)
    BY <2>4, <2>5
  <2>7. \E h : SumsTo(f, U, (n - 1) + 1, h)
    BY <2>4, <2>6, SumsToStep
  <2> QED BY <2>3, <2>4, <2>7
<1>3. Cardinality(U) \in Nat
  BY FS_CardinalityType
<1>4. PICK g : SumsTo(f, U, Cardinality(U), g)
  BY <1>2, <1>3
<1>5. Small(U, Cardinality(U)) = SUBSET U
  BY SubsetSizes DEF Small
<1>6. Sums(f, U, g)
  BY <1>4, <1>5, Zenon DEF Sums, SumsTo
<1> QED BY <1>6

(* The library's sum is one of them.                                       *)
LEMMA SumIsSums ==
  ASSUME NEW f, NEW S, IsFiniteSet(S)
  PROVE  \E g : Sums(f, S, g) /\ SumFunctionOnSet(f, S) = g[S]
<1> DEFINE g == CHOOSE g : Sums(f, S, g)
<1>1. Sums(f, S, g)
  BY SumsExist
<1>2. SumFunctionOnSet(f, S) = g[S]
  BY DEF Sums, SumFunctionOnSet, FoldFunctionOnSet, MapThenFoldSet
<1> HIDE DEF g
<1> QED BY <1>1, <1>2

(* What holds of the empty set, and of a set when it holds of the set      *)
(* without any one of its elements, holds of a finite set: Q are the       *)
(* subsets that it holds of.                                               *)
LEMMA SubsetInduction ==
  ASSUME NEW S, IsFiniteSet(S), NEW Q, {} \in Q,
         \A s \in SUBSET S : s # {} /\ (\A x \in s : s \ {x} \in Q) => s \in Q
  PROVE  S \in Q
<1> DEFINE T == {s \in SUBSET S : s \notin Q}
<1>1. ASSUME T # {} PROVE FALSE
  <2>1. T \subseteq SUBSET S
    OBVIOUS
  <2>2. PICK s \in T : \A t \in T : t \subseteq s => t = s
    <3> HIDE DEF T
    <3> QED BY <1>1, <2>1, MinimalSubset
  <2>3. \A x \in s : s \ {x} \in Q
    BY <2>2
  <2> QED BY <2>2, <2>3
<1> QED BY <1>1

LEMMA SumEmpty == ASSUME NEW f PROVE SumFunctionOnSet(f, {}) = 0
<1>1. PICK g : Sums(f, {}, g) /\ SumFunctionOnSet(f, {}) = g[{}]
  BY SumIsSums, FS_EmptySet
<1>2. g[{}] = 0
  BY <1>1 DEF Sums
<1> QED BY <1>1, <1>2

LEMMA SumChoice ==
  ASSUME NEW f, NEW S, IsFiniteSet(S), S # {}
  PROVE  \E c \in S : SumFunctionOnSet(f, S) = f[c] + SumFunctionOnSet(f, S \ {c})
<1> DEFINE c == CHOOSE x \in S : TRUE
<1>1. PICK g : Sums(f, S, g) /\ SumFunctionOnSet(f, S) = g[S]
  BY SumIsSums
<1>2. IsFiniteSet(S \ {c})
  BY FS_RemoveElement
<1>3. PICK h : Sums(f, S \ {c}, h) /\ SumFunctionOnSet(f, S \ {c}) = h[S \ {c}]
  BY <1>2, SumIsSums
<1>4. g[S] = f[c] + g[S \ {c}]
  BY <1>1 DEF Sums
<1>5. g[S \ {c}] = h[S \ {c}]
  <2>1. S \ {c} \subseteq S
    OBVIOUS
  <2> QED BY <1>1, <1>3, <2>1, SumsUnique
<1>6. c \in S
  OBVIOUS
<1> HIDE DEF c
<1> QED BY <1>1, <1>3, <1>4, <1>5, <1>6

LEMMA SumInt ==
  ASSUME NEW f, NEW S, IsFiniteSet(S), \A x \in S : f[x] \in Int
  PROVE  SumFunctionOnSet(f, S) \in Int
<1> DEFINE Q == {s \in SUBSET S : SumFunctionOnSet(f, s) \in Int}
<1>1. {} \in Q
  BY SumEmpty
<1>2. ASSUME NEW s \in SUBSET S, s # {}, \A x \in s : s \ {x} \in Q
      PROVE  s \in Q
  <2>1. IsFiniteSet(s)
    BY FS_Subset
  <2>2. PICK c \in s : SumFunctionOnSet(f, s) = f[c] + SumFunctionOnSet(f, s \ {c})
    BY <1>2, <2>1, SumChoice
  <2>3. f[c] \in Int /\ SumFunctionOnSet(f, s \ {c}) \in Int
    BY <1>2
  <2> QED BY <2>2, <2>3
<1>3. S \in Q
  <2> HIDE DEF Q
  <2> QED BY <1>1, <1>2, SubsetInduction
<1> QED BY <1>3

(* Any element can be the first one.                                       *)
LEMMA SumRemove ==
  ASSUME NEW f, NEW S, IsFiniteSet(S), \A x \in S : f[x] \in Int, NEW e \in S
  PROVE  SumFunctionOnSet(f, S) = f[e] + SumFunctionOnSet(f, S \ {e})
<1> DEFINE Q == {s \in SUBSET S : \A x \in s :
                   SumFunctionOnSet(f, s) = f[x] + SumFunctionOnSet(f, s \ {x})}
<1>1. {} \in Q
  OBVIOUS
<1>2. ASSUME NEW s \in SUBSET S, s # {}, \A x \in s : s \ {x} \in Q
      PROVE  s \in Q
  <2>1. IsFiniteSet(s)
    BY FS_Subset
  <2>2. PICK c \in s : SumFunctionOnSet(f, s) = f[c] + SumFunctionOnSet(f, s \ {c})
    BY <1>2, <2>1, SumChoice
  <2>4. ASSUME NEW x \in s, x # c
        PROVE  SumFunctionOnSet(f, s) = f[x] + SumFunctionOnSet(f, s \ {x})
    <3>1. s \ {c} \in Q /\ s \ {x} \in Q
      BY <1>2, <2>2
    <3>2. x \in s \ {c} /\ c \in s \ {x} /\ (s \ {c}) \ {x} = (s \ {x}) \ {c}
      BY <2>2, <2>4
    <3>3. SumFunctionOnSet(f, s \ {c}) = f[x] + SumFunctionOnSet(f, (s \ {c}) \ {x})
      BY <3>1, <3>2
    <3>4. SumFunctionOnSet(f, s \ {x}) = f[c] + SumFunctionOnSet(f, (s \ {c}) \ {x})
      BY <3>1, <3>2
    <3>5. f[x] \in Int /\ f[c] \in Int /\ SumFunctionOnSet(f, (s \ {c}) \ {x}) \in Int
      BY <2>2, FS_Subset, SumInt
    <3> QED BY <2>2, <3>3, <3>4, <3>5
  <2> QED BY <2>2, <2>4
<1>3. S \in Q
  <2> HIDE DEF Q
  <2> QED BY <1>1, <1>2, SubsetInduction
<1> QED BY <1>3

(* A sum depends on the function's values on the set only.                 *)
LEMMA SumSame ==
  ASSUME NEW f, NEW g, NEW S, IsFiniteSet(S),
         \A x \in S : f[x] \in Int /\ f[x] = g[x]
  PROVE  SumFunctionOnSet(f, S) = SumFunctionOnSet(g, S)
<1> DEFINE Q == {s \in SUBSET S : SumFunctionOnSet(f, s) = SumFunctionOnSet(g, s)}
<1>1. {} \in Q
  BY SumEmpty
<1>2. ASSUME NEW s \in SUBSET S, s # {}, \A x \in s : s \ {x} \in Q
      PROVE  s \in Q
  <2>1. IsFiniteSet(s) /\ \A x \in s : f[x] \in Int /\ g[x] \in Int
    BY FS_Subset
  <2>2. PICK c \in s : TRUE
    BY <1>2
  <2>3. SumFunctionOnSet(f, s) = f[c] + SumFunctionOnSet(f, s \ {c})
    BY <2>1, <2>2, SumRemove
  <2>4. SumFunctionOnSet(g, s) = g[c] + SumFunctionOnSet(g, s \ {c})
    BY <2>1, <2>2, SumRemove
  <2>5. f[c] = g[c] /\ SumFunctionOnSet(f, s \ {c}) = SumFunctionOnSet(g, s \ {c})
    BY <1>2, <2>2
  <2> QED BY <2>3, <2>4, <2>5
<1>3. S \in Q
  <2> HIDE DEF Q
  <2> QED BY <1>1, <1>2, SubsetInduction
<1> QED BY <1>3

LEMMA SumNat ==
  ASSUME NEW f, NEW S, IsFiniteSet(S), \A x \in S : f[x] \in Nat
  PROVE  SumFunctionOnSet(f, S) \in Nat
<1> DEFINE Q == {s \in SUBSET S : SumFunctionOnSet(f, s) \in Nat}
<1>1. {} \in Q
  BY SumEmpty
<1>2. ASSUME NEW s \in SUBSET S, s # {}, \A x \in s : s \ {x} \in Q
      PROVE  s \in Q
  <2>1. IsFiniteSet(s)
    BY FS_Subset
  <2>2. PICK c \in s : SumFunctionOnSet(f, s) = f[c] + SumFunctionOnSet(f, s \ {c})
    BY <1>2, <2>1, SumChoice
  <2>3. f[c] \in Nat /\ SumFunctionOnSet(f, s \ {c}) \in Nat
    BY <1>2
  <2> QED BY <2>2, <2>3
<1>3. S \in Q
  <2> HIDE DEF Q
  <2> QED BY <1>1, <1>2, SubsetInduction
<1> QED BY <1>3

(* The sum over two sets with no element in common.                        *)
LEMMA SumUnion ==
  ASSUME NEW f, NEW A, NEW B, IsFiniteSet(A), IsFiniteSet(B), A \cap B = {},
         \A x \in A \cup B : f[x] \in Int
  PROVE  SumFunctionOnSet(f, A \cup B) = SumFunctionOnSet(f, A) + SumFunctionOnSet(f, B)
<1> DEFINE Q == {s \in SUBSET A :
                   SumFunctionOnSet(f, s \cup B) = SumFunctionOnSet(f, s) + SumFunctionOnSet(f, B)}
<1>0. SumFunctionOnSet(f, B) \in Int
  BY SumInt
<1>1. {} \in Q
  <2>1. {} \cup B = B
    OBVIOUS
  <2> QED BY <1>0, <2>1, SumEmpty
<1>2. ASSUME NEW s \in SUBSET A, s # {}, \A x \in s : s \ {x} \in Q
      PROVE  s \in Q
  <2>1. PICK c \in s : TRUE
    BY <1>2
  <2>2. IsFiniteSet(s) /\ IsFiniteSet(s \cup B)
    BY FS_Subset, FS_Union
  <2>3. SumFunctionOnSet(f, s) = f[c] + SumFunctionOnSet(f, s \ {c})
    BY <2>1, <2>2, SumRemove
  <2>4. SumFunctionOnSet(f, s \cup B) = f[c] + SumFunctionOnSet(f, (s \cup B) \ {c})
    BY <2>1, <2>2, SumRemove
  <2>5. (s \cup B) \ {c} = (s \ {c}) \cup B
    BY <2>1
  <2>6. SumFunctionOnSet(f, s \ {c}) \in Int /\ f[c] \in Int
    <3>1. IsFiniteSet(s \ {c}) /\ \A x \in s \ {c} : f[x] \in Int
      BY <2>2, FS_Subset
    <3> QED BY <3>1, SumInt
  <2>7. SumFunctionOnSet(f, (s \ {c}) \cup B)
          = SumFunctionOnSet(f, s \ {c}) + SumFunctionOnSet(f, B)
    BY <1>2, <2>1
  <2>8. SumFunctionOnSet(f, s \cup B) = f[c] + SumFunctionOnSet(f, (s \ {c}) \cup B)
    BY <2>4, <2>5, Zenon
  <2>9. SumFunctionOnSet(f, s \cup B) = SumFunctionOnSet(f, s) + SumFunctionOnSet(f, B)
    BY <1>0, <2>3, <2>6, <2>7, <2>8
  <2> QED BY <2>9
<1>3. A \in Q
  <2> HIDE DEF Q
  <2> QED BY <1>1, <1>2, SubsetInduction
<1> QED BY <1>3

LEMMA SumSubset ==
  ASSUME NEW f, NEW S, IsFiniteSet(S), \A x \in S : f[x] \in Nat, NEW R, R \subseteq S
  PROVE  SumFunctionOnSet(f, R) <= SumFunctionOnSet(f, S)
<1>1. IsFiniteSet(R) /\ IsFiniteSet(S \ R)
  BY FS_Subset
<1>2. SumFunctionOnSet(f, R) \in Nat /\ SumFunctionOnSet(f, S \ R) \in Nat
  BY <1>1, SumNat
<1>3. SumFunctionOnSet(f, R \cup (S \ R))
        = SumFunctionOnSet(f, R) + SumFunctionOnSet(f, S \ R)
  BY <1>1, SumUnion
<1>4. R \cup (S \ R) = S
  OBVIOUS
<1>5. SumFunctionOnSet(f, S) = SumFunctionOnSet(f, R) + SumFunctionOnSet(f, S \ R)
  BY <1>3, <1>4
<1> QED BY <1>2, <1>5

(* The sum of the sums of two functions.                                   *)
LEMMA SumPlus ==
  ASSUME NEW f, NEW g, NEW h, NEW S, IsFiniteSet(S),
         \A x \in S : f[x] \in Int /\ g[x] \in Int /\ h[x] = f[x] + g[x]
  PROVE  SumFunctionOnSet(h, S) = SumFunctionOnSet(f, S) + SumFunctionOnSet(g, S)
<1> DEFINE Q == {s \in SUBSET S :
                   SumFunctionOnSet(h, s) = SumFunctionOnSet(f, s) + SumFunctionOnSet(g, s)}
<1>1. {} \in Q
  BY SumEmpty
<1>2. ASSUME NEW s \in SUBSET S, s # {}, \A x \in s : s \ {x} \in Q
      PROVE  s \in Q
  <2>1. /\ \A x \in s : f[x] \in Int /\ g[x] \in Int /\ h[x] = f[x] + g[x]
        /\ \A x \in s : h[x] \in Int
    OBVIOUS
  <2>2. PICK c \in s : TRUE
    BY <1>2
  <2>3. IsFiniteSet(s) /\ IsFiniteSet(s \ {c})
    BY FS_Subset
  <2>4. /\ SumFunctionOnSet(f, s) = f[c] + SumFunctionOnSet(f, s \ {c})
        /\ SumFunctionOnSet(g, s) = g[c] + SumFunctionOnSet(g, s \ {c})
        /\ SumFunctionOnSet(h, s) = h[c] + SumFunctionOnSet(h, s \ {c})
    BY <2>1, <2>2, <2>3, SumRemove
  <2>5. /\ f[c] \in Int /\ g[c] \in Int /\ h[c] = f[c] + g[c]
        /\ SumFunctionOnSet(f, s \ {c}) \in Int /\ SumFunctionOnSet(g, s \ {c}) \in Int
    BY <2>2, <2>3, SumInt
  <2>6. SumFunctionOnSet(h, s \ {c})
          = SumFunctionOnSet(f, s \ {c}) + SumFunctionOnSet(g, s \ {c})
    BY <1>2, <2>2
  <2> QED BY <2>4, <2>5, <2>6
<1>3. S \in Q
  <2> HIDE DEF Q
  <2> QED BY <1>1, <1>2, SubsetInduction
<1> QED BY <1>3

LEMMA SumZero ==
  ASSUME NEW f, NEW S, IsFiniteSet(S), \A x \in S : f[x] = 0
  PROVE  SumFunctionOnSet(f, S) = 0
<1>1. \A x \in S : f[x] \in Int /\ f[x] = f[x] + f[x]
  OBVIOUS
<1>2. SumFunctionOnSet(f, S) \in Int
  BY <1>1, SumInt
<1>3. SumFunctionOnSet(f, S) = SumFunctionOnSet(f, S) + SumFunctionOnSet(f, S)
  BY <1>1, SumPlus
<1>4. \A x \in Int : x = x + x => x = 0
  OBVIOUS
<1> QED BY <1>2, <1>3, <1>4

(* The sum of ones counts.                                                 *)
LEMMA SumOnes ==
  ASSUME NEW f, NEW S, IsFiniteSet(S), \A x \in S : f[x] = 1
  PROVE  SumFunctionOnSet(f, S) = Cardinality(S)
<1> DEFINE Q == {s \in SUBSET S : SumFunctionOnSet(f, s) = Cardinality(s)}
<1>1. {} \in Q
  BY SumEmpty, FS_EmptySet
<1>2. ASSUME NEW s \in SUBSET S, s # {}, \A x \in s : s \ {x} \in Q
      PROVE  s \in Q
  <2>1. PICK c \in s : TRUE
    BY <1>2
  <2>2. IsFiniteSet(s) /\ \A x \in s : f[x] \in Int /\ f[x] = 1
    BY FS_Subset
  <2>3. SumFunctionOnSet(f, s) = f[c] + SumFunctionOnSet(f, s \ {c})
    BY <2>1, <2>2, SumRemove
  <2>4. Cardinality(s) \in Nat /\ Cardinality(s \ {c}) = Cardinality(s) - 1
    BY <2>1, <2>2, FS_RemoveElement, FS_CardinalityType
  <2>5. SumFunctionOnSet(f, s \ {c}) = Cardinality(s \ {c})
    BY <1>2, <2>1
  <2>6. f[c] = 1
    BY <2>1, <2>2
  <2>7. SumFunctionOnSet(f, s) = Cardinality(s)
    BY <2>3, <2>4, <2>5, <2>6
  <2> QED BY <2>7
<1>3. S \in Q
  <2> HIDE DEF Q
  <2> QED BY <1>1, <1>2, SubsetInduction
<1> QED BY <1>3

(* A finite, non-empty set of naturals has a maximum.                      *)
LEMMA MaxNat ==
  ASSUME NEW S, IsFiniteSet(S), S # {}, S \subseteq Nat
  PROVE  Max(S) \in S /\ \A x \in S : Max(S) >= x
<1> DEFINE Q == {s \in SUBSET S : s # {} => \E m \in s : \A x \in s : m >= x}
<1>1. {} \in Q
  OBVIOUS
<1>2. ASSUME NEW s \in SUBSET S, s # {}, \A x \in s : s \ {x} \in Q
      PROVE  s \in Q
  <2>1. PICK c \in s : TRUE
    BY <1>2
  <2>2. CASE s \ {c} = {}
    BY <2>1, <2>2
  <2>3. CASE s \ {c} # {}
    <3>1. PICK m \in s \ {c} : \A x \in s \ {c} : m >= x
      BY <1>2, <2>1, <2>3
    <3>2. \/ \A x \in s : m >= x
          \/ \A x \in s : c >= x
      BY <2>1, <3>1
    <3> QED BY <2>1, <3>1, <3>2
  <2> QED BY <2>2, <2>3
<1>3. S \in Q
  <2> HIDE DEF Q
  <2> QED BY <1>1, <1>2, SubsetInduction
<1>4. \E m \in S : \A x \in S : m >= x
  BY <1>3
<1> QED BY <1>4 DEF Max
==============================================================================
