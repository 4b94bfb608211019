------------------------------ MODULE SetLemmas ------------------------------
(***************************************************************************)
(* Facts about the sums, the greatest and the least elements of finite     *)
(* sets (MapThenSumSet, Max and Min of FiniteSetsExt), which the theorems  *)
(* of the components rest on.                                              *)
(*                                                                         *)
(* Each is proved by induction over the subsets of a finite set, in the    *)
(* form of a counterexample that has no smaller one (MinimalSubset).       *)
(***************************************************************************)
EXTENDS FiniteSetsExt, FiniteSetTheorems, TLAPS

\* A set of subsets of a finite set has a minimal one.
LEMMA MinimalSubset ==
  ASSUME NEW U, IsFiniteSet(U), NEW T, T \subseteq SUBSET U, T # {}
  PROVE  \E m \in T : \A y \in T : y \subseteq m => y = m
<1> DEFINE R == StrictSubsetOrdering(U)
<1>1. IsWellFoundedOn(R, SUBSET U)
  BY FS_StrictSubsetOrderingWellFounded, FS_FiniteSubsetsOfFinite
<1> HIDE DEF R
<1>2. \E m \in T : \A y \in T : <<y, m>> \notin R
  BY <1>1, WFMin
<1> QED
  BY <1>2 DEF R, StrictSubsetOrdering

-----------------------------------------------------------------------------
(* Sums: MapThenSumSet takes the elements one by one, in an order of its own, *)
(* and the sum does not depend on it.                                         *)

SumOf(f, U) == MapThenSumSet(LAMBDA x : f[x], U)

Some(s) == CHOOSE x \in s : TRUE

\* g[s] is the sum of f over s, for every subset s of U.
IsSum(g, f, U) ==
    g = [s \in SUBSET U |-> IF s = {} THEN 0
                            ELSE f[Some(s)] + g[s \ {Some(s)}]]

\* What FiniteSetsExt computes is such a function at the whole set.
LEMMA SumUnfold ==
  ASSUME NEW f, NEW U, NEW h, IsSum(h, f, U)
  PROVE  \E g : IsSum(g, f, U) /\ SumOf(f, U) = g[U]
BY DEF SumOf, MapThenSumSet, MapThenFoldSet, IsSum, Some

\* The element that is taken first is one of the set.
LEMMA SomeIsMember == \A s : s # {} => Some(s) \in s
BY DEF Some

\* IsSum, equation by equation.
LEMMA SumStep ==
  ASSUME NEW g, NEW f, NEW U
  PROVE  IsSum(g, f, U) <=>
            /\ g = [s \in SUBSET U |-> g[s]]
            /\ g[{}] = 0
            /\ \A s \in SUBSET U : s # {} => g[s] = f[Some(s)] + g[s \ {Some(s)}]
<1>1. ASSUME IsSum(g, f, U)
      PROVE  /\ g = [s \in SUBSET U |-> g[s]]
             /\ g[{}] = 0
             /\ \A s \in SUBSET U : s # {} => g[s] = f[Some(s)] + g[s \ {Some(s)}]
  BY <1>1 DEF IsSum, Some
<1>2. ASSUME /\ g = [s \in SUBSET U |-> g[s]]
             /\ g[{}] = 0
             /\ \A s \in SUBSET U : s # {} => g[s] = f[Some(s)] + g[s \ {Some(s)}]
      PROVE  IsSum(g, f, U)
  BY <1>2 DEF IsSum, Some
<1> QED
  BY <1>1, <1>2

\* There is at most one such function ...
LEMMA SumUnique ==
  ASSUME NEW U, IsFiniteSet(U), NEW f, NEW g, NEW h, IsSum(g, f, U), IsSum(h, f, U)
  PROVE  g = h
<1> DEFINE T == {s \in SUBSET U : g[s] # h[s]}
<1>1. SUFFICES ASSUME T # {} PROVE FALSE
  BY SumStep
<1>2. T \subseteq SUBSET U
  OBVIOUS
<1> HIDE DEF T
<1>3. PICK m \in T : \A y \in T : y \subseteq m => y = m
  BY <1>1, <1>2, MinimalSubset
<1> USE DEF T
<1>4. m # {}
  BY SumStep
<1>5. m \ {Some(m)} \notin T
  BY <1>3, <1>4, SomeIsMember
<1> QED
  BY <1>4, <1>5, SumStep

\* ... it is one for every subset too ...
LEMMA SumRestricts ==
  ASSUME NEW U, NEW f, NEW g, IsSum(g, f, U), NEW V \in SUBSET U
  PROVE  IsSum([s \in SUBSET V |-> g[s]], f, V)
<1> DEFINE h == [s \in SUBSET V |-> g[s]]
<1>1. h = [s \in SUBSET V |-> h[s]] /\ h[{}] = 0
  BY SumStep
<1>2. ASSUME NEW s \in SUBSET V, s # {} PROVE h[s] = f[Some(s)] + h[s \ {Some(s)}]
  BY <1>2, SumStep
<1> QED
  BY <1>1, <1>2, SumStep

\* ... and there is one.
LEMMA SumExists ==
  ASSUME NEW U, IsFiniteSet(U), NEW f
  PROVE  \E g : IsSum(g, f, U)
<1> DEFINE T == {s \in SUBSET U : ~ \E g : IsSum(g, f, s)}
<1>1. SUFFICES ASSUME T # {} PROVE FALSE
  OBVIOUS
<1>2. T \subseteq SUBSET U
  OBVIOUS
<1> HIDE DEF T
<1>3. PICK m \in T : \A y \in T : y \subseteq m => y = m
  BY <1>1, <1>2, MinimalSubset
<1> USE DEF T
<1>4. ASSUME NEW s \in SUBSET m, s # m PROVE \E g : IsSum(g, f, s)
  BY <1>3, <1>4
<1> DEFINE below(s) == CHOOSE g : IsSum(g, f, s)
           rest(s)  == s \ {Some(s)}
           h == [s \in SUBSET m |-> IF s = {} THEN 0
                                    ELSE f[Some(s)] + below(rest(s))[rest(s)]]
<1>5. ASSUME NEW s \in SUBSET m, s # m PROVE IsSum(below(s), f, s)
  BY <1>4, <1>5
<1> HIDE DEF below, T
<1>6. ASSUME NEW s \in SUBSET m, s # m, s # {}
      PROVE  below(s)[s] = f[Some(s)] + below(rest(s))[rest(s)]
  <2>1. rest(s) \in SUBSET s /\ rest(s) # m /\ rest(s) \in SUBSET m
    BY <1>6, SomeIsMember
  <2>2. IsSum(below(s), f, s) /\ IsSum(below(rest(s)), f, rest(s))
    BY <1>5, <1>6, <2>1
  <2> DEFINE k == [v \in SUBSET rest(s) |-> below(s)[v]]
  <2>3. IsSum(k, f, rest(s))
    BY <2>1, <2>2, SumRestricts
  <2>4. IsFiniteSet(rest(s))
    BY <1>2, <1>3, <2>1, FS_Subset
  <2>5. k = below(rest(s))
    BY <2>2, <2>3, <2>4, SumUnique
  <2>6. below(s)[s] = f[Some(s)] + below(s)[rest(s)]
    BY <1>6, <2>2, SumStep
  <2> QED
    BY <2>5, <2>6
<1>7. h = [s \in SUBSET m |-> h[s]] /\ h[{}] = 0
  OBVIOUS
<1>8. ASSUME NEW s \in SUBSET m, s # {} PROVE h[s] = f[Some(s)] + h[rest(s)]
  <2>1. rest(s) \in SUBSET m /\ rest(s) # m
    BY <1>8, SomeIsMember
  <2>2. h[s] = f[Some(s)] + below(rest(s))[rest(s)]
    BY <1>8
  <2>3. CASE rest(s) = {}
    <3>1. below(rest(s))[rest(s)] = 0
      BY <1>5, <2>1, <2>3, SumStep
    <3> QED
      BY <2>2, <2>3, <3>1
  <2>4. CASE rest(s) # {}
    <3>1. below(rest(s))[rest(s)] = f[Some(rest(s))] + below(rest(rest(s)))[rest(rest(s))]
      BY <1>6, <2>1, <2>4
    <3>2. h[rest(s)] = f[Some(rest(s))] + below(rest(rest(s)))[rest(rest(s))]
      BY <2>1, <2>4
    <3> QED
      BY <2>2, <3>1, <3>2
  <2> QED
    BY <2>3, <2>4
<1> HIDE DEF h
<1>9. IsSum(h, f, m)
  BY <1>7, <1>8, SumStep
<1> QED
  BY <1>3, <1>9 DEF T

\* What a sum over a finite set is.
LEMMA SumDefined ==
  ASSUME NEW U, IsFiniteSet(U), NEW f
  PROVE  \E g : IsSum(g, f, U) /\ \A V \in SUBSET U : SumOf(f, V) = g[V]
<1>1. PICK g : IsSum(g, f, U)
  BY SumExists
<1>2. ASSUME NEW V \in SUBSET U PROVE SumOf(f, V) = g[V]
  <2>1. IsSum([s \in SUBSET V |-> g[s]], f, V)
    BY <1>1, SumRestricts
  <2>2. IsFiniteSet(V)
    BY FS_Subset
  <2>3. PICK h : IsSum(h, f, V) /\ SumOf(f, V) = h[V]
    BY <2>1, SumUnfold
  <2>4. h = [s \in SUBSET V |-> g[s]]
    BY <2>1, <2>2, <2>3, SumUnique
  <2> QED
    BY <2>3, <2>4
<1> QED
  BY <1>1, <1>2

\* A sum of integers is an integer.
LEMMA SumIsInteger ==
  ASSUME NEW U, IsFiniteSet(U), NEW f, \A x \in U : f[x] \in Int
  PROVE  SumOf(f, U) \in Int
<1>1. PICK g : IsSum(g, f, U) /\ \A V \in SUBSET U : SumOf(f, V) = g[V]
  BY SumDefined
<1> DEFINE T == {s \in SUBSET U : g[s] \notin Int}
<1>2. SUFFICES ASSUME T # {} PROVE FALSE
  BY <1>1
<1>3. T \subseteq SUBSET U
  OBVIOUS
<1> HIDE DEF T
<1>4. PICK m \in T : \A y \in T : y \subseteq m => y = m
  BY <1>2, <1>3, MinimalSubset
<1> USE DEF T
<1>5. m # {}
  <2>1. g[{}] = 0
    BY <1>1, SumStep
  <2> QED
    BY <2>1
<1>6. Some(m) \in m /\ m \ {Some(m)} \notin T
  BY <1>4, <1>5, SomeIsMember
<1>7. g[m] = f[Some(m)] + g[m \ {Some(m)}]
  BY <1>1, <1>5, SumStep
<1> QED
  BY <1>6, <1>7

\* The order in which the elements are taken does not matter.
LEMMA SumRemove ==
  ASSUME NEW U, IsFiniteSet(U), NEW f, \A x \in U : f[x] \in Int, NEW x \in U
  PROVE  SumOf(f, U) = f[x] + SumOf(f, U \ {x})
<1>1. PICK g : IsSum(g, f, U) /\ \A V \in SUBSET U : SumOf(f, V) = g[V]
  BY SumDefined
<1>2. \A V \in SUBSET U : g[V] \in Int
  BY <1>1, SumIsInteger, FS_Subset
<1> DEFINE T == {s \in SUBSET U : \E y \in s : g[s] # f[y] + g[s \ {y}]}
<1>3. SUFFICES ASSUME T # {} PROVE FALSE
  <2>1. U \in SUBSET U /\ U \ {x} \in SUBSET U
    OBVIOUS
  <2>2. SumOf(f, U) = g[U] /\ SumOf(f, U \ {x}) = g[U \ {x}]
    BY <1>1, <2>1
  <2> QED
    BY <2>1, <2>2
<1>4. T \subseteq SUBSET U
  OBVIOUS
<1> HIDE DEF T
<1>5. PICK m \in T : \A s \in T : s \subseteq m => s = m
  BY <1>3, <1>4, MinimalSubset
<1> USE DEF T
<1>6. PICK y \in m : g[m] # f[y] + g[m \ {y}]
  BY <1>5
<1> DEFINE c == Some(m)
<1>7. c \in m /\ g[m] = f[c] + g[m \ {c}]
  BY <1>1, <1>5, <1>6, SomeIsMember, SumStep
<1> HIDE DEF c
<1>8. c # y
  BY <1>6, <1>7
<1>9. g[m \ {c}] = f[y] + g[(m \ {c}) \ {y}]
  BY <1>5, <1>6, <1>7, <1>8
<1>10. g[m \ {y}] = f[c] + g[(m \ {y}) \ {c}]
  BY <1>5, <1>6, <1>7, <1>8
<1>11. (m \ {y}) \ {c} = (m \ {c}) \ {y}
  OBVIOUS
<1>12. f[c] \in Int /\ f[y] \in Int /\ g[(m \ {c}) \ {y}] \in Int
  BY <1>2, <1>6, <1>7
<1>13. g[m] = f[y] + g[m \ {y}]
  <2>1. g[m] = f[c] + (f[y] + g[(m \ {c}) \ {y}])
    BY <1>7, <1>9
  <2>2. g[m \ {y}] = f[c] + g[(m \ {c}) \ {y}]
    BY <1>10, <1>11
  <2> HIDE DEF T
  <2> QED
    BY <2>1, <2>2, <1>12
<1> QED
  BY <1>6, <1>13

\* Nothing adds up to 0.
LEMMA SumEmpty == \A f : SumOf(f, {}) = 0
<1> SUFFICES ASSUME NEW f PROVE SumOf(f, {}) = 0
  OBVIOUS
<1>1. PICK g : IsSum(g, f, {}) /\ \A V \in SUBSET {} : SumOf(f, V) = g[V]
  BY SumDefined, FS_EmptySet
<1> QED
  BY <1>1, SumStep

\* One more element adds its value.
LEMMA SumAdd ==
  ASSUME NEW U, IsFiniteSet(U), NEW f, NEW x, x \notin U,
         \A y \in U \cup {x} : f[y] \in Int
  PROVE  SumOf(f, U \cup {x}) = f[x] + SumOf(f, U)
<1>1. IsFiniteSet(U \cup {x})
  BY FS_AddElement
<1>2. (U \cup {x}) \ {x} = U /\ x \in U \cup {x}
  OBVIOUS
<1> DEFINE V == U \cup {x}
<1>3. IsFiniteSet(V) /\ V \ {x} = U /\ x \in V /\ \A y \in V : f[y] \in Int
  BY <1>1, <1>2
<1> HIDE DEF V
<1>4. SumOf(f, V) = f[x] + SumOf(f, V \ {x})
  BY <1>3, SumRemove
<1> QED
  BY <1>3, <1>4 DEF V

\* A sum depends on the values of the elements only.
LEMMA SumAgrees ==
  ASSUME NEW U, IsFiniteSet(U), NEW f, NEW g, \A x \in U : f[x] = g[x]
  PROVE  SumOf(f, U) = SumOf(g, U)
<1>1. PICK h : IsSum(h, f, U) /\ \A V \in SUBSET U : SumOf(f, V) = h[V]
  BY SumDefined
<1>2. PICK k : IsSum(k, g, U) /\ \A V \in SUBSET U : SumOf(g, V) = k[V]
  BY SumDefined
<1>3. \A s \in SUBSET U : s # {} => f[Some(s)] = g[Some(s)]
  BY SomeIsMember
<1>4. IsSum(k, f, U)
  BY <1>2, <1>3, SumStep
<1>5. k = h
  BY <1>1, <1>4, SumUnique
<1> QED
  BY <1>1, <1>2, <1>5

-----------------------------------------------------------------------------
(* The greatest and the least of finitely many integers. *)

\* A finite set of integers that is not empty has a greatest one.
LEMMA MaxExists ==
  ASSUME NEW S, IsFiniteSet(S), S # {}, \A x \in S : x \in Int
  PROVE  \E x \in S : \A y \in S : x >= y
<1> DEFINE T == {s \in SUBSET S : s # {} /\ ~ \E x \in s : \A y \in s : x >= y}
<1>1. SUFFICES ASSUME T # {} PROVE FALSE
  OBVIOUS
<1>2. T \subseteq SUBSET S
  OBVIOUS
<1> HIDE DEF T
<1>3. PICK m \in T : \A y \in T : y \subseteq m => y = m
  BY <1>1, <1>2, MinimalSubset
<1> USE DEF T
<1>4. PICK c \in m : TRUE
  OBVIOUS
<1>5. m \ {c} \notin T
  BY <1>3, <1>4
<1>6. CASE m = {c}
  BY <1>6
<1>7. CASE m # {c}
  <2>1. PICK x \in m \ {c} : \A y \in m \ {c} : x >= y
    BY <1>5, <1>7
  <2>2. IF c >= x THEN \A y \in m : c >= y ELSE \A y \in m : x >= y
    BY <2>1
  <2> QED
    BY <2>1, <2>2
<1> QED
  BY <1>6, <1>7

\* Max is the greatest ...
LEMMA MaxProperties ==
  ASSUME NEW S, IsFiniteSet(S), S # {}, \A x \in S : x \in Int
  PROVE  Max(S) \in S /\ \A y \in S : y <= Max(S)
<1>1. Max(S) \in S /\ \A y \in S : Max(S) >= y
  BY MaxExists DEF Max
<1> QED
  BY <1>1

\* ... and Min the least, which is the greatest of the opposites.
LEMMA MinProperties ==
  ASSUME NEW S, IsFiniteSet(S), S # {}, \A x \in S : x \in Int
  PROVE  Min(S) \in S /\ \A y \in S : Min(S) <= y
<1> DEFINE N == {-x : x \in S}
<1>1. IsFiniteSet(N)
  <2>1. [x \in S |-> -x] \in Surjection(S, N)
    BY DEF Surjection
  <2> QED
    BY <2>1, FS_Surjection
<1>2. N # {} /\ \A x \in N : x \in Int
  <2>1. \A x \in S : -x \in N /\ -x \in Int
    OBVIOUS
  <2> QED
    BY <2>1
<1> HIDE DEF N
<1>3. PICK n \in N : \A y \in N : n >= y
  BY <1>1, <1>2, MaxExists
<1>4. \E x \in S : \A y \in S : x =< y
  BY <1>3 DEF N
<1> QED
  BY <1>4 DEF Min

-----------------------------------------------------------------------------
\* What holds of 0, and of a number's successor if of the number, holds up to
\* any number.
LEMMA Climb ==
  ASSUME NEW n \in Nat, NEW T, 0 \in T, \A k \in 0..n : k \in T /\ k # n => k + 1 \in T
  PROVE  \A k \in 0..n : k \in T
<1> DEFINE F == {k \in 0..n : k \notin T}
<1>1. SUFFICES ASSUME F # {} PROVE FALSE
  OBVIOUS
<1>2. IsFiniteSet(F) /\ \A k \in F : k \in Int
  <2>1. F \in SUBSET (0..n) /\ IsFiniteSet(0..n)
    BY FS_Interval
  <2>2. \A k \in F : k \in Int
    OBVIOUS
  <2> HIDE DEF F
  <2>3. IsFiniteSet(F)
    BY <2>1, FS_Subset
  <2> QED
    BY <2>2, <2>3
<1> HIDE DEF F
<1>3. Min(F) \in F /\ \A k \in F : Min(F) <= k
  BY <1>1, <1>2, MinProperties
<1>4. Min(F) \in 0..n /\ Min(F) \notin T
  BY <1>3 DEF F
<1>5. Min(F) - 1 \in 0..n /\ Min(F) - 1 # n
  BY <1>4
<1>6. Min(F) - 1 \notin F
  BY <1>3, <1>4, <1>5
<1>7. Min(F) - 1 \in T
  BY <1>5, <1>6 DEF F
<1>8. Min(F) - 1 + 1 \in T
  BY <1>5, <1>7
<1> QED
  BY <1>4, <1>8
=============================================================================
