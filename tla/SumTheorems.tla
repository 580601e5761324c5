----------------------------- MODULE SumTheorems ----------------------------
(***************************************************************************)
(* Sums over finite sets, as SumFunctionOnSet adds them up, in any order.  *)
(***************************************************************************)
EXTENDS Functions, Integers, FiniteSetTheorems, WellFoundedInduction, TLAPS

(* Induction over the subsets of a finite set, without an operator         *)
(* parameter: the strict subset order is well-founded, so a set G of       *)
(* subsets that holds each subset whose proper subsets it holds, holds the *)
(* set itself.                                                             *)
LEMMA SubsetInduction ==
    ASSUME NEW S, IsFiniteSet(S), NEW G,
           \A T \in SUBSET S : (\A U \in SUBSET T : U # T => U \in G) => T \in G
    PROVE  S \in G
<1> DEFINE bad == {T \in SUBSET S : T \notin G}
<1> SUFFICES ASSUME S \notin G PROVE FALSE
  OBVIOUS
<1>1. bad # {} /\ bad \subseteq FiniteSubsetsOf(S)
  BY FS_FiniteSubsetsOfFinite
<1>2. IsWellFoundedOn(StrictSubsetOrdering(S), FiniteSubsetsOf(S))
  BY FS_StrictSubsetOrderingWellFounded
<1> HIDE DEF bad
<1>3. PICK T \in bad : \A U \in bad : <<U, T>> \notin StrictSubsetOrdering(S)
  BY <1>1, <1>2, WFMin
<1> QED
  BY <1>3 DEF StrictSubsetOrdering, bad

(* The recursion FoldFunctionOnSet folds with, as a function on the        *)
(* subsets of T: take one element off and add it to the sum of the rest.   *)
Elt(s) == CHOOSE x \in s : TRUE
Rest(s) == s \ {Elt(s)}
Added(w, s, g) == IF s = {} THEN 0 ELSE w[Elt(s)] + g[Rest(s)]
Adds(w, T, g) == g = [s \in SUBSET T |-> Added(w, s, g)]

(* What the recursion of a fold takes off a set leaves a smaller one.      *)
LEMMA RestIsLess ==
    ASSUME NEW s, s # {}
    PROVE  Elt(s) \in s /\ Rest(s) \in SUBSET s /\ Rest(s) # s
BY DEF Elt, Rest

(* The recursion, pointwise.                                               *)
LEMMA AddsFacts ==
    ASSUME NEW T, NEW w, NEW g
    PROVE  Adds(w, T, g) <=> /\ g = [s \in SUBSET T |-> g[s]]
                             /\ \A s \in SUBSET T : g[s] = Added(w, s, g)
<1>1. ASSUME Adds(w, T, g)
      PROVE  /\ g = [s \in SUBSET T |-> g[s]]
             /\ \A s \in SUBSET T : g[s] = Added(w, s, g)
  BY <1>1 DEF Adds
<1>2. ASSUME g = [s \in SUBSET T |-> g[s]], \A s \in SUBSET T : g[s] = Added(w, s, g)
      PROVE  Adds(w, T, g)
  BY <1>2 DEF Adds
<1> QED
  BY <1>1, <1>2

(* The recursion has one solution,                                         *)
LEMMA AddsUnique ==
    ASSUME NEW T, IsFiniteSet(T), NEW w, NEW g, NEW h, Adds(w, T, g), Adds(w, T, h)
    PROVE  g = h
<1> DEFINE G == {s \in SUBSET T : g[s] = h[s]}
<1>1. ASSUME NEW U \in SUBSET T
      PROVE U \in G
  <2>0. IsFiniteSet(U)
    BY FS_Subset
  <2>1. ASSUME NEW s \in SUBSET U, \A r \in SUBSET s : r # s => r \in G
        PROVE  s \in G
    <3>1. g[s] = Added(w, s, g) /\ h[s] = Added(w, s, h)
      BY AddsFacts
    <3>2. s # {} => g[Rest(s)] = h[Rest(s)]
      BY <2>1, RestIsLess
    <3> QED
      BY <3>1, <3>2 DEF Added
  <2> HIDE DEF G
  <2> QED
    BY <2>0, <2>1, SubsetInduction
<1> QED
  BY <1>1, AddsFacts

(* and it has one.                                                         *)
LEMMA AddsExists ==
    ASSUME NEW T, IsFiniteSet(T), NEW w
    PROVE  \E g : Adds(w, T, g)
<1> DEFINE The(U) == CHOOSE g : Adds(w, U, g)
           G == {U \in SUBSET T : \E g : Adds(w, U, g)}
           Body(s) == IF s = {} THEN 0 ELSE w[Elt(s)] + The(Rest(s))[Rest(s)]
<1>1. ASSUME NEW U \in SUBSET T, \A V \in SUBSET U : V # U => V \in G
      PROVE  U \in G
  <2>0. \A V \in SUBSET U : V # U => Adds(w, V, The(V))
    BY <1>1
  <2> DEFINE h == [s \in SUBSET U |-> Body(s)]
  <2>1. ASSUME NEW s \in SUBSET U, s # {}
        PROVE  h[Rest(s)] = The(Rest(s))[Rest(s)]
    <3> DEFINE V == Rest(s)
               W == Rest(V)
               g == The(V)
               k == [r \in SUBSET W |-> g[r]]
    <3>1. V \in SUBSET U /\ V # U
      BY <2>1, RestIsLess
    <3>2. Adds(w, V, g)
      BY <2>0, <3>1
    <3>3. CASE V = {}
      BY <3>1, <3>2, <3>3, AddsFacts DEF Added
    <3>4. CASE V # {}
      <4>1. W \in SUBSET V /\ W # V /\ W \in SUBSET U /\ W # U
        BY <3>1, <3>4, RestIsLess
      <4>2. Adds(w, W, The(W))
        BY <2>0, <4>1
      <4>3. Adds(w, W, k)
        <5>1. ASSUME NEW r \in SUBSET W
              PROVE  k[r] = Added(w, r, k)
          <6>1. k[r] = g[r] /\ g[r] = Added(w, r, g)
            BY <4>1, <3>2, AddsFacts
          <6>2. r # {} => k[Rest(r)] = g[Rest(r)]
            BY RestIsLess
          <6> QED
            BY <6>1, <6>2 DEF Added
        <5> QED
          BY <5>1, AddsFacts
      <4>4. The(W) = k
        <5>1. IsFiniteSet(W)
          BY <4>1, FS_Subset
        <5> HIDE DEF The, k
        <5> QED
          BY <4>2, <4>3, <5>1, AddsUnique
      <4>5. g[V] = w[Elt(V)] + g[W]
        BY <3>2, <3>4, AddsFacts DEF Added
      <4>6. h[V] = w[Elt(V)] + The(W)[W]
        BY <3>1, <3>4
      <4> QED
        BY <4>4, <4>5, <4>6
    <3> QED
      BY <3>3, <3>4
  <2>2. ASSUME NEW s \in SUBSET U
        PROVE  h[s] = Added(w, s, h)
    <3>1. CASE s = {}
      BY <3>1 DEF Added
    <3>2. CASE s # {}
      <4>1. h[s] = w[Elt(s)] + The(Rest(s))[Rest(s)]
        BY <3>2
      <4> HIDE DEF h, The
      <4> QED
        BY <2>1, <3>2, <4>1 DEF Added
    <3> QED
      BY <3>1, <3>2
  <2>3. h = [s \in SUBSET U |-> h[s]]
    OBVIOUS
  <2>4. Adds(w, U, h)
    <3> HIDE DEF h
    <3> QED
      BY <2>2, <2>3, AddsFacts
  <2> QED
    BY <2>4
<1> HIDE DEF G
<1>2. T \in G
  BY <1>1, SubsetInduction
<1> QED
  BY <1>2 DEF G

(* SumFunctionOnSet is that solution.                                      *)
LEMMA SumIs ==
    ASSUME NEW T, IsFiniteSet(T), NEW w, NEW g, Adds(w, T, g)
    PROVE  SumFunctionOnSet(w, T) = g[T]
<1>1. SumFunctionOnSet(w, T) = (CHOOSE f : Adds(w, T, f))[T]
  BY DEF SumFunctionOnSet, FoldFunctionOnSet, MapThenFoldSet, Adds, Added, Elt, Rest
<1> QED
  BY <1>1, AddsUnique, AddsExists

(* An empty sum is zero.                                                   *)
LEMMA SumEmpty == ASSUME NEW w PROVE SumFunctionOnSet(w, {}) = 0
<1>1. PICK g : Adds(w, {}, g)
  BY AddsExists, FS_EmptySet
<1>2. g[{}] = 0
  BY <1>1, AddsFacts DEF Added
<1> QED
  BY <1>1, <1>2, SumIs, FS_EmptySet

\* The sum of one subset of T.
LEMMA SumOfSubset ==
    ASSUME NEW T, IsFiniteSet(T), NEW w, NEW g, Adds(w, T, g), NEW U \in SUBSET T
    PROVE  SumFunctionOnSet(w, U) = g[U]
<1> DEFINE k == [r \in SUBSET U |-> g[r]]
<1>1. ASSUME NEW r \in SUBSET U
      PROVE  k[r] = Added(w, r, k)
  <2>1. k[r] = g[r] /\ g[r] = Added(w, r, g)
    BY AddsFacts
  <2>2. r # {} => k[Rest(r)] = g[Rest(r)]
    BY RestIsLess
  <2> QED
    BY <2>1, <2>2 DEF Added
<1>2. Adds(w, U, k)
  BY <1>1, AddsFacts
<1>3. IsFiniteSet(U)
  BY FS_Subset
<1>4. k[U] = g[U]
  OBVIOUS
<1> HIDE DEF k
<1> QED
  BY <1>2, <1>3, <1>4, SumIs

(* A sum is one element and the sum of the rest,                           *)
LEMMA SumStep ==
    ASSUME NEW T, IsFiniteSet(T), NEW w, T # {}
    PROVE  SumFunctionOnSet(w, T) = w[Elt(T)] + SumFunctionOnSet(w, Rest(T))
<1>1. PICK g : Adds(w, T, g)
  BY AddsExists
<1>2. g[T] = w[Elt(T)] + g[Rest(T)]
  BY <1>1, AddsFacts DEF Added
<1> QED
  BY <1>1, <1>2, SumOfSubset, RestIsLess

(* A sum of integers is an integer,                                        *)
LEMMA SumType ==
    ASSUME NEW T, IsFiniteSet(T), NEW w, \A x \in T : w[x] \in Int
    PROVE  SumFunctionOnSet(w, T) \in Int
<1> DEFINE G == {U \in SUBSET T : SumFunctionOnSet(w, U) \in Int}
<1>1. ASSUME NEW U \in SUBSET T, \A V \in SUBSET U : V # U => V \in G
      PROVE  U \in G
  <2>1. IsFiniteSet(U)
    BY FS_Subset
  <2>2. CASE U = {}
    BY <2>2, SumEmpty
  <2>3. CASE U # {}
    <3>1. Elt(U) \in T /\ Rest(U) \in G
      BY <1>1, <2>3, RestIsLess
    <3> QED
      BY <2>1, <2>3, <3>1, SumStep
  <2> QED
    BY <2>2, <2>3
<1> HIDE DEF G
<1>2. T \in G
  BY <1>1, SubsetInduction
<1> QED
  BY <1>2 DEF G

(* and a sum of naturals a natural.                                        *)
LEMMA SumIsNat ==
    ASSUME NEW T, IsFiniteSet(T), NEW w, \A x \in T : w[x] \in Nat
    PROVE  SumFunctionOnSet(w, T) \in Nat
<1> DEFINE G == {U \in SUBSET T : SumFunctionOnSet(w, U) \in Nat}
<1>1. ASSUME NEW U \in SUBSET T, \A V \in SUBSET U : V # U => V \in G
      PROVE  U \in G
  <2>1. IsFiniteSet(U)
    BY FS_Subset
  <2>2. CASE U = {}
    BY <2>2, SumEmpty
  <2>3. CASE U # {}
    <3>1. Elt(U) \in T /\ Rest(U) \in G
      BY <1>1, <2>3, RestIsLess
    <3> QED
      BY <2>1, <2>3, <3>1, SumStep
  <2> QED
    BY <2>2, <2>3
<1> HIDE DEF G
<1>2. T \in G
  BY <1>1, SubsetInduction
<1> QED
  BY <1>2 DEF G

(* A sum depends on the summands alone.                                    *)
LEMMA SumCongruence ==
    ASSUME NEW T, IsFiniteSet(T), NEW v, NEW w, \A x \in T : v[x] = w[x]
    PROVE  SumFunctionOnSet(v, T) = SumFunctionOnSet(w, T)
<1> DEFINE G == {U \in SUBSET T : SumFunctionOnSet(v, U) = SumFunctionOnSet(w, U)}
<1>1. ASSUME NEW U \in SUBSET T, \A V \in SUBSET U : V # U => V \in G
      PROVE  U \in G
  <2>1. IsFiniteSet(U)
    BY FS_Subset
  <2>2. CASE U = {}
    BY <2>2, SumEmpty
  <2>3. CASE U # {}
    <3>1. Elt(U) \in T /\ Rest(U) \in G
      BY <1>1, <2>3, RestIsLess
    <3> QED
      BY <2>1, <2>3, <3>1, SumStep
  <2> QED
    BY <2>2, <2>3
<1> HIDE DEF G
<1>2. T \in G
  BY <1>1, SubsetInduction
<1> QED
  BY <1>2 DEF G

(* Any element may be taken out of a sum first.                            *)
LEMMA SumRemove ==
    ASSUME NEW T, IsFiniteSet(T), NEW w, \A x \in T : w[x] \in Int, NEW x \in T
    PROVE  SumFunctionOnSet(w, T) = w[x] + SumFunctionOnSet(w, T \ {x})
<1> DEFINE G == {U \in SUBSET T : \A y \in U :
                   SumFunctionOnSet(w, U) = w[y] + SumFunctionOnSet(w, U \ {y})}
<1>1. ASSUME NEW U \in SUBSET T, \A V \in SUBSET U : V # U => V \in G
      PROVE  U \in G
  <2> SUFFICES ASSUME NEW y \in U
               PROVE  SumFunctionOnSet(w, U) = w[y] + SumFunctionOnSet(w, U \ {y})
    OBVIOUS
  <2> DEFINE e == Elt(U)
  <2>1. /\ IsFiniteSet(U) /\ U # {} /\ IsFiniteSet(U \ {y}) /\ e \in U
        /\ Rest(U) = U \ {e}
        /\ SumFunctionOnSet(w, U) = w[e] + SumFunctionOnSet(w, U \ {e})
    BY FS_Subset, SumStep, RestIsLess DEF Rest
  <2>2. CASE y = e
    BY <2>1, <2>2
  <2>3. CASE y # e
    <3>1. U \ {e} \in G /\ U \ {y} \in G /\ y \in U \ {e} /\ e \in U \ {y}
      BY <1>1, <2>1, <2>3
    <3>2. (U \ {e}) \ {y} = (U \ {y}) \ {e}
      OBVIOUS
    <3>3. /\ SumFunctionOnSet(w, U \ {e}) = w[y] + SumFunctionOnSet(w, (U \ {e}) \ {y})
          /\ SumFunctionOnSet(w, U \ {y}) = w[e] + SumFunctionOnSet(w, (U \ {y}) \ {e})
      BY <3>1
    <3>4. SumFunctionOnSet(w, (U \ {y}) \ {e}) \in Int /\ w[e] \in Int /\ w[y] \in Int
      BY <2>1, FS_Subset, SumType
    <3> DEFINE less == SumFunctionOnSet(w, (U \ {y}) \ {e})
               here == SumFunctionOnSet(w, U)
               noY == SumFunctionOnSet(w, U \ {y})
               noE == SumFunctionOnSet(w, U \ {e})
    <3>5. here = w[e] + noE /\ noE = w[y] + less /\ noY = w[e] + less
      BY <2>1, <3>2, <3>3
    <3> HIDE DEF less, here, noY, noE, e
    <3>6. here = w[y] + noY
      BY <3>4, <3>5 DEF less
    <3> QED
      BY <3>6 DEF here, noY
  <2> QED
    BY <2>2, <2>3
<1> HIDE DEF G
<1>2. T \in G
  BY <1>1, SubsetInduction
<1> QED
  BY <1>2 DEF G

(* When one summand changes, the sum changes by as much.                   *)
LEMMA SumUpdate ==
    ASSUME NEW T, IsFiniteSet(T), NEW v, NEW w, NEW x \in T,
           \A y \in T : v[y] \in Int /\ w[y] \in Int,
           \A y \in T \ {x} : w[y] = v[y]
    PROVE  SumFunctionOnSet(w, T) = SumFunctionOnSet(v, T) - v[x] + w[x]
<1>1. /\ IsFiniteSet(T \ {x})
      /\ SumFunctionOnSet(v, T) = v[x] + SumFunctionOnSet(v, T \ {x})
      /\ SumFunctionOnSet(w, T) = w[x] + SumFunctionOnSet(w, T \ {x})
  BY SumRemove, FS_Subset
<1>2. SumFunctionOnSet(v, T \ {x}) = SumFunctionOnSet(w, T \ {x})
  BY <1>1, SumCongruence
<1>3. SumFunctionOnSet(v, T \ {x}) \in Int
  BY <1>1, SumType
<1> QED
  BY <1>1, <1>2, <1>3

(* The sum of equal summands is a multiple.                                *)
LEMMA SumConstant ==
    ASSUME NEW T, IsFiniteSet(T), NEW w, NEW c \in Nat, \A x \in T : w[x] = c
    PROVE  SumFunctionOnSet(w, T) = c * Cardinality(T)
<1> DEFINE G == {U \in SUBSET T : SumFunctionOnSet(w, U) = c * Cardinality(U)}
<1>1. ASSUME NEW U \in SUBSET T, \A V \in SUBSET U : V # U => V \in G
      PROVE  U \in G
  <2>1. IsFiniteSet(U)
    BY FS_Subset
  <2>2. CASE U = {}
    BY <2>2, SumEmpty, FS_EmptySet
  <2>3. CASE U # {}
    <3> DEFINE x == Elt(U)
               n == Cardinality(U)
               m == Cardinality(U \ {x})
    <3>1. x \in U /\ x \in T /\ Rest(U) \in G /\ Rest(U) = U \ {x}
      BY <1>1, <2>3, RestIsLess DEF Rest
    <3>2. m = n - 1 /\ n \in Nat
      BY <2>1, <3>1, FS_RemoveElement, FS_CardinalityType
    <3>3. SumFunctionOnSet(w, U) = c + c * m
      BY <2>1, <2>3, <3>1, SumStep
    <3> HIDE DEF n, m
    <3>4. c + c * m = c * n
      BY <3>2
    <3> QED
      BY <3>3, <3>4 DEF n
  <2> QED
    BY <2>2, <2>3
<1> HIDE DEF G
<1>2. T \in G
  BY <1>1, SubsetInduction
<1> QED
  BY <1>2 DEF G

(* The sum over two sets that have no element in common.                   *)
LEMMA SumUnion ==
    ASSUME NEW A, NEW B, IsFiniteSet(A), IsFiniteSet(B), A \cap B = {},
           NEW w, \A x \in A \cup B : w[x] \in Int
    PROVE  SumFunctionOnSet(w, A \cup B) = SumFunctionOnSet(w, A) + SumFunctionOnSet(w, B)
<1> DEFINE G == {U \in SUBSET A :
                  SumFunctionOnSet(w, U \cup B) = SumFunctionOnSet(w, U) + SumFunctionOnSet(w, B)}
<1>0. SumFunctionOnSet(w, B) \in Int
  BY SumType
<1>1. ASSUME NEW U \in SUBSET A, \A V \in SUBSET U : V # U => V \in G
      PROVE  U \in G
  <2>1. CASE U = {}
    <3>1. U \cup B = B
      BY <2>1
    <3> QED
      BY <1>0, <2>1, <3>1, SumEmpty
  <2>2. CASE U # {}
    <3>1. PICK x \in U : TRUE
      BY <2>2
    <3> DEFINE V == U \ {x}
    <3>2. V \in G
      BY <1>1, <3>1
    <3>3. (U \cup B) \ {x} = V \cup B
      BY <3>1
    <3>4. IsFiniteSet(U) /\ IsFiniteSet(U \cup B) /\ IsFiniteSet(V)
      BY FS_Subset, FS_Union
    <3>5. SumFunctionOnSet(w, U) = w[x] + SumFunctionOnSet(w, V)
      BY <3>1, <3>4, SumRemove
    <3>6. SumFunctionOnSet(w, U \cup B) = w[x] + SumFunctionOnSet(w, V \cup B)
      BY <3>1, <3>3, <3>4, SumRemove
    <3>7. SumFunctionOnSet(w, V) \in Int /\ w[x] \in Int
      BY <3>1, <3>4, SumType
    <3>8. SumFunctionOnSet(w, V \cup B) = SumFunctionOnSet(w, V) + SumFunctionOnSet(w, B)
      BY <3>2
    <3> DEFINE a == SumFunctionOnSet(w, V)
               b == SumFunctionOnSet(w, B)
               c == SumFunctionOnSet(w, U)
               d == SumFunctionOnSet(w, U \cup B)
               e == SumFunctionOnSet(w, V \cup B)
    <3>9. d = c + b
      <4>1. c = w[x] + a /\ d = w[x] + e /\ e = a + b /\ a \in Int /\ b \in Int /\ w[x] \in Int
        BY <1>0, <3>5, <3>6, <3>7, <3>8
      <4> HIDE DEF a, b, c, d, e, V
      <4> QED
        BY <4>1
    <3> QED
      BY <3>9
  <2> QED
    BY <2>1, <2>2
<1> HIDE DEF G
<1>2. A \in G
  BY <1>1, SubsetInduction
<1> QED
  BY <1>2 DEF G

(* The image of a finite set under a one-to-one function is as large.      *)
LEMMA OneToOneImage ==
    ASSUME NEW A, IsFiniteSet(A), NEW B, NEW h, B = {h[x] : x \in A},
           \A x, y \in A : h[x] = h[y] => x = y
    PROVE  IsFiniteSet(B) /\ Cardinality(B) = Cardinality(A)
<1> DEFINE g == [x \in A |-> h[x]]
<1>1. g \in Bijection(A, B)
  BY DEF Bijection, Injection, Surjection, IsInjective
<1> HIDE DEF g
<1> QED
  BY <1>1, FS_Bijection DEF ExistsBijection

(* A sum may be taken along a one-to-one correspondence.                   *)
LEMMA SumReindex ==
    ASSUME NEW A, IsFiniteSet(A), NEW B, NEW h, B = {h[x] : x \in A},
           \A x, y \in A : h[x] = h[y] => x = y,
           NEW v, NEW w, \A x \in A : v[x] \in Int /\ v[x] = w[h[x]]
    PROVE  SumFunctionOnSet(v, A) = SumFunctionOnSet(w, B)
<1> DEFINE Img(U) == {h[x] : x \in U}
           G == {U \in SUBSET A : /\ SumFunctionOnSet(v, U) = SumFunctionOnSet(w, Img(U))
                                  /\ IsFiniteSet(Img(U))}
<1>1. ASSUME NEW U \in SUBSET A, \A V \in SUBSET U : V # U => V \in G
      PROVE  U \in G
  <2>1. CASE U = {}
    <3>1. Img(U) = {}
      BY <2>1
    <3> QED
      BY <2>1, <3>1, SumEmpty, FS_EmptySet
  <2>2. CASE U # {}
    <3>1. PICK x \in U : TRUE
      BY <2>2
    <3>2. U \ {x} \in G
      BY <1>1, <3>1
    <3>3. Img(U) \ {h[x]} = Img(U \ {x})
      BY <3>1
    <3>4. IsFiniteSet(U)
      BY FS_Subset
    <3>5. IsFiniteSet(Img(U))
      <4>1. Img(U) = Img(U \ {x}) \cup {h[x]}
        BY <3>1
      <4>2. IsFiniteSet(Img(U \ {x}))
        BY <3>2
      <4> HIDE DEF Img
      <4>3. IsFiniteSet(Img(U \ {x}) \cup {h[x]})
        BY ONLY <4>2, FS_AddElement
      <4> QED
        BY <4>1, <4>3, Zenon
    <3>6. SumFunctionOnSet(v, U) = v[x] + SumFunctionOnSet(v, U \ {x})
      BY <3>1, <3>4, SumRemove
    <3>7. SumFunctionOnSet(w, Img(U)) = w[h[x]] + SumFunctionOnSet(w, Img(U) \ {h[x]})
      <4>1. h[x] \in Img(U) /\ \A y \in Img(U) : w[y] \in Int
        BY <3>1
      <4> HIDE DEF Img
      <4> QED
        BY <3>5, <4>1, SumRemove
    <3> QED
      BY <3>1, <3>2, <3>3, <3>5, <3>6, <3>7
  <2> QED
    BY <2>1, <2>2
<1> HIDE DEF G
<1>2. A \in G
  BY <1>1, SubsetInduction
<1> QED
  BY <1>2 DEF G

(* A sum over a set that is cut into parts is the sum of the parts' sums.  *)
LEMMA SumOfParts ==
    ASSUME NEW D, IsFiniteSet(D), NEW F, \A t \in D : IsFiniteSet(F[t]),
           \A t, u \in D : \A x \in F[t] : x \in F[u] => t = u,
           NEW w, \A t \in D : \A x \in F[t] : w[x] \in Int,
           NEW s, \A t \in D : s[t] = SumFunctionOnSet(w, F[t]),
           NEW S, S = UNION {F[t] : t \in D}
    PROVE  IsFiniteSet(S) /\ SumFunctionOnSet(s, D) = SumFunctionOnSet(w, S)
<1> DEFINE All(E) == UNION {F[t] : t \in E}
           G == {E \in SUBSET D : /\ SumFunctionOnSet(s, E) = SumFunctionOnSet(w, All(E))
                                  /\ IsFiniteSet(All(E))}
<1>0. \A t \in D : s[t] \in Int
  BY SumType
<1>1. ASSUME NEW E \in SUBSET D, \A V \in SUBSET E : V # E => V \in G
      PROVE  E \in G
  <2>1. CASE E = {}
    <3>1. All(E) = {}
      BY <2>1
    <3> QED
      BY <2>1, <3>1, SumEmpty, FS_EmptySet
  <2>2. CASE E # {}
    <3>1. PICK t \in E : TRUE
      BY <2>2
    <3> DEFINE V == E \ {t}
    <3>2. V \in G
      BY <1>1, <3>1
    <3>3. All(E) = F[t] \cup All(V) /\ F[t] \cap All(V) = {}
      BY <3>1
    <3>4. IsFiniteSet(F[t]) /\ IsFiniteSet(All(V)) /\ IsFiniteSet(E)
      BY <3>1, <3>2, FS_Subset
    <3>5. \A x \in F[t] \cup All(V) : w[x] \in Int
      BY <3>1
    <3>6. SumFunctionOnSet(s, E) = s[t] + SumFunctionOnSet(s, V)
      BY <1>0, <3>1, <3>4, SumRemove
    <3> HIDE DEF All, V
    <3>7. SumFunctionOnSet(w, All(E)) = SumFunctionOnSet(w, F[t]) + SumFunctionOnSet(w, All(V))
      BY <3>3, <3>4, <3>5, SumUnion
    <3>8. IsFiniteSet(All(E))
      <4>1. IsFiniteSet(F[t] \cup All(V))
        BY ONLY <3>4, FS_Union
      <4> QED
        BY <3>3, <4>1, Zenon
    <3> QED
      BY <3>1, <3>2, <3>6, <3>7, <3>8 DEF All
  <2> QED
    BY <2>1, <2>2
<1> HIDE DEF G
<1>2. D \in G
  BY <1>1, SubsetInduction
<1>3. S = All(D)
  OBVIOUS
<1> HIDE DEF All
<1> QED
  BY <1>2, <1>3 DEF G
=============================================================================
