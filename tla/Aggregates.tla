------------------------------ MODULE Aggregates ------------------------------
(***************************************************************************)
(* Lemmas that the proofs about several components need: Min, Max and the  *)
(* sums of the community modules, over finite sets of any size.            *)
(***************************************************************************)
EXTENDS Integers, FiniteSetsExt, Functions, FiniteSetTheorems, WellFoundedInduction, TLAPS

LEMMA LeastElement ==
    ASSUME NEW T \in SUBSET Nat, T # {}
    PROVE  \E x \in T : \A y \in T : x <= y
<1> DEFINE R == {p \in Nat \X Nat : p[1] < p[2]}
<1>1. \A x, y \in Nat : <<y, x>> \in R <=> y < x
  OBVIOUS
<1>2. IsWellFoundedOn(R, Nat)
  BY NatLessThanWellFounded DEF OpToRel
<1> HIDE DEF R
<1>3. PICK x \in T : \A y \in T : ~ (<<y, x>> \in R)
  BY <1>2, WFMin
<1>4. ASSUME NEW y \in T PROVE x <= y
  <2>1. x \in Nat /\ y \in Nat /\ ~ (y < x)
    BY <1>1, <1>3
  <2> QED BY <2>1
<1> QED BY <1>4

LEMMA GreatestElement ==
    ASSUME NEW T \in SUBSET Nat, T # {}, NEW b \in Nat, \A y \in T : y <= b
    PROVE  \E x \in T : \A y \in T : y <= x
<1> DEFINE U == {b - y : y \in T}
<1>1. U \in SUBSET Nat /\ U # {}
  <2>1. \A y \in T : y \in Nat /\ y <= b
    OBVIOUS
  <2>2. \A y \in T : b - y \in Nat
    BY <2>1
  <2> QED BY <2>2
<1>2. PICK u \in U : \A v \in U : u <= v
  BY <1>1, LeastElement
<1>3. PICK x \in T : u = b - x
  BY <1>2
<1>4. \A y \in T : b - x <= b - y
  BY <1>2, <1>3
<1>5. ASSUME NEW y \in T PROVE y <= x
  <2>1. x \in Nat /\ y \in Nat /\ b - x <= b - y
    BY <1>4
  <2> QED BY <2>1
<1> QED BY <1>5

LEMMA MinIsLeast ==
    ASSUME NEW T \in SUBSET Nat, T # {}
    PROVE  Min(T) \in T /\ \A y \in T : Min(T) <= y
BY LeastElement DEF Min

LEMMA MaxIsGreatest ==
    ASSUME NEW T \in SUBSET Nat, T # {}, NEW b \in Nat, \A y \in T : y <= b
    PROVE  Max(T) \in T /\ \A y \in T : y <= Max(T)
<1>1. PICK x \in T : \A y \in T : y <= x
  BY GreatestElement
<1>2. x \in T /\ \A y \in T : x >= y
  BY <1>1
<1>3. Max(T) \in T /\ \A y \in T : Max(T) >= y
  BY <1>2, Zenon DEF Max
<1> QED BY <1>3

-----------------------------------------------------------------------------
(* Induction over the subsets of a finite set: a family that holds every   *)
(* subset whose members can be removed one at a time within the family.    *)
LEMMA SubsetInduction ==
    ASSUME NEW S, IsFiniteSet(S), NEW G,
           \A s \in SUBSET S : (\A x \in s : s \ {x} \in G) => s \in G
    PROVE  SUBSET S \subseteq G
<1> SUFFICES ASSUME NEW bad \in SUBSET S, bad \notin G PROVE FALSE
  OBVIOUS
<1> DEFINE T == {Cardinality(s) : s \in {t \in SUBSET S : t \notin G}}
<1>1. \A s \in SUBSET S : IsFiniteSet(s) /\ Cardinality(s) \in Nat
  BY FS_Subset, FS_CardinalityType
<1>2. T \in SUBSET Nat /\ T # {}
  BY <1>1
<1>3. PICK n \in T : \A m \in T : n <= m
  BY <1>2, LeastElement
<1>4. PICK s \in SUBSET S : s \notin G /\ Cardinality(s) = n
  BY <1>3
<1>5. ASSUME NEW x \in s PROVE s \ {x} \in G
  <2>1. Cardinality(s \ {x}) = n - 1 /\ n \in Nat
    BY <1>1, <1>2, <1>4, FS_RemoveElement
  <2>2. Cardinality(s \ {x}) \notin T
    BY <1>3, <2>1
  <2>3. s \ {x} \in SUBSET S
    OBVIOUS
  <2> QED BY <2>2, <2>3
<1> QED BY <1>4, <1>5

(* The function by which the community modules define a sum.               *)
Pick(s) == CHOOSE x \in s : TRUE
Unfolds(g, f, S) ==
    g = [s \in SUBSET S |-> IF s = {} THEN 0 ELSE f[Pick(s)] + g[s \ {Pick(s)}]]

LEMMA PickIn == ASSUME NEW s, s # {} PROVE Pick(s) \in s
BY DEF Pick

LEMMA UnfoldingExists ==
    ASSUME NEW S, IsFiniteSet(S), NEW f
    PROVE  \E g : Unfolds(g, f, S)
<1> DEFINE Sub(n) == {s \in SUBSET S : Cardinality(s) <= n}
           On(g, n) == g = [s \in Sub(n) |-> IF s = {} THEN 0 ELSE f[Pick(s)] + g[s \ {Pick(s)}]]
           T == {n \in Nat : ~ \E g : On(g, n)}
<1>1. \A s \in SUBSET S : IsFiniteSet(s) /\ Cardinality(s) \in Nat /\ Cardinality(s) <= Cardinality(S)
  BY FS_Subset, FS_CardinalityType
<1>2. \A s \in SUBSET S : s # {} => /\ s \ {Pick(s)} \in SUBSET S
                                    /\ Cardinality(s \ {Pick(s)}) = Cardinality(s) - 1
  BY <1>1, PickIn, FS_RemoveElement
<1>3. On([s \in Sub(0) |-> 0], 0)
  <2>1. \A s \in Sub(0) : s = {}
    BY <1>1, FS_EmptySet
  <2> QED BY <2>1
<1>4. ASSUME NEW n \in Nat, NEW g, On(g, n) PROVE \E h : On(h, n + 1)
  <2> DEFINE h == [s \in Sub(n + 1) |-> IF s = {} THEN 0 ELSE f[Pick(s)] + g[s \ {Pick(s)}]]
  <2>1. \A s \in Sub(n) : s \in Sub(n + 1)
    BY <1>1
  <2>2. \A s \in Sub(n) : h[s] = IF s = {} THEN 0 ELSE f[Pick(s)] + g[s \ {Pick(s)}]
    BY <2>1
  <2>3. \A s \in Sub(n) : g[s] = IF s = {} THEN 0 ELSE f[Pick(s)] + g[s \ {Pick(s)}]
    BY <1>4
  <2>4. \A s \in Sub(n + 1) : s # {} => s \ {Pick(s)} \in Sub(n)
    BY <1>1, <1>2
  <2> HIDE DEF Sub, h
  <2>5. \A s \in Sub(n + 1) : s # {} => g[s \ {Pick(s)}] = h[s \ {Pick(s)}]
    BY <2>2, <2>3, <2>4
  <2>6. h = [s \in Sub(n + 1) |-> IF s = {} THEN 0 ELSE f[Pick(s)] + h[s \ {Pick(s)}]]
    BY <2>5 DEF h
  <2> QED BY <2>6
<1> HIDE DEF On
<1>5. T = {}
  <2> SUFFICES ASSUME T # {} PROVE FALSE
    OBVIOUS
  <2>1. PICK n \in T : \A m \in T : n <= m
    BY LeastElement
  <2>2. n # 0
    BY <1>3
  <2>3. n - 1 \in Nat /\ n - 1 \notin T
    BY <2>1, <2>2
  <2>4. \E g : On(g, (n - 1) + 1)
    BY <1>4, <2>3
  <2> QED BY <2>4
<1>6. PICK g : On(g, Cardinality(S))
  BY <1>5, FS_CardinalityType
<1>7. Sub(Cardinality(S)) = SUBSET S
  BY <1>1
<1> QED BY <1>6, <1>7 DEF On, Unfolds

(* What an unfolding says of a set depends on the set alone.               *)
LEMMA UnfoldingsAgree ==
    ASSUME NEW S, NEW U, IsFiniteSet(U), U \subseteq S, NEW f, NEW e,
           \A x \in U : f[x] = e[x],
           NEW g, Unfolds(g, f, S), NEW h, Unfolds(h, e, U)
    PROVE  \A s \in SUBSET U : g[s] = h[s]
<1> DEFINE G == {s \in SUBSET U : g[s] = h[s]}
<1>1. ASSUME NEW s \in SUBSET U, \A x \in s : s \ {x} \in G PROVE s \in G
  <2>1. s \in SUBSET S
    OBVIOUS
  <2>2. /\ g[s] = IF s = {} THEN 0 ELSE f[Pick(s)] + g[s \ {Pick(s)}]
        /\ h[s] = IF s = {} THEN 0 ELSE e[Pick(s)] + h[s \ {Pick(s)}]
    BY <2>1 DEF Unfolds
  <2>3. CASE s = {}
    BY <2>2, <2>3
  <2>4. CASE s # {}
    <3>1. Pick(s) \in s /\ g[s \ {Pick(s)}] = h[s \ {Pick(s)}]
      BY <1>1, <2>4, PickIn
    <3>2. f[Pick(s)] = e[Pick(s)]
      BY <3>1
    <3> QED BY <2>2, <2>4, <3>1, <3>2
  <2> QED BY <2>3, <2>4
<1>2. SUBSET U \subseteq G
  <2> HIDE DEF G
  <2> QED BY <1>1, SubsetInduction
<1> QED BY <1>2

LEMMA SumUnfolds ==
    ASSUME NEW S, IsFiniteSet(S), NEW f
    PROVE  \E g : Unfolds(g, f, S) /\ SumFunctionOnSet(f, S) = g[S]
<1>1. SumFunctionOnSet(f, S) = (CHOOSE g : Unfolds(g, f, S))[S]
  BY DEF SumFunctionOnSet, FoldFunctionOnSet, MapThenFoldSet, Unfolds, Pick
<1> QED BY <1>1, UnfoldingExists

(* However a sum is written, it is the last value of its unfolding.        *)
LEMMA UnfoldedSum ==
    ASSUME NEW S, IsFiniteSet(S), NEW f, NEW g, Unfolds(g, f, S)
    PROVE  g[S] = SumFunctionOnSet(f, S)
<1>1. PICK h : Unfolds(h, f, S) /\ SumFunctionOnSet(f, S) = h[S]
  BY SumUnfolds
<1>2. \A s \in SUBSET S : h[s] = g[s]
  BY <1>1, UnfoldingsAgree
<1> QED BY <1>1, <1>2

LEMMA SumEmpty == ASSUME NEW f PROVE SumFunctionOnSet(f, {}) = 0
<1>1. PICK g : Unfolds(g, f, {}) /\ SumFunctionOnSet(f, {}) = g[{}]
  BY SumUnfolds, FS_EmptySet
<1> QED BY <1>1 DEF Unfolds

(* Equal summands, equal sums.                                             *)
LEMMA SumEqual ==
    ASSUME NEW S, IsFiniteSet(S), NEW f, NEW e, \A x \in S : f[x] = e[x]
    PROVE  SumFunctionOnSet(f, S) = SumFunctionOnSet(e, S)
<1>1. PICK g : Unfolds(g, f, S) /\ SumFunctionOnSet(f, S) = g[S]
  BY SumUnfolds
<1>2. PICK h : Unfolds(h, e, S) /\ SumFunctionOnSet(e, S) = h[S]
  BY SumUnfolds
<1>3. \A s \in SUBSET S : g[s] = h[s]
  BY <1>1, <1>2, UnfoldingsAgree
<1> QED BY <1>1, <1>2, <1>3

LEMMA SumPick ==
    ASSUME NEW S, IsFiniteSet(S), S # {}, NEW f
    PROVE  SumFunctionOnSet(f, S) = f[Pick(S)] + SumFunctionOnSet(f, S \ {Pick(S)})
<1> DEFINE U == S \ {Pick(S)}
<1>1. IsFiniteSet(U) /\ U \subseteq S
  BY FS_Subset
<1>2. PICK g : Unfolds(g, f, S) /\ SumFunctionOnSet(f, S) = g[S]
  BY SumUnfolds
<1>3. PICK h : Unfolds(h, f, U) /\ SumFunctionOnSet(f, U) = h[U]
  BY <1>1, SumUnfolds
<1>4. g[U] = h[U]
  BY <1>1, <1>2, <1>3, UnfoldingsAgree
<1>5. g[S] = f[Pick(S)] + g[U]
  BY <1>2 DEF Unfolds
<1> QED BY <1>2, <1>3, <1>4, <1>5

LEMMA SumType ==
    ASSUME NEW S, IsFiniteSet(S), NEW f, \A x \in S : f[x] \in Nat
    PROVE  SumFunctionOnSet(f, S) \in Nat
<1> DEFINE G == {s \in SUBSET S : SumFunctionOnSet(f, s) \in Nat}
<1>1. ASSUME NEW s \in SUBSET S, \A x \in s : s \ {x} \in G PROVE s \in G
  <2>1. CASE s = {}
    BY <2>1, SumEmpty
  <2>2. CASE s # {}
    <3>1. Pick(s) \in s /\ IsFiniteSet(s)
      BY <2>2, PickIn, FS_Subset
    <3>2. SumFunctionOnSet(f, s) = f[Pick(s)] + SumFunctionOnSet(f, s \ {Pick(s)})
      BY <2>2, <3>1, SumPick
    <3>3. f[Pick(s)] \in Nat /\ SumFunctionOnSet(f, s \ {Pick(s)}) \in Nat
      BY <1>1, <3>1
    <3> QED BY <3>2, <3>3
  <2> QED BY <2>1, <2>2
<1>2. SUBSET S \subseteq G
  <2> HIDE DEF G
  <2> QED BY <1>1, SubsetInduction
<1> QED BY <1>2

(* A summand can be taken out, whichever it is.                            *)
LEMMA SumRemove ==
    ASSUME NEW S, IsFiniteSet(S), NEW f, \A x \in S : f[x] \in Nat, NEW a \in S
    PROVE  SumFunctionOnSet(f, S) = f[a] + SumFunctionOnSet(f, S \ {a})
<1> DEFINE Sum(s) == SumFunctionOnSet(f, s)
           G == {s \in SUBSET S : \A x \in s : Sum(s) = f[x] + Sum(s \ {x})}
<1>0. \A s \in SUBSET S : IsFiniteSet(s) /\ Sum(s) \in Nat
  BY FS_Subset, SumType
<1>1. ASSUME NEW s \in SUBSET S, \A x \in s : s \ {x} \in G PROVE s \in G
  <2> SUFFICES ASSUME NEW x \in s PROVE Sum(s) = f[x] + Sum(s \ {x})
    OBVIOUS
  <2> DEFINE p == Pick(s)
  <2>1. p \in s /\ Sum(s) = f[p] + Sum(s \ {p})
    BY <1>0, PickIn, SumPick
  <2>2. CASE p = x
    BY <2>1, <2>2
  <2>3. CASE p # x
    <3>1. Sum(s \ {p}) = f[x] + Sum((s \ {p}) \ {x})
      BY <1>1, <2>1, <2>3
    <3>2. Sum(s \ {x}) = f[p] + Sum((s \ {x}) \ {p})
      BY <1>1, <2>1, <2>3
    <3>3. (s \ {p}) \ {x} = (s \ {x}) \ {p} /\ (s \ {p}) \ {x} \in SUBSET S
      OBVIOUS
    <3>4. f[x] \in Nat /\ f[p] \in Nat /\ Sum((s \ {p}) \ {x}) \in Nat
      BY <1>0, <2>1, <3>3
    <3> HIDE DEF Sum, p
    <3> QED BY <2>1, <3>1, <3>2, <3>3, <3>4
  <2> QED BY <2>2, <2>3
<1>2. SUBSET S \subseteq G
  <2> HIDE DEF G
  <2> QED BY <1>1, SubsetInduction
<1> QED BY <1>2

LEMMA SumMonotone ==
    ASSUME NEW S, IsFiniteSet(S), NEW f, NEW e,
           \A x \in S : f[x] \in Nat /\ e[x] \in Nat /\ f[x] <= e[x]
    PROVE  SumFunctionOnSet(f, S) <= SumFunctionOnSet(e, S)
<1> DEFINE F(s) == SumFunctionOnSet(f, s)
           E(s) == SumFunctionOnSet(e, s)
           G == {s \in SUBSET S : F(s) <= E(s)}
<1>0. \A s \in SUBSET S : IsFiniteSet(s) /\ F(s) \in Nat /\ E(s) \in Nat
  BY FS_Subset, SumType
<1>1. ASSUME NEW s \in SUBSET S, \A x \in s : s \ {x} \in G PROVE s \in G
  <2>1. CASE s = {}
    BY <2>1, SumEmpty
  <2>2. CASE s # {}
    <3> DEFINE p == Pick(s)
               r == s \ {p}
    <3>1. p \in s /\ F(s) = f[p] + F(r) /\ E(s) = e[p] + E(r)
      BY <1>0, <2>2, PickIn, SumPick
    <3>2. F(r) <= E(r) /\ r \in SUBSET S
      BY <1>1, <3>1
    <3>3. F(r) \in Nat /\ E(r) \in Nat /\ f[p] \in Nat /\ e[p] \in Nat /\ f[p] <= e[p]
      BY <1>0, <3>1, <3>2
    <3>4. F(s) <= E(s)
      <4> HIDE DEF F, E, p, r
      <4> QED BY <3>1, <3>2, <3>3
    <3> QED BY <3>4
  <2> QED BY <2>1, <2>2
<1>2. SUBSET S \subseteq G
  <2> HIDE DEF G
  <2> QED BY <1>1, SubsetInduction
<1> QED BY <1>2

LEMMA SumPlus ==
    ASSUME NEW S, IsFiniteSet(S), NEW f, NEW e, NEW g,
           \A x \in S : f[x] \in Nat /\ e[x] \in Nat /\ g[x] = f[x] + e[x]
    PROVE  SumFunctionOnSet(g, S) = SumFunctionOnSet(f, S) + SumFunctionOnSet(e, S)
<1> DEFINE F(s) == SumFunctionOnSet(f, s)
           E(s) == SumFunctionOnSet(e, s)
           H(s) == SumFunctionOnSet(g, s)
           G == {s \in SUBSET S : H(s) = F(s) + E(s)}
<1>0. \A s \in SUBSET S : IsFiniteSet(s) /\ F(s) \in Nat /\ E(s) \in Nat
  BY FS_Subset, SumType
<1>1. ASSUME NEW s \in SUBSET S, \A x \in s : s \ {x} \in G PROVE s \in G
  <2>1. CASE s = {}
    BY <2>1, SumEmpty
  <2>2. CASE s # {}
    <3> DEFINE p == Pick(s)
               r == s \ {p}
    <3>1. p \in s /\ F(s) = f[p] + F(r) /\ E(s) = e[p] + E(r) /\ H(s) = g[p] + H(r)
      BY <1>0, <2>2, PickIn, SumPick
    <3>2. H(r) = F(r) + E(r) /\ r \in SUBSET S
      BY <1>1, <3>1
    <3>3. F(r) \in Nat /\ E(r) \in Nat /\ f[p] \in Nat /\ e[p] \in Nat /\ g[p] = f[p] + e[p]
      BY <1>0, <3>1, <3>2
    <3>4. H(s) = F(s) + E(s)
      <4> HIDE DEF F, E, H, p, r
      <4> QED BY <3>1, <3>2, <3>3
    <3> QED BY <3>4
  <2> QED BY <2>1, <2>2
<1>2. SUBSET S \subseteq G
  <2> HIDE DEF G
  <2> QED BY <1>1, SubsetInduction
<1> QED BY <1>2

(* Only the summands that are not zero count.                              *)
LEMMA SumOfPart ==
    ASSUME NEW S, IsFiniteSet(S), NEW f, \A x \in S : f[x] \in Nat,
           NEW T \in SUBSET S, \A x \in S \ T : f[x] = 0
    PROVE  SumFunctionOnSet(f, T) = SumFunctionOnSet(f, S)
<1> DEFINE F(s) == SumFunctionOnSet(f, s)
           G == {s \in SUBSET S : F(s \cap T) = F(s)}
<1>0. \A s \in SUBSET S : IsFiniteSet(s) /\ F(s) \in Nat
  BY FS_Subset, SumType
<1>1. ASSUME NEW s \in SUBSET S, \A x \in s : s \ {x} \in G PROVE s \in G
  <2>1. CASE s = {}
    BY <2>1
  <2>2. CASE s # {}
    <3> DEFINE p == Pick(s)
    <3>1. p \in s /\ F(s) = f[p] + F(s \ {p}) /\ F(s \ {p}) \in Nat /\ f[p] \in Nat
      BY <1>0, <2>2, PickIn, SumPick
    <3>2. F((s \ {p}) \cap T) = F(s \ {p})
      BY <1>1, <3>1
    <3>3. CASE p \in T
      <4>1. IsFiniteSet(s \cap T) /\ \A x \in s \cap T : f[x] \in Nat
        BY <1>0
      <4>2. F(s \cap T) = f[p] + F((s \cap T) \ {p})
        BY <3>1, <3>3, <4>1, SumRemove
      <4>3. (s \cap T) \ {p} = (s \ {p}) \cap T
        OBVIOUS
      <4> QED BY <3>1, <3>2, <4>2, <4>3
    <3>4. CASE p \notin T
      <4>1. (s \ {p}) \cap T = s \cap T /\ f[p] = 0
        BY <3>1, <3>4
      <4>2. F(s \cap T) = F(s \ {p})
        BY <3>2, <4>1
      <4>3. F(s) = F(s \ {p})
        <5> HIDE DEF F, p
        <5> QED BY <3>1, <4>1
      <4> QED BY <4>2, <4>3
    <3> QED BY <3>3, <3>4
  <2> QED BY <2>1, <2>2
<1>2. SUBSET S \subseteq G
  <2> HIDE DEF G
  <2> QED BY <1>1, SubsetInduction
<1>3. S \cap T = T
  OBVIOUS
<1> QED BY <1>2, <1>3

LEMMA SumOfSubset ==
    ASSUME NEW S, IsFiniteSet(S), NEW f, \A x \in S : f[x] \in Nat, NEW T \in SUBSET S
    PROVE  SumFunctionOnSet(f, T) <= SumFunctionOnSet(f, S)
<1> DEFINE e == [x \in S |-> IF x \in T THEN f[x] ELSE 0]
<1>1. \A x \in S : e[x] \in Nat /\ e[x] <= f[x]
  OBVIOUS
<1>2. \A x \in S \ T : e[x] = 0
  OBVIOUS
<1>3. \A x \in T : f[x] = e[x]
  OBVIOUS
<1> HIDE DEF e
<1>4. SumFunctionOnSet(e, T) = SumFunctionOnSet(e, S)
  BY <1>1, <1>2, SumOfPart
<1>5. SumFunctionOnSet(f, T) = SumFunctionOnSet(e, T)
  BY <1>3, SumEqual, FS_Subset
<1>6. SumFunctionOnSet(e, S) <= SumFunctionOnSet(f, S)
  BY <1>1, SumMonotone
<1> QED BY <1>4, <1>5, <1>6

-----------------------------------------------------------------------------
(* A finite set has subsets of every smaller size.                         *)
LEMMA SubsetOfSize ==
    ASSUME NEW S, IsFiniteSet(S), NEW k \in Nat, k <= Cardinality(S)
    PROVE  \E T \in kSubset(k, S) : TRUE
<1> DEFINE G == {s \in SUBSET S : k <= Cardinality(s) => \E T \in SUBSET s : Cardinality(T) = k}
<1>0. \A s \in SUBSET S : IsFiniteSet(s) /\ Cardinality(s) \in Nat
  BY FS_Subset, FS_CardinalityType
<1>1. ASSUME NEW s \in SUBSET S, \A x \in s : s \ {x} \in G PROVE s \in G
  <2> SUFFICES ASSUME k <= Cardinality(s), Cardinality(s) # k
               PROVE  \E T \in SUBSET s : Cardinality(T) = k
    OBVIOUS
  <2>1. s # {}
    BY <1>0, FS_EmptySet
  <2>2. PICK x \in s : TRUE
    BY <2>1
  <2>3. Cardinality(s \ {x}) = Cardinality(s) - 1
    BY <1>0, FS_RemoveElement
  <2>4. k <= Cardinality(s \ {x})
    BY <1>0, <2>3
  <2> QED BY <1>1, <2>4
<1>2. SUBSET S \subseteq G
  <2> HIDE DEF G
  <2> QED BY <1>1, SubsetInduction
<1> QED BY <1>2 DEF kSubset

-----------------------------------------------------------------------------
(* Counting in two ways: numbers that are no more than the sizes of sets   *)
(* add up to no more than there are pairs.                                 *)
Pairs(s, T) == {q \in s \X UNION {T[x] : x \in s} : q[2] \in T[q[1]]}

LEMMA PairsFinite ==
    ASSUME NEW S, IsFiniteSet(S), NEW C, IsFiniteSet(C), NEW T, \A x \in S : T[x] \subseteq C
    PROVE  IsFiniteSet(Pairs(S, T)) /\ Cardinality(Pairs(S, T)) \in Nat
<1>1. IsFiniteSet(S \X C) /\ Pairs(S, T) \in SUBSET (S \X C)
  BY FS_Product DEF Pairs
<1> QED BY <1>1, FS_Subset, FS_CardinalityType

LEMMA SumOfSizes ==
    ASSUME NEW S, IsFiniteSet(S), NEW C, IsFiniteSet(C), NEW T, NEW f,
           \A x \in S : T[x] \subseteq C /\ f[x] \in Nat /\ f[x] <= Cardinality(T[x])
    PROVE  SumFunctionOnSet(f, S) <= Cardinality(Pairs(S, T))
<1> DEFINE F(s) == SumFunctionOnSet(f, s)
           G == {s \in SUBSET S : F(s) <= Cardinality(Pairs(s, T))}
<1>0. \A s \in SUBSET S : /\ IsFiniteSet(s) /\ F(s) \in Nat
                          /\ IsFiniteSet(Pairs(s, T)) /\ Cardinality(Pairs(s, T)) \in Nat
  <2> SUFFICES ASSUME NEW s \in SUBSET S
               PROVE  /\ IsFiniteSet(s) /\ F(s) \in Nat
                      /\ IsFiniteSet(Pairs(s, T)) /\ Cardinality(Pairs(s, T)) \in Nat
    OBVIOUS
  <2>1. IsFiniteSet(s) /\ \A x \in s : T[x] \subseteq C /\ f[x] \in Nat
    BY FS_Subset
  <2> QED BY <2>1, SumType, PairsFinite
<1>1. ASSUME NEW s \in SUBSET S, \A x \in s : s \ {x} \in G PROVE s \in G
  <2>1. CASE s = {}
    BY <1>0, <2>1, SumEmpty
  <2>2. CASE s # {}
    <3> DEFINE p == Pick(s)
               r == s \ {p}
               own == {p} \X T[p]
    <3>1. p \in s /\ F(s) = f[p] + F(r)
      BY <1>0, <2>2, PickIn, SumPick
    <3>2. r \in SUBSET S /\ F(r) <= Cardinality(Pairs(r, T))
      BY <1>1, <3>1
    <3>3. Pairs(s, T) = Pairs(r, T) \cup own /\ Pairs(r, T) \cap own = {}
      BY <3>1 DEF Pairs
    <3>4. IsFiniteSet(T[p]) /\ Cardinality(T[p]) \in Nat
      BY <3>1, FS_Subset, FS_CardinalityType
    <3>5. IsFiniteSet(own) /\ Cardinality(own) = Cardinality(T[p])
      <4>1. IsFiniteSet({p}) /\ Cardinality({p}) = 1
        BY FS_Singleton
      <4>2. IsFiniteSet(own) /\ Cardinality(own) = Cardinality({p}) * Cardinality(T[p])
        BY <3>4, <4>1, FS_Product
      <4> QED BY <3>4, <4>1, <4>2
    <3>6. Cardinality(Pairs(s, T)) = Cardinality(Pairs(r, T)) + Cardinality(T[p])
      <4>1. Cardinality(Pairs(s, T))
               = Cardinality(Pairs(r, T)) + Cardinality(own) - Cardinality(Pairs(r, T) \cap own)
        BY <1>0, <3>2, <3>3, <3>5, FS_Union
      <4>2. Cardinality(Pairs(r, T) \cap own) = 0
        BY <3>3, FS_EmptySet
      <4> QED BY <1>0, <3>2, <3>4, <3>5, <4>1, <4>2
    <3>7. F(s) \in Nat /\ F(r) \in Nat /\ f[p] \in Nat /\ f[p] <= Cardinality(T[p])
          /\ Cardinality(Pairs(r, T)) \in Nat
      BY <1>0, <3>1, <3>2
    <3>8. F(s) <= Cardinality(Pairs(s, T))
      <4> HIDE DEF F, p, r
      <4> QED BY <3>1, <3>2, <3>4, <3>6, <3>7
    <3> QED BY <3>8
  <2> QED BY <2>1, <2>2
<1>2. SUBSET S \subseteq G
  <2> HIDE DEF G
  <2> QED BY <1>1, SubsetInduction
<1> QED BY <1>2

(* When no element is in three of the sets, and in two of them only if it  *)
(* is in B, the sizes add up to no more than all elements and those of B.  *)
LEMMA CountedTwiceAtMost ==
    ASSUME NEW S, IsFiniteSet(S), NEW C, IsFiniteSet(C), NEW B \in SUBSET C, NEW T, NEW f,
           \A x \in S : T[x] \subseteq C /\ f[x] \in Nat /\ f[x] <= Cardinality(T[x]),
           \A x, y \in S : \A c \in T[x] \cap T[y] : x # y => c \in B,
           \A x, y, z \in S : x # y /\ y # z /\ x # z => T[x] \cap T[y] \cap T[z] = {}
    PROVE  SumFunctionOnSet(f, S) <= Cardinality(C) + Cardinality(B)
<1> DEFINE First(c) == CHOOSE x \in S : c \in T[x]
           once == C \X {0}
           again == B \X {1}
           place == [q \in Pairs(S, T) |-> IF q[1] = First(q[2]) THEN <<q[2], 0>> ELSE <<q[2], 1>>]
<1>1. \A q \in Pairs(S, T) : /\ q = <<q[1], q[2]>> /\ q[1] \in S /\ q[2] \in T[q[1]] /\ q[2] \in C
                            /\ First(q[2]) \in S /\ q[2] \in T[First(q[2])]
  <2> SUFFICES ASSUME NEW q \in Pairs(S, T)
               PROVE  /\ q = <<q[1], q[2]>> /\ q[1] \in S /\ q[2] \in T[q[1]] /\ q[2] \in C
                      /\ First(q[2]) \in S /\ q[2] \in T[First(q[2])]
    OBVIOUS
  <2>1. q = <<q[1], q[2]>> /\ q[1] \in S /\ q[2] \in T[q[1]]
    BY DEF Pairs
  <2> QED BY <2>1
<1> HIDE DEF First
<1>2. place \in [Pairs(S, T) -> once \cup again]
  BY <1>1
<1>3. ASSUME NEW q \in Pairs(S, T), NEW o \in Pairs(S, T), place[q] = place[o] PROVE q = o
  <2>1. q[2] = o[2] /\ (q[1] = First(q[2]) <=> o[1] = First(o[2]))
    BY <1>3
  <2>2. q[1] = o[1]
    BY <1>1, <2>1
  <2> QED BY <1>1, <2>1, <2>2
<1>4. place \in Injection(Pairs(S, T), once \cup again)
  <2> HIDE DEF place, once, again
  <2>1. \A q, o \in Pairs(S, T) : place[q] = place[o] => q = o
    BY <1>3
  <2> QED BY <1>2, <2>1, Zenon DEF Injection, IsInjective
<1>5. /\ IsFiniteSet(B) /\ Cardinality(B) \in Nat /\ Cardinality(C) \in Nat
      /\ IsFiniteSet(once) /\ Cardinality(once) = Cardinality(C)
      /\ IsFiniteSet(again) /\ Cardinality(again) = Cardinality(B)
  <2>1. IsFiniteSet(B) /\ Cardinality(B) \in Nat /\ Cardinality(C) \in Nat
    BY FS_Subset, FS_CardinalityType
  <2>2. \A x : IsFiniteSet({x}) /\ Cardinality({x}) = 1
    BY FS_Singleton
  <2>3. /\ IsFiniteSet(once) /\ Cardinality(once) = Cardinality(C) * Cardinality({0})
        /\ IsFiniteSet(again) /\ Cardinality(again) = Cardinality(B) * Cardinality({1})
    BY <2>1, <2>2, FS_Product
  <2>4. Cardinality(C) * 1 = Cardinality(C) /\ Cardinality(B) * 1 = Cardinality(B)
    BY <2>1
  <2> HIDE DEF once, again
  <2> QED BY <2>1, <2>2, <2>3, <2>4
<1>6. /\ IsFiniteSet(once \cup again)
      /\ Cardinality(once \cup again) = Cardinality(C) + Cardinality(B)
  <2>1. once \cap again = {}
    OBVIOUS
  <2>2. Cardinality(once \cap again) = 0
    BY <2>1, FS_EmptySet
  <2> HIDE DEF once, again
  <2>3. /\ IsFiniteSet(once \cup again)
        /\ Cardinality(once \cup again) = Cardinality(once) + Cardinality(again) - Cardinality(once \cap again)
    BY <1>5, FS_Union
  <2> QED BY <1>5, <2>2, <2>3
<1>7. Cardinality(Pairs(S, T)) <= Cardinality(once \cup again)
  BY <1>4, <1>6, FS_Injection
<1>8. SumFunctionOnSet(f, S) <= Cardinality(Pairs(S, T))
  BY SumOfSizes
<1>9. SumFunctionOnSet(f, S) \in Nat /\ Cardinality(Pairs(S, T)) \in Nat
  BY SumType, PairsFinite
<1> HIDE DEF once, again
<1> QED BY <1>5, <1>6, <1>7, <1>8, <1>9

(* The sum over two sets is no more than that over each.                   *)
LEMMA SumOfUnion ==
    ASSUME NEW S, IsFiniteSet(S), NEW f, \A x \in S : f[x] \in Nat, NEW A \in SUBSET S, NEW B \in SUBSET S,
           S = A \cup B
    PROVE  SumFunctionOnSet(f, S) <= SumFunctionOnSet(f, A) + SumFunctionOnSet(f, B)
<1> DEFINE a == [x \in S |-> IF x \in A THEN f[x] ELSE 0]
           b == [x \in S |-> IF x \in B THEN f[x] ELSE 0]
           ab == [x \in S |-> a[x] + b[x]]
<1>1. \A x \in S : a[x] \in Nat /\ b[x] \in Nat /\ ab[x] = a[x] + b[x] /\ ab[x] \in Nat /\ f[x] <= ab[x]
  OBVIOUS
<1>2. (\A x \in A : f[x] = a[x]) /\ (\A x \in S \ A : a[x] = 0)
  OBVIOUS
<1>3. (\A x \in B : f[x] = b[x]) /\ (\A x \in S \ B : b[x] = 0)
  OBVIOUS
<1> HIDE DEF a, b, ab
<1>4. SumFunctionOnSet(f, S) <= SumFunctionOnSet(ab, S)
  BY <1>1, SumMonotone
<1>5. SumFunctionOnSet(ab, S) = SumFunctionOnSet(a, S) + SumFunctionOnSet(b, S)
  BY <1>1, SumPlus
<1>6. SumFunctionOnSet(f, A) = SumFunctionOnSet(a, S)
  <2>1. SumFunctionOnSet(f, A) = SumFunctionOnSet(a, A)
    BY <1>2, SumEqual, FS_Subset
  <2>2. SumFunctionOnSet(a, A) = SumFunctionOnSet(a, S)
    BY <1>1, <1>2, SumOfPart
  <2> QED BY <2>1, <2>2
<1>7. SumFunctionOnSet(f, B) = SumFunctionOnSet(b, S)
  <2>1. SumFunctionOnSet(f, B) = SumFunctionOnSet(b, B)
    BY <1>3, SumEqual, FS_Subset
  <2>2. SumFunctionOnSet(b, B) = SumFunctionOnSet(b, S)
    BY <1>1, <1>3, SumOfPart
  <2> QED BY <2>1, <2>2
<1> QED BY <1>4, <1>5, <1>6, <1>7

-----------------------------------------------------------------------------
(* Division.                                                               *)
LEMMA Division ==
    ASSUME NEW n \in Nat \ {0}, NEW x \in Nat
    PROVE  \E k \in Nat : x = n * k + (x % n) /\ x \div n = k /\ x % n \in 0..(n - 1)
<1> DEFINE T == {m \in Nat : \E k \in Nat : x = n * k + m}
<1>1. x = n * 0 + x
  OBVIOUS
<1>2. T \in SUBSET Nat /\ T # {}
  BY <1>1
<1>3. PICK m \in T : \A y \in T : m <= y
  BY <1>2, LeastElement
<1>4. PICK k \in Nat : x = n * k + m
  BY <1>3
<1>5. m < n
  <2> SUFFICES ASSUME m >= n PROVE FALSE
    BY <1>3
  <2>1. m - n \in Nat /\ k + 1 \in Nat /\ x = n * (k + 1) + (m - n)
    BY <1>4
  <2>2. m - n \in T
    BY <2>1
  <2> QED BY <1>3, <2>2
<1>6. m \in 0..(n - 1)
  BY <1>5
<1>7. (n * k + m) \div n = k /\ (n * k + m) % n = m
  BY <1>6
<1>8. x = n * k + (x % n) /\ x \div n = k /\ x % n = m
  BY <1>4, <1>7
<1> QED BY <1>6, <1>8
=============================================================================
