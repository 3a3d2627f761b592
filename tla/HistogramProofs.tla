--------------------------- MODULE HistogramProofs ---------------------------
(***************************************************************************)
(* Proofs about Histogram: what its recursive operators compute, for any   *)
(* number of buckets, any bound and any latencies.                         *)
(*                                                                         *)
(* Induction is by the least counterexample: the least of a set of numbers *)
(* or a minimal one of a set of finite sets for which a lemma fails.       *)
(***************************************************************************)
EXTENDS Histogram, FiniteSetTheorems, WellFoundedInduction, TLAPS

-----------------------------------------------------------------------------
(* Least and greatest.                                                     *)

LEMMA LessIsWellFounded == IsWellFoundedOn({ss \in Nat \X Nat : ss[1] < ss[2]}, Nat)
BY NatLessThanWellFounded DEF OpToRel

LEMMA LeastNat ==
  ASSUME NEW S, S \subseteq Nat, S # {}
  PROVE  \E n \in S : \A m \in S : n <= m
<1>. DEFINE R == {ss \in Nat \X Nat : ss[1] < ss[2]}
<1>1. IsWellFoundedOn(R, Nat)
  BY LessIsWellFounded
<1>2. PICK n \in S : \A m \in S : ~ (<<m, n>> \in R)
  <2>. HIDE DEF R
  <2>. QED
    BY <1>1, WFMin
<1>3. ASSUME NEW m \in S PROVE n <= m
  <2>1. m \in Nat /\ n \in Nat
    OBVIOUS
  <2>2. ~ (<<m, n>> \in R)
    BY <1>2
  <2>3. ~ (m < n)
    BY <2>1, <2>2
  <2>. QED
    BY <2>1, <2>3
<1>. QED
  BY <1>3

LEMMA MinimalSubset ==
  ASSUME NEW D, NEW T, T \subseteq FiniteSubsetsOf(D), T # {}
  PROVE  \E s \in T : \A u \in T : ~(u \subseteq s /\ u # s)
<1>1. IsWellFoundedOn(StrictSubsetOrdering(D), FiniteSubsetsOf(D))
  BY FS_StrictSubsetOrderingWellFounded
<1>2. PICK s \in T : \A u \in T : ~ (<<u, s>> \in StrictSubsetOrdering(D))
  BY <1>1, WFMin
<1>. QED
  BY <1>2 DEF StrictSubsetOrdering, FiniteSubsetsOf

\* The same for the subsets of a finite set.
LEMMA MinimalFinite ==
  ASSUME NEW D, IsFiniteSet(D), NEW T, T \subseteq SUBSET D, T # {}
  PROVE  \E s \in T : IsFiniteSet(s) /\ \A u \in T : ~(u \subseteq s /\ u # s)
<1>1. T \subseteq FiniteSubsetsOf(D)
  BY FS_Subset DEF FiniteSubsetsOf
<1>2. PICK s \in T : \A u \in T : ~(u \subseteq s /\ u # s)
  BY <1>1, MinimalSubset
<1>. QED
  BY <1>1, <1>2 DEF FiniteSubsetsOf

LEMMA FiniteBound ==
  ASSUME NEW S, IsFiniteSet(S), NEW f, \A e \in S : f[e] \in Nat
  PROVE  \E n \in Nat : \A e \in S : f[e] <= n
<1>. DEFINE Bounded(T) == \E n \in Nat : \A e \in T : f[e] <= n
            Bad == {T \in SUBSET S : ~Bounded(T)}
<1>. SUFFICES ASSUME S \in Bad PROVE FALSE
  OBVIOUS
<1>1. PICK T \in Bad : \A u \in Bad : ~(u \subseteq T /\ u # T)
  <2>1. Bad \subseteq SUBSET S /\ Bad # {}
    OBVIOUS
  <2>. HIDE DEF Bad
  <2>. QED
    BY <2>1, MinimalFinite
<1>2. CASE T = {}
  <2>1. 0 \in Nat /\ \A e \in T : f[e] <= 0
    BY <1>2
  <2>. QED
    BY <2>1
<1>3. CASE T # {}
  <2>1. PICK x \in T : TRUE
    BY <1>3
  <2>2. T \ {x} \notin Bad /\ T \ {x} \in SUBSET S
    BY <1>1
  <2>3. PICK n \in Nat : \A e \in T \ {x} : f[e] <= n
    BY <2>2
  <2>. DEFINE m == IF f[x] <= n THEN n ELSE f[x]
  <2>4. m \in Nat /\ n <= m /\ f[x] <= m /\ f[x] \in Nat
    BY <2>1
  <2>5. ASSUME NEW e \in T PROVE f[e] <= m
    <3>1. f[e] \in Nat
      OBVIOUS
    <3>. HIDE DEF m
    <3>2. CASE e = x
      BY <2>4, <3>2
    <3>3. CASE e # x
      BY <2>3, <2>4, <3>1, <3>3
    <3>. QED
      BY <3>2, <3>3
  <2>. HIDE DEF m
  <2>. QED
    BY <2>4, <2>5
<1>. QED
  BY <1>2, <1>3

\* A set of numbers has one least, and a finite one has one greatest.
LEMMA MinIs ==
  ASSUME NEW S, S \subseteq Nat, NEW x \in S, \A y \in S : x <= y
  PROVE  Min(S) = x
<1>1. ASSUME NEW z \in S, \A y \in S : z =< y PROVE z = x
  <2>1. z \in Nat /\ x \in Nat /\ z <= x /\ x <= z
    BY <1>1
  <2>. QED
    BY <2>1
<1>. QED
  BY <1>1 DEF Min

LEMMA MinIn ==
  ASSUME NEW S, S \subseteq Nat, S # {}
  PROVE  Min(S) \in S /\ \A y \in S : Min(S) <= y
<1>1. PICK x \in S : \A y \in S : x <= y
  BY LeastNat
<1>2. Min(S) = x
  BY <1>1, MinIs
<1>. QED
  BY <1>1, <1>2

LEMMA MaxIs ==
  ASSUME NEW S, S \subseteq Nat, NEW x \in S, \A y \in S : y <= x
  PROVE  Max(S) = x
<1>0. \A y \in S : x >= y
  OBVIOUS
<1>1. ASSUME NEW z \in S, \A y \in S : z >= y PROVE z = x
  <2>1. z \in Nat /\ x \in Nat /\ z >= x /\ z <= x
    BY <1>1
  <2>. QED
    BY <2>1
<1>. QED
  BY <1>0, <1>1 DEF Max
-----------------------------------------------------------------------------
(* Sums over finite sets.                                                  *)

Pick(s) == CHOOSE x \in s : TRUE

LEMMA PickIn == ASSUME NEW s, s # {} PROVE Pick(s) \in s
BY DEF Pick

\* g is the recursive function the fold of a sum over D takes the value of.
IsSum(fun, D, g) ==
  g = [s \in SUBSET D |-> IF s = {} THEN 0 ELSE fun[Pick(s)] + g[s \ {Pick(s)}]]

LEMMA SumChoice ==
  ASSUME NEW fun, NEW D
  PROVE  SumFunctionOnSet(fun, D) = (CHOOSE g : IsSum(fun, D, g))[D]
BY DEF SumFunctionOnSet, FoldFunctionOnSet, MapThenFoldSet, IsSum, Pick

LEMMA IsSumValue ==
  ASSUME NEW fun, NEW D, NEW g, IsSum(fun, D, g), NEW s, s \subseteq D
  PROVE  g[s] = IF s = {} THEN 0 ELSE fun[Pick(s)] + g[s \ {Pick(s)}]
BY DEF IsSum

LEMMA SumsAgree ==
  ASSUME NEW fun, NEW D, NEW E, NEW g, NEW h, IsSum(fun, D, g), IsSum(fun, E, h),
         NEW s, IsFiniteSet(s), s \subseteq D, s \subseteq E
  PROVE  g[s] = h[s]
<1>. DEFINE Bad == {u \in SUBSET s : g[u] # h[u]}
<1>. SUFFICES ASSUME s \in Bad PROVE FALSE
  OBVIOUS
<1>1. PICK t \in Bad : \A u \in Bad : ~(u \subseteq t /\ u # t)
  <2>1. Bad \subseteq SUBSET s /\ Bad # {}
    OBVIOUS
  <2>. HIDE DEF Bad
  <2>. QED
    BY <2>1, MinimalFinite
<1>2. /\ g[t] = IF t = {} THEN 0 ELSE fun[Pick(t)] + g[t \ {Pick(t)}]
      /\ h[t] = IF t = {} THEN 0 ELSE fun[Pick(t)] + h[t \ {Pick(t)}]
  <2>1. t \subseteq D /\ t \subseteq E
    OBVIOUS
  <2>2. g[t] = IF t = {} THEN 0 ELSE fun[Pick(t)] + g[t \ {Pick(t)}]
    BY <2>1, IsSumValue
  <2>3. h[t] = IF t = {} THEN 0 ELSE fun[Pick(t)] + h[t \ {Pick(t)}]
    BY <2>1, IsSumValue
  <2>. QED
    BY <2>2, <2>3
<1>3. t # {}
  BY <1>2
<1>4. Pick(t) \in t
  BY <1>3, PickIn
<1>5. t \ {Pick(t)} \notin Bad /\ t \ {Pick(t)} \in SUBSET s
  BY <1>1, <1>4
<1>. QED
  BY <1>2, <1>3, <1>5

LEMMA SumExists ==
  ASSUME NEW fun, NEW D, IsFiniteSet(D)
  PROVE  \E g : IsSum(fun, D, g)
<1>. DEFINE Bad == {s \in SUBSET D : ~ \E g : IsSum(fun, s, g)}
<1>. SUFFICES ASSUME D \in Bad PROVE FALSE
  OBVIOUS
<1>1. PICK t \in Bad : IsFiniteSet(t) /\ \A u \in Bad : ~(u \subseteq t /\ u # t)
  <2>1. Bad \subseteq SUBSET D /\ Bad # {}
    OBVIOUS
  <2>. HIDE DEF Bad
  <2>. QED
    BY <2>1, MinimalFinite
<1>. DEFINE own(u)  == CHOOSE g : IsSum(fun, u, g)
            next(s) == s \ {Pick(s)}
            step(s) == IF s = {} THEN 0 ELSE fun[Pick(s)] + own(next(s))[next(s)]
            G == [s \in SUBSET t |-> step(s)]
<1>2. ASSUME NEW u, u \subseteq t, u # t PROVE IsSum(fun, u, own(u)) /\ IsFiniteSet(u)
  <2>1. u \notin Bad /\ u \in SUBSET D
    BY <1>1, <1>2
  <2>2. \E g : IsSum(fun, u, g)
    BY <2>1
  <2>. QED
    BY <1>1, <1>2, <2>2, FS_Subset
<1>3. ASSUME NEW s \in SUBSET t, s # {} PROVE next(s) \subseteq t /\ next(s) # t
  BY <1>3, PickIn
<1>4. ASSUME NEW u, u \subseteq t, u # t PROVE G[u] = own(u)[u]
  <2>1. own(u)[u] = IF u = {} THEN 0 ELSE fun[Pick(u)] + own(u)[next(u)]
    <3>1. IsSum(fun, u, own(u))
      BY <1>2, <1>4
    <3>. HIDE DEF own
    <3>. QED
      BY <3>1, IsSumValue
  <2>2. ASSUME u # {} PROVE own(u)[next(u)] = own(next(u))[next(u)]
    <3>1. next(u) \subseteq t /\ next(u) # t /\ next(u) \subseteq u
      BY <1>3, <1>4, <2>2
    <3>. HIDE DEF own, next
    <3>2. /\ IsSum(fun, u, own(u)) /\ IsSum(fun, next(u), own(next(u)))
          /\ IsFiniteSet(next(u))
      BY <1>2, <1>4, <3>1
    <3>. QED
      BY <3>1, <3>2, SumsAgree
  <2>3. G[u] = step(u)
    <3>. HIDE DEF step
    <3>. QED
      BY <1>4
  <2>. HIDE DEF G, own, next
  <2>. QED
    BY <2>1, <2>2, <2>3
<1>5. IsSum(fun, t, G)
  <2>. DEFINE rec(s) == IF s = {} THEN 0 ELSE fun[Pick(s)] + G[next(s)]
  <2>1. ASSUME NEW s \in SUBSET t PROVE step(s) = rec(s)
    <3>1. CASE s = {}
      BY <3>1
    <3>2. CASE s # {}
      <4>1. next(s) \subseteq t /\ next(s) # t
        BY <1>3, <3>2
      <4>. HIDE DEF G, own, next
      <4>2. G[next(s)] = own(next(s))[next(s)]
        BY <1>4, <4>1
      <4>. QED
        BY <4>2
    <3>. QED
      BY <3>1, <3>2
  <2>2. G = [s \in SUBSET t |-> rec(s)]
    <3>1. G = [s \in SUBSET t |-> step(s)]
      OBVIOUS
    <3>. HIDE DEF G, step, rec
    <3>. QED
      BY <2>1, <3>1
  <2>. HIDE DEF G
  <2>. QED
    BY <2>2 DEF IsSum
<1>. QED
  BY <1>5

\* A sum over a finite set is that of one of its elements and of the rest.
LEMMA SumUnfold ==
  ASSUME NEW fun, NEW D, IsFiniteSet(D)
  PROVE  SumFunctionOnSet(fun, D) =
           IF D = {} THEN 0
           ELSE fun[Pick(D)] + SumFunctionOnSet(fun, D \ {Pick(D)})
<1>. DEFINE own(u) == CHOOSE g : IsSum(fun, u, g)
            rest   == D \ {Pick(D)}
<1>1. ASSUME NEW u, IsFiniteSet(u) PROVE IsSum(fun, u, own(u))
  BY <1>1, SumExists
<1>2. \A u : SumFunctionOnSet(fun, u) = own(u)[u]
  BY SumChoice
<1>. HIDE DEF own
<1>3. own(D)[D] = IF D = {} THEN 0 ELSE fun[Pick(D)] + own(D)[rest]
  BY <1>1, IsSumValue
<1>4. own(D)[rest] = own(rest)[rest]
  <2>1. IsFiniteSet(rest) /\ rest \subseteq D
    BY FS_RemoveElement
  <2>2. IsSum(fun, D, own(D)) /\ IsSum(fun, rest, own(rest))
    BY <1>1, <2>1
  <2>. HIDE DEF rest
  <2>. QED
    BY <2>1, <2>2, SumsAgree
<1>. QED
  BY <1>2, <1>3, <1>4
-----------------------------------------------------------------------------
(* Bags as tallies: b counts, for each value, the elements of S that f     *)
(* gives it.                                                               *)

Values(S, f) == {f[e] : e \in S}
At(S, f, v)  == {e \in S : f[e] = v}
IsTally(b, S, f) == b = [v \in Values(S, f) |-> Cardinality(At(S, f, v))]

LEMMA ValuesFinite ==
  ASSUME NEW S, IsFiniteSet(S), NEW f
  PROVE  IsFiniteSet(Values(S, f))
<1>. DEFINE g == [e \in S |-> f[e]]
<1>1. g \in Surjection(S, Values(S, f))
  BY DEF Surjection, Values
<1>. HIDE DEF g
<1>. QED
  BY <1>1, FS_Surjection

LEMMA AtFinite ==
  ASSUME NEW S, IsFiniteSet(S), NEW f, NEW v
  PROVE  IsFiniteSet(At(S, f, v)) /\ Cardinality(At(S, f, v)) \in Nat
<1>1. IsFiniteSet(At(S, f, v))
  BY FS_Subset DEF At
<1>. QED
  BY <1>1, FS_CardinalityType

LEMMA TallyDomain ==
  ASSUME NEW S, NEW f, NEW b, IsTally(b, S, f)
  PROVE  /\ DOMAIN b = Values(S, f)
         /\ \A v \in Values(S, f) : b[v] = Cardinality(At(S, f, v))
BY DEF IsTally

LEMMA TallyAgrees ==
  ASSUME NEW S, NEW f, NEW g, NEW b, IsTally(b, S, f), \A e \in S : g[e] = f[e]
  PROVE  IsTally(b, S, g)
<1>1. Values(S, f) = Values(S, g)
  BY DEF Values
<1>2. \A v : At(S, f, v) = At(S, g, v)
  BY DEF At
<1>. QED
  BY <1>1, <1>2 DEF IsTally

LEMMA TallyOfNone == ASSUME NEW f PROVE IsTally(EmptyBag, {}, f)
BY DEF IsTally, Values, EmptyBag, SetToBag

LEMMA TallyOfOne == ASSUME NEW e, NEW f PROVE IsTally(SetToBag({f[e]}), {e}, f)
<1>1. Values({e}, f) = {f[e]}
  BY DEF Values
<1>2. At({e}, f, f[e]) = {e} /\ Cardinality({e}) = 1
  BY FS_Singleton DEF At
<1>3. [v \in {f[e]} |-> Cardinality(At({e}, f, v))] = [v \in {f[e]} |-> 1]
  BY <1>2
<1>. QED
  BY <1>1, <1>3 DEF IsTally, SetToBag

LEMMA DisjointUnion ==
  ASSUME NEW S, NEW T, IsFiniteSet(S), IsFiniteSet(T), S \cap T = {}
  PROVE  /\ IsFiniteSet(S \union T)
         /\ Cardinality(S \union T) = Cardinality(S) + Cardinality(T)
         /\ Cardinality(S) \in Nat /\ Cardinality(T) \in Nat
<1>1. /\ IsFiniteSet(S \union T)
      /\ Cardinality(S \union T) = Cardinality(S) + Cardinality(T) - Cardinality(S \cap T)
  BY FS_Union
<1>2. Cardinality(S \cap T) = 0
  BY FS_EmptySet
<1>3. Cardinality(S) \in Nat /\ Cardinality(T) \in Nat
  BY FS_CardinalityType
<1>. QED
  BY <1>1, <1>2, <1>3

\* How often a tally has a value it need not have.
LEMMA TallyCount ==
  ASSUME NEW S, NEW f, NEW b, IsTally(b, S, f), NEW v
  PROVE  (IF v \in DOMAIN b THEN b[v] ELSE 0) = Cardinality(At(S, f, v))
<1>1. CASE v \in DOMAIN b
  BY <1>1, TallyDomain
<1>2. CASE v \notin DOMAIN b
  <2>1. v \notin Values(S, f)
    BY <1>2, TallyDomain
  <2>2. At(S, f, v) = {}
    BY <2>1 DEF Values, At
  <2>. QED
    BY <1>2, <2>2, FS_EmptySet
<1>. QED
  BY <1>1, <1>2

LEMMA TallyMerge ==
  ASSUME NEW S, NEW T, IsFiniteSet(S), IsFiniteSet(T), S \cap T = {}, NEW f,
         NEW a, NEW b, IsTally(a, S, f), IsTally(b, T, f)
  PROVE  IsTally(a (+) b, S \union T, f)
<1>. DEFINE in(c, v) == IF v \in DOMAIN c THEN c[v] ELSE 0
            V == Values(S \union T, f)
<1>1. (DOMAIN a) \cup (DOMAIN b) = V
  <2>1. DOMAIN a = Values(S, f)
    BY TallyDomain
  <2>2. DOMAIN b = Values(T, f)
    BY TallyDomain
  <2>. QED
    BY <2>1, <2>2 DEF Values
<1>2. ASSUME NEW v PROVE Cardinality(At(S \union T, f, v)) = in(a, v) + in(b, v)
  <2>1. in(a, v) = Cardinality(At(S, f, v))
    BY TallyCount
  <2>2. in(b, v) = Cardinality(At(T, f, v))
    BY TallyCount
  <2>3. /\ At(S \union T, f, v) = At(S, f, v) \union At(T, f, v)
        /\ At(S, f, v) \cap At(T, f, v) = {}
    BY DEF At
  <2>4. IsFiniteSet(At(S, f, v)) /\ IsFiniteSet(At(T, f, v))
    BY AtFinite
  <2>. HIDE DEF in
  <2>. QED
    BY <2>1, <2>2, <2>3, <2>4, DisjointUnion
<1>3. a (+) b = [v \in V |-> in(a, v) + in(b, v)]
  BY <1>1 DEF (+)
<1>. HIDE DEF V, in
<1>4. a (+) b = [v \in V |-> Cardinality(At(S \union T, f, v))]
  BY <1>2, <1>3
<1>. QED
  BY <1>4 DEF IsTally, V

\* One more element, with its value.
LEMMA TallyAdd ==
  ASSUME NEW S, IsFiniteSet(S), NEW e, e \notin S, NEW f, NEW g, \A x \in S : g[x] = f[x],
         NEW b, IsTally(b, S, f)
  PROVE  IsTally(b (+) SetToBag({g[e]}), S \union {e}, g)
<1>1. IsTally(b, S, g)
  BY TallyAgrees
<1>2. IsFiniteSet({e}) /\ S \cap {e} = {}
  BY FS_Singleton
<1>3. IsTally(SetToBag({g[e]}), {e}, g)
  BY TallyOfOne
<1>. QED
  BY <1>1, <1>2, <1>3, TallyMerge

\* What a tally counts within D are the elements whose values are in D.
LEMMA TallySum ==
  ASSUME NEW S, IsFiniteSet(S), NEW f, NEW b, IsTally(b, S, f), NEW D, D \subseteq DOMAIN b
  PROVE  SumFunctionOnSet(b, D) = Cardinality({e \in S : f[e] \in D})
<1>. DEFINE In(T) == {e \in S : f[e] \in T}
            Bad == {T \in SUBSET D : SumFunctionOnSet(b, T) # Cardinality(In(T))}
<1>. SUFFICES ASSUME D \in Bad PROVE FALSE
  OBVIOUS
<1>0. IsFiniteSet(D)
  BY TallyDomain, ValuesFinite, FS_Subset
<1>1. PICK T \in Bad : IsFiniteSet(T) /\ \A u \in Bad : ~(u \subseteq T /\ u # T)
  <2>1. Bad \subseteq SUBSET D /\ Bad # {}
    OBVIOUS
  <2>. HIDE DEF Bad
  <2>. QED
    BY <1>0, <2>1, MinimalFinite
<1>2. CASE T = {}
  <2>1. In(T) = {}
    BY <1>2
  <2>. QED
    BY <1>1, <1>2, <2>1, SumUnfold, FS_EmptySet
<1>3. CASE T # {}
  <2>. DEFINE x == Pick(T)
              U == T \ {x}
  <2>1. x \in T /\ x \in DOMAIN b
    BY <1>3, PickIn
  <2>2. U \notin Bad /\ U \in SUBSET D
    BY <1>1, <2>1
  <2>3. SumFunctionOnSet(b, U) = Cardinality(In(U))
    BY <2>2
  <2>4. SumFunctionOnSet(b, T) = b[x] + SumFunctionOnSet(b, U)
    BY <1>1, <1>3, SumUnfold
  <2>5. b[x] = Cardinality(At(S, f, x))
    <3>. HIDE DEF x
    <3>. QED
      BY <2>1, TallyDomain
  <2>6. In(T) = At(S, f, x) \union In(U) /\ At(S, f, x) \cap In(U) = {}
    BY <2>1 DEF At
  <2>7. IsFiniteSet(At(S, f, x)) /\ IsFiniteSet(In(U))
    BY AtFinite, FS_Subset
  <2>8. SumFunctionOnSet(b, T) # Cardinality(In(T))
    OBVIOUS
  <2>. HIDE DEF In, U, x, Bad
  <2>9. Cardinality(In(T)) = Cardinality(At(S, f, x)) + Cardinality(In(U))
    BY <2>6, <2>7, DisjointUnion
  <2>. QED
    BY <2>3, <2>4, <2>5, <2>8, <2>9
<1>. QED
  BY <1>2, <1>3

LEMMA TallyRecorded ==
  ASSUME NEW S, IsFiniteSet(S), NEW f, NEW b, IsTally(b, S, f)
  PROVE  Recorded(b) = Cardinality(S)
<1>1. Recorded(b) = Cardinality({e \in S : f[e] \in DOMAIN b})
  BY TallySum DEF Recorded, SumFunction
<1>2. {e \in S : f[e] \in DOMAIN b} = S
  BY TallyDomain DEF Values
<1>. QED
  BY <1>1, <1>2

LEMMA TallyUpTo ==
  ASSUME NEW S, IsFiniteSet(S), NEW f, NEW b, IsTally(b, S, f), NEW v
  PROVE  UpTo(b, v) = Cardinality({e \in S : f[e] <= v})
<1>1. UpTo(b, v) = Cardinality({e \in S : f[e] \in {x \in DOMAIN b : x <= v}})
  BY TallySum DEF UpTo
<1>2. {e \in S : f[e] \in {x \in DOMAIN b : x <= v}} = {e \in S : f[e] <= v}
  BY TallyDomain DEF Values
<1>. QED
  BY <1>1, <1>2
-----------------------------------------------------------------------------
(* Buckets.                                                                *)

\* w is the recursive function of Width, over D.
IsWidth(D, w) == w = [v \in D |-> IF v < SubBuckets THEN 1 ELSE 2 * w[v \div 2]]

LEMMA WidthChoice == ASSUME NEW ns PROVE Width(ns) = (CHOOSE w : IsWidth(Nat, w))[ns]
BY DEF Width, IsWidth

LEMMA HalfIsLess ==
  ASSUME NEW v \in Nat, ~(v < SubBuckets)
  PROVE  v \div 2 \in Nat /\ v \div 2 < v
BY HistogramAssumption

LEMMA WidthsAgree ==
  ASSUME NEW m \in Nat, NEW n \in Nat, NEW g, NEW h, IsWidth(0..m, g), IsWidth(0..n, h),
         NEW v \in Nat, v <= m, v <= n
  PROVE  g[v] = h[v]
<1>. DEFINE Bad == {u \in Nat : u <= m /\ u <= n /\ g[u] # h[u]}
<1>. SUFFICES ASSUME v \in Bad PROVE FALSE
  OBVIOUS
<1>1. PICK u \in Bad : \A t \in Bad : u <= t
  <2>1. Bad \subseteq Nat /\ Bad # {}
    OBVIOUS
  <2>. HIDE DEF Bad
  <2>. QED
    BY <2>1, LeastNat
<1>2. u \in 0..m /\ u \in 0..n /\ u \in Nat
  OBVIOUS
<1>3. /\ g[u] = IF u < SubBuckets THEN 1 ELSE 2 * g[u \div 2]
      /\ h[u] = IF u < SubBuckets THEN 1 ELSE 2 * h[u \div 2]
  BY <1>2 DEF IsWidth
<1>4. ~(u < SubBuckets)
  BY <1>3
<1>5. u \div 2 \in Nat /\ u \div 2 < u
  BY <1>2, <1>4, HalfIsLess
<1>6. g[u \div 2] = h[u \div 2]
  BY <1>1, <1>2, <1>5
<1>. QED
  BY <1>3, <1>6

LEMMA WidthUpToExists ==
  ASSUME NEW n \in Nat
  PROVE  \E w : IsWidth(0..n, w)
<1>. DEFINE Bad == {m \in Nat : ~ \E w : IsWidth(0..m, w)}
<1>. SUFFICES ASSUME n \in Bad PROVE FALSE
  OBVIOUS
<1>1. PICK m \in Bad : \A t \in Bad : m <= t
  <2>1. Bad \subseteq Nat /\ Bad # {}
    OBVIOUS
  <2>. HIDE DEF Bad
  <2>. QED
    BY <2>1, LeastNat
<1>2. CASE m = 0
  <2>. DEFINE w == [v \in 0..0 |-> 1]
  <2>1. \A v \in 0..0 : v < SubBuckets
    BY HistogramAssumption
  <2>2. IsWidth(0..m, w)
    BY <1>2, <2>1 DEF IsWidth
  <2>. QED
    BY <2>2
<1>3. CASE m # 0
  <2>1. m \in Nat /\ m - 1 \in Nat /\ m - 1 \notin Bad
    BY <1>1, <1>3
  <2>2. PICK w : IsWidth(0..(m - 1), w)
    BY <2>1
  <2>. DEFINE x == [v \in 0..m |-> IF v < SubBuckets THEN 1 ELSE 2 * w[v \div 2]]
  <2>3. ASSUME NEW v \in 0..(m - 1) PROVE x[v] = w[v]
    <3>1. w[v] = IF v < SubBuckets THEN 1 ELSE 2 * w[v \div 2]
      BY <2>2 DEF IsWidth
    <3>2. v \in 0..m
      BY <2>1
    <3>. QED
      BY <3>1, <3>2
  <2>4. ASSUME NEW v \in 0..m, ~(v < SubBuckets) PROVE w[v \div 2] = x[v \div 2]
    <3>1. v \div 2 \in 0..(m - 1)
      BY <2>1, <2>4, HalfIsLess
    <3>. HIDE DEF x
    <3>. QED
      BY <2>3, <3>1
  <2>5. x = [v \in 0..m |-> IF v < SubBuckets THEN 1 ELSE 2 * x[v \div 2]]
    <3>. DEFINE old(v) == IF v < SubBuckets THEN 1 ELSE 2 * w[v \div 2]
                new(v) == IF v < SubBuckets THEN 1 ELSE 2 * x[v \div 2]
    <3>1. x = [v \in 0..m |-> old(v)]
      OBVIOUS
    <3>. HIDE DEF x
    <3>2. \A v \in 0..m : old(v) = new(v)
      BY <2>4
    <3>3. x = [v \in 0..m |-> new(v)]
      <4>. HIDE DEF old, new
      <4>. QED
        BY <3>1, <3>2
    <3>. QED
      BY <3>3
  <2>6. IsWidth(0..m, x)
    <3>. HIDE DEF x
    <3>. QED
      BY <2>5 DEF IsWidth
  <2>. QED
    BY <2>6
<1>. QED
  BY <1>2, <1>3

LEMMA WidthExists == \E w : IsWidth(Nat, w)
<1>. DEFINE own(n) == CHOOSE w : IsWidth(0..n, w)
            W == [n \in Nat |-> own(n)[n]]
<1>1. ASSUME NEW n \in Nat PROVE IsWidth(0..n, own(n))
  BY WidthUpToExists
<1>. HIDE DEF own
<1>2. ASSUME NEW n \in Nat PROVE W[n] = IF n < SubBuckets THEN 1 ELSE 2 * W[n \div 2]
  <2>1. n \in 0..n
    OBVIOUS
  <2>2. own(n)[n] = IF n < SubBuckets THEN 1 ELSE 2 * own(n)[n \div 2]
    BY <1>1, <2>1 DEF IsWidth
  <2>3. ASSUME ~(n < SubBuckets) PROVE own(n)[n \div 2] = W[n \div 2]
    <3>1. n \div 2 \in Nat /\ n \div 2 < n
      BY <2>3, HalfIsLess
    <3>2. own(n)[n \div 2] = own(n \div 2)[n \div 2]
      <4>. DEFINE m == n \div 2
      <4>1. m \in Nat /\ m <= n /\ m <= m
        BY <3>1
      <4>. HIDE DEF m
      <4>2. IsWidth(0..n, own(n)) /\ IsWidth(0..m, own(m))
        BY <1>1, <4>1
      <4>3. own(n)[m] = own(m)[m]
        BY <4>1, <4>2, WidthsAgree
      <4>. QED
        BY <4>3 DEF m
    <3>. QED
      BY <3>1, <3>2
  <2>. QED
    BY <2>2, <2>3
<1>3. IsWidth(Nat, W)
  <2>. DEFINE rec(n) == IF n < SubBuckets THEN 1 ELSE 2 * W[n \div 2]
  <2>1. W = [n \in Nat |-> W[n]]
    OBVIOUS
  <2>. HIDE DEF W
  <2>2. W = [n \in Nat |-> rec(n)]
    <3>1. \A n \in Nat : W[n] = rec(n)
      BY <1>2
    <3>. HIDE DEF rec
    <3>. QED
      BY <2>1, <3>1
  <2>. QED
    BY <2>2 DEF IsWidth
<1>. QED
  BY <1>3

\* The width of a bucket is one below SubBuckets and then doubles with the values.
LEMMA WidthUnfold ==
  ASSUME NEW n \in Nat
  PROVE  Width(n) = IF n < SubBuckets THEN 1 ELSE 2 * Width(n \div 2)
<1>. DEFINE W == CHOOSE w : IsWidth(Nat, w)
<1>1. IsWidth(Nat, W)
  BY WidthExists
<1>2. \A m : Width(m) = W[m]
  BY WidthChoice
<1>. HIDE DEF W
<1>3. W[n] = IF n < SubBuckets THEN 1 ELSE 2 * W[n \div 2]
  BY <1>1 DEF IsWidth
<1>. QED
  BY <1>2, <1>3

LEMMA WidthType == ASSUME NEW n \in Nat PROVE Width(n) \in Nat \ {0}
<1>. DEFINE Bad == {m \in Nat : Width(m) \notin Nat \ {0}}
<1>. SUFFICES ASSUME n \in Bad PROVE FALSE
  OBVIOUS
<1>1. PICK m \in Bad : \A t \in Bad : m <= t
  <2>1. Bad \subseteq Nat /\ Bad # {}
    OBVIOUS
  <2>. HIDE DEF Bad
  <2>. QED
    BY <2>1, LeastNat
<1>2. Width(m) = IF m < SubBuckets THEN 1 ELSE 2 * Width(m \div 2)
  BY WidthUnfold
<1>3. ~(m < SubBuckets)
  BY <1>2
<1>4. m \div 2 \in Nat /\ m \div 2 < m
  BY <1>3, HalfIsLess
<1>5. Width(m \div 2) \in Nat \ {0}
  BY <1>1, <1>4
<1>. QED
  BY <1>2, <1>3, <1>5

LEMMA WidthGrows == ASSUME NEW m \in Nat, NEW n \in Nat, m <= n PROVE Width(m) <= Width(n)
<1>. DEFINE Bad == {b \in Nat : \E a \in Nat : a <= b /\ ~(Width(a) <= Width(b))}
<1>. SUFFICES ASSUME n \in Bad PROVE FALSE
  OBVIOUS
<1>1. PICK b \in Bad : \A t \in Bad : b <= t
  <2>1. Bad \subseteq Nat /\ Bad # {}
    OBVIOUS
  <2>. HIDE DEF Bad
  <2>. QED
    BY <2>1, LeastNat
<1>2. PICK a \in Nat : a <= b /\ ~(Width(a) <= Width(b))
  OBVIOUS
<1>3. b \in Nat /\ SubBuckets \in Nat
  BY HistogramAssumption
<1>4. Width(a) = IF a < SubBuckets THEN 1 ELSE 2 * Width(a \div 2)
  BY WidthUnfold
<1>5. Width(b) = IF b < SubBuckets THEN 1 ELSE 2 * Width(b \div 2)
  BY <1>3, WidthUnfold
<1>6. Width(a) \in Nat \ {0} /\ Width(b) \in Nat \ {0}
  BY <1>3, WidthType
<1>7. ~(a < SubBuckets) /\ ~(b < SubBuckets)
  BY <1>2, <1>3, <1>4, <1>5, <1>6
<1>8. a \div 2 \in Nat /\ b \div 2 \in Nat /\ b \div 2 < b
  BY <1>3, <1>7, HalfIsLess
<1>9. a \div 2 <= b \div 2
  BY <1>2, <1>3
<1>10. Width(a \div 2) <= Width(b \div 2)
  BY <1>1, <1>8, <1>9
<1>11. Width(a \div 2) \in Nat /\ Width(b \div 2) \in Nat
  BY <1>8, WidthType
<1>. QED
  BY <1>2, <1>4, <1>5, <1>7, <1>10, <1>11

LEMMA Division ==
  ASSUME NEW a \in Nat, NEW b \in Nat \ {0}
  PROVE  /\ a \div b \in Nat /\ a % b \in Nat /\ a % b < b
         /\ a = b * (a \div b) + (a % b)
OBVIOUS

LEMMA ProductGrows ==
  ASSUME NEW a \in Nat, NEW b \in Int, NEW c \in Int, b <= c
  PROVE  a * b <= a * c
OBVIOUS

LEMMA DivisionIsUnique ==
  ASSUME NEW b \in Nat \ {0}, NEW p \in Int, NEW q \in Int, NEW r \in Nat, NEW s \in Nat,
         r < b, s < b, b * p + r = b * q + s
  PROVE  r = s
<1>1. ASSUME NEW x \in Int, NEW y \in Int, NEW t \in Nat, NEW u \in Nat, t < b, u < b,
             b * x + t = b * y + u
      PROVE  ~(x < y)
  <2>. SUFFICES ASSUME x + 1 <= y PROVE FALSE
    OBVIOUS
  <2>1. b * (x + 1) <= b * y
    BY ProductGrows
  <2>2. b * (x + 1) = b * x + b
    OBVIOUS
  <2>3. b * x \in Int /\ b * y \in Int
    OBVIOUS
  <2>. QED
    BY <1>1, <2>1, <2>2, <2>3
<1>2. ~(p < q) /\ ~(q < p)
  BY <1>1
<1>3. p = q
  BY <1>2
<1>4. b * p \in Int
  OBVIOUS
<1>. QED
  BY <1>3, <1>4

\* Beyond SubBuckets the bucket of a value is twice that of its half.
LEMMA BucketOfHalf ==
  ASSUME NEW n \in Nat, ~(n < SubBuckets)
  PROVE  Bucket(n) = 2 * Bucket(n \div 2)
<1>. DEFINE h == n \div 2
            e == n % 2
            w == Width(h)
            r == h % w
            q == h \div w
<1>1. h \in Nat /\ e \in Nat /\ e < 2 /\ n = 2 * h + e
  BY Division
<1>2. w \in Nat \ {0} /\ Width(n) = 2 * w
  BY <1>1, WidthType, WidthUnfold
<1>. HIDE DEF h, e, w
<1>3. q \in Nat /\ r \in Nat /\ r < w /\ h = w * q + r
  BY <1>1, <1>2, Division
<1>. HIDE DEF q
<1>4. Bucket(h) = h - r
  BY DEF Bucket, w
<1>. HIDE DEF r
<1>5. 2 * w \in Nat \ {0} /\ 2 * r + e \in Nat /\ 2 * r + e < 2 * w
  BY <1>1, <1>2, <1>3
<1>6. n = (2 * w) * q + (2 * r + e)
  <2>1. w * q \in Nat
    BY <1>2, <1>3
  <2>2. (2 * w) * q = 2 * (w * q)
    BY <1>2, <1>3
  <2>. QED
    BY <1>1, <1>3, <2>1, <2>2
<1>7. n % (2 * w) = 2 * r + e
  <2>. DEFINE d == 2 * w
              p == n \div d
              m == n % d
  <2>1. d \in Nat \ {0}
    BY <1>5
  <2>. HIDE DEF d
  <2>2. p \in Nat /\ m \in Nat /\ m < d /\ n = d * p + m
    BY <2>1, Division
  <2>. DEFINE s == 2 * r + e
  <2>3. d * p + m = d * q + s /\ s < d /\ s \in Nat
    BY <1>5, <1>6, <2>2 DEF d
  <2>. HIDE DEF p, m, s
  <2>4. m = 2 * r + e
    <3>1. p \in Int /\ q \in Int
      BY <1>3, <2>2
    <3>2. m = s
      BY <2>1, <2>2, <2>3, <3>1, DivisionIsUnique
    <3>. QED
      BY <3>2 DEF s
  <2>. QED
    BY <2>4 DEF m, d
<1>8. Bucket(n) = n - (2 * r + e)
  BY <1>2, <1>7 DEF Bucket
<1>9. Bucket(n) = 2 * Bucket(h)
  BY <1>1, <1>3, <1>4, <1>8
<1>. QED
  BY <1>9 DEF h

LEMMA BucketBelow == ASSUME NEW n \in Nat, n < SubBuckets PROVE Bucket(n) = n
<1>1. Width(n) = 1
  BY WidthUnfold
<1>2. n % 1 = 0
  BY Division
<1>. QED
  BY <1>1, <1>2 DEF Bucket

LEMMA BucketRange ==
  ASSUME NEW n \in Nat
  PROVE  Bucket(n) \in Nat /\ Bucket(n) <= n /\ n < Bucket(n) + Width(n)
<1>1. Width(n) \in Nat \ {0}
  BY WidthType
<1>. DEFINE w == Width(n)
            r == n % w
<1>2. r \in Nat /\ r < w /\ n = w * (n \div w) + r /\ n \div w \in Nat
  BY <1>1, Division
<1>3. Bucket(n) = n - r
  BY DEF Bucket
<1>4. r <= n
  <2>. DEFINE q == n \div w
  <2>1. w * q \in Nat
    <3>. HIDE DEF w, q
    <3>. QED
      BY <1>1, <1>2 DEF w, q
  <2>. HIDE DEF w, q, r
  <2>2. n = w * q + r
    BY <1>2 DEF q
  <2>. QED
    BY <1>2, <2>1, <2>2
<1>. HIDE DEF r
<1>. QED
  BY <1>1, <1>2, <1>3, <1>4

\* A value of a wide bucket is not counted in a narrow one.
LEMMA BucketStays == ASSUME NEW n \in Nat, ~(n < SubBuckets) PROVE Bucket(n) >= SubBuckets
<1>1. n \div 2 \in Nat /\ Bucket(n) = 2 * Bucket(n \div 2)
  BY BucketOfHalf, HalfIsLess
<1>. DEFINE Bad == {m \in Nat : ~(m < SubBuckets) /\ ~(Bucket(m) >= SubBuckets)}
<1>. SUFFICES ASSUME n \in Bad PROVE FALSE
  OBVIOUS
<1>2. PICK m \in Bad : \A t \in Bad : m <= t
  <2>1. Bad \subseteq Nat /\ Bad # {}
    OBVIOUS
  <2>. HIDE DEF Bad
  <2>. QED
    BY <2>1, LeastNat
<1>. DEFINE h == m \div 2
<1>3. h \in Nat /\ h < m /\ Bucket(m) = 2 * Bucket(h)
  BY BucketOfHalf, HalfIsLess
<1>4. Bucket(h) \in Nat /\ SubBuckets \in Nat
  BY <1>3, BucketRange, HistogramAssumption
<1>5. CASE h < SubBuckets
  <2>1. Bucket(h) = h
    BY <1>3, <1>5, BucketBelow
  <2>2. 2 * h >= SubBuckets
    BY HistogramAssumption
  <2>. QED
    BY <1>3, <2>1, <2>2
<1>6. CASE ~(h < SubBuckets)
  <2>1. Bucket(h) >= SubBuckets
    BY <1>2, <1>3, <1>6
  <2>. QED
    BY <1>3, <1>4, <2>1
<1>. QED
  BY <1>5, <1>6

\* The lowest value of a bucket is one of it.
LEMMA BucketWidth == ASSUME NEW n \in Nat PROVE Width(Bucket(n)) = Width(n)
<1>. DEFINE Bad == {m \in Nat : Width(Bucket(m)) # Width(m)}
<1>. SUFFICES ASSUME n \in Bad PROVE FALSE
  OBVIOUS
<1>1. PICK m \in Bad : \A t \in Bad : m <= t
  <2>1. Bad \subseteq Nat /\ Bad # {}
    OBVIOUS
  <2>. HIDE DEF Bad
  <2>. QED
    BY <2>1, LeastNat
<1>2. ~(m < SubBuckets)
  BY BucketBelow
<1>. DEFINE h == m \div 2
<1>3. h \in Nat /\ h < m /\ Bucket(m) = 2 * Bucket(h)
  BY <1>2, BucketOfHalf, HalfIsLess
<1>4. Bucket(h) \in Nat /\ Bucket(m) \in Nat /\ Bucket(m) >= SubBuckets
  BY <1>2, <1>3, BucketRange, BucketStays
<1>5. Width(Bucket(m)) = 2 * Width(Bucket(h))
  <2>. DEFINE a == Bucket(m)
              b == Bucket(h)
  <2>1. ~(a < SubBuckets) /\ a \in Nat /\ b \in Nat /\ a = 2 * b
    BY <1>3, <1>4, HistogramAssumption
  <2>. HIDE DEF a, b
  <2>2. a \div 2 = b
    BY <2>1
  <2>3. Width(a) = 2 * Width(b)
    BY <2>1, <2>2, WidthUnfold
  <2>. QED
    BY <2>3 DEF a, b
<1>6. Width(m) = 2 * Width(h)
  BY <1>2, WidthUnfold
<1>7. Width(Bucket(h)) = Width(h)
  BY <1>1, <1>3
<1>. QED
  BY <1>5, <1>6, <1>7

LEMMA BucketGrows == ASSUME NEW m \in Nat, NEW n \in Nat, m <= n PROVE Bucket(m) <= Bucket(n)
<1>. DEFINE Bad == {b \in Nat : \E a \in Nat : a <= b /\ ~(Bucket(a) <= Bucket(b))}
<1>. SUFFICES ASSUME n \in Bad PROVE FALSE
  OBVIOUS
<1>1. PICK b \in Bad : \A t \in Bad : b <= t
  <2>1. Bad \subseteq Nat /\ Bad # {}
    OBVIOUS
  <2>. HIDE DEF Bad
  <2>. QED
    BY <2>1, LeastNat
<1>2. PICK a \in Nat : a <= b /\ ~(Bucket(a) <= Bucket(b))
  OBVIOUS
<1>3. b \in Nat /\ SubBuckets \in Nat /\ Bucket(a) \in Nat /\ Bucket(b) \in Nat
  BY BucketRange, HistogramAssumption
<1>4. CASE a < SubBuckets
  <2>1. Bucket(a) = a
    BY <1>4, BucketBelow
  <2>2. b < SubBuckets => Bucket(b) = b
    BY BucketBelow
  <2>3. ~(b < SubBuckets) => Bucket(b) >= SubBuckets
    BY BucketStays
  <2>. QED
    BY <1>2, <1>3, <1>4, <2>1, <2>2, <2>3
<1>5. CASE ~(a < SubBuckets)
  <2>1. ~(b < SubBuckets)
    BY <1>2, <1>3, <1>5
  <2>2. a \div 2 \in Nat /\ b \div 2 \in Nat /\ b \div 2 < b /\ a \div 2 <= b \div 2
    BY <1>2, <1>3, <1>5, <2>1, HalfIsLess
  <2>3. Bucket(a \div 2) <= Bucket(b \div 2)
    BY <1>1, <2>2
  <2>4. Bucket(a) = 2 * Bucket(a \div 2) /\ Bucket(b) = 2 * Bucket(b \div 2)
    BY <1>3, <1>5, <2>1, BucketOfHalf
  <2>5. Bucket(a \div 2) \in Nat /\ Bucket(b \div 2) \in Nat
    BY <2>2, BucketRange
  <2>. QED
    BY <1>2, <2>3, <2>4, <2>5
<1>. QED
  BY <1>4, <1>5

\* A value lies in its bucket.
LEMMA BucketHolds == ASSUME NEW n \in Nat PROVE Bucket(n) <= n /\ n <= EndOf(Bucket(n))
<1>1. Bucket(n) \in Nat /\ Bucket(n) <= n /\ n < Bucket(n) + Width(n) /\ Width(n) \in Nat
  BY BucketRange, WidthType
<1>2. EndOf(Bucket(n)) = Bucket(n) + Width(n) - 1
  BY BucketWidth DEF EndOf
<1>. QED
  BY <1>1, <1>2

LEMMA EndOfRange == ASSUME NEW b \in Nat PROVE EndOf(b) \in Nat /\ b <= EndOf(b)
BY WidthType DEF EndOf

LEMMA EndOfGrows == ASSUME NEW a \in Nat, NEW b \in Nat, a <= b PROVE EndOf(a) <= EndOf(b)
<1>1. Width(a) \in Nat /\ Width(b) \in Nat
  BY WidthType
<1>2. Width(a) <= Width(b)
  BY WidthGrows
<1>. QED
  BY <1>1, <1>2 DEF EndOf

LEMMA ClippedRange ==
  ASSUME NEW n \in Nat
  PROVE  /\ Clipped(n) \in Nat /\ Clipped(n) <= n
         /\ \A m \in Nat : m <= n => Clipped(m) <= Clipped(n)
         /\ \A m \in Nat : m <= n /\ m <= Highest => m <= Clipped(n)
BY HistogramAssumption DEF Clipped
-----------------------------------------------------------------------------
(* The values of a tally in order.                                         *)

\* v is the k-th of the values counted in b, in order.
IsOrder(b, k, v) == v \in DOMAIN b /\ UpTo(b, v) >= k /\ UpTo(b, v - 1) < k

AtMost(S, f, v) == {e \in S : f[e] <= v}

LEMMA SubsetCount ==
  ASSUME NEW S, IsFiniteSet(S), NEW A, NEW B, A \subseteq B, B \subseteq S
  PROVE  /\ Cardinality(A) \in Nat /\ Cardinality(B) \in Nat
         /\ Cardinality(A) <= Cardinality(B)
         /\ Cardinality(A) = Cardinality(B) => A = B
<1>1. IsFiniteSet(B)
  BY FS_Subset
<1>2. A \in SUBSET B
  OBVIOUS
<1>3. /\ IsFiniteSet(A) /\ Cardinality(A) <= Cardinality(B)
      /\ Cardinality(B) = Cardinality(A) => B = A
  BY <1>1, <1>2, FS_Subset
<1>4. Cardinality(B) \in Nat
  BY <1>1, FS_CardinalityType
<1>5. Cardinality(A) \in Nat
  BY <1>3, FS_CardinalityType
<1>. QED
  BY <1>3, <1>4, <1>5

LEMMA UpToIs ==
  ASSUME NEW S, IsFiniteSet(S), NEW f, NEW b, IsTally(b, S, f), NEW v
  PROVE  UpTo(b, v) = Cardinality(AtMost(S, f, v)) /\ UpTo(b, v) \in Nat
<1>1. UpTo(b, v) = Cardinality(AtMost(S, f, v))
  BY TallyUpTo DEF AtMost
<1>2. AtMost(S, f, v) \subseteq S
  BY DEF AtMost
<1>. QED
  BY <1>1, <1>2, SubsetCount

LEMMA OrderExists ==
  ASSUME NEW S, IsFiniteSet(S), NEW f, \A e \in S : f[e] \in Nat,
         NEW b, IsTally(b, S, f), NEW k \in 1..Cardinality(S)
  PROVE  \E v \in Nat : IsOrder(b, k, v)
<1>. DEFINE Enough == {v \in Nat : UpTo(b, v) >= k}
<1>0. Cardinality(S) \in Nat /\ k \in Nat /\ k >= 1 /\ k <= Cardinality(S)
  BY FS_CardinalityType
<1>1. \A v : UpTo(b, v) = Cardinality(AtMost(S, f, v)) /\ UpTo(b, v) \in Nat
  BY UpToIs
<1>2. Enough # {}
  <2>1. PICK n \in Nat : \A e \in S : f[e] <= n
    BY FiniteBound
  <2>2. AtMost(S, f, n) = S
    BY <2>1 DEF AtMost
  <2>3. UpTo(b, n) >= k
    BY <1>0, <1>1, <2>2
  <2>. QED
    BY <2>3
<1>3. PICK v \in Enough : \A u \in Enough : v <= u
  <2>1. Enough \subseteq Nat
    OBVIOUS
  <2>. HIDE DEF Enough
  <2>. QED
    BY <1>2, <2>1, LeastNat
<1>4. UpTo(b, v - 1) < k
  <2>1. CASE v = 0
    <3>1. AtMost(S, f, v - 1) = {}
      BY <2>1 DEF AtMost
    <3>. QED
      BY <1>0, <1>1, <3>1, FS_EmptySet
  <2>2. CASE v # 0
    <3>1. v - 1 \in Nat /\ v - 1 \notin Enough
      BY <1>3, <2>2
    <3>. QED
      BY <1>0, <1>1, <3>1
  <2>. QED
    BY <2>1, <2>2
<1>5. v \in DOMAIN b
  <2>. SUFFICES ASSUME v \notin DOMAIN b PROVE FALSE
    OBVIOUS
  <2>1. v \notin Values(S, f)
    BY TallyDomain
  <2>2. AtMost(S, f, v) = AtMost(S, f, v - 1)
    <3>1. ASSUME NEW e \in S PROVE f[e] <= v <=> f[e] <= v - 1
      <4>1. f[e] \in Nat /\ f[e] # v /\ v \in Nat
        BY <2>1 DEF Values
      <4>. QED
        BY <4>1
    <3>. QED
      BY <3>1 DEF AtMost
  <2>3. UpTo(b, v) >= k /\ UpTo(b, v) \in Nat
    BY <1>1
  <2>. QED
    BY <1>0, <1>1, <1>4, <2>2, <2>3
<1>. QED
  BY <1>4, <1>5 DEF IsOrder

\* Values that are put into buckets in their order are found in the bucket of theirs:
\* it is the lowest up to which as many are counted.
LEMMA QuantileIsInOrder ==
  ASSUME NEW S, IsFiniteSet(S), NEW lat, \A e \in S : lat[e] \in Nat,
         NEW f, \A e \in S : f[e] = Bucket(Clipped(lat[e])),
         NEW raw, IsTally(raw, S, lat), NEW hist, IsTally(hist, S, f),
         NEW k \in Nat, NEW v, IsOrder(raw, k, v)
  PROVE  Min({b \in DOMAIN hist : UpTo(hist, b) >= k}) = Bucket(Clipped(v))
<1>. DEFINE B == {b \in DOMAIN hist : UpTo(hist, b) >= k}
            beta == Bucket(Clipped(v))
<1>a. DOMAIN raw = Values(S, lat)
  BY TallyDomain
<1>b. DOMAIN hist = Values(S, f)
  BY TallyDomain
<1>1. PICK e \in S : lat[e] = v
  BY <1>a DEF IsOrder, Values
<1>2. v \in Nat /\ f[e] = beta /\ beta \in Nat
  BY <1>1, ClippedRange, BucketRange
<1>3. \A x : UpTo(raw, x) = Cardinality(AtMost(S, lat, x)) /\ UpTo(raw, x) \in Nat
  BY UpToIs
<1>4. \A x : UpTo(hist, x) = Cardinality(AtMost(S, f, x)) /\ UpTo(hist, x) \in Nat
  BY UpToIs
<1>5. ASSUME NEW d \in S
      PROVE  /\ f[d] \in Nat
             /\ lat[d] <= v => f[d] <= beta
             /\ lat[d] >= v => f[d] >= beta
  <2>1. lat[d] \in Nat /\ f[d] = Bucket(Clipped(lat[d]))
    OBVIOUS
  <2>2. Clipped(lat[d]) \in Nat /\ Clipped(v) \in Nat
    BY <1>2, <2>1, ClippedRange
  <2>3. lat[d] <= v => Clipped(lat[d]) <= Clipped(v)
    BY <1>2, <2>1, ClippedRange
  <2>4. v <= lat[d] => Clipped(v) <= Clipped(lat[d])
    BY <1>2, <2>1, ClippedRange
  <2>5. lat[d] <= v => f[d] <= beta
    BY <2>1, <2>2, <2>3, BucketGrows
  <2>6. v <= lat[d] => beta <= f[d]
    BY <2>1, <2>2, <2>4, BucketGrows
  <2>7. f[d] \in Nat
    BY <2>1, <2>2, BucketRange
  <2>. QED
    BY <1>2, <2>1, <2>5, <2>6, <2>7
<1>. HIDE DEF beta
<1>6. beta \in B
  <2>1. beta \in DOMAIN hist
    BY <1>2, <1>b DEF Values
  <2>2. AtMost(S, lat, v) \subseteq AtMost(S, f, beta) /\ AtMost(S, f, beta) \subseteq S
    BY <1>5 DEF AtMost
  <2>3. UpTo(raw, v) <= UpTo(hist, beta)
    BY <1>3, <1>4, <2>2, SubsetCount
  <2>4. UpTo(raw, v) >= k
    BY DEF IsOrder
  <2>5. UpTo(hist, beta) >= k
    BY <1>3, <1>4, <2>3, <2>4
  <2>. QED
    BY <2>1, <2>5
<1>7. B \subseteq Nat
  <2>1. ASSUME NEW b \in DOMAIN hist PROVE b \in Nat
    BY <1>5, <1>b DEF Values
  <2>. QED
    BY <2>1
<1>8. ASSUME NEW b \in B PROVE beta <= b
  <2>. SUFFICES ASSUME b < beta PROVE FALSE
    BY <1>2, <1>7
  <2>1. b \in Nat
    BY <1>7
  <2>2. ASSUME NEW d \in S, f[d] <= b PROVE lat[d] <= v - 1
    <3>1. ~(lat[d] >= v)
      BY <1>2, <1>5, <2>1, <2>2
    <3>. QED
      BY <1>2, <3>1
  <2>3. AtMost(S, f, b) \subseteq AtMost(S, lat, v - 1) /\ AtMost(S, lat, v - 1) \subseteq S
    BY <2>2 DEF AtMost
  <2>4. UpTo(hist, b) <= UpTo(raw, v - 1)
    BY <1>3, <1>4, <2>3, SubsetCount
  <2>5. UpTo(raw, v - 1) < k /\ UpTo(hist, b) >= k
    BY DEF IsOrder
  <2>. QED
    BY <1>3, <1>4, <2>4, <2>5
<1>9. Min(B) = beta
  <2>. HIDE DEF B
  <2>. QED
    BY <1>6, <1>7, <1>8, MinIs
<1>. QED
  BY <1>9 DEF beta

LEMMA ShownIsInOrder ==
  ASSUME NEW S, IsFiniteSet(S), NEW lat, \A e \in S : lat[e] \in Nat,
         NEW f, \A e \in S : f[e] = Bucket(Clipped(lat[e])),
         NEW raw, IsTally(raw, S, lat), NEW hist, IsTally(hist, S, f),
         NEW q \in Nat, NEW k \in Nat, k = Position(Cardinality(S), q),
         NEW v, IsOrder(raw, k, v)
  PROVE  ValueAtQuantile(hist, q) = EndOf(Bucket(Clipped(v)))
<1>1. Recorded(hist) = Cardinality(S)
  BY TallyRecorded
<1>2. Min({b \in DOMAIN hist : UpTo(hist, b) >= k}) = Bucket(Clipped(v))
  BY QuantileIsInOrder
<1>. QED
  BY <1>1, <1>2 DEF ValueAtQuantile

\* The last one in order is in the last bucket.
LEMMA LastIsInOrder ==
  ASSUME NEW S, IsFiniteSet(S), NEW lat, \A e \in S : lat[e] \in Nat,
         NEW f, \A e \in S : f[e] = Bucket(Clipped(lat[e])),
         NEW raw, IsTally(raw, S, lat), NEW hist, IsTally(hist, S, f),
         NEW v, IsOrder(raw, Cardinality(S), v)
  PROVE  Max(DOMAIN hist) = Bucket(Clipped(v))
<1>. DEFINE beta == Bucket(Clipped(v))
<1>1. DOMAIN raw = Values(S, lat)
  BY TallyDomain
<1>2. DOMAIN hist = Values(S, f)
  BY TallyDomain
<1>3. PICK e \in S : lat[e] = v
  BY <1>1 DEF IsOrder, Values
<1>4. v \in Nat /\ f[e] = beta /\ beta \in Values(S, f)
  BY <1>3 DEF Values
<1>5. UpTo(raw, v) = Cardinality(AtMost(S, lat, v))
  BY UpToIs
<1>6. AtMost(S, lat, v) \subseteq S
  BY DEF AtMost
<1>7. AtMost(S, lat, v) = S
  <2>1. /\ Cardinality(AtMost(S, lat, v)) \in Nat /\ Cardinality(S) \in Nat
        /\ Cardinality(AtMost(S, lat, v)) <= Cardinality(S)
        /\ Cardinality(AtMost(S, lat, v)) = Cardinality(S) => AtMost(S, lat, v) = S
    BY <1>6, SubsetCount
  <2>2. Cardinality(AtMost(S, lat, v)) >= Cardinality(S)
    BY <1>5 DEF IsOrder
  <2>. QED
    BY <2>1, <2>2
<1>8. ASSUME NEW d \in S PROVE f[d] \in Nat /\ f[d] <= beta
  <2>1. lat[d] \in Nat /\ lat[d] <= v /\ f[d] = Bucket(Clipped(lat[d]))
    BY <1>7 DEF AtMost
  <2>2. /\ Clipped(lat[d]) \in Nat /\ Clipped(v) \in Nat
        /\ Clipped(lat[d]) <= Clipped(v)
    BY <1>4, <2>1, ClippedRange
  <2>. QED
    BY <2>1, <2>2, BucketGrows, BucketRange
<1>. HIDE DEF beta
<1>9. Values(S, f) \subseteq Nat /\ \A y \in Values(S, f) : y <= beta
  BY <1>8 DEF Values
<1>10. Max(Values(S, f)) = beta
  BY <1>4, <1>9, MaxIs
<1>. QED
  BY <1>2, <1>10 DEF beta

-----------------------------------------------------------------------------
(* The mean.                                                               *)

LEMMA SumIsBetween ==
  ASSUME NEW D, IsFiniteSet(D), NEW fun, NEW cnt, NEW lo \in Nat, NEW hi \in Nat,
         \A x \in D : /\ cnt[x] \in Nat /\ fun[x] \in Nat
                      /\ lo * cnt[x] <= fun[x] /\ fun[x] <= hi * cnt[x]
  PROVE  /\ SumFunctionOnSet(fun, D) \in Nat /\ SumFunctionOnSet(cnt, D) \in Nat
         /\ lo * SumFunctionOnSet(cnt, D) <= SumFunctionOnSet(fun, D)
         /\ SumFunctionOnSet(fun, D) <= hi * SumFunctionOnSet(cnt, D)
<1>. DEFINE Between(T) ==
              /\ SumFunctionOnSet(fun, T) \in Nat /\ SumFunctionOnSet(cnt, T) \in Nat
              /\ lo * SumFunctionOnSet(cnt, T) <= SumFunctionOnSet(fun, T)
              /\ SumFunctionOnSet(fun, T) <= hi * SumFunctionOnSet(cnt, T)
            Bad == {T \in SUBSET D : ~Between(T)}
<1>. SUFFICES ASSUME D \in Bad PROVE FALSE
  OBVIOUS
<1>1. PICK T \in Bad : IsFiniteSet(T) /\ \A u \in Bad : ~(u \subseteq T /\ u # T)
  <2>1. Bad \subseteq SUBSET D /\ Bad # {}
    OBVIOUS
  <2>. HIDE DEF Bad
  <2>. QED
    BY <2>1, MinimalFinite
<1>2. CASE T = {}
  <2>1. SumFunctionOnSet(fun, T) = 0 /\ SumFunctionOnSet(cnt, T) = 0
    BY <1>1, <1>2, SumUnfold
  <2>. QED
    BY <2>1
<1>3. CASE T # {}
  <2>. DEFINE x == Pick(T)
              U == T \ {x}
              f == SumFunctionOnSet(fun, U)
              c == SumFunctionOnSet(cnt, U)
  <2>1. x \in T /\ x \in D
    BY <1>3, PickIn
  <2>2. U \notin Bad /\ U \in SUBSET D
    BY <1>1, <2>1
  <2>3. f \in Nat /\ c \in Nat /\ lo * c <= f /\ f <= hi * c
    BY <2>2
  <2>4. SumFunctionOnSet(fun, T) = fun[x] + f
    BY <1>1, <1>3, SumUnfold
  <2>5. SumFunctionOnSet(cnt, T) = cnt[x] + c
    BY <1>1, <1>3, SumUnfold
  <2>6. /\ cnt[x] \in Nat /\ fun[x] \in Nat
        /\ lo * cnt[x] <= fun[x] /\ fun[x] <= hi * cnt[x]
    BY <2>1
  <2>. HIDE DEF f, c, U, x
  <2>7. /\ lo * (cnt[x] + c) = lo * cnt[x] + lo * c
        /\ hi * (cnt[x] + c) = hi * cnt[x] + hi * c
        /\ lo * cnt[x] \in Nat /\ lo * c \in Nat /\ hi * cnt[x] \in Nat /\ hi * c \in Nat
    BY <2>3, <2>6
  <2>8. Between(T)
    BY <2>3, <2>4, <2>5, <2>6, <2>7
  <2>. QED
    BY <2>8
<1>. QED
  BY <1>2, <1>3

LEMMA QuotientIsBetween ==
  ASSUME NEW s \in Nat, NEW n \in Nat \ {0}, NEW lo \in Nat, NEW hi \in Nat,
         lo * n <= s, s <= hi * n
  PROVE  s \div n \in Nat /\ lo <= s \div n /\ s \div n <= hi
<1>. DEFINE q == s \div n
            r == s % n
<1>1. q \in Nat /\ r \in Nat /\ r < n /\ s = n * q + r
  BY Division
<1>. HIDE DEF q, r
<1>2. lo <= q
  <2>. SUFFICES ASSUME q + 1 <= lo PROVE FALSE
    BY <1>1
  <2>1. n * (q + 1) <= n * lo
    BY <1>1, ProductGrows
  <2>2. n * (q + 1) = n * q + n /\ n * q \in Nat /\ n * lo = lo * n
    BY <1>1
  <2>. QED
    BY <1>1, <2>1, <2>2
<1>3. q <= hi
  <2>. SUFFICES ASSUME hi + 1 <= q PROVE FALSE
    BY <1>1
  <2>1. n * (hi + 1) <= n * q
    BY <1>1, ProductGrows
  <2>2. n * (hi + 1) = hi * n + n /\ n * q \in Nat /\ hi * n \in Nat
    BY <1>1
  <2>. QED
    BY <1>1, <2>1, <2>2
<1>. QED
  BY <1>1, <1>2, <1>3 DEF q

\* The mean lies between the lowest and the highest of the values counted.
LEMMA MeanIsBetween ==
  ASSUME NEW S, IsFiniteSet(S), S # {}, NEW f, \A e \in S : f[e] \in Nat,
         NEW hist, IsTally(hist, S, f), NEW lo \in Nat, NEW top \in Nat,
         \A b \in DOMAIN hist : lo <= b /\ b <= top
  PROVE  Mean(hist) \in Nat /\ lo <= Mean(hist) /\ Mean(hist) <= EndOf(top)
<1>. DEFINE D == DOMAIN hist
            fun == [b \in D |-> (b + Width(b) \div 2) * hist[b]]
            hi == EndOf(top)
            n == Cardinality(S)
<1>1. D = Values(S, f) /\ \A b \in Values(S, f) : hist[b] = Cardinality(At(S, f, b))
  BY TallyDomain
<1>2. IsFiniteSet(D)
  BY <1>1, ValuesFinite
<1>3. hi \in Nat
  BY EndOfRange
<1>4. ASSUME NEW b \in D
      PROVE  /\ hist[b] \in Nat /\ fun[b] \in Nat
             /\ lo * hist[b] <= fun[b] /\ fun[b] <= hi * hist[b]
  <2>1. hist[b] \in Nat
    BY <1>1, AtFinite
  <2>2. b \in Nat /\ lo <= b /\ b <= top
    BY <1>1 DEF Values
  <2>. DEFINE mid == b + Width(b) \div 2
              c == hist[b]
  <2>3. mid \in Nat /\ b <= mid /\ mid <= EndOf(b)
    BY <2>2, WidthType DEF EndOf
  <2>4. EndOf(b) \in Nat /\ EndOf(b) <= hi
    BY <2>2, EndOfRange, EndOfGrows
  <2>5. fun[b] = mid * c
    OBVIOUS
  <2>. HIDE DEF mid, c, hi, fun
  <2>6. mid \in Int /\ lo \in Int /\ hi \in Int /\ lo <= mid /\ mid <= hi /\ c \in Nat
    BY <1>3, <2>1, <2>2, <2>3, <2>4 DEF c
  <2>7. c * lo <= c * mid
    BY <2>6, ProductGrows
  <2>8. c * mid <= c * hi
    BY <2>6, ProductGrows
  <2>9. c * lo = lo * c /\ c * mid = mid * c /\ c * hi = hi * c /\ mid * c \in Nat
    BY <2>3, <2>6
  <2>10. lo * c <= fun[b] /\ fun[b] <= hi * c /\ fun[b] \in Nat /\ c \in Nat
    BY <2>5, <2>6, <2>7, <2>8, <2>9
  <2>. QED
    BY <2>10 DEF c
<1>5. Mean(hist) = SumFunctionOnSet(fun, D) \div n
  <2>1. Recorded(hist) = n
    BY TallyRecorded
  <2>2. DOMAIN fun = D
    OBVIOUS
  <2>3. Mean(hist) = SumFunction(fun) \div Recorded(hist)
    BY DEF Mean
  <2>. QED
    BY <2>1, <2>2, <2>3 DEF SumFunction
<1>6. SumFunctionOnSet(hist, D) = n
  BY TallyRecorded DEF Recorded, SumFunction
<1>7. n \in Nat \ {0}
  BY FS_CardinalityType, FS_EmptySet
<1>. HIDE DEF fun, hi, n, D
<1>8. /\ SumFunctionOnSet(fun, D) \in Nat
      /\ lo * SumFunctionOnSet(hist, D) <= SumFunctionOnSet(fun, D)
      /\ SumFunctionOnSet(fun, D) <= hi * SumFunctionOnSet(hist, D)
  BY <1>2, <1>3, <1>4, SumIsBetween
<1>9. Mean(hist) \in Nat /\ lo <= Mean(hist) /\ Mean(hist) <= hi
  BY <1>3, <1>5, <1>6, <1>7, <1>8, QuotientIsBetween
<1>. QED
  BY <1>9 DEF hi

-----------------------------------------------------------------------------
(* The figures.                                                            *)

LEMMA PositionRange ==
  ASSUME NEW n \in Nat \ {0}, NEW q \in {500, 900, 990, 999, 1000}
  PROVE  Position(n, q) \in 1..n /\ Position(n, 1000) = n
BY DEF Position

LEMMA StatsAre ==
  ASSUME NEW b, DOMAIN b # {}
  PROVE  \E stats : /\ StatsFromHistogram(b) = {stats}
                    /\ stats = [samples |-> Recorded(b),
                                min  |-> Min(DOMAIN b),
                                mean |-> Mean(b),
                                p50  |-> ValueAtQuantile(b, 500),
                                p90  |-> ValueAtQuantile(b, 900),
                                p99  |-> ValueAtQuantile(b, 990),
                                p999 |-> ValueAtQuantile(b, 999),
                                max  |-> EndOf(Max(DOMAIN b))]
<1>1. b # EmptyBag
  BY DEF EmptyBag, SetToBag
<1>. DEFINE figures == [samples |-> Recorded(b),
                        min  |-> Min(DOMAIN b),
                        mean |-> Mean(b),
                        p50  |-> ValueAtQuantile(b, 500),
                        p90  |-> ValueAtQuantile(b, 900),
                        p99  |-> ValueAtQuantile(b, 990),
                        p999 |-> ValueAtQuantile(b, 999),
                        max  |-> EndOf(Max(DOMAIN b))]
<1>2. StatsFromHistogram(b) = IF b = EmptyBag THEN {} ELSE {figures}
  BY Zenon DEF StatsFromHistogram
<1>3. StatsFromHistogram(b) = {figures}
  <2>. HIDE DEF figures
  <2>. QED
    BY <1>1, <1>2
<1>4. \E stats : StatsFromHistogram(b) = {stats} /\ stats = figures
  <2>. HIDE DEF figures
  <2>. QED
    BY <1>3
<1>. QED
  BY <1>4

\* The least and the greatest of the values counted, and what a quantile finds.
LEMMA EndsOfTally ==
  ASSUME NEW S, IsFiniteSet(S), S # {}, NEW f, \A e \in S : f[e] \in Nat,
         NEW hist, IsTally(hist, S, f)
  PROVE  /\ DOMAIN hist # {} /\ DOMAIN hist \subseteq Nat
         /\ Min(DOMAIN hist) \in DOMAIN hist /\ Max(DOMAIN hist) \in DOMAIN hist
         /\ \A b \in DOMAIN hist : Min(DOMAIN hist) <= b /\ b <= Max(DOMAIN hist)
<1>1. DOMAIN hist = Values(S, f)
  BY TallyDomain
<1>2. Values(S, f) # {} /\ Values(S, f) \subseteq Nat
  BY DEF Values
<1>3. /\ Min(Values(S, f)) \in Values(S, f)
      /\ \A b \in Values(S, f) : Min(Values(S, f)) <= b
  BY <1>2, MinIn
<1>5. \E hi \in Values(S, f) : \A b \in Values(S, f) : b <= hi
  <2>1. PICK n \in Nat : \A e \in S : f[e] <= n
    BY FiniteBound
  <2>. DEFINE Bounds == {m \in Nat : \A e \in S : f[e] <= m}
  <2>2. PICK m \in Bounds : \A x \in Bounds : m <= x
    <3>1. Bounds \subseteq Nat /\ Bounds # {}
      BY <2>1
    <3>. HIDE DEF Bounds
    <3>. QED
      BY <3>1, LeastNat
  <2>3. m \in Values(S, f)
    <3>. SUFFICES ASSUME m \notin Values(S, f) PROVE FALSE
      OBVIOUS
    <3>1. \A e \in S : f[e] \in Nat /\ f[e] # m /\ f[e] <= m
      BY DEF Values
    <3>2. m \in Nat /\ m # 0
      <4>1. PICK e \in S : TRUE
        OBVIOUS
      <4>. QED
        BY <3>1, <4>1
    <3>3. \A e \in S : f[e] <= m - 1
      BY <3>1, <3>2
    <3>4. m - 1 \in Bounds
      BY <3>2, <3>3
    <3>. QED
      BY <2>2, <3>2, <3>4
  <2>. QED
    BY <2>3 DEF Values
<1>6. PICK hi \in Values(S, f) : \A b \in Values(S, f) : b <= hi
  BY <1>5
<1>7. Max(Values(S, f)) = hi
  BY <1>2, <1>6, MaxIs
<1>. QED
  BY <1>1, <1>2, <1>3, <1>6, <1>7

LEMMA LowestWithEnough ==
  ASSUME NEW S, IsFiniteSet(S), S # {}, NEW f, \A e \in S : f[e] \in Nat,
         NEW hist, IsTally(hist, S, f), NEW k \in 1..Cardinality(S)
  PROVE  Min({b \in DOMAIN hist : UpTo(hist, b) >= k}) \in DOMAIN hist
<1>. DEFINE B == {b \in DOMAIN hist : UpTo(hist, b) >= k}
<1>1. PICK v \in Nat : IsOrder(hist, k, v)
  BY OrderExists
<1>2. v \in B
  BY <1>1 DEF IsOrder
<1>3. B \subseteq Nat /\ B # {}
  BY <1>2, EndsOfTally
<1>4. Min(B) \in B
  <2>. HIDE DEF B
  <2>. QED
    BY <1>3, MinIn
<1>. QED
  BY <1>4

LEMMA QuantileFinds ==
  ASSUME NEW S, IsFiniteSet(S), S # {}, NEW f, \A e \in S : f[e] \in Nat,
         NEW hist, IsTally(hist, S, f), NEW q \in {500, 900, 990, 999}
  PROVE  \E b \in DOMAIN hist : ValueAtQuantile(hist, q) = EndOf(b)
<1>. DEFINE n == Cardinality(S)
            k == Position(n, q)
<1>1. n \in Nat \ {0}
  BY FS_CardinalityType, FS_EmptySet
<1>2. k \in 1..n
  BY <1>1, PositionRange
<1>3. Min({b \in DOMAIN hist : UpTo(hist, b) >= k}) \in DOMAIN hist
  <2>. HIDE DEF k
  <2>. QED
    BY <1>2, LowestWithEnough
<1>4. Recorded(hist) = n
  BY TallyRecorded
<1>. QED
  BY <1>3, <1>4 DEF ValueAtQuantile

LEMMA FiguresTyped ==
  ASSUME NEW S, IsFiniteSet(S), NEW f, \A e \in S : f[e] \in Nat,
         NEW hist, IsTally(hist, S, f)
  PROVE  StatsFromHistogram(hist) \subseteq LatencyStats
<1>1. CASE S = {}
  <2>1. Values(S, f) = {}
    BY <1>1 DEF Values
  <2>2. hist = EmptyBag
    BY <2>1 DEF IsTally, EmptyBag, SetToBag
  <2>. QED
    BY <2>2 DEF StatsFromHistogram
<1>2. CASE S # {}
  <2>1. /\ DOMAIN hist # {} /\ DOMAIN hist \subseteq Nat
        /\ Min(DOMAIN hist) \in DOMAIN hist /\ Max(DOMAIN hist) \in DOMAIN hist
        /\ \A b \in DOMAIN hist : Min(DOMAIN hist) <= b /\ b <= Max(DOMAIN hist)
    BY <1>2, EndsOfTally
  <2>2. PICK stats : /\ StatsFromHistogram(hist) = {stats}
                     /\ stats = [samples |-> Recorded(hist),
                                 min  |-> Min(DOMAIN hist),
                                 mean |-> Mean(hist),
                                 p50  |-> ValueAtQuantile(hist, 500),
                                 p90  |-> ValueAtQuantile(hist, 900),
                                 p99  |-> ValueAtQuantile(hist, 990),
                                 p999 |-> ValueAtQuantile(hist, 999),
                                 max  |-> EndOf(Max(DOMAIN hist))]
    BY <2>1, StatsAre
  <2>3. Recorded(hist) \in Nat
    BY TallyRecorded, FS_CardinalityType
  <2>4. Min(DOMAIN hist) \in Nat /\ Max(DOMAIN hist) \in Nat
    BY <2>1
  <2>5. EndOf(Max(DOMAIN hist)) \in Nat
    BY <2>4, EndOfRange
  <2>6. Mean(hist) \in Nat
    BY <1>2, <2>1, <2>4, MeanIsBetween
  <2>7. ASSUME NEW q \in {500, 900, 990, 999} PROVE ValueAtQuantile(hist, q) \in Nat
    BY <1>2, <2>1, QuantileFinds, EndOfRange
  <2>8. /\ ValueAtQuantile(hist, 500) \in Nat /\ ValueAtQuantile(hist, 900) \in Nat
        /\ ValueAtQuantile(hist, 990) \in Nat /\ ValueAtQuantile(hist, 999) \in Nat
    BY <2>7
  <2>9. stats \in LatencyStats
    BY <2>2, <2>3, <2>4, <2>5, <2>6, <2>8 DEF LatencyStats
  <2>. QED
    BY <2>2, <2>9
<1>. QED
  BY <1>1, <1>2

\* The figures of a histogram are those of the latencies themselves, to within the
\* width of a bucket: the percentiles and the highest are the ends of the buckets of
\* the latencies in their places, the mean is between the lowest and the highest, and
\* the median is no less than every latency was at least (histo.rs and engine.rs:225).
THEOREM FiguresAreExact ==
  ASSUME NEW S, IsFiniteSet(S), S # {}, NEW lat, \A e \in S : lat[e] \in Nat,
         NEW f, \A e \in S : f[e] = Bucket(Clipped(lat[e])),
         NEW raw, IsTally(raw, S, lat), NEW hist, IsTally(hist, S, f)
  PROVE  \E stats \in StatsFromHistogram(hist) :
           LET n == Cardinality(S)
               exact(k, figure) ==
                 \A v : IsOrder(raw, k, v) => figure = EndOf(Bucket(Clipped(v)))
           IN  /\ stats.samples = n
               /\ exact(Position(n, 500), stats.p50) /\ exact(Position(n, 900), stats.p90)
               /\ exact(Position(n, 990), stats.p99) /\ exact(Position(n, 999), stats.p999)
               /\ exact(n, stats.max)
               /\ stats.min <= stats.mean /\ stats.mean <= stats.max
               /\ \A v : IsOrder(raw, 1, v) => stats.min <= v
               /\ stats.min <= stats.p50
               /\ \A lo \in Nat : lo <= Highest /\ (\A e \in S : lo <= lat[e])
                                    => stats.p50 >= lo
<1>. DEFINE n == Cardinality(S)
            exact(k, figure) == \A v : IsOrder(raw, k, v) => figure = EndOf(Bucket(Clipped(v)))
<1>1. \A e \in S : Clipped(lat[e]) \in Nat /\ f[e] \in Nat
  BY ClippedRange, BucketRange
<1>2. n \in Nat \ {0}
  BY FS_CardinalityType, FS_EmptySet
<1>3. /\ DOMAIN hist # {} /\ DOMAIN hist \subseteq Nat
      /\ Min(DOMAIN hist) \in DOMAIN hist /\ Max(DOMAIN hist) \in DOMAIN hist
      /\ \A b \in DOMAIN hist : Min(DOMAIN hist) <= b /\ b <= Max(DOMAIN hist)
  BY <1>1, EndsOfTally
<1>4. PICK stats : /\ StatsFromHistogram(hist) = {stats}
                   /\ stats = [samples |-> Recorded(hist),
                               min  |-> Min(DOMAIN hist),
                               mean |-> Mean(hist),
                               p50  |-> ValueAtQuantile(hist, 500),
                               p90  |-> ValueAtQuantile(hist, 900),
                               p99  |-> ValueAtQuantile(hist, 990),
                               p999 |-> ValueAtQuantile(hist, 999),
                               max  |-> EndOf(Max(DOMAIN hist))]
  BY <1>3, StatsAre
<1>5. stats.samples = n
  BY <1>4, TallyRecorded
<1>6. ASSUME NEW q \in {500, 900, 990, 999}
      PROVE  exact(Position(n, q), ValueAtQuantile(hist, q))
  <2>. DEFINE k == Position(n, q)
  <2>1. k \in Nat
    BY <1>2, PositionRange
  <2>. SUFFICES ASSUME NEW v, IsOrder(raw, k, v)
                PROVE  ValueAtQuantile(hist, q) = EndOf(Bucket(Clipped(v)))
    OBVIOUS
  <2>2. k = Position(Cardinality(S), q) /\ q \in Nat
    OBVIOUS
  <2>. HIDE DEF k
  <2>. QED
    BY <2>1, <2>2, ShownIsInOrder
<1>7. exact(n, EndOf(Max(DOMAIN hist)))
  BY LastIsInOrder
<1>8. /\ Min(DOMAIN hist) <= Mean(hist) /\ Mean(hist) <= EndOf(Max(DOMAIN hist))
  <2>1. Min(DOMAIN hist) \in Nat /\ Max(DOMAIN hist) \in Nat
    BY <1>3
  <2>. QED
    BY <1>1, <1>3, <2>1, MeanIsBetween
<1>a. DOMAIN raw = Values(S, lat)
  BY TallyDomain
<1>b. DOMAIN hist = Values(S, f)
  BY TallyDomain
<1>9. ASSUME NEW v, v \in DOMAIN raw PROVE v \in Nat /\ Min(DOMAIN hist) <= v
  <2>1. PICK e \in S : lat[e] = v
    BY <1>9, <1>a DEF Values
  <2>2. f[e] \in DOMAIN hist /\ f[e] \in Nat
    BY <1>1, <1>b DEF Values
  <2>3. f[e] = Bucket(Clipped(v)) /\ v \in Nat /\ Clipped(v) \in Nat /\ Clipped(v) <= v
    BY <2>1, ClippedRange
  <2>4. f[e] <= Clipped(v)
    BY <2>3, BucketHolds
  <2>5. Min(DOMAIN hist) <= f[e] /\ Min(DOMAIN hist) \in Nat
    BY <1>3, <2>2
  <2>. QED
    BY <2>2, <2>3, <2>4, <2>5
<1>10. Min(DOMAIN hist) <= ValueAtQuantile(hist, 500)
  <2>1. PICK b \in DOMAIN hist : ValueAtQuantile(hist, 500) = EndOf(b)
    BY <1>1, QuantileFinds
  <2>2. b \in Nat /\ Min(DOMAIN hist) \in Nat /\ Min(DOMAIN hist) <= b
    BY <1>3
  <2>3. EndOf(b) \in Nat /\ b <= EndOf(b)
    BY <2>2, EndOfRange
  <2>. QED
    BY <2>1, <2>2, <2>3
<1>11. ASSUME NEW lo \in Nat, lo <= Highest, \A e \in S : lo <= lat[e]
       PROVE  ValueAtQuantile(hist, 500) >= lo
  <2>. DEFINE k == Position(n, 500)
  <2>1. k \in 1..n
    BY <1>2, PositionRange
  <2>2. PICK v \in Nat : IsOrder(raw, k, v)
    <3>. HIDE DEF k
    <3>. QED
      BY <2>1, OrderExists
  <2>3. lo <= v
    BY <1>11, <1>a, <2>2 DEF IsOrder, Values
  <2>4. lo <= Clipped(v) /\ Clipped(v) \in Nat
    BY <1>11, <2>3, ClippedRange
  <2>5. Clipped(v) <= EndOf(Bucket(Clipped(v))) /\ EndOf(Bucket(Clipped(v))) \in Nat
    BY <2>4, BucketHolds, BucketRange, EndOfRange
  <2>6. ValueAtQuantile(hist, 500) = EndOf(Bucket(Clipped(v)))
    BY <1>6, <2>2
  <2>. QED
    BY <2>4, <2>5, <2>6
<1>12. exact(Position(n, 500), stats.p50) /\ exact(Position(n, 900), stats.p90)
  BY <1>4, <1>6
<1>13. exact(Position(n, 990), stats.p99) /\ exact(Position(n, 999), stats.p999)
  BY <1>4, <1>6
<1>14. exact(n, stats.max)
  BY <1>4, <1>7
<1>15. /\ stats.min = Min(DOMAIN hist) /\ stats.mean = Mean(hist)
       /\ stats.max = EndOf(Max(DOMAIN hist)) /\ stats.p50 = ValueAtQuantile(hist, 500)
  BY <1>4
<1>16. stats.min <= stats.mean /\ stats.mean <= stats.max /\ stats.min <= stats.p50
  BY <1>8, <1>10, <1>15
<1>17. \A v : IsOrder(raw, 1, v) => stats.min <= v
  BY <1>9, <1>15 DEF IsOrder
<1>18. \A lo \in Nat : lo <= Highest /\ (\A e \in S : lo <= lat[e]) => stats.p50 >= lo
  BY <1>11, <1>15
<1>19. stats \in StatsFromHistogram(hist)
  BY <1>4
<1>. HIDE DEF exact
<1>20. \E s \in StatsFromHistogram(hist) :
         /\ s.samples = n
         /\ exact(Position(n, 500), s.p50) /\ exact(Position(n, 900), s.p90)
         /\ exact(Position(n, 990), s.p99) /\ exact(Position(n, 999), s.p999)
         /\ exact(n, s.max)
         /\ s.min <= s.mean /\ s.mean <= s.max
         /\ \A v : IsOrder(raw, 1, v) => s.min <= v
         /\ s.min <= s.p50
         /\ \A lo \in Nat : lo <= Highest /\ (\A e \in S : lo <= lat[e]) => s.p50 >= lo
  BY <1>5, <1>12, <1>13, <1>14, <1>16, <1>17, <1>18, <1>19
<1>. QED
  BY <1>20 DEF exact
=============================================================================
