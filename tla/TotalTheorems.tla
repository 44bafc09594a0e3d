---------------------------- MODULE TotalTheorems ---------------------------
(***************************************************************************)
(* What Total returns for a function to natural numbers on a finite set.   *)
(* Total is a fold that takes the elements in an order it chooses, so each *)
(* fact about it needs an induction on the set, which is laid out here as  *)
(* an argument about a smallest subset that contradicts the fact.          *)
(***************************************************************************)
EXTENDS Integers, Totals, FiniteSetTheorems, WellFoundedInduction, TLAPS

-----------------------------------------------------------------------------
(* Sums *)

\* How Total adds up the values of f: it takes the elements of a set one by one.
Picked(s) == CHOOSE x \in s : TRUE
Added(g, f, s) == IF s = {} THEN 0 ELSE f[Picked(s)] + g[s \ {Picked(s)}]
AddsUp(g, f) == g = [s \in SUBSET DOMAIN f |-> Added(g, f, s)]

\* g adds up f over the subsets of S with at most n elements.
AddsUpTo(g, f, S, n) ==
    /\ g \in [SUBSET S -> Nat]
    /\ \A s \in SUBSET S : Cardinality(s) <= n => g[s] = Added(g, f, s)

\* g sums f over the subsets of S, whatever element is taken first.
Sums(g, f, S) ==
    /\ g \in [SUBSET S -> Nat]
    /\ g[{}] = 0
    /\ \A s \in SUBSET S : \A x \in s : g[s] = f[x] + g[s \ {x}]

\* Some set of a collection of subsets of a finite set has none of its own
\* subsets in the collection.
LEMMA SmallestSet ==
    ASSUME NEW S, IsFiniteSet(S), NEW B \in SUBSET SUBSET S, B # {}
    PROVE  \E s \in B : \A u \in SUBSET s : u # s => u \notin B
  <1>1. IsWellFoundedOn(StrictSubsetOrdering(S), FiniteSubsetsOf(S))
    BY FS_StrictSubsetOrderingWellFounded
  <1>2. B \subseteq FiniteSubsetsOf(S)
    BY FS_FiniteSubsetsOfFinite
  <1>3. PICK s \in B : \A u \in B : ~(<<u, s>> \in StrictSubsetOrdering(S))
    BY <1>1, <1>2, WFMin
  <1>4. ASSUME NEW u \in SUBSET s, u # s, u \in B
        PROVE  FALSE
    <2>1. <<u, s>> \in StrictSubsetOrdering(S)
      BY <1>4 DEF StrictSubsetOrdering
    <2> QED
      BY <1>3, <1>4, <2>1
  <1> QED
    BY <1>4

\* Taking an element out of a finite set.
LEMMA TakeOut ==
    ASSUME NEW S, IsFiniteSet(S), NEW s \in SUBSET S
    PROVE  /\ Cardinality(s) \in Nat
           /\ Cardinality(s) = 0 => s = {}
           /\ \A x \in s : /\ s \ {x} \in SUBSET S /\ s \ {x} # s /\ s \ {x} \in SUBSET s
                           /\ Cardinality(s \ {x}) = Cardinality(s) - 1
           /\ s # {} => Picked(s) \in s
  <1>1. IsFiniteSet(s)
    BY FS_Subset
  <1>2. Cardinality(s) \in Nat /\ (Cardinality(s) = 0 => s = {})
    BY <1>1, FS_CardinalityType, FS_EmptySet
  <1>3. \A x \in s : Cardinality(s \ {x}) = Cardinality(s) - 1
    BY <1>1, FS_RemoveElement
  <1>4. s # {} => Picked(s) \in s
    BY DEF Picked
  <1> QED
    BY <1>2, <1>3, <1>4

\* Sums exist for the sets up to any size.
LEMMA SumsUpTo ==
    ASSUME NEW S, IsFiniteSet(S), NEW f \in [S -> Nat], NEW D \in SUBSET S
    PROVE  \E g : AddsUpTo(g, f, S, Cardinality(D))
  <1> DEFINE Summed(d) == \E g : AddsUpTo(g, f, S, Cardinality(d))
             B == {d \in SUBSET S : ~Summed(d)}
  <1>1. ASSUME NEW d \in B, \A u \in SUBSET d : u # d => u \notin B
        PROVE  FALSE
    <2>1. CASE d = {}
      <3> DEFINE g == [s \in SUBSET S |-> 0]
      <3>1. ASSUME NEW s \in SUBSET S, Cardinality(s) <= Cardinality(d)
            PROVE  g[s] = Added(g, f, s)
        <4>1. Cardinality(s) = 0
          BY <2>1, <3>1, TakeOut, FS_EmptySet
        <4>2. s = {}
          BY <4>1, TakeOut
        <4> QED
          BY <4>2 DEF Added
      <3>2. g \in [SUBSET S -> Nat]
        OBVIOUS
      <3> QED
        BY <3>1, <3>2 DEF AddsUpTo
    <2>2. CASE d # {}
      <3>1. PICK x \in d : TRUE
        BY <2>2
      <3>2. d \ {x} \in SUBSET S /\ Cardinality(d \ {x}) = Cardinality(d) - 1
        BY TakeOut
      <3>3. Summed(d \ {x})
        <4>1. d \ {x} \in SUBSET d /\ d \ {x} # d
          OBVIOUS
        <4>2. d \ {x} \notin B
          BY <1>1, <4>1
        <4> HIDE DEF Summed
        <4> QED
          BY <3>2, <4>2
      <3>4. PICK g \in [SUBSET S -> Nat] : \A s \in SUBSET S :
              Cardinality(s) <= Cardinality(d) - 1 => g[s] = Added(g, f, s)
        BY <3>2, <3>3 DEF AddsUpTo
      <3> DEFINE h == [s \in SUBSET S |-> Added(g, f, s)]
      <3>5. \A s \in SUBSET S : Added(g, f, s) \in Nat
        BY TakeOut DEF Added
      <3>6. h \in [SUBSET S -> Nat]
        BY <3>5
      <3>7. ASSUME NEW s \in SUBSET S, Cardinality(s) <= Cardinality(d)
            PROVE  h[s] = Added(h, f, s)
        <4>1. CASE s = {}
          BY <4>1 DEF Added
        <4>2. CASE s # {}
          <5>1. PICK y \in s : y = Picked(s)
            BY <4>2, TakeOut
          <5>2. s \ {y} \in SUBSET S /\ Cardinality(s \ {y}) <= Cardinality(d) - 1
            BY <3>7, TakeOut
          <5>3. h[s \ {y}] = g[s \ {y}]
            BY <3>4, <5>2
          <5> QED
            BY <4>2, <5>1, <5>3 DEF Added
        <4> QED
          BY <4>1, <4>2
      <3> HIDE DEF h
      <3>8. Summed(d)
        BY <3>6, <3>7 DEF AddsUpTo
      <3> QED
        BY <3>8
    <2> QED
      BY <2>1, <2>2
  <1>2. B = {}
    <2> SUFFICES ASSUME B # {} PROVE FALSE
      OBVIOUS
    <2>1. B \in SUBSET SUBSET S
      OBVIOUS
    <2> HIDE DEF B
    <2>2. PICK d \in B : \A u \in SUBSET d : u # d => u \notin B
      BY <2>1, SmallestSet
    <2> QED
      BY <1>1, <2>2
  <1> QED
    BY <1>2

\* Sums exist.
LEMMA AdditionExists ==
    ASSUME NEW f, IsFiniteSet(DOMAIN f), f \in [DOMAIN f -> Nat]
    PROVE  \E g \in [SUBSET DOMAIN f -> Nat] : AddsUp(g, f)
  <1>0. PICK S : S = DOMAIN f
    OBVIOUS
  <1>1. PICK g : AddsUpTo(g, f, S, Cardinality(S))
    <2>1. IsFiniteSet(S) /\ f \in [S -> Nat] /\ S \in SUBSET S
      BY <1>0
    <2> QED
      BY <2>1, SumsUpTo
  <1>2. \A s \in SUBSET S : Cardinality(s) <= Cardinality(S)
    BY <1>0, FS_Subset
  <1>3. \A s \in SUBSET S : g[s] = Added(g, f, s)
    BY <1>1, <1>2 DEF AddsUpTo
  <1>4. g = [s \in SUBSET S |-> Added(g, f, s)]
    BY <1>1, <1>3 DEF AddsUpTo
  <1> QED
    BY <1>0, <1>1, <1>4 DEF AddsUp, AddsUpTo

\* There is one sum only.
LEMMA AdditionUnique ==
    ASSUME NEW f, IsFiniteSet(DOMAIN f), NEW g, NEW h, AddsUp(g, f), AddsUp(h, f)
    PROVE  g = h
  <1> DEFINE S == DOMAIN f
             B == {s \in SUBSET S : g[s] # h[s]}
  <1>1. /\ DOMAIN g = SUBSET S /\ DOMAIN h = SUBSET S
        /\ g = [s \in SUBSET S |-> g[s]] /\ h = [s \in SUBSET S |-> h[s]]
        /\ \A s \in SUBSET S : g[s] = Added(g, f, s) /\ h[s] = Added(h, f, s)
    BY DEF AddsUp
  <1>2. ASSUME NEW s \in B, \A u \in SUBSET s : u # s => u \notin B
        PROVE  FALSE
    <2>1. CASE s = {}
      BY <1>1, <2>1 DEF Added
    <2>2. CASE s # {}
      <3>1. PICK x \in s : x = Picked(s)
        BY <2>2, TakeOut
      <3>2. g[s \ {x}] = h[s \ {x}]
        BY <1>2, TakeOut
      <3> QED
        BY <1>1, <2>2, <3>1, <3>2 DEF Added
    <2> QED
      BY <2>1, <2>2
  <1>3. B = {}
    <2> SUFFICES ASSUME B # {} PROVE FALSE
      OBVIOUS
    <2>1. B \in SUBSET SUBSET S
      OBVIOUS
    <2> HIDE DEF B
    <2>2. PICK s \in B : \A u \in SUBSET s : u # s => u \notin B
      BY <2>1, SmallestSet
    <2> QED
      BY <1>2, <2>2
  <1>4. \A s \in SUBSET S : g[s] = h[s]
    BY <1>3
  <1> QED
    BY <1>1, <1>4

\* Total adds up the values of f, in any order.
LEMMA TotalSums ==
    ASSUME NEW S, IsFiniteSet(S), NEW f \in [S -> Nat]
    PROVE  \E g : Sums(g, f, S) /\ Total(f) = g[S]
  <1>1. DOMAIN f = S /\ IsFiniteSet(DOMAIN f) /\ f \in [DOMAIN f -> Nat]
    OBVIOUS
  <1>2. PICK g \in [SUBSET S -> Nat] : AddsUp(g, f)
    BY <1>1, AdditionExists
  <1>3. Total(f) = (CHOOSE h : AddsUp(h, f))[DOMAIN f]
    BY DEF Total, MapThenSumSet, MapThenFoldSet, AddsUp, Added, Picked
  <1>4. (CHOOSE h : AddsUp(h, f)) = g
    <2>1. PICK h : h = CHOOSE k : AddsUp(k, f)
      OBVIOUS
    <2>2. AddsUp(h, f)
      BY <1>2, <2>1
    <2> QED
      BY <1>1, <1>2, <2>1, <2>2, AdditionUnique
  <1>5. Total(f) = g[S]
    BY <1>1, <1>3, <1>4
  <1>6. \A s \in SUBSET S : g[s] = Added(g, f, s)
    BY <1>1, <1>2 DEF AddsUp
  <1>7. g[{}] = 0
    BY <1>6 DEF Added
  <1> DEFINE AnyOrder(s) == \A x \in s : g[s] = f[x] + g[s \ {x}]
             B == {s \in SUBSET S : ~AnyOrder(s)}
  <1>8. ASSUME NEW s \in B, \A u \in SUBSET s : u # s => u \notin B
        PROVE  FALSE
    <2>1. PICK x \in s : g[s] # f[x] + g[s \ {x}]
      OBVIOUS
    <2>2. PICK c \in s : c = Picked(s)
      BY <2>1, TakeOut
    <2>3. g[s] = f[c] + g[s \ {c}]
      BY <1>6, <2>1, <2>2 DEF Added
    <2>4. x # c
      BY <2>1, <2>3
    <2>5. /\ s \ {x} \in SUBSET S /\ s \ {x} \in SUBSET s /\ s \ {x} # s /\ c \in s \ {x}
          /\ s \ {c} \in SUBSET S /\ s \ {c} \in SUBSET s /\ s \ {c} # s /\ x \in s \ {c}
          /\ (s \ {x}) \ {c} = (s \ {c}) \ {x} /\ (s \ {x}) \ {c} \in SUBSET S
      BY <2>4
    <2>6. s \ {x} \notin B /\ s \ {c} \notin B
      BY <1>8, <2>5
    <2>7. AnyOrder(s \ {x}) /\ AnyOrder(s \ {c})
      <3> HIDE DEF AnyOrder
      <3> QED
        BY <2>5, <2>6
    <2>8. /\ g[s \ {x}] = f[c] + g[(s \ {x}) \ {c}]
          /\ g[s \ {c}] = f[x] + g[(s \ {x}) \ {c}]
      BY <2>5, <2>7
    <2>9. f[x] \in Nat /\ f[c] \in Nat /\ g[(s \ {x}) \ {c}] \in Nat
      BY <2>5
    <2> QED
      BY <2>1, <2>3, <2>8, <2>9
  <1>9. B = {}
    <2> SUFFICES ASSUME B # {} PROVE FALSE
      OBVIOUS
    <2>1. B \in SUBSET SUBSET S
      OBVIOUS
    <2> HIDE DEF B
    <2>2. PICK s \in B : \A u \in SUBSET s : u # s => u \notin B
      BY <2>1, SmallestSet
    <2> QED
      BY <1>8, <2>2
  <1>10. \A s \in SUBSET S : AnyOrder(s)
    BY <1>9
  <1> QED
    BY <1>5, <1>7, <1>10 DEF Sums

\* Total is a natural number.
LEMMA TotalType ==
    ASSUME NEW S, IsFiniteSet(S), NEW f \in [S -> Nat]
    PROVE  Total(f) \in Nat
  <1>1. PICK g : Sums(g, f, S) /\ Total(f) = g[S]
    BY TotalSums
  <1> QED
    BY <1>1 DEF Sums

\* Total of functions bounded by a sum.
LEMMA TotalBound ==
    ASSUME NEW S, IsFiniteSet(S), NEW f \in [S -> Nat], NEW h \in [S -> Nat],
           NEW k \in [S -> Nat], \A x \in S : f[x] <= h[x] + k[x]
    PROVE  Total(f) <= Total(h) + Total(k)
  <1>1. PICK F : Sums(F, f, S) /\ Total(f) = F[S]
    BY TotalSums
  <1>2. PICK H : Sums(H, h, S) /\ Total(h) = H[S]
    BY TotalSums
  <1>3. PICK K : Sums(K, k, S) /\ Total(k) = K[S]
    BY TotalSums
  <1> DEFINE B == {s \in SUBSET S : ~(F[s] <= H[s] + K[s])}
  <1>4. ASSUME NEW s \in B, \A u \in SUBSET s : u # s => u \notin B
        PROVE  FALSE
    <2>1. CASE s = {}
      BY <1>1, <1>2, <1>3, <2>1 DEF Sums
    <2>2. CASE s # {}
      <3>1. PICK x \in s : TRUE
        BY <2>2
      <3>2. s \ {x} \in SUBSET S /\ s \ {x} \in SUBSET s /\ s \ {x} # s
        OBVIOUS
      <3>3. F[s \ {x}] <= H[s \ {x}] + K[s \ {x}]
        BY <1>4, <3>2
      <3>4. /\ F[s] = f[x] + F[s \ {x}] /\ H[s] = h[x] + H[s \ {x}]
            /\ K[s] = k[x] + K[s \ {x}]
        BY <1>1, <1>2, <1>3 DEF Sums
      <3>5. /\ F[s \ {x}] \in Nat /\ H[s \ {x}] \in Nat /\ K[s \ {x}] \in Nat
            /\ f[x] \in Nat /\ h[x] \in Nat /\ k[x] \in Nat /\ f[x] <= h[x] + k[x]
        BY <1>1, <1>2, <1>3, <3>2 DEF Sums
      <3>6. F[s] <= H[s] + K[s]
        BY <3>3, <3>4, <3>5
      <3> QED
        BY <3>6
    <2> QED
      BY <2>1, <2>2
  <1>5. B = {}
    <2> SUFFICES ASSUME B # {} PROVE FALSE
      OBVIOUS
    <2>1. B \in SUBSET SUBSET S
      OBVIOUS
    <2> HIDE DEF B
    <2>2. PICK s \in B : \A u \in SUBSET s : u # s => u \notin B
      BY <2>1, SmallestSet
    <2> QED
      BY <1>4, <2>2
  <1> QED
    BY <1>1, <1>2, <1>3, <1>5

\* What one value of a function adds to its total, the others not growing.
LEMMA TotalMoves ==
    ASSUME NEW S, IsFiniteSet(S), NEW f \in [S -> Nat], NEW h \in [S -> Nat], NEW x \in S,
           \A y \in S : y # x => h[y] <= f[y]
    PROVE  Total(h) + f[x] <= Total(f) + h[x]
  <1>1. PICK F : Sums(F, f, S) /\ Total(f) = F[S]
    BY TotalSums
  <1>2. PICK H : Sums(H, h, S) /\ Total(h) = H[S]
    BY TotalSums
  <1> DEFINE B == {s \in SUBSET S : x \notin s /\ ~(H[s] <= F[s])}
  <1>4. ASSUME NEW s \in B, \A u \in SUBSET s : u # s => u \notin B
        PROVE  FALSE
    <2>1. CASE s = {}
      BY <1>1, <1>2, <2>1 DEF Sums
    <2>2. CASE s # {}
      <3>1. PICK y \in s : TRUE
        BY <2>2
      <3>2. s \ {y} \in SUBSET S /\ s \ {y} \in SUBSET s /\ s \ {y} # s /\ y # x
        OBVIOUS
      <3>3. H[s \ {y}] <= F[s \ {y}]
        BY <1>4, <3>2
      <3>4. F[s] = f[y] + F[s \ {y}] /\ H[s] = h[y] + H[s \ {y}]
        BY <1>1, <1>2 DEF Sums
      <3>5. /\ F[s \ {y}] \in Nat /\ H[s \ {y}] \in Nat
            /\ f[y] \in Nat /\ h[y] \in Nat /\ h[y] <= f[y]
        BY <1>1, <1>2, <3>2 DEF Sums
      <3>6. H[s] <= F[s]
        BY <3>3, <3>4, <3>5
      <3> QED
        BY <3>6
    <2> QED
      BY <2>1, <2>2
  <1>5. B = {}
    <2> SUFFICES ASSUME B # {} PROVE FALSE
      OBVIOUS
    <2>1. B \in SUBSET SUBSET S
      OBVIOUS
    <2> HIDE DEF B
    <2>2. PICK s \in B : \A u \in SUBSET s : u # s => u \notin B
      BY <2>1, SmallestSet
    <2> QED
      BY <1>4, <2>2
  <1>6. S \ {x} \in SUBSET S /\ x \notin S \ {x}
    OBVIOUS
  <1>7. H[S \ {x}] <= F[S \ {x}]
    BY <1>5, <1>6
  <1>8. F[S] = f[x] + F[S \ {x}] /\ H[S] = h[x] + H[S \ {x}]
    BY <1>1, <1>2 DEF Sums
  <1>9. /\ F[S \ {x}] \in Nat /\ H[S \ {x}] \in Nat /\ f[x] \in Nat /\ h[x] \in Nat
    BY <1>1, <1>2, <1>6 DEF Sums
  <1> QED
    BY <1>1, <1>2, <1>7, <1>8, <1>9

\* Total of a function that is zero everywhere.
LEMMA TotalZero ==
    ASSUME NEW S, IsFiniteSet(S), NEW f \in [S -> Nat], \A x \in S : f[x] = 0
    PROVE  Total(f) = 0
  <1>1. PICK F : Sums(F, f, S) /\ Total(f) = F[S]
    BY TotalSums
  <1> DEFINE B == {s \in SUBSET S : F[s] # 0}
  <1>2. ASSUME NEW s \in B, \A u \in SUBSET s : u # s => u \notin B
        PROVE  FALSE
    <2>1. CASE s = {}
      BY <1>1, <2>1 DEF Sums
    <2>2. CASE s # {}
      <3>1. PICK x \in s : TRUE
        BY <2>2
      <3>2. s \ {x} \in SUBSET S /\ s \ {x} \in SUBSET s /\ s \ {x} # s
        OBVIOUS
      <3>3. F[s \ {x}] = 0
        BY <1>2, <3>2
      <3>4. F[s] = f[x] + F[s \ {x}]
        BY <1>1 DEF Sums
      <3> QED
        BY <3>3, <3>4
    <2> QED
      BY <2>1, <2>2
  <1>3. B = {}
    <2> SUFFICES ASSUME B # {} PROVE FALSE
      OBVIOUS
    <2>1. B \in SUBSET SUBSET S
      OBVIOUS
    <2> HIDE DEF B
    <2>2. PICK s \in B : \A u \in SUBSET s : u # s => u \notin B
      BY <2>1, SmallestSet
    <2> QED
      BY <1>2, <2>2
  <1> QED
    BY <1>1, <1>3

\* Total of a smaller function.
LEMMA TotalLess ==
    ASSUME NEW S, IsFiniteSet(S), NEW f \in [S -> Nat], NEW h \in [S -> Nat],
           \A x \in S : f[x] <= h[x]
    PROVE  Total(f) <= Total(h)
  <1>1. PICK z : z = [x \in S |-> 0]
    OBVIOUS
  <1>2. z \in [S -> Nat] /\ (\A x \in S : z[x] = 0) /\ (\A x \in S : f[x] <= h[x] + z[x])
    BY <1>1
  <1>3. Total(z) = 0 /\ Total(h) \in Nat
    BY <1>2, TotalZero, TotalType
  <1>4. Total(f) <= Total(h) + Total(z)
    BY <1>2, TotalBound
  <1> QED
    BY <1>3, <1>4

\* Total of a function on one element more.
LEMMA TotalGrows ==
    ASSUME NEW S, IsFiniteSet(S), NEW x, x \notin S, NEW f \in [S -> Nat],
           NEW h \in [S \cup {x} -> Nat], \A y \in S : h[y] = f[y]
    PROVE  Total(h) = Total(f) + h[x]
  <1>1. PICK F : Sums(F, f, S) /\ Total(f) = F[S]
    BY TotalSums
  <1>2. PICK T : T = S \cup {x}
    OBVIOUS
  <1>3. PICK H : Sums(H, h, T) /\ Total(h) = H[T]
    <2>1. IsFiniteSet(T) /\ h \in [T -> Nat]
      BY <1>2, FS_AddElement
    <2> QED
      BY <2>1, TotalSums
  <1> DEFINE B == {s \in SUBSET S : H[s] # F[s]}
  <1>4. ASSUME NEW s \in B, \A u \in SUBSET s : u # s => u \notin B
        PROVE  FALSE
    <2>1. CASE s = {}
      BY <1>1, <1>3, <2>1 DEF Sums
    <2>2. CASE s # {}
      <3>1. PICK y \in s : TRUE
        BY <2>2
      <3>2. s \ {y} \in SUBSET S /\ s \ {y} \in SUBSET s /\ s \ {y} # s /\ s \in SUBSET T /\ y \in S
        BY <1>2
      <3>3. H[s \ {y}] = F[s \ {y}]
        BY <1>4, <3>2
      <3>4. F[s] = f[y] + F[s \ {y}] /\ H[s] = h[y] + H[s \ {y}]
        BY <1>1, <1>3, <3>2 DEF Sums
      <3> QED
        BY <3>2, <3>3, <3>4
    <2> QED
      BY <2>1, <2>2
  <1>5. B = {}
    <2> SUFFICES ASSUME B # {} PROVE FALSE
      OBVIOUS
    <2>1. B \in SUBSET SUBSET S
      OBVIOUS
    <2> HIDE DEF B
    <2>2. PICK s \in B : \A u \in SUBSET s : u # s => u \notin B
      BY <2>1, SmallestSet
    <2> QED
      BY <1>4, <2>2
  <1>6. H[S] = F[S] /\ F[S] \in Nat /\ h[x] \in Nat
    BY <1>1, <1>5 DEF Sums
  <1>7. T \in SUBSET T /\ x \in T /\ T \ {x} = S
    BY <1>2
  <1>8. H[T] = h[x] + H[S]
    BY <1>3, <1>7 DEF Sums
  <1> QED
    BY <1>1, <1>3, <1>6, <1>8

\* Total of a function whose values have a bound.
LEMMA TotalBounded ==
    ASSUME NEW S, IsFiniteSet(S), NEW b \in Nat, NEW f \in [S -> Nat], \A x \in S : f[x] <= b
    PROVE  Total(f) <= Cardinality(S) * b
  <1>1. PICK F : Sums(F, f, S) /\ Total(f) = F[S]
    BY TotalSums
  <1>2. PICK m : m = [n \in Nat |-> n * b]
    OBVIOUS
  <1>3. m[0] = 0 /\ \A n \in Nat : m[n] \in Nat /\ (n # 0 => m[n] = m[n - 1] + b)
    <2>1. \A n \in Nat : n * b \in Nat /\ n * b = (n - 1) * b + b /\ 0 * b = 0
      OBVIOUS
    <2> QED
      BY <1>2, <2>1
  <1> DEFINE B == {s \in SUBSET S : ~(F[s] <= m[Cardinality(s)])}
  <1>4. ASSUME NEW s \in B, \A u \in SUBSET s : u # s => u \notin B
        PROVE  FALSE
    <2>1. CASE s = {}
      BY <1>1, <1>3, <2>1, FS_EmptySet DEF Sums
    <2>2. CASE s # {}
      <3>1. PICK x \in s : TRUE
        BY <2>2
      <3>2. s \ {x} \in SUBSET S /\ s \ {x} \in SUBSET s /\ s \ {x} # s
        OBVIOUS
      <3>3. F[s \ {x}] <= m[Cardinality(s \ {x})]
        BY <1>4, <3>2
      <3>4. /\ Cardinality(s) \in Nat /\ Cardinality(s) # 0
            /\ Cardinality(s \ {x}) = Cardinality(s) - 1
        BY <2>2, TakeOut
      <3>5. F[s] = f[x] + F[s \ {x}]
        BY <1>1 DEF Sums
      <3>6. F[s \ {x}] \in Nat /\ f[x] \in Nat /\ f[x] <= b
        BY <1>1, <3>2 DEF Sums
      <3>7. /\ m[Cardinality(s)] = m[Cardinality(s) - 1] + b
            /\ m[Cardinality(s) - 1] \in Nat
        BY <1>3, <3>4
      <3>8. F[s] <= m[Cardinality(s)]
        BY <3>3, <3>4, <3>5, <3>6, <3>7
      <3> QED
        BY <3>8
    <2> QED
      BY <2>1, <2>2
  <1>5. B = {}
    <2> SUFFICES ASSUME B # {} PROVE FALSE
      OBVIOUS
    <2>1. B \in SUBSET SUBSET S
      OBVIOUS
    <2> HIDE DEF B
    <2>2. PICK s \in B : \A u \in SUBSET s : u # s => u \notin B
      BY <2>1, SmallestSet
    <2> QED
      BY <1>4, <2>2
  <1>6. F[S] <= m[Cardinality(S)] /\ Cardinality(S) \in Nat
    BY <1>5, FS_CardinalityType
  <1> QED
    BY <1>1, <1>2, <1>6
=============================================================================
