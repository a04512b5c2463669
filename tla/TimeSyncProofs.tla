--------------------------- MODULE TimeSyncProofs ---------------------------
(***************************************************************************)
(* What time synchronisation selects and averages, for any number of       *)
(* sources, any stamps and any root dispersions. The weighted mean is a    *)
(* fold over a set; what is proved of it rests on a minimal                *)
(* counterexample, which the well-foundedness of strict inclusion gives.   *)
(***************************************************************************)
EXTENDS TimeSync, FiniteSetTheorems, WellFoundedInduction, TLAPS

-----------------------------------------------------------------------------
(* Folds over finite sets. *)

(* Of the subsets of a finite set that have a property, one is smallest:   *)
(* the induction the other lemmas of this section use.                     *)
LEMMA SmallestSubset ==
  ASSUME NEW S, IsFiniteSet(S), NEW Bad \in SUBSET SUBSET S, Bad # {}
  PROVE  \E U \in Bad : \A V \in SUBSET U : V # U => V \notin Bad
<1>1. IsWellFoundedOn(StrictSubsetOrdering(S), SUBSET S)
  BY FS_StrictSubsetOrderingWellFounded, FS_FiniteSubsetsOfFinite
<1>2. PICK U \in Bad : \A V \in Bad : ~(<<V, U>> \in StrictSubsetOrdering(S))
  BY <1>1, WFMin
<1> QED BY <1>2 DEF StrictSubsetOrdering

\* The element the folds of the community modules take next.
Any(s) == CHOOSE x \in s : TRUE

\* f folds every subset of U with the function c, from base on.
IsFold(f, U, base, c) ==
  \A s \in SUBSET U :
    f[s] = IF s = {} THEN base ELSE c[<<Any(s), f[s \ {Any(s)}]>>]

(* Two folds agree on the sets they both fold.                             *)
LEMMA FoldUnique ==
  ASSUME NEW S, IsFiniteSet(S), NEW base, NEW c,
         NEW U \in SUBSET S, NEW V \in SUBSET S, NEW f, NEW h,
         IsFold(f, U, base, c), IsFold(h, V, base, c)
  PROVE  \A s \in SUBSET (U \cap V) : f[s] = h[s]
<1> DEFINE Bad == {s \in SUBSET (U \cap V) : f[s] # h[s]}
<1> SUFFICES ASSUME Bad # {} PROVE FALSE
  OBVIOUS
<1>1. PICK s \in Bad : \A t \in SUBSET s : t # s => t \notin Bad
  <2>1. Bad \in SUBSET SUBSET S
    OBVIOUS
  <2> HIDE DEF Bad
  <2> QED BY <2>1, SmallestSubset
<1>2. s # {}
  BY DEF IsFold
<1>3. Any(s) \in s
  BY <1>2 DEF Any
<1>4. f[s \ {Any(s)}] = h[s \ {Any(s)}]
  BY <1>1, <1>3
<1> QED BY <1>2, <1>4 DEF IsFold

(* A finite set can be folded: the recursion of the weighted mean is well  *)
(* defined, for any number of sources.                                     *)
LEMMA FoldExists ==
  ASSUME NEW S, IsFiniteSet(S), NEW base \in Int, NEW c \in [S \X Int -> Int]
  PROVE  \E f \in [SUBSET S -> Int] : IsFold(f, S, base, c)
<1> DEFINE Has(U) == \E f \in [SUBSET U -> Int] : IsFold(f, U, base, c)
           Bad == {U \in SUBSET S : ~Has(U)}
<1> SUFFICES ASSUME Bad # {} PROVE FALSE
  OBVIOUS
<1>1. PICK U \in Bad : \A V \in SUBSET U : V # U => V \notin Bad
  <2>1. Bad \in SUBSET SUBSET S
    OBVIOUS
  <2> HIDE DEF Bad
  <2> QED BY <2>1, SmallestSubset
<1> DEFINE fold(V) == CHOOSE f \in [SUBSET V -> Int] : IsFold(f, V, base, c)
<1>2. \A V \in SUBSET U : V # U => fold(V) \in [SUBSET V -> Int] /\ IsFold(fold(V), V, base, c)
  BY <1>1
<1> HIDE DEF fold
<1> DEFINE last == IF U = {} THEN base ELSE c[<<Any(U), fold(U \ {Any(U)})[U \ {Any(U)}]>>]
           F == [s \in SUBSET U |-> IF s = U THEN last ELSE fold(s)[s]]
<1>3. \A s \in SUBSET U : s # {} => /\ Any(s) \in s /\ s \ {Any(s)} \in SUBSET U 
                                    /\ s \ {Any(s)} # U /\ s \ {Any(s)} # s
  BY DEF Any
<1>4. \A s \in SUBSET U : s # U => fold(s)[s] \in Int
  BY <1>2
<1>5. last \in Int
  <2>1. CASE U # {}
    <3>1. Any(U) \in S /\ fold(U \ {Any(U)})[U \ {Any(U)}] \in Int
      BY <1>3, <1>4, <2>1
    <3> QED BY <3>1, <2>1
  <2> QED BY <2>1
<1> HIDE DEF last
<1>6. F \in [SUBSET U -> Int]
  BY <1>4, <1>5
<1>7. ASSUME NEW s \in SUBSET U
      PROVE  F[s] = IF s = {} THEN base ELSE c[<<Any(s), F[s \ {Any(s)}]>>]
  <2>1. s # {} => F[s \ {Any(s)}] = fold(s \ {Any(s)})[s \ {Any(s)}]
    BY <1>3
  <2>2. CASE s = U
    BY <2>1, <2>2 DEF last
  <2>3. CASE s # U
    <3>1. F[s] = fold(s)[s] /\ IsFold(fold(s), s, base, c)
      BY <1>2, <2>3
    <3>2. CASE s = {}
      BY <3>1, <3>2 DEF IsFold
    <3>3. CASE s # {}
      <4> DEFINE t == s \ {Any(s)}
      <4>1. t \in SUBSET U /\ t # U /\ t \in SUBSET (s \cap t) /\ s \in SUBSET S /\ t \in SUBSET S
        BY <1>3, <3>3
      <4>2. IsFold(fold(t), t, base, c)
        BY <1>2, <4>1
      <4>3. fold(s)[t] = fold(t)[t]
        <5> HIDE DEF t
        <5> QED BY <3>1, <4>1, <4>2, FoldUnique
      <4>4. fold(s)[s] = c[<<Any(s), fold(s)[t]>>]
        BY <3>1, <3>3 DEF IsFold
      <4> QED BY <2>1, <3>1, <3>3, <4>3, <4>4
    <3> QED BY <3>2, <3>3
  <2> QED BY <2>2, <2>3
<1>8. IsFold(F, U, base, c)
  <2> HIDE DEF F
  <2> QED BY <1>7 DEF IsFold
<1> HIDE DEF F
<1> QED BY <1>6, <1>8

(* A fold that adds is what SumFunction computes.                          *)
LEMMA SumFold ==
  ASSUME NEW S, IsFiniteSet(S), NEW g \in [S -> Int], NEW f \in [SUBSET S -> Int],
         \A s \in SUBSET S : f[s] = IF s = {} THEN 0 ELSE g[Any(s)] + f[s \ {Any(s)}]
  PROVE  SumFunction(g) = f[S]
<1> DEFINE Step(it) == [s \in SUBSET S |-> IF s = {} THEN 0 ELSE g[Any(s)] + it[s \ {Any(s)}]]
           total == CHOOSE it : it = Step(it)
<1>1. DOMAIN g = S
  OBVIOUS
<1>2. SumFunction(g) = total[S]
  BY <1>1, Zenon DEF SumFunction, SumFunctionOnSet, FoldFunctionOnSet, MapThenFoldSet, Any
<1>3. f = Step(f)
  OBVIOUS
<1>4. total = Step(total)
  <2> HIDE DEF Step
  <2> QED BY <1>3
<1> HIDE DEF total
<1>5. \A s \in SUBSET S : total[s] = IF s = {} THEN 0 ELSE g[Any(s)] + total[s \ {Any(s)}]
  BY <1>4, Zenon
<1> DEFINE Bad == {s \in SUBSET S : total[s] # f[s]}
<1>6. ASSUME Bad # {} PROVE FALSE
  <2>1. PICK s \in Bad : \A t \in SUBSET s : t # s => t \notin Bad
    <3>1. Bad \in SUBSET SUBSET S
      OBVIOUS
    <3> HIDE DEF Bad
    <3> QED BY <1>6, <3>1, SmallestSubset
  <2>2. s # {}
    BY <1>5
  <2>3. Any(s) \in s
    BY <2>2 DEF Any
  <2>4. total[s \ {Any(s)}] = f[s \ {Any(s)}]
    BY <2>1, <2>3
  <2> QED BY <1>5, <2>2, <2>4
<1>7. S \in SUBSET S /\ S \notin Bad
  BY <1>6
<1> QED BY <1>2, <1>7

(* SumFunction adds the values of a function, one at a time.               *)
LEMMA SumExists ==
  ASSUME NEW S, IsFiniteSet(S), NEW g \in [S -> Int]
  PROVE  \E f \in [SUBSET S -> Int] :
           /\ \A s \in SUBSET S : f[s] = IF s = {} THEN 0 ELSE g[Any(s)] + f[s \ {Any(s)}]
           /\ SumFunction(g) = f[S]
<1> DEFINE c == [p \in S \X Int |-> g[p[1]] + p[2]]
<1>1. c \in [S \X Int -> Int]
  OBVIOUS
<1>2. PICK f \in [SUBSET S -> Int] : IsFold(f, S, 0, c)
  <2>1. 0 \in Int
    OBVIOUS
  <2> HIDE DEF c
  <2> QED BY <1>1, <2>1, FoldExists
<1>3. ASSUME NEW s \in SUBSET S
      PROVE  f[s] = IF s = {} THEN 0 ELSE g[Any(s)] + f[s \ {Any(s)}]
  <2>1. CASE s = {}
    BY <1>2, <2>1 DEF IsFold
  <2>2. CASE s # {}
    <3>1. Any(s) \in S
      BY <2>2 DEF Any
    <3>2. s \ {Any(s)} \in SUBSET S
      OBVIOUS
    <3>3. f[s \ {Any(s)}] \in Int
      BY <3>2
    <3>4. f[s] = c[<<Any(s), f[s \ {Any(s)}]>>]
      BY <1>2, <2>2 DEF IsFold
    <3> QED BY <2>2, <3>1, <3>3, <3>4
  <2> QED BY <2>1, <2>2
<1>4. SumFunction(g) = f[S]
  BY <1>3, SumFold
<1> QED BY <1>3, <1>4

(* Of positive weights and of terms that lie between j and k times their   *)
(* weight, the sum of the terms lies between j and k times that of the     *)
(* weights, which is positive.                                             *)
LEMMA SumsCompare ==
  ASSUME NEW S, IsFiniteSet(S), S # {}, NEW g \in [S -> Nat \ {0}], NEW h \in [S -> Int],
         NEW j \in Int, NEW k \in Int,
         \A s \in S : j * g[s] <= h[s] /\ h[s] <= k * g[s]
  PROVE  /\ SumFunction(g) \in Nat /\ SumFunction(h) \in Int /\ SumFunction(g) > 0
         /\ j * SumFunction(g) <= SumFunction(h) /\ SumFunction(h) <= k * SumFunction(g)
<1>1. PICK f \in [SUBSET S -> Int] :
        /\ \A s \in SUBSET S : f[s] = IF s = {} THEN 0 ELSE g[Any(s)] + f[s \ {Any(s)}]
        /\ SumFunction(g) = f[S]
  <2>1. g \in [S -> Int]
    OBVIOUS
  <2> QED BY <2>1, SumExists
<1>2. PICK e \in [SUBSET S -> Int] :
        /\ \A s \in SUBSET S : e[s] = IF s = {} THEN 0 ELSE h[Any(s)] + e[s \ {Any(s)}]
        /\ SumFunction(h) = e[S]
  BY SumExists
<1> DEFINE Good(s) == /\ f[s] >= 0 /\ (s # {} => f[s] > 0)
                      /\ j * f[s] <= e[s] /\ e[s] <= k * f[s]
           Bad == {s \in SUBSET S : ~Good(s)}
<1>3. ASSUME Bad # {} PROVE FALSE
  <2>1. PICK s \in Bad : \A t \in SUBSET s : t # s => t \notin Bad
    <3>1. Bad \in SUBSET SUBSET S
      OBVIOUS
    <3> HIDE DEF Bad
    <3> QED BY <1>3, <3>1, SmallestSubset
  <2>2. s # {}
    <3>1. {} \in SUBSET S
      OBVIOUS
    <3>2. f[{}] = 0
      BY <1>1, <3>1
    <3>3. e[{}] = 0
      BY <1>2, <3>1
    <3>4. j * 0 = 0 /\ k * 0 = 0
      OBVIOUS
    <3>5. Good({})
      BY <3>2, <3>3, <3>4
    <3> QED BY <2>1, <3>5
  <2>3. Any(s) \in s
    BY <2>2 DEF Any
  <2> DEFINE t == s \ {Any(s)}
  <2>4. t \in SUBSET s /\ t # s /\ t \in SUBSET S /\ Any(s) \in S
    BY <2>3
  <2>5. Good(t)
    BY <2>1, <2>4
  <2>6. f[s] = g[Any(s)] + f[t] /\ e[s] = h[Any(s)] + e[t]
    BY <1>1, <1>2, <2>2
  <2>7. /\ f[t] \in Int /\ e[t] \in Int /\ g[Any(s)] \in Nat \ {0} /\ h[Any(s)] \in Int
        /\ j * g[Any(s)] <= h[Any(s)] /\ h[Any(s)] <= k * g[Any(s)]
    BY <2>4
  <2>8. \A a, b, x, y \in Int :
          /\ j * a <= b /\ j * x <= y => j * (x + a) <= y + b
          /\ b <= k * a /\ y <= k * x => y + b <= k * (x + a)
    OBVIOUS
  <2>9. j * f[s] <= e[s] /\ e[s] <= k * f[s]
    BY <2>5, <2>6, <2>7, <2>8
  <2>10. f[s] > 0
    BY <2>5, <2>6, <2>7
  <2>11. Good(s)
    BY <2>9, <2>10
  <2> QED BY <2>1, <2>11
<1>4. S \in SUBSET S /\ S \notin Bad
  BY <1>3
<1>5. Good(S)
  BY <1>4
<1> QED BY <1>1, <1>2, <1>4, <1>5

(* A product of root dispersions, none of which is zero, is positive, and  *)
(* no factor is larger than it.                                            *)
LEMMA ProductBounds ==
  ASSUME NEW S, IsFiniteSet(S), NEW g \in [S -> Nat \ {0}]
  PROVE  LET all == FoldFunction(LAMBDA d, product : d * product, 1, g)
         IN  all \in Nat /\ all > 0 /\ \A s \in S : g[s] <= all
<1> DEFINE all == FoldFunction(LAMBDA d, product : d * product, 1, g)
           c == [p \in S \X Int |-> g[p[1]] * p[2]]
           Step(it) == [s \in SUBSET S |->
                          IF s = {} THEN 1 ELSE g[Any(s)] * it[s \ {Any(s)}]]
           iter == CHOOSE it : it = Step(it)
<1>1. c \in [S \X Int -> Int] /\ 1 \in Int
  OBVIOUS
<1>2. PICK f \in [SUBSET S -> Int] : IsFold(f, S, 1, c)
  <2> HIDE DEF c
  <2> QED BY <1>1, FoldExists
<1>3. ASSUME NEW s \in SUBSET S
      PROVE  f[s] = IF s = {} THEN 1 ELSE g[Any(s)] * f[s \ {Any(s)}]
  <2>1. CASE s = {}
    BY <1>2, <2>1 DEF IsFold
  <2>2. CASE s # {}
    <3>1. Any(s) \in S
      BY <2>2 DEF Any
    <3>2. s \ {Any(s)} \in SUBSET S
      OBVIOUS
    <3>3. f[s \ {Any(s)}] \in Int
      BY <3>2
    <3>4. f[s] = c[<<Any(s), f[s \ {Any(s)}]>>]
      BY <1>2, <2>2 DEF IsFold
    <3>5. c[<<Any(s), f[s \ {Any(s)}]>>] = g[Any(s)] * f[s \ {Any(s)}]
      BY <3>1, <3>3
    <3> QED BY <2>2, <3>4, <3>5
  <2> QED BY <2>1, <2>2
<1>4. all = iter[S]
  <2>1. DOMAIN g = S
    OBVIOUS
  <2> QED BY <2>1, Zenon DEF FoldFunction, FoldFunctionOnSet, MapThenFoldSet, Any
<1>5. iter = Step(iter)
  <2>1. f = Step(f)
    BY <1>3
  <2> HIDE DEF Step
  <2> QED BY <2>1
<1> HIDE DEF iter, all
<1>6. \A s \in SUBSET S : iter[s] = IF s = {} THEN 1 ELSE g[Any(s)] * iter[s \ {Any(s)}]
  BY <1>5, Zenon
<1> DEFINE Good(s) == iter[s] \in Nat /\ iter[s] > 0 /\ \A x \in s : g[x] <= iter[s]
           Bad == {s \in SUBSET S : ~Good(s)}
<1>7. ASSUME Bad # {} PROVE FALSE
  <2>1. PICK s \in Bad : \A t \in SUBSET s : t # s => t \notin Bad
    <3>1. Bad \in SUBSET SUBSET S
      OBVIOUS
    <3> HIDE DEF Bad
    <3> QED BY <1>7, <3>1, SmallestSubset
  <2>2. s # {}
    <3>1. {} \in SUBSET S
      OBVIOUS
    <3>2. iter[{}] = 1
      BY <1>6, <3>1
    <3>3. iter[{}] \in Nat /\ iter[{}] > 0 /\ \A x \in {} : g[x] <= iter[{}]
      BY <3>2
    <3> QED BY <2>1, <3>3
  <2>3. Any(s) \in s
    BY <2>2 DEF Any
  <2> DEFINE t == s \ {Any(s)}
  <2>4. t \in SUBSET s /\ t # s /\ t \in SUBSET S
    BY <2>3
  <2>5. Good(t)
    BY <2>1, <2>4
  <2>6. iter[s] = g[Any(s)] * iter[t]
    BY <1>6, <2>2
  <2>7. g[Any(s)] \in Nat /\ g[Any(s)] > 0
    BY <2>3
  <2>8. \A a, b, x \in Nat :
          a > 0 /\ b > 0 => a * b \in Nat /\ a * b > 0 /\ a <= a * b /\ (x <= b => x <= a * b)
    OBVIOUS
  <2>9. iter[s] \in Nat /\ iter[s] > 0 /\ g[Any(s)] <= iter[s]
    BY <2>5, <2>6, <2>7, <2>8
  <2>10. ASSUME NEW x \in s PROVE g[x] <= iter[s]
    <3>1. CASE x = Any(s)
      BY <2>9, <3>1
    <3>2. CASE x # Any(s)
      <4>1. g[x] <= iter[t] /\ g[x] \in Nat
        BY <2>5, <3>2
      <4> QED BY <2>5, <2>6, <2>7, <2>8, <4>1
    <3> QED BY <3>1, <3>2
  <2>11. Good(s)
    BY <2>9, <2>10
  <2> QED BY <2>11
<1>8. S \in SUBSET S /\ S \notin Bad
  BY <1>7
<1>9. Good(S)
  BY <1>8
<1> QED BY <1>4, <1>9 DEF all

-----------------------------------------------------------------------------
(* Least and greatest numbers. *)

(* A finite set of numbers has a least and a greatest one.                 *)
LEMMA Extremes ==
  ASSUME NEW T, IsFiniteSet(T), T \subseteq Int, T # {}
  PROVE  /\ Min(T) \in T /\ \A k \in T : Min(T) <= k
         /\ Max(T) \in T /\ \A k \in T : k <= Max(T)
<1> DEFINE Has(U) == /\ \E m \in U : \A k \in U : m <= k
                     /\ \E m \in U : \A k \in U : m >= k
           Bad == {U \in SUBSET T : U # {} /\ ~Has(U)}
<1>1. ASSUME Bad # {} PROVE FALSE
  <2>1. PICK U \in Bad : \A V \in SUBSET U : V # U => V \notin Bad
    <3>1. Bad \in SUBSET SUBSET T
      OBVIOUS
    <3> HIDE DEF Bad
    <3> QED BY <1>1, <3>1, SmallestSubset
  <2>2. PICK x \in U : TRUE
    BY <2>1
  <2>3. U \subseteq Int /\ x \in Int
    BY <2>1, <2>2
  <2>4. CASE U \ {x} = {}
    <3>1. \A k \in U : k = x
      BY <2>4
    <3>2. Has(U)
      BY <2>2, <2>3, <3>1
    <3> QED BY <2>1, <3>2
  <2>5. CASE U \ {x} # {}
    <3>1. Has(U \ {x})
      BY <2>1, <2>2, <2>5
    <3>2. PICK m \in U \ {x} : \A k \in U \ {x} : m <= k
      BY <3>1
    <3>3. PICK n \in U \ {x} : \A k \in U \ {x} : n >= k
      BY <3>1
    <3>4. \E y \in U : \A k \in U : y <= k
      <4>1. CASE m <= x
        BY <3>2, <4>1
      <4>2. CASE ~(m <= x)
        <5>1. \A k \in U : x <= k
          BY <2>3, <3>2, <4>2
        <5> QED BY <2>2, <5>1
      <4> QED BY <4>1, <4>2
    <3>5. \E y \in U : \A k \in U : y >= k
      <4>1. CASE n >= x
        BY <3>3, <4>1
      <4>2. CASE ~(n >= x)
        <5>1. \A k \in U : x >= k
          BY <2>3, <3>3, <4>2
        <5> QED BY <2>2, <5>1
      <4> QED BY <4>1, <4>2
    <3> QED BY <2>1, <3>4, <3>5
  <2> QED BY <2>4, <2>5
<1>2. Has(T)
  BY <1>1
<1>3. Min(T) \in T /\ \A k \in T : Min(T) <= k
  BY <1>2 DEF Min
<1>4. Max(T) \in T /\ \A k \in T : Max(T) >= k
  BY <1>2 DEF Max
<1>5. \A k \in T : k <= Max(T)
  BY <1>4
<1> QED BY <1>3, <1>4, <1>5

(* A function on a finite set has finitely many values.                    *)
LEMMA FiniteImage ==
  ASSUME NEW S, IsFiniteSet(S), NEW f, DOMAIN f = S, f = [s \in S |-> f[s]]
  PROVE  IsFiniteSet({f[s] : s \in S})
<1> DEFINE T == {f[s] : s \in S}
<1>1. f \in Surjection(S, T)
  BY DEF Surjection
<1> HIDE DEF T
<1>2. IsFiniteSet(T)
  BY <1>1, FS_Surjection
<1> QED BY <1>2 DEF T

-----------------------------------------------------------------------------
(* Selection and mean. *)

\* What the store holds of every source that was heard.
SourcesSound ==
  /\ DOMAIN sources \subseteq Sources
  /\ \A s \in DOMAIN sources :
       /\ sources[s].stamp \in Int /\ sources[s].disp \in Dispersions[s]
       /\ sources[s].at \in 0..now

(* Sources of the store are finitely many, with whole stamps and root      *)
(* dispersions that are not zero.                                          *)
LEMMA SourceFacts ==
  ASSUME SourcesSound, NEW S \in SUBSET DOMAIN sources
  PROVE  /\ IsFiniteSet(S) /\ Cardinality(S) \in Nat
         /\ Cardinality(S) = 0 <=> S = {}
         /\ \A s \in S : sources[s].stamp \in Int /\ sources[s].disp \in Nat \ {0}
<1>1. S \subseteq Sources /\ IsFiniteSet(Sources)
  BY TimeSyncAssumption DEF SourcesSound
<1>2. IsFiniteSet(S)
  BY <1>1, FS_Subset
<1>3. \A s \in S : sources[s].stamp \in Int /\ sources[s].disp \in Nat \ {0}
  BY <1>1, TimeSyncAssumption DEF SourcesSound
<1> QED BY <1>2, <1>3, FS_EmptySet, FS_CardinalityType

(* The mean of sources, weighed by the inverse of their dispersions, lies  *)
(* between any bounds on their stamps: no divisor is zero, and no weight   *)
(* takes it out of the range (the end of SelectBestTime).                  *)
LEMMA MeanBetween ==
  ASSUME SourcesSound, NEW S \in SUBSET DOMAIN sources, S # {},
         NEW lo \in Int, NEW hi \in Int,
         \A s \in S : lo <= sources[s].stamp /\ sources[s].stamp <= hi
  PROVE  /\ WeightedTime(S) \in Int
         /\ lo <= WeightedTime(S) /\ WeightedTime(S) <= hi
<1> DEFINE disp == [s \in S |-> sources[s].disp]
           all == FoldFunction(LAMBDA d, product : d * product, 1, disp)
           weight == [s \in S |-> all \div sources[s].disp]
           weighted == [s \in S |-> sources[s].stamp * weight[s]]
<1>1. IsFiniteSet(S) /\ \A s \in S : sources[s].stamp \in Int /\ sources[s].disp \in Nat \ {0}
  BY SourceFacts
<1>2. disp \in [S -> Nat \ {0}]
  BY <1>1
<1>3. all \in Nat /\ all > 0 /\ \A s \in S : disp[s] <= all
  <2> HIDE DEF disp
  <2> QED BY <1>1, <1>2, ProductBounds
<1>4. \A s \in S : disp[s] = sources[s].disp
  OBVIOUS
<1>5. WeightedTime(S) = SumFunction(weighted) \div SumFunction(weight)
  BY DEF WeightedTime
<1> HIDE DEF all, disp
<1>6. \A s \in S : weight[s] \in Nat /\ weight[s] > 0
  <2>1. \A a, d \in Nat : d > 0 /\ d <= a => a \div d \in Nat /\ a \div d > 0
    OBVIOUS
  <2> QED BY <1>1, <1>3, <1>4, <2>1
<1>7. weight \in [S -> Nat \ {0}]
  BY <1>6
<1>8. \A s \in S : weighted[s] = sources[s].stamp * weight[s]
  OBVIOUS
<1> HIDE DEF weight
<1>9. weighted \in [S -> Int]
  BY <1>1, <1>6
<1> HIDE DEF weighted
<1>10. \A s \in S : lo * weight[s] <= weighted[s] /\ weighted[s] <= hi * weight[s]
  <2>1. \A x, y, w \in Int : w > 0 /\ x <= y => x * w <= y * w
    OBVIOUS
  <2> QED BY <1>1, <1>6, <1>8, <2>1
<1>11. /\ SumFunction(weight) \in Nat /\ SumFunction(weight) > 0
       /\ SumFunction(weighted) \in Int
       /\ lo * SumFunction(weight) <= SumFunction(weighted)
       /\ SumFunction(weighted) <= hi * SumFunction(weight)
  BY <1>1, <1>7, <1>9, <1>10, SumsCompare
<1>12. \A n \in Int, d \in Nat :
         d > 0 /\ lo * d <= n /\ n <= hi * d
           => n \div d \in Int /\ lo <= n \div d /\ n \div d <= hi
  OBVIOUS
<1> QED BY <1>5, <1>11, <1>12


(* The stamps of sources of the store have a least and a greatest, and     *)
(* Span is how far these are apart.                                        *)
LEMMA SpanFacts ==
  ASSUME SourcesSound, NEW S \in SUBSET DOMAIN sources, S # {}
  PROVE  \E lo, hi \in S :
           /\ \A s \in S : /\ sources[lo].stamp <= sources[s].stamp
                           /\ sources[s].stamp <= sources[hi].stamp
           /\ Span(stamps(S)) = sources[hi].stamp - sources[lo].stamp
<1> DEFINE f == stamps(S)
           R == {f[s] : s \in S}
<1>1. IsFiniteSet(S) /\ \A s \in S : sources[s].stamp \in Int
  BY SourceFacts
<1>2. DOMAIN f = S /\ f = [s \in S |-> f[s]] /\ \A s \in S : f[s] = sources[s].stamp
  BY DEF stamps
<1>3. Span(f) = Max(R) - Min(R)
  BY <1>2 DEF Span
<1> HIDE DEF f
<1>4. IsFiniteSet(R)
  BY <1>1, <1>2, FiniteImage
<1>5. R \subseteq Int /\ R # {}
  BY <1>1, <1>2
<1>6. /\ Min(R) \in R /\ \A k \in R : Min(R) <= k
      /\ Max(R) \in R /\ \A k \in R : k <= Max(R)
  <2> HIDE DEF R
  <2> QED BY <1>4, <1>5, Extremes
<1>7. PICK lo \in S : Min(R) = f[lo]
  BY <1>6
<1>8. PICK hi \in S : Max(R) = f[hi]
  BY <1>6
<1>9. \A s \in S : Min(R) <= f[s] /\ f[s] <= Max(R)
  BY <1>6
<1> HIDE DEF R
<1>10. Span(stamps(S)) = sources[hi].stamp - sources[lo].stamp
  BY <1>2, <1>3, <1>7, <1>8 DEF f
<1> QED BY <1>2, <1>7, <1>8, <1>9, <1>10

\* The sources whose stamps lie in the window that begins at v.
Window(S, tolerance, v) ==
  {s \in S : v <= sources[s].stamp /\ sources[s].stamp - v <= tolerance}

(* findAgreeingSubset returns a window that begins at one of the stamps,   *)
(* and none that does is larger.                                           *)
LEMMA AgreeingWindow ==
  ASSUME SourcesSound, NEW S \in SUBSET DOMAIN sources, S # {}, NEW tolerance \in Int
  PROVE  \E w \in S :
           /\ findAgreeingSubset(S, tolerance) = Window(S, tolerance, sources[w].stamp)
           /\ \A s \in S : Cardinality(Window(S, tolerance, sources[s].stamp))
                             <= Cardinality(findAgreeingSubset(S, tolerance))
<1> DEFINE starts == {sources[s].stamp : s \in S}
           Size(v) == Cardinality(Window(S, tolerance, v))
           sizes == {Size(v) : v \in starts}
           largest == {v \in starts : Size(v) = Max(sizes)}
<1>1. IsFiniteSet(S) /\ \A s \in S : sources[s].stamp \in Int
  BY SourceFacts
<1>2. findAgreeingSubset(S, tolerance) = Window(S, tolerance, Min(largest))
  BY DEF findAgreeingSubset, Window
<1>3. starts \subseteq Int /\ starts # {}
  BY <1>1
<1>4. IsFiniteSet(starts)
  <2> DEFINE f == [s \in S |-> sources[s].stamp]
  <2>1. DOMAIN f = S /\ f = [s \in S |-> f[s]] /\ {f[s] : s \in S} = starts
    OBVIOUS
  <2> HIDE DEF f, starts
  <2> QED BY <1>1, <2>1, FiniteImage
<1>5. \A s \in S : sources[s].stamp \in starts
  OBVIOUS
<1>6. \A v \in starts : \E w \in S : v = sources[w].stamp
  OBVIOUS
<1> HIDE DEF starts
<1>7. \A v : Size(v) \in Nat
  <2> SUFFICES ASSUME NEW v PROVE Size(v) \in Nat
    OBVIOUS
  <2>1. Window(S, tolerance, v) \in SUBSET DOMAIN sources
    BY DEF Window
  <2> QED BY <2>1, SourceFacts
<1> HIDE DEF Size
<1>8. IsFiniteSet(sizes)
  <2> DEFINE f == [v \in starts |-> Size(v)]
  <2>1. DOMAIN f = starts /\ f = [v \in starts |-> f[v]] /\ {f[v] : v \in starts} = sizes
    OBVIOUS
  <2> HIDE DEF f, sizes
  <2> QED BY <1>4, <2>1, FiniteImage
<1>9. sizes \subseteq Int /\ sizes # {}
  <2>1. \A v \in starts : Size(v) \in Int /\ Size(v) \in sizes
    BY <1>7
  <2>2. sizes \subseteq Int
    BY <2>1
  <2> QED BY <1>3, <2>1, <2>2
<1>10. Max(sizes) \in sizes /\ \A k \in sizes : k <= Max(sizes)
  <2> HIDE DEF sizes
  <2> QED BY <1>8, <1>9, Extremes
<1>11. \A v \in starts : Size(v) <= Max(sizes)
  BY <1>10
<1>12. \E v \in starts : Size(v) = Max(sizes)
  BY <1>10
<1> HIDE DEF sizes
<1>13. largest \subseteq starts /\ largest # {}
  BY <1>12
<1>14. Min(largest) \in largest
  <2>1. IsFiniteSet(largest) /\ largest \subseteq Int
    BY <1>3, <1>4, <1>13, FS_Subset
  <2> HIDE DEF largest
  <2> QED BY <1>13, <2>1, Extremes
<1>15. Min(largest) \in starts /\ Size(Min(largest)) = Max(sizes)
  BY <1>14
<1> HIDE DEF largest
<1>16. PICK w \in S : Min(largest) = sources[w].stamp
  BY <1>6, <1>15
<1>17. \A s \in S : Size(sources[s].stamp) <= Size(Min(largest))
  BY <1>5, <1>11, <1>15
<1> QED BY <1>2, <1>16, <1>17 DEF Size

(* findAgreeingSubset finds the most sources that agree, however many      *)
(* there are.                                                              *)
LEMMA AgreementLargest ==
  ASSUME SourcesSound, NEW S \in SUBSET DOMAIN sources, S # {},
         NEW T \in SUBSET S, T # {}, NEW tolerance \in Int,
         Span(stamps(T)) <= tolerance
  PROVE  Cardinality(T) <= Cardinality(findAgreeingSubset(S, tolerance))
<1>1. PICK lo, hi \in T :
        /\ \A s \in T : /\ sources[lo].stamp <= sources[s].stamp
                        /\ sources[s].stamp <= sources[hi].stamp
        /\ Span(stamps(T)) = sources[hi].stamp - sources[lo].stamp
  <2>1. T \in SUBSET DOMAIN sources
    OBVIOUS
  <2> QED BY <2>1, SpanFacts
<1>2. \A s \in S : sources[s].stamp \in Int
  BY SourceFacts
<1> DEFINE V == Window(S, tolerance, sources[lo].stamp)
<1>3. T \subseteq V
  <2> SUFFICES ASSUME NEW s \in T
               PROVE  /\ sources[lo].stamp <= sources[s].stamp
                      /\ sources[s].stamp - sources[lo].stamp <= tolerance
    BY DEF Window
  <2>1. sources[s].stamp \in Int /\ sources[lo].stamp \in Int /\ sources[hi].stamp \in Int
    BY <1>2
  <2>2. sources[hi].stamp - sources[lo].stamp <= tolerance
    BY <1>1
  <2>3. sources[lo].stamp <= sources[s].stamp /\ sources[s].stamp <= sources[hi].stamp
    BY <1>1
  <2> QED BY <2>1, <2>2, <2>3
<1>4. V \in SUBSET DOMAIN sources
  BY DEF Window
<1> HIDE DEF V
<1>5. IsFiniteSet(V) /\ Cardinality(V) \in Nat
  BY <1>4, SourceFacts
<1>6. Cardinality(T) <= Cardinality(V) /\ Cardinality(T) \in Nat
  BY <1>3, <1>5, FS_Subset, FS_CardinalityType
<1>7. Cardinality(V) <= Cardinality(findAgreeingSubset(S, tolerance))
  BY AgreeingWindow DEF V
<1>8. Cardinality(findAgreeingSubset(S, tolerance)) \in Nat
  <2>1. findAgreeingSubset(S, tolerance) \in SUBSET DOMAIN sources
    <3>1. PICK w \in S :
            findAgreeingSubset(S, tolerance) = Window(S, tolerance, sources[w].stamp)
      BY AgreeingWindow
    <3>2. Window(S, tolerance, sources[w].stamp) \subseteq S
      BY DEF Window
    <3> QED BY <3>1, <3>2
  <2> QED BY <2>1, SourceFacts
<1> QED BY <1>5, <1>6, <1>7, <1>8

(* Sources that SelectBestTime averages are sources it was given, at least *)
(* MinSources of them, and any two are within MaxSpread of each other.     *)
LEMMA SelectedFacts ==
  ASSUME SourcesSound, NEW S \in SUBSET DOMAIN sources, Selected(S) # {}
  PROVE  /\ Selected(S) \subseteq S
         /\ Cardinality(Selected(S)) >= MinSources
         /\ \A s, t \in Selected(S) : Near(sources[s].stamp, sources[t].stamp)
<1> DEFINE valid == Usable(S)
           tolerance == MaxSpread \div 2
           agreeing == findAgreeingSubset(valid, tolerance)
<1>1. /\ MinSources \in Nat \ {0} /\ MaxSpread \in Nat
      /\ tolerance \in Nat /\ tolerance <= MaxSpread
  BY TimeSyncAssumption
<1>2. valid \subseteq S /\ valid \in SUBSET DOMAIN sources
  BY DEF Usable
<1> HIDE DEF valid
<1>3. /\ Cardinality(valid) \in Nat /\ (Cardinality(valid) = 0 <=> valid = {})
      /\ \A s \in valid : sources[s].stamp \in Int
  BY <1>2, SourceFacts
<1>4. Cardinality(valid) >= MinSources /\ valid # {}
  BY <1>1, <1>3 DEF Selected, valid
<1>5. CASE Span(stamps(valid)) <= MaxSpread
  <2>1. Selected(S) = valid
    BY <1>5 DEF Selected, valid
  <2>2. PICK lo, hi \in valid :
          /\ \A s \in valid : /\ sources[lo].stamp <= sources[s].stamp
                              /\ sources[s].stamp <= sources[hi].stamp
          /\ Span(stamps(valid)) = sources[hi].stamp - sources[lo].stamp
    BY <1>2, <1>4, SpanFacts
  <2>3. ASSUME NEW s \in valid, NEW t \in valid
        PROVE  Near(sources[s].stamp, sources[t].stamp)
    <3>1. /\ sources[s].stamp \in Int /\ sources[t].stamp \in Int
          /\ sources[lo].stamp \in Int /\ sources[hi].stamp \in Int
      BY <1>3
    <3>2. sources[hi].stamp - sources[lo].stamp <= MaxSpread
      BY <1>5, <2>2
    <3>3. /\ sources[lo].stamp <= sources[s].stamp /\ sources[s].stamp <= sources[hi].stamp
          /\ sources[lo].stamp <= sources[t].stamp /\ sources[t].stamp <= sources[hi].stamp
      BY <2>2
    <3> QED BY <1>1, <3>1, <3>2, <3>3 DEF Near
  <2> QED BY <1>2, <1>4, <2>1, <2>3
<1>6. CASE ~(Span(stamps(valid)) <= MaxSpread)
  <2>1. Selected(S) = agreeing /\ ~(Cardinality(agreeing) < MinSources)
    BY <1>6 DEF Selected, valid
  <2>2. PICK w \in valid : agreeing = Window(valid, tolerance, sources[w].stamp)
    BY <1>1, <1>2, <1>4, AgreeingWindow
  <2>3. agreeing \subseteq valid
    BY <2>2 DEF Window
  <2> HIDE DEF agreeing
  <2>4. Cardinality(agreeing) \in Nat
    <3>1. agreeing \in SUBSET DOMAIN sources
      BY <1>2, <2>3
    <3> QED BY <3>1, SourceFacts
  <2>5. ASSUME NEW s \in agreeing, NEW t \in agreeing
        PROVE  Near(sources[s].stamp, sources[t].stamp)
    <3>1. sources[s].stamp \in Int /\ sources[t].stamp \in Int /\ sources[w].stamp \in Int
      BY <1>3, <2>3
    <3>2. /\ sources[w].stamp <= sources[s].stamp
          /\ sources[s].stamp - sources[w].stamp <= tolerance
          /\ sources[w].stamp <= sources[t].stamp
          /\ sources[t].stamp - sources[w].stamp <= tolerance
      BY <2>2 DEF Window
    <3> QED BY <1>1, <3>1, <3>2 DEF Near
  <2> QED BY <1>1, <1>2, <2>1, <2>3, <2>4, <2>5
<1> QED BY <1>5, <1>6

(* With fewer faulty sources than MinSources, an honest one is among those *)
(* that are averaged, and all of them and their mean are near it.          *)
LEMMA SoundAgreed == SourcesSound => AgreedNearHonest
<1> SUFFICES ASSUME SourcesSound, Cardinality(Faulty) < MinSources,
                    NEW S \in SUBSET DOMAIN sources, Selected(S) # {}
             PROVE  \E h \in Selected(S) \ Faulty :
                      /\ \A s \in Selected(S) : Near(sources[s].stamp, sources[h].stamp)
                      /\ Near(WeightedTime(Selected(S)), sources[h].stamp)
  BY DEF AgreedNearHonest
<1> DEFINE T == Selected(S)
<1>1. /\ T \subseteq S /\ Cardinality(T) >= MinSources
      /\ \A s, t \in T : Near(sources[s].stamp, sources[t].stamp)
  BY SelectedFacts
<1>2. T # {} /\ T \in SUBSET DOMAIN sources
  BY <1>1
<1> HIDE DEF T
<1>3. Cardinality(T) \in Nat /\ \A s \in T : sources[s].stamp \in Int
  BY <1>2, SourceFacts
<1>4. PICK h \in T \ Faulty : TRUE
  <2>1. IsFiniteSet(Faulty)
    BY TimeSyncAssumption, FS_Subset
  <2>2. Cardinality(Faulty) \in Nat /\ MinSources \in Nat
    BY <2>1, FS_CardinalityType, TimeSyncAssumption
  <2>3. ASSUME T \in SUBSET Faulty PROVE FALSE
    <3>1. Cardinality(T) <= Cardinality(Faulty)
      BY <2>1, <2>3, FS_Subset
    <3> QED BY <1>1, <1>3, <2>2, <3>1
  <2> QED BY <2>3
<1>5. \A s \in T : Near(sources[s].stamp, sources[h].stamp)
  BY <1>1, <1>4
<1>6. Near(WeightedTime(T), sources[h].stamp)
  <2> DEFINE lo == sources[h].stamp - MaxSpread
             hi == sources[h].stamp + MaxSpread
  <2>1. sources[h].stamp \in Int /\ MaxSpread \in Nat
    BY <1>3, <1>4, TimeSyncAssumption
  <2>2. lo \in Int /\ hi \in Int
    BY <2>1
  <2>3. \A s \in T : lo <= sources[s].stamp /\ sources[s].stamp <= hi
    BY <1>3, <1>5, <2>1 DEF Near
  <2>4. WeightedTime(T) \in Int /\ lo <= WeightedTime(T) /\ WeightedTime(T) <= hi
    <3> HIDE DEF lo, hi
    <3> QED BY <1>2, <2>2, <2>3, MeanBetween
  <2> QED BY <2>1, <2>4 DEF Near
<1> QED BY <1>4, <1>5, <1>6 DEF T

-----------------------------------------------------------------------------
(* The poll loop and the command. *)

Adjustments == [method : {"none", "step", "slew"}, offset : Int, absolute : Int]

\* What the poll loop and the command work with: whoever averages has
\* something to average.
ProcsSound ==
  /\ pc \in [Procs -> {"idle", "select", "average", "decide", "apply"}]
  /\ held \in [Procs -> SUBSET DOMAIN sources]
  /\ offset \in [Procs -> Int]
  /\ adj \in [Procs -> Adjustments]
  /\ \A p \in Procs : /\ pc[p] = "idle" => held[p] = {}
                      /\ pc[p] = "average" => held[p] # {}

SyncSound ==
  /\ now \in 0..MaxTime /\ skew \in Int /\ slewing \in Int
  /\ SourcesSound /\ ProcsSound
  /\ status \in [synced : BOOLEAN, error : {"none", "selection", "adjustment"}]

(* The service starts with no sources and nobody at work.                  *)
LEMMA InitSyncSound == Init => SyncSound
<1> SUFFICES ASSUME Init PROVE SyncSound
  OBVIOUS
<1>1. now \in 0..MaxTime /\ skew \in Int /\ slewing \in Int
  BY TimeSyncAssumption DEF Init
<1>2. SourcesSound
  BY DEF Init, SourcesSound
<1>3. ProcsSound
  <2>1. NoAdjustment \in Adjustments
    BY DEF NoAdjustment, Adjustments
  <2>2. pc \in [Procs -> {"idle", "select", "average", "decide", "apply"}]
        /\ \A p \in Procs : pc[p] = "idle"
    BY DEF Init
  <2>3. held \in [Procs -> SUBSET DOMAIN sources] /\ \A p \in Procs : held[p] = {}
    BY DEF Init
  <2>4. offset \in [Procs -> Int] /\ adj \in [Procs -> Adjustments]
    BY <2>1 DEF Init
  <2> QED BY <2>2, <2>3, <2>4 DEF ProcsSound
<1>4. status \in [synced : BOOLEAN, error : {"none", "selection", "adjustment"}]
  BY DEF Init
<1> QED BY <1>1, <1>2, <1>3, <1>4 DEF SyncSound

(* What a process decides on is an adjustment (CalculateAdjustment).       *)
LEMMA AdjustmentType ==
  ASSUME SyncSound, NEW off \in Int, NEW step, NEW slew, NEW backward
  PROVE  CalculateAdjustment(off, step, slew, backward) \in Adjustments
<1>1. wall + off \in Int
  <2>1. now \in Int /\ skew \in Int
    BY DEF SyncSound
  <2> QED BY <2>1 DEF wall
<1> QED BY <1>1 DEF CalculateAdjustment, Adjustments

(* A message of a source changes that source, and takes none away.         *)
LEMMA MessageKeepsSound ==
  ASSUME SyncSound, NEW s \in Sources, ProcessMessage(s)
  PROVE  SyncSound'
<1>1. PICK e \in (IF s \in Faulty THEN Errors ELSE {0}), d \in Dispersions[s] :
        Add(s, [stamp |-> now + e, disp |-> d, at |-> now])
  BY DEF ProcessMessage
<1>2. e \in Int /\ now \in Nat /\ now \in 0..MaxTime
  BY TimeSyncAssumption DEF SyncSound
<1> DEFINE src == [stamp |-> now + e, disp |-> d, at |-> now]
<1>3. src.stamp \in Int /\ src.disp = d /\ src.at \in 0..now
  BY <1>2
<1>4. /\ DOMAIN sources' = DOMAIN sources \cup {s}
      /\ sources'[s] = src
      /\ \A t \in DOMAIN sources : t # s => sources'[t] = sources[t]
  BY <1>1 DEF Add
<1>5. UNCHANGED <<now, skew, slewing, pc, held, offset, adj, status>>
  BY DEF ProcessMessage
<1> HIDE DEF src
<1>6. SourcesSound'
  <2>1. ASSUME NEW t \in DOMAIN sources'
        PROVE  /\ sources'[t].stamp \in Int /\ sources'[t].disp \in Dispersions[t]
               /\ sources'[t].at \in 0..now
    <3>1. CASE t = s
      BY <1>3, <1>4, <3>1
    <3>2. CASE t # s
      BY <1>4, <2>1, <3>2 DEF SyncSound, SourcesSound
    <3> QED BY <3>1, <3>2
  <2>2. DOMAIN sources' \subseteq Sources
    BY <1>4 DEF SyncSound, SourcesSound
  <2> QED BY <1>5, <2>1, <2>2 DEF SourcesSound
<1>7. ProcsSound'
  <2>1. held' \in [Procs -> SUBSET DOMAIN sources']
    BY <1>4, <1>5 DEF SyncSound, ProcsSound
  <2> QED BY <1>5, <2>1 DEF SyncSound, ProcsSound
<1> QED BY <1>5, <1>6, <1>7 DEF SyncSound

(* A process that ends, having applied or failed, has dropped what it had. *)
LEMMA DoneKeepsSound ==
  ASSUME SyncSound, NEW p \in Procs, Done(p), UNCHANGED sources
  PROVE  ProcsSound'
<1>1. NoAdjustment \in Adjustments
  BY DEF NoAdjustment, Adjustments
<1>2. /\ pc' \in [Procs -> {"idle", "select", "average", "decide", "apply"}]
      /\ pc'[p] = "idle" /\ \A q \in Procs : q # p => pc'[q] = pc[q]
  BY DEF Done, SyncSound, ProcsSound
<1>3. /\ held' \in [Procs -> SUBSET DOMAIN sources']
      /\ held'[p] = {} /\ \A q \in Procs : q # p => held'[q] = held[q]
  BY DEF Done, SyncSound, ProcsSound
<1>4. offset' \in [Procs -> Int] /\ adj' \in [Procs -> Adjustments]
  BY <1>1 DEF Done, SyncSound, ProcsSound
<1> QED BY <1>2, <1>3, <1>4 DEF SyncSound, ProcsSound

(* Every step of the sources, the clock, the poll loop and the command     *)
(* keeps the types, and never leads to a mean of no sources.               *)
LEMMA StepSyncSound == SyncSound /\ [Next]_vars => SyncSound'
<1> SUFFICES ASSUME SyncSound, [Next]_vars PROVE SyncSound'
  OBVIOUS
<1> DEFINE Statuses == [synced : BOOLEAN, error : {"none", "selection", "adjustment"}]
           Places == {"idle", "select", "average", "decide", "apply"}
<1>1. /\ now \in 0..MaxTime /\ now \in Int /\ skew \in Int /\ slewing \in Int
      /\ MaxTime \in Nat /\ status \in Statuses
  BY TimeSyncAssumption DEF SyncSound
<1>2. ASSUME UNCHANGED <<now, sources>> PROVE SourcesSound'
  BY <1>2 DEF SyncSound, SourcesSound
<1>3. CASE Tick
  <2>1. now' = now + 1 /\ now' \in 0..MaxTime
    BY <1>1, <1>3 DEF Tick
  <2>2. skew' \in Int /\ slewing' \in Int
    BY <1>1, <1>3 DEF Tick
  <2>3. SourcesSound'
    <3>1. \A s \in DOMAIN sources : sources[s].at \in 0..now'
      BY <1>1, <2>1 DEF SyncSound, SourcesSound
    <3> QED BY <1>3, <3>1 DEF Tick, SyncSound, SourcesSound
  <2>4. ProcsSound'
    BY <1>3 DEF Tick, SyncSound, ProcsSound
  <2> QED BY <1>3, <2>1, <2>2, <2>3, <2>4 DEF Tick, SyncSound
<1>4. ASSUME NEW s \in Sources, ProcessMessage(s) PROVE SyncSound'
  BY <1>4, MessageKeepsSound
<1>5. ASSUME NEW p \in Procs, Begin(p) PROVE SyncSound'
  <2>1. UNCHANGED <<now, skew, slewing, sources, offset, adj, status>>
    BY <1>5 DEF Begin
  <2>2. /\ pc' \in [Procs -> Places] /\ pc'[p] = "select"
        /\ \A q \in Procs : q # p => pc'[q] = pc[q]
    BY <1>5 DEF Begin, SyncSound, ProcsSound
  <2>3. GetValidSources \in SUBSET DOMAIN sources
    BY DEF GetValidSources
  <2>4. /\ held' \in [Procs -> SUBSET DOMAIN sources]
        /\ \A q \in Procs : q # p => held'[q] = held[q]
    BY <1>5, <2>3 DEF Begin, SyncSound, ProcsSound
  <2>5. ProcsSound'
    BY <2>1, <2>2, <2>4 DEF SyncSound, ProcsSound
  <2> QED BY <1>2, <2>1, <2>5 DEF SyncSound
<1>6. ASSUME NEW p \in Procs, SelectFails(p) PROVE SyncSound'
  <2>1. UNCHANGED <<now, skew, slewing, sources>> /\ ProcsSound'
    BY <1>6, DoneKeepsSound DEF SelectFails
  <2>2. status' \in Statuses
    BY <1>1, <1>6 DEF SelectFails
  <2> QED BY <1>2, <2>1, <2>2 DEF SyncSound
<1>7. ASSUME NEW p \in Procs, Select(p) PROVE SyncSound'
  <2>1. UNCHANGED <<now, skew, slewing, sources, offset, adj, status>>
    BY <1>7 DEF Select
  <2>2. held[p] \in SUBSET DOMAIN sources /\ Selected(held[p]) # {}
    BY <1>7 DEF Select, SyncSound, ProcsSound
  <2>3. Selected(held[p]) \in SUBSET DOMAIN sources
    BY <2>2, SelectedFacts DEF SyncSound
  <2>4. /\ pc' \in [Procs -> Places] /\ pc'[p] = "average"
        /\ \A q \in Procs : q # p => pc'[q] = pc[q]
    BY <1>7 DEF Select, SyncSound, ProcsSound
  <2>5. /\ held' \in [Procs -> SUBSET DOMAIN sources] /\ held'[p] # {}
        /\ \A q \in Procs : q # p => held'[q] = held[q]
    BY <1>7, <2>2, <2>3 DEF Select, SyncSound, ProcsSound
  <2>6. ProcsSound'
    BY <2>1, <2>4, <2>5 DEF SyncSound, ProcsSound
  <2> QED BY <1>2, <2>1, <2>6 DEF SyncSound
<1>8. ASSUME NEW p \in Procs, Average(p) PROVE SyncSound'
  <2>1. UNCHANGED <<now, skew, slewing, sources, held, adj, status>>
    BY <1>8 DEF Average
  <2>2. held[p] \in SUBSET DOMAIN sources /\ held[p] # {}
    BY <1>8 DEF Average, SyncSound, ProcsSound
  <2>3. PICK lo, hi \in held[p] :
          \A s \in held[p] : /\ sources[lo].stamp <= sources[s].stamp
                             /\ sources[s].stamp <= sources[hi].stamp
    BY <2>2, SpanFacts DEF SyncSound
  <2>4. sources[lo].stamp \in Int /\ sources[hi].stamp \in Int
    BY <2>2, SourceFacts DEF SyncSound
  <2>5. WeightedTime(held[p]) \in Int
    BY <2>2, <2>3, <2>4, MeanBetween DEF SyncSound
  <2>6. WeightedTime(held[p]) - wall \in Int
    BY <1>1, <2>5 DEF wall
  <2>7. offset' \in [Procs -> Int]
    BY <1>8, <2>6 DEF Average, SyncSound, ProcsSound
  <2>8. /\ pc' \in [Procs -> Places] /\ pc'[p] = "decide"
        /\ \A q \in Procs : q # p => pc'[q] = pc[q]
    BY <1>8 DEF Average, SyncSound, ProcsSound
  <2>9. ProcsSound'
    BY <2>1, <2>7, <2>8 DEF SyncSound, ProcsSound
  <2> QED BY <1>2, <2>1, <2>9 DEF SyncSound
<1>9. ASSUME NEW p \in Procs, NEW adjustment \in Adjustments, Decide(p, adjustment)
      PROVE  SyncSound'
  <2>1. UNCHANGED <<now, skew, slewing, sources, held, offset>>
    BY <1>9 DEF Decide
  <2>2. adj' \in [Procs -> Adjustments]
    BY <1>9 DEF Decide, SyncSound, ProcsSound
  <2>3. /\ pc' \in [Procs -> Places] /\ pc'[p] = "apply"
        /\ \A q \in Procs : q # p => pc'[q] = pc[q]
    BY <1>9 DEF Decide, SyncSound, ProcsSound
  <2>4. status' \in Statuses
    BY <1>9 DEF Decide
  <2>5. ProcsSound'
    BY <2>1, <2>2, <2>3 DEF SyncSound, ProcsSound
  <2> QED BY <1>2, <2>1, <2>4, <2>5 DEF SyncSound
<1>10. /\ offset["poll"] \in Int /\ offset["force"] \in Int
       /\ "poll" \in Procs /\ "force" \in Procs
  BY DEF SyncSound, ProcsSound, Procs
<1>11. CASE PollDecides
  BY <1>9, <1>10, <1>11, AdjustmentType DEF PollDecides
<1>12. ASSUME NEW backward \in ForceBackward, ForceDecides(backward) PROVE SyncSound'
  BY <1>9, <1>10, <1>12, AdjustmentType DEF ForceDecides
<1>13. ASSUME NEW p \in Procs, ApplyAdjustment(p) PROVE SyncSound'
  <2>1. UNCHANGED <<now, sources, status>> /\ ProcsSound'
    BY <1>13, DoneKeepsSound DEF ApplyAdjustment
  <2>2. /\ adj[p].method \in {"none", "step", "slew"}
        /\ adj[p].offset \in Int /\ adj[p].absolute \in Int
    BY DEF SyncSound, ProcsSound, Adjustments
  <2>3. skew' \in Int
    BY <1>1, <1>13, <2>2 DEF ApplyAdjustment
  <2>4. slewing' \in Int
    BY <1>1, <1>13, <2>2 DEF ApplyAdjustment
  <2> QED BY <1>2, <2>1, <2>3, <2>4 DEF SyncSound
<1>14. ASSUME NEW p \in Procs, ApplyFails(p) PROVE SyncSound'
  <2>1. UNCHANGED <<now, skew, slewing, sources>> /\ ProcsSound'
    BY <1>14, DoneKeepsSound DEF ApplyFails
  <2>2. status' \in Statuses
    BY <1>1, <1>14 DEF ApplyFails
  <2> QED BY <1>2, <2>1, <2>2 DEF SyncSound
<1>15. CASE UNCHANGED vars
  BY <1>15 DEF vars, SyncSound, SourcesSound, ProcsSound
<1> QED BY <1>3, <1>4, <1>5, <1>6, <1>7, <1>8, <1>11, <1>12, <1>13, <1>14, <1>15 DEF Next

(* The service keeps its types in every behaviour.                         *)
LEMMA SyncAlwaysSound == Spec => []SyncSound
BY InitSyncSound, StepSyncSound, PTL DEF Spec

(* No source was heard in the future, and the poll loop and the command    *)
(* hold sources of the store while they are at work, with offsets that are *)
(* numbers: the mean is never one of no sources (TimeSourceStore,          *)
(* evaluateAndAdjust, ForceUpdate).                                        *)
THEOREM SyncTypeCorrect == Spec => []TypeOK
<1>1. SyncSound => TypeOK
  BY DEF SyncSound, SourcesSound, ProcsSound, Adjustments, TypeOK
<1> QED BY <1>1, SyncAlwaysSound, PTL

(* With fewer faulty sources than MinSources, whatever sources are chosen  *)
(* from, those selected and their weighted mean are within MaxSpread of an *)
(* honest one among them (SelectBestTime): for any number of sources, any  *)
(* errors and any root dispersions.                                        *)
THEOREM AlwaysAgreedNearHonest == Spec => []AgreedNearHonest
<1>1. SyncSound => AgreedNearHonest
  BY SoundAgreed DEF SyncSound
<1> QED BY <1>1, SyncAlwaysSound, PTL

(* findAgreeingSubset, which tries one window per source, finds the most   *)
(* sources that agree, for any number of them.                             *)
THEOREM AlwaysLargestAgreement == Spec => []LargestAgreement
<1>1. SyncSound => LargestAgreement
  <2> SUFFICES ASSUME SyncSound, NEW S \in SUBSET DOMAIN sources, S # {},
                      NEW T \in (SUBSET S) \ {{}},
                      Span(stamps(T)) <= MaxSpread \div 2
               PROVE  Cardinality(T) <= Cardinality(findAgreeingSubset(S, MaxSpread \div 2))
    BY DEF LargestAgreement
  <2>1. MaxSpread \div 2 \in Int
    BY TimeSyncAssumption
  <2>2. SourcesSound /\ T \in SUBSET S /\ T # {}
    BY DEF SyncSound
  <2> QED BY <2>1, <2>2, AgreementLargest
<1> QED BY <1>1, SyncAlwaysSound, PTL

=============================================================================
