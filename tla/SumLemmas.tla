------------------------------ MODULE SumLemmas ------------------------------
(***************************************************************************)
(* What SumFunctionOnSet of the community module Functions computes: the   *)
(* sum f[x] over the x of a finite set S, whatever order its recursion     *)
(* takes them in.  The analyses add up restarts and requests with it.      *)
(*                                                                         *)
(* The library's induction theorems take the statement to prove as an      *)
(* operator.  Here induction is by a minimal counterexample instead, which *)
(* is an element of a set of sets.                                         *)
(***************************************************************************)
EXTENDS Integers, FiniteSets, Functions, FiniteSetTheorems, WellFoundedInduction, TLAPS

\* A set of subsets of a finite set that is not empty has a minimal element.
LEMMA MinimalSubset ==
  ASSUME NEW S, IsFiniteSet(S), NEW T \in SUBSET SUBSET S, T # {}
  PROVE  \E U \in T : \A V \in T : V \subseteq U => V = U
  <1>1. IsWellFoundedOn(StrictSubsetOrdering(S), SUBSET S)
    BY FS_StrictSubsetOrderingWellFounded, FS_FiniteSubsetsOfFinite
  <1>2. PICK U \in T : \A V \in T : <<V, U>> \notin StrictSubsetOrdering(S)
    BY <1>1, WFMin
  <1> QED
    BY <1>2 DEF StrictSubsetOrdering

\* The element that is added next, and the equation of the recursion.
Pick(S) == CHOOSE x \in S : TRUE

IsSum(iter, f, S) ==
  iter = [s \in SUBSET S |-> IF s = {} THEN 0 ELSE f[Pick(s)] + iter[s \ {Pick(s)}]]

\* The element picked is one of the set.
LEMMA PickIn ==
  ASSUME NEW S, S # {}
  PROVE  Pick(S) \in S
  BY DEF Pick

\* The definition, read as a solution of that equation.
LEMMA SumIs ==
  ASSUME NEW f, NEW S
  PROVE  SumFunctionOnSet(f, S) = (CHOOSE iter : IsSum(iter, f, S))[S]
  BY Zenon DEF SumFunctionOnSet, FoldFunctionOnSet, MapThenFoldSet, IsSum, Pick

\* The equation at one subset.
LEMMA IsSumAt ==
  ASSUME NEW f, NEW S, NEW iter, IsSum(iter, f, S), NEW s \in SUBSET S
  PROVE  iter[s] = IF s = {} THEN 0 ELSE f[Pick(s)] + iter[s \ {Pick(s)}]
  BY Zenon DEF IsSum

\* Two solutions agree where both are defined.
LEMMA SumUnique ==
  ASSUME NEW f, NEW S, IsFiniteSet(S), NEW T \in SUBSET S,
         NEW g, IsSum(g, f, S), NEW h, IsSum(h, f, T)
  PROVE  \A U \in SUBSET T : g[U] = h[U]
  <1> DEFINE Bad == {U \in SUBSET T : g[U] # h[U]}
  <1> SUFFICES ASSUME Bad # {} PROVE FALSE
    OBVIOUS
  <1>1. PICK U \in Bad : \A V \in Bad : V \subseteq U => V = U
    <2>1. Bad \in SUBSET SUBSET T
      OBVIOUS
    <2>2. IsFiniteSet(T)
      BY FS_Subset
    <2> HIDE DEF Bad
    <2> QED
      BY <2>1, <2>2, MinimalSubset
  <1> DEFINE V == U \ {Pick(U)}
  <1>2. g[U] = IF U = {} THEN 0 ELSE f[Pick(U)] + g[V]
    BY IsSumAt
  <1>3. h[U] = IF U = {} THEN 0 ELSE f[Pick(U)] + h[V]
    BY IsSumAt
  <1>4. U # {} /\ V \in SUBSET T /\ V # U
    BY <1>2, <1>3, PickIn
  <1>5. g[V] = h[V]
    BY <1>1, <1>4
  <1> QED
    BY <1>2, <1>3, <1>5

\* There is a solution: on a minimal set without one it could be put together from
\* those of the smaller sets.
LEMMA SumExists ==
  ASSUME NEW f, NEW S, IsFiniteSet(S)
  PROVE  \E iter : IsSum(iter, f, S)
  <1> DEFINE Bad == {U \in SUBSET S : ~\E iter : IsSum(iter, f, U)}
             Sol(U) == CHOOSE iter : IsSum(iter, f, U)
             Rest(U) == U \ {Pick(U)}
  <1> SUFFICES ASSUME Bad # {} PROVE FALSE
    OBVIOUS
  <1>1. PICK U \in Bad : \A V \in Bad : V \subseteq U => V = U
    <2>1. Bad \in SUBSET SUBSET S
      OBVIOUS
    <2> HIDE DEF Bad
    <2> QED
      BY <2>1, MinimalSubset
  <1> DEFINE g == [s \in SUBSET U |-> IF s = {} THEN 0 ELSE f[Pick(s)] + Sol(Rest(s))[Rest(s)]]
  <1>2. ASSUME NEW V \in SUBSET U, V # U PROVE IsSum(Sol(V), f, V)
    <2>1. \E iter : IsSum(iter, f, V)
      BY <1>1, <1>2
    <2> QED
      BY <2>1, Zenon
  <1>3. ASSUME NEW s \in SUBSET U, s # {} PROVE Rest(s) \in SUBSET U /\ Rest(s) # U
    BY <1>3, PickIn
  <1>4. ASSUME NEW s \in SUBSET U, s # U PROVE g[s] = Sol(s)[s]
    <2>1. IsSum(Sol(s), f, s)
      BY <1>2, <1>4
    <2>2. Sol(s)[s] = IF s = {} THEN 0 ELSE f[Pick(s)] + Sol(s)[Rest(s)]
      BY <2>1, IsSumAt, s \in SUBSET s
    <2>3. CASE s = {}
      BY <2>2, <2>3
    <2>4. CASE s # {}
      <3>1. IsSum(Sol(Rest(s)), f, Rest(s))
        BY <1>2, <1>3, <2>4
      <3>2. IsFiniteSet(s)
        BY FS_Subset
      <3>3. Sol(s)[Rest(s)] = Sol(Rest(s))[Rest(s)]
        BY <2>1, <3>1, <3>2, SumUnique, Rest(s) \in SUBSET s, Rest(s) \in SUBSET Rest(s)
      <3> QED
        BY <2>2, <2>4, <3>3
    <2> QED
      BY <2>3, <2>4
  <1>5. ASSUME NEW s \in SUBSET U
        PROVE  g[s] = IF s = {} THEN 0 ELSE f[Pick(s)] + g[Rest(s)]
    <2>1. CASE s = {}
      BY <2>1
    <2>2. CASE s # {}
      <3>1. g[Rest(s)] = Sol(Rest(s))[Rest(s)]
        BY <1>3, <1>4, <2>2
      <3>2. g[s] = f[Pick(s)] + Sol(Rest(s))[Rest(s)]
        BY <2>2
      <3> QED
        BY <2>2, <3>1, <3>2
    <2> QED
      BY <2>1, <2>2
  <1>6. IsSum(g, f, U)
    <2> HIDE DEF Rest
    <2>1. [s \in SUBSET U |-> g[s]] = g
      BY Zenon
    <2>2. [s \in SUBSET U |-> IF s = {} THEN 0 ELSE f[Pick(s)] + g[Rest(s)]] = [s \in SUBSET U |-> g[s]]
      BY <1>5, Zenon
    <2> QED
      BY <2>1, <2>2, Zenon DEF IsSum, Rest
  <1> QED
    BY <1>6

\* The recursion, as an equation about SumFunctionOnSet.
LEMMA SumStep ==
  ASSUME NEW f, NEW S, IsFiniteSet(S)
  PROVE  SumFunctionOnSet(f, S) = IF S = {} THEN 0 ELSE f[Pick(S)] + SumFunctionOnSet(f, S \ {Pick(S)})
  <1> DEFINE Sol(U) == CHOOSE iter : IsSum(iter, f, U)
             Rest == S \ {Pick(S)}
  <1>1. ASSUME NEW U \in SUBSET S PROVE IsSum(Sol(U), f, U)
    BY SumExists, FS_Subset, Zenon
  <1>2. Sol(S)[S] = IF S = {} THEN 0 ELSE f[Pick(S)] + Sol(S)[Rest]
    BY <1>1, IsSumAt, S \in SUBSET S
  <1>3. Sol(S)[Rest] = Sol(Rest)[Rest]
    BY <1>1, SumUnique, Rest \in SUBSET S, Rest \in SUBSET Rest, S \in SUBSET S
  <1>4. SumFunctionOnSet(f, S) = Sol(S)[S] /\ SumFunctionOnSet(f, Rest) = Sol(Rest)[Rest]
    BY SumIs, Zenon
  <1> HIDE DEF Sol
  <1> QED
    BY <1>2, <1>3, <1>4

\* Facts without the order of the recursion.
LEMMA SumEmpty ==
  ASSUME NEW f
  PROVE  SumFunctionOnSet(f, {}) = 0
  BY SumStep, FS_EmptySet

\* A sum of integers is an integer.
LEMMA SumType ==
  ASSUME NEW f, NEW S, IsFiniteSet(S), \A x \in S : f[x] \in Int
  PROVE  SumFunctionOnSet(f, S) \in Int
  <1> DEFINE Bad == {U \in SUBSET S : SumFunctionOnSet(f, U) \notin Int}
  <1> SUFFICES ASSUME Bad # {} PROVE FALSE
    OBVIOUS
  <1>1. PICK U \in Bad : \A V \in Bad : V \subseteq U => V = U
    <2>1. Bad \in SUBSET SUBSET S
      OBVIOUS
    <2> HIDE DEF Bad
    <2> QED
      BY <2>1, MinimalSubset
  <1> DEFINE V == U \ {Pick(U)}
  <1>2. SumFunctionOnSet(f, U) = IF U = {} THEN 0 ELSE f[Pick(U)] + SumFunctionOnSet(f, V)
    BY SumStep, FS_Subset
  <1>3. U # {} /\ Pick(U) \in U
    BY <1>2, PickIn
  <1>4. SumFunctionOnSet(f, V) \in Int
    BY <1>1, <1>3
  <1> QED
    BY <1>2, <1>3, <1>4

\* Any element may be taken out first.
LEMMA SumOut ==
  ASSUME NEW f, NEW S, IsFiniteSet(S), \A y \in S : f[y] \in Int, NEW x \in S
  PROVE  SumFunctionOnSet(f, S) = f[x] + SumFunctionOnSet(f, S \ {x})
  <1> DEFINE Bad == {U \in SUBSET S : \E y \in U : SumFunctionOnSet(f, U) # f[y] + SumFunctionOnSet(f, U \ {y})}
  <1> SUFFICES ASSUME Bad # {} PROVE FALSE
    OBVIOUS
  <1>1. PICK U \in Bad : \A V \in Bad : V \subseteq U => V = U
    <2>1. Bad \in SUBSET SUBSET S
      OBVIOUS
    <2> HIDE DEF Bad
    <2> QED
      BY <2>1, MinimalSubset
  <1>2. PICK y \in U : SumFunctionOnSet(f, U) # f[y] + SumFunctionOnSet(f, U \ {y})
    OBVIOUS
  <1> DEFINE p == Pick(U)
             Both == (U \ {p}) \ {y}
  <1>3. p \in U /\ SumFunctionOnSet(f, U) = f[p] + SumFunctionOnSet(f, U \ {p})
    BY SumStep, PickIn, FS_Subset
  <1>4. p # y
    BY <1>2, <1>3
  <1>5. SumFunctionOnSet(f, U \ {p}) = f[y] + SumFunctionOnSet(f, Both)
    <2>1. U \ {p} \notin Bad
      BY <1>1, <1>3
    <2> QED
      BY <2>1, <1>4
  <1>6. SumFunctionOnSet(f, U \ {y}) = f[p] + SumFunctionOnSet(f, (U \ {y}) \ {p})
    <2>1. U \ {y} \notin Bad
      BY <1>1, <1>2
    <2> QED
      BY <2>1, <1>3, <1>4
  <1>7. (U \ {y}) \ {p} = Both
    OBVIOUS
  <1>8. SumFunctionOnSet(f, Both) \in Int /\ f[p] \in Int /\ f[y] \in Int
    <2>1. IsFiniteSet(Both) /\ Both \subseteq S
      BY FS_Subset
    <2> QED
      BY <2>1, <1>3, SumType
  <1>9. SumFunctionOnSet(f, U \ {y}) = f[p] + SumFunctionOnSet(f, Both)
    BY <1>6, <1>7, Zenon
  <1>10. SumFunctionOnSet(f, U) = f[p] + (f[y] + SumFunctionOnSet(f, Both))
    BY <1>3, <1>5, Zenon
  <1> HIDE DEF p, Both
  <1> QED
    BY <1>2, <1>8, <1>9, <1>10

\* A sum of natural numbers is one, and no less than the sum over a part of them.
LEMMA SumMonotone ==
  ASSUME NEW f, NEW T, IsFiniteSet(T), \A x \in T : f[x] \in Nat, NEW S \in SUBSET T
  PROVE  /\ SumFunctionOnSet(f, S) \in Nat
         /\ SumFunctionOnSet(f, S) <= SumFunctionOnSet(f, T)
  <1> DEFINE Bad == {U \in SUBSET T : \E V \in SUBSET U :
                       ~(0 <= SumFunctionOnSet(f, V) /\ SumFunctionOnSet(f, V) <= SumFunctionOnSet(f, U))}
  <1>0. ASSUME NEW U \in SUBSET T PROVE IsFiniteSet(U) /\ SumFunctionOnSet(f, U) \in Int
    BY SumType, FS_Subset
  <1>1. ASSUME Bad # {} PROVE FALSE
    <2>1. PICK U \in Bad : \A V \in Bad : V \subseteq U => V = U
      <3>1. Bad \in SUBSET SUBSET T
        OBVIOUS
      <3> HIDE DEF Bad
      <3> QED
        BY <1>1, <3>1, MinimalSubset
    <2>2. PICK V \in SUBSET U :
            ~(0 <= SumFunctionOnSet(f, V) /\ SumFunctionOnSet(f, V) <= SumFunctionOnSet(f, U))
      OBVIOUS
    <2>3. CASE V # {}
      <3>1. PICK x \in V : TRUE
        BY <2>3
      <3>2. U \ {x} \notin Bad
        BY <2>1, <3>1
      <3>3. /\ 0 <= SumFunctionOnSet(f, V \ {x})
            /\ SumFunctionOnSet(f, V \ {x}) <= SumFunctionOnSet(f, U \ {x})
        BY <3>1, <3>2
      <3>4. /\ SumFunctionOnSet(f, U) = f[x] + SumFunctionOnSet(f, U \ {x})
            /\ SumFunctionOnSet(f, V) = f[x] + SumFunctionOnSet(f, V \ {x})
        BY <1>0, SumOut
      <3>5. /\ f[x] \in Nat
            /\ SumFunctionOnSet(f, V \ {x}) \in Int /\ SumFunctionOnSet(f, U \ {x}) \in Int
        BY <1>0
      <3> QED
        BY <2>2, <3>3, <3>4, <3>5
    <2>4. CASE V = {}
      <3>1. SumFunctionOnSet(f, V) = 0
        BY <2>4, SumEmpty
      <3>2. U # {}
        BY <2>2, <2>4, <3>1, SumEmpty
      <3>3. PICK x \in U : TRUE
        BY <3>2
      <3>4. U \ {x} \notin Bad
        BY <2>1, <3>3
      <3>5. SumFunctionOnSet(f, {}) <= SumFunctionOnSet(f, U \ {x})
        BY <3>4
      <3>6. SumFunctionOnSet(f, U) = f[x] + SumFunctionOnSet(f, U \ {x})
        BY <1>0, SumOut
      <3>7. f[x] \in Nat /\ SumFunctionOnSet(f, U \ {x}) \in Int
        BY <1>0
      <3> QED
        BY <2>2, <2>4, <3>1, <3>5, <3>6, <3>7
    <2> QED
      BY <2>3, <2>4
  <1>2. T \notin Bad
    BY <1>1
  <1>3. 0 <= SumFunctionOnSet(f, S) /\ SumFunctionOnSet(f, S) <= SumFunctionOnSet(f, T)
    BY <1>2, T \in SUBSET T
  <1> QED
    BY <1>0, <1>3

\* No number is greater than a sum it is part of.
LEMMA SumAtLeast ==
  ASSUME NEW f, NEW S, IsFiniteSet(S), \A y \in S : f[y] \in Nat, NEW x \in S
  PROVE  f[x] <= SumFunctionOnSet(f, S)
  <1>1. SumFunctionOnSet(f, S) = f[x] + SumFunctionOnSet(f, S \ {x})
    BY SumOut
  <1>2. SumFunctionOnSet(f, S \ {x}) \in Nat
    BY SumMonotone
  <1> QED
    BY <1>1, <1>2

\* Only the values on S matter.
LEMMA SumEqual ==
  ASSUME NEW f, NEW g, NEW S, IsFiniteSet(S), \A x \in S : f[x] = g[x]
  PROVE  SumFunctionOnSet(f, S) = SumFunctionOnSet(g, S)
  <1> DEFINE Bad == {U \in SUBSET S : SumFunctionOnSet(f, U) # SumFunctionOnSet(g, U)}
  <1> SUFFICES ASSUME Bad # {} PROVE FALSE
    OBVIOUS
  <1>1. PICK U \in Bad : \A V \in Bad : V \subseteq U => V = U
    <2>1. Bad \in SUBSET SUBSET S
      OBVIOUS
    <2> HIDE DEF Bad
    <2> QED
      BY <2>1, MinimalSubset
  <1> DEFINE V == U \ {Pick(U)}
  <1>2. /\ SumFunctionOnSet(f, U) = IF U = {} THEN 0 ELSE f[Pick(U)] + SumFunctionOnSet(f, V)
        /\ SumFunctionOnSet(g, U) = IF U = {} THEN 0 ELSE g[Pick(U)] + SumFunctionOnSet(g, V)
    BY SumStep, FS_Subset
  <1>3. U # {} /\ Pick(U) \in U
    BY <1>2, PickIn
  <1>4. SumFunctionOnSet(f, V) = SumFunctionOnSet(g, V)
    BY <1>1, <1>3
  <1> QED
    BY <1>2, <1>3, <1>4
==============================================================================
