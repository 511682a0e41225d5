------------------------------ MODULE Induction ------------------------------
(***************************************************************************)
(* Induction over data, and recursive functions.  A set of numbers, or of  *)
(* finite sets, that is not empty has a smallest member: what is to hold   *)
(* of all of them has no smallest counterexample.                          *)
(***************************************************************************)
EXTENDS FiniteSetTheorems, FiniteSetsExt, TLAPS

Below == {ss \in Nat \X Nat : ss[1] < ss[2]}

LEMMA BelowIsWellFounded == IsWellFoundedOn(Below, Nat)
  BY NatLessThanWellFounded, Zenon DEF OpToRel, Below

\* Every non-empty set of naturals has a least element.
LEMMA LeastElement ==
  ASSUME NEW T \in SUBSET Nat, T # {}
  PROVE  \E n \in T : \A m \in T : n <= m
<1>1. PICK n \in T : \A m \in T : ~(<<m, n>> \in Below)
  BY BelowIsWellFounded, WFMin, Zenon
<1>2. ASSUME NEW m \in T PROVE n <= m
  <2>1. m \in Nat /\ n \in Nat /\ (m < n => <<m, n>> \in Below)
    BY DEF Below
  <2> QED  BY <1>1, <2>1
<1> QED  BY <1>2

\* What holds of n whenever it holds of everything below n holds of every n up to k:
\* the counterexamples have no least element.
LEMMA UpTo ==
  ASSUME NEW k \in Nat, NEW good,
         \A n \in 0..k : (\A m \in 0..k : m < n => m \in good) => n \in good
  PROVE  0..k \subseteq good
<1> SUFFICES ASSUME (0..k) \ good # {} PROVE FALSE
  OBVIOUS
<1> DEFINE bad == (0..k) \ good
<1>1. bad \in SUBSET Nat /\ bad # {}
  OBVIOUS
<1>2. PICK n \in bad : \A m \in bad : n <= m
  <2> HIDE DEF bad
  <2> QED  BY <1>1, LeastElement
<1> QED  BY <1>2

\* A family of subsets of a finite set that contains every subset whose proper
\* subsets it contains contains them all.
LEMMA SmallestSubset ==
  ASSUME NEW D, IsFiniteSet(D), NEW bad \in SUBSET SUBSET D, bad # {}
  PROVE  \E s \in bad : \A u \in bad : ~(<<u, s>> \in StrictSubsetOrdering(D))
<1>1. FiniteSubsetsOf(D) = SUBSET D
  BY FS_FiniteSubsetsOfFinite
<1>2. IsWellFoundedOn(StrictSubsetOrdering(D), SUBSET D)
  BY <1>1, FS_StrictSubsetOrderingWellFounded
<1> QED  BY <1>2, WFMin, Zenon

LEMMA EverySubset ==
  ASSUME NEW D, IsFiniteSet(D), NEW good,
         \A s \in SUBSET D : (\A u \in SUBSET s : u # s => u \in good) => s \in good
  PROVE  SUBSET D \subseteq good
<1> DEFINE bad == (SUBSET D) \ good
<1> SUFFICES ASSUME bad # {} PROVE FALSE
  OBVIOUS
<1>1. PICK s \in bad : \A u \in bad : ~(<<u, s>> \in StrictSubsetOrdering(D))
  <2>1. bad \in SUBSET SUBSET D
    OBVIOUS
  <2> HIDE DEF bad
  <2> QED  BY <2>1, SmallestSubset
<1>2. \A u \in SUBSET s : u # s => u \in good
  <2> SUFFICES ASSUME NEW u \in SUBSET s, u # s PROVE u \in good
    OBVIOUS
  <2>1. u \in SUBSET D /\ <<u, s>> \in StrictSubsetOrdering(D)
    BY Zenon DEF StrictSubsetOrdering
  <2> QED  BY <1>1, <2>1
<1> QED  BY <1>1, <1>2

\* A definition by recursion on a bounded rank: of each s that is not among the
\* first, from the value of before[s].
Descends(S, V, rank, before, F) ==
  \A s \in S : rank[s] # 0 => /\ before[s] \in S /\ rank[before[s]] < rank[s]
                              /\ \A v \in V : F[s][v] \in V
Solves(g, S, rank, first, before, F) ==
  \A s \in S : g[s] = IF rank[s] = 0 THEN first[s] ELSE F[s][g[before[s]]]

\* It defines a function.
LEMMA RecursionByRank ==
  ASSUME NEW S, NEW V, NEW k \in Nat, NEW rank \in [S -> 0..k],
         NEW first \in [S -> V], NEW before, NEW F, Descends(S, V, rank, before, F)
  PROVE  \E g \in [S -> V] : Solves(g, S, rank, first, before, F)
<1> USE DEF Descends, Solves
<1> DEFINE Equation(g, s) == g[s] = IF rank[s] = 0 THEN first[s] ELSE F[s][g[before[s]]]
           good == {n \in 0..k : \E g \in [S -> V] : \A s \in S : rank[s] <= n => Equation(g, s)}
<1>1. ASSUME NEW n \in 0..k, \A m \in 0..k : m < n => m \in good PROVE n \in good
  <2>1. PICK g \in [S -> V] : \A s \in S : rank[s] < n => Equation(g, s)
    <3>1. CASE n = 0
      BY <3>1
    <3>2. CASE n # 0
      <4>1. n - 1 \in good
        BY <1>1, <3>2
      <4> QED  BY <4>1
    <3> QED  BY <3>1, <3>2
  <2> DEFINE h == [s \in S |-> IF rank[s] = 0 THEN first[s] ELSE F[s][g[before[s]]]]
  <2>2. h \in [S -> V]
    OBVIOUS
  <2>3. \A s \in S : rank[s] < n => h[s] = g[s]
    BY <2>1
  <2>4. ASSUME NEW s \in S, rank[s] <= n PROVE Equation(h, s)
    <3>1. CASE rank[s] = 0
      BY <3>1
    <3>2. CASE rank[s] # 0
      <4>1. before[s] \in S /\ rank[before[s]] < n
        BY <2>4, <3>2
      <4>2. h[before[s]] = g[before[s]]
        BY <2>3, <4>1
      <4> QED  BY <3>2, <4>2
    <3> QED  BY <3>1, <3>2
  <2> QED  BY <2>2, <2>4
<1>2. k \in good
  <2> HIDE DEF good
  <2> QED  BY <1>1, UpTo
<1> QED  BY <1>2

\* The greatest of some numbers is one of them, and none of them is greater.
LEMMA MaxIsGreatest ==
  ASSUME NEW n \in Nat, NEW s \in SUBSET (1..n), s # {}
  PROVE  Max(s) \in s /\ \A x \in s : x <= Max(s)
<1> DEFINE above == {m \in Nat : \A x \in s : x <= m}
<1>1. n \in above
  OBVIOUS
<1>2. PICK m \in above : \A k \in above : m <= k
  <2>1. above \in SUBSET Nat /\ above # {}
    BY <1>1
  <2> HIDE DEF above
  <2> QED  BY <2>1, LeastElement
<1>3. m \in s
  <2> SUFFICES ASSUME m \notin s PROVE FALSE
    OBVIOUS
  <2>1. m \in Nat /\ (\A x \in s : x <= m /\ x # m /\ x >= 1) /\ s # {}
    BY <1>2
  <2>2. PICK x \in s : x >= 1 /\ x <= m /\ x # m
    BY <2>1
  <2>3. m - 1 \in Nat /\ \A y \in s : y <= m - 1
    BY <2>1, <2>2
  <2>4. m - 1 \in above
    BY <2>3
  <2> QED  BY <1>2, <2>1, <2>4
<1>4. \E x \in s : \A y \in s : x >= y
  BY <1>2, <1>3
<1> QED  BY <1>4 DEF Max

-----------------------------------------------------------------------------
(* Folds over some numbers, from the least to the greatest.                *)

\* g is, of each part of S, what its numbers make of base.
FoldsUp(g, base, F, S) ==
  g = [s \in SUBSET S |-> IF s = {} THEN base ELSE F[Max(s)][g[s \ {Max(s)}]]]

LEMMA FoldsExist ==
  ASSUME NEW n \in Nat, NEW S \in SUBSET (1..n), NEW V, NEW base \in V, NEW F \in [S -> [V -> V]]
  PROVE  \E g \in [SUBSET S -> V] : FoldsUp(g, base, F, S)
<1> DEFINE parts == SUBSET S
           k == Cardinality(S)
           rank == [s \in parts |-> Cardinality(s)]
           first == [s \in parts |-> base]
           before == [s \in parts |-> s \ {Max(s)}]
           G == [s \in parts |-> F[Max(s)]]
<1>1. IsFiniteSet(S)
  <2>1. IsFiniteSet(1..n)
    BY FS_Interval
  <2> QED  BY <2>1, FS_Subset
<1>2. k \in Nat /\ \A s \in parts :
        IsFiniteSet(s) /\ Cardinality(s) \in 0..k /\ (Cardinality(s) = 0 <=> s = {})
  <2>1. \A s \in parts : IsFiniteSet(s) /\ Cardinality(s) <= Cardinality(S)
    BY <1>1, FS_Subset
  <2>2. k \in Nat
    BY <1>1, FS_CardinalityType
  <2>3. \A s \in parts : Cardinality(s) \in Nat /\ (Cardinality(s) = 0 <=> s = {})
    BY <2>1, FS_CardinalityType, FS_EmptySet
  <2> HIDE DEF parts
  <2> QED  BY <2>1, <2>2, <2>3
<1>3. \A s \in parts : s # {} => Max(s) \in s
  BY MaxIsGreatest
<1>4. rank \in [parts -> 0..k] /\ first \in [parts -> V]
      /\ \A s \in parts : rank[s] = Cardinality(s)
  <2> HIDE DEF parts, k
  <2> QED  BY <1>2
<1>5. \A s \in parts : first[s] = base /\ before[s] = s \ {Max(s)} /\ G[s] = F[Max(s)]
  BY Zenon
<1> HIDE DEF rank, first, before, G
<1>6. Descends(parts, V, rank, before, G)
  <2> SUFFICES ASSUME NEW s \in parts, rank[s] # 0
               PROVE  /\ before[s] \in parts /\ rank[before[s]] < rank[s]
                      /\ \A v \in V : G[s][v] \in V
    BY DEF Descends
  <2>1. s # {} /\ Max(s) \in s /\ IsFiniteSet(s)
    <3> HIDE DEF parts
    <3> QED  BY <1>2, <1>3, <1>4
  <2> DEFINE x == Max(s)
  <2> HIDE DEF x
  <2>2. x \in s /\ before[s] = s \ {x} /\ G[s] = F[x]
    BY <1>5, <2>1 DEF x
  <2>3. Cardinality(s \ {x}) = Cardinality(s) - 1 /\ Cardinality(s) \in Nat
    BY <2>1, <2>2, FS_RemoveElement, FS_CardinalityType
  <2>4. s \ {x} \in parts /\ x \in S
    BY <2>2
  <2>5. \A v \in V : F[x][v] \in V
    BY <2>4
  <2>6. rank[s] = Cardinality(s) /\ rank[s \ {x}] = Cardinality(s \ {x})
    <3> HIDE DEF parts
    <3> QED  BY <1>4, <2>4
  <2> HIDE DEF parts
  <2> QED  BY <2>2, <2>3, <2>4, <2>5, <2>6
<1>7. PICK g \in [parts -> V] : Solves(g, parts, rank, first, before, G)
  <2> HIDE DEF parts, k
  <2> QED  BY <1>2, <1>4, <1>6, RecursionByRank
<1>8. ASSUME NEW s \in parts
      PROVE  g[s] = IF s = {} THEN base ELSE F[Max(s)][g[s \ {Max(s)}]]
  <2>1. g[s] = IF rank[s] = 0 THEN first[s] ELSE G[s][g[before[s]]]
    BY <1>7, Zenon DEF Solves
  <2>2. rank[s] = 0 <=> s = {}
    <3> HIDE DEF parts
    <3> QED  BY <1>2, <1>4
  <2>3. first[s] = base /\ before[s] = s \ {Max(s)} /\ G[s] = F[Max(s)]
    BY <1>5
  <2> HIDE DEF parts
  <2> QED  BY <2>1, <2>2, <2>3
<1>9. FoldsUp(g, base, F, S)
  BY <1>8 DEF FoldsUp
<1> QED  BY <1>9

-----------------------------------------------------------------------------
(* Sums over a finite set.                                                 *)

\* g is, of each part of S, the sum of f over it (as MapThenSumSet adds it up).
AddsUp(g, f, S) ==
  g = [s \in SUBSET S |->
         IF s = {} THEN 0
         ELSE f[CHOOSE x \in s : TRUE] + g[s \ {CHOOSE x \in s : TRUE}]]

LEMMA SumsExist ==
  ASSUME NEW S, IsFiniteSet(S), NEW f \in [S -> Nat] PROVE \E g : AddsUp(g, f, S)
<1> DEFINE parts == SUBSET S
           k == Cardinality(S)
           rank == [s \in parts |-> Cardinality(s)]
           first == [s \in parts |-> 0]
           before == [s \in parts |-> s \ {CHOOSE x \in s : TRUE}]
           F == [s \in parts |-> [v \in Nat |-> f[CHOOSE x \in s : TRUE] + v]]
<1>1. k \in Nat /\ \A s \in parts :
        IsFiniteSet(s) /\ Cardinality(s) \in 0..k /\ (Cardinality(s) = 0 <=> s = {})
  BY FS_Subset, FS_CardinalityType, FS_EmptySet
<1>2. \A s \in parts : s # {} => (CHOOSE x \in s : TRUE) \in s
  OBVIOUS
<1>3. rank \in [parts -> 0..k] /\ first \in [parts -> Nat]
      /\ \A s \in parts : rank[s] = Cardinality(s)
  <2> HIDE DEF parts, k
  <2> QED  BY <1>1
<1> HIDE DEF rank
<1>4. Descends(parts, Nat, rank, before, F)
  <2> SUFFICES ASSUME NEW s \in parts, rank[s] # 0
               PROVE  /\ before[s] \in parts /\ rank[before[s]] < rank[s]
                      /\ \A v \in Nat : F[s][v] \in Nat
    BY DEF Descends
  <2> DEFINE x == CHOOSE x \in s : TRUE
  <2>1. s # {} /\ x \in s /\ IsFiniteSet(s)
    <3>1. s # {} /\ IsFiniteSet(s)
      <4> HIDE DEF parts
      <4> QED  BY <1>1, <1>3
    <3> QED  BY <3>1
  <2> HIDE DEF x
  <2>2. Cardinality(s \ {x}) = Cardinality(s) - 1 /\ Cardinality(s) \in Nat
    BY <2>1, FS_RemoveElement, FS_CardinalityType
  <2>3. before[s] = s \ {x} /\ F[s] = [v \in Nat |-> f[x] + v]
    BY DEF x
  <2>4. s \ {x} \in parts /\ f[x] \in Nat
    BY <2>1
  <2>5. rank[s] = Cardinality(s) /\ rank[s \ {x}] = Cardinality(s \ {x})
    <3> HIDE DEF parts
    <3> QED  BY <1>3, <2>4
  <2> HIDE DEF parts, before, F
  <2> QED  BY <2>2, <2>3, <2>4, <2>5
<1>5. PICK g \in [parts -> Nat] : Solves(g, parts, rank, first, before, F)
  <2> HIDE DEF parts, k, rank, first, before, F
  <2> QED  BY <1>1, <1>3, <1>4, RecursionByRank
<1>6. \A s \in parts : g[s] = IF s = {} THEN 0
                             ELSE f[CHOOSE x \in s : TRUE] + g[s \ {CHOOSE x \in s : TRUE}]
  <2> SUFFICES ASSUME NEW s \in parts
               PROVE  g[s] = IF s = {} THEN 0
                             ELSE f[CHOOSE x \in s : TRUE] + g[s \ {CHOOSE x \in s : TRUE}]
    OBVIOUS
  <2> DEFINE x == CHOOSE x \in s : TRUE
  <2>1. rank[s] = 0 <=> s = {}
    <3> HIDE DEF parts
    <3> QED  BY <1>1, <1>3
  <2>2. g[s] = IF rank[s] = 0 THEN first[s] ELSE F[s][g[before[s]]]
    BY <1>5 DEF Solves
  <2>3. first[s] = 0 /\ before[s] = s \ {x} /\ F[s] = [v \in Nat |-> f[x] + v]
    OBVIOUS
  <2>4. g[s \ {x}] \in Nat
    <3> HIDE DEF x
    <3> QED  OBVIOUS
  <2> HIDE DEF rank, first, before, F, x
  <2>5. g[s] = IF s = {} THEN 0 ELSE f[x] + g[s \ {x}]
    BY <2>1, <2>2, <2>3, <2>4
  <2> QED  BY <2>5 DEF x
<1>7. AddsUp(g, f, S)
  BY <1>6 DEF AddsUp
<1> QED  BY <1>7

LEMMA SumsAreBounded ==
  ASSUME NEW S, IsFiniteSet(S), NEW lo \in Nat, NEW hi \in Nat, NEW f \in [S -> lo..hi],
         NEW g, AddsUp(g, f, S)
  PROVE  g[S] \in Nat /\ lo * Cardinality(S) <= g[S] /\ g[S] <= hi * Cardinality(S)
<1> DEFINE Bounded(s) == /\ g[s] \in Nat /\ lo * Cardinality(s) <= g[s]
                         /\ g[s] <= hi * Cardinality(s)
           good == {s \in SUBSET S : Bounded(s)}
<1>1. ASSUME NEW s \in SUBSET S, \A u \in SUBSET s : u # s => u \in good PROVE s \in good
  <2> DEFINE x == CHOOSE x \in s : TRUE
             u == s \ {x}
  <2>1. CASE s = {}
    <3>1. g[s] = 0
      BY <2>1 DEF AddsUp
    <3>2. Cardinality(s) = 0
      BY <2>1, FS_EmptySet
    <3> QED  BY <3>1, <3>2
  <2>2. CASE s # {}
    <3>1. x \in s /\ IsFiniteSet(s)
      BY <2>2, FS_Subset
    <3>2. g[s] = f[x] + g[u]
      BY <2>2 DEF AddsUp
    <3> HIDE DEF x
    <3>3. u \in good
      BY <1>1, <3>1
    <3>4. Cardinality(u) = Cardinality(s) - 1 /\ Cardinality(s) \in Nat /\ Cardinality(u) \in Nat
      BY <3>1, FS_RemoveElement, FS_CardinalityType, FS_Subset
    <3>5. f[x] \in lo..hi
      BY <3>1
    <3> HIDE DEF u
    <3> DEFINE n == Cardinality(u)
    <3>6. lo * (n + 1) = lo * n + lo /\ hi * (n + 1) = hi * n + hi
      BY <3>4
    <3>7. Cardinality(s) = n + 1
      BY <3>4
    <3>8. g[u] \in Nat /\ lo * n <= g[u] /\ g[u] <= hi * n /\ n \in Nat
          /\ lo * n \in Nat /\ hi * n \in Nat
      BY <3>3, <3>4
    <3> HIDE DEF n
    <3>9. g[s] \in Nat /\ lo * n + lo <= g[s] /\ g[s] <= hi * n + hi
      BY <3>2, <3>5, <3>8
    <3> QED  BY <3>6, <3>7, <3>9
  <2> QED  BY <2>1, <2>2
<1>2. SUBSET S \subseteq good
  <2> HIDE DEF good
  <2> QED  BY <1>1, EverySubset
<1> QED  BY <1>2
=============================================================================
