--------------------------- MODULE AgentLifeProofs ---------------------------
(***************************************************************************)
(* What the lives of the agents keep to on every map, with any number of   *)
(* agents, and however often the world is paused, restarted or refreshed:  *)
(* energy, the choice a reward is credited to, what an arrival leaves in   *)
(* the memory, and over how many countries a load spreads them.            *)
(***************************************************************************)
EXTENDS AgentLife, FiniteSetTheorems, SequenceTheorems, WellFoundedInduction, TLAPS

-----------------------------------------------------------------------------
(* Numbers and functions on 1..n.                                           *)

LEMMA MinOfTwo ==
  ASSUME NEW a \in Int, NEW b \in Int
  PROVE  Min({a, b}) \in {a, b} /\ Min({a, b}) <= a /\ Min({a, b}) <= b
<1> DEFINE P(x) == x \in {a, b} /\ \A y \in {a, b} : x <= y
<1>1. \E x : P(x)
  <2>1. CASE a <= b
    BY <2>1
  <2>2. CASE ~(a <= b)
    BY <2>2
  <2> QED BY <2>1, <2>2
<1>2. Min({a, b}) = CHOOSE x \in {a, b} : \A y \in {a, b} : x <= y
  BY Zenon DEF Min
<1>3. P(CHOOSE x \in {a, b} : \A y \in {a, b} : x <= y)
  BY <1>1, Zenon
<1> QED BY <1>2, <1>3

LEMMA MaxOfTwo ==
  ASSUME NEW a \in Int, NEW b \in Int
  PROVE  Max({a, b}) \in {a, b} /\ Max({a, b}) >= a /\ Max({a, b}) >= b
<1> DEFINE P(x) == x \in {a, b} /\ \A y \in {a, b} : x >= y
<1>1. \E x : P(x)
  <2>1. CASE a >= b
    BY <2>1
  <2>2. CASE ~(a >= b)
    BY <2>2
  <2> QED BY <2>1, <2>2
<1>2. Max({a, b}) = CHOOSE x \in {a, b} : \A y \in {a, b} : x >= y
  BY Zenon DEF Max
<1>3. P(CHOOSE x \in {a, b} : \A y \in {a, b} : x >= y)
  BY <1>1, Zenon
<1> QED BY <1>2, <1>3

LEMMA SeqOfFunction ==
  ASSUME NEW S, NEW n \in Nat, NEW f \in [1..n -> S]
  PROVE  f \in Seq(S) /\ Len(f) = n /\ DOMAIN f = 1..n
BY SeqDef

-----------------------------------------------------------------------------
(* The pool.                                                                *)

\* A set of numbers that is not empty has a least one.
LEMMA LeastNumber ==
  ASSUME NEW S \in SUBSET Nat, S # {}
  PROVE  \E n \in S : \A m \in S : n <= m
<1> DEFINE R == {e \in Nat \X Nat : e[1] < e[2]}
<1>1. IsWellFoundedOn(R, Nat)
  BY NatLessThanWellFounded DEF OpToRel
<1>2. PICK n \in S : \A m \in S : ~(<<m, n>> \in R)
  BY <1>1, WFMin, Zenon
<1>3. \A m \in S : m < n => <<m, n>> \in R
  OBVIOUS
<1> HIDE DEF R
<1>4. \A m \in S : n <= m
  <2> SUFFICES ASSUME NEW m \in S PROVE n <= m
    OBVIOUS
  <2>1. ~(m < n)
    BY <1>2, <1>3
  <2>2. m \in Nat /\ n \in Nat
    OBVIOUS
  <2> QED BY <2>1, <2>2
<1> QED BY <1>4

\* As many numbers as places, each given to one place at most, are all given.
LEMMA AllNumbersGiven ==
  ASSUME NEW S, IsFiniteSet(S), NEW f \in [S -> 1..Cardinality(S)],
         \A p, q \in S : f[p] = f[q] => p = q
  PROVE  \A n \in 1..Cardinality(S) : \E p \in S : f[p] = n
<1> DEFINE T == 1..Cardinality(S)
<1>1. Cardinality(S) \in Nat
  BY FS_CardinalityType
<1>2. IsFiniteSet(T) /\ Cardinality(T) = Cardinality(S)
  BY <1>1, FS_Interval
<1>3. f \in Injection(S, T)
  BY DEF Injection, IsInjective
<1> HIDE DEF T
<1>4. f \in Surjection(S, T)
  BY <1>2, <1>3, FS_Injection
<1> QED BY <1>4 DEF Surjection, T

\* One number less in a subset that lacks a member.
LEMMA SmallerSet ==
  ASSUME NEW S, IsFiniteSet(S), NEW T \in SUBSET S, NEW x \in S, x \notin T
  PROVE  Cardinality(T) \in Nat /\ Cardinality(S) \in Nat /\ Cardinality(T) < Cardinality(S)
<1>1. IsFiniteSet(S \ {x}) /\ Cardinality(S \ {x}) = Cardinality(S) - 1
  BY FS_RemoveElement
<1>2. T \in SUBSET (S \ {x})
  OBVIOUS
<1>3. IsFiniteSet(T) /\ Cardinality(T) <= Cardinality(S \ {x})
  BY <1>1, <1>2, FS_Subset
<1> QED BY <1>1, <1>3, FS_CardinalityType

LEMMA PartsAreFinite ==
  ASSUME NEW S \in SUBSET Places
  PROVE  IsFiniteSet(S) /\ Cardinality(S) \in Nat
<1>1. IsFiniteSet(Places)
  BY LifeAssumption
<1> QED BY <1>1, FS_Subset, FS_CardinalityType

LEMMA RanksCount ==
  ASSUME NEW p \in Places
  PROVE  Rank(p) \in Nat /\ Quality[p] \in Nat
<1> DEFINE S == {q \in Spawnable : Country[q] = Country[p] /\ Quality[q] <= Quality[p]}
<1>1. S \in SUBSET Places
  BY DEF Spawnable
<1>2. Rank(p) = Cardinality(S)
  BY DEF Rank
<1> HIDE DEF S
<1>3. Quality[p] \in Nat
  BY LifeAssumption
<1> QED BY <1>1, <1>2, <1>3, PartsAreFinite

\* Places stand in one order.
LEMMA OneOrder ==
  /\ \A p \in Places : ~Before(p, p)
  /\ \A p, q \in Places : p # q => Before(p, q) \/ Before(q, p)
  /\ \A p, q, r \in Places : Before(p, q) /\ Before(q, r) => Before(p, r)
<1>1. \A p \in Places : Rank(p) \in Nat /\ Quality[p] \in Nat
  BY RanksCount
<1>2. \A p, q \in Places : Quality[p] = Quality[q] => p = q
  BY LifeAssumption
<1> QED BY <1>1, <1>2 DEF Before

Earlier(S, p) == {q \in S : Before(q, p)}

LEMMA EarlierCounts ==
  ASSUME NEW S \in SUBSET Places
  PROVE  /\ IsFiniteSet(S) /\ Cardinality(S) \in Nat
         /\ \A p \in S : Cardinality(Earlier(S, p)) \in 0..(Cardinality(S) - 1)
         /\ \A p, q \in S : Before(p, q) => Cardinality(Earlier(S, p)) < Cardinality(Earlier(S, q))
<1>1. IsFiniteSet(S) /\ Cardinality(S) \in Nat
  BY PartsAreFinite
<1>2. ASSUME NEW p \in S PROVE Cardinality(Earlier(S, p)) \in 0..(Cardinality(S) - 1)
  <2>1. Earlier(S, p) \in SUBSET S /\ p \notin Earlier(S, p)
    BY OneOrder DEF Earlier
  <2> QED BY <1>1, <2>1, SmallerSet
<1>3. ASSUME NEW p \in S, NEW q \in S, Before(p, q)
      PROVE  Cardinality(Earlier(S, p)) < Cardinality(Earlier(S, q))
  <2>1. /\ Earlier(S, p) \in SUBSET Earlier(S, q)
        /\ p \in Earlier(S, q) /\ p \notin Earlier(S, p)
    BY <1>3, OneOrder DEF Earlier
  <2>2. IsFiniteSet(Earlier(S, q))
    BY <1>1, FS_Subset DEF Earlier
  <2> QED BY <2>1, <2>2, SmallerSet
<1> QED BY <1>1, <1>2, <1>3

\* The places of a set in order: each place once, and the n-th where it should be.
LEMMA InOrderEnumerates ==
  ASSUME NEW S \in SUBSET Places
  PROVE  /\ Cardinality(S) \in Nat /\ InOrder(S) \in [1..Cardinality(S) -> S]
         /\ \A n \in 1..Cardinality(S) : Cardinality(Earlier(S, InOrder(S)[n])) = n - 1
<1>1. /\ IsFiniteSet(S) /\ Cardinality(S) \in Nat
      /\ \A p \in S : Cardinality(Earlier(S, p)) \in 0..(Cardinality(S) - 1)
      /\ \A p, q \in S : Before(p, q) => Cardinality(Earlier(S, p)) < Cardinality(Earlier(S, q))
  BY EarlierCounts
<1> DEFINE f == [p \in S |-> Cardinality(Earlier(S, p)) + 1]
<1>2. f \in [S -> 1..Cardinality(S)]
  BY <1>1
<1>3. \A p, q \in S : f[p] = f[q] => p = q
  <2> SUFFICES ASSUME NEW p \in S, NEW q \in S, p # q PROVE f[p] # f[q]
    OBVIOUS
  <2>1. Before(p, q) \/ Before(q, p)
    BY OneOrder
  <2>2. f[p] \in Int /\ f[q] \in Int /\ (f[p] < f[q] \/ f[q] < f[p])
    BY <1>1, <2>1
  <2> QED BY <2>2
<1> HIDE DEF f
<1>4. \A n \in 1..Cardinality(S) : \E p \in S : f[p] = n
  BY <1>1, <1>2, <1>3, AllNumbersGiven
<1>5. \A n \in 1..Cardinality(S) : \E p \in S : Cardinality(Earlier(S, p)) = n - 1
  <2> SUFFICES ASSUME NEW n \in 1..Cardinality(S) PROVE \E p \in S : Cardinality(Earlier(S, p)) = n - 1
    OBVIOUS
  <2>1. PICK p \in S : f[p] = n
    BY <1>4
  <2>2. Cardinality(Earlier(S, p)) = n - 1
    BY <1>1, <2>1 DEF f
  <2> QED BY <2>2
<1>6. \A n \in 1..Cardinality(S) :
        InOrder(S)[n] \in S /\ Cardinality(Earlier(S, InOrder(S)[n])) = n - 1
  <2> SUFFICES ASSUME NEW n \in 1..Cardinality(S)
               PROVE  InOrder(S)[n] \in S /\ Cardinality(Earlier(S, InOrder(S)[n])) = n - 1
    OBVIOUS
  <2>1. InOrder(S)[n] = CHOOSE p \in S : Cardinality(Earlier(S, p)) = n - 1
    BY Zenon DEF InOrder, Earlier
  <2> QED BY <1>5, <2>1, Zenon
<1>7. InOrder(S) \in [1..Cardinality(S) -> S]
  BY <1>6 DEF InOrder
<1> QED BY <1>1, <1>6, <1>7

-----------------------------------------------------------------------------
(* The first place of every country comes before any second one.            *)

Countries == {Country[p] : p \in Spawnable}
Firsts == {p \in Spawnable : Rank(p) = 1}
Ranked(p) == {q \in Spawnable : Country[q] = Country[p] /\ Quality[q] <= Quality[p]}

LEMMA RankedOnce ==
  ASSUME NEW p \in Spawnable
  PROVE  p \in Places /\ IsFiniteSet(Ranked(p)) /\ p \in Ranked(p) /\ Rank(p) = Cardinality(Ranked(p))
         /\ Rank(p) \in Nat /\ Rank(p) >= 1
<1>1. p \in Places /\ Quality[p] \in Nat
  BY RanksCount DEF Spawnable
<1>2. p \in Ranked(p)
  BY <1>1 DEF Ranked
<1>3. IsFiniteSet(Ranked(p))
  <2>1. Ranked(p) \in SUBSET Places
    BY DEF Ranked, Spawnable
  <2> QED BY <2>1, PartsAreFinite
<1>4. Rank(p) = Cardinality(Ranked(p))
  BY DEF Rank, Ranked
<1>5. Rank(p) \in Nat /\ Rank(p) # 0
  BY <1>2, <1>3, <1>4, FS_CardinalityType, FS_EmptySet
<1> QED BY <1>1, <1>2, <1>3, <1>4, <1>5

LEMMA FirstOfEach ==
  /\ \A p, q \in Firsts : Country[p] = Country[q] => p = q
  /\ \A c \in Countries : \E p \in Firsts : Country[p] = c
  /\ IsFiniteSet(Firsts) /\ IsFiniteSet(Countries)
  /\ Cardinality(Countries) \in Nat /\ Cardinality(Firsts) \in Nat
  /\ Cardinality(Countries) <= Cardinality(Firsts)
<1>1. ASSUME NEW p \in Firsts, NEW q \in Firsts, Country[p] = Country[q], Quality[p] <= Quality[q]
      PROVE  p = q
  <2>1. q \in Spawnable /\ p \in Spawnable /\ Rank(q) = 1
    BY DEF Firsts
  <2>2. p \in Ranked(q)
    BY <1>1, <2>1 DEF Ranked
  <2>3. IsFiniteSet(Ranked(q)) /\ Cardinality(Ranked(q)) = 1 /\ q \in Ranked(q)
    BY <2>1, RankedOnce
  <2>4. \E x : Ranked(q) = {x}
    BY <2>3, FS_Singleton
  <2> QED BY <2>2, <2>3, <2>4
<1>2. \A p \in Firsts : p \in Spawnable /\ p \in Places /\ Quality[p] \in Nat
  BY RanksCount DEF Firsts, Spawnable
<1>3. \A p, q \in Firsts : Country[p] = Country[q] => p = q
  <2> SUFFICES ASSUME NEW p \in Firsts, NEW q \in Firsts, Country[p] = Country[q] PROVE p = q
    OBVIOUS
  <2>1. Quality[p] <= Quality[q] \/ Quality[q] <= Quality[p]
    BY <1>2
  <2> QED BY <1>1, <2>1
<1>4. ASSUME NEW c \in Countries PROVE \E p \in Firsts : Country[p] = c
  <2> DEFINE S == {p \in Spawnable : Country[p] = c}
             Q == {Quality[p] : p \in S}
  <2>1. \A p \in S : p \in Places /\ Quality[p] \in Nat
    BY RanksCount DEF Spawnable
  <2>2. Q \in SUBSET Nat /\ Q # {}
    BY <2>1 DEF Countries
  <2>3. PICK n \in Q : \A m \in Q : n <= m
    BY <2>2, LeastNumber
  <2>4. PICK p \in S : Quality[p] = n
    BY <2>3
  <2>5. \A q \in S : Quality[p] <= Quality[q]
    BY <2>3, <2>4
  <2>6. \A q \in Ranked(p) : q = p
    <3> SUFFICES ASSUME NEW q \in Ranked(p) PROVE q = p
      OBVIOUS
    <3>1. q \in S /\ Quality[q] <= Quality[p]
      BY <2>4 DEF Ranked
    <3>2. Quality[q] = Quality[p]
      BY <2>1, <2>5, <3>1
    <3>3. p \in Places /\ q \in Places
      BY <2>1, <3>1
    <3> QED BY <3>2, <3>3, LifeAssumption
  <2>7. p \in Spawnable /\ Ranked(p) = {p}
    BY <2>6, RankedOnce
  <2>8. Rank(p) = 1
    BY <2>7, RankedOnce, FS_Singleton
  <2> QED BY <2>7, <2>8 DEF Firsts
<1>5. IsFiniteSet(Firsts)
  <2>1. Firsts \in SUBSET Places
    BY DEF Firsts, Spawnable
  <2> QED BY <2>1, PartsAreFinite
<1> DEFINE f == [p \in Firsts |-> Country[p]]
<1>6. f \in Surjection(Firsts, Countries)
  <2>1. f \in [Firsts -> Countries]
    BY DEF Firsts, Countries
  <2>2. \A c \in Countries : \E p \in Firsts : f[p] = c
    BY <1>4
  <2> HIDE DEF f
  <2> QED BY <2>1, <2>2 DEF Surjection
<1> HIDE DEF f
<1>7. IsFiniteSet(Countries) /\ Cardinality(Countries) <= Cardinality(Firsts)
  BY <1>5, <1>6, FS_Surjection
<1> QED BY <1>3, <1>4, <1>5, <1>7, FS_CardinalityType

\* Where the first places are all among S, S in order begins with them.
LEMMA FirstsComeFirst ==
  ASSUME NEW S \in SUBSET Spawnable, Firsts \subseteq S
  PROVE  \A n \in 1..Cardinality(Firsts) : n \in 1..Cardinality(S) /\ InOrder(S)[n] \in Firsts
<1>1. /\ S \in SUBSET Places /\ IsFiniteSet(S) /\ IsFiniteSet(Firsts)
      /\ Cardinality(Firsts) \in Nat /\ Cardinality(S) \in Nat
      /\ Cardinality(Firsts) <= Cardinality(S)
  <2>1. S \in SUBSET Places
    BY DEF Spawnable
  <2>2. IsFiniteSet(S)
    BY <2>1, PartsAreFinite
  <2> QED BY <2>1, <2>2, FirstOfEach, FS_Subset, FS_CardinalityType
<1> SUFFICES ASSUME NEW n \in 1..Cardinality(Firsts), InOrder(S)[n] \notin Firsts PROVE FALSE
  BY <1>1
<1> DEFINE p == InOrder(S)[n]
<1>2. n \in 1..Cardinality(S)
  BY <1>1
<1>3. p \in S /\ Cardinality(Earlier(S, p)) = n - 1
  BY <1>1, <1>2, InOrderEnumerates
<1> HIDE DEF p
<1>4. Rank(p) > 1
  <2>1. Rank(p) \in Nat /\ Rank(p) >= 1
    BY <1>3, RankedOnce
  <2>2. Rank(p) # 1
    BY <1>3 DEF Firsts, p
  <2> QED BY <2>1, <2>2
<1>5. Firsts \in SUBSET Earlier(S, p)
  BY <1>4 DEF Firsts, Earlier, Before
<1>6. IsFiniteSet(Earlier(S, p))
  BY <1>1, FS_Subset DEF Earlier
<1>7. Cardinality(Firsts) <= Cardinality(Earlier(S, p))
  BY <1>5, <1>6, FS_Subset
<1> QED BY <1>1, <1>3, <1>7

\* How many countries a pool of some size has room for.
Offered(limit) == Min({Cardinality(Countries), limit})

\* A pool begins with places of different countries, as many as there are or as
\* it has room for.
LEMMA PoolBegins ==
  ASSUME NEW limit \in Nat \ {0}
  PROVE  /\ SpawnPool(limit) \in Seq(Places)
         /\ Len(SpawnPool(limit)) \in Nat /\ Len(SpawnPool(limit)) >= 1
         /\ Offered(limit) \in Nat /\ Offered(limit) <= Len(SpawnPool(limit))
         /\ Offered(limit) <= Cardinality(Countries) /\ Offered(limit) <= limit
         /\ \A i \in 1..Offered(limit) : SpawnPool(limit)[i] \in Firsts
         /\ \A i, j \in 1..Offered(limit) : SpawnPool(limit)[i] = SpawnPool(limit)[j] => i = j
<1> DEFINE one == 1
           share == (limit + Cardinality(Countries) - 1) \div Cardinality(Countries)
           most == Max({one, share})
           ranked == {p \in Spawnable : Rank(p) <= most}
           S == IF Countries = {} THEN Places ELSE ranked
           c == Cardinality(S)
           k == Min({limit, c})
           pool == InOrder(S)
           n == Offered(limit)
<1>1. Cardinality(Countries) \in Nat /\ (Countries # {} => Cardinality(Countries) > 0)
  BY FirstOfEach, FS_EmptySet
<1>2. /\ n \in Nat /\ n <= limit /\ n <= Cardinality(Countries)
  <2>1. n \in {Cardinality(Countries), limit} /\ n <= Cardinality(Countries) /\ n <= limit
    BY <1>1, MinOfTwo DEF Offered
  <2> QED BY <1>1, <2>1
<1>3. Countries # {} => most \in Int /\ most >= 1
  <2> SUFFICES ASSUME Countries # {} PROVE most \in Int /\ most >= 1
    OBVIOUS
  <2> DEFINE a == limit + Cardinality(Countries) - 1
             b == Cardinality(Countries)
  <2>1. a \in Int /\ b \in Int /\ b > 0
    BY <1>1
  <2>2. share = a \div b /\ one \in Int /\ one = 1
    OBVIOUS
  <2> HIDE DEF a, b, share, one
  <2>3. share \in Int
    BY <2>1, <2>2
  <2>4. most \in {one, share} /\ most >= one
    BY <2>2, <2>3, MaxOfTwo
  <2> HIDE DEF most
  <2> QED BY <2>2, <2>3, <2>4
<1> HIDE DEF most
<1>4. S \in SUBSET Places /\ (Countries # {} => S \in SUBSET Spawnable /\ Firsts \subseteq S)
  BY <1>3 DEF Spawnable, Firsts
<1>5. SpawnPool(limit) = SubSeq(pool, 1, Min({limit, Len(pool)}))
  BY Zenon DEF SpawnPool, Countries, S, ranked, most, share, one
<1>6. S # {}
  <2>1. CASE Countries = {}
    BY <2>1, LifeAssumption
  <2>2. CASE Countries # {}
    BY <1>4, <2>2, FirstOfEach
  <2> QED BY <2>1, <2>2
<1> HIDE DEF S
<1>7. c \in Nat /\ c > 0 /\ pool \in [1..c -> S]
  BY <1>4, <1>6, InOrderEnumerates, PartsAreFinite, FS_EmptySet
<1>8. \A i, j \in 1..c : pool[i] = pool[j] => i = j
  <2>1. \A i \in 1..c : Cardinality(Earlier(S, pool[i])) = i - 1
    BY <1>4, InOrderEnumerates
  <2> SUFFICES ASSUME NEW i \in 1..c, NEW j \in 1..c, pool[i] = pool[j] PROVE i = j
    OBVIOUS
  <2>2. i - 1 = j - 1
    BY <2>1
  <2> QED BY <1>7, <2>2
<1>9. Cardinality(Countries) <= c /\ \A i \in 1..Cardinality(Countries) : pool[i] \in Firsts
  <2>1. CASE Countries = {}
    <3>1. Cardinality(Countries) = 0
      BY <2>1, FS_EmptySet
    <3> QED BY <1>7, <3>1
  <2>2. CASE Countries # {}
    <3>1. S \in SUBSET Spawnable /\ Firsts \subseteq S
      BY <1>4, <2>2
    <3>2. \A i \in 1..Cardinality(Firsts) : i \in 1..c /\ pool[i] \in Firsts
      BY <3>1, FirstsComeFirst
    <3>3. Cardinality(Countries) <= Cardinality(Firsts) /\ Cardinality(Firsts) \in Nat
      BY FirstOfEach
    <3> HIDE DEF c, pool
    <3> QED BY <1>1, <1>7, <3>2, <3>3
  <2> QED BY <2>1, <2>2
<1>10. pool \in Seq(Places) /\ Len(pool) = c
  BY <1>4, <1>7, SeqOfFunction
<1> HIDE DEF c, pool
<1>11. k \in {limit, c} /\ k <= limit /\ k <= c /\ k \in Nat /\ k >= 1
  <2>1. k \in {limit, c} /\ k <= limit /\ k <= c
    <3>1. limit \in Int /\ c \in Int
      BY <1>7
    <3> QED BY <3>1, MinOfTwo
  <2> QED BY <1>7, <2>1
<1> HIDE DEF k
<1>12. SpawnPool(limit) = SubSeq(pool, 1, k)
  BY <1>5, <1>10 DEF k
<1>13. /\ SubSeq(pool, 1, k) \in Seq(Places) /\ Len(SubSeq(pool, 1, k)) = k
       /\ \A i \in 1..k : SubSeq(pool, 1, k)[i] = pool[i]
  <2>1. \A i \in 1..k : pool[i] \in Places
    BY <1>10, <1>11, ElementOfSeq
  <2>2. /\ SubSeq(pool, 1, k) \in Seq(Places)
        /\ Len(SubSeq(pool, 1, k)) = IF 1 <= k THEN k - 1 + 1 ELSE 0
        /\ \A i \in 1..(k - 1 + 1) : SubSeq(pool, 1, k)[i] = pool[1 + i - 1]
    BY <1>11, <2>1, SubSeqProperties
  <2> QED BY <1>11, <2>2
<1> HIDE DEF n
<1>14. n <= k
  BY <1>2, <1>7, <1>9, <1>11, <1>1
<1>15. \A i \in 1..n : i \in 1..k /\ i \in 1..c /\ i \in 1..Cardinality(Countries)
  BY <1>1, <1>2, <1>7, <1>11, <1>14
<1>16. /\ \A i \in 1..n : SpawnPool(limit)[i] \in Firsts
       /\ \A i, j \in 1..n : SpawnPool(limit)[i] = SpawnPool(limit)[j] => i = j
  BY <1>8, <1>9, <1>12, <1>13, <1>15
<1> QED BY <1>2, <1>11, <1>12, <1>13, <1>14, <1>16 DEF n

LEMMA PoolOf ==
  ASSUME NEW n \in Nat
  PROVE  Max({n, PoolMin}) \in Nat \ {0} /\ Max({n, PoolMin}) >= n /\ Max({n, PoolMin}) >= PoolMin
<1>1. PoolMin \in Nat \ {0}
  BY LifeAssumption
<1>2. Max({n, PoolMin}) \in {n, PoolMin} /\ Max({n, PoolMin}) >= n /\ Max({n, PoolMin}) >= PoolMin
  BY <1>1, MaxOfTwo
<1> QED BY <1>1, <1>2

\* The place of an agent in a pool.
LEMMA PlacesArePlaces ==
  ASSUME NEW pool \in Seq(Places), Len(pool) >= 1, NEW i \in Nat \ {0}
  PROVE  /\ PlaceOf(pool, i) \in Places
         /\ i <= Len(pool) => PlaceOf(pool, i) = pool[i]
<1> DEFINE l == Len(pool)
           r == (i - 1) % l
<1>1. l \in Nat /\ l >= 1
  OBVIOUS
<1>2. PlaceOf(pool, i) = pool[r + 1]
  BY DEF PlaceOf
<1> HIDE DEF l
<1>3. r \in 0..(l - 1) /\ (i <= l => r = i - 1)
  BY <1>1
<1> HIDE DEF r
<1>4. r + 1 \in 1..l /\ (i <= l => r + 1 = i)
  BY <1>1, <1>3
<1> QED BY <1>2, <1>4, ElementOfSeq DEF l

-----------------------------------------------------------------------------
(* What a load covers.                                                      *)

\* A sequence of values has a finite range, of at least as many as are distinct.
LEMMA RangeCounts ==
  ASSUME NEW n \in Nat, NEW f, NEW k \in 0..n, NEW T,
         T \subseteq {f[i] : i \in 1..n}, \A i \in 1..k : f[i] \in T,
         \A i, j \in 1..k : f[i] = f[j] => i = j
  PROVE  IsFiniteSet(T) /\ Cardinality(T) \in Nat /\ k <= Cardinality(T)
<1> DEFINE R == {f[i] : i \in 1..n}
           g == [i \in 1..n |-> f[i]]
           h == [i \in 1..k |-> f[i]]
<1>1. IsFiniteSet(1..n) /\ IsFiniteSet(1..k) /\ Cardinality(1..k) = k
  BY FS_Interval
<1>2. g \in Surjection(1..n, R)
  BY DEF Surjection
<1> HIDE DEF g
<1>3. IsFiniteSet(R)
  BY <1>1, <1>2, FS_Surjection
<1>4. IsFiniteSet(T) /\ Cardinality(T) \in Nat
  BY <1>3, FS_Subset, FS_CardinalityType
<1>5. h \in Injection(1..k, T)
  BY DEF Injection, IsInjective
<1> HIDE DEF h
<1>6. Cardinality(1..k) <= Cardinality(T)
  BY <1>4, <1>5, FS_Injection
<1> QED BY <1>1, <1>4, <1>6

\* The countries of agents at least as many places of a pool's beginning.
LEMMA CoverageCounts ==
  ASSUME NEW n \in Nat, NEW gs, DOMAIN gs = 1..n, NEW k \in 0..n,
         \A i \in 1..k : gs[i].at \in Firsts,
         \A i, j \in 1..k : gs[i].at = gs[j].at => i = j
  PROVE  Cardinality(Coverage(gs)) \in Nat /\ k <= Cardinality(Coverage(gs))
<1> DEFINE f == [i \in 1..n |-> Country[gs[i].at]]
           T == Coverage(gs)
<1>1. T \subseteq {f[i] : i \in 1..n}
  BY DEF Coverage
<1>2. \A i \in 1..k : f[i] = Country[gs[i].at] /\ i \in 1..n
  OBVIOUS
<1>3. \A p \in Firsts : Country[p] # ""
  BY DEF Firsts, Spawnable
<1>4. \A i \in 1..k : f[i] \in T
  BY <1>2, <1>3 DEF Coverage
<1> HIDE DEF f
<1>5. \A i, j \in 1..k : f[i] = f[j] => i = j
  BY <1>2, FirstOfEach
<1> HIDE DEF T
<1>6. Cardinality(T) \in Nat /\ k <= Cardinality(T)
  BY <1>1, <1>4, <1>5, RangeCounts
<1> QED BY <1>6 DEF T

LEMMA AvailableCounts ==
  ASSUME NEW n \in Nat
  PROVE  /\ Cardinality(Available(n)) \in Nat
         /\ Offered(Max({n, PoolMin})) <= Cardinality(Available(n))
<1> DEFINE limit == Max({n, PoolMin})
           pool == SpawnPool(limit)
           f == [i \in 1..Len(pool) |-> Country[pool[i]]]
           k == Offered(limit)
           T == Available(n)
<1>1. limit \in Nat \ {0}
  BY PoolOf
<1>2. T = {Country[p] : p \in ToSet(pool)} \ {""}
  BY Zenon DEF Available, Pool
<1> HIDE DEF limit
<1>3. /\ pool \in Seq(Places) /\ Len(pool) \in Nat /\ k \in 0..Len(pool)
      /\ \A i \in 1..k : pool[i] \in Firsts
      /\ \A i, j \in 1..k : pool[i] = pool[j] => i = j
  BY <1>1, PoolBegins
<1> HIDE DEF k, pool, T
<1>4. DOMAIN pool = 1..Len(pool)
  BY <1>3
<1>5. T \subseteq {f[i] : i \in 1..Len(pool)}
  BY <1>2, <1>4 DEF ToSet
<1>6. \A i \in 1..k : f[i] = Country[pool[i]] /\ i \in 1..Len(pool)
  BY <1>3
<1>7. \A p \in Firsts : Country[p] # ""
  BY DEF Firsts, Spawnable
<1>8. \A i \in 1..k : f[i] \in T
  BY <1>2, <1>3, <1>4, <1>6, <1>7 DEF ToSet
<1> HIDE DEF f
<1>9. \A i, j \in 1..k : f[i] = f[j] => i = j
  BY <1>3, <1>6, FirstOfEach
<1>10. Cardinality(T) \in Nat /\ k <= Cardinality(T)
  BY <1>3, <1>5, <1>8, <1>9, RangeCounts
<1> QED BY <1>10 DEF k, T, limit

\* PlacementCovers, of any agents.
Covers(gs) ==
  LET here  == Cardinality(Coverage(gs))
      there == Offered(Max({Len(gs), PoolMin}))
  IN  here = 0 \/ 5 * here >= 4 * there \/ here >= Min({Len(gs), there})

\* Agents put where the pool of their number says cover what it offers.
LEMMA PlacedCover ==
  ASSUME NEW n \in Nat, NEW gs, DOMAIN gs = 1..n, Len(gs) = n,
         \A i \in 1..n : gs[i].at = PlaceOf(Pool(n), i)
  PROVE  Covers(gs)
<1> DEFINE limit == Max({n, PoolMin})
           pool == SpawnPool(limit)
           there == Offered(limit)
           k == Min({n, there})
<1>1. limit \in Nat \ {0}
  BY PoolOf
<1>2. Pool(n) = pool
  BY DEF Pool
<1> HIDE DEF limit
<1>3. /\ pool \in Seq(Places) /\ Len(pool) >= 1 /\ Len(pool) \in Nat
      /\ there \in Nat /\ there <= Len(pool)
      /\ \A i \in 1..there : pool[i] \in Firsts
      /\ \A i, j \in 1..there : pool[i] = pool[j] => i = j
  BY <1>1, PoolBegins
<1> HIDE DEF pool, there
<1>4. k \in {n, there} /\ k <= n /\ k <= there
  <2>1. n \in Int /\ there \in Int
    BY <1>3
  <2> QED BY <2>1, MinOfTwo
<1>5. k \in 0..n /\ k <= there
  BY <1>3, <1>4
<1> HIDE DEF k
<1>6. \A i \in 1..k : i \in 1..n /\ i \in 1..there /\ gs[i].at = pool[i]
  <2> SUFFICES ASSUME NEW i \in 1..k
               PROVE  i \in 1..n /\ i \in 1..there /\ gs[i].at = pool[i]
    OBVIOUS
  <2>1. i \in 1..n /\ i \in 1..there /\ i \in Nat \ {0} /\ i <= Len(pool)
    BY <1>3, <1>5
  <2>2. PlaceOf(pool, i) = pool[i]
    BY <1>3, <2>1, PlacesArePlaces
  <2> QED BY <1>2, <2>1, <2>2
<1>7. /\ \A i \in 1..k : gs[i].at \in Firsts
      /\ \A i, j \in 1..k : gs[i].at = gs[j].at => i = j
  BY <1>3, <1>6
<1>8. Cardinality(Coverage(gs)) \in Nat /\ k <= Cardinality(Coverage(gs))
  BY <1>5, <1>7, CoverageCounts
<1>9. Cardinality(Coverage(gs)) >= Min({Len(gs), there})
  BY <1>5, <1>8 DEF k
<1> QED BY <1>9 DEF Covers, there, limit

\* Agents left where they are because they cover four fifths of what there is.
LEMMA LeftCover ==
  ASSUME NEW n \in Nat, NEW gs, DOMAIN gs = 1..n, Len(gs) = n,
         ~(Coverage(gs) # {} /\ 5 * Cardinality(Coverage(gs)) < 4 * Cardinality(Available(n)))
  PROVE  Covers(gs)
<1>1. Cardinality(Coverage(gs)) \in Nat
  <2>1. \A i \in 1..0 : gs[i].at \in Firsts /\ \A j \in 1..0 : gs[i].at = gs[j].at => i = j
    OBVIOUS
  <2>2. 0 \in 0..n
    OBVIOUS
  <2> QED BY <2>1, <2>2, CoverageCounts
<1>2. /\ Cardinality(Available(n)) \in Nat
      /\ Offered(Max({n, PoolMin})) <= Cardinality(Available(n))
  BY AvailableCounts
<1>3. Offered(Max({n, PoolMin})) \in Nat
  BY PoolOf, PoolBegins
<1>4. Coverage(gs) = {} => Cardinality(Coverage(gs)) = 0
  BY FS_EmptySet
<1> DEFINE here == Cardinality(Coverage(gs))
           all == Cardinality(Available(n))
           there == Offered(Max({n, PoolMin}))
<1>5. here = 0 \/ 5 * here >= 4 * all
  BY <1>1, <1>2, <1>4
<1>6. there \in Nat /\ all \in Nat /\ there <= all /\ here \in Nat
  BY <1>1, <1>2, <1>3
<1> HIDE DEF here, all, there
<1>7. here = 0 \/ 5 * here >= 4 * there
  BY <1>5, <1>6
<1> QED BY <1>7 DEF Covers, here, there

LEMMA PoolGivesPlaces ==
  ASSUME NEW n \in Nat, NEW i \in Nat \ {0}
  PROVE  PlaceOf(Pool(n), i) \in Places
<1> DEFINE limit == Max({n, PoolMin})
<1>1. limit \in Nat \ {0} /\ Pool(n) = SpawnPool(limit)
  BY PoolOf DEF Pool
<1> HIDE DEF limit
<1>2. SpawnPool(limit) \in Seq(Places) /\ Len(SpawnPool(limit)) >= 1
  BY <1>1, PoolBegins
<1> QED BY <1>1, <1>2, PlacesArePlaces

-----------------------------------------------------------------------------
(* Roads.                                                                   *)

LEMMA RoadFields ==
  ASSUME NEW r \in Roads \cup {NoRoad}
  PROVE  r.d10 \in Nat /\ r.kind \in Kinds
<1>1. CASE r \in Roads
  BY <1>1, LifeAssumption
<1>2. CASE r = NoRoad
  BY <1>2 DEF NoRoad, Kinds
<1> QED BY <1>1, <1>2

\* No road costs more than three thousandths.
LEMMA CostCapped ==
  ASSUME NEW r \in Roads \cup {NoRoad}
  PROVE  MoveCost(r) \in Int /\ MoveCost(r) <= 3000
<1>1. r.d10 \in Nat /\ Effort[r.kind] \in Nat
  <2>1. \A k \in Kinds : Effort[k] \in Nat
    BY DEF Kinds, Effort
  <2> QED BY <2>1, RoadFields
<1> DEFINE c == r.d10 * Effort[r.kind]
<1>2. c \in Int
  <2> DEFINE x == r.d10
             y == Effort[r.kind]
  <2>1. x \in Int /\ y \in Int
    BY <1>1
  <2> HIDE DEF x, y
  <2>2. x * y \in Int
    BY <2>1
  <2> QED BY <2>2 DEF x, y
<1> DEFINE cap == 3000
<1>3. MoveCost(r) = IF r.d10 > 0 THEN Min({cap, c}) ELSE 0
  BY DEF MoveCost
<1>4. cap \in Int
  OBVIOUS
<1> HIDE DEF c, cap
<1>5. Min({cap, c}) \in {cap, c} /\ Min({cap, c}) <= cap
  BY <1>2, <1>4, MinOfTwo
<1> QED BY <1>2, <1>3, <1>4, <1>5 DEF cap

\* The energies lives begin with.
Charges == {e \in Nat : 75000 <= e /\ e <= 100000}

\* Recovery outweighs the capped cost of any road, with room to spare.
LEMMA EnergyStays ==
  ASSUME NEW e \in Charges, NEW r \in Roads \cup {NoRoad}
  PROVE  EnergyAfter(e, r) \in Charges
<1> DEFINE m == MoveCost(r)
           z == 0
           full == 100000
           d == e - m
           k == Max({z, d})
           u == k + 5000
<1>0. e \in Nat /\ 75000 <= e
  BY DEF Charges
<1>1. m \in Int /\ m <= 3000
  BY CostCapped
<1> HIDE DEF m
<1>2. d \in Int /\ d >= 72000 /\ z \in Int /\ full \in Int
  BY <1>0, <1>1
<1>3. EnergyAfter(e, r) = Min({full, u})
  BY DEF EnergyAfter, m
<1> HIDE DEF z, d, full
<1>4. k \in Int /\ k >= 72000
  <2>1. k >= d /\ k \in {z, d}
    BY <1>2, MaxOfTwo
  <2> QED BY <1>2, <2>1
<1> HIDE DEF k
<1>5. u \in Int /\ u >= 77000
  BY <1>4
<1> HIDE DEF u
<1>6. Min({full, u}) \in {full, u} /\ Min({full, u}) <= full
  BY <1>2, <1>5, MinOfTwo
<1> QED BY <1>2, <1>3, <1>5, <1>6 DEF Charges, full

LEMMA JourneyIsLong ==
  ASSUME NEW r \in Roads
  PROVE  JourneyTicks(r) \in Nat /\ JourneyTicks(r) >= 1
<1> DEFINE d == r.d10
           f == SpeedFactor[r.kind]
           five == 5
           g == 5 * f
           v == Max({five, g})
           a == 120 * d + v
           b == 2 * v
           n == a \div b
           one == 1
<1>1. d \in Nat /\ f \in Nat
  <2>1. \A k \in Kinds : SpeedFactor[k] \in Nat
    BY DEF Kinds, SpeedFactor
  <2> QED BY <2>1, RoadFields
<1>2. JourneyTicks(r) = Max({one, n})
  BY DEF JourneyTicks
<1> HIDE DEF d, f
<1>3. five \in Int /\ g \in Int /\ one \in Int
  BY <1>1
<1> HIDE DEF g
<1>4. v \in Int /\ v >= 5
  <2> HIDE DEF five
  <2>1. v \in {five, g} /\ v >= five
    BY <1>3, MaxOfTwo
  <2> QED BY <1>3, <2>1 DEF five
<1> HIDE DEF v
<1>5. a \in Int /\ b \in Int /\ b > 0
  BY <1>1, <1>4
<1> HIDE DEF a, b
<1>6. n \in Int
  BY <1>5
<1> HIDE DEF n, one
<1>7. Max({one, n}) \in {one, n} /\ Max({one, n}) >= one
  BY <1>3, <1>6, MaxOfTwo
<1> QED BY <1>2, <1>3, <1>6, <1>7 DEF one

\* A road joins its two ends in both directions.
LEMMA RoadsJoin ==
  ASSUME NEW p, NEW q \in Neighbours(p)
  PROVE  /\ RoadTo(p, q) \in Roads /\ q \in Places /\ q # p /\ q # None
         /\ p \in Neighbours(q)
<1>1. PICK r \in Roads : r.ends = {p, q}
  BY DEF Neighbours
<1>2. RoadTo(p, q) \in Roads
  BY <1>1, Zenon DEF RoadTo
<1>3. p \in Places /\ q \in Places /\ q # p
  <2>1. r.ends \in SUBSET Places
    BY LifeAssumption
  <2> QED BY <1>1, <2>1 DEF Neighbours
<1>4. q # None
  <2>1. Places \subseteq Nat \ {None}
    BY LifeAssumption
  <2> QED BY <1>3, <2>1
<1>5. p \in Neighbours(q)
  <2>1. r.ends = {q, p}
    BY <1>1
  <2> QED BY <1>3, <2>1 DEF Neighbours
<1> QED BY <1>2, <1>3, <1>4, <1>5

-----------------------------------------------------------------------------
(* Lives.                                                                   *)

\* Goals that are taken: never the one to recover.
Goals == [kind : {"none", "investigate_gap", "explore"}, target : Places \cup {None}]

Shapes == [at : Places, to : Places \cup {None}, left : Nat, road : Roads \cup {NoRoad},
           energy : Charges, state : Places \cup {None}, action : Places \cup {None},
           goal : Goals, age : 0..GoalLife, visited : SUBSET Places, learned : SUBSET Places]

\* An agent under way goes to a neighbour of where it set out, by a road that
\* takes several ticks.
OnItsWay(g) ==
  \/ g.to = None /\ g.left = 0
  \/ g.to \in Neighbours(g.at) /\ g.left >= 1 /\ JourneyTicks(g.road) > 1

\* Only where there are neighbours is a choice made, and it came from there.
HasNeighbours(g) == g.state # None => Neighbours(g.at) # {}

\* What CreditFollowsDecision says of the agent that has just moved.
Credited(g) ==
  /\ g.state # None => g.state # g.at \/ g.to # None
  /\ g.state # None /\ g.to = None => g.action = g.at \/ JourneyTicks(g.road) > 1

LEMMA GapsArePlaces ==
  ASSUME NEW g \in Shapes, NEW seen \in SUBSET Places
  PROVE  GapTargets(g, seen) \in SUBSET Places
<1>1. g.visited \in SUBSET Places /\ g.at \in Places /\ seen \in SUBSET Places
  BY DEF Shapes
<1> QED BY <1>1 DEF GapTargets

\* Not tired enough to recover.
Fit(g) == g.energy \in Nat /\ g.energy >= 15000

\* A goal taken, and a goal kept for another tick.
Takes(g, kind, p) == [g EXCEPT !.goal = GoalFor(kind, p), !.age = 0]
Keeps(g) == [g EXCEPT !.age = @ + 1]

\* An agent that is not tired keeps its goal, looks for a gap or explores.
LEMMA RefreshOptions ==
  ASSUME NEW g, NEW seen, Fit(g)
  PROVE  \A h \in Refreshed(g, seen) :
           \/ h = Keeps(g) /\ Kept(g)
           \/ \E p \in GapTargets(g, seen) : h = Takes(g, "investigate_gap", p)
           \/ \E p \in seen \cup g.visited : h = Takes(g, "explore", p)
<1> DEFINE gaps   == GapTargets(g, seen) \ {g.at}
           unseen == seen \ g.visited
           Take(kind, ps) == {[g EXCEPT !.goal = GoalFor(kind, p), !.age = 0] : p \in ps}
           tired == g.energy < 15000
           fit   == g.energy >= 15000
           rest  == Take("recover", {g.at})
           same  == {[g EXCEPT !.age = @ + 1]}
           look  == Take("investigate_gap", gaps)
           roam  == Take("explore", IF unseen # {} THEN unseen ELSE g.visited)
           some  == gaps # {}
<1>1. Refreshed(g, seen) = CASE tired -> rest
                             [] fit /\ Kept(g) -> same
                             [] fit /\ ~Kept(g) /\ some -> look
                             [] OTHER -> roam
  BY SMT DEF Refreshed
<1>2. ~tired /\ fit
  BY DEF Fit
<1> HIDE DEF tired, fit, rest, same, look, roam, some
<1>3. \A h \in Refreshed(g, seen) : (h \in same /\ Kept(g)) \/ h \in look \/ h \in roam
  BY <1>1, <1>2
<1>4. \A h \in same : h = Keeps(g)
  BY Zenon DEF same, Keeps
<1>5. \A h \in look : \E p \in GapTargets(g, seen) : h = Takes(g, "investigate_gap", p)
  BY Zenon DEF look, Takes
<1>6. \A h \in roam : \E p \in seen \cup g.visited : h = Takes(g, "explore", p)
  BY Zenon DEF roam, Takes
<1> QED BY <1>3, <1>4, <1>5, <1>6

\* An agent that is not tired takes or keeps a goal other than to recover, and
\* refreshing the goal changes nothing else.
LEMMA RefreshKeepsLife ==
  ASSUME NEW g \in Shapes, NEW seen \in SUBSET Places, NEW h \in Refreshed(g, seen)
  PROVE  /\ h \in Shapes
         /\ h.at = g.at /\ h.to = g.to /\ h.left = g.left /\ h.road = g.road
         /\ h.state = g.state /\ h.action = g.action
         /\ h.visited = g.visited /\ h.learned = g.learned
<1>1. Fit(g)
  BY DEF Fit, Shapes, Charges
<1>2. GapTargets(g, seen) \in SUBSET Places /\ seen \cup g.visited \in SUBSET Places
  BY GapsArePlaces DEF Shapes
<1>3. \/ h = Keeps(g) /\ Kept(g)
      \/ \E p \in GapTargets(g, seen) : h = Takes(g, "investigate_gap", p)
      \/ \E p \in seen \cup g.visited : h = Takes(g, "explore", p)
  BY <1>1, RefreshOptions
<1>4. CASE h = Keeps(g) /\ Kept(g)
  <2>1. g.age + 1 \in 0..GoalLife
    BY <1>4 DEF Kept, Shapes
  <2> QED BY <1>4, <2>1 DEF Shapes, Keeps
<1>5. ASSUME NEW kind \in {"investigate_gap", "explore"}, NEW p \in Places, h = Takes(g, kind, p)
      PROVE  /\ h \in Shapes
             /\ h.at = g.at /\ h.to = g.to /\ h.left = g.left /\ h.road = g.road
             /\ h.state = g.state /\ h.action = g.action
             /\ h.visited = g.visited /\ h.learned = g.learned
  <2>1. GoalFor(kind, p) \in Goals /\ 0 \in 0..GoalLife
    BY LifeAssumption DEF GoalFor, Goals
  <2> QED BY <1>5, <2>1 DEF Shapes, Takes
<1> QED BY <1>2, <1>3, <1>4, <1>5

\* The last tick of a journey, to q.
Arrives(g, q) == [g EXCEPT !.left = 0, !.at = q, !.to = None]

LEMMA ArrivalKeepsShape ==
  ASSUME NEW g \in Shapes, NEW q \in Places,
         NEW m, m = Arrives(g, q)
  PROVE  /\ m \in Shapes /\ m.at = q /\ m.to = None /\ m.left = 0 /\ m.road = g.road
         /\ m.state = g.state /\ m.visited = g.visited /\ m.learned = g.learned
<1> DEFINE k == [g EXCEPT !.left = 0, !.at = q]
<1>1. /\ k \in Shapes /\ k.at = q /\ k.left = 0 /\ k.road = g.road
      /\ k.state = g.state /\ k.visited = g.visited /\ k.learned = g.learned
  BY DEF Shapes
<1>2. m = [k EXCEPT !.to = None]
  BY DEF Arrives
<1> HIDE DEF k
<1> QED BY <1>1, <1>2 DEF Shapes

\* An agent sees its neighbours when their connections are cached: then its
\* move is the choice the next reward is credited to, or leads nowhere.
LEMMA MoveKeepsLife ==
  ASSUME NEW g \in Shapes, OnItsWay(g), HasNeighbours(g), NEW seen, seen = Neighbours(g.at),
         NEW h \in Refreshed(g, seen), NEW p \in Options(g, seen),
         NEW m, m = Moved(Chosen(h, seen, p), p)
  PROVE  /\ m \in Shapes /\ OnItsWay(m) /\ HasNeighbours(m) /\ Credited(m)
         /\ m.visited = g.visited /\ m.learned = g.learned
<1> DEFINE c == Chosen(h, seen, p)
           r == RoadTo(g.at, p)
           n == JourneyTicks(r)
<1>1. seen \in SUBSET Places
  BY DEF Neighbours
<1>2. /\ h \in Shapes
      /\ h.at = g.at /\ h.to = g.to /\ h.left = g.left /\ h.road = g.road
      /\ h.state = g.state /\ h.action = g.action
      /\ h.visited = g.visited /\ h.learned = g.learned
  BY <1>1, RefreshKeepsLife
<1>3. p \in Places /\ (seen = {} => p = g.at) /\ (seen # {} => p \in Neighbours(g.at))
  BY <1>1 DEF Options, Shapes
<1>4. /\ c \in Shapes
      /\ c.at = g.at /\ c.to = g.to /\ c.left = g.left /\ c.road = g.road
      /\ c.visited = g.visited /\ c.learned = g.learned
      /\ seen # {} => c.state = g.at /\ c.action = p
      /\ seen = {} => c.state = None
  BY <1>2, <1>3 DEF Chosen, Shapes, HasNeighbours
<1>5. m = CASE IsTraveling(c) /\ c.left > 1 -> [c EXCEPT !.left = @ - 1]
            [] IsTraveling(c) /\ c.left = 1 -> [c EXCEPT !.left = 0, !.at = c.to, !.to = None]
            [] ~IsTraveling(c) /\ p = c.at  -> [c EXCEPT !.road = NoRoad]
            [] ~IsTraveling(c) /\ p # c.at  ->
                 IF n = 1 THEN [c EXCEPT !.at = p, !.road = r]
                 ELSE [c EXCEPT !.to = p, !.left = n, !.road = r]
  BY <1>4, Zenon DEF Moved
<1> HIDE DEF c, n, r
<1>6. OnItsWay(c)
  BY <1>4 DEF OnItsWay
<1>7. c.left \in Nat /\ c.at \in Places
  BY <1>4 DEF Shapes
<1>8. c \in Shapes
  BY <1>4
<1>9. CASE IsTraveling(c) /\ c.left > 1
  <2>1. m = [c EXCEPT !.left = @ - 1]
    BY <1>5, <1>9
  <2>2. c.to \in Neighbours(c.at) /\ JourneyTicks(c.road) > 1
    BY <1>6, <1>9 DEF OnItsWay
  <2>3. c.to # None
    BY <2>2, RoadsJoin
  <2>4. /\ m \in Shapes /\ m.at = c.at /\ m.to = c.to /\ m.left >= 1 /\ m.road = c.road
        /\ m.state = c.state /\ m.visited = c.visited /\ m.learned = c.learned
    BY <1>4, <1>7, <1>9, <2>1 DEF Shapes
  <2> QED BY <1>4, <2>2, <2>3, <2>4 DEF OnItsWay, HasNeighbours, Credited
<1>10. CASE IsTraveling(c) /\ c.left = 1
  <2>1. m = Arrives(c, c.to)
    BY <1>5, <1>10 DEF Arrives
  <2>2. c.to \in Neighbours(c.at) /\ JourneyTicks(c.road) > 1
    BY <1>6, <1>10 DEF OnItsWay
  <2>3. c.to \in Places /\ c.to # c.at /\ c.at \in Neighbours(c.to)
    BY <2>2, RoadsJoin
  <2>4. /\ m \in Shapes /\ m.at = c.to /\ m.to = None /\ m.left = 0 /\ m.road = c.road
        /\ m.state = c.state /\ m.visited = c.visited /\ m.learned = c.learned
    <3>1. c.to \in Places /\ c \in Shapes
      BY <1>4, <2>3
    <3>2. /\ m \in Shapes /\ m.at = c.to /\ m.to = None /\ m.left = 0 /\ m.road = c.road
          /\ m.state = c.state /\ m.visited = c.visited /\ m.learned = c.learned
      BY <2>1, <3>1, ArrivalKeepsShape
    <3> QED BY <3>2
  <2>5. c.state = c.at
    BY <1>4, <2>2
  <2> QED BY <1>4, <2>2, <2>3, <2>4, <2>5 DEF OnItsWay, HasNeighbours, Credited
<1>11. CASE ~IsTraveling(c) /\ p = c.at
  <2>1. m = [c EXCEPT !.road = NoRoad]
    BY <1>5, <1>11
  <2>2. seen = {}
    BY <1>3, <1>4, <1>11, RoadsJoin
  <2>3. /\ m \in Shapes /\ m.at = c.at /\ m.to = c.to /\ m.left = c.left
        /\ m.state = None /\ m.visited = c.visited /\ m.learned = c.learned
    BY <1>4, <2>1, <2>2 DEF Shapes
  <2>4. m.to = None /\ m.left = 0
    BY <1>4, <1>6, <2>2, <2>3 DEF OnItsWay
  <2> QED BY <1>4, <2>3, <2>4 DEF OnItsWay, HasNeighbours, Credited
<1>12. CASE ~IsTraveling(c) /\ p # c.at
  <2>1. p \in Neighbours(c.at) /\ seen # {}
    BY <1>3, <1>4, <1>12
  <2>2. /\ r \in Roads /\ p \in Places /\ p # None /\ c.at \in Neighbours(p)
        /\ n \in Nat /\ n >= 1
    <3>1. r \in Roads /\ p \in Places /\ p # None /\ c.at \in Neighbours(p)
      BY <1>4, <2>1, RoadsJoin DEF r
    <3> QED BY <3>1, JourneyIsLong DEF n
  <2>3. c.to = None /\ c.left = 0
    <3>1. CASE c.to \in Neighbours(c.at) /\ c.left >= 1
      BY <1>7, <1>12, <3>1, RoadsJoin DEF IsTraveling
    <3> QED BY <1>6, <3>1 DEF OnItsWay
  <2>4. c.state = c.at /\ c.action = p
    BY <1>4, <2>1
  <2>5. CASE n = 1
    <3>1. m = [c EXCEPT !.at = p, !.road = r]
      BY <1>5, <1>12, <2>5
    <3>2. /\ m \in Shapes /\ m.at = p /\ m.to = None /\ m.left = 0 /\ m.action = p
          /\ m.state = c.at /\ m.visited = c.visited /\ m.learned = c.learned
      BY <1>8, <2>2, <2>3, <2>4, <3>1 DEF Shapes
    <3> QED BY <1>4, <1>12, <2>2, <3>2 DEF OnItsWay, HasNeighbours, Credited
  <2>6. CASE n # 1
    <3>1. m = [c EXCEPT !.to = p, !.left = n, !.road = r]
      BY <1>5, <1>12, <2>6
    <3>2. /\ m \in Shapes /\ m.at = c.at /\ m.to = p /\ m.left = n /\ m.road = r
          /\ m.state = c.at /\ m.visited = c.visited /\ m.learned = c.learned
      BY <1>8, <2>2, <2>4, <3>1 DEF Shapes
    <3>3. JourneyTicks(m.road) > 1
      BY <2>2, <2>6, <3>2 DEF n
    <3> QED BY <1>4, <2>1, <2>2, <3>2, <3>3 DEF OnItsWay, HasNeighbours, Credited
  <2> QED BY <2>5, <2>6
<1> QED BY <1>7, <1>9, <1>10, <1>11, <1>12 DEF IsTraveling

\* Learning happens on the spot.
LEMMA LearningKeepsLife ==
  ASSUME NEW g \in Shapes, NEW l, l = Learned(g)
  PROVE  /\ l \in Shapes
         /\ l.at = g.at /\ l.to = g.to /\ l.left = g.left /\ l.road = g.road
         /\ l.state = g.state
         /\ l.at \in l.visited /\ l.at \in l.learned
<1>1. EnergyAfter(g.energy, g.road) \in Charges
  BY EnergyStays DEF Shapes
<1> QED BY <1>1 DEF Learned, Shapes

-----------------------------------------------------------------------------
(* Saving, restoring and placing.                                           *)

\* What rows hold: nobody under way, no choice to credit; and, unless a pause
\* came between, the place an agent is at among those it has visited.
Restored == {g \in Shapes : g.to = None /\ g.left = 0 /\ g.state = None}
Settled == {g \in Restored : g.at \in g.visited}

LEMMA SavingRestores ==
  ASSUME NEW g \in Shapes
  PROVE  /\ Persisted(g) \in Restored
         /\ g.at \in g.visited => Persisted(g) \in Settled
<1> DEFINE k == [g EXCEPT !.to = None, !.left = 0]
           l == [k EXCEPT !.state = None]
           m == [l EXCEPT !.action = None]
<1>1. k \in Shapes /\ k.to = None /\ k.left = 0 /\ k.at = g.at /\ k.visited = g.visited
  BY DEF Shapes
<1>2. Persisted(g) = m
  BY DEF Persisted
<1> HIDE DEF k
<1>3. /\ l \in Shapes /\ l.to = None /\ l.left = 0 /\ l.state = None
      /\ l.at = g.at /\ l.visited = g.visited
  BY <1>1 DEF Shapes
<1> HIDE DEF l
<1>4. /\ m \in Shapes /\ m.to = None /\ m.left = 0 /\ m.state = None
      /\ m.at = g.at /\ m.visited = g.visited
  BY <1>3 DEF Shapes
<1> HIDE DEF m
<1> QED BY <1>2, <1>4 DEF Restored, Settled

LEMMA NewbornsSettled ==
  ASSUME NEW p \in Places, NEW e \in Charges
  PROVE  Newborn(p, e) \in Settled
<1>1. NoGoal \in Goals /\ 0 \in 0..GoalLife
  BY LifeAssumption DEF NoGoal, Goals
<1>2. Newborn(p, e) \in Shapes
  BY <1>1 DEF Newborn, Shapes
<1> QED BY <1>2 DEF Newborn, Restored, Settled

\* An agent put where the pool says.
PutAt(g, p) == [g EXCEPT !.at = p, !.road = NoRoad, !.visited = @ \cup {p}]

LEMMA PuttingSettles ==
  ASSUME NEW g \in Restored, NEW p \in Places
  PROVE  PutAt(g, p) \in Settled /\ PutAt(g, p).at = p
<1> DEFINE k == [g EXCEPT !.at = p, !.road = NoRoad]
           m == [k EXCEPT !.visited = @ \cup {p}]
<1>1. k \in Shapes /\ k.at = p /\ k.to = None /\ k.left = 0 /\ k.state = None
  BY DEF Shapes, Restored
<1>2. PutAt(g, p) = m
  BY DEF PutAt
<1> HIDE DEF k
<1>3. m \in Shapes /\ m.at = p /\ m.to = None /\ m.left = 0 /\ m.state = None /\ p \in m.visited
  BY <1>1 DEF Shapes
<1> HIDE DEF m
<1> QED BY <1>2, <1>3 DEF Restored, Settled

LEMMA BirthsAreCharges ==
  ASSUME NEW e \in BirthEnergy
  PROVE  e \in Charges
BY LifeAssumption DEF Charges

LEMMA BootstrapSettles ==
  ASSUME NEW n \in Nat, NEW e \in Charges
  PROVE  Bootstrap(n, e) \in Seq(Settled) /\ Len(Bootstrap(n, e)) = n
<1>1. \A i \in 1..n : PlaceOf(Pool(n), i) \in Places
  BY PoolGivesPlaces
<1>2. \A i \in 1..n : Newborn(PlaceOf(Pool(n), i), e) \in Settled
  BY <1>1, NewbornsSettled
<1>3. Bootstrap(n, e) \in [1..n -> Settled]
  BY <1>2 DEF Bootstrap
<1> QED BY <1>3, SeqOfFunction

LEMMA ConfiguredLives ==
  ASSUME NEW n \in Configured, NEW e \in BirthEnergy
  PROVE  e \in Charges /\ n \in Nat /\ n >= 1
<1>1. Configured \subseteq Nat \ {0}
  BY LifeAssumption
<1> QED BY <1>1, BirthsAreCharges

\* The rows restored and topped up.
Topped(rows, n, e) == rows \o SubSeq(Bootstrap(Max({n, Len(rows)}), e), Len(rows) + 1, n)

LEMMA ToppingRestores ==
  ASSUME NEW S \in {Restored, Settled}, NEW rows \in Seq(S),
         NEW n \in Configured, NEW e \in BirthEnergy
  PROVE  Topped(rows, n, e) \in Seq(S) /\ Len(Topped(rows, n, e)) >= Len(rows)
<1> DEFINE top == Max({n, Len(rows)})
           more == SubSeq(Bootstrap(top, e), Len(rows) + 1, n)
<1>1. e \in Charges /\ n \in Nat /\ n >= 1
  BY ConfiguredLives
<1>2. Settled \subseteq S
  BY DEF Settled
<1>3. Len(rows) \in Nat
  BY LenProperties
<1>4. top \in Nat /\ top >= n
  <2>1. n \in Int /\ Len(rows) \in Int
    BY <1>1, <1>3
  <2>2. top \in {n, Len(rows)} /\ top >= n
    BY <2>1, MaxOfTwo
  <2> QED BY <1>1, <1>3, <2>2
<1>5. Topped(rows, n, e) = rows \o more
  BY DEF Topped
<1> HIDE DEF top
<1>6. Bootstrap(top, e) \in Seq(S) /\ Len(Bootstrap(top, e)) = top
  <2>1. Bootstrap(top, e) \in Seq(Settled) /\ Len(Bootstrap(top, e)) = top
    BY <1>1, <1>4, BootstrapSettles
  <2> QED BY <1>2, <2>1, SeqMonotonic
<1>7. more \in Seq(S)
  <2>1. \A i \in (Len(rows) + 1)..n : Bootstrap(top, e)[i] \in S
    <3> SUFFICES ASSUME NEW i \in (Len(rows) + 1)..n PROVE Bootstrap(top, e)[i] \in S
      OBVIOUS
    <3>1. i \in 1..Len(Bootstrap(top, e))
      BY <1>1, <1>3, <1>4, <1>6
    <3> QED BY <1>6, <3>1, ElementOfSeq
  <2>2. Len(rows) + 1 \in Int /\ n \in Int
    BY <1>1, <1>3
  <2> QED BY <2>1, <2>2, SubSeqProperties
<1> HIDE DEF more
<1>8. /\ rows \o more \in Seq(S) /\ Len(rows \o more) = Len(rows) + Len(more)
      /\ Len(more) \in Nat
  BY <1>7, ConcatProperties, LenProperties
<1> QED BY <1>3, <1>5, <1>8

LEMMA RedeployingSettles ==
  ASSUME NEW S \in {Restored, Settled}, NEW gs \in Seq(S)
  PROVE  /\ Redeployed(gs) \in Seq(S) /\ Len(Redeployed(gs)) = Len(gs)
         /\ DOMAIN Redeployed(gs) = 1..Len(gs)
         /\ \A i \in 1..Len(gs) : Redeployed(gs)[i].at = PlaceOf(Pool(Len(gs)), i)
<1> DEFINE Spot(i) == PlaceOf(Pool(Len(gs)), i)
           put == [i \in 1..Len(gs) |-> PutAt(gs[i], Spot(i))]
<1>1. Settled \subseteq S /\ S \subseteq Restored
  BY DEF Settled
<1>2. Len(gs) \in Nat /\ DOMAIN gs = 1..Len(gs) /\ \A i \in DOMAIN gs : gs[i] \in S
  BY LenProperties, ElementOfSeq
<1>3. Redeployed(gs) = put
  BY <1>2, Zenon DEF Redeployed, PutAt
<1>4. \A i \in 1..Len(gs) : PutAt(gs[i], Spot(i)) \in S /\ PutAt(gs[i], Spot(i)).at = Spot(i)
  <2> SUFFICES ASSUME NEW i \in 1..Len(gs)
               PROVE  PutAt(gs[i], Spot(i)) \in S /\ PutAt(gs[i], Spot(i)).at = Spot(i)
    OBVIOUS
  <2>1. Spot(i) \in Places
    BY <1>2, PoolGivesPlaces
  <2>2. gs[i] \in Restored
    BY <1>1, <1>2
  <2> HIDE DEF Spot
  <2>3. PutAt(gs[i], Spot(i)) \in Settled /\ PutAt(gs[i], Spot(i)).at = Spot(i)
    BY <2>1, <2>2, PuttingSettles
  <2> QED BY <1>1, <2>3
<1>5. put \in [1..Len(gs) -> S] /\ \A i \in 1..Len(gs) : put[i].at = Spot(i)
  BY <1>4
<1> HIDE DEF put
<1>6. put \in Seq(S) /\ Len(put) = Len(gs) /\ DOMAIN put = 1..Len(gs)
  BY <1>2, <1>5, SeqOfFunction
<1> QED BY <1>3, <1>5, <1>6

\* What is loaded is restored, and settled if what was saved is.
LEMMA LoadingRestores ==
  ASSUME NEW S \in {Restored, Settled}, NEW rows \in Seq(S),
         NEW n \in Configured, NEW e \in BirthEnergy
  PROVE  Loaded(rows, n, e) \in Seq(S) /\ Len(Loaded(rows, n, e)) >= 1
<1> DEFINE topped == Topped(rows, n, e)
<1>1. e \in Charges /\ n \in Nat /\ n >= 1
  BY ConfiguredLives
<1>2. CASE rows = <<>>
  <2>1. Loaded(rows, n, e) = Bootstrap(n, e)
    BY <1>2, Zenon DEF Loaded
  <2>2. Bootstrap(n, e) \in Seq(Settled) /\ Len(Bootstrap(n, e)) = n
    BY <1>1, BootstrapSettles
  <2>3. Settled \subseteq S
    BY DEF Settled
  <2> QED BY <1>1, <2>1, <2>2, <2>3, SeqMonotonic
<1>3. CASE rows # <<>>
  <2>1. Len(rows) \in Nat /\ Len(rows) >= 1
    BY <1>3, LenProperties, EmptySeq
  <2>2. topped \in Seq(S) /\ Len(topped) >= Len(rows)
    BY ToppingRestores
  <2>3. Loaded(rows, n, e) \in {topped, Redeployed(topped)}
    BY <1>3, Zenon DEF Loaded, Topped
  <2> HIDE DEF topped
  <2>4. Redeployed(topped) \in Seq(S) /\ Len(Redeployed(topped)) = Len(topped) /\ Len(topped) \in Nat
    BY <2>2, RedeployingSettles, LenProperties
  <2> QED BY <2>1, <2>2, <2>3, <2>4
<1> QED BY <1>2, <1>3

LEMMA BootstrapCovers ==
  ASSUME NEW n \in Nat, NEW e \in Charges
  PROVE  Covers(Bootstrap(n, e))
<1> DEFINE gs == Bootstrap(n, e)
<1>1. gs \in Seq(Settled) /\ Len(gs) = n
  BY BootstrapSettles
<1>2. DOMAIN gs = 1..n /\ \A i \in 1..n : gs[i].at = PlaceOf(Pool(n), i)
  BY DEF Bootstrap, Newborn
<1> HIDE DEF gs
<1>3. Covers(gs)
  BY <1>1, <1>2, PlacedCover
<1> QED BY <1>3 DEF gs

\* Whether it was redeployed or left, what is loaded covers.
LEMMA LoadingCovers ==
  ASSUME NEW rows \in Seq(Restored), NEW n \in Configured, NEW e \in BirthEnergy
  PROVE  Covers(Loaded(rows, n, e))
<1> DEFINE topped == Topped(rows, n, e)
           here == Coverage(topped)
           all == Available(Len(topped))
<1>1. e \in Charges /\ n \in Nat
  BY ConfiguredLives
<1>2. CASE rows = <<>>
  <2>1. Loaded(rows, n, e) = Bootstrap(n, e)
    BY <1>2, Zenon DEF Loaded
  <2> QED BY <1>1, <2>1, BootstrapCovers
<1>3. CASE rows # <<>>
  <2>1. Loaded(rows, n, e) = IF here # {} /\ 5 * Cardinality(here) < 4 * Cardinality(all)
                             THEN Redeployed(topped) ELSE topped
    BY <1>3, Zenon DEF Loaded, Topped, here, all, topped
  <2>2. topped \in Seq(Restored)
    BY ToppingRestores
  <2>3. Len(topped) \in Nat /\ DOMAIN topped = 1..Len(topped)
    BY <2>2, LenProperties
  <2> HIDE DEF topped
  <2>4. CASE here # {} /\ 5 * Cardinality(here) < 4 * Cardinality(all)
    <3> DEFINE put == Redeployed(topped)
    <3>1. /\ DOMAIN put = 1..Len(topped)
          /\ \A i \in 1..Len(topped) : put[i].at = PlaceOf(Pool(Len(topped)), i)
      BY <2>2, RedeployingSettles
    <3>2. Len(put) = Len(topped)
      BY <2>2, RedeployingSettles
    <3> HIDE DEF put
    <3>3. Covers(put)
      BY <2>3, <3>1, <3>2, PlacedCover
    <3> QED BY <2>1, <2>4, <3>3 DEF put
  <2>5. CASE ~(here # {} /\ 5 * Cardinality(here) < 4 * Cardinality(all))
    <3>1. Covers(topped)
      BY <2>3, <2>5, LeftCover
    <3> QED BY <2>1, <2>5, <3>1
  <2> QED BY <2>4, <2>5
<1> QED BY <1>2, <1>3

-----------------------------------------------------------------------------
(* The invariant.                                                           *)

\* Agents have the shape of lives, and the loop stands at one of them.
LivesShaped ==
  /\ agent \in Seq(Shapes) /\ Len(agent) >= 1
  /\ pc \in [at : {"loaded", "idle", "paused", "move", "learn", "save"}, who : Nat]
  /\ pc.at \in {"move", "learn"} => pc.who \in 1..Len(agent)

\* Where they are and where they go belong together.
WaysJoin == \A i \in 1..Len(agent) : OnItsWay(agent[i]) /\ HasNeighbours(agent[i])

\* Who has not moved yet sees its neighbours.
NeighboursCached ==
  \A i \in 1..Len(agent) :
    \/ pc.at = "move" /\ i >= pc.who
    \/ pc.at = "learn" /\ i > pc.who
    => agent[i].at \in cached

\* Who has had its turn has observed where it is.
TurnsObserved ==
  \A i \in 1..Len(agent) :
    \/ pc.at \in {"idle", "save"}
    \/ pc.at \in {"move", "learn"} /\ i < pc.who
    => agent[i].at \in agent[i].learned

\* As long as no pause came between, only who has just moved has not counted
\* its place as visited.
PlacesCounted ==
  /\ ~cut => \A i \in 1..Len(agent) :
               (pc.at = "learn" /\ i = pc.who) \/ agent[i].at \in agent[i].visited
  /\ row.agents \in Seq(Restored)
  /\ ~cut => row.agents \in Seq(Settled)

JustCredited == pc.at = "learn" => Credited(agent[pc.who])

LifeInvariant ==
  /\ LivesShaped /\ WaysJoin /\ NeighboursCached
  /\ TurnsObserved /\ PlacesCounted /\ JustCredited

\* Restored agents stand still and have nothing to credit.
LEMMA RestoredStandStill ==
  ASSUME NEW g \in Restored
  PROVE  g \in Shapes /\ OnItsWay(g) /\ HasNeighbours(g)
BY DEF Restored, OnItsWay, HasNeighbours

\* Agents that have just been put into a world.
JustLoaded ==
  /\ \E S \in {Restored, Settled} : agent \in Seq(S) /\ (~cut => S = Settled)
  /\ Len(agent) >= 1 /\ pc = At("loaded", 0)
  /\ row.agents \in Seq(Restored) /\ (~cut => row.agents \in Seq(Settled))

LEMMA LoadedIsInvariant == JustLoaded => LifeInvariant
<1> SUFFICES ASSUME JustLoaded PROVE LifeInvariant
  OBVIOUS
<1>0. PICK S \in {Restored, Settled} : agent \in Seq(S) /\ (~cut => S = Settled)
  BY DEF JustLoaded
<1>1. S \subseteq Restored /\ Settled \subseteq Restored
  BY DEF Settled
<1>2. agent \in Seq(Shapes) /\ Len(agent) \in Nat
  <2>1. Restored \subseteq Shapes
    BY DEF Restored
  <2> QED BY <1>0, <1>1, <2>1, SeqMonotonic, LenProperties
<1>3. \A i \in 1..Len(agent) : agent[i] \in S
  BY <1>0, ElementOfSeq
<1>4. pc.at = "loaded" /\ pc.who = 0
  BY DEF JustLoaded, At
<1>5. LivesShaped
  BY <1>2, <1>4 DEF LivesShaped, JustLoaded, At
<1>6. WaysJoin
  BY <1>1, <1>3, RestoredStandStill DEF WaysJoin
<1>7. PlacesCounted
  BY <1>0, <1>3 DEF PlacesCounted, Settled, JustLoaded
<1> QED BY <1>4, <1>5, <1>6, <1>7 DEF LifeInvariant, NeighboursCached, TurnsObserved, JustCredited

LEMMA LifeBegins == Init => LifeInvariant
<1> SUFFICES ASSUME Init PROVE LifeInvariant
  OBVIOUS
<1>1. PICK n \in Configured, e \in BirthEnergy : agent = Bootstrap(n, e)
  BY DEF Init
<1>2. n \in Nat /\ n >= 1 /\ e \in Charges
  <2>1. Configured \subseteq Nat \ {0}
    BY LifeAssumption
  <2> QED BY <2>1, BirthsAreCharges
<1>3. agent \in Seq(Settled) /\ Len(agent) >= 1
  BY <1>1, <1>2, BootstrapSettles
<1>4. row.agents = <<>> /\ pc = At("loaded", 0)
  BY DEF Init
<1>5. row.agents \in Seq(Restored) /\ row.agents \in Seq(Settled)
  BY <1>4, EmptySeq
<1> QED BY <1>3, <1>4, <1>5, LoadedIsInvariant DEF JustLoaded

\* One agent replaced by another.
LEMMA OneAgentChanges ==
  ASSUME agent \in Seq(Shapes), NEW i \in 1..Len(agent), NEW g \in Shapes,
         agent' = [agent EXCEPT ![i] = g]
  PROVE  /\ agent' \in Seq(Shapes) /\ Len(agent') = Len(agent) /\ agent'[i] = g
         /\ \A j \in 1..Len(agent) : j # i => agent'[j] = agent[j]
BY ExceptSeq

LEMMA PremoveKeepsLife == LifeInvariant /\ Premove => LifeInvariant'
<1> SUFFICES ASSUME LifeInvariant, Premove PROVE LifeInvariant'
  OBVIOUS
<1> DEFINE w == pc.who
           g == agent[w]
           seen == Seen(g.at)
<1>1. /\ agent \in Seq(Shapes) /\ Len(agent) \in Nat /\ Len(agent) >= 1
      /\ w \in 1..Len(agent) /\ pc.at = "move"
  BY LenProperties DEF LifeInvariant, LivesShaped, Premove
<1>2. g \in Shapes /\ OnItsWay(g) /\ HasNeighbours(g)
  BY <1>1, ElementOfSeq DEF LifeInvariant, WaysJoin
<1>3. seen = Neighbours(g.at)
  BY <1>1 DEF LifeInvariant, NeighboursCached, Seen
<1>4. PICK h \in Refreshed(g, seen), p \in Options(g, seen) :
        agent' = [agent EXCEPT ![w] = Moved(Chosen(h, seen, p), p)]
  BY DEF Premove
<1>5. pc' = At("learn", w) /\ UNCHANGED <<tick, cached, row, faults, cut>>
  BY DEF Premove
<1> DEFINE m == Moved(Chosen(h, seen, p), p)
<1>6. /\ m \in Shapes /\ OnItsWay(m) /\ HasNeighbours(m) /\ Credited(m)
      /\ m.visited = g.visited /\ m.learned = g.learned
  <2> HIDE DEF g, seen
  <2> QED BY <1>2, <1>3, <1>4, MoveKeepsLife
<1> HIDE DEF m, seen
<1>7. /\ agent' \in Seq(Shapes) /\ Len(agent') = Len(agent) /\ agent'[w] = m
      /\ \A j \in 1..Len(agent) : j # w => agent'[j] = agent[j]
  BY <1>1, <1>4, <1>6, OneAgentChanges DEF m
<1>8. pc'.at = "learn" /\ pc'.who = w
  BY <1>5 DEF At
<1> HIDE DEF w, g
<1>9. LivesShaped'
  BY <1>1, <1>5, <1>7, <1>8 DEF LivesShaped, At
<1>10. WaysJoin'
  BY <1>1, <1>6, <1>7 DEF WaysJoin, LifeInvariant
<1>11. NeighboursCached'
  BY <1>1, <1>5, <1>7, <1>8 DEF NeighboursCached, LifeInvariant, w
<1>12. TurnsObserved'
  BY <1>1, <1>7, <1>8 DEF TurnsObserved, LifeInvariant, w
<1>13. PlacesCounted'
  BY <1>1, <1>5, <1>7, <1>8 DEF PlacesCounted, LifeInvariant
<1>14. JustCredited'
  BY <1>6, <1>7, <1>8 DEF JustCredited
<1> QED BY <1>9, <1>10, <1>11, <1>12, <1>13, <1>14 DEF LifeInvariant

LEMMA PostmoveKeepsLife == LifeInvariant /\ Postmove => LifeInvariant'
<1> SUFFICES ASSUME LifeInvariant, Postmove PROVE LifeInvariant'
  OBVIOUS
<1> DEFINE w == pc.who
           g == agent[w]
           l == Learned(g)
<1>1. /\ agent \in Seq(Shapes) /\ Len(agent) \in Nat /\ Len(agent) >= 1
      /\ w \in 1..Len(agent) /\ pc.at = "learn"
  BY LenProperties DEF LifeInvariant, LivesShaped, Postmove
<1>2. g \in Shapes /\ OnItsWay(g) /\ HasNeighbours(g)
  BY <1>1, ElementOfSeq DEF LifeInvariant, WaysJoin
<1>3. agent' = [agent EXCEPT ![w] = l]
  BY DEF Postmove
<1>4. /\ l \in Shapes
      /\ l.at = g.at /\ l.to = g.to /\ l.left = g.left /\ l.road = g.road /\ l.state = g.state
      /\ l.at \in l.visited /\ l.at \in l.learned
  BY <1>2, LearningKeepsLife
<1>5. UNCHANGED <<tick, cached, row, faults, cut>>
  BY DEF Postmove
<1>6. pc' = IF w < Len(agent) THEN At("move", w + 1)
            ELSE At(IF tick % SaveEvery = 0 THEN "save" ELSE "idle", 0)
  BY DEF Postmove
<1>7. OnItsWay(l) /\ HasNeighbours(l)
  BY <1>2, <1>4 DEF OnItsWay, HasNeighbours
<1> HIDE DEF l
<1>8. /\ agent' \in Seq(Shapes) /\ Len(agent') = Len(agent) /\ agent'[w] = l
      /\ \A j \in 1..Len(agent) : j # w => agent'[j] = agent[j]
  BY <1>1, <1>3, <1>4, OneAgentChanges
<1>9. \/ w < Len(agent) /\ pc' = At("move", w + 1)
      \/ w = Len(agent) /\ \E s \in {"save", "idle"} : pc' = At(s, 0)
  BY <1>1, <1>6
<1> HIDE DEF w, g
<1>10. LivesShaped'
  BY <1>1, <1>8, <1>9 DEF LivesShaped, At
<1>11. WaysJoin'
  BY <1>1, <1>7, <1>8 DEF WaysJoin, LifeInvariant
<1>12. NeighboursCached'
  BY <1>1, <1>5, <1>8, <1>9 DEF NeighboursCached, LifeInvariant, w, At
<1>13. TurnsObserved'
  BY <1>1, <1>4, <1>8, <1>9 DEF TurnsObserved, LifeInvariant, w, At
<1>14. PlacesCounted'
  BY <1>1, <1>4, <1>5, <1>8 DEF PlacesCounted, LifeInvariant, w
<1>15. JustCredited'
  BY <1>9 DEF JustCredited, At
<1> QED BY <1>10, <1>11, <1>12, <1>13, <1>14, <1>15 DEF LifeInvariant

\* What is saved is restored, and settled unless the agent at its turn is cut
\* off between its halves.
LEMMA RowsKeepLife ==
  ASSUME LifeInvariant
  PROVE  /\ Rows.agents \in Seq(Restored)
         /\ ~cut /\ pc.at # "learn" => Rows.agents \in Seq(Settled)
<1>1. agent \in Seq(Shapes) /\ Len(agent) \in Nat /\ DOMAIN agent = 1..Len(agent)
  BY LenProperties DEF LifeInvariant, LivesShaped
<1>2. Rows.agents = [i \in 1..Len(agent) |-> Persisted(agent[i])]
  BY <1>1 DEF Rows
<1>3. \A i \in 1..Len(agent) : agent[i] \in Shapes
  BY <1>1, ElementOfSeq
<1>4. \A i \in 1..Len(agent) : Persisted(agent[i]) \in Restored
  BY <1>3, SavingRestores
<1>5. Rows.agents \in Seq(Restored)
  <2>1. Rows.agents \in [1..Len(agent) -> Restored]
    BY <1>2, <1>4
  <2> QED BY <1>1, <2>1, SeqOfFunction
<1>6. ASSUME ~cut, pc.at # "learn" PROVE Rows.agents \in Seq(Settled)
  <2>1. \A i \in 1..Len(agent) : agent[i].at \in agent[i].visited
    BY <1>6 DEF LifeInvariant, PlacesCounted
  <2>2. \A i \in 1..Len(agent) : Persisted(agent[i]) \in Settled
    BY <1>3, <2>1, SavingRestores
  <2>3. Rows.agents \in [1..Len(agent) -> Settled]
    BY <1>2, <2>2
  <2> QED BY <1>1, <2>3, SeqOfFunction
<1> QED BY <1>5, <1>6

\* Each action keeps the invariant.
LEMMA LifeGoesOn == LifeInvariant /\ [Next]_vars => LifeInvariant'
<1> SUFFICES ASSUME LifeInvariant, [Next]_vars PROVE LifeInvariant'
  OBVIOUS
<1>1. agent \in Seq(Shapes) /\ Len(agent) \in Nat /\ Len(agent) >= 1 /\ DOMAIN agent = 1..Len(agent)
  BY LenProperties DEF LifeInvariant, LivesShaped
<1>2. CASE TickBegin
  <2>1. /\ pc' = At("move", 1) /\ UNCHANGED <<agent, row, cut>>
        /\ \A i \in 1..Len(agent) : agent[i].at \in cached'
    BY <1>1, <1>2 DEF TickBegin
  <2>2. LivesShaped' /\ WaysJoin'
    BY <1>1, <2>1 DEF LivesShaped, WaysJoin, LifeInvariant, At
  <2>3. NeighboursCached' /\ TurnsObserved' /\ JustCredited'
    BY <1>1, <2>1 DEF NeighboursCached, TurnsObserved, JustCredited, At
  <2>4. pc.at # "learn"
    BY <1>2 DEF TickBegin
  <2>5. PlacesCounted'
    BY <2>1, <2>4 DEF PlacesCounted, LifeInvariant
  <2> QED BY <2>2, <2>3, <2>5 DEF LifeInvariant
<1>3. CASE Premove
  BY <1>3, PremoveKeepsLife
<1>4. CASE Postmove
  BY <1>4, PostmoveKeepsLife
<1>5. CASE Save
  <2>1. pc.at = "save" /\ row' = Rows /\ pc' = At("idle", 0) /\ UNCHANGED <<agent, cached, cut>>
    BY <1>5 DEF Save
  <2>2. LivesShaped' /\ WaysJoin' /\ TurnsObserved'
    BY <1>1, <2>1 DEF LivesShaped, WaysJoin, TurnsObserved, LifeInvariant, At
  <2>3. NeighboursCached' /\ JustCredited'
    BY <2>1 DEF NeighboursCached, JustCredited, At
  <2>4. PlacesCounted'
    BY <2>1, RowsKeepLife DEF PlacesCounted, LifeInvariant
  <2> QED BY <2>2, <2>3, <2>4 DEF LifeInvariant
<1>6. CASE Pause
  <2>1. /\ row' = Rows /\ pc' = At("paused", 0) /\ UNCHANGED <<agent, cached>>
        /\ cut' = (cut \/ pc.at = "learn")
    BY <1>6 DEF Pause
  <2>2. LivesShaped' /\ WaysJoin'
    BY <1>1, <2>1 DEF LivesShaped, WaysJoin, LifeInvariant, At
  <2>3. NeighboursCached' /\ TurnsObserved' /\ JustCredited'
    BY <2>1 DEF NeighboursCached, TurnsObserved, JustCredited, At
  <2>4. PlacesCounted'
    BY <2>1, RowsKeepLife DEF PlacesCounted, LifeInvariant
  <2> QED BY <2>2, <2>3, <2>4 DEF LifeInvariant
<1>7. CASE RefreshGeography
  <2>1. pc.at = "idle" /\ UNCHANGED <<agent, pc, row, cut>>
    BY <1>7 DEF RefreshGeography
  <2> QED BY <2>1 DEF LifeInvariant, LivesShaped, WaysJoin, NeighboursCached, TurnsObserved,
                       PlacesCounted, JustCredited
<1>8. CASE Restart
  <2>1. PICK n \in Configured, e \in BirthEnergy : agent' = Loaded(row.agents, n, e)
    BY <1>8 DEF Restart
  <2>2. pc' = At("loaded", 0) /\ UNCHANGED <<row, cut>>
    BY <1>8 DEF Restart
  <2>3. row.agents \in Seq(Restored) /\ (~cut => row.agents \in Seq(Settled))
    BY DEF LifeInvariant, PlacesCounted
  <2>4. PICK S \in {Restored, Settled} : row.agents \in Seq(S) /\ (~cut => S = Settled)
    BY <2>3
  <2>5. agent' \in Seq(S) /\ Len(agent') >= 1
    BY <2>1, <2>4, LoadingRestores
  <2>6. JustLoaded'
    BY <2>2, <2>3, <2>4, <2>5 DEF JustLoaded
  <2>7. JustLoaded' => LifeInvariant'
    BY LoadedIsInvariant, PTL
  <2> QED BY <2>6, <2>7
<1>9. CASE UNCHANGED vars
  BY <1>9 DEF vars, LifeInvariant, LivesShaped, WaysJoin, NeighboursCached, TurnsObserved,
              PlacesCounted, JustCredited
<1> QED BY <1>2, <1>3, <1>4, <1>5, <1>6, <1>7, <1>8, <1>9 DEF Next, Step

\* The agents' lives keep their shape, and the rows theirs.
LEMMA LifeHolds == Spec => []LifeInvariant
<1>1. Init => LifeInvariant
  BY LifeBegins
<1>2. LifeInvariant /\ [Next]_vars => LifeInvariant'
  BY LifeGoesOn
<1> QED BY <1>1, <1>2, PTL DEF Spec

\* NeverExhausted: no sequence of moves, on any map, wears an agent out, and no
\* goal to recover is ever taken.
THEOREM NeverExhaustedHolds == Spec => []NeverExhausted
<1>1. LifeInvariant => NeverExhausted
  <2> SUFFICES ASSUME LifeInvariant, NEW i \in Agents
               PROVE  agent[i].energy >= 75000 /\ agent[i].goal.kind # "recover"
    BY DEF NeverExhausted
  <2>1. agent[i] \in Shapes
    BY LenProperties, ElementOfSeq DEF LifeInvariant, LivesShaped, Agents
  <2> QED BY <2>1 DEF Shapes, Charges, Goals
<1> QED BY <1>1, LifeHolds, PTL

\* CreditFollowsDecision: the next reward is credited to a choice made where the
\* agent came from, and to the one that led it there unless the journey took
\* several ticks.
THEOREM CreditFollowsDecisionHolds == Spec => []CreditFollowsDecision
<1>1. LifeInvariant => CreditFollowsDecision
  BY DEF LifeInvariant, JustCredited, Credited, CreditFollowsDecision
<1> QED BY <1>1, LifeHolds, PTL

\* EveryArrivalLearned: a tick that ends has let every agent observe where it
\* is, and what is saved counts that place as visited unless a pause cut an
\* agent off between its halves.
THEOREM EveryArrivalLearnedHolds == Spec => []EveryArrivalLearned
<1>1. LifeInvariant => EveryArrivalLearned
  <2> SUFFICES ASSUME LifeInvariant PROVE EveryArrivalLearned
    OBVIOUS
  <2>1. DOMAIN agent = 1..Len(agent)
    BY LenProperties DEF LifeInvariant, LivesShaped
  <2>2. ASSUME ~cut, NEW i \in DOMAIN row.agents
        PROVE  row.agents[i].at \in row.agents[i].visited
    <3>1. row.agents \in Seq(Settled)
      BY <2>2 DEF LifeInvariant, PlacesCounted
    <3>2. row.agents[i] \in Settled
      BY <2>2, <3>1, LenProperties, ElementOfSeq
    <3> QED BY <3>2 DEF Settled
  <2> QED BY <2>1, <2>2 DEF EveryArrivalLearned, LifeInvariant, TurnsObserved, Agents
<1> QED BY <1>1, LifeHolds, PTL

\* PlacementCovers: a load that bootstraps, tops up or redeploys, or that leaves the
\* agents where they were, leaves them in four fifths of the countries that the
\* pool has room for or in as many as there are agents, or in none at all.
THEOREM PlacementCoversHolds == Spec => []PlacementCovers
<1> DEFINE Placed == pc.at = "loaded" => Covers(agent)
<1>1. Placed => PlacementCovers
  BY Zenon DEF PlacementCovers, Covers, Offered, Countries
<1>2. Init => Placed
  BY ConfiguredLives, BootstrapCovers DEF Init
<1>3. Placed /\ LifeInvariant /\ [Next]_vars => Placed'
  <2> SUFFICES ASSUME Placed, LifeInvariant, [Next]_vars PROVE Placed'
    OBVIOUS
  <2>1. CASE Restart
    <3>1. PICK n \in Configured, e \in BirthEnergy : agent' = Loaded(row.agents, n, e)
      BY <2>1 DEF Restart
    <3>2. row.agents \in Seq(Restored)
      BY DEF LifeInvariant, PlacesCounted
    <3>3. Covers(Loaded(row.agents, n, e))
      BY <3>2, LoadingCovers
    <3>4. Covers(agent)'
      BY <3>1, <3>3 DEF Covers
    <3> QED BY <3>4
  <2>2. CASE Step
    <3>1. pc'.at # "loaded"
      BY <2>2 DEF Step, TickBegin, Premove, Postmove, Save, At
    <3> QED BY <3>1
  <2>3. CASE Pause
    BY <2>3 DEF Pause, At
  <2>4. CASE RefreshGeography
    BY <2>4 DEF RefreshGeography
  <2>5. CASE UNCHANGED vars
    <3>1. pc' = pc /\ agent' = agent
      BY <2>5 DEF vars
    <3>2. Covers(agent)' <=> Covers(agent)
      BY <3>1 DEF Covers, Coverage
    <3> QED BY <3>1, <3>2
  <2> QED BY <2>1, <2>2, <2>3, <2>4, <2>5 DEF Next
<1> QED BY <1>1, <1>2, <1>3, LifeHolds, PTL DEF Spec

LEMMA ShapesAreLives == Shapes \subseteq Lives
<1> SUFFICES ASSUME NEW g \in Shapes PROVE g \in Lives
  OBVIOUS
<1>1. Charges \subseteq Energies
  BY DEF Charges, Energies
<1>2. Goals \subseteq [kind : {"none", "recover", "investigate_gap", "explore"},
                       target : Places \cup {None}]
  BY DEF Goals
<1> QED BY <1>1, <1>2 DEF Shapes, Lives

\* The counters, the cache and the history.
CountsOK ==
  /\ tick \in 0..MaxTick /\ cached \subseteq Places /\ row.tick \in 0..tick
  /\ faults \in 0..MaxFaults /\ cut \in BOOLEAN

LEMMA CountsKept == LifeInvariant /\ CountsOK /\ [Next]_vars => CountsOK'
<1> SUFFICES ASSUME LifeInvariant, CountsOK, [Next]_vars PROVE CountsOK'
  OBVIOUS
<1>1. MaxTick \in Nat /\ MaxFaults \in Nat
  BY LifeAssumption
<1>2. Rows.tick = tick
  BY DEF Rows
<1>3. CASE TickBegin
  <2>1. agent \in Seq(Shapes)
    BY DEF LifeInvariant, LivesShaped
  <2>2. \A i \in DOMAIN agent : agent[i] \in Shapes
    BY <2>1, LenProperties, ElementOfSeq
  <2>3. {agent[i].at : i \in DOMAIN agent} \subseteq Places
    BY <2>2 DEF Shapes
  <2>4. /\ tick < MaxTick /\ tick' = tick + 1 /\ UNCHANGED <<row, faults, cut>>
        /\ cached' = cached \cup {agent[i].at : i \in DOMAIN agent}
    BY <1>3 DEF TickBegin
  <2> QED BY <1>1, <2>3, <2>4 DEF CountsOK
<1>4. CASE Premove \/ Postmove
  <2>1. UNCHANGED <<tick, cached, row, faults, cut>>
    BY <1>4 DEF Premove, Postmove
  <2> QED BY <2>1 DEF CountsOK
<1>5. CASE Save
  <2>1. row' = Rows /\ UNCHANGED <<tick, cached, faults, cut>>
    BY <1>5 DEF Save
  <2> QED BY <1>2, <2>1 DEF CountsOK
<1>6. CASE Pause
  <2>1. row' = Rows /\ UNCHANGED <<tick, cached>> /\ cut' \in BOOLEAN
        /\ faults < MaxFaults /\ faults' = faults + 1
    BY <1>6 DEF Pause, Fault
  <2> QED BY <1>1, <1>2, <2>1 DEF CountsOK
<1>7. CASE RefreshGeography
  <2>1. /\ UNCHANGED <<tick, row, cut>> /\ cached' = {}
        /\ faults < MaxFaults /\ faults' = faults + 1
    BY <1>7 DEF RefreshGeography, Fault
  <2> QED BY <1>1, <2>1 DEF CountsOK
<1>8. CASE Restart
  <2>1. /\ UNCHANGED <<row, cut>> /\ cached' = {} /\ tick' = row.tick
        /\ faults < MaxFaults /\ faults' = faults + 1
    BY <1>8 DEF Restart, Fault
  <2> QED BY <1>1, <2>1 DEF CountsOK
<1>9. CASE UNCHANGED vars
  BY <1>9 DEF vars, CountsOK
<1> QED BY <1>3, <1>4, <1>5, <1>6, <1>7, <1>8, <1>9 DEF Next, Step

\* Types of the agents, the loop and the rows, for any map, pool and number of agents:
\* an agent is always at a place, its energy is never out of range, and what is saved
\* can be loaded again (AutonomousAgent, to_persisted).
THEOREM AgentLifeTypeCorrect == Spec => []TypeOK
<1>1. LifeInvariant /\ CountsOK => TypeOK
  <2> SUFFICES ASSUME LifeInvariant, CountsOK PROVE TypeOK
    OBVIOUS
  <2>1. agent \in Seq(Shapes) /\ Len(agent) >= 1 /\ row.agents \in Seq(Restored)
    BY DEF LifeInvariant, LivesShaped, PlacesCounted
  <2>2. agent \in Seq(Lives) /\ agent # <<>> /\ DOMAIN agent = 1..Len(agent)
    <3>1. agent \in Seq(Lives) /\ DOMAIN agent = 1..Len(agent)
      BY <2>1, ShapesAreLives, SeqMonotonic, LenProperties
    <3>2. agent # <<>>
      BY <2>1, EmptySeq
    <3> QED BY <3>1, <3>2
  <2>3. row.agents \in Seq(Lives)
    <3>1. Restored \subseteq Lives
      BY ShapesAreLives DEF Restored
    <3> QED BY <2>1, <3>1, SeqMonotonic
  <2>4. /\ pc.at \in {"loaded", "idle", "paused", "move", "learn", "save"}
        /\ pc.at \in {"move", "learn"} => pc.who \in 1..Len(agent)
    BY DEF LifeInvariant, LivesShaped
  <2> QED BY <2>2, <2>3, <2>4 DEF TypeOK, CountsOK
<1>2. Init => CountsOK
  <2> SUFFICES ASSUME Init PROVE CountsOK
    OBVIOUS
  <2>1. /\ row.tick = 0 /\ tick = 0 /\ cached = {} /\ faults = 0 /\ cut = FALSE
        /\ MaxTick \in Nat /\ MaxFaults \in Nat
    BY LifeAssumption DEF Init
  <2>2. cut \in BOOLEAN
    BY <2>1
  <2>3. /\ tick \in 0..MaxTick /\ cached \subseteq Places /\ row.tick \in 0..tick
        /\ faults \in 0..MaxFaults
    BY <2>1
  <2> QED BY <2>2, <2>3 DEF CountsOK
<1> QED BY <1>1, <1>2, CountsKept, LifeHolds, PTL DEF Spec
=============================================================================
