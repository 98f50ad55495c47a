-------------------------- MODULE ResolutionProofs --------------------------
(***************************************************************************)
(* First the limiter alone: its types, and how far its budget can be       *)
(* exceeded, for any number of callers, any windows and any capacities.    *)
(* Resolution uses it as RateLimiter describes, so that bound holds of the *)
(* whole path from a tick to the layer.  Then the types, and the four      *)
(* invariants of the path: an announcement is processed once, no document  *)
(* outlives its promise, a place is asked about once per lifetime of its   *)
(* answer, and a budget comes back.                                        *)
(*                                                                         *)
(* The second part is about Society, for any agents, places, windows and   *)
(* caps: its types, that beliefs are grounded, memories mutual, every stay *)
(* logged once, and that nobody ever has a reason to ask.  It shares       *)
(* nothing but this file with the first.                                   *)
(***************************************************************************)
EXTENDS Resolution, Society, FiniteSetTheorems, SequenceTheorems, WellFoundedInduction,
        TLAPS

-----------------------------------------------------------------------------
(* The limiter, whoever calls it.                                           *)

USE LimiterAssumption

\* Two disjoint parts of a finite set have no more members than it has.
LEMMA DisjointParts ==
  ASSUME NEW B, IsFiniteSet(B), NEW A \in SUBSET B, NEW C \in SUBSET B, A \cap C = {}
  PROVE  /\ Cardinality(A) \in Nat /\ Cardinality(C) \in Nat /\ Cardinality(B) \in Nat
         /\ Cardinality(A) + Cardinality(C) <= Cardinality(B)
<1>1. IsFiniteSet(A) /\ IsFiniteSet(C)
  BY FS_Subset
<1>2. Cardinality(A) \in Nat /\ Cardinality(C) \in Nat /\ Cardinality(B) \in Nat
  BY <1>1, FS_CardinalityType
<1>3. Cardinality(A \cap C) = 0
  BY FS_EmptySet
<1>4. Cardinality(A \cup C) = Cardinality(A) + Cardinality(C) - Cardinality(A \cap C)
  BY <1>1, FS_Union
<1>5. Cardinality(A \cup C) <= Cardinality(B)
  <2>1. A \cup C \in SUBSET B
    OBVIOUS
  <2> QED BY <2>1, FS_Subset
<1> QED BY <1>2, <1>3, <1>4, <1>5

\* Callers in flight are finitely many, so sums over them are numbers.
LEMMA PartOfCallers ==
  ASSUME NEW S \in SUBSET Callers
  PROVE  IsFiniteSet(S) /\ Cardinality(S) \in Nat /\ Cardinality(S) <= Cardinality(Callers)
<1>1. IsFiniteSet(S) /\ Cardinality(S) <= Cardinality(Callers)
  BY FS_Subset
<1> QED BY <1>1, FS_CardinalityType

\* Where a caller goes on to is an await of the limiter.
LimiterAwaits ==
  [at : {"off", "get", "full", "incr", "expire", "ok", "denied"}, i : 0..(Len(Caps) + 1)]

Awaiting(a) == a \in LimiterAwaits /\ (a.at \in {"get", "full", "incr", "expire"} => a.i \in Windows)

LEMMA GoesOn ==
  /\ Len(Caps) \in Nat
  /\ Awaiting(Asking) /\ Awaiting(Unasked)
  /\ \A i \in Windows : Awaiting(Passed(i))
<1>1. Len(Caps) \in Nat
  OBVIOUS
<1> QED BY <1>1 DEF Awaiting, LimiterAwaits, Asking, Unasked, Passed, Windows

-----------------------------------------------------------------------------
(* Types.                                                                  *)

\* Applying commands in flight leaves the counters counters.
LEMMA AppliedType ==
  ASSUME LimiterTypeOK, NEW S \in SUBSET Callers
  PROVE  /\ AppliedFor(S) \in [Windows -> [count : Nat, expires : BOOLEAN]]
         /\ \A i \in Windows :
              AppliedFor(S)[i].count = bucket[i].count + Cardinality(S \cap Incrementing(i))
<1> SUFFICES ASSUME NEW i \in Windows
             PROVE  /\ AppliedFor(S)[i] \in [count : Nat, expires : BOOLEAN]
                    /\ AppliedFor(S)[i].count = bucket[i].count + Cardinality(S \cap Incrementing(i))
  BY DEF AppliedFor
<1>1. Cardinality(S \cap Incrementing(i)) \in Nat
  BY PartOfCallers DEF Incrementing
<1>2. bucket[i].count \in Nat
  BY DEF LimiterTypeOK
<1> DEFINE n == bucket[i].count + Cardinality(S \cap Incrementing(i))
           e == bucket[i].expires \/ (S \cap Expiring(i) # {} /\ n > 0)
<1>3. AppliedFor(S)[i] = [count |-> n, expires |-> e]
  BY DEF AppliedFor
<1>4. n \in Nat
  BY <1>1, <1>2
<1>5. e \in BOOLEAN
  <2>1. bucket[i].expires \in BOOLEAN
    BY DEF LimiterTypeOK
  <2> HIDE DEF n
  <2> QED BY <2>1
<1> HIDE DEF n, e
<1> QED BY <1>3, <1>4, <1>5 DEF n

LEMMA TypeInit == LimiterInit => LimiterTypeOK
  BY GoesOn DEF LimiterInit, LimiterTypeOK, Empty, Unasked

LEMMA TypeStep == LimiterTypeOK /\ [LimiterNext]_limiterVars => LimiterTypeOK'
<1> SUFFICES ASSUME LimiterTypeOK, [LimiterNext]_limiterVars PROVE LimiterTypeOK'
  OBVIOUS
<1> USE GoesOn
<1> DEFINE Counters == [Windows -> [count : Nat, expires : BOOLEAN]]
<1>1. /\ redis \in BOOLEAN /\ bucket \in Counters
      /\ chk \in [Callers -> LimiterAwaits] /\ \A c \in Callers : Awaiting(chk[c])
  BY DEF LimiterTypeOK, LimiterAwaits, Awaiting
<1>2. SUFFICES /\ redis' = redis /\ bucket' \in Counters
               /\ chk' \in [Callers -> LimiterAwaits] /\ \A c \in Callers : Awaiting(chk'[c])
  BY <1>1 DEF LimiterTypeOK, LimiterAwaits, Awaiting
<1>0. ASSUME NEW c \in Callers, NEW x \in {"off", "get", "full", "incr", "expire", "ok", "denied"},
             x \in {"off", "ok", "denied"} \/ chk[c].i \in Windows,
             chk' = [chk EXCEPT ![c].at = x]
      PROVE  chk' \in [Callers -> LimiterAwaits] /\ \A d \in Callers : Awaiting(chk'[d])
  <2> DEFINE a == [chk[c] EXCEPT !.at = x]
  <2>1. Awaiting(a)
    BY <1>0, <1>1 DEF Awaiting, LimiterAwaits
  <2>2. chk' = [chk EXCEPT ![c] = a]
    BY <1>0
  <2>3. a \in LimiterAwaits
    BY <2>1 DEF Awaiting
  <2> HIDE DEF a
  <2> QED BY <1>1, <2>1, <2>2, <2>3
<1>3. ASSUME NEW c \in Callers, Ask(c) \/ Get(c) \/ Deny(c)
      PROVE  /\ redis' = redis /\ bucket' \in Counters
             /\ chk' \in [Callers -> LimiterAwaits] /\ \A d \in Callers : Awaiting(chk'[d])
  <2>1. CASE Ask(c)
    BY <1>1, <2>1 DEF Ask, Awaiting
  <2>2. CASE Get(c)
    <3>1. chk[c].i \in Windows
      BY <1>1, <2>2 DEF Get, Awaiting
    <3>2. PICK x \in {"full", "incr"} : chk' = [chk EXCEPT ![c].at = x]
      BY <2>2 DEF Get
    <3> QED BY <1>0, <1>1, <2>2, <3>1, <3>2 DEF Get
  <2>3. CASE Deny(c)
    BY <1>0, <1>1, <2>3 DEF Deny
  <2> QED BY <1>3, <2>1, <2>2, <2>3
<1>4. ASSUME NEW c \in Callers, Incr(c)
      PROVE  /\ redis' = redis /\ bucket' \in Counters
             /\ chk' \in [Callers -> LimiterAwaits] /\ \A d \in Callers : Awaiting(chk'[d])
  <2>1. chk[c].i \in Windows
    BY <1>1, <1>4 DEF Incr, Awaiting
  <2>2. bucket' \in Counters
    <3> DEFINE k == chk[c].i  b == [bucket[k] EXCEPT !.count = @ + 1]
    <3>1. bucket' = [bucket EXCEPT ![k] = b]
      BY <1>4 DEF Incr
    <3>2. bucket[k] \in [count : Nat, expires : BOOLEAN]
      BY <1>1, <2>1
    <3> HIDE DEF k
    <3>3. b = [count |-> bucket[k].count + 1, expires |-> bucket[k].expires]
      BY <3>2
    <3>4. bucket[k].count + 1 \in Nat /\ bucket[k].expires \in BOOLEAN
      BY <3>2
    <3>5. b \in [count : Nat, expires : BOOLEAN]
      <4> HIDE DEF b
      <4> QED BY <3>3, <3>4
    <3> HIDE DEF b
    <3> QED BY <1>1, <3>1, <3>5
  <2> QED BY <1>0, <1>4, <2>1, <2>2 DEF Incr
<1>5. ASSUME NEW c \in Callers, Expire(c)
      PROVE  /\ redis' = redis /\ bucket' \in Counters
             /\ chk' \in [Callers -> LimiterAwaits] /\ \A d \in Callers : Awaiting(chk'[d])
  <2>1. chk[c].i \in Windows
    BY <1>1, <1>5 DEF Expire, Awaiting
  <2>2. bucket' \in Counters
    BY <1>1, <1>5, <2>1 DEF Expire
  <2> QED BY <1>1, <1>5, <2>1, <2>2 DEF Expire, Awaiting
<1>6. ASSUME NEW c \in Callers, CheckFallback(c)
      PROVE  /\ redis' = redis /\ bucket' \in Counters
             /\ chk' \in [Callers -> LimiterAwaits] /\ \A d \in Callers : Awaiting(chk'[d])
  <2>1. PICK x \in {"ok", "denied"} : chk' = [chk EXCEPT ![c].at = x]
    BY <1>6 DEF CheckFallback
  <2>2. bucket' \in Counters
    <3> DEFINE spent(k) == \A j \in {m \in Windows : bucket[m].count >= Caps[m]} : k < j
               more(k) == [count |-> bucket[k].count + 1, expires |-> TRUE]
    <3>1. bucket' = [k \in Windows |-> IF spent(k) THEN more(k) ELSE bucket[k]]
      BY <1>6 DEF CheckFallback
    <3>2. \A k \in Windows : /\ bucket[k] \in [count : Nat, expires : BOOLEAN]
                            /\ more(k) \in [count : Nat, expires : BOOLEAN]
      BY <1>1
    <3> HIDE DEF spent, more
    <3>3. \A k \in Windows :
            (IF spent(k) THEN more(k) ELSE bucket[k]) \in [count : Nat, expires : BOOLEAN]
      BY <3>2
    <3> QED BY <3>1, <3>3
  <2> QED BY <1>0, <1>6, <2>1, <2>2 DEF CheckFallback
<1>7. ASSUME NEW c \in Callers, FailOpen(c)
      PROVE  /\ redis' = redis /\ bucket' \in Counters
             /\ chk' \in [Callers -> LimiterAwaits] /\ \A d \in Callers : Awaiting(chk'[d])
  <2>1. chk[c].i \in Windows
    BY <1>1, <1>7 DEF FailOpen, Awaiting
  <2>2. bucket' \in Counters
    BY <1>7, AppliedType DEF FailOpen
  <2> QED BY <1>1, <1>7, <2>1, <2>2 DEF FailOpen, Awaiting
<1>8. ASSUME NEW L \in SUBSET Callers, Leave(L)
      PROVE  /\ redis' = redis /\ bucket' \in Counters
             /\ chk' \in [Callers -> LimiterAwaits] /\ \A d \in Callers : Awaiting(chk'[d])
  <2>1. bucket' \in Counters
    BY <1>8, AppliedType DEF Leave
  <2> QED BY <1>1, <1>8, <2>1 DEF Leave, Awaiting
<1>9. ASSUME NEW i \in Windows, WindowOver(i)
      PROVE  /\ redis' = redis /\ bucket' \in Counters
             /\ chk' \in [Callers -> LimiterAwaits] /\ \A d \in Callers : Awaiting(chk'[d])
  BY <1>1, <1>9 DEF WindowOver, Empty
<1>10. CASE UNCHANGED limiterVars
  BY <1>1, <1>10 DEF limiterVars
<1> QED BY <1>3, <1>4, <1>5, <1>6, <1>7, <1>8, <1>9, <1>10 DEF LimiterNext, CheckStep
\* Every reachable state of the limiter is well typed: its counters are
\* numbers, and a caller in flight is at a window that exists.
THEOREM LimiterTypeCorrect == LimiterSpec => []LimiterTypeOK
<1> QED BY TypeInit, TypeStep, PTL DEF LimiterSpec

-----------------------------------------------------------------------------
(* The budget. A caller that has read a count below the capacity is counted *)
(* as an increment in flight from then on: the count and the increments in  *)
(* flight together stay below capacity plus callers, which every action     *)
(* that does not read preserves, and a read only finds less.                *)

LEMMA BudgetInit == LimiterInit => BudgetInv
<1> SUFFICES ASSUME LimiterInit, NEW i \in Windows
             PROVE  bucket[i].count + Cardinality(Incrementing(i)) <= Caps[i] + Cardinality(Callers) - 1
  BY DEF BudgetInv
<1>1. Incrementing(i) = {}
  BY DEF LimiterInit, Unasked, Incrementing
<1>2. Cardinality(Incrementing(i)) = 0
  BY <1>1, FS_EmptySet
<1>3. bucket[i].count = 0 /\ Caps[i] \in Nat \ {0} /\ Cardinality(Callers) \in Nat
  BY PartOfCallers DEF LimiterInit, Empty, Windows
<1> QED BY <1>2, <1>3

LEMMA BudgetStep ==
  LimiterTypeOK /\ BudgetInv /\ [LimiterNext]_limiterVars => BudgetInv'
<1> SUFFICES ASSUME LimiterTypeOK, BudgetInv, [LimiterNext]_limiterVars, NEW i \in Windows
             PROVE  bucket'[i].count + Cardinality(Incrementing(i)') <= Caps[i] + Cardinality(Callers) - 1
  BY DEF BudgetInv
<1> DEFINE I == Incrementing(i)
           Size == Cardinality(Callers)
           Bounded == bucket'[i].count + Cardinality(I') <= Caps[i] + Size - 1
<1>1. /\ Caps[i] \in Nat \ {0} /\ Size \in Nat /\ bucket[i].count \in Nat
      /\ bucket[i].count + Cardinality(I) <= Caps[i] + Size - 1
      /\ I \in SUBSET Callers /\ I' \in SUBSET Callers
  BY PartOfCallers DEF LimiterTypeOK, BudgetInv, Windows, Incrementing
<1>2. /\ IsFiniteSet(I) /\ Cardinality(I) \in Nat /\ Cardinality(I) <= Size
      /\ IsFiniteSet(I') /\ Cardinality(I') \in Nat /\ Cardinality(I') <= Size
  BY <1>1, PartOfCallers
\* A step that neither counts nor adds an increment in flight.
<1>3. ASSUME bucket'[i].count = bucket[i].count, I' \in SUBSET I
      PROVE  Bounded
  <2>1. Cardinality(I') <= Cardinality(I)
    BY <1>2, <1>3, FS_Subset
  <2> QED BY <1>1, <1>2, <1>3, <2>1
\* A caller that leaves, or has nothing to increment, is not counted.
<1>4. ASSUME NEW c \in Callers, c \notin I' PROVE Cardinality(I') <= Size - 1
  <2>1. I' \in SUBSET (Callers \ {c})
    BY <1>1, <1>4
  <2>2. IsFiniteSet(Callers \ {c}) /\ Cardinality(Callers \ {c}) = Size - 1
    BY <1>4, FS_RemoveElement
  <2> QED BY <2>1, <2>2, FS_Subset
<1>5. ASSUME NEW c \in Callers, Ask(c) PROVE Bounded
  <2>1. I' \in SUBSET I
    BY <1>5 DEF Ask, Incrementing, Asking, LimiterTypeOK
  <2> QED BY <1>3, <1>5, <2>1 DEF Ask
<1>6. ASSUME NEW c \in Callers, Get(c) PROVE Bounded
  <2>1. CASE bucket[chk[c].i].count >= Caps[chk[c].i] \/ chk[c].i # i
    <3>1. I' \in SUBSET I
      BY <1>6, <2>1 DEF Get, Incrementing, LimiterTypeOK
    <3> QED BY <1>3, <1>6, <3>1 DEF Get
  <2>2. CASE ~(bucket[chk[c].i].count >= Caps[chk[c].i]) /\ chk[c].i = i
    <3>1. bucket[i].count <= Caps[i] - 1 /\ bucket' = bucket
      BY <1>1, <1>6, <2>2 DEF Get
    <3> QED BY SMTT(30), <1>1, <1>2, <3>1
  <2> QED BY <2>1, <2>2
<1>7. ASSUME NEW c \in Callers, Deny(c) PROVE Bounded
  <2>1. I' \in SUBSET I
    BY <1>7 DEF Deny, Incrementing, LimiterTypeOK
  <2> QED BY <1>3, <1>7, <2>1 DEF Deny
<1>8. ASSUME NEW c \in Callers, Incr(c) PROVE Bounded
  <2>1. I' = I \ {c}
    BY <1>8 DEF Incr, Incrementing, LimiterTypeOK
  <2>2. CASE chk[c].i = i
    <3>1. c \in I /\ Cardinality(I') = Cardinality(I) - 1
      BY <1>2, <1>8, <2>1, <2>2, FS_RemoveElement DEF Incr, Incrementing
    <3>2. bucket'[i].count = bucket[i].count + 1
      BY <1>8, <2>2 DEF Incr, LimiterTypeOK
    <3> QED BY <1>1, <1>2, <3>1, <3>2
  <2>3. CASE chk[c].i # i
    <3>1. bucket'[i] = bucket[i]
      BY <1>8, <2>3 DEF Incr, LimiterTypeOK
    <3> QED BY <1>3, <2>1, <3>1
  <2> QED BY <2>2, <2>3
<1>9. ASSUME NEW c \in Callers, Expire(c) PROVE Bounded
  <2>1. I' \in SUBSET I
    BY <1>9 DEF Expire, Incrementing, Passed, LimiterTypeOK
  <2>2. bucket'[i].count = bucket[i].count
    BY <1>9 DEF Expire, LimiterTypeOK
  <2> QED BY <1>3, <2>1, <2>2
<1>10. ASSUME NEW c \in Callers, CheckFallback(c) PROVE Bounded
  <2>1. c \notin I' /\ I' \in SUBSET I
    BY <1>10 DEF CheckFallback, Incrementing, LimiterTypeOK
  <2> DEFINE full == {k \in Windows : bucket[k].count >= Caps[k]}
             spent == \A j \in full : i < j
  <2>2. bucket'[i] = IF spent THEN [count |-> bucket[i].count + 1, expires |-> TRUE] ELSE bucket[i]
    BY <1>10 DEF CheckFallback
  <2>3. CASE spent
    <3>1. i \notin full
      BY <2>3 DEF Windows
    <3>2. bucket[i].count + 1 <= Caps[i] /\ bucket'[i].count = bucket[i].count + 1
      BY <1>1, <2>2, <2>3, <3>1
    <3>3. Cardinality(I') <= Size - 1
      BY <1>4, <2>1
    <3> QED BY SMTT(30), <1>1, <1>2, <3>2, <3>3
  <2>4. CASE ~spent
    BY <1>3, <2>1, <2>2, <2>4
  <2> QED BY <2>3, <2>4
\* The increments in flight of callers that go are applied or not.
<1>11. ASSUME NEW L \in SUBSET Callers, NEW S \in SUBSET L, bucket' = AppliedFor(S),
              I' \in SUBSET (I \ L)
       PROVE  Bounded
  <2>1. bucket'[i].count = bucket[i].count + Cardinality(S \cap I)
    <3>1. S \in SUBSET Callers
      BY <1>11
    <3>2. AppliedFor(S)[i].count = bucket[i].count + Cardinality(S \cap Incrementing(i))
      BY <3>1, AppliedType
    <3> QED BY <1>11, <3>2
  <2>2. Cardinality(S \cap I) \in Nat /\ Cardinality(S \cap I) + Cardinality(I') <= Cardinality(I)
    <3>1. S \cap I \in SUBSET I /\ I' \in SUBSET I /\ (S \cap I) \cap I' = {}
      BY <1>11
    <3> QED BY <1>2, <3>1, DisjointParts
  <2>3. bucket[i].count + Cardinality(S \cap I) + Cardinality(I') <= Caps[i] + Size - 1
    <3> DEFINE s == Cardinality(S \cap I)  j == Cardinality(I')  k == Cardinality(I)
    <3>1. s \in Nat /\ j \in Nat /\ k \in Nat /\ s + j <= k
      BY <1>2, <2>2
    <3> HIDE DEF s, j, k
    <3>2. bucket[i].count + k <= Caps[i] + Size - 1
      BY <1>1 DEF k
    <3>3. bucket[i].count + s + j <= Caps[i] + Size - 1
      BY SMTT(30), <1>1, <3>1, <3>2
    <3> QED BY <3>3 DEF s, j
  <2> QED BY <2>1, <2>3
<1>12. ASSUME NEW c \in Callers, FailOpen(c) PROVE Bounded
  <2>1. I' \in SUBSET (I \ {c})
    BY <1>12 DEF FailOpen, Incrementing, Passed, LimiterTypeOK
  <2>2. PICK S \in SUBSET {c} : bucket' = AppliedFor(S)
    BY <1>12 DEF FailOpen
  <2>3. {c} \in SUBSET Callers
    OBVIOUS
  <2> QED BY <1>11, <2>1, <2>2, <2>3
<1>13. ASSUME NEW L \in SUBSET Callers, Leave(L) PROVE Bounded
  <2>1. I' \in SUBSET (I \ L)
    BY <1>13 DEF Leave, Incrementing, Unasked
  <2>2. PICK S \in SUBSET L : bucket' = AppliedFor(S)
    BY <1>13 DEF Leave
  <2> QED BY <1>11, <2>1, <2>2
<1>14. ASSUME NEW k \in Windows, WindowOver(k) PROVE Bounded
  <2>1. I' = I
    BY <1>14 DEF WindowOver, Incrementing
  <2>2. CASE k = i
    <3>1. bucket'[i].count = 0
      BY <1>14, <2>2 DEF WindowOver, Empty, LimiterTypeOK
    <3> QED BY <1>1, <1>2, <2>1, <3>1
  <2>3. CASE k # i
    <3>1. bucket'[i] = bucket[i]
      BY <1>14, <2>3 DEF WindowOver, LimiterTypeOK
    <3> QED BY <1>3, <2>1, <3>1
  <2> QED BY <2>2, <2>3
<1>15. CASE UNCHANGED limiterVars
  <2>1. I' = I /\ bucket' = bucket
    BY <1>15 DEF limiterVars, Incrementing
  <2> QED BY <1>3, <2>1
<1> QED
  BY <1>5, <1>6, <1>7, <1>8, <1>9, <1>10, <1>12, <1>13, <1>14, <1>15 DEF LimiterNext, CheckStep

\* Whatever the callers, failures and cancellations: the capacity of a window
\* is exceeded by one less than there are callers at most. This is as much as
\* GET and INCR in separate commands guarantee, and all that they guarantee.
THEOREM BudgetBounded == LimiterSpec => []OvershootBounded
<1>1. LimiterTypeOK /\ BudgetInv => OvershootBounded
  <2> SUFFICES ASSUME LimiterTypeOK, BudgetInv, NEW i \in Windows
               PROVE  bucket[i].count <= Caps[i] + Cardinality(Callers) - 1
    BY DEF OvershootBounded
  <2>1. Cardinality(Incrementing(i)) \in Nat /\ Cardinality(Callers) \in Nat
    BY PartOfCallers DEF Incrementing
  <2>2. Caps[i] \in Nat /\ bucket[i].count \in Nat
    BY DEF LimiterTypeOK, Windows
  <2> QED BY <2>1, <2>2 DEF BudgetInv
<1> QED BY BudgetInit, BudgetStep, LimiterTypeCorrect, TypeInit, TypeStep, <1>1, PTL DEF LimiterSpec

HIDE LimiterAssumption

-----------------------------------------------------------------------------
(* The path from a tick to the layer.                                       *)

\* The fields of a resolution.
Fields(r) == r = [at |-> r.at, v |-> r.v, exp |-> r.exp]

ResShape ==
  /\ res = [l \in Locs |-> res[l]]
  /\ \A l \in Locs : Fields(res[l])

\* The limiter is in use for a place exactly while its resolution asks, and
\* nothing asks when the task is not resolving.
AskInv ==
  \A l \in Locs :
    /\ res[l].at # "ask" => chk[l] = Unasked
    /\ task # "resolve" => res[l].at # "ask"

UseInv == LimiterTypeOK /\ ResShape /\ AskInv

\* What replacing two fields of a resolution makes of it.
LEMMA FoundReplaced ==
  ASSUME NEW q, Fields(q), NEW x, NEW y
  PROVE  [[q EXCEPT !.at = x] EXCEPT !.v = y] = [at |-> x, v |-> y, exp |-> q.exp]
<1> DEFINE a == q.at  b == q.v  c == q.exp
<1>1. q = [at |-> a, v |-> b, exp |-> c]
  BY DEF Fields
<1> HIDE DEF a, b, c
<1>2. [q EXCEPT !.at = x] = [at |-> x, v |-> b, exp |-> c]
  BY <1>1
<1>3. [[at |-> x, v |-> b, exp |-> c] EXCEPT !.v = y] = [at |-> x, v |-> y, exp |-> c]
  OBVIOUS
<1> QED BY <1>2, <1>3 DEF b, c

LEMMA ExpiryReplaced ==
  ASSUME NEW q, Fields(q), NEW x, NEW y
  PROVE  [[q EXCEPT !.at = x] EXCEPT !.exp = y] = [at |-> x, v |-> q.v, exp |-> y]
<1> DEFINE a == q.at  b == q.v  c == q.exp
<1>1. q = [at |-> a, v |-> b, exp |-> c]
  BY DEF Fields
<1> HIDE DEF a, b, c
<1>2. [q EXCEPT !.at = x] = [at |-> x, v |-> b, exp |-> c]
  BY <1>1
<1>3. [[at |-> x, v |-> b, exp |-> c] EXCEPT !.exp = y] = [at |-> x, v |-> b, exp |-> y]
  OBVIOUS
<1> QED BY <1>2, <1>3 DEF b, c

\* Replacing the record of one place leaves the others alone.
LEMMA ResMoves ==
  ASSUME ResShape, NEW l \in Locs, NEW r, Fields(r), res' = [res EXCEPT ![l] = r]
  PROVE  ResShape' /\ \A k \in Locs : res'[k] = IF k = l THEN r ELSE res[k]
<1>1. \A k \in Locs : res'[k] = IF k = l THEN r ELSE res[k]
  BY DEF ResShape
<1>2. res' = [k \in Locs |-> res'[k]]
  BY DEF ResShape
<1> QED BY <1>1, <1>2 DEF ResShape

\* Its await alone.
LEMMA ResGoesTo ==
  ASSUME ResShape, NEW l \in Locs, NEW x, res' = [res EXCEPT ![l].at = x]
  PROVE  ResShape' /\ \A k \in Locs : res'[k].at = IF k = l THEN x ELSE res[k].at
<1> DEFINE r == [at |-> x, v |-> res[l].v, exp |-> res[l].exp]
<1>1. Fields(res[l])
  BY DEF ResShape
<1>2. [res[l] EXCEPT !.at = x] = r
  BY <1>1 DEF Fields
<1>3. res' = [res EXCEPT ![l] = r] /\ Fields(r) /\ r.at = x
  BY <1>2 DEF Fields
<1> HIDE DEF r
<1> QED BY <1>3, ResMoves

\* Initially nothing asks and nobody uses the limiter.
LEMMA UseInit == Init => LimiterInit /\ UseInv
<1> SUFFICES ASSUME Init PROVE LimiterInit /\ UseInv
  OBVIOUS
<1>1. LimiterInit /\ LimiterTypeOK
  BY TypeInit DEF Init
<1>2. res = [l \in Locs |-> Off] /\ \A l \in Locs : res[l] = Off
  BY DEF Init
<1>3. ResShape
  BY <1>2 DEF ResShape, Fields, Off
<1>4. \A l \in Locs : chk[l] = Unasked /\ res[l].at # "ask"
  BY <1>1, <1>2 DEF LimiterInit, Locs, Off
<1> QED BY <1>1, <1>3, <1>4 DEF UseInv, AskInv

\* A step that leaves the limiter alone, and lets no resolution begin or end
\* asking, keeps the invariant.
LEMMA Beside ==
  ASSUME UseInv, UNCHANGED limiterVars, ResShape',
         \A l \in Locs : res'[l].at = "ask" <=> res[l].at = "ask",
         task' = task \/ (\A l \in Locs : res'[l].at # "ask") \/ task' = "resolve"
  PROVE  [LimiterNext]_limiterVars /\ AskInv'
<1>1. chk' = chk
  BY DEF limiterVars
<1> QED BY <1>1 DEF UseInv, AskInv

\* Nothing to do with a resolution at all.
LEMMA Apart ==
  ASSUME UseInv, UNCHANGED limiterVars, UNCHANGED <<res, task>>
  PROVE  [LimiterNext]_limiterVars /\ ResShape' /\ AskInv'
<1>1. ResShape'
  BY DEF UseInv, ResShape
<1> QED BY <1>1, Beside

\* Applying nothing leaves the counters as they are.
LEMMA NothingApplied == ASSUME LimiterTypeOK PROVE AppliedFor({}) = bucket
<1>1. \A i \in Windows : AppliedFor({})[i] = bucket[i]
  <2> SUFFICES ASSUME NEW i \in Windows PROVE AppliedFor({})[i] = bucket[i]
    OBVIOUS
  <2>1. {} \cap Incrementing(i) = {} /\ {} \cap Expiring(i) = {} /\ Cardinality({}) = 0
    BY FS_EmptySet
  <2>2. /\ bucket[i] = [count |-> bucket[i].count, expires |-> bucket[i].expires]
        /\ bucket[i].count + 0 = bucket[i].count
    BY DEF LimiterTypeOK
  <2>3. bucket[i].expires \in BOOLEAN
    BY DEF LimiterTypeOK
  <2> DEFINE n == bucket[i].count + Cardinality({} \cap Incrementing(i))
  <2>4. n = bucket[i].count
    BY <2>1, <2>2
  <2>5. AppliedFor({})[i] = [count |-> n, expires |-> bucket[i].expires \/ ({} \cap Expiring(i) # {} /\ n > 0)]
    BY DEF AppliedFor
  <2> HIDE DEF n
  <2>6. (bucket[i].expires \/ ({} \cap Expiring(i) # {} /\ n > 0)) = bucket[i].expires
    BY <2>1, <2>3, Zenon
  <2> QED BY <2>2, <2>4, <2>5, <2>6
<1>2. AppliedFor({}) = [i \in Windows |-> AppliedFor({})[i]]
  BY DEF AppliedFor
<1>3. bucket = [i \in Windows |-> bucket[i]]
  BY DEF LimiterTypeOK
<1> QED BY <1>1, <1>2, <1>3

-----------------------------------------------------------------------------
\* One step of the system is a step of the limiter or none, action by action.
LEMMA UseStep ==
  UseInv /\ [Next]_vars => [LimiterNext]_limiterVars /\ UseInv'
<1> SUFFICES ASSUME UseInv, [Next]_vars
             PROVE  [LimiterNext]_limiterVars /\ ResShape' /\ AskInv'
  BY TypeStep DEF UseInv
<1> DEFINE Goal == [LimiterNext]_limiterVars /\ ResShape' /\ AskInv'
<1>0. ResShape
  BY DEF UseInv
<1>1. LimiterTypeOK /\ AskInv /\ Locs = Callers
  BY DEF UseInv, Locs
<1>2. CASE Tick
  BY <1>2, Apart DEF Tick
<1>3. CASE Takes
  BY <1>3, Apart DEF Takes, proxyVars
<1>4. CASE TakeFails
  BY <1>4, Apart DEF TakeFails, proxyVars
<1>5. CASE Works
  BY <1>5, Apart DEF Works, ReadsBack, Indexes, proxyVars
<1>6. CASE Start
  BY <1>6, Apart DEF Start, proxyVars
<1>7. CASE ResolveBegins
  <2>1. PICK here \in (SUBSET Locs) \ {{}} :
          res' = [l \in Locs |-> IF l \in here THEN [Off EXCEPT !.at = "exists"] ELSE Off]
    BY <1>7 DEF ResolveBegins
  <2>2. \A l \in Locs : Fields(res'[l]) /\ res'[l].at # "ask"
    BY <2>1 DEF Fields, Off
  <2>3. res' = [l \in Locs |-> res'[l]]
    BY <2>1
  <2>4. task # "resolve" /\ UNCHANGED limiterVars
    BY <1>7 DEF ResolveBegins
  <2>5. \A l \in Locs : res[l].at # "ask"
    BY <1>1, <2>4 DEF AskInv
  <2> QED BY <2>2, <2>3, <2>4, <2>5, Beside DEF ResShape
<1>8. CASE Gathers \/ ResolveEnds
  <2>1. UNCHANGED limiterVars /\ res' = res /\ ResShape'
    BY <1>0, <1>8 DEF Gathers, ResolveEnds, ResShape
  <2>2. task' = "resolve" \/ \A l \in Locs : res'[l].at # "ask"
    BY <1>8, <2>1 DEF Gathers, ResolveEnds
  <2> QED BY <2>1, <2>2, Beside
<1>9. ASSUME NEW l \in Locs, IsResolved(l) PROVE Goal
  <2>1. PICK x \in {"off", "wait"} : res' = [res EXCEPT ![l].at = x]
    BY <1>9 DEF IsResolved
  <2>2. UNCHANGED limiterVars /\ task' = task /\ res[l].at = "exists"
    BY <1>9 DEF IsResolved
  <2>3. ResShape' /\ \A k \in Locs : res'[k].at = IF k = l THEN x ELSE res[k].at
    BY ZenonT(60), <1>0, <2>1, ResGoesTo
  <2> QED BY <2>2, <2>3, Beside
<1>10. ASSUME NEW l \in Locs, Lookup(l) PROVE Goal
  <2>1. UNCHANGED <<redis, bucket>> /\ task' = task /\ task = "resolve" /\ res[l].at = "wait"
    BY <1>10 DEF Lookup, workerVars
  <2>2. CASE res' = [res EXCEPT ![l] = Off] /\ chk' = chk
    <3>1. Fields(Off) /\ Off.at = "off"
      BY DEF Fields, Off
    <3>2. ResShape' /\ \A k \in Locs : res'[k] = IF k = l THEN Off ELSE res[k]
      BY <1>0, <2>2, <3>1, ResMoves
    <3> QED BY <2>1, <2>2, <3>1, <3>2, Beside DEF limiterVars
  <2>3. CASE res' = [res EXCEPT ![l].at = "ask"] /\ chk' = [chk EXCEPT ![l] = Asking]
    <3>1. ResShape' /\ \A k \in Locs : res'[k].at = IF k = l THEN "ask" ELSE res[k].at
      BY ZenonT(60), <1>0, <2>3, ResGoesTo
    <3>2. chk[l] = Unasked
      BY <1>1, <2>1 DEF AskInv
    <3>3. Ask(l)
      BY <2>1, <2>3, <3>2 DEF Ask, Unasked
    <3>4. \A k \in Locs : k # l => chk'[k] = chk[k]
      BY <1>1, <2>3 DEF LimiterTypeOK
    <3>5. AskInv'
      BY <1>1, <2>1, <3>1, <3>4 DEF AskInv
    <3> QED BY <1>1, <3>1, <3>3, <3>5 DEF LimiterNext
  <2> QED BY <1>10, <2>2, <2>3 DEF Lookup
<1>11. ASSUME NEW l \in Locs, Limits(l) PROVE Goal
  <2>1. UNCHANGED <<res, task>> /\ ResShape'
    BY <1>0, <1>11 DEF Limits, proxyVars, ResShape
  <2>2. LimiterNext
    BY <1>1, <1>11 DEF Limits, LimiterNext
  <2>3. chk[l] # Unasked /\ \A k \in Locs : k # l => chk'[k] = chk[k]
    BY <1>1, <1>11 DEF Limits, CheckStep, Get, Deny, Incr, Expire, CheckFallback, FailOpen,
      LimiterTypeOK, Unasked
  <2>4. AskInv'
    BY <1>1, <2>1, <2>3 DEF AskInv
  <2> QED BY <2>1, <2>2, <2>4
<1>12. ASSUME NEW l \in Locs, Answered(l) PROVE Goal
  <2>1. /\ UNCHANGED <<redis, bucket>> /\ task' = task /\ res[l].at = "ask"
        /\ chk' = [chk EXCEPT ![l] = Unasked]
    BY <1>12 DEF Answered
  <2>2. PICK v : res' = [res EXCEPT ![l].at = "set", ![l].v = v]
    BY <1>12 DEF Answered
  <2> DEFINE r == [at |-> "set", v |-> v, exp |-> res[l].exp]
  <2>3. res' = [res EXCEPT ![l] = r] /\ Fields(r) /\ r.at = "set"
    <3>1. Fields(res[l]) /\ res = [k \in Locs |-> res[k]]
      BY <1>0 DEF ResShape
    <3>2. [[res[l] EXCEPT !.at = "set"] EXCEPT !.v = v] = r
      BY <3>1, FoundReplaced
    <3>3. res' = [res EXCEPT ![l] = [[res[l] EXCEPT !.at = "set"] EXCEPT !.v = v]]
      BY <2>2, <3>1
    <3> QED BY <3>2, <3>3 DEF Fields
  <2> HIDE DEF r
  <2>4. ResShape' /\ \A k \in Locs : res'[k] = IF k = l THEN r ELSE res[k]
    BY <1>0, <2>3, ResMoves
  <2>5. chk' = [c \in Callers |-> IF c \in {l} THEN Unasked ELSE chk[c]]
    BY <1>1, <2>1 DEF LimiterTypeOK
  <2>6. Leave({l})
    BY <1>1, <2>1, <2>5, NothingApplied DEF Leave
  <2>7. AskInv'
    BY <1>1, <2>1, <2>3, <2>4, <2>5 DEF AskInv
  <2>8. {l} \in SUBSET Callers
    BY <1>1
  <2> QED BY <2>4, <2>6, <2>7, <2>8 DEF LimiterNext
<1>13. ASSUME NEW l \in Locs, Set(l) PROVE Goal
  <2>1. UNCHANGED limiterVars /\ task' = task /\ res[l].at = "set"
    BY <1>13 DEF Set
  <2>2. CASE res' = [res EXCEPT ![l] = Off]
    <3>1. Fields(Off) /\ Off.at = "off"
      BY DEF Fields, Off
    <3>2. ResShape' /\ \A k \in Locs : res'[k] = IF k = l THEN Off ELSE res[k]
      BY <1>0, <2>2, <3>1, ResMoves
    <3> QED BY <2>1, <3>1, <3>2, Beside
  <2>3. CASE res' = [res EXCEPT ![l].at = "announce", ![l].exp = now + TTL]
    <3> DEFINE e == now + TTL
               r == [at |-> "announce", v |-> res[l].v, exp |-> e]
    <3>1. Fields(res[l]) /\ res = [k \in Locs |-> res[k]]
      BY <1>0 DEF ResShape
    <3> HIDE DEF e
    <3>2. [[res[l] EXCEPT !.at = "announce"] EXCEPT !.exp = e] = r
      BY <3>1, ExpiryReplaced
    <3>3. res' = [res EXCEPT ![l] = [[res[l] EXCEPT !.at = "announce"] EXCEPT !.exp = e]]
      BY <2>3, <3>1 DEF e
    <3>4. res' = [res EXCEPT ![l] = r] /\ Fields(r) /\ r.at = "announce"
      BY <3>2, <3>3 DEF Fields
    <3> HIDE DEF r
    <3>5. ResShape' /\ \A k \in Locs : res'[k] = IF k = l THEN r ELSE res[k]
      BY <1>0, <3>4, ResMoves
    <3> QED BY <2>1, <3>4, <3>5, Beside
  <2> QED BY <1>13, <2>2, <2>3 DEF Set
<1>14. ASSUME NEW l \in Locs, SetFails(l) PROVE Goal
  <2>1. UNCHANGED limiterVars /\ task' = task /\ res[l].at # "ask" /\ res' = [res EXCEPT ![l] = Off]
    BY <1>14 DEF SetFails
  <2>2. Fields(Off) /\ Off.at = "off"
    BY DEF Fields, Off
  <2>3. ResShape' /\ \A k \in Locs : res'[k] = IF k = l THEN Off ELSE res[k]
    BY <1>0, <2>1, <2>2, ResMoves
  <2> QED BY <2>1, <2>2, <2>3, Beside
<1>15. ASSUME NEW l \in Locs, Announces(l) PROVE Goal
  <2>1. UNCHANGED limiterVars /\ task' = task /\ res[l].at # "ask" /\ res' = [res EXCEPT ![l] = Off]
    BY <1>15 DEF Announces
  <2>2. Fields(Off) /\ Off.at = "off"
    BY DEF Fields, Off
  <2>3. ResShape' /\ \A k \in Locs : res'[k] = IF k = l THEN Off ELSE res[k]
    BY <1>0, <2>1, <2>2, ResMoves
  <2> QED BY <2>1, <2>2, <2>3, Beside
<1>16. ASSUME NEW i \in Windows, WindowElapses(i) PROVE Goal
  <2>1. WindowOver(i) /\ chk' = chk /\ UNCHANGED <<res, task>>
    BY <1>16 DEF WindowElapses, WindowOver, proxyVars
  <2>2. ResShape' /\ AskInv'
    BY <1>0, <1>1, <2>1 DEF ResShape, AskInv
  <2> QED BY <2>1, <2>2 DEF LimiterNext
<1>17. CASE Pause \/ Crash
  <2>1. Leave(Locs) /\ res' = [l \in Locs |-> Off]
    BY <1>17 DEF Pause, Crash, Cancelled
  <2>2. \A l \in Locs : res'[l] = Off /\ chk'[l] = Unasked
    BY <1>1, <2>1 DEF Leave
  <2>3. ResShape' /\ AskInv'
    BY <2>1, <2>2 DEF ResShape, AskInv, Fields, Off
  <2> QED BY <1>1, <2>1, <2>3 DEF LimiterNext
<1>18. CASE UNCHANGED vars
  BY <1>18, Apart DEF vars, proxyVars
<1> QED
  BY <1>2, <1>3, <1>4, <1>5, <1>6, <1>7, <1>8, <1>9, <1>10, <1>11, <1>12, <1>13,
     <1>14, <1>15, <1>16, <1>17, <1>18 DEF Next, Resolves

\* The budget is charged through the limiter alone: lookups, answers, pauses
\* and crashes are its calls and their ends, whatever the other bounds.
THEOREM ResolutionUsesLimiter == Spec => ChargedThroughLimiter
<1> QED BY UseInit, UseStep, PTL DEF Spec, ChargedThroughLimiter, LimiterSpec

\* So the capacity of a window is exceeded by one less than there are places
\* resolved at the same time, at most, through pauses and restarts.
THEOREM ResolutionBudgetBounded == Spec => []OvershootBounded
<1> QED BY ResolutionUsesLimiter, BudgetBounded, PTL DEF ChargedThroughLimiter
-----------------------------------------------------------------------------
(* The history is one record; what an action does to it is said once, as    *)
(* the record it becomes, and used by every invariant below.                *)

History(f, u, s, e, m, p, l, t) ==
  [found |-> f, until |-> u, stored |-> s, early |-> e, misread |-> m,
   processed |-> p, lost |-> l, stops |-> t]

LEMMA HistoryIs ==
  ASSUME NEW h \in Histories
  PROVE  h = History(h.found, h.until, h.stored, h.early, h.misread, h.processed, h.lost, h.stops)
  BY DEF Histories, History

LEMMA HistoryFields ==
  ASSUME NEW f, NEW u, NEW s, NEW e, NEW m, NEW p, NEW l, NEW t
  PROVE  LET h == History(f, u, s, e, m, p, l, t)
         IN /\ h.found = f /\ h.until = u /\ h.stored = s /\ h.early = e
            /\ h.misread = m /\ h.processed = p /\ h.lost = l /\ h.stops = t
  BY DEF History

\* Replacing one field of a history.
LEMMA FoundReplaced1 ==
  ASSUME NEW f, NEW u, NEW s, NEW e, NEW m, NEW p, NEW l, NEW t, NEW x
  PROVE  [History(f, u, s, e, m, p, l, t) EXCEPT !.found = x] = History(x, u, s, e, m, p, l, t)
  BY DEF History

LEMMA UntilReplaced ==
  ASSUME NEW f, NEW u, NEW s, NEW e, NEW m, NEW p, NEW l, NEW t, NEW x
  PROVE  [History(f, u, s, e, m, p, l, t) EXCEPT !.until = x] = History(f, x, s, e, m, p, l, t)
  BY DEF History

LEMMA StoredReplaced ==
  ASSUME NEW f, NEW u, NEW s, NEW e, NEW m, NEW p, NEW l, NEW t, NEW x
  PROVE  [History(f, u, s, e, m, p, l, t) EXCEPT !.stored = x] = History(f, u, x, e, m, p, l, t)
  BY DEF History

LEMMA EarlyReplaced ==
  ASSUME NEW f, NEW u, NEW s, NEW e, NEW m, NEW p, NEW l, NEW t, NEW x
  PROVE  [History(f, u, s, e, m, p, l, t) EXCEPT !.early = x] = History(f, u, s, x, m, p, l, t)
  BY DEF History

LEMMA MisreadReplaced ==
  ASSUME NEW f, NEW u, NEW s, NEW e, NEW m, NEW p, NEW l, NEW t, NEW x
  PROVE  [History(f, u, s, e, m, p, l, t) EXCEPT !.misread = x] = History(f, u, s, e, x, p, l, t)
  BY DEF History

LEMMA ProcessedReplaced ==
  ASSUME NEW f, NEW u, NEW s, NEW e, NEW m, NEW p, NEW l, NEW t, NEW x
  PROVE  [History(f, u, s, e, m, p, l, t) EXCEPT !.processed = x] = History(f, u, s, e, m, x, l, t)
  BY DEF History

LEMMA LostReplaced ==
  ASSUME NEW f, NEW u, NEW s, NEW e, NEW m, NEW p, NEW l, NEW t, NEW x
  PROVE  [History(f, u, s, e, m, p, l, t) EXCEPT !.lost = x] = History(f, u, s, e, m, p, x, t)
  BY DEF History

LEMMA StopsReplaced ==
  ASSUME NEW f, NEW u, NEW s, NEW e, NEW m, NEW p, NEW l, NEW t, NEW x
  PROVE  [History(f, u, s, e, m, p, l, t) EXCEPT !.stops = x] = History(f, u, s, e, m, p, l, x)
  BY DEF History

\* What the actions make of a history.
LEMMA PastMisread ==
  ASSUME NEW h \in Histories, NEW M
  PROVE  [h EXCEPT !.misread = M] = History(h.found, h.until, h.stored, h.early, M, h.processed, h.lost, h.stops)
  BY HistoryIs, MisreadReplaced

LEMMA PastAnswered ==
  ASSUME NEW h \in Histories, NEW F, NEW E, NEW M
  PROVE  [h EXCEPT !.found = F, !.early = E, !.misread = M]
           = History(F, h.until, h.stored, E, M, h.processed, h.lost, h.stops)
<1> DEFINE f == h.found  u == h.until  s == h.stored  e == h.early
           m == h.misread  p == h.processed  l == h.lost  t == h.stops
           h1 == [h EXCEPT !.found = F]
           h2 == [h1 EXCEPT !.early = E]
           h3 == [h2 EXCEPT !.misread = M]
<1>1. h = History(f, u, s, e, m, p, l, t)
  BY HistoryIs
<1>2. /\ h1 = [h EXCEPT !.found = F]
      /\ h2 = [h1 EXCEPT !.early = E]
      /\ h3 = [h2 EXCEPT !.misread = M]
      /\ [h EXCEPT !.found = F, !.early = E, !.misread = M] = h3
  OBVIOUS
<1> HIDE DEF f, u, s, e, m, p, l, t, h1, h2, h3
<1>3. h1 = History(F, u, s, e, m, p, l, t)
  <2>1. [History(f, u, s, e, m, p, l, t) EXCEPT !.found = F] = History(F, u, s, e, m, p, l, t)
    BY FoundReplaced1
  <2> QED BY <1>2, <1>1, <2>1
<1>4. h2 = History(F, u, s, E, m, p, l, t)
  <2>1. [History(F, u, s, e, m, p, l, t) EXCEPT !.early = E] = History(F, u, s, E, m, p, l, t)
    BY EarlyReplaced
  <2> QED BY <1>2, <1>3, <2>1
<1>5. h3 = History(F, u, s, E, M, p, l, t)
  <2>1. [History(F, u, s, E, m, p, l, t) EXCEPT !.misread = M] = History(F, u, s, E, M, p, l, t)
    BY MisreadReplaced
  <2> QED BY <1>2, <1>4, <2>1
<1> QED BY <1>2, <1>5 DEF u, s, p, l, t

LEMMA PastSet ==
  ASSUME NEW h \in Histories, NEW k, NEW i, NEW U
  PROVE  [h EXCEPT !.stored[k] = i, !.until = U]
           = History(h.found, U, [h.stored EXCEPT ![k] = i], h.early, h.misread, h.processed, h.lost, h.stops)
<1> DEFINE f == h.found  u == h.until  s == h.stored  e == h.early
           m == h.misread  p == h.processed  l == h.lost  t == h.stops
           S == [s EXCEPT ![k] = i]
           h1 == [h EXCEPT !.stored = S]
           h2 == [h1 EXCEPT !.until = U]
<1>1. h = History(f, u, s, e, m, p, l, t)
  BY HistoryIs
<1>2. /\ h1 = [h EXCEPT !.stored = S]
      /\ h2 = [h1 EXCEPT !.until = U]
      /\ [h EXCEPT !.stored[k] = i, !.until = U] = h2
  OBVIOUS
<1> HIDE DEF f, u, s, e, m, p, l, t, S, h1, h2
<1>3. h1 = History(f, u, S, e, m, p, l, t)
  <2>1. [History(f, u, s, e, m, p, l, t) EXCEPT !.stored = S] = History(f, u, S, e, m, p, l, t)
    BY StoredReplaced
  <2> QED BY <1>2, <1>1, <2>1
<1>4. h2 = History(f, U, S, e, m, p, l, t)
  <2>1. [History(f, u, S, e, m, p, l, t) EXCEPT !.until = U] = History(f, U, S, e, m, p, l, t)
    BY UntilReplaced
  <2> QED BY <1>2, <1>3, <2>1
<1> QED BY <1>2, <1>4 DEF f, e, m, p, l, t, S, s

LEMMA PastProcessed ==
  ASSUME NEW h \in Histories, NEW P
  PROVE  [h EXCEPT !.processed = P] = History(h.found, h.until, h.stored, h.early, h.misread, P, h.lost, h.stops)
  BY HistoryIs, ProcessedReplaced

LEMMA PastLost ==
  ASSUME NEW h \in Histories, NEW n
  PROVE  [h EXCEPT !.lost = n] = History(h.found, h.until, h.stored, h.early, h.misread, h.processed, n, h.stops)
  BY HistoryIs, LostReplaced

-----------------------------------------------------------------------------
(* Types. *)

Answers == [at : Awaits, v : Contents, exp : Times]
Notices == [loc : Locs, exp : Times]
Workers == [at : {"read", "facts", "embed", "stopped"}, next : Nat, v : Contents]

\* A time of the bounded clock, and what it promises.
LEMMA TimesAhead ==
  ASSUME NEW t \in 0..MaxNow
  PROVE  t \in Nat /\ t \in Times /\ t + TTL \in Times /\ 0 \in Times /\ TTL \in Nat \ {0}
  BY ResolutionAssumption DEF Times

\* What _get_facts returns is content, or nothing.
LEMMA FactsFound ==
  ASSUME TypeOK, NEW l \in Locs, GetFacts(l) # None
  PROVE  GetFacts(l) \in 1..MaxVer /\ (redis => kv[l].v = GetFacts(l))
<1>1. kv[l].v \in Contents /\ entry[l].v \in Contents
  BY DEF TypeOK, Stored
<1>2. InProcess(l) \in Contents
  BY <1>1, ResolutionAssumption DEF InProcess, Contents, None, Blank
<1> DEFINE v == IF redis THEN kv[l].v ELSE InProcess(l)
<1>3. v \in Contents /\ GetFacts(l) = IF v = Blank THEN None ELSE v
  BY <1>1, <1>2 DEF GetFacts
<1>4. v # Blank /\ v # None /\ GetFacts(l) = v
  BY <1>3
<1> HIDE DEF v
<1>5. GetFacts(l) \in 1..MaxVer
  BY <1>3, <1>4, ResolutionAssumption DEF Contents, None, Blank
<1> QED BY <1>4, <1>5 DEF v

\* One XREADGROUP delivers what comes next in the stream, and no more than
\* there is.
LEMMA DeliveredNext ==
  ASSUME group \in Nat, Len(stream) \in Nat, group <= Len(stream)
  PROVE  /\ Cardinality(Delivered) \in Nat
         /\ group + Cardinality(Delivered) <= Len(stream)
         /\ Delivered # {} => Cardinality(Delivered) >= 1
<1> DEFINE m == IF group + Batch <= Len(stream) THEN group + Batch ELSE Len(stream)
<1>1. Batch \in Nat \ {0}
  BY ResolutionAssumption
<1>2. m \in Int /\ m >= group /\ m <= Len(stream) /\ m <= group + Batch
  BY <1>1
<1>3. Delivered = (group + 1)..m
  BY <1>1 DEF Delivered
<1> HIDE DEF m
<1>4. group + 1 \in Int
  OBVIOUS
<1>5. Cardinality((group + 1)..m) = IF group + 1 > m THEN 0 ELSE m - (group + 1) + 1
  BY <1>2, <1>4, FS_Interval
<1>6. Delivered # {} => m >= group + 1
  BY <1>2, <1>3
<1> QED BY <1>2, <1>3, <1>5, <1>6

\* What a cancelled task leaves behind: of its SETs in flight those of S, and of
\* its announcements A, with their counts Z.
Behind(kept, S, A, Z) ==
  /\ Len(A) = Len(Z)
  /\ \A j \in 1..Len(A) : \E l \in Locs : res[l].at = "announce" /\ A[j] = Announcement(l)
  /\ kv' = [l \in Locs |-> IF l \in S THEN Applied(l) ELSE kv[l]]
  /\ stream' = stream \o A
  /\ hist' = History(hist.found, Until(S), [l \in Locs |-> IF l \in S THEN now ELSE kept[l]],
                     hist.early, {}, hist.processed \o Z, hist.lost, hist.stops + 1)

Setting == {l \in Locs : redis /\ res[l].at = "set"}

LEMMA LeftBehind ==
  ASSUME TypeOK, NEW kept \in [Locs -> Int], Cancelled(kept)
  PROVE  \E S \in SUBSET Setting, A \in Seq(Notices), Z \in Seq({0}) :
           Behind(kept, S, A, Z)
<1>1. PICK S \in SUBSET {l \in Locs : redis /\ res[l].at = "set"},
           T \in SUBSET {l \in Locs : res[l].at = "announce"} :
        \E q \in Orders(T) :
          /\ kv' = [l \in Locs |-> IF l \in S THEN Applied(l) ELSE kv[l]]
          /\ stream' = stream \o [j \in DOMAIN q |-> Announcement(q[j])]
          /\ hist' = [hist EXCEPT !.stops = @ + 1, !.until = Until(S), !.misread = {},
               !.processed = @ \o [j \in DOMAIN q |-> 0],
               !.stored = [l \in Locs |-> IF l \in S THEN now ELSE kept[l]]]
  BY DEF Cancelled
<1>2. PICK q \in Orders(T) :
          /\ kv' = [l \in Locs |-> IF l \in S THEN Applied(l) ELSE kv[l]]
          /\ stream' = stream \o [j \in DOMAIN q |-> Announcement(q[j])]
          /\ hist' = [hist EXCEPT !.stops = @ + 1, !.until = Until(S), !.misread = {},
               !.processed = @ \o [j \in DOMAIN q |-> 0],
               !.stored = [l \in Locs |-> IF l \in S THEN now ELSE kept[l]]]
  BY <1>1
<1> DEFINE A == [j \in DOMAIN q |-> Announcement(q[j])]
           Z == [j \in DOMAIN q |-> 0]
           n == Cardinality(T)
           U == Until(S)
           K == [l \in Locs |-> IF l \in S THEN now ELSE kept[l]]
           P == hist.processed \o Z
           Stops == hist.stops + 1
<1>3. n \in Nat
  <2>1. T \in SUBSET Callers
    BY DEF Locs
  <2> QED BY <2>1, PartOfCallers
<1>4. DOMAIN q = 1..n /\ \A j \in 1..n : q[j] \in T
  BY DEF Orders
<1>5. \A l \in Locs : Announcement(l) \in Notices
  <2> SUFFICES ASSUME NEW l \in Locs PROVE Announcement(l) \in Notices
    OBVIOUS
  <2>1. res[l].exp \in Times
    BY DEF TypeOK
  <2> QED BY <2>1 DEF Announcement, Notices
<1> HIDE DEF n
<1>6. A \in Seq(Notices) /\ Len(A) = n /\ \A j \in 1..n : A[j] = Announcement(q[j])
  <2>1. A = [j \in 1..n |-> Announcement(q[j])] /\ \A j \in 1..n : Announcement(q[j]) \in Notices
    BY <1>4, <1>5
  <2> HIDE DEF A
  <2>2. A \in [1..n -> Notices]
    BY <2>1
  <2>3. A \in Seq(Notices)
    BY <1>3, <2>2, SeqDef
  <2>4. Len(A) = n
    BY <1>3, <2>2, <2>3, LenProperties
  <2> QED BY <2>1, <2>3, <2>4
<1>7. Z \in Seq({0}) /\ Len(Z) = n
  <2>1. Z \in [1..n -> {0}]
    BY <1>4
  <2> HIDE DEF Z
  <2>2. Z \in Seq({0})
    BY <1>3, <2>1, SeqDef
  <2> QED BY <1>3, <2>1, <2>2, LenProperties
<1>8. hist' = History(hist.found, U, K, hist.early, {}, P, hist.lost, Stops)
  <2> DEFINE f == hist.found  u == hist.until  s == hist.stored  e == hist.early
             m == hist.misread  p == hist.processed  l == hist.lost  t == hist.stops
             h1 == [hist EXCEPT !.stops = Stops]
             h2 == [h1 EXCEPT !.until = U]
             h3 == [h2 EXCEPT !.misread = {}]
             h4 == [h3 EXCEPT !.processed = P]
  <2>1. hist = History(f, u, s, e, m, p, l, t)
    BY HistoryIs DEF TypeOK
  <2>2. /\ h1 = [hist EXCEPT !.stops = Stops] /\ h2 = [h1 EXCEPT !.until = U]
        /\ h3 = [h2 EXCEPT !.misread = {}] /\ h4 = [h3 EXCEPT !.processed = P]
    OBVIOUS
  <2>3. hist' = [h4 EXCEPT !.stored = K]
    BY <1>2
  <2> HIDE DEF f, u, s, e, m, p, l, t, h1, h2, h3, h4, U, K, P, Stops
  <2>4. h1 = History(f, u, s, e, m, p, l, Stops)
    <3>1. [History(f, u, s, e, m, p, l, t) EXCEPT !.stops = Stops] = History(f, u, s, e, m, p, l, Stops)
      BY StopsReplaced
    <3> QED BY <2>1, <2>2, <3>1
  <2>5. h2 = History(f, U, s, e, m, p, l, Stops)
    <3>1. [History(f, u, s, e, m, p, l, Stops) EXCEPT !.until = U] = History(f, U, s, e, m, p, l, Stops)
      BY UntilReplaced
    <3> QED BY <2>2, <2>4, <3>1
  <2>6. h3 = History(f, U, s, e, {}, p, l, Stops)
    <3>1. [History(f, U, s, e, m, p, l, Stops) EXCEPT !.misread = {}] = History(f, U, s, e, {}, p, l, Stops)
      BY MisreadReplaced
    <3> QED BY <2>2, <2>5, <3>1
  <2>7. h4 = History(f, U, s, e, {}, P, l, Stops)
    <3>1. [History(f, U, s, e, {}, p, l, Stops) EXCEPT !.processed = P] = History(f, U, s, e, {}, P, l, Stops)
      BY ProcessedReplaced
    <3> QED BY <2>2, <2>6, <3>1
  <2>8. hist' = History(f, U, K, e, {}, P, l, Stops)
    <3>1. [History(f, U, s, e, {}, P, l, Stops) EXCEPT !.stored = K] = History(f, U, K, e, {}, P, l, Stops)
      BY StoredReplaced
    <3> QED BY <2>3, <2>7, <3>1
  <2> QED BY <2>8 DEF f, e, l
<1>9. \A j \in 1..Len(A) : \E l \in Locs : res[l].at = "announce" /\ A[j] = Announcement(l)
  <2> SUFFICES ASSUME NEW j \in 1..Len(A)
               PROVE  \E l \in Locs : res[l].at = "announce" /\ A[j] = Announcement(l)
    OBVIOUS
  <2>1. A[j] = Announcement(q[j]) /\ q[j] \in T
    BY <1>4, <1>6
  <2> QED BY <2>1
<1>10. Len(A) = Len(Z) /\ kv' = [l \in Locs |-> IF l \in S THEN Applied(l) ELSE kv[l]] /\ stream' = stream \o A
  BY <1>2, <1>6, <1>7
<1> HIDE DEF A, Z
<1> A \in Seq(Notices) /\ Z \in Seq({0})
  BY <1>6, <1>7
<1>11. Behind(kept, S, A, Z)
  BY <1>8, <1>9, <1>10 DEF Behind
<1>12. S \in SUBSET Setting
  BY DEF Setting
<1> QED BY <1>11, <1>12

-----------------------------------------------------------------------------
(* What the actions that replace fields make of a state that is well typed.  *)

\* The await of a resolution moves on.
LEMMA AwaitMoves ==
  ASSUME TypeOK, NEW l \in Locs, NEW x, res' = [res EXCEPT ![l].at = x]
  PROVE  res' = [res EXCEPT ![l] = [at |-> x, v |-> res[l].v, exp |-> res[l].exp]]
<1>1. res[l] \in Answers
  BY DEF TypeOK, Answers
<1>2. res[l] = [at |-> res[l].at, v |-> res[l].v, exp |-> res[l].exp]
  BY <1>1 DEF Answers
<1>3. [res[l] EXCEPT !.at = x] = [at |-> x, v |-> res[l].v, exp |-> res[l].exp]
  BY <1>2
<1> QED BY <1>3

LEMMA AnsweredIs ==
  ASSUME TypeOK, NEW l \in Locs, Answered(l)
  PROVE  \E v \in Contents \ {None} :
           /\ res' = [res EXCEPT ![l] = [at |-> "set", v |-> v, exp |-> res[l].exp]]
           /\ hist.found + 1 \in 0..MaxVer
           /\ hist' = History(hist.found + 1, hist.until, hist.stored, hist.early \cup Early(l),
                              hist.misread \ {l}, hist.processed, hist.lost, hist.stops)
<1>1. hist \in Histories /\ hist.found \in 0..MaxVer /\ hist.found < MaxVer
  BY DEF Answered, TypeOK, Histories
<1>2. hist.found + 1 \in 1..MaxVer
  BY <1>1, ResolutionAssumption
<1>3. PICK v \in {hist.found + 1, Blank} : res' = [res EXCEPT ![l].at = "set", ![l].v = v]
  BY DEF Answered
<1>4. v \in Contents \ {None}
  BY <1>2, <1>3, ResolutionAssumption DEF Contents, None, Blank
<1>5. Fields(res[l]) /\ res = [k \in Locs |-> res[k]]
  BY DEF TypeOK, Fields
<1>6. [[res[l] EXCEPT !.at = "set"] EXCEPT !.v = v] = [at |-> "set", v |-> v, exp |-> res[l].exp]
  BY <1>5, FoundReplaced
<1>7. res' = [res EXCEPT ![l] = [[res[l] EXCEPT !.at = "set"] EXCEPT !.v = v]]
  BY <1>3, <1>5
<1> DEFINE F == hist.found + 1  E == hist.early \cup Early(l)  M == hist.misread \ {l}
<1>8. hist' = [hist EXCEPT !.found = F, !.early = E, !.misread = M]
  BY DEF Answered
<1>9. hist' = History(F, hist.until, hist.stored, E, M, hist.processed, hist.lost, hist.stops)
  <2> HIDE DEF F, E, M
  <2>1. [hist EXCEPT !.found = F, !.early = E, !.misread = M]
          = History(F, hist.until, hist.stored, E, M, hist.processed, hist.lost, hist.stops)
    BY <1>1, PastAnswered
  <2> QED BY <1>8, <2>1
<1>10. hist.found + 1 \in 0..MaxVer
  BY <1>2, ResolutionAssumption
<1>11. res' = [res EXCEPT ![l] = [at |-> "set", v |-> v, exp |-> res[l].exp]]
  BY <1>6, <1>7
<1> QED BY <1>4, <1>9, <1>10, <1>11

\* An answer is stored, now.
StoredNow(l) ==
  hist' = History(hist.found, Until({l}), [hist.stored EXCEPT ![l] = now], hist.early,
                  hist.misread, hist.processed, hist.lost, hist.stops)

LEMMA StoredIs ==
  ASSUME hist \in Histories, NEW l, hist' = [hist EXCEPT !.stored[l] = now, !.until = Until({l})]
  PROVE  StoredNow(l)
<1> DEFINE U == Until({l})
<1>1. hist' = [hist EXCEPT !.stored[l] = now, !.until = U]
  OBVIOUS
<1> HIDE DEF U
<1>2. [hist EXCEPT !.stored[l] = now, !.until = U]
        = History(hist.found, U, [hist.stored EXCEPT ![l] = now], hist.early, hist.misread,
                  hist.processed, hist.lost, hist.stops)
  BY PastSet
<1> QED BY <1>1, <1>2 DEF StoredNow, U

LEMMA SetIs ==
  ASSUME TypeOK, NEW l \in Locs, Set(l)
  PROVE  /\ StoredNow(l)
         /\ \/ /\ redis /\ kv' = [kv EXCEPT ![l] = Applied(l)] /\ entry' = entry
               /\ res' = [res EXCEPT ![l] = [at |-> "announce", v |-> res[l].v, exp |-> now + TTL]]
            \/ /\ ~redis /\ kv' = kv /\ entry' = [entry EXCEPT ![l] = [v |-> res[l].v, exp |-> now]]
               /\ res' = [res EXCEPT ![l] = Off]
<1>1. StoredNow(l)
  BY StoredIs DEF Set, TypeOK
<1>2. CASE redis
  <2> DEFINE e == now + TTL
  <2>1. Fields(res[l]) /\ res = [k \in Locs |-> res[k]]
    BY DEF TypeOK, Fields
  <2>2. res' = [res EXCEPT ![l].at = "announce", ![l].exp = e]
    BY <1>2 DEF Set
  <2> HIDE DEF e
  <2>3. [[res[l] EXCEPT !.at = "announce"] EXCEPT !.exp = e] = [at |-> "announce", v |-> res[l].v, exp |-> e]
    BY <2>1, ExpiryReplaced
  <2>4. res' = [res EXCEPT ![l] = [[res[l] EXCEPT !.at = "announce"] EXCEPT !.exp = e]]
    BY <2>1, <2>2
  <2> QED BY <1>1, <1>2, <2>3, <2>4 DEF Set, e
<1>3. CASE ~redis
  BY <1>1, <1>3 DEF Set
<1> QED BY <1>2, <1>3

LEMMA NextDoneIs ==
  ASSUME TypeOK, worker.at \in {"facts", "embed"}, NextDone
  PROVE  /\ worker.next \in 1..group /\ worker.next \in 1..Len(hist.processed)
         /\ worker' = [at |-> IF worker.next = group THEN "read" ELSE "facts",
                       next |-> worker.next + 1, v |-> None]
         /\ hist' = History(hist.found, hist.until, hist.stored, hist.early, hist.misread,
                            [hist.processed EXCEPT ![worker.next] = hist.processed[worker.next] + 1],
                            hist.lost, hist.stops)
<1>1. worker.next \in 1..group /\ group \in 0..Len(stream) /\ Len(hist.processed) = Len(stream)
  BY DEF TypeOK
<1>2. hist \in Histories /\ stream \in Seq(Notices)
  BY DEF TypeOK, Notices
<1>3. Len(stream) \in Nat
  BY <1>2
<1>4. worker.next \in 1..Len(hist.processed)
  BY <1>1, <1>3
<1> DEFINE P == [hist.processed EXCEPT ![worker.next] = hist.processed[worker.next] + 1]
<1>5. hist' = [hist EXCEPT !.processed = P]
  BY DEF NextDone
<1>6. hist' = History(hist.found, hist.until, hist.stored, hist.early, hist.misread, P, hist.lost, hist.stops)
  <2> HIDE DEF P
  <2>1. [hist EXCEPT !.processed = P]
          = History(hist.found, hist.until, hist.stored, hist.early, hist.misread, P, hist.lost, hist.stops)
    BY <1>2, PastProcessed
  <2> QED BY <1>5, <2>1
<1> QED BY <1>1, <1>4, <1>6 DEF NextDone

LEMMA MisreadIs ==
  ASSUME hist \in Histories, NEW M, hist' = [hist EXCEPT !.misread = M]
  PROVE  hist' = History(hist.found, hist.until, hist.stored, hist.early, M,
                         hist.processed, hist.lost, hist.stops)
<1>1. [hist EXCEPT !.misread = M]
        = History(hist.found, hist.until, hist.stored, hist.early, M, hist.processed, hist.lost, hist.stops)
  BY PastMisread
<1> QED BY <1>1

LEMMA TakeFailsIs ==
  ASSUME TypeOK, TakeFails
  PROVE  \E n \in {0, Cardinality(Delivered)} :
           /\ n \in Nat /\ group + n <= Len(stream) /\ group' = group + n
           /\ hist' = History(hist.found, hist.until, hist.stored, hist.early, hist.misread,
                              hist.processed, hist.lost + n, hist.stops)
<1>1. hist \in Histories /\ stream \in Seq(Notices) /\ group \in 0..Len(stream)
  BY DEF TypeOK, Notices
<1>2. Len(stream) \in Nat /\ group \in Nat /\ group <= Len(stream)
  BY <1>1
<1>3. PICK D \in {{}, Delivered} :
        group' = group + Cardinality(D) /\ hist' = [hist EXCEPT !.lost = @ + Cardinality(D)]
  BY DEF TakeFails
<1> DEFINE n == Cardinality(D)
<1>4. n \in {0, Cardinality(Delivered)} /\ n \in Nat /\ group + n <= Len(stream)
  <2>1. CASE D = {}
    BY <1>2, <2>1, FS_EmptySet
  <2>2. CASE D = Delivered
    BY <1>2, <2>2, DeliveredNext
  <2> QED BY <1>3, <2>1, <2>2
<1> DEFINE L == hist.lost + n
<1>5. hist' = [hist EXCEPT !.lost = L]
  BY <1>3
<1>6. hist' = History(hist.found, hist.until, hist.stored, hist.early, hist.misread,
                      hist.processed, L, hist.stops)
  <2> HIDE DEF L
  <2>1. [hist EXCEPT !.lost = L]
          = History(hist.found, hist.until, hist.stored, hist.early, hist.misread,
                    hist.processed, L, hist.stops)
    BY <1>1, PastLost
  <2> QED BY <1>5, <2>1
<1> QED BY <1>3, <1>4, <1>6

\* What an announcement does.
LEMMA AnnouncesIs ==
  ASSUME TypeOK, NEW l \in Locs, Announces(l)
  PROVE  /\ res' = [res EXCEPT ![l] = Off]
         /\ \/ /\ stream' = Append(stream, Announcement(l))
               /\ hist' = History(hist.found, hist.until, hist.stored, hist.early, hist.misread,
                                  Append(hist.processed, 0), hist.lost, hist.stops)
            \/ UNCHANGED <<stream, hist>>
<1>1. hist \in Histories
  BY DEF TypeOK
<1>2. CASE UNCHANGED <<stream, hist>>
  BY <1>2 DEF Announces
<1>3. CASE stream' = Append(stream, Announcement(l)) /\ hist' = [hist EXCEPT !.processed = Append(@, 0)]
  <2> DEFINE P == Append(hist.processed, 0)
  <2>1. hist' = [hist EXCEPT !.processed = P]
    BY <1>3
  <2>2. hist' = History(hist.found, hist.until, hist.stored, hist.early, hist.misread, P, hist.lost, hist.stops)
    <3> HIDE DEF P
    <3>1. [hist EXCEPT !.processed = P]
            = History(hist.found, hist.until, hist.stored, hist.early, hist.misread, P, hist.lost, hist.stops)
      BY <1>1, PastProcessed
    <3> QED BY <2>1, <3>1
  <2> QED BY <1>3, <2>2 DEF Announces
<1> QED BY <1>2, <1>3 DEF Announces

-----------------------------------------------------------------------------
\* Initial states are well typed.
LEMMA ResTypeInit == Init => TypeOK
<1> SUFFICES ASSUME Init PROVE TypeOK
  OBVIOUS
<1>1. LimiterTypeOK
  BY TypeInit DEF Init
<1>2. 0 \in 0..MaxNow /\ 0 \in Times /\ None \in Contents
  BY ResolutionAssumption DEF Times, Contents, None
<1>3. Off \in Answers /\ Nothing \in Stored
  BY <1>2 DEF Off, Nothing, Answers, Stored, Awaits
<1>4. now \in 0..MaxNow /\ faults \in Nat /\ task \in {"idle", "check", "resolve"} /\ running \in BOOLEAN
  BY <1>2 DEF Init
<1>5. res \in [Locs -> Answers] /\ kv \in [Locs -> Stored] /\ entry \in [Locs -> Stored]
  BY <1>3 DEF Init
<1>6. stream = <<>> /\ group = 0 /\ layer = {}
  BY DEF Init
<1>7. worker \in Workers /\ worker.at \in {"read", "stopped"}
  BY <1>2 DEF Init, Fresh, Workers
<1>8. hist \in Histories /\ hist.processed = <<>>
  <2>1. -TTL \in Int /\ 0 \in 0..MaxVer
    BY ResolutionAssumption
  <2>2. [v \in 1..MaxVer |-> 0] \in [1..MaxVer -> Times] /\ [l \in Locs |-> -TTL] \in [Locs -> Int]
    BY <1>2, <2>1
  <2> DEFINE u == [v \in 1..MaxVer |-> 0]  s == [l \in Locs |-> -TTL]
  <2>3. hist = [found |-> 0, until |-> u, stored |-> s, early |-> {}, misread |-> {},
                processed |-> <<>>, lost |-> 0, stops |-> 0]
    BY DEF Init
  <2> HIDE DEF u, s
  <2>4. <<>> \in Seq(Nat)
    OBVIOUS
  <2> QED BY <2>1, <2>2, <2>3, <2>4 DEF Histories, u, s
<1> QED BY <1>1, <1>4, <1>5, <1>6, <1>7, <1>8 DEF TypeOK, Answers, Workers

\* Every action keeps the types, the limiter's by the lemmas above.
LEMMA ResTypeStep == TypeOK /\ LimiterTypeOK' /\ [Next]_vars => TypeOK'
<1> SUFFICES ASSUME TypeOK, LimiterTypeOK', [Next]_vars PROVE TypeOK'
  OBVIOUS
<1>1. /\ now \in 0..MaxNow /\ faults \in Nat
      /\ task \in {"idle", "check", "resolve"} /\ running \in BOOLEAN
      /\ res \in [Locs -> Answers] /\ kv \in [Locs -> Stored] /\ entry \in [Locs -> Stored]
      /\ stream \in Seq(Notices) /\ group \in 0..Len(stream)
      /\ worker \in Workers
      /\ worker.at \in {"facts", "embed"} => worker.next \in 1..group
      /\ worker.at = "embed" => worker.v \in 1..MaxVer
      /\ layer \subseteq [loc : Locs, v : 1..MaxVer, exp : Times]
      /\ hist \in Histories /\ Len(hist.processed) = Len(stream)
  BY DEF TypeOK, Answers, Notices, Workers
<1> DEFINE Clock    == now' \in 0..MaxNow
           World    == faults' \in Nat /\ task' \in {"idle", "check", "resolve"} /\ running' \in BOOLEAN
           Located   == res' \in [Locs -> Answers]
           Stores   == kv' \in [Locs -> Stored] /\ entry' \in [Locs -> Stored]
           Streamed == /\ stream' \in Seq(Notices) /\ hist' \in Histories
                       /\ Len(hist'.processed) = Len(stream')
                       /\ \/ Len(stream') >= Len(stream) /\ group' = group
                          \/ stream' = stream /\ group' \in group..Len(stream)
           Embedder == /\ worker' \in Workers
                       /\ worker'.at \in {"facts", "embed"} => worker'.next \in 1..group'
                       /\ worker'.at = "embed" => worker'.v \in 1..MaxVer
           Indexed  == layer' \subseteq [loc : Locs, v : 1..MaxVer, exp : Times]
           Goal     == Clock /\ World /\ Located /\ Stores /\ Streamed /\ Embedder /\ Indexed
<1>2. SUFFICES Goal
  <2>1. Len(stream) \in Nat /\ Len(stream') \in Nat /\ group \in 0..Len(stream)
    BY <1>1, <1>2
  <2>2. group' \in 0..Len(stream')
    BY <1>2, <2>1
  <2> QED BY <1>2, <2>2 DEF TypeOK, Answers, Notices, Workers
\* What stays, and the places in the ways they change.
<1> DEFINE Kept == UNCHANGED <<stream, hist, group>>
<1>3. Kept => Streamed
  <2>1. Len(stream) \in Nat
    BY <1>1
  <2> QED BY <1>1, <2>1
<1>4. UNCHANGED <<worker, group>> => Embedder
  BY <1>1
<1>5. Off \in Answers /\ None \in Contents /\ now + TTL \in Times /\ now \in Times /\ Nothing \in Stored
  BY <1>1, TimesAhead, ResolutionAssumption DEF Off, Answers, Awaits, Contents, None, Nothing, Stored
<1>6. ASSUME NEW l \in Locs, NEW r \in Answers, res' = [res EXCEPT ![l] = r] PROVE Located
  BY <1>1, <1>6
<1>7. \A l \in Locs : res[l] \in Answers /\ res[l].v \in Contents /\ res[l].exp \in Times /\ res[l].at \in Awaits
  <2>1. \A l \in Locs : res[l] \in Answers
    BY <1>1
  <2> QED BY <2>1 DEF Answers
<1>8. \A l \in Locs, x \in Awaits : [at |-> x, v |-> res[l].v, exp |-> res[l].exp] \in Answers
  BY <1>7 DEF Answers
<1>9. \A l \in Locs : Applied(l) \in Stored
  BY <1>5, <1>7 DEF Applied, Stored
<1>10. \A L \in SUBSET Locs : Until(L) \in [1..MaxVer -> Times]
  BY <1>1, <1>5 DEF Until, Histories
<1>11. CASE Tick
  <2>1. now' \in 0..MaxNow
    BY <1>1, <1>11, ResolutionAssumption DEF Tick
  <2>2. kv' \in [Locs -> Stored]
    BY <1>1, <1>5, <1>11 DEF Tick
  <2> QED BY <1>1, <1>3, <1>4, <1>11, <2>1, <2>2 DEF Tick, workerVars
<1>12. CASE ResolveBegins
  <2>1. Located
    BY <1>5, <1>12 DEF ResolveBegins, Off, Answers, Awaits
  <2> QED BY <1>1, <1>3, <1>4, <1>12, <2>1 DEF ResolveBegins, workerVars
<1>13. CASE Gathers
  BY <1>1, <1>3, <1>4, <1>13 DEF Gathers, workerVars
<1>14. CASE ResolveEnds
  <2>1. hist' = History(hist.found, hist.until, hist.stored, hist.early, {}, hist.processed, hist.lost, hist.stops)
    BY <1>1, <1>14, MisreadIs DEF ResolveEnds
  <2>2. Streamed
    <3>1. hist' \in Histories /\ hist'.processed = hist.processed
      BY <1>1, <2>1 DEF Histories, History
    <3>2. Len(stream) \in Nat /\ UNCHANGED <<stream, group>>
      BY <1>1, <1>14 DEF ResolveEnds, workerVars
    <3> QED BY <1>1, <3>1, <3>2
  <2> QED BY <1>1, <1>4, <1>14, <2>2 DEF ResolveEnds, workerVars
<1>15. ASSUME NEW l \in Locs, IsResolved(l) PROVE Goal
  <2>1. PICK x \in {"off", "wait"} : res' = [res EXCEPT ![l].at = x]
    BY <1>15 DEF IsResolved
  <2>2. Located
    <3>1. res' = [res EXCEPT ![l] = [at |-> x, v |-> res[l].v, exp |-> res[l].exp]]
      BY <2>1, AwaitMoves
    <3> QED BY <1>6, <1>8, <3>1 DEF Awaits
  <2>3. hist' = hist \/ hist' = [hist EXCEPT !.misread = @ \cup {l}]
    BY <1>15 DEF IsResolved
  <2>4. Streamed
    <3>1. CASE hist' = hist
      BY <1>3, <1>15, <3>1 DEF IsResolved, workerVars
    <3>2. CASE hist' = [hist EXCEPT !.misread = @ \cup {l}]
      <4>1. hist' = History(hist.found, hist.until, hist.stored, hist.early, hist.misread \cup {l},
                            hist.processed, hist.lost, hist.stops)
        BY <1>1, <3>2, MisreadIs
      <4> QED BY <1>1, <1>15, <4>1 DEF IsResolved, workerVars, Histories, History
    <3> QED BY <2>3, <3>1, <3>2
  <2>5. World
    BY <1>1, <1>15 DEF IsResolved, Fault
  <2> QED BY <1>1, <1>4, <1>15, <2>2, <2>4, <2>5 DEF IsResolved, workerVars
<1>16. ASSUME NEW l \in Locs, Lookup(l) PROVE Goal
  <2>1. res' = [res EXCEPT ![l] = Off] \/ res' = [res EXCEPT ![l].at = "ask"]
    BY <1>16 DEF Lookup
  <2>2. Located
    <3>1. CASE res' = [res EXCEPT ![l] = Off]
      BY <1>5, <1>6, <3>1
    <3>2. CASE res' = [res EXCEPT ![l].at = "ask"]
      <4>1. res' = [res EXCEPT ![l] = [at |-> "ask", v |-> res[l].v, exp |-> res[l].exp]]
        BY <3>2, AwaitMoves
      <4> QED BY <1>6, <1>8, <4>1 DEF Awaits
    <3> QED BY <2>1, <3>1, <3>2
  <2>3. hist' = hist \/ hist' = [hist EXCEPT !.misread = @ \cup {l}]
    BY <1>16 DEF Lookup
  <2>4. Streamed
    <3>1. CASE hist' = hist
      BY <1>3, <1>16, <3>1 DEF Lookup, workerVars
    <3>2. CASE hist' = [hist EXCEPT !.misread = @ \cup {l}]
      <4>1. hist' = History(hist.found, hist.until, hist.stored, hist.early, hist.misread \cup {l},
                            hist.processed, hist.lost, hist.stops)
        BY <1>1, <3>2, MisreadIs
      <4> QED BY <1>1, <1>16, <4>1 DEF Lookup, workerVars, Histories, History
    <3> QED BY <2>3, <3>1, <3>2
  <2>5. World
    BY <1>1, <1>16 DEF Lookup, Fault
  <2> QED BY <1>1, <1>4, <1>16, <2>2, <2>4, <2>5 DEF Lookup, workerVars
<1>17. ASSUME NEW l \in Locs, Limits(l) PROVE Goal
  <2>1. UNCHANGED <<now, task, res, kv, entry, stream, group, worker, layer, running, hist>>
    BY <1>17 DEF Limits, proxyVars, workerVars
  <2>2. faults' \in Nat
    BY <1>1, <1>17 DEF Limits, Fault
  <2> QED BY <1>1, <1>3, <1>4, <2>1, <2>2
<1>18. ASSUME NEW l \in Locs, Answered(l) PROVE Goal
  <2>1. PICK v \in Contents \ {None} :
           /\ res' = [res EXCEPT ![l] = [at |-> "set", v |-> v, exp |-> res[l].exp]]
           /\ hist.found + 1 \in 0..MaxVer
           /\ hist' = History(hist.found + 1, hist.until, hist.stored, hist.early \cup Early(l),
                              hist.misread \ {l}, hist.processed, hist.lost, hist.stops)
    BY <1>18, AnsweredIs
  <2>2. Located
    <3>1. [at |-> "set", v |-> v, exp |-> res[l].exp] \in Answers
      BY <1>7, <2>1 DEF Answers, Awaits
    <3> QED BY <1>6, <2>1, <3>1
  <2>3. Early(l) \in SUBSET Locs
    BY DEF Early
  <2>4. Streamed
    <3> DEFINE F == hist.found + 1
    <3>1. F \in 0..MaxVer
      BY <2>1
    <3>2. hist' = History(F, hist.until, hist.stored, hist.early \cup Early(l),
                          hist.misread \ {l}, hist.processed, hist.lost, hist.stops)
      BY <2>1
    <3> HIDE DEF F
    <3>3. hist' \in Histories /\ hist'.processed = hist.processed
      BY <1>1, <2>3, <3>1, <3>2 DEF Histories, History
    <3> QED BY <1>1, <1>18, <3>3 DEF Answered, workerVars
  <2> QED BY <1>1, <1>4, <1>18, <2>2, <2>4 DEF Answered, workerVars
\* A SET that is applied.
<1>19. ASSUME NEW l \in Locs, StoredNow(l), UNCHANGED <<stream, group>> PROVE Streamed
  <2>1. Until({l}) \in [1..MaxVer -> Times]
    BY <1>10
  <2>2. [hist.stored EXCEPT ![l] = now] \in [Locs -> Int]
    BY <1>1 DEF Histories
  <2> DEFINE u == Until({l})  s == [hist.stored EXCEPT ![l] = now]
  <2>3. hist' = History(hist.found, u, s, hist.early, hist.misread, hist.processed, hist.lost, hist.stops)
    BY <1>19 DEF StoredNow
  <2> HIDE DEF u, s
  <2>4. hist' \in Histories /\ hist'.processed = hist.processed
    BY <1>1, <2>1, <2>2, <2>3 DEF Histories, History, u, s
  <2> QED BY <1>1, <1>19, <2>4
<1>20. ASSUME NEW l \in Locs, Set(l) PROVE Goal
  <2>1. /\ StoredNow(l)
        /\ \/ /\ redis /\ kv' = [kv EXCEPT ![l] = Applied(l)] /\ entry' = entry
              /\ res' = [res EXCEPT ![l] = [at |-> "announce", v |-> res[l].v, exp |-> now + TTL]]
           \/ /\ ~redis /\ kv' = kv /\ entry' = [entry EXCEPT ![l] = [v |-> res[l].v, exp |-> now]]
              /\ res' = [res EXCEPT ![l] = Off]
    BY <1>20, SetIs
  <2>2. UNCHANGED <<now, task, running, faults, stream, group, worker, layer>>
    BY <1>20 DEF Set, workerVars
  <2>3. Streamed
    BY <1>19, <2>1, <2>2
  <2>4. CASE redis
    <3>1. [at |-> "announce", v |-> res[l].v, exp |-> now + TTL] \in Answers
      BY <1>5, <1>7 DEF Answers, Awaits
    <3>2. Located
      BY <1>6, <2>1, <2>4, <3>1
    <3>3. Stores
      BY <1>1, <1>9, <2>1, <2>4
    <3> QED BY <1>1, <1>4, <2>2, <2>3, <3>2, <3>3
  <2>5. CASE ~redis
    <3>1. Located
      BY <1>5, <1>6, <2>1, <2>5
    <3>2. [v |-> res[l].v, exp |-> now] \in Stored
      BY <1>5, <1>7 DEF Stored
    <3>3. Stores
      BY <1>1, <2>1, <2>5, <3>2
    <3> QED BY <1>1, <1>4, <2>2, <2>3, <3>1, <3>3
  <2> QED BY <2>4, <2>5
<1>21. ASSUME NEW l \in Locs, SetFails(l) PROVE Goal
  <2>1. UNCHANGED <<now, task, running, stream, group, worker, layer>>
    BY <1>21 DEF SetFails, workerVars
  <2>2. res' = [res EXCEPT ![l] = Off] /\ faults' \in Nat
    BY <1>1, <1>21 DEF SetFails, Fault
  <2>3. Located
    BY <1>5, <1>6, <2>2
  <2>4. [v |-> res[l].v, exp |-> now] \in Stored
    BY <1>5, <1>7 DEF Stored
  <2>5. entry' \in [Locs -> Stored]
    BY <1>1, <1>21, <2>4 DEF SetFails
  <2>6. CASE UNCHANGED <<kv, hist>>
    BY <1>1, <1>3, <1>4, <2>1, <2>2, <2>3, <2>5, <2>6
  <2>7. CASE /\ kv' = [kv EXCEPT ![l] = Applied(l)]
             /\ hist' = [hist EXCEPT !.stored[l] = now, !.until = Until({l})]
    <3>1. Streamed
      BY <1>1, <1>19, <2>1, <2>7, StoredIs
    <3>2. kv' \in [Locs -> Stored]
      BY <1>1, <1>9, <2>7
    <3> QED BY <1>1, <1>4, <2>1, <2>2, <2>3, <2>5, <3>1, <3>2
  <2> QED BY <1>21, <2>6, <2>7 DEF SetFails
<1>22. ASSUME NEW l \in Locs, Announces(l) PROVE Goal
  <2>1. /\ res' = [res EXCEPT ![l] = Off]
        /\ \/ /\ stream' = Append(stream, Announcement(l))
              /\ hist' = History(hist.found, hist.until, hist.stored, hist.early, hist.misread,
                                 Append(hist.processed, 0), hist.lost, hist.stops)
           \/ UNCHANGED <<stream, hist>>
    BY <1>22, AnnouncesIs
  <2>2. UNCHANGED <<now, task, running, kv, entry, group, worker, layer>> /\ faults' \in Nat
    BY <1>1, <1>22 DEF Announces, workerVars, Fault
  <2>3. Located
    BY <1>5, <1>6, <2>1
  <2>4. CASE UNCHANGED <<stream, hist>>
    BY <1>1, <1>3, <1>4, <2>2, <2>3, <2>4
  <2>5. CASE /\ stream' = Append(stream, Announcement(l))
             /\ hist' = History(hist.found, hist.until, hist.stored, hist.early, hist.misread,
                                Append(hist.processed, 0), hist.lost, hist.stops)
    <3>1. Announcement(l) \in Notices
      BY <1>7 DEF Announcement, Notices
    <3>2. stream' \in Seq(Notices) /\ Len(stream') = Len(stream) + 1 /\ Len(stream) \in Nat
      BY <1>1, <2>5, <3>1, AppendProperties
    <3> DEFINE P == Append(hist.processed, 0)
    <3>3. P \in Seq(Nat) /\ Len(P) = Len(hist.processed) + 1
      BY <1>1, AppendProperties DEF Histories
    <3>4. hist' = History(hist.found, hist.until, hist.stored, hist.early, hist.misread,
                          P, hist.lost, hist.stops)
      BY <2>5
    <3> HIDE DEF P
    <3>5. hist' \in Histories /\ hist'.processed = P
      BY <1>1, <3>3, <3>4 DEF Histories, History
    <3>6. Streamed
      BY <1>1, <2>2, <3>2, <3>3, <3>5
    <3> QED BY <1>1, <1>4, <2>2, <2>3, <3>6
  <2> QED BY <2>1, <2>4, <2>5
<1>23. ASSUME NEW i \in Windows, WindowElapses(i) PROVE Goal
  <2>1. UNCHANGED <<now, task, res, kv, entry, stream, group, worker, layer, running, hist, faults>>
    BY <1>23 DEF WindowElapses, proxyVars, workerVars
  <2> QED BY <1>1, <1>3, <1>4, <2>1
<1>24. CASE Takes
  <2>1. UNCHANGED <<now, task, res, kv, entry, stream, layer, running, hist, faults>>
    BY <1>24 DEF Takes, proxyVars
  <2>2. Len(stream) \in Nat /\ group \in Nat /\ group <= Len(stream)
    BY <1>1
  <2> DEFINE n == Cardinality(Delivered)
  <2>3. n \in Nat /\ n >= 1 /\ group + n <= Len(stream) /\ group' = group + n
    BY <1>24, <2>2, DeliveredNext DEF Takes
  <2> HIDE DEF n
  <2>4. worker' = [at |-> "facts", next |-> group + 1, v |-> None]
    BY <1>24 DEF Takes
  <2>5. Embedder
    BY <1>5, <2>2, <2>3, <2>4 DEF Workers
  <2>6. Streamed
    BY <1>1, <2>1, <2>2, <2>3
  <2> QED BY <1>1, <2>1, <2>5, <2>6
<1>25. CASE TakeFails
  <2>1. UNCHANGED <<now, task, res, kv, entry, stream, worker, layer, running>> /\ faults' \in Nat
    BY <1>1, <1>25 DEF TakeFails, proxyVars, Fault
  <2>2. PICK n \in {0, Cardinality(Delivered)} :
           /\ n \in Nat /\ group + n <= Len(stream) /\ group' = group + n
           /\ hist' = History(hist.found, hist.until, hist.stored, hist.early, hist.misread,
                              hist.processed, hist.lost + n, hist.stops)
    BY <1>25, TakeFailsIs
  <2>3. Len(stream) \in Nat /\ group \in Nat /\ worker.at = "read"
    BY <1>1, <1>25 DEF TakeFails
  <2> DEFINE L == hist.lost + n
  <2>4. L \in Nat
    BY <1>1, <2>2 DEF Histories
  <2>5. hist' = History(hist.found, hist.until, hist.stored, hist.early, hist.misread,
                        hist.processed, L, hist.stops)
    BY <2>2
  <2> HIDE DEF L
  <2>6. hist' \in Histories /\ hist'.processed = hist.processed
    BY <1>1, <2>4, <2>5 DEF Histories, History
  <2>7. Streamed
    BY <1>1, <2>1, <2>2, <2>3, <2>6
  <2>8. Embedder
    BY <1>1, <2>1, <2>3
  <2> QED BY <1>1, <2>1, <2>7, <2>8
\* The worker is done with an announcement.
<1>26. ASSUME worker.at \in {"facts", "embed"}, NextDone, UNCHANGED <<stream, group>>
       PROVE  Streamed /\ Embedder
  <2>1. /\ worker.next \in 1..group /\ worker.next \in 1..Len(hist.processed)
        /\ worker' = [at |-> IF worker.next = group THEN "read" ELSE "facts",
                      next |-> worker.next + 1, v |-> None]
        /\ hist' = History(hist.found, hist.until, hist.stored, hist.early, hist.misread,
                           [hist.processed EXCEPT ![worker.next] = hist.processed[worker.next] + 1],
                           hist.lost, hist.stops)
    BY <1>26, NextDoneIs
  <2> DEFINE n == worker.next  p == hist.processed[n] + 1  P == [hist.processed EXCEPT ![n] = p]
  <2>2. n \in Nat /\ group \in Nat /\ n <= group
    BY <1>1, <2>1 DEF Workers
  <2>3. p \in Nat /\ hist.processed \in Seq(Nat) /\ n \in 1..Len(hist.processed)
    BY SMTT(30), <1>1, <2>1 DEF Histories
  <2>4. hist' = History(hist.found, hist.until, hist.stored, hist.early, hist.misread, P, hist.lost, hist.stops)
    BY <2>1
  <2>5. worker' \in Workers /\ (worker'.at \in {"facts", "embed"} => worker'.next \in 1..group) /\ worker'.at # "embed"
    <3>1. n + 1 \in Nat /\ (n # group => n + 1 \in 1..group)
      BY <2>2
    <3>2. CASE n = group
      BY <1>5, <2>1, <3>1, <3>2 DEF Workers
    <3>3. CASE n # group
      BY <1>5, <2>1, <3>1, <3>3 DEF Workers
    <3> QED BY <3>2, <3>3
  <2> HIDE DEF n, p
  <2>6. P \in Seq(Nat) /\ Len(P) = Len(hist.processed)
    BY <2>3, ExceptSeq
  <2> HIDE DEF P
  <2>7. hist' \in Histories /\ hist'.processed = P
    BY <1>1, <2>4, <2>6 DEF Histories, History
  <2>8. Streamed
    BY <1>1, <1>26, <2>6, <2>7
  <2> QED BY <1>26, <2>5, <2>8
<1>27. CASE ReadsBack
  <2>1. UNCHANGED <<now, task, res, kv, entry, stream, group, layer, running>> /\ faults' \in Nat
    BY <1>1, <1>27 DEF ReadsBack, proxyVars, Fault
  <2> DEFINE v == GetFacts(stream[worker.next].loc)
  <2>2. worker.at = "facts"
    BY <1>27 DEF ReadsBack
  <2>3. CASE NextDone
    BY <1>1, <1>26, <2>1, <2>2, <2>3
  <2>4. CASE v # None /\ worker' = [worker EXCEPT !.at = "embed", !.v = v] /\ UNCHANGED hist
    <3>1. worker.next \in 1..group /\ group \in 0..Len(stream) /\ Len(stream) \in Nat
      BY <1>1, <2>2
    <3>2. worker.next \in 1..Len(stream)
      BY <3>1
    <3>3. stream[worker.next] \in Notices
      BY <1>1, <3>2, ElementOfSeq
    <3>4. stream[worker.next].loc \in Locs
      BY <3>3 DEF Notices
    <3>5. v \in 1..MaxVer
      BY <2>4, <3>4, FactsFound
    <3> HIDE DEF v
    <3>6. v \in Contents
      BY <3>5, ResolutionAssumption DEF Contents
    <3>7. worker' \in Workers /\ worker'.next = worker.next /\ worker'.v = v
      BY <1>1, <2>4, <3>6 DEF Workers
    <3>8. Embedder
      BY <2>1, <3>1, <3>5, <3>7
    <3> QED BY <1>1, <1>3, <2>1, <2>4, <3>8
  <2> QED BY <1>27, <2>3, <2>4 DEF ReadsBack
<1>28. CASE Indexes
  <2>1. UNCHANGED <<now, task, res, kv, entry, stream, group, running>> /\ faults' \in Nat
    BY <1>1, <1>28 DEF Indexes, proxyVars, Fault
  <2>2. worker.at = "embed" /\ NextDone
    BY <1>28 DEF Indexes
  <2>3. Streamed /\ Embedder
    BY <1>26, <2>1, <2>2
  <2>4. Document \in [loc : Locs, v : 1..MaxVer, exp : Times]
    <3>1. worker.next \in 1..group /\ group \in 0..Len(stream) /\ Len(stream) \in Nat /\ worker.v \in 1..MaxVer
      BY <1>1, <2>2
    <3>2. worker.next \in 1..Len(stream)
      BY <3>1
    <3>3. stream[worker.next] \in Notices
      BY <1>1, <3>2, ElementOfSeq
    <3> QED BY <3>1, <3>3 DEF Document, Notices
  <2>5. Indexed
    BY <1>1, <1>28, <2>4 DEF Indexes
  <2> QED BY <1>1, <2>1, <2>3, <2>5
<1>29. ASSUME NEW kept \in [Locs -> Int], Cancelled(kept), group' = group
       PROVE  Located /\ Streamed /\ kv' \in [Locs -> Stored] /\ task' \in {"idle", "check", "resolve"} /\ faults' = faults
  <2>0. PICK S \in SUBSET Setting, A \in Seq(Notices), Z \in Seq({0}) : Behind(kept, S, A, Z)
    BY <1>29, LeftBehind
  <2>1. /\ Len(A) = Len(Z)
        /\ kv' = [l \in Locs |-> IF l \in S THEN Applied(l) ELSE kv[l]]
        /\ stream' = stream \o A
        /\ hist' = History(hist.found, Until(S), [l \in Locs |-> IF l \in S THEN now ELSE kept[l]],
                           hist.early, {}, hist.processed \o Z, hist.lost, hist.stops + 1)
    BY <2>0 DEF Behind
  <2>2. res' = [l \in Locs |-> Off] /\ task' = "idle" /\ faults' = faults
    BY <1>29 DEF Cancelled
  <2>3. kv' \in [Locs -> Stored]
    BY <1>1, <1>9, <2>1
  <2> DEFINE u == Until(S)  s == [l \in Locs |-> IF l \in S THEN now ELSE kept[l]]
             P == hist.processed \o Z  Stops == hist.stops + 1
  <2>4. u \in [1..MaxVer -> Times]
    BY <1>10 DEF Setting
  <2>5. s \in [Locs -> Int]
    BY <1>1
  <2>6. Stops \in Nat /\ hist.processed \in Seq(Nat) /\ Z \in Seq(Nat)
    <3>1. Z \in Seq(Nat)
      BY <2>1
    <3> QED BY <1>1, <3>1 DEF Histories
  <2>7. P \in Seq(Nat) /\ Len(P) = Len(hist.processed) + Len(Z)
    BY <2>6, ConcatProperties
  <2>8. stream' \in Seq(Notices) /\ Len(stream') = Len(stream) + Len(A)
    <3>1. stream \o A \in Seq(Notices) /\ Len(stream \o A) = Len(stream) + Len(A)
      BY <1>1, ConcatProperties
    <3> QED BY <2>1, <3>1
  <2>9. hist' = History(hist.found, u, s, hist.early, {}, P, hist.lost, Stops)
    BY <2>1
  <2> HIDE DEF u, s, P, Stops
  <2>10. hist' \in Histories /\ hist'.processed = P
    BY <1>1, <2>4, <2>5, <2>6, <2>7, <2>9 DEF Histories, History
  <2>11. Len(A) \in Nat /\ Len(stream) \in Nat
    BY <1>1, <2>1
  <2>12. Streamed
    <3>1. Len(stream') >= Len(stream) /\ group' = group
      BY <1>29, <2>8, <2>11
    <3>2. Len(A) = Len(Z)
      BY <2>1
    <3>3. Len(hist'.processed) = Len(stream')
      BY <1>1, <2>7, <2>8, <2>10, <3>2
    <3> QED BY <2>8, <2>10, <3>1, <3>3
  <2> QED BY <1>5, <2>2, <2>3, <2>12
<1>30. CASE Pause
  <2>1. hist.stored \in [Locs -> Int]
    BY <1>1 DEF Histories
  <2>2. UNCHANGED <<now, entry, group, layer>> /\ Cancelled(hist.stored) /\ running' = FALSE
    BY <1>30 DEF Pause
  <2>3. Located /\ Streamed /\ kv' \in [Locs -> Stored] /\ task' \in {"idle", "check", "resolve"} /\ faults' = faults
    BY <1>29, <2>1, <2>2
  <2>4. Embedder
    BY <1>5, <1>30 DEF Pause, Fresh, Workers
  <2> QED BY <1>1, <2>2, <2>3, <2>4
<1>31. CASE Start
  <2>1. UNCHANGED <<now, task, res, kv, entry, stream, group, worker, layer, hist, faults>> /\ running' = TRUE
    BY <1>31 DEF Start, proxyVars, workerVars
  <2> QED BY <1>1, <1>3, <1>4, <2>1
<1>32. CASE Crash
  <2> DEFINE kept == IF redis THEN hist.stored ELSE [l \in Locs |-> -TTL]
  <2>1. kept \in [Locs -> Int]
    BY <1>1, ResolutionAssumption DEF Histories
  <2>2. UNCHANGED <<now, group, layer>> /\ Cancelled(kept) /\ running' = TRUE
    BY <1>32 DEF Crash
  <2> HIDE DEF kept
  <2>3. Located /\ Streamed /\ kv' \in [Locs -> Stored] /\ task' \in {"idle", "check", "resolve"} /\ faults' = faults
    BY <1>29, <2>1, <2>2
  <2>4. entry' \in [Locs -> Stored]
    BY <1>5, <1>32 DEF Crash
  <2>5. Embedder
    BY <1>5, <1>32 DEF Crash, Fresh, Workers
  <2> QED BY <1>1, <2>2, <2>3, <2>4, <2>5
<1>33. CASE UNCHANGED vars
  <2>1. UNCHANGED <<now, task, res, kv, entry, stream, group, worker, layer, running, hist, faults>>
    BY <1>33 DEF vars, proxyVars, workerVars
  <2> QED BY <1>1, <1>3, <1>4, <2>1
<1> QED
  BY <1>11, <1>12, <1>13, <1>14, <1>15, <1>16, <1>17, <1>18, <1>20, <1>21, <1>22, <1>23,
     <1>24, <1>25, <1>27, <1>28, <1>30, <1>31, <1>32, <1>33 DEF Next, Resolves, Works

\* The invariant that every proof below starts from.
ResInv == TypeOK /\ AskInv

LEMMA ResInvUse == ResInv => UseInv
  BY DEF ResInv, UseInv, TypeOK, ResShape, Fields

LEMMA ResInvInit == Init => ResInv
  BY ResTypeInit, UseInit DEF ResInv, UseInv

LEMMA ResInvStep == ResInv /\ [Next]_vars => ResInv'
<1> SUFFICES ASSUME ResInv, [Next]_vars PROVE ResInv'
  OBVIOUS
<1>1. UseInv'
  BY ResInvUse, UseStep
<1>2. TypeOK'
  BY <1>1, ResTypeStep DEF ResInv, UseInv
<1> QED BY <1>1, <1>2 DEF ResInv, UseInv

\* Every reachable state is well typed: the worker at work is at an
\* announcement that was delivered and what it indexes is content, every
\* announcement has a count of its processing, and the clock, the expiries and
\* the contents stay within their bounds.
THEOREM ResolutionTypeCorrect == Spec => []TypeOK
<1>1. ResInv => TypeOK
  BY DEF ResInv
<1> QED BY ResInvInit, ResInvStep, <1>1, PTL DEF Spec

-----------------------------------------------------------------------------
(* What the actions leave alone, for the invariants below.                   *)

\* Looking a place up, and ending, touch only whose answers were misread.
LEMMA LookingUpKeeps ==
  ASSUME TypeOK, NEW l \in Locs, IsResolved(l) \/ Lookup(l)
  PROVE  /\ UNCHANGED <<redis, now, kv, entry, stream, group, worker, layer>>
         /\ hist'.until = hist.until /\ hist'.stored = hist.stored /\ hist'.early = hist.early
         /\ hist'.processed = hist.processed /\ hist'.stops = hist.stops
         /\ hist'.misread = hist.misread \/ hist'.misread = hist.misread \cup {l}
<1>1. hist \in Histories
  BY DEF TypeOK
<1>2. UNCHANGED <<redis, now, kv, entry, stream, group, worker, layer>>
  BY DEF IsResolved, Lookup, limiterVars, workerVars
<1>3. CASE hist' = hist
  BY <1>2, <1>3
<1>4. CASE hist' = [hist EXCEPT !.misread = @ \cup {l}]
  <2>1. hist' = History(hist.found, hist.until, hist.stored, hist.early, hist.misread \cup {l},
                        hist.processed, hist.lost, hist.stops)
    BY <1>1, <1>4, MisreadIs
  <2> QED BY <1>2, <2>1 DEF History
<1> QED BY <1>3, <1>4 DEF IsResolved, Lookup

\* A SET that is not applied leaves the history alone; one that is changes when
\* the answer was stored and until when it is promised.
LEMMA SettingKeeps ==
  ASSUME TypeOK, NEW l \in Locs, Set(l) \/ SetFails(l)
  PROVE  /\ UNCHANGED <<redis, bucket, chk, now, stream, group, worker, layer>>
         /\ hist'.early = hist.early /\ hist'.misread = hist.misread
         /\ hist'.processed = hist.processed /\ hist'.stops = hist.stops
         /\ \/ UNCHANGED <<kv, hist>>
            \/ hist'.until = Until({l}) /\ hist'.stored = [hist.stored EXCEPT ![l] = now]
<1>1. hist \in Histories
  BY DEF TypeOK
<1>2. UNCHANGED <<redis, bucket, chk, now, stream, group, worker, layer>>
  BY DEF Set, SetFails, limiterVars, workerVars
<1>3. CASE UNCHANGED <<kv, hist>>
  BY <1>2, <1>3
<1>4. CASE StoredNow(l)
  BY <1>2, <1>4 DEF StoredNow, History
<1> QED BY <1>1, <1>3, <1>4, SetIs, StoredIs DEF SetFails

LEMMA EndingKeeps ==
  ASSUME TypeOK, ResolveEnds
  PROVE  /\ UNCHANGED <<redis, bucket, chk, faults, now, res, kv, entry, stream, group, worker, layer>>
         /\ hist'.until = hist.until /\ hist'.stored = hist.stored /\ hist'.early = hist.early
         /\ hist'.processed = hist.processed /\ hist'.stops = hist.stops
<1>1. hist \in Histories
  BY DEF TypeOK
<1>2. hist' = History(hist.found, hist.until, hist.stored, hist.early, {}, hist.processed, hist.lost, hist.stops)
  BY <1>1, MisreadIs DEF ResolveEnds
<1> QED BY <1>2 DEF ResolveEnds, limiterVars, workerVars, History

LEMMA AnsweringKeeps ==
  ASSUME TypeOK, NEW l \in Locs, Answered(l)
  PROVE  /\ UNCHANGED <<redis, bucket, faults, now, kv, entry, stream, group, worker, layer>>
         /\ hist'.until = hist.until /\ hist'.stored = hist.stored
         /\ hist'.early = hist.early \cup Early(l) /\ hist'.misread = hist.misread \ {l}
         /\ hist'.processed = hist.processed /\ hist'.stops = hist.stops
<1>1. hist' = History(hist.found + 1, hist.until, hist.stored, hist.early \cup Early(l),
                      hist.misread \ {l}, hist.processed, hist.lost, hist.stops)
  BY AnsweredIs
<1> QED BY <1>1 DEF Answered, workerVars, History

\* After a pause or a crash the worker is at no announcement, and an answer that
\* is kept is stored in Redis or in the process.
LEMMA StoppingIs ==
  ASSUME TypeOK, Pause \/ Crash
  PROVE  \E kept \in [Locs -> Int] :
           /\ Cancelled(kept) /\ UNCHANGED <<redis, now, group, layer>>
           /\ worker'.at \in (IF redis THEN {"read", "stopped"} ELSE {"stopped"})
           /\ redis => kept = hist.stored
           /\ ~redis => (kept = hist.stored /\ entry' = entry) \/ kept = [l \in Locs |-> -TTL]
<1>1. hist.stored \in [Locs -> Int]
  BY DEF TypeOK, Histories
<1>2. [l \in Locs |-> -TTL] \in [Locs -> Int]
  BY ResolutionAssumption
<1>3. CASE Pause
  BY <1>1, <1>3 DEF Pause, Cancelled, Leave, Fresh
<1>4. CASE Crash
  <2>1. PICK kept \in [Locs -> Int] : kept = IF redis THEN hist.stored ELSE [l \in Locs |-> -TTL]
    BY <1>1, <1>2
  <2>2. Cancelled(kept) /\ UNCHANGED <<now, group, layer>>
    BY <1>4, <2>1 DEF Crash
  <2>3. redis' = redis
    BY <2>2 DEF Cancelled, Leave
  <2>4. worker'.at = (IF redis THEN "read" ELSE "stopped")
    BY <1>4 DEF Crash, Fresh
  <2> QED BY <2>1, <2>2, <2>3, <2>4
<1> QED BY <1>3, <1>4

-----------------------------------------------------------------------------
(* Work on an announcement. Its count can only be one already when the      *)
(* worker could still come to it if the group forgot what it delivered, or  *)
(* the worker went back in its batch: what is due has a count of zero.      *)

Due(n)  == n > group \/ (worker.at \in {"facts", "embed"} /\ n >= worker.next)
DoneInv == ProcessedOnce /\ \A n \in 1..Len(stream) : Due(n) => hist.processed[n] = 0

LEMMA DoneStep == TypeOK /\ DoneInv /\ [Next]_vars => DoneInv'
<1> SUFFICES ASSUME TypeOK, DoneInv, [Next]_vars PROVE DoneInv'
  OBVIOUS
<1>1. /\ stream \in Seq(Notices) /\ Len(stream) \in Nat /\ group \in Nat /\ group <= Len(stream)
      /\ hist.processed \in Seq(Nat) /\ Len(hist.processed) = Len(stream)
      /\ worker.next \in Nat
      /\ worker.at \in {"facts", "embed"} => worker.next \in 1..group
      /\ \A n \in 1..Len(stream) : hist.processed[n] \in Nat /\ hist.processed[n] <= 1
      /\ \A n \in 1..Len(stream) : Due(n) => hist.processed[n] = 0
  <2>1. stream \in Seq(Notices) /\ hist.processed \in Seq(Nat) /\ Len(hist.processed) = Len(stream)
    BY DEF TypeOK, Histories, Notices
  <2>2. Len(stream) \in Nat
    BY <2>1
  <2>3. \A n \in 1..Len(stream) : hist.processed[n] \in Nat
    BY <2>1, ElementOfSeq
  <2> QED BY <2>1, <2>2, <2>3 DEF TypeOK, DoneInv, ProcessedOnce
\* Nothing is processed, and nothing becomes due again.
<1>2. ASSUME stream' = stream, hist'.processed = hist.processed,
             \A n \in 1..Len(stream) : Due(n)' => Due(n)
      PROVE  DoneInv'
  BY <1>1, <1>2 DEF DoneInv, ProcessedOnce
<1>3. ASSUME stream' = stream, hist'.processed = hist.processed, UNCHANGED <<group, worker>>
      PROVE  DoneInv'
  BY <1>2, <1>3 DEF Due
\* Announcements are added, with a count of zero.
<1>4. ASSUME NEW A \in Seq(Notices), NEW Z \in Seq({0}), Len(A) = Len(Z), group' = group,
             stream' = stream \o A, hist'.processed = hist.processed \o Z,
             worker' = worker \/ worker'.at \notin {"facts", "embed"}
      PROVE  DoneInv'
  <2>1. Len(stream') = Len(stream) + Len(A) /\ Len(A) \in Nat
    <3>1. Len(stream \o A) = Len(stream) + Len(A) /\ Len(A) \in Nat
      BY <1>1, ConcatProperties
    <3> QED BY <1>4, <3>1
  <2>2. \A n \in 1..Len(stream') :
          IF n <= Len(stream) THEN hist'.processed[n] = hist.processed[n] ELSE hist'.processed[n] = 0
    <3>1. hist.processed \in Seq(Nat) /\ Z \in Seq(Nat)
      BY <1>1, <1>4
    <3> SUFFICES ASSUME NEW n \in 1..(Len(hist.processed) + Len(Z))
                 PROVE  IF n <= Len(stream) THEN hist'.processed[n] = hist.processed[n]
                                            ELSE hist'.processed[n] = 0
      BY <1>1, <1>4, <2>1
    <3>2. hist'.processed[n] = IF n <= Len(hist.processed) THEN hist.processed[n]
                                                           ELSE Z[n - Len(hist.processed)]
      BY <1>4, <3>1, ConcatProperties
    <3>3. CASE n > Len(hist.processed)
      <4>1. n - Len(hist.processed) \in 1..Len(Z)
        BY <1>1, <1>4, <2>1, <3>3
      <4>2. Z[n - Len(hist.processed)] = 0
        BY <1>4, <4>1, ElementOfSeq
      <4> QED BY <1>1, <3>2, <3>3, <4>2
    <3>4. CASE n <= Len(hist.processed)
      BY <1>1, <3>2, <3>4
    <3> QED BY <1>1, <3>3, <3>4
  <2>3. \A n \in 1..Len(stream) : Due(n)' => Due(n)
    BY <1>4 DEF Due
  <2>4. \A n \in 1..Len(stream') : n <= Len(stream) => n \in 1..Len(stream)
    BY <1>1, <2>1
  <2>5. \A n \in 1..Len(stream') : hist'.processed[n] <= 1
    <3> SUFFICES ASSUME NEW n \in 1..Len(stream') PROVE hist'.processed[n] <= 1
      OBVIOUS
    <3>1. CASE n <= Len(stream)
      BY <1>1, <2>2, <2>4, <3>1
    <3>2. CASE ~(n <= Len(stream))
      BY <2>2, <3>2
    <3> QED BY <3>1, <3>2
  <2>6. \A n \in 1..Len(stream') : Due(n)' => hist'.processed[n] = 0
    BY <1>1, <2>2, <2>3, <2>4
  <2> QED BY <2>5, <2>6 DEF DoneInv, ProcessedOnce
\* The worker is done with what it is at, and goes on or reads again.
<1>5. ASSUME worker.at \in {"facts", "embed"}, NextDone, UNCHANGED <<stream, group>>
      PROVE  DoneInv'
  <2> DEFINE k == worker.next
  <2>1. /\ k \in 1..group /\ k \in 1..Len(hist.processed)
        /\ worker'.at = (IF k = group THEN "read" ELSE "facts") /\ worker'.next = k + 1
        /\ hist'.processed = [hist.processed EXCEPT ![k] = hist.processed[k] + 1]
    BY <1>5, NextDoneIs DEF History
  <2>2. Due(k) /\ hist.processed[k] = 0 /\ k \in Nat
    BY SMTT(30), <1>1, <1>5, <2>1 DEF Due
  <2> HIDE DEF k
  <2>3. \A n \in 1..Len(stream) :
          hist'.processed[n] = IF n = k THEN 1 ELSE hist.processed[n]
    <3>1. hist'.processed = [hist.processed EXCEPT ![k] = 1]
      BY <2>1, <2>2
    <3>2. DOMAIN hist.processed = 1..Len(stream)
      BY <1>1
    <3> QED BY <3>1, <3>2
  <2>4. \A n \in 1..Len(stream) : Due(n)' => Due(n) /\ n # k
    BY <1>1, <1>5, <2>1, <2>2 DEF Due, k
  <2>5. ASSUME NEW n \in 1..Len(stream)
        PROVE  hist'.processed[n] <= 1 /\ (Due(n)' => hist'.processed[n] = 0)
    <3>1. CASE n = k
      BY <2>3, <2>4, <3>1
    <3>2. CASE n # k
      <4>1. hist'.processed[n] = hist.processed[n]
        BY <2>3, <3>2
      <4>2. hist.processed[n] <= 1 /\ (Due(n) => hist.processed[n] = 0)
        BY DEF DoneInv, ProcessedOnce
      <4> QED BY <2>4, <4>1, <4>2
    <3> QED BY <3>1, <3>2
  <2> QED BY <1>5, <2>5 DEF DoneInv, ProcessedOnce
<1>6. CASE Tick \/ ResolveBegins \/ Gathers \/ Start \/ UNCHANGED vars
  BY <1>3, <1>6 DEF Tick, ResolveBegins, Gathers, Start, vars, workerVars
<1>7. CASE ResolveEnds
  BY <1>3, <1>7, EndingKeeps
<1>8. ASSUME NEW l \in Locs, Resolves(l) PROVE DoneInv'
  <2>1. CASE IsResolved(l) \/ Lookup(l)
    BY <1>3, <2>1, LookingUpKeeps
  <2>2. CASE Limits(l)
    BY <1>3, <2>2 DEF Limits, workerVars
  <2>3. CASE Answered(l)
    BY <1>3, <2>3, AnsweringKeeps
  <2>4. CASE Set(l) \/ SetFails(l)
    BY <1>3, <2>4, SettingKeeps
  <2>5. CASE Announces(l)
    <3>1. CASE UNCHANGED <<stream, hist>>
      BY <1>3, <2>5, <3>1 DEF Announces, workerVars
    <3>2. CASE stream' = Append(stream, Announcement(l)) /\ hist'.processed = Append(hist.processed, 0)
      <4>1. Announcement(l) \in Notices
        BY DEF TypeOK, Announcement, Notices
      <4>2. stream' = stream \o <<Announcement(l)>> /\ hist'.processed = hist.processed \o <<0>>
        <5> DEFINE e == Announcement(l)
        <5> HIDE DEF e
        <5>1. e \in Notices /\ stream' = Append(stream, e)
          BY <3>2, <4>1 DEF e
        <5>2. Append(stream, e) = stream \o <<e>>
          BY <1>1, <5>1, AppendIsConcat
        <5>3. Append(hist.processed, 0) = hist.processed \o <<0>>
          <6>1. 0 \in Nat
            OBVIOUS
          <6> QED BY <1>1, <6>1, AppendIsConcat
        <5> QED BY <3>2, <5>1, <5>2, <5>3 DEF e
      <4>3. <<Announcement(l)>> \in Seq(Notices) /\ <<0>> \in Seq({0}) /\ Len(<<Announcement(l)>>) = Len(<<0>>)
        BY <4>1
      <4>4. UNCHANGED <<group, worker>>
        BY <2>5 DEF Announces, workerVars
      <4> HIDE DEF Announcement
      <4> QED BY <1>4, <4>2, <4>3, <4>4
    <3> QED BY <2>5, <3>1, <3>2, AnnouncesIs DEF History
  <2> QED BY <1>8, <2>1, <2>2, <2>3, <2>4, <2>5 DEF Resolves
<1>9. ASSUME NEW i \in Windows, WindowElapses(i) PROVE DoneInv'
  BY <1>3, <1>9 DEF WindowElapses, workerVars
<1>10. CASE Takes
  <2>1. /\ stream' = stream /\ hist' = hist /\ worker'.next = group + 1
        /\ group' = group + Cardinality(Delivered) /\ Cardinality(Delivered) \in Nat
    BY <1>1, <1>10, DeliveredNext DEF Takes
  <2>2. \A n \in 1..Len(stream) : Due(n)' => Due(n)
    BY <1>1, <2>1 DEF Due
  <2> QED BY <1>2, <2>1, <2>2
<1>11. CASE TakeFails
  <2>1. PICK n \in {0, Cardinality(Delivered)} :
           n \in Nat /\ group' = group + n /\ hist'.processed = hist.processed
    BY <1>11, TakeFailsIs DEF History
  <2>2. UNCHANGED <<stream, worker>>
    BY <1>11 DEF TakeFails
  <2>3. \A m \in 1..Len(stream) : Due(m)' => Due(m)
    BY <1>1, <2>1, <2>2 DEF Due
  <2> QED BY <1>2, <2>1, <2>2, <2>3
<1>12. CASE ReadsBack
  <2>1. UNCHANGED <<stream, group>> /\ worker.at = "facts"
    BY <1>12 DEF ReadsBack
  <2>2. CASE NextDone
    BY <1>5, <2>1, <2>2
  <2>3. ASSUME NEW v, worker' = [worker EXCEPT !.at = "embed", !.v = v], UNCHANGED hist
        PROVE  DoneInv'
    <3>1. worker'.at = "embed" /\ worker'.next = worker.next
      BY <2>3 DEF TypeOK
    <3>2. \A m \in 1..Len(stream) : Due(m)' => Due(m)
      BY <2>1, <3>1 DEF Due
    <3> QED BY <1>2, <2>1, <2>3, <3>2
  <2> QED BY <1>12, <2>2, <2>3 DEF ReadsBack
<1>13. CASE Indexes
  BY <1>5, <1>13 DEF Indexes
<1>14. CASE Pause \/ Crash
  <2>1. PICK kept \in [Locs -> Int] :
           Cancelled(kept) /\ group' = group /\ worker'.at \in {"read", "stopped"}
    BY <1>14, StoppingIs
  <2>2. PICK S \in SUBSET Setting, A \in Seq(Notices), Z \in Seq({0}) : Behind(kept, S, A, Z)
    BY <2>1, LeftBehind
  <2>3. Len(A) = Len(Z) /\ stream' = stream \o A /\ hist'.processed = hist.processed \o Z
    BY <2>2 DEF Behind, History
  <2> QED BY <1>4, <2>1, <2>2, <2>3
<1> QED BY <1>6, <1>7, <1>8, <1>9, <1>10, <1>11, <1>12, <1>13, <1>14 DEF Next, Works

\* XREADGROUP delivers an announcement to the worker once, a pause and a crash
\* throw the rest of a batch away and do not rewind the group, and the worker
\* goes through a batch in order: no announcement is worked on twice, whatever
\* fails and in whatever order announcements are added meanwhile.
THEOREM ProcessedOnceHolds == Spec => []ProcessedOnce
<1>1. Init => DoneInv
  BY DEF Init, DoneInv, ProcessedOnce
<1>2. DoneInv => ProcessedOnce
  BY DEF DoneInv
<1> QED BY ResInvInit, ResInvStep, DoneStep, <1>1, <1>2, PTL DEF Spec, ResInv

-----------------------------------------------------------------------------
(* What a document is promised. Its expiry was announced for an earlier     *)
(* answer than the content it was read back with, if the place was resolved *)
(* again: so no announcement of a place may outlive what Redis holds of it, *)
(* and this in turn needs what is announced next to be as old at least.     *)

Latest == now + TTL

Promised ==
  /\ \A v \in 1..MaxVer : hist.until[v] <= Latest
  /\ \A n \in 1..Len(stream) : stream[n].exp <= Latest
  /\ \A l \in Locs : res[l].exp <= Latest

Outlives(l) ==
  /\ kv[l].v \in 1..MaxVer => kv[l].exp <= hist.until[kv[l].v]
  /\ kv[l].v # None => \A n \in 1..Len(stream) : stream[n].loc = l => stream[n].exp <= kv[l].exp
  /\ kv[l].v # None /\ res[l].at = "announce" => res[l].exp <= kv[l].exp

PlacesHonest == Promised /\ \A l \in Locs : Outlives(l)

WorkerHonest ==
  /\ ~redis => worker.at = "stopped"
  /\ worker.at = "embed" => stream[worker.next].exp <= hist.until[worker.v]

HonestInv == PlacesHonest /\ WorkerHonest /\ LayerHonest

\* Numbers, for the comparisons below.
LEMMA HonestNumbers ==
  ASSUME TypeOK
  PROVE  /\ now \in Nat /\ TTL \in Nat /\ Len(stream) \in Nat
         /\ \A v \in 1..MaxVer : hist.until[v] \in Nat
         /\ \A n \in 1..Len(stream) : stream[n].exp \in Nat /\ stream[n].loc \in Locs
         /\ \A l \in Locs : res[l].exp \in Nat /\ kv[l].exp \in Nat
         /\ \A d \in layer : d.exp \in Nat /\ d.v \in 1..MaxVer
         /\ group \in Nat /\ group <= Len(stream)
         /\ worker.at \in {"facts", "embed"} => worker.next \in 1..Len(stream)
         /\ worker.at = "embed" => worker.v \in 1..MaxVer
<1>1. \A t \in Times : t \in Nat
  BY ResolutionAssumption DEF Times
<1>2. stream \in Seq(Notices)
  BY DEF TypeOK, Notices
<1>3. Len(stream) \in Nat /\ \A n \in 1..Len(stream) : stream[n] \in Notices
  BY <1>2, ElementOfSeq
<1>4. \A n \in 1..Len(stream) : stream[n].exp \in Nat /\ stream[n].loc \in Locs
  BY <1>1, <1>3 DEF Notices
<1>5. \A v \in 1..MaxVer : hist.until[v] \in Nat
  BY <1>1 DEF TypeOK, Histories
<1>6. \A l \in Locs : res[l].exp \in Nat /\ kv[l].exp \in Nat
  BY <1>1 DEF TypeOK, Stored
<1>7. \A d \in layer : d.exp \in Nat /\ d.v \in 1..MaxVer
  BY <1>1 DEF TypeOK
<1>8. now \in Nat /\ TTL \in Nat /\ group \in Nat /\ group <= Len(stream)
  BY <1>3, ResolutionAssumption DEF TypeOK
<1>9. worker.at \in {"facts", "embed"} => worker.next \in 1..Len(stream)
  BY <1>3, <1>8 DEF TypeOK
<1> QED BY <1>3, <1>4, <1>5, <1>6, <1>7, <1>8, <1>9 DEF TypeOK

\* What is promised latest is promised later as the clock goes on.
LEMMA Later ==
  ASSUME NEW a \in Nat, NEW b \in Nat, NEW t \in Nat, b >= a
  PROVE  a + t <= b + t /\ b + t \in Nat
  OBVIOUS

LEMMA LatestGrows ==
  ASSUME now \in Nat, now' \in Nat, TTL \in Nat, now' >= now
  PROVE  Latest <= Latest' /\ Latest' \in Nat
<1>1. now + TTL <= now' + TTL /\ now' + TTL \in Nat
  BY Later
<1> QED BY <1>1 DEF Latest

\* The places stay honest when promises only grow, announcements come from
\* resolutions that announce, and Redis forgets or holds the latest.
LEMMA PlacesKept ==
  ASSUME TypeOK, TypeOK', PlacesHonest, now' >= now,
         \A v \in 1..MaxVer : hist.until[v] <= hist'.until[v] /\ hist'.until[v] <= Latest',
         \A n \in 1..Len(stream') :
           \/ n \in 1..Len(stream) /\ stream'[n] = stream[n]
           \/ \E l \in Locs : res[l].at = "announce" /\ stream'[n] = Announcement(l),
         \A l \in Locs :
           /\ \/ kv'[l] = kv[l] \/ kv'[l].v = None
              \/ /\ now' = now /\ kv'[l].exp = Latest
                 /\ kv'[l].v \in 1..MaxVer => hist'.until[kv'[l].v] = Latest
           /\ res'[l].exp <= Latest'
           /\ res'[l].at = "announce" =>
                \/ res[l].at = "announce" /\ res'[l].exp = res[l].exp
                \/ now' = now /\ kv'[l].exp = Latest
  PROVE  PlacesHonest'
<1>1. /\ now \in Nat /\ now' \in Nat /\ TTL \in Nat /\ Latest <= Latest'
      /\ \A l \in Locs : res[l].exp \in Nat /\ kv[l].exp \in Nat /\ kv'[l].exp \in Nat
      /\ \A v \in 1..MaxVer : hist.until[v] \in Nat /\ hist'.until[v] \in Nat
      /\ \A n \in 1..Len(stream) : stream[n].exp \in Nat
      /\ \A n \in 1..Len(stream') : stream'[n].exp \in Nat /\ stream'[n].loc \in Locs
      /\ Latest \in Nat /\ Latest' \in Nat
  <2>1. now \in Nat /\ now' \in Nat /\ TTL \in Nat
    BY HonestNumbers, ResolutionAssumption DEF TypeOK
  <2>2. Latest <= Latest' /\ Latest \in Nat /\ Latest' \in Nat
    BY <2>1 DEF Latest
  <2>3. \A t \in Times : t \in Nat
    BY ResolutionAssumption DEF Times
  <2>4. \A l \in Locs : kv'[l].exp \in Nat
    BY <2>3 DEF TypeOK, Stored
  <2>5. \A v \in 1..MaxVer : hist'.until[v] \in Nat
    BY <2>3 DEF TypeOK, Histories
  <2>6. \A n \in 1..Len(stream') : stream'[n].exp \in Nat /\ stream'[n].loc \in Locs
    <3>1. stream' \in Seq(Notices)
      BY DEF TypeOK, Notices
    <3>2. \A n \in 1..Len(stream') : stream'[n] \in Notices
      BY <3>1, ElementOfSeq
    <3> QED BY <2>3, <3>2 DEF Notices
  <2> QED BY <2>1, <2>2, <2>4, <2>5, <2>6, HonestNumbers
<1>2. \A n \in 1..Len(stream') :
        \/ n \in 1..Len(stream) /\ stream'[n] = stream[n]
        \/ \E l \in Locs : res[l].at = "announce" /\ stream'[n].loc = l /\ stream'[n].exp = res[l].exp
  <2>1. \A l : Announcement(l).loc = l /\ Announcement(l).exp = res[l].exp
    BY DEF Announcement
  <2> SUFFICES ASSUME NEW n \in 1..Len(stream'), NEW l \in Locs, res[l].at = "announce",
                      stream'[n] = Announcement(l)
               PROVE  stream'[n].loc = l /\ stream'[n].exp = res[l].exp
    OBVIOUS
  <2> QED BY <2>1
<1>3. \A n \in 1..Len(stream') : stream'[n].exp <= Latest
  BY <1>1, <1>2 DEF PlacesHonest, Promised
<1>4. Promised'
  <2>1. \A n \in 1..Len(stream') : stream'[n].exp <= Latest'
    BY <1>1, <1>3
  <2> QED BY <2>1 DEF Promised
<1>5. ASSUME NEW l \in Locs PROVE Outlives(l)'
  <2>1. Outlives(l)
    BY DEF PlacesHonest
  <2>2. CASE kv'[l].v = None
    BY <2>2, ResolutionAssumption DEF Outlives, None
  <2>3. CASE kv'[l] = kv[l]
    <3>1. kv'[l].v \in 1..MaxVer => kv'[l].exp <= hist'.until[kv'[l].v]
      BY <1>1, <2>1, <2>3 DEF Outlives
    <3>2. kv'[l].v # None => \A n \in 1..Len(stream') : stream'[n].loc = l => stream'[n].exp <= kv'[l].exp
      BY <1>2, <2>1, <2>3 DEF Outlives
    <3>3. kv'[l].v # None /\ res'[l].at = "announce" => res'[l].exp <= kv'[l].exp
      <4>1. CASE res[l].at = "announce" /\ res'[l].exp = res[l].exp
        BY <2>1, <2>3, <4>1 DEF Outlives
      <4>2. CASE now' = now /\ kv'[l].exp = Latest
        <5>1. Latest' = Latest
          BY <4>2 DEF Latest
        <5> QED BY <4>2, <5>1
      <4> QED BY <4>1, <4>2
    <3> QED BY <3>1, <3>2, <3>3 DEF Outlives
  <2>4. CASE /\ now' = now /\ kv'[l].exp = Latest
             /\ kv'[l].v \in 1..MaxVer => hist'.until[kv'[l].v] = Latest
    <3>1. kv'[l].v \in 1..MaxVer => kv'[l].exp <= hist'.until[kv'[l].v]
      BY <1>1, <2>4
    <3>2. \A n \in 1..Len(stream') : stream'[n].exp <= kv'[l].exp
      BY <1>3, <2>4
    <3>3. res'[l].exp <= kv'[l].exp
      <4>1. Latest' = Latest
        BY <2>4 DEF Latest
      <4> QED BY <2>4, <4>1
    <3> QED BY <3>1, <3>2, <3>3 DEF Outlives
  <2> QED BY <2>2, <2>3, <2>4
<1> QED BY <1>4, <1>5 DEF PlacesHonest

\* What is indexed, and about to be, stays honest with growing promises.
LEMMA IndexedKept ==
  ASSUME TypeOK, TypeOK', WorkerHonest, LayerHonest, redis' = redis, layer' = layer,
         \A v \in 1..MaxVer : hist.until[v] <= hist'.until[v],
         \/ worker' = worker /\ \A n \in 1..Len(stream) : stream'[n] = stream[n]
         \/ worker'.at # "embed" /\ (~redis => worker'.at = "stopped")
  PROVE  WorkerHonest' /\ LayerHonest'
<1>1. \A v \in 1..MaxVer : hist.until[v] \in Nat /\ hist'.until[v] \in Nat
  <2>1. \A t \in Times : t \in Nat
    BY ResolutionAssumption DEF Times
  <2> QED BY <2>1 DEF TypeOK, Histories
<1>2. LayerHonest'
  BY SMTT(30), <1>1, HonestNumbers DEF LayerHonest
<1>3. CASE worker' = worker /\ \A n \in 1..Len(stream) : stream'[n] = stream[n]
  <2>1. worker.at = "embed" => worker.next \in 1..Len(stream) /\ worker.v \in 1..MaxVer
    BY HonestNumbers
  <2>2. ASSUME worker.at = "embed" PROVE stream'[worker.next].exp <= hist'.until[worker.v]
    <3>1. stream[worker.next].exp \in Nat /\ stream'[worker.next] = stream[worker.next]
      BY <1>3, <2>1, <2>2, HonestNumbers
    <3> QED BY <1>1, <2>1, <2>2, <3>1 DEF WorkerHonest
  <2> QED BY <1>2, <1>3, <2>2 DEF WorkerHonest
<1>4. CASE worker'.at # "embed" /\ (~redis => worker'.at = "stopped")
  BY <1>2, <1>4 DEF WorkerHonest
<1> QED BY <1>3, <1>4

\* Promises given now are the latest there can be.
LEMMA PromisesGrow ==
  ASSUME TypeOK, PlacesHonest, NEW L \in SUBSET Locs, now' = now, hist'.until = Until(L)
  PROVE  /\ \A v \in 1..MaxVer : hist.until[v] <= hist'.until[v] /\ hist'.until[v] <= Latest'
         /\ \A l \in L : /\ Applied(l).exp = Latest
                         /\ Applied(l).v \in 1..MaxVer => hist'.until[Applied(l).v] = Latest
<1>1. \A v \in 1..MaxVer : hist.until[v] \in Nat /\ hist.until[v] <= Latest
  BY HonestNumbers DEF PlacesHonest, Promised
<1>2. Latest \in Nat /\ Latest' = Latest
  BY HonestNumbers DEF Latest
<1>3. \A v \in 1..MaxVer : hist'.until[v] = IF \E l \in L : res[l].v = v THEN Latest ELSE hist.until[v]
  BY DEF Until, Latest
<1>4. \A l \in L : Applied(l).exp = Latest /\ Applied(l).v = res[l].v
  BY DEF Applied, Latest
<1> QED BY <1>1, <1>2, <1>3, <1>4

LEMMA HonestStep == TypeOK /\ TypeOK' /\ HonestInv /\ [Next]_vars => HonestInv'
<1> SUFFICES ASSUME TypeOK, TypeOK', HonestInv, [Next]_vars PROVE HonestInv'
  OBVIOUS
<1>0. PlacesHonest /\ WorkerHonest /\ LayerHonest
  BY DEF HonestInv
<1>1. /\ now \in Nat /\ TTL \in Nat /\ Len(stream) \in Nat /\ Latest \in Nat
      /\ \A v \in 1..MaxVer : hist.until[v] \in Nat /\ hist.until[v] <= Latest
      /\ \A l \in Locs : res[l].exp \in Nat /\ res[l].exp <= Latest
  BY <1>0, HonestNumbers DEF PlacesHonest, Promised, Latest
<1>2. res \in [Locs -> Answers] /\ kv \in [Locs -> Stored]
  BY DEF TypeOK, Answers
<1> DEFINE Growing  == \A v \in 1..MaxVer : hist.until[v] <= hist'.until[v] /\ hist'.until[v] <= Latest'
           Same     == \A n \in 1..Len(stream') : n \in 1..Len(stream) /\ stream'[n] = stream[n]
           Resting  == worker' = worker /\ \A n \in 1..Len(stream) : stream'[n] = stream[n]
           Stores(l) == \/ kv'[l] = kv[l] \/ kv'[l].v = None
                        \/ /\ now' = now /\ kv'[l].exp = Latest
                           /\ kv'[l].v \in 1..MaxVer => hist'.until[kv'[l].v] = Latest
           Announcing(l) == /\ res'[l].exp <= Latest'
                            /\ res'[l].at = "announce" =>
                                 \/ res[l].at = "announce" /\ res'[l].exp = res[l].exp
                                 \/ now' = now /\ kv'[l].exp = Latest
\* Promises that stay as they were.
<1>3. ASSUME hist'.until = hist.until, now' \in Nat, now' >= now PROVE Growing /\ Latest <= Latest'
  <2>1. Latest <= Latest' /\ Latest' \in Nat
    <3>1. now \in Nat /\ TTL \in Nat
      BY <1>1
    <3>2. now' \in Nat /\ now' >= now
      BY <1>3
    <3> QED BY <3>1, <3>2, LatestGrows
  <2> SUFFICES ASSUME NEW v \in 1..MaxVer
               PROVE  hist.until[v] <= hist.until[v] /\ hist.until[v] <= Latest'
    BY <1>3, <2>1
  <2>2. hist.until[v] \in Nat /\ hist.until[v] <= Latest
    BY <1>1
  <2> QED BY <1>1, <2>1, <2>2
<1>4. ASSUME UNCHANGED <<stream, worker>> PROVE Same /\ Resting
  BY <1>4
<1>5. ASSUME NEW l \in Locs, Latest <= Latest', Latest' \in Nat, res'[l] = res[l] PROVE Announcing(l)
  BY <1>1, <1>5
<1>6. ASSUME NEW l \in Locs, Latest <= Latest', Latest' \in Nat, res'[l].at # "announce",
             res'[l].exp = res[l].exp \/ res'[l].exp = 0
      PROVE Announcing(l)
  BY <1>1, <1>6
<1>7. ASSUME UNCHANGED now PROVE Latest' = Latest /\ now' >= now /\ now' \in Nat
  BY <1>1, <1>7 DEF Latest
\* A step beside Redis, the stream and the layer.
<1>8. ASSUME UNCHANGED <<redis, now, kv, stream, worker, layer>>, hist'.until = hist.until,
             \A l \in Locs : Announcing(l)
      PROVE  HonestInv'
  <2>1. Growing /\ Same /\ Resting /\ now' >= now
    BY <1>3, <1>4, <1>7, <1>8
  <2>2. \A l \in Locs : Stores(l)
    BY <1>8
  <2>3. PlacesHonest'
    BY <1>0, <1>8, <2>1, <2>2, PlacesKept
  <2>4. WorkerHonest' /\ LayerHonest'
    BY <1>0, <1>8, <2>1, IndexedKept
  <2> QED BY <2>3, <2>4 DEF HonestInv
\* A step that leaves the places alone as well.
<1>9. ASSUME UNCHANGED <<redis, now, kv, res, stream, worker, layer>>, hist'.until = hist.until
      PROVE  HonestInv'
  <2>1. \A l \in Locs : Announcing(l)
    BY <1>1, <1>5, <1>7, <1>9
  <2> QED BY <1>8, <1>9, <2>1
\* The await of one place moves on, to another than the announcement.
<1>10. ASSUME NEW l \in Locs, NEW r, res' = [res EXCEPT ![l] = r], r.at # "announce",
              r.exp = res[l].exp \/ r.exp = 0, now' = now
       PROVE  \A k \in Locs : Announcing(k)
  <2>1. \A k \in Locs : res'[k] = IF k = l THEN r ELSE res[k]
    BY <1>2, <1>10
  <2>2. ASSUME NEW k \in Locs PROVE Announcing(k)
    <3>1. CASE k = l
      <4>1. res'[k].at # "announce" /\ (res'[k].exp = res[k].exp \/ res'[k].exp = 0)
        BY <1>10, <2>1, <3>1
      <4> QED BY <1>1, <1>6, <1>7, <1>10, <4>1
    <3>2. CASE k # l
      BY <1>1, <1>5, <1>7, <1>10, <2>1, <3>2
    <3> QED BY <3>1, <3>2
  <2> QED BY <2>2
<1>11. CASE Tick
  <2>1. /\ now' = now + 1 /\ now' \in Nat /\ now' >= now /\ UNCHANGED <<redis, res, stream, worker, layer, hist>>
        /\ \A l \in Locs : kv'[l] = kv[l] \/ kv'[l] = Nothing
    BY <1>1, <1>11 DEF Tick, limiterVars, workerVars
  <2>2. Growing /\ Latest <= Latest' /\ Same /\ Resting /\ Latest' \in Nat
    BY <1>1, <1>3, <1>4, <2>1 DEF Latest
  <2>3. \A l \in Locs : Stores(l) /\ Announcing(l)
    BY <1>1, <1>5, <2>1, <2>2 DEF Nothing
  <2>4. PlacesHonest'
    BY <1>0, <2>1, <2>2, <2>3, PlacesKept
  <2>5. WorkerHonest' /\ LayerHonest'
    BY <1>0, <2>1, <2>2, IndexedKept
  <2> QED BY <2>4, <2>5 DEF HonestInv
<1>12. CASE ResolveBegins
  <2>1. UNCHANGED <<redis, now, kv, stream, worker, layer, hist>>
    BY <1>12 DEF ResolveBegins, limiterVars, workerVars
  <2>2. \A l \in Locs : res'[l].exp = 0 /\ res'[l].at # "announce"
    BY <1>12 DEF ResolveBegins, Off
  <2>3. \A l \in Locs : Announcing(l)
    BY <1>1, <1>6, <1>7, <2>1, <2>2
  <2> QED BY <1>8, <2>1, <2>3
<1>13. CASE Gathers \/ Start \/ UNCHANGED vars
  BY <1>9, <1>13 DEF Gathers, Start, vars, limiterVars, proxyVars, workerVars
<1>14. CASE ResolveEnds
  BY <1>9, <1>14, EndingKeeps
<1>15. ASSUME NEW l \in Locs, IsResolved(l) \/ Lookup(l) PROVE HonestInv'
  <2>1. UNCHANGED <<redis, now, kv, stream, worker, layer>> /\ hist'.until = hist.until
    BY <1>15, LookingUpKeeps
  <2>2. CASE res' = [res EXCEPT ![l] = Off]
    <3>1. Off.at # "announce" /\ Off.exp = 0
      BY DEF Off
    <3>2. \A k \in Locs : Announcing(k)
      BY <1>10, <2>1, <2>2, <3>1
    <3> QED BY <1>8, <2>1, <3>2
  <2>3. ASSUME NEW x \in {"off", "wait", "ask"}, res' = [res EXCEPT ![l].at = x] PROVE HonestInv'
    <3> DEFINE r == [at |-> x, v |-> res[l].v, exp |-> res[l].exp]
    <3>1. res' = [res EXCEPT ![l] = r] /\ r.at # "announce" /\ r.exp = res[l].exp
      BY <2>3, AwaitMoves
    <3> HIDE DEF r
    <3>2. \A k \in Locs : Announcing(k)
      BY <1>10, <2>1, <3>1
    <3> QED BY <1>8, <2>1, <3>2
  <2> QED BY <1>15, <2>2, <2>3 DEF IsResolved, Lookup
<1>16. ASSUME NEW l \in Locs, Limits(l) PROVE HonestInv'
  <2>1. redis' = redis
    BY <1>16 DEF Limits, CheckStep, Get, Deny, Incr, Expire, CheckFallback, FailOpen
  <2> QED BY <1>9, <1>16, <2>1 DEF Limits, proxyVars, workerVars
<1>17. ASSUME NEW l \in Locs, Answered(l) PROVE HonestInv'
  <2>1. UNCHANGED <<redis, now, kv, stream, worker, layer>> /\ hist'.until = hist.until
    BY <1>17, AnsweringKeeps
  <2>2. PICK v \in Contents \ {None} : res' = [res EXCEPT ![l] = [at |-> "set", v |-> v, exp |-> res[l].exp]]
    BY <1>17, AnsweredIs
  <2> DEFINE r == [at |-> "set", v |-> v, exp |-> res[l].exp]
  <2>3. res' = [res EXCEPT ![l] = r] /\ r.at # "announce" /\ r.exp = res[l].exp
    BY <2>2
  <2> HIDE DEF r
  <2>4. \A k \in Locs : Announcing(k)
    BY <1>10, <2>1, <2>3
  <2> QED BY <1>8, <2>1, <2>4
\* A SET that is applied, or not, and the place that goes on from it.
<1>18. ASSUME NEW l \in Locs, Set(l) \/ SetFails(l) PROVE HonestInv'
  <2>1. /\ UNCHANGED <<redis, now, stream, worker, layer>>
        /\ UNCHANGED <<kv, hist>> \/ hist'.until = Until({l})
    BY <1>18, SettingKeeps
  <2>2. Growing
    <3>1. CASE UNCHANGED <<kv, hist>>
      BY <1>3, <1>7, <2>1, <3>1
    <3>2. CASE hist'.until = Until({l})
      BY <1>0, <2>1, <3>2, PromisesGrow
    <3> QED BY <2>1, <3>1, <3>2
  <2>3. kv' = kv \/ (kv' = [kv EXCEPT ![l] = Applied(l)] /\ hist'.until = Until({l}))
    <3>1. CASE Set(l)
      BY <3>1, SetIs DEF StoredNow, History
    <3>2. CASE SetFails(l)
      <4>1. CASE UNCHANGED <<kv, hist>>
        BY <4>1
      <4>2. CASE kv' = [kv EXCEPT ![l] = Applied(l)] /\ hist' = [hist EXCEPT !.stored[l] = now, !.until = Until({l})]
        <5>1. StoredNow(l)
          BY <4>2, StoredIs DEF TypeOK
        <5> QED BY <4>2, <5>1 DEF StoredNow, History
      <4> QED BY <3>2, <4>1, <4>2 DEF SetFails
    <3> QED BY <1>18, <3>1, <3>2
  <2>4. \A k \in Locs : Stores(k)
    <3>1. CASE kv' = kv
      BY <3>1
    <3>2. CASE kv' = [kv EXCEPT ![l] = Applied(l)] /\ hist'.until = Until({l})
      <4>1. \A k \in Locs : kv'[k] = IF k = l THEN Applied(l) ELSE kv[k]
        BY <1>2, <3>2
      <4>2. Applied(l).exp = Latest /\ (Applied(l).v \in 1..MaxVer => hist'.until[Applied(l).v] = Latest)
        BY <1>0, <2>1, <3>2, PromisesGrow
      <4> QED BY <2>1, <4>1, <4>2
    <3> QED BY <2>3, <3>1, <3>2
  <2>5. \A k \in Locs : Announcing(k)
    <3>1. CASE res' = [res EXCEPT ![l] = Off]
      <4>1. Off.at # "announce" /\ Off.exp = 0
        BY DEF Off
      <4> QED BY <1>10, <2>1, <3>1, <4>1
    <3>2. CASE kv' = [kv EXCEPT ![l] = Applied(l)]
               /\ res' = [res EXCEPT ![l] = [at |-> "announce", v |-> res[l].v, exp |-> now + TTL]]
      <4> SUFFICES ASSUME NEW k \in Locs PROVE Announcing(k)
        OBVIOUS
      <4>1. CASE k = l
        <5>1. res'[k].exp = Latest /\ kv'[k].exp = Latest
          BY <1>2, <3>2, <4>1 DEF Latest, Applied
        <5> QED BY <1>1, <1>7, <2>1, <5>1
      <4>2. CASE k # l
        <5>1. res'[k] = res[k]
          BY <1>2, <3>2, <4>2
        <5> QED BY <1>1, <1>5, <1>7, <2>1, <5>1
      <4> QED BY <4>1, <4>2
    <3> QED BY <1>18, <3>1, <3>2, SetIs DEF SetFails
  <2>6. PlacesHonest'
    <3>1. Same /\ now' >= now
      BY <1>4, <1>7, <2>1
    <3> QED BY <1>0, <2>2, <2>4, <2>5, <3>1, PlacesKept
  <2>7. WorkerHonest' /\ LayerHonest'
    <3>1. Resting
      BY <1>4, <2>1
    <3> QED BY <1>0, <2>1, <2>2, <3>1, IndexedKept
  <2> QED BY <2>6, <2>7 DEF HonestInv
<1>19. ASSUME NEW l \in Locs, Announces(l) PROVE HonestInv'
  <2>1. UNCHANGED <<redis, now, kv, worker, layer>> /\ hist'.until = hist.until /\ res' = [res EXCEPT ![l] = Off]
        /\ res[l].at = "announce"
    <3>1. UNCHANGED <<redis, now, kv, worker, layer>> /\ res' = [res EXCEPT ![l] = Off] /\ res[l].at = "announce"
      BY <1>19 DEF Announces, limiterVars, workerVars
    <3> QED BY <1>19, <3>1, AnnouncesIs DEF History
  <2>2. \A k \in Locs : Announcing(k)
    <3>1. Off.at # "announce" /\ Off.exp = 0
      BY DEF Off
    <3> QED BY <1>10, <2>1, <3>1
  <2>3. CASE stream' = stream
    BY <1>8, <2>1, <2>2, <2>3
  <2>4. CASE stream' = Append(stream, Announcement(l))
    <3>1. /\ \A n \in 1..Len(stream) : stream'[n] = stream[n]
          /\ \A n \in 1..Len(stream') :
               \/ n \in 1..Len(stream) /\ stream'[n] = stream[n]
               \/ stream'[n] = Announcement(l)
      <4> DEFINE e == Announcement(l)
      <4>1. stream \in Seq(Notices) /\ e \in Notices
        BY DEF TypeOK, Notices, Announcement
      <4> HIDE DEF e
      <4>2. /\ Len(Append(stream, e)) = Len(stream) + 1
            /\ \A n \in 1..Len(stream) : Append(stream, e)[n] = stream[n]
            /\ Append(stream, e)[Len(stream) + 1] = e
        BY <4>1, AppendProperties
      <4>3. stream' = Append(stream, e)
        BY <2>4 DEF e
      <4> QED BY <1>1, <4>2, <4>3 DEF e
    <3>2. Growing /\ Resting /\ now' >= now
      BY <1>3, <1>7, <2>1, <3>1
    <3>3. \A k \in Locs : Stores(k)
      BY <2>1
    <3>4. PlacesHonest'
      BY <1>0, <2>1, <2>2, <3>1, <3>2, <3>3, PlacesKept
    <3>5. WorkerHonest' /\ LayerHonest'
      BY <1>0, <2>1, <3>2, IndexedKept
    <3> QED BY <3>4, <3>5 DEF HonestInv
  <2> QED BY <1>19, <2>3, <2>4 DEF Announces
<1>20. ASSUME NEW i \in Windows, WindowElapses(i) PROVE HonestInv'
  BY <1>9, <1>20 DEF WindowElapses, WindowOver, proxyVars, workerVars
\* The worker moves on, and holds nothing.
<1>21. ASSUME UNCHANGED <<redis, now, kv, res, stream, layer>>, hist'.until = hist.until,
              worker'.at # "embed", ~redis => worker'.at = "stopped"
       PROVE  HonestInv'
  <2>1. Growing /\ Same /\ now' >= now
    BY <1>3, <1>7, <1>21
  <2>2. \A l \in Locs : Stores(l) /\ Announcing(l)
    BY <1>1, <1>5, <1>7, <1>21
  <2>3. PlacesHonest'
    BY <1>0, <2>1, <2>2, PlacesKept
  <2>4. WorkerHonest' /\ LayerHonest'
    BY <1>0, <1>21, <2>1, IndexedKept
  <2> QED BY <2>3, <2>4 DEF HonestInv
<1>22. ASSUME worker.at \in {"facts", "embed"}, NextDone
       PROVE  worker'.at # "embed" /\ redis /\ hist'.until = hist.until
  BY <1>0, <1>22, NextDoneIs DEF WorkerHonest, History
<1>23. CASE Takes
  <2>1. UNCHANGED <<redis, now, kv, res, stream, layer, hist>> /\ worker'.at = "facts" /\ worker.at = "read"
    BY <1>23 DEF Takes, limiterVars, proxyVars
  <2> QED BY <1>0, <1>21, <2>1 DEF WorkerHonest
<1>24. CASE TakeFails
  <2>1. hist'.until = hist.until
    BY <1>24, TakeFailsIs DEF History
  <2> QED BY <1>9, <1>24, <2>1 DEF TakeFails, limiterVars, proxyVars
<1>25. CASE ReadsBack
  <2>1. UNCHANGED <<redis, now, kv, res, stream, layer>> /\ worker.at = "facts"
    BY <1>25 DEF ReadsBack, limiterVars, proxyVars
  <2>2. CASE NextDone
    BY <1>21, <1>22, <2>1, <2>2
  <2> DEFINE l == stream[worker.next].loc  v == GetFacts(l)
  <2>3. CASE v # None /\ worker' = [worker EXCEPT !.at = "embed", !.v = v] /\ UNCHANGED hist
    <3>1. worker'.at = "embed" /\ worker'.v = v /\ worker'.next = worker.next
      BY <2>3 DEF TypeOK
    <3>2. worker.next \in 1..Len(stream) /\ l \in Locs /\ stream[worker.next].exp \in Nat
      BY <2>1, HonestNumbers
    <3>3. redis
      BY <1>0, <2>1 DEF WorkerHonest
    <3> HIDE DEF l
    <3>4. v \in 1..MaxVer /\ kv[l].v = v
      BY <2>3, <3>2, <3>3, FactsFound
    <3>5. Outlives(l)
      BY <1>0, <3>2 DEF PlacesHonest
    <3>6. stream[worker.next].exp <= kv[l].exp /\ kv[l].exp <= hist.until[v]
      BY <2>3, <3>2, <3>4, <3>5 DEF Outlives, l
    <3>7. stream[worker.next].exp <= hist.until[v]
      BY <1>1, <3>2, <3>4, <3>6, HonestNumbers
    <3>8. WorkerHonest'
      BY <2>1, <2>3, <3>1, <3>3, <3>7 DEF WorkerHonest
    <3>9. Growing /\ Same /\ now' >= now
      BY <1>3, <1>7, <2>1, <2>3
    <3>10. \A k \in Locs : Stores(k) /\ Announcing(k)
      BY <1>1, <1>5, <1>7, <2>1
    <3>11. PlacesHonest'
      BY <1>0, <3>9, <3>10, PlacesKept
    <3>12. LayerHonest'
      BY <1>0, <2>1, <2>3 DEF LayerHonest
    <3> QED BY <3>8, <3>11, <3>12 DEF HonestInv
  <2> QED BY <1>25, <2>2, <2>3 DEF ReadsBack
<1>26. CASE Indexes
  <2>1. UNCHANGED <<redis, now, kv, res, stream>> /\ worker.at = "embed" /\ NextDone
    BY <1>26 DEF Indexes, limiterVars, proxyVars
  <2>2. worker'.at # "embed" /\ redis /\ hist'.until = hist.until
    BY <1>22, <2>1
  <2>3. Document.exp = stream[worker.next].exp /\ Document.v = worker.v
    BY DEF Document
  <2>4. \A d \in layer' : d.exp <= hist.until[d.v]
    <3>1. \A d \in layer' : d \in layer \/ d = Document
      BY <1>26 DEF Indexes
    <3> QED BY <1>0, <2>1, <2>3, <3>1 DEF LayerHonest, WorkerHonest
  <2>5. LayerHonest'
    BY <2>2, <2>4 DEF LayerHonest
  <2>6. WorkerHonest'
    BY <2>1, <2>2 DEF WorkerHonest
  <2>7. Growing /\ Same /\ now' >= now
    BY <1>3, <1>7, <2>1, <2>2
  <2>8. \A k \in Locs : Stores(k) /\ Announcing(k)
    BY <1>1, <1>5, <1>7, <2>1
  <2>9. PlacesHonest'
    BY <1>0, <2>7, <2>8, PlacesKept
  <2> QED BY <2>5, <2>6, <2>9 DEF HonestInv
<1>27. CASE Pause \/ Crash
  <2>1. PICK kept \in [Locs -> Int] :
           /\ Cancelled(kept) /\ UNCHANGED <<redis, now, layer>>
           /\ worker'.at \in (IF redis THEN {"read", "stopped"} ELSE {"stopped"})
    BY <1>27, StoppingIs
  <2>2. PICK S \in SUBSET Setting, A \in Seq(Notices), Z \in Seq({0}) : Behind(kept, S, A, Z)
    BY <2>1, LeftBehind
  <2>3. /\ hist'.until = Until(S) /\ stream' = stream \o A /\ S \in SUBSET Locs
        /\ \A l \in Locs : kv'[l] = IF l \in S THEN Applied(l) ELSE kv[l]
        /\ \A j \in 1..Len(A) : \E l \in Locs : res[l].at = "announce" /\ A[j] = Announcement(l)
    BY <2>2 DEF Behind, History, Setting
  <2>4. Growing /\ \A l \in S : /\ Applied(l).exp = Latest
                               /\ Applied(l).v \in 1..MaxVer => hist'.until[Applied(l).v] = Latest
    BY <1>0, <2>1, <2>3, PromisesGrow
  <2>5. \A l \in Locs : Stores(l)
    <3> SUFFICES ASSUME NEW l \in Locs PROVE Stores(l)
      OBVIOUS
    <3>1. CASE l \in S
      <4>1. kv'[l] = Applied(l)
        BY <2>3, <3>1
      <4>2. Applied(l).exp = Latest /\ (Applied(l).v \in 1..MaxVer => hist'.until[Applied(l).v] = Latest)
        BY <1>0, <2>1, <2>3, <3>1, PromisesGrow
      <4> QED BY <2>1, <4>1, <4>2
    <3>2. CASE l \notin S
      BY <2>3, <3>2
    <3> QED BY <3>1, <3>2
  <2>6. \A l \in Locs : Announcing(l)
    <3>1. \A l \in Locs : res'[l].at # "announce" /\ res'[l].exp = 0
      BY <2>1 DEF Cancelled, Off
    <3> QED BY <1>1, <1>6, <1>7, <2>1, <3>1
  <2>7. \A n \in 1..Len(stream') :
          \/ n \in 1..Len(stream) /\ stream'[n] = stream[n]
          \/ \E l \in Locs : res[l].at = "announce" /\ stream'[n] = Announcement(l)
    <3>1. stream \in Seq(Notices)
      BY DEF TypeOK, Notices
    <3>2. /\ Len(stream \o A) = Len(stream) + Len(A) /\ Len(A) \in Nat
          /\ \A n \in 1..(Len(stream) + Len(A)) :
               (stream \o A)[n] = IF n <= Len(stream) THEN stream[n] ELSE A[n - Len(stream)]
      BY <3>1, ConcatProperties
    <3> SUFFICES ASSUME NEW n \in 1..(Len(stream) + Len(A))
                 PROVE  \/ n \in 1..Len(stream) /\ stream'[n] = stream[n]
                        \/ \E l \in Locs : res[l].at = "announce" /\ stream'[n] = Announcement(l)
      BY <2>3, <3>2
    <3>3. CASE n <= Len(stream)
      BY <1>1, <2>3, <3>2, <3>3
    <3>4. CASE ~(n <= Len(stream))
      <4>1. n - Len(stream) \in 1..Len(A) /\ stream'[n] = A[n - Len(stream)]
        BY <1>1, <2>3, <3>2, <3>4
      <4> QED BY <2>3, <4>1
    <3> QED BY <3>3, <3>4
  <2>8. PlacesHonest'
    BY <1>0, <1>7, <2>1, <2>4, <2>5, <2>6, <2>7, PlacesKept
  <2>9. WorkerHonest' /\ LayerHonest'
    <3>1. worker'.at # "embed" /\ (~redis => worker'.at = "stopped")
      BY <2>1
    <3> QED BY <1>0, <2>1, <2>4, <3>1, IndexedKept
  <2> QED BY <2>8, <2>9 DEF HonestInv
<1> QED
  BY <1>11, <1>12, <1>13, <1>14, <1>15, <1>16, <1>17, <1>18, <1>19, <1>20, <1>23, <1>24,
     <1>25, <1>26, <1>27 DEF Next, Resolves, Works

\* A document may come from an announcement made for an answer older than the
\* content it holds, never for a newer one: whoever announces, fails, is paused
\* or read back late, what the layer offers was promised to live as long.
THEOREM LayerHonestHolds == Spec => []LayerHonest
<1>1. Init => HonestInv
  <2> SUFFICES ASSUME Init PROVE HonestInv
    OBVIOUS
  <2>1. TypeOK
    BY ResTypeInit
  <2>2. now \in Nat /\ TTL \in Nat /\ stream = <<>> /\ layer = {}
    BY <2>1, HonestNumbers DEF Init
  <2>3. \A v \in 1..MaxVer : hist.until[v] = 0
    BY DEF Init
  <2>4. \A l \in Locs : res[l].exp = 0 /\ res[l].at = "off" /\ kv[l].v = None
    BY DEF Init, Off, Nothing
  <2>5. None \notin 1..MaxVer
    BY ResolutionAssumption DEF None
  <2>6. PlacesHonest
    BY <2>2, <2>3, <2>4, <2>5 DEF PlacesHonest, Promised, Outlives, Latest
  <2>7. WorkerHonest
    BY DEF Init, WorkerHonest, Fresh
  <2> QED BY <2>2, <2>6, <2>7 DEF HonestInv, LayerHonest
<1>2. HonestInv => LayerHonest
  BY DEF HonestInv
<1>3. ResInv => TypeOK
  BY DEF ResInv
<1> QED BY ResInvInit, ResInvStep, HonestStep, <1>1, <1>2, <1>3, PTL DEF Spec

-----------------------------------------------------------------------------
(* Asking once. An answer that is less than TTL seconds old must be in the  *)
(* store, with its own time, so that the place is found resolved; and a     *)
(* place past that look must have had no such answer when it was looked up, *)
(* or its look must have failed, for as long as it waits for its turn.      *)

Lives(l) == now < hist.stored[l] + TTL

Stands(l) ==
  /\ redis /\ Lives(l) => kv[l].v # None /\ kv[l].exp = hist.stored[l] + TTL
  /\ ~redis /\ Lives(l) => entry[l].v # None /\ entry[l].exp = hist.stored[l]
  /\ res[l].at \in {"wait", "ask"} /\ Lives(l) => l \in hist.misread
  /\ res[l].at = "set" => res[l].v # None

AskedInv == AskedOncePerTTL /\ \A l \in Locs : Stands(l)

\* A place stays as it is when its store does, and it does not go on from a
\* look, or goes on misread.
LEMMA StandsKept ==
  ASSUME NEW l \in Locs, Stands(l), UNCHANGED <<redis, now>>,
         hist'.stored[l] = hist.stored[l], kv'[l] = kv[l], entry'[l] = entry[l],
         res'[l].at \in {"wait", "ask"} =>
           \/ l \in hist'.misread
           \/ ~Lives(l)
           \/ res[l].at \in {"wait", "ask"} /\ hist'.misread = hist.misread,
         res'[l].at = "set" => res'[l].v # None
  PROVE  Stands(l)'
<1>1. Lives(l)' <=> Lives(l)
  BY DEF Lives
<1> QED BY <1>1 DEF Stands

\* A live answer is found.
LEMMA LiveIsFound ==
  ASSUME TypeOK, NEW l \in Locs, Stands(l), Lives(l)
  PROVE  HasKey(l)
<1>1. CASE redis
  BY <1>1 DEF Stands, HasKey
<1>2. CASE ~redis
  <2> DEFINE e == entry[l].exp
  <2>1. now \in Int /\ hist.stored[l] \in Int /\ TTL \in Int
    BY ResolutionAssumption DEF TypeOK, Histories
  <2>2. entry[l].v # None /\ e = hist.stored[l] /\ now < hist.stored[l] + TTL
    BY <1>2 DEF Stands, Lives
  <2> HIDE DEF e
  <2>3. now - e <= TTL
    BY <2>1, <2>2
  <2> QED BY <1>2, <2>2, <2>3 DEF HasKey, InProcess, e
<1> QED BY <1>1, <1>2

LEMMA AskedStep == TypeOK /\ TypeOK' /\ AskedInv /\ [Next]_vars => AskedInv'
<1> SUFFICES ASSUME TypeOK, TypeOK', AskedInv, [Next]_vars PROVE AskedInv'
  OBVIOUS
<1>1. /\ hist.early = {} /\ \A l \in Locs : Stands(l)
      /\ res \in [Locs -> Answers] /\ kv \in [Locs -> Stored] /\ entry \in [Locs -> Stored]
      /\ now \in Nat /\ TTL \in Nat \ {0} /\ \A l \in Locs : hist.stored[l] \in Int
  BY SMTT(30), ResolutionAssumption DEF AskedInv, AskedOncePerTTL, TypeOK, Answers, Histories
\* A step beside the stores that sends nobody on.
<1>2. ASSUME UNCHANGED <<redis, now, kv, entry>>, hist'.stored = hist.stored, hist'.early = hist.early,
             \A l \in Locs : /\ res'[l].at \in {"wait", "ask"} =>
                                  \/ l \in hist'.misread
                                  \/ ~Lives(l)
                                  \/ res[l].at \in {"wait", "ask"} /\ hist'.misread = hist.misread
                             /\ res'[l].at = "set" => res'[l].v # None
      PROVE  AskedInv'
  <2>1. ASSUME NEW l \in Locs PROVE Stands(l)'
    BY <1>1, <1>2, <2>1, StandsKept
  <2> QED BY <1>1, <1>2, <2>1 DEF AskedInv, AskedOncePerTTL
<1>3. ASSUME UNCHANGED <<redis, now, kv, entry, res, hist>> PROVE AskedInv'
  <2>1. \A l \in Locs : res[l].at = "set" => res[l].v # None
    BY <1>1 DEF Stands
  <2> QED BY <1>2, <1>3, <2>1
<1>4. CASE Tick
  <2>1. now' = now + 1 /\ UNCHANGED <<redis, entry, res, hist>>
    BY <1>4 DEF Tick, limiterVars
  <2>2. \A l \in Locs : kv'[l] = IF kv[l].exp > now + 1 THEN kv[l] ELSE Nothing
    BY <1>4 DEF Tick
  <2>3. ASSUME NEW l \in Locs PROVE Stands(l)'
    <3> DEFINE s == hist.stored[l]
    <3>1. s \in Int /\ hist'.stored[l] = s /\ Stands(l)
      BY <1>1, <2>1
    <3>2. (Lives(l)' <=> now + 1 < s + TTL) /\ (Lives(l) <=> now < s + TTL)
      BY <2>1 DEF Lives
    <3> HIDE DEF s
    <3>3. Lives(l)' => Lives(l)
      BY <1>1, <3>1, <3>2
    <3>4. redis /\ Lives(l)' => kv'[l] = kv[l] /\ kv[l].v # None /\ kv[l].exp = s + TTL
      BY <1>1, <2>2, <3>1, <3>2, <3>3 DEF Stands, s
    <3> QED BY <2>1, <3>1, <3>3, <3>4 DEF Stands, s
  <2> QED BY <1>1, <2>1, <2>3 DEF AskedInv, AskedOncePerTTL
<1>5. CASE ResolveBegins
  <2>1. UNCHANGED <<redis, now, kv, entry, hist>>
    BY <1>5 DEF ResolveBegins, limiterVars
  <2>2. \A l \in Locs : res'[l].at \in {"exists", "off"}
    BY <1>5 DEF ResolveBegins, Off
  <2> QED BY <1>2, <2>1, <2>2
<1>6. CASE Gathers \/ Start \/ Takes \/ (\E i \in Windows : WindowElapses(i)) \/ UNCHANGED vars
  BY <1>3, <1>6 DEF Gathers, Start, Takes, WindowElapses, WindowOver, vars, limiterVars, proxyVars
<1>7. CASE ResolveEnds
  <2>1. \A l \in Locs : res'[l].at = "off"
    BY <1>7 DEF ResolveEnds
  <2> QED BY <1>2, <1>7, <2>1, EndingKeeps
<1>8. ASSUME NEW l \in Locs, IsResolved(l) PROVE AskedInv'
  <2>1. /\ UNCHANGED <<redis, now, kv, entry>>
        /\ hist'.stored = hist.stored /\ hist'.early = hist.early
        /\ hist'.misread = hist.misread \/ hist'.misread = hist.misread \cup {l}
    BY <1>8, LookingUpKeeps
  <2>2. PICK x \in {"off", "wait"} : res' = [res EXCEPT ![l].at = x]
    BY <1>8 DEF IsResolved
  <2>3. x = "wait" => ~HasKey(l) \/ l \in hist'.misread
    <3>1. CASE res' = [res EXCEPT ![l].at = IF HasKey(l) THEN "off" ELSE "wait"]
      <4>1. res'[l].at = IF HasKey(l) THEN "off" ELSE "wait"
        BY <1>1, <3>1 DEF Answers
      <4>2. res'[l].at = x
        BY <1>1, <2>2 DEF Answers
      <4> QED BY <4>1, <4>2
    <3>2. CASE hist' = [hist EXCEPT !.misread = @ \cup {l}]
      <4>1. hist \in Histories
        BY DEF TypeOK
      <4>2. hist' = History(hist.found, hist.until, hist.stored, hist.early, hist.misread \cup {l},
                            hist.processed, hist.lost, hist.stops)
        BY <3>2, <4>1, MisreadIs
      <4> QED BY <4>2 DEF History
    <3> QED BY <1>8, <3>1, <3>2 DEF IsResolved
  <2>4. ~HasKey(l) => ~Lives(l)
    BY <1>1, LiveIsFound
  <2>5. res' = [res EXCEPT ![l] = [at |-> x, v |-> res[l].v, exp |-> res[l].exp]]
    BY <2>2, AwaitMoves
  <2>6. \A k \in Locs : IF k = l THEN res'[k].at = x ELSE res'[k] = res[k]
    BY <1>1, <2>5
  <2>7. ASSUME NEW k \in Locs
        PROVE  /\ res'[k].at \in {"wait", "ask"} =>
                     \/ k \in hist'.misread \/ ~Lives(k)
                     \/ res[k].at \in {"wait", "ask"} /\ hist'.misread = hist.misread
               /\ res'[k].at = "set" => res'[k].v # None
    <3>1. CASE k = l
      BY <2>3, <2>4, <2>6, <3>1
    <3>2. CASE k # l
      <4>1. res'[k] = res[k] /\ Stands(k) /\ (k \in hist.misread => k \in hist'.misread)
        BY <1>1, <2>1, <2>6, <3>2
      <4> QED BY <4>1 DEF Stands
    <3> QED BY <3>1, <3>2
  <2> QED BY <1>2, <2>1, <2>7
<1>9. ASSUME NEW l \in Locs, Lookup(l) PROVE AskedInv'
  <2>1. /\ UNCHANGED <<redis, now, kv, entry>>
        /\ hist'.stored = hist.stored /\ hist'.early = hist.early
        /\ hist'.misread = hist.misread \/ hist'.misread = hist.misread \cup {l}
    BY <1>9, LookingUpKeeps
  <2>2. res[l].at = "wait"
    BY <1>9 DEF Lookup
  <2>3. \A k \in Locs : IF k = l THEN res'[k].at \in {"off", "ask"} ELSE res'[k] = res[k]
    <3>1. CASE res' = [res EXCEPT ![l] = Off]
      BY <1>1, <3>1 DEF Off
    <3>2. CASE res' = [res EXCEPT ![l].at = "ask"]
      <4>1. res' = [res EXCEPT ![l] = [at |-> "ask", v |-> res[l].v, exp |-> res[l].exp]]
        BY <3>2, AwaitMoves
      <4> QED BY <1>1, <4>1
    <3> QED BY <1>9, <3>1, <3>2 DEF Lookup
  <2>4. ASSUME NEW k \in Locs
        PROVE  /\ res'[k].at \in {"wait", "ask"} =>
                     \/ k \in hist'.misread \/ ~Lives(k)
                     \/ res[k].at \in {"wait", "ask"} /\ hist'.misread = hist.misread
               /\ res'[k].at = "set" => res'[k].v # None
    <3>1. Stands(k) /\ (k \in hist.misread => k \in hist'.misread)
      BY <1>1, <2>1
    <3>2. CASE k = l
      BY <2>2, <2>3, <3>1, <3>2 DEF Stands
    <3>3. CASE k # l
      <4>1. res'[k] = res[k]
        BY <2>3, <3>3
      <4> QED BY <3>1, <4>1 DEF Stands
    <3> QED BY <3>2, <3>3
  <2> QED BY <1>2, <2>1, <2>4
<1>10. ASSUME NEW l \in Locs, Limits(l) PROVE AskedInv'
  <2>1. redis' = redis
    BY <1>10 DEF Limits, CheckStep, Get, Deny, Incr, Expire, CheckFallback, FailOpen
  <2> QED BY <1>3, <1>10, <2>1 DEF Limits, proxyVars
<1>11. ASSUME NEW l \in Locs, Answered(l) PROVE AskedInv'
  <2>1. /\ UNCHANGED <<redis, now, kv, entry>> /\ hist'.stored = hist.stored
        /\ hist'.early = hist.early \cup Early(l) /\ hist'.misread = hist.misread \ {l}
    BY <1>11, AnsweringKeeps
  <2>2. PICK v \in Contents \ {None} : res' = [res EXCEPT ![l] = [at |-> "set", v |-> v, exp |-> res[l].exp]]
    BY <1>11, AnsweredIs
  <2>3. Early(l) = {}
    <3>1. res[l].at = "ask" /\ Stands(l)
      BY <1>1, <1>11 DEF Answered
    <3> QED BY <3>1 DEF Early, Stands, Lives
  <2>4. \A k \in Locs : IF k = l THEN res'[k].at = "set" /\ res'[k].v # None ELSE res'[k] = res[k]
    BY <1>1, <2>2
  <2>5. ASSUME NEW k \in Locs
        PROVE  /\ res'[k].at \in {"wait", "ask"} =>
                     \/ k \in hist'.misread \/ ~Lives(k)
                     \/ res[k].at \in {"wait", "ask"} /\ hist'.misread = hist.misread
               /\ res'[k].at = "set" => res'[k].v # None
    <3>1. CASE k = l
      BY <2>4, <3>1
    <3>2. CASE k # l
      <4>1. res'[k] = res[k] /\ Stands(k) /\ (k \in hist.misread => k \in hist'.misread)
        BY <1>1, <2>1, <2>4, <3>2
      <4> QED BY <4>1 DEF Stands
    <3> QED BY <3>1, <3>2
  <2>6. hist'.early = hist.early
    BY <2>1, <2>3
  <2> QED BY <1>2, <2>1, <2>5, <2>6
\* An answer is stored for the places in S, which are at no look, at this second.
<1>12. ASSUME NEW S \in SUBSET Locs, UNCHANGED <<redis, now>>, hist'.early = hist.early,
              \A l \in S : /\ hist'.stored[l] = now /\ res[l].at = "set"
                           /\ redis => kv'[l] = Applied(l)
                           /\ ~redis => entry'[l] = [v |-> res[l].v, exp |-> now],
              \A l \in Locs \ S : /\ hist'.stored[l] = hist.stored[l] \/ hist'.stored[l] = -TTL
                                  /\ redis => kv'[l] = kv[l]
                                  /\ ~redis => entry'[l] = entry[l] \/ hist'.stored[l] = -TTL,
              \A l \in Locs : \/ res'[l].at \notin {"wait", "ask", "set"}
                              \/ res'[l] = res[l] /\ hist'.misread = hist.misread /\ hist'.stored[l] = hist.stored[l]
       PROVE  AskedInv'
  <2>1. ASSUME NEW l \in Locs PROVE Stands(l)'
    <3>1. Stands(l) /\ hist.stored[l] \in Int
      BY <1>1
    <3>2. CASE l \in S
      <4>1. res[l].v # None /\ hist'.stored[l] = now /\ res[l].at = "set"
        BY <1>12, <3>1, <3>2 DEF Stands
      <4>2. redis => kv'[l].v # None /\ kv'[l].exp = now + TTL
        <5>1. redis => kv'[l] = Applied(l)
          BY <1>12, <3>2
        <5>2. Applied(l).v = res[l].v /\ Applied(l).exp = now + TTL
          BY DEF Applied
        <5> HIDE DEF Applied
        <5> QED BY <4>1, <5>1, <5>2
      <4>3. ~redis => entry'[l].v # None /\ entry'[l].exp = now
        <5>1. ~redis => entry'[l] = [v |-> res[l].v, exp |-> now]
          BY <1>12, <3>2
        <5>2. \A v : [v |-> v, exp |-> now].v = v /\ [v |-> v, exp |-> now].exp = now
          OBVIOUS
        <5> QED BY <4>1, <5>1, <5>2
      <4>4. ~(res'[l].at \in {"wait", "ask"}) /\ (res'[l].at = "set" => res'[l].v # None)
        BY <1>12, <4>1
      <4> QED BY <1>12, <4>1, <4>2, <4>3, <4>4 DEF Stands
    <3>3. CASE l \notin S /\ hist'.stored[l] = hist.stored[l]
      <4>1. Lives(l)' <=> Lives(l)
        BY <1>12, <3>3 DEF Lives
      <4>2. CASE hist.stored[l] = -TTL
        <5>1. ~Lives(l)
          BY <1>1, <4>2 DEF Lives
        <5>2. res'[l].at = "set" => res'[l].v # None
          BY <1>12, <3>1 DEF Stands
        <5> QED BY <4>1, <5>1, <5>2 DEF Stands
      <4>3. CASE hist.stored[l] # -TTL
        <5>1. (redis => kv'[l] = kv[l]) /\ (~redis => entry'[l] = entry[l])
          BY <1>12, <3>3, <4>3
        <5>2. res'[l].at \notin {"wait", "ask", "set"} \/ (res'[l] = res[l] /\ hist'.misread = hist.misread)
          BY <1>12
        <5> QED BY <1>12, <3>1, <3>3, <4>1, <5>1, <5>2 DEF Stands
      <4> QED BY <4>2, <4>3
    <3>4. CASE hist'.stored[l] = -TTL /\ hist'.stored[l] # hist.stored[l]
      <4>1. ~Lives(l)'
        BY <1>1, <1>12, <3>4 DEF Lives
      <4>2. res'[l].at \notin {"wait", "ask", "set"}
        BY <1>12, <3>4
      <4> QED BY <4>1, <4>2 DEF Stands
    <3> QED BY <1>12, <3>2, <3>3, <3>4
  <2> QED BY <1>1, <1>12, <2>1 DEF AskedInv, AskedOncePerTTL
<1>13. ASSUME NEW l \in Locs, Set(l) \/ SetFails(l) PROVE AskedInv'
  <2>1. /\ UNCHANGED <<redis, now>> /\ hist'.early = hist.early /\ hist'.misread = hist.misread
        /\ res[l].at = "set"
    BY <1>13, SettingKeeps DEF Set, SetFails
  <2>2. \A k \in Locs : IF k = l THEN res'[k].at \in {"off", "announce"} ELSE res'[k] = res[k]
    <3>1. CASE res' = [res EXCEPT ![l] = Off]
      BY <1>1, <3>1 DEF Off
    <3>2. CASE res' = [res EXCEPT ![l] = [at |-> "announce", v |-> res[l].v, exp |-> now + TTL]]
      BY <1>1, <3>2
    <3> QED BY <1>13, <3>1, <3>2, SetIs DEF SetFails
  <2>3. CASE SetFails(l) /\ UNCHANGED <<kv, hist>>
    <3>1. redis /\ \A k \in Locs : hist'.stored[k] = hist.stored[k] /\ kv'[k] = kv[k]
      BY <2>3 DEF SetFails
    <3>2. \A k \in Locs : \/ res'[k].at \notin {"wait", "ask", "set"}
                          \/ res'[k] = res[k] /\ hist'.misread = hist.misread /\ hist'.stored[k] = hist.stored[k]
      BY <2>1, <2>2, <3>1
    <3> DEFINE S == {}
    <3>3. S \in SUBSET Locs /\ \A k \in S : FALSE
      OBVIOUS
    <3> HIDE DEF S
    <3> QED BY <1>12, <2>1, <3>1, <3>2, <3>3
  <2>4. CASE StoredNow(l) /\ (redis => kv' = [kv EXCEPT ![l] = Applied(l)])
               /\ (~redis => entry' = [entry EXCEPT ![l] = [v |-> res[l].v, exp |-> now]])
    <3>1. hist'.stored = [hist.stored EXCEPT ![l] = now] /\ hist.stored \in [Locs -> Int]
      BY <2>4 DEF StoredNow, History, TypeOK, Histories
    <3>2. \A k \in Locs : hist'.stored[k] = IF k = l THEN now ELSE hist.stored[k]
      BY <3>1
    <3>3. redis => \A k \in Locs : kv'[k] = IF k = l THEN Applied(l) ELSE kv[k]
      BY <1>1, <2>4
    <3>4. ~redis => \A k \in Locs : entry'[k] = IF k = l THEN [v |-> res[l].v, exp |-> now] ELSE entry[k]
      BY <1>1, <2>4
    <3>5. \A k \in Locs : \/ res'[k].at \notin {"wait", "ask", "set"}
                          \/ res'[k] = res[k] /\ hist'.misread = hist.misread /\ hist'.stored[k] = hist.stored[k]
      BY <2>1, <2>2, <3>2
    <3> DEFINE S == {l}
    <3>6. S \in SUBSET Locs /\ \A k \in Locs : k \in S <=> k = l
      OBVIOUS
    <3> HIDE DEF S
    <3>7. \A k \in S : /\ hist'.stored[k] = now /\ res[k].at = "set"
                       /\ redis => kv'[k] = Applied(k)
                       /\ ~redis => entry'[k] = [v |-> res[k].v, exp |-> now]
      BY <2>1, <3>2, <3>3, <3>4, <3>6
    <3>8. \A k \in Locs \ S : /\ hist'.stored[k] = hist.stored[k]
                              /\ redis => kv'[k] = kv[k]
                              /\ ~redis => entry'[k] = entry[k]
      BY <3>2, <3>3, <3>4, <3>6
    <3> QED BY <1>12, <2>1, <3>5, <3>6, <3>7, <3>8
  <2>5. CASE Set(l)
    BY <2>4, <2>5, SetIs
  <2>6. CASE SetFails(l)
    <3>1. CASE /\ kv' = [kv EXCEPT ![l] = Applied(l)]
               /\ hist' = [hist EXCEPT !.stored[l] = now, !.until = Until({l})]
      <4>1. StoredNow(l) /\ redis
        BY <2>6, <3>1, StoredIs DEF SetFails, TypeOK
      <4> QED BY <2>4, <3>1, <4>1
    <3> QED BY <2>3, <2>6, <3>1 DEF SetFails
  <2> QED BY <1>13, <2>5, <2>6
<1>14. ASSUME NEW l \in Locs, Announces(l) PROVE AskedInv'
  <2>1. UNCHANGED <<redis, now, kv, entry>> /\ res' = [res EXCEPT ![l] = Off]
    BY <1>14 DEF Announces, limiterVars
  <2>2. hist'.stored = hist.stored /\ hist'.early = hist.early /\ hist'.misread = hist.misread
    BY <1>14, AnnouncesIs DEF History
  <2>3. \A k \in Locs : IF k = l THEN res'[k].at = "off" ELSE res'[k] = res[k]
    BY <1>1, <2>1 DEF Off
  <2>4. \A k \in Locs : res[k].at = "set" => res[k].v # None
    BY <1>1 DEF Stands
  <2>5. \A k \in Locs : /\ res'[k].at \in {"wait", "ask"} => res[k].at \in {"wait", "ask"}
                        /\ res'[k].at = "set" => res'[k].v # None
    BY <2>3, <2>4
  <2> QED BY <1>2, <2>1, <2>2, <2>5
<1>15. CASE TakeFails
  <2>1. hist'.stored = hist.stored /\ hist'.early = hist.early /\ hist'.misread = hist.misread
    BY <1>15, TakeFailsIs DEF History
  <2>2. UNCHANGED <<redis, now, kv, entry, res>>
    BY <1>15 DEF TakeFails, limiterVars, proxyVars
  <2>3. \A l \in Locs : res[l].at = "set" => res[l].v # None
    BY <1>1 DEF Stands
  <2> QED BY <1>2, <2>1, <2>2, <2>3
<1>16. CASE Works
  <2>1. UNCHANGED <<redis, now, kv, entry, res>> /\ worker.at \in {"facts", "embed"}
    BY <1>16 DEF Works, ReadsBack, Indexes, limiterVars, proxyVars
  <2>2. CASE UNCHANGED hist
    BY <1>3, <2>1, <2>2
  <2>3. CASE NextDone
    <3>1. hist'.stored = hist.stored /\ hist'.early = hist.early /\ hist'.misread = hist.misread
      BY <2>1, <2>3, NextDoneIs DEF History
    <3>2. \A l \in Locs : res[l].at = "set" => res[l].v # None
      BY <1>1 DEF Stands
    <3> QED BY <1>2, <2>1, <3>1, <3>2
  <2> QED BY <1>16, <2>2, <2>3 DEF Works, ReadsBack, Indexes
<1>17. CASE Pause \/ Crash
  <2>1. PICK kept \in [Locs -> Int] :
           /\ Cancelled(kept) /\ UNCHANGED <<redis, now>>
           /\ redis => kept = hist.stored
           /\ ~redis => (kept = hist.stored /\ entry' = entry) \/ kept = [l \in Locs |-> -TTL]
    BY <1>17, StoppingIs
  <2>2. PICK S \in SUBSET Setting, A \in Seq(Notices), Z \in Seq({0}) : Behind(kept, S, A, Z)
    BY <2>1, LeftBehind
  <2>3. /\ hist'.early = hist.early
        /\ \A l \in Locs : hist'.stored[l] = IF l \in S THEN now ELSE kept[l]
        /\ \A l \in Locs : kv'[l] = IF l \in S THEN Applied(l) ELSE kv[l]
    BY <2>2 DEF Behind, History
  <2>4. S \in SUBSET Locs /\ \A l \in S : redis /\ res[l].at = "set"
    BY DEF Setting
  <2>5. \A l \in Locs : res'[l].at \notin {"wait", "ask", "set"}
    BY <2>1 DEF Cancelled, Off
  <2>6. \A l \in S : /\ hist'.stored[l] = now /\ res[l].at = "set"
                     /\ redis => kv'[l] = Applied(l)
                     /\ ~redis => entry'[l] = [v |-> res[l].v, exp |-> now]
    BY <2>3, <2>4
  <2>7. \A l \in Locs \ S : /\ hist'.stored[l] = hist.stored[l] \/ hist'.stored[l] = -TTL
                            /\ redis => kv'[l] = kv[l]
                            /\ ~redis => entry'[l] = entry[l] \/ hist'.stored[l] = -TTL
    BY <2>1, <2>3
  <2> QED BY <1>12, <2>1, <2>3, <2>4, <2>5, <2>6, <2>7
<1> QED
  BY <1>4, <1>5, <1>6, <1>7, <1>8, <1>9, <1>10, <1>11, <1>13, <1>14, <1>15, <1>16, <1>17
     DEF Next, Resolves

\* For any TTL, places and failures: the adapters are asked about a place again
\* within TTL seconds of its last stored answer only after a read of the store
\* that failed. An empty answer counts, and a place that waits long for its
\* turn is not asked for an answer somebody stored meanwhile: nobody can.
THEOREM AskedOncePerTTLHolds == Spec => []AskedOncePerTTL
<1>1. Init => AskedInv
  <2> SUFFICES ASSUME Init PROVE AskedInv
    OBVIOUS
  <2>1. now = 0 /\ TTL \in Nat /\ \A l \in Locs : hist.stored[l] = -TTL
    BY ResolutionAssumption DEF Init
  <2>2. \A l \in Locs : ~Lives(l) /\ res[l].at = "off"
    BY <2>1 DEF Lives, Init, Off
  <2>3. hist.early = {}
    BY DEF Init
  <2> QED BY <2>2, <2>3 DEF AskedInv, AskedOncePerTTL, Stands
<1>2. AskedInv => AskedOncePerTTL
  BY DEF AskedInv
<1>3. ResInv => TypeOK
  BY DEF ResInv
<1> QED BY ResInvInit, ResInvStep, AskedStep, <1>1, <1>2, <1>3, PTL DEF Spec

-----------------------------------------------------------------------------
\* The budget comes back: as long as nothing failed and nothing was stopped, a
\* counter without an expiry has a caller that has just counted.
LEMMA ReturnsStep == TypeOK /\ TypeOK' /\ AskInv /\ BudgetComesBack /\ [Next]_vars => BudgetComesBack'
<1> SUFFICES ASSUME TypeOK, TypeOK', AskInv, BudgetComesBack, [Next]_vars PROVE BudgetComesBack'
  OBVIOUS
<1>1. /\ faults \in Nat /\ hist.stops \in Nat /\ Locs = Callers
      /\ bucket \in [Windows -> [count : Nat, expires : BOOLEAN]]
      /\ \A c \in Callers : chk[c].at \in {"get", "full", "incr", "expire"} => chk[c].i \in Windows
      /\ DOMAIN chk = Callers
  BY DEF TypeOK, LimiterTypeOK, Histories, Locs
<1>2. ASSUME UNCHANGED bucket, \A i \in Windows : Expiring(i) \in SUBSET Expiring(i)',
             faults' >= faults, hist'.stops >= hist.stops, faults' \in Nat, hist'.stops \in Nat
      PROVE  BudgetComesBack'
  BY <1>1, <1>2 DEF BudgetComesBack
<1>3. ASSUME faults' > 0 \/ hist'.stops > 0 PROVE BudgetComesBack'
  BY <1>3 DEF BudgetComesBack
<1>4. ASSUME UNCHANGED <<bucket, chk, faults>>, hist'.stops = hist.stops PROVE BudgetComesBack'
  BY <1>4 DEF BudgetComesBack, Expiring
<1>5. CASE Tick \/ ResolveBegins \/ Gathers \/ Start \/ Takes \/ UNCHANGED vars
  BY <1>4, <1>5 DEF Tick, ResolveBegins, Gathers, Start, Takes, vars, limiterVars
<1>6. CASE ResolveEnds
  BY <1>4, <1>6, EndingKeeps
<1>7. ASSUME Fault PROVE BudgetComesBack'
  <2>1. faults' = faults + 1
    BY <1>7 DEF Fault
  <2> QED BY <1>1, <1>3, <2>1
<1>8. ASSUME NEW l \in Locs, IsResolved(l) PROVE BudgetComesBack'
  <2>1. UNCHANGED <<bucket, chk>> /\ (UNCHANGED faults \/ Fault)
    BY <1>8 DEF IsResolved, limiterVars
  <2> QED BY <1>4, <1>7, <1>8, <2>1, LookingUpKeeps
<1>9. ASSUME NEW l \in Locs, NEW r, UNCHANGED <<bucket, faults>>, hist'.stops = hist.stops,
             chk' = [chk EXCEPT ![l] = r], chk[l].at # "expire"
      PROVE  BudgetComesBack'
  <2>1. \A c \in Callers : c # l => chk'[c] = chk[c]
    BY <1>1, <1>9
  <2>2. \A i \in Windows : Expiring(i) \in SUBSET Expiring(i)'
    BY <1>1, <1>9, <2>1 DEF Expiring
  <2> QED BY <1>1, <1>2, <1>9, <2>2
<1>10. ASSUME NEW l \in Locs, Lookup(l) PROVE BudgetComesBack'
  <2>1. bucket' = bucket /\ hist'.stops = hist.stops /\ res[l].at = "wait"
    BY <1>10, LookingUpKeeps DEF Lookup
  <2>2. chk[l].at # "expire"
    BY <2>1 DEF AskInv, Unasked
  <2> QED BY <1>4, <1>7, <1>9, <1>10, <2>1, <2>2 DEF Lookup
<1>11. ASSUME NEW l \in Locs, Limits(l) PROVE BudgetComesBack'
  <2>1. hist' = hist
    BY <1>11 DEF Limits
  <2>2. CASE FailOpen(l) /\ Fault
    BY <1>7, <2>2
  <2>3. CASE CheckStep(l) /\ UNCHANGED faults
    <3>1. CASE Get(l)
      <4>1. PICK x \in {"full", "incr"} : chk' = [chk EXCEPT ![l].at = x]
        BY <3>1 DEF Get
      <4>2. chk' = [chk EXCEPT ![l] = [chk[l] EXCEPT !.at = x]] /\ chk[l].at = "get" /\ bucket' = bucket
        BY <3>1, <4>1 DEF Get
      <4> QED BY <1>9, <2>1, <2>3, <4>2
    <3>2. CASE Deny(l)
      <4>1. chk' = [chk EXCEPT ![l] = [chk[l] EXCEPT !.at = "denied"]] /\ chk[l].at = "full" /\ bucket' = bucket
        BY <3>2 DEF Deny
      <4> QED BY <1>9, <2>1, <2>3, <4>1
    <3>3. CASE Incr(l)
      <4>1. chk[l].at = "incr" /\ chk[l].i \in Windows /\ chk' = [chk EXCEPT ![l].at = "expire"]
        BY <1>1, <3>3 DEF Incr
      <4>2. chk'[l].at = "expire" /\ chk'[l].i = chk[l].i
        BY <4>1 DEF TypeOK, LimiterTypeOK, Locs
      <4>3. \A c \in Callers : c # l => chk'[c] = chk[c]
        BY <1>1, <4>1
      <4>4. \A i \in Windows : i # chk[l].i => bucket'[i] = bucket[i]
        BY <1>1, <3>3 DEF Incr
      <4> SUFFICES ASSUME NEW i \in Windows, bucket'[i].count > 0, ~bucket'[i].expires
                   PROVE  Expiring(i)' # {} \/ faults' > 0 \/ hist'.stops > 0
        BY DEF BudgetComesBack
      <4>5. CASE i = chk[l].i
        <5>1. l \in Expiring(i)'
          BY <1>1, <4>2, <4>5 DEF Expiring
        <5> QED BY <5>1
      <4>6. CASE i # chk[l].i
        <5>1. Expiring(i) # {} \/ faults > 0 \/ hist.stops > 0
          BY <4>4, <4>6 DEF BudgetComesBack
        <5>2. Expiring(i) \in SUBSET Expiring(i)'
          BY <4>1, <4>3 DEF Expiring
        <5> QED BY <2>1, <2>3, <5>1, <5>2
      <4> QED BY <4>5, <4>6
    <3>4. CASE Expire(l)
      <4>1. chk[l].at = "expire" /\ chk[l].i \in Windows
        BY <1>1, <3>4 DEF Expire
      <4>2. \A c \in Callers : c # l => chk'[c] = chk[c]
        BY <1>1, <3>4 DEF Expire
      <4>3. \A i \in Windows : i # chk[l].i => bucket'[i] = bucket[i]
        BY <1>1, <3>4 DEF Expire
      <4>4. bucket'[chk[l].i].count > 0 => bucket'[chk[l].i].expires
        <5> DEFINE i == chk[l].i  x == bucket[i].expires \/ bucket[i].count > 0
        <5>1. bucket' = [bucket EXCEPT ![i].expires = x]
          BY <3>4 DEF Expire
        <5>2. bucket[i] \in [count : Nat, expires : BOOLEAN] /\ i \in Windows
          BY <1>1, <4>1
        <5>3. bucket[i].count > 0 => x
          OBVIOUS
        <5> HIDE DEF i, x
        <5>4. bucket'[i].count = bucket[i].count /\ bucket'[i].expires = x
          BY <1>1, <5>1, <5>2
        <5> QED BY <5>3, <5>4 DEF i
      <4> SUFFICES ASSUME NEW i \in Windows, bucket'[i].count > 0, ~bucket'[i].expires
                   PROVE  Expiring(i)' # {} \/ faults' > 0 \/ hist'.stops > 0
        BY DEF BudgetComesBack
      <4>5. i # chk[l].i
        BY <4>4
      <4>6. Expiring(i) # {} \/ faults > 0 \/ hist.stops > 0
        BY <4>3, <4>5 DEF BudgetComesBack
      <4>7. Expiring(i) \in SUBSET Expiring(i)'
        BY <4>2, <4>5 DEF Expiring
      <4> QED BY <2>1, <2>3, <4>6, <4>7
    <3>5. CASE CheckFallback(l)
      <4>1. \A i \in Windows : bucket'[i].expires \/ bucket'[i] = bucket[i]
        BY <3>5 DEF CheckFallback
      <4>2. chk[l].at = "get" /\ \A c \in Callers : c # l => chk'[c] = chk[c]
        BY <1>1, <3>5 DEF CheckFallback
      <4>3. \A i \in Windows : Expiring(i) \in SUBSET Expiring(i)'
        BY <4>2 DEF Expiring
      <4> QED BY <2>1, <2>3, <4>1, <4>3 DEF BudgetComesBack
    <3> QED BY <2>3, <3>1, <3>2, <3>3, <3>4, <3>5 DEF CheckStep
  <2> QED BY <1>11, <2>2, <2>3 DEF Limits
<1>12. ASSUME NEW l \in Locs, Answered(l) PROVE BudgetComesBack'
  <2>1. UNCHANGED <<bucket, faults>> /\ hist'.stops = hist.stops
    BY <1>12, AnsweringKeeps
  <2>2. chk[l].at # "expire" /\ chk' = [chk EXCEPT ![l] = Unasked]
    BY <1>12 DEF Answered
  <2> QED BY <1>9, <2>1, <2>2
<1>13. ASSUME NEW l \in Locs, Set(l) PROVE BudgetComesBack'
  BY <1>4, <1>13, SettingKeeps DEF Set
<1>14. ASSUME NEW l \in Locs, SetFails(l) PROVE BudgetComesBack'
  BY <1>7, <1>14 DEF SetFails
<1>15. ASSUME NEW l \in Locs, Announces(l) PROVE BudgetComesBack'
  <2>1. UNCHANGED <<bucket, chk>> /\ (UNCHANGED faults \/ Fault)
    BY <1>15 DEF Announces, limiterVars
  <2>2. hist'.stops = hist.stops
    BY <1>15, AnnouncesIs DEF History
  <2> QED BY <1>4, <1>7, <2>1, <2>2
<1>16. ASSUME NEW k \in Windows, WindowElapses(k) PROVE BudgetComesBack'
  <2>1. bucket' = [bucket EXCEPT ![k] = Empty] /\ UNCHANGED <<chk, faults, hist>>
    BY <1>16 DEF WindowElapses, WindowOver
  <2>2. \A i \in Windows : IF i = k THEN bucket'[i].count = 0 ELSE bucket'[i] = bucket[i]
    BY <1>1, <2>1 DEF Empty
  <2>3. \A i \in Windows : Expiring(i)' = Expiring(i)
    BY <2>1 DEF Expiring
  <2> QED BY <2>1, <2>2, <2>3 DEF BudgetComesBack
<1>17. CASE TakeFails
  BY <1>7, <1>17 DEF TakeFails
<1>18. CASE Works
  <2>1. UNCHANGED <<bucket, chk>> /\ worker.at \in {"facts", "embed"} /\ (UNCHANGED faults \/ Fault)
    BY <1>18 DEF Works, ReadsBack, Indexes, limiterVars
  <2>2. CASE UNCHANGED hist
    BY <1>4, <1>7, <2>1, <2>2
  <2>3. CASE NextDone
    <3>1. hist'.stops = hist.stops
      BY <2>1, <2>3, NextDoneIs DEF History
    <3> QED BY <1>4, <1>7, <2>1, <3>1
  <2> QED BY <1>18, <2>2, <2>3 DEF Works, ReadsBack, Indexes
<1>19. CASE Pause \/ Crash
  <2>1. PICK kept \in [Locs -> Int] : Cancelled(kept)
    BY <1>19, StoppingIs
  <2>2. PICK S \in SUBSET Setting, A \in Seq(Notices), Z \in Seq({0}) : Behind(kept, S, A, Z)
    BY <2>1, LeftBehind
  <2>3. hist'.stops = hist.stops + 1
    BY <2>2 DEF Behind, History
  <2> QED BY <1>1, <1>3, <2>3
<1> QED
  BY <1>5, <1>6, <1>8, <1>10, <1>11, <1>12, <1>13, <1>14, <1>15, <1>16, <1>17, <1>18, <1>19
     DEF Next, Resolves

\* INCR and EXPIRE are two commands, and other callers count, expire and let
\* windows elapse between them: without a failure or a stop no counter stays
\* behind that nobody is about to give its expiry.
THEOREM BudgetComesBackHolds == Spec => []BudgetComesBack
<1>1. Init => BudgetComesBack
  BY DEF Init, LimiterInit, BudgetComesBack, Empty
<1>2. ResInv => TypeOK /\ AskInv
  BY DEF ResInv
<1> QED BY ResInvInit, ResInvStep, ReturnsStep, <1>1, <1>2, PTL DEF Spec

-----------------------------------------------------------------------------
(* What agents do to each other.                                            *)

LEMMA MinOfTwo ==
  ASSUME NEW a \in Int, NEW b \in Int
  PROVE  Min({a, b}) \in {a, b} /\ Min({a, b}) <= a /\ Min({a, b}) <= b
<1> DEFINE P(x) == x \in {a, b} /\ \A y \in {a, b} : x <= y
<1>1. \E x : P(x)
  <2>1. CASE a <= b
    BY <2>1
  <2>2. CASE ~(a <= b)
    BY <2>2
  <2> QED BY <2>1, <2>2
<1>2. Min({a, b}) = CHOOSE x \in {a, b} : \A y \in {a, b} : x <= y
  BY Zenon DEF Min
<1>3. P(CHOOSE x \in {a, b} : \A y \in {a, b} : x <= y)
  BY <1>1, Zenon
<1> QED BY <1>2, <1>3

LEMMA MaxOfTwo ==
  ASSUME NEW a \in Int, NEW b \in Int
  PROVE  Max({a, b}) \in {a, b} /\ Max({a, b}) >= a /\ Max({a, b}) >= b
<1> DEFINE P(x) == x \in {a, b} /\ \A y \in {a, b} : x >= y
<1>1. \E x : P(x)
  <2>1. CASE a >= b
    BY <2>1
  <2>2. CASE ~(a >= b)
    BY <2>2
  <2> QED BY <2>1, <2>2
<1>2. Max({a, b}) = CHOOSE x \in {a, b} : \A y \in {a, b} : x >= y
  BY Zenon DEF Max
<1>3. P(CHOOSE x \in {a, b} : \A y \in {a, b} : x >= y)
  BY <1>1, Zenon
<1> QED BY <1>2, <1>3

LEMMA ClampBounds ==
  ASSUME NEW lo \in Int, NEW hi \in Int, NEW x \in Int, lo <= hi
  PROVE  Clamp(lo, hi, x) \in Int /\ Clamp(lo, hi, x) >= lo /\ Clamp(lo, hi, x) <= hi
<1> DEFINE m == Min({hi, x})
<1>1. m \in Int /\ m <= hi
  BY MinOfTwo
<1> HIDE DEF m
<1>2. Max({lo, m}) \in Int /\ Max({lo, m}) >= lo /\ Max({lo, m}) <= hi
  BY <1>1, MaxOfTwo
<1> QED BY <1>2 DEF Clamp, m

LEMMA NatInSet ==
  ASSUME NEW S, 0 \in S, \A n \in Nat : n \in S => n + 1 \in S
  PROVE  Nat \subseteq S
<1> DEFINE R == {e \in Nat \X Nat : e[1] < e[2]}
           T == Nat \ S
<1>1. IsWellFoundedOn(R, Nat)
  BY NatLessThanWellFounded DEF OpToRel
<1>2. CASE T # {}
  <2>1. PICK x \in T : \A y \in T : ~(<<y, x>> \in R)
    BY <1>1, <1>2, WFMin, Zenon
  <2>2. x \in Nat /\ x # 0
    OBVIOUS
  <2>3. x - 1 \in Nat /\ x - 1 < x
    BY <2>2
  <2>4. <<x - 1, x>> \in R
    BY <2>2, <2>3
  <2>5. x - 1 \in S
    BY <2>1, <2>3, <2>4
  <2> QED BY <2>2, <2>3, <2>5
<1> QED BY <1>2

\* A set of numbers has a least one.
LEMMA LeastNumber ==
  ASSUME NEW S \in SUBSET Nat, S # {}
  PROVE  \E n \in S : \A m \in S : n <= m
<1> DEFINE R == {e \in Nat \X Nat : e[1] < e[2]}
<1>1. IsWellFoundedOn(R, Nat)
  BY NatLessThanWellFounded DEF OpToRel
<1>2. PICK n \in S : \A m \in S : ~(<<m, n>> \in R)
  BY <1>1, WFMin, Zenon
<1>3. \A m \in S : m < n => <<m, n>> \in R
  OBVIOUS
<1> HIDE DEF R
<1>4. \A m \in S : n <= m
  <2> SUFFICES ASSUME NEW m \in S PROVE n <= m
    OBVIOUS
  <2>1. ~(m < n)
    BY <1>2, <1>3
  <2>2. m \in Nat /\ n \in Nat
    OBVIOUS
  <2> QED BY <2>1, <2>2
<1> QED BY <1>4

\* f goes from start through the first n steps, the k-th of which is
\* step[<<k, x>>] from x.
Walks(f, start, step, n) ==
  f = [k \in 0..n |-> IF k = 0 THEN start ELSE step[<<k, f[k - 1]>>]]

\* A recursion over 0..n whose steps stay in S defines a function.
LEMMA WalkExists ==
  ASSUME NEW N0 \in Nat, NEW S, NEW start \in S, NEW step,
         \A k \in 1..N0 : \A x \in S : step[<<k, x>>] \in S
  PROVE  \E f \in [0..N0 -> S] : Walks(f, start, step, N0)
<1> DEFINE I == {m \in Nat : m <= N0 => \E f \in [0..m -> S] : Walks(f, start, step, m)}
<1>1. 0 \in I
  <2>1. [k \in 0..0 |-> start] \in [0..0 -> S]
    OBVIOUS
  <2>2. Walks([k \in 0..0 |-> start], start, step, 0)
    BY DEF Walks
  <2> QED BY <2>1, <2>2
<1>2. ASSUME NEW m \in Nat, m \in I PROVE m + 1 \in I
  <2> SUFFICES ASSUME m + 1 <= N0
               PROVE  \E f \in [0..(m + 1) -> S] : Walks(f, start, step, m + 1)
    OBVIOUS
  <2>1. PICK f \in [0..m -> S] : Walks(f, start, step, m)
    BY <1>2
  <2> DEFINE more == [k \in 0..(m + 1) |-> IF k = m + 1 THEN step[<<m + 1, f[m]>>] ELSE f[k]]
  <2>2. \A k \in 0..m : f[k] = IF k = 0 THEN start ELSE step[<<k, f[k - 1]>>]
    BY <2>1 DEF Walks
  <2>3. f[m] \in S /\ m + 1 \in 1..N0
    OBVIOUS
  <2>4. step[<<m + 1, f[m]>>] \in S
    BY <2>3
  <2>5. more \in [0..(m + 1) -> S]
    BY <2>4
  <2>6. \A k \in 0..(m + 1) : more[k] = IF k = 0 THEN start ELSE step[<<k, more[k - 1]>>]
    <3> TAKE k \in 0..(m + 1)
    <3>1. CASE k = m + 1
      <4>1. k # 0 /\ k - 1 = m /\ m \in 0..(m + 1) /\ m # m + 1
        BY <3>1
      <4>2. more[k - 1] = f[m] /\ more[k] = step[<<m + 1, f[m]>>]
        BY <3>1, <4>1
      <4> QED BY <3>1, <4>1, <4>2
    <3>2. CASE k = 0
      <4>1. more[k] = f[k] /\ k \in 0..m
        BY <3>2
      <4> QED BY <2>2, <3>2, <4>1
    <3>3. CASE k \in 1..m
      <4>1. more[k] = f[k] /\ more[k - 1] = f[k - 1]
        BY <3>3
      <4> QED BY <2>2, <3>3, <4>1
    <3> QED BY <3>1, <3>2, <3>3
  <2>7. Walks(more, start, step, m + 1)
    BY <2>6, Zenon DEF Walks
  <2> QED BY <2>5, <2>7
<1> HIDE DEF I
<1>3. Nat \subseteq I
  BY <1>1, <1>2, NatInSet
<1> QED BY <1>3 DEF I

\* What holds at the start and is kept by each step holds at the end.
LEMMA WalkStays ==
  ASSUME NEW n \in Nat, NEW S, NEW f, f[0] \in S,
         \A k \in 1..n : f[k - 1] \in S => f[k] \in S
  PROVE  f[n] \in S
<1> DEFINE I == {m \in Nat : m <= n => f[m] \in S}
<1>1. 0 \in I
  OBVIOUS
<1>2. ASSUME NEW m \in Nat, m \in I PROVE m + 1 \in I
  <2> SUFFICES ASSUME m + 1 <= n PROVE f[m + 1] \in S
    OBVIOUS
  <2>1. f[m] \in S /\ m + 1 \in 1..n /\ (m + 1) - 1 = m
    BY <1>2
  <2> QED BY <2>1
<1> HIDE DEF I
<1>3. Nat \subseteq I
  BY <1>1, <1>2, NatInSet
<1> QED BY <1>3 DEF I

-----------------------------------------------------------------------------
\* What an agent knows.

\* What b says of p somebody has seen, and it is believed enough.
BeliefGrounded(b, p, seen) == b.conf > 0 => <<p, b.val>> \in seen /\ b.conf >= 200
FactGrounded(f, seen)      == f.pred = "seen" => <<f.loc, f.val>> \in seen

\* One who believes something of every place it has been at has nothing to ask,
\* and has never asked.
AskedNothing(g) == g.asked = 0 /\ \A p \in g.been : g.belief[p].conf > 0

\* Agents who know what has been seen.
Knowing(seen) ==
  {g \in AgentStates : /\ Len(g.facts) <= Memory
                       /\ AskedNothing(g)
                       /\ \A p \in Places : BeliefGrounded(g.belief[p], p, seen)
                       /\ \A i \in 1..Len(g.facts) : FactGrounded(g.facts[i], seen)}

LEMMA LastOfFacts ==
  ASSUME NEW P, NEW s \in Seq(P), NEW n \in Nat \ {0}
  PROVE  /\ LastOf(s, n) \in Seq(P) /\ Len(LastOf(s, n)) <= n
         /\ \A i \in 1..Len(LastOf(s, n)) : \E j \in 1..Len(s) : LastOf(s, n)[i] = s[j]
<1>1. Len(s) \in Nat /\ Len(s) \in Int /\ 1 \in Int /\ Len(s) - n + 1 \in Int
  OBVIOUS
<1> DEFINE m == Max({1, Len(s) - n + 1})
<1>2. m \in Int /\ m >= 1 /\ m >= Len(s) - n + 1
  BY <1>1, MaxOfTwo
<1> HIDE DEF m
<1>3. \A i \in m..Len(s) : s[i] \in P
  BY <1>1, <1>2, ElementOfSeq
<1>4. /\ SubSeq(s, m, Len(s)) \in Seq(P)
      /\ Len(SubSeq(s, m, Len(s))) = IF m <= Len(s) THEN Len(s) - m + 1 ELSE 0
      /\ \A i \in 1..(Len(s) - m + 1) : SubSeq(s, m, Len(s))[i] = s[m + i - 1]
  BY <1>1, <1>2, <1>3, SubSeqProperties
<1>5. LastOf(s, n) = SubSeq(s, m, Len(s))
  BY DEF LastOf, m
<1>6. Len(LastOf(s, n)) <= n
  BY <1>1, <1>2, <1>4, <1>5
<1>7. ASSUME NEW i \in 1..Len(LastOf(s, n))
      PROVE  \E j \in 1..Len(s) : LastOf(s, n)[i] = s[j]
  <2>1. m <= Len(s) /\ i \in 1..(Len(s) - m + 1)
    BY <1>1, <1>2, <1>4, <1>5
  <2>2. m + i - 1 \in 1..Len(s)
    BY <1>1, <1>2, <2>1
  <2> QED BY <1>4, <1>5, <2>1, <2>2
<1> QED BY <1>4, <1>5, <1>6, <1>7

LEMMA KnowingFields ==
  ASSUME NEW seen, NEW g \in Knowing(seen)
  PROVE  /\ g \in AgentStates /\ g.at \in Places /\ g.been \in SUBSET Places
         /\ g.facts \in Seq(Facts) /\ g.earth \in SUBSET Places
         /\ g.belief \in [Places -> Beliefs] /\ g.mem \in [Agents -> Memories]
         /\ g.log \in [Agents -> Nat] /\ g.asked \in Nat
         /\ Len(g.facts) <= Memory /\ AskedNothing(g)
         /\ \A p \in Places : BeliefGrounded(g.belief[p], p, seen)
         /\ \A i \in 1..Len(g.facts) : FactGrounded(g.facts[i], seen)
<1>1. g \in AgentStates
  BY DEF Knowing
<1>2. /\ g.at \in Places /\ g.been \in SUBSET Places
      /\ g.facts \in Seq(Facts) /\ g.earth \in SUBSET Places
      /\ g.belief \in [Places -> Beliefs] /\ g.mem \in [Agents -> Memories]
      /\ g.log \in [Agents -> Nat] /\ g.asked \in Nat
  BY <1>1 DEF AgentStates
<1> QED BY <1>1, <1>2 DEF Knowing

\* Where an agent is, where it has been, and the encounters it has logged.
Past(g) == [at |-> g.at, been |-> g.been, log |-> g.log]

LEMMA PastFields ==
  ASSUME NEW g, NEW h, Past(h) = Past(g)
  PROVE  h.at = g.at /\ h.been = g.been /\ h.log = g.log
  BY DEF Past

\* One who keeps facts, beliefs and places knows the same.
LEMMA SameKnows ==
  ASSUME NEW seen, NEW g \in Knowing(seen), NEW h \in AgentStates,
         h.facts = g.facts, h.belief = g.belief, h.been = g.been, h.asked = g.asked
  PROVE  h \in Knowing(seen)
  BY DEF Knowing, AskedNothing

\* The memory of facts after one more, which is what the last of them are of.
LEMMA AppendedKnows ==
  ASSUME NEW seen, NEW g \in Knowing(seen), NEW f \in Facts, FactGrounded(f, seen)
  PROVE  /\ Appended(g, f) \in Knowing(seen)
         /\ Appended(g, f).mem = g.mem /\ Past(Appended(g, f)) = Past(g)
         /\ Appended(g, f).belief = g.belief
<1>1. Memory \in Nat \ {0}
  BY SocietyAssumption
<1>2. /\ g \in AgentStates /\ g.facts \in Seq(Facts)
      /\ \A i \in 1..Len(g.facts) : FactGrounded(g.facts[i], seen)
      /\ \A p \in Places : BeliefGrounded(g.belief[p], p, seen)
  BY KnowingFields
<1> DEFINE more == Append(g.facts, f)
           last == LastOf(more, Memory)
<1>3. /\ more \in Seq(Facts) /\ Len(more) = Len(g.facts) + 1
      /\ \A i \in 1..Len(g.facts) : more[i] = g.facts[i]
      /\ more[Len(g.facts) + 1] = f
  BY <1>2, AppendProperties
<1>4. \A i \in 1..Len(more) : FactGrounded(more[i], seen)
  <2> TAKE i \in 1..Len(more)
  <2>1. CASE i = Len(g.facts) + 1
    BY <1>3, <2>1
  <2>2. CASE i \in 1..Len(g.facts)
    BY <1>2, <1>3, <2>2
  <2>3. Len(g.facts) \in Nat
    BY <1>2
  <2> QED BY <1>3, <2>1, <2>2, <2>3
<1> HIDE DEF more
<1>5. /\ last \in Seq(Facts) /\ Len(last) <= Memory
      /\ \A i \in 1..Len(last) : \E j \in 1..Len(more) : last[i] = more[j]
  BY <1>1, <1>3, LastOfFacts
<1>6. \A i \in 1..Len(last) : FactGrounded(last[i], seen)
  BY <1>4, <1>5
<1> HIDE DEF last
<1>7. Appended(g, f) = [g EXCEPT !.facts = last]
  BY DEF Appended, last, more
<1>8. [g EXCEPT !.facts = last] \in AgentStates
  BY <1>2, <1>5 DEF AgentStates
<1>9. LET h == [g EXCEPT !.facts = last]
      IN  /\ h.facts = last /\ h.mem = g.mem /\ Past(h) = Past(g) /\ h.belief = g.belief
          /\ h.been = g.been /\ h.asked = g.asked
  BY <1>2 DEF AgentStates, Past
<1>10. AskedNothing(g)
  BY KnowingFields
<1> DEFINE h == [g EXCEPT !.facts = last]
<1>11. /\ h \in AgentStates /\ h.facts = last /\ h.mem = g.mem /\ Past(h) = Past(g) /\ h.belief = g.belief
       /\ AskedNothing(h)
  BY <1>8, <1>9, <1>10 DEF AskedNothing
<1> HIDE DEF h
<1>12. h \in Knowing(seen)
  BY <1>2, <1>5, <1>6, <1>11 DEF Knowing
<1> QED BY <1>7, <1>11, <1>12 DEF h

LEMMA BelievingKnows ==
  ASSUME NEW seen, NEW g \in Knowing(seen), NEW p \in Places, NEW b \in Beliefs,
         BeliefGrounded(b, p, seen), b.conf > 0
  PROVE  /\ Believing(g, p, b) \in Knowing(seen)
         /\ Believing(g, p, b).mem = g.mem /\ Past(Believing(g, p, b)) = Past(g)
<1>1. /\ g \in AgentStates /\ g.belief \in [Places -> Beliefs] /\ Len(g.facts) <= Memory
      /\ \A i \in 1..Len(g.facts) : FactGrounded(g.facts[i], seen)
      /\ \A q \in Places : BeliefGrounded(g.belief[q], q, seen)
  BY KnowingFields
<1> DEFINE bs == [g.belief EXCEPT ![p] = b]
<1>2. bs \in [Places -> Beliefs] /\ \A q \in Places : BeliefGrounded(bs[q], q, seen)
  BY <1>1
<1> HIDE DEF bs
<1>3. Believing(g, p, b) = [g EXCEPT !.belief = bs]
  BY DEF Believing, bs
<1>4. [g EXCEPT !.belief = bs] \in AgentStates
  BY <1>1, <1>2 DEF AgentStates
<1>5. LET h == [g EXCEPT !.belief = bs]
      IN  /\ h.belief = bs /\ h.facts = g.facts /\ h.mem = g.mem /\ Past(h) = Past(g)
          /\ h.been = g.been /\ h.asked = g.asked
  BY <1>1 DEF AgentStates, Past
<1>6. \A q \in Places : g.belief[q].conf > 0 => bs[q].conf > 0
  BY <1>1 DEF bs
<1>7. AskedNothing(g) /\ g.been \in SUBSET Places
  BY KnowingFields
<1> DEFINE h == [g EXCEPT !.belief = bs]
<1>8. /\ h \in AgentStates /\ h.belief = bs /\ h.facts = g.facts /\ h.mem = g.mem /\ Past(h) = Past(g)
      /\ h.been = g.been /\ h.asked = g.asked
  BY <1>4, <1>5
<1> HIDE DEF h
<1>9. AskedNothing(h)
  BY <1>6, <1>7, <1>8 DEF AskedNothing
<1>10. h \in Knowing(seen)
  BY <1>1, <1>2, <1>8, <1>9 DEF Knowing
<1> QED BY <1>3, <1>8, <1>10 DEF h

Enough == {c \in Nat : c >= 200 /\ c <= 1000}

LEMMA ConfidenceBounds ==
  ASSUME NEW seen, NEW g \in Knowing(seen), NEW f \in Facts
  PROVE  ConfidenceIn(g, f) \in Thousandths
<1>1. g.belief \in [Places -> Beliefs] /\ f.loc \in Places
  BY KnowingFields DEF Facts
<1>2. g.belief[f.loc].conf \in Thousandths
  BY <1>1 DEF Beliefs
<1> QED BY <1>2 DEF ConfidenceIn, Thousandths

\* What an observation makes of a belief.
LEMMA RevisedGrounded ==
  ASSUME NEW seen, NEW p \in Places, NEW v \in Nat, NEW b \in Beliefs,
         BeliefGrounded(b, p, seen), <<p, v>> \in seen
  PROVE  Revised(b, v) \in Beliefs /\ BeliefGrounded(Revised(b, v), p, seen) /\ Revised(b, v).conf > 0
<1>1. b.conf \in Nat /\ b.conf <= 1000 /\ b.val \in Nat
  BY DEF Beliefs, Thousandths
<1>2. CASE b.conf = 0
  BY <1>2 DEF Revised, Beliefs, BeliefGrounded, Thousandths
<1>3. CASE b.conf # 0 /\ b.val = v
  <2> DEFINE y == b.conf + 50
             c == Min({1000, y})
  <2>1. b.conf >= 200 /\ 1000 \in Int /\ y \in Int /\ y >= 200
    BY <1>1, <1>3 DEF BeliefGrounded
  <2> HIDE DEF y
  <2>2. c \in {1000, y} /\ c <= 1000
    BY <2>1, MinOfTwo
  <2>3. c \in Thousandths /\ c >= 200 /\ c > 0
    BY <1>1, <2>1, <2>2 DEF Thousandths
  <2>4. Revised(b, v) = [val |-> v, conf |-> c]
    BY <1>3 DEF Revised, y
  <2> HIDE DEF c
  <2>5. Revised(b, v).conf = c /\ Revised(b, v).val = v
    BY <2>4
  <2>6. Revised(b, v) \in Beliefs
    BY <2>3, <2>4 DEF Beliefs
  <2> QED BY <2>3, <2>5, <2>6 DEF BeliefGrounded
<1>4. CASE b.conf # 0 /\ b.val # v
  <2> DEFINE y == (3 * b.conf) \div 4
             c == Max({350, y})
  <2>1. y \in Int /\ y <= 1000 /\ 350 \in Int
    BY <1>1
  <2> HIDE DEF y
  <2>2. c \in {350, y} /\ c >= 350
    BY <2>1, MaxOfTwo
  <2>3. c \in Thousandths /\ c >= 200 /\ c > 0
    BY <2>1, <2>2 DEF Thousandths
  <2>4. Revised(b, v) = [val |-> v, conf |-> c]
    BY <1>4 DEF Revised, y
  <2> HIDE DEF c
  <2>5. Revised(b, v).conf = c /\ Revised(b, v).val = v
    BY <2>4
  <2>6. Revised(b, v) \in Beliefs
    BY <2>3, <2>4 DEF Beliefs
  <2> QED BY <2>3, <2>5, <2>6 DEF BeliefGrounded
<1> QED BY <1>2, <1>3, <1>4

\* What hearsay makes of one.
LEMMA MergedGrounded ==
  ASSUME NEW seen, NEW p \in Places, NEW v \in Nat, NEW b \in Beliefs, NEW c \in Thousandths,
         BeliefGrounded(b, p, seen), <<p, v>> \in seen
  PROVE  Merged(b, v, c) \in Beliefs /\ BeliefGrounded(Merged(b, v, c), p, seen)
         /\ Merged(b, v, c).conf > 0
<1>1. b.conf \in Nat /\ b.conf <= 1000 /\ b.val \in Nat
  BY DEF Beliefs, Thousandths
<1>0. c \in Nat /\ c <= 1000
  BY DEF Thousandths
<1>2. b.conf # 0 => b.conf >= 200 /\ <<p, b.val>> \in seen
  BY <1>1 DEF BeliefGrounded
<1>3. ASSUME NEW x \in Enough, NEW w \in Nat, <<p, w>> \in seen, Merged(b, v, c) = [val |-> w, conf |-> x]
      PROVE  Merged(b, v, c) \in Beliefs /\ BeliefGrounded(Merged(b, v, c), p, seen)
             /\ Merged(b, v, c).conf > 0
  BY <1>3 DEF Beliefs, BeliefGrounded, Enough, Thousandths
<1>4. CASE b.conf = 0
  <2> DEFINE y == 350 + (45 * c + 50) \div 100
             lo == 350
             hi == 950
             x == Clamp(lo, hi, y)
  <2>1. y \in Int /\ lo \in Int /\ hi \in Int /\ lo <= hi /\ lo >= 350 /\ hi <= 950
    BY <1>0
  <2> HIDE DEF y, lo, hi
  <2>2. x \in Int /\ x >= lo /\ x <= hi
    BY <2>1, ClampBounds, Zenon
  <2>3. Merged(b, v, c) = [val |-> v, conf |-> x]
    BY <1>4 DEF Merged, y, lo, hi
  <2> HIDE DEF x
  <2>4. x \in Enough
    BY <2>1, <2>2 DEF Enough, lo, hi
  <2> QED BY <1>3, <2>3, <2>4
<1>5. CASE b.conf # 0 /\ b.val = v
  <2> DEFINE y == b.conf + (c + 5) \div 10
             top == 1000
             x == Min({top, y})
  <2>1. y \in Int /\ y >= 200 /\ top \in Int
    <3> DEFINE tenth == (c + 5) \div 10
    <3>1. tenth \in Nat
      BY <1>0
    <3> HIDE DEF tenth
    <3>2. b.conf + tenth \in Int /\ b.conf + tenth >= 200
      BY <1>1, <1>2, <1>5, <3>1
    <3> QED BY <3>2 DEF tenth
  <2> HIDE DEF y, top
  <2>2. x \in {top, y} /\ x <= top
    BY <2>1, MinOfTwo, Zenon
  <2>3. x \in Enough
    BY <2>1, <2>2 DEF Enough, top
  <2>4. Merged(b, v, c) = [val |-> v, conf |-> x]
    BY <1>5 DEF Merged, y, top
  <2> HIDE DEF x
  <2> QED BY <1>3, <2>3, <2>4
<1>6. CASE b.conf # 0 /\ b.val # v /\ c > b.conf + 120
  <2> DEFINE y == (b.conf + c + 1) \div 2
             lo == 350
             hi == 950
             x == Clamp(lo, hi, y)
  <2>1. y \in Int /\ lo \in Int /\ hi \in Int /\ lo <= hi /\ lo >= 350 /\ hi <= 950
    BY <1>0, <1>1
  <2> HIDE DEF y, lo, hi
  <2>2. x \in Int /\ x >= lo /\ x <= hi
    BY <2>1, ClampBounds, Zenon
  <2>3. Merged(b, v, c) = [val |-> v, conf |-> x]
    BY <1>6 DEF Merged, y, lo, hi
  <2> HIDE DEF x
  <2>4. x \in Enough
    BY <2>1, <2>2 DEF Enough, lo, hi
  <2> QED BY <1>3, <2>3, <2>4
<1>7. CASE b.conf # 0 /\ b.val # v /\ ~(c > b.conf + 120)
  <2> DEFINE y == b.conf - (3 * c + 50) \div 100
             low == 200
             x == Max({low, y})
  <2>1. y \in Int /\ y <= 1000 /\ low \in Int
    BY <1>0, <1>1
  <2> HIDE DEF y, low
  <2>2. x \in {low, y} /\ x >= low
    BY <2>1, MaxOfTwo, Zenon
  <2>3. x \in Enough
    BY <2>1, <2>2 DEF Enough, low
  <2>4. Merged(b, v, c) = [val |-> b.val, conf |-> x]
    BY <1>7 DEF Merged, y, low
  <2> HIDE DEF x
  <2> QED BY <1>1, <1>2, <1>3, <1>7, <2>3, <2>4
<1> QED BY <1>4, <1>5, <1>6, <1>7
-----------------------------------------------------------------------------
\* What one agent remembers of another, and the other of it.

\* m is what one remembers of one who remembers o of it.
Mirrors(m, o) ==
  /\ m.count = o.count /\ m.ticks = o.ticks /\ m.last = o.last /\ m.net = o.net
  /\ m.got = o.gave /\ m.learned = o.taught
  /\ m.trust <= 500 + 10 * m.got

LEMMA MemoryFields ==
  ASSUME NEW m \in Memories
  PROVE  /\ m.count \in Nat /\ m.ticks \in Nat /\ m.last \in 0..MaxTick /\ m.trust \in Thousandths
         /\ m.got \in Nat /\ m.gave \in Nat /\ m.taught \in Nat /\ m.learned \in Nat
         /\ m.net \in Nat /\ m.topics \in SUBSET Places
  BY DEF Memories

LEMMA TrustingMirrors ==
  ASSUME NEW m \in Memories, NEW o \in Memories, NEW c \in Thousandths, NEW nudge \in {5, 10}
  PROVE  LET n == Trusting(m, c, nudge)
         IN  /\ n \in Memories /\ Giving(o) \in Memories
             /\ Mirrors(m, o) => Mirrors(n, Giving(o))
             /\ Mirrors(o, m) => Mirrors(Giving(o), n)
<1> DEFINE x == m.trust + (c * nudge + 500) \div 1000
           y == Min({1000, x})
           n == Trusting(m, c, nudge)
           q == Giving(o)
<1>1. m.trust \in Thousandths /\ m.got \in Nat
  BY MemoryFields
<1>0. c \in Nat /\ c <= 1000 /\ m.trust \in Nat /\ m.trust <= 1000
  BY <1>1 DEF Thousandths
<1>2. c * nudge \in Nat /\ c * nudge <= 10000
  BY <1>0
<1>3. x \in Int /\ x >= m.trust /\ x <= m.trust + 10 /\ 1000 \in Int
  BY <1>0, <1>2
<1> HIDE DEF x
<1>4. y \in {1000, x} /\ y <= 1000 /\ y <= x
  BY <1>3, MinOfTwo
<1> HIDE DEF y
<1>5. y \in Thousandths /\ y <= m.trust + 10
  BY <1>0, <1>3, <1>4 DEF Thousandths
<1> DEFINE k == [m EXCEPT !.got = m.got + 1]
<1>6. n = [k EXCEPT !.trust = y]
  BY DEF Trusting, x, y, Memories
<1> HIDE DEF n
<1>61. k \in Memories
  BY <1>1 DEF Memories
<1>62. /\ k.count = m.count /\ k.ticks = m.ticks /\ k.last = m.last /\ k.net = m.net
       /\ k.got = m.got + 1 /\ k.gave = m.gave /\ k.learned = m.learned /\ k.taught = m.taught
  BY DEF Memories
<1> HIDE DEF k
<1>7. n \in Memories
  BY <1>5, <1>6, <1>61 DEF Memories
<1>8. /\ n.count = m.count /\ n.ticks = m.ticks /\ n.last = m.last /\ n.net = m.net
      /\ n.got = m.got + 1 /\ n.gave = m.gave /\ n.learned = m.learned /\ n.taught = m.taught
      /\ n.trust = y
  BY <1>6, <1>61, <1>62 DEF Memories
<1>9. /\ q \in Memories /\ q.count = o.count /\ q.ticks = o.ticks /\ q.last = o.last /\ q.net = o.net
      /\ q.got = o.got /\ q.gave = o.gave + 1 /\ q.learned = o.learned /\ q.taught = o.taught
      /\ q.trust = o.trust
  <2> DEFINE more == o.gave + 1
  <2>1. more \in Nat /\ q = [o EXCEPT !.gave = more]
    BY MemoryFields DEF Giving
  <2> HIDE DEF more, q
  <2>2. /\ q \in Memories /\ q.count = o.count /\ q.ticks = o.ticks /\ q.last = o.last /\ q.net = o.net
        /\ q.got = o.got /\ q.gave = more /\ q.learned = o.learned /\ q.taught = o.taught
        /\ q.trust = o.trust
    BY <2>1 DEF Memories
  <2> QED BY <2>2 DEF more
<1> HIDE DEF q
<1>10. Mirrors(m, o) => Mirrors(n, q)
  BY <1>0, <1>1, <1>5, <1>8, <1>9 DEF Mirrors
<1>11. Mirrors(o, m) => Mirrors(q, n)
  BY <1>0, <1>1, <1>5, <1>8, <1>9 DEF Mirrors
<1> QED BY <1>7, <1>9, <1>10, <1>11 DEF n, q

\* A meeting, noted by both.
AfterMeeting(n, c, k, t) == [n EXCEPT !.count = c, !.ticks = k, !.last = t]

LEMMA MeetingFields ==
  ASSUME NEW n \in Memories, NEW c \in Nat, NEW k \in Nat, NEW t \in 0..MaxTick
  PROVE  LET q == AfterMeeting(n, c, k, t)
         IN  /\ q \in Memories /\ q.count = c /\ q.ticks = k /\ q.last = t
             /\ q.net = n.net /\ q.got = n.got /\ q.gave = n.gave
             /\ q.learned = n.learned /\ q.taught = n.taught /\ q.trust = n.trust
<1> DEFINE q  == AfterMeeting(n, c, k, t)
           n1 == [n EXCEPT !.count = c]
           n2 == [n1 EXCEPT !.ticks = k]
           n3 == [n2 EXCEPT !.last = t]
<1>1. q = n3
  BY DEF Memories, AfterMeeting
<1>2. /\ n1 \in Memories /\ n1.count = c /\ n1.net = n.net /\ n1.got = n.got /\ n1.gave = n.gave
      /\ n1.learned = n.learned /\ n1.taught = n.taught /\ n1.trust = n.trust
  BY DEF Memories
<1> HIDE DEF n1, q
<1>3. /\ n2 \in Memories /\ n2.count = c /\ n2.ticks = k /\ n2.net = n.net /\ n2.got = n.got
      /\ n2.gave = n.gave /\ n2.learned = n.learned /\ n2.taught = n.taught /\ n2.trust = n.trust
  BY <1>2 DEF Memories
<1> HIDE DEF n2
<1>4. /\ n3 \in Memories /\ n3.count = c /\ n3.ticks = k /\ n3.last = t /\ n3.net = n.net
      /\ n3.got = n.got /\ n3.gave = n.gave /\ n3.learned = n.learned /\ n3.taught = n.taught
      /\ n3.trust = n.trust
  BY <1>3 DEF Memories
<1> HIDE DEF n3
<1>5. /\ q \in Memories /\ q.count = c /\ q.ticks = k /\ q.last = t
      /\ q.net = n.net /\ q.got = n.got /\ q.gave = n.gave
      /\ q.learned = n.learned /\ q.taught = n.taught /\ q.trust = n.trust
  BY <1>1, <1>4
<1> QED BY <1>5 DEF q

LEMMA RememberedMirrors ==
  ASSUME NEW m \in Memories, NEW o \in Memories, NEW d \in Nat, NEW t \in 0..MaxTick, Mirrors(m, o)
  PROVE  /\ Remembered(m, d, t) \in Memories
         /\ Mirrors(Remembered(m, d, t), Remembered(o, d, t))
<1> DEFINE Meetings(n) == IF n.count # 0 /\ n.last = t THEN n.count ELSE n.count + 1
           Ticks(n)    == IF n.count = 0 THEN d ELSE n.ticks + 1
<1>1. ASSUME NEW n \in Memories
      PROVE  LET q == Remembered(n, d, t)
             IN  /\ q \in Memories /\ q.count = Meetings(n) /\ q.ticks = Ticks(n) /\ q.last = t
                 /\ q.net = n.net /\ q.got = n.got /\ q.gave = n.gave
                 /\ q.learned = n.learned /\ q.taught = n.taught /\ q.trust = n.trust
  <2>1. n.count \in Nat /\ n.ticks \in Nat
    BY MemoryFields
  <2> DEFINE c == Meetings(n)
             k == Ticks(n)
  <2>2. c \in Nat /\ k \in Nat
    BY <2>1
  <2>3. Remembered(n, d, t) = AfterMeeting(n, c, k, t)
    BY DEF Remembered, Memories, AfterMeeting
  <2> HIDE DEF c, k
  <2> DEFINE q == AfterMeeting(n, c, k, t)
  <2>4. /\ q \in Memories /\ q.count = c /\ q.ticks = k /\ q.last = t
        /\ q.net = n.net /\ q.got = n.got /\ q.gave = n.gave
        /\ q.learned = n.learned /\ q.taught = n.taught /\ q.trust = n.trust
    BY <2>2, MeetingFields
  <2> HIDE DEF q
  <2> QED BY <2>3, <2>4 DEF c, k, q
<1>2. Meetings(m) = Meetings(o) /\ Ticks(m) = Ticks(o)
  BY DEF Mirrors
<1> HIDE DEF Meetings, Ticks
<1>3. /\ Remembered(m, d, t) \in Memories
      /\ Remembered(m, d, t).count = Meetings(m) /\ Remembered(m, d, t).ticks = Ticks(m)
      /\ Remembered(m, d, t).last = t /\ Remembered(m, d, t).net = m.net
      /\ Remembered(m, d, t).got = m.got /\ Remembered(m, d, t).learned = m.learned
      /\ Remembered(m, d, t).trust = m.trust
  BY <1>1
<1>4. /\ Remembered(o, d, t).count = Meetings(o) /\ Remembered(o, d, t).ticks = Ticks(o)
      /\ Remembered(o, d, t).last = t /\ Remembered(o, d, t).net = o.net
      /\ Remembered(o, d, t).gave = o.gave /\ Remembered(o, d, t).taught = o.taught
  BY <1>1
<1> QED BY <1>2, <1>3, <1>4 DEF Mirrors

LEMMA TrackingMirrors ==
  ASSUME NEW m \in Memories, NEW o \in Memories, NEW p \in Places, Mirrors(m, o)
  PROVE  Tracking(m, p) \in Memories /\ Mirrors(Tracking(m, p), Tracking(o, p))
<1>1. ASSUME NEW n \in Memories
      PROVE  LET q == Tracking(n, p)
             IN  /\ q \in Memories /\ q.count = n.count /\ q.ticks = n.ticks
                 /\ q.last = n.last /\ q.net = n.net + 1 /\ q.got = n.got
                 /\ q.gave = n.gave /\ q.learned = n.learned
                 /\ q.taught = n.taught /\ q.trust = n.trust
  <2> DEFINE n1 == [n EXCEPT !.net = n.net + 1]
             tp == n.topics \cup {p}
  <2>1. n.net \in Nat /\ tp \in SUBSET Places
    BY MemoryFields
  <2> HIDE DEF tp
  <2>2. /\ n1 \in Memories /\ n1.count = n.count /\ n1.ticks = n.ticks
        /\ n1.last = n.last /\ n1.net = n.net + 1 /\ n1.got = n.got
        /\ n1.gave = n.gave /\ n1.learned = n.learned
        /\ n1.taught = n.taught /\ n1.trust = n.trust
    BY <2>1 DEF Memories
  <2>3. Tracking(n, p) = [n1 EXCEPT !.topics = tp]
    BY DEF Memories, tp, Tracking
  <2> HIDE DEF n1
  <2> QED BY <2>1, <2>2, <2>3 DEF Memories
<1> QED BY <1>1 DEF Mirrors

\* A lesson, noted by both.
LEMMA LessonMirrors ==
  ASSUME NEW m \in Memories, NEW o \in Memories
  PROVE  LET n == Learning(m)
             q == Teaching(o)
         IN  /\ n \in Memories /\ q \in Memories
             /\ Mirrors(m, o) => Mirrors(n, q)
             /\ Mirrors(o, m) => Mirrors(q, n)
<1> DEFINE n == Learning(m)
           q == Teaching(o)
<1>1. /\ n \in Memories /\ n.count = m.count /\ n.ticks = m.ticks /\ n.last = m.last /\ n.net = m.net
      /\ n.got = m.got /\ n.gave = m.gave /\ n.learned = m.learned + 1 /\ n.taught = m.taught
      /\ n.trust = m.trust
  BY DEF Memories, Learning
<1>2. /\ q \in Memories /\ q.count = o.count /\ q.ticks = o.ticks /\ q.last = o.last /\ q.net = o.net
      /\ q.got = o.got /\ q.gave = o.gave /\ q.learned = o.learned /\ q.taught = o.taught + 1
      /\ q.trust = o.trust
  BY DEF Memories, Teaching
<1> HIDE DEF n, q
<1>3. Mirrors(m, o) => Mirrors(n, q)
  BY <1>1, <1>2 DEF Mirrors
<1>4. Mirrors(o, m) => Mirrors(q, n)
  BY <1>1, <1>2 DEF Mirrors
<1> QED BY <1>1, <1>2, <1>3, <1>4 DEF n, q
-----------------------------------------------------------------------------
\* All agents.

\* The agents know what was seen, remember the same of each other, and have
\* logged these encounters.
Sound(seen, past) ==
  {gs \in [Agents -> Knowing(seen)] :
     /\ \A a, b \in Agents : Mirrors(gs[a].mem[b], gs[b].mem[a])
     /\ \A a \in Agents : Past(gs[a]) = past[a]}

LEMMA AgentsAreNumbers == N \in Nat /\ Agents = 1..N /\ Agents \subseteq Nat
BY SocietyAssumption DEF Agents

LEMMA SoundFields ==
  ASSUME NEW seen, NEW past, NEW gs \in Sound(seen, past), NEW a \in Agents
  PROVE  /\ gs \in [Agents -> Knowing(seen)] /\ gs[a] \in Knowing(seen)
         /\ gs[a].mem \in [Agents -> Memories] /\ Past(gs[a]) = past[a]
         /\ \A b \in Agents : gs[a].mem[b] \in Memories /\ Mirrors(gs[a].mem[b], gs[b].mem[a])
<1>1. gs \in [Agents -> Knowing(seen)] /\ gs[a] \in Knowing(seen)
  BY DEF Sound
<1>2. gs[a].mem \in [Agents -> Memories]
  BY <1>1, KnowingFields
<1> QED BY <1>1, <1>2 DEF Sound

WithMem(g, ms) == [g EXCEPT !.mem = ms]

LEMMA WithMemKnows ==
  ASSUME NEW seen, NEW g \in Knowing(seen), NEW ms \in [Agents -> Memories]
  PROVE  /\ WithMem(g, ms) \in Knowing(seen) /\ WithMem(g, ms).mem = ms
         /\ Past(WithMem(g, ms)) = Past(g) /\ WithMem(g, ms).belief = g.belief
<1>1. g \in AgentStates
  BY KnowingFields
<1> DEFINE h == WithMem(g, ms)
<1>2. /\ h \in AgentStates /\ h.mem = ms /\ Past(h) = Past(g) /\ h.belief = g.belief
      /\ h.facts = g.facts /\ h.been = g.been /\ h.asked = g.asked
  BY <1>1 DEF AgentStates, Past, WithMem
<1> HIDE DEF h
<1>3. h \in Knowing(seen)
  BY <1>2, SameKnows
<1> QED BY <1>2, <1>3 DEF h

\* Where all of a group have been, none has a gap to ask the others about.
LEMMA NobodyWouldAsk ==
  ASSUME NEW seen, NEW past, NEW gs \in Sound(seen, past), NEW ms \in SUBSET Agents, NEW p,
         \A a \in ms : p \in gs[a].been
  PROVE  Askers(gs, p, ms) = {} /\ \A t : Starters(gs, p, ms, t) = {}
<1>1. ASSUME NEW a \in ms PROVE Gap(gs[a], p) = 0
  <2>1. gs[a] \in Knowing(seen)
    BY SoundFields
  <2>2. p \in gs[a].been /\ gs[a].belief[p].conf > 0
    BY <2>1, KnowingFields DEF AskedNothing
  <2>3. "seen" \in Knows(gs[a], p)
    BY <2>2 DEF Knows
  <2> QED BY <2>2, <2>3 DEF Gap
<1>2. Askers(gs, p, ms) = {}
  BY <1>1 DEF Askers
<1>3. \A t : Starters(gs, p, ms, t) = {}
  BY <1>1 DEF Starters
<1> QED BY <1>2, <1>3

\* Agents none of whom asks.
AskedBy(gs, who) == [a \in Agents |-> IF a \in who THEN [gs[a] EXCEPT !.asked = @ + 1] ELSE gs[a]]

LEMMA NobodyAskedSound ==
  ASSUME NEW seen, NEW past, NEW gs \in Sound(seen, past)
  PROVE  AskedBy(gs, {}) \in Sound(seen, past)
<1>1. gs \in [Agents -> Knowing(seen)]
  BY DEF Sound
<1>2. AskedBy(gs, {}) = gs
  BY <1>1 DEF AskedBy
<1> QED BY <1>2

\* One who hears a fact from s.
LEMMA HearsKnows ==
  ASSUME NEW seen, NEW g \in Knowing(seen), NEW s \in Agents, NEW f \in Facts, FactGrounded(f, seen),
         NEW c \in Thousandths, NEW nudge \in {5, 10}
  PROVE  /\ Hears(g, s, f, c, nudge) \in Knowing(seen)
         /\ Past(Hears(g, s, f, c, nudge)) = Past(g)
         /\ \A b \in Agents : Hears(g, s, f, c, nudge).mem[b]
              = IF b = s THEN Trusting(g.mem[b], c, nudge) ELSE g.mem[b]
<1> DEFINE one == Appended(g, f)
           ms  == [g.mem EXCEPT ![s] = Trusting(g.mem[s], c, nudge)]
           two == WithMem(one, ms)
<1>1. g.mem \in [Agents -> Memories] /\ g.belief \in [Places -> Beliefs]
      /\ \A p \in Places : BeliefGrounded(g.belief[p], p, seen)
  BY KnowingFields
<1>2. one \in Knowing(seen) /\ one.mem = g.mem /\ Past(one) = Past(g) /\ one.belief = g.belief
  BY AppendedKnows
<1>3. Trusting(g.mem[s], c, nudge) \in Memories
  BY <1>1, TrustingMirrors
<1>4. ms \in [Agents -> Memories]
  BY <1>1, <1>3
<1> HIDE DEF one
<1>5. two = Regarding(one, s, Trusting(g.mem[s], c, nudge))
  BY <1>2, Zenon DEF WithMem, Regarding
<1> HIDE DEF ms
<1>6. two \in Knowing(seen) /\ two.mem = ms /\ Past(two) = Past(g)
  BY <1>2, <1>4, WithMemKnows
<1> HIDE DEF two
<1>7. Hears(g, s, f, c, nudge)
        = IF f.pred = "seen" THEN Believing(two, f.loc, Merged(g.belief[f.loc], f.val, c)) ELSE two
  BY <1>5 DEF Hears, one
<1>8. \A b \in Agents : ms[b] = IF b = s THEN Trusting(g.mem[b], c, nudge) ELSE g.mem[b]
  BY <1>1 DEF ms
<1>9. CASE f.pred = "seen"
  <2>1. f.loc \in Places /\ f.val \in Nat /\ <<f.loc, f.val>> \in seen
    BY <1>9 DEF Facts, FactGrounded
  <2> DEFINE b == Merged(g.belief[f.loc], f.val, c)
  <2>2. g.belief[f.loc] \in Beliefs /\ BeliefGrounded(g.belief[f.loc], f.loc, seen)
    BY <1>1, <2>1
  <2>3. b \in Beliefs /\ BeliefGrounded(b, f.loc, seen) /\ b.conf > 0
    BY <2>1, <2>2, MergedGrounded
  <2> HIDE DEF b
  <2>4. Believing(two, f.loc, b) \in Knowing(seen) /\ Believing(two, f.loc, b).mem = two.mem
        /\ Past(Believing(two, f.loc, b)) = Past(two)
    BY <1>6, <2>1, <2>3, BelievingKnows
  <2>5. Hears(g, s, f, c, nudge) = Believing(two, f.loc, b)
    BY <1>7, <1>9 DEF b
  <2> QED BY <1>6, <1>8, <2>4, <2>5
<1>10. CASE f.pred # "seen"
  BY <1>6, <1>7, <1>8, <1>10
<1> QED BY <1>9, <1>10

\* One who has told ms something.
LEMMA GaveKnows ==
  ASSUME NEW seen, NEW g \in Knowing(seen), NEW ms
  PROVE  LET h == Gave(g, ms)
         IN  /\ h \in Knowing(seen) /\ Past(h) = Past(g)
             /\ h.mem = [b \in Agents |-> IF b \in ms THEN Giving(g.mem[b]) ELSE g.mem[b]]
<1> DEFINE mem == [b \in Agents |-> IF b \in ms THEN Giving(g.mem[b]) ELSE g.mem[b]]
<1>1. g.mem \in [Agents -> Memories]
  BY KnowingFields
<1>2. ASSUME NEW b \in Agents PROVE Giving(g.mem[b]) \in Memories
  <2>1. g.mem[b] \in Memories
    BY <1>1
  <2> QED BY <2>1 DEF Giving, Memories
<1>3. mem \in [Agents -> Memories]
  BY <1>1, <1>2
<1>4. Gave(g, ms) = WithMem(g, mem)
  BY Zenon DEF Gave, WithMem
<1> HIDE DEF mem
<1>5. WithMem(g, mem) \in Knowing(seen) /\ WithMem(g, mem).mem = mem /\ Past(WithMem(g, mem)) = Past(g)
  BY <1>3, WithMemKnows
<1> QED BY <1>4, <1>5 DEF mem

\* A fact that is told leaves speaker and listeners with the same memory of it.
LEMMA ToldSound ==
  ASSUME NEW seen, NEW past, NEW gs \in Sound(seen, past), NEW s \in Agents, NEW ms \in SUBSET Agents,
         s \notin ms, NEW f \in Facts, FactGrounded(f, seen), NEW c \in Thousandths, NEW nudge \in {5, 10}
  PROVE  Told(gs, s, ms, f, c, nudge) \in Sound(seen, past)
<1> DEFINE hs == Told(gs, s, ms, f, c, nudge)
           Then(a, b) == IF a \in ms /\ b = s THEN Trusting(gs[a].mem[b], c, nudge)
                         ELSE IF a = s /\ b \in ms THEN Giving(gs[a].mem[b]) ELSE gs[a].mem[b]
<1>1. ASSUME NEW a \in Agents
      PROVE  /\ gs[a] \in Knowing(seen) /\ gs[a].mem \in [Agents -> Memories] /\ Past(gs[a]) = past[a]
             /\ \A b \in Agents : gs[a].mem[b] \in Memories /\ Mirrors(gs[a].mem[b], gs[b].mem[a])
  BY SoundFields
<1>2. ASSUME NEW a \in Agents
      PROVE  hs[a] = IF a \in ms THEN Hears(gs[a], s, f, c, nudge)
                     ELSE IF a = s THEN Gave(gs[a], ms) ELSE gs[a]
  BY DEF Told
<1>3. hs = [a \in Agents |-> hs[a]]
  BY DEF Told
<1> HIDE DEF hs
<1>4. ASSUME NEW a \in Agents
      PROVE  /\ hs[a] \in Knowing(seen) /\ Past(hs[a]) = past[a]
             /\ \A b \in Agents : hs[a].mem[b] = Then(a, b)
  <2>1. CASE a \in ms
    <3>1. hs[a] = Hears(gs[a], s, f, c, nudge)
      BY <1>2, <2>1
    <3>2. /\ hs[a] \in Knowing(seen) /\ Past(hs[a]) = Past(gs[a])
          /\ \A b \in Agents : hs[a].mem[b]
               = IF b = s THEN Trusting(gs[a].mem[b], c, nudge) ELSE gs[a].mem[b]
      BY <1>1, <3>1, HearsKnows
    <3>3. a # s
      BY <2>1
    <3>4. \A b \in Agents : hs[a].mem[b] = Then(a, b)
      BY <1>1, <2>1, <3>2, <3>3
    <3> QED BY <1>1, <3>2, <3>4
  <2>2. CASE a = s
    <3>1. hs[a] = Gave(gs[a], ms)
      BY <1>2, <2>2
    <3>2. /\ hs[a] \in Knowing(seen) /\ Past(hs[a]) = Past(gs[a])
          /\ hs[a].mem = [b \in Agents |-> IF b \in ms THEN Giving(gs[a].mem[b]) ELSE gs[a].mem[b]]
      BY <1>1, <3>1, GaveKnows
    <3>3. \A b \in Agents : hs[a].mem[b] = Then(a, b)
      BY <2>2, <3>2
    <3> QED BY <1>1, <3>2, <3>3
  <2>3. CASE a \notin ms /\ a # s
    BY <1>1, <1>2, <2>3
  <2> QED BY <2>1, <2>2, <2>3
<1>5. ASSUME NEW a \in Agents, NEW b \in Agents PROVE Mirrors(hs[a].mem[b], hs[b].mem[a])
  <2>1. /\ hs[a].mem[b] = Then(a, b) /\ hs[b].mem[a] = Then(b, a)
        /\ gs[a].mem[b] \in Memories /\ gs[b].mem[a] \in Memories
        /\ Mirrors(gs[a].mem[b], gs[b].mem[a]) /\ Mirrors(gs[b].mem[a], gs[a].mem[b])
    BY <1>1, <1>4
  <2>2. CASE a \in ms /\ b = s
    <3>1. Then(a, b) = Trusting(gs[a].mem[b], c, nudge) /\ Then(b, a) = Giving(gs[b].mem[a])
      BY <2>2
    <3> QED BY <2>1, <3>1, TrustingMirrors
  <2>3. CASE b \in ms /\ a = s
    <3>1. Then(b, a) = Trusting(gs[b].mem[a], c, nudge) /\ Then(a, b) = Giving(gs[a].mem[b])
      BY <2>3
    <3> QED BY <2>1, <3>1, TrustingMirrors
  <2>4. CASE ~(a \in ms /\ b = s) /\ ~(b \in ms /\ a = s)
    BY <2>1, <2>4
  <2> QED BY <2>2, <2>3, <2>4
<1> HIDE DEF Then
<1>6. hs \in [Agents -> Knowing(seen)]
  BY <1>3, <1>4
<1>7. hs \in Sound(seen, past)
  BY <1>4, <1>5, <1>6 DEF Sound
<1> QED BY <1>7 DEF hs

\* A remembered fact is one of them.
LEMMA OldestKnows ==
  ASSUME NEW seen, NEW g \in Knowing(seen), NEW p, NEW pred,
         \E i \in DOMAIN g.facts : g.facts[i].loc = p /\ g.facts[i].pred = pred
  PROVE  Oldest(g, p, pred) \in Facts /\ FactGrounded(Oldest(g, p, pred), seen)
<1> DEFINE S == {i \in DOMAIN g.facts : g.facts[i].loc = p /\ g.facts[i].pred = pred}
<1>1. g.facts \in Seq(Facts) /\ \A i \in 1..Len(g.facts) : FactGrounded(g.facts[i], seen)
  BY KnowingFields
<1>2. DOMAIN g.facts = 1..Len(g.facts) /\ Len(g.facts) \in Nat
  BY <1>1
<1>3. S \in SUBSET Nat /\ S # {} /\ S \subseteq 1..Len(g.facts)
  BY <1>2
<1> HIDE DEF S
<1>4. Min(S) \in S
  BY <1>3, LeastNumber DEF Min
<1>5. Min(S) \in 1..Len(g.facts)
  BY <1>3, <1>4
<1> DEFINE n == Min(S)
<1>6. Oldest(g, p, pred) = g.facts[n]
  BY DEF Oldest, S
<1> HIDE DEF n
<1>7. n \in 1..Len(g.facts)
  BY <1>5 DEF n
<1> QED BY <1>1, <1>6, <1>7, ElementOfSeq

\* One who thinks otherwise of b.
LEMMA RegardingKnows ==
  ASSUME NEW seen, NEW g \in Knowing(seen), NEW b \in Agents, NEW m \in Memories
  PROVE  /\ Regarding(g, b, m) \in Knowing(seen) /\ Past(Regarding(g, b, m)) = Past(g)
         /\ \A a \in Agents : Regarding(g, b, m).mem[a] = IF a = b THEN m ELSE g.mem[a]
<1> DEFINE mem == [g.mem EXCEPT ![b] = m]
<1>1. g.mem \in [Agents -> Memories]
  BY KnowingFields
<1>2. mem \in [Agents -> Memories] /\ \A a \in Agents : mem[a] = IF a = b THEN m ELSE g.mem[a]
  BY <1>1
<1>3. Regarding(g, b, m) = WithMem(g, mem)
  BY Zenon DEF Regarding, WithMem
<1> HIDE DEF mem
<1>4. WithMem(g, mem) \in Knowing(seen) /\ WithMem(g, mem).mem = mem /\ Past(WithMem(g, mem)) = Past(g)
  BY <1>2, WithMemKnows
<1> QED BY <1>2, <1>3, <1>4

\* One who is taught what the teacher remembers.
LEMMA LearnedKnows ==
  ASSUME NEW seen, NEW g \in Knowing(seen), NEW s \in Agents, NEW teacher \in Knowing(seen), NEW p,
         NEW preds, preds \subseteq Predicates(teacher, p)
  PROVE  /\ Learned(g, s, teacher, p, preds) \in Knowing(seen)
         /\ Past(Learned(g, s, teacher, p, preds)) = Past(g)
         /\ \A b \in Agents : Learned(g, s, teacher, p, preds).mem[b]
              = IF b = s THEN Learning(g.mem[b]) ELSE g.mem[b]
<1>1. ASSUME NEW h \in Knowing(seen), NEW pred \in preds
      PROVE  /\ Appended(h, Oldest(teacher, p, pred)) \in Knowing(seen)
             /\ Appended(h, Oldest(teacher, p, pred)).mem = h.mem
             /\ Past(Appended(h, Oldest(teacher, p, pred))) = Past(h)
  <2>1. \E i \in DOMAIN teacher.facts : teacher.facts[i].loc = p /\ teacher.facts[i].pred = pred
    BY DEF Predicates
  <2>2. Oldest(teacher, p, pred) \in Facts /\ FactGrounded(Oldest(teacher, p, pred), seen)
    BY <2>1, OldestKnows
  <2> QED BY <2>2, AppendedKnows
<1> DEFINE one == IF "earth" \in preds THEN Appended(g, Oldest(teacher, p, "earth")) ELSE g
           all == IF "seen" \in preds THEN Appended(one, Oldest(teacher, p, "seen")) ELSE one
<1>2. one \in Knowing(seen) /\ one.mem = g.mem /\ Past(one) = Past(g)
  <2>1. CASE "earth" \in preds
    BY <1>1, <2>1
  <2>2. CASE "earth" \notin preds
    BY <2>2
  <2> QED BY <2>1, <2>2
<1> HIDE DEF one
<1>3. all \in Knowing(seen) /\ all.mem = g.mem /\ Past(all) = Past(g)
  <2>1. CASE "seen" \in preds
    BY <1>1, <1>2, <2>1
  <2>2. CASE "seen" \notin preds
    BY <1>2, <2>2
  <2> QED BY <2>1, <2>2
<1> HIDE DEF all
<1>4. Learned(g, s, teacher, p, preds) = Regarding(all, s, Learning(g.mem[s]))
  BY DEF Learned, all, one
<1>5. Learning(g.mem[s]) \in Memories
  <2>1. g.mem[s] \in Memories
    BY KnowingFields
  <2> QED BY <2>1, LessonMirrors
<1> DEFINE m == Learning(g.mem[s])
<1> HIDE DEF m
<1>6. /\ Regarding(all, s, m) \in Knowing(seen) /\ Past(Regarding(all, s, m)) = Past(all)
      /\ \A b \in Agents : Regarding(all, s, m).mem[b] = IF b = s THEN m ELSE all.mem[b]
  BY <1>3, <1>5, RegardingKnows DEF m
<1> QED BY <1>3, <1>4, <1>6 DEF m

LEMMA TaughtBySound ==
  ASSUME NEW seen, NEW past, NEW gs \in Sound(seen, past), NEW p, NEW ms \in SUBSET Agents, NEW s \in Agents
  PROVE  TaughtBy(gs, p, ms, s) \in Sound(seen, past)
<1> DEFINE pupils == {b \in ms \ {s} : Teachable(gs[s], gs[b], p) # {}}
           pupil  == Min(pupils)
<1>1. CASE pupils = {}
  BY <1>1 DEF TaughtBy
<1>2. CASE pupils # {}
  <2>1. pupils \in SUBSET Nat
    BY AgentsAreNumbers
  <2>2. pupil \in pupils
    BY <1>2, <2>1, LeastNumber DEF Min
  <2>3. pupil \in Agents /\ pupil # s
    BY <2>2
  <2> DEFINE preds == Teachable(gs[s], gs[pupil], p)
             taught == Learned(gs[pupil], s, gs[s], p, preds)
             taughtby == Regarding(gs[s], pupil, Teaching(gs[s].mem[pupil]))
             hs == [gs EXCEPT ![pupil] = taught, ![s] = taughtby]
             Then(a, b) == IF a = pupil /\ b = s THEN Learning(gs[a].mem[b])
                           ELSE IF a = s /\ b = pupil THEN Teaching(gs[a].mem[b]) ELSE gs[a].mem[b]
  <2>4. TaughtBy(gs, p, ms, s) = hs
    BY <1>2 DEF TaughtBy
  <2> HIDE DEF pupils, pupil
  <2>5. ASSUME NEW a \in Agents
        PROVE  /\ gs \in [Agents -> Knowing(seen)] /\ gs[a] \in Knowing(seen)
               /\ Past(gs[a]) = past[a]
               /\ \A b \in Agents : gs[a].mem[b] \in Memories /\ Mirrors(gs[a].mem[b], gs[b].mem[a])
    BY SoundFields
  <2>6. preds \subseteq Predicates(gs[s], p)
    BY DEF Teachable
  <2> HIDE DEF preds
  <2>7. /\ taught \in Knowing(seen) /\ Past(taught) = Past(gs[pupil])
        /\ \A b \in Agents : taught.mem[b] = IF b = s THEN Learning(gs[pupil].mem[b]) ELSE gs[pupil].mem[b]
    BY <2>3, <2>5, <2>6, LearnedKnows
  <2> DEFINE m == Teaching(gs[s].mem[pupil])
  <2>8. m \in Memories
    BY <2>3, <2>5, LessonMirrors
  <2>9. /\ taughtby \in Knowing(seen) /\ Past(taughtby) = Past(gs[s])
        /\ \A b \in Agents : taughtby.mem[b] = IF b = pupil THEN m ELSE gs[s].mem[b]
    <3> HIDE DEF m
    <3> QED BY <2>3, <2>5, <2>8, RegardingKnows DEF m
  <2> HIDE DEF taught, taughtby, m
  <2>10. hs \in [Agents -> Knowing(seen)]
    BY <2>3, <2>5, <2>7, <2>9
  <2>11. ASSUME NEW a \in Agents
         PROVE  hs[a] = IF a = s THEN taughtby ELSE IF a = pupil THEN taught ELSE gs[a]
    BY <2>3, <2>5
  <2> HIDE DEF hs
  <2>12. ASSUME NEW a \in Agents
         PROVE  Past(hs[a]) = past[a] /\ \A b \in Agents : hs[a].mem[b] = Then(a, b)
    <3>1. CASE a = s
      <4>1. hs[a] = taughtby /\ a # pupil
        BY <2>3, <2>11, <3>1
      <4> QED BY <2>5, <2>9, <3>1, <4>1 DEF m
    <3>2. CASE a = pupil
      <4>1. hs[a] = taught /\ a # s
        BY <2>3, <2>11, <3>2
      <4> QED BY <2>5, <2>7, <3>2, <4>1
    <3>3. CASE a # s /\ a # pupil
      BY <2>5, <2>11, <3>3
    <3> QED BY <3>1, <3>2, <3>3
  <2>13. ASSUME NEW a \in Agents, NEW b \in Agents PROVE Mirrors(hs[a].mem[b], hs[b].mem[a])
    <3>1. /\ hs[a].mem[b] = Then(a, b) /\ hs[b].mem[a] = Then(b, a)
          /\ gs[a].mem[b] \in Memories /\ gs[b].mem[a] \in Memories
          /\ Mirrors(gs[a].mem[b], gs[b].mem[a]) /\ Mirrors(gs[b].mem[a], gs[a].mem[b])
      BY <2>5, <2>12
    <3>2. CASE a = pupil /\ b = s
      <4>1. Then(a, b) = Learning(gs[a].mem[b]) /\ Then(b, a) = Teaching(gs[b].mem[a])
        BY <2>3, <3>2
      <4> QED BY <3>1, <4>1, LessonMirrors
    <3>3. CASE b = pupil /\ a = s
      <4>1. Then(b, a) = Learning(gs[b].mem[a]) /\ Then(a, b) = Teaching(gs[a].mem[b])
        BY <2>3, <3>3
      <4> QED BY <3>1, <4>1, LessonMirrors
    <3>4. CASE ~(a = pupil /\ b = s) /\ ~(b = pupil /\ a = s)
      BY <3>1, <3>4
    <3> QED BY <3>2, <3>3, <3>4
  <2>14. hs \in Sound(seen, past)
    BY <2>10, <2>12, <2>13 DEF Sound
  <2> QED BY <2>4, <2>14
<1> QED BY <1>1, <1>2

\* What the recursion over the teachers defines.
TaughtTo(f, gs, p, ms) ==
  f = [s \in 0..N |-> IF s = 0 THEN gs
                      ELSE IF s \in ms THEN TaughtBy(f[s - 1], p, ms, s) ELSE f[s - 1]]

LEMMA AllTaughtExpanded ==
  ASSUME NEW gs, NEW p, NEW ms
  PROVE  AllTaught(gs, p, ms) = (CHOOSE f : TaughtTo(f, gs, p, ms))[N]
  BY Zenon DEF AllTaught, TaughtTo

LEMMA AllTaughtSound ==
  ASSUME NEW seen, NEW past, NEW gs \in Sound(seen, past), NEW p, NEW ms \in SUBSET Agents
  PROVE  AllTaught(gs, p, ms) \in Sound(seen, past)
<1> DEFINE S == Sound(seen, past)
           Step(s, x) == IF s \in ms THEN TaughtBy(x, p, ms, s) ELSE x
           step == [e \in (1..N) \X S |-> Step(e[1], e[2])]
           f == CHOOSE g : TaughtTo(g, gs, p, ms)
<1>1. N \in Nat /\ Agents = 1..N
  BY AgentsAreNumbers
<1>2. \A s \in 1..N : \A x \in S : Step(s, x) \in S
  BY <1>1, TaughtBySound
<1> HIDE DEF Step
<1>3. \A s \in 1..N : \A x \in S : step[<<s, x>>] = Step(s, x)
  OBVIOUS
<1> HIDE DEF step, S
<1>4. \A s \in 1..N : \A x \in S : step[<<s, x>>] \in S
  BY <1>2, <1>3
<1>5. gs \in S
  BY DEF S
<1>6. PICK g \in [0..N -> S] : Walks(g, gs, step, N)
  BY <1>1, <1>4, <1>5, WalkExists
<1>7. TaughtTo(g, gs, p, ms)
  <2>1. \A s \in 0..N : s # 0 => g[s - 1] \in S /\ s \in 1..N
    BY <1>1, <1>6
  <2>2. \A s \in 0..N : s # 0 => step[<<s, g[s - 1]>>] = Step(s, g[s - 1])
    BY <1>3, <2>1
  <2>3. \A s \in 0..N : g[s] = IF s = 0 THEN gs ELSE Step(s, g[s - 1])
    BY <1>6, <2>2 DEF Walks
  <2> QED BY <1>6, <2>3 DEF TaughtTo, Step
<1>8. TaughtTo(f, gs, p, ms)
  BY <1>7
<1> HIDE DEF f
<1>9. f[0] = gs /\ \A s \in 1..N : f[s] = Step(s, f[s - 1])
  BY <1>1, <1>8 DEF TaughtTo, Step
<1>10. f[N] \in S
  BY <1>1, <1>2, <1>5, <1>9, WalkStays
<1> QED BY <1>10, AllTaughtExpanded DEF f, S

\* The latest facts are facts, and grounded.
LEMMA LatestKnows ==
  ASSUME NEW seen, NEW g \in Knowing(seen), NEW n \in Nat \ {0}
  PROVE  /\ LastOf(g.facts, n) \in Seq(Facts)
         /\ \A i \in 1..Len(LastOf(g.facts, n)) :
              LastOf(g.facts, n)[i] \in Facts /\ FactGrounded(LastOf(g.facts, n)[i], seen)
<1> DEFINE said == LastOf(g.facts, n)
<1>1. g.facts \in Seq(Facts) /\ \A i \in 1..Len(g.facts) : FactGrounded(g.facts[i], seen)
  BY KnowingFields
<1>2. said \in Seq(Facts) /\ \A i \in 1..Len(said) : \E j \in 1..Len(g.facts) : said[i] = g.facts[j]
  BY <1>1, LastOfFacts
<1> HIDE DEF said
<1>3. \A i \in 1..Len(said) : said[i] \in Facts
  BY <1>2, ElementOfSeq
<1>4. \A i \in 1..Len(said) : FactGrounded(said[i], seen)
  BY <1>1, <1>2
<1> QED BY <1>2, <1>3, <1>4 DEF said

\* Whatever an agent says leaves the agents sound.
LEMMA SpokenSound ==
  ASSUME NEW seen, NEW past, NEW gs \in Sound(seen, past), NEW p, NEW ms \in SUBSET Agents,
         NEW s \in Agents, NEW g \in Knowing(seen)
  PROVE  Spoken(gs, p, ms, s, g) \in SUBSET Sound(seen, past)
<1>1. CASE g.facts = <<>>
  BY <1>1 DEF Spoken
<1>2. CASE g.facts # <<>>
  <2>1. ASSUME NEW f \in Topics(g)
        PROVE  Told(gs, s, ms \ {s}, Heard(p, f), ConfidenceIn(g, f), 10) \in Sound(seen, past)
    <3> DEFINE said == LastOf(g.facts, Recent)
    <3>1. Recent \in Nat \ {0}
      BY SocietyAssumption
    <3>2. /\ said \in Seq(Facts)
          /\ \A i \in 1..Len(said) : said[i] \in Facts /\ FactGrounded(said[i], seen)
      BY <3>1, LatestKnows
    <3>3. f \in ToSet(said)
      BY DEF Topics
    <3> HIDE DEF said
    <3>4. \E i \in 1..Len(said) : f = said[i]
      BY <3>2, <3>3 DEF ToSet
    <3>5. f \in Facts /\ FactGrounded(f, seen)
      BY <3>2, <3>4
    <3> DEFINE c == ConfidenceIn(g, f)
    <3>6. c \in Thousandths
      BY <3>5, ConfidenceBounds
    <3> HIDE DEF c
    <3>7. ms \ {s} \in SUBSET Agents /\ s \notin ms \ {s} /\ 10 \in {5, 10}
      OBVIOUS
    <3>8. Told(gs, s, ms \ {s}, f, c, 10) \in Sound(seen, past)
      BY <3>5, <3>6, <3>7, ToldSound
    <3> QED BY <3>8 DEF c, Heard
  <2>2. Spoken(gs, p, ms, s, g)
          = {Told(gs, s, ms \ {s}, Heard(p, f), ConfidenceIn(g, f), 10) : f \in Topics(g)}
    BY <1>2 DEF Spoken
  <2> QED BY <2>1, <2>2
<1> QED BY <1>1, <1>2

SpokenTo(f, gs, p, ms) ==
  f = [s \in 0..N |->
        IF s = 0 THEN {gs}
        ELSE IF s \in ms
             THEN UNION {Spoken(hs, p, ms, s, IF ray THEN gs[s] ELSE hs[s]) : hs \in f[s - 1]}
             ELSE f[s - 1]]

LEMMA DialoguesExpanded ==
  ASSUME NEW gs, NEW p, NEW ms
  PROVE  Dialogues(gs, p, ms) = (CHOOSE f : SpokenTo(f, gs, p, ms))[N]
  BY Zenon DEF Dialogues, SpokenTo

LEMMA DialoguesSound ==
  ASSUME NEW seen, NEW past, NEW gs \in Sound(seen, past), NEW p, NEW ms \in SUBSET Agents
  PROVE  Dialogues(gs, p, ms) \in SUBSET Sound(seen, past)
<1> DEFINE S == SUBSET Sound(seen, past)
           Step(s, x) == IF s \in ms
                         THEN UNION {Spoken(hs, p, ms, s, IF ray THEN gs[s] ELSE hs[s]) : hs \in x}
                         ELSE x
           step == [e \in (1..N) \X S |-> Step(e[1], e[2])]
           f == CHOOSE g : SpokenTo(g, gs, p, ms)
<1>1. N \in Nat /\ Agents = 1..N
  BY AgentsAreNumbers
<1>2. ASSUME NEW s \in 1..N, NEW x \in S PROVE Step(s, x) \in S
  <2>1. ASSUME NEW hs \in x
        PROVE  Spoken(hs, p, ms, s, IF ray THEN gs[s] ELSE hs[s]) \in SUBSET Sound(seen, past)
    <3>1. hs \in Sound(seen, past) /\ s \in Agents
      BY <1>1
    <3>2. gs[s] \in Knowing(seen) /\ hs[s] \in Knowing(seen)
      BY <3>1, SoundFields
    <3> DEFINE g == IF ray THEN gs[s] ELSE hs[s]
    <3>3. g \in Knowing(seen)
      BY <3>2
    <3> HIDE DEF g
    <3>4. Spoken(hs, p, ms, s, g) \in SUBSET Sound(seen, past)
      BY <3>1, <3>3, SpokenSound
    <3> QED BY <3>4 DEF g
  <2>2. UNION {Spoken(hs, p, ms, s, IF ray THEN gs[s] ELSE hs[s]) : hs \in x} \in S
    BY <2>1
  <2> QED BY <2>2
<1> HIDE DEF Step
<1>3. \A s \in 1..N : \A x \in S : step[<<s, x>>] = Step(s, x)
  OBVIOUS
<1>5. {gs} \in S
  OBVIOUS
<1> HIDE DEF step, S
<1>4. \A s \in 1..N : \A x \in S : step[<<s, x>>] \in S
  BY <1>2, <1>3
<1>6. PICK g \in [0..N -> S] : Walks(g, {gs}, step, N)
  BY <1>1, <1>4, <1>5, WalkExists
<1>7. SpokenTo(g, gs, p, ms)
  <2>1. \A s \in 0..N : s # 0 => g[s - 1] \in S /\ s \in 1..N
    BY <1>1, <1>6
  <2>2. \A s \in 0..N : s # 0 => step[<<s, g[s - 1]>>] = Step(s, g[s - 1])
    BY <1>3, <2>1
  <2>3. g = [s \in 0..N |-> IF s = 0 THEN {gs} ELSE Step(s, g[s - 1])]
    BY <1>6, <2>2 DEF Walks
  <2> QED BY <2>3, Zenon DEF SpokenTo, Step
<1>8. SpokenTo(f, gs, p, ms)
  BY <1>7
<1> HIDE DEF f
<1>9. f[0] = {gs} /\ \A s \in 1..N : f[s] = Step(s, f[s - 1])
  <2>1. f = [s \in 0..N |-> IF s = 0 THEN {gs} ELSE Step(s, f[s - 1])]
    BY <1>8, Zenon DEF SpokenTo, Step
  <2>2. \A s \in 0..N : f[s] = IF s = 0 THEN {gs} ELSE Step(s, f[s - 1])
    BY <2>1, Zenon
  <2>3. 0 \in 0..N /\ \A s \in 1..N : s \in 0..N /\ s # 0
    BY <1>1
  <2>4. f[0] = {gs}
    BY <2>2, <2>3, Zenon
  <2>5. \A s \in 1..N : f[s] = Step(s, f[s - 1])
    BY <2>2, <2>3, Zenon
  <2> QED BY <2>4, <2>5
<1>10. f[N] \in S
  <2>1. f[0] \in S
    BY <1>5, <1>9
  <2>2. ASSUME NEW s \in 1..N, f[s - 1] \in S PROVE f[s] \in S
    BY <1>2, <1>9, <2>2
  <2> QED BY <1>1, <2>1, <2>2, WalkStays
<1> QED BY <1>10, DialoguesExpanded DEF f, S

PassedTo(f, gs, s, b, teller, texts, said) ==
  f = [i \in 0..Len(said) |->
        IF i = 0 THEN gs
        ELSE IF IsNews(said, teller, texts, i)
             THEN Told(f[i - 1], s, {b}, said[i], ConfidenceIn(teller, said[i]), 5)
             ELSE f[i - 1]]

LEMMA PassedExpanded ==
  ASSUME NEW gs, NEW s, NEW b, NEW teller, NEW texts
  PROVE  LET said == LastOf(teller.facts, Shared)
         IN  PassedOn(gs, s, b, teller, texts)
               = (CHOOSE f : PassedTo(f, gs, s, b, teller, texts, said))[Len(said)]
  BY Zenon DEF PassedOn, PassedTo

LEMMA PassedSound ==
  ASSUME NEW seen, NEW past, NEW gs \in Sound(seen, past), NEW s \in Agents, NEW b \in Agents, s # b,
         NEW teller \in Knowing(seen), NEW texts
  PROVE  PassedOn(gs, s, b, teller, texts) \in Sound(seen, past)
<1> DEFINE S == Sound(seen, past)
           said == LastOf(teller.facts, Shared)
           n == Len(said)
           Step(i, x) == IF IsNews(said, teller, texts, i)
                         THEN Told(x, s, {b}, said[i], ConfidenceIn(teller, said[i]), 5) ELSE x
           step == [e \in (1..n) \X S |-> Step(e[1], e[2])]
           f == CHOOSE g : PassedTo(g, gs, s, b, teller, texts, said)
<1>1. /\ said \in Seq(Facts) /\ n \in Nat
      /\ \A i \in 1..n : said[i] \in Facts /\ FactGrounded(said[i], seen)
  <2>1. Shared \in Nat \ {0}
    BY SocietyAssumption
  <2> QED BY <2>1, LatestKnows
<1>2. ASSUME NEW i \in 1..n, NEW x \in S PROVE Step(i, x) \in S
  <2> DEFINE c == ConfidenceIn(teller, said[i])
  <2>1. c \in Thousandths
    BY <1>1, ConfidenceBounds
  <2> HIDE DEF c
  <2>2. said[i] \in Facts /\ FactGrounded(said[i], seen) /\ {b} \in SUBSET Agents /\ s \notin {b}
        /\ 5 \in {5, 10}
    BY <1>1
  <2>3. Told(x, s, {b}, said[i], c, 5) \in S
    BY <2>1, <2>2, ToldSound
  <2> QED BY <2>3 DEF c
<1> HIDE DEF Step, said, n
<1>3. \A i \in 1..n : \A x \in S : step[<<i, x>>] = Step(i, x)
  OBVIOUS
<1> HIDE DEF step, S
<1>4. \A i \in 1..n : \A x \in S : step[<<i, x>>] \in S
  BY <1>2, <1>3
<1>5. gs \in S
  BY DEF S
<1>6. PICK g \in [0..n -> S] : Walks(g, gs, step, n)
  BY <1>1, <1>4, <1>5, WalkExists
<1>7. PassedTo(g, gs, s, b, teller, texts, said)
  <2>1. \A i \in 0..n : i # 0 => g[i - 1] \in S /\ i \in 1..n
    BY <1>1, <1>6
  <2>2. \A i \in 0..n : i # 0 => step[<<i, g[i - 1]>>] = Step(i, g[i - 1])
    BY <1>3, <2>1
  <2>3. g = [i \in 0..n |-> IF i = 0 THEN gs ELSE Step(i, g[i - 1])]
    BY <1>6, <2>2 DEF Walks
  <2> QED BY <2>3, Zenon DEF PassedTo, Step, n
<1>8. PassedTo(f, gs, s, b, teller, texts, said)
  BY <1>7
<1> HIDE DEF f
<1>9. f[0] = gs /\ \A i \in 1..n : f[i] = Step(i, f[i - 1])
  <2>1. f = [i \in 0..n |-> IF i = 0 THEN gs ELSE Step(i, f[i - 1])]
    BY <1>8, Zenon DEF PassedTo, Step, n
  <2> QED BY <1>1, <2>1
<1>10. f[n] \in S
  <2>1. f[0] \in S
    BY <1>5, <1>9
  <2>2. ASSUME NEW i \in 1..n, f[i - 1] \in S PROVE f[i] \in S
    BY <1>2, <1>9, <2>2
  <2> QED BY <1>1, <2>1, <2>2, WalkStays
<1>11. PassedOn(gs, s, b, teller, texts) = f[n]
  BY PassedExpanded DEF f, n, said
<1> QED BY <1>10, <1>11 DEF S

\* The agents and what each has got by a pair of the exchange.
Exchanges(seen, past) == [gs : Sound(seen, past), got : [Agents -> SUBSET Facts]]

LEMMA Exchange2Sound ==
  ASSUME NEW seen, NEW past, NEW from \in [Agents -> Knowing(seen)], NEW acc \in Exchanges(seen, past),
         NEW s \in Agents, NEW b \in Agents, s # b
  PROVE  Exchange2(from, acc, s, b) \in Exchanges(seen, past)
<1> DEFINE teller == IF ray THEN from[s] ELSE acc.gs[s]
           texts  == IF ray THEN ToSet(LastOf(from[b].facts, Dedupe)) \cup acc.got[b]
                     ELSE ToSet(LastOf(acc.gs[b].facts, Dedupe))
           said   == LastOf(teller.facts, Shared)
           new    == News(teller, texts)
<1>1. acc.gs \in Sound(seen, past) /\ acc.got \in [Agents -> SUBSET Facts]
  BY DEF Exchanges
<1>2. teller \in Knowing(seen)
  <2>1. acc.gs[s] \in Knowing(seen) /\ from[s] \in Knowing(seen)
    BY <1>1, SoundFields
  <2> QED BY <2>1
<1>3. Exchange2(from, acc, s, b)
        = [gs |-> PassedOn(acc.gs, s, b, teller, texts), got |-> [acc.got EXCEPT ![b] = @ \cup new]]
  BY Zenon DEF Exchange2
<1> HIDE DEF teller, texts
<1>4. new \in SUBSET Facts
  <2>1. Shared \in Nat \ {0}
    BY SocietyAssumption
  <2>2. \A i \in 1..Len(said) : said[i] \in Facts
    BY <1>2, <2>1, LatestKnows
  <2>3. new = {said[i] : i \in {j \in 1..Len(said) : IsNews(said, teller, texts, j)}}
    BY Zenon DEF News
  <2> HIDE DEF said, new
  <2> QED BY <2>2, <2>3
<1> HIDE DEF new
<1>5. [acc.got EXCEPT ![b] = @ \cup new] \in [Agents -> SUBSET Facts]
  BY <1>1, <1>4
<1>6. PassedOn(acc.gs, s, b, teller, texts) \in Sound(seen, past)
  BY <1>1, <1>2, PassedSound
<1> QED BY <1>3, <1>5, <1>6 DEF Exchanges

ExchangedTo(f, from, gs, ms) ==
  f = [k \in 0..(N * N) |->
        IF k = 0 THEN [gs |-> gs, got |-> [a \in Agents |-> {}]]
        ELSE IF {((k - 1) \div N) + 1, ((k - 1) % N) + 1} \subseteq ms
                /\ ((k - 1) \div N) + 1 # ((k - 1) % N) + 1
             THEN Exchange2(from, f[k - 1], ((k - 1) \div N) + 1, ((k - 1) % N) + 1)
             ELSE f[k - 1]]

LEMMA ExchangedExpanded ==
  ASSUME NEW from, NEW gs, NEW ms
  PROVE  Exchanged(from, gs, ms) = ((CHOOSE f : ExchangedTo(f, from, gs, ms))[N * N]).gs
  BY Zenon DEF Exchanged, ExchangedTo

LEMMA ExchangedSound ==
  ASSUME NEW seen, NEW past, NEW from \in [Agents -> Knowing(seen)], NEW gs \in Sound(seen, past),
         NEW ms \in SUBSET Agents
  PROVE  Exchanged(from, gs, ms) \in Sound(seen, past)
<1> DEFINE S == Exchanges(seen, past)
           Sender(k)  == ((k - 1) \div N) + 1
           Learner(k) == ((k - 1) % N) + 1
           n == N * N
           start == [gs |-> gs, got |-> [a \in Agents |-> {}]]
           Step(k, x) == IF {Sender(k), Learner(k)} \subseteq ms /\ Sender(k) # Learner(k)
                         THEN Exchange2(from, x, Sender(k), Learner(k)) ELSE x
           step == [e \in (1..n) \X S |-> Step(e[1], e[2])]
           f == CHOOSE g : ExchangedTo(g, from, gs, ms)
<1>1. n \in Nat
  BY AgentsAreNumbers
<1> HIDE DEF Sender, Learner
<1>2. ASSUME NEW k \in 1..n, NEW x \in S PROVE Step(k, x) \in S
  <2>1. CASE {Sender(k), Learner(k)} \subseteq ms /\ Sender(k) # Learner(k)
    <3>1. Sender(k) \in Agents /\ Learner(k) \in Agents
      BY <2>1
    <3>2. Exchange2(from, x, Sender(k), Learner(k)) \in S
      BY <2>1, <3>1, Exchange2Sound
    <3> QED BY <2>1, <3>2
  <2>2. CASE ~({Sender(k), Learner(k)} \subseteq ms /\ Sender(k) # Learner(k))
    BY <2>2
  <2> QED BY <2>1, <2>2
<1>5. start \in S
  BY DEF Exchanges
<1> HIDE DEF Step, n
<1>3. \A k \in 1..n : \A x \in S : step[<<k, x>>] = Step(k, x)
  OBVIOUS
<1> HIDE DEF step, S, start
<1>4. \A k \in 1..n : \A x \in S : step[<<k, x>>] \in S
  BY <1>2, <1>3
<1>6. PICK g \in [0..n -> S] : Walks(g, start, step, n)
  BY <1>1, <1>4, <1>5, WalkExists
<1>7. ExchangedTo(g, from, gs, ms)
  <2>1. \A k \in 0..n : k # 0 => g[k - 1] \in S /\ k \in 1..n
    BY <1>1, <1>6
  <2>2. \A k \in 0..n : k # 0 => step[<<k, g[k - 1]>>] = Step(k, g[k - 1])
    BY <1>3, <2>1
  <2>3. g = [k \in 0..n |-> IF k = 0 THEN start ELSE Step(k, g[k - 1])]
    BY <1>6, <2>2 DEF Walks
  <2> QED BY <2>3, Zenon DEF ExchangedTo, Step, n, start, Sender, Learner
<1>8. ExchangedTo(f, from, gs, ms)
  BY <1>7
<1> HIDE DEF f
<1>9. f[0] = start /\ \A k \in 1..n : f[k] = Step(k, f[k - 1])
  <2>1. f = [k \in 0..n |-> IF k = 0 THEN start ELSE Step(k, f[k - 1])]
    BY <1>8, Zenon DEF ExchangedTo, Step, n, start, Sender, Learner
  <2> QED BY <1>1, <2>1
<1>10. f[n] \in S
  <2>1. f[0] \in S
    BY <1>5, <1>9
  <2>2. ASSUME NEW k \in 1..n, f[k - 1] \in S PROVE f[k] \in S
    BY <1>2, <1>9, <2>2
  <2> QED BY <1>1, <2>1, <2>2, WalkStays
<1>11. Exchanged(from, gs, ms) = f[n].gs
  BY ExchangedExpanded DEF f, n
<1> QED BY <1>10, <1>11 DEF S, Exchanges
-----------------------------------------------------------------------------
\* Meetings, tracking and the periodic analyses.

\* Agents with other memories that are the same of each other.
LEMMA WithMemSound ==
  ASSUME NEW seen, NEW past, NEW gs \in Sound(seen, past), NEW mem,
         \A a, b \in Agents : mem[a][b] \in Memories /\ Mirrors(mem[a][b], mem[b][a]),
         \A a \in Agents : mem[a] \in [Agents -> Memories]
  PROVE  [a \in Agents |-> WithMem(gs[a], mem[a])] \in Sound(seen, past)
<1> DEFINE hs == [a \in Agents |-> WithMem(gs[a], mem[a])]
<1>1. ASSUME NEW a \in Agents
      PROVE  hs[a] \in Knowing(seen) /\ hs[a].mem = mem[a] /\ Past(hs[a]) = past[a]
  <2>1. gs[a] \in Knowing(seen) /\ Past(gs[a]) = past[a]
    BY SoundFields
  <2>2. mem[a] \in [Agents -> Memories]
    OBVIOUS
  <2>3. /\ WithMem(gs[a], mem[a]) \in Knowing(seen) /\ WithMem(gs[a], mem[a]).mem = mem[a]
        /\ Past(WithMem(gs[a], mem[a])) = Past(gs[a])
    BY <2>1, <2>2, WithMemKnows
  <2> QED BY <2>1, <2>3
<1>2. hs = [a \in Agents |-> hs[a]]
  OBVIOUS
<1> HIDE DEF hs
<1>3. hs \in [Agents -> Knowing(seen)]
  BY <1>1, <1>2
<1>4. hs \in Sound(seen, past)
  BY <1>1, <1>3 DEF Sound
<1> QED BY <1>4 DEF hs

LEMMA TrackedSound ==
  ASSUME NEW seen, NEW past, NEW gs \in Sound(seen, past), NEW p \in Places, NEW ms
  PROVE  Tracked(gs, p, ms) \in Sound(seen, past)
<1> DEFINE New(a, b) == IF {a, b} \subseteq ms /\ a # b THEN Tracking(gs[a].mem[b], p) ELSE gs[a].mem[b]
           mem == [a \in Agents |-> [b \in Agents |-> New(a, b)]]
<1>1. ASSUME NEW a \in Agents, NEW b \in Agents
      PROVE  New(a, b) \in Memories /\ Mirrors(New(a, b), New(b, a))
  <2>1. /\ gs[a].mem[b] \in Memories /\ gs[b].mem[a] \in Memories
        /\ Mirrors(gs[a].mem[b], gs[b].mem[a])
    BY SoundFields
  <2>2. CASE {a, b} \subseteq ms /\ a # b
    <3>1. New(a, b) = Tracking(gs[a].mem[b], p) /\ New(b, a) = Tracking(gs[b].mem[a], p)
      BY <2>2
    <3> HIDE DEF New
    <3> QED BY <2>1, <3>1, TrackingMirrors
  <2>3. CASE ~({a, b} \subseteq ms /\ a # b)
    <3>1. New(a, b) = gs[a].mem[b] /\ New(b, a) = gs[b].mem[a]
      BY <2>3
    <3> QED BY <2>1, <3>1
  <2> QED BY <2>2, <2>3
<1>2. Tracked(gs, p, ms) = [a \in Agents |-> WithMem(gs[a], mem[a])]
  BY DEF Tracked, WithMem
<1> HIDE DEF New
<1>3. \A a, b \in Agents : mem[a][b] = New(a, b)
  OBVIOUS
<1>4. \A a \in Agents : mem[a] \in [Agents -> Memories]
  BY <1>1
<1> HIDE DEF mem
<1>5. \A a, b \in Agents : mem[a][b] \in Memories /\ Mirrors(mem[a][b], mem[b][a])
  BY <1>1, <1>3
<1>6. [a \in Agents |-> WithMem(gs[a], mem[a])] \in Sound(seen, past)
  BY <1>4, <1>5, WithMemSound
<1> QED BY <1>2, <1>6

LEMMA PairOfTwo ==
  ASSUME NEW a \in Agents, NEW b \in Agents, a # b
  PROVE  {a, b} \in Pairs /\ {a, b} = {b, a}
  BY DEF Pairs

\* The encounters logged once the group ms has met.
LoggedAfter(past, ms, d) ==
  [a \in Agents |->
     [at |-> past[a].at, been |-> past[a].been,
      log |-> [b \in Agents |-> IF {a, b} \subseteq ms /\ a # b /\ d[{a, b}] = 1
                                THEN past[a].log[b] + 1 ELSE past[a].log[b]]]]

WithLog(g, log) == [g EXCEPT !.log = log]

LEMMA WithLogKnows ==
  ASSUME NEW seen, NEW g \in Knowing(seen), NEW log \in [Agents -> Nat]
  PROVE  /\ WithLog(g, log) \in Knowing(seen) /\ WithLog(g, log).mem = g.mem
         /\ Past(WithLog(g, log)) = [at |-> g.at, been |-> g.been, log |-> log]
<1>1. g \in AgentStates
  BY KnowingFields
<1> DEFINE h == WithLog(g, log)
<1>2. /\ h \in AgentStates /\ h.mem = g.mem /\ h.log = log /\ h.belief = g.belief
      /\ h.facts = g.facts /\ h.at = g.at /\ h.been = g.been /\ h.asked = g.asked
  BY <1>1 DEF AgentStates, WithLog
<1> HIDE DEF h
<1>3. h \in Knowing(seen)
  BY <1>2, SameKnows
<1> QED BY <1>2, <1>3 DEF Past, h

LEMMA MetSound ==
  ASSUME NEW seen, NEW past, NEW gs \in Sound(seen, past), NEW ms, NEW t \in 0..MaxTick,
         NEW d \in [Pairs -> Nat]
  PROVE  Met(gs, ms, t, d) \in Sound(seen, LoggedAfter(past, ms, d))
<1> DEFINE New(a, b) == IF {a, b} \subseteq ms /\ a # b THEN Remembered(gs[a].mem[b], d[{a, b}], t)
                        ELSE gs[a].mem[b]
           mem == [a \in Agents |-> [b \in Agents |-> New(a, b)]]
           log(a) == [b \in Agents |-> IF {a, b} \subseteq ms /\ a # b /\ d[{a, b}] = 1
                                       THEN gs[a].log[b] + 1 ELSE gs[a].log[b]]
           hs == [a \in Agents |-> WithMem(gs[a], mem[a])]
           fs == [a \in Agents |-> WithLog(hs[a], log(a))]
<1>1. ASSUME NEW a \in Agents, NEW b \in Agents
      PROVE  New(a, b) \in Memories /\ Mirrors(New(a, b), New(b, a))
  <2>1. /\ gs[a].mem[b] \in Memories /\ gs[b].mem[a] \in Memories
        /\ Mirrors(gs[a].mem[b], gs[b].mem[a])
    BY SoundFields
  <2>2. CASE {a, b} \subseteq ms /\ a # b
    <3>1. {a, b} \in Pairs /\ {a, b} = {b, a}
      BY <2>2, PairOfTwo
    <3>2. d[{a, b}] \in Nat
      BY <3>1
    <3> DEFINE k == d[{a, b}]
    <3>3. New(a, b) = Remembered(gs[a].mem[b], k, t) /\ New(b, a) = Remembered(gs[b].mem[a], k, t)
      BY <2>2, <3>1
    <3> HIDE DEF New, k
    <3>4. k \in Nat
      BY <3>2 DEF k
    <3> QED BY <2>1, <3>3, <3>4, RememberedMirrors
  <2>3. CASE ~({a, b} \subseteq ms /\ a # b)
    <3>1. New(a, b) = gs[a].mem[b] /\ New(b, a) = gs[b].mem[a]
      BY <2>3
    <3> QED BY <2>1, <3>1
  <2> QED BY <2>2, <2>3
<1>2. Met(gs, ms, t, d) = fs
  BY DEF Met, WithMem, WithLog
<1> HIDE DEF New
<1>3. \A a, b \in Agents : mem[a][b] = New(a, b)
  OBVIOUS
<1>4. \A a \in Agents : mem[a] \in [Agents -> Memories]
  BY <1>1
<1> HIDE DEF mem
<1>5. \A a, b \in Agents : mem[a][b] \in Memories /\ Mirrors(mem[a][b], mem[b][a])
  BY <1>1, <1>3
<1>6. hs \in Sound(seen, past)
  BY <1>4, <1>5, WithMemSound
<1>7. ASSUME NEW a \in Agents
      PROVE  /\ log(a) \in [Agents -> Nat]
             /\ LoggedAfter(past, ms, d)[a] = [at |-> hs[a].at, been |-> hs[a].been, log |-> log(a)]
  <2>1. Past(gs[a]) = past[a] /\ gs[a].log \in [Agents -> Nat]
    BY SoundFields, KnowingFields
  <2>2. Past(hs[a]) = past[a]
    BY <1>6, SoundFields
  <2>3. past[a].at = hs[a].at /\ past[a].been = hs[a].been /\ past[a].log = gs[a].log
    <3> HIDE DEF hs
    <3>1. Past(hs[a]).at = hs[a].at /\ Past(hs[a]).been = hs[a].been /\ Past(gs[a]).log = gs[a].log
      BY DEF Past
    <3> QED BY <2>1, <2>2, <3>1
  <2>4. log(a) \in [Agents -> Nat]
    BY <2>1
  <2> HIDE DEF hs
  <2> QED BY <2>3, <2>4 DEF LoggedAfter
<1> HIDE DEF hs, log
<1>8. ASSUME NEW a \in Agents
      PROVE  /\ fs[a] \in Knowing(seen) /\ fs[a].mem = hs[a].mem
             /\ Past(fs[a]) = LoggedAfter(past, ms, d)[a]
  <2>1. hs[a] \in Knowing(seen)
    BY <1>6, SoundFields
  <2>2. fs[a] = WithLog(hs[a], log(a))
    OBVIOUS
  <2> HIDE DEF fs
  <2>3. log(a) \in [Agents -> Nat]
    BY <1>7
  <2>4. /\ WithLog(hs[a], log(a)) \in Knowing(seen) /\ WithLog(hs[a], log(a)).mem = hs[a].mem
        /\ Past(WithLog(hs[a], log(a))) = [at |-> hs[a].at, been |-> hs[a].been, log |-> log(a)]
    BY <2>1, <2>3, WithLogKnows
  <2>5. LoggedAfter(past, ms, d)[a] = [at |-> hs[a].at, been |-> hs[a].been, log |-> log(a)]
    BY <1>7
  <2> QED BY <2>2, <2>4, <2>5
<1>9. fs = [a \in Agents |-> fs[a]]
  OBVIOUS
<1> HIDE DEF fs
<1>10. fs \in [Agents -> Knowing(seen)]
  BY <1>8, <1>9
<1>11. fs \in Sound(seen, LoggedAfter(past, ms, d))
  BY <1>6, <1>8, <1>10 DEF Sound
<1> QED BY <1>2, <1>11

LEMMA ExpertiseType ==
  ASSUME NEW seen, NEW g \in Knowing(seen)
  PROVE  Expertise(g) \in [Kinds -> 0..10]
<1>1. g.facts \in Seq(Facts)
  BY KnowingFields
<1>2. ASSUME NEW pred PROVE Min({10, Cardinality({i \in DOMAIN g.facts : g.facts[i].pred = pred})}) \in 0..10
  <2> DEFINE S == {i \in DOMAIN g.facts : g.facts[i].pred = pred}
             n == Cardinality(S)
  <2>1. S \subseteq 1..Len(g.facts) /\ Len(g.facts) \in Nat
    BY <1>1
  <2> HIDE DEF S
  <2>2. IsFiniteSet(1..Len(g.facts))
    BY <2>1, FS_Interval
  <2>3. n \in Nat
    BY <2>1, <2>2, FS_Subset, FS_CardinalityType
  <2> HIDE DEF n
  <2> DEFINE x == Min({10, n})
  <2>4. x \in {10, n} /\ x <= 10
    BY <2>3, MinOfTwo
  <2>5. x \in 0..10
    BY <2>3, <2>4
  <2> QED BY <2>5 DEF S, n
<1> QED BY <1>2, Zenon DEF Expertise, Kinds

\* What is known of the other's expertise or rank does not disturb the rest.
LEMMA SpecialistsSound ==
  ASSUME NEW seen, NEW past, NEW gs \in Sound(seen, past)
  PROVE  Specialists(gs) \in Sound(seen, past)
<1> DEFINE New(a, b) == Known(gs[a].mem[b], Expertise(gs[b]))
           mem == [a \in Agents |-> [b \in Agents |-> New(a, b)]]
<1>1. ASSUME NEW m \in Memories, NEW e \in [Kinds -> 0..10]
      PROVE  LET n == Known(m, e)
             IN  /\ n \in Memories /\ n.count = m.count /\ n.ticks = m.ticks
                 /\ n.last = m.last /\ n.net = m.net /\ n.got = m.got
                 /\ n.gave = m.gave /\ n.learned = m.learned
                 /\ n.taught = m.taught /\ n.trust = m.trust
  BY DEF Known, Memories
<1>2. ASSUME NEW a \in Agents, NEW b \in Agents
      PROVE  New(a, b) \in Memories /\ Mirrors(New(a, b), New(b, a))
  <2>1. /\ gs[a].mem[b] \in Memories /\ gs[b].mem[a] \in Memories
        /\ Mirrors(gs[a].mem[b], gs[b].mem[a])
    BY SoundFields
  <2> DEFINE m == gs[a].mem[b]
             o == gs[b].mem[a]
             e == Expertise(gs[b])
             h == Expertise(gs[a])
  <2>2. e \in [Kinds -> 0..10] /\ h \in [Kinds -> 0..10]
    BY SoundFields, ExpertiseType
  <2>3. m \in Memories /\ o \in Memories /\ Mirrors(m, o)
    BY <2>1
  <2> HIDE DEF m, o, e, h
  <2>4. Known(m, e) \in Memories /\ Mirrors(Known(m, e), Known(o, h))
    BY <1>1, <2>2, <2>3 DEF Mirrors
  <2> QED BY <2>4 DEF m, o, e, h
<1>3. Specialists(gs) = [a \in Agents |-> WithMem(gs[a], mem[a])]
  BY DEF Specialists, WithMem
<1> HIDE DEF New
<1>4. \A a, b \in Agents : mem[a][b] = New(a, b)
  OBVIOUS
<1>5. \A a \in Agents : mem[a] \in [Agents -> Memories]
  BY <1>2
<1> HIDE DEF mem
<1>6. \A a, b \in Agents : mem[a][b] \in Memories /\ Mirrors(mem[a][b], mem[b][a])
  BY <1>2, <1>4
<1>7. [a \in Agents |-> WithMem(gs[a], mem[a])] \in Sound(seen, past)
  BY <1>5, <1>6, WithMemSound
<1> QED BY <1>3, <1>7

LEMMA HubsSound ==
  ASSUME NEW seen, NEW past, NEW gs \in Sound(seen, past)
  PROVE  Hubs(gs) \in Sound(seen, past)
<1> DEFINE most(a) == Max({gs[a].mem[b].net : b \in Agents})
           New(a, b) == Ranked(gs[a].mem[b], most(a))
           mem == [a \in Agents |-> [b \in Agents |-> New(a, b)]]
<1>1. ASSUME NEW m \in Memories, NEW k
      PROVE  LET n == Ranked(m, k)
             IN  /\ n \in Memories /\ n.count = m.count /\ n.ticks = m.ticks
                 /\ n.last = m.last /\ n.net = m.net /\ n.got = m.got
                 /\ n.gave = m.gave /\ n.learned = m.learned
                 /\ n.taught = m.taught /\ n.trust = m.trust
  <2> DEFINE hub == 10 * m.net > 7 * k /\ Cardinality(m.topics) >= 3
  <2>1. hub \in BOOLEAN
    BY Zenon
  <2>2. Ranked(m, k) = IF m.net > 0 THEN [m EXCEPT !.hub = hub] ELSE m
    BY DEF Ranked
  <2> HIDE DEF hub
  <2> QED BY <2>1, <2>2 DEF Memories
<1>2. ASSUME NEW a \in Agents, NEW b \in Agents
      PROVE  New(a, b) \in Memories /\ Mirrors(New(a, b), New(b, a))
  <2>1. /\ gs[a].mem[b] \in Memories /\ gs[b].mem[a] \in Memories
        /\ Mirrors(gs[a].mem[b], gs[b].mem[a])
    BY SoundFields
  <2> DEFINE m == gs[a].mem[b]
             o == gs[b].mem[a]
             e == most(a)
             h == most(b)
  <2>3. m \in Memories /\ o \in Memories /\ Mirrors(m, o)
    BY <2>1
  <2> HIDE DEF m, o, e, h
  <2>4. Ranked(m, e) \in Memories /\ Mirrors(Ranked(m, e), Ranked(o, h))
    BY <1>1, <2>3 DEF Mirrors
  <2> QED BY <2>4 DEF m, o, e, h
<1>3. Hubs(gs) = [a \in Agents |-> WithMem(gs[a], mem[a])]
  BY Zenon DEF Hubs, WithMem
<1> HIDE DEF New
<1>4. \A a, b \in Agents : mem[a][b] = New(a, b)
  OBVIOUS
<1>5. \A a \in Agents : mem[a] \in [Agents -> Memories]
  BY <1>2
<1> HIDE DEF mem
<1>6. \A a, b \in Agents : mem[a][b] \in Memories /\ Mirrors(mem[a][b], mem[b][a])
  BY <1>2, <1>4
<1>7. [a \in Agents |-> WithMem(gs[a], mem[a])] \in Sound(seen, past)
  BY <1>5, <1>6, WithMemSound
<1> QED BY <1>3, <1>7

LEMMA PeriodicSound ==
  ASSUME NEW seen, NEW past, NEW gs \in Sound(seen, past), NEW t
  PROVE  Periodic(gs, t) \in Sound(seen, past)
<1> DEFINE hs == IF t % SpecialistEvery = 0 THEN Specialists(gs) ELSE gs
<1>1. hs \in Sound(seen, past)
  BY SpecialistsSound
<1> HIDE DEF hs
<1>2. Hubs(hs) \in Sound(seen, past)
  BY <1>1, HubsSound
<1>3. Periodic(gs, t) = IF t % CentralityEvery = 0 THEN Hubs(hs) ELSE hs
  BY DEF Periodic, hs
<1> QED BY <1>1, <1>2, <1>3

\* The turns of the agents.
LEMMA KnowsMore ==
  ASSUME NEW seen, NEW more, seen \subseteq more
  PROVE  Knowing(seen) \subseteq Knowing(more)
  BY DEF Knowing, BeliefGrounded, FactGrounded

LEMMA IngestedKnows ==
  ASSUME NEW seen, NEW g \in Knowing(seen), NEW resolved
  PROVE  /\ Ingested(g, resolved) \in Knowing(seen)
         /\ Ingested(g, resolved).mem = g.mem /\ Past(Ingested(g, resolved)) = Past(g)
         /\ Ingested(g, resolved).belief = g.belief
<1>1. CASE g.at \in resolved \ g.earth
  <2> DEFINE f == Fact(g.at, "earth", 0)
             h == Appended(g, f)
             e == h.earth \cup {g.at}
  <2>1. g.at \in Places
    BY KnowingFields
  <2>2. f \in Facts /\ FactGrounded(f, seen)
    BY <2>1 DEF Fact, Facts, FactGrounded, Kinds
  <2> HIDE DEF f
  <2>3. h \in Knowing(seen) /\ h.mem = g.mem /\ Past(h) = Past(g) /\ h.belief = g.belief
    BY <2>2, AppendedKnows
  <2>4. Ingested(g, resolved) = [h EXCEPT !.earth = e]
    BY <1>1 DEF Ingested, f
  <2> HIDE DEF h
  <2>5. h \in AgentStates /\ e \in SUBSET Places
    BY <2>1, <2>3, KnowingFields
  <2> HIDE DEF e
  <2> DEFINE k == [h EXCEPT !.earth = e]
  <2>6. /\ k \in AgentStates /\ k.mem = h.mem /\ Past(k) = Past(h) /\ k.belief = h.belief
        /\ k.facts = h.facts /\ k.been = h.been /\ k.asked = h.asked
    BY <2>5 DEF AgentStates, Past
  <2> HIDE DEF k
  <2>7. k \in Knowing(seen)
    BY <2>3, <2>6, SameKnows
  <2> QED BY <2>3, <2>4, <2>6, <2>7 DEF k
<1>2. CASE ~(g.at \in resolved \ g.earth)
  BY <1>2 DEF Ingested
<1> QED BY <1>1, <1>2

\* Believing p while it is added to the places one has been at.
Arrived(g, p, b) == Believing([g EXCEPT !.at = p, !.been = @ \cup {p}], p, b)

LEMMA ArrivedKnows ==
  ASSUME NEW seen, NEW g \in Knowing(seen), NEW p \in Places, NEW b \in Beliefs,
         BeliefGrounded(b, p, seen), b.conf > 0
  PROVE  /\ Arrived(g, p, b) \in Knowing(seen) /\ Arrived(g, p, b).mem = g.mem
         /\ Arrived(g, p, b).log = g.log /\ Arrived(g, p, b).at = p
         /\ Arrived(g, p, b).been = g.been \cup {p}
<1> DEFINE been == g.been \cup {p}
           bs == [g.belief EXCEPT ![p] = b]
           k1 == [g EXCEPT !.at = p]
           k2 == [k1 EXCEPT !.been = been]
           h == [k2 EXCEPT !.belief = bs]
<1>1. /\ g \in AgentStates /\ g.belief \in [Places -> Beliefs] /\ Len(g.facts) <= Memory
      /\ g.been \in SUBSET Places /\ AskedNothing(g)
      /\ \A i \in 1..Len(g.facts) : FactGrounded(g.facts[i], seen)
      /\ \A q \in Places : BeliefGrounded(g.belief[q], q, seen)
  BY KnowingFields
<1>2. bs \in [Places -> Beliefs] /\ \A q \in Places : BeliefGrounded(bs[q], q, seen)
  BY <1>1
<1>3. been \in SUBSET Places /\ \A q \in been : bs[q].conf > 0
  BY <1>1 DEF AskedNothing
<1>4. Arrived(g, p, b) = h
  <2>1. [g EXCEPT !.at = p, !.been = @ \cup {p}] = k2
    BY <1>1 DEF AgentStates
  <2>2. k2.belief = g.belief
    BY <1>1 DEF AgentStates
  <2> HIDE DEF k2
  <2> QED BY <2>1, <2>2, Zenon DEF Arrived, Believing
<1> HIDE DEF been, bs
<1>5. /\ k1 \in AgentStates /\ k1.mem = g.mem /\ k1.log = g.log /\ k1.asked = g.asked
      /\ k1.facts = g.facts /\ k1.at = p
  BY <1>1 DEF AgentStates
<1> HIDE DEF k1
<1>6. /\ k2 \in AgentStates /\ k2.mem = g.mem /\ k2.log = g.log /\ k2.asked = g.asked
      /\ k2.facts = g.facts /\ k2.at = p /\ k2.been = been
  BY <1>3, <1>5 DEF AgentStates
<1> HIDE DEF k2
<1>7. /\ h \in AgentStates /\ h.mem = g.mem /\ h.log = g.log /\ h.asked = g.asked
      /\ h.facts = g.facts /\ h.at = p /\ h.been = been /\ h.belief = bs
  BY <1>2, <1>6 DEF AgentStates
<1> HIDE DEF h
<1>8. AskedNothing(h)
  BY <1>1, <1>3, <1>7 DEF AskedNothing
<1>9. h \in Knowing(seen)
  BY <1>1, <1>2, <1>7, <1>8 DEF Knowing
<1> QED BY <1>4, <1>7, <1>9 DEF been

\* One who has observed p is there, and has been there.
LEMMA ObservedKnows ==
  ASSUME NEW seen, NEW g \in Knowing(seen), NEW p \in Places, NEW v \in Nat, <<p, v>> \in seen
  PROVE  /\ Observed(g, p, v) \in Knowing(seen)
         /\ Observed(g, p, v).mem = g.mem /\ Observed(g, p, v).log = g.log
         /\ Observed(g, p, v).at = p /\ Observed(g, p, v).been = g.been \cup {p}
<1> DEFINE f == Fact(p, "seen", v)
           h == Appended(g, f)
           b == Revised(g.belief[p], v)
<1>1. g.belief[p] \in Beliefs /\ BeliefGrounded(g.belief[p], p, seen)
  BY KnowingFields
<1>2. b \in Beliefs /\ BeliefGrounded(b, p, seen) /\ b.conf > 0
  BY <1>1, RevisedGrounded
<1>3. f \in Facts /\ FactGrounded(f, seen)
  BY DEF Fact, Facts, FactGrounded, Kinds
<1> HIDE DEF f, b
<1>4. h \in Knowing(seen) /\ h.mem = g.mem /\ Past(h) = Past(g)
  BY <1>3, AppendedKnows
<1>5. Observed(g, p, v) = Arrived(h, p, b)
  BY Zenon DEF Observed, Arrived, b, f
<1> HIDE DEF h
<1>6. h.been = g.been /\ h.log = g.log
  BY <1>4, PastFields
<1>7. /\ Arrived(h, p, b) \in Knowing(seen) /\ Arrived(h, p, b).mem = h.mem
      /\ Arrived(h, p, b).log = h.log /\ Arrived(h, p, b).at = p
      /\ Arrived(h, p, b).been = h.been \cup {p}
  BY <1>2, <1>4, ArrivedKnows
<1> QED BY <1>4, <1>5, <1>6, <1>7

\* One whose turn it was is at a place it has been at, and where it had been before.
Wandered(h, g) == h.mem = g.mem /\ h.log = g.log /\ h.at \in h.been /\ g.been \subseteq h.been

LEMMA TurnKnows ==
  ASSUME NEW seen, NEW g \in Knowing(seen), NEW p \in Places, NEW v \in Nat, <<p, v>> \in seen,
         NEW earth, NEW known
  PROVE  /\ Turn(g, p, v, earth) \in Knowing(seen) /\ Wandered(Turn(g, p, v, earth), g)
         /\ ActorTurn(g, p, v, earth, known) \in Knowing(seen)
         /\ Wandered(ActorTurn(g, p, v, earth, known), g)
<1>1. ASSUME NEW h \in Knowing(seen), NEW k \in Knowing(seen), NEW resolved,
             Past(h) = Past(g), h.mem = g.mem,
             k.mem = h.mem, k.log = h.log, k.at = p, k.been = h.been \cup {p}
      PROVE  Ingested(k, resolved) \in Knowing(seen) /\ Wandered(Ingested(k, resolved), g)
  <2> DEFINE j == Ingested(k, resolved)
  <2>1. j \in Knowing(seen) /\ j.mem = k.mem /\ Past(j) = Past(k)
    BY IngestedKnows
  <2> HIDE DEF j
  <2>2. h.been = g.been /\ h.log = g.log
    BY <1>1, PastFields
  <2>3. j.been = k.been /\ j.log = k.log /\ j.at = k.at
    BY <2>1, PastFields
  <2> QED BY <1>1, <2>1, <2>2, <2>3 DEF Wandered, j
<1> DEFINE h1 == Ingested(g, earth)
           h2 == Observed(h1, p, v)
           k  == Observed(g, p, v)
<1>2. h1 \in Knowing(seen) /\ h1.mem = g.mem /\ Past(h1) = Past(g)
  BY IngestedKnows
<1> HIDE DEF h1
<1>3. h2 \in Knowing(seen) /\ h2.mem = h1.mem /\ h2.log = h1.log /\ h2.at = p /\ h2.been = h1.been \cup {p}
  BY <1>2, ObservedKnows
<1>4. k \in Knowing(seen) /\ k.mem = g.mem /\ k.log = g.log /\ k.at = p /\ k.been = g.been \cup {p}
  BY ObservedKnows
<1> HIDE DEF h2, k
<1>5. Ingested(h2, earth) \in Knowing(seen) /\ Wandered(Ingested(h2, earth), g)
  BY <1>1, <1>2, <1>3
<1>6. Ingested(k, earth \cap known) \in Knowing(seen) /\ Wandered(Ingested(k, earth \cap known), g)
  BY <1>1, <1>4
<1> QED BY <1>5, <1>6 DEF Turn, ActorTurn, h1, h2, k
-----------------------------------------------------------------------------
\* The invariant.

Pasts(gs) == [a \in Agents |-> Past(gs[a])]
LogsAgree(gs) == \A a, b \in Agents : gs[a].log[b] = gs[b].log[a]

\* The groups that have yet to meet, and the pairs in them that are together for
\* the first tick: an encounter of theirs is to be logged.
Unmet == IF thread.at = "meet" THEN thread.groups
         ELSE IF thread.at = "none" THEN {} ELSE thread.groups \ {First}
Owed(pair) == IF colo[pair] = 1 /\ \E grp \in Unmet : pair \subseteq grp.ms THEN 1 ELSE 0

GroupsApart ==
  /\ \A grp \in thread.groups : grp.ms # {}
  /\ \A grp, other \in thread.groups : grp # other => grp.ms \cap other.ms = {}
  /\ thread.at = "none" => thread.groups = {}
  /\ thread.at \notin {"none", "meet"} => thread.groups # {}
  /\ ray => thread.at = "none"

StaysLogged ==
  ~ray => /\ \A pair \in Pairs : colo[pair] > 0 <=> pair \in witness.near
          /\ \A a, b \in Agents : a # b =>
               agent[a].log[b] + Owed({a, b}) = witness.stays[{a, b}]

\* Who is about to be put into groups has been at the place where it is, and the
\* agents of a group at its place, though they may have gone on by now.
BeenThere ==
  /\ \A grp \in thread.groups : \A a \in grp.ms : grp.at \in agent[a].been
  /\ loop = "social" => \A a \in Agents : agent[a].at \in agent[a].been

SocietyInv ==
  /\ SocietyTypeOK /\ GroupsApart /\ StaysLogged /\ BeenThere
  /\ LogsAgree(agent) /\ LogsAgree(row.agent)
  /\ agent \in Sound(witness.seen, Pasts(agent))
  /\ row.agent \in Sound(witness.seen, Pasts(row.agent))

LEMMA SoundTyped ==
  ASSUME NEW seen, NEW past, NEW gs \in Sound(seen, past)
  PROVE  /\ gs \in [Agents -> AgentStates] /\ \A a \in Agents : Len(gs[a].facts) <= Memory
         /\ gs \in Sound(seen, Pasts(gs)) /\ \A a \in Agents : Past(gs[a]) = past[a]
<1>1. gs \in [Agents -> Knowing(seen)]
  BY DEF Sound
<1>2. \A a \in Agents : gs[a] \in AgentStates /\ Len(gs[a].facts) <= Memory
  BY <1>1, KnowingFields
<1>3. gs \in [Agents -> AgentStates]
  BY <1>1, <1>2
<1>4. gs \in Sound(seen, Pasts(gs)) /\ \A a \in Agents : Past(gs[a]) = past[a]
  BY DEF Sound, Pasts
<1> QED BY <1>2, <1>3, <1>4

LEMMA SoundMore ==
  ASSUME NEW seen, NEW more, NEW past, NEW gs \in Sound(seen, past), seen \subseteq more
  PROVE  gs \in Sound(more, past)
<1>1. Knowing(seen) \subseteq Knowing(more)
  BY KnowsMore
<1> QED BY <1>1 DEF Sound

\* Agents who keep their logs: the steps of the turns, and of the thread but for
\* the meeting.
LEMMA AgentsMove ==
  ASSUME SocietyInv, agent' \in Sound(witness.seen', Pasts(agent')), SocietyTypeOK', GroupsApart', BeenThere',
         \A a \in Agents : agent'[a].log = agent[a].log,
         witness.seen \subseteq witness.seen', witness.near' = witness.near, witness.stays' = witness.stays,
         ray' = ray, colo' = colo, row' = row, Unmet' = Unmet
  PROVE  SocietyInv'
<1>3. Pasts(agent)' = Pasts(agent')
  BY DEF Pasts, Past
<1>4. row.agent' \in Sound(witness.seen', Pasts(row.agent)')
  <2>1. row.agent \in Sound(witness.seen', Pasts(row.agent))
    BY SoundMore DEF SocietyInv
  <2> QED BY <2>1 DEF Pasts, Past
<1>5. LogsAgree(agent)' /\ LogsAgree(row.agent)'
  BY DEF SocietyInv, LogsAgree
<1>6. \A pair : Owed(pair)' = Owed(pair)
  BY DEF Owed
<1>7. StaysLogged'
  BY <1>6 DEF SocietyInv, StaysLogged
<1> QED BY <1>3, <1>4, <1>5, <1>7 DEF SocietyInv

LEMMA BeenStays ==
  ASSUME SocietyInv, \A a \in Agents : agent'[a].at = agent[a].at /\ agent'[a].been = agent[a].been,
         thread'.groups \subseteq thread.groups, loop' = "social" => loop = "social"
  PROVE  BeenThere'
<1>1. \A grp \in thread.groups : grp.ms \in SUBSET Agents
  BY DEF SocietyInv, SocietyTypeOK
<1> QED BY <1>1 DEF BeenThere, SocietyInv

\* Agents who keep their past: the steps of the thread but for the meeting.
LEMMA AgentsStay ==
  ASSUME SocietyInv, agent' \in Sound(witness.seen', Pasts(agent)), SocietyTypeOK', GroupsApart',
         thread'.groups \subseteq thread.groups, loop' = "social" => loop = "social",
         witness.seen \subseteq witness.seen', witness.near' = witness.near, witness.stays' = witness.stays,
         ray' = ray, colo' = colo, row' = row, Unmet' = Unmet
  PROVE  SocietyInv'
<1>1. \A a \in Agents : Past(agent'[a]) = Past(agent[a])
  <2>1. \A a \in Agents : Past(agent'[a]) = Pasts(agent)[a]
    BY SoundTyped
  <2> QED BY <2>1 DEF Pasts
<1>2. \A a \in Agents : /\ agent'[a].at = agent[a].at /\ agent'[a].been = agent[a].been
                        /\ agent'[a].log = agent[a].log
  BY <1>1, PastFields
<1>3. agent' \in Sound(witness.seen', Pasts(agent'))
  BY SoundTyped
<1>4. BeenThere'
  BY <1>2, BeenStays
<1> QED BY <1>2, <1>3, <1>4, AgentsMove

\* A thread with groups left has a first one.
LEMMA FirstGroup ==
  ASSUME SocietyTypeOK, GroupsApart, thread.groups # {}
  PROVE  First \in thread.groups /\ First.at \in Places /\ First.ms \in SUBSET Agents
<1> DEFINE S == UNION {grp.ms : grp \in thread.groups}
<1>1. \A grp \in thread.groups : grp.at \in Places /\ grp.ms \in SUBSET Agents /\ grp.ms # {}
  BY DEF SocietyTypeOK, GroupsApart
<1>2. S \in SUBSET Nat /\ S # {}
  BY <1>1, AgentsAreNumbers
<1>3. PICK a \in S : \A b \in S : a <= b
  BY <1>2, LeastNumber
<1>4. \E grp \in thread.groups :
        \E x \in grp.ms : \A other \in thread.groups : \A b \in other.ms : x <= b
  <2>1. PICK grp \in thread.groups : a \in grp.ms
    OBVIOUS
  <2>2. \A other \in thread.groups : \A b \in other.ms : a <= b
    BY <1>3
  <2> QED BY <2>1, <2>2
<1>5. First \in thread.groups
  BY <1>4, Zenon DEF First
<1> QED BY <1>1, <1>5

LEMMA InvFields ==
  ASSUME SocietyInv
  PROVE  /\ SocietyTypeOK /\ GroupsApart /\ BeenThere /\ agent \in Sound(witness.seen, Pasts(agent))
         /\ row.agent \in Sound(witness.seen, Pasts(row.agent))
  BY DEF SocietyInv

LEMMA SocietyInitInv ==
  ASSUME SocietyInit
  PROVE  SocietyInv
<1>1. MaxTick \in Nat /\ MaxChanges \in Nat /\ MaxFaults \in Nat /\ Memory \in Nat
      /\ Modes \subseteq BOOLEAN
  BY SocietyAssumption
<1>2. Stranger \in Memories /\ Mirrors(Stranger, Stranger)
  <2>1. Stranger.expert \in [Kinds -> 0..10]
    BY DEF Stranger, Kinds
  <2>2. 0 \in 0..MaxTick /\ 500 \in Thousandths /\ FALSE \in BOOLEAN
    BY <1>1 DEF Thousandths
  <2> QED BY <2>1, <2>2 DEF Stranger, Memories, Mirrors
<1>3. Newborn \in Knowing({})
  <2>1. Newborn.at \in Places
    BY SocietyAssumption DEF Newborn
  <2>2. NoBelief \in Beliefs /\ NoBelief.conf = 0
    BY DEF NoBelief, Beliefs, Thousandths
  <2>3. Newborn \in AgentStates
    BY <1>2, <2>1, <2>2 DEF Newborn, AgentStates
  <2>4. \A p \in Places : BeliefGrounded(Newborn.belief[p], p, {})
    BY <2>2 DEF Newborn, BeliefGrounded
  <2>5. Newborn.facts = <<>> /\ Len(Newborn.facts) = 0
    BY DEF Newborn
  <2>6. AskedNothing(Newborn)
    BY DEF Newborn, AskedNothing
  <2> QED BY <1>1, <2>3, <2>4, <2>5, <2>6 DEF Knowing
<1>4. \A b \in Agents : Newborn.mem[b] = Stranger /\ Newborn.log[b] = 0
  BY DEF Newborn
<1>5. agent \in Sound({}, Pasts(agent))
  <2>1. \A a \in Agents : agent[a] = Newborn
    BY DEF SocietyInit
  <2>2. agent \in [Agents -> Knowing({})]
    BY <1>3 DEF SocietyInit
  <2> QED BY <1>2, <1>4, <2>1, <2>2 DEF Sound, Pasts
<1>6. /\ witness = [seen |-> {}, near |-> {}, stays |-> [pair \in Pairs |-> 0]]
      /\ row = [agent |-> agent, tick |-> 0] /\ thread = Idle /\ colo = NoneTogether
  BY DEF SocietyInit
<1>7. row.agent = agent /\ witness.seen = {} /\ witness.near = {} /\ thread.groups = {} /\ thread.at = "none"
  BY <1>6 DEF Idle
<1>8. SocietyTypeOK
  <2>1. agent \in [Agents -> AgentStates] /\ \A a \in Agents : Len(agent[a].facts) <= Memory
    BY <1>5, SoundTyped
  <2>2. row \in [agent : [Agents -> AgentStates], tick : 0..MaxTick] /\ tick \in 0..MaxTick
    BY <1>1, <1>6, <2>1 DEF SocietyInit
  <2>3. thread \in [at : {"none", "meet", "teach", "ask", "tell", "exchange"}, tick : 0..MaxTick,
                     groups : SUBSET [at : Places, ms : SUBSET Agents]]
    BY <1>1, <1>6 DEF Idle
  <2>4. colo \in [Pairs -> Nat]
        /\ witness \in [seen : SUBSET (Places \X Nat), near : SUBSET Pairs, stays : [Pairs -> Nat]]
    BY <1>6 DEF NoneTogether
  <2>5. ray \in BOOLEAN /\ loop \in {"tick", "social", "wait", "save", "over"}
        /\ world \in [value : [Places -> Nat], earth : SUBSET Sourced]
        /\ budget \in [changes : 0..MaxChanges, faults : 0..MaxFaults]
    BY <1>1 DEF SocietyInit
  <2> QED BY <2>1, <2>2, <2>3, <2>4, <2>5 DEF SocietyTypeOK
<1>9. GroupsApart
  BY <1>7 DEF GroupsApart
<1>10. LogsAgree(agent)
  BY <1>4 DEF LogsAgree, SocietyInit
<1>11. StaysLogged
  <2>1. ASSUME NEW a \in Agents, NEW b \in Agents, a # b
        PROVE  agent[a].log[b] + Owed({a, b}) = witness.stays[{a, b}]
    <3>1. {a, b} \in Pairs
      BY <2>1, PairOfTwo
    <3>2. Owed({a, b}) = 0 /\ agent[a].log[b] = 0 /\ witness.stays[{a, b}] = 0
      BY <1>4, <1>6, <1>7, <3>1 DEF Owed, Unmet, SocietyInit
    <3> QED BY <3>2
  <2>2. \A pair \in Pairs : colo[pair] > 0 <=> pair \in witness.near
    BY <1>6, <1>7 DEF NoneTogether
  <2> QED BY <2>1, <2>2 DEF StaysLogged
<1>12. BeenThere
  BY <1>7 DEF BeenThere, SocietyInit
<1> QED BY <1>5, <1>7, <1>8, <1>9, <1>10, <1>11, <1>12 DEF SocietyInv

LEMMA FirstStays ==
  ASSUME thread'.groups = thread.groups
  PROVE  First' = First
  BY DEF First

\* The thread's groups after a part of its work for the first of them.
LEMMA PartApart ==
  ASSUME SocietyInv, NEW at, NEW next \in {"teach", "ask", "tell", "exchange"}, Part(at, next)
  PROVE  /\ GroupsApart' /\ First' = First /\ First \in thread.groups
         /\ First.at \in Places /\ First.ms \in SUBSET Agents
         /\ \A a \in First.ms : First.at \in agent[a].been
         /\ agent' \in Sound(witness.seen, Pasts(agent')) => SocietyTypeOK'
         /\ Unmet' = thread.groups \ {First}
<1>1. SocietyTypeOK /\ GroupsApart
  BY InvFields
<1>2. /\ thread.at = at /\ thread.groups # {} /\ thread' = [thread EXCEPT !.at = next]
      /\ UNCHANGED <<ray, colo, loop, tick, world, row, budget, witness>>
  BY DEF Part
<1>3. thread \in [at : {"none", "meet", "teach", "ask", "tell", "exchange"}, tick : 0..MaxTick,
                  groups : SUBSET [at : Places, ms : SUBSET Agents]]
  BY <1>1 DEF SocietyTypeOK
<1>4. /\ thread' \in [at : {"none", "meet", "teach", "ask", "tell", "exchange"}, tick : 0..MaxTick,
                      groups : SUBSET [at : Places, ms : SUBSET Agents]]
      /\ thread'.at = next /\ thread'.groups = thread.groups
  BY <1>2, <1>3
<1>5. First' = First /\ First \in thread.groups /\ First.at \in Places /\ First.ms \in SUBSET Agents
  BY <1>1, <1>2, <1>4, FirstStays, FirstGroup
<1>6. GroupsApart'
  BY <1>1, <1>2, <1>4 DEF GroupsApart
<1>7. agent' \in Sound(witness.seen, Pasts(agent')) => SocietyTypeOK'
  <2> SUFFICES ASSUME agent' \in Sound(witness.seen, Pasts(agent')) PROVE SocietyTypeOK'
    OBVIOUS
  <2>1. agent' \in [Agents -> AgentStates] /\ \A a \in Agents : Len(agent'[a].facts) <= Memory
    BY SoundTyped
  <2> QED BY <1>1, <1>2, <1>4, <2>1 DEF SocietyTypeOK
<1>8. Unmet' = thread.groups \ {First}
  BY <1>4, <1>5 DEF Unmet
<1>9. \A a \in First.ms : First.at \in agent[a].been
  BY <1>5, InvFields DEF BeenThere
<1> QED BY <1>5, <1>6, <1>7, <1>8, <1>9

\* A part of the thread's work that logs nothing.
LEMMA PartSound ==
  ASSUME SocietyInv, NEW at \in {"teach", "ask", "tell"}, NEW next \in {"teach", "ask", "tell", "exchange"},
         Part(at, next), agent' \in Sound(witness.seen, Pasts(agent))
  PROVE  SocietyInv'
<1>1. agent' \in Sound(witness.seen, Pasts(agent'))
  BY SoundTyped
<1>2. GroupsApart' /\ SocietyTypeOK' /\ Unmet' = thread.groups \ {First}
  BY <1>1, PartApart
<1>3. /\ thread.at = at /\ UNCHANGED <<ray, colo, loop, row, witness>>
      /\ thread' = [thread EXCEPT !.at = next]
  BY DEF Part
<1>4. Unmet' = Unmet
  BY <1>2, <1>3 DEF Unmet
<1>5. thread'.groups = thread.groups
  BY <1>3, InvFields DEF SocietyTypeOK
<1> QED BY <1>2, <1>3, <1>4, <1>5, AgentsStay

LEMMA TeachInv ==
  ASSUME SocietyInv, Teach
  PROVE  SocietyInv'
<1>1. Part("teach", "ask") /\ agent' = AllTaught(agent, First.at, First.ms)
  BY DEF Teach
<1>2. agent \in Sound(witness.seen, Pasts(agent)) /\ First.ms \in SUBSET Agents
  BY <1>1, InvFields, PartApart
<1>3. agent' \in Sound(witness.seen, Pasts(agent))
  BY <1>1, <1>2, AllTaughtSound
<1> QED BY <1>1, <1>3, PartSound

LEMMA RequestsInv ==
  ASSUME SocietyInv, Requests
  PROVE  SocietyInv'
<1> DEFINE gs == Tracked(agent, First.at, First.ms)
           who == Askers(agent, First.at, First.ms)
<1>1. Part("ask", "tell") /\ agent' = AskedBy(gs, who)
  BY DEF Requests, AskedBy
<1>2. agent \in Sound(witness.seen, Pasts(agent)) /\ First.ms \in SUBSET Agents /\ First.at \in Places
      /\ \A a \in First.ms : First.at \in agent[a].been
  BY <1>1, InvFields, PartApart
<1>3. gs \in Sound(witness.seen, Pasts(agent))
  BY <1>2, TrackedSound
<1>4. who = {}
  <2> DEFINE ms == First.ms
             p  == First.at
  <2>1. ms \in SUBSET Agents /\ \A a \in ms : p \in agent[a].been
    BY <1>2
  <2> HIDE DEF ms, p
  <2>2. Askers(agent, p, ms) = {}
    BY <1>2, <2>1, NobodyWouldAsk
  <2> QED BY <2>2 DEF ms, p
<1> HIDE DEF gs, who
<1>5. agent' \in Sound(witness.seen, Pasts(agent))
  BY <1>1, <1>3, <1>4, NobodyAskedSound
<1> QED BY <1>1, <1>5, PartSound

LEMMA TellInv ==
  ASSUME SocietyInv, Tell
  PROVE  SocietyInv'
<1>1. Part("tell", "exchange") /\ agent' \in Dialogues(agent, First.at, First.ms)
  BY DEF Tell
<1>2. agent \in Sound(witness.seen, Pasts(agent)) /\ First.ms \in SUBSET Agents
  BY <1>1, InvFields, PartApart
<1>3. agent' \in Sound(witness.seen, Pasts(agent))
  BY <1>1, <1>2, DialoguesSound
<1> QED BY <1>1, <1>3, PartSound

LEMMA MeetInv ==
  ASSUME SocietyInv, Meet
  PROVE  SocietyInv'
<1> DEFINE gs  == Met(agent, First.ms, thread.tick, colo)
           who == Starters(gs, First.at, First.ms, thread.tick)
           past == LoggedAfter(Pasts(agent), First.ms, colo)
<1>1. Part("meet", "teach") /\ agent' = AskedBy(gs, who)
  BY DEF Meet, AskedBy
<1>2. /\ agent \in Sound(witness.seen, Pasts(agent)) /\ First.ms \in SUBSET Agents
      /\ First \in thread.groups /\ Unmet' = thread.groups \ {First}
      /\ SocietyTypeOK /\ GroupsApart /\ \A a \in First.ms : First.at \in agent[a].been
  BY <1>1, InvFields, PartApart
<1>3. colo \in [Pairs -> Nat] /\ thread.tick \in 0..MaxTick
  BY <1>2 DEF SocietyTypeOK
<1>4. gs \in Sound(witness.seen, past)
  BY <1>2, <1>3, MetSound
<1>a. \A a \in Agents : past[a].been = agent[a].been /\ past[a].at = agent[a].at
  BY DEF LoggedAfter, Pasts, Past
<1>b. who = {}
  <2> DEFINE ms == First.ms
             p  == First.at
             t  == thread.tick
  <2>1. ms \in SUBSET Agents /\ \A a \in ms : p \in agent[a].been
    BY <1>2
  <2> HIDE DEF gs, past, ms, p, t
  <2>2. \A a \in Agents : Past(gs[a]) = past[a]
    BY <1>4, SoundTyped
  <2>3. \A a \in Agents : gs[a].been = past[a].been
    <3>1. \A a \in Agents : Past(gs[a]).been = gs[a].been
      BY DEF Past
    <3> QED BY <2>2, <3>1
  <2>4. \A a \in ms : p \in gs[a].been
    BY <1>a, <2>1, <2>3
  <2>5. Starters(gs, p, ms, t) = {}
    BY <1>4, <2>1, <2>4, NobodyWouldAsk
  <2> QED BY <2>5 DEF ms, p, t
<1> HIDE DEF gs, who, past
<1>5. agent' \in Sound(witness.seen, past)
  BY <1>1, <1>4, <1>b, NobodyAskedSound
<1>6. agent' \in Sound(witness.seen, Pasts(agent')) /\ \A a \in Agents : Past(agent'[a]) = past[a]
  BY <1>5, SoundTyped
<1>c. \A a \in Agents : /\ agent'[a].log = past[a].log /\ agent'[a].been = agent[a].been
                        /\ agent'[a].at = agent[a].at
  <2>1. \A a \in Agents : /\ Past(agent'[a]).log = agent'[a].log /\ Past(agent'[a]).been = agent'[a].been
                          /\ Past(agent'[a]).at = agent'[a].at
    BY DEF Past
  <2> QED BY <1>6, <1>a, <2>1
<1>7. GroupsApart' /\ SocietyTypeOK'
  BY <1>1, <1>6, PartApart
<1>8. /\ thread.at = "meet" /\ UNCHANGED <<ray, colo, loop, row, witness>>
      /\ thread' = [thread EXCEPT !.at = "teach"]
  BY <1>1 DEF Part
<1>9. \A a, b \in Agents : agent'[a].log[b] =
        IF {a, b} \subseteq First.ms /\ a # b /\ colo[{a, b}] = 1
        THEN agent[a].log[b] + 1 ELSE agent[a].log[b]
  <2> DEFINE ms == First.ms
             old == Pasts(agent)
  <2> HIDE DEF ms
  <2>1. \A a \in Agents : old[a].log = agent[a].log
    BY DEF Pasts, Past
  <2> HIDE DEF old
  <2>2. \A a, b \in Agents : LoggedAfter(old, ms, colo)[a].log[b] =
          IF {a, b} \subseteq ms /\ a # b /\ colo[{a, b}] = 1 THEN old[a].log[b] + 1 ELSE old[a].log[b]
    BY DEF LoggedAfter
  <2>3. \A a \in Agents : agent'[a].log = LoggedAfter(old, ms, colo)[a].log
    BY <1>c DEF past, old, ms
  <2>4. \A a, b \in Agents : agent'[a].log[b] =
          IF {a, b} \subseteq ms /\ a # b /\ colo[{a, b}] = 1 THEN agent[a].log[b] + 1 ELSE agent[a].log[b]
    BY <2>1, <2>2, <2>3
  <2> QED BY <2>4 DEF ms
<1>10. LogsAgree(agent')
  <2>1. \A a, b \in Agents : {a, b} = {b, a}
    OBVIOUS
  <2>2. \A a, b \in Agents : agent[a].log[b] = agent[b].log[a]
    BY DEF SocietyInv, LogsAgree
  <2>3. ASSUME NEW a \in Agents, NEW b \in Agents PROVE agent'[a].log[b] = agent'[b].log[a]
    <3> DEFINE met == {a, b} \subseteq First.ms /\ a # b /\ colo[{a, b}] = 1
    <3>1. agent'[a].log[b] = IF met THEN agent[a].log[b] + 1 ELSE agent[a].log[b]
      BY <1>9, Zenon
    <3>2. {b, a} = {a, b}
      BY <2>1
    <3>3. agent'[b].log[a] = IF {b, a} \subseteq First.ms /\ b # a /\ colo[{b, a}] = 1
                             THEN agent[b].log[a] + 1 ELSE agent[b].log[a]
      BY <1>9, Zenon
    <3>4. agent'[b].log[a] = IF met THEN agent[b].log[a] + 1 ELSE agent[b].log[a]
      <4>1. (b # a) = (a # b)
        OBVIOUS
      <4>2. ({b, a} \subseteq First.ms /\ b # a /\ colo[{b, a}] = 1) <=> met
        BY <3>2, <4>1, Zenon
      <4> HIDE DEF met
      <4> QED BY <3>3, <4>2
    <3> HIDE DEF met
    <3>5. agent[a].log[b] = agent[b].log[a]
      BY <2>2
    <3> QED BY <3>1, <3>4, <3>5
  <2> QED BY <2>3 DEF LogsAgree
<1>11. ASSUME NEW a \in Agents, NEW b \in Agents, a # b, ~ray
       PROVE  agent'[a].log[b] + Owed({a, b})' = witness.stays[{a, b}]
  <2>1. agent[a].log[b] + Owed({a, b}) = witness.stays[{a, b}]
    BY <1>11 DEF SocietyInv, StaysLogged
  <2>2. agent[a].log[b] \in Nat
    BY <1>2, SoundFields, KnowingFields
  <2>3. Owed({a, b}) = IF colo[{a, b}] = 1 /\ \E grp \in thread.groups : {a, b} \subseteq grp.ms THEN 1 ELSE 0
    BY <1>8 DEF Owed, Unmet
  <2>4. Owed({a, b})' = IF colo[{a, b}] = 1 /\ \E grp \in thread.groups \ {First} : {a, b} \subseteq grp.ms
                        THEN 1 ELSE 0
    BY <1>2, <1>8 DEF Owed
  <2>5. CASE {a, b} \subseteq First.ms
    <3>1. ~\E grp \in thread.groups \ {First} : {a, b} \subseteq grp.ms
      BY <1>2, <2>5 DEF GroupsApart
    <3>2. \E grp \in thread.groups : {a, b} \subseteq grp.ms
      BY <1>2, <2>5
    <3>3. Owed({a, b})' = 0
      BY <2>4, <3>1
    <3> DEFINE first == colo[{a, b}] = 1
    <3>4. agent'[a].log[b] = IF first THEN agent[a].log[b] + 1 ELSE agent[a].log[b]
      BY <1>9, <1>11, <2>5, Zenon
    <3>5. Owed({a, b}) = IF first THEN 1 ELSE 0
      BY <2>3, <3>2
    <3> HIDE DEF first
    <3> QED BY <2>1, <2>2, <3>3, <3>4, <3>5
  <2>6. CASE ~({a, b} \subseteq First.ms)
    <3>1. (\E grp \in thread.groups \ {First} : {a, b} \subseteq grp.ms)
            <=> \E grp \in thread.groups : {a, b} \subseteq grp.ms
      BY <2>6
    <3>2. agent'[a].log[b] = agent[a].log[b]
      BY <1>9, <2>6
    <3> QED BY <2>1, <2>2, <2>3, <2>4, <3>1, <3>2
  <2> QED BY <2>5, <2>6
<1>12. StaysLogged'
  BY <1>8, <1>11 DEF SocietyInv, StaysLogged
<1>13. LogsAgree(row.agent)' /\ row.agent' \in Sound(witness.seen', Pasts(row.agent)')
  BY <1>8 DEF SocietyInv, LogsAgree, Pasts, Past
<1>14. Pasts(agent)' = Pasts(agent') /\ LogsAgree(agent)'
  BY <1>10 DEF Pasts, Past, LogsAgree
<1>15. BeenThere'
  <2>1. thread'.groups = thread.groups
    BY <1>2, <1>8 DEF SocietyTypeOK
  <2> QED BY <1>8, <1>c, <2>1, BeenStays
<1> QED BY <1>6, <1>7, <1>8, <1>12, <1>13, <1>14, <1>15 DEF SocietyInv

LEMMA ExchangeInv ==
  ASSUME SocietyInv, Exchange
  PROVE  SocietyInv'
<1>1. /\ thread.at = "exchange" /\ agent' = Exchanged(agent, agent, First.ms)
      /\ thread' = [thread EXCEPT !.at = "meet", !.groups = @ \ {First}]
      /\ UNCHANGED <<ray, colo, loop, tick, world, row, budget, witness>>
  BY DEF Exchange
<1>2. SocietyTypeOK /\ GroupsApart /\ agent \in Sound(witness.seen, Pasts(agent))
  BY InvFields
<1>3. First \in thread.groups /\ First.ms \in SUBSET Agents
  <2>1. thread.groups # {}
    BY <1>1, <1>2 DEF GroupsApart
  <2> QED BY <1>2, <2>1, FirstGroup
<1>4. agent \in [Agents -> Knowing(witness.seen)]
  BY <1>2 DEF Sound
<1>5. agent' \in Sound(witness.seen, Pasts(agent))
  BY <1>1, <1>2, <1>3, <1>4, ExchangedSound
<1>6. thread \in [at : {"none", "meet", "teach", "ask", "tell", "exchange"}, tick : 0..MaxTick,
                  groups : SUBSET [at : Places, ms : SUBSET Agents]]
  BY <1>2 DEF SocietyTypeOK
<1>7. /\ thread' \in [at : {"none", "meet", "teach", "ask", "tell", "exchange"}, tick : 0..MaxTick,
                      groups : SUBSET [at : Places, ms : SUBSET Agents]]
      /\ thread'.at = "meet" /\ thread'.groups = thread.groups \ {First}
  <2> DEFINE left == thread.groups \ {First}
  <2>1. left \in SUBSET [at : Places, ms : SUBSET Agents]
    BY <1>6
  <2>2. thread' = [thread EXCEPT !.at = "meet", !.groups = left]
    BY <1>1
  <2> HIDE DEF left
  <2>3. /\ thread' \in [at : {"none", "meet", "teach", "ask", "tell", "exchange"}, tick : 0..MaxTick,
                        groups : SUBSET [at : Places, ms : SUBSET Agents]]
        /\ thread'.at = "meet" /\ thread'.groups = left
    BY <1>6, <2>1, <2>2
  <2> QED BY <2>3 DEF left
<1>8. SocietyTypeOK'
  <2>1. agent' \in [Agents -> AgentStates] /\ \A a \in Agents : Len(agent'[a].facts) <= Memory
    BY <1>5, SoundTyped
  <2> QED BY <1>1, <1>2, <1>7, <2>1 DEF SocietyTypeOK
<1>9. GroupsApart'
  BY <1>1, <1>2, <1>7 DEF GroupsApart
<1>10. Unmet' = Unmet
  BY <1>1, <1>7 DEF Unmet
<1> QED BY <1>1, <1>5, <1>7, <1>8, <1>9, <1>10, AgentsStay

LEMMA ThreadEndsInv ==
  ASSUME SocietyInv, ThreadEnds
  PROVE  SocietyInv'
<1>1. /\ thread.at = "meet" /\ thread.groups = {} /\ agent' = Periodic(agent, thread.tick)
      /\ thread' = Idle /\ loop' = IF loop = "wait" THEN AfterTick ELSE loop
      /\ UNCHANGED <<ray, colo, tick, world, row, budget, witness>>
  BY DEF ThreadEnds
<1>2. SocietyTypeOK /\ GroupsApart /\ agent \in Sound(witness.seen, Pasts(agent))
  BY InvFields
<1>3. agent' \in Sound(witness.seen, Pasts(agent))
  BY <1>1, <1>2, PeriodicSound
<1>4. MaxTick \in Nat
  BY SocietyAssumption
<1>5. /\ thread'.at = "none" /\ thread'.groups = {}
      /\ thread' \in [at : {"none", "meet", "teach", "ask", "tell", "exchange"}, tick : 0..MaxTick,
                      groups : SUBSET [at : Places, ms : SUBSET Agents]]
  BY <1>1, <1>4 DEF Idle
<1>6. SocietyTypeOK'
  <2>1. agent' \in [Agents -> AgentStates] /\ \A a \in Agents : Len(agent'[a].facts) <= Memory
    BY <1>3, SoundTyped
  <2>2. loop' \in {"tick", "social", "wait", "save", "over"}
    BY <1>1, <1>2 DEF AfterTick, SocietyTypeOK
  <2> QED BY <1>1, <1>2, <1>5, <2>1, <2>2 DEF SocietyTypeOK
<1>7. GroupsApart'
  BY <1>1, <1>2, <1>5 DEF GroupsApart
<1>8. Unmet' = Unmet
  BY <1>1, <1>5 DEF Unmet
<1>9. loop' # "social" \/ loop = "social"
  BY <1>1 DEF AfterTick
<1> QED BY <1>1, <1>3, <1>5, <1>6, <1>7, <1>8, <1>9, AgentsStay

LEMMA RevalueInv ==
  ASSUME SocietyInv, Revalue
  PROVE  SocietyInv'
<1>1. PICK p \in Places : world' = [world EXCEPT !.value[p] = @ + 1]
  BY DEF Revalue
<1>2. /\ budget.changes < MaxChanges /\ budget' = [budget EXCEPT !.changes = @ + 1]
      /\ UNCHANGED <<ray, agent, colo, loop, thread, tick, row, witness>>
  BY DEF Revalue
<1>3. SocietyTypeOK /\ GroupsApart /\ agent \in Sound(witness.seen, Pasts(agent))
  BY InvFields
<1>4. MaxChanges \in Nat
  BY SocietyAssumption
<1>5. SocietyTypeOK'
  <2>1. world' \in [value : [Places -> Nat], earth : SUBSET Sourced]
    <3> DEFINE more == [world.value EXCEPT ![p] = @ + 1]
    <3>1. world \in [value : [Places -> Nat], earth : SUBSET Sourced]
      BY <1>3 DEF SocietyTypeOK
    <3>2. more \in [Places -> Nat] /\ world' = [world EXCEPT !.value = more]
      BY <1>1, <3>1
    <3> HIDE DEF more
    <3> QED BY <3>1, <3>2
  <2>2. budget' \in [changes : 0..MaxChanges, faults : 0..MaxFaults]
    <3>1. budget \in [changes : 0..MaxChanges, faults : 0..MaxFaults]
      BY <1>3 DEF SocietyTypeOK
    <3> QED BY <1>2, <1>4, <3>1
  <2> QED BY <1>2, <1>3, <2>1, <2>2 DEF SocietyTypeOK
<1>6. GroupsApart'
  BY <1>2, <1>3 DEF GroupsApart
<1>7. Unmet' = Unmet
  <2>1. First' = First
    BY <1>2, FirstStays
  <2> QED BY <1>2, <2>1 DEF Unmet
<1> QED BY <1>2, <1>3, <1>5, <1>6, <1>7, AgentsStay

LEMMA RoamInv ==
  ASSUME SocietyInv, Roam
  PROVE  SocietyInv'
<1>1. SocietyTypeOK /\ GroupsApart /\ agent \in Sound(witness.seen, Pasts(agent))
  BY InvFields
<1>2. /\ tick < MaxTick /\ tick' = tick + 1 /\ loop' = "social"
      /\ UNCHANGED <<ray, colo, thread, row, budget>>
  BY DEF Roam
<1> DEFINE known == {agent[a].at : a \in Agents}
           Moved(to, k) ==
             LET value(a) == world.value[to[a]]
             IN  /\ agent' = [a \in Agents |->
                      IF ray THEN ActorTurn(agent[a], to[a], value(a), world.earth, known)
                      ELSE Turn(agent[a], to[a], value(a), IF a < k THEN world.earth ELSE Sourced)]
                 /\ world' = [world EXCEPT !.earth = IF k <= N THEN Sourced ELSE @]
                 /\ witness' = [witness EXCEPT !.seen = @ \cup {<<to[a], value(a)>> : a \in Agents}]
<1>a. PICK to \in {f \in [Agents -> Places] : \A a \in Agents : f[a] \in Reach[a]}, k \in 1..(N + 1) :
        Moved(to, k)
  BY Zenon DEF Roam
<1>3. /\ to \in [Agents -> Places]
      /\ agent' = [a \in Agents |->
           IF ray THEN ActorTurn(agent[a], to[a], world.value[to[a]], world.earth, known)
           ELSE Turn(agent[a], to[a], world.value[to[a]], IF a < k THEN world.earth ELSE Sourced)]
      /\ world' = [world EXCEPT !.earth = IF k <= N THEN Sourced ELSE @]
      /\ witness' = [witness EXCEPT !.seen = @ \cup {<<to[a], world.value[to[a]]>> : a \in Agents}]
  BY <1>a, Zenon
<1> HIDE DEF known, Moved
<1> DEFINE here == {<<to[a], world.value[to[a]]>> : a \in Agents}
           seen == witness.seen \cup here
<1>4. world \in [value : [Places -> Nat], earth : SUBSET Sourced]
      /\ witness \in [seen : SUBSET (Places \X Nat), near : SUBSET Pairs, stays : [Pairs -> Nat]]
  BY <1>1 DEF SocietyTypeOK
<1>5. here \in SUBSET (Places \X Nat)
  BY <1>3, <1>4
<1>6. \A a \in Agents : <<to[a], world.value[to[a]]>> \in seen /\ world.value[to[a]] \in Nat /\ to[a] \in Places
  BY <1>3, <1>4
<1>7. seen \in SUBSET (Places \X Nat)
  BY <1>4, <1>5
<1>8. witness' = [witness EXCEPT !.seen = seen]
  BY <1>3
<1> HIDE DEF here
<1>9. witness.seen \subseteq seen
  OBVIOUS
<1> HIDE DEF seen
<1>10. /\ witness'.seen = seen /\ witness'.near = witness.near /\ witness'.stays = witness.stays
       /\ witness' \in [seen : SUBSET (Places \X Nat), near : SUBSET Pairs, stays : [Pairs -> Nat]]
  BY <1>4, <1>7, <1>8
<1>11. agent \in Sound(seen, Pasts(agent))
  BY <1>1, <1>9, SoundMore
<1>12. ASSUME NEW a \in Agents
       PROVE  agent'[a] \in Knowing(seen) /\ Wandered(agent'[a], agent[a])
  <2> DEFINE v == world.value[to[a]]
             earth == IF a < k THEN world.earth ELSE Sourced
  <2>1. to[a] \in Places /\ v \in Nat /\ <<to[a], v>> \in seen /\ agent[a] \in Knowing(seen)
    BY <1>6, <1>11, SoundFields
  <2>2. agent'[a] = IF ray THEN ActorTurn(agent[a], to[a], v, world.earth, known)
                    ELSE Turn(agent[a], to[a], v, earth)
    BY <1>3
  <2> HIDE DEF v, earth
  <2>3. CASE ray
    BY <2>1, <2>2, <2>3, TurnKnows
  <2>4. CASE ~ray
    <3>1. agent'[a] = Turn(agent[a], to[a], v, earth)
      BY <2>2, <2>4
    <3>2. /\ Turn(agent[a], to[a], v, earth) \in Knowing(seen)
          /\ Wandered(Turn(agent[a], to[a], v, earth), agent[a])
          /\ ActorTurn(agent[a], to[a], v, earth, known) \in Knowing(seen)
      BY <2>1, TurnKnows
    <3> QED BY <3>1, <3>2
  <2> QED BY <2>3, <2>4
<1>b. \A a \in Agents : /\ agent'[a].mem = agent[a].mem /\ agent'[a].log = agent[a].log
                        /\ agent'[a].at \in agent'[a].been /\ agent[a].been \subseteq agent'[a].been
  BY <1>12 DEF Wandered
<1>13. agent' \in [Agents -> Knowing(seen)]
  <2>1. agent' = [a \in Agents |-> agent'[a]]
    BY <1>3
  <2> QED BY <1>12, <2>1
<1>14. agent' \in Sound(seen, Pasts(agent'))
  <2>1. \A a \in Agents : Past(agent'[a]) = Pasts(agent')[a]
    BY DEF Pasts
  <2>2. \A a, b \in Agents : Mirrors(agent[a].mem[b], agent[b].mem[a])
    BY <1>11 DEF Sound
  <2>3. \A a, b \in Agents : Mirrors(agent'[a].mem[b], agent'[b].mem[a])
    BY <1>b, <2>2
  <2> QED BY <1>13, <2>1, <2>3 DEF Sound
<1>15. SocietyTypeOK'
  <2>1. agent' \in [Agents -> AgentStates] /\ \A a \in Agents : Len(agent'[a].facts) <= Memory
    BY <1>14, SoundTyped
  <2>2. tick' \in 0..MaxTick
    <3>1. MaxTick \in Nat /\ tick \in 0..MaxTick
      BY <1>1, SocietyAssumption DEF SocietyTypeOK
    <3> QED BY <1>2, <3>1
  <2>3. world' \in [value : [Places -> Nat], earth : SUBSET Sourced]
    BY <1>3, <1>4
  <2> QED BY <1>1, <1>2, <1>10, <2>1, <2>2, <2>3 DEF SocietyTypeOK
<1>16. GroupsApart'
  BY <1>1, <1>2 DEF GroupsApart
<1>17. Unmet' = Unmet
  <2>1. First' = First
    BY <1>2, FirstStays
  <2> QED BY <1>2, <2>1 DEF Unmet
<1>18. BeenThere'
  <2>1. \A grp \in thread.groups : grp.ms \in SUBSET Agents
    BY <1>1 DEF SocietyTypeOK
  <2>2. \A grp \in thread.groups : \A a \in grp.ms : grp.at \in agent[a].been
    BY InvFields DEF BeenThere
  <2> QED BY <1>2, <1>b, <2>1, <2>2 DEF BeenThere
<1> QED BY <1>2, <1>9, <1>10, <1>14, <1>15, <1>16, <1>17, <1>18, <1>b, AgentsMove

\* What is saved is as sound as what runs.
LEMMA SavedInv ==
  ASSUME SocietyInv, UNCHANGED <<ray, agent, colo, thread, tick, world, witness>>,
         row' \in {row, [agent |-> agent, tick |-> tick]},
         loop' \in {"tick", "social", "wait", "save", "over"}, loop' = "social" => loop = "social",
         budget' \in [changes : 0..MaxChanges, faults : 0..MaxFaults]
  PROVE  SocietyInv'
<1>1. SocietyTypeOK /\ GroupsApart /\ agent \in Sound(witness.seen, Pasts(agent))
      /\ row.agent \in Sound(witness.seen, Pasts(row.agent))
  BY InvFields
<1>2. row'.agent = row.agent \/ row'.agent = agent
  OBVIOUS
<1>3. row' \in [agent : [Agents -> AgentStates], tick : 0..MaxTick]
  BY <1>1 DEF SocietyTypeOK
<1>4. row'.agent \in Sound(witness.seen, Pasts(row'.agent)) /\ LogsAgree(row'.agent)
  BY <1>1, <1>2 DEF SocietyInv
<1>5. Pasts(row.agent)' = Pasts(row'.agent) /\ (LogsAgree(row.agent)' <=> LogsAgree(row'.agent))
  BY DEF Pasts, Past, LogsAgree
<1>6. Pasts(agent)' = Pasts(agent) /\ LogsAgree(agent)'
  BY DEF Pasts, Past, LogsAgree, SocietyInv
<1>7. SocietyTypeOK'
  BY <1>1, <1>3 DEF SocietyTypeOK
<1>8. GroupsApart'
  BY <1>1 DEF GroupsApart
<1>9. StaysLogged'
  <2>1. First' = First
    BY FirstStays
  <2>2. Unmet' = Unmet
    BY <2>1 DEF Unmet
  <2>3. \A pair : Owed(pair)' = Owed(pair)
    BY <2>2 DEF Owed
  <2> QED BY <2>3 DEF SocietyInv, StaysLogged
<1>10. BeenThere'
  BY BeenStays
<1> QED BY <1>1, <1>4, <1>5, <1>6, <1>7, <1>8, <1>9, <1>10 DEF SocietyInv

LEMMA SaveInv ==
  ASSUME SocietyInv, Save \/ PauseSocial
  PROVE  SocietyInv'
<1>1. SocietyTypeOK
  BY InvFields
<1>2. MaxFaults \in Nat
  BY SocietyAssumption
<1>3. budget' \in [changes : 0..MaxChanges, faults : 0..MaxFaults]
  BY <1>1, <1>2 DEF Save, PauseSocial, Interrupted, SocietyTypeOK
<1>4. /\ UNCHANGED <<ray, agent, colo, thread, tick, world, witness>>
      /\ row' \in {row, [agent |-> agent, tick |-> tick]}
      /\ loop' \in {"tick", "wait", "save", "over"}
  BY DEF Save, PauseSocial
<1> QED BY <1>3, <1>4, SavedInv

\* The pair of a and b is the one of its least and its greatest.
LEMMA PairEnds ==
  ASSUME NEW a \in Agents, NEW b \in Agents
  PROVE  \/ Min({a, b}) = a /\ Max({a, b}) = b
         \/ Min({a, b}) = b /\ Max({a, b}) = a
<1>1. a \in Int /\ b \in Int
  BY AgentsAreNumbers
<1>2. Min({a, b}) \in {a, b} /\ Min({a, b}) <= a /\ Min({a, b}) <= b
  BY <1>1, MinOfTwo
<1>3. Max({a, b}) \in {a, b} /\ Max({a, b}) >= a /\ Max({a, b}) >= b
  BY <1>1, MaxOfTwo
<1> DEFINE lo == Min({a, b})
           hi == Max({a, b})
<1> HIDE DEF lo, hi
<1>4. lo \in {a, b} /\ lo <= a /\ lo <= b /\ hi \in {a, b} /\ hi >= a /\ hi >= b
  BY <1>2, <1>3 DEF lo, hi
<1>5. (lo = a /\ hi = b) \/ (lo = b /\ hi = a)
  BY <1>1, <1>4
<1> QED BY <1>5 DEF lo, hi

LEMMA PairHasTwo ==
  ASSUME NEW pair \in Pairs
  PROVE  \E a, b \in Agents : a # b /\ pair = {a, b}
<1>1. PICK a \in Agents, b \in Agents : pair = {a, b}
  BY DEF Pairs
<1>2. a # b
  BY <1>1 DEF Pairs
<1> QED BY <1>1, <1>2

LEMMA RestartInv ==
  ASSUME SocietyInv, Restart
  PROVE  SocietyInv'
<1> DEFINE reset(a) == [row.agent[a] EXCEPT !.earth = {}]
           counted == [pair \in Pairs |-> LET a == Min(pair) IN row.agent[a].log[Max(pair)]]
<1>1. SocietyTypeOK /\ GroupsApart /\ row.agent \in Sound(witness.seen, Pasts(row.agent))
  BY InvFields
<1>2. /\ budget.faults < MaxFaults /\ budget' = [budget EXCEPT !.faults = @ + 1]
      /\ agent' = [a \in Agents |-> reset(a)]
      /\ tick' = row.tick /\ colo' = NoneTogether /\ thread' = Idle /\ loop' = "tick"
      /\ witness' = [witness EXCEPT !.near = {}, !.stays = counted]
      /\ UNCHANGED <<ray, world, row>>
  BY DEF Restart, Interrupted
<1>3. ASSUME NEW a \in Agents
      PROVE  /\ reset(a) \in Knowing(witness.seen) /\ reset(a).mem = row.agent[a].mem
             /\ Past(reset(a)) = Past(row.agent[a])
  <2> DEFINE g == row.agent[a]
             h == [g EXCEPT !.earth = {}]
  <2>1. g \in Knowing(witness.seen)
    BY <1>1, SoundFields
  <2> HIDE DEF g
  <2>2. g \in AgentStates
    BY <2>1, KnowingFields
  <2>3. /\ h \in AgentStates /\ h.mem = g.mem /\ Past(h) = Past(g) /\ h.belief = g.belief
        /\ h.facts = g.facts /\ h.been = g.been /\ h.asked = g.asked
    BY <2>2 DEF AgentStates, Past
  <2> HIDE DEF h
  <2>4. h \in Knowing(witness.seen)
    BY <2>1, <2>3, SameKnows
  <2> QED BY <2>3, <2>4 DEF g, h
<1> HIDE DEF reset
<1>4. agent' \in [Agents -> Knowing(witness.seen)]
  BY <1>2, <1>3
<1>a. \A a \in Agents : agent'[a].mem = row.agent[a].mem /\ Past(agent'[a]) = Past(row.agent[a])
  BY <1>2, <1>3
<1>5. \A a \in Agents : agent'[a].mem = row.agent[a].mem /\ agent'[a].log = row.agent[a].log
  BY <1>a, PastFields
<1>6. agent' \in Sound(witness.seen, Pasts(row.agent))
  BY <1>1, <1>4, <1>a DEF Sound
<1>7. agent' \in Sound(witness.seen, Pasts(agent'))
  BY <1>6, SoundTyped
<1>8. \A a \in Agents : row.agent[a].log \in [Agents -> Nat]
  BY <1>1, SoundFields, KnowingFields
<1>9. counted \in [Pairs -> Nat]
  <2>1. ASSUME NEW pair \in Pairs
        PROVE  LET a == Min(pair) IN row.agent[a].log[Max(pair)] \in Nat
    <3>1. PICK a \in Agents, b \in Agents : pair = {a, b}
      BY PairHasTwo
    <3> DEFINE lo == Min(pair)
               hi == Max(pair)
    <3>2. lo \in Agents /\ hi \in Agents
      BY <3>1, PairEnds
    <3> HIDE DEF lo, hi
    <3>3. row.agent[lo].log[hi] \in Nat
      BY <1>8, <3>2
    <3> QED BY <3>3 DEF lo, hi
  <2> QED BY <2>1
<1>10. ASSUME NEW a \in Agents, NEW b \in Agents, a # b
       PROVE  counted[{a, b}] = row.agent[a].log[b]
  <2> DEFINE lo == Min({a, b})
             hi == Max({a, b})
  <2>1. {a, b} \in Pairs
    BY <1>10, PairOfTwo
  <2>2. (lo = a /\ hi = b) \/ (lo = b /\ hi = a)
    BY PairEnds
  <2>3. counted[{a, b}] = row.agent[lo].log[hi]
    BY <2>1
  <2> HIDE DEF lo, hi
  <2>4. row.agent[a].log[b] = row.agent[b].log[a]
    BY DEF SocietyInv, LogsAgree
  <2> QED BY <2>2, <2>3, <2>4
<1> HIDE DEF counted
<1>11. /\ witness \in [seen : SUBSET (Places \X Nat), near : SUBSET Pairs, stays : [Pairs -> Nat]]
       /\ row \in [agent : [Agents -> AgentStates], tick : 0..MaxTick]
  BY <1>1 DEF SocietyTypeOK
<1>12. /\ witness'.seen = witness.seen /\ witness'.near = {} /\ witness'.stays = counted
       /\ witness' \in [seen : SUBSET (Places \X Nat), near : SUBSET Pairs, stays : [Pairs -> Nat]]
  BY <1>2, <1>9, <1>11
<1>13. MaxTick \in Nat /\ MaxFaults \in Nat
  BY SocietyAssumption
<1>14. /\ thread'.at = "none" /\ thread'.groups = {}
       /\ thread' \in [at : {"none", "meet", "teach", "ask", "tell", "exchange"}, tick : 0..MaxTick,
                       groups : SUBSET [at : Places, ms : SUBSET Agents]]
  BY <1>2, <1>13 DEF Idle
<1>15. SocietyTypeOK'
  <2>1. agent' \in [Agents -> AgentStates] /\ \A a \in Agents : Len(agent'[a].facts) <= Memory
    BY <1>7, SoundTyped
  <2>2. colo' \in [Pairs -> Nat]
    BY <1>2 DEF NoneTogether
  <2>3. budget' \in [changes : 0..MaxChanges, faults : 0..MaxFaults]
    <3>1. budget \in [changes : 0..MaxChanges, faults : 0..MaxFaults]
      BY <1>1 DEF SocietyTypeOK
    <3> QED BY <1>2, <1>13, <3>1
  <2>4. tick' \in 0..MaxTick
    BY <1>2, <1>11
  <2> QED BY <1>1, <1>2, <1>12, <1>14, <2>1, <2>2, <2>3, <2>4 DEF SocietyTypeOK
<1>16. GroupsApart'
  BY <1>14 DEF GroupsApart
<1>17. StaysLogged'
  <2>1. \A pair \in Pairs : colo'[pair] = 0
    BY <1>2 DEF NoneTogether
  <2>2. \A pair : Owed(pair)' = 0
    BY <1>14 DEF Owed, Unmet
  <2>3. ASSUME NEW a \in Agents, NEW b \in Agents, a # b
        PROVE  agent'[a].log[b] + 0 = witness'.stays[{a, b}]
    <3>1. agent'[a].log[b] \in Nat
      BY <1>5, <1>8
    <3> QED BY <1>5, <1>10, <1>12, <2>3, <3>1
  <2> QED BY <1>12, <2>1, <2>2, <2>3 DEF StaysLogged
<1>18. LogsAgree(agent') /\ LogsAgree(row.agent)
  BY <1>5 DEF LogsAgree, SocietyInv
<1>19. LogsAgree(agent)' /\ LogsAgree(row.agent)'
  BY <1>2, <1>18 DEF LogsAgree
<1>20. Pasts(agent)' = Pasts(agent') /\ Pasts(row.agent)' = Pasts(row.agent)
  BY <1>2 DEF Pasts, Past
<1>21. BeenThere'
  BY <1>2, <1>14 DEF BeenThere
<1> QED BY <1>1, <1>2, <1>7, <1>12, <1>15, <1>16, <1>17, <1>19, <1>20, <1>21 DEF SocietyInv

\* Groups are formed of those at one place: a pair is in one if it is together.
LEMMA GroupsTyped ==
  ASSUME NEW seen, NEW past, NEW gs \in Sound(seen, past)
  PROVE  /\ Groups(gs) \in SUBSET [at : Places, ms : SUBSET Agents]
         /\ \A grp \in Groups(gs) : grp.ms # {} /\ \A a \in grp.ms : grp.at = gs[a].at
         /\ \A grp, other \in Groups(gs) : grp # other => grp.ms \cap other.ms = {}
         /\ \A a, b \in Agents : a # b /\ gs[a].at = gs[b].at =>
              \E grp \in Groups(gs) : {a, b} \subseteq grp.ms
<1>1. \A a \in Agents : gs[a].at \in Places
  BY SoundFields, KnowingFields
<1>2. \A a \in Agents : /\ Group(gs, a).at = gs[a].at /\ Group(gs, a).ms = Company(gs, a)
                        /\ Company(gs, a) \in SUBSET Agents /\ a \in Company(gs, a)
                        /\ Group(gs, a) = [at |-> gs[a].at, ms |-> Company(gs, a)]
  BY DEF Group, Company
<1>3. \A grp \in Groups(gs) : \E a \in Agents : grp = Group(gs, a)
  BY DEF Groups
<1>4. \A a \in Agents : Group(gs, a) \in [at : Places, ms : SUBSET Agents]
  BY <1>1, <1>2
<1>5. ASSUME NEW a \in Agents, NEW b \in Agents, NEW c \in Agents,
             c \in Company(gs, a), c \in Company(gs, b)
      PROVE  Group(gs, a) = Group(gs, b)
  <2>1. gs[a].at = gs[b].at
    BY <1>5 DEF Company
  <2> QED BY <2>1 DEF Group, Company
<1>6. ASSUME NEW grp \in Groups(gs), NEW other \in Groups(gs), grp # other
      PROVE  grp.ms \cap other.ms = {}
  <2>1. PICK a \in Agents : grp = Group(gs, a)
    BY <1>3
  <2>2. PICK b \in Agents : other = Group(gs, b)
    BY <1>3
  <2>3. ASSUME NEW c \in grp.ms \cap other.ms PROVE FALSE
    <3>1. c \in Company(gs, a) /\ c \in Company(gs, b) /\ c \in Agents
      BY <1>2, <2>1, <2>2
    <3>2. Group(gs, a) = Group(gs, b)
      BY <1>5, <3>1
    <3> QED BY <1>6, <2>1, <2>2, <3>2
  <2> QED BY <2>3
<1>7. ASSUME NEW a \in Agents, NEW b \in Agents, a # b, gs[a].at = gs[b].at
      PROVE  \E grp \in Groups(gs) : {a, b} \subseteq grp.ms
  <2>1. a \in Company(gs, a) /\ b \in Company(gs, a)
    BY <1>7 DEF Company
  <2>2. Company(gs, a) # {a}
    BY <1>7, <2>1
  <2>3. Group(gs, a) \in Groups(gs)
    BY <2>2 DEF Groups
  <2> QED BY <1>2, <2>1, <2>3
<1>8. ASSUME NEW grp \in Groups(gs), NEW a \in grp.ms PROVE grp.at = gs[a].at
  <2>1. PICK b \in Agents : grp = Group(gs, b)
    BY <1>3
  <2>2. a \in Company(gs, b) /\ grp.at = gs[b].at
    BY <1>2, <2>1
  <2> QED BY <2>2 DEF Company
<1> QED BY <1>2, <1>3, <1>4, <1>6, <1>7, <1>8

LEMMA StayedFields ==
  ASSUME SocietyTypeOK, NEW near \in SUBSET Pairs, Stayed(near)
  PROVE  /\ witness' \in [seen : SUBSET (Places \X Nat), near : SUBSET Pairs, stays : [Pairs -> Nat]]
         /\ witness'.seen = witness.seen /\ witness'.near = near
         /\ \A pair \in Pairs : witness'.stays[pair] =
              IF pair \in near \ witness.near THEN witness.stays[pair] + 1 ELSE witness.stays[pair]
<1> DEFINE more == [pair \in Pairs |-> IF pair \in near \ witness.near
                                       THEN witness.stays[pair] + 1 ELSE witness.stays[pair]]
<1>1. witness \in [seen : SUBSET (Places \X Nat), near : SUBSET Pairs, stays : [Pairs -> Nat]]
  BY DEF SocietyTypeOK
<1>2. more \in [Pairs -> Nat]
  BY <1>1
<1>3. witness' = [witness EXCEPT !.stays = more, !.near = near]
  BY DEF Stayed
<1>4. \A pair \in Pairs : more[pair] =
        IF pair \in near \ witness.near THEN witness.stays[pair] + 1 ELSE witness.stays[pair]
  OBVIOUS
<1> HIDE DEF more
<1>5. /\ witness' \in [seen : SUBSET (Places \X Nat), near : SUBSET Pairs, stays : [Pairs -> Nat]]
      /\ witness'.seen = witness.seen /\ witness'.near = near /\ witness'.stays = more
  BY <1>1, <1>2, <1>3
<1> QED BY <1>4, <1>5

LEMMA CountInv ==
  ASSUME SocietyInv, Count
  PROVE  SocietyInv'
<1> DEFINE near == Together(agent)
<1>1. /\ ~ray /\ thread.at = "none" /\ loop = "social" /\ colo' = Counted(colo, near) /\ Stayed(near)
      /\ thread' = [at |-> "meet", tick |-> tick, groups |-> Groups(agent)]
      /\ loop' = "wait" /\ UNCHANGED <<ray, agent, tick, world, row, budget>>
  BY DEF Count
<1>2. SocietyTypeOK /\ GroupsApart /\ agent \in Sound(witness.seen, Pasts(agent))
      /\ row.agent \in Sound(witness.seen, Pasts(row.agent))
  BY InvFields
<1>3. near \in SUBSET Pairs
  BY DEF Together
<1>4. \A a, b \in Agents : a # b /\ {a, b} \in near => agent[a].at = agent[b].at
  BY DEF Together
<1> HIDE DEF near
<1>5. /\ witness' \in [seen : SUBSET (Places \X Nat), near : SUBSET Pairs, stays : [Pairs -> Nat]]
      /\ witness'.seen = witness.seen /\ witness'.near = near
      /\ \A pair \in Pairs : witness'.stays[pair] =
           IF pair \in near \ witness.near THEN witness.stays[pair] + 1 ELSE witness.stays[pair]
  BY <1>1, <1>2, <1>3, StayedFields
<1>6. colo \in [Pairs -> Nat]
  BY <1>2 DEF SocietyTypeOK
<1>7. /\ colo' \in [Pairs -> Nat]
      /\ \A pair \in Pairs : colo'[pair] = IF pair \in near THEN colo[pair] + 1 ELSE 0
  BY <1>1, <1>6 DEF Counted
<1>8. /\ Groups(agent) \in SUBSET [at : Places, ms : SUBSET Agents]
      /\ \A grp \in Groups(agent) : grp.ms # {} /\ \A a \in grp.ms : grp.at = agent[a].at
      /\ \A grp, other \in Groups(agent) : grp # other => grp.ms \cap other.ms = {}
      /\ \A a, b \in Agents : a # b /\ agent[a].at = agent[b].at =>
           \E grp \in Groups(agent) : {a, b} \subseteq grp.ms
  BY <1>2, GroupsTyped
<1>9. tick \in 0..MaxTick
  BY <1>2 DEF SocietyTypeOK
<1>10. /\ thread' \in [at : {"none", "meet", "teach", "ask", "tell", "exchange"}, tick : 0..MaxTick,
                       groups : SUBSET [at : Places, ms : SUBSET Agents]]
       /\ thread'.at = "meet" /\ thread'.groups = Groups(agent)
  BY <1>1, <1>8, <1>9
<1>11. SocietyTypeOK'
  BY <1>1, <1>2, <1>5, <1>7, <1>10 DEF SocietyTypeOK
<1>12. GroupsApart'
  BY <1>1, <1>8, <1>10 DEF GroupsApart
<1>13. Unmet' = Groups(agent)
  BY <1>10 DEF Unmet
<1>14. ASSUME NEW a \in Agents, NEW b \in Agents, a # b
       PROVE  agent'[a].log[b] + Owed({a, b})' = witness'.stays[{a, b}]
  <2>1. {a, b} \in Pairs
    BY <1>14, PairOfTwo
  <2>2. agent[a].log[b] + Owed({a, b}) = witness.stays[{a, b}]
        /\ (colo[{a, b}] > 0 <=> {a, b} \in witness.near)
    BY <1>1, <1>14, <2>1 DEF SocietyInv, StaysLogged
  <2>3. Owed({a, b}) = 0
    BY <1>1 DEF Owed, Unmet
  <2>4. Owed({a, b})' = IF colo'[{a, b}] = 1 /\ \E grp \in Groups(agent) : {a, b} \subseteq grp.ms
                        THEN 1 ELSE 0
    BY <1>13 DEF Owed
  <2>5. agent[a].log[b] \in Nat /\ agent'[a].log[b] = agent[a].log[b]
    BY <1>1, <1>2, SoundFields, KnowingFields
  <2> DEFINE pair == {a, b}
  <2>6. colo[pair] \in Nat /\ colo'[pair] = (IF pair \in near THEN colo[pair] + 1 ELSE 0)
        /\ witness'.stays[pair] =
             IF pair \in near \ witness.near THEN witness.stays[pair] + 1 ELSE witness.stays[pair]
    BY <1>5, <1>6, <1>7, <2>1
  <2>7. CASE pair \in near
    <3>1. \E grp \in Groups(agent) : pair \subseteq grp.ms
      BY <1>4, <1>8, <1>14, <2>7
    <3>2. Owed(pair)' = IF colo'[pair] = 1 THEN 1 ELSE 0
      BY <2>4, <3>1
    <3> HIDE DEF pair
    <3>3. agent[a].log[b] + Owed(pair) = witness.stays[pair] /\ Owed(pair) = 0
          /\ (colo[pair] > 0 <=> pair \in witness.near)
      BY <2>2, <2>3 DEF pair
    <3>4. agent'[a].log[b] + Owed(pair)' = witness'.stays[pair]
      BY <2>5, <2>6, <2>7, <3>2, <3>3
    <3> QED BY <3>4 DEF pair
  <2>8. CASE pair \notin near
    <3>1. Owed(pair)' = 0
      BY <2>4, <2>6, <2>8
    <3> QED BY <2>2, <2>3, <2>5, <2>6, <2>8, <3>1
  <2> QED BY <2>7, <2>8
<1>15. StaysLogged'
  <2>1. \A pair \in Pairs : colo'[pair] > 0 <=> pair \in witness'.near
    BY <1>5, <1>6, <1>7
  <2> QED BY <1>14, <2>1 DEF StaysLogged
<1>16. LogsAgree(agent)' /\ LogsAgree(row.agent)'
  BY <1>1 DEF LogsAgree, SocietyInv
<1>17. Pasts(agent)' = Pasts(agent) /\ Pasts(row.agent)' = Pasts(row.agent)
  BY <1>1 DEF Pasts, Past
<1>18. BeenThere'
  <2>1. \A a \in Agents : agent[a].at \in agent[a].been
    BY <1>1, InvFields DEF BeenThere
  <2>2. \A grp \in Groups(agent) : \A a \in grp.ms : a \in Agents /\ grp.at = agent[a].at
    BY <1>8
  <2> QED BY <1>1, <1>10, <2>1, <2>2 DEF BeenThere
<1> QED BY <1>1, <1>2, <1>5, <1>11, <1>12, <1>15, <1>16, <1>17, <1>18 DEF SocietyInv

\* Sound agents whose logs agree, whatever is logged.
SoundAgents(seen) == {gs \in [Agents -> AgentStates] : gs \in Sound(seen, Pasts(gs)) /\ LogsAgree(gs)}

LEMMA MetAgree ==
  ASSUME NEW seen, NEW g \in SoundAgents(seen), NEW ms, NEW d,
         NEW gs \in Sound(seen, LoggedAfter(Pasts(g), ms, d))
  PROVE  gs \in SoundAgents(seen)
<1> DEFINE old == Pasts(g)
           past == LoggedAfter(old, ms, d)
<1>1. gs \in [Agents -> AgentStates] /\ gs \in Sound(seen, Pasts(gs)) /\ \A a \in Agents : Past(gs[a]) = past[a]
  BY SoundTyped
<1>2. \A a, b \in Agents : old[a].log[b] = old[b].log[a]
  BY DEF Pasts, Past, LogsAgree, SoundAgents
<1> HIDE DEF old
<1>3. ASSUME NEW a \in Agents, NEW b \in Agents PROVE past[a].log[b] = past[b].log[a]
  <2> DEFINE met == {a, b} \subseteq ms /\ a # b /\ d[{a, b}] = 1
  <2>1. past[a].log[b] = IF met THEN old[a].log[b] + 1 ELSE old[a].log[b]
    BY DEF LoggedAfter
  <2>2. past[b].log[a] = IF {b, a} \subseteq ms /\ b # a /\ d[{b, a}] = 1
                     THEN old[b].log[a] + 1 ELSE old[b].log[a]
    BY DEF LoggedAfter
  <2>3. {b, a} = {a, b} /\ (b # a) = (a # b)
    OBVIOUS
  <2>4. ({b, a} \subseteq ms /\ b # a /\ d[{b, a}] = 1) <=> met
    BY <2>3, Zenon
  <2> HIDE DEF met
  <2>5. past[b].log[a] = IF met THEN old[b].log[a] + 1 ELSE old[b].log[a]
    BY <2>2, <2>4
  <2> QED BY <1>2, <2>1, <2>5
<1> HIDE DEF past
<1>4. LogsAgree(gs)
  <2>1. \A a \in Agents : Past(gs[a]).log = gs[a].log
    BY DEF Past
  <2> QED BY <1>1, <1>3, <2>1 DEF LogsAgree
<1> QED BY <1>1, <1>4 DEF SoundAgents

LEMMA ByRaySound ==
  ASSUME NEW seen, agent \in Sound(seen, Pasts(agent)), tick \in 0..MaxTick,
         NEW gs \in SUBSET SoundAgents(seen), NEW grp, grp.ms \in SUBSET Agents
  PROVE  ByRay(gs, grp) \in SUBSET SoundAgents(seen)
<1> DEFINE d == [pair \in Pairs |-> 1]
           After(g) == Dialogues(Met(g, grp.ms, tick, d), grp.at, grp.ms)
           One(g) == {Exchanged(agent, hs, grp.ms) : hs \in After(g)}
<1>1. d \in [Pairs -> Nat]
  OBVIOUS
<1>2. agent \in [Agents -> Knowing(seen)]
  BY DEF Sound
<1>3. ByRay(gs, grp) = UNION {One(g) : g \in gs}
  BY Zenon DEF ByRay
<1> HIDE DEF d
<1>4. ASSUME NEW g \in gs, NEW hs \in After(g)
      PROVE  Exchanged(agent, hs, grp.ms) \in SoundAgents(seen)
  <2> DEFINE past == LoggedAfter(Pasts(g), grp.ms, d)
             ms == grp.ms
             m  == Met(g, ms, tick, d)
  <2>1. g \in SoundAgents(seen) /\ g \in Sound(seen, Pasts(g))
    BY DEF SoundAgents
  <2>2. m \in Sound(seen, past)
    BY <1>1, <2>1, MetSound
  <2>3. ms \in SUBSET Agents /\ hs \in Dialogues(m, grp.at, ms)
    OBVIOUS
  <2> HIDE DEF m, past, ms
  <2>4. hs \in Sound(seen, past)
    BY <2>2, <2>3, DialoguesSound
  <2>5. Exchanged(agent, hs, ms) \in Sound(seen, past)
    BY <1>2, <2>3, <2>4, ExchangedSound
  <2> QED BY <2>1, <2>5, MetAgree DEF ms, past
<1> HIDE DEF After
<1>5. \A g \in gs : One(g) \subseteq SoundAgents(seen)
  BY <1>4
<1> HIDE DEF One
<1>6. (UNION {One(g) : g \in gs}) \subseteq SoundAgents(seen)
  BY <1>5
<1> QED BY <1>3, <1>6

\* The groups with Ray, one after the other.
RayTo(f) ==
  f = [k \in 0..N |->
        IF k = 0 THEN {agent}
        ELSE IF Company(agent, k) # {k} /\ \A b \in Company(agent, k) : k <= b
             THEN ByRay(f[k - 1], Group(agent, k)) ELSE f[k - 1]]

LEMMA RayExpanded ==
  ASSUME RaySocial
  PROVE  agent' \in (CHOOSE f : RayTo(f))[N]
  BY Zenon DEF RaySocial, RayTo

LEMMA RaySound ==
  ASSUME NEW seen, agent \in Sound(seen, Pasts(agent)), LogsAgree(agent), tick \in 0..MaxTick, RaySocial
  PROVE  agent' \in SoundAgents(seen)
<1> DEFINE S == SUBSET SoundAgents(seen)
           Step(k, x) == IF Company(agent, k) # {k} /\ \A b \in Company(agent, k) : k <= b
                         THEN ByRay(x, Group(agent, k)) ELSE x
           step == [e \in (1..N) \X S |-> Step(e[1], e[2])]
           f == CHOOSE g : RayTo(g)
<1>1. N \in Nat /\ Agents = 1..N
  BY AgentsAreNumbers
<1>2. ASSUME NEW k \in 1..N, NEW x \in S PROVE Step(k, x) \in S
  <2> DEFINE grp == Group(agent, k)
  <2>1. grp.ms \in SUBSET Agents
    BY DEF Group, Company
  <2> HIDE DEF grp
  <2>2. ByRay(x, grp) \in S
    BY <2>1, ByRaySound
  <2> QED BY <2>2 DEF grp
<1> HIDE DEF Step
<1>3. \A k \in 1..N : \A x \in S : step[<<k, x>>] = Step(k, x)
  OBVIOUS
<1>4. {agent} \in S
  BY SoundTyped DEF SoundAgents
<1> HIDE DEF step, S
<1>5. \A k \in 1..N : \A x \in S : step[<<k, x>>] \in S
  BY <1>2, <1>3
<1>6. PICK g \in [0..N -> S] : Walks(g, {agent}, step, N)
  BY <1>1, <1>4, <1>5, WalkExists
<1>7. RayTo(g)
  <2>1. \A k \in 0..N : k # 0 => g[k - 1] \in S /\ k \in 1..N
    BY <1>1, <1>6
  <2>2. \A k \in 0..N : k # 0 => step[<<k, g[k - 1]>>] = Step(k, g[k - 1])
    BY <1>3, <2>1
  <2>3. g = [k \in 0..N |-> IF k = 0 THEN {agent} ELSE Step(k, g[k - 1])]
    BY <1>6, <2>2 DEF Walks
  <2> QED BY <2>3, Zenon DEF RayTo, Step
<1>8. RayTo(f)
  BY <1>7
<1> HIDE DEF f
<1>9. f[0] = {agent} /\ \A k \in 1..N : f[k] = Step(k, f[k - 1])
  <2>1. f = [k \in 0..N |-> IF k = 0 THEN {agent} ELSE Step(k, f[k - 1])]
    BY <1>8, Zenon DEF RayTo, Step
  <2>2. \A k \in 0..N : f[k] = IF k = 0 THEN {agent} ELSE Step(k, f[k - 1])
    BY <2>1, Zenon
  <2>3. 0 \in 0..N /\ \A k \in 1..N : k \in 0..N /\ k # 0
    BY <1>1
  <2>4. f[0] = {agent}
    BY <2>2, <2>3, Zenon
  <2>5. \A k \in 1..N : f[k] = Step(k, f[k - 1])
    BY <2>2, <2>3, Zenon
  <2> QED BY <2>4, <2>5
<1>10. f[N] \in S
  <2>1. f[0] \in S
    BY <1>4, <1>9
  <2>2. ASSUME NEW k \in 1..N, f[k - 1] \in S PROVE f[k] \in S
    BY <1>2, <1>9, <2>2
  <2> QED BY <1>1, <2>1, <2>2, WalkStays
<1> QED BY <1>10, RayExpanded DEF f, S

LEMMA RaySocialInv ==
  ASSUME SocietyInv, RaySocial
  PROVE  SocietyInv'
<1>1. /\ ray /\ Stayed(Together(agent)) /\ loop' = AfterTick
      /\ UNCHANGED <<ray, colo, thread, tick, world, row, budget>>
  BY DEF RaySocial
<1>2. SocietyTypeOK /\ GroupsApart /\ agent \in Sound(witness.seen, Pasts(agent))
      /\ row.agent \in Sound(witness.seen, Pasts(row.agent))
  BY InvFields
<1>3. tick \in 0..MaxTick /\ LogsAgree(agent)
  BY <1>2 DEF SocietyTypeOK, SocietyInv
<1>4. agent' \in SoundAgents(witness.seen)
  BY <1>2, <1>3, RaySound
<1>5. agent' \in Sound(witness.seen, Pasts(agent')) /\ LogsAgree(agent')
  BY <1>4 DEF SoundAgents
<1>6. Together(agent) \in SUBSET Pairs
  BY DEF Together
<1>7. /\ witness' \in [seen : SUBSET (Places \X Nat), near : SUBSET Pairs, stays : [Pairs -> Nat]]
      /\ witness'.seen = witness.seen
  BY <1>1, <1>2, <1>6, StayedFields
<1>8. SocietyTypeOK'
  <2>1. agent' \in [Agents -> AgentStates] /\ \A a \in Agents : Len(agent'[a].facts) <= Memory
    BY <1>5, SoundTyped
  <2>2. loop' \in {"tick", "social", "wait", "save", "over"}
    BY <1>1 DEF AfterTick
  <2> QED BY <1>1, <1>2, <1>7, <2>1, <2>2 DEF SocietyTypeOK
<1>9. GroupsApart'
  BY <1>1, <1>2 DEF GroupsApart
<1>10. StaysLogged'
  BY <1>1 DEF StaysLogged
<1>11. LogsAgree(agent)' /\ LogsAgree(row.agent)' /\ Pasts(agent)' = Pasts(agent')
       /\ Pasts(row.agent)' = Pasts(row.agent)
  BY <1>1, <1>5 DEF LogsAgree, Pasts, Past, SocietyInv
<1>12. BeenThere'
  <2>1. thread.groups = {} /\ loop' # "social"
    BY <1>1, <1>2 DEF GroupsApart, AfterTick
  <2> QED BY <1>1, <2>1 DEF BeenThere
<1> QED BY <1>1, <1>2, <1>5, <1>7, <1>8, <1>9, <1>10, <1>11, <1>12 DEF SocietyInv

LEMMA SocietyStutters ==
  ASSUME SocietyInv, UNCHANGED societyVars
  PROVE  SocietyInv'
<1>1. UNCHANGED <<ray, agent, colo, loop, thread, tick, world, row, budget, witness>>
  BY DEF societyVars
<1>2. loop \in {"tick", "social", "wait", "save", "over"}
      /\ budget \in [changes : 0..MaxChanges, faults : 0..MaxFaults]
  BY DEF SocietyInv, SocietyTypeOK
<1> QED BY <1>1, <1>2, SavedInv

\* In every reachable state.
THEOREM SocietyInvHolds == SocietySpec => []SocietyInv
<1>1. SocietyInv /\ [SocietyNext]_societyVars => SocietyInv'
  <2> SUFFICES ASSUME SocietyInv, [SocietyNext]_societyVars PROVE SocietyInv'
    OBVIOUS
  <2>1. CASE Revalue
    BY <2>1, RevalueInv
  <2>2. CASE Roam
    BY <2>2, RoamInv
  <2>3. CASE Social
    BY <2>3, CountInv, MeetInv, TeachInv, RequestsInv, TellInv, ExchangeInv, ThreadEndsInv,
       RaySocialInv DEF Social
  <2>4. CASE Save \/ PauseSocial
    BY <2>4, SaveInv
  <2>5. CASE Restart
    BY <2>5, RestartInv
  <2>6. CASE UNCHANGED societyVars
    BY <2>6, SocietyStutters
  <2> QED BY <2>1, <2>2, <2>3, <2>4, <2>5, <2>6 DEF SocietyNext
<1> QED BY <1>1, SocietyInitInv, PTL DEF SocietySpec

\* Every variable of the social model has its type, and no agent remembers more
\* facts than its memory holds.
THEOREM SocietyTypeCorrect == SocietySpec => []SocietyTypeOK
<1>1. SocietyInv => SocietyTypeOK
  BY DEF SocietyInv
<1> QED BY <1>1, SocietyInvHolds, PTL

\* What an agent believes or remembers of a place somebody has seen there, through
\* any chain of tellings, and its confidence is between 0.2 and 1.
THEOREM BeliefsGroundedHolds == SocietySpec => []BeliefsGrounded
<1>1. SocietyInv => BeliefsGrounded
  <2> SUFFICES ASSUME SocietyInv, NEW a \in Agents
               PROVE  /\ \A p \in Places : agent[a].belief[p].conf > 0 =>
                           /\ <<p, agent[a].belief[p].val>> \in witness.seen
                           /\ agent[a].belief[p].conf >= 200 /\ agent[a].belief[p].conf <= 1000
                      /\ \A i \in DOMAIN agent[a].facts : agent[a].facts[i].pred = "seen" =>
                           <<agent[a].facts[i].loc, agent[a].facts[i].val>> \in witness.seen
    BY DEF BeliefsGrounded
  <2>1. agent[a] \in Knowing(witness.seen)
    BY InvFields, SoundFields
  <2>2. agent[a].belief \in [Places -> Beliefs] /\ agent[a].facts \in Seq(Facts)
        /\ (\A p \in Places : BeliefGrounded(agent[a].belief[p], p, witness.seen))
        /\ \A i \in 1..Len(agent[a].facts) : FactGrounded(agent[a].facts[i], witness.seen)
    BY <2>1, KnowingFields
  <2>3. \A p \in Places : agent[a].belief[p].conf <= 1000
    BY <2>2 DEF Beliefs, Thousandths
  <2>4. DOMAIN agent[a].facts = 1..Len(agent[a].facts)
    BY <2>2
  <2> QED BY <2>2, <2>3, <2>4 DEF BeliefGrounded, FactGrounded
<1> QED BY <1>1, SocietyInvHolds, PTL

\* Two agents remember the same of each other, in memory and in what is saved.
THEOREM MemoryIsMutualHolds == SocietySpec => []MemoryIsMutual
<1>1. SocietyInv => MemoryIsMutual
  <2> SUFFICES ASSUME SocietyInv PROVE MemoryIsMutual
    OBVIOUS
  <2>1. ASSUME NEW gs \in {agent, row.agent}, NEW a \in Agents, NEW b \in Agents
        PROVE  LET m == gs[a].mem[b]  o == gs[b].mem[a]
               IN  /\ <<m.count, m.ticks, m.last, m.net>> = <<o.count, o.ticks, o.last, o.net>>
                   /\ m.got = o.gave /\ m.learned = o.taught /\ gs[a].log[b] = gs[b].log[a]
                   /\ m.trust <= 500 + 10 * m.got
    <3>1. gs \in Sound(witness.seen, Pasts(gs)) /\ LogsAgree(gs)
      BY <2>1, InvFields DEF SocietyInv
    <3>2. Mirrors(gs[a].mem[b], gs[b].mem[a])
      BY <3>1, SoundFields
    <3> QED BY <3>1, <3>2 DEF Mirrors, LogsAgree
  <2> QED BY <2>1, Zenon DEF MemoryIsMutual
<1> QED BY <1>1, SocietyInvHolds, PTL

\* When no group is left to meet, as many encounters of a pair are logged as it
\* had stays together.
THEOREM OneEncounterPerStayHolds == SocietySpec => []OneEncounterPerStay
<1>1. SocietyInv => OneEncounterPerStay
  <2> SUFFICES ASSUME SocietyInv, ~ray, thread.at = "none", NEW pair \in Pairs
               PROVE  agent[Min(pair)].log[Max(pair)] = witness.stays[pair]
    BY DEF OneEncounterPerStay
  <2>1. SocietyTypeOK /\ agent \in Sound(witness.seen, Pasts(agent))
    BY InvFields
  <2>2. PICK a \in Agents, b \in Agents : a # b /\ pair = {a, b}
    BY PairHasTwo
  <2> DEFINE lo == Min(pair)
             hi == Max(pair)
  <2>3. (lo = a /\ hi = b) \/ (lo = b /\ hi = a)
    BY <2>2, PairEnds
  <2> HIDE DEF lo, hi
  <2>4. agent[a].log[b] + Owed(pair) = witness.stays[pair] /\ agent[a].log[b] = agent[b].log[a]
    BY <2>2 DEF SocietyInv, StaysLogged, LogsAgree
  <2>5. Owed(pair) = 0
    BY DEF Owed, Unmet
  <2>6. agent[a].log[b] \in Nat
    BY <2>1, SoundFields, KnowingFields
  <2>7. agent[lo].log[hi] = witness.stays[pair]
    BY <2>3, <2>4, <2>5, <2>6
  <2> QED BY <2>7 DEF lo, hi
<1> QED BY <1>1, SocietyInvHolds, PTL

\* No conversation is ever started and no knowledge ever requested: an agent in a
\* group has been at its place and believes something of it, so its gap is nil
\* (_initiate_conversations, _request_knowledge).
THEOREM NobodyAsksHolds == SocietySpec => []NobodyAsks
<1>1. SocietyInv => NobodyAsks
  <2> SUFFICES ASSUME SocietyInv, NEW a \in Agents PROVE agent[a].asked = 0
    BY DEF NobodyAsks
  <2>1. agent[a] \in Knowing(witness.seen)
    BY InvFields, SoundFields
  <2> QED BY <2>1, KnowingFields DEF AskedNothing
<1> QED BY <1>1, SocietyInvHolds, PTL
=============================================================================
