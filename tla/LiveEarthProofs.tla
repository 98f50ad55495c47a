-------------------------- MODULE LiveEarthProofs --------------------------
(***************************************************************************)
(* Theorems about LiveEarth: its types, that no reading of the weather     *)
(* claims to be younger than it is, and that an interpolated wind misses   *)
(* one update of a station at most.                                        *)
(***************************************************************************)
EXTENDS LiveEarth, TLAPS

USE EarthAssumption

Loops == [at : {"off", "sleep", "run"}, due : Nat, todo : SUBSET (Places \cup {Sun})]
Cached == [{} -> 0..2] \cup [Windy -> 0..2]
Updates == 0..2
Ages == 0..Absent

LEMMA AgeBounds ==
  /\ Old \in Nat /\ Simulated \in Nat /\ Absent \in Nat /\ 0 <= Old
  /\ Old < Simulated /\ Simulated < Absent
  BY DEF Old, Simulated, Absent

\* A reading grows older, up to Old; what is no age stays what it is.
LEMMA OlderIs ==
  ASSUME NEW a \in Ages
  PROVE  /\ Older(a) \in Ages
         /\ a <= Old => Older(a) <= Old
         /\ a > Old => Older(a) = a
  BY AgeBounds DEF Older, Ages

LEMMA OlderMonotone ==
  ASSUME NEW a \in Ages, NEW b \in Ages, a >= b
  PROVE  Older(a) >= Older(b)
  BY AgeBounds DEF Older, Ages

\* Where a loop goes on, or rests.
LEMMA GoingIs ==
  ASSUME TypeOK, NEW d \in Domains, NEW todo \in SUBSET (Places \cup {Sun}), Going(d, todo)
  PROVE  /\ loop' \in [Domains -> Loops]
         /\ \A e \in Domains : loop'[e].due <= Period[e]
         /\ \A e \in Domains : loop'[e].todo = IF e = d THEN todo ELSE loop[e].todo
<1> DEFINE new == IF todo = {} THEN [at |-> "sleep", due |-> Period[d], todo |-> {}]
                  ELSE [at |-> "run", due |-> 0, todo |-> todo]
<1>1. new \in Loops /\ new.todo = todo /\ new.due <= Period[d] /\ Period[d] \in Nat
  BY DEF Loops
<1>2. loop' = [loop EXCEPT ![d] = new]
  BY DEF Going
<1> HIDE DEF new
<1>3. loop \in [Domains -> Loops] /\ \A e \in Domains : loop[e].due <= Period[e]
  BY DEF TypeOK, Loops
<1>4. \A e \in Domains : loop'[e] = IF e = d THEN new ELSE loop[e]
  BY <1>2, <1>3
<1>5. loop' \in [Domains -> Loops]
  BY <1>1, <1>2, <1>3
<1> QED BY <1>1, <1>3, <1>4, <1>5

LEMMA TrackedArePlaces ==
  ASSUME NEW d PROVE Tracked(d) \in SUBSET (Places \cup {Sun})
<1>1. CASE d \in Listed
  BY <1>1 DEF Tracked, StationsOf
<1>2. CASE d \notin Listed /\ d = "data_feeds"
  BY <1>2 DEF Tracked
<1>3. CASE d \notin Listed /\ d # "data_feeds"
  BY <1>3 DEF Tracked
<1> QED BY <1>1, <1>2, <1>3

\* What Wind.refresh does to the interpolations when a station is updated.
LEMMA OutdatedIs ==
  ASSUME TypeOK, NEW d, NEW s
  PROVE  /\ Outdated(d, s) \in [Calm -> Cached]
         /\ \A p \in Calm :
              /\ DOMAIN Outdated(d, s)[p] = DOMAIN behind[p]
              /\ \A t \in DOMAIN behind[p] :
                   Outdated(d, s)[p][t] = IF d = "wind" /\ t = s /\ behind[p][t] < 2
                                          THEN behind[p][t] + 1 ELSE behind[p][t]
<1> DEFINE Missed(p, t) == IF d = "wind" /\ t = s /\ behind[p][t] < 2
                           THEN behind[p][t] + 1 ELSE behind[p][t]
           Row(p) == [t \in DOMAIN behind[p] |-> Missed(p, t)]
<1>1. Outdated(d, s) = [p \in Calm |-> Row(p)]
  BY DEF Outdated
<1>2. ASSUME NEW p \in Calm PROVE Row(p) \in Cached
  <2>1. behind[p] \in Cached
    BY <1>2 DEF TypeOK, Cached
  <2>2. \A t \in DOMAIN behind[p] : behind[p][t] \in 0..2
    BY <2>1 DEF Cached
  <2>3. \A t \in DOMAIN behind[p] : Missed(p, t) \in 0..2
    BY <2>2
  <2>4. DOMAIN behind[p] = {} \/ DOMAIN behind[p] = Windy
    BY <2>1 DEF Cached
  <2> HIDE DEF Missed
  <2>5. Row(p) \in [DOMAIN behind[p] -> 0..2]
    BY <2>3
  <2> QED BY <2>4, <2>5 DEF Cached
<1>3. \A p \in Calm : Outdated(d, s)[p] = Row(p)
  BY <1>1
<1>4. \A p \in Calm : DOMAIN Row(p) = DOMAIN behind[p] /\ \A t \in DOMAIN behind[p] : Row(p)[t] = Missed(p, t)
  OBVIOUS
<1>5. Outdated(d, s) \in [Calm -> Cached]
  <2> HIDE DEF Row
  <2> QED BY <1>1, <1>2
<1>6. ASSUME NEW p \in Calm
      PROVE  /\ DOMAIN Outdated(d, s)[p] = DOMAIN behind[p]
             /\ \A t \in DOMAIN behind[p] : Outdated(d, s)[p][t] = Missed(p, t)
  <2> HIDE DEF Row, Missed
  <2> QED BY <1>3, <1>4, <1>6
<1> QED BY <1>5, <1>6

LEMMA NoInterpolationIs ==
  /\ NoInterpolation \in [Calm -> Cached]
  /\ \A p \in Calm : DOMAIN NoInterpolation[p] = {}
  BY DEF NoInterpolation, Cached

-----------------------------------------------------------------------------
(* Type correctness.                                                       *)

LEMMA EarthTypeInit == Init => TypeOK
<1> SUFFICES ASSUME Init PROVE TypeOK
  OBVIOUS
<1>1. reading \in [Shown -> [Places \cup {Sun} -> 0..Absent]]
  <2>1. Simulated \in 0..Absent /\ Absent \in 0..Absent
    BY AgeBounds
  <2> QED BY <2>1 DEF Init
<1>2. stamp \in [Places -> 0..Old \cup {Absent}]
  BY DEF Init
<1>3. /\ loop \in [Domains -> Loops]
      /\ \A d \in Domains : loop[d].due <= Period[d]
  BY DEF Init, Loops, Off
<1>4. resolve \in [of : Places \cup {Sun}, age : 0..1]
  BY DEF Init, NoFetch
<1>5. behind \in [Calm -> Cached]
  BY NoInterpolationIs DEF Init
<1>6. running \in BOOLEAN /\ ticked \in BOOLEAN /\ cached \subseteq Places
  BY DEF Init
<1> QED BY <1>1, <1>2, <1>3, <1>4, <1>5, <1>6 DEF TypeOK, Loops, Cached

LEMMA EarthTypeStep == TypeOK /\ [Next]_vars => TypeOK'
<1> SUFFICES ASSUME TypeOK, [Next]_vars PROVE TypeOK'
  OBVIOUS
<1>t. /\ running \in BOOLEAN /\ ticked \in BOOLEAN /\ cached \subseteq Places
      /\ reading \in [Shown -> [Places \cup {Sun} -> 0..Absent]]
      /\ stamp \in [Places -> 0..Old \cup {Absent}]
      /\ loop \in [Domains -> Loops]
      /\ \A d \in Domains : loop[d].due <= Period[d]
      /\ resolve \in [of : Places \cup {Sun}, age : 0..1]
      /\ behind \in [Calm -> Cached]
  BY DEF TypeOK, Loops, Cached
<1>z. 0 \in 0..Absent /\ 0 \in 0..Old \cup {Absent} /\ Absent \in 0..Absent /\ Simulated \in 0..Absent
  BY AgeBounds
<1>1. ASSUME NEW d \in Domains, Wake(d) PROVE TypeOK'
  <2>1. /\ loop' \in [Domains -> Loops]
        /\ \A e \in Domains : loop'[e].due <= Period[e]
    BY <1>1, GoingIs, TrackedArePlaces DEF Wake
  <2>2. behind' \in [Calm -> Cached]
    BY <1>1, <1>t, NoInterpolationIs DEF Wake, Cleared
  <2> QED BY <1>1, <1>t, <2>1, <2>2 DEF Wake, TypeOK, Loops, Cached
<1>2. ASSUME NEW d \in Domains, NEW p \in Places \cup {Sun}, FetchLands(d, p) PROVE TypeOK'
  <2>1. loop[d].todo \ {p} \in SUBSET (Places \cup {Sun})
    BY <1>t DEF Loops
  <2>2. /\ loop' \in [Domains -> Loops]
        /\ \A e \in Domains : loop'[e].due <= Period[e]
    BY <1>2, <2>1, GoingIs DEF FetchLands
  <2>3. behind' \in [Calm -> Cached]
    BY <1>2, OutdatedIs DEF FetchLands
  <2>4. reading' \in [Shown -> [Places \cup {Sun} -> 0..Absent]]
    <3>1. reading' = [reading EXCEPT ![d][p] = 0]
      BY <1>2 DEF FetchLands
    <3> QED BY <1>t, <1>z, <3>1
  <2>5. stamp' \in [Places -> 0..Old \cup {Absent}]
    BY <1>2, <1>t, <1>z DEF FetchLands
  <2> QED BY <1>2, <1>t, <2>2, <2>3, <2>4, <2>5 DEF FetchLands, TypeOK, Loops, Cached
<1>3. ASSUME NEW d \in Domains, NEW p \in Places \cup {Sun}, FetchFails(d, p) PROVE TypeOK'
  <2>1. loop[d].todo \ {p} \in SUBSET (Places \cup {Sun})
    BY <1>t DEF Loops
  <2>2. /\ loop' \in [Domains -> Loops]
        /\ \A e \in Domains : loop'[e].due <= Period[e]
    BY <1>3, <2>1, GoingIs DEF FetchFails
  <2> QED BY <1>3, <1>t, <2>2 DEF FetchFails, TypeOK, Loops, Cached
<1>4. CASE RefreshGeography
  <2>1. /\ loop' \in [Domains -> Loops]
        /\ \A e \in Domains : loop'[e].due <= Period[e]
    BY <1>4, GoingIs DEF RefreshGeography
  <2> QED BY <1>4, <1>t, <2>1 DEF RefreshGeography, TypeOK, Loops, Cached
<1>5. CASE Tick
  BY <1>5, <1>t DEF Tick, Warmed, TypeOK, Loops, Cached
<1>6. ASSUME NEW p \in Places, LookUp(p) PROVE TypeOK'
  BY <1>6, <1>t DEF LookUp, TypeOK, Loops, Cached
<1>7. ASSUME NEW p \in Places, GetWind(p) PROVE TypeOK'
  <2>1. Interpolated \in Cached
    BY DEF Interpolated, Cached
  <2>2. behind' \in [Calm -> Cached]
    BY <1>7, <1>t, <2>1 DEF GetWind
  <2> QED BY <1>7, <1>t, <2>2 DEF GetWind, TypeOK, Loops, Cached
<1>8. ASSUME NEW p \in Places, ResolveBegins(p) PROVE TypeOK'
  <2>1. [of |-> p, age |-> 0] \in [of : Places \cup {Sun}, age : 0..1]
    OBVIOUS
  <2> QED BY <1>8, <1>t, <2>1 DEF ResolveBegins, TypeOK, Loops, Cached
<1>9. CASE ResolveEnds
  <2>1. resolve.of \in Places \cup {Sun} /\ resolve.age \in 0..1 /\ resolve.age \in 0..Old
    BY <1>t DEF Old
  <2>2. NoFetch \in [of : Places \cup {Sun}, age : 0..1]
    BY DEF NoFetch
  <2>3. reading' \in [Shown -> [Places \cup {Sun} -> 0..Absent]]
    <3> DEFINE p == resolve.of
    <3>1. reading' = [reading EXCEPT !["weather"][p] = 0] \/ reading' = reading
      BY <1>9 DEF ResolveEnds
    <3>2. "weather" \in Shown /\ p \in Places \cup {Sun}
      BY <2>1 DEF Shown, Listed
    <3> HIDE DEF p
    <3>3. [reading EXCEPT !["weather"][p] = 0] \in [Shown -> [Places \cup {Sun} -> 0..Absent]]
      BY <1>t, <1>z, <3>2
    <3> QED BY <1>t, <3>1, <3>3
  <2>4. stamp' \in [Places -> 0..Old \cup {Absent}]
    BY <1>9, <1>t, <2>1 DEF ResolveEnds, Stamped
  <2> QED BY <1>9, <1>t, <2>2, <2>3, <2>4 DEF ResolveEnds, TypeOK, Loops, Cached
<1>10. ASSUME loop' = [d \in Domains |-> Off] \/ loop' = [d \in Domains |-> [Off EXCEPT !.at = "sleep"]]
       PROVE  /\ loop' \in [Domains -> Loops]
              /\ \A d \in Domains : loop'[d].due <= Period[d]
  <2>1. Off \in Loops /\ [Off EXCEPT !.at = "sleep"] \in Loops /\ Off.due = 0 /\ [Off EXCEPT !.at = "sleep"].due = 0
    BY DEF Off, Loops
  <2>2. \A d \in Domains : Period[d] \in Nat
    OBVIOUS
  <2> HIDE DEF Off
  <2>3. CASE loop' = [d \in Domains |-> Off]
    BY <2>1, <2>2, <2>3
  <2>4. CASE loop' = [d \in Domains |-> [Off EXCEPT !.at = "sleep"]]
    <3> DEFINE asleep == [Off EXCEPT !.at = "sleep"]
    <3>1. asleep \in Loops /\ asleep.due = 0 /\ loop' = [d \in Domains |-> asleep]
      BY <2>1, <2>4
    <3> HIDE DEF asleep
    <3> QED BY <2>2, <3>1
  <2> QED BY <1>10, <2>3, <2>4
<1>11. CASE Start
  BY <1>10, <1>11, <1>t DEF Start, TypeOK, Loops, Cached
<1>12. CASE Pause
  BY <1>10, <1>12, <1>t DEF Pause, TypeOK, Loops, Cached
<1>13. CASE Reset
  <2>1. reading' \in [Shown -> [Places \cup {Sun} -> 0..Absent]]
    <3>1. ASSUME NEW d \in Shown PROVE Updated(d) \in [Places \cup {Sun} -> 0..Absent]
      BY <1>t, <1>z DEF Updated
    <3> QED BY <1>13, <3>1 DEF Reset
  <2> QED BY <1>10, <1>13, <1>t, <2>1, NoInterpolationIs DEF Reset, TypeOK, Loops, Cached
<1>14. CASE Pass
  <2>1. reading' \in [Shown -> [Places \cup {Sun} -> 0..Absent]]
    <3>1. \A d \in Shown, p \in Places \cup {Sun} : reading[d][p] \in Ages
      BY <1>t DEF Ages
    <3>2. \A d \in Shown, p \in Places \cup {Sun} : Older(reading[d][p]) \in Ages
      BY <3>1, OlderIs
    <3> QED BY <1>14, <3>2 DEF Pass, Ages
  <2>2. stamp' \in [Places -> 0..Old \cup {Absent}]
    <3>1. ASSUME NEW p \in Places PROVE Older(stamp[p]) \in 0..Old \cup {Absent}
      <4>1. stamp[p] \in 0..Old \cup {Absent}
        BY <1>t
      <4> QED BY <4>1, AgeBounds DEF Older
    <3> QED BY <1>14, <3>1 DEF Pass
  <2>3. /\ loop' \in [Domains -> Loops]
        /\ \A d \in Domains : loop'[d].due <= Period[d]
    <3> DEFINE Next1(d) == IF loop[d].due > 0 THEN [loop[d] EXCEPT !.due = @ - 1] ELSE loop[d]
    <3>1. ASSUME NEW d \in Domains PROVE Next1(d) \in Loops /\ Next1(d).due <= Period[d]
      <4>1. loop[d] \in Loops /\ loop[d].due <= Period[d] /\ Period[d] \in Nat /\ loop[d].due \in Nat
        BY <1>t DEF Loops
      <4>2. CASE loop[d].due > 0
        <5> DEFINE n == loop[d].due - 1
        <5>1. n \in Nat /\ n <= Period[d] /\ Next1(d) = [loop[d] EXCEPT !.due = n]
          BY <4>1, <4>2
        <5> HIDE DEF n, Next1
        <5>2. [loop[d] EXCEPT !.due = n] \in Loops /\ [loop[d] EXCEPT !.due = n].due = n
          BY <4>1, <5>1 DEF Loops
        <5> QED BY <5>1, <5>2
      <4>3. CASE ~(loop[d].due > 0)
        BY <4>1, <4>3
      <4> QED BY <4>2, <4>3
    <3>2. loop' = [d \in Domains |-> Next1(d)]
      BY <1>14 DEF Pass
    <3> HIDE DEF Next1
    <3> QED BY <3>1, <3>2
  <2>4. resolve' \in [of : Places \cup {Sun}, age : 0..1]
    <3>1. NoFetch \in [of : Places \cup {Sun}, age : 0..1]
      BY DEF NoFetch
    <3>2. [resolve EXCEPT !.age = 1] \in [of : Places \cup {Sun}, age : 0..1]
      BY <1>t
    <3> QED BY <1>14, <3>1, <3>2 DEF Pass
  <2> QED BY <1>14, <1>t, <2>1, <2>2, <2>3, <2>4 DEF Pass, TypeOK, Loops, Cached
<1>15. CASE UNCHANGED vars
  BY <1>15, <1>t DEF vars, TypeOK, Loops, Cached
<1> QED
  BY <1>1, <1>2, <1>3, <1>4, <1>5, <1>6, <1>7, <1>8, <1>9, <1>11, <1>12, <1>13, <1>14, <1>15 DEF Next

\* The types hold in every reachable state, whatever domains are refreshed at
\* whatever intervals, for any stations, places of agents and TTL.
THEOREM EarthTypeCorrect == Spec => []TypeOK
  BY EarthTypeInit, EarthTypeStep, PTL DEF Spec
-----------------------------------------------------------------------------
(* Ages.  HonestAge is inductive: a refresh and an answer on demand write   *)
(* reading and record together, whoever is first, and a reset leaves the    *)
(* record of a place older than the reading it replaces.                    *)

LEMMA AgesAre ==
  ASSUME TypeOK, NEW p \in Places
  PROVE  /\ reading["weather"][p] \in Ages /\ stamp[p] \in Ages
         /\ stamp[p] # Absent <=> stamp[p] <= Old
<1>1. stamp[p] \in 0..Old \cup {Absent}
  BY DEF TypeOK
<1>2. "weather" \in Shown
  BY DEF Shown, Listed
<1> QED BY <1>1, <1>2, AgeBounds DEF TypeOK, Ages

LEMMA HonestStep == TypeOK /\ HonestAge /\ [Next]_vars => HonestAge'
<1> SUFFICES ASSUME TypeOK, HonestAge, [Next]_vars PROVE HonestAge'
  OBVIOUS
<1> DEFINE w == reading["weather"]
<1>w. "weather" \in Shown /\ reading \in [Shown -> [Places \cup {Sun} -> Ages]] /\ stamp \in [Places -> Ages]
  <2>1. \A p \in Places : stamp[p] \in Ages
    BY AgesAre
  <2> QED BY <2>1 DEF TypeOK, Ages, Shown, Listed
<1>1. ASSUME UNCHANGED <<reading, stamp>> PROVE HonestAge'
  BY <1>1 DEF HonestAge, Live
<1>2. ASSUME NEW d \in Domains, NEW p \in Places \cup {Sun}, FetchLands(d, p) PROVE HonestAge'
  <2>1. CASE d = "weather"
    <3>1. stamp' = [stamp EXCEPT ![p] = 0] /\ reading' = [reading EXCEPT !["weather"][p] = 0]
      BY <1>2, <2>1 DEF FetchLands
    <3>2. ASSUME NEW q \in Places
          PROVE  /\ reading'["weather"][q] = IF q = p THEN 0 ELSE w[q]
                 /\ stamp'[q] = IF q = p THEN 0 ELSE stamp[q]
      BY <1>w, <3>1
    <3> QED BY <3>2 DEF HonestAge, Live
  <2>2. CASE d # "weather"
    <3>1. stamp' = stamp /\ reading' = [reading EXCEPT ![d][p] = 0]
      BY <1>2, <2>2 DEF FetchLands
    <3>2. reading'["weather"] = w
      BY <1>w, <2>2, <3>1
    <3> QED BY <3>1, <3>2 DEF HonestAge, Live
  <2> QED BY <2>1, <2>2
<1>3. CASE ResolveEnds
  <2>1. resolve.of \in Places \cup {Sun} /\ resolve.age \in Nat
    BY DEF TypeOK
  <2>2. CASE reading' = reading /\ stamp' = stamp
    BY <1>1, <2>2
  <2>3. CASE /\ reading' = [reading EXCEPT !["weather"][resolve.of] = 0]
             /\ stamp' = [stamp EXCEPT ![resolve.of] = resolve.age]
    <3>1. ASSUME NEW q \in Places
          PROVE  /\ reading'["weather"][q] = IF q = resolve.of THEN 0 ELSE w[q]
                 /\ stamp'[q] = IF q = resolve.of THEN resolve.age ELSE stamp[q]
      BY <1>w, <2>3
    <3> QED BY <2>1, <3>1 DEF HonestAge, Live
  <2> QED BY <1>3, <2>2, <2>3 DEF ResolveEnds, Stamped
<1>4. CASE Reset
  <2>1. ASSUME NEW q \in Places
        PROVE  reading'["weather"][q] = Simulated \/ reading'["weather"][q] = w[q]
    <3>1. reading'["weather"] = Updated("weather")
      BY <1>4, <1>w DEF Reset
    <3> QED BY <3>1 DEF Updated
  <2>2. stamp' = stamp
    BY <1>4 DEF Reset
  <2> QED BY <2>1, <2>2, AgeBounds DEF HonestAge, Live
<1>5. CASE Pass
  <2>1. SUFFICES ASSUME NEW q \in Places, stamp'[q] # Absent, reading'["weather"][q] <= Old
                 PROVE  stamp'[q] >= reading'["weather"][q]
    BY DEF HonestAge, Live
  <2>2. reading'["weather"][q] = Older(w[q]) /\ stamp'[q] = Older(stamp[q])
    BY <1>5, <1>w DEF Pass
  <2>3. w[q] \in Ages /\ stamp[q] \in Ages /\ (stamp[q] # Absent <=> stamp[q] <= Old)
    BY AgesAre
  <2>4. w[q] <= Old
    BY <2>1, <2>2, <2>3, OlderIs, AgeBounds DEF Ages
  <2>5. stamp[q] # Absent
    BY <2>1, <2>2, <2>3, OlderIs, AgeBounds DEF Ages
  <2>6. stamp[q] >= w[q]
    BY <2>4, <2>5 DEF HonestAge, Live
  <2> QED BY <2>2, <2>3, <2>6, OlderMonotone
<1>6. CASE /\ [Next]_vars /\ ~ResolveEnds /\ ~Reset /\ ~Pass
           /\ \A d \in Domains, p \in Places \cup {Sun} : ~FetchLands(d, p)
  <2>1. UNCHANGED <<reading, stamp>>
    BY <1>6 DEF Next, vars, Wake, FetchFails, RefreshGeography, Tick, LookUp, GetWind, ResolveBegins,
                Start, Pause
  <2> QED BY <1>1, <2>1
<1> QED BY <1>2, <1>3, <1>4, <1>5, <1>6

\* No reading of the weather claims to be younger than it is, whichever of the
\* refresh loop and the answers on demand comes first, at any TTL.
THEOREM HonestAgeHolds == Spec => []HonestAge
<1>1. Init => HonestAge
  BY DEF Init, HonestAge
<1>2. TypeOK /\ HonestAge /\ [Next]_vars => HonestAge'
  BY HonestStep
<1> QED BY <1>1, <1>2, EarthTypeCorrect, PTL DEF Spec
-----------------------------------------------------------------------------
(* Interpolated wind.  OneUpdateBehind alone is not inductive: what a value *)
(* missed of a station is still nothing while the refresh has the station   *)
(* before it.                                                              *)

NotYetMissed ==
  "wind" \in Domains =>
    \A p \in Calm : \A s \in DOMAIN behind[p] : s \in loop["wind"].todo => behind[p][s] = 0

BehindInv == OneUpdateBehind /\ NotYetMissed

LEMMA BehindStep == TypeOK /\ BehindInv /\ [Next]_vars => BehindInv'
<1> SUFFICES ASSUME TypeOK, BehindInv, [Next]_vars PROVE BehindInv'
  OBVIOUS
<1>t. behind \in [Calm -> Cached] /\ \A p \in Calm : \A s \in DOMAIN behind[p] : behind[p][s] \in Updates
  BY DEF TypeOK, Cached, Updates
\* No value changes, and no station is added to the round of a refresh.
<1>1. ASSUME behind' = behind, "wind" \in Domains => loop'["wind"].todo \subseteq loop["wind"].todo
      PROVE  BehindInv'
  BY <1>1 DEF BehindInv, OneUpdateBehind, NotYetMissed
\* Nothing is cached any more.
<1>2. ASSUME behind' = NoInterpolation PROVE BehindInv'
  BY <1>2, NoInterpolationIs DEF BehindInv, OneUpdateBehind, NotYetMissed
<1>3. ASSUME NEW d \in Domains, Wake(d) PROVE BehindInv'
  <2>1. \A e \in Domains : loop'[e].todo = IF e = d THEN Tracked(d) ELSE loop[e].todo
    BY <1>3, GoingIs, TrackedArePlaces DEF Wake
  <2>2. CASE d = "wind" /\ Tracked(d) # {}
    BY <1>2, <1>3, <2>2 DEF Wake, Cleared
  <2>3. CASE ~(d = "wind" /\ Tracked(d) # {})
    BY <1>1, <1>3, <2>1, <2>3 DEF Wake, Cleared
  <2> QED BY <2>2, <2>3
<1>4. ASSUME NEW d \in Domains, NEW s \in Places \cup {Sun}, FetchLands(d, s) PROVE BehindInv'
  <2>0. loop[d].todo \ {s} \in SUBSET (Places \cup {Sun})
    BY DEF TypeOK
  <2>1. \A e \in Domains : loop'[e].todo = IF e = d THEN loop[d].todo \ {s} ELSE loop[e].todo
    BY <1>4, <2>0, GoingIs DEF FetchLands
  <2>2. ASSUME NEW p \in Calm
        PROVE  /\ DOMAIN behind'[p] = DOMAIN behind[p]
               /\ \A t \in DOMAIN behind[p] :
                    behind'[p][t] = IF d = "wind" /\ t = s /\ behind[p][t] < 2
                                    THEN behind[p][t] + 1 ELSE behind[p][t]
    BY <1>4, OutdatedIs DEF FetchLands
  <2>3. ASSUME NEW p \in Calm, NEW t \in DOMAIN behind[p]
        PROVE  /\ behind'[p][t] <= 1
               /\ "wind" \in Domains /\ t \in loop'["wind"].todo => behind'[p][t] = 0
    <3>1. behind[p][t] \in Updates /\ behind[p][t] <= 1
      BY <1>t DEF BehindInv, OneUpdateBehind
    <3>2. CASE d = "wind" /\ t = s
      <4>1. s \in loop["wind"].todo /\ s \notin loop'["wind"].todo
        BY <1>4, <2>1, <3>2 DEF FetchLands
      <4>2. behind[p][t] = 0
        BY <3>2, <4>1 DEF BehindInv, NotYetMissed
      <4> QED BY <2>2, <3>2, <4>1, <4>2
    <3>3. CASE ~(d = "wind" /\ t = s)
      <4>1. behind'[p][t] = behind[p][t]
        BY <2>2, <3>3
      <4>2. "wind" \in Domains => loop'["wind"].todo \subseteq loop["wind"].todo
        BY <2>1
      <4> QED BY <3>1, <4>1, <4>2 DEF BehindInv, NotYetMissed
    <3> QED BY <3>2, <3>3
  <2> QED BY <2>2, <2>3 DEF BehindInv, OneUpdateBehind, NotYetMissed
<1>5. ASSUME NEW d \in Domains, NEW s \in Places \cup {Sun}, FetchFails(d, s) PROVE BehindInv'
  <2>0. loop[d].todo \ {s} \in SUBSET (Places \cup {Sun})
    BY DEF TypeOK
  <2>1. \A e \in Domains : loop'[e].todo = IF e = d THEN loop[d].todo \ {s} ELSE loop[e].todo
    BY <1>5, <2>0, GoingIs DEF FetchFails
  <2> QED BY <1>1, <1>5, <2>1 DEF FetchFails
<1>6. CASE RefreshGeography
  <2>1. \A e \in Domains : loop'[e].todo = IF e = "geography" THEN {} ELSE loop[e].todo
    BY <1>6, GoingIs DEF RefreshGeography
  <2> QED BY <1>1, <1>6, <2>1 DEF RefreshGeography
<1>7. ASSUME NEW p \in Places, GetWind(p) PROVE BehindInv'
  <2>1. behind' = [behind EXCEPT ![p] = Interpolated] /\ loop' = loop
    BY <1>7 DEF GetWind
  <2>2. \A q \in Calm : behind'[q] = IF q = p THEN Interpolated ELSE behind[q]
    BY <1>t, <2>1
  <2>3. \A s \in DOMAIN Interpolated : Interpolated[s] = 0
    BY DEF Interpolated
  <2> QED BY <2>1, <2>2, <2>3 DEF BehindInv, OneUpdateBehind, NotYetMissed
<1>8. CASE Start \/ Pause
  <2>1. \A d \in Domains : loop'[d].todo = {}
    BY <1>8 DEF Start, Pause, Off
  <2> QED BY <1>1, <1>8, <2>1 DEF Start, Pause
<1>9. CASE Reset
  BY <1>2, <1>9 DEF Reset
<1>10. CASE Pass
  <2>1. ASSUME NEW d \in Domains PROVE loop'[d].todo = loop[d].todo
    <3>1. loop'[d] = IF loop[d].due > 0 THEN [loop[d] EXCEPT !.due = @ - 1] ELSE loop[d]
      BY <1>10 DEF Pass
    <3>2. loop[d] \in Loops
      BY DEF TypeOK, Loops
    <3>3. \A n : [loop[d] EXCEPT !.due = n].todo = loop[d].todo
      BY <3>2 DEF Loops
    <3> QED BY <3>1, <3>3
  <2> QED BY <1>1, <1>10, <2>1 DEF Pass
<1>11. CASE \/ Tick \/ ResolveEnds \/ UNCHANGED vars
            \/ \E p \in Places : LookUp(p) \/ ResolveBegins(p)
  <2>1. behind' = behind /\ loop' = loop
    BY <1>11 DEF Tick, ResolveEnds, LookUp, ResolveBegins, vars
  <2> QED BY <1>1, <2>1
<1> QED BY <1>3, <1>4, <1>5, <1>6, <1>7, <1>8, <1>9, <1>10, <1>11 DEF Next

\* An interpolated wind misses one update of a station at most, even if it was
\* cached in the middle of a refresh, for any stations and intervals.
THEOREM OneUpdateBehindHolds == Spec => []OneUpdateBehind
<1>1. Init => BehindInv
  BY NoInterpolationIs DEF Init, BehindInv, OneUpdateBehind, NotYetMissed
<1>2. TypeOK /\ BehindInv /\ [Next]_vars => BehindInv'
  BY BehindStep
<1>3. BehindInv => OneUpdateBehind
  BY DEF BehindInv
<1> QED BY <1>1, <1>2, <1>3, EarthTypeCorrect, PTL DEF Spec
=============================================================================
