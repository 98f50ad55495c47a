----------------------------- MODULE LiveEarth -----------------------------
(***************************************************************************)
(* What the world shows of the real Earth: weather, wind, air quality,     *)
(* astronomy and solar activity.  Every domain has a refresh loop that     *)
(* asks a source place by place; weather is also resolved on demand, and   *)
(* wind is interpolated, and cached, for places without a station.         *)
(*                                                                         *)
(* Time is counted in half hours, the interval of the weather loop.  A     *)
(* reading is known by its age, capped at Old, or was computed from the    *)
(* history of other days.  Of the geography, only the set of cached        *)
(* locations matters here; it is assumed large enough to evict none.       *)
(***************************************************************************)
EXTENDS Integers, FiniteSets

CONSTANTS
  Domains,   \* the enabled refresh policies
  Period,    \* [Domains -> Nat]: half hours from one refresh to the next
  Weathered, \* stations with a history of weather, the 50 most populated
  Windy,     \* stations with a history of wind
  Homes,     \* places where agents stand
  Places,    \* all places
  TTL        \* of weather resolved on demand, 2 (one hour) in the code

Sun == "sun"
Old == TTL + 1        \* bound: larger ages are not told apart
Simulated == TTL + 2  \* computed from history
Absent == TTL + 3

Listed == {"weather", "wind", "atmosphere", "astronomy"}
Shown  == Listed \cup {"data_feeds"}  \* has readings, whether or not they are refreshed

ASSUME EarthAssumption ==
  /\ Domains \subseteq Listed \cup {"geography", "data_feeds"}
  /\ Period \in [Domains -> Nat \ {0}] /\ TTL \in Nat \ {0}
  /\ Weathered \cup Windy \cup Homes \subseteq Places /\ Sun \notin Places

VARIABLES
  running, \* whether the world runs
  cached,  \* the keys of the geography's cache of locations
  reading, \* [shown domain -> [place -> age, Simulated or Absent]]
  stamp,   \* weather._fetched_at: [place -> age, or Absent]
  loop,    \* the refresh loops: [at, due, todo]
  resolve, \* the on-demand fetch in flight: [place, age], or NoFetch
  behind,  \* the interpolation cache: [place -> [station -> updates of it that the
           \* cached value has missed]], or nothing
  ticked   \* whether a tick has come in this half hour, and since the geography
           \* was refreshed: ticks are seconds apart

vars == <<running, cached, reading, stamp, loop, resolve, behind, ticked>>

NoFetch == [of |-> Sun, age |-> 0]
Off == [at |-> "off", due |-> 0, todo |-> {}]
Live(d, p) == reading[d][p] <= Old
Calm == Places \ Windy

TypeOK ==
  /\ running \in BOOLEAN /\ ticked \in BOOLEAN /\ cached \subseteq Places
  /\ reading \in [Shown -> [Places \cup {Sun} -> 0..Absent]]
  /\ stamp \in [Places -> 0..Old \cup {Absent}]
  /\ loop \in [Domains -> [at : {"off", "sleep", "run"}, due : Nat, todo : SUBSET (Places \cup {Sun})]]
  /\ \A d \in Domains : loop[d].due <= Period[d]
  /\ resolve \in [of : Places \cup {Sun}, age : 0..1]
  /\ behind \in [Calm -> [{} -> 0..2] \cup [Windy -> 0..2]]
-----------------------------------------------------------------------------
\* Readings computed from the history: at load and at reset, stations alone, and
\* without touching the record of when a place was fetched.

StationsOf(d) == IF d = "wind" THEN Windy ELSE Weathered
Updated(d) == [p \in Places \cup {Sun} |->
  IF d \in {"weather", "wind"} /\ p \in StationsOf(d) THEN Simulated
  ELSE IF d = "atmosphere" THEN Absent
  ELSE reading[d][p]]

NoInterpolation == [p \in Calm |-> [s \in {} |-> 0]]
-----------------------------------------------------------------------------
\* The refresh loops.

\* The stations of a domain that the geography happens to have in its cache.
Tracked(d) == CASE d \in Listed -> StationsOf(d) \cap cached
                [] d = "data_feeds" -> {Sun}
                [] OTHER -> {}

\* A loop goes on with the places left, or sleeps for its interval.
Going(d, todo) ==
  loop' = [loop EXCEPT ![d] = IF todo = {} THEN [at |-> "sleep", due |-> Period[d], todo |-> {}]
                              ELSE [at |-> "run", due |-> 0, todo |-> todo]]

\* Variant: interpolations are not cleared when the stations are about to change.
ClearedNever(d, todo) == behind

Cleared(d, todo) == IF d = "wind" /\ todo # {} THEN NoInterpolation ELSE behind

Wake(d) ==
  /\ loop[d].at = "sleep" /\ loop[d].due = 0 /\ d # "geography"
  /\ Going(d, Tracked(d))
  /\ behind' = Cleared(d, Tracked(d))
  /\ UNCHANGED <<running, cached, reading, stamp, resolve, ticked>>

\* Each update of a station is missed by the interpolations made before it.
Outdated(d, s) ==
  [p \in Calm |-> [t \in DOMAIN behind[p] |->
     IF d = "wind" /\ t = s /\ behind[p][t] < 2 THEN behind[p][t] + 1 ELSE behind[p][t]]]

FetchLands(d, p) ==
  /\ p \in loop[d].todo
  /\ reading' = [reading EXCEPT ![d][p] = 0]
  /\ stamp' = IF d = "weather" THEN [stamp EXCEPT ![p] = 0] ELSE stamp
  /\ behind' = Outdated(d, p)
  /\ Going(d, loop[d].todo \ {p})
  /\ UNCHANGED <<running, cached, resolve, ticked>>

\* No answer, or an empty one; of solar activity, one with neither the Kp index nor
\* the solar wind.  Astronomy is computed and does not fail.
FetchFails(d, p) ==
  /\ p \in loop[d].todo /\ d # "astronomy"
  /\ Going(d, loop[d].todo \ {p})
  /\ UNCHANGED <<running, cached, reading, stamp, resolve, behind, ticked>>

\* The geography is replaced by an object with empty caches, or could not be loaded.
RefreshGeography ==
  /\ "geography" \in Domains
  /\ loop["geography"].at = "sleep" /\ loop["geography"].due = 0
  /\ cached' \in {{}, cached}
  /\ Going("geography", {}) /\ ticked' = FALSE
  /\ UNCHANGED <<running, reading, stamp, resolve, behind>>
-----------------------------------------------------------------------------
\* The tick, the API and the control of the world.

\* Every tick warms the places of the agents.  Variant: they were warm once.
WarmAtLoad == cached

Warmed == cached \cup Homes

Tick ==
  /\ running /\ ~ticked
  /\ cached' = Warmed /\ ticked' = TRUE
  /\ UNCHANGED <<running, reading, stamp, loop, resolve, behind>>

LookUp(p) ==
  /\ p \notin cached
  /\ cached' = cached \cup {p}
  /\ UNCHANGED <<running, reading, stamp, loop, resolve, behind, ticked>>

\* The value for a place without a station takes the nearest stations into account, up
\* to four within 200 km: here, all of them.
Interpolated == [s \in Windy |-> 0]

\* Agents and the API ask for wind where there is no station.
GetWind(p) ==
  /\ p \in cached \cap Calm /\ DOMAIN behind[p] = {}
  /\ behind' = [behind EXCEPT ![p] = Interpolated]
  /\ UNCHANGED <<running, cached, reading, stamp, loop, resolve, ticked>>

FreshEnough(p) == reading["weather"][p] # Absent /\ stamp[p] < TTL

ResolveBegins(p) ==
  /\ resolve = NoFetch /\ p \in cached /\ ~FreshEnough(p)
  /\ resolve' = [of |-> p, age |-> 0]
  /\ UNCHANGED <<running, cached, reading, stamp, loop, behind, ticked>>

\* The answer is as old as now; its record says when the request was made.
\* Variant: the request is recorded whatever comes of it.
StampAlways(lands) == [stamp EXCEPT ![resolve.of] = resolve.age]

Stamped(lands) == IF lands THEN [stamp EXCEPT ![resolve.of] = resolve.age] ELSE stamp

ResolveEnds ==
  /\ resolve # NoFetch
  /\ \E lands \in BOOLEAN :
       /\ reading' = IF lands THEN [reading EXCEPT !["weather"][resolve.of] = 0] ELSE reading
       /\ stamp' = Stamped(lands)
  /\ resolve' = NoFetch
  /\ UNCHANGED <<running, cached, loop, behind, ticked>>

Start ==
  /\ ~running /\ running' = TRUE
  /\ loop' = [d \in Domains |-> [Off EXCEPT !.at = "sleep"]]
  /\ UNCHANGED <<cached, reading, stamp, resolve, behind, ticked>>

Pause ==
  /\ running /\ running' = FALSE
  /\ loop' = [d \in Domains |-> Off]
  /\ UNCHANGED <<cached, reading, stamp, resolve, behind, ticked>>

Reset ==
  /\ running' = FALSE
  /\ loop' = [d \in Domains |-> Off]
  /\ reading' = [d \in Shown |-> Updated(d)]
  /\ behind' = NoInterpolation
  /\ UNCHANGED <<cached, stamp, resolve, ticked>>

Older(a) == IF a < Old THEN a + 1 ELSE a

\* Half an hour passes: loops that are due have run and a tick has come by then,
\* and a request takes no longer than this.
Pass ==
  /\ running => ticked
  /\ \A d \in Domains : loop[d].at # "run" /\ (loop[d].at = "sleep" => loop[d].due > 0)
  /\ resolve.age = 0
  /\ reading' = [d \in Shown |-> [p \in Places \cup {Sun} |-> Older(reading[d][p])]]
  /\ stamp' = [p \in Places |-> Older(stamp[p])]
  /\ loop' = [d \in Domains |-> IF loop[d].due > 0 THEN [loop[d] EXCEPT !.due = @ - 1] ELSE loop[d]]
  /\ resolve' = IF resolve = NoFetch THEN NoFetch ELSE [resolve EXCEPT !.age = 1]
  /\ ticked' = FALSE
  /\ UNCHANGED <<running, cached, behind>>

\* load(): stations and the places of the agents have been queried.
Init ==
  /\ running = FALSE /\ ticked = FALSE
  /\ cached = Weathered \cup Windy \cup Homes
  /\ reading = [d \in Shown |-> [p \in Places \cup {Sun} |->
       IF d \in {"weather", "wind", "astronomy"} /\ p \in StationsOf(d) THEN Simulated
       ELSE Absent]]
  /\ stamp = [p \in Places |-> Absent]
  /\ loop = [d \in Domains |-> Off]
  /\ resolve = NoFetch /\ behind = NoInterpolation

Next ==
  \/ \E d \in Domains : Wake(d)
  \/ \E d \in Domains, p \in Places \cup {Sun} : FetchLands(d, p) \/ FetchFails(d, p)
  \/ RefreshGeography
  \/ Tick
  \/ \E p \in Places : LookUp(p) \/ GetWind(p) \/ ResolveBegins(p)
  \/ ResolveEnds
  \/ Start \/ Pause \/ Reset
  \/ Pass

\* asyncio runs what is ready; time passes; a source that is asked again and again
\* for a place answers again and again.
Fairness ==
  /\ \A d \in Domains :
       /\ WF_vars(Wake(d))
       /\ WF_vars(\E p \in Places \cup {Sun} : FetchLands(d, p) \/ FetchFails(d, p))
  /\ \A d \in Domains \cap Listed : \A p \in StationsOf(d) : SF_vars(FetchLands(d, p))
  /\ WF_vars(RefreshGeography) /\ WF_vars(Tick) /\ WF_vars(ResolveEnds) /\ WF_vars(Pass)

Spec == Init /\ [][Next]_vars /\ Fairness
-----------------------------------------------------------------------------
\* No reading claims to be younger than it is: what the TTL is measured from is
\* never later than the answer now shown, though refreshes, on-demand answers that
\* overtake one another and failures all write the two separately.
HonestAge ==
  \A p \in Places :
    stamp[p] # Absent /\ Live("weather", p) => stamp[p] >= reading["weather"][p]

\* get_wind may cache a value in the middle of a refresh, when only some of the
\* stations have changed: it is outdated until the next refresh clears it, and
\* never misses two updates of a station.
OneUpdateBehind ==
  \A p \in Calm : \A s \in DOMAIN behind[p] : behind[p][s] <= 1

\* Where agents stand, a station is refreshed again and again while the world runs
\* and its source answers: the tick puts it back into the cache of locations that
\* the weekly refresh of the geography empties.
HomesStayLive ==
  <>[]running => \A d \in Domains \cap Listed : \A p \in Homes \cap StationsOf(d) :
                   []<>(reading[d][p] = 0)

\* "A background refresh scheduler then fetches live current conditions from
\* Open-Meteo so the world stays aligned with real Earth weather" (weather.py): every
\* station is refreshed again and again while the world runs.
StationsStayLive ==
  <>[]running => \A p \in Weathered : []<>(reading["weather"][p] = 0)
=============================================================================
