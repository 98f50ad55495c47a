---------------------------- MODULE SeedingProofs ----------------------------
(***************************************************************************)
(* Whatever the countries and stations, and however often the server and   *)
(* the scripts are killed: nothing is stored twice, and a country that is  *)
(* served without its connections was cut between its two commits.         *)
(*                                                                         *)
(* The second part is about Evaluation, for any scenarios, interval of     *)
(* saves, and number of attempts and faults; the third about Geography,    *)
(* for any map, caps and callers.  They share nothing but this file.       *)
(***************************************************************************)
EXTENDS Seeding, Evaluation, Geography, FiniteSetTheorems, SequenceTheorems,
        WellFoundedInduction, TLAPS

\* The shape of the state that the steps rely on.
SeedType ==
  /\ server \in {"down", "migrate", "check", "load", "serve"} \cup Seeds
  /\ todo \subseteq Countries
  /\ placed \in [Countries -> 0..2]
  /\ script \in [Kinds -> [on : BOOLEAN, left : SUBSET Stations]]
  /\ rows \in [Kinds -> [Stations -> 0..2]]

\* What is still to be done is not done: a country on the list has no locations,
\* except the one between its two commits, which is still on the list.
TodoIsOpen ==
  /\ server \in Seeds => todo # {}
  /\ server \in {"fetch", "parse"} => \A c \in todo : placed[c] = 0
  /\ server = "connect" => /\ placed[Country] = 1
                           /\ \A c \in todo \ {Country} : placed[c] = 0

\* And what is not on the list is done.
RestIsDone ==
  /\ server \in Seeds => \A c \in Countries \ (todo \cup Deserted) : placed[c] = 1
  /\ server \in {"load", "serve"} => \A c \in Countries \ Deserted : placed[c] = 1

\* A country with locations has its connections, was cut, or is about to get them.
CutIsKnown ==
  \A c \in Countries : placed[c] > 0 =>
    c \in linked \/ c \in halved \/ (server = "connect" /\ c = Country)

Once == \A c \in Countries : placed[c] <= 1

\* A script has stored nothing yet of the stations it has left.
RowsOnce ==
  \A k \in Kinds, s \in Stations :
    rows[k][s] <= 1 /\ (script[k].on /\ s \in script[k].left => rows[k][s] = 0)

SeedInv == SeedType /\ TodoIsOpen /\ RestIsDone /\ CutIsKnown /\ Once /\ RowsOnce

LEMMA InitSeeds == Init => SeedInv
  BY DEF Init, SeedInv, SeedType, TodoIsOpen, RestIsDone, CutIsKnown, Once, RowsOnce,
         Seeds, Idle

\* The country in work is one of the list.
LEMMA CountryListed == todo # {} => Country \in todo
  BY DEF Country

\* The seeding leaves the scripts alone, and the scripts the seeding.
PlaceType == /\ server \in {"down", "migrate", "check", "load", "serve"} \cup Seeds
             /\ todo \subseteq Countries /\ placed \in [Countries -> 0..2]
PlaceInv == PlaceType /\ TodoIsOpen /\ RestIsDone /\ CutIsKnown /\ Once
ScriptType == /\ script \in [Kinds -> [on : BOOLEAN, left : SUBSET Stations]]
              /\ rows \in [Kinds -> [Stations -> 0..2]]
ScriptInv == ScriptType /\ RowsOnce
places == <<server, todo, placed, linked, halved>>

LEMMA PlacesStay == ASSUME PlaceInv, UNCHANGED places PROVE PlaceInv'
  BY DEF PlaceInv, PlaceType, places, TodoIsOpen, RestIsDone, CutIsKnown, Once, Country, Seeds

LEMMA HistoryStays == ASSUME ScriptInv, UNCHANGED history PROVE ScriptInv'
  BY DEF ScriptInv, ScriptType, history, RowsOnce

\* A server that stops, or has yet to look at the tables, has promised nothing.
LEMMA Idles ==
  ASSUME PlaceInv, UNCHANGED <<todo, tables>>, halved \subseteq halved',
         server' \in {"down", "migrate", "check"},
         server = "connect" => Country \in halved'
  PROVE  PlaceInv'
  BY DEF PlaceInv, PlaceType, tables, TodoIsOpen, RestIsDone, CutIsKnown, Once, Seeds

\* On to the next country, when the one in work is done.
LEMMA GoesOn ==
  ASSUME PlaceInv, server \in {"parse", "connect"}, NextCountry,
         placed' = placed, linked \subseteq linked', halved' = halved,
         Country \in Deserted \/ placed[Country] = 1,
         server = "connect" => Country \in linked'
  PROVE  PlaceInv'
<1>1. Country \in todo
  BY CountryListed DEF PlaceInv, TodoIsOpen, Seeds
<1> DEFINE c == Country
<1> HIDE DEF c
<1>2. /\ todo' = todo \ {c} /\ c \in todo
      /\ server' = IF todo = {c} THEN "load" ELSE "fetch"
      /\ c \in Deserted \/ placed[c] = 1
  BY <1>1 DEF c, NextCountry
<1>3. PlaceType' /\ Once'
  BY <1>2 DEF PlaceInv, PlaceType, Once, Seeds
<1>4. TodoIsOpen'
  <2>1. \A d \in todo' : placed[d] = 0
    BY <1>2 DEF PlaceInv, TodoIsOpen, c, Seeds
  <2> QED BY <2>1, <1>2 DEF TodoIsOpen, Seeds
<1>5. RestIsDone'
  BY <1>2 DEF PlaceInv, RestIsDone, PlaceType, Seeds
<1>6. CutIsKnown'
  BY <1>2 DEF PlaceInv, CutIsKnown, c
<1> QED BY <1>3, <1>4, <1>5, <1>6 DEF PlaceInv

\* What a start of the server does to the tables.
LEMMA PlaceSteps ==
  ASSUME PlaceInv,
         \/ Start \/ (\E ok \in BOOLEAN : Migrate(ok)) \/ Check \/ Fetch \/ FetchFails
         \/ Parse \/ Connect \/ Load \/ Kill \/ KillInWrite
  PROVE  PlaceInv'
<1>1. CASE Start
  BY <1>1, Idles DEF Start, tables
<1>2. ASSUME NEW ok \in BOOLEAN, Migrate(ok) PROVE PlaceInv'
  BY <1>2, Idles DEF Migrate, tables
<1>3. CASE Check
  <2>1. /\ todo' = {c \in Countries : placed[c] = 0} /\ placed' = placed
        /\ linked' = linked /\ halved' = halved /\ server = "check"
        /\ server' = IF todo' = {} THEN "load" ELSE "fetch"
    BY <1>3 DEF Check, Present, tables, PlaceInv, PlaceType
  <2>2. \A c \in Countries \ todo' : placed[c] = 1
    BY <2>1 DEF PlaceInv, PlaceType, Once
  <2>3. PlaceType' /\ Once' /\ TodoIsOpen' /\ RestIsDone'
    BY <2>1, <2>2 DEF PlaceInv, PlaceType, Once, TodoIsOpen, RestIsDone, Seeds
  <2>4. CutIsKnown'
    BY <2>1 DEF PlaceInv, CutIsKnown
  <2> QED BY <2>3, <2>4 DEF PlaceInv
<1>4. CASE Fetch
  <2>1. /\ server = "fetch" /\ server' = "parse" /\ UNCHANGED <<todo, placed, linked, halved>>
    BY <1>4 DEF Fetch, tables
  <2> QED BY <2>1 DEF PlaceInv, PlaceType, TodoIsOpen, RestIsDone, CutIsKnown, Once, Seeds
<1>5. CASE FetchFails
  BY <1>5, Idles DEF FetchFails, tables
<1>6. CASE Parse
  <2>1. CASE ~Readable(Country)
    BY <1>6, <2>1, Idles DEF Parse, tables
  <2>2. CASE Readable(Country) /\ Country \in Deserted
    BY <1>6, <2>2, GoesOn DEF Parse
  <2>3. CASE Readable(Country) /\ Country \notin Deserted
    <3>1. Country \in todo /\ placed[Country] = 0 /\ Country' = Country
      BY <1>6, <2>3, CountryListed DEF Parse, PlaceInv, TodoIsOpen, Seeds, Country
    <3> DEFINE c == Country
    <3>2. /\ server = "parse" /\ server' = "connect" /\ c' = c
          /\ placed' = [placed EXCEPT ![c] = 1] /\ UNCHANGED <<todo, linked, halved>>
      BY <1>6, <2>3, <3>1 DEF Parse
    <3>3. c \in todo /\ c \in Countries
      BY <3>1 DEF PlaceInv, PlaceType
    <3>4. PlaceType' /\ Once' /\ RestIsDone'
      <4> HIDE DEF c
      <4> QED BY <3>2, <3>3 DEF PlaceInv, PlaceType, Once, RestIsDone, Seeds
    <3>5. TodoIsOpen'
      <4>1. placed'[c] = 1 /\ \A d \in todo \ {c} : placed'[d] = 0
        <5> HIDE DEF c
        <5> QED BY <3>2, <3>3 DEF PlaceInv, PlaceType, TodoIsOpen
      <4> QED BY <4>1, <3>2, <3>3 DEF TodoIsOpen, Seeds
    <3>6. CutIsKnown'
      <4>1. \A d \in Countries : placed'[d] > 0 => d \in linked \/ d \in halved \/ d = c
        <5> HIDE DEF c
        <5> QED BY <3>2, <3>3 DEF PlaceInv, PlaceType, CutIsKnown
      <4> QED BY <4>1, <3>2 DEF CutIsKnown
    <3> QED BY <3>4, <3>5, <3>6 DEF PlaceInv
  <2> QED BY <2>1, <2>2, <2>3
<1>7. CASE Connect
  <2>1. placed[Country] = 1
    BY <1>7 DEF Connect, PlaceInv, TodoIsOpen
  <2> QED BY <1>7, <2>1, GoesOn DEF Connect
<1>8. CASE Load
  <2>1. /\ server = "load" /\ server' = "serve" /\ UNCHANGED <<todo, placed, linked, halved>>
    BY <1>8 DEF Load, tables
  <2> QED BY <2>1 DEF PlaceInv, PlaceType, TodoIsOpen, RestIsDone, CutIsKnown, Once, Seeds
<1>9. CASE Kill
  BY <1>9, Idles DEF Kill, tables
<1>10. CASE KillInWrite
  BY <1>10, Idles DEF KillInWrite, tables
<1> QED BY <1>1, <1>2, <1>3, <1>4, <1>5, <1>6, <1>7, <1>8, <1>9, <1>10

\* A script stores what it has left, or starts from an empty table.
LEMMA ScriptSteps ==
  ASSUME ScriptInv, NEW k \in Kinds, Script(k)
  PROVE  ScriptInv'
<1>1. CASE Begin(k)
  BY <1>1 DEF Begin, Cleared, Selected, ScriptInv, ScriptType, RowsOnce
<1>2. ASSUME NEW S \in SUBSET Stations, S \subseteq script[k].left, script[k].on,
             NEW came \in SUBSET S, Stored(k, S, came)
      PROVE  ScriptInv'
  <2> DEFINE stored == [s \in Stations |-> IF s \in came /\ rows[k][s] < 2
                                           THEN rows[k][s] + 1 ELSE rows[k][s]]
  <2>1. stored \in [Stations -> 0..2]
    BY DEF ScriptInv, ScriptType
  <2>2. script' = [script EXCEPT ![k].left = @ \ S] /\ rows' = [rows EXCEPT ![k] = stored]
    BY <1>2 DEF Stored
  <2>3. \A s \in Stations : stored[s] <= 1 /\ (s \in script[k].left \ S => stored[s] = 0)
    BY <1>2 DEF ScriptInv, ScriptType, RowsOnce
  <2> HIDE DEF stored
  <2>4. ScriptType'
    BY <2>1, <2>2 DEF ScriptInv, ScriptType
  <2>5. RowsOnce'
    BY <2>2, <2>3 DEF ScriptInv, ScriptType, RowsOnce
  <2> QED BY <2>4, <2>5 DEF ScriptInv
<1>3. CASE StoreStation(k)
  <2>1. PICK s \in script[k].left : \E came \in SUBSET {s} : Stored(k, {s}, came)
    BY <1>3 DEF StoreStation
  <2>2. PICK came \in SUBSET {s} : Stored(k, {s}, came)
    BY <2>1
  <2>3. {s} \in SUBSET Stations /\ {s} \subseteq script[k].left
    BY DEF ScriptInv, ScriptType
  <2> QED BY <1>2, <1>3, <2>2, <2>3 DEF StoreStation
<1>4. CASE StoreAll(k)
  <2>1. script[k].left \in SUBSET Stations
    BY DEF ScriptInv, ScriptType
  <2> QED BY <1>2, <1>4, <2>1 DEF StoreAll
<1>5. CASE End(k)
  BY <1>5 DEF End, Idle, ScriptInv, ScriptType, RowsOnce
<1> QED BY <1>1, <1>3, <1>4, <1>5 DEF Script

LEMMA SeedInvSteps == SeedInv /\ [Next]_vars => SeedInv'
<1> SUFFICES ASSUME SeedInv, [Next]_vars PROVE SeedInv'
  OBVIOUS
<1>1. PlaceInv /\ ScriptInv
  BY DEF SeedInv, SeedType, PlaceInv, PlaceType, ScriptInv, ScriptType
<1>2. PlaceInv' /\ ScriptInv' => SeedInv'
  BY DEF SeedInv, SeedType, PlaceInv, PlaceType, ScriptInv, ScriptType
<1>3. CASE \/ Start \/ (\E ok \in BOOLEAN : Migrate(ok)) \/ Check \/ Fetch \/ FetchFails
           \/ Parse \/ Connect \/ Load \/ Kill \/ KillInWrite
  <2>1. UNCHANGED history
    BY <1>3 DEF Start, Migrate, Check, Fetch, FetchFails, Parse, Connect, Load, Kill, KillInWrite
  <2> QED BY <1>1, <1>2, <1>3, <2>1, PlaceSteps, HistoryStays
<1>4. ASSUME NEW k \in Kinds, Script(k) PROVE SeedInv'
  <2>1. UNCHANGED places
    BY <1>4 DEF Script, Begin, StoreStation, StoreAll, Stored, End, places, tables
  <2> QED BY <1>1, <1>2, <1>4, <2>1, PlacesStay, ScriptSteps
<1>5. CASE UNCHANGED vars
  BY <1>1, <1>2, <1>5, PlacesStay, HistoryStays DEF vars, places, history
<1> QED BY <1>3, <1>4, <1>5 DEF Next

LEMMA SeedInvHolds == Spec => []SeedInv
  BY InitSeeds, SeedInvSteps, PTL DEF Spec

\* run() and the scripts of history: no order of kills, failures and restarts seeds a
\* country twice, or stores the history of a station twice.
THEOREM SeedsOnce == Spec => []PlacedOnce
<1>1. SeedInv => PlacedOnce
  BY DEF SeedInv, Once, RowsOnce, PlacedOnce
<1> QED BY <1>1, SeedInvHolds, PTL

\* _seed_one_country: a country served without its connections was cut between its
\* two commits.
THEOREM LinksUnlessCut == Spec => []LinkedUnlessHalved
<1>1. SeedInv => LinkedUnlessHalved
  BY DEF SeedInv, RestIsDone, CutIsKnown, LinkedUnlessHalved
<1> QED BY <1>1, SeedInvHolds, PTL
-----------------------------------------------------------------------------
\* Evaluation.

\* The suite is yet to poll the scenario.
Preparing == {"version", "reset", "interval", "start"}

\* What has been polled of the present scenario: the ticks ascend from the first to
\* the last, a snapshot that is held while the interval changes is the latest and
\* late enough, and there is room for it.
Polled ==
  /\ first = Never <=> last = Never
  /\ first # Never => first <= last
  /\ (at = "poll" /\ got = <<>>) => first = Never
  /\ at \in Preparing => first = Never /\ got = <<>>
  /\ at \in {"poll", "change"} => Len(got) < Scenario.ticks
  /\ \A i \in DOMAIN got : /\ first # Never /\ got[1].tick = first
                           /\ first <= got[i].tick /\ got[i].tick <= last
  /\ \A i, j \in DOMAIN got : i < j => got[i].tick < got[j].tick
  /\ at = "change" => /\ first # Never /\ Len(held) = 1 /\ held[1].tick = last /\ due
                      /\ last - first >= Scenario.change
                      /\ \A i \in DOMAIN got : got[i].tick < last
                      /\ got = <<>> => first = last

\* Whether the change is still to come can be seen from the ticks that were collected.
DueInTicks ==
  /\ at = "version" \/ (at \in Preparing => due = (Scenario.change # Never))
  /\ due => /\ Scenario.change # Never
            /\ \A i \in DOMAIN got : got[i].tick - first < Scenario.change
  /\ (~due /\ Scenario.change # Never) =>
       at = "version" \/ \E i \in DOMAIN got : got[i].tick - first >= Scenario.change

\* The interval in force is the one the suite has set last.
RateInForce ==
  smooth => /\ at \in {"start", "poll", "change"} =>
                 world.rate = IF due \/ Scenario.change = Never THEN Scenario.rate ELSE Scenario.to
            /\ at = "change" => held[1].rate = Scenario.rate

\* Attempts at reaching the server, and the tables so far.
Tallies ==
  /\ at = "version" => tries < Retries
  /\ at # "failed" => \A k \in 1..3 : sink[k] = IF at = "over" THEN sc ELSE sc - 1

EvaluationInv == EvaluationTypeOK /\ Tallies /\ Polled /\ DueInTicks /\ RateInForce /\ RegimesApart
LEMMA EvaluationConstants ==
  /\ SaveEvery \in Nat \ {0} /\ Retries \in Nat \ {0} /\ Ahead \in Nat \ {0} /\ MaxFaults \in Nat
  /\ Default \in STRING /\ Len(Scenarios) \in Nat \ {0} /\ DOMAIN Scenarios = 1..Len(Scenarios)
  /\ \A s \in DOMAIN Scenarios :
       Scenarios[s] \in [rate : STRING, ticks : Nat \ {0}, change : Nat \cup {Never}, to : STRING]
<1>1. SaveEvery \in Nat \ {0} /\ Retries \in Nat \ {0} /\ Ahead \in Nat \ {0} /\ MaxFaults \in Nat
  BY EvaluationAssumption
<1> DEFINE S == [rate : STRING, ticks : Nat \ {0}, change : Nat \cup {Never}, to : STRING]
<1>2. Scenarios \in Seq(S) /\ Scenarios # <<>> /\ Default \in STRING
  BY EvaluationAssumption
<1> HIDE DEF S
<1>3. Len(Scenarios) \in Nat \ {0} /\ DOMAIN Scenarios = 1..Len(Scenarios)
  BY <1>2, EmptySeq
<1>4. \A s \in DOMAIN Scenarios : Scenarios[s] \in S
  BY <1>2, <1>3
<1> QED BY <1>1, <1>2, <1>3, <1>4 DEF S

LEMMA ScenarioTypes ==
  ASSUME EvaluationTypeOK
  PROVE  /\ Scenario.rate \in STRING /\ Scenario.to \in STRING
         /\ Scenario.ticks \in Nat \ {0} /\ Scenario.change \in Nat \cup {Never}
         /\ sc \in Nat \ {0} /\ sc <= Len(Scenarios) /\ Len(Scenarios) \in Nat
  BY EvaluationConstants DEF EvaluationTypeOK, Scenario

Servers == [tick : Nat, rate : STRING, running : BOOLEAN, saved : Nat]
ServerType == world \in Servers /\ world.saved <= world.tick
SuiteType ==
  /\ at \in Stages /\ resets \in BOOLEAN /\ due \in BOOLEAN
  /\ tries \in 0..Retries /\ sc \in DOMAIN Scenarios
  /\ first \in Nat \cup {Never} /\ last \in Nat \cup {Never}
  /\ got \in Seq(Snaps) /\ Len(got) <= Scenario.ticks
  /\ held \in Seq(Snaps) /\ Len(held) <= 1 /\ sink \in [1..3 -> 0..Len(Scenarios)]
CountType == smooth \in BOOLEAN /\ faults \in 0..MaxFaults /\ ahead \in 0..Ahead

LEMMA EvaluationTypeParts ==
  /\ EvaluationTypeOK <=> ServerType /\ SuiteType /\ CountType
  /\ EvaluationTypeOK' <=> ServerType' /\ SuiteType' /\ CountType'
  BY DEF EvaluationTypeOK, ServerType, SuiteType, CountType, Servers

LEMMA EffectTypes ==
  ASSUME EvaluationTypeOK, NEW r \in {"reset", "interval", "change", "start", "pause"}
  PROVE  /\ Effect(r) \in Servers /\ Effect(r).saved <= Effect(r).tick
         /\ r \in {"start", "pause"} => Effect(r).rate = world.rate
         /\ r = "interval" => Effect(r).rate = Scenario.rate
         /\ r = "change" => Effect(r).rate = Scenario.to
<1>1. ServerType /\ Scenario.rate \in STRING /\ Scenario.to \in STRING
  BY EvaluationTypeParts, ScenarioTypes
<1>2. CASE r = "reset"
  <2>1. Effect(r) = [tick |-> 0, rate |-> world.rate, running |-> FALSE, saved |-> 0]
    BY <1>1, <1>2 DEF Effect, ServerType, Servers
  <2>2. world.rate \in STRING /\ world.tick \in Nat
    BY <1>1 DEF ServerType, Servers
  <2>3. Effect(r) \in Servers
    BY <2>1, <2>2 DEF Servers
  <2>4. Effect(r).saved <= Effect(r).tick /\ Effect(r).rate = world.rate
    BY <2>1, <2>2
  <2> QED BY <1>2, <2>3, <2>4
<1>3. CASE r = "interval"
  BY <1>1, <1>3 DEF Effect, ServerType, Servers
<1>4. CASE r = "change"
  BY <1>1, <1>4 DEF Effect, ServerType, Servers
<1>5. CASE r = "start"
  BY <1>1, <1>5 DEF Effect, ServerType, Servers
<1>6. CASE r = "pause"
  <2>1. Effect(r) = [tick |-> world.tick, rate |-> world.rate, running |-> FALSE, saved |-> world.tick]
    BY <1>1, <1>6 DEF Effect, ServerType, Servers
  <2>2. world.rate \in STRING /\ world.tick \in Nat
    BY <1>1 DEF ServerType, Servers
  <2>3. Effect(r) \in Servers
    BY <2>1, <2>2 DEF Servers
  <2>4. Effect(r).saved <= Effect(r).tick /\ Effect(r).rate = world.rate
    BY <2>1, <2>2
  <2> QED BY <1>6, <2>3, <2>4
<1> QED BY <1>2, <1>3, <1>4, <1>5, <1>6

\* What a request leaves of the server, and where the suite goes.
LEMMA RequestTypes ==
  ASSUME EvaluationTypeOK, NEW r \in {"reset", "interval", "start", "pause"}, NEW next, NEW failed,
         Requests(r, next, failed)
  PROVE  /\ ServerType' /\ faults' \in 0..MaxFaults
         /\ at = r /\ at' \in {next, failed}
         /\ (at' = next /\ next # failed) => world' = Effect(r)
         /\ r \in {"start", "pause"} => world'.rate = world.rate
<1>1. ServerType /\ faults \in 0..MaxFaults /\ MaxFaults \in Nat
  BY EvaluationTypeParts, EvaluationConstants DEF CountType
<1>2. /\ at = r /\ at' \in {next, failed} /\ world' \in {world, Effect(r)}
      /\ (at' = next /\ next # failed) => world' = Effect(r)
      /\ faults' \in 0..MaxFaults
  BY <1>1 DEF Requests, Fault
<1>3. /\ Effect(r) \in Servers /\ Effect(r).saved <= Effect(r).tick
      /\ r \in {"start", "pause"} => Effect(r).rate = world.rate
  BY EffectTypes
<1> QED BY <1>1, <1>2, <1>3 DEF ServerType

\* The parts that speak of the samples of a scenario only.
Sampled == <<sc, first, last, due, got, held>>

LEMMA TickKeepsEvaluation ==
  ASSUME EvaluationInv, Tick
  PROVE  EvaluationInv'
<1> USE DEF EvaluationInv
<1>0. UNCHANGED <<resets, at, tries, sc, first, last, due, got, held, sink, faults, smooth>>
  BY DEF Tick, suite
<1>1. EvaluationTypeOK'
  <2>1. ServerType /\ SuiteType /\ CountType
    BY EvaluationTypeParts
  <2>2. PICK n \in {world.tick + 1, world.saved} :
          world' = [tick |-> world.tick + 1, rate |-> world.rate,
                     running |-> world.running, saved |-> n]
    BY <2>1 DEF ServerType, Servers, Tick
  <2>3. ServerType'
    <3>1. /\ world.tick \in Nat /\ world.rate \in STRING /\ world.running \in BOOLEAN
          /\ n \in Nat /\ n <= world.tick + 1
      BY <2>1 DEF ServerType, Servers
    <3>2. world' \in Servers
      BY <2>2, <3>1 DEF Servers
    <3>3. world'.saved <= world'.tick
      BY <2>2, <3>1
    <3> QED BY <3>2, <3>3 DEF ServerType
  <2>4. SuiteType'
    BY <1>0, <2>1 DEF SuiteType, Scenario
  <2>5. CountType'
    BY <1>0, <2>1, EvaluationConstants DEF CountType, Tick
  <2> QED BY <2>3, <2>4, <2>5, EvaluationTypeParts
<1>2. world'.rate = world.rate
  BY EvaluationTypeParts DEF ServerType, Servers, Tick
<1> QED BY <1>0, <1>1, <1>2 DEF Tallies, Polled, DueInTicks, RateInForce, RegimesApart, Scenario

LEMMA RestartKeepsEvaluation ==
  ASSUME EvaluationInv, ServerRestart
  PROVE  EvaluationInv'
<1> USE DEF EvaluationInv
<1>0. UNCHANGED <<resets, at, tries, sc, first, last, due, got, held, sink, ahead>> /\ smooth' = FALSE
  BY DEF ServerRestart, suite
<1>1. EvaluationTypeOK'
  <2>1. ServerType /\ SuiteType /\ CountType
    BY EvaluationTypeParts
  <2>2. ServerType'
    <3>1. world.tick \in Nat /\ world.saved \in Nat
      BY <2>1 DEF ServerType, Servers
    <3>2. PICK t \in Nat :
            world' = [tick |-> t, rate |-> Default, running |-> TRUE, saved |-> t]
      BY <3>1 DEF ServerRestart
    <3>3. world' \in Servers /\ world'.saved <= world'.tick
      BY <3>2, EvaluationConstants DEF Servers
    <3> QED BY <3>3 DEF ServerType
  <2>3. SuiteType'
    BY <1>0, <2>1 DEF SuiteType, Scenario
  <2>4. CountType'
    <3>1. faults' \in 0..MaxFaults
      BY <2>1, EvaluationConstants DEF CountType, Fault, ServerRestart
    <3> QED BY <1>0, <2>1, <3>1 DEF CountType
  <2> QED BY <2>2, <2>3, <2>4, EvaluationTypeParts
<1> QED BY <1>0, <1>1 DEF Tallies, Polled, DueInTicks, RateInForce, RegimesApart, Scenario

LEMMA ReachKeepsEvaluation ==
  ASSUME EvaluationInv, Reach
  PROVE  EvaluationInv'
<1> USE DEF EvaluationInv, Reach, Opening, Fault
<1>1. EvaluationTypeOK'
  <2>1. ServerType /\ SuiteType /\ CountType
    BY EvaluationTypeParts
  <2>2. ServerType'
    BY <2>1 DEF ServerType
  <2>3. tries' \in 0..Retries /\ at' \in Stages /\ due' \in BOOLEAN /\ faults' \in 0..MaxFaults
    <3>1. /\ at \in Stages /\ tries \in 0..Retries /\ due \in BOOLEAN /\ tries < Retries
          /\ faults \in 0..MaxFaults /\ Retries \in Nat /\ MaxFaults \in Nat
      BY <2>1, EvaluationConstants DEF SuiteType, CountType, Tallies
    <3> QED BY <3>1 DEF Stages
  <2>4. SuiteType' /\ CountType'
    BY <2>1, <2>3 DEF SuiteType, CountType, Scenario
  <2> QED BY <2>2, <2>4, EvaluationTypeParts
<1>2. at' \in {"version", "reset", "interval", "failed"} /\ got = <<>> /\ first = Never
  BY DEF Polled, Preparing
<1>3. Tallies'
  BY <1>2, EvaluationTypeParts, EvaluationConstants DEF Tallies, SuiteType
<1>4. Polled'
  BY <1>2, ScenarioTypes DEF Polled, Scenario, Preparing
<1>5. DueInTicks'
  <2>1. due' = (Scenario.change # Never) /\ got' = <<>> /\ Scenario' = Scenario
    BY <1>2 DEF Scenario
  <2>2. DOMAIN got' = {}
    BY <2>1
  <2> QED BY <2>1, <2>2 DEF DueInTicks
<1>6. RateInForce'
  BY <1>2 DEF RateInForce
<1>7. RegimesApart'
  BY <1>2 DEF RegimesApart
<1> QED BY <1>1, <1>3, <1>4, <1>5, <1>6, <1>7

LEMMA SetUpKeepsEvaluation ==
  ASSUME EvaluationInv, SetUp
  PROVE  EvaluationInv'
<1> USE DEF EvaluationInv, SetUp
<1>1. PICK r \in {"reset", "interval", "start"}, next \in {"interval", "start", "poll"} :
        /\ Requests(r, next, "failed")
        /\ <<r, next>> \in {<<"reset", "interval">>, <<"interval", "start">>, <<"start", "poll">>}
        /\ r # "interval" => smooth' = smooth
        /\ r = "interval" => smooth' = TRUE
  OBVIOUS
<1>2. /\ ServerType' /\ faults' \in 0..MaxFaults
      /\ at = r /\ at' \in {next, "failed"}
      /\ at' = next => world' = Effect(r)
      /\ r = "start" => world'.rate = world.rate
  BY <1>1, RequestTypes
<1>3. EvaluationTypeOK'
  <2>1. SuiteType /\ CountType
    BY EvaluationTypeParts
  <2>2. SuiteType' /\ CountType'
    BY <1>1, <1>2, <2>1 DEF SuiteType, CountType, Scenario, Stages
  <2> QED BY <1>2, <2>2, EvaluationTypeParts
<1>4. got = <<>> /\ first = Never /\ due = (Scenario.change # Never) /\ UNCHANGED Sampled
  BY <1>2 DEF Polled, DueInTicks, Preparing, Sampled
<1>5. Tallies'
  BY <1>1, <1>2, <1>4 DEF Tallies, Sampled
<1>6. Polled'
  BY <1>1, <1>2, <1>4, ScenarioTypes DEF Polled, Preparing, Sampled, Scenario
<1>7. DueInTicks'
  BY <1>1, <1>2, <1>4 DEF DueInTicks, Preparing, Sampled, Scenario
<1>8. RateInForce'
  <2>1. CASE r = "interval" /\ at' = "start"
    BY <1>1, <1>2, <1>4, <2>1, EffectTypes DEF RateInForce, Sampled, Scenario
  <2>2. CASE r = "start" /\ at' = "poll"
    BY <1>1, <1>2, <1>4, <2>2 DEF RateInForce, Sampled, Scenario
  <2>3. CASE at' \in {"interval", "failed"}
    BY <2>3 DEF RateInForce
  <2> QED BY <1>1, <1>2, <2>1, <2>2, <2>3
<1>9. RegimesApart'
  BY <1>4 DEF RegimesApart, Sampled
<1> QED BY <1>3, <1>5, <1>6, <1>7, <1>8, <1>9

LEMMA PollAgainKeepsEvaluation ==
  ASSUME EvaluationInv, PollAgain
  PROVE  EvaluationInv'
<1> USE DEF EvaluationInv
<1>0. UNCHANGED <<world, resets, at, tries, sc, first, last, due, got, held, sink, smooth>>
  BY DEF PollAgain, suite
<1>1. EvaluationTypeOK'
  <2>1. ServerType /\ SuiteType /\ CountType
    BY EvaluationTypeParts
  <2>2. ServerType' /\ SuiteType' /\ CountType'
    BY <1>0, <2>1, EvaluationConstants DEF ServerType, SuiteType, CountType, Scenario, Fault, PollAgain
  <2> QED BY <2>2, EvaluationTypeParts
<1> QED BY <1>0, <1>1 DEF Tallies, Polled, DueInTicks, RateInForce, RegimesApart, Scenario

\* A snapshot that is collected: it is later than the others, and its interval is
\* the one its tick says.
LEMMA CollectKeepsSamples ==
  ASSUME EvaluationInv, NEW snap \in Snaps, Collects(snap),
         at \in {"poll", "change"}, Len(got) < Scenario.ticks, sc' = sc, due' \in BOOLEAN, first' \in Nat, last' = snap.tick,
         first # Never => first' = first,
         got = <<>> => first' = snap.tick,
         first' <= snap.tick,
         \A i \in DOMAIN got : got[i].tick < snap.tick,
         due' => due /\ snap.tick - first' < Scenario.change,
         due /\ ~due' => snap.tick - first' >= Scenario.change,
         smooth' => smooth /\ snap.rate = IF due \/ Scenario.change = Never THEN Scenario.rate ELSE Scenario.to
  PROVE  /\ Polled' /\ DueInTicks' /\ RegimesApart'
         /\ got' \in Seq(Snaps) /\ Len(got') <= Scenario'.ticks /\ at' \in {"poll", "final"}
<1> DEFINE n == Len(got)
<1>1. /\ got \in Seq(Snaps) /\ n \in Nat /\ DOMAIN got = 1..n /\ Scenario' = Scenario
      /\ due \in BOOLEAN /\ smooth \in BOOLEAN
      /\ first \in Nat \cup {Never} /\ last \in Nat \cup {Never}
  BY EvaluationTypeParts DEF EvaluationInv, SuiteType, CountType, Scenario
<1>2. /\ got' = Append(got, snap) /\ got' \in Seq(Snaps) /\ Len(got') = n + 1 /\ DOMAIN got' = 1..(n + 1)
      /\ got'[n + 1] = snap /\ \A i \in 1..n : got'[i] = got[i]
  BY <1>1, AppendProperties DEF Collects
<1>3. (\A i \in 1..n : got[i].tick \in Nat) /\ snap.tick \in Nat
  <2>1. \A i \in 1..n : got[i] \in Snaps
    BY <1>1, ElementOfSeq
  <2> QED BY <2>1 DEF Snaps
<1>4. /\ Scenario.ticks \in Nat /\ Scenario.change \in Nat \cup {Never}
  BY ScenarioTypes DEF EvaluationInv
<1>5. n + 1 <= Scenario.ticks /\ at' \in {"poll", "final"}
      /\ (at' = "poll" => n + 1 < Scenario.ticks)
  BY <1>1, <1>4 DEF Collects
<1>6. got'[1].tick = first'
  BY <1>1, <1>2 DEF EvaluationInv, Polled
<1>7. \A i \in 1..n : got'[i].tick < snap.tick /\ first' <= got'[i].tick
  BY <1>1, <1>2, <1>3 DEF EvaluationInv, Polled
<1>8. \A i, j \in 1..(n + 1) : i < j => got'[i].tick < got'[j].tick
  <2>1. \A i, j \in 1..n : i < j => got'[i].tick < got'[j].tick
    BY <1>1, <1>2 DEF EvaluationInv, Polled
  <2>2. \A i \in 1..n : got'[i].tick < got'[n + 1].tick
    BY <1>2, <1>7
  <2> QED BY <1>1, <2>1, <2>2
<1>13. got' # <<>>
  BY <1>1, <1>2
<1>9. Polled'
  BY <1>13, <1>1, <1>2, <1>3, <1>5, <1>6, <1>7, <1>8 DEF Polled, Preparing, Never
<1>10. \A i \in 1..n : got[i].tick - first' = got[i].tick - first
  BY <1>1 DEF EvaluationInv, Polled
<1>11. DueInTicks'
  <2>1. due' => /\ Scenario.change # Never
                /\ \A i \in 1..(n + 1) : got'[i].tick - first' < Scenario.change
    BY <1>1, <1>2, <1>10 DEF EvaluationInv, DueInTicks
  <2>2. ASSUME ~due', Scenario.change # Never
        PROVE  \E i \in 1..(n + 1) : got'[i].tick - first' >= Scenario.change
    <3>1. CASE due
      BY <1>1, <1>2, <2>2, <3>1
    <3>2. CASE ~due /\ at # "version"
      <4>1. PICK i \in 1..n : got[i].tick - first >= Scenario.change
        BY <1>1, <2>2, <3>2 DEF EvaluationInv, DueInTicks
      <4> QED BY <1>1, <1>2, <1>10, <4>1
    <3> QED BY <3>1, <3>2
  <2> QED BY <1>1, <1>2, <1>5, <2>1, <2>2 DEF DueInTicks, Preparing
<1>12. RegimesApart'
  <2> SUFFICES ASSUME smooth', NEW i \in 1..(n + 1)
               PROVE  got'[i].rate =
                        IF /\ Scenario.change # Never
                           /\ \E j \in 1..(i - 1) : got'[j].tick - got'[1].tick >= Scenario.change
                        THEN Scenario.to ELSE Scenario.rate
    BY <1>1, <1>2 DEF RegimesApart
  <2>1. CASE i \in 1..n
    BY <1>1, <1>2, <2>1 DEF EvaluationInv, RegimesApart
  <2>2. CASE i = n + 1 /\ (due \/ Scenario.change = Never)
    <3>1. Scenario.change # Never =>
            \A j \in 1..n : ~(got'[j].tick - got'[1].tick >= Scenario.change)
      <4> SUFFICES ASSUME Scenario.change # Never, NEW j \in 1..n
                   PROVE  ~(got'[j].tick - got'[1].tick >= Scenario.change)
        OBVIOUS
      <4>1. got[j].tick - first < Scenario.change
        BY <1>1, <2>2 DEF EvaluationInv, DueInTicks
      <4>2. got'[j].tick - got'[1].tick < Scenario.change
        BY <1>2, <1>6, <1>10, <4>1
      <4>3. got'[j].tick \in Nat /\ got'[1].tick \in Nat /\ Scenario.change \in Nat
        BY <1>2, <1>3, <1>4, <1>6
      <4> QED BY <4>2, <4>3
    <3> QED BY <1>1, <1>2, <2>2, <3>1
  <2>3. CASE i = n + 1 /\ ~due /\ Scenario.change # Never
    <3>1. PICK j \in 1..n : got[j].tick - first >= Scenario.change
      BY <1>1, <2>3 DEF EvaluationInv, DueInTicks
    <3>2. got'[j].tick - got'[1].tick >= Scenario.change
      BY <1>2, <1>6, <1>10, <3>1
    <3> QED BY <1>1, <1>2, <2>3, <3>1, <3>2
  <2> QED BY <1>1, <2>1, <2>2, <2>3
<1> QED BY <1>1, <1>2, <1>5, <1>9, <1>11, <1>12

LEMMA PollKeepsEvaluation ==
  ASSUME EvaluationInv, Poll
  PROVE  EvaluationInv'
<1> DEFINE start == IF first = Never THEN world.tick ELSE first
<1>1. /\ ServerType /\ SuiteType /\ CountType /\ Scenario' = Scenario
      /\ Scenario.change \in Nat \cup {Never} /\ Scenario.ticks \in Nat
  BY EvaluationTypeParts, ScenarioTypes DEF EvaluationInv, Poll, Scenario
<1>2. /\ world.tick \in Nat /\ world.rate \in STRING /\ Snap \in Snaps
      /\ Snap.tick = world.tick /\ Snap.rate = world.rate
  BY <1>1 DEF ServerType, Servers, Snap, Snaps
<1>3. /\ at = "poll" /\ NewTick /\ first' = start /\ last' = world.tick
      /\ UNCHANGED <<world, resets, tries, sc, due, sink, faults, smooth>> /\ ahead' = 0
      /\ \/ Reached(start) /\ at' = "change" /\ held' = <<Snap>> /\ got' = got
         \/ ~Reached(start) /\ Collects(Snap) /\ held' = held
  BY DEF Poll
<1>4. /\ first \in Nat \cup {Never} /\ last \in Nat \cup {Never} /\ due \in BOOLEAN
      /\ got \in Seq(Snaps) /\ DOMAIN got = 1..Len(got) /\ Len(got) \in Nat
      /\ Len(got) < Scenario.ticks
  BY <1>1, <1>3 DEF SuiteType, EvaluationInv, Polled
<1>5. \A i \in DOMAIN got : got[i].tick \in Nat
  <2>1. \A i \in DOMAIN got : got[i] \in Snaps
    BY <1>4, ElementOfSeq
  <2> QED BY <2>1 DEF Snaps
<1>6. /\ start \in Nat /\ start <= world.tick
      /\ first # Never => start = first
      /\ got = <<>> => start = world.tick
      /\ \A i \in DOMAIN got : got[i].tick < world.tick
  <2>1. CASE first = Never
    BY <1>2, <1>4, <2>1 DEF EvaluationInv, Polled
  <2>2. CASE first # Never
    <3>1. last \in Nat /\ first \in Nat /\ first <= last /\ last < world.tick
      BY <1>2, <1>3, <1>4, <2>2 DEF EvaluationInv, Polled, NewTick, Never
    <3>2. got # <<>> /\ \A i \in DOMAIN got : got[i].tick <= last
      BY <1>3, <2>2 DEF EvaluationInv, Polled
    <3> QED BY <1>2, <1>5, <2>2, <3>1, <3>2
  <2> QED BY <2>1, <2>2
<1> HIDE DEF start
<1>7. smooth => Snap.rate = IF due \/ Scenario.change = Never THEN Scenario.rate ELSE Scenario.to
  BY <1>2, <1>3 DEF EvaluationInv, RateInForce
<1>8. CASE Reached(start) /\ at' = "change" /\ held' = <<Snap>> /\ got' = got
  <2>1. due /\ world.tick - start >= Scenario.change
    BY <1>8 DEF Reached
  <2>2. Len(held') = 1 /\ held'[1] = Snap /\ held' \in Seq(Snaps)
    BY <1>2, <1>8
  <2>3. ServerType' /\ SuiteType' /\ CountType'
    <3>1. ServerType' /\ CountType'
      BY <1>1, <1>3, EvaluationConstants DEF ServerType, CountType
    <3>2. sc' = sc
      BY <1>3
    <3> QED BY <1>1, <1>2, <1>3, <1>4, <1>6, <1>8, <2>2, <3>1, <3>2 DEF SuiteType, Stages
  <2>4. Polled'
    BY <1>1, <1>2, <1>3, <1>4, <1>5, <1>6, <1>8, <2>1, <2>2 DEF EvaluationInv, Polled, Never, Preparing
  <2>5. DueInTicks'
    BY <1>1, <1>3, <1>4, <1>6, <1>8, <2>1 DEF EvaluationInv, DueInTicks, Polled, Preparing
  <2>6. RateInForce' /\ RegimesApart'
    BY <1>1, <1>2, <1>3, <1>7, <1>8, <2>1, <2>2 DEF EvaluationInv, RateInForce, RegimesApart
  <2>7. Tallies'
    BY <1>3, <1>8 DEF EvaluationInv, Tallies
  <2> QED BY <2>3, <2>4, <2>5, <2>6, <2>7, EvaluationTypeParts DEF EvaluationInv
<1>9. CASE ~Reached(start) /\ Collects(Snap) /\ held' = held
  <2>1. due => Snap.tick - first' < Scenario.change
    <3>1. due => Scenario.change \in Nat
      BY <1>1 DEF EvaluationInv, DueInTicks
    <3> QED BY <1>2, <1>3, <1>6, <1>9, <3>1 DEF Reached
  <2>2. /\ Polled' /\ DueInTicks' /\ RegimesApart'
        /\ got' \in Seq(Snaps) /\ Len(got') <= Scenario'.ticks /\ at' \in {"poll", "final"}
    BY <1>2, <1>3, <1>4, <1>6, <1>7, <1>9, <2>1, CollectKeepsSamples
  <2>3. ServerType' /\ SuiteType' /\ CountType'
    <3>1. ServerType' /\ CountType'
      BY <1>1, <1>3, EvaluationConstants DEF ServerType, CountType
    <3> QED BY <1>1, <1>2, <1>3, <1>4, <1>6, <1>9, <2>2, <3>1 DEF SuiteType, Stages
  <2>4. RateInForce'
    BY <1>1, <1>2, <1>3, <1>7, <2>2 DEF RateInForce
  <2>5. Tallies'
    BY <1>3, <2>2 DEF EvaluationInv, Tallies
  <2> QED BY <2>2, <2>3, <2>4, <2>5, EvaluationTypeParts DEF EvaluationInv
<1> QED BY <1>3, <1>8, <1>9

LEMMA ChangeKeepsEvaluation ==
  ASSUME EvaluationInv, Change
  PROVE  EvaluationInv'
<1>1. /\ ServerType /\ SuiteType /\ CountType /\ Scenario' = Scenario
      /\ Scenario.change \in Nat \cup {Never} /\ Scenario.ticks \in Nat
  BY EvaluationTypeParts, ScenarioTypes DEF EvaluationInv, Change, Scenario
<1>2. /\ at = "change" /\ due' = FALSE /\ held' = <<>> /\ Collects(held[1])
      /\ UNCHANGED <<resets, tries, sc, first, last, sink, ahead>>
      /\ \/ world' = Effect("change") /\ faults' = faults /\ smooth' = smooth
         \/ Fault /\ world' \in {world, Effect("change")} /\ smooth' = FALSE
  BY DEF Change
<1>3. /\ due /\ first # Never /\ Len(held) = 1 /\ held[1].tick = last
      /\ last - first >= Scenario.change /\ first <= last
      /\ Len(got) < Scenario.ticks
      /\ \A i \in DOMAIN got : got[i].tick < last
      /\ got = <<>> => first = last
      /\ Scenario.change # Never
      /\ smooth => held[1].rate = Scenario.rate
  BY <1>2 DEF EvaluationInv, Polled, DueInTicks, RateInForce
<1>4. held[1] \in Snaps /\ first \in Nat
  <2>1. held \in Seq(Snaps) /\ first \in Nat \cup {Never}
    BY <1>1 DEF SuiteType
  <2> QED BY <1>3, <2>1, ElementOfSeq
<1>5. smooth' => smooth
  BY <1>2
<1>6. /\ Polled' /\ DueInTicks' /\ RegimesApart'
      /\ got' \in Seq(Snaps) /\ Len(got') <= Scenario'.ticks /\ at' \in {"poll", "final"}
  BY <1>2, <1>3, <1>4, <1>5, CollectKeepsSamples
<1>7. ServerType'
  BY <1>1, <1>2, EffectTypes, EvaluationTypeParts DEF ServerType, EvaluationInv
<1>8. CountType'
  <2>1. faults' \in 0..MaxFaults
    BY <1>1, <1>2, EvaluationConstants DEF CountType, Fault
  <2>2. smooth' \in BOOLEAN
    BY <1>1, <1>2 DEF CountType
  <2> QED BY <1>1, <1>2, <2>1, <2>2 DEF CountType
<1>9. SuiteType'
  <2>1. held' \in Seq(Snaps) /\ Len(held') <= 1
    BY <1>2
  <2>2. at' \in Stages /\ due' \in BOOLEAN
    BY <1>2, <1>6 DEF Stages
  <2>3. UNCHANGED <<resets, tries, sc, first, last, sink>>
    BY <1>2
  <2> QED BY <1>1, <1>6, <2>1, <2>2, <2>3 DEF SuiteType
<1>10. RateInForce'
  BY <1>1, <1>2, <1>3, <1>6, EffectTypes DEF RateInForce, EvaluationInv
<1>11. Tallies'
  BY <1>2, <1>6 DEF EvaluationInv, Tallies
<1> QED BY <1>6, <1>7, <1>8, <1>9, <1>10, <1>11, EvaluationTypeParts DEF EvaluationInv

LEMMA FinalKeepsEvaluation ==
  ASSUME EvaluationInv, Final
  PROVE  EvaluationInv'
<1>1. /\ at = "final" /\ at' = "pause"
      /\ UNCHANGED <<world, resets, tries, sc, first, last, due, got, sink, ahead, smooth>>
      /\ \/ held' = <<Snap>> /\ faults' = faults
         \/ Fault /\ held' = held
  BY DEF Final
<1>2. ServerType /\ SuiteType /\ CountType
  BY EvaluationTypeParts DEF EvaluationInv
<1>3. Snap \in Snaps
  BY <1>2 DEF ServerType, Servers, Snap, Snaps
<1>4. held' \in Seq(Snaps) /\ Len(held') <= 1
  <2>1. held \in Seq(Snaps) /\ Len(held) <= 1
    BY <1>2 DEF SuiteType
  <2>2. CASE held' = <<Snap>>
    BY <1>3, <2>2
  <2>3. CASE held' = held
    BY <2>1, <2>3
  <2> QED BY <1>1, <2>2, <2>3
<1>5. faults' \in 0..MaxFaults
  BY <1>1, <1>2, EvaluationConstants DEF CountType, Fault
<1>6. SuiteType'
  BY <1>1, <1>2, <1>4 DEF SuiteType, Stages, Scenario
<1>7. ServerType' /\ CountType'
  BY <1>1, <1>2, <1>5 DEF ServerType, CountType
<1> QED BY <1>1, <1>6, <1>7, EvaluationTypeParts
        DEF EvaluationInv, Tallies, Polled, DueInTicks, RateInForce, RegimesApart, Scenario, Preparing

LEMMA PauseKeepsEvaluation ==
  ASSUME EvaluationInv, Pause
  PROVE  EvaluationInv'
<1>1. /\ Requests("pause", "export", "export")
      /\ UNCHANGED <<resets, tries, sc, first, last, due, got, held, sink, ahead, smooth>>
  BY DEF Pause
<1>2. ServerType /\ SuiteType /\ CountType
  BY EvaluationTypeParts DEF EvaluationInv
<1>3. ServerType' /\ faults' \in 0..MaxFaults /\ at = "pause" /\ at' = "export"
  BY <1>1, RequestTypes DEF EvaluationInv
<1>4. SuiteType'
  BY <1>1, <1>2, <1>3 DEF SuiteType, Stages, Scenario
<1>5. CountType'
  BY <1>1, <1>2, <1>3 DEF CountType
<1> QED BY <1>1, <1>3, <1>4, <1>5, EvaluationTypeParts
        DEF EvaluationInv, Tallies, Polled, DueInTicks, RateInForce, RegimesApart, Scenario, Preparing

LEMMA ExportKeepsEvaluation ==
  ASSUME EvaluationInv, Export
  PROVE  EvaluationInv'
<1>1. PICK n \in 0..3 :
        /\ sink' = [k \in 1..3 |-> IF k <= n THEN sink[k] + 1 ELSE sink[k]]
        /\ \/ n < 3 /\ Fault /\ at' = "failed" /\ UNCHANGED <<sc, first, last, due, got, held>>
           \/ /\ n = 3 /\ faults' = faults /\ sc = Len(Scenarios)
              /\ at' = "over" /\ UNCHANGED <<sc, first, last, due, got, held>>
           \/ /\ n = 3 /\ faults' = faults /\ sc # Len(Scenarios)
              /\ at' = Opening /\ sc' = sc + 1
              /\ first' = Never /\ last' = Never /\ got' = <<>> /\ held' = <<>>
              /\ due' = (Scenarios[sc + 1].change # Never)
  BY DEF Export
<1>2. at = "export" /\ UNCHANGED <<world, resets, tries, ahead, smooth>>
  BY DEF Export
<1>3. ServerType /\ SuiteType /\ CountType
  BY EvaluationTypeParts DEF EvaluationInv
<1>4. /\ sc \in 1..Len(Scenarios) /\ Len(Scenarios) \in Nat
      /\ sink \in [1..3 -> 0..Len(Scenarios)] /\ \A k \in 1..3 : sink[k] = sc - 1
  BY <1>2, <1>3, EvaluationConstants DEF SuiteType, EvaluationInv, Tallies
<1>5. sink' \in [1..3 -> 0..Len(Scenarios)]
  BY <1>1, <1>4
<1>6. faults' \in 0..MaxFaults
  BY <1>1, <1>3, EvaluationConstants DEF CountType, Fault
<1>7. ServerType' /\ CountType'
  BY <1>2, <1>3, <1>6 DEF ServerType, CountType
<1>8. CASE at' \in {"failed", "over"} /\ UNCHANGED <<sc, first, last, due, got, held>>
  <2>1. SuiteType'
    BY <1>2, <1>3, <1>5, <1>8 DEF SuiteType, Stages, Scenario
  <2>2. Tallies'
    <3>1. at' = "over" => n = 3
      BY <1>1, <1>8 DEF Opening
    <3> QED BY <1>1, <1>4, <1>8, <3>1 DEF Tallies
  <2>3. Polled' /\ DueInTicks' /\ RateInForce' /\ RegimesApart'
    BY <1>2, <1>8 DEF EvaluationInv, Polled, DueInTicks, RateInForce, RegimesApart, Scenario, Preparing
  <2> QED BY <1>7, <2>1, <2>2, <2>3, EvaluationTypeParts DEF EvaluationInv
<1>9. CASE /\ n = 3 /\ sc # Len(Scenarios) /\ at' = Opening /\ sc' = sc + 1
           /\ first' = Never /\ last' = Never /\ got' = <<>> /\ held' = <<>>
           /\ due' = (Scenarios[sc + 1].change # Never)
  <2>1. sc' \in DOMAIN Scenarios /\ Scenario' = Scenarios[sc + 1] /\ Scenario'.ticks \in Nat \ {0}
    <3>1. sc + 1 \in DOMAIN Scenarios
      <4>1. DOMAIN Scenarios = 1..Len(Scenarios)
        BY EvaluationConstants
      <4>2. sc \in 1..Len(Scenarios) /\ sc # Len(Scenarios) /\ Len(Scenarios) \in Nat
        BY <1>4, <1>9
      <4>3. sc + 1 \in 1..Len(Scenarios)
        BY <4>2
      <4> QED BY <4>1, <4>3, Zenon
    <3>2. Scenarios[sc + 1].ticks \in Nat \ {0}
      BY <3>1, EvaluationConstants
    <3> QED BY <1>9, <3>1, <3>2 DEF Scenario
  <2>2. at' \in {"reset", "interval"}
    BY <1>9 DEF Opening
  <2>3. DOMAIN got' = {} /\ got' \in Seq(Snaps) /\ Len(got') = 0 /\ held' \in Seq(Snaps) /\ Len(held') = 0
    BY <1>9
  <2>4. SuiteType'
    BY <1>2, <1>3, <1>5, <1>9, <2>1, <2>2, <2>3 DEF SuiteType, Stages
  <2>5. Tallies'
    BY <1>1, <1>4, <1>9, <2>2 DEF Tallies
  <2>6. Polled'
    BY <1>9, <2>1, <2>2, <2>3 DEF Polled
  <2>7. DueInTicks'
    BY <1>9, <2>1, <2>3 DEF DueInTicks
  <2>8. RateInForce' /\ RegimesApart'
    BY <2>2, <2>3 DEF RateInForce, RegimesApart
  <2> QED BY <1>7, <2>4, <2>5, <2>6, <2>7, <2>8, EvaluationTypeParts DEF EvaluationInv
<1> QED BY <1>1, <1>8, <1>9

LEMMA EvaluationStarts ==
  ASSUME EvaluationInit
  PROVE  EvaluationInv
<1> USE DEF EvaluationInit
<1>1. ServerType
  <2>1. world = [tick |-> 0, rate |-> Default, running |-> TRUE, saved |-> 0]
    OBVIOUS
  <2> QED BY <2>1, EvaluationConstants DEF ServerType, Servers
<1>2. /\ sc = 1 /\ sc \in DOMAIN Scenarios /\ Scenario.ticks \in Nat
      /\ DOMAIN got = {} /\ got \in Seq(Snaps) /\ Len(got) = 0 /\ held \in Seq(Snaps) /\ Len(held) = 0
  BY EvaluationConstants DEF Scenario
<1>3. sink \in [1..3 -> 0..Len(Scenarios)] /\ \A k \in 1..3 : sink[k] = 0
  BY EvaluationConstants
<1>4. SuiteType
  <2>1. at \in Stages /\ resets \in BOOLEAN /\ due \in BOOLEAN
        /\ first \in Nat \cup {Never} /\ last \in Nat \cup {Never}
    BY DEF Stages
  <2>3. tries \in 0..Retries
    <3>1. tries = 0 /\ Retries \in Nat
      BY EvaluationConstants
    <3> QED BY <3>1
  <2>2. Len(got) <= Scenario.ticks /\ Len(held) <= 1
    BY <1>2
  <2> QED BY <1>2, <1>3, <2>1, <2>2, <2>3 DEF SuiteType
<1>5. CountType
  BY EvaluationConstants DEF CountType
<1>6. Tallies /\ Polled /\ DueInTicks /\ RateInForce /\ RegimesApart
  BY <1>2, <1>3, EvaluationConstants DEF Tallies, Polled, DueInTicks, RateInForce, RegimesApart
<1> QED BY <1>1, <1>4, <1>5, <1>6, EvaluationTypeParts DEF EvaluationInv

LEMMA EvaluationStep ==
  ASSUME EvaluationInv, [EvaluationNext]_evaluationVars
  PROVE  EvaluationInv'
<1>1. CASE UNCHANGED evaluationVars
  BY <1>1 DEF EvaluationInv, evaluationVars, suite, EvaluationTypeOK, Scenario, Tallies, Polled, DueInTicks,
              RateInForce, RegimesApart
<1> QED BY <1>1, TickKeepsEvaluation, RestartKeepsEvaluation, ReachKeepsEvaluation,
           SetUpKeepsEvaluation, PollKeepsEvaluation, PollAgainKeepsEvaluation, ChangeKeepsEvaluation,
           FinalKeepsEvaluation, PauseKeepsEvaluation, ExportKeepsEvaluation
        DEF EvaluationNext, Suite

LEMMA EvaluationInvariant == EvaluationSpec => []EvaluationInv
<1>1. EvaluationInv /\ [EvaluationNext]_evaluationVars => EvaluationInv'
  BY EvaluationStep
<1> QED BY <1>1, EvaluationStarts, PTL DEF EvaluationSpec

\* The suite and the world it watches keep their types (collect_scenario).
THEOREM EvaluationTypeCorrect == EvaluationSpec => []EvaluationTypeOK
<1>1. EvaluationInv => EvaluationTypeOK
  BY DEF EvaluationInv
<1> QED BY <1>1, EvaluationInvariant, PTL

\* Whatever the scenarios, and however far apart the polls: the ticks tell the
\* samples before the change of the interval from those after it, unless a restart
\* or a change that failed came between (collect_scenario).
THEOREM RegimesApartHolds == EvaluationSpec => []RegimesApart
<1>1. EvaluationInv => RegimesApart
  BY DEF EvaluationInv
<1> QED BY <1>1, EvaluationInvariant, PTL

\* The ticks of a scenario ascend, and the tables are in step with the scenarios
\* gone through (collect_scenario, write_telemetry_to_hypertables).
THEOREM SamplesAscendHolds == EvaluationSpec => []SamplesAscend
<1>1. EvaluationInv => SamplesAscend
  <2> SUFFICES ASSUME EvaluationInv PROVE SamplesAscend
    OBVIOUS
  <2>1. got \in Seq(Snaps) /\ DOMAIN got = 1..Len(got) /\ Len(got) \in Nat
    BY EvaluationTypeParts DEF EvaluationInv, SuiteType
  <2>2. \A i \in 2..Len(got) : got[i - 1].tick < got[i].tick
    BY <2>1 DEF EvaluationInv, Polled
  <2> QED BY <2>2 DEF EvaluationInv, Tallies, SamplesAscend
<1> QED BY <1>1, EvaluationInvariant, PTL
-----------------------------------------------------------------------------
\* Geography.

\* Induction on the natural numbers, for a set of them.
LEMMA NatInSet ==
  ASSUME NEW S, 0 \in S, \A n \in Nat : n \in S => n + 1 \in S
  PROVE  Nat \subseteq S
<1> DEFINE R == {e \in Nat \X Nat : e[1] < e[2]}
           T == Nat \ S
<1>1. IsWellFoundedOn(R, Nat)
  BY NatLessThanWellFounded DEF OpToRel
<1>2. CASE T # {}
  <2>1. PICK x \in T : \A y \in T : ~(<<y, x>> \in R)
    BY <1>1, <1>2, WFMin, Zenon
  <2>2. x \in Nat /\ x # 0
    OBVIOUS
  <2>3. x - 1 \in Nat /\ x - 1 < x
    BY <2>2
  <2>4. <<x - 1, x>> \in R
    BY <2>2, <2>3
  <2>5. x - 1 \in S
    BY <2>1, <2>3, <2>4
  <2> QED BY <2>2, <2>3, <2>5
<1> QED BY <1>2

\* What is kept of the first n keys, as a function of n.
KeptStep(cache, S, kept, n) ==
  IF n = 0 THEN <<>>
  ELSE kept[n - 1] \o (IF cache[n] \in S THEN <<>> ELSE <<cache[n]>>)
KeptTo(cache, S, n, kept) == kept = [m \in 0..n |-> KeptStep(cache, S, kept, m)]

\* The recursion defines a function.
LEMMA KeptExists ==
  ASSUME NEW cache, NEW S, NEW n \in Nat
  PROVE  \E kept : KeptTo(cache, S, n, kept)
<1> DEFINE I == {m \in Nat : \E kept : KeptTo(cache, S, m, kept)}
<1>1. 0 \in I
  <2>1. KeptTo(cache, S, 0, [m \in 0..0 |-> <<>>])
    BY DEF KeptTo, KeptStep
  <2> QED BY <2>1
<1>2. ASSUME NEW m \in Nat, m \in I PROVE m + 1 \in I
  <2>1. PICK kept : KeptTo(cache, S, m, kept)
    BY <1>2
  <2> DEFINE more == [k \in 0..(m + 1) |-> IF k = m + 1 THEN KeptStep(cache, S, kept, m + 1) ELSE kept[k]]
  <2>2. \A k \in 0..m : more[k] = kept[k] /\ kept[k] = KeptStep(cache, S, kept, k)
    BY <2>1 DEF KeptTo
  <2>3. \A k \in 0..(m + 1) : more[k] = KeptStep(cache, S, more, k)
    <3> TAKE k \in 0..(m + 1)
    <3>1. k > 0 => k - 1 \in 0..m /\ more[k - 1] = kept[k - 1]
      BY <2>2
    <3>2. KeptStep(cache, S, more, k) = KeptStep(cache, S, kept, k)
      BY <3>1 DEF KeptStep
    <3>3. CASE k = m + 1
      BY <3>2, <3>3
    <3>4. CASE k \in 0..m
      BY <2>2, <3>2, <3>4
    <3> QED BY <3>3, <3>4
  <2>4. KeptTo(cache, S, m + 1, more)
    BY <2>3 DEF KeptTo
  <2> QED BY <2>4
<1> HIDE DEF I
<1>3. Nat \subseteq I
  BY <1>1, <1>2, NatInSet
<1> QED BY <1>3 DEF I

LEMMA WithoutExpanded ==
  ASSUME NEW cache, NEW S
  PROVE  Without(cache, S) = (CHOOSE kept : KeptTo(cache, S, Len(cache), kept))[Len(cache)]
  BY Zenon DEF Without, KeptTo, KeptStep

LEMMA KeptFacts ==
  ASSUME NEW P, NEW cache \in Seq(P), NEW S
  PROVE  \E kept : /\ Without(cache, S) = kept[Len(cache)]
                   /\ \A n \in 0..Len(cache) :
                        kept[n] = IF n = 0 THEN <<>>
                                  ELSE kept[n - 1] \o (IF cache[n] \in S THEN <<>> ELSE <<cache[n]>>)
<1> DEFINE kept == CHOOSE k : KeptTo(cache, S, Len(cache), k)
<1>1. KeptTo(cache, S, Len(cache), kept)
  BY KeptExists
<1>2. Without(cache, S) = kept[Len(cache)]
  BY WithoutExpanded
<1> HIDE DEF kept
<1> QED BY <1>1, <1>2 DEF KeptTo, KeptStep

\* One more key at the end of a sequence.
LEMMA OneMore ==
  ASSUME NEW P, NEW s \in Seq(P), NEW k \in P
  PROVE  /\ s \o <<k>> \in Seq(P)
         /\ ToSet(s \o <<k>>) = ToSet(s) \cup {k}
         /\ (IsInjective(s) /\ k \notin ToSet(s)) => IsInjective(s \o <<k>>)
<1> DEFINE t == s \o <<k>>
<1>1. /\ t \in Seq(P) /\ Len(t) = Len(s) + 1 /\ DOMAIN t = 1..(Len(s) + 1)
      /\ Len(s) \in Nat /\ DOMAIN s = 1..Len(s)
      /\ \A i \in 1..Len(s) : t[i] = s[i]
      /\ t[Len(s) + 1] = k
  OBVIOUS
<1> HIDE DEF t
<1>2. ToSet(t) = ToSet(s) \cup {k}
  BY <1>1 DEF ToSet
<1>3. ASSUME IsInjective(s), k \notin ToSet(s) PROVE IsInjective(t)
  BY <1>1, <1>3 DEF IsInjective, ToSet
<1> QED BY <1>1, <1>2, <1>3 DEF t

LEMMA WithoutKeeps ==
  ASSUME NEW P, NEW cache \in Seq(P), NEW S
  PROVE  /\ Without(cache, S) \in Seq(P)
         /\ ToSet(Without(cache, S)) = ToSet(cache) \ S
         /\ IsInjective(cache) => IsInjective(Without(cache, S))
<1>1. PICK kept : /\ Without(cache, S) = kept[Len(cache)]
                  /\ \A n \in 0..Len(cache) :
                        kept[n] = IF n = 0 THEN <<>>
                                  ELSE kept[n - 1] \o (IF cache[n] \in S THEN <<>> ELSE <<cache[n]>>)
  BY KeptFacts
<1> DEFINE Upto(n) == {cache[i] : i \in 1..n}
           Good(n) == /\ kept[n] \in Seq(P) /\ ToSet(kept[n]) = Upto(n) \ S
                      /\ IsInjective(cache) => IsInjective(kept[n])
           I == {n \in Nat : n <= Len(cache) => Good(n)}
<1>2. Len(cache) \in Nat /\ DOMAIN cache = 1..Len(cache) /\ \A i \in 1..Len(cache) : cache[i] \in P
  OBVIOUS
<1>3. 0 \in I
  <2>1. kept[0] = <<>>
    <3>1. 0 \in 0..Len(cache)
      BY <1>2
    <3> QED BY <1>1, <3>1
  <2>3. Upto(0) = {}
    OBVIOUS
  <2>2. Good(0)
    BY <2>1, <2>3 DEF ToSet, IsInjective
  <2> QED BY <2>2
<1>4. ASSUME NEW n \in Nat, n \in I PROVE n + 1 \in I
  <2> SUFFICES ASSUME n + 1 <= Len(cache) PROVE Good(n + 1)
    OBVIOUS
  <2>1. Good(n) /\ n + 1 \in 1..Len(cache)
    BY <1>2, <1>4
  <2>2. kept[n + 1] = kept[n] \o (IF cache[n + 1] \in S THEN <<>> ELSE <<cache[n + 1]>>)
    <3>1. n + 1 \in 0..Len(cache) /\ n + 1 # 0 /\ (n + 1) - 1 = n
      BY <2>1
    <3>2. kept[n + 1] = IF n + 1 = 0 THEN <<>>
                        ELSE kept[(n + 1) - 1] \o (IF cache[n + 1] \in S THEN <<>> ELSE <<cache[n + 1]>>)
      BY <1>1, <3>1, Zenon
    <3> QED BY <3>1, <3>2
  <2>3. Upto(n + 1) = Upto(n) \cup {cache[n + 1]}
    BY <1>2
  <2>4. CASE cache[n + 1] \in S
    <3>1. kept[n + 1] = kept[n]
      BY <2>1, <2>2, <2>4
    <3> QED BY <2>1, <2>3, <2>4, <3>1
  <2>5. CASE cache[n + 1] \notin S
    <3>1. kept[n + 1] = kept[n] \o <<cache[n + 1]>>
      BY <2>2, <2>5
    <3>2. IsInjective(cache) => cache[n + 1] \notin Upto(n)
      BY <1>2, <2>1 DEF IsInjective
    <3> HIDE DEF Upto
    <3> QED BY <1>2, <2>1, <2>3, <2>5, <3>1, <3>2, OneMore
  <2> QED BY <2>4, <2>5
<1>5. Len(cache) \in I
  <2> HIDE DEF I
  <2> QED BY <1>2, <1>3, <1>4, NatInSet
<1>6. Upto(Len(cache)) = ToSet(cache)
  BY <1>2 DEF ToSet
<1> QED BY <1>1, <1>2, <1>5, <1>6

LEMMA InjectiveLength ==
  ASSUME NEW P, NEW s \in Seq(P), IsInjective(s)
  PROVE  Cardinality(ToSet(s)) = Len(s)
<1>1. s \in [1..Len(s) -> ToSet(s)] /\ Len(s) \in Nat /\ DOMAIN s = 1..Len(s)
  BY DEF ToSet
<1>2. s \in Bijection(1..Len(s), ToSet(s))
  BY <1>1 DEF Bijection, Injection, Surjection, IsInjective, ToSet
<1>3. ExistsBijection(1..Len(s), ToSet(s))
  BY <1>2 DEF ExistsBijection
<1> QED BY <1>1, <1>3, FS_CountingElements

LEMMA UsedKeeps ==
  ASSUME NEW P, NEW cache \in Seq(P), NEW s \in Seq(P), NEW max \in Nat \ {0}
  PROVE  /\ Used(cache, s, max) \in Seq(P)
         /\ Len(Used(cache, s, max)) <= max
         /\ Keys(Used(cache, s, max)) \subseteq Keys(cache) \cup ToSet(s)
         /\ IsInjective(cache) /\ IsInjective(s) => IsInjective(Used(cache, s, max))
         /\ (/\ IsInjective(cache) /\ IsInjective(s) /\ Len(cache) <= max
             /\ ToSet(s) \subseteq Keys(cache)) => Keys(Used(cache, s, max)) = Keys(cache)
<1> DEFINE w == Without(cache, ToSet(s))
           all == w \o s
           m == IF Len(all) > max THEN Len(all) - max + 1 ELSE 1
           u == SubSeq(all, m, Len(all))
<1>1. /\ w \in Seq(P) /\ ToSet(w) = ToSet(cache) \ ToSet(s)
      /\ IsInjective(cache) => IsInjective(w)
  BY WithoutKeeps
<1> HIDE DEF w
<1>2. /\ all \in Seq(P) /\ Len(all) = Len(w) + Len(s) /\ Len(w) \in Nat /\ Len(s) \in Nat
      /\ DOMAIN all = 1..Len(all) /\ DOMAIN w = 1..Len(w) /\ DOMAIN s = 1..Len(s)
      /\ \A i \in 1..Len(w) : all[i] = w[i]
      /\ \A i \in (Len(w) + 1)..Len(all) : all[i] = s[i - Len(w)]
  BY <1>1
<1>3. ToSet(all) \subseteq ToSet(cache) \cup ToSet(s)
  <2> SUFFICES ASSUME NEW i \in DOMAIN all PROVE all[i] \in ToSet(cache) \cup ToSet(s)
    BY DEF ToSet
  <2>1. CASE i \in 1..Len(w)
    <3>1. w[i] \in ToSet(w)
      BY <1>2, <2>1 DEF ToSet
    <3> QED BY <1>1, <1>2, <2>1, <3>1
  <2>2. CASE i \in (Len(w) + 1)..Len(all)
    <3>1. i - Len(w) \in DOMAIN s
      BY <1>2, <2>2
    <3> QED BY <1>2, <2>2, <3>1 DEF ToSet
  <2> QED BY <1>2, <2>1, <2>2
<1>4. ASSUME IsInjective(cache), IsInjective(s)
      PROVE  \A i, j \in 1..Len(all) : all[i] = all[j] => i = j
  <2>1. IsInjective(w)
    BY <1>1, <1>4
  <2>2. \A i \in 1..Len(w), j \in 1..Len(s) : w[i] # s[j]
    <3>1. \A i \in 1..Len(w) : w[i] \in ToSet(w)
      BY <1>2 DEF ToSet
    <3>2. \A j \in 1..Len(s) : s[j] \in ToSet(s)
      BY <1>2 DEF ToSet
    <3> QED BY <1>1, <3>1, <3>2
  <2>3. \A i \in (Len(w) + 1)..Len(all) : i - Len(w) \in 1..Len(s)
    BY <1>2
  <2>4. \A i \in 1..Len(w), j \in (Len(w) + 1)..Len(all) : all[i] # all[j]
    BY <1>2, <2>2, <2>3
  <2>5. \A i, j \in 1..Len(w) : all[i] = all[j] => i = j
    BY <1>2, <2>1 DEF IsInjective
  <2>6. \A i, j \in (Len(w) + 1)..Len(all) : all[i] = all[j] => i = j
    <3> SUFFICES ASSUME NEW i \in (Len(w) + 1)..Len(all), NEW j \in (Len(w) + 1)..Len(all),
                        all[i] = all[j]
                 PROVE  i = j
      OBVIOUS
    <3>1. s[i - Len(w)] = s[j - Len(w)] /\ i - Len(w) \in DOMAIN s /\ j - Len(w) \in DOMAIN s
      BY <1>2, <2>3
    <3>2. i - Len(w) = j - Len(w)
      BY <1>4, <3>1 DEF IsInjective
    <3> QED BY <1>2, <3>2
  <2> HIDE DEF all
  <2> QED BY <1>2, <2>4, <2>5, <2>6
<1> HIDE DEF all
<1>5. m \in 1..(Len(all) + 1) /\ Len(all) - m + 1 <= max /\ Len(all) \in Nat
  BY <1>2
<1> HIDE DEF m
<1>6. /\ u \in Seq(P) /\ Len(u) = Len(all) - m + 1 /\ DOMAIN u = 1..Len(u) /\ Len(u) \in Nat
      /\ \A i \in 1..Len(u) : u[i] = all[m + i - 1] /\ m + i - 1 \in 1..Len(all)
  <2>1. m \in Int /\ Len(all) \in Int /\ \A i \in m..Len(all) : all[i] \in P
    BY <1>2, <1>5
  <2>2. /\ u \in Seq(P) /\ Len(u) = IF m <= Len(all) THEN Len(all) - m + 1 ELSE 0
        /\ \A i \in 1..(Len(all) - m + 1) : u[i] = all[m + i - 1]
    BY <2>1, SubSeqProperties
  <2>3. Len(u) = Len(all) - m + 1
    BY <1>5, <2>2
  <2>4. \A i \in 1..Len(u) : m + i - 1 \in 1..Len(all)
    BY <1>5, <2>3
  <2> QED BY <2>2, <2>3, <2>4
<1> HIDE DEF u
<1>7. ToSet(u) \subseteq ToSet(cache) \cup ToSet(s)
  <2> SUFFICES ASSUME NEW i \in DOMAIN u PROVE u[i] \in ToSet(all)
    BY <1>3 DEF ToSet
  <2>1. u[i] = all[m + i - 1] /\ m + i - 1 \in DOMAIN all
    BY <1>2, <1>6
  <2> QED BY <2>1 DEF ToSet
<1>8. IsInjective(cache) /\ IsInjective(s) => IsInjective(u)
  <2> SUFFICES ASSUME IsInjective(cache), IsInjective(s),
                      NEW i \in 1..Len(u), NEW j \in 1..Len(u), u[i] = u[j]
               PROVE  i = j
    BY <1>6 DEF IsInjective
  <2>1. m + i - 1 = m + j - 1
    <3>1. all[m + i - 1] = all[m + j - 1] /\ m + i - 1 \in 1..Len(all) /\ m + j - 1 \in 1..Len(all)
      BY <1>6
    <3> QED BY <1>4, <3>1
  <2> QED BY <1>5, <1>6, <2>1
<1>9. Used(cache, s, max) = u
  BY DEF Used, w, all, m, u
<1>10. ASSUME IsInjective(cache), IsInjective(s), Len(cache) <= max, ToSet(s) \subseteq ToSet(cache)
       PROVE  ToSet(u) = ToSet(cache)
  <2>1. ToSet(all) = ToSet(cache)
    <3>1. ToSet(w) \subseteq ToSet(all)
      BY <1>2 DEF ToSet
    <3>2. \A j \in 1..Len(s) : s[j] \in ToSet(all)
      <4> TAKE j \in 1..Len(s)
      <4>1. j + Len(w) \in (Len(w) + 1)..Len(all) /\ j + Len(w) \in 1..Len(all) /\ (j + Len(w)) - Len(w) = j
        BY <1>2
      <4>2. all[j + Len(w)] = s[(j + Len(w)) - Len(w)]
        BY <1>2, <4>1
      <4> QED BY <1>2, <4>1, <4>2 DEF ToSet
    <3>3. ToSet(s) \subseteq ToSet(all)
      <4> HIDE DEF all
      <4> QED BY <1>2, <3>2 DEF ToSet
    <3> QED BY <1>1, <1>3, <1>10, <3>1, <3>3
  <2>2. IsInjective(all)
    BY <1>2, <1>4, <1>10 DEF IsInjective
  <2>3. Len(all) = Len(cache)
    BY <1>2, <1>10, <2>1, <2>2, InjectiveLength
  <2>4. m = 1
    BY <1>10, <2>3 DEF m
  <2>5. \A i \in 1..Len(all) : i \in 1..Len(u) /\ u[i] = all[i]
    BY <1>5, <1>6, <2>4
  <2>6. ToSet(all) \subseteq ToSet(u)
    BY <1>2, <1>6, <2>5 DEF ToSet
  <2> QED BY <1>7, <1>10, <2>1, <2>6
<1> QED BY <1>5, <1>6, <1>7, <1>8, <1>9, <1>10 DEF Keys

LEMMA OrderedOnce ==
  ASSUME NEW S \in SUBSET Places, NEW s \in Orders(S)
  PROVE  /\ s \in Seq(Places) /\ IsInjective(s) /\ ToSet(s) \subseteq S
         /\ Len(s) = Cardinality(S) /\ Cardinality(S) \in Nat
<1>1. IsFiniteSet(S) /\ Cardinality(S) \in Nat
  BY GeographyAssumption, FS_Subset, FS_CardinalityType
<1>2. s \in [1..Cardinality(S) -> S] /\ \A i, j \in 1..Cardinality(S) : i # j => s[i] # s[j]
  BY DEF Orders, SetToSeqs
<1>3. s \in Seq(Places) /\ Len(s) = Cardinality(S) /\ DOMAIN s = 1..Cardinality(S)
  BY <1>1, <1>2
<1> QED BY <1>1, <1>2, <1>3 DEF IsInjective, ToSet

-----------------------------------------------------------------------------
Queries == [at : {"idle", "locations", "connections", "faces"},
            ids : SUBSET Places, todo : SUBSET Places, old : BOOLEAN]
CacheType ==
  /\ loc \in Seq(Places) /\ Len(loc) <= LocMax /\ IsInjective(loc)
  /\ evicted \subseteq Places /\ faceless \subseteq Places
RoadType ==
  /\ conn \in Seq(Places) /\ Len(conn) <= ConnMax /\ IsInjective(conn)
  /\ list \in [Places -> [Roads -> 0..Many]] /\ lost \subseteq Places
QueryType == job \in [Callers -> Queries]

LEMMA GeographyParts ==
  /\ GeographyTypeOK <=> CacheType /\ RoadType /\ QueryType
  /\ GeographyTypeOK' <=> CacheType' /\ RoadType' /\ QueryType'
  BY DEF GeographyTypeOK, CacheType, RoadType, QueryType, Queries

\* The neighbour q of a cached place is in the cache, on its way, or known to be missing.
Accounted(q) == q \in Keys(loc) \/ Facing(q) \/ q \in faceless \/ q \in evicted

GeographyInv == GeographyTypeOK /\ CompleteUnlessCut /\ NeighboursLoaded

LEMMA AwaitSets ==
  ASSUME QueryType, NEW c \in Callers, NEW stage \in {"idle", "locations", "connections", "faces"},
         NEW ids \in SUBSET Places, NEW wanted \in SUBSET Places, Await(c, stage, ids, wanted)
  PROVE  /\ QueryType'
         /\ job'[c].at = stage /\ job'[c].ids = ids /\ job'[c].todo = wanted /\ ~job'[c].old
         /\ \A d \in Callers \ {c} : job'[d] = job[d]
<1> DEFINE q == [at |-> stage, ids |-> ids, todo |-> wanted, old |-> FALSE]
<1>1. q \in Queries
  BY DEF Queries
<1>2. job' = [job EXCEPT ![c] = q]
  BY DEF Await
<1> QED BY <1>1, <1>2 DEF QueryType

LEMMA RestSets ==
  ASSUME QueryType, NEW c \in Callers, job' = [job EXCEPT ![c] = NoQuery]
  PROVE  /\ QueryType' /\ job'[c] = NoQuery /\ NoQuery \in Queries
         /\ \A d \in Callers \ {c} : job'[d] = job[d]
<1>1. NoQuery \in Queries
  BY DEF NoQuery, Queries
<1> QED BY <1>1 DEF QueryType

LEMMA LoadKeeps ==
  ASSUME CacheType, NEW ids \in SUBSET Places, LoadRows(ids), faceless' \subseteq faceless
  PROVE  /\ CacheType'
         /\ \A q : q \in Keys(loc) \cup evicted \cup ids => q \in Keys(loc') \cup evicted'
<1>1. PICK s \in Orders(ids) :
         /\ loc' = Used(loc, s, LocMax)
         /\ evicted' = (evicted \cup Keys(loc) \cup ids) \ Keys(loc')
  BY DEF LoadRows
<1>2. s \in Seq(Places) /\ IsInjective(s)
  BY OrderedOnce
<1>3. loc' \in Seq(Places) /\ Len(loc') <= LocMax /\ IsInjective(loc')
  BY <1>1, <1>2, UsedKeeps, GeographyAssumption DEF CacheType
<1>4. Keys(loc) \subseteq Places
  BY DEF CacheType, Keys, ToSet
<1> QED BY <1>1, <1>3, <1>4 DEF CacheType

LEMMA AskRoadsKeeps ==
  ASSUME RoadType, QueryType, CompleteUnlessCut, NEW c \in Callers, NEW ids \in SUBSET Places,
         job[c].at \notin {"connections", "faces"}, ~job[c].old, AskRoads(c, ids)
  PROVE  /\ RoadType' /\ QueryType' /\ CompleteUnlessCut'
         /\ \A p \in Keys(conn') : \A q \in Neighbours(p) :
              list'[p][{p, q}] > 0 => p \in Keys(conn) /\ list[p][{p, q}] > 0
         /\ \A q : Facing(q) => Facing(q)'
<1> DEFINE missing == Missing(ids, conn)
<1>1. Keys(conn) \subseteq Places /\ missing \subseteq Places /\ missing \cap Keys(conn) = {}
  BY DEF RoadType, Keys, ToSet, Missing
<1>2. CASE missing = {}
  <2>1. /\ job' = [job EXCEPT ![c] = NoQuery] /\ UNCHANGED <<conn, list, lost>>
    BY <1>2 DEF AskRoads
  <2>2. QueryType' /\ \A d \in Callers \ {c} : job'[d] = job[d]
    BY <2>1, RestSets
  <2>3. RoadType'
    BY <2>1 DEF RoadType
  <2>4. \A p : Asking(p) => Asking(p)'
    BY <2>2 DEF Asking
  <2>5. \A q : Facing(q) => Facing(q)'
    BY <2>2 DEF Facing
  <2>6. CompleteUnlessCut'
    BY <2>1, <2>4 DEF CompleteUnlessCut
  <2> QED BY <2>1, <2>2, <2>3, <2>5, <2>6
<1>3. CASE missing # {}
  <2>1. PICK s \in Orders(missing) :
             /\ conn' = Used(conn, s, ConnMax)
             /\ list' = [p \in Places |-> IF p \in missing \/ p \notin Keys(conn')
                                          THEN NoRoads ELSE list[p]]
             /\ lost' = (lost \ missing) \cap Keys(conn')
             /\ Await(c, "connections", {}, missing)
    BY <1>3 DEF AskRoads
  <2>2. s \in Seq(Places) /\ IsInjective(s) /\ ToSet(s) \subseteq missing
    BY <1>1, OrderedOnce
  <2>3. /\ conn' \in Seq(Places) /\ Len(conn') <= ConnMax /\ IsInjective(conn')
        /\ Keys(conn') \subseteq Keys(conn) \cup missing
    BY <2>1, <2>2, UsedKeeps, GeographyAssumption DEF RoadType
  <2>4. NoRoads \in [Roads -> 0..Many] /\ \A r \in Roads : NoRoads[r] = 0
    BY GeographyAssumption DEF NoRoads
  <2>5. RoadType'
    BY <2>1, <2>3, <2>4 DEF RoadType
  <2>6. /\ QueryType' /\ job'[c].at = "connections" /\ job'[c].todo = missing
        /\ ~job'[c].old /\ \A d \in Callers \ {c} : job'[d] = job[d]
    <3>1. /\ QueryType /\ missing \in SUBSET Places /\ {} \in SUBSET Places
          /\ "connections" \in {"idle", "locations", "connections", "faces"}
      BY <1>1
    <3>2. Await(c, "connections", {}, missing)
      BY <2>1
    <3> HIDE DEF missing
    <3> QED BY <3>1, <3>2, AwaitSets
  <2>7. /\ \A p : Asking(p) => Asking(p)'
        /\ \A p \in missing : Asking(p)'
    BY <2>6 DEF Asking
  <2>8. \A q : Facing(q) => Facing(q)'
    BY <2>6 DEF Facing
  <2>9. \A p \in Keys(conn') \ missing : p \in Keys(conn) /\ list'[p] = list[p] /\ (p \in lost => p \in lost')
    BY <1>1, <2>1, <2>3
  <2>10. CompleteUnlessCut'
    BY <2>7, <2>9 DEF CompleteUnlessCut
  <2>11. ASSUME NEW p \in Keys(conn'), NEW q \in Neighbours(p), list'[p][{p, q}] > 0
         PROVE  p \in Keys(conn) /\ list[p][{p, q}] > 0
    <3>1. p \in Places /\ {p, q} \in Roads
      BY <1>1, <2>3 DEF Neighbours
    <3>2. p \notin missing
      BY <2>1, <2>4, <2>11, <3>1
    <3> QED BY <2>9, <2>11, <3>2
  <2> QED BY <2>5, <2>6, <2>8, <2>10, <2>11
<1> QED BY <1>2, <1>3

\* What an action leaves alone.
LEMMA CacheSame == ASSUME CacheType, UNCHANGED <<loc, evicted, faceless>> PROVE CacheType'
  BY DEF CacheType
LEMMA RoadSame == ASSUME RoadType, UNCHANGED <<conn, list, lost>> PROVE RoadType'
  BY DEF RoadType

LEMMA WarmKeepsGeography ==
  ASSUME GeographyInv, NEW c \in Callers, NEW ids \in SUBSET Places, Warm(c, ids)
  PROVE  GeographyInv'
<1>1. /\ CacheType /\ RoadType /\ QueryType /\ CompleteUnlessCut /\ NeighboursLoaded
      /\ CacheType' /\ UNCHANGED <<loc, faceless, evicted>>
  BY GeographyParts, CacheSame DEF GeographyInv, Warm
<1>2. job[c].at = "idle" /\ ~job[c].old
  BY DEF Warm, NoQuery
<1>3. CASE AskRoads(c, ids)
  <2>1. /\ RoadType' /\ QueryType' /\ CompleteUnlessCut'
        /\ \A p \in Keys(conn') : \A q \in Neighbours(p) :
             list'[p][{p, q}] > 0 => p \in Keys(conn) /\ list[p][{p, q}] > 0
        /\ \A q : Facing(q) => Facing(q)'
    BY <1>1, <1>2, <1>3, AskRoadsKeeps
  <2>2. NeighboursLoaded'
    BY <1>1, <2>1 DEF NeighboursLoaded
  <2> QED BY <1>1, <2>1, <2>2, GeographyParts DEF GeographyInv
<1>4. CASE Await(c, "locations", ids, Missing(ids, loc)) /\ UNCHANGED <<conn, list, lost>>
  <2>1. /\ QueryType' /\ job'[c].at = "locations" /\ \A d \in Callers \ {c} : job'[d] = job[d]
    <3>1. Missing(ids, loc) \in SUBSET Places
      BY DEF Missing
    <3> QED BY <1>1, <1>4, <3>1, AwaitSets
  <2>2. RoadType' /\ (\A p : Asking(p) => Asking(p)') /\ (\A q : Facing(q) => Facing(q)')
    BY <1>1, <1>2, <1>4, <2>1, RoadSame DEF Asking, Facing
  <2>3. CompleteUnlessCut' /\ NeighboursLoaded'
    BY <1>1, <1>4, <2>2 DEF CompleteUnlessCut, NeighboursLoaded
  <2> QED BY <1>1, <2>1, <2>2, <2>3, GeographyParts DEF GeographyInv
<1> QED BY <1>3, <1>4 DEF Warm

LEMMA AskKeepsGeography ==
  ASSUME GeographyInv, NEW c \in Callers, NEW p \in Places, AskNeighbours(c, p)
  PROVE  GeographyInv'
<1>1. /\ CacheType /\ RoadType /\ QueryType /\ CompleteUnlessCut /\ NeighboursLoaded
      /\ CacheType' /\ UNCHANGED <<loc, faceless, evicted>>
  BY GeographyParts, CacheSame DEF GeographyInv, AskNeighbours
<1>2. job[c].at = "idle" /\ ~job[c].old /\ AskRoads(c, {p})
  BY DEF AskNeighbours, NoQuery
<1>3. /\ RoadType' /\ QueryType' /\ CompleteUnlessCut'
      /\ \A o \in Keys(conn') : \A q \in Neighbours(o) :
           list'[o][{o, q}] > 0 => o \in Keys(conn) /\ list[o][{o, q}] > 0
      /\ \A q : Facing(q) => Facing(q)'
  BY <1>1, <1>2, AskRoadsKeeps
<1>4. NeighboursLoaded'
  BY <1>1, <1>3 DEF NeighboursLoaded
<1> QED BY <1>1, <1>3, <1>4, GeographyParts DEF GeographyInv

LEMMA LookUpKeepsGeography ==
  ASSUME GeographyInv, NEW q \in Places, LookUp(q)
  PROVE  GeographyInv'
<1>1. /\ CacheType /\ RoadType /\ QueryType /\ CompleteUnlessCut /\ NeighboursLoaded
      /\ UNCHANGED <<conn, list, job, lost>> /\ LoadRows({q}) /\ faceless' = faceless \ {q}
  BY GeographyParts DEF GeographyInv, LookUp
<1>2. /\ CacheType'
      /\ \A o : o \in Keys(loc) \cup evicted \cup {q} => o \in Keys(loc') \cup evicted'
  BY <1>1, LoadKeeps
<1>3. RoadType' /\ QueryType' /\ CompleteUnlessCut' /\ \A o : Facing(o) => Facing(o)'
  BY <1>1, RoadSame DEF QueryType, CompleteUnlessCut, Asking, Facing
<1>4. NeighboursLoaded'
  BY <1>1, <1>2, <1>3 DEF NeighboursLoaded
<1> QED BY <1>2, <1>3, <1>4, GeographyParts DEF GeographyInv

LEMMA LocationRowsKeepGeography ==
  ASSUME GeographyInv, NEW c \in Callers, LocationRows(c)
  PROVE  GeographyInv'
<1>1. /\ CacheType /\ RoadType /\ QueryType /\ CompleteUnlessCut /\ NeighboursLoaded
      /\ job[c].at = "locations" /\ job[c] \in Queries
  BY GeographyParts DEF GeographyInv, LocationRows, QueryType
<1>2. CASE job[c].old
  <2>1. job' = [job EXCEPT ![c] = NoQuery] /\ UNCHANGED <<loc, evicted, faceless, conn, list, lost>>
    BY <1>2 DEF LocationRows
  <2>2. QueryType' /\ \A d \in Callers \ {c} : job'[d] = job[d]
    BY <1>1, <2>1, RestSets
  <2>3. CacheType' /\ RoadType' /\ (\A p : Asking(p) => Asking(p)') /\ (\A q : Facing(q) => Facing(q)')
    BY <1>1, <2>1, <2>2, CacheSame, RoadSame DEF Asking, Facing
  <2>4. CompleteUnlessCut' /\ NeighboursLoaded'
    BY <1>1, <2>1, <2>3 DEF CompleteUnlessCut, NeighboursLoaded
  <2> QED BY <2>2, <2>3, <2>4, GeographyParts DEF GeographyInv
<1>3. CASE ~job[c].old
  <2>1. /\ LoadRows(job[c].todo) /\ faceless' = faceless \ job[c].todo /\ AskRoads(c, job[c].ids)
        /\ job[c].todo \in SUBSET Places /\ job[c].ids \in SUBSET Places
    BY <1>1, <1>3 DEF LocationRows, Queries
  <2>2. /\ CacheType'
        /\ \A o : o \in Keys(loc) \cup evicted \cup job[c].todo => o \in Keys(loc') \cup evicted'
    BY <1>1, <2>1, LoadKeeps
  <2>3. /\ RoadType' /\ QueryType' /\ CompleteUnlessCut'
        /\ \A p \in Keys(conn') : \A q \in Neighbours(p) :
             list'[p][{p, q}] > 0 => p \in Keys(conn) /\ list[p][{p, q}] > 0
        /\ \A q : Facing(q) => Facing(q)'
    BY <1>1, <1>3, <2>1, AskRoadsKeeps
  <2>4. NeighboursLoaded'
    BY <1>1, <2>1, <2>2, <2>3 DEF NeighboursLoaded
  <2> QED BY <2>2, <2>3, <2>4, GeographyParts DEF GeographyInv
<1> QED BY <1>2, <1>3

LEMMA FaceRowsKeepGeography ==
  ASSUME GeographyInv, NEW c \in Callers, FaceRows(c)
  PROVE  GeographyInv'
<1>1. /\ CacheType /\ RoadType /\ QueryType /\ CompleteUnlessCut /\ NeighboursLoaded
      /\ job[c].at = "faces" /\ job[c].todo \in SUBSET Places
      /\ LoadRows(job[c].todo) /\ faceless' = faceless \ job[c].todo
      /\ job' = [job EXCEPT ![c] = NoQuery] /\ UNCHANGED <<conn, list, lost>>
  BY GeographyParts DEF GeographyInv, FaceRows, QueryType, Queries
<1>2. /\ CacheType'
      /\ \A o : o \in Keys(loc) \cup evicted \cup job[c].todo => o \in Keys(loc') \cup evicted'
  BY <1>1, LoadKeeps
<1>3. QueryType' /\ RoadType' /\ \A d \in Callers \ {c} : job'[d] = job[d]
  BY <1>1, RestSets, RoadSame
<1>4. (\A p : Asking(p) => Asking(p)') /\ (\A q : Facing(q) => Facing(q)' \/ q \in job[c].todo)
  BY <1>1, <1>3 DEF Asking, Facing
<1>5. CompleteUnlessCut'
  BY <1>1, <1>4 DEF CompleteUnlessCut
<1>6. NeighboursLoaded'
  BY <1>1, <1>2, <1>4 DEF NeighboursLoaded
<1> QED BY <1>2, <1>3, <1>5, <1>6, GeographyParts DEF GeographyInv

LEMMA ConnectionRowsKeepGeography ==
  ASSUME GeographyInv, NEW c \in Callers, ConnectionRows(c)
  PROVE  GeographyInv'
<1>1. /\ CacheType /\ RoadType /\ QueryType /\ CompleteUnlessCut /\ NeighboursLoaded
      /\ job[c].at = "connections" /\ ~job[c].old /\ UNCHANGED <<loc, lost, faceless, evicted>>
      /\ job[c].todo \in SUBSET Places /\ job[c].ids \in SUBSET Places
  BY GeographyParts DEF GeographyInv, ConnectionRows, QueryType, Queries
<1>0. Keys(conn) \subseteq Places
  BY <1>1 DEF RoadType, Keys, ToSet
<1>2. PICK chunk \in SUBSET job[c].todo :
        /\ list' = Listed(chunk)
        /\ \E s \in Orders((UNION RowsOf(chunk)) \cap Keys(conn)) : conn' = Used(conn, s, ConnMax)
        /\ IF job[c].todo \ chunk # {} THEN Await(c, "connections", Ends(c, chunk), job[c].todo \ chunk)
           ELSE IF Missing(Ends(c, chunk), loc) = {} THEN job' = [job EXCEPT ![c] = NoQuery]
           ELSE Await(c, "faces", {}, Missing(Ends(c, chunk), loc))
  BY DEF ConnectionRows
<1> DEFINE rest == job[c].todo \ chunk
           ends == Ends(c, chunk)
<1>3. /\ RowsOf(chunk) \subseteq Roads /\ UNION RowsOf(chunk) \in SUBSET Places
      /\ ends \in SUBSET Places /\ rest \in SUBSET Places /\ Missing(ends, loc) \in SUBSET Places
  BY <1>1, GeographyAssumption DEF RowsOf, Ends, Missing
<1>4. CacheType'
  BY <1>1, CacheSame
<1>5. /\ conn' \in Seq(Places) /\ Len(conn') <= ConnMax /\ IsInjective(conn')
      /\ Keys(conn') \subseteq Keys(conn)
  <2>1. PICK s \in Orders((UNION RowsOf(chunk)) \cap Keys(conn)) : conn' = Used(conn, s, ConnMax)
    BY <1>2
  <2>2. (UNION RowsOf(chunk)) \cap Keys(conn) \in SUBSET Places
    BY <1>3
  <2>3. /\ s \in Seq(Places) /\ IsInjective(s)
        /\ ToSet(s) \subseteq (UNION RowsOf(chunk)) \cap Keys(conn)
    BY <2>2, OrderedOnce
  <2>4. ToSet(s) \subseteq Keys(conn)
    BY <2>3
  <2> QED BY <1>1, <2>1, <2>3, <2>4, UsedKeeps, GeographyAssumption DEF RoadType
<1>6. /\ list' \in [Places -> [Roads -> 0..Many]]
      /\ \A p \in Places, r \in Roads :
           /\ list[p][r] > 0 => list'[p][r] > 0
           /\ list'[p][r] > 0 => list[p][r] > 0 \/ (p \in Keys(conn) /\ p \in r /\ r \in RowsOf(chunk))
           /\ (p \in Keys(conn) /\ p \in r /\ r \in RowsOf(chunk)) => list'[p][r] > 0
  <2>1. \A p \in Places, r \in Roads : list[p][r] \in 0..Many /\ Many \in Nat \ {0}
    BY <1>1, GeographyAssumption DEF RoadType
  <2>2. \A p \in Places, r \in Roads :
          /\ list'[p][r] = IF p \in Keys(conn) /\ p \in r /\ r \in RowsOf(chunk) /\ list[p][r] < Many
                           THEN list[p][r] + 1 ELSE list[p][r]
          /\ list'[p][r] \in 0..Many
    BY <1>2, <2>1 DEF Listed
  <2>3. list' \in [Places -> [Roads -> 0..Many]]
    BY <1>2, <2>2 DEF Listed
  <2> QED BY <2>1, <2>2, <2>3
<1>7. RoadType'
  BY <1>1, <1>5, <1>6 DEF RoadType
<1>8. /\ QueryType' /\ \A d \in Callers \ {c} : job'[d] = job[d]
      /\ \/ /\ rest # {} /\ job'[c].at = "connections" /\ job'[c].todo = rest /\ job'[c].ids = ends /\ ~job'[c].old
         \/ rest = {} /\ Missing(ends, loc) = {}
         \/ rest = {} /\ job'[c].at = "faces" /\ job'[c].todo = Missing(ends, loc) /\ ~job'[c].old
  <2>1. CASE rest # {}
    <3>1. Await(c, "connections", ends, rest)
      BY <1>2, <2>1
    <3> HIDE DEF rest, ends
    <3> QED BY <1>1, <1>3, <2>1, <3>1, AwaitSets
  <2>2. CASE rest = {} /\ Missing(ends, loc) = {}
    <3>1. job' = [job EXCEPT ![c] = NoQuery]
      BY <1>2, <2>2
    <3> QED BY <1>1, <2>2, <3>1, RestSets
  <2>3. CASE rest = {} /\ Missing(ends, loc) # {}
    <3>1. Await(c, "faces", {}, Missing(ends, loc))
      BY <1>2, <2>3
    <3> HIDE DEF rest, ends
    <3> QED BY <1>1, <1>3, <2>3, <3>1, AwaitSets
  <2> QED BY <2>1, <2>2, <2>3
<1>9. \A p : Asking(p) => Asking(p)' \/ p \in chunk
  <2>1. \A p : p \in job[c].todo => Asking(p)' \/ p \in chunk
    BY <1>8 DEF Asking
  <2> QED BY <1>8, <2>1 DEF Asking
<1>10. CompleteUnlessCut'
  <2> SUFFICES ASSUME NEW p \in Keys(conn') \ lost', ~Asking(p)', NEW r \in Roads, p \in r
               PROVE  list'[p][r] > 0
    BY DEF CompleteUnlessCut
  <2>1. p \in Keys(conn) /\ p \notin lost /\ p \in Places
    BY <1>0, <1>1, <1>5
  <2>2. CASE p \in chunk
    <3>1. r \in RowsOf(chunk)
      BY <2>2 DEF RowsOf
    <3> QED BY <1>6, <2>1, <3>1
  <2>3. CASE p \notin chunk
    <3>1. list[p][r] > 0
      BY <1>1, <1>9, <2>1, <2>3 DEF CompleteUnlessCut
    <3> QED BY <1>6, <2>1, <3>1
  <2> QED BY <2>2, <2>3
<1>11. /\ \A q : Facing(q) => Facing(q)' \/ q \in Keys(loc)
       /\ \A q \in ends : Facing(q)' \/ q \in Keys(loc)
  <2>1. \A q \in ends : Facing(q)' \/ q \in Keys(loc)
    BY <1>8 DEF Facing, Missing
  <2>2. \A q \in job[c].ids : q \in ends
    BY DEF Ends
  <2> QED BY <1>1, <1>8, <2>1, <2>2 DEF Facing
<1>12. NeighboursLoaded'
  <2> SUFFICES ASSUME NEW p \in Keys(conn'), NEW q \in Neighbours(p), list'[p][{p, q}] > 0
               PROVE  q \in Keys(loc) \/ Facing(q)' \/ q \in faceless \/ q \in evicted
    BY <1>1 DEF NeighboursLoaded
  <2>1. p \in Keys(conn) /\ p \in Places /\ {p, q} \in Roads
    BY <1>0, <1>5 DEF Neighbours
  <2>2. CASE {p, q} \in RowsOf(chunk)
    <3>1. q \in ends
      BY <2>2 DEF Ends
    <3> QED BY <1>11, <3>1
  <2>3. CASE list[p][{p, q}] > 0
    BY <1>1, <1>11, <2>1, <2>3 DEF NeighboursLoaded
  <2> QED BY <1>6, <2>1, <2>2, <2>3
<1> QED BY <1>4, <1>7, <1>8, <1>10, <1>12, GeographyParts DEF GeographyInv

LEMMA FailsKeepsGeography ==
  ASSUME GeographyInv, NEW c \in Callers, Fails(c)
  PROVE  GeographyInv'
<1>1. /\ CacheType /\ RoadType /\ QueryType /\ CompleteUnlessCut /\ NeighboursLoaded
      /\ job[c] \in Queries /\ job' = [job EXCEPT ![c] = NoQuery] /\ UNCHANGED <<loc, conn, list, evicted>>
  BY GeographyParts DEF GeographyInv, Fails, QueryType
<1>2. QueryType' /\ \A d \in Callers \ {c} : job'[d] = job[d]
  BY <1>1, RestSets
<1>3. \/ /\ ~job[c].old /\ job[c].at = "connections"
         /\ lost' = lost \cup (job[c].todo \cap Keys(conn))
         /\ faceless' = faceless \cup Missing(job[c].ids, loc)
      \/ /\ ~job[c].old /\ job[c].at = "faces"
         /\ faceless' = faceless \cup Missing(job[c].todo, loc) /\ lost' = lost
      \/ /\ job[c].old \/ job[c].at \notin {"connections", "faces"}
         /\ UNCHANGED <<lost, faceless>>
  BY <1>1 DEF Fails
<1>4. lost \subseteq lost' /\ lost' \subseteq Places /\ faceless \subseteq faceless' /\ faceless' \subseteq Places
  BY <1>1, <1>3 DEF RoadType, CacheType, Queries, Missing
<1>5. CacheType' /\ RoadType'
  BY <1>1, <1>4 DEF CacheType, RoadType
<1>6. \A p \in Keys(conn) : Asking(p) => Asking(p)' \/ p \in lost'
  BY <1>2, <1>3 DEF Asking
<1>7. \A q : Facing(q) => Facing(q)' \/ q \in faceless' \/ q \in Keys(loc)
  BY <1>2, <1>3 DEF Facing, Missing
<1>8. CompleteUnlessCut'
  BY <1>1, <1>4, <1>6 DEF CompleteUnlessCut
<1>9. NeighboursLoaded'
  BY <1>1, <1>4, <1>7 DEF NeighboursLoaded
<1> QED BY <1>2, <1>5, <1>8, <1>9, GeographyParts DEF GeographyInv

LEMMA ReadKeepsGeography ==
  ASSUME GeographyInv, NEW p \in Places, Read(p)
  PROVE  GeographyInv'
<1>1. /\ CacheType /\ RoadType /\ QueryType /\ CompleteUnlessCut /\ NeighboursLoaded
      /\ p \in Keys(conn) /\ conn' = Used(conn, <<p>>, ConnMax)
      /\ UNCHANGED <<list, job, lost, faceless, evicted>>
  BY GeographyParts DEF GeographyInv, Read
<1> DEFINE seen == {q \in Keys(loc) : {p, q} \in Roads /\ list[p][{p, q}] > 0}
<1>2. PICK s \in Orders(seen) : loc' = Used(loc, s, LocMax)
  BY DEF Read
<1>3. seen \in SUBSET Places /\ seen \subseteq Keys(loc)
  BY <1>1 DEF CacheType, Keys, ToSet
<1> HIDE DEF seen
<1>4. s \in Seq(Places) /\ IsInjective(s) /\ ToSet(s) \subseteq Keys(loc)
  BY <1>3, OrderedOnce
<1>5. /\ loc' \in Seq(Places) /\ Len(loc') <= LocMax /\ IsInjective(loc') /\ Keys(loc') = Keys(loc)
  BY <1>1, <1>2, <1>4, UsedKeeps, GeographyAssumption DEF CacheType
<1>6. <<p>> \in Seq(Places) /\ IsInjective(<<p>>) /\ ToSet(<<p>>) = {p}
  BY DEF IsInjective, ToSet
<1>7. /\ conn' \in Seq(Places) /\ Len(conn') <= ConnMax /\ IsInjective(conn') /\ Keys(conn') = Keys(conn)
  <2>1. ToSet(<<p>>) \subseteq Keys(conn)
    BY <1>1, <1>6
  <2>2. conn \in Seq(Places) /\ Len(conn) <= ConnMax /\ IsInjective(conn) /\ ConnMax \in Nat \ {0}
    BY <1>1, GeographyAssumption DEF RoadType
  <2>3. /\ Used(conn, <<p>>, ConnMax) \in Seq(Places) /\ Len(Used(conn, <<p>>, ConnMax)) <= ConnMax
        /\ IsInjective(Used(conn, <<p>>, ConnMax)) /\ Keys(Used(conn, <<p>>, ConnMax)) = Keys(conn)
    BY <1>6, <2>1, <2>2, UsedKeeps
  <2> QED BY <1>1, <2>3
<1>8. CacheType' /\ RoadType' /\ QueryType'
  BY <1>1, <1>5, <1>7 DEF CacheType, RoadType, QueryType
<1>9. CompleteUnlessCut' /\ NeighboursLoaded'
  BY <1>1, <1>5, <1>7 DEF CompleteUnlessCut, NeighboursLoaded, Asking, Facing
<1> QED BY <1>8, <1>9, GeographyParts DEF GeographyInv

LEMMA EmptyGeography ==
  ASSUME NEW caches, caches = <<>>
  PROVE  caches \in Seq(Places) /\ Len(caches) = 0 /\ IsInjective(caches) /\ Keys(caches) = {}
  BY DEF IsInjective, Keys, ToSet

LEMMA RefreshKeepsGeography ==
  ASSUME GeographyInv, RefreshGeography
  PROVE  GeographyInv'
<1>1. /\ CacheType /\ RoadType /\ QueryType
      /\ loc' = <<>> /\ conn' = <<>> /\ list' = [p \in Places |-> NoRoads]
      /\ job' = [c \in Callers |-> IF job[c] = NoQuery THEN NoQuery
               ELSE [NoQuery EXCEPT !.at = "locations", !.old = TRUE]]
      /\ lost' = {} /\ faceless' = {} /\ evicted' = {}
  BY GeographyParts DEF GeographyInv, RefreshGeography
<1>2. NoQuery \in Queries /\ [NoQuery EXCEPT !.at = "locations", !.old = TRUE] \in Queries
  BY DEF NoQuery, Queries
<1>3. NoRoads \in [Roads -> 0..Many]
  BY GeographyAssumption DEF NoRoads
<1>4. CacheType' /\ RoadType' /\ QueryType'
  BY <1>1, <1>2, <1>3, EmptyGeography, GeographyAssumption DEF CacheType, RoadType, QueryType
<1>5. CompleteUnlessCut' /\ NeighboursLoaded'
  BY <1>1, EmptyGeography DEF CompleteUnlessCut, NeighboursLoaded
<1> QED BY <1>4, <1>5, GeographyParts DEF GeographyInv

LEMMA GeographyStarts ==
  ASSUME GeographyInit
  PROVE  GeographyInv
<1>1. NoQuery \in Queries
  BY DEF NoQuery, Queries
<1>2. NoRoads \in [Roads -> 0..Many]
  BY GeographyAssumption DEF NoRoads
<1>3. CacheType /\ RoadType /\ QueryType
  BY <1>1, <1>2, EmptyGeography, GeographyAssumption DEF GeographyInit, CacheType, RoadType, QueryType
<1>4. CompleteUnlessCut /\ NeighboursLoaded
  BY EmptyGeography DEF GeographyInit, CompleteUnlessCut, NeighboursLoaded
<1> QED BY <1>3, <1>4, GeographyParts DEF GeographyInv

LEMMA GeographyInvariant == GeographySpec => []GeographyInv
<1>1. ASSUME GeographyInv, [GeographyNext]_geographyVars PROVE GeographyInv'
  <2>1. CASE UNCHANGED geographyVars
    BY <1>1, <2>1 DEF geographyVars, GeographyInv, GeographyTypeOK, CompleteUnlessCut, NeighboursLoaded,
                      Asking, Facing
  <2> QED BY <1>1, <2>1, WarmKeepsGeography, AskKeepsGeography, LookUpKeepsGeography,
             LocationRowsKeepGeography, FaceRowsKeepGeography, ConnectionRowsKeepGeography,
             FailsKeepsGeography, ReadKeepsGeography, RefreshKeepsGeography
          DEF GeographyNext
<1> QED BY <1>1, GeographyStarts, PTL DEF GeographySpec

\* Types of the two caches, for any map, caps of the caches and size of chunks: no
\* key is twice in a cache, and neither grows beyond its cap (LazyGeography).
THEOREM GeographyTypeCorrect == GeographySpec => []GeographyTypeOK
<1>1. GeographyInv => GeographyTypeOK
  BY DEF GeographyInv
<1> QED BY <1>1, GeographyInvariant, PTL

\* A cached place lacks one of its roads only while its query is under way, or after
\* that query failed (warm_connections).
THEOREM CompleteUnlessCutHolds == GeographySpec => []CompleteUnlessCut
<1>1. GeographyInv => CompleteUnlessCut
  BY DEF GeographyInv
<1> QED BY <1>1, GeographyInvariant, PTL

\* The other end of a road on a cached list is cached, unless its query is under way
\* or failed, or it was evicted (warm_connections).
THEOREM NeighboursLoadedHolds == GeographySpec => []NeighboursLoaded
<1>1. GeographyInv => NeighboursLoaded
  BY DEF GeographyInv
<1> QED BY <1>1, GeographyInvariant, PTL
=============================================================================
