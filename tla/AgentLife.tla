------------------------------ MODULE AgentLife ------------------------------
(***************************************************************************)
(* The life of the agents in the sequential mode: they are placed, pursue  *)
(* goals, choose moves, travel over several ticks, learn, and are saved,   *)
(* restored, topped up and redeployed.                                     *)
(*                                                                         *)
(* An agent's part in a tick has two halves with awaits around them: the   *)
(* move, and what it learns where it is then.  A pause may come at any of  *)
(* these awaits; it abandons the tick and saves.  Distances are in tenths  *)
(* of a kilometre and energy in thousandths, so that the arithmetic of the *)
(* code is exact in integers.                                              *)
(*                                                                         *)
(* Agents explore with a probability between 0.05 and 0.95, so any         *)
(* neighbour may be chosen whatever was learned; Q-values are represented  *)
(* by the pair of state and action that the next reward is credited to.    *)
(* Few enough facts are learned here that the cap of the memory does not   *)
(* bite, and neighbours of a warm place are in the cache of locations.     *)
(***************************************************************************)
EXTENDS Integers, Sequences, FiniteSets, SequencesExt

CONSTANTS
  Places,     \* ids of locations, positive numbers
  Country,    \* [Places -> STRING], "" when admin_level_1 is missing
  Quality,    \* [Places -> Nat], the global order: populated first, then id
  Roads,      \* records [ends, d10, kind]; no two join the same places
  BirthEnergy,\* energies agents may be born with, between 75 and 100
  PoolMin,    \* least size asked of the spawn pool, 200 in the code
  GoalLife,   \* ticks a goal is kept, 120 in the code
  SaveEvery,  \* ticks from save to save, 10 in the code
  Configured, \* values agent_count may have, at one start and the next
  MaxTick,    \* bound: the largest tick
  MaxFaults   \* bound: restarts, pauses and refreshes of the geography

Kinds == {"road", "rail", "path", "proximity", "waterway"}
None == 0

ASSUME LifeAssumption ==
  /\ Places \subseteq Nat \ {None} /\ Places # {} /\ IsFiniteSet(Places)
  /\ Country \in [Places -> STRING] /\ Quality \in [Places -> Nat]
  /\ \A p, q \in Places : Quality[p] = Quality[q] => p = q
  /\ \A r \in Roads : r.ends \in SUBSET Places /\ r.d10 \in Nat /\ r.kind \in Kinds
  /\ \A e \in BirthEnergy : e \in Nat /\ 75000 <= e /\ e <= 100000
  /\ PoolMin \in Nat \ {0} /\ GoalLife \in Nat \ {0} /\ SaveEvery \in Nat \ {0}
  /\ Configured \subseteq Nat \ {0} /\ MaxFaults \in Nat /\ MaxTick \in Nat

VARIABLES
  agent,  \* sequence of the live agents
  pc,     \* [at, who]: where in the tick the loop is
  tick,   \* tick_count
  cached, \* places whose connections the cache of this process holds
  row,    \* the committed agent_state rows, and the tick_count of world_state
  faults, \* restarts, pauses and refreshes so far
  cut     \* history: whether a pause came between an agent's halves of a tick

vars == <<agent, pc, tick, cached, row, faults, cut>>
-----------------------------------------------------------------------------
\* Roads and what a move takes.

NoRoad == [ends |-> {}, d10 |-> 0, kind |-> "road"]
Neighbours(p) == {q \in Places \ {p} : \E r \in Roads : r.ends = {p, q}}
RoadTo(p, q) == CHOOSE r \in Roads : r.ends = {p, q}

\* What perceive shows: nothing of a place whose connections are not cached.
Seen(p) == IF p \in cached THEN Neighbours(p) ELSE {}

SpeedFactor == [road |-> 10, rail |-> 14, path |-> 6, proximity |-> 5, waterway |-> 3]
Effort == [road |-> 10, rail |-> 12, path |-> 15, waterway |-> 25, proximity |-> 20]

\* Duration at 5 km/h times the factor of the terrain, one tick a minute.
JourneyTicks(r) ==
  LET speed10 == Max({5, 5 * SpeedFactor[r.kind]})
  IN  Max({1, (120 * r.d10 + speed10) \div (2 * speed10)})

\* What learn charges for the last move, in every tick that follows it.
MoveCost(r) == IF r.d10 > 0 THEN Min({3000, r.d10 * Effort[r.kind]}) ELSE 0
-----------------------------------------------------------------------------
\* Goals.

NoGoal == [kind |-> "none", target |-> None]
GoalFor(kind, p) == [kind |-> kind, target |-> p]

\* _select_knowledge_gap_target.  A place never visited scores 2, one where the
\* agent was put without a tick to look around it less than 1, and half of that
\* if it is there; whatever was observed scores 0.  Among the best, neighbours
\* are preferred.
GapTargets(g, seen) ==
  LET fresh   == seen \ g.visited
      unknown == (g.visited \ g.learned) \ {g.at}
  IN  CASE fresh # {}          -> fresh
        [] fresh = {} /\ unknown # {} ->
             IF unknown \cap seen # {} THEN unknown \cap seen ELSE unknown
        [] OTHER               -> {g.at} \ g.learned

\* A goal is kept until it is reached, or too old, or the agent has rested.
Kept(g) ==
  /\ g.goal # NoGoal /\ g.goal.target # g.at
  /\ ~(g.goal.kind = "recover" /\ g.energy >= 30000)
  /\ g.age + 1 <= GoalLife

\* refresh_goal without its step for specialists, who are never found: their
\* expertise is kept in social_memory and looked for in interaction_network.
Refreshed(g, seen) ==
  LET gaps   == GapTargets(g, seen) \ {g.at}
      unseen == seen \ g.visited
      Take(kind, ps) == {[g EXCEPT !.goal = GoalFor(kind, p), !.age = 0] : p \in ps}
  IN  CASE g.energy < 15000 -> Take("recover", {g.at})
        [] g.energy >= 15000 /\ Kept(g) -> {[g EXCEPT !.age = @ + 1]}
        [] g.energy >= 15000 /\ ~Kept(g) /\ gaps # {} -> Take("investigate_gap", gaps)
        [] OTHER -> Take("explore", IF unseen # {} THEN unseen ELSE g.visited)
-----------------------------------------------------------------------------
\* The two halves of an agent's tick.

\* choose_next_location: any neighbour, or the place itself if there is none.
Options(g, seen) == IF seen = {} THEN {g.at} ELSE seen

\* Variant: the choice is remembered once.
ChosenOnce(g, seen, p) ==
  IF seen = {} \/ g.state # None THEN g ELSE [g EXCEPT !.state = g.at, !.action = p]

\* What it remembers of the choice, also on the way; nothing if there was none.
Chosen(g, seen, p) == IF seen = {} THEN g ELSE [g EXCEPT !.state = g.at, !.action = p]

\* Variant: the last tick of a journey does not count as one.
TravelsFar(g) == g.to # None /\ g.left > 1

IsTraveling(g) == g.to # None /\ g.left > 0

\* apply_action: on the way the journey goes on whatever was chosen; otherwise
\* the agent stays, arrives within the tick, or departs.
Moved(g, p) ==
  LET r == RoadTo(g.at, p)
      n == JourneyTicks(r)
  IN  CASE IsTraveling(g) /\ g.left > 1 -> [g EXCEPT !.left = @ - 1]
        [] IsTraveling(g) /\ g.left = 1 -> [g EXCEPT !.left = 0, !.at = g.to, !.to = None]
        [] ~IsTraveling(g) /\ p = g.at  -> [g EXCEPT !.road = NoRoad]
        [] ~IsTraveling(g) /\ p # g.at  ->
             IF n = 1 THEN [g EXCEPT !.at = p, !.road = r]
             ELSE [g EXCEPT !.to = p, !.left = n, !.road = r]

\* Variant: no recovery on the way.
EnergyTired(e, r) == IF r.d10 > 0 THEN Max({0, e - MoveCost(r)}) ELSE Min({100000, e + 5000})

\* The energy after a tick whose last move was over r.
EnergyAfter(e, r) == Min({100000, Max({0, e - MoveCost(r)}) + 5000})

\* Variant: on the way nothing is noted as visited.
LearnedAtRest(g) ==
  [g EXCEPT !.visited = IF g.road = NoRoad THEN @ \cup {g.at} ELSE @,
            !.learned = @ \cup {g.at}, !.energy = EnergyAfter(@, g.road)]

\* learn: what is observed at the place, and the energy.
Learned(g) ==
  [g EXCEPT !.visited = @ \cup {g.at}, !.learned = @ \cup {g.at},
            !.energy = EnergyAfter(@, g.road)]
-----------------------------------------------------------------------------
\* Placement.

Spawnable == {p \in Places : Country[p] # ""}
Rank(p) == Cardinality({q \in Spawnable : Country[q] = Country[p]
                                          /\ Quality[q] <= Quality[p]})
Before(p, q) == \/ Rank(p) < Rank(q)
                \/ Rank(p) = Rank(q) /\ Quality[p] < Quality[q]

\* Variant: the best places first, of whatever country.
PoolByQuality(limit) ==
  LET best == SetToSortSeq(Spawnable, LAMBDA p, q : Quality[p] < Quality[q])
  IN  SubSeq(best, 1, Min({limit, Len(best)}))

\* A set of places in order: the n-th has n - 1 of them before it.
InOrder(S) ==
  [n \in 1..Cardinality(S) |->
     CHOOSE p \in S : Cardinality({q \in S : Before(q, p)}) = n - 1]

\* get_spawn_locations: rank by rank over the countries, and the best places
\* of all if no place has a country, when all ranks are 0.
SpawnPool(limit) ==
  LET countries  == {Country[p] : p \in Spawnable}
      perCountry == Max({1, (limit + Cardinality(countries) - 1)
                              \div Cardinality(countries)})
      ranked == {p \in Spawnable : Rank(p) <= perCountry}
      pool   == InOrder(IF countries = {} THEN Places ELSE ranked)
  IN  SubSeq(pool, 1, Min({limit, Len(pool)}))

Pool(n) == SpawnPool(Max({n, PoolMin}))
PlaceOf(pool, i) == pool[((i - 1) % Len(pool)) + 1]

Newborn(p, e) ==
  [at |-> p, to |-> None, left |-> 0, road |-> NoRoad, energy |-> e,
   state |-> None, action |-> None,
   goal |-> NoGoal, age |-> 0, visited |-> {p}, learned |-> {}]

\* bootstrap: n agents over the pool.
Bootstrap(n, e) == [i \in 1..n |-> Newborn(PlaceOf(Pool(n), i), e)]

\* to_persisted and from_persisted: neither the journey nor the pair the next
\* reward is credited to is saved.
Persisted(g) == [g EXCEPT !.to = None, !.left = 0,
                          !.state = None, !.action = None]

Coverage(gs) == {Country[gs[i].at] : i \in DOMAIN gs} \ {""}
Available(n) == {Country[p] : p \in ToSet(Pool(n))} \ {""}

\* redeploy_to_spawn_pool.
Redeployed(gs) ==
  [i \in DOMAIN gs |->
     LET p == PlaceOf(Pool(Len(gs)), i)
     IN  [gs[i] EXCEPT !.at = p, !.road = NoRoad, !.visited = @ \cup {p}]]

\* load: the rows are restored, topped up to the configured count, and
\* redeployed when they cover less than four fifths of the countries.
Loaded(rows, n, e) ==
  LET topped == rows \o SubSeq(Bootstrap(Max({n, Len(rows)}), e), Len(rows) + 1, n)
      here   == Coverage(topped)
      all    == Available(Len(topped))
  IN  IF rows = <<>> THEN Bootstrap(n, e)
      ELSE IF here # {} /\ 5 * Cardinality(here) < 4 * Cardinality(all)
           THEN Redeployed(topped) ELSE topped
-----------------------------------------------------------------------------
At(where, who) == [at |-> where, who |-> who]

Energies == {e \in Nat : e <= 100000}

Lives == [at : Places, to : Places \cup {None}, left : Nat, road : Roads \cup {NoRoad},
          energy : Energies, state : Places \cup {None}, action : Places \cup {None},
          goal : [kind : {"none", "recover", "investigate_gap", "explore"},
                  target : Places \cup {None}],
          age : 0..GoalLife, visited : SUBSET Places, learned : SUBSET Places]

TypeOK ==
  /\ agent \in Seq(Lives) /\ agent # <<>>
  /\ pc.at \in {"loaded", "idle", "paused", "move", "learn", "save"}
  /\ pc.at \in {"move", "learn"} => pc.who \in DOMAIN agent
  /\ tick \in 0..MaxTick /\ cached \subseteq Places
  /\ row.agents \in Seq(Lives) /\ row.tick \in 0..tick
  /\ faults \in 0..MaxFaults /\ cut \in BOOLEAN

Init ==
  /\ \E n \in Configured, e \in BirthEnergy : agent = Bootstrap(n, e)
  /\ pc = At("loaded", 0) /\ tick = 0 /\ cached = {}
  /\ row = [agents |-> <<>>, tick |-> 0]
  /\ faults = 0 /\ cut = FALSE

\* The tick count advances and the connections of the agents' places are
\* fetched.
TickBegin ==
  /\ pc.at \in {"loaded", "paused", "idle"}
  /\ tick < MaxTick /\ tick' = tick + 1
  /\ cached' = cached \cup {agent[i].at : i \in DOMAIN agent}
  /\ pc' = At("move", 1)
  /\ UNCHANGED <<agent, row, faults, cut>>

\* _tick_one_agent_sync_premove.
Premove ==
  /\ pc.at = "move"
  /\ LET g == agent[pc.who]  seen == Seen(agent[pc.who].at) IN
       \E h \in Refreshed(g, seen), p \in Options(g, seen) :
         agent' = [agent EXCEPT ![pc.who] = Moved(Chosen(h, seen, p), p)]
  /\ pc' = At("learn", pc.who)
  /\ UNCHANGED <<tick, cached, row, faults, cut>>

\* _tick_one_agent_sync_postmove; then the next agent, or the end of the tick,
\* which saves if it is due.
Postmove ==
  /\ pc.at = "learn"
  /\ agent' = [agent EXCEPT ![pc.who] = Learned(@)]
  /\ pc' = IF pc.who < Len(agent) THEN At("move", pc.who + 1)
           ELSE At(IF tick % SaveEvery = 0 THEN "save" ELSE "idle", 0)
  /\ UNCHANGED <<tick, cached, row, faults, cut>>

Rows == [agents |-> [i \in DOMAIN agent |-> Persisted(agent[i])], tick |-> tick]

\* The periodic save.
Save ==
  /\ pc.at = "save"
  /\ row' = Rows
  /\ pc' = At("idle", 0)
  /\ UNCHANGED <<agent, tick, cached, faults, cut>>

Fault == faults < MaxFaults /\ faults' = faults + 1

\* A pause cancels the tick wherever it is and saves; a start follows.
Pause ==
  /\ Fault
  /\ row' = Rows
  /\ pc' = At("paused", 0)
  /\ cut' = (cut \/ pc.at = "learn")
  /\ UNCHANGED <<agent, tick, cached>>

\* The refresh of the geography puts one with empty caches into its place; a
\* tick under way goes on with the old one.
RefreshGeography ==
  /\ Fault /\ pc.at = "idle"
  /\ cached' = {}
  /\ UNCHANGED <<agent, pc, tick, row, cut>>

\* The process dies and is started again, perhaps with another agent_count.
Restart ==
  /\ Fault
  /\ \E n \in Configured, e \in BirthEnergy : agent' = Loaded(row.agents, n, e)
  /\ tick' = row.tick /\ cached' = {}
  /\ pc' = At("loaded", 0)
  /\ UNCHANGED <<row, cut>>

Step == TickBegin \/ Premove \/ Postmove \/ Save
Next == Step \/ Pause \/ RefreshGeography \/ Restart

Spec == Init /\ [][Next]_vars

\* The tick loop runs; it need not be paused, refreshed or restarted.
FairSpec == Spec /\ WF_vars(Step)
-----------------------------------------------------------------------------
Agents == DOMAIN agent

\* No agent is ever exhausted: recovery outweighs the capped cost in every
\* tick, so energy stays above where lives begin and the goal to recover is
\* never taken, however long the moves (learn, refresh_goal).
NeverExhausted ==
  \A i \in Agents : agent[i].energy >= 75000 /\ agent[i].goal.kind # "recover"

\* The reward of an arrival is credited to the choice of the place arrived at,
\* made where the agent came from, unless the journey took several ticks, in
\* which the choices made on the way have replaced it (choose_next_location,
\* learn).
CreditFollowsDecision ==
  pc.at = "learn" =>
    LET g == agent[pc.who] IN
      /\ g.state # None => g.state # g.at \/ g.to # None
      /\ g.state # None /\ g.to = None => g.action = g.at \/ JourneyTicks(g.road) > 1

\* When a tick has ended each agent has observed the place it is at and counted
\* it as visited; what is saved says so too, unless a pause cut an agent's tick
\* off between its move and what it learns (pause, _save_state).
EveryArrivalLearned ==
  /\ pc.at \in {"idle", "save"} => \A i \in Agents : agent[i].at \in agent[i].learned
  /\ ~cut => \A i \in DOMAIN row.agents : row.agents[i].at \in row.agents[i].visited

\* Every load leaves the agents in four fifths of the countries that the pool has
\* room for, or in as many as there are agents, whatever an earlier start and
\* agent_count left behind; but agents who have all strayed to places without a
\* country stay there (load, get_spawn_locations, redeploy_to_spawn_pool).
PlacementCovers ==
  pc.at = "loaded" =>
    LET here  == Cardinality(Coverage(agent))
        room  == Max({Len(agent), PoolMin})
        there == Min({Cardinality({Country[p] : p \in Spawnable}), room})
    IN  here = 0 \/ 5 * here >= 4 * there \/ here >= Min({Len(agent), there})

\* Every journey ends (apply_action): in as many ticks as it has left, and one
\* more for each pause that cuts a tick off before the agent's part in it.
JourneysEnd == \A i \in 1..Max(Configured) :
  (i \in Agents /\ agent[i].to # None
     /\ tick + agent[i].left + MaxFaults - faults <= MaxTick)
    ~> (i \in Agents => agent[i].to = None)
=============================================================================
