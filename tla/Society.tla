------------------------------- MODULE Society -------------------------------
(***************************************************************************)
(* What agents at the same place do to each other: they remember meetings, *)
(* teach, tell and exchange facts, and revise beliefs by hearsay.          *)
(*                                                                         *)
(* In the sequential mode a thread works through the groups once the       *)
(* agents of a tick have moved; a pause abandons it and it goes on, also   *)
(* while the agents move in the next tick (it is taken to end before the   *)
(* social part of that one).  With Ray the exchange is computed from       *)
(* snapshots instead, and the first save raises (see AgentSystem's         *)
(* to_persisted_async, which uses a module the file does not import).      *)
(*                                                                         *)
(* There are two kinds of facts of a place: what every agent there observes*)
(* in every tick, a belief with a value, and what earth sources say of it. *)
(* Confidence and trust are in thousandths.  How agents travel is in       *)
(* AgentLife: here they are at any place after a tick's moves.  Q-values   *)
(* are left out, and so is how a conversation goes on, as none begins.     *)
(***************************************************************************)
EXTENDS Integers, Sequences, FiniteSets, SequencesExt

CONSTANTS
  N,          \* number of agents, who are 1..N in the order of the list
  Places,
  Reach,      \* [Agents -> SUBSET Places]: where each agent gets
  Sourced,    \* places that earth sources know of
  Recent, Shared, Dedupe, \* windows of 60, 40 and 500 facts
  Memory,     \* cap on facts, 5000 in the code
  SaveEvery, SpecialistEvery, CentralityEvery,
  Modes,      \* values of _use_ray
  MaxTick,    \* bound: the largest tick
  MaxChanges, \* bound: how often the data of a place is replaced
  MaxFaults   \* bound: pauses and restarts

ASSUME SocietyAssumption ==
  /\ N \in Nat \ {0} /\ Modes \subseteq BOOLEAN
  /\ Places # {} /\ Sourced \subseteq Places /\ Reach \in [1..N -> SUBSET Places]
  /\ {Recent, Shared, Dedupe, Memory, SaveEvery, SpecialistEvery, CentralityEvery}
       \subseteq Nat \ {0}
  /\ {MaxTick, MaxChanges, MaxFaults} \subseteq Nat

VARIABLES
  ray,      \* _use_ray
  agent,    \* the agents
  colo,     \* _colocation_ticks: ticks a pair has been together, 0 if absent
  loop,     \* where the tick loop is
  thread,   \* [at, tick, groups]: the social thread
  tick,
  world,    \* [value, earth]: the data of the places, and those resolved
  row,      \* what was saved last
  budget,   \* changes and faults so far
  witness   \* history: values seen, and stays of pairs counted

societyVars == <<ray, agent, colo, loop, thread, tick, world, row, budget, witness>>

Agents == 1..N
Pairs == {{a, b} : a, b \in Agents} \ {{a} : a \in Agents}
LastOf(s, n) == SubSeq(s, Max({1, Len(s) - n + 1}), Len(s))
Clamp(lo, hi, x) == Max({lo, Min({hi, x})})
-----------------------------------------------------------------------------
\* Facts and beliefs of one agent.

Fact(p, pred, v) == [loc |-> p, pred |-> pred, val |-> v]
NoBelief == [val |-> 0, conf |-> 0]

Appended(g, f) == [g EXCEPT !.facts = LastOf(Append(@, f), Memory)]

\* What g believes of p, from now on.
Believing(g, p, b) == [g EXCEPT !.belief = [@ EXCEPT ![p] = b]]

\* What g remembers of b, from now on.
Regarding(g, b, m) == [g EXCEPT !.mem = [@ EXCEPT ![b] = m]]

\* _revise_belief, with its confidence rounded down to thousandths.
Revised(b, v) ==
  IF b.conf = 0 THEN [val |-> v, conf |-> 700]
  ELSE IF b.val = v THEN [val |-> v, conf |-> Min({1000, b.conf + 50})]
  ELSE [val |-> v, conf |-> Max({350, (3 * b.conf) \div 4})]

\* _merge_social_belief: hearsay of confidence c.
Merged(b, v, c) ==
  IF b.conf = 0 THEN [val |-> v, conf |-> Clamp(350, 950, 350 + (45 * c + 50) \div 100)]
  ELSE IF b.val = v THEN [val |-> v, conf |-> Min({1000, b.conf + (c + 5) \div 10})]
  ELSE IF c > b.conf + 120 THEN [val |-> v, conf |-> Clamp(350, 950, (b.conf + c + 1) \div 2)]
  ELSE [val |-> b.val, conf |-> Max({200, b.conf - (3 * c + 50) \div 100})]

\* _sender_fact_confidence: earth facts have no belief.
ConfidenceIn(g, f) ==
  IF f.pred = "seen" /\ g.belief[f.loc].conf > 0 THEN g.belief[f.loc].conf ELSE 550

\* _ingest_earth_facts.
Ingested(g, resolved) ==
  IF g.at \in resolved \ g.earth
  THEN [Appended(g, Fact(g.at, "earth", 0)) EXCEPT !.earth = @ \cup {g.at}] ELSE g

\* _ingest_observation at p.
Observed(g, p, v) ==
  Believing([Appended(g, Fact(p, "seen", v)) EXCEPT !.at = p, !.been = @ \cup {p}],
            p, Revised(g.belief[p], v))

\* The kinds of facts g remembers of p, and all it knows something of.
Predicates(g, p) == {g.facts[i].pred : i \in {j \in DOMAIN g.facts : g.facts[j].loc = p}}
Knows(g, p) == Predicates(g, p) \cup IF g.belief[p].conf > 0 THEN {"seen"} ELSE {}

\* _knowledge_gap_score, without the factor that lowers it with every visit:
\* only what an observation brings is expected.
Gap(g, p) == (IF p \in g.been THEN 0 ELSE 1000)
               + (IF "seen" \in Knows(g, p) THEN 0 ELSE 1000)
-----------------------------------------------------------------------------
\* Social memory.

Stranger == [count |-> 0, ticks |-> 0, last |-> 0, trust |-> 500, got |-> 0, gave |-> 0,
             taught |-> 0, learned |-> 0, net |-> 0, topics |-> {}, hub |-> FALSE,
             expert |-> [seen |-> 0, earth |-> 0]]

\* _update_social_memory.
Remembered(m, d, t) ==
  [m EXCEPT !.count = IF m.count # 0 /\ m.last = t THEN @ ELSE @ + 1,
            !.ticks = IF m.count = 0 THEN d ELSE @ + 1, !.last = t]

\* Variant: only the first of two notes the meeting.
MetByFirst(gs, ms, t, d) ==
  [a \in Agents |->
     [gs[a] EXCEPT !.mem = [b \in Agents |-> IF {a, b} \subseteq ms /\ a < b
                                              THEN Remembered(@[b], d[{a, b}], t) ELSE @[b]]]]

\* _record_encounters: the group ms meets; d are the ticks pairs have been
\* together, and the first of them is logged as an encounter.
Met(gs, ms, t, d) ==
  [a \in Agents |->
     [gs[a] EXCEPT
        !.mem = [b \in Agents |-> IF {a, b} \subseteq ms /\ a # b
                                  THEN Remembered(@[b], d[{a, b}], t) ELSE @[b]],
        !.log = [b \in Agents |-> IF {a, b} \subseteq ms /\ a # b /\ d[{a, b}] = 1
                                  THEN @[b] + 1 ELSE @[b]]]]

\* What becomes of a memory of one whom it is spoken with, who is given a fact,
\* is taught or teaches, and who tells something of confidence c: trust rises by
\* c * nudge.
Tracking(m, p) == [m EXCEPT !.net = @ + 1, !.topics = @ \cup {p}]
Giving(m)      == [m EXCEPT !.gave = @ + 1]
Teaching(m)    == [m EXCEPT !.taught = @ + 1]
Learning(m)    == [m EXCEPT !.learned = @ + 1]
Trusting(m, c, nudge) ==
  [m EXCEPT !.got = @ + 1, !.trust = Min({1000, @ + (c * nudge + 500) \div 1000})]

\* _update_interaction_tracking between all of a group.
Tracked(gs, p, ms) ==
  [a \in Agents |->
     [gs[a] EXCEPT !.mem = [b \in Agents |-> IF {a, b} \subseteq ms /\ a # b
                                             THEN Tracking(@[b], p) ELSE @[b]]]]

\* _compute_conversation_initiation_score: the peer was met in this very tick,
\* so the factor for recency is a tenth.
Familiarity(n) == (150 * n * 1000) \div (1000 + 150 * n)
StartScore(g, b, p, t) ==
  LET recency10 == Clamp(1, 10, t - g.mem[b].last)
  IN  (Gap(g, p) * ((Familiarity(g.mem[b].count) + g.mem[b].trust) \div 2) * recency10) \div 10000

\* _initiate_conversations: who would start one.
Starters(gs, p, ms, t) ==
  {a \in ms : Gap(gs[a], p) >= 300
                     /\ \E b \in ms \ {a} : StartScore(gs[a], b, p, t) >= 500}

\* _request_knowledge: who would ask, and its score of the best provider.
ProviderScore(m) == m.trust \div 2 + 150 + Min({200, 100 * m.learned})
Askers(gs, p, ms) ==
  {a \in ms : Gap(gs[a], p) >= 500
                     /\ \E b \in ms \ {a} : ProviderScore(gs[a].mem[b]) >= 300}
-----------------------------------------------------------------------------
\* Teaching.

\* _assess_peer_knowledge_gaps: what g knows of p by its facts and h does not, and
\* g is confident of (0.5 where it has no belief).
Teachable(g, h, p) ==
  {pred \in Predicates(g, p) \ Predicates(h, p) :
     pred = "seen" /\ g.belief[p].conf > 0 => g.belief[p].conf > 400}

\* The oldest fact of a kind that is remembered of a place.
Oldest(g, p, pred) ==
  g.facts[Min({i \in DOMAIN g.facts : g.facts[i].loc = p /\ g.facts[i].pred = pred})]

\* g learns the facts of these kinds from s, who has them.
Learned(g, s, teacher, p, preds) ==
  LET one == IF "earth" \in preds THEN Appended(g, Oldest(teacher, p, "earth")) ELSE g
      all == IF "seen" \in preds THEN Appended(one, Oldest(teacher, p, "seen")) ELSE one
  IN  Regarding(all, s, Learning(g.mem[s]))

\* One teacher teaches the first of the group who lacks something.
TaughtBy(gs, p, ms, s) ==
  LET pupils == {b \in ms \ {s} : Teachable(gs[s], gs[b], p) # {}}
      b      == Min(pupils)
  IN  IF pupils = {} THEN gs
      ELSE [gs EXCEPT ![b] = Learned(gs[b], s, gs[s], p, Teachable(gs[s], gs[b], p)),
                      ![s] = Regarding(gs[s], b, Teaching(gs[s].mem[b]))]

\* _teach_knowledge_gaps: the agents of the group teach one after the other.
AllTaught(gs, p, ms) ==
  LET after[s \in 0..N] ==
        IF s = 0 THEN gs
        ELSE IF s \in ms THEN TaughtBy(after[s - 1], p, ms, s) ELSE after[s - 1]
  IN  after[N]
-----------------------------------------------------------------------------
\* Telling and exchanging.

\* g hears f from s, who is confident c of it.
Hears(g, s, f, c, nudge) ==
  LET h == Regarding(Appended(g, f), s, Trusting(g.mem[s], c, nudge))
  IN  IF f.pred = "seen" THEN Believing(h, f.loc, Merged(g.belief[f.loc], f.val, c)) ELSE h

Gave(g, ms) ==
  [g EXCEPT !.mem = [b \in Agents |-> IF b \in ms THEN Giving(@[b]) ELSE @[b]]]

\* s tells all of ms the fact f.
Told(gs, s, ms, f, c, nudge) ==
  [a \in Agents |-> IF a \in ms THEN Hears(gs[a], s, f, c, nudge)
                    ELSE IF a = s THEN Gave(gs[a], ms) ELSE gs[a]]

\* Variant: what is heard is filed under the place it was heard at.
HeardHere(p, f) == [f EXCEPT !.loc = p]

\* The fact a listener files, which says of which place it is.
Heard(p, f) == f

\* _dialogue_fact: any of the latest facts it is most confident of.
Topics(g) ==
  LET said == ToSet(LastOf(g.facts, Recent))
  IN  {f \in said : \A h \in said : ConfidenceIn(g, h) <= ConfidenceIn(g, f)}

\* All that may come of s speaking to the group as g, who it is or was.
Spoken(gs, p, ms, s, g) ==
  IF g.facts = <<>> THEN {gs}
  ELSE {Told(gs, s, ms \ {s}, Heard(p, f), ConfidenceIn(g, f), 10) : f \in Topics(g)}

\* _social_dialogue: all that may come of it.  Speakers speak as they are by
\* then, or with Ray as they were in the snapshot.
Dialogues(gs, p, ms) ==
  LET after[s \in 0..N] ==
        IF s = 0 THEN {gs}
        ELSE IF s \in ms
             THEN UNION {Spoken(hs, p, ms, s, IF ray THEN gs[s] ELSE hs[s]) : hs \in after[s - 1]}
             ELSE after[s - 1]
  IN  after[N]

\* What s passes on to b, who knows these texts: the latest facts new to it,
\* once, if a fifth of its confidence is 0.08 or more.
IsNews(said, s, texts, i) ==
  /\ said[i] \notin texts /\ \A j \in 1..(i - 1) : said[j] # said[i]
  /\ ConfidenceIn(s, said[i]) >= 400

PassedOn(gs, s, b, teller, texts) ==
  LET said == LastOf(teller.facts, Shared)
      after[i \in 0..Len(said)] ==
        IF i = 0 THEN gs
        ELSE IF IsNews(said, teller, texts, i)
             THEN Told(after[i - 1], s, {b}, said[i], ConfidenceIn(teller, said[i]), 5)
             ELSE after[i - 1]
  IN  after[Len(said)]

News(teller, texts) ==
  LET said == LastOf(teller.facts, Shared)
  IN  {said[i] : i \in {j \in 1..Len(said) : IsNews(said, teller, texts, j)}}

\* One pair of the exchange from the snapshot from (the state itself, unless with
\* Ray), where a learner's texts are those of the snapshot and what it got here.
Exchange2(from, acc, s, b) ==
  LET teller == IF ray THEN from[s] ELSE acc.gs[s]
      texts  == IF ray THEN ToSet(LastOf(from[b].facts, Dedupe)) \cup acc.got[b]
                ELSE ToSet(LastOf(acc.gs[b].facts, Dedupe))
  IN  [gs  |-> PassedOn(acc.gs, s, b, teller, texts),
       got |-> [acc.got EXCEPT ![b] = @ \cup News(teller, texts)]]

\* _social_exchange_facts: the pairs of a group, the k-th of all pairs in turn.
Exchanged(from, gs, ms) ==
  LET Sender(k)  == ((k - 1) \div N) + 1
      Learner(k) == ((k - 1) % N) + 1
      after[k \in 0..(N * N)] ==
        IF k = 0 THEN [gs |-> gs, got |-> [a \in Agents |-> {}]]
        ELSE IF {Sender(k), Learner(k)} \subseteq ms /\ Sender(k) # Learner(k)
             THEN Exchange2(from, after[k - 1], Sender(k), Learner(k))
             ELSE after[k - 1]
  IN  after[N * N].gs
-----------------------------------------------------------------------------
\* Periodic analysis.

\* _update_specialist_detection, in tenths.
Expertise(g) ==
  [pred \in {"seen", "earth"} |-> Min({10, Cardinality({i \in DOMAIN g.facts : g.facts[i].pred = pred})})]

Known(m, expert) == IF m.count > 0 THEN [m EXCEPT !.expert = expert] ELSE m

Specialists(gs) ==
  [a \in Agents |->
     [gs[a] EXCEPT !.mem = [b \in Agents |-> Known(@[b], Expertise(gs[b]))]]]

\* _compute_network_centrality: a hub has over 0.7 of the most interactions and
\* three topics.
Ranked(m, most) ==
  IF m.net > 0
  THEN [m EXCEPT !.hub = 10 * m.net > 7 * most /\ Cardinality(m.topics) >= 3] ELSE m

Hubs(gs) ==
  [a \in Agents |->
     LET most == Max({gs[a].mem[b].net : b \in Agents})
     IN  [gs[a] EXCEPT !.mem = [b \in Agents |-> Ranked(@[b], most)]]]

Periodic(gs, t) ==
  LET hs == IF t % SpecialistEvery = 0 THEN Specialists(gs) ELSE gs
  IN  IF t % CentralityEvery = 0 THEN Hubs(hs) ELSE hs
-----------------------------------------------------------------------------
\* Those at the place of a, and the groups of two and more.
Company(gs, a) == {b \in Agents : gs[b].at = gs[a].at}
Group(gs, a)   == [at |-> gs[a].at, ms |-> Company(gs, a)]
Groups(gs)     == {Group(gs, a) : a \in {b \in Agents : Company(gs, b) # {b}}}

Idle == [at |-> "none", tick |-> 0, groups |-> {}]
Newborn == [at |-> CHOOSE p \in Places : TRUE, been |-> {}, facts |-> <<>>, earth |-> {},
            belief |-> [p \in Places |-> NoBelief], mem |-> [b \in Agents |-> Stranger],
            log |-> [b \in Agents |-> 0], asked |-> 0]
NoneTogether == [pair \in Pairs |-> 0]

Kinds == {"seen", "earth"}
Thousandths == {c \in Nat : c <= 1000}
Memories == [count : Nat, ticks : Nat, last : 0..MaxTick, trust : Thousandths, got : Nat,
             gave : Nat, taught : Nat, learned : Nat, net : Nat, topics : SUBSET Places,
             hub : BOOLEAN, expert : [Kinds -> 0..10]]
Facts == [loc : Places, pred : Kinds, val : Nat]
Beliefs == [val : Nat, conf : Thousandths]
AgentStates == [at : Places, been : SUBSET Places, facts : Seq(Facts), earth : SUBSET Places,
                belief : [Places -> Beliefs], mem : [Agents -> Memories],
                log : [Agents -> Nat], asked : Nat]

SocietyTypeOK ==
  /\ ray \in BOOLEAN /\ colo \in [Pairs -> Nat]
  /\ agent \in [Agents -> AgentStates] /\ \A a \in Agents : Len(agent[a].facts) <= Memory
  /\ tick \in 0..MaxTick /\ row \in [agent : [Agents -> AgentStates], tick : 0..MaxTick]
  /\ loop \in {"tick", "social", "wait", "save", "over"}
  /\ thread \in [at : {"none", "meet", "teach", "ask", "tell", "exchange"}, tick : 0..MaxTick,
                 groups : SUBSET [at : Places, ms : SUBSET Agents]]
  /\ world \in [value : [Places -> Nat], earth : SUBSET Sourced]
  /\ budget \in [changes : 0..MaxChanges, faults : 0..MaxFaults]
  /\ witness \in [seen : SUBSET (Places \X Nat), near : SUBSET Pairs, stays : [Pairs -> Nat]]

SocietyInit ==
  /\ ray \in Modes
  /\ agent = [a \in Agents |-> Newborn]
  /\ colo = NoneTogether /\ loop = "tick" /\ thread = Idle /\ tick = 0
  /\ world = [value |-> [p \in Places |-> 1], earth |-> {}]
  /\ row = [agent |-> agent, tick |-> 0]
  /\ budget = [changes |-> 0, faults |-> 0]
  /\ witness = [seen |-> {}, near |-> {}, stays |-> [pair \in Pairs |-> 0]]

\* The data of a place is replaced and the geography refreshed.
Revalue ==
  /\ budget.changes < MaxChanges /\ loop = "tick"
  /\ \E p \in Places : world' = [world EXCEPT !.value[p] = @ + 1]
  /\ budget' = [budget EXCEPT !.changes = @ + 1]
  /\ UNCHANGED <<ray, agent, colo, loop, thread, tick, row, witness>>

\* A turn, in a world that sources say earth of (_tick_sequential): facts of the
\* place it leaves are ingested, an observation is made at the next, and its facts.
Turn(g, to, v, earth) == Ingested(Observed(Ingested(g, earth), to, v), earth)

\* A turn in an actor (_tick_one): it ingests no facts before the move, and after
\* it those of places known, where an agent was when the tick began.
ActorTurn(g, to, v, earth, known) == Ingested(Observed(g, to, v), earth \cap known)

\* The turns of the agents in a tick; places may be resolved before the k-th.
Roam ==
  /\ loop = "tick" /\ tick < MaxTick /\ (ray => thread.at = "none")
  /\ tick' = tick + 1
  /\ \E to \in {f \in [Agents -> Places] : \A a \in Agents : f[a] \in Reach[a]},
        k \in 1..(N + 1) :
       LET known == {agent[a].at : a \in Agents}
           value(a) == world.value[to[a]]
       IN  /\ world.earth = Sourced => k = 1
           /\ agent' = [a \in Agents |->
                IF ray THEN ActorTurn(agent[a], to[a], value(a), world.earth, known)
                ELSE Turn(agent[a], to[a], value(a), IF a < k THEN world.earth ELSE Sourced)]
           /\ world' = [world EXCEPT !.earth = IF k <= N THEN Sourced ELSE @]
           /\ witness' = [witness EXCEPT !.seen = @ \cup {<<to[a], value(a)>> : a \in Agents}]
  /\ loop' = "social"
  /\ UNCHANGED <<ray, colo, thread, row, budget>>

\* _social_learn begins: the groups are formed and the pairs counted.
Together(gs) == {pair \in Pairs : \A a, b \in pair : gs[a].at = gs[b].at}

\* Variant: pairs that have parted are kept.
CountedOn(d, near) == [pair \in Pairs |-> IF pair \in near THEN d[pair] + 1 ELSE d[pair]]

Counted(d, near) == [pair \in Pairs |-> IF pair \in near THEN d[pair] + 1 ELSE 0]

Stayed(near) ==
  witness' = [witness EXCEPT
    !.stays = [pair \in Pairs |-> IF pair \in near \ witness.near THEN @[pair] + 1 ELSE @[pair]],
    !.near = near]

Count ==
  /\ ~ray /\ loop = "social" /\ thread.at = "none"
  /\ colo' = Counted(colo, Together(agent))
  /\ Stayed(Together(agent))
  /\ thread' = [at |-> "meet", tick |-> tick, groups |-> Groups(agent)]
  /\ loop' = "wait"
  /\ UNCHANGED <<ray, agent, tick, world, row, budget>>

\* The thread does a part of its work for the first of its groups.
Part(at, next) ==
  /\ thread.at = at /\ thread.groups # {}
  /\ thread' = [thread EXCEPT !.at = next]
  /\ UNCHANGED <<ray, colo, loop, tick, world, row, budget, witness>>

\* Groups come in the order of their first agents.
First == CHOOSE grp \in thread.groups :
           \E a \in grp.ms : \A other \in thread.groups : \A b \in other.ms : a <= b

\* _record_encounters and _initiate_conversations.
Meet ==
  /\ Part("meet", "teach")
  /\ LET gs == Met(agent, First.ms, thread.tick, colo)
     IN  agent' = [a \in Agents |->
           IF a \in Starters(gs, First.at, First.ms, thread.tick)
           THEN [gs[a] EXCEPT !.asked = @ + 1] ELSE gs[a]]

\* _teach_knowledge_gaps.
Teach == Part("teach", "ask") /\ agent' = AllTaught(agent, First.at, First.ms)

\* _request_knowledge and _update_interaction_tracking.
Requests ==
  /\ Part("ask", "tell")
  /\ LET gs == Tracked(agent, First.at, First.ms)
     IN  agent' = [a \in Agents |-> IF a \in Askers(agent, First.at, First.ms)
                                    THEN [gs[a] EXCEPT !.asked = @ + 1] ELSE gs[a]]

\* _social_dialogue.
Tell == Part("tell", "exchange") /\ agent' \in Dialogues(agent, First.at, First.ms)

\* _social_exchange_facts; then the next group.
Exchange ==
  /\ thread.at = "exchange"
  /\ agent' = Exchanged(agent, agent, First.ms)
  /\ thread' = [thread EXCEPT !.at = "meet", !.groups = @ \ {First}]
  /\ UNCHANGED <<ray, colo, loop, tick, world, row, budget, witness>>

AfterTick == IF tick % SaveEvery = 0 THEN "save" ELSE "tick"

\* The thread ends with the periodic analysis, and the tick that waits for it.
ThreadEnds ==
  /\ thread.at = "meet" /\ thread.groups = {}
  /\ agent' = Periodic(agent, thread.tick)
  /\ thread' = Idle
  /\ loop' = IF loop = "wait" THEN AfterTick ELSE loop
  /\ UNCHANGED <<ray, colo, tick, world, row, budget, witness>>

\* _social_learn_ray: each group's updates from snapshots, applied by the actors;
\* nobody counts the ticks together.
ByRay(gs, grp) ==
  UNION {{Exchanged(agent, hs, grp.ms) : hs \in Dialogues(Met(g, grp.ms, tick, [pair \in Pairs |-> 1]),
                                                         grp.at, grp.ms)} : g \in gs}

RaySocial ==
  /\ ray /\ loop = "social"
  /\ LET after[k \in 0..N] ==
           IF k = 0 THEN {agent}
           ELSE IF Company(agent, k) # {k} /\ \A b \in Company(agent, k) : k <= b
                THEN ByRay(after[k - 1], Group(agent, k)) ELSE after[k - 1]
     IN  agent' \in after[N]
  /\ Stayed(Together(agent))
  /\ loop' = AfterTick
  /\ UNCHANGED <<ray, colo, thread, tick, world, row, budget>>

\* The periodic save; with Ray it raises and ends the loop.
Save ==
  /\ loop = "save"
  /\ IF ray THEN loop' = "over" /\ UNCHANGED row
            ELSE loop' = "tick" /\ row' = [agent |-> agent, tick |-> tick]
  /\ UNCHANGED <<ray, agent, colo, thread, tick, world, budget, witness>>

Interrupted == budget.faults < MaxFaults /\ budget' = [budget EXCEPT !.faults = @ + 1]

\* A pause abandons the social thread and saves; a start follows.
PauseSocial ==
  /\ Interrupted /\ ~ray /\ loop = "wait"
  /\ loop' = "tick" /\ row' = [agent |-> agent, tick |-> tick]
  /\ UNCHANGED <<ray, agent, colo, thread, tick, world, witness>>

\* The process dies and the world is loaded again.
Restart ==
  /\ Interrupted
  /\ agent' = [a \in Agents |-> [row.agent[a] EXCEPT !.earth = {}]]
  /\ tick' = row.tick /\ colo' = NoneTogether /\ thread' = Idle /\ loop' = "tick"
  /\ witness' = [witness EXCEPT !.near = {}, !.stays = [pair \in Pairs |->
       LET a == Min(pair) IN row.agent[a].log[Max(pair)]]]
  /\ UNCHANGED <<ray, world, row>>

Social == Count \/ Meet \/ Teach \/ Requests \/ Tell \/ Exchange \/ ThreadEnds \/ RaySocial
SocietyNext == Revalue \/ Roam \/ Social \/ Save \/ PauseSocial \/ Restart

SocietySpec == SocietyInit /\ [][SocietyNext]_societyVars
-----------------------------------------------------------------------------
\* Whatever an agent believes or remembers of a place somebody has seen there,
\* however often it was told on, and its confidence stays between 0.2 and 1
\* (_merge_social_belief, _revise_belief).
BeliefsGrounded ==
  \A a \in Agents :
    /\ \A p \in Places : agent[a].belief[p].conf > 0 =>
         /\ <<p, agent[a].belief[p].val>> \in witness.seen
         /\ agent[a].belief[p].conf >= 200 /\ agent[a].belief[p].conf <= 1000
    /\ \A i \in DOMAIN agent[a].facts : agent[a].facts[i].pred = "seen" =>
         <<agent[a].facts[i].loc, agent[a].facts[i].val>> \in witness.seen

\* Two agents remember the same of each other: meetings, ticks together, what
\* one gave and the other got, taught and learned; also in what is saved while a
\* thread is abandoned (_update_social_memory, _social_dialogue).
MemoryIsMutual ==
  \A gs \in {agent, row.agent} : \A a, b \in Agents :
    LET m == gs[a].mem[b]  o == gs[b].mem[a]
    IN  /\ <<m.count, m.ticks, m.last, m.net>> = <<o.count, o.ticks, o.last, o.net>>
        /\ m.got = o.gave /\ m.learned = o.taught /\ gs[a].log[b] = gs[b].log[a]
        /\ m.trust <= 500 + 10 * m.got

\* Each stay of a pair at a place is logged as one encounter, by both, however long
\* it lasts and whatever a pause abandons; a restart begins the stays anew
\* (_colocation_ticks, _record_encounters).
OneEncounterPerStay ==
  (~ray /\ thread.at = "none" /\ loop # "social") =>
    \A pair \in Pairs :
      agent[Min(pair)].log[Max(pair)] = witness.stays[pair]

\* At a place that it has just observed an agent has no gap to ask about: no
\* conversation is started and nothing requested, ever (_initiate_conversations,
\* _request_knowledge).
NobodyAsks == \A a \in Agents : agent[a].asked = 0

=============================================================================
