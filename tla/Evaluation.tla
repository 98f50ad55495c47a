----------------------------- MODULE Evaluation -----------------------------
(***************************************************************************)
(* The evaluation suite (eval_suite.py) against a live server: scenarios,  *)
(* one after another, set the interval of the ticks, start the world, poll *)
(* its snapshots until enough ticks were seen, change the interval in the  *)
(* middle, and pause.  Meanwhile the world ticks, requests fail, applied or*)
(* not, and the server restarts, with the tick it saved last and the       *)
(* default interval.                                                       *)
(*                                                                         *)
(* Of a snapshot, the tick and the interval in force are kept.  Charts are *)
(* left out, as are the collectors on a WebSocket that the server no longer*)
(* has (run_suite.py, eval_harness.py).                                    *)
(***************************************************************************)
EXTENDS Integers, Sequences

CONSTANTS
  Scenarios, \* sequence of [rate, ticks, change, to]: interval, ticks to see, and
             \* after how many ticks the interval changes to what, or Never
  Default,   \* the server's own interval
  SaveEvery, \* ticks between two saves of the world
  Retries,   \* attempts at reaching the server, 8 in the code
  Ahead,     \* bound: ticks from one poll to the next
  MaxFaults  \* bound: requests and inserts that fail, and restarts

Never == -1

ASSUME EvaluationAssumption ==
  /\ Scenarios \in Seq([rate : STRING, ticks : Nat \ {0}, change : Nat \cup {Never}, to : STRING])
  /\ Scenarios # <<>> /\ Default \in STRING
  /\ {SaveEvery, Retries, Ahead} \subseteq Nat \ {0} /\ MaxFaults \in Nat

VARIABLES
  world,   \* [tick, rate, running, saved]
  resets,  \* --reset-between
  at,      \* what the suite does next
  tries,   \* attempts at reaching the server
  sc,      \* the scenario
  first, last, \* scenario_start_tick and last_tick
  due,     \* whether the change of the interval is still to come
  got,     \* the snapshots with a new tick, [tick, rate]
  held,    \* a snapshot in hand: while the interval changes, and at the end
  sink,    \* scenarios in each of the three tables of telemetry
  faults,
  ahead,   \* ticks since the last poll
  smooth   \* history: the scenario has met no restart and no failed change

suite == <<resets, at, tries, sc, first, last, due, got, held, sink>>
evaluationVars == <<world, suite, faults, ahead, smooth>>

Scenario == Scenarios[sc]
Snap == [tick |-> world.tick, rate |-> world.rate]
Fault == faults < MaxFaults /\ faults' = faults + 1

Snaps == [tick : Nat, rate : STRING]
Stages == {"version", "reset", "interval", "start", "poll", "change", "final", "pause",
           "export", "over", "failed"}

EvaluationTypeOK ==
  /\ world \in [tick : Nat, rate : STRING, running : BOOLEAN, saved : Nat]
  /\ at \in Stages
  /\ world.saved <= world.tick
  /\ resets \in BOOLEAN /\ due \in BOOLEAN /\ smooth \in BOOLEAN
  /\ tries \in 0..Retries /\ sc \in DOMAIN Scenarios /\ faults \in 0..MaxFaults
  /\ first \in Nat \cup {Never} /\ last \in Nat \cup {Never}
  /\ got \in Seq(Snaps) /\ Len(got) <= Scenario.ticks
  /\ held \in Seq(Snaps) /\ Len(held) <= 1
  /\ sink \in [1..3 -> 0..Len(Scenarios)] /\ ahead \in 0..Ahead

EvaluationInit ==
  /\ world = [tick |-> 0, rate |-> Default, running |-> TRUE, saved |-> 0]
  /\ resets \in BOOLEAN
  /\ at = "version" /\ tries = 0 /\ sc = 1
  /\ first = Never /\ last = Never /\ due = FALSE /\ got = <<>> /\ held = <<>>
  /\ sink = <<0, 0, 0>>
  /\ faults = 0 /\ ahead = 0 /\ smooth = TRUE
-----------------------------------------------------------------------------
\* The server, of which the suite sees the world.

Tick ==
  /\ world.running /\ ahead < Ahead
  /\ ahead' = ahead + 1
  /\ world' = [world EXCEPT !.tick = @ + 1,
                 !.saved = IF (world.tick + 1) % SaveEvery = 0 THEN world.tick + 1 ELSE @]
  /\ UNCHANGED <<suite, faults, smooth>>

\* It dies, or shuts down with a save, and comes back running.
ServerRestart ==
  /\ Fault
  /\ \E t \in {world.saved, world.tick} :
       world' = [tick |-> t, rate |-> Default, running |-> TRUE, saved |-> t]
  /\ smooth' = FALSE
  /\ UNCHANGED <<suite, ahead>>

\* What a request does to it.
Effect(request) ==
  CASE request = "reset"    -> [world EXCEPT !.tick = 0, !.running = FALSE, !.saved = 0]
    [] request = "interval" -> [world EXCEPT !.rate = Scenario.rate]
    [] request = "change"   -> [world EXCEPT !.rate = Scenario.to]
    [] request = "start"    -> [world EXCEPT !.running = TRUE]
    [] request = "pause"    -> [world EXCEPT !.running = FALSE, !.saved = world.tick]

\* A request is answered, or it fails and may still have been applied.
Requests(request, next, failed) ==
  /\ at = request
  /\ \/ world' = Effect(request) /\ at' = next /\ UNCHANGED faults
     \/ Fault /\ world' \in {world, Effect(request)} /\ at' = failed
-----------------------------------------------------------------------------
\* The suite.

Opening == IF resets THEN "reset" ELSE "interval"

\* main: the server is asked for its version until it answers.
Reach ==
  /\ at = "version"
  /\ \/ at' = Opening /\ UNCHANGED <<tries, faults>>
     \/ Fault /\ tries' = tries + 1 /\ at' = IF tries + 1 = Retries THEN "failed" ELSE at
  /\ due' = (Scenario.change # Never)
  /\ UNCHANGED <<world, resets, sc, first, last, got, held, sink, ahead, smooth>>

\* Variant: the world is expected to run already.
SetUpUnstarted ==
  /\ \/ Requests("reset", "interval", "failed") /\ UNCHANGED smooth
     \/ Requests("interval", "poll", "failed") /\ smooth' = TRUE
  /\ UNCHANGED <<resets, tries, sc, first, last, due, got, held, sink, ahead>>

\* collect_scenario begins; a request that fails ends the suite.
SetUp ==
  /\ \/ Requests("reset", "interval", "failed") /\ UNCHANGED smooth
     \/ Requests("interval", "start", "failed") /\ smooth' = TRUE
     \/ Requests("start", "poll", "failed") /\ UNCHANGED smooth
  /\ UNCHANGED <<resets, tries, sc, first, last, due, got, held, sink, ahead>>

\* A snapshot counts if its tick is later than the last.
NewTick == last = Never \/ world.tick > last

Collects(snap) ==
  /\ got' = Append(got, snap)
  /\ at' = IF Len(got) + 1 = Scenario.ticks THEN "final" ELSE "poll"

\* Variant: the interval changes with the tick after the one it is set for.
ReachedLate(start) == due /\ world.tick - start > Scenario.change

Reached(start) == due /\ world.tick - start >= Scenario.change

\* A poll with a new tick: it is collected, once the interval has been changed if
\* it is time.
Poll ==
  /\ at = "poll" /\ NewTick
  /\ LET start == IF first = Never THEN world.tick ELSE first IN
       /\ first' = start
       /\ IF Reached(start) THEN at' = "change" /\ held' = <<Snap>> /\ UNCHANGED got
                            ELSE Collects(Snap) /\ UNCHANGED held
  /\ last' = world.tick /\ ahead' = 0
  /\ UNCHANGED <<world, resets, tries, sc, due, sink, faults, smooth>>

\* A poll without one, or that failed.
PollAgain ==
  /\ at = "poll"
  /\ \/ ~NewTick /\ UNCHANGED faults
     \/ Fault
  /\ ahead' = 0
  /\ UNCHANGED <<world, suite, smooth>>

\* The interval is changed, once, whether or not that succeeds; the snapshot that
\* was held meanwhile is collected.
Change ==
  /\ at = "change"
  /\ \/ world' = Effect("change") /\ UNCHANGED <<faults, smooth>>
     \/ Fault /\ world' \in {world, Effect("change")} /\ smooth' = FALSE
  /\ due' = FALSE /\ held' = <<>>
  /\ Collects(held[1])
  /\ UNCHANGED <<resets, tries, sc, first, last, sink, ahead>>

Final ==
  /\ at = "final" /\ at' = "pause"
  /\ \/ held' = <<Snap>> /\ UNCHANGED faults
     \/ Fault /\ UNCHANGED held
  /\ UNCHANGED <<world, resets, tries, sc, first, last, due, got, sink, ahead, smooth>>

Pause ==
  /\ Requests("pause", "export", "export")
  /\ UNCHANGED <<resets, tries, sc, first, last, due, got, held, sink, ahead, smooth>>

\* The scenario's telemetry is inserted, table by table; a failure ends the suite.
\* Then the next scenario begins.
Export ==
  /\ at = "export"
  /\ \E n \in 0..3 :
       /\ sink' = [k \in 1..3 |-> IF k <= n THEN sink[k] + 1 ELSE sink[k]]
       /\ \/ n < 3 /\ Fault /\ at' = "failed" /\ UNCHANGED <<sc, first, last, due, got, held>>
          \/ /\ n = 3 /\ UNCHANGED faults
             /\ IF sc = Len(Scenarios)
                THEN at' = "over" /\ UNCHANGED <<sc, first, last, due, got, held>>
                ELSE /\ at' = Opening /\ sc' = sc + 1
                     /\ first' = Never /\ last' = Never /\ got' = <<>> /\ held' = <<>>
                     /\ due' = (Scenarios[sc + 1].change # Never)
  /\ UNCHANGED <<world, resets, tries, ahead, smooth>>

Suite == Reach \/ SetUp \/ Poll \/ PollAgain \/ Change \/ Final \/ Pause \/ Export

EvaluationNext == Tick \/ ServerRestart \/ Suite

\* The suite is a process of its own, and a world that runs ticks.
EvaluationSpec ==
  /\ EvaluationInit /\ [][EvaluationNext]_evaluationVars
  /\ WF_evaluationVars(Suite) /\ WF_evaluationVars(Tick)
-----------------------------------------------------------------------------
\* The ticks of a scenario ascend, also when the server came back with an earlier
\* one, and every scenario gone through is in all tables (collect_scenario,
\* write_telemetry_to_hypertables).
SamplesAscend ==
  /\ \A i \in 2..Len(got) : got[i - 1].tick < got[i].tick
  /\ at # "failed" => \A k \in 1..3 : sink[k] = IF at = "over" THEN sc ELSE sc - 1

\* Before and after the change of the interval can be told apart by the ticks
\* alone: up to the first snapshot that is late enough the world ran at the first
\* interval, and at the second from then on, however many ticks a poll leaves out
\* and whatever scenario came before.  A restart, or a change that failed, is the
\* exception, as the suite looks at neither (collect_scenario).
RegimesApart ==
  smooth => \A i \in DOMAIN got :
    got[i].rate = IF /\ Scenario.change # Never
                     /\ \E j \in 1..(i - 1) : got[j].tick - got[1].tick >= Scenario.change
                  THEN Scenario.to ELSE Scenario.rate

\* The suite comes to its end, or gives up: it never waits for a world that does
\* not run.
SuiteEnds == <>(at \in {"over", "failed"})
=============================================================================
