--------------------------- MODULE WorldLifecycle ---------------------------
(***************************************************************************)
(* The life of a World: the tick loop, the refresh loops and the control   *)
(* calls start, pause and reset of the API, as asyncio tasks of one        *)
(* process. A task runs undisturbed from one await to the next, so each    *)
(* action is the code between two awaits; a call may find the world as     *)
(* another call left it at an await in its middle.                         *)
(*                                                                         *)
(* A tick takes one step per await: the agent phase, the SELECT and the    *)
(* commit of a save, the broadcast and the sleep. Each start creates one   *)
(* generation of tasks: tick loop g and, per domain, refresh loop g.       *)
(***************************************************************************)
EXTENDS Naturals, FiniteSets

CONSTANTS
  Callers,    \* 1..n: as many requests may be pausing or resetting the world
  Domains,    \* refresh domains: weather, wind, astronomy, ...
  SaveEvery,  \* ticks from one periodic save to the next, 10 in the code
  MaxTick,    \* bound: the largest tick
  MaxStarts,  \* bound: starts of the world per life of the process
  MaxCrashes, \* bound: crashes of the process
  MaxCalls,   \* bound: pause and reset calls
  MaxFails    \* bound: failures of a tick, a save or a bootstrap

ASSUME LifecycleAssumption ==
  /\ SaveEvery \in Nat \ {0}
  /\ MaxTick \in Nat /\ MaxStarts \in Nat \ {0}
  /\ MaxCrashes \in Nat /\ MaxCalls \in Nat /\ MaxFails \in Nat
  /\ Callers \subseteq Nat

VARIABLES
  running,   \* _running
  tick,      \* time.tick_count
  rowTick,   \* tick_count of the committed world_state row
  loop,      \* loop[g]: the await it is at, the tick it is to broadcast, the
             \* tick its open transaction writes
  call,      \* call[c]: the await it is at, the loop it waits for, the domains
             \* it has yet to cancel, the tick it writes, and whether it is a
             \* reset that has come to its second save
  tickTask,  \* _tick_task: a generation, 0 when None
  refTask,   \* refTask[d]: _refresh_tasks[d], 0 when absent
  refresh,   \* refresh[d]: generations of the live refresh loops of domain d
  gen,       \* generations created so far
  last,      \* history: last tick broadcast since a reset or restart
  hist       \* history: whether control calls overlapped, calls that raised,
             \* whether the last to end returned normally, failures, calls and
             \* crashes

tasks == <<tickTask, refTask, refresh, gen>>
vars  == <<running, tick, rowTick, loop, call, tasks, last, hist>>

Gens  == 1..MaxStarts
Dead  == {"unborn", "ended", "failed"}
Alive(g) == loop[g].at \notin Dead
Busy  == \E c \in Callers : call[c].at # "idle"
NoTasks == [d \in Domains |-> 0]
Loop(where) == [at |-> where, data |-> 0, saved |-> 0]
Idle  == [at |-> "idle", waits |-> 0, todo |-> {}, saved |-> 0, reseeds |-> FALSE]

FirstLoops == [g \in Gens |-> Loop(IF g = 1 THEN "new" ELSE "unborn")]

\* The process has loaded a database without a world_state row and started.
Init ==
  /\ running = TRUE
  /\ tick = 0 /\ rowTick = 0 /\ last = 0
  /\ loop = FirstLoops
  /\ call = [c \in Callers |-> Idle]
  /\ tickTask = 1 /\ gen = 1
  /\ refTask = [d \in Domains |-> 1]
  /\ refresh = [d \in Domains |-> {1}]
  /\ hist = [overlapped |-> FALSE, raised |-> 0, ok |-> TRUE,
             fails |-> 0, calls |-> 0, crashes |-> 0]
-----------------------------------------------------------------------------
\* The tick loop.

\* The loop checks the flag; a tick advances the time, sees to a resolve task
\* in the background, and awaits the caches and the agents.
TickBegin(g) ==
  /\ loop[g].at \in {"new", "sleep"}
  /\ \/ running /\ tick < MaxTick
        /\ tick' = tick + 1
        /\ loop' = [loop EXCEPT ![g].at = "agents"]
     \/ ~running
        /\ loop' = [loop EXCEPT ![g] = Loop("ended")]
        /\ UNCHANGED tick
  /\ UNCHANGED <<running, rowTick, call, tasks, last, hist>>

\* The agents have moved: the summary of the tick is taken, and every
\* SaveEvery ticks the world is saved before the listeners hear of it.
AgentPhase(g) ==
  /\ loop[g].at = "agents"
  /\ loop' = [loop EXCEPT ![g].data = tick,
                          ![g].at = IF tick % SaveEvery = 0 THEN "save" ELSE "notify"]
  /\ UNCHANGED <<running, tick, rowTick, call, tasks, last, hist>>

\* Variant: a tick that is saved is broadcast before the commit.
LoopSaveNotifies(g) ==
  /\ loop[g].at = "save"
  /\ loop' = [loop EXCEPT ![g].saved = tick, ![g].at = "commit"]
  /\ last' = loop[g].data
  /\ UNCHANGED <<running, tick, rowTick, call, tasks, hist>>

\* _save_state of a tick: the SELECT has answered, and the tick count is read
\* into the transaction.
LoopSave(g) ==
  /\ loop[g].at = "save"
  /\ loop' = [loop EXCEPT ![g].saved = tick, ![g].at = "commit"]
  /\ UNCHANGED <<running, tick, rowTick, call, tasks, last, hist>>

\* The commit is applied and answered.
LoopCommit(g) ==
  /\ loop[g].at = "commit"
  /\ rowTick' = loop[g].saved
  /\ loop' = [loop EXCEPT ![g].at = "notify"]
  /\ UNCHANGED <<running, tick, call, tasks, last, hist>>

\* The summary goes to the listeners; what they raise is logged.
Notify(g) ==
  /\ loop[g].at = "notify"
  /\ last' = loop[g].data
  /\ loop' = [loop EXCEPT ![g] = Loop("sleep")]
  /\ UNCHANGED <<running, tick, rowTick, call, tasks, hist>>

\* The tick that an interrupted commit of task leaves in the row.
Interrupted(task) == {rowTick} \cup (IF task.at = "commit" THEN {task.saved} ELSE {})

Failure == hist.fails < MaxFails

\* A tick that raises ends the loop, and nothing restarts it.
TickFails(g) ==
  /\ loop[g].at \in {"agents", "save", "commit"}
  /\ Failure
  /\ hist' = [hist EXCEPT !.fails = @ + 1]
  /\ loop' = [loop EXCEPT ![g] = Loop("failed")]
  /\ rowTick' \in Interrupted(loop[g])
  /\ UNCHANGED <<running, tick, call, tasks, last>>

\* Variant: the loop does not look at the flag.
RefreshForever(d, g) ==
  /\ g \in refresh[d] /\ ~running
  /\ UNCHANGED vars

\* A refresh loop comes to the end of a round, or of its first refresh, and
\* finds the flag cleared. A round that finds it set, failed or not, changes
\* nothing modelled here.
RefreshEnds(d, g) ==
  /\ g \in refresh[d] /\ ~running
  /\ refresh' = [refresh EXCEPT ![d] = @ \ {g}]
  /\ UNCHANGED <<running, tick, rowTick, loop, call, tickTask, refTask, gen, last, hist>>
-----------------------------------------------------------------------------
\* Control calls.

\* Variant: a world that is running is started once more.
StartAgain ==
  /\ gen < MaxStarts
  /\ gen' = gen + 1
  /\ running' = TRUE
  /\ tickTask' = gen + 1
  /\ refTask' = [d \in Domains |-> gen + 1]
  /\ loop' = [loop EXCEPT ![gen + 1].at = "new"]
  /\ refresh' = [d \in Domains |-> refresh[d] \cup {gen + 1}]
  /\ hist' = [hist EXCEPT !.overlapped = @ \/ Busy, !.ok = TRUE]
  /\ UNCHANGED <<tick, rowTick, call, last>>

\* start: nothing to do for a world that is running. The references replace
\* whatever was there.
Start ==
  /\ ~running
  /\ gen < MaxStarts
  /\ gen' = gen + 1
  /\ running' = TRUE
  /\ tickTask' = gen + 1
  /\ refTask' = [d \in Domains |-> gen + 1]
  /\ loop' = [loop EXCEPT ![gen + 1].at = "new"]
  /\ refresh' = [d \in Domains |-> refresh[d] \cup {gen + 1}]
  /\ hist' = [hist EXCEPT !.overlapped = @ \/ Busy, !.ok = TRUE]
  /\ UNCHANGED <<tick, rowTick, call, last>>

\* The refresh part of pause, up to its next await: the next loop is cancelled
\* and awaited, or all are done and the save begins.
CancelRefresh(c, left) ==
  \/ /\ left = {}
     /\ call' = [call EXCEPT ![c].at = "save", ![c].todo = {}, ![c].waits = 0]
     /\ refTask' = NoTasks
     /\ UNCHANGED refresh
  \/ \E d \in left :
     /\ call' = [call EXCEPT ![c].at = "refresh", ![c].todo = left \ {d}]
     /\ refresh' = [refresh EXCEPT ![d] = @ \ {refTask[d]}]
     /\ UNCHANGED refTask

\* The rest of pause once the tick task is gone, up to its next await: the
\* resolve task or the embed worker, if one is alive, or the refresh loops.
CancelOthers(c) ==
  \/ /\ call' = [call EXCEPT ![c].at = "others"]
     /\ UNCHANGED <<refTask, refresh>>
  \/ CancelRefresh(c, {d \in Domains : refTask[d] # 0})

\* A call raises out of the API.
Raise(c) == call' = [call EXCEPT ![c] = Idle]
Raised == [hist EXCEPT !.raised = @ + 1, !.ok = FALSE]

\* pause, or the pause that begins a reset: the flag is cleared, the tick loop
\* is cancelled at its await and then awaited. A request takes the first free
\* number.
PauseBegin(c) ==
  /\ call[c].at = "idle" /\ hist.calls < MaxCalls
  /\ \A b \in Callers : b < c => call[b].at # "idle"
  /\ hist' = [hist EXCEPT !.calls = @ + 1, !.overlapped = @ \/ Busy]
  /\ running' = FALSE
  /\ call' = [call EXCEPT ![c].at = "tick", ![c].waits = tickTask]
  /\ IF tickTask # 0 /\ Alive(tickTask)
     THEN /\ loop' = [loop EXCEPT ![tickTask] = Loop("ended")]
          /\ rowTick' \in Interrupted(loop[tickTask])
     ELSE UNCHANGED <<loop, rowTick>>
  /\ UNCHANGED <<tick, tasks, last>>

\* The tick task is over. The exception of one that failed is raised again,
\* and the rest of pause, with its save, does not happen.
TickTaskOver(c) ==
  /\ call[c].at = "tick"
  /\ IF call[c].waits # 0 /\ loop[call[c].waits].at = "failed"
     THEN /\ Raise(c) /\ hist' = Raised
          /\ UNCHANGED <<tickTask, refTask, refresh>>
     ELSE /\ tickTask' = 0
          /\ CancelOthers(c) /\ UNCHANGED hist
  /\ UNCHANGED <<running, tick, rowTick, loop, gen, last>>

\* The resolve task and the embed worker are over; start revives neither.
OthersOver(c) ==
  /\ call[c].at = "others"
  /\ CancelRefresh(c, {d \in Domains : refTask[d] # 0})
  /\ UNCHANGED <<running, tick, rowTick, loop, tickTask, gen, last, hist>>

\* One refresh loop is over. A dictionary that another call has emptied in the
\* meantime ends the iteration with an exception.
RefreshOver(c) ==
  /\ call[c].at = "refresh"
  /\ IF refTask = NoTasks
     THEN Raise(c) /\ hist' = Raised /\ UNCHANGED <<refTask, refresh>>
     ELSE CancelRefresh(c, call[c].todo) /\ UNCHANGED hist
  /\ UNCHANGED <<running, tick, rowTick, loop, tickTask, gen, last>>

\* _save_state of a call.
CallSave(c) ==
  /\ call[c].at = "save"
  /\ call' = [call EXCEPT ![c].saved = tick, ![c].at = "commit"]
  /\ UNCHANGED <<running, tick, rowTick, loop, tasks, last, hist>>

\* Variant: a reset does not save the world it has set back.
CommitWithoutReseed(c) ==
  /\ call[c].at = "commit"
  /\ rowTick' = call[c].saved
  /\ call' = [call EXCEPT ![c] = Idle]
  /\ hist' = [hist EXCEPT !.ok = TRUE]
  /\ \/ tick' = 0 /\ last' = 0
     \/ UNCHANGED <<tick, last>>
  /\ UNCHANGED <<running, loop, tasks>>

\* Its commit ends a pause. A reset goes on: it sets the tick back and awaits
\* new agents, to be saved in their turn.
CallCommit(c) ==
  /\ call[c].at = "commit"
  /\ rowTick' = call[c].saved
  /\ \/ /\ call' = [call EXCEPT ![c] = Idle]
        /\ hist' = [hist EXCEPT !.ok = TRUE]
        /\ UNCHANGED <<tick, last>>
     \/ /\ ~call[c].reseeds
        /\ tick' = 0 /\ last' = 0
        /\ call' = [call EXCEPT ![c] = [Idle EXCEPT !.at = "bootstrap", !.reseeds = TRUE]]
        /\ UNCHANGED hist
  /\ UNCHANGED <<running, loop, tasks>>

\* reset has its new agents and saves them.
Bootstrapped(c) ==
  /\ call[c].at = "bootstrap"
  /\ call' = [call EXCEPT ![c].at = "save"]
  /\ UNCHANGED <<running, tick, rowTick, loop, tasks, last, hist>>

\* A save or a bootstrap raises.
CallFails(c) ==
  /\ call[c].at \in {"save", "commit", "bootstrap"}
  /\ Failure
  /\ Raise(c)
  /\ hist' = [Raised EXCEPT !.fails = @ + 1]
  /\ rowTick' \in Interrupted(call[c])
  /\ UNCHANGED <<running, tick, loop, tasks, last>>

\* The process dies, loads the committed tick and starts the world.
Restart ==
  /\ hist.crashes < MaxCrashes
  /\ running' = TRUE
  /\ tick' = rowTick /\ last' = 0
  /\ loop' = FirstLoops
  /\ call' = [c \in Callers |-> Idle]
  /\ tickTask' = 1 /\ gen' = 1
  /\ refTask' = [d \in Domains |-> 1]
  /\ refresh' = [d \in Domains |-> {1}]
  /\ hist' = [hist EXCEPT !.overlapped = FALSE, !.raised = 0, !.ok = TRUE, !.crashes = @ + 1]
  /\ UNCHANGED rowTick
-----------------------------------------------------------------------------
LoopStep(g) ==
  \/ TickBegin(g) \/ AgentPhase(g) \/ LoopSave(g) \/ LoopCommit(g) \/ Notify(g)

CallStep(c) ==
  \/ TickTaskOver(c) \/ OthersOver(c) \/ RefreshOver(c)
  \/ CallSave(c) \/ CallCommit(c) \/ Bootstrapped(c)

Next ==
  \/ \E g \in Gens : LoopStep(g) \/ TickFails(g)
  \/ \E d \in Domains, g \in Gens : RefreshEnds(d, g)
  \/ \E c \in Callers : PauseBegin(c) \/ CallStep(c) \/ CallFails(c)
  \/ Start \/ Restart

Spec == Init /\ [][Next]_vars

\* asyncio resumes every task whose await is over; awaits of the database, of
\* the agents' threads and of cancelled tasks end, and so do sleeps and
\* refresh rounds. Nobody has to call, and nothing has to fail.
Fairness ==
  /\ \A g \in Gens : WF_vars(LoopStep(g))
  /\ \A d \in Domains, g \in Gens : WF_vars(RefreshEnds(d, g))
  /\ \A c \in Callers : WF_vars(CallStep(c))

FairSpec == Spec /\ Fairness
-----------------------------------------------------------------------------
Ticks == 0..MaxTick

\* Shape of the state.
TypeOK ==
  /\ running \in BOOLEAN
  /\ tick \in Ticks /\ rowTick \in Ticks /\ last \in Ticks
  /\ loop \in [Gens -> [at : Dead \cup {"new", "agents", "save", "commit", "notify", "sleep"},
                        data : Ticks, saved : Ticks]]
  /\ call \in [Callers ->
       [at : {"idle", "tick", "others", "refresh", "save", "commit", "bootstrap"},
        waits : Gens \cup {0}, todo : SUBSET Domains,
        saved : Ticks, reseeds : BOOLEAN]]
  /\ gen \in Gens /\ tickTask \in 0..gen
  /\ refTask \in [Domains -> 0..gen]
  /\ refresh \in [Domains -> SUBSET (1..gen)]
  /\ hist \in [overlapped : BOOLEAN, raised : Nat, ok : BOOLEAN,
               fails : 0..MaxFails, calls : 0..MaxCalls, crashes : 0..MaxCrashes]

Serial == ~hist.overlapped

\* While control calls do not overlap the world has one heartbeat, whatever
\* failed: a running world has at most one live tick loop, a stopped one none.
OneHeartbeat ==
  Serial => \A g \in Gens : Alive(g) => running /\ tickTask = g

\* A refresh domain is polled by one loop, plus at most one more for each
\* call that raised and left its loops behind for a later start to duplicate.
RefreshLoopsCounted ==
  Serial => \A d \in Domains : Cardinality(refresh[d]) <= 1 + hist.raised

\* A client that saw a tick sees less than one save interval of ticks again
\* after a crash, and one interval more for each failure.
RepeatedTicksBounded ==
  Serial => last < rowTick + SaveEvery * (1 + hist.fails)

\* Once a pause or reset has returned normally nothing advances the world, and
\* the committed row is the world as it stands.
PausedIsDurable ==
  (Serial /\ ~Busy /\ ~running /\ hist.ok) =>
    rowTick = tick /\ \A g \in Gens : ~Alive(g)

\* Listeners get ticks in strictly increasing order until a reset or a crash,
\* across pauses, failed ticks and failed calls.
BroadcastsIncrease ==
  [][\A g \in Gens : (loop[g].at = "notify" /\ loop'[g].at = "sleep") =>
       last' > last \/ hist.overlapped]_vars

\* A world told to stop comes to rest unless it is started again: every loop
\* ends, also those whose reference was lost to overlapping calls and those
\* that a call which raised half way left behind.
StopSettles ==
  ~running ~> (running \/ /\ ~Busy
                          /\ \A g \in Gens : ~Alive(g)
                          /\ \A d \in Domains : refresh[d] = {})
-----------------------------------------------------------------------------
\* What tick says of its broadcast: it always runs, also on a tick that saves.
NotifyAlwaysRuns ==
  [][\A g \in Gens : loop[g].at \in {"save", "commit"} => loop'[g].at # "failed"]_vars
=============================================================================
