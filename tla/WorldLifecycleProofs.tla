------------------------ MODULE WorldLifecycleProofs ------------------------
(***************************************************************************)
(* Whatever the number of requests, domains, starts, failures and crashes: *)
(* as long as control calls do not overlap the world has one heartbeat, a  *)
(* pause that returned is durable, and a crash repeats a bounded number of *)
(* ticks.                                                                  *)
(***************************************************************************)
EXTENDS WorldLifecycle, FiniteSetTheorems, TLAPS

\* The parts of TypeOK, to be cited where a step needs no more.
LoopType ==
  loop \in [Gens -> [at : Dead \cup {"new", "agents", "save", "commit", "notify", "sleep"},
                     data : Ticks, saved : Ticks]]
CallType ==
  call \in [Callers ->
    [at : {"idle", "tick", "others", "refresh", "save", "commit", "bootstrap"},
     waits : Gens \cup {0}, todo : SUBSET Domains, saved : Ticks, reseeds : BOOLEAN]]
TickType == tick \in Ticks /\ rowTick \in Ticks /\ last \in Ticks
TaskType ==
  /\ gen \in Gens /\ tickTask \in 0..gen
  /\ refTask \in [Domains -> 0..gen] /\ refresh \in [Domains -> SUBSET (1..gen)]
HistType ==
  hist \in [overlapped : BOOLEAN, raised : Nat, ok : BOOLEAN,
            fails : 0..MaxFails, calls : 0..MaxCalls, crashes : 0..MaxCrashes]

LEMMA TypeParts ==
  /\ TypeOK <=> running \in BOOLEAN /\ LoopType /\ CallType /\ TickType /\ TaskType /\ HistType
  /\ TypeOK' <=> running' \in BOOLEAN /\ LoopType' /\ CallType' /\ TickType' /\ TaskType' /\ HistType'
  BY DEF TypeOK, LoopType, CallType, TickType, TaskType, HistType

LEMMA Bounds ==
  /\ 0 \in Ticks /\ 1 \in Gens /\ Gens \subseteq Nat /\ Ticks \subseteq Nat
  /\ 0 \in 0..MaxFails /\ 0 \in 0..MaxCalls /\ 0 \in 0..MaxCrashes
  BY LifecycleAssumption DEF Ticks, Gens

\* What the steps make of the history: records of its kind.
LEMMA HistKept ==
  ASSUME HistType, NEW n \in 0..MaxCalls, NEW f \in 0..MaxFails, NEW x \in 0..MaxCrashes,
         NEW r \in Nat, NEW o \in BOOLEAN, NEW k \in BOOLEAN
  PROVE  /\ [hist EXCEPT !.calls = n, !.overlapped = o] = hist' => HistType'
         /\ [hist EXCEPT !.raised = r, !.ok = k] = hist' => HistType'
         /\ [[hist EXCEPT !.raised = r, !.ok = k] EXCEPT !.fails = f] = hist' => HistType'
         /\ [hist EXCEPT !.fails = f] = hist' => HistType'
         /\ [hist EXCEPT !.overlapped = o, !.ok = k] = hist' => HistType'
         /\ [hist EXCEPT !.overlapped = o, !.raised = r, !.ok = k, !.crashes = x] = hist' => HistType'
  BY DEF HistType

LEMMA LoopsBegin == FirstLoops \in
  [Gens -> [at : Dead \cup {"new", "agents", "save", "commit", "notify", "sleep"},
            data : Ticks, saved : Ticks]]
  BY Bounds DEF FirstLoops, Loop, Dead

LEMMA TypeInit == Init => TypeOK
  BY LoopsBegin, Bounds DEF Init, TypeOK, Idle

\* A loop moves.
LEMMA TypeLoop ==
  ASSUME TypeOK, NEW g \in Gens, LoopStep(g) \/ TickFails(g)
  PROVE  TypeOK'
<1>0. running \in BOOLEAN /\ LoopType /\ CallType /\ TickType /\ TaskType /\ HistType
  BY TypeParts
<1>1. CASE TickBegin(g)
  <2>1. tick' \in Ticks
    BY <1>0, <1>1, LifecycleAssumption DEF TickBegin, TickType, Ticks
  <2>2. LoopType'
    BY <1>0, <1>1, Bounds DEF TickBegin, LoopType, Loop, Dead
  <2> QED BY <1>0, <1>1, <2>1, <2>2, TypeParts DEF TickBegin, CallType, TickType,
            TaskType, HistType, tasks
<1>2. CASE AgentPhase(g)
  BY <1>0, <1>2 DEF AgentPhase, TypeOK, LoopType, CallType, TickType, TaskType, HistType, tasks
<1>3. CASE LoopSave(g)
  BY <1>0, <1>3 DEF LoopSave, TypeOK, LoopType, CallType, TickType, TaskType, HistType, tasks
<1>4. CASE LoopCommit(g)
  BY <1>0, <1>4 DEF LoopCommit, TypeOK, LoopType, CallType, TickType, TaskType, HistType, tasks
<1>5. CASE Notify(g)
  BY <1>0, <1>5, Bounds DEF Notify, TypeOK, LoopType, CallType, TickType, TaskType, HistType, tasks, Loop
<1>6. CASE TickFails(g)
  <2>1. rowTick' \in Ticks
    BY <1>0, <1>6 DEF TickFails, Interrupted, LoopType, TickType
  <2>2. HistType'
    BY <1>0, <1>6, LifecycleAssumption DEF TickFails, Failure, HistType
  <2>3. LoopType'
    BY <1>0, <1>6, Bounds DEF TickFails, LoopType, Loop, Dead
  <2> QED BY <1>0, <1>6, <2>1, <2>2, <2>3, TypeParts DEF TickFails, CallType, TickType,
            TaskType, tasks
<1> QED BY <1>1, <1>2, <1>3, <1>4, <1>5, <1>6 DEF LoopStep

\* The part of a call that cancels the refresh loops.
LEMMA TypeCancel ==
  ASSUME TypeOK, NEW c \in Callers, NEW left \in SUBSET Domains,
         CancelRefresh(c, left) \/ CancelOthers(c), gen' = gen
  PROVE  CallType' /\ refTask' \in [Domains -> 0..gen] /\ refresh' \in [Domains -> SUBSET (1..gen)]
<1>0. CallType /\ TaskType
  BY TypeParts
<1>1. ASSUME NEW L \in SUBSET Domains, CancelRefresh(c, L)
      PROVE  CallType' /\ refTask' \in [Domains -> 0..gen]
                       /\ refresh' \in [Domains -> SUBSET (1..gen)]
  BY <1>0, <1>1, Bounds DEF CancelRefresh, CallType, TaskType, NoTasks, Gens
<1>2. CASE CancelOthers(c)
  <2>1. {d \in Domains : refTask[d] # 0} \in SUBSET Domains
    OBVIOUS
  <2> QED BY <1>0, <1>1, <1>2, <2>1 DEF CancelOthers, CallType, TaskType
<1> QED BY <1>1, <1>2

LEMMA RaisedIsHist == ASSUME HistType, hist' = Raised PROVE HistType'
<1>1. hist.raised + 1 \in Nat
  BY DEF HistType
<1> QED BY <1>1, HistKept, Bounds, Zenon DEF Raised

\* A call begins, goes on, or fails.
LEMMA TypeCall ==
  ASSUME TypeOK, NEW c \in Callers, PauseBegin(c) \/ CallStep(c) \/ CallFails(c)
  PROVE  TypeOK'
<1>0. running \in BOOLEAN /\ LoopType /\ CallType /\ TickType /\ TaskType /\ HistType
  BY TypeParts
<1>1. CASE PauseBegin(c)
  <2>0. tickTask \in Gens \cup {0}
    BY <1>0, LifecycleAssumption DEF TaskType, Gens
  <2>1. HistType'
    <3>1. hist.calls + 1 \in 0..MaxCalls /\ (hist.overlapped \/ Busy) \in BOOLEAN
      BY <1>0, <1>1, LifecycleAssumption DEF PauseBegin, HistType
    <3>2. hist' = [hist EXCEPT !.calls = hist.calls + 1, !.overlapped = hist.overlapped \/ Busy]
      BY <1>1, Zenon DEF PauseBegin
    <3> DEFINE o == hist.overlapped \/ Busy
    <3> HIDE DEF o
    <3>3. o \in BOOLEAN /\ hist' = [hist EXCEPT !.calls = hist.calls + 1, !.overlapped = o]
      BY <3>1, <3>2, Zenon DEF o
    <3> QED BY <1>0, <3>1, <3>3, HistKept, Bounds
  <2>2. CallType'
    <3>1. call' = [call EXCEPT ![c].at = "tick", ![c].waits = tickTask]
      BY <1>1 DEF PauseBegin
    <3> QED BY ZenonT(60), <1>0, <2>0, <3>1 DEF CallType
  <2>3. LoopType' /\ rowTick' \in Ticks
    <3>1. CASE tickTask # 0 /\ Alive(tickTask)
      <4>1. loop' = [loop EXCEPT ![tickTask] = Loop("ended")] /\ rowTick' \in Interrupted(loop[tickTask])
        BY <1>1, <3>1 DEF PauseBegin
      <4>2. LoopType'
        BY <1>0, <2>0, <3>1, <4>1, Bounds DEF LoopType, Loop, Dead
      <4> QED BY <1>0, <2>0, <3>1, <4>1, <4>2 DEF LoopType, TickType, Interrupted
    <3>2. CASE ~(tickTask # 0 /\ Alive(tickTask))
      BY <1>0, <1>1, <3>2 DEF PauseBegin, LoopType, TickType
    <3> QED BY <3>1, <3>2
  <2> QED BY <1>0, <1>1, <2>1, <2>2, <2>3, TypeParts DEF PauseBegin, TickType, TaskType, tasks
<1>2. CASE TickTaskOver(c)
  <2>1. CASE Raise(c) /\ hist' = Raised /\ UNCHANGED <<tickTask, refTask, refresh>>
    <3>1. CallType'
      BY <1>0, <2>1, Bounds DEF Raise, CallType, Idle
    <3>2. HistType'
      BY <1>0, <2>1, RaisedIsHist
    <3> QED BY <1>0, <1>2, <2>1, <3>1, <3>2, TypeParts DEF TickTaskOver, LoopType, TickType, TaskType
  <2>2. CASE tickTask' = 0 /\ CancelOthers(c) /\ UNCHANGED hist
    <3>1. CallType' /\ TaskType'
      BY <1>0, <1>2, <2>2, TypeCancel DEF TickTaskOver, TaskType, Gens
    <3> QED BY <1>0, <1>2, <2>2, <3>1, TypeParts DEF TickTaskOver, LoopType, TickType, HistType
  <2> QED BY <1>2, <2>1, <2>2 DEF TickTaskOver
<1>3. CASE OthersOver(c)
  <2>1. CallType' /\ TaskType'
    BY <1>0, <1>3, TypeCancel DEF OthersOver, TaskType
  <2> QED BY <1>0, <1>3, <2>1, TypeParts DEF OthersOver, LoopType, TickType, HistType
<1>4. CASE RefreshOver(c)
  <2>1. CASE Raise(c) /\ hist' = Raised /\ UNCHANGED <<refTask, refresh>>
    <3>1. CallType'
      BY <1>0, <2>1, Bounds DEF Raise, CallType, Idle
    <3>2. HistType'
      BY <1>0, <2>1, RaisedIsHist
    <3> QED BY <1>0, <1>4, <2>1, <3>1, <3>2, TypeParts DEF RefreshOver, LoopType, TickType, TaskType
  <2>2. CASE CancelRefresh(c, call[c].todo) /\ UNCHANGED hist
    <3>1. CallType' /\ TaskType'
      BY <1>0, <1>4, <2>2, TypeCancel DEF RefreshOver, TaskType, CallType
    <3> QED BY <1>0, <1>4, <2>2, <3>1, TypeParts DEF RefreshOver, LoopType, TickType, HistType
  <2> QED BY <1>4, <2>1, <2>2 DEF RefreshOver
<1>5. CASE CallSave(c)
  BY <1>0, <1>5 DEF CallSave, TypeOK, LoopType, CallType, TickType, TaskType, HistType, tasks
<1>6. CASE CallCommit(c)
  <2>1. CallType' /\ TickType'
    <3>1. [Idle EXCEPT !.at = "bootstrap", !.reseeds = TRUE] \in
            [at : {"idle", "tick", "others", "refresh", "save", "commit", "bootstrap"},
             waits : Gens \cup {0}, todo : SUBSET Domains, saved : Ticks, reseeds : BOOLEAN]
      BY Bounds DEF Idle
    <3>2. Idle \in
            [at : {"idle", "tick", "others", "refresh", "save", "commit", "bootstrap"},
             waits : Gens \cup {0}, todo : SUBSET Domains, saved : Ticks, reseeds : BOOLEAN]
      BY Bounds DEF Idle
    <3>3. PICK i \in {Idle, [Idle EXCEPT !.at = "bootstrap", !.reseeds = TRUE]} :
            call' = [call EXCEPT ![c] = i]
      BY <1>6 DEF CallCommit
    <3>4. CallType'
      BY <1>0, <3>1, <3>2, <3>3 DEF CallType
    <3> QED BY <1>0, <1>6, <3>4, Bounds DEF CallCommit, TickType, CallType
  <2>2. HistType'
    <3>1. hist' = hist \/ hist' = [hist EXCEPT !.ok = TRUE]
      BY <1>6 DEF CallCommit
    <3> QED BY <1>0, <3>1 DEF HistType
  <2> QED BY <1>0, <1>6, <2>1, <2>2, TypeParts DEF CallCommit, LoopType, TaskType, tasks
<1>7. CASE Bootstrapped(c)
  <2>1. CallType'
    BY <1>0, <1>7 DEF Bootstrapped, CallType
  <2> QED BY <1>0, <1>7, <2>1, TypeParts DEF Bootstrapped, LoopType, TickType, TaskType,
            HistType, tasks
<1>8. CASE CallFails(c)
  <2>1. CallType' /\ rowTick' \in Ticks
    BY <1>0, <1>8, Bounds DEF CallFails, Raise, CallType, TickType, Idle, Interrupted
  <2>2. HistType'
    <3>1. hist.raised + 1 \in Nat /\ hist.fails + 1 \in 0..MaxFails
      BY <1>0, <1>8, LifecycleAssumption DEF CallFails, Failure, HistType
    <3>2. hist' = [[hist EXCEPT !.raised = hist.raised + 1, !.ok = FALSE] EXCEPT !.fails = hist.fails + 1]
      BY <1>8 DEF CallFails, Raised
    <3> QED BY <1>0, <3>1, <3>2, HistKept, Bounds, Zenon
  <2> QED BY <1>0, <1>8, <2>1, <2>2, TypeParts DEF CallFails, LoopType, TickType, TaskType, tasks
<1> QED BY <1>1, <1>2, <1>3, <1>4, <1>5, <1>6, <1>7, <1>8 DEF CallStep

LEMMA TypeStep == TypeOK /\ [Next]_vars => TypeOK'
<1> SUFFICES ASSUME TypeOK, [Next]_vars PROVE TypeOK'
  OBVIOUS
<1>0. running \in BOOLEAN /\ LoopType /\ CallType /\ TickType /\ TaskType /\ HistType
  BY TypeParts
<1>1. CASE \E g \in Gens : LoopStep(g) \/ TickFails(g)
  BY <1>1, TypeLoop
<1>2. ASSUME NEW d \in Domains, NEW g \in Gens, RefreshEnds(d, g) PROVE TypeOK'
  <2>1. TaskType'
    BY <1>0, <1>2 DEF RefreshEnds, TaskType
  <2> QED BY <1>0, <1>2, <2>1, TypeParts DEF RefreshEnds, LoopType, CallType, TickType, HistType
<1>3. CASE \E c \in Callers : PauseBegin(c) \/ CallStep(c) \/ CallFails(c)
  BY <1>3, TypeCall
<1>4. CASE Start
  <2>1. TaskType' /\ gen + 1 \in Gens
    BY <1>0, <1>4, LifecycleAssumption DEF Start, TaskType, Gens
  <2>2. LoopType'
    BY <1>0, <1>4, <2>1 DEF Start, LoopType
  <2>3. HistType'
    BY <1>0, <1>4 DEF Start, HistType, Busy
  <2> QED BY <1>0, <1>4, <2>1, <2>2, <2>3, TypeParts DEF Start, CallType, TickType
<1>5. CASE Restart
  <2>1. TaskType' /\ CallType' /\ TickType'
    BY <1>0, <1>5, Bounds DEF Restart, TaskType, CallType, TickType, Idle, Gens
  <2>2. LoopType'
    BY <1>5, LoopsBegin DEF Restart, LoopType
  <2>3. HistType'
    <3>1. hist.crashes + 1 \in 0..MaxCrashes /\ 0 \in Nat
      BY <1>0, <1>5, LifecycleAssumption DEF Restart, HistType
    <3> QED BY <1>0, <1>5, <3>1, HistKept, Bounds, Zenon DEF Restart
  <2> QED BY <1>5, <2>1, <2>2, <2>3, TypeParts DEF Restart
<1>6. CASE UNCHANGED vars
  BY <1>0, <1>6, TypeParts DEF vars, tasks, LoopType, CallType, TickType, TaskType, HistType
<1> QED BY <1>1, <1>2, <1>3, <1>4, <1>5, <1>6 DEF Next

\* World keeps its shape, whatever is asked of it and whatever fails.
THEOREM LifecycleTypeCorrect == Spec => []TypeOK
  BY TypeInit, TypeStep, PTL DEF Spec
-----------------------------------------------------------------------------
\* While calls do not overlap, one of them at most is at work, and it has stopped
\* the world.
OneBusy == \A b, c \in Callers : call[b].at # "idle" /\ call[c].at # "idle" => b = c
BusyStops == \A c \in Callers : call[c].at # "idle" => ~running

\* What OneHeartbeat says of them.
Beats == \A g \in Gens : Alive(g) => running /\ tickTask = g

HeartInv == TypeOK /\ (Serial => OneBusy /\ BusyStops /\ Beats)

\* What a step of a loop leaves alone.
LEMMA LoopEffects ==
  ASSUME TypeOK, NEW g \in Gens, LoopStep(g) \/ TickFails(g)
  PROVE  /\ UNCHANGED <<running, call, tasks>>
         /\ hist'.overlapped = hist.overlapped /\ hist'.ok = hist.ok
         /\ Alive(g) /\ \A h \in Gens \ {g} : loop'[h] = loop[h]
<1>0. LoopType /\ HistType
  BY TypeParts
<1>1. CASE TickFails(g)
  BY <1>0, <1>1 DEF TickFails, LoopType, HistType, Alive, Dead, tasks
<1>2. CASE LoopStep(g)
  BY <1>0, <1>2 DEF LoopStep, TickBegin, AgentPhase, LoopSave, LoopCommit, Notify, LoopType,
     Alive, Dead
<1> QED BY <1>1, <1>2

\* What a call at work leaves alone.
LEMMA CallEffects ==
  ASSUME TypeOK, NEW c \in Callers, CallStep(c) \/ CallFails(c)
  PROVE  /\ UNCHANGED <<running, loop, gen>> /\ hist'.overlapped = hist.overlapped
         /\ call[c].at # "idle" /\ \A b \in Callers \ {c} : call'[b] = call[b]
<1>0. CallType /\ HistType
  BY TypeParts
<1>1. ASSUME NEW L, CancelRefresh(c, L) PROVE \A b \in Callers \ {c} : call'[b] = call[b]
  BY <1>0, <1>1 DEF CancelRefresh, CallType
<1>2. ASSUME CancelOthers(c) PROVE \A b \in Callers \ {c} : call'[b] = call[b]
  BY <1>0, <1>1, <1>2 DEF CancelOthers, CallType
<1>3. ASSUME Raise(c) PROVE \A b \in Callers \ {c} : call'[b] = call[b]
  BY <1>0, <1>3 DEF Raise, CallType
<1>4. Raised.overlapped = hist.overlapped /\ [Raised EXCEPT !.fails = hist.fails + 1].overlapped = hist.overlapped
  BY <1>0 DEF Raised, HistType
<1>5. CASE CallFails(c)
  BY <1>0, <1>3, <1>4, <1>5 DEF CallFails, tasks
<1>6. CASE TickTaskOver(c) \/ OthersOver(c) \/ RefreshOver(c)
  BY <1>0, <1>1, <1>2, <1>3, <1>4, <1>6 DEF TickTaskOver, OthersOver, RefreshOver
<1>7. CASE CallSave(c) \/ CallCommit(c) \/ Bootstrapped(c)
  BY <1>0, <1>7 DEF CallSave, CallCommit, Bootstrapped, CallType, HistType, tasks
<1> QED BY <1>5, <1>6, <1>7 DEF CallStep

LEMMA HeartInit == Init => HeartInv
<1> SUFFICES ASSUME Init PROVE Serial => OneBusy /\ BusyStops /\ Beats
  BY TypeInit DEF HeartInv
<1> QED BY Bounds DEF Init, Idle, FirstLoops, Loop, Alive, Dead, OneBusy, BusyStops, Beats

\* One action at a time.
LEMMA HeartStep == HeartInv /\ [Next]_vars => HeartInv'
<1> SUFFICES ASSUME HeartInv, [Next]_vars, Serial'
             PROVE  (OneBusy /\ BusyStops /\ Beats)'
  BY TypeStep DEF HeartInv
<1>0. TypeOK /\ CallType /\ LoopType /\ HistType /\ TaskType
  BY TypeParts DEF HeartInv
<1> DEFINE Heart == OneBusy /\ BusyStops /\ Beats
<1>1. Serial => Heart
  BY DEF HeartInv
<1>2. ASSUME NEW g \in Gens, LoopStep(g) \/ TickFails(g) PROVE Heart'
  <2>1. /\ UNCHANGED <<running, call, tasks>> /\ Serial
        /\ Alive(g) /\ \A h \in Gens \ {g} : loop'[h] = loop[h]
    BY <1>0, <1>2, LoopEffects DEF Serial
  <2>2. \A h \in Gens : Alive(h)' => Alive(h)
    BY <2>1 DEF Alive
  <2> QED BY <1>1, <2>1, <2>2 DEF OneBusy, BusyStops, Beats, tasks
<1>3. CASE \E d \in Domains, g \in Gens : RefreshEnds(d, g)
  BY <1>1, <1>3 DEF RefreshEnds, Serial, OneBusy, BusyStops, Beats, Alive
<1>4. ASSUME NEW c \in Callers, PauseBegin(c) PROVE Heart'
  <2>1. Serial /\ ~Busy
    BY <1>0, <1>4 DEF PauseBegin, Serial, HistType
  <2>2. \A g \in Gens : Alive(g) => tickTask = g
    BY <1>1, <2>1 DEF Beats
  <2>3. \A b \in Callers \ {c} : call'[b].at = "idle"
    BY <1>0, <1>4, <2>1 DEF PauseBegin, CallType, Busy
  <2>4. running' = FALSE
    BY <1>4 DEF PauseBegin
  <2>5. \A g \in Gens : ~Alive(g)'
    <3>1. ASSUME NEW g \in Gens, Alive(g) PROVE ~Alive(g)'
      <4>1. tickTask = g /\ g # 0
        BY <2>2, <3>1 DEF Gens
      <4>2. loop' = [loop EXCEPT ![g] = Loop("ended")]
        BY <1>4, <3>1, <4>1 DEF PauseBegin
      <4>3. loop'[g].at = "ended"
        BY <1>0, <4>2 DEF LoopType, Loop
      <4> QED BY <4>3 DEF Alive, Dead
    <3>2. ASSUME NEW g \in Gens, ~Alive(g) PROVE ~Alive(g)'
      <4>1. loop' = loop \/ \E h \in Gens : loop' = [loop EXCEPT ![h] = Loop("ended")]
        <5>1. tickTask \in Gens \cup {0}
          BY <1>0, LifecycleAssumption DEF TaskType, Gens
        <5> QED BY <1>4, <5>1 DEF PauseBegin
      <4>2. CASE loop' = loop
        BY <3>2, <4>2 DEF Alive
      <4>3. ASSUME NEW h \in Gens, loop' = [loop EXCEPT ![h] = Loop("ended")] PROVE ~Alive(g)'
        BY <1>0, <3>2, <4>3 DEF LoopType, Loop, Alive, Dead
      <4> QED BY <4>1, <4>2, <4>3
    <3> QED BY <3>1, <3>2
  <2> QED BY <2>3, <2>4, <2>5 DEF OneBusy, BusyStops, Beats
<1>5. ASSUME NEW c \in Callers, CallStep(c) \/ CallFails(c) PROVE Heart'
  <2>1. /\ UNCHANGED <<running, loop, gen>> /\ Serial
        /\ call[c].at # "idle" /\ \A b \in Callers \ {c} : call'[b] = call[b]
    BY <1>0, <1>5, CallEffects DEF Serial
  <2>2. ~running /\ \A g \in Gens : ~Alive(g)
    BY <1>1, <2>1 DEF BusyStops, Beats
  <2> QED BY <1>1, <2>1, <2>2 DEF OneBusy, BusyStops, Beats, Alive
<1>6. CASE Start
  <2>1. Serial /\ ~Busy
    BY <1>0, <1>6 DEF Start, Serial, HistType
  <2>2. \A g \in Gens : ~Alive(g)
    BY <1>1, <1>6, <2>1 DEF Start, Beats
  <2>3. \A g \in Gens : Alive(g)' => g = gen + 1
    BY <1>0, <1>6, <2>2 DEF Start, LoopType, Alive
  <2> QED BY <1>6, <2>1, <2>3 DEF Start, Busy, OneBusy, BusyStops, Beats
<1>7. CASE Restart
  BY <1>7, Bounds DEF Restart, Idle, FirstLoops, Loop, Alive, Dead, OneBusy, BusyStops, Beats
<1>8. CASE UNCHANGED vars
  BY <1>1, <1>8 DEF vars, tasks, Serial, OneBusy, BusyStops, Beats, Alive
<1> QED BY <1>2, <1>3, <1>4, <1>5, <1>6, <1>7, <1>8 DEF Next

LEMMA HeartHolds == Spec => []HeartInv
  BY HeartInit, HeartStep, PTL DEF Spec

\* start, pause and the tick loop: however calls follow one another and whatever
\* fails in between, no tick loop of an earlier start goes on ticking.
THEOREM OneHeartbeatHolds == Spec => []OneHeartbeat
<1>1. HeartInv => OneHeartbeat
  BY DEF HeartInv, OneHeartbeat, Beats
<1> QED BY <1>1, HeartHolds, PTL
-----------------------------------------------------------------------------
\* Saves and what they owe.  Due is the last tick that is a multiple of SaveEvery;
\* each failure may cost the save of one of them.
Due(n) == n - (n % SaveEvery)
Paid == rowTick + SaveEvery * hist.fails

\* A save writes the present tick, and only the present tick is broadcast.
LoopSaves ==
  \A g \in Gens :
    /\ loop[g].at \in {"save", "commit", "notify"} => loop[g].data = tick
    /\ loop[g].at = "commit" => loop[g].saved = tick
CallSaves == \A c \in Callers : call[c].at = "commit" => call[c].saved = tick

\* A call that waits for a refresh loop finds the tasks where they were.
TasksThere == \A c \in Callers : call[c].at = "refresh" => refTask # NoTasks

\* A world that a call left stopped is saved.
Settled == ~Busy /\ ~running /\ hist.ok => rowTick = tick

\* What was broadcast is paid for, and what is due is at most one save behind.
LastSeen == last <= tick /\ Due(last) <= Paid
Owed == Due(tick) <= Paid + SaveEvery

\* It is behind only while the tick that is due is at work, or a call is.
Between(g) == loop[g].at \in {"save", "commit"} \/ (loop[g].at = "agents" /\ tick % SaveEvery = 0)
Covered == Busy \/ (\E g \in Gens : Between(g)) \/ Due(tick) <= Paid

\* A loop that failed has paid.
FailedPaid ==
  \A c \in Callers :
    (call[c].at = "tick" /\ call[c].waits # 0 /\ loop[call[c].waits].at = "failed") => Due(tick) <= Paid

Accounts ==
  /\ LoopSaves /\ CallSaves /\ TasksThere /\ Settled
  /\ LastSeen /\ Owed /\ Covered /\ FailedPaid
SaveInv == Serial => Accounts
-----------------------------------------------------------------------------
\* Multiples of SaveEvery.
LEMMA DueBounds ==
  ASSUME NEW n \in Nat
  PROVE  Due(n) \in Nat /\ Due(n) <= n /\ n < Due(n) + SaveEvery
<1>1. n % SaveEvery \in 0..(SaveEvery - 1) /\ SaveEvery \in Nat
  BY LifecycleAssumption
<1>2. SaveEvery * (n \div SaveEvery) = n - (n % SaveEvery) /\ n \div SaveEvery \in Nat
  BY LifecycleAssumption
<1>3. n - (n % SaveEvery) \in Nat
  BY <1>1, <1>2
<1> QED BY <1>1, <1>3 DEF Due

LEMMA DueNext ==
  ASSUME NEW n \in Nat
  PROVE  /\ Due(n + 1) <= Due(n) + SaveEvery
         /\ (n + 1) % SaveEvery # 0 => Due(n + 1) = Due(n)
<1> DEFINE q == n \div SaveEvery  r == (n + 1) \div SaveEvery  m == (n + 1) % SaveEvery
<1>1. /\ q \in Nat /\ r \in Nat /\ m \in 0..(SaveEvery - 1) /\ SaveEvery \in Nat \ {0}
      /\ Due(n) = SaveEvery * q /\ Due(n + 1) = SaveEvery * r /\ n + 1 = SaveEvery * r + m
  BY LifecycleAssumption DEF Due
<1>2. Due(n) <= n /\ n < Due(n) + SaveEvery /\ Due(n) \in Nat /\ Due(n + 1) \in Nat
  BY DueBounds
<1>3. n + 1 = Due(n + 1) + m
  BY <1>1
<1> HIDE DEF q, r, m
<1>4. Due(n + 1) <= Due(n) + SaveEvery
  BY <1>1, <1>2, <1>3
<1>5. ASSUME m # 0 PROVE Due(n + 1) = Due(n)
  <2>1. Due(n + 1) < Due(n) + SaveEvery /\ Due(n) < Due(n + 1) + SaveEvery
    BY <1>1, <1>2, <1>3, <1>5
  <2>2. SaveEvery * r < SaveEvery * (q + 1) /\ SaveEvery * q < SaveEvery * (r + 1)
    BY <1>1, <2>1
  <2>3. r < q + 1 /\ q < r + 1
    BY <1>1, <2>2
  <2> QED BY <1>1, <2>3
<1> QED BY <1>4, <1>5 DEF m

LEMMA Numbers ==
  ASSUME TypeOK
  PROVE  /\ tick \in Nat /\ rowTick \in Nat /\ last \in Nat /\ hist.fails \in Nat
         /\ Paid \in Nat /\ rowTick <= Paid /\ SaveEvery \in Nat \ {0}
<1>0. TickType /\ HistType
  BY TypeParts
<1>1. tick \in Nat /\ rowTick \in Nat /\ last \in Nat /\ hist.fails \in Nat
  <2>1. tick \in Nat /\ rowTick \in Nat /\ last \in Nat
    BY <1>0, Bounds DEF TickType
  <2>2. hist.fails \in 0..MaxFails
    BY <1>0 DEF HistType
  <2> QED BY <2>1, <2>2, LifecycleAssumption
<1>2. SaveEvery * hist.fails \in Nat
  BY <1>1, LifecycleAssumption
<1> QED BY <1>1, <1>2, LifecycleAssumption DEF Paid

LEMMA NumbersNext ==
  ASSUME TypeOK'
  PROVE  /\ tick' \in Nat /\ rowTick' \in Nat /\ last' \in Nat /\ hist'.fails \in Nat
         /\ Paid' \in Nat /\ rowTick' <= Paid'
<1>0. TickType' /\ HistType'
  BY TypeParts
<1>1. tick' \in Nat /\ rowTick' \in Nat /\ last' \in Nat /\ hist'.fails \in Nat
  <2>1. tick' \in Nat /\ rowTick' \in Nat /\ last' \in Nat
    BY <1>0, Bounds DEF TickType
  <2>2. hist'.fails \in 0..MaxFails
    BY <1>0 DEF HistType
  <2> QED BY <2>1, <2>2, LifecycleAssumption
<1>2. SaveEvery * hist'.fails \in Nat
  BY <1>1, LifecycleAssumption
<1> QED BY <1>1, <1>2 DEF Paid

\* A save of the present tick settles everything.
LEMMA SavedNow ==
  ASSUME TypeOK', rowTick' = tick', last' <= tick'
  PROVE  LastSeen' /\ Owed' /\ Due(tick') <= Paid'
<1>1. Due(tick') <= tick' /\ Due(last') <= last' /\ Due(tick') \in Nat /\ Due(last') \in Nat
  BY DueBounds, NumbersNext
<1> QED BY <1>1, NumbersNext, LifecycleAssumption DEF LastSeen, Owed

\* The price of a failure is what may be owed.
LEMMA Fined ==
  ASSUME TypeOK, TypeOK', LastSeen, Owed, hist'.fails = hist.fails + 1,
         UNCHANGED <<tick, last>>, rowTick' = rowTick
  PROVE  LastSeen' /\ Owed' /\ Due(tick') <= Paid'
<1>1. Due(tick) \in Nat /\ Due(last) \in Nat
  BY DueBounds, Numbers
<1>2. SaveEvery * (hist.fails + 1) = SaveEvery * hist.fails + SaveEvery
  BY Numbers
<1>3. SaveEvery * hist.fails \in Nat
  BY Numbers
<1>4. Paid' = Paid + SaveEvery
  BY <1>2, <1>3, Numbers DEF Paid
<1> QED BY <1>1, <1>4, Numbers DEF LastSeen, Owed

\* What neither ticks, saves, broadcasts nor fails owes the same.
LEMMA SameAccount ==
  ASSUME LastSeen, Owed, UNCHANGED <<tick, last, rowTick>>, hist'.fails = hist.fails
  PROVE  LastSeen' /\ Owed' /\ Paid' = Paid
  BY DEF LastSeen, Owed, Paid

LEMMA SaveInit == Init => SaveInv
<1> SUFFICES ASSUME Init PROVE Accounts
  BY DEF SaveInv
<1>1. Due(0) = 0 /\ SaveEvery \in Nat \ {0} /\ MaxFails \in Nat
  BY DueBounds, LifecycleAssumption
<1>2. LoopSaves /\ CallSaves /\ TasksThere /\ Settled /\ FailedPaid
  BY Bounds DEF Init, LoopSaves, CallSaves, TasksThere, Settled, FailedPaid, FirstLoops, Loop, Idle
<1>3. tick = 0 /\ last = 0 /\ rowTick = 0 /\ Paid = 0
  BY <1>1 DEF Init, Paid
<1> QED BY <1>1, <1>2, <1>3 DEF Accounts, LastSeen, Owed, Covered

\* A loop that moves is the heartbeat: no call is at work, and no other loop.
LEMMA LoopAlone ==
  ASSUME HeartInv, NEW g \in Gens, LoopStep(g) \/ TickFails(g), Serial'
  PROVE  /\ Serial /\ running /\ running' /\ ~Busy /\ ~Busy'
         /\ \A h \in Gens \ {g} : loop[h].at \in Dead /\ loop'[h].at \in Dead
<1>1. TypeOK
  BY DEF HeartInv
<1>2. UNCHANGED <<running, call>> /\ Serial /\ Alive(g) /\ \A h \in Gens \ {g} : loop'[h] = loop[h]
  BY <1>1, LoopEffects DEF Serial
<1>3. OneBusy /\ BusyStops /\ Beats
  BY <1>2 DEF HeartInv
<1>4. running /\ ~Busy /\ \A h \in Gens \ {g} : ~Alive(h)
  BY <1>2, <1>3 DEF BusyStops, Beats, Busy
<1> QED BY <1>2, <1>4 DEF Alive, Busy

\* The tick loop keeps the accounts.
LEMMA SaveLoop ==
  ASSUME HeartInv, TypeOK', SaveInv, NEW g \in Gens, LoopStep(g) \/ TickFails(g), Serial'
  PROVE  Accounts'
<1>0. TypeOK /\ LoopType /\ TickType /\ HistType /\ HistType'
  BY TypeParts DEF HeartInv
<1>1. /\ Serial /\ running /\ running' /\ ~Busy /\ ~Busy'
      /\ \A h \in Gens \ {g} : loop[h].at \in Dead /\ loop'[h].at \in Dead
  BY LoopAlone
<1>2. LoopSaves /\ LastSeen /\ Owed /\ Covered
  BY <1>1 DEF SaveInv, Accounts
<1>3. CallSaves' /\ TasksThere' /\ FailedPaid' /\ Settled'
  BY <1>1 DEF CallSaves, TasksThere, FailedPaid, Settled, Busy
<1>4. \A h \in Gens : Between(h) => h = g
  BY <1>1 DEF Between, Dead
<1>5. /\ tick \in Nat /\ Due(tick) \in Nat /\ Due(last) \in Nat /\ last \in Nat /\ Paid \in Nat
      /\ SaveEvery \in Nat
  BY <1>0, Numbers, DueBounds
<1> SUFFICES LoopSaves' /\ LastSeen' /\ Owed' /\ (Between(g)' \/ Due(tick') <= Paid')
  BY <1>3 DEF Accounts, Covered
<1>6. ASSUME loop'[g].at \in {"save", "commit", "notify"} => loop'[g].data = tick',
             loop'[g].at = "commit" => loop'[g].saved = tick'
      PROVE  LoopSaves'
  BY <1>1, <1>6 DEF LoopSaves, Dead
<1>7. CASE TickBegin(g)
  <2>1. tick' = tick + 1 /\ loop'[g].at = "agents" /\ UNCHANGED <<rowTick, last, hist>>
    BY <1>0, <1>1, <1>7 DEF TickBegin, LoopType
  <2>2. Due(tick) <= Paid /\ Paid' = Paid
    BY <1>1, <1>2, <1>4, <1>7, <2>1 DEF Covered, Between, TickBegin, Paid
  <2>3. /\ Due(tick') <= Due(tick) + SaveEvery
        /\ tick' % SaveEvery # 0 => Due(tick') = Due(tick)
    BY <1>5, <2>1, DueNext
  <2>4. Due(tick') \in Nat
    BY <1>5, <2>1, DueBounds
  <2>5. LastSeen' /\ Owed'
    BY <1>2, <1>5, <2>1, <2>2, <2>3, <2>4 DEF LastSeen, Owed
  <2>6. Between(g)' \/ Due(tick') <= Paid'
    BY <2>1, <2>2, <2>3 DEF Between
  <2> QED BY <1>6, <2>1, <2>5, <2>6
<1>8. CASE AgentPhase(g)
  <2>1. /\ loop'[g].at = IF tick % SaveEvery = 0 THEN "save" ELSE "notify"
        /\ loop'[g].data = tick /\ UNCHANGED <<tick, rowTick, last, hist>>
    BY <1>0, <1>8 DEF AgentPhase, LoopType
  <2>2. LastSeen' /\ Owed' /\ Paid' = Paid
    BY <1>2, <2>1, SameAccount
  <2>3. tick % SaveEvery # 0 => Due(tick) <= Paid
    BY <1>1, <1>2, <1>4, <1>8 DEF Covered, Between, AgentPhase
  <2> QED BY <1>6, <2>1, <2>2, <2>3 DEF Between
<1>9. CASE LoopSave(g)
  <2>1. /\ loop'[g].at = "commit" /\ loop'[g].data = tick /\ loop'[g].saved = tick
        /\ UNCHANGED <<tick, rowTick, last, hist>>
    BY <1>0, <1>2, <1>9 DEF LoopSave, LoopType, LoopSaves
  <2>2. LastSeen' /\ Owed'
    BY <1>2, <2>1, SameAccount
  <2> QED BY <1>6, <2>1, <2>2 DEF Between
<1>10. CASE LoopCommit(g)
  <2>1. /\ loop'[g].at = "notify" /\ loop'[g].data = tick /\ rowTick' = tick
        /\ UNCHANGED <<tick, last, hist>>
    BY <1>0, <1>2, <1>10 DEF LoopCommit, LoopType, LoopSaves
  <2>2. LastSeen' /\ Owed' /\ Due(tick') <= Paid'
    BY <1>2, <2>1, SavedNow DEF LastSeen
  <2> QED BY <1>6, <2>1, <2>2
<1>11. CASE Notify(g)
  <2>1. loop'[g].at = "sleep" /\ last' = tick /\ UNCHANGED <<tick, rowTick, hist>>
    BY <1>0, <1>2, <1>11 DEF Notify, LoopType, LoopSaves, Loop
  <2>2. Due(tick) <= Paid /\ Paid' = Paid
    BY <1>1, <1>2, <1>4, <1>11, <2>1 DEF Covered, Between, Notify, Paid
  <2>3. LastSeen' /\ Owed'
    BY <1>2, <1>5, <2>1, <2>2 DEF LastSeen, Owed
  <2> QED BY <1>6, <2>1, <2>2, <2>3
<1>12. CASE TickFails(g)
  <2>1. /\ loop'[g].at = "failed" /\ UNCHANGED <<tick, last>> /\ hist'.fails = hist.fails + 1
        /\ rowTick' = rowTick \/ rowTick' = tick
    BY <1>0, <1>2, <1>12 DEF TickFails, LoopType, Loop, HistType, Interrupted, LoopSaves
  <2>2. CASE rowTick' = rowTick
    BY <1>0, <1>2, <1>6, <2>1, <2>2, Fined
  <2>3. CASE rowTick' = tick
    BY <1>0, <1>2, <1>6, <2>1, <2>3, SavedNow DEF LastSeen
  <2> QED BY <2>1, <2>2, <2>3
<1> QED BY <1>7, <1>8, <1>9, <1>10, <1>11, <1>12 DEF LoopStep

\* A pause begins: what the tick loop was doing is over.
LEMMA SavePause ==
  ASSUME HeartInv, TypeOK', SaveInv, NEW c \in Callers, PauseBegin(c), Serial'
  PROVE  Accounts'
<1>0. TypeOK /\ LoopType /\ CallType /\ TaskType /\ HistType
  BY TypeParts DEF HeartInv
<1>1. Serial /\ ~Busy /\ hist'.fails = hist.fails
  BY <1>0 DEF PauseBegin, Serial, HistType
<1>2. /\ LoopSaves /\ CallSaves /\ TasksThere /\ LastSeen /\ Owed /\ Covered
      /\ \A g \in Gens : Alive(g) => running /\ tickTask = g
  BY <1>1 DEF SaveInv, Accounts, HeartInv, Beats
<1>3. /\ UNCHANGED <<tick, last, refTask>> /\ ~running'
      /\ call'[c].at = "tick" /\ call'[c].waits = tickTask
      /\ \A b \in Callers \ {c} : call'[b].at = "idle"
  BY <1>0, <1>1 DEF PauseBegin, CallType, Busy, tasks
<1>4. Busy' /\ Settled' /\ Covered' /\ CallSaves' /\ TasksThere'
  BY <1>3 DEF Busy, Settled, Covered, CallSaves, TasksThere
<1>5. CASE tickTask # 0 /\ Alive(tickTask)
  <2>1. tickTask \in Gens
    BY <1>0, <1>5, LifecycleAssumption DEF TaskType, Gens
  <2>2. loop' = [loop EXCEPT ![tickTask] = Loop("ended")] /\ rowTick' \in Interrupted(loop[tickTask])
    BY <1>5 DEF PauseBegin
  <2>3. LoopSaves' /\ loop'[tickTask].at = "ended"
    BY <1>0, <1>2, <1>3, <2>1, <2>2 DEF LoopSaves, LoopType, Loop
  <2>4. FailedPaid'
    BY <1>3, <2>3 DEF FailedPaid
  <2>5. rowTick' = rowTick \/ rowTick' = tick
    BY <1>2, <2>1, <2>2 DEF Interrupted, LoopSaves
  <2>6. LastSeen' /\ Owed'
    BY <1>0, <1>1, <1>2, <1>3, <2>5, SameAccount, SavedNow DEF LastSeen
  <2> QED BY <1>4, <2>3, <2>4, <2>6 DEF Accounts
<1>6. CASE ~(tickTask # 0 /\ Alive(tickTask))
  <2>1. UNCHANGED <<loop, rowTick>>
    BY <1>6 DEF PauseBegin
  <2>2. \A g \in Gens : ~Alive(g)
    BY <1>2, <1>6 DEF Gens
  <2>3. Due(tick) <= Paid
    BY <1>1, <1>2, <2>2 DEF Covered, Between, Alive, Dead
  <2>4. LastSeen' /\ Owed' /\ Paid' = Paid
    BY <1>1, <1>2, <1>3, <2>1, SameAccount
  <2>5. LoopSaves' /\ FailedPaid'
    BY <1>2, <1>3, <2>1, <2>3, <2>4 DEF LoopSaves, FailedPaid
  <2> QED BY <1>4, <2>4, <2>5 DEF Accounts
<1> QED BY <1>5, <1>6

\* Where the cancelling of the tasks leaves a call.
LEMMA Cancelled ==
  ASSUME TypeOK, NEW c \in Callers,
         \/ CancelOthers(c)
         \/ CancelRefresh(c, {d \in Domains : refTask[d] # 0})
         \/ refTask # NoTasks /\ CancelRefresh(c, call[c].todo)
  PROVE  /\ call'[c].at \in {"others", "refresh", "save"}
         /\ call'[c].at = "refresh" => refTask' # NoTasks
<1>0. CallType /\ TaskType
  BY TypeParts
<1>1. ASSUME CancelRefresh(c, {d \in Domains : refTask[d] # 0})
      PROVE  /\ call'[c].at \in {"refresh", "save"}
             /\ call'[c].at = "refresh" => refTask' # NoTasks
  BY <1>0, <1>1 DEF CancelRefresh, CallType, NoTasks
<1>2. ASSUME refTask # NoTasks, CancelRefresh(c, call[c].todo)
      PROVE  /\ call'[c].at \in {"refresh", "save"}
             /\ call'[c].at = "refresh" => refTask' # NoTasks
  BY <1>0, <1>2 DEF CancelRefresh, CallType
<1>3. CASE CancelOthers(c)
  BY <1>0, <1>1, <1>3 DEF CancelOthers, CallType
<1> QED BY <1>1, <1>2, <1>3

\* A call at work is alone in a world that has stopped.
LEMMA CallAlone ==
  ASSUME HeartInv, NEW c \in Callers, CallStep(c) \/ CallFails(c), Serial'
  PROVE  /\ Serial /\ ~running /\ ~running' /\ Busy
         /\ \A b \in Callers \ {c} : call[b].at = "idle" /\ call'[b].at = "idle"
         /\ loop' = loop /\ \A g \in Gens : loop[g].at \in Dead
<1>1. TypeOK
  BY DEF HeartInv
<1>2. /\ UNCHANGED <<running, loop>> /\ Serial /\ call[c].at # "idle"
      /\ \A b \in Callers \ {c} : call'[b] = call[b]
  BY <1>1, CallEffects DEF Serial
<1>3. OneBusy /\ BusyStops /\ Beats
  BY <1>2 DEF HeartInv
<1> QED BY <1>2, <1>3 DEF OneBusy, BusyStops, Beats, Busy, Alive

\* A call at work keeps the accounts.
LEMMA SaveCall ==
  ASSUME HeartInv, TypeOK', SaveInv, NEW c \in Callers, CallStep(c) \/ CallFails(c), Serial'
  PROVE  Accounts'
<1>0. TypeOK /\ CallType /\ TickType /\ HistType
  BY TypeParts DEF HeartInv
<1>1. /\ Serial /\ ~running /\ ~running' /\ Busy
      /\ \A b \in Callers \ {c} : call[b].at = "idle" /\ call'[b].at = "idle"
      /\ loop' = loop /\ \A g \in Gens : loop[g].at \in Dead
  BY CallAlone
<1>2. CallSaves /\ TasksThere /\ LastSeen /\ Owed /\ FailedPaid
  BY <1>1 DEF SaveInv, Accounts
<1>3. LoopSaves' /\ \A g \in Gens : ~Between(g)'
  BY <1>1 DEF LoopSaves, Between, Dead
<1>4. ASSUME call'[c].at # "tick",
             call'[c].at = "commit" => call'[c].saved = tick',
             call'[c].at = "refresh" => refTask' # NoTasks,
             call'[c].at = "idle" => Due(tick') <= Paid' /\ (hist'.ok => rowTick' = tick'),
             LastSeen', Owed'
      PROVE  Accounts'
  <2>1. CallSaves' /\ TasksThere' /\ FailedPaid'
    BY <1>1, <1>4 DEF CallSaves, TasksThere, FailedPaid
  <2>2. Settled' /\ Covered'
    BY <1>1, <1>4 DEF Settled, Covered, Busy
  <2> QED BY <1>3, <1>4, <2>1, <2>2 DEF Accounts
<1>5. ASSUME UNCHANGED <<tick, last, rowTick, hist>> PROVE LastSeen' /\ Owed'
  BY <1>2, <1>5, SameAccount
<1>6. Raised.fails = hist.fails /\ ~Raised.ok
  BY <1>0 DEF Raised, HistType
<1>14. [Raised EXCEPT !.fails = hist.fails + 1].fails = hist.fails + 1
       /\ ~[Raised EXCEPT !.fails = hist.fails + 1].ok
  BY <1>0 DEF Raised, HistType
<1>7. CASE TickTaskOver(c)
  <2>1. UNCHANGED <<tick, last, rowTick>> /\ call[c].at = "tick"
    BY <1>7 DEF TickTaskOver
  <2>2. CASE call[c].waits # 0 /\ loop[call[c].waits].at = "failed"
    <3>1. call'[c].at = "idle" /\ hist' = Raised
      BY <1>0, <1>7, <2>2 DEF TickTaskOver, Raise, CallType, Idle
    <3>2. LastSeen' /\ Owed' /\ Paid' = Paid /\ Due(tick) <= Paid
      BY <1>2, <1>6, <2>1, <2>2, <3>1, SameAccount DEF FailedPaid
    <3> QED BY <1>4, <1>6, <2>1, <3>1, <3>2
  <2>3. CASE ~(call[c].waits # 0 /\ loop[call[c].waits].at = "failed")
    <3>1. CancelOthers(c) /\ UNCHANGED hist
      BY <1>7, <2>3 DEF TickTaskOver
    <3> QED BY <1>0, <1>4, <1>5, <2>1, <3>1, Cancelled
  <2> QED BY <2>2, <2>3
<1>8. CASE OthersOver(c)
  <2>1. UNCHANGED <<tick, last, rowTick, hist>> /\ CancelRefresh(c, {d \in Domains : refTask[d] # 0})
    BY <1>8 DEF OthersOver
  <2> QED BY <1>0, <1>4, <1>5, <2>1, Cancelled
<1>9. CASE RefreshOver(c)
  <2>1. refTask # NoTasks
    BY <1>2, <1>9 DEF RefreshOver, TasksThere
  <2>2. UNCHANGED <<tick, last, rowTick, hist>> /\ CancelRefresh(c, call[c].todo)
    BY <1>9, <2>1 DEF RefreshOver
  <2> QED BY <1>0, <1>4, <1>5, <2>1, <2>2, Cancelled
<1>10. CASE CallSave(c)
  <2>1. UNCHANGED <<tick, last, rowTick, hist>> /\ call'[c].at = "commit" /\ call'[c].saved = tick
    BY <1>0, <1>10 DEF CallSave, CallType
  <2> QED BY <1>4, <1>5, <2>1
<1>11. CASE CallCommit(c)
  <2>1. rowTick' = tick
    BY <1>2, <1>11 DEF CallCommit, CallSaves
  <2>2. CASE call' = [call EXCEPT ![c] = Idle] /\ UNCHANGED <<tick, last>>
    <3>1. call'[c].at = "idle"
      BY <1>0, <2>2 DEF CallType, Idle
    <3>2. LastSeen' /\ Owed' /\ Due(tick') <= Paid'
      BY <1>2, <2>1, <2>2, SavedNow DEF LastSeen
    <3> QED BY <1>4, <2>1, <2>2, <3>1, <3>2
  <2>3. CASE tick' = 0 /\ last' = 0 /\ call' = [call EXCEPT ![c] = [Idle EXCEPT !.at = "bootstrap", !.reseeds = TRUE]]
    <3>1. call'[c].at = "bootstrap"
      BY <1>0, <2>3 DEF CallType, Idle
    <3>2. Due(0) = 0
      BY DueBounds
    <3>3. LastSeen' /\ Owed'
      BY <2>3, <3>2, NumbersNext, LifecycleAssumption DEF LastSeen, Owed
    <3> QED BY <1>4, <3>1, <3>3
  <2> QED BY <1>11, <2>2, <2>3 DEF CallCommit
<1>12. CASE Bootstrapped(c)
  <2>1. UNCHANGED <<tick, last, rowTick, hist>> /\ call'[c].at = "save"
    BY <1>0, <1>12 DEF Bootstrapped, CallType
  <2> QED BY <1>4, <1>5, <2>1
<1>13. CASE CallFails(c)
  <2>1. UNCHANGED <<tick, last>> /\ call'[c].at = "idle" /\ (rowTick' = rowTick \/ rowTick' = tick)
    BY <1>0, <1>2, <1>13 DEF CallFails, Raise, CallType, Idle, Interrupted, CallSaves
  <2>2. hist'.fails = hist.fails + 1 /\ ~hist'.ok
    <3>1. hist' = [Raised EXCEPT !.fails = Raised.fails + 1]
      BY <1>13, Zenon DEF CallFails
    <3>2. hist' = [Raised EXCEPT !.fails = hist.fails + 1]
      BY <1>6, <3>1
    <3> QED BY <1>14, <3>2, Zenon
  <2>3. LastSeen' /\ Owed' /\ Due(tick') <= Paid'
    BY <1>0, <1>2, <2>1, <2>2, Fined, SavedNow DEF LastSeen
  <2> QED BY <1>4, <2>1, <2>2, <2>3
<1> QED BY <1>7, <1>8, <1>9, <1>10, <1>11, <1>12, <1>13 DEF CallStep

\* One action at a time.
LEMMA SaveStep == HeartInv /\ HeartInv' /\ SaveInv /\ [Next]_vars => SaveInv'
<1> SUFFICES ASSUME HeartInv, HeartInv', SaveInv, [Next]_vars, Serial' PROVE Accounts'
  BY DEF SaveInv
<1>0. TypeOK /\ TypeOK' /\ LoopType /\ TaskType /\ TickType /\ HistType
  BY TypeParts DEF HeartInv
<1>1. CASE \E g \in Gens : LoopStep(g) \/ TickFails(g)
  BY <1>0, <1>1, SaveLoop
<1>2. CASE \E d \in Domains, g \in Gens : RefreshEnds(d, g)
  <2>1. UNCHANGED <<running, tick, rowTick, loop, call, tickTask, refTask, gen, last, hist>>
    BY <1>2 DEF RefreshEnds
  <2>2. Accounts
    BY <2>1 DEF SaveInv, Serial
  <2>3. LoopSaves' /\ CallSaves' /\ TasksThere' /\ Settled' /\ FailedPaid'
    BY <2>1, <2>2 DEF Accounts, LoopSaves, CallSaves, TasksThere, Settled, FailedPaid, Busy, Paid
  <2>4. LastSeen' /\ Owed' /\ Covered'
    BY <2>1, <2>2, SameAccount DEF Accounts, Covered, Between, Busy
  <2> QED BY <2>3, <2>4 DEF Accounts
<1>3. CASE \E c \in Callers : PauseBegin(c)
  BY <1>0, <1>3, SavePause
<1>4. CASE \E c \in Callers : CallStep(c) \/ CallFails(c)
  BY <1>0, <1>4, SaveCall
<1>5. CASE Start
  <2>1. /\ Serial /\ ~Busy /\ hist'.fails = hist.fails
    BY <1>0, <1>5 DEF Start, Serial, HistType
  <2>2. \A g \in Gens : ~Alive(g)
    BY <1>5, <2>1 DEF HeartInv, Beats, Start
  <2>3. Accounts
    BY <2>1 DEF SaveInv
  <2>4. UNCHANGED <<tick, rowTick, call, last>> /\ running'
    BY <1>5 DEF Start
  <2>5. LastSeen' /\ Owed' /\ Paid' = Paid
    BY <2>1, <2>3, <2>4, SameAccount DEF Accounts
  <2>6. Due(tick) <= Paid
    BY <2>1, <2>2, <2>3 DEF Accounts, Covered, Between, Alive, Dead
  <2>7. \A c \in Callers : call'[c].at = "idle"
    BY <2>1, <2>4 DEF Busy
  <2>8. \A g \in Gens : loop'[g].at \in Dead \cup {"new"}
    BY <1>0, <1>5, <2>2 DEF Start, LoopType, Alive
  <2>9. LoopSaves' /\ CallSaves' /\ TasksThere' /\ Settled' /\ FailedPaid'
    BY <2>4, <2>7, <2>8 DEF LoopSaves, CallSaves, TasksThere, Settled, FailedPaid, Dead
  <2> QED BY <2>4, <2>5, <2>6, <2>9 DEF Accounts, Covered
<1>6. CASE Restart
  <2>1. /\ running' /\ tick' = rowTick /\ last' = 0 /\ rowTick' = rowTick
        /\ \A c \in Callers : call'[c].at = "idle"
        /\ \A g \in Gens : loop'[g].at \in {"new", "unborn"}
    BY <1>6 DEF Restart, FirstLoops, Loop, Idle
  <2>2. LoopSaves' /\ CallSaves' /\ TasksThere' /\ Settled' /\ FailedPaid'
    BY <2>1 DEF LoopSaves, CallSaves, TasksThere, Settled, FailedPaid
  <2>3. LastSeen' /\ Owed' /\ Due(tick') <= Paid'
    BY <1>0, <2>1, NumbersNext, SavedNow
  <2> QED BY <2>2, <2>3 DEF Accounts, Covered
<1>7. CASE UNCHANGED vars
  <2>1. UNCHANGED <<running, tick, rowTick, loop, call, tickTask, refTask, last, hist>>
    BY <1>7 DEF vars, tasks
  <2>2. Accounts
    BY <2>1 DEF SaveInv, Serial
  <2>3. LoopSaves' /\ CallSaves' /\ TasksThere' /\ Settled' /\ FailedPaid'
    BY <2>1, <2>2 DEF Accounts, LoopSaves, CallSaves, TasksThere, Settled, FailedPaid, Busy, Paid
  <2>4. LastSeen' /\ Owed' /\ Covered'
    BY <2>1, <2>2, SameAccount DEF Accounts, Covered, Between, Busy
  <2> QED BY <2>3, <2>4 DEF Accounts
<1> QED BY <1>1, <1>2, <1>3, <1>4, <1>5, <1>6, <1>7 DEF Next

LEMMA SaveHolds == Spec => [](HeartInv /\ SaveInv)
  BY HeartInit, HeartStep, SaveInit, SaveStep, PTL DEF Spec

\* pause, reset and _save_state: a control call that returned has left a world
\* that nothing advances and whose committed row is the world as it stands.
THEOREM PausedIsDurableHolds == Spec => []PausedIsDurable
<1>1. HeartInv /\ SaveInv => PausedIsDurable
  BY DEF HeartInv, SaveInv, Accounts, Settled, Beats, PausedIsDurable
<1> QED BY <1>1, SaveHolds, PTL

\* tick, its periodic save and the row a restart loads: whatever was broadcast is
\* at most one interval, and one for every failure, ahead of the row.
THEOREM RepeatedTicksBoundedHolds == Spec => []RepeatedTicksBounded
<1>1. HeartInv /\ SaveInv => RepeatedTicksBounded
  <2> SUFFICES ASSUME HeartInv, SaveInv, Serial
               PROVE  last < rowTick + SaveEvery * (1 + hist.fails)
    BY DEF RepeatedTicksBounded
  <2>1. TypeOK /\ Due(last) <= Paid
    BY DEF HeartInv, SaveInv, Accounts, LastSeen
  <2>2. last < Due(last) + SaveEvery /\ Due(last) \in Nat
    BY <2>1, DueBounds, Numbers
  <2>3. SaveEvery * (1 + hist.fails) = SaveEvery + SaveEvery * hist.fails
        /\ SaveEvery * hist.fails \in Nat
    BY <2>1, Numbers
  <2> QED BY <2>1, <2>2, <2>3, Numbers DEF Paid
<1> QED BY <1>1, SaveHolds, PTL
-----------------------------------------------------------------------------
\* A tick at work is later than what was broadcast.
Unheard ==
  Serial => \A g \in Gens :
    loop[g].at \in {"agents", "save", "commit", "notify"} => last < tick

LEMMA UnheardInit == Init => Unheard
  BY Bounds DEF Init, Unheard, FirstLoops, Loop

\* One action at a time: a loop that moves has last <= tick, the others are not
\* alive, and calls neither tick nor broadcast while a loop is alive.
LEMMA UnheardStep ==
  HeartInv /\ HeartInv' /\ SaveInv /\ Unheard /\ [Next]_vars =>
    /\ Unheard'
    /\ \A g \in Gens : (loop[g].at = "notify" /\ loop'[g].at = "sleep") =>
         last' > last \/ hist.overlapped
<1> DEFINE Later == \A g \in Gens : (loop[g].at = "notify" /\ loop'[g].at = "sleep") =>
                      last' > last \/ hist.overlapped
<1> SUFFICES ASSUME HeartInv, HeartInv', SaveInv, Unheard, [Next]_vars PROVE Unheard' /\ Later
  OBVIOUS
<1>0. /\ TypeOK /\ LoopType /\ TaskType /\ TickType /\ HistType
      /\ tick \in Nat /\ last \in Nat
  BY TypeParts, Numbers DEF HeartInv
<1>1. ASSUME NEW g \in Gens, LoopStep(g) \/ TickFails(g) PROVE Unheard' /\ Later
  <2>1. hist'.overlapped = hist.overlapped /\ \A h \in Gens \ {g} : loop'[h] = loop[h]
    BY <1>0, <1>1, LoopEffects
  <2> SUFFICES ASSUME Serial PROVE Unheard' /\ Later
    BY <1>0, <2>1 DEF Unheard, Serial, HistType
  <2>2. /\ Serial' /\ last <= tick /\ LoopSaves
        /\ \A h \in Gens \ {g} : loop[h].at \in Dead /\ loop'[h].at \in Dead
    BY <1>1, <2>1, LoopAlone DEF Serial, SaveInv, Accounts, LastSeen
  <2>3. loop[g].at \in {"agents", "save", "commit", "notify"} => last < tick
    BY DEF Unheard
  <2>4. CASE TickBegin(g)
    BY <1>0, <2>2, <2>4 DEF TickBegin, LoopType, Unheard, Dead, Loop
  <2>5. CASE AgentPhase(g) \/ LoopSave(g) \/ LoopCommit(g) \/ TickFails(g)
    <3>1. UNCHANGED <<tick, last>> /\ last < tick
      BY <2>3, <2>5 DEF AgentPhase, LoopSave, LoopCommit, TickFails
    <3>2. loop[g].at # "notify"
      BY <2>5 DEF AgentPhase, LoopSave, LoopCommit, TickFails
    <3> QED BY <2>2, <3>1, <3>2 DEF Unheard, Dead
  <2>6. CASE Notify(g)
    BY <1>0, <2>2, <2>3, <2>6 DEF Notify, LoopType, LoopSaves, Unheard, Dead, Loop
  <2> QED BY <1>1, <2>4, <2>5, <2>6 DEF LoopStep
<1>2. CASE UNCHANGED <<tick, loop, last, hist>>
  BY <1>2 DEF Unheard, Serial
<1>3. ASSUME NEW c \in Callers, PauseBegin(c) PROVE Unheard' /\ Later
  <2>1. UNCHANGED <<tick, last>> /\ (Serial' => Serial)
    BY <1>0, <1>3 DEF PauseBegin, Serial, HistType
  <2>2. \A g \in Gens : loop'[g] = loop[g] \/ loop'[g].at = "ended"
    <3>1. tickTask \in Gens \cup {0}
      BY <1>0, LifecycleAssumption DEF TaskType, Gens
    <3> QED BY <1>0, <1>3, <3>1 DEF PauseBegin, LoopType, Loop
  <2> QED BY <2>1, <2>2 DEF Unheard
<1>4. ASSUME NEW c \in Callers, CallStep(c) \/ CallFails(c) PROVE Unheard' /\ Later
  <2>1. loop' = loop /\ hist'.overlapped = hist.overlapped
    BY <1>0, <1>4, CallEffects
  <2>2. ASSUME Serial' PROVE \A g \in Gens : loop'[g].at \in Dead
    BY <1>4, <2>1, <2>2, CallAlone
  <2> QED BY <1>0, <2>1, <2>2 DEF Unheard, Dead
<1>5. CASE Start
  <2>1. UNCHANGED <<tick, last>> /\ (Serial' => Serial)
    BY <1>0, <1>5 DEF Start, Serial, HistType
  <2>2. \A g \in Gens : loop'[g] = loop[g] \/ loop'[g].at = "new"
    BY <1>0, <1>5 DEF Start, LoopType
  <2> QED BY <2>1, <2>2 DEF Unheard
<1>6. CASE Restart
  <2>1. \A g \in Gens : loop'[g].at \in {"new", "unborn"}
    BY <1>6 DEF Restart, FirstLoops, Loop
  <2> QED BY <2>1 DEF Unheard
<1> QED BY <1>1, <1>2, <1>3, <1>4, <1>5, <1>6 DEF Next, vars, RefreshEnds

\* _notify_tick: listeners hear of ticks in increasing order until a reset or a
\* crash, across pauses, failed ticks, failed saves and restarts of the loop.
THEOREM BroadcastsIncreaseHolds == Spec => BroadcastsIncrease
<1>1. Spec => []Unheard
  BY SaveHolds, UnheardInit, UnheardStep, PTL DEF Spec
<1>2. HeartInv /\ HeartInv' /\ SaveInv /\ Unheard /\ [Next]_vars =>
        [\A g \in Gens : (loop[g].at = "notify" /\ loop'[g].at = "sleep") =>
           last' > last \/ hist.overlapped]_vars
  BY UnheardStep
<1> QED BY <1>1, <1>2, SaveHolds, PTL DEF Spec, BroadcastsIncrease
-----------------------------------------------------------------------------
\* Refresh loops of d that no reference holds, and all of them.  A domain is done
\* with once a call has cancelled the loop the reference held.
Left(d) == Cardinality(refresh[d] \ {refTask[d]})
Polled(d) == Cardinality(refresh[d])
Done(d) ==
  \/ refTask[d] = 0
  \/ ~running /\ ~Busy
  \/ \E c \in Callers : \/ call[c].at = "refresh" /\ d \notin call[c].todo
                        \/ call[c].at \in {"save", "commit", "bootstrap"}

LeftInv ==
  Serial => \A d \in Domains :
    Left(d) <= hist.raised /\ (Done(d) => Polled(d) <= hist.raised)

LEMMA Removed ==
  ASSUME NEW n \in Nat, NEW R \in SUBSET (1..n), NEW t
  PROVE  /\ IsFiniteSet(R) /\ IsFiniteSet(R \ {t})
         /\ Cardinality(R) \in Nat /\ Cardinality(R \ {t}) \in Nat
         /\ Cardinality(R \ {t}) <= Cardinality(R) /\ Cardinality(R) <= Cardinality(R \ {t}) + 1
<1>1. IsFiniteSet(1..n)
  BY FS_Interval
<1>2. IsFiniteSet(R)
  BY <1>1, FS_Subset
<1>3. /\ IsFiniteSet(R \ {t})
      /\ Cardinality(R \ {t}) = IF t \in R THEN Cardinality(R) - 1 ELSE Cardinality(R)
  BY <1>2, FS_RemoveElement
<1>4. Cardinality(R) \in Nat /\ Cardinality(R \ {t}) \in Nat
  BY <1>2, <1>3, FS_CardinalityType
<1> QED BY <1>2, <1>3, <1>4

LEMMA Counts ==
  ASSUME TypeOK, NEW d \in Domains
  PROVE  /\ Left(d) \in Nat /\ Polled(d) \in Nat
         /\ Left(d) <= Polled(d) /\ Polled(d) <= Left(d) + 1
         /\ \A S \in SUBSET refresh[d] :
              Cardinality(S) <= Polled(d) /\ Cardinality(S \ {refTask[d]}) <= Left(d)
<1>1. refresh[d] \in SUBSET (1..gen) /\ gen \in Nat
  BY TypeParts, Bounds DEF TaskType
<1>2. IsFiniteSet(refresh[d]) /\ IsFiniteSet(refresh[d] \ {refTask[d]})
  BY <1>1, Removed
<1>3. ASSUME NEW S \in SUBSET refresh[d]
      PROVE  Cardinality(S) <= Polled(d) /\ Cardinality(S \ {refTask[d]}) <= Left(d)
  <2>1. S \ {refTask[d]} \in SUBSET (refresh[d] \ {refTask[d]})
    OBVIOUS
  <2> QED BY <1>2, <2>1, FS_Subset DEF Left, Polled
<1> QED BY <1>1, <1>3, Removed DEF Left, Polled

LEMMA CountsNext ==
  ASSUME TypeOK', NEW d \in Domains
  PROVE  /\ Left(d)' \in Nat /\ Polled(d)' \in Nat
         /\ Left(d)' <= Polled(d)' /\ Polled(d)' <= Left(d)' + 1
<1>1. refresh'[d] \in SUBSET (1..gen') /\ gen' \in Nat
  BY TypeParts, Bounds DEF TaskType
<1> QED BY <1>1, Removed DEF Left, Polled

LEMMA LeftInit == Init => LeftInv
<1> SUFFICES ASSUME Init, NEW d \in Domains PROVE Left(d) <= hist.raised /\ ~Done(d)
  BY DEF LeftInv
<1>1. refresh[d] \ {refTask[d]} = {} /\ hist.raised = 0
  BY DEF Init
<1>2. ~Done(d)
  BY DEF Init, Done, Idle
<1> QED BY <1>1, <1>2, FS_EmptySet DEF Left

\* What cancels a loop keeps the count.
LEMMA LeftCancel ==
  ASSUME HeartInv, TypeOK', LeftInv, Serial, NEW c \in Callers, call[c].at # "idle",
         UNCHANGED <<running, hist, gen>>,
         \/ CancelOthers(c)
         \/ CancelRefresh(c, {d \in Domains : refTask[d] # 0})
         \/ call[c].at = "refresh" /\ CancelRefresh(c, call[c].todo)
  PROVE  LeftInv'
<1>0. TypeOK /\ CallType /\ TaskType /\ HistType
  BY TypeParts DEF HeartInv
<1>1. \A b \in Callers \ {c} : call[b].at = "idle"
  BY DEF HeartInv, OneBusy
<1>2. \A d \in Domains : Left(d) <= hist.raised /\ (Done(d) => Polled(d) <= hist.raised)
  BY DEF LeftInv
<1> SUFFICES ASSUME NEW d \in Domains
             PROVE  Left(d)' <= hist.raised /\ (Done(d)' => Polled(d)' <= hist.raised)
  BY DEF LeftInv
<1>3. /\ Left(d) \in Nat /\ Polled(d) \in Nat /\ hist.raised \in Nat
      /\ Left(d) <= Polled(d) /\ Polled(d) <= Left(d) + 1
      /\ Left(d)' \in Nat /\ Polled(d)' \in Nat
      /\ Left(d)' <= Polled(d)' /\ Polled(d)' <= Left(d)' + 1
  BY <1>0, Counts, CountsNext DEF HistType
<1>4. ASSUME NEW L \in SUBSET Domains, CancelRefresh(c, L), d \notin L => Polled(d) <= hist.raised
      PROVE  Left(d)' <= hist.raised /\ (Done(d)' => Polled(d)' <= hist.raised)
  <2>1. CASE L = {}
    <3>1. Polled(d) <= hist.raised
      BY <1>4, <2>1
    <3>2. refresh' = refresh
      BY <1>4, <2>1 DEF CancelRefresh
    <3> QED BY <1>3, <3>1, <3>2 DEF Polled
  <2>2. ASSUME NEW e \in L,
               call' = [call EXCEPT ![c].at = "refresh", ![c].todo = L \ {e}],
               refresh' = [refresh EXCEPT ![e] = @ \ {refTask[e]}], refTask' = refTask
        PROVE  Left(d)' <= hist.raised /\ (Done(d)' => Polled(d)' <= hist.raised)
    <3>1. CASE d = e
      <4>1. refresh'[d] = refresh[d] \ {refTask[d]}
        BY <1>0, <2>2, <3>1 DEF TaskType
      <4>2. Polled(d)' = Left(d)
        BY <4>1 DEF Polled, Left
      <4> QED BY <1>2, <1>3, <4>2
    <3>2. CASE d # e /\ d \in L
      <4>1. refresh'[d] = refresh[d] /\ Left(d)' = Left(d) /\ Polled(d)' = Polled(d)
        BY <1>0, <2>2, <3>2 DEF TaskType, Left, Polled
      <4>2. ASSUME Done(d)' PROVE Done(d)
        <5>1. call'[c].at = "refresh" /\ call'[c].todo = L \ {e}
              /\ \A b \in Callers \ {c} : call'[b].at = "idle"
          BY <1>0, <1>1, <2>2 DEF CallType
        <5> QED BY <2>2, <3>2, <4>2, <5>1 DEF Done, Busy
      <4> QED BY <1>2, <4>1, <4>2
    <3>3. CASE d \notin L
      <4>1. refresh'[d] = refresh[d]
        BY <1>0, <2>2, <3>3 DEF TaskType
      <4> QED BY <1>3, <1>4, <3>3, <4>1 DEF Polled
    <3> QED BY <3>1, <3>2, <3>3
  <2> QED BY <1>4, <2>1, <2>2 DEF CancelRefresh
<1>5. ASSUME CancelRefresh(c, {x \in Domains : refTask[x] # 0})
      PROVE  Left(d)' <= hist.raised /\ (Done(d)' => Polled(d)' <= hist.raised)
  <2>1. refTask[d] = 0 => Polled(d) <= hist.raised
    BY <1>2 DEF Done
  <2> QED BY <1>4, <1>5, <2>1
<1>6. CASE call[c].at = "refresh" /\ CancelRefresh(c, call[c].todo)
  <2>1. call[c].todo \in SUBSET Domains /\ (d \notin call[c].todo => Polled(d) <= hist.raised)
    BY <1>0, <1>2, <1>6 DEF Done, CallType
  <2> QED BY <1>4, <1>6, <2>1
<1>7. ASSUME call' = [call EXCEPT ![c].at = "others"], UNCHANGED <<refTask, refresh>>
      PROVE  Left(d)' <= hist.raised /\ (Done(d)' => Polled(d)' <= hist.raised)
  <2>1. call'[c].at = "others" /\ \A b \in Callers \ {c} : call'[b].at = "idle"
    BY <1>0, <1>1, <1>7 DEF CallType
  <2>2. Done(d)' => Done(d)
    BY <1>7, <2>1 DEF Done, Busy
  <2> QED BY <1>2, <1>7, <2>2 DEF Left, Polled
<1> QED BY <1>5, <1>6, <1>7 DEF CancelOthers

\* One action at a time.
LEMMA LeftStep == HeartInv /\ HeartInv' /\ LeftInv /\ [Next]_vars => LeftInv'
<1> SUFFICES ASSUME HeartInv, HeartInv', LeftInv, [Next]_vars, Serial'
             PROVE  \A d \in Domains : Left(d)' <= hist'.raised
                                       /\ (Done(d)' => Polled(d)' <= hist'.raised)
  BY DEF LeftInv
<1>0. TypeOK /\ TypeOK' /\ CallType /\ TaskType /\ TaskType' /\ HistType /\ hist.raised \in Nat
  BY TypeParts DEF HeartInv, HistType
<1> DEFINE Kept == \A d \in Domains : Left(d)' <= hist'.raised
                                      /\ (Done(d)' => Polled(d)' <= hist'.raised)
<1>1. Serial => \A d \in Domains : Left(d) <= hist.raised /\ (Done(d) => Polled(d) <= hist.raised)
  BY DEF LeftInv
<1>2. \A d \in Domains :
        /\ Left(d) \in Nat /\ Polled(d) \in Nat /\ Left(d) <= Polled(d) /\ Polled(d) <= Left(d) + 1
        /\ Left(d)' \in Nat /\ Polled(d)' \in Nat /\ Left(d)' <= Polled(d)' /\ Polled(d)' <= Left(d)' + 1
  BY <1>0, Counts, CountsNext
<1>3. ASSUME UNCHANGED <<running, call, refTask, refresh>>, hist'.raised = hist.raised, Serial
      PROVE  Kept
  BY <1>1, <1>3 DEF Left, Polled, Done, Busy
<1>4. ASSUME NEW g \in Gens, LoopStep(g) \/ TickFails(g) PROVE Kept
  <2>1. UNCHANGED <<running, call, tasks>> /\ Serial
    BY <1>0, <1>4, LoopEffects DEF Serial
  <2>2. hist'.raised = hist.raised
    BY <1>0, <1>4 DEF LoopStep, TickBegin, AgentPhase, LoopSave, LoopCommit, Notify, TickFails, HistType
  <2> QED BY <1>3, <2>1, <2>2 DEF tasks
<1>5. ASSUME NEW d \in Domains, NEW g \in Gens, RefreshEnds(d, g) PROVE Kept
  <2>1. UNCHANGED <<running, call, refTask, hist>> /\ Serial
    BY <1>5 DEF RefreshEnds, Serial
  <2>2. refresh' = [refresh EXCEPT ![d] = @ \ {g}]
    BY <1>5 DEF RefreshEnds
  <2> SUFFICES ASSUME NEW e \in Domains
               PROVE  Left(e)' <= hist'.raised /\ (Done(e)' => Polled(e)' <= hist'.raised)
    OBVIOUS
  <2>3. refresh'[e] \in SUBSET refresh[e]
    BY <1>0, <2>2 DEF TaskType
  <2>4. Polled(e)' <= Polled(e) /\ Left(e)' <= Left(e)
    BY <1>0, <2>1, <2>3, Counts DEF Polled, Left
  <2>5. Done(e)' => Done(e)
    BY <2>1 DEF Done, Busy
  <2> QED BY <1>0, <1>1, <1>2, <2>1, <2>4, <2>5
<1>6. ASSUME NEW c \in Callers, PauseBegin(c) PROVE Kept
  <2>1. Serial /\ ~Busy /\ hist'.raised = hist.raised /\ UNCHANGED <<refTask, refresh>>
    BY <1>0, <1>6 DEF PauseBegin, Serial, HistType, tasks
  <2>2. call'[c].at = "tick" /\ \A b \in Callers \ {c} : call'[b].at = "idle"
    BY <1>0, <1>6, <2>1 DEF PauseBegin, CallType, Busy
  <2>3. \A d \in Domains : Done(d)' => Done(d)
    BY <2>1, <2>2 DEF Done, Busy
  <2> QED BY <1>1, <2>1, <2>3 DEF Left, Polled
<1>7. ASSUME NEW c \in Callers, CallStep(c) \/ CallFails(c) PROVE Kept
  <2>1. /\ Serial /\ ~running /\ ~running' /\ Busy
        /\ \A b \in Callers \ {c} : call[b].at = "idle" /\ call'[b].at = "idle"
    BY <1>7, CallAlone
  <2>2. call[c].at # "idle" /\ UNCHANGED <<running, gen>>
    BY <1>0, <1>7, CallEffects
  <2>3. ASSUME UNCHANGED <<refTask, refresh>>, hist'.raised = hist.raised + 1 PROVE Kept
    <3>1. \A d \in Domains : Left(d)' = Left(d) /\ Polled(d)' = Polled(d)
      BY <2>3 DEF Left, Polled
    <3> QED BY <1>0, <1>1, <1>2, <2>1, <2>3, <3>1
  <2>4. ASSUME UNCHANGED <<refTask, refresh>>, hist'.raised = hist.raised,
               \A d \in Domains : Done(d)' => Done(d)
        PROVE  Kept
    BY <1>1, <2>1, <2>4 DEF Left, Polled
  <2>5. ASSUME call[c].at \in {"save", "commit", "bootstrap"} PROVE \A d \in Domains : Done(d)
    BY <2>5 DEF Done
  <2>6. hist' = Raised => hist'.raised = hist.raised + 1
    BY <1>0 DEF Raised, HistType
  <2>7. CASE CallFails(c)
    <3>1. UNCHANGED <<refTask, refresh>>
      BY <2>7 DEF CallFails, tasks
    <3>2. [Raised EXCEPT !.fails = Raised.fails + 1].raised = hist.raised + 1
      BY <1>0 DEF Raised, HistType
    <3>3. hist' = [Raised EXCEPT !.fails = Raised.fails + 1]
      BY <2>7, Zenon DEF CallFails
    <3> QED BY <2>3, <3>1, <3>2, <3>3
  <2>8. CASE CallSave(c) \/ CallCommit(c) \/ Bootstrapped(c)
    <3>1. UNCHANGED <<refTask, refresh>> /\ hist'.raised = hist.raised
          /\ call[c].at \in {"save", "commit", "bootstrap"}
      BY <1>0, <2>8 DEF CallSave, CallCommit, Bootstrapped, tasks, HistType
    <3> QED BY <2>4, <2>5, <3>1
  <2>9. CASE TickTaskOver(c) \/ OthersOver(c) \/ RefreshOver(c)
    <3>1. \/ hist' = Raised /\ UNCHANGED <<refTask, refresh>>
          \/ hist' = hist /\ \/ CancelOthers(c)
                             \/ CancelRefresh(c, {d \in Domains : refTask[d] # 0})
                             \/ call[c].at = "refresh" /\ CancelRefresh(c, call[c].todo)
      BY <2>9 DEF TickTaskOver, OthersOver, RefreshOver
    <3> QED BY <1>0, <2>1, <2>2, <2>3, <2>6, <3>1, LeftCancel DEF LeftInv
  <2> QED BY <1>7, <2>7, <2>8, <2>9 DEF CallStep
<1>8. CASE Start
  <2>1. Serial /\ ~Busy /\ ~running /\ hist'.raised = hist.raised
    BY <1>0, <1>8 DEF Start, Serial, HistType
  <2> SUFFICES ASSUME NEW d \in Domains
               PROVE  Left(d)' <= hist'.raised /\ ~Done(d)'
    OBVIOUS
  <2>2. refTask'[d] = gen + 1 /\ refresh'[d] = refresh[d] \cup {gen + 1} /\ gen + 1 # 0 /\ running'
    BY <1>0, <1>8, Bounds DEF Start, TaskType
  <2>3. ~Done(d)'
    BY <1>8, <2>1, <2>2 DEF Done, Start, Busy
  <2>4. refresh'[d] \ {refTask'[d]} \in SUBSET refresh[d]
    BY <2>2
  <2>5. Left(d)' <= Polled(d) /\ Polled(d) <= hist.raised
    BY <1>0, <1>1, <2>1, <2>4, Counts DEF Left, Done
  <2> QED BY <1>0, <1>2, <2>1, <2>3, <2>5
<1>9. CASE Restart
  <2> SUFFICES ASSUME NEW d \in Domains PROVE Left(d)' <= hist'.raised /\ ~Done(d)'
    OBVIOUS
  <2>1. refresh'[d] \ {refTask'[d]} = {} /\ refTask'[d] = 1 /\ running'
        /\ \A c \in Callers : call'[c].at = "idle"
    BY <1>9 DEF Restart, Idle
  <2>2. hist'.raised = 0
    BY <1>0, <1>9 DEF Restart, HistType
  <2> QED BY <2>1, <2>2, FS_EmptySet DEF Left, Done
<1>10. CASE UNCHANGED vars
  BY <1>3, <1>10 DEF vars, tasks, Serial
<1> QED BY <1>4, <1>5, <1>6, <1>7, <1>8, <1>9, <1>10 DEF Next

\* start replaces the references it finds: a refresh loop survives a pause only
\* if a call raised before it came to it, so the loops are counted by the raises.
THEOREM RefreshLoopsCountedHolds == Spec => []RefreshLoopsCounted
<1>1. HeartInv /\ LeftInv => RefreshLoopsCounted
  <2> SUFFICES ASSUME HeartInv, LeftInv, Serial, NEW d \in Domains
               PROVE  Cardinality(refresh[d]) <= 1 + hist.raised
    BY DEF RefreshLoopsCounted
  <2>1. Left(d) <= hist.raised /\ hist.raised \in Nat /\ TypeOK
    BY TypeParts DEF LeftInv, HeartInv, HistType
  <2> QED BY <2>1, Counts DEF Polled
<1>2. Spec => []LeftInv
  BY HeartHolds, LeftInit, LeftStep, PTL DEF Spec
<1> QED BY <1>1, <1>2, HeartHolds, PTL
=============================================================================
