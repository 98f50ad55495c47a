----------------------------- MODULE Resolution -----------------------------
(***************************************************************************)
(* The world's connection to Earth: a background task of the tick resolves *)
(* the places agents are at through the EarthProxy, which asks its         *)
(* adapters under the budget of RateLimiter, stores the answer for TTL     *)
(* seconds in Redis, or in the process without it, and announces it on a   *)
(* stream; the EmbedWorker takes announcements from a consumer group and   *)
(* indexes what Redis then holds in the world semantic layer.              *)
(*                                                                         *)
(* One adapter has a budget; what the others find is part of the outcome   *)
(* of a resolution. Content is a number, given in the order of finding;    *)
(* Blank is an answer without any. A step takes a task from one await to   *)
(* the next; a command that fails, or that the cancellation of its caller  *)
(* leaves in flight, may be applied or not.                                *)
(***************************************************************************)
EXTENDS RateLimiter

CONSTANTS
  TTL,          \* seconds content lives, 600 in the code
  MaxResolving, \* max_concurrent_locations
  Batch,        \* announcements one XREADGROUP takes at most, 32 in the code
  MaxNow,       \* bound: the clock
  MaxVer,       \* bound: answers the adapters give
  MaxAnnounced, \* bound: announcements whose processing is followed
  MaxTrouble    \* bound: commands and services that fail, pauses and crashes

Locs == Callers   \* places, each resolved by one caller at a time

ASSUME ResolutionAssumption ==
  /\ TTL \in Nat \ {0} /\ MaxResolving \in Nat \ {0} /\ Batch \in Nat \ {0}
  /\ MaxAnnounced \in Nat
  /\ MaxNow \in Nat /\ MaxVer \in Nat /\ MaxTrouble \in Nat

VARIABLES
  now,      \* the clock
  task,     \* _resolve_task: "idle", "check", "resolve"
  res,      \* res[l]: the await the resolution of l is at, the content it
            \* holds, and the expiry it announces
  kv,       \* kv[l]: content and expiry time under the key of l in Redis
  entry,    \* entry[l]: content of l in _fallback_entries and when it was put
  stream,   \* the announcements: place and expiry
  group,    \* announcements delivered to the consumer group
  worker,   \* the EmbedWorker: its await, the next announcement of its batch to
            \* work on, and what was read for it
  layer,    \* documents of the semantic layer: place, content, expiry
  running,  \* _running of the world
  faults,   \* failures so far
  hist      \* history, read by the properties and the bounds alone: contents
            \* found, until when each was promised, when the answer of a place
            \* was last stored, places asked again too early and those whose
            \* stored answer could not be read, how often each announcement was
            \* processed, deliveries lost, stops

proxyVars  == <<task, res, kv, entry>>
workerVars == <<group, worker, layer>>
vars == <<limiterVars, now, proxyVars, stream, workerVars, running, faults, hist>>

None     == 0
Blank    == -1
Contents == {Blank} \cup 0..MaxVer
Nothing  == [v |-> None, exp |-> 0]
Off      == [at |-> "off", v |-> None, exp |-> 0]
Fresh    == [at |-> "read", next |-> 0, v |-> None]
Active   == {l \in Locs : res[l].at \notin {"off", "exists", "wait"}}

Init ==
  /\ LimiterInit
  /\ now = 0 /\ task = "idle" /\ running = TRUE
  /\ res = [l \in Locs |-> Off]
  /\ kv = [l \in Locs |-> Nothing]
  /\ entry = [l \in Locs |-> Nothing]
  /\ stream = <<>>
  /\ group = 0
  /\ worker = IF redis THEN Fresh ELSE [Fresh EXCEPT !.at = "stopped"]
  /\ layer = {}
  /\ faults = 0
  /\ hist = [found |-> 0, until |-> [v \in 1..MaxVer |-> 0],
             stored |-> [l \in Locs |-> -TTL], early |-> {}, misread |-> {},
             processed |-> <<>>, lost |-> 0, stops |-> 0]
-----------------------------------------------------------------------------
\* Time, and the two stores.

InProcess(l) == IF entry[l].v # None /\ now - entry[l].exp <= TTL THEN entry[l].v ELSE None

\* _has_key, and the content that _get_facts returns.
HasKey(l)   == IF redis THEN kv[l].v # None ELSE InProcess(l) # None
GetFacts(l) == LET v == IF redis THEN kv[l].v ELSE InProcess(l)
               IN IF v = Blank THEN None ELSE v

\* A second passes; the keys of Redis whose time has come are gone.
Tick ==
  /\ now < MaxNow
  /\ now' = now + 1
  /\ kv' = [l \in Locs |-> IF kv[l].exp > now + 1 THEN kv[l] ELSE Nothing]
  /\ UNCHANGED <<limiterVars, faults, task, res, entry, stream, workerVars, running, hist>>

Trouble == faults + hist.stops < MaxTrouble

\* A command or a service fails.
Fault == Trouble /\ faults' = faults + 1
-----------------------------------------------------------------------------
\* The background task of the tick.

\* A tick finds no task at work and creates one: the places agents are at are
\* looked up together.
ResolveBegins ==
  /\ running /\ task = "idle"
  /\ \E here \in (SUBSET Locs) \ {{}} :
       res' = [l \in Locs |-> IF l \in here THEN [Off EXCEPT !.at = "exists"] ELSE Off]
  /\ task' = "check"
  /\ UNCHANGED <<limiterVars, faults, now, kv, entry, stream, workerVars, running, hist>>

\* Variant: only a place with content counts as resolved.
ResolvedIfContent(l) ==
  /\ res[l].at = "exists"
  /\ res' = [res EXCEPT ![l].at = IF GetFacts(l) # None THEN "off" ELSE "wait"]
  /\ UNCHANGED <<limiterVars, faults, now, task, kv, entry, stream, workerVars, running, hist>>

\* is_location_resolved answers; an EXISTS that raises says no.
IsResolved(l) ==
  /\ res[l].at = "exists"
  /\ \/ /\ res' = [res EXCEPT ![l].at = IF HasKey(l) THEN "off" ELSE "wait"]
        /\ UNCHANGED faults
        /\ UNCHANGED hist
     \/ /\ redis /\ Fault
        /\ res' = [res EXCEPT ![l].at = "wait"]
        /\ hist' = [hist EXCEPT !.misread = @ \cup {l}]
  /\ UNCHANGED <<limiterVars, now, task, kv, entry, stream, workerVars, running>>

\* All are looked up: those not resolved are gathered.
Gathers ==
  /\ task = "check" /\ \A l \in Locs : res[l].at # "exists"
  /\ task' = "resolve"
  /\ UNCHANGED <<limiterVars, faults, now, res, kv, entry, stream, workerVars, running, hist>>

\* Variant: the adapters are asked without the limiter.
LookupUnlimited(l) ==
  /\ res[l].at = "wait" /\ GetFacts(l) = None
  /\ res' = [res EXCEPT ![l].at = "ask"]
  /\ chk' = [chk EXCEPT ![l] = [at |-> "ok", i |-> 1]]
  /\ UNCHANGED <<redis, bucket, faults, now, task, kv, entry, stream, workerVars, running, hist>>

\* A place gets its turn, and resolve_for_location looks for content that is
\* still live; the adapters are asked when there is none. A GET that raises
\* finds nothing.
Lookup(l) ==
  /\ task = "resolve" /\ res[l].at = "wait" /\ Cardinality(Active) < MaxResolving
  /\ \/ /\ GetFacts(l) # None
        /\ res' = [res EXCEPT ![l] = Off]
        /\ UNCHANGED <<chk, faults, hist>>
     \/ /\ GetFacts(l) = None
        /\ res' = [res EXCEPT ![l].at = "ask"]
        /\ chk' = [chk EXCEPT ![l] = Asking]
        /\ UNCHANGED <<faults, hist>>
     \/ /\ redis /\ Fault
        /\ res' = [res EXCEPT ![l].at = "ask"]
        /\ chk' = [chk EXCEPT ![l] = Asking]
        /\ hist' = [hist EXCEPT !.misread = @ \cup {l}]
  /\ UNCHANGED <<redis, bucket, now, task, kv, entry, stream, workerVars, running>>

\* A step of the limiter for the resolution of l.
Limits(l) ==
  /\ \/ CheckStep(l) /\ UNCHANGED faults
     \/ FailOpen(l) /\ Fault
  /\ UNCHANGED <<now, proxyVars, stream, workerVars, running, hist>>

WindowElapses(i) ==
  /\ WindowOver(i)
  /\ UNCHANGED <<faults, now, proxyVars, stream, workerVars, running, hist>>

\* Asked again although an answer is stored that is not TTL seconds old.
Early(l) == IF now < hist.stored[l] + TTL /\ l \notin hist.misread THEN {l} ELSE {}

\* Every adapter has answered, failed, timed out or been denied, and the
\* resolution holds what they found.
Answered(l) ==
  /\ res[l].at = "ask" /\ chk[l].at \in {"ok", "denied"}
  /\ chk' = [chk EXCEPT ![l] = Unasked]
  /\ hist.found < MaxVer
  /\ \E v \in {hist.found + 1, Blank} :
       res' = [res EXCEPT ![l].at = "set", ![l].v = v]
  /\ hist' = [hist EXCEPT !.found = @ + 1, !.early = @ \cup Early(l), !.misread = @ \ {l}]
  /\ UNCHANGED <<redis, bucket, faults, now, task, kv, entry, stream, workerVars, running>>

\* What Redis holds under the key of l once a SET is applied, and until when
\* the contents that the places in L have found are then promised.
Applied(l) == [v |-> res[l].v, exp |-> now + TTL]
Until(L)   == [v \in 1..MaxVer |->
                IF \E l \in L : res[l].v = v THEN now + TTL ELSE hist.until[v]]

\* _set_facts: the SET is applied and answered, and the expiry to announce taken
\* from the same second of the clock; without Redis the entry is put.
Set(l) ==
  /\ res[l].at = "set"
  /\ hist' = [hist EXCEPT !.stored[l] = now, !.until = Until({l})]
  /\ \/ /\ redis
        /\ kv' = [kv EXCEPT ![l] = Applied(l)]
        /\ res' = [res EXCEPT ![l].at = "announce", ![l].exp = now + TTL]
        /\ UNCHANGED entry
     \/ /\ ~redis
        /\ entry' = [entry EXCEPT ![l] = [v |-> res[l].v, exp |-> now]]
        /\ res' = [res EXCEPT ![l] = Off]
        /\ UNCHANGED kv
  /\ UNCHANGED <<limiterVars, faults, now, task, stream, workerVars, running>>

\* The SET raises, applied or not: the entry is put in the process.
SetFails(l) ==
  /\ redis /\ res[l].at = "set" /\ Fault
  /\ entry' = [entry EXCEPT ![l] = [v |-> res[l].v, exp |-> now]]
  /\ res' = [res EXCEPT ![l] = Off]
  /\ \/ UNCHANGED <<kv, hist>>
     \/ /\ kv' = [kv EXCEPT ![l] = Applied(l)]
        /\ hist' = [hist EXCEPT !.stored[l] = now, !.until = Until({l})]
  /\ UNCHANGED <<limiterVars, now, task, stream, workerVars, running>>

Announcement(l) == [loc |-> l, exp |-> res[l].exp]

\* The XADD of _publish_resolved; when it raises the announcement is missing.
Announces(l) ==
  /\ res[l].at = "announce"
  /\ res' = [res EXCEPT ![l] = Off]
  /\ \/ /\ stream' = Append(stream, Announcement(l))
        /\ hist' = [hist EXCEPT !.processed = Append(@, 0)]
        /\ UNCHANGED faults
     \/ Fault /\ UNCHANGED <<stream, hist>>
  /\ UNCHANGED <<limiterVars, now, task, kv, entry, workerVars, running>>

\* Every resolution is over; agents consult the layer, and the task is done.
ResolveEnds ==
  /\ task = "resolve" /\ \A l \in Locs : res[l].at = "off"
  /\ task' = "idle"
  /\ hist' = [hist EXCEPT !.misread = {}]
  /\ UNCHANGED <<limiterVars, faults, now, res, kv, entry, stream, workerVars, running>>
-----------------------------------------------------------------------------
\* The EmbedWorker. Its batch are the announcements from worker.next to group.
\* XACK at the end of a batch only shortens the list of pending deliveries,
\* which nothing reads: both are left out.

\* What one XREADGROUP delivers: all there is up to its count.
Delivered == {n \in (group + 1)..Len(stream) : n <= group + Batch}

\* Variant: a worker that starts takes everything from the beginning.
TakesAll ==
  /\ worker.at = "read" /\ Delivered # {}
  /\ group' = group + Cardinality(Delivered)
  /\ worker' = [at |-> "facts", next |-> IF worker.next = 0 THEN 1 ELSE group + 1, v |-> None]
  /\ UNCHANGED <<limiterVars, faults, now, proxyVars, stream, layer, running, hist>>

\* XREADGROUP delivers announcements that were never delivered before.
Takes ==
  /\ worker.at = "read" /\ Delivered # {}
  /\ group' = group + Cardinality(Delivered)
  /\ worker' = [at |-> "facts", next |-> group + 1, v |-> None]
  /\ UNCHANGED <<limiterVars, faults, now, proxyVars, stream, layer, running, hist>>

\* Variant: an XREADGROUP that raises ends the worker.
TakeEnds ==
  /\ worker.at = "read" /\ Fault
  /\ worker' = [worker EXCEPT !.at = "stopped"]
  /\ UNCHANGED <<limiterVars, now, proxyVars, stream, group, layer, running, hist>>

\* XREADGROUP raises; what it may have delivered is lost to the worker.
TakeFails ==
  /\ worker.at = "read" /\ Fault
  /\ \E D \in {{}, Delivered} :
       /\ group' = group + Cardinality(D)
       /\ hist' = [hist EXCEPT !.lost = @ + Cardinality(D)]
  /\ UNCHANGED <<limiterVars, now, proxyVars, stream, worker, layer, running>>

\* The announcement is done with, for better or worse.
NextDone ==
  /\ worker' = [at |-> IF worker.next = group THEN "read" ELSE "facts",
                next |-> worker.next + 1, v |-> None]
  /\ hist' = [hist EXCEPT !.processed[worker.next] = @ + 1]

\* The facts of the announced place are read back: what Redis holds by now, or
\* nothing when it has expired, is blank, or the GET raises.
ReadsBack ==
  /\ worker.at = "facts"
  /\ LET v == GetFacts(stream[worker.next].loc) IN
     \/ v # None /\ worker' = [worker EXCEPT !.at = "embed", !.v = v] /\ UNCHANGED <<faults, hist>>
     \/ v = None /\ NextDone /\ UNCHANGED faults
     \/ Fault /\ NextDone
  /\ UNCHANGED <<limiterVars, now, proxyVars, stream, group, layer, running>>

\* Variant: a document lives TTL seconds from its indexing.
DocumentAnew == [loc |-> stream[worker.next].loc, v |-> worker.v, exp |-> now + TTL]

Document == [loc |-> stream[worker.next].loc, v |-> worker.v,
             exp |-> stream[worker.next].exp]

\* add_facts: TEI embeds and Chroma upserts, and the document of the same
\* content is replaced; or one of them fails and nothing is written.
Indexes ==
  /\ worker.at = "embed"
  /\ \/ /\ layer' = {d \in layer : d.v # worker.v} \cup {Document}
        /\ UNCHANGED faults
     \/ Fault /\ UNCHANGED layer
  /\ NextDone
  /\ UNCHANGED <<limiterVars, now, proxyVars, stream, group, running>>
-----------------------------------------------------------------------------
\* Stops.

\* All sequences of the members of a set.
Orders(S) == {q \in [1..Cardinality(S) -> S] : \A i, j \in DOMAIN q : q[i] = q[j] => i = j}

\* The task is cancelled: each resolution at its await. Commands in flight are
\* applied or not. Answers stored before are kept where kept says since when.
Cancelled(kept) ==
  /\ Leave(Locs)
  /\ task' = "idle"
  /\ res' = [l \in Locs |-> Off]
  /\ \E S \in SUBSET {l \in Locs : redis /\ res[l].at = "set"},
        T \in SUBSET {l \in Locs : res[l].at = "announce"} :
       \E q \in Orders(T) :
         /\ kv' = [l \in Locs |-> IF l \in S THEN Applied(l) ELSE kv[l]]
         /\ stream' = stream \o [j \in DOMAIN q |-> Announcement(q[j])]
         /\ hist' = [hist EXCEPT !.stops = @ + 1, !.until = Until(S), !.misread = {},
              !.processed = @ \o [j \in DOMAIN q |-> 0],
              !.stored = [l \in Locs |-> IF l \in S THEN now ELSE kept[l]]]
  /\ UNCHANGED faults

\* pause: the task and the worker are cancelled, and start revives only the
\* task.
Pause ==
  /\ running /\ Trouble
  /\ Cancelled(hist.stored)
  /\ running' = FALSE
  /\ worker' = [Fresh EXCEPT !.at = "stopped"]
  /\ UNCHANGED <<now, entry, group, layer>>

Start ==
  /\ ~running
  /\ running' = TRUE
  /\ UNCHANGED <<limiterVars, faults, now, proxyVars, stream, workerVars, hist>>

\* The process dies and starts again, with an empty fallback store, a worker
\* that takes the group up where it was, and counters as Redis has them.
Crash ==
  /\ Trouble
  /\ Cancelled(IF redis THEN hist.stored ELSE [l \in Locs |-> -TTL])
  /\ running' = TRUE
  /\ worker' = IF redis THEN Fresh ELSE [Fresh EXCEPT !.at = "stopped"]
  /\ entry' = [l \in Locs |-> Nothing]
  /\ UNCHANGED <<now, group, layer>>
-----------------------------------------------------------------------------
Resolves(l) ==
  \/ IsResolved(l) \/ Lookup(l) \/ Limits(l) \/ Answered(l)
  \/ Set(l) \/ SetFails(l) \/ Announces(l)

Works == ReadsBack \/ Indexes

Next ==
  \/ Tick \/ ResolveBegins \/ Gathers \/ ResolveEnds
  \/ \E l \in Locs : Resolves(l)
  \/ \E i \in Windows : WindowElapses(i)
  \/ Takes \/ TakeFails \/ Works
  \/ Pause \/ Start \/ Crash

Spec == Init /\ [][Next]_vars

\* A worker that waits for Redis, TEI or Chroma is answered. Nobody has to
\* tick, to resolve, or to start the world again.
Fairness == WF_vars(Takes) /\ WF_vars(Works)

FairSpec == Spec /\ Fairness
-----------------------------------------------------------------------------
Awaits    == {"off", "exists", "wait", "ask", "set", "announce"}
Times     == 0..(MaxNow + TTL)
Stored    == [v : Contents, exp : Times]
Histories == [found : 0..MaxVer, until : [1..MaxVer -> Times], stored : [Locs -> Int],
              early : SUBSET Locs, misread : SUBSET Locs, processed : Seq(Nat),
              lost : Nat, stops : Nat]

\* Shape of the state; the worker at work is at an announcement of its batch.
TypeOK ==
  /\ LimiterTypeOK
  /\ now \in 0..MaxNow /\ faults \in Nat
  /\ task \in {"idle", "check", "resolve"} /\ running \in BOOLEAN
  /\ res \in [Locs -> [at : Awaits, v : Contents, exp : Times]]
  /\ kv \in [Locs -> Stored] /\ entry \in [Locs -> Stored]
  /\ stream \in Seq([loc : Locs, exp : Times])
  /\ group \in 0..Len(stream)
  /\ worker \in [at : {"read", "facts", "embed", "stopped"}, next : Nat, v : Contents]
  /\ worker.at \in {"facts", "embed"} => worker.next \in 1..group
  /\ worker.at = "embed" => worker.v \in 1..MaxVer
  /\ layer \subseteq [loc : Locs, v : 1..MaxVer, exp : Times]
  /\ hist \in Histories
  /\ Len(hist.processed) = Len(stream)

\* An answer that was stored is the answer for TTL seconds, an empty one too:
\* the adapters are asked about its place again only when a read of the store
\* failed, or the process lost a store of its own. Concurrent resolutions,
\* pauses and lost answers of a SET are no excuse.
AskedOncePerTTL == hist.early = {}

\* The work on an announcement is done at most once, across failures, pauses
\* and restarts.
ProcessedOnce == \A n \in 1..Len(stream) : hist.processed[n] <= 1

\* A document of the layer never outlives what was promised of its content,
\* though its content is read back long after its announcement, may have been
\* found by a later resolution, and its expiry comes with the earlier one.
LayerHonest == \A d \in layer : d.exp <= hist.until[d.v]

\* The world's budget is charged through the limiter alone: what resolutions,
\* their cancellation and restarts do to it are steps of RateLimiter.
ChargedThroughLimiter == LimiterSpec

\* Unless the process stops, the worker gets to every announcement that an
\* XREADGROUP has not lost: no failure of Redis, TEI or Chroma ends it.
EveryAnnouncementProcessed ==
  \A n \in 1..MaxAnnounced :
    Len(stream) >= n ~>
      \/ Len(stream) >= n /\ hist.processed[n] > 0
      \/ hist.lost > 0 \/ hist.stops > 0

\* A counter that counts something expires, or a caller is about to see to it:
\* otherwise nothing ever brings the budget back. A call that failed or was
\* cancelled between INCR and EXPIRE is the exception.
BudgetComesBack ==
  \A i \in Windows :
    bucket[i].count > 0 /\ ~bucket[i].expires =>
      Expiring(i) # {} \/ faults > 0 \/ hist.stops > 0

\* rate_limiter.py:115 knows no exception: "Key expires after window_seconds to
\* auto-refill the bucket".
KeyExpires ==
  \A i \in Windows : bucket[i].count > 0 => bucket[i].expires \/ Expiring(i) # {}

\* embed_worker.py:9 of the announcements: "Redis consumer group so the work
\* survives restarts and is processed once".
WorkSurvivesRestarts ==
  \A n \in 1..group :
    hist.processed[n] = 0 /\ hist.lost = 0 /\ worker.at # "stopped" =>
      worker.at \in {"facts", "embed"} /\ worker.next <= n
=============================================================================
