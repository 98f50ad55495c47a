------------------------------ MODULE WtFanout ------------------------------
(***************************************************************************)
(* The broadcast of ticks to WebTransport clients. The process of the      *)
(* world publishes each tick on a Redis stream; every serving process      *)
(* tails the stream with a consumer of its own and sends what it reads to  *)
(* the sessions in its registry. A publication that fails is broadcast in  *)
(* the publishing process directly.                                        *)
(*                                                                         *)
(* Redis is the log of entries and the id of the oldest one it still       *)
(* holds. An XADD may be applied although its answer is lost; an XREAD     *)
(* may fail; the approximate trimming keeps at least MaxLen entries.       *)
(***************************************************************************)
EXTENDS Naturals, Sequences, FiniteSets

CONSTANTS
  Procs,      \* processes that serve clients
  World,      \* the one of them that runs the world
  Conns,      \* QUIC connections
  Sessions,   \* WebTransport sessions of the clients
  None,       \* no session
  Home,       \* Home[k]: the process that serves connection k
  Conn,       \* Conn[s]: the connection of session s
  Sid,        \* Sid[s]: the stream id of its CONNECT, numbered per connection
  MaxLen,     \* entries Redis is told to keep, 1024 in the code
  Batch,      \* entries one XREAD returns at most, 16 in the code
  MaxTick,    \* bound: ticks
  MaxFaults,  \* bound: XADDs and XREADs that fail
  MaxRestarts \* bound: restarts of serving processes

ASSUME FanoutAssumption ==
  /\ World \in Procs
  /\ Home \in [Conns -> Procs] /\ Conn \in [Sessions -> Conns] /\ Sid \in [Sessions -> Nat]
  /\ None \notin Sessions
  /\ MaxLen \in Nat \ {0} /\ Batch \in Nat \ {0}
  /\ MaxTick \in Nat /\ MaxFaults \in Nat /\ MaxRestarts \in Nat

VARIABLES
  log,      \* log[i]: the tick of stream entry i
  first,    \* the oldest entry Redis holds
  tick,     \* the tick being broadcast
  pub,      \* on_tick_wt: idle, XADD sent, or XADD applied and not answered
  con,      \* con[p]: where the consumer is, its last id once it has one
            \* (warm), and the id after which its XREAD reads
  reg,      \* reg[p][i]: the session registered in p under stream id i
  conn,     \* conn[k]: new, open, lost
  opened,   \* sessions that were accepted
  got,      \* got[s]: the ticks sent to session s
  seen,     \* history: seen[p]: the entries process p fanned out
  joined,   \* history: joined[p]: the last entry at the consumer's first XREAD
  hist      \* history: broadcasts instead of the stream, of these the ones
            \* whose XADD was applied, faults, restarts

wire    == <<log, first, tick, pub>>
clients == <<reg, conn, opened>>
vars    == <<wire, con, clients, got, seen, joined, hist>>

Ids  == {Sid[s] : s \in Sessions}
Fresh == [at |-> "new", warm |-> FALSE, last |-> 0, from |-> 0]
NoSessions == [i \in Ids |-> None]
Entries(p) == {seen[p][j] : j \in 1..Len(seen[p])}
Registered(p) == {reg[p][i] : i \in Ids} \ {None}

Init ==
  /\ log = <<>> /\ first = 1 /\ tick = 0 /\ pub = "idle"
  /\ con = [p \in Procs |-> Fresh]
  /\ reg = [p \in Procs |-> NoSessions]
  /\ conn = [k \in Conns |-> "new"]
  /\ opened = {}
  /\ got = [s \in Sessions |-> <<>>]
  /\ seen = [p \in Procs |-> <<>>]
  /\ joined = [p \in Procs |-> 0]
  /\ hist = [fallbacks |-> 0, lostAcks |-> 0, faults |-> 0, restarts |-> 0]
-----------------------------------------------------------------------------
\* Sessions.

\* Session s is accepted and registered under its stream id.
Accept(s) ==
  /\ s \notin opened /\ conn[Conn[s]] \in {"new", "open"}
  /\ opened' = opened \cup {s}
  /\ conn' = [conn EXCEPT ![Conn[s]] = "open"]
  /\ reg' = [reg EXCEPT ![Home[Conn[s]]][Sid[s]] = s]
  /\ UNCHANGED <<wire, con, got, seen, joined, hist>>

\* Variant: the stream ids the connection used are unregistered, whoever holds
\* them now.
Unregister(sessions, k) == [i \in Ids |->
  IF \E s \in opened : Conn[s] = k /\ Sid[s] = i THEN None ELSE sessions[i]]

\* remove_protocol_sessions: the registry without the sessions of connection k.
RemoveProtocolSessions(sessions, k) == [i \in Ids |->
  IF sessions[i] # None /\ Conn[sessions[i]] = k THEN None ELSE sessions[i]]

\* connection_lost.
ConnectionLost(k) ==
  /\ conn[k] = "open"
  /\ conn' = [conn EXCEPT ![k] = "lost"]
  /\ reg' = [reg EXCEPT ![Home[k]] = RemoveProtocolSessions(@, k)]
  /\ UNCHANGED <<wire, con, opened, got, seen, joined, hist>>

\* The manager's broadcast of some ticks, one after the other and without an
\* await. Sessions whose sends raise, all those of closed connections, leave the
\* registry; what they were sent does not count.
Broadcast(p, ticks) ==
  \E stale \in SUBSET Registered(p) :
    /\ \A s \in stale, t \in Registered(p) : Conn[s] = Conn[t] => t \in stale
    /\ got' = [s \in Sessions |-> IF s \in Registered(p) \ stale THEN got[s] \o ticks ELSE got[s]]
    /\ reg' = [reg EXCEPT ![p] = [i \in Ids |-> IF @[i] \in stale THEN None ELSE @[i]]]
    /\ conn' = [k \in Conns |-> IF \E s \in stale : Conn[s] = k THEN "lost" ELSE conn[k]]
    /\ UNCHANGED opened
-----------------------------------------------------------------------------
\* The publisher: on_tick_wt and publish_tick.

\* The world has a tick to broadcast and sends its XADD.
Publish ==
  /\ pub = "idle" /\ tick < MaxTick
  /\ tick' = tick + 1
  /\ pub' = "sent"
  /\ UNCHANGED <<log, first, con, clients, got, seen, joined, hist>>

\* Redis applies the XADD and may trim the oldest entries.
Xadd ==
  /\ pub = "sent"
  /\ pub' = "applied"
  /\ log' = Append(log, tick)
  /\ first' \in {first} \cup {i \in first..Len(log) : Len(log) + 2 - i >= MaxLen}
  /\ UNCHANGED <<tick, con, clients, got, seen, joined, hist>>

\* Variant: every published tick is broadcast in the process as well.
AlwaysFallback ==
  /\ pub = "applied"
  /\ pub' = "idle"
  /\ Broadcast(World, <<tick>>)
  /\ UNCHANGED <<log, first, tick, con, seen, joined, hist>>

\* Its answer arrives.
Published ==
  /\ pub = "applied"
  /\ pub' = "idle"
  /\ UNCHANGED <<log, first, tick, con, clients, got, seen, joined, hist>>

\* Publishing raised, whether or not Redis applied it: the tick is broadcast
\* in the process of the world.
FallBack ==
  /\ pub \in {"sent", "applied"} /\ hist.faults < MaxFaults
  /\ pub' = "idle"
  /\ Broadcast(World, <<tick>>)
  /\ hist' = [hist EXCEPT !.faults = @ + 1, !.fallbacks = @ + 1,
                          !.lostAcks = IF pub = "applied" THEN @ + 1 ELSE @]
  /\ UNCHANGED <<log, first, tick, con, seen, joined>>
-----------------------------------------------------------------------------
\* The consumer of process p.

\* Variant: the first XREAD starts at the beginning of the stream.
ReadFromStart(p) ==
  /\ con[p].at \in {"new", "ready"}
  /\ con' = [con EXCEPT ![p].at = "reading", ![p].from = con[p].last]
  /\ joined' = [joined EXCEPT ![p] = IF con[p].at = "new" THEN Len(log) ELSE @]
  /\ UNCHANGED <<wire, clients, got, seen, hist>>

\* XREAD is sent: after the last id, or, without one, after the entry that is
\* the last of the stream just now.
Read(p) ==
  /\ con[p].at \in {"new", "ready"}
  /\ con' = [con EXCEPT ![p].at = "reading",
                        ![p].from = IF con[p].warm THEN con[p].last ELSE Len(log)]
  /\ joined' = [joined EXCEPT ![p] = IF con[p].at = "new" THEN Len(log) ELSE @]
  /\ UNCHANGED <<wire, clients, got, seen, hist>>

\* The oldest entry that an XREAD in flight can return.
Oldest(p) == IF con[p].from + 1 < first THEN first ELSE con[p].from + 1

\* XREAD answers with a batch: the oldest entries it had when it was evaluated.
\* Each is sent to the sessions of the process.
FanOut(p) ==
  /\ con[p].at = "reading"
  /\ \E n \in 1..Batch : LET i == Oldest(p) IN
       /\ i + n - 1 <= Len(log)
       /\ Broadcast(p, SubSeq(log, i, i + n - 1))
       /\ seen' = [seen EXCEPT ![p] = @ \o [j \in 1..n |-> i + j - 1]]
       /\ con' = [con EXCEPT ![p] = [at |-> "ready", warm |-> TRUE, from |-> 0, last |-> i + n - 1]]
  /\ UNCHANGED <<wire, joined, hist>>

\* The block expires without an entry.
ReadExpires(p) ==
  /\ con[p].at = "reading" /\ Oldest(p) > Len(log)
  /\ con' = [con EXCEPT ![p].at = "ready", ![p].from = 0]
  /\ UNCHANGED <<wire, clients, got, seen, joined, hist>>

\* Variant: an XREAD that raises ends the consumer.
ReadRaises(p) ==
  /\ con[p].at = "reading" /\ hist.faults < MaxFaults
  /\ con' = [con EXCEPT ![p].at = "ended", ![p].from = 0]
  /\ hist' = [hist EXCEPT !.faults = @ + 1]
  /\ UNCHANGED <<wire, clients, got, seen, joined>>

\* XREAD raises: the consumer sleeps for a second.
ReadFails(p) ==
  /\ con[p].at = "reading" /\ hist.faults < MaxFaults
  /\ con' = [con EXCEPT ![p].at = "sleep", ![p].from = 0]
  /\ hist' = [hist EXCEPT !.faults = @ + 1]
  /\ UNCHANGED <<wire, clients, got, seen, joined>>

Wakes(p) ==
  /\ con[p].at = "sleep"
  /\ con' = [con EXCEPT ![p].at = "ready"]
  /\ UNCHANGED <<wire, clients, got, seen, joined, hist>>

\* A serving process other than the world's restarts: its connections are
\* lost and its new consumer starts at the tail.
Restart(p) ==
  /\ p # World /\ hist.restarts < MaxRestarts
  /\ con' = [con EXCEPT ![p] = Fresh]
  /\ conn' = [k \in Conns |-> IF Home[k] = p /\ conn[k] = "open" THEN "lost" ELSE conn[k]]
  /\ reg' = [reg EXCEPT ![p] = NoSessions]
  /\ seen' = [seen EXCEPT ![p] = <<>>]
  /\ joined' = [joined EXCEPT ![p] = 0]
  /\ hist' = [hist EXCEPT !.restarts = @ + 1]
  /\ UNCHANGED <<wire, opened, got>>
-----------------------------------------------------------------------------
Next ==
  \/ \E s \in Sessions : Accept(s)
  \/ \E k \in Conns : ConnectionLost(k)
  \/ Publish \/ Xadd \/ Published \/ FallBack
  \/ \E p \in Procs :
       Read(p) \/ FanOut(p) \/ ReadExpires(p) \/ ReadFails(p) \/ Wakes(p) \/ Restart(p)

Spec == Init /\ [][Next]_vars

\* A consumer runs as long as its process, a second of sleep ends, and Redis
\* answers an XREAD that it has entries for unless it fails it, which it does
\* MaxFaults times at most. Nobody has to publish or to connect.
Fairness == \A p \in Procs : WF_vars(Read(p) \/ FanOut(p) \/ Wakes(p))

FairSpec == Spec /\ Fairness
-----------------------------------------------------------------------------
\* Shape of the state; a consumer is never ahead of the stream.
TypeOK ==
  /\ log \in Seq(1..MaxTick) /\ first \in 1..(Len(log) + 1)
  /\ tick \in 0..MaxTick /\ pub \in {"idle", "sent", "applied"}
  /\ con \in [Procs -> [at : {"new", "ready", "reading", "sleep"}, warm : BOOLEAN,
                        last : 0..Len(log), from : 0..Len(log)]]
  /\ reg \in [Procs -> [Ids -> Sessions \cup {None}]]
  /\ conn \in [Conns -> {"new", "open", "lost"}]
  /\ opened \subseteq Sessions
  /\ got \in [Sessions -> Seq(1..MaxTick)]
  /\ seen \in [Procs -> Seq(1..Len(log))]
  /\ joined \in [Procs -> 0..Len(log)]
  /\ hist \in [fallbacks : 0..MaxFaults, lostAcks : 0..MaxFaults,
               faults : 0..MaxFaults, restarts : 0..MaxRestarts]

\* A process fans out the entries of the stream in order and without a repeat,
\* beginning with one added after its first XREAD, and from there on misses
\* none that Redis still holds.
TailIsFaithful ==
  \A p \in Procs : \A j \in 1..Len(seen[p]) :
    LET before == IF j = 1 THEN joined[p] ELSE seen[p][j - 1] IN
    /\ before < seen[p][j]
    /\ j > 1 => \A i \in (before + 1)..(seen[p][j] - 1) : i < first

\* A registered session is one of a connection that still exists: nothing is
\* sent on a connection that was lost, in whatever order it was lost, failed
\* to send, or had its stream id taken over.
NoGhostSessions ==
  \A p \in Procs : \A s \in Registered(p) : Home[Conn[s]] = p /\ conn[Conn[s]] # "lost"

\* A client is sent a tick again only for an XADD whose answer was lost, and once
\* for each: reads that fail, expire or begin anew repeat nothing, whoever registers
\* or is lost meanwhile (_consume_stream, on_tick_wt).
RepeatsNeedLostAck ==
  \A s \in Sessions :
    Len(got[s]) <= Cardinality({got[s][j] : j \in 1..Len(got[s])}) + hist.lostAcks

\* A client is sent ticks out of order only if one of them bypassed the stream.
DisorderNeedsFallback ==
  hist.fallbacks = 0 =>
    \A s \in Sessions : \A j \in 1..(Len(got[s]) - 1) : got[s][j] < got[s][j + 1]

\* A session of an open connection leaves the registry only to a session of
\* another one that takes over its stream id, never for a connection lost.
OnlyOwnerEvicts ==
  [][\A p \in Procs : \A s \in Registered(p) :
       conn'[Conn[s]] = "open" /\ conn[Conn[s]] = "open" =>
         \/ reg'[p][Sid[s]] = s
         \/ reg'[p][Sid[s]] \in opened' \ opened]_vars

\* Once a consumer has a last id, every entry after it is fanned out, however
\* often its reads fail, unless Redis trims it or the process restarts first.
EveryEntryArrives ==
  \A p \in Procs : \A i \in 2..MaxTick :
    (con[p].warm /\ con[p].last < i /\ i <= Len(log)) ~>
      (i \in Entries(p) \/ i < first \/ ~con[p].warm)
-----------------------------------------------------------------------------
\* What on_tick_wt says of a Redis hiccup: no tick is dropped for the
\* subscribers of the world's own process. Here: no entry added after the first
\* XREAD of its consumer is skipped by a later one.
HiccupDropsNoTick ==
  con[World].at = "reading" =>
    \A i \in (joined[World] + 1)..con[World].from :
      i < first \/ i \in Entries(World)

\* What the fan-out says of local subscribers: each tick goes to all of them.
\* A session accepted on a connection that is open is in the registry.
EverySubscriberRegistered ==
  \A s \in opened : conn[Conn[s]] = "open" => s \in Registered(Home[Conn[s]])
=============================================================================
