----------------------------- MODULE Geography -----------------------------
(***************************************************************************)
(* The spatial structure of the world, loaded on demand: two caches, of    *)
(* locations and of the roads of a location, filled by queries that the    *)
(* tick and the API make concurrently and that may fail between any two.   *)
(*                                                                         *)
(* A cache is the sequence of its keys, the one used longest ago first.    *)
(* The list a road cache holds for a place is the number of copies of each *)
(* road in it, counted up to Many.  A refresh of the geography replaces    *)
(* the object by an empty one: a caller that was waiting goes on writing   *)
(* to the old object, which nobody reads any more.                         *)
(***************************************************************************)
EXTENDS Integers, FiniteSets, SequencesExt

CONSTANTS
  Places,  \* ids of the locations table, numbers
  Roads,   \* connections of at most 10 km, each the set of its two ends
  LocMax,  \* 20,000 in the code
  ConnMax, \* 10,000 in the code
  Chunk,   \* ids in one IN query of connections, 2,500 in the code
  Callers, \* tasks that may query the geography at the same time
  Many     \* bound: copies of a road in a list are counted up to this

ASSUME GeographyAssumption ==
  /\ Places \subseteq Nat /\ IsFiniteSet(Places)
  /\ Roads \subseteq {r \in SUBSET Places : Cardinality(r) = 2}
  /\ LocMax \in Nat \ {0} /\ ConnMax \in Nat \ {0} /\ Chunk \in Nat \ {0}
  /\ Many \in Nat \ {0}

VARIABLES
  loc,     \* _loc_cache, least recently used first
  conn,    \* the keys of _conn_cache, least recently used first
  list,    \* [Places -> [Roads -> 0..Many]]: the lists of _conn_cache
  job,     \* [Callers -> what the task is awaiting]
  lost,    \* history: cached places whose query of connections was cut short
  faceless,\* history: neighbours whose query of locations was cut short
  evicted  \* history: locations evicted and not loaded again

geographyVars == <<loc, conn, list, job, lost, faceless, evicted>>

NoQuery == [at |-> "idle", ids |-> {}, todo |-> {}, old |-> FALSE]
NoRoads == [r \in Roads |-> 0]
Keys(cache) == ToSet(cache)
Neighbours(p) == {q \in Places \ {p} : {p, q} \in Roads}

GeographyTypeOK ==
  /\ loc \in Seq(Places) /\ Len(loc) <= LocMax /\ IsInjective(loc)
  /\ conn \in Seq(Places) /\ Len(conn) <= ConnMax /\ IsInjective(conn)
  /\ list \in [Places -> [Roads -> 0..Many]]
  /\ job \in [Callers -> [at : {"idle", "locations", "connections", "faces"},
                          ids : SUBSET Places, todo : SUBSET Places, old : BOOLEAN]]
  /\ lost \subseteq Places /\ faceless \subseteq Places /\ evicted \subseteq Places
-----------------------------------------------------------------------------
\* The caches.

\* The keys of a cache that are not in S, in their order.
Without(cache, S) ==
  LET kept[n \in 0..Len(cache)] ==
        IF n = 0 THEN <<>>
        ELSE kept[n - 1] \o (IF cache[n] \in S THEN <<>> ELSE <<cache[n]>>)
  IN  kept[Len(cache)]

\* The keys s, used in this order, come last; the oldest beyond max go.
Used(cache, s, max) ==
  LET all == Without(cache, ToSet(s)) \o s
  IN  SubSeq(all, IF Len(all) > max THEN Len(all) - max + 1 ELSE 1, Len(all))

Orders(S) == SetToSeqs(S)

\* The rows of a query are loaded into the cache of locations, in any order.
LoadRows(ids) ==
  \E s \in Orders(ids) :
    /\ loc' = Used(loc, s, LocMax)
    /\ evicted' = (evicted \cup Keys(loc) \cup ids) \ Keys(loc')

Missing(ids, cache) == ids \ Keys(cache)
-----------------------------------------------------------------------------
\* Warming: locations, then connections by chunks, then the neighbours' locations.

Await(c, at, ids, todo) ==
  job' = [job EXCEPT ![c] = [at |-> at, ids |-> ids, todo |-> todo, old |-> FALSE]]

\* Empty lists are put for what is missing before the query is awaited.
AskRoads(c, ids) ==
  LET missing == Missing(ids, conn)
  IN  IF missing = {} THEN /\ job' = [job EXCEPT ![c] = NoQuery]
                           /\ UNCHANGED <<conn, list, lost>>
      ELSE \E s \in Orders(missing) :
             /\ conn' = Used(conn, s, ConnMax)
             /\ list' = [p \in Places |-> IF p \in missing \/ p \notin Keys(conn')
                                          THEN NoRoads ELSE list[p]]
             /\ lost' = (lost \ missing) \cap Keys(conn')
             /\ Await(c, "connections", {}, missing)

\* warm(): the tick for where the agents stand, list_agents likewise.
Warm(c, ids) ==
  /\ job[c] = NoQuery
  /\ IF Missing(ids, loc) = {} THEN AskRoads(c, ids)
     ELSE /\ Await(c, "locations", ids, Missing(ids, loc))
          /\ UNCHANGED <<conn, list, lost>>
  /\ UNCHANGED <<loc, faceless, evicted>>

\* get_nearby_locations_async(): the connections of one place only.
AskNeighbours(c, p) ==
  /\ job[c] = NoQuery /\ p \notin Keys(conn)
  /\ AskRoads(c, {p})
  /\ UNCHANGED <<loc, faceless, evicted>>

\* Queries of places for the API, bootstrap and stations: locations alone, and one
\* at a time (a longer answer is several of these in a row).
LookUp(q) ==
  /\ LoadRows({q})
  /\ faceless' = faceless \ {q}
  /\ UNCHANGED <<conn, list, job, lost>>

LocationRows(c) ==
  /\ job[c].at = "locations"
  /\ IF job[c].old
     THEN /\ job' = [job EXCEPT ![c] = NoQuery]
          /\ UNCHANGED <<loc, evicted, faceless, conn, list, lost>>
     ELSE /\ LoadRows(job[c].todo)
          /\ faceless' = faceless \ job[c].todo
          /\ AskRoads(c, job[c].ids)

\* Variant: rows are found by one of their ends only.
RowsFromChunk(chunk) == {r \in Roads : (CHOOSE p \in r : \A q \in r : p <= q) \in chunk}

\* The rows of the roads from or to a chunk of places, and their ends.
RowsOf(chunk) == {r \in Roads : r \cap chunk # {}}
Ends(c, chunk) == job[c].ids \cup UNION RowsOf(chunk)

\* A row goes to the list of each of its ends that is cached.
Listed(chunk) ==
  [p \in Places |-> [r \in Roads |->
     IF p \in Keys(conn) /\ p \in r /\ r \in RowsOf(chunk) /\ list[p][r] < Many
     THEN list[p][r] + 1 ELSE list[p][r]]]

ConnectionRows(c) ==
  /\ job[c].at = "connections" /\ ~job[c].old
  /\ \E chunk \in SUBSET job[c].todo :
       LET rest == job[c].todo \ chunk
           ends == Ends(c, chunk)
       IN  /\ Cardinality(chunk) = IF Cardinality(job[c].todo) < Chunk
                                   THEN Cardinality(job[c].todo) ELSE Chunk
           /\ list' = Listed(chunk)
           /\ \E s \in Orders((UNION RowsOf(chunk)) \cap Keys(conn)) :
                conn' = Used(conn, s, ConnMax)
           /\ IF rest # {} THEN Await(c, "connections", ends, rest)
              ELSE IF Missing(ends, loc) = {} THEN job' = [job EXCEPT ![c] = NoQuery]
              ELSE Await(c, "faces", {}, Missing(ends, loc))
  /\ UNCHANGED <<loc, lost, faceless, evicted>>

FaceRows(c) ==
  /\ job[c].at = "faces" /\ ~job[c].old
  /\ LoadRows(job[c].todo)
  /\ faceless' = faceless \ job[c].todo
  /\ job' = [job EXCEPT ![c] = NoQuery]
  /\ UNCHANGED <<conn, list, lost>>

\* A failed query or a cancelled task: what was put in the caches stays there.
Fails(c) ==
  /\ job[c] # NoQuery
  /\ job' = [job EXCEPT ![c] = NoQuery]
  /\ IF job[c].old THEN UNCHANGED <<lost, faceless>>
     ELSE CASE job[c].at = "connections" ->
                 /\ lost' = lost \cup (job[c].todo \cap Keys(conn))
                 /\ faceless' = faceless \cup Missing(job[c].ids, loc)
            [] job[c].at = "faces" -> faceless' = faceless \cup Missing(job[c].todo, loc)
                                      /\ UNCHANGED lost
            [] OTHER -> UNCHANGED <<lost, faceless>>
  /\ UNCHANGED <<loc, conn, list, evicted>>

\* An agent's read during its tick: its place's list, and each neighbour on it.
Read(p) ==
  /\ p \in Keys(conn)
  /\ conn' = Used(conn, <<p>>, ConnMax)
  /\ LET seen == {q \in Keys(loc) : {p, q} \in Roads /\ list[p][{p, q}] > 0}
     IN  \E s \in Orders(seen) : loc' = Used(loc, s, LocMax)
  /\ UNCHANGED <<list, job, lost, faceless, evicted>>

\* Orphaned waits have no effect on the new object, whatever they were awaiting.
RefreshGeography ==
  /\ loc' = <<>> /\ conn' = <<>> /\ list' = [p \in Places |-> NoRoads]
  /\ job' = [c \in Callers |-> IF job[c] = NoQuery THEN NoQuery
               ELSE [NoQuery EXCEPT !.at = "locations", !.old = TRUE]]
  /\ lost' = {} /\ faceless' = {} /\ evicted' = {}

GeographyInit ==
  /\ loc = <<>> /\ conn = <<>> /\ list = [p \in Places |-> NoRoads]
  /\ job = [c \in Callers |-> NoQuery]
  /\ lost = {} /\ faceless = {} /\ evicted = {}

GeographyNext ==
  \/ \E c \in Callers : \/ \E ids \in (SUBSET Places) \ {{}} : Warm(c, ids)
                        \/ \E p \in Places : AskNeighbours(c, p)
                        \/ LocationRows(c)
                        \/ ConnectionRows(c)
                        \/ FaceRows(c)
                        \/ Fails(c)
  \/ \E q \in Places : LookUp(q)
  \/ \E p \in Places : Read(p)
  \/ RefreshGeography

GeographySpec == GeographyInit /\ [][GeographyNext]_geographyVars
-----------------------------------------------------------------------------
Asking(p) == \E c \in Callers : /\ job[c].at = "connections" /\ ~job[c].old
                                /\ p \in job[c].todo

Facing(q) == \E c \in Callers :
  /\ ~job[c].old
  /\ \/ job[c].at = "connections" /\ q \in job[c].ids
     \/ job[c].at = "faces" /\ q \in job[c].todo

\* warm_connections fills the cache with empty lists first: an agent that finds
\* none of the roads of a cached place met a query still under way, or one that
\* failed and left the place shut for as long as it stays cached; nothing else,
\* whatever other queries, evictions and refreshes came between.
CompleteUnlessCut ==
  \A p \in Keys(conn) \ lost :
    Asking(p) \/ \A r \in Roads : p \in r => list[p][r] > 0

\* warm_connections returns early for cached places, so the locations at the other
\* end of their roads have only this one chance to be loaded: one is missing only
\* if its query is under way, failed, or the location was evicted since.
NeighboursLoaded ==
  \A p \in Keys(conn) : \A q \in Neighbours(p) :
    list[p][{p, q}] > 0 =>
      q \in Keys(loc) \/ Facing(q) \/ q \in faceless \/ q \in evicted
=============================================================================
