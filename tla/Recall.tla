------------------------------- MODULE Recall -------------------------------
(***************************************************************************)
(* What agents remember outside the process, in two stores at once: the    *)
(* legacy Chroma collection of each agent and the pgvector table           *)
(* agent_facts.  A running agent writes every fact to both (Chroma at      *)
(* once, the table at the next save, see FactFlush), the backfill moves    *)
(* the collections into the table and drops them, and a question is        *)
(* answered from the table, else from Chroma, else from the process.       *)
(*                                                                         *)
(* Sources: agents/backfill.py, agents/retrieval.py, agents/fact_store.py, *)
(* answer_async and _append_fact of agents/system.py.  Every call to TEI,  *)
(* Chroma or the database may fail where the code provides for it.  A save *)
(* is one step here.  One backfill runs at a time, as its usage says.      *)
(***************************************************************************)
EXTENDS Naturals, FiniteSets

CONSTANTS
    Agents,     \* agents that have, or had, a collection
    Deployed,   \* those the running server holds
    Facts,      \* fact texts
    Plain,      \* those with a trivial predicate ("I visited X")
    Ids,        \* fact numbers: a document's id is its agent's id and one of these
    Legacy,     \* [Agents -> [Ids -> Facts \cup {NoFact}]]: what Chroma holds
    Self,       \* the sentence an agent can always derive about itself
    NoFact,
    PlainCap    \* trivial facts an answer keeps (3 in the code)

ASSUME RecallAssumption ==
    /\ Deployed \subseteq Agents
    /\ IsFiniteSet(Facts)
    /\ Plain \subseteq Facts
    /\ NoFact \notin Facts
    /\ Self \notin Facts
    /\ Ids \subseteq Nat
    /\ Legacy \in [Agents -> [Ids -> Facts \cup {NoFact}]]
    /\ PlainCap \in Nat \ {0}

VARIABLES
    docs,       \* Chroma: documents of each agent by number
    coll,       \* Chroma: agents whose collection exists
    handle,     \* the running agent's _chroma_store: none, live, or stale
    counter,    \* its _fact_counter, zero in every new process
    buffer,     \* facts waiting for the next save
    live,       \* agent_facts: <<agent, fact>> written by saves
    moved,      \* agent_facts: rows the backfill wrote, by <<agent, fact>>
    task,       \* the backfill
    ask,        \* the question being answered
    replaced    \* history: <<agent, fact>> whose document an id reuse overwrote

stores   == <<docs, coll, live, moved, replaced>>
process  == <<handle, counter, buffer>>
vars     == <<docs, coll, handle, counter, buffer, live, moved,
              task, ask, replaced>>

Stored(a)  == {docs[a][i] : i \in Ids} \ {NoFact}
Rows(a)    == {f \in Facts : <<a, f>> \in live \/ moved[<<a, f>>] > 0}
Empty      == [i \in Ids |-> NoFact]

NoTask == [pc |-> "off", mode |-> "move", todo |-> {}, of |-> {}, snap |-> {},
           fresh |-> {}, droppable |-> {}, complete |-> TRUE]
NoAsk  == [pc |-> "off", of |-> {}, trouble |-> FALSE]

TypeOK ==
    /\ docs \in [Agents -> [Ids -> Facts \cup {NoFact}]]
    /\ coll \subseteq Agents
    /\ handle \in [Deployed -> {"none", "live", "stale"}]
    /\ counter \in [Deployed -> Nat]
    /\ buffer \in [Deployed -> SUBSET Facts]
    /\ live \subseteq Agents \X Facts
    /\ moved \in [Agents \X Facts -> Nat]
    /\ task \in [pc : {"off", "next", "read", "write", "commit", "drop"},
                mode : {"move", "dry", "drop"}, todo : SUBSET Agents,
                of : SUBSET Agents, snap : SUBSET Facts, fresh : SUBSET Facts,
                droppable : SUBSET Agents, complete : BOOLEAN]
    /\ ask \in [pc : {"off", "table", "count", "query", "rank", "empty"},
               of : SUBSET Deployed, trouble : BOOLEAN]
    /\ replaced \subseteq Agents \X Facts

Init ==
    /\ docs = Legacy
    /\ coll = {a \in Agents : Legacy[a] # Empty}
    /\ handle = [a \in Deployed |-> "none"]
    /\ counter = [a \in Deployed |-> 0]
    /\ buffer = [a \in Deployed |-> {}]
    /\ live = {}
    /\ moved = [r \in Agents \X Facts |-> 0]
    /\ task = NoTask
    /\ ask = NoAsk
    /\ replaced = {}

(***************************************************************************)
(* The running agent.                                                      *)
(***************************************************************************)

\* _get_chroma_store: get_or_create_collection on first use, unless Chroma
\* does not answer; the handle is then kept for the life of the process.
Handle(a, answers) ==
    IF handle[a] = "none" /\ answers THEN "live" ELSE handle[a]

Opened(a, answers) ==
    IF handle[a] = "none" /\ answers THEN coll \cup {a} ELSE coll

\* add_fact upserts under the next number; a stale handle fails silently.
Upsert(a, f, answers) ==
    LET n == counter[a] + 1
        h == Handle(a, answers)
        put == h = "live" /\ answers
    IN  /\ counter' = [counter EXCEPT ![a] = IF h = "none" THEN @ ELSE n]
        /\ docs' = IF put THEN [docs EXCEPT ![a][n] = f] ELSE docs
        /\ replaced' =
               IF put /\ docs[a][n] \notin {NoFact, f}
               THEN replaced \cup {<<a, docs[a][n]>>} ELSE replaced

\* _append_fact: to the buffer and to Chroma.  Only an immediate repeat is
\* refused; facts the model does not name come between any two of these.
Append(a, f, answers) ==
    /\ counter[a] + 1 \in Ids
    /\ buffer' = [buffer EXCEPT ![a] = @ \cup {f}]
    /\ handle' = [handle EXCEPT ![a] = Handle(a, answers)]
    /\ coll' = Opened(a, answers)
    /\ Upsert(a, f, answers)
    /\ UNCHANGED <<live, moved, task, ask>>

\* _save_state writes the buffered facts unless TEI cannot embed them.  It inserts,
\* whatever the table already holds.
Save(embeds) ==
    /\ live' = IF embeds
               THEN live \cup {r \in Deployed \X Facts : r[2] \in buffer[r[1]]}
               ELSE live
    /\ buffer' = IF embeds THEN [a \in Deployed |-> {}] ELSE buffer
    /\ UNCHANGED <<docs, coll, handle, counter, moved, task, ask, replaced>>

\* The server is killed and started: the buffer is gone.
Restart ==
    /\ handle' = [a \in Deployed |-> "none"]
    /\ counter' = [a \in Deployed |-> 0]
    /\ buffer' = [a \in Deployed |-> {}]
    /\ ask' = NoAsk
    /\ UNCHANGED <<docs, coll, live, moved, task, replaced>>

(***************************************************************************)
(* The backfill (python -m agents.backfill), a process of its own.         *)
(***************************************************************************)

\* _per_agent_collections: the collections that exist now.
BackfillStart(mode) ==
    /\ task.pc = "off"
    /\ task' = [NoTask EXCEPT !.pc = "next", !.mode = mode, !.todo = coll]
    /\ UNCHANGED <<stores, process, ask>>

\* _facts_from_collection; an empty collection may be dropped.
ReadCollection(a) ==
    /\ task.pc = "next" /\ a \in task.todo
    /\ task' = IF Stored(a) = {}
               THEN [task EXCEPT !.todo = @ \ {a}, !.droppable = @ \cup {a}]
               ELSE [task EXCEPT !.pc = "read", !.todo = @ \ {a}, !.of = {a},
                                 !.snap = Stored(a)]
    /\ UNCHANGED <<stores, process, ask>>

\* _existing_contents and _dedup: what the table does not hold yet.
FreshOfBatch(facts, existing) == facts

Fresh(facts, existing) == facts \ existing

Compare ==
    /\ task.pc = "read"
    /\ \E a \in task.of :
          LET fresh == Fresh(task.snap, Rows(a)) IN
          task' = IF fresh = {}
                  THEN [task EXCEPT !.pc = "next", !.droppable = @ \cup {a}]
                  ELSE IF task.mode = "dry" THEN [task EXCEPT !.pc = "next"]
                  ELSE [task EXCEPT !.pc = "write", !.fresh = fresh]
    /\ UNCHANGED <<stores, process, ask>>

UnembeddedDroppable(t) == [t EXCEPT !.pc = "next", !.droppable = @ \cup t.of]

\* What a failed embedding leaves: nothing written, nothing droppable.
Unembedded(t) == [t EXCEPT !.pc = "next", !.complete = FALSE]

\* store.add_facts: all of the fresh facts, or none.
Embed(embeds) ==
    /\ task.pc = "write"
    /\ task' = IF embeds THEN [task EXCEPT !.pc = "commit"] ELSE Unembedded(task)
    /\ UNCHANGED <<stores, process, ask>>

\* The agent's transaction; on an error (landed or not) the run ends.
Commit(landed, acked) ==
    /\ task.pc = "commit"
    /\ acked => landed
    /\ moved' = IF landed
                THEN [r \in DOMAIN moved |->
                         IF r[1] \in task.of /\ r[2] \in task.fresh
                         THEN moved[r] + 1 ELSE moved[r]]
                ELSE moved
    /\ task' = IF acked
               THEN [task EXCEPT !.pc = "next", !.droppable = @ \cup task.of]
               ELSE NoTask
    /\ UNCHANGED <<docs, coll, live, replaced, process, ask>>

\* Every collection was seen: drop them if asked to and nothing was skipped.
Finish ==
    /\ task.pc = "next" /\ task.todo = {}
    /\ task' = IF task.mode = "drop" /\ task.complete
               THEN [task EXCEPT !.pc = "drop"] ELSE NoTask
    /\ UNCHANGED <<stores, process, ask>>

\* delete_collection, one after another; running agents keep their handles.
DropCollection(a) ==
    /\ task.pc = "drop" /\ a \in task.droppable
    /\ docs' = [docs EXCEPT ![a] = Empty]
    /\ coll' = coll \ {a}
    /\ handle' = [b \in Deployed |->
                     IF b = a /\ handle[b] = "live" THEN "stale" ELSE handle[b]]
    /\ task' = [task EXCEPT !.droppable = @ \ {a}]
    /\ ask' = [ask EXCEPT !.trouble = @ \/ (ask.pc # "off" /\ a \in ask.of)]
    /\ UNCHANGED <<counter, buffer, live, moved, replaced>>

DropEnd ==
    /\ task.pc = "drop" /\ task.droppable = {}
    /\ task' = NoTask
    /\ UNCHANGED <<stores, process, ask>>

\* Interrupted anywhere, or Chroma or the database raised.
BackfillDies ==
    /\ task.pc # "off"
    /\ task' = NoTask
    /\ UNCHANGED <<stores, process, ask>>

(***************************************************************************)
(* A question to one agent (answer_async).                                 *)
(***************************************************************************)

\* A question about the timeline is answered from the episodes and ends
\* here; any other goes to the table first.
Ask(a) ==
    /\ ask.pc = "off"
    /\ ask' = [NoAsk EXCEPT !.pc = "table", !.of = {a}]
    /\ UNCHANGED <<stores, process, task>>

\* The answer keeps every substantive fact and at most PlainCap trivial ones.
Reranked(hits) ==
    LET plain == hits \cap (Plain \cup {Self}) IN
    {(hits \ plain) \cup kept : kept \in
        {k \in SUBSET plain :
            Cardinality(k) = IF Cardinality(plain) <= PlainCap
                             THEN Cardinality(plain) ELSE PlainCap}}

\* _finalize_answer: the facts kept make the answer; without any the agent
\* says that it has none.
Say(hits, trouble) ==
    \E kept \in Reranked(hits) :
        ask' = IF kept # {} THEN NoAsk
               ELSE [ask EXCEPT !.pc = "empty", !.trouble = @ \/ trouble]

TakesTableUnlessDown(hits, embeds) == embeds

\* Hits of the table are the answer; no hit sends the question to Chroma.
TakesTable(hits, embeds) == hits # {}

\* _retrieve_ranked_pgvector: no hit when TEI cannot embed the question.
AskTable(embeds) ==
    /\ ask.pc = "table"
    /\ \E a \in ask.of :
          LET hits == IF embeds THEN Rows(a) ELSE {} IN
          IF TakesTable(hits, embeds) THEN Say(hits, FALSE)
          ELSE ask' = [ask EXCEPT !.pc = "count"]
    /\ UNCHANGED <<stores, process, task>>

\* _retrieve_ranked_sync: Chroma is used when its collection counts documents.
AskCount(answers) ==
    /\ ask.pc = "count"
    /\ \E a \in ask.of :
          LET h == Handle(a, answers)
              counted == h = "live" /\ answers /\ Stored(a) # {}
          IN  /\ handle' = [handle EXCEPT ![a] = h]
              /\ coll' = Opened(a, answers)
              /\ ask' = [ask EXCEPT !.pc = IF counted THEN "query" ELSE "rank"]
    /\ UNCHANGED <<docs, counter, buffer, live, moved, replaced, task>>

\* ChromaFactStore.query: a timeout, an error or a dropped collection is no
\* hit, and the answer is composed of what came back.
AskQuery(answers) ==
    /\ ask.pc = "query"
    /\ \E a \in ask.of :
          Say(IF answers /\ handle[a] = "live" THEN Stored(a) ELSE {}, ~answers)
    /\ UNCHANGED <<stores, process, task>>

\* _memory_facts: always the sentence about the agent's state, and the facts
\* it knows (of the saved ones none is needed here: they only add to it).
Memory(a) == {Self} \cup buffer[a]

\* SemanticFactRetriever.rank over that memory: by TEI all of it, else only
\* what shares a word with the question.
AskRank(embeds) ==
    /\ ask.pc = "rank"
    /\ \E a \in ask.of :
          \E hits \in IF embeds THEN {Memory(a)} ELSE SUBSET Memory(a) :
             Say(hits, ~embeds)
    /\ UNCHANGED <<stores, process, task>>

Answered ==
    /\ ask.pc = "empty"
    /\ ask' = NoAsk
    /\ UNCHANGED <<stores, process, task>>

Next ==
    \/ \E a \in Deployed, f \in Facts, ok \in BOOLEAN : Append(a, f, ok)
    \/ \E ok \in BOOLEAN : Save(ok)
    \/ Restart
    \/ \E mode \in {"move", "dry", "drop"} : BackfillStart(mode)
    \/ \E a \in Agents : ReadCollection(a)
    \/ Compare
    \/ \E ok \in BOOLEAN : Embed(ok)
    \/ \E landed, acked \in BOOLEAN : Commit(landed, acked)
    \/ Finish
    \/ \E a \in Agents : DropCollection(a)
    \/ DropEnd
    \/ BackfillDies
    \/ \E a \in Deployed : Ask(a)
    \/ \E ok \in BOOLEAN : AskTable(ok)
    \/ \E ok \in BOOLEAN : AskCount(ok)
    \/ \E ok \in BOOLEAN : AskQuery(ok)
    \/ \E ok \in BOOLEAN : AskRank(ok)
    \/ Answered

Spec == Init /\ [][Next]_vars

(***************************************************************************)
(* Properties.                                                             *)
(***************************************************************************)

\* Whatever an agent had stored in Chroma before the cutover is still in
\* Chroma or in the table, through interrupted and repeated backfills, TEI
\* outages and drops: the exception is a document overwritten by a restarted
\* process, whose fact numbers begin at one again.
LegacyKept ==
    \A a \in Agents, i \in Ids :
        LET f == Legacy[a][i] IN
        f # NoFact => \/ f \in Stored(a)
                      \/ f \in Rows(a)
                      \/ <<a, f>> \in replaced

\* The backfill writes a fact of an agent once, however often it is run,
\* interrupted with or without its commit having landed, and however many
\* documents hold the same text.
BackfilledOnce == \A r \in DOMAIN moved : moved[r] <= 1

\* An agent answers "I do not have enough memory" (no fact at all) only when
\* a service failed that very question, or its collection was dropped while
\* it was being answered: an empty table or an empty collection alone sends
\* the question on to the next store.
EmptyNeedsOutage == ask.pc = "empty" => ask.trouble
=============================================================================
