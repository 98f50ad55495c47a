----------------------------- MODULE FactFlush -----------------------------
(***************************************************************************)
(* The write path of agent memory: facts an agent learns are appended to   *)
(* its in-memory knowledge and to a buffer of pending facts; the periodic  *)
(* save of the world embeds the buffered facts through TEI and commits     *)
(* them to the agent_facts table together with the agent_state rows.       *)
(*                                                                         *)
(* A save suspends at three awaits (TEI, commit, and the commit's answer); *)
(* facts may be appended at each of them, and the save may be cancelled,   *)
(* fail, or lose the answer of a commit the database has applied.          *)
(*                                                                         *)
(* A fact is the number of its append: 1 is the first fact an agent ever   *)
(* appended. Texts are left out, so the suppression of a text equal to the *)
(* previous one is a call that changes nothing. What an agent is told by   *)
(* another one joins its knowledge, but never the buffer.                  *)
(***************************************************************************)
EXTENDS Naturals, Sequences, FiniteSets

CONSTANTS
  Agents,     \* agent ids; a reset creates new agents under the same ids
  Savers,     \* tasks that may run _save_state: the tick loop, API requests
  Cap,        \* the buffer and knowledge cap, 5000 in the code
  MaxFacts,   \* bound: the largest fact number
  Quota,      \* bound: facts agent a learns, at most MaxFacts
  MaxTold,    \* bound: how many of them it is told by another agent
  MaxAborts,  \* bound: saves that fail or are cancelled
  MaxLives    \* bound: restarts plus resets

ASSUME FlushAssumption ==
  /\ Cap \in Nat \ {0}
  /\ MaxFacts \in Nat
  /\ Quota \in [Agents -> 0..MaxFacts]
  /\ MaxTold \in [Agents -> Nat]
  /\ MaxAborts \in Nat
  /\ MaxLives \in Nat

VARIABLES
  facts,      \* facts[a]: knowledge.facts of agent a, oldest first
  pending,    \* pending[a]: _pending_facts of agent a
  pc,         \* pc[s]: where saver s is suspended
  take,       \* take[s][a]: the snapshot of pending[a] the saver writes
  payload,    \* payload[s][a]: the knowledge it writes to agent_state
  takenIn,    \* takenIn[s]: the life of the agents whose buffers it drains
  rowFacts,   \* rowFacts[a]: facts of the committed agent_state row
  rows,       \* rows[a][n]: committed agent_facts rows that hold fact n
  appended,   \* history: number of facts agent a ever appended
  hearsay,    \* history: facts agent a was told by another agent
  trims,      \* history: facts the cap pushed out of pending[a]
  excused,    \* history: facts buffered when the process died or was reset
  born,       \* history: appended[a] when the present agents were created
  life,       \* identity of the agent objects in memory
  aborts,     \* saves that failed or were cancelled so far
  lostAcks    \* commits applied whose answer never reached the saver

memVars  == <<facts, pending>>
saveVars == <<pc, take, payload, takenIn>>
dbVars   == <<rowFacts, rows>>
histVars == <<appended, hearsay, trims, excused, born>>
vars == <<memVars, saveVars, dbVars, histVars, life, aborts, lostAcks>>

Fact == 1..MaxFacts
PCs  == {"idle", "embed", "commit", "drop", "rebirth"}

Elems(s) == {s[i] : i \in 1..Len(s)}
Stored(a) == {n \in Fact : rows[a][n] > 0}
Nothing == [a \in Agents |-> <<>>]

\* Variant: the oldest entries are kept instead of the newest.
WindowOfOldest(s) == IF Len(s) > Cap THEN SubSeq(s, 1, Cap) ELSE s

\* The newest Cap entries of a list: lst[-5000:].
Window(s) == IF Len(s) > Cap THEN SubSeq(s, Len(s) - Cap + 1, Len(s)) ELSE s

\* Variants: the whole buffer is cleared, or nothing leaves it.
DropAll(s, count) == <<>>
DropNone(s, count) == s

\* drop_pending_facts: all but the first count entries.
DropFront(s, count) == IF count >= Len(s) THEN <<>> ELSE SubSeq(s, count + 1, Len(s))

Init ==
  /\ facts = Nothing /\ pending = Nothing
  /\ pc = [s \in Savers |-> "idle"]
  /\ take = [s \in Savers |-> Nothing]
  /\ payload = [s \in Savers |-> Nothing]
  /\ takenIn = [s \in Savers |-> 0]
  /\ rowFacts = Nothing
  /\ rows = [a \in Agents |-> [n \in Fact |-> 0]]
  /\ appended = [a \in Agents |-> 0]
  /\ hearsay = [a \in Agents |-> {}]
  /\ trims = [a \in Agents |-> 0]
  /\ excused = [a \in Agents |-> {}]
  /\ born = [a \in Agents |-> 0]
  /\ life = 0 /\ aborts = 0 /\ lostAcks = 0

\* Agent a learns one more fact, from its tick or from the world semantic
\* layer. Both lists are capped by dropping their oldest entry.
AppendFact(a) ==
  LET n == appended[a] + 1 IN
  /\ n <= Quota[a]
  /\ appended' = [appended EXCEPT ![a] = n]
  /\ facts' = [facts EXCEPT ![a] = Window(Append(facts[a], n))]
  /\ pending' = [pending EXCEPT ![a] = Window(Append(pending[a], n))]
  /\ trims' = [trims EXCEPT ![a] = IF Len(pending[a]) >= Cap THEN @ + 1 ELSE @]
  /\ UNCHANGED <<saveVars, dbVars, hearsay, excused, born, life, aborts, lostAcks>>

\* Agent a is told a fact in dialogue, exchange, teaching or on request: it
\* joins the knowledge that agent_state persists, not the buffer.
LearnFromPeer(a) ==
  LET n == appended[a] + 1 IN
  /\ n <= Quota[a] /\ Cardinality(hearsay[a]) < MaxTold[a]
  /\ appended' = [appended EXCEPT ![a] = n]
  /\ hearsay' = [hearsay EXCEPT ![a] = @ \cup {n}]
  /\ facts' = [facts EXCEPT ![a] = Window(Append(facts[a], n))]
  /\ UNCHANGED <<pending, saveVars, dbVars, trims, excused, born, life, aborts, lostAcks>>

\* The synchronous middle of _save_state, after its SELECTs: the knowledge of
\* every agent and a copy of every buffer. With nothing buffered TEI is skipped.
Snapshot(s) ==
  /\ pc[s] = "idle"
  /\ payload' = [payload EXCEPT ![s] = facts]
  /\ take' = [take EXCEPT ![s] = pending]
  /\ takenIn' = [takenIn EXCEPT ![s] = life]
  /\ pc' = [pc EXCEPT ![s] = IF \E a \in Agents : pending[a] # <<>>
                             THEN "embed" ELSE "commit"]
  /\ UNCHANGED <<memVars, dbVars, histVars, life, aborts, lostAcks>>

\* Every chunk of the batch was embedded: the rows join the transaction.
EmbedAll(s) ==
  /\ pc[s] = "embed"
  /\ pc' = [pc EXCEPT ![s] = "commit"]
  /\ UNCHANGED <<memVars, take, payload, takenIn, dbVars, histVars, life, aborts, lostAcks>>

\* Variant: an outage raises out of the saving task and ends it.
EmbedRaises(s) ==
  /\ pc[s] = "embed"
  /\ pc' = [pc EXCEPT ![s] = "ended"]
  /\ UNCHANGED <<memVars, take, payload, takenIn, dbVars, histVars, life, aborts, lostAcks>>

\* TEI failed on some chunk: no row is written, nothing will be drained, and
\* the save goes on to commit the agent_state rows.
EmbedFails(s) ==
  /\ pc[s] = "embed"
  /\ pc' = [pc EXCEPT ![s] = "commit"]
  /\ take' = [take EXCEPT ![s] = Nothing]
  /\ UNCHANGED <<memVars, payload, takenIn, dbVars, histVars, life, aborts, lostAcks>>

\* Variant: only one agent's facts make it into the transaction.
CommitOneAgent(s) ==
  /\ pc[s] = "commit"
  /\ pc' = [pc EXCEPT ![s] = "drop"]
  /\ rowFacts' = payload[s]
  /\ \E b \in Agents :
       rows' = [rows EXCEPT ![b] =
                 [n \in Fact |-> @[n] + (IF n \in Elems(take[s][b]) THEN 1 ELSE 0)]]
  /\ UNCHANGED <<memVars, take, payload, takenIn, histVars, life, aborts, lostAcks>>

\* The database applies the transaction: all rows of all agents at once.
Commit(s) ==
  /\ pc[s] = "commit"
  /\ pc' = [pc EXCEPT ![s] = "drop"]
  /\ rowFacts' = payload[s]
  /\ rows' = [a \in Agents |->
               [n \in Fact |-> rows[a][n] + (IF n \in Elems(take[s][a]) THEN 1 ELSE 0)]]
  /\ UNCHANGED <<memVars, take, payload, takenIn, histVars, life, aborts, lostAcks>>

\* The commit is answered: the drained entries leave the front of the buffers
\* of the agent objects they were read from. The caller was a tick or a pause,
\* or a reset that goes on to create new agents.
DropFlushed(s) ==
  /\ pc[s] = "drop"
  /\ pending' = IF takenIn[s] = life
                THEN [a \in Agents |-> DropFront(pending[a], Len(take[s][a]))]
                ELSE pending
  /\ \E next \in {"idle", "rebirth"} :
       /\ next = "rebirth" => life < MaxLives
       /\ pc' = [pc EXCEPT ![s] = next]
  /\ take' = [take EXCEPT ![s] = Nothing]
  /\ payload' = [payload EXCEPT ![s] = Nothing]
  /\ takenIn' = [takenIn EXCEPT ![s] = 0]
  /\ UNCHANGED <<facts, dbVars, histVars, life, aborts, lostAcks>>

\* The save raises or is cancelled before the database applied it.
SaveAborts(s) ==
  /\ pc[s] \in {"embed", "commit"}
  /\ aborts < MaxAborts
  /\ aborts' = aborts + 1
  /\ pc' = [pc EXCEPT ![s] = "idle"]
  /\ take' = [take EXCEPT ![s] = Nothing]
  /\ payload' = [payload EXCEPT ![s] = Nothing]
  /\ takenIn' = [takenIn EXCEPT ![s] = 0]
  /\ UNCHANGED <<memVars, dbVars, histVars, life, lostAcks>>

\* The save raises or is cancelled while it waits for the answer of a commit
\* that was applied: nothing is drained.
AckLost(s) ==
  /\ pc[s] = "drop"
  /\ aborts < MaxAborts
  /\ aborts' = aborts + 1
  /\ lostAcks' = lostAcks + 1
  /\ pc' = [pc EXCEPT ![s] = "idle"]
  /\ take' = [take EXCEPT ![s] = Nothing]
  /\ payload' = [payload EXCEPT ![s] = Nothing]
  /\ takenIn' = [takenIn EXCEPT ![s] = 0]
  /\ UNCHANGED <<memVars, dbVars, histVars, life>>

\* reset: agents with the same ids and empty memories replace the present ones.
Rebirth(s) ==
  /\ pc[s] = "rebirth"
  /\ life < MaxLives
  /\ pc' = [pc EXCEPT ![s] = "idle"]
  /\ life' = life + 1
  /\ born' = appended
  /\ excused' = [a \in Agents |-> excused[a] \cup Elems(pending[a])]
  /\ facts' = Nothing /\ pending' = Nothing
  /\ UNCHANGED <<take, payload, takenIn, dbVars, appended, hearsay, trims, aborts, lostAcks>>

\* The process dies and starts again: agents are rebuilt from the committed
\* rows and their buffers start empty.
Restart ==
  /\ life < MaxLives
  /\ life' = life + 1
  /\ excused' = [a \in Agents |-> excused[a] \cup Elems(pending[a])]
  /\ facts' = rowFacts /\ pending' = Nothing
  /\ pc' = [s \in Savers |-> "idle"]
  /\ take' = [s \in Savers |-> Nothing]
  /\ payload' = [s \in Savers |-> Nothing]
  /\ takenIn' = [s \in Savers |-> 0]
  /\ UNCHANGED <<dbVars, appended, hearsay, trims, born, aborts, lostAcks>>

SaveStep(s) ==
  \/ Snapshot(s) \/ EmbedAll(s) \/ EmbedFails(s) \/ Commit(s)
  \/ DropFlushed(s) \/ SaveAborts(s) \/ AckLost(s) \/ Rebirth(s)

Next ==
  \/ \E a \in Agents : AppendFact(a) \/ LearnFromPeer(a)
  \/ \E s \in Savers : SaveStep(s)
  \/ Restart

Spec == Init /\ [][Next]_vars

\* The tick loop saves every ten ticks for as long as it runs, asyncio resumes
\* every answered await, and a TEI outage ends: an embedding asked for again
\* and again succeeds in the end.
Fairness ==
  \A s \in Savers :
    /\ WF_vars(Snapshot(s))
    /\ SF_vars(EmbedAll(s))
    /\ WF_vars(Commit(s))
    /\ WF_vars(DropFlushed(s) \/ Rebirth(s))

FairSpec == Spec /\ Fairness
-----------------------------------------------------------------------------
Lists == {s \in Seq(Fact) : Len(s) <= Cap}

\* Shape of the state; no list outgrows the cap.
TypeOK ==
  /\ facts \in [Agents -> Lists]
  /\ pending \in [Agents -> Lists]
  /\ pc \in [Savers -> PCs]
  /\ take \in [Savers -> [Agents -> Lists]]
  /\ payload \in [Savers -> [Agents -> Lists]]
  /\ rowFacts \in [Agents -> Lists]
  /\ takenIn \in [Savers -> Nat]
  /\ rows \in [Agents -> [Fact -> Nat]]
  /\ appended \in [Agents -> 0..MaxFacts]
  /\ hearsay \in [Agents -> SUBSET Fact]
  /\ trims \in [Agents -> Nat]
  /\ excused \in [Agents -> SUBSET Fact]
  /\ born \in [Agents -> 0..MaxFacts]
  /\ life \in Nat /\ aborts \in Nat /\ lostAcks \in Nat

\* At most one task runs _save_state at a time.
OneSaver == \A s, t \in Savers : s = t

Lost(a) ==
  (1..appended[a]) \ (Elems(pending[a]) \cup Stored(a) \cup excused[a] \cup hearsay[a])

\* As long as the cap pushed nothing out of an agent's buffer, each fact the
\* agent learned itself is still buffered or in agent_facts, or was buffered
\* when the process died or the world was reset: neither a TEI outage, nor a failed or
\* cancelled save, nor facts appended in the middle of one loses a fact.
NoLossWithoutOverflow == \A a \in Agents : trims[a] = 0 => Lost(a) = {}

\* While nothing overflowed, the snapshot a save drains is still the front of
\* the buffer it was copied from.
SnapshotIsFront ==
  \A s \in Savers, a \in Agents :
    (pc[s] \in {"embed", "commit", "drop"} /\ takenIn[s] = life /\ trims[a] = 0) =>
      /\ Len(take[s][a]) <= Len(pending[a])
      /\ \A i \in 1..Len(take[s][a]) : take[s][a][i] = pending[a][i]

\* A save that is about to drain has stored everything it will drain.
DrainedIsStored ==
  \A s \in Savers, a \in Agents :
    pc[s] = "drop" => Elems(take[s][a]) \subseteq Stored(a)

\* The inductive form of NoLossWithoutOverflow, for one saver.
FlushInv == TypeOK /\ SnapshotIsFront /\ DrainedIsStored /\ NoLossWithoutOverflow

Rising(s) == \A i, j \in 1..Len(s) : i < j => s[i] < s[j]

\* The knowledge and the buffer of an agent never drift apart: both keep the
\* order of the appends and, leaving aside what it was told, one of the two is
\* the newest part of the other with no hole, through caps, drains, aborted
\* saves and restarts.
BufferMatchesKnowledge ==
  \A a \in Agents :
    LET own  == Elems(facts[a]) \ hearsay[a]
        held == Elems(pending[a])
    IN /\ Rising(facts[a]) /\ Rising(pending[a])
       /\ \A n \in own \ held, m \in held : n < m
       /\ \A n \in held \ own, m \in own : n < m

\* agent_facts never runs ahead of agent_state: the committed row of an agent
\* is at least as recent as every fact of its present life in agent_facts, so a
\* restart never yields an agent that forgot what its own semantic memory holds.
RowCoversTable ==
  \A a \in Agents : \A n \in Stored(a) :
    n > born[a] => rowFacts[a] # <<>> /\ n <= rowFacts[a][Len(rowFacts[a])]

\* A fact is embedded and stored twice only if the answer of a commit was lost.
DuplicatesNeedLostAck ==
  lostAcks = 0 => \A a \in Agents : \A n \in Fact : rows[a][n] <= 1

\* Every fact settles: it reaches agent_facts unless the buffer overflowed or
\* the process died or was reset first. Retrying forever is not settling.
EveryFactSettles ==
  \A a \in Agents : \A n \in Fact :
    n \in Elems(pending[a]) ~> (n \in Stored(a) \/ trims[a] > 0 \/ n \in excused[a])
-----------------------------------------------------------------------------
\* The abstract view.  The facts held are the buffered ones no commit has stored
\* yet; a fact the cap pushed out and no commit stored has used up one unit of
\* credit.
Held   == [a \in Agents |-> Elems(pending[a]) \ Stored(a)]
Kept   == [a \in Agents |-> Stored(a)]
Credit == [a \in Agents |-> trims[a] - Cardinality(Lost(a))]

Memory == INSTANCE DurableMemory WITH held <- Held, stored <- Kept, credit <- Credit

\* Seen from outside, the buffers, the saves and the table are one durable
\* memory with atomic flushes, in which an overflow costs at most one fact.
ImplementsDurableMemory == Memory!Spec
-----------------------------------------------------------------------------
\* What drop_pending_facts and _save_state say of the front-drop: the facts
\* appended while a save was suspended survive its drop.
MidSaveFactsSurviveStep ==
  \A s \in Savers : DropFlushed(s) =>
    \A a \in Agents : takenIn[s] = life =>
      \A n \in Elems(pending[a]) : n \in Stored(a) \/ n \in Elems(pending'[a])
FrontDropKeepsMidSaveFacts == [][MidSaveFactsSurviveStep]_vars

\* What _save_state says of an outage: a fact committed with the knowledge of
\* the agent that learned it is in agent_facts, or buffered for the next save.
CommittedKnowledgeIsFlushed ==
  \A a \in Agents : \A n \in Elems(rowFacts[a]) \ hearsay[a] :
    trims[a] = 0 => n \in Stored(a) \/ n \in Elems(pending[a])
=============================================================================
