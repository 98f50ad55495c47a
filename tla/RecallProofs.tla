---------------------------- MODULE RecallProofs ----------------------------
(***************************************************************************)
(* Recall for any agents, facts, fact numbers and legacy collections: what *)
(* Chroma held before the cutover is kept, the backfill writes a fact once *)
(* and an agent is at a loss only when a service failed its question.      *)
(***************************************************************************)
EXTENDS Recall, FiniteSetTheorems, TLAPS

\* The parts of TypeOK, to be cited where a step needs no more.
ChromaType ==
    /\ docs \in [Agents -> [Ids -> Facts \cup {NoFact}]]
    /\ coll \subseteq Agents
    /\ handle \in [Deployed -> {"none", "live", "stale"}]
    /\ counter \in [Deployed -> Nat]
    /\ replaced \subseteq Agents \X Facts
TableType ==
    /\ buffer \in [Deployed -> SUBSET Facts]
    /\ live \subseteq Agents \X Facts
    /\ moved \in [Agents \X Facts -> Nat]
Backfills == [pc : {"off", "next", "read", "write", "commit", "drop"},
              mode : {"move", "dry", "drop"}, todo : SUBSET Agents,
              of : SUBSET Agents, snap : SUBSET Facts, fresh : SUBSET Facts,
              droppable : SUBSET Agents, complete : BOOLEAN]
Questions == [pc : {"off", "table", "count", "query", "rank", "empty"},
              of : SUBSET Deployed, trouble : BOOLEAN]

LEMMA TypeParts ==
    /\ TypeOK <=> ChromaType /\ TableType /\ task \in Backfills /\ ask \in Questions
    /\ TypeOK' <=> ChromaType' /\ TableType' /\ task' \in Backfills /\ ask' \in Questions
  BY DEF TypeOK, ChromaType, TableType, Backfills, Questions

LEMMA Nothing == NoTask \in Backfills /\ NoAsk \in Questions
  BY DEF NoTask, NoAsk, Backfills, Questions

LEMMA StoredFacts == ChromaType => \A a \in Agents : Stored(a) \in SUBSET Facts
  BY DEF ChromaType, Stored

\* What the answering of a question makes of it.
LEMMA SaidType ==
  ASSUME ask \in Questions, NEW hits, NEW trouble \in BOOLEAN, Say(hits, trouble)
  PROVE  ask' \in Questions
<1>1. (ask.trouble \/ trouble) \in BOOLEAN
  BY DEF Questions
<1>2. PICK t \in BOOLEAN : ask' = NoAsk \/ ask' = [ask EXCEPT !.pc = "empty", !.trouble = t]
  BY <1>1, Zenon DEF Say
<1> QED BY <1>2, Nothing DEF Questions

LEMMA TypeInit == Init => TypeOK
<1> SUFFICES ASSUME Init PROVE TypeOK
  OBVIOUS
<1>1. ChromaType
  BY RecallAssumption DEF Init, ChromaType
<1>2. TableType
  BY DEF Init, TableType
<1> QED BY <1>1, <1>2, Nothing, TypeParts DEF Init
-----------------------------------------------------------------------------
\* The server's part of Chroma: a new handle or a document.
LEMMA TypeServer ==
  ASSUME TypeOK,
         \/ \E a \in Deployed, f \in Facts, ok \in BOOLEAN : Append(a, f, ok)
         \/ \E ok \in BOOLEAN : Save(ok)
         \/ Restart
  PROVE  TypeOK'
<1>0. ChromaType /\ TableType /\ task \in Backfills /\ ask \in Questions
  BY TypeParts
<1>1. ASSUME NEW a \in Deployed, NEW f \in Facts, NEW ok \in BOOLEAN, Append(a, f, ok)
      PROVE  TypeOK'
  <2> DEFINE n == counter[a] + 1
  <2>1. a \in Agents /\ n \in Ids /\ n \in Nat
    BY <1>1, RecallAssumption DEF Append
  <2>2. docs' \in [Agents -> [Ids -> Facts \cup {NoFact}]]
    BY <1>0, <1>1, <2>1 DEF Append, Upsert, ChromaType
  <2>3. replaced' \subseteq Agents \X Facts
    BY <1>0, <1>1, <2>1 DEF Append, Upsert, ChromaType
  <2>4. coll' \subseteq Agents /\ handle' \in [Deployed -> {"none", "live", "stale"}]
    BY <1>0, <1>1, <2>1 DEF Append, Handle, Opened, ChromaType
  <2>5. counter' \in [Deployed -> Nat]
    BY <1>0, <1>1, <2>1 DEF Append, Upsert, ChromaType
  <2>6. TableType'
    BY <1>0, <1>1 DEF Append, TableType
  <2> QED BY <1>0, <1>1, <2>2, <2>3, <2>4, <2>5, <2>6, TypeParts DEF Append, ChromaType
<1>2. ASSUME NEW ok \in BOOLEAN, Save(ok) PROVE TypeOK'
  <2>1. TableType'
    BY <1>0, <1>2, RecallAssumption DEF Save, TableType
  <2> QED BY <1>0, <1>2, <2>1, TypeParts DEF Save, ChromaType
<1>3. CASE Restart
  BY <1>0, <1>3, Nothing, TypeParts DEF Restart, ChromaType, TableType
<1> QED BY <1>1, <1>2, <1>3

LEMMA TypeBackfill ==
  ASSUME TypeOK,
         \/ \E mode \in {"move", "dry", "drop"} : BackfillStart(mode)
         \/ \E a \in Agents : ReadCollection(a) \/ DropCollection(a)
         \/ Compare \/ Finish \/ DropEnd \/ BackfillDies
         \/ \E ok \in BOOLEAN : Embed(ok)
         \/ \E landed, acked \in BOOLEAN : Commit(landed, acked)
  PROVE  TypeOK'
<1>0. ChromaType /\ TableType /\ task \in Backfills /\ ask \in Questions
  BY TypeParts
<1>1. ASSUME UNCHANGED <<stores, process, ask>>, task' \in Backfills PROVE TypeOK'
  BY <1>0, <1>1, TypeParts DEF stores, process, ChromaType, TableType
<1>2. ASSUME NEW mode \in {"move", "dry", "drop"}, BackfillStart(mode) PROVE TypeOK'
  BY <1>0, <1>1, <1>2 DEF BackfillStart, NoTask, Backfills, ChromaType
<1>3. ASSUME NEW a \in Agents, ReadCollection(a) PROVE TypeOK'
  BY <1>0, <1>1, <1>3, StoredFacts DEF ReadCollection, Backfills
<1>4. CASE Compare
  <2>1. PICK F \in SUBSET Facts :
          \/ task' = [task EXCEPT !.pc = "next"]
          \/ task' = [task EXCEPT !.pc = "write", !.fresh = F]
          \/ \E a \in task.of : task' = [task EXCEPT !.pc = "next", !.droppable = @ \cup {a}]
    <3>1. \A a : Fresh(task.snap, Rows(a)) \in SUBSET Facts
      BY <1>0 DEF Fresh, Backfills
    <3> QED BY <1>4, <3>1, Zenon DEF Compare
  <2>2. ASSUME NEW a \in task.of, task' = [task EXCEPT !.pc = "next", !.droppable = @ \cup {a}]
        PROVE  task' \in Backfills
    BY <1>0, <2>2 DEF Backfills
  <2>3. task' \in Backfills
    BY <1>0, <2>1, <2>2 DEF Backfills
  <2> QED BY <1>1, <1>4, <2>3 DEF Compare
<1>5. CASE Finish \/ DropEnd \/ BackfillDies
  BY <1>0, <1>1, <1>5, Nothing DEF Finish, DropEnd, BackfillDies, Backfills
<1>6. ASSUME NEW ok \in BOOLEAN, Embed(ok) PROVE TypeOK'
  BY <1>0, <1>1, <1>6 DEF Embed, Unembedded, Backfills
<1>7. ASSUME NEW landed \in BOOLEAN, NEW acked \in BOOLEAN, Commit(landed, acked) PROVE TypeOK'
  <2>1. task' \in Backfills
    BY <1>0, <1>7, Nothing DEF Commit, Backfills
  <2>2. TableType'
    BY <1>0, <1>7 DEF Commit, TableType, process
  <2> QED BY <1>0, <1>7, <2>1, <2>2, TypeParts DEF Commit, ChromaType, process
<1>8. ASSUME NEW a \in Agents, DropCollection(a) PROVE TypeOK'
  <2>1. task' \in Backfills
    BY <1>0, <1>8 DEF DropCollection, Backfills
  <2>2. ask' \in Questions
    <3>1. (ask.trouble \/ (ask.pc # "off" /\ a \in ask.of)) \in BOOLEAN
      BY <1>0 DEF Questions
    <3>2. PICK t \in BOOLEAN : ask' = [ask EXCEPT !.trouble = t]
      BY <1>8, <3>1, Zenon DEF DropCollection
    <3> QED BY <1>0, <3>2 DEF Questions
  <2>3. ChromaType'
    BY <1>0, <1>8 DEF DropCollection, ChromaType, Empty
  <2> QED BY <1>0, <1>8, <2>1, <2>2, <2>3, TypeParts DEF DropCollection, TableType
<1> QED BY <1>2, <1>3, <1>4, <1>5, <1>6, <1>7, <1>8

LEMMA TypeQuestion ==
  ASSUME TypeOK,
         \/ \E a \in Deployed : Ask(a)
         \/ \E ok \in BOOLEAN : AskTable(ok) \/ AskCount(ok) \/ AskQuery(ok) \/ AskRank(ok)
         \/ Answered
  PROVE  TypeOK'
<1>0. ChromaType /\ TableType /\ task \in Backfills /\ ask \in Questions
  BY TypeParts
<1>1. ASSUME UNCHANGED <<stores, process, task>>, ask' \in Questions PROVE TypeOK'
  BY <1>0, <1>1, TypeParts DEF stores, process, ChromaType, TableType
<1>2. ASSUME NEW a \in Deployed, Ask(a) PROVE TypeOK'
  BY <1>0, <1>1, <1>2 DEF Ask, NoAsk, Questions
<1>3. ASSUME NEW ok \in BOOLEAN, AskTable(ok) PROVE TypeOK'
  <2>1. CASE ask' = [ask EXCEPT !.pc = "count"]
    BY <1>0, <1>1, <1>3, <2>1 DEF AskTable, Questions
  <2>2. CASE \E hits : Say(hits, FALSE)
    BY <1>0, <1>1, <1>3, <2>2, SaidType DEF AskTable
  <2> QED BY <1>3, <2>1, <2>2 DEF AskTable
<1>4. ASSUME NEW ok \in BOOLEAN, AskCount(ok) PROVE TypeOK'
  <2>1. ask' \in Questions
    BY <1>0, <1>4 DEF AskCount, Questions
  <2>2. handle' \in [Deployed -> {"none", "live", "stale"}] /\ coll' \subseteq Agents
    BY <1>0, <1>4, RecallAssumption DEF AskCount, Handle, Opened, ChromaType, Questions
  <2> QED BY <1>0, <1>4, <2>1, <2>2, TypeParts DEF AskCount, ChromaType, TableType
<1>5. ASSUME NEW ok \in BOOLEAN, AskQuery(ok) PROVE TypeOK'
  <2>1. \E hits : Say(hits, ~ok)
    BY <1>5 DEF AskQuery
  <2> QED BY <1>0, <1>1, <1>5, <2>1, SaidType DEF AskQuery
<1>6. ASSUME NEW ok \in BOOLEAN, AskRank(ok) PROVE TypeOK'
  <2>1. \E hits : Say(hits, ~ok)
    BY <1>6 DEF AskRank
  <2> QED BY <1>0, <1>1, <1>6, <2>1, SaidType DEF AskRank
<1>7. CASE Answered
  BY <1>1, <1>7, Nothing DEF Answered
<1> QED BY <1>2, <1>3, <1>4, <1>5, <1>6, <1>7

LEMMA TypeStep == TypeOK /\ [Next]_vars => TypeOK'
<1> SUFFICES ASSUME TypeOK, [Next]_vars PROVE TypeOK'
  OBVIOUS
<1>1. CASE UNCHANGED vars
  BY <1>1, TypeParts DEF vars, ChromaType, TableType
<1> QED BY <1>1, TypeServer, TypeBackfill, TypeQuestion DEF Next

\* The stores, the backfill and the question keep their shape.
THEOREM RecallTypeCorrect == Spec => []TypeOK
  BY TypeInit, TypeStep, PTL DEF Spec
-----------------------------------------------------------------------------
\* Once a fact of a has left Chroma it must be in one of these.
Safe(a, f) == f \in Rows(a) \/ <<a, f>> \in replaced
Before(a) == {Legacy[a][i] : i \in Ids} \ {NoFact}

\* Nothing is lost on the way from a collection through the backfill to the table:
\* what it has read, what it is about to write, and what it may drop.
InChroma == \A a \in Agents : \A f \in Before(a) : f \in Stored(a) \/ Safe(a, f)
InRead == task.pc = "read" =>
    \A a \in task.of : \A f \in Before(a) : f \in task.snap \/ Safe(a, f)
InWrite == task.pc \in {"write", "commit"} =>
    \A a \in task.of : \A f \in Before(a) : f \in task.fresh \/ Safe(a, f)
InTable == \A a \in task.droppable : \A f \in Before(a) : Safe(a, f)
OneOf == \A a, b \in task.of : a = b

KeptInv == OneOf /\ InChroma /\ InRead /\ InWrite /\ InTable

\* What only adds to the table and to the history, and leaves the backfill alone.
LEMMA Grows ==
  ASSUME KeptInv, task' = task, \A a \in Agents : \A f \in Before(a) : Safe(a, f) => Safe(a, f)',
         \A a \in Agents : \A f \in Before(a) : f \in Stored(a) => f \in Stored(a)' \/ Safe(a, f)',
         task \in Backfills
  PROVE  KeptInv'
  BY DEF KeptInv, OneOf, InChroma, InRead, InWrite, InTable, Backfills, Before

LEMMA KeptInit == Init => KeptInv
<1> SUFFICES ASSUME Init PROVE KeptInv
  OBVIOUS
<1>1. task = NoTask /\ \A a \in Agents : Stored(a) = Before(a)
  BY DEF Init, Stored, Before
<1> QED BY <1>1 DEF NoTask, KeptInv, OneOf, InChroma, InRead, InWrite, InTable

LEMMA KeptStep == TypeOK /\ KeptInv /\ [Next]_vars => KeptInv'
<1> SUFFICES ASSUME TypeOK, KeptInv, [Next]_vars PROVE KeptInv'
  OBVIOUS
<1>0. ChromaType /\ TableType /\ task \in Backfills
  BY TypeParts
<1>00. \A a \in Agents : Before(a) \in SUBSET Facts
  BY RecallAssumption DEF Before
<1>1. ASSUME NEW a \in Deployed, NEW f \in Facts, NEW ok \in BOOLEAN, Append(a, f, ok)
      PROVE  KeptInv'
  <2> DEFINE n == counter[a] + 1
  <2>1. a \in Agents /\ n \in Ids /\ UNCHANGED <<live, moved, task>>
    BY <1>1, RecallAssumption DEF Append
  <2>2. \/ UNCHANGED <<docs, replaced>>
        \/ docs' = [docs EXCEPT ![a][n] = f]
           /\ replaced' = IF docs[a][n] \notin {NoFact, f}
                          THEN replaced \cup {<<a, docs[a][n]>>} ELSE replaced
    BY <1>1 DEF Append, Upsert
  <2>3. \A b \in Agents : \A g \in Before(b) : Safe(b, g) => Safe(b, g)'
    BY <2>1, <2>2 DEF Safe, Rows
  <2>4. ASSUME NEW b \in Agents, NEW g \in Before(b), g \in Stored(b)
        PROVE  g \in Stored(b)' \/ Safe(b, g)'
    <3>1. PICK i \in Ids : docs[b][i] = g /\ g # NoFact
      BY <2>4 DEF Stored
    <3>2. docs'[b][i] = g => g \in Stored(b)'
      BY <3>1 DEF Stored
    <3>3. CASE docs'[b][i] # g
      <4>1. b = a /\ i = n /\ g # f /\ <<a, g>> \in replaced'
        BY <1>0, <2>1, <2>2, <3>1, <3>3 DEF ChromaType
      <4> QED BY <4>1 DEF Safe
    <3> QED BY <3>2, <3>3
  <2> QED BY <1>0, <2>1, <2>3, <2>4, Grows
<1>2. ASSUME NEW ok \in BOOLEAN, Save(ok) PROVE KeptInv'
  <2>1. /\ \A b \in Agents : \A g \in Before(b) : Safe(b, g) => Safe(b, g)'
        /\ \A b \in Agents : Stored(b)' = Stored(b)
    BY <1>2 DEF Save, Safe, Rows, Stored
  <2> QED BY <1>0, <1>2, <2>1, Grows DEF Save
<1>3. ASSUME UNCHANGED <<docs, live, moved, replaced>>
      PROVE  \A b : Stored(b)' = Stored(b) /\ Rows(b)' = Rows(b)
                    /\ \A g : Safe(b, g)' = Safe(b, g)
  BY <1>3 DEF Stored, Rows, Safe
<1>4. ASSUME UNCHANGED <<docs, live, moved, replaced, task>> PROVE KeptInv'
  BY <1>0, <1>3, <1>4, Grows
<1>5. ASSUME task' = NoTask, UNCHANGED <<docs, live, moved, replaced>> PROVE KeptInv'
  BY <1>3, <1>5 DEF NoTask, KeptInv, OneOf, InChroma, InRead, InWrite, InTable
<1>6. ASSUME NEW mode \in {"move", "dry", "drop"}, BackfillStart(mode) PROVE KeptInv'
  <2>1. task'.pc = "next" /\ task'.of = {} /\ task'.droppable = {}
    BY <1>6 DEF BackfillStart, NoTask
  <2> QED BY <1>3, <1>6, <2>1 DEF BackfillStart, stores, KeptInv, OneOf, InChroma, InRead, InWrite, InTable
<1>7. ASSUME NEW a \in Agents, ReadCollection(a) PROVE KeptInv'
  <2>1. UNCHANGED <<docs, live, moved, replaced>>
    BY <1>7 DEF ReadCollection, stores
  <2>2. CASE Stored(a) = {}
    <3>1. task'.pc = "next" /\ task'.of = task.of /\ task'.droppable = task.droppable \cup {a}
      BY <1>0, <1>7, <2>2 DEF ReadCollection, Backfills
    <3> QED BY <1>3, <2>1, <2>2, <3>1 DEF KeptInv, OneOf, InChroma, InRead, InWrite, InTable
  <2>3. CASE Stored(a) # {}
    <3>1. task'.pc = "read" /\ task'.of = {a} /\ task'.snap = Stored(a)
          /\ task'.droppable = task.droppable
      BY <1>0, <1>7, <2>3 DEF ReadCollection, Backfills
    <3> QED BY <1>3, <2>1, <3>1 DEF KeptInv, OneOf, InChroma, InRead, InWrite, InTable
  <2> QED BY <2>2, <2>3
<1>8. CASE Compare
  <2>1. UNCHANGED <<docs, live, moved, replaced>> /\ task.pc = "read"
    BY <1>8 DEF Compare, stores
  <2>2. PICK a \in task.of :
          task' = IF Fresh(task.snap, Rows(a)) = {}
                  THEN [task EXCEPT !.pc = "next", !.droppable = @ \cup {a}]
                  ELSE IF task.mode = "dry" THEN [task EXCEPT !.pc = "next"]
                  ELSE [task EXCEPT !.pc = "write", !.fresh = Fresh(task.snap, Rows(a))]
    BY <1>8 DEF Compare
  <2>3. \A f \in Before(a) : f \in Fresh(task.snap, Rows(a)) \/ Safe(a, f)
    BY <2>1 DEF KeptInv, InRead, Fresh, Safe
  <2>4. task'.of = task.of /\ \A b \in task.of : b = a
    BY <1>0, <2>2 DEF KeptInv, OneOf, Backfills
  <2>5. CASE Fresh(task.snap, Rows(a)) = {}
    <3>1. task'.pc = "next" /\ task'.droppable = task.droppable \cup {a}
      BY <1>0, <2>2, <2>5 DEF Backfills
    <3> QED BY <1>3, <2>1, <2>3, <2>4, <2>5, <3>1
            DEF KeptInv, OneOf, InChroma, InRead, InWrite, InTable
  <2>6. CASE Fresh(task.snap, Rows(a)) # {}
    <3>1. task'.droppable = task.droppable
          /\ \/ task'.pc = "next"
             \/ task'.pc = "write" /\ task'.fresh = Fresh(task.snap, Rows(a))
      BY <1>0, <2>2, <2>6 DEF Backfills
    <3> QED BY <1>3, <2>1, <2>3, <2>4, <3>1 DEF KeptInv, OneOf, InChroma, InRead, InWrite, InTable
  <2> QED BY <2>5, <2>6
<1>9. ASSUME NEW ok \in BOOLEAN, Embed(ok) PROVE KeptInv'
  <2>1. /\ task'.pc \in {"next", "commit"} /\ task'.of = task.of
        /\ task'.fresh = task.fresh /\ task'.droppable = task.droppable
        /\ task.pc = "write" /\ UNCHANGED <<docs, live, moved, replaced>>
    BY <1>0, <1>9 DEF Embed, Unembedded, Backfills, stores
  <2> QED BY <1>3, <2>1 DEF KeptInv, OneOf, InChroma, InRead, InWrite, InTable
<1>10. ASSUME NEW landed \in BOOLEAN, NEW acked \in BOOLEAN, Commit(landed, acked) PROVE KeptInv'
  <2>1. UNCHANGED <<docs, live, replaced>> /\ task.pc = "commit" /\ (acked => landed)
    BY <1>10 DEF Commit
  <2>2. \A r \in Agents \X Facts : moved[r] \in Nat /\ moved'[r] \in {moved[r], moved[r] + 1}
    BY <1>0, <1>10 DEF Commit, TableType
  <2>3. \A b \in Agents : \A g \in Before(b) : Safe(b, g) => Safe(b, g)'
    <3> SUFFICES ASSUME NEW b \in Agents, NEW g \in Facts, Safe(b, g) PROVE Safe(b, g)'
      BY <1>00
    <3>1. <<b, g>> \in Agents \X Facts
      OBVIOUS
    <3>2. moved[<<b, g>>] > 0 => moved'[<<b, g>>] > 0
      BY <2>2, <3>1
    <3>3. <<b, g>> \in replaced => <<b, g>> \in replaced'
      BY <2>1
    <3>4. g \in Rows(b) => g \in Rows(b)'
      BY <2>1, <3>2 DEF Rows
    <3> QED BY <3>3, <3>4 DEF Safe
  <2>4. \A b \in Agents : Stored(b)' = Stored(b)
    BY <2>1 DEF Stored
  <2>5. CASE ~acked
    <3>1. task' = NoTask
      BY <1>10, <2>5 DEF Commit
    <3> QED BY <2>3, <2>4, <3>1 DEF NoTask, KeptInv, OneOf, InChroma, InRead, InWrite, InTable
  <2>6. CASE acked
    <3>1. task'.pc = "next" /\ task'.droppable = task.droppable \cup task.of /\ task'.of = task.of
      BY <1>0, <1>10, <2>6 DEF Commit, Backfills
    <3>2. \A a \in task.of : \A f \in task.fresh : f \in Rows(a)'
      <4> SUFFICES ASSUME NEW a \in task.of, NEW f \in task.fresh PROVE f \in Rows(a)'
        OBVIOUS
      <4>1. a \in Agents /\ f \in Facts
        BY <1>0 DEF Backfills
      <4>2. <<a, f>> \in DOMAIN moved /\ <<a, f>> \in Agents \X Facts
        BY <1>0, <4>1 DEF TableType
      <4>3. moved'[<<a, f>>] = moved[<<a, f>>] + 1 /\ moved[<<a, f>>] \in Nat
        BY <1>0, <1>10, <2>1, <2>6, <4>1, <4>2 DEF Commit, TableType
      <4> QED BY <4>1, <4>3 DEF Rows
    <3>3. \A a \in task'.droppable : \A f \in Before(a) : Safe(a, f)'
      <4>1. \A a \in task.of : \A f \in Before(a) : f \in task.fresh \/ Safe(a, f)
        BY <2>1 DEF KeptInv, InWrite
      <4>2. \A a \in task.droppable : \A f \in Before(a) : Safe(a, f)
        BY DEF KeptInv, InTable
      <4>3. task.of \subseteq Agents /\ task.droppable \subseteq Agents
        BY <1>0 DEF Backfills
      <4> QED BY <2>3, <3>1, <3>2, <4>1, <4>2, <4>3 DEF Safe
    <3> QED BY <2>3, <2>4, <3>1, <3>3 DEF KeptInv, OneOf, InChroma, InRead, InWrite, InTable
  <2> QED BY <2>5, <2>6
<1>11. ASSUME NEW a \in Agents, DropCollection(a) PROVE KeptInv'
  <2>1. /\ UNCHANGED <<live, moved, replaced>> /\ task.pc = "drop" /\ a \in task.droppable
        /\ docs' = [docs EXCEPT ![a] = Empty]
        /\ task' = [task EXCEPT !.droppable = @ \ {a}]
    BY <1>11 DEF DropCollection
  <2>2. \A b, g : Safe(b, g)' = Safe(b, g)
    BY <2>1 DEF Safe, Rows
  <2>3. \A b \in Agents \ {a} : Stored(b)' = Stored(b)
    BY <1>0, <2>1 DEF Stored, ChromaType
  <2>4. InChroma'
    BY <2>1, <2>2, <2>3 DEF KeptInv, InChroma, InTable
  <2>5. task'.pc = "drop" /\ task'.of = task.of /\ task'.droppable = task.droppable \ {a}
    BY <1>0, <2>1 DEF Backfills
  <2> QED BY <2>2, <2>4, <2>5 DEF KeptInv, OneOf, InRead, InWrite, InTable
<1>12. CASE Finish
  <2>1. UNCHANGED <<docs, live, moved, replaced>>
    BY <1>12 DEF Finish, stores
  <2>2. CASE task' = [task EXCEPT !.pc = "drop"]
    <3>1. task'.pc = "drop" /\ task'.of = task.of /\ task'.droppable = task.droppable
      BY <1>0, <2>2 DEF Backfills
    <3> QED BY <1>3, <2>1, <3>1 DEF KeptInv, OneOf, InChroma, InRead, InWrite, InTable
  <2> QED BY <1>5, <1>12, <2>1, <2>2 DEF Finish
<1>13. CASE DropEnd \/ BackfillDies
  BY <1>5, <1>13 DEF DropEnd, BackfillDies, stores
<1>14. CASE \/ Restart \/ Answered \/ UNCHANGED vars
            \/ \E a \in Deployed : Ask(a)
            \/ \E ok \in BOOLEAN : AskTable(ok) \/ AskCount(ok) \/ AskQuery(ok) \/ AskRank(ok)
  BY <1>4, <1>14 DEF Restart, Answered, Ask, AskTable, AskCount, AskQuery, AskRank, vars, stores
<1> QED BY <1>1, <1>2, <1>6, <1>7, <1>8, <1>9, <1>10, <1>11, <1>12, <1>13, <1>14 DEF Next

\* backfill, upsert and delete_collection: nothing of before the cutover is lost
\* except to a fact number used again, wherever a backfill is interrupted.
THEOREM LegacyKeptHolds == Spec => []LegacyKept
<1>1. KeptInv => LegacyKept
  BY DEF KeptInv, InChroma, Before, Safe, LegacyKept
<1>2. Spec => []KeptInv
  BY RecallTypeCorrect, KeptInit, KeptStep, PTL DEF Spec
<1> QED BY <1>1, <1>2, PTL
-----------------------------------------------------------------------------
\* What is about to be written was not in the table, and nobody else moves it.
Unmoved == task.pc \in {"write", "commit"} =>
    \A a \in task.of : \A f \in task.fresh : moved[<<a, f>>] = 0

OnceInv == OneOf /\ Unmoved /\ BackfilledOnce

LEMMA OnceInit == Init => OnceInv
  BY DEF Init, NoTask, OnceInv, OneOf, Unmoved, BackfilledOnce

LEMMA OnceStep == TypeOK /\ OnceInv /\ [Next]_vars => OnceInv'
<1> SUFFICES ASSUME TypeOK, OnceInv, [Next]_vars PROVE OnceInv'
  OBVIOUS
<1>0. TableType /\ task \in Backfills
  BY TypeParts
<1>1. ASSUME moved' = moved, task'.pc \in {"write", "commit"} => UNCHANGED task,
             task'.of = task.of \/ \E a : task'.of \subseteq {a}
      PROVE  OnceInv'
  BY <1>1 DEF OnceInv, OneOf, Unmoved, BackfilledOnce
<1>2. CASE Compare
  <2>1. PICK a \in task.of :
          task' = IF Fresh(task.snap, Rows(a)) = {}
                  THEN [task EXCEPT !.pc = "next", !.droppable = @ \cup {a}]
                  ELSE IF task.mode = "dry" THEN [task EXCEPT !.pc = "next"]
                  ELSE [task EXCEPT !.pc = "write", !.fresh = Fresh(task.snap, Rows(a))]
    BY <1>2 DEF Compare
  <2>2. moved' = moved
    BY <1>2 DEF Compare, stores
  <2>3. \A f \in Fresh(task.snap, Rows(a)) : moved[<<a, f>>] = 0
    <3> SUFFICES ASSUME NEW f \in Fresh(task.snap, Rows(a)) PROVE moved[<<a, f>>] = 0
      OBVIOUS
    <3>1. f \in Facts /\ a \in Agents /\ ~(moved[<<a, f>>] > 0)
      BY <1>0 DEF Fresh, Rows, Backfills
    <3>2. moved[<<a, f>>] \in Nat
      BY <1>0, <3>1 DEF TableType
    <3> QED BY <3>1, <3>2
  <2>4. /\ task'.of = task.of /\ \A b \in task.of : b = a
        /\ \/ task'.pc = "next"
           \/ task'.pc = "write" /\ task'.fresh = Fresh(task.snap, Rows(a))
    BY <1>0, <2>1 DEF OnceInv, OneOf, Backfills
  <2> QED BY <2>2, <2>3, <2>4 DEF OnceInv, OneOf, Unmoved, BackfilledOnce
<1>3. ASSUME NEW ok \in BOOLEAN, Embed(ok) PROVE OnceInv'
  <2>1. /\ task'.pc \in {"next", "commit"} /\ task'.of = task.of
        /\ task'.fresh = task.fresh /\ task.pc = "write" /\ moved' = moved
    BY <1>0, <1>3 DEF Embed, Unembedded, Backfills, stores
  <2> QED BY <2>1 DEF OnceInv, OneOf, Unmoved, BackfilledOnce
<1>4. ASSUME NEW landed \in BOOLEAN, NEW acked \in BOOLEAN, Commit(landed, acked) PROVE OnceInv'
  <2>1. task.pc = "commit" /\ task'.pc \in {"next", "off"} /\ (task'.of = task.of \/ task'.of = {})
    BY <1>0, <1>4 DEF Commit, NoTask, Backfills
  <2>2. ASSUME NEW r \in Agents \X Facts PROVE moved'[r] <= 1 /\ r \in DOMAIN moved
    <3>1. moved[r] \in Nat /\ moved[r] <= 1 /\ r \in DOMAIN moved
      BY <1>0 DEF OnceInv, BackfilledOnce, TableType
    <3>2. r[1] \in task.of /\ r[2] \in task.fresh => moved[r] = 0
      <4>1. r = <<r[1], r[2]>>
        OBVIOUS
      <4> QED BY <2>1, <4>1 DEF OnceInv, Unmoved
    <3> QED BY <1>4, <3>1, <3>2 DEF Commit
  <2>3. DOMAIN moved' \subseteq Agents \X Facts
    BY <1>0, <1>4 DEF Commit, TableType
  <2> QED BY <2>1, <2>2, <2>3 DEF OnceInv, OneOf, Unmoved, BackfilledOnce
<1>5. ASSUME NEW mode \in {"move", "dry", "drop"}, BackfillStart(mode) PROVE OnceInv'
  BY <1>1, <1>5 DEF BackfillStart, NoTask, stores
<1>6. ASSUME NEW a \in Agents, ReadCollection(a) PROVE OnceInv'
  <2>1. task'.pc \in {"next", "read"} /\ (task'.of = task.of \/ task'.of = {a}) /\ moved' = moved
    BY <1>0, <1>6 DEF ReadCollection, Backfills, stores
  <2> QED BY <1>1, <2>1
<1>7. CASE Finish \/ DropEnd \/ BackfillDies \/ \E a \in Agents : DropCollection(a)
  <2>1. task'.pc \in {"off", "drop"} /\ (task'.of = task.of \/ task'.of = {}) /\ moved' = moved
    BY <1>0, <1>7 DEF Finish, DropEnd, BackfillDies, DropCollection, NoTask, Backfills, stores
  <2> QED BY <1>1, <2>1
<1>8. CASE UNCHANGED <<moved, task>>
  BY <1>1, <1>8
<1> QED BY <1>2, <1>3, <1>4, <1>5, <1>6, <1>7, <1>8
        DEF Next, Append, Save, Restart, Answered, Ask, AskTable, AskCount, AskQuery, AskRank,
            vars, stores

\* _dedup against the table: a fact is moved once, however often the backfill is
\* run and wherever it is interrupted, also after a commit that was not answered.
THEOREM BackfilledOnceHolds == Spec => []BackfilledOnce
<1>1. OnceInv => BackfilledOnce
  BY DEF OnceInv
<1>2. Spec => []OnceInv
  BY RecallTypeCorrect, OnceInit, OnceStep, PTL DEF Spec
<1> QED BY <1>1, <1>2, PTL
-----------------------------------------------------------------------------
\* A selection from hits that are some keeps some.
LEMMA KeepsSome ==
  ASSUME NEW hits, IsFiniteSet(hits), hits # {}
  PROVE  {} \notin Reranked(hits)
<1> DEFINE plain == hits \cap (Plain \cup {Self})
<1>1. plain \in SUBSET hits
  OBVIOUS
<1>2. IsFiniteSet(plain) /\ Cardinality(plain) \in Nat /\ (Cardinality(plain) = 0 <=> plain = {})
  BY <1>1, FS_Subset, FS_EmptySet, FS_CardinalityType
<1> SUFFICES ASSUME NEW kept \in SUBSET plain, (hits \ plain) \cup kept = {},
                    Cardinality(kept) = IF Cardinality(plain) <= PlainCap
                                        THEN Cardinality(plain) ELSE PlainCap
             PROVE  FALSE
  BY DEF Reranked
<1>3. kept = {} /\ plain # {}
  OBVIOUS
<1> HIDE DEF plain
<1>4. Cardinality(kept) = 0
  BY <1>3, FS_EmptySet
<1> QED BY <1>2, <1>3, <1>4, RecallAssumption

\* The collection an agent is about to search is there and has documents, unless
\* a drop has taken it away in the meantime.
Searchable ==
    ask.pc = "query" =>
      ask.trouble \/ \A a \in ask.of : handle[a] = "live" /\ Stored(a) # {}

OneAsked == \A a, b \in ask.of : a = b

LossInv == OneAsked /\ Searchable /\ EmptyNeedsOutage

LEMMA LossInit == Init => LossInv
  BY DEF Init, NoAsk, LossInv, OneAsked, Searchable, EmptyNeedsOutage

\* A question that finds something is answered; one that does not is in trouble.
LEMMA Says ==
  ASSUME ask \in Questions, NEW hits, NEW trouble \in BOOLEAN, Say(hits, trouble),
         (IsFiniteSet(hits) /\ hits # {}) \/ trouble \/ ask.trouble
  PROVE  ask' = NoAsk \/ (ask'.pc = "empty" /\ ask'.trouble /\ ask'.of = ask.of)
<1>1. PICK kept \in Reranked(hits) :
        ask' = IF kept # {} THEN NoAsk
               ELSE [ask EXCEPT !.pc = "empty", !.trouble = ask.trouble \/ trouble]
  BY Zenon DEF Say
<1>2. CASE kept # {}
  BY <1>1, <1>2
<1>3. CASE kept = {}
  <2>1. trouble \/ ask.trouble
    BY <1>3, KeepsSome
  <2>2. (ask.trouble \/ trouble) = TRUE
    BY <2>1
  <2>3. ask' = [ask EXCEPT !.pc = "empty", !.trouble = TRUE]
    BY <1>1, <1>3, <2>2
  <2> QED BY <2>3 DEF Questions
<1> QED BY <1>2, <1>3

LEMMA LossStep == TypeOK /\ LossInv /\ [Next]_vars => LossInv'
<1> SUFFICES ASSUME TypeOK, LossInv, [Next]_vars PROVE LossInv'
  OBVIOUS
<1>0. ChromaType /\ TableType /\ task \in Backfills /\ ask \in Questions
  BY TypeParts
<1>1. ASSUME ask' = NoAsk \/ (ask'.pc = "empty" /\ ask'.trouble /\ ask'.of = ask.of) PROVE LossInv'
  BY <1>1 DEF NoAsk, LossInv, OneAsked, Searchable, EmptyNeedsOutage
<1>2. CASE UNCHANGED <<ask, handle, docs>>
  BY <1>2 DEF LossInv, OneAsked, Searchable, EmptyNeedsOutage, Stored
<1>3. ASSUME NEW a \in Deployed, NEW f \in Facts, NEW ok \in BOOLEAN, Append(a, f, ok)
      PROVE  LossInv'
  <2> DEFINE n == counter[a] + 1
  <2>1. a \in Agents /\ n \in Ids /\ ask' = ask
    BY <1>3, RecallAssumption DEF Append
  <2>2. \A b \in Deployed : handle[b] = "live" => handle'[b] = "live"
    BY <1>0, <1>3 DEF Append, Handle, ChromaType
  <2>3. docs' = docs \/ docs' = [docs EXCEPT ![a][n] = f]
    BY <1>3 DEF Append, Upsert
  <2>4. ASSUME NEW b \in Deployed, Stored(b) # {} PROVE Stored(b)' # {}
    <3>1. b \in Agents
      BY RecallAssumption
    <3>2. CASE docs' = docs \/ b # a
      <4>1. docs'[b] = docs[b]
        BY <1>0, <2>3, <3>1, <3>2 DEF ChromaType
      <4> QED BY <2>4, <4>1 DEF Stored
    <3>3. CASE docs' = [docs EXCEPT ![a][n] = f] /\ b = a
      <4>1. docs'[b][n] = f /\ f # NoFact
        BY <1>0, <2>1, <3>3, RecallAssumption DEF ChromaType
      <4> QED BY <2>1, <4>1 DEF Stored
    <3> QED BY <2>3, <3>2, <3>3
  <2>5. ask.of \subseteq Deployed
    BY <1>0 DEF Questions
  <2> QED BY <2>1, <2>2, <2>4, <2>5 DEF LossInv, OneAsked, Searchable, EmptyNeedsOutage
<1>4. CASE Restart
  BY <1>1, <1>4 DEF Restart
<1>5. ASSUME NEW a \in Agents, DropCollection(a) PROVE LossInv'
  <2>1. PICK t \in BOOLEAN : t = (ask.trouble \/ (ask.pc # "off" /\ a \in ask.of))
    BY <1>0 DEF Questions
  <2>2. ask' = [ask EXCEPT !.trouble = t]
    BY <1>5, <2>1, Zenon DEF DropCollection
  <2>3. ask'.pc = ask.pc /\ ask'.of = ask.of /\ ask'.trouble = t
    BY <1>0, <2>2 DEF Questions
  <2>4. EmptyNeedsOutage' /\ OneAsked'
    BY <2>1, <2>3 DEF LossInv, OneAsked, EmptyNeedsOutage
  <2>5. ASSUME ask.pc = "query", ~t PROVE \A b \in ask.of : handle'[b] = "live" /\ Stored(b)' # {}
    <3>1. ask.of \subseteq Deployed \ {a} /\ ask.of \subseteq Agents
      BY <1>0, <2>1, <2>5, RecallAssumption DEF Questions
    <3>2. \A b \in ask.of : handle[b] = "live" /\ Stored(b) # {}
      BY <2>1, <2>5 DEF LossInv, Searchable
    <3>3. \A b \in ask.of : handle'[b] = handle[b] /\ Stored(b)' = Stored(b)
      BY <1>0, <1>5, <3>1 DEF DropCollection, ChromaType, Stored
    <3> QED BY <3>2, <3>3
  <2> QED BY <2>3, <2>4, <2>5 DEF LossInv, Searchable
<1>6. ASSUME NEW a \in Deployed, Ask(a) PROVE LossInv'
  BY <1>6 DEF Ask, NoAsk, LossInv, OneAsked, Searchable, EmptyNeedsOutage
<1>7. ASSUME NEW ok \in BOOLEAN, AskTable(ok) PROVE LossInv'
  <2>1. PICK a \in ask.of :
          LET hits == IF ok THEN Rows(a) ELSE {} IN
          IF TakesTable(hits, ok) THEN Say(hits, FALSE)
          ELSE ask' = [ask EXCEPT !.pc = "count"]
    BY <1>7 DEF AskTable
  <2>2. CASE ask' = [ask EXCEPT !.pc = "count"]
    BY <1>0, <2>2 DEF Questions, LossInv, OneAsked, Searchable, EmptyNeedsOutage
  <2>3. CASE ok /\ Rows(a) # {} /\ Say(Rows(a), FALSE)
    <3>1. IsFiniteSet(Rows(a))
      <4>1. Rows(a) \in SUBSET Facts
        BY DEF Rows
      <4> QED BY <4>1, RecallAssumption, FS_Subset
    <3> QED BY <1>0, <1>1, <2>3, <3>1, Says
  <2> QED BY <2>1, <2>2, <2>3 DEF TakesTable
<1>8. ASSUME NEW ok \in BOOLEAN, AskCount(ok) PROVE LossInv'
  <2>1. PICK a \in ask.of :
          LET h == Handle(a, ok)
              counted == h = "live" /\ ok /\ Stored(a) # {}
          IN  /\ handle' = [handle EXCEPT ![a] = h]
              /\ ask' = [ask EXCEPT !.pc = IF counted THEN "query" ELSE "rank"]
    BY <1>8 DEF AskCount
  <2>2. docs' = docs
    BY <1>8 DEF AskCount
  <2>3. ask'.of = ask.of /\ (ask'.pc = "query" => Handle(a, ok) = "live" /\ Stored(a) # {})
        /\ ask'.pc \in {"query", "rank"}
    BY <1>0, <2>1 DEF Questions
  <2>4. handle'[a] = Handle(a, ok) /\ a \in Deployed
    BY <1>0, <2>1 DEF Questions, ChromaType
  <2>5. \A b \in ask.of : b = a
    BY <2>1 DEF LossInv, OneAsked
  <2> QED BY <2>2, <2>3, <2>4, <2>5 DEF LossInv, OneAsked, Searchable, EmptyNeedsOutage, Stored
<1>9. ASSUME NEW ok \in BOOLEAN, AskQuery(ok) PROVE LossInv'
  <2>1. PICK a \in ask.of : Say(IF ok /\ handle[a] = "live" THEN Stored(a) ELSE {}, ~ok)
    BY <1>9 DEF AskQuery
  <2>2. a \in Agents /\ ask.pc = "query"
    BY <1>0, <1>9, RecallAssumption DEF Questions, AskQuery
  <2>3. IsFiniteSet(Stored(a))
    BY <1>0, <2>2, StoredFacts, RecallAssumption, FS_Subset
  <2>4. ok /\ ~ask.trouble => handle[a] = "live" /\ Stored(a) # {}
    BY <2>2 DEF LossInv, Searchable
  <2>5. ask' = NoAsk \/ (ask'.pc = "empty" /\ ask'.trouble /\ ask'.of = ask.of)
    BY <1>0, <2>1, <2>3, <2>4, Says
  <2> QED BY <1>1, <2>5
<1>10. ASSUME NEW ok \in BOOLEAN, AskRank(ok) PROVE LossInv'
  <2>1. PICK a \in ask.of :
          \E hits \in IF ok THEN {Memory(a)} ELSE SUBSET Memory(a) : Say(hits, ~ok)
    BY <1>10 DEF AskRank
  <2>2. IsFiniteSet(Memory(a)) /\ Memory(a) # {}
    <3>1. buffer[a] \in SUBSET Facts
      BY <1>0 DEF TableType, Questions
    <3>2. IsFiniteSet(buffer[a])
      BY <3>1, RecallAssumption, FS_Subset
    <3>3. IsFiniteSet(buffer[a] \cup {Self})
      BY <3>2, FS_AddElement
    <3>4. Memory(a) = buffer[a] \cup {Self}
      BY DEF Memory
    <3> QED BY <3>3, <3>4
  <2>3. ask' = NoAsk \/ (ask'.pc = "empty" /\ ask'.trouble /\ ask'.of = ask.of)
    BY <1>0, <2>1, <2>2, Says
  <2> QED BY <1>1, <2>3
<1>11. CASE Answered
  BY <1>1, <1>11 DEF Answered
<1>12. CASE \/ \E mode \in {"move", "dry", "drop"} : BackfillStart(mode)
            \/ \E a \in Agents : ReadCollection(a)
            \/ Compare \/ Finish \/ DropEnd \/ BackfillDies \/ UNCHANGED vars
            \/ \E ok \in BOOLEAN : Embed(ok) \/ Save(ok)
            \/ \E landed, acked \in BOOLEAN : Commit(landed, acked)
  BY <1>2, <1>12 DEF BackfillStart, ReadCollection, Compare, Finish, DropEnd, BackfillDies, Embed,
     Save, Commit, vars, stores, process
<1> QED BY <1>3, <1>4, <1>5, <1>6, <1>7, <1>8, <1>9, <1>10, <1>11, <1>12 DEF Next

\* answer_async: an agent without a fact to offer was failed by a service, or its
\* collection was dropped under the question.
THEOREM EmptyNeedsOutageHolds == Spec => []EmptyNeedsOutage
<1>1. LossInv => EmptyNeedsOutage
  BY DEF LossInv
<1>2. Spec => []LossInv
  BY RecallTypeCorrect, LossInit, LossStep, PTL DEF Spec
<1> QED BY <1>1, <1>2, PTL
=============================================================================
