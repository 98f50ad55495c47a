-------------------------- MODULE FactFlushProofs --------------------------
(***************************************************************************)
(* Theorems about FactFlush: its types, that without an overflow no fact   *)
(* is lost, that buffer and knowledge never drift apart, that a fact is    *)
(* stored twice only after a lost answer, that the write path implements   *)
(* DurableMemory, and that the table never runs ahead of the agents' rows. *)
(***************************************************************************)
EXTENDS FactFlush, FiniteSetTheorems, TLAPS

USE FlushAssumption

\* The capped tail of a list (the slices of _append_fact) is a list within the
\* cap, and a list with room for one more keeps every entry.
LEMMA WindowOfAppend ==
  ASSUME NEW s \in Lists, NEW n \in Fact
  PROVE  /\ Window(Append(s, n)) \in Lists
         /\ Len(s) < Cap => Window(Append(s, n)) = Append(s, n)
<1> DEFINE t == Append(s, n)
<1>1. t \in Seq(Fact) /\ Len(t) = Len(s) + 1 /\ Len(s) \in Nat /\ Len(s) <= Cap
  BY DEF Lists
<1>2. CASE Len(t) > Cap
  <2>1. Len(t) = Cap + 1
    BY <1>1, <1>2
  <2>2. Window(t) = SubSeq(t, 2, Cap + 1)
    BY <1>2, <2>1 DEF Window
  <2>3. SubSeq(t, 2, Cap + 1) \in Seq(Fact) /\ Len(SubSeq(t, 2, Cap + 1)) = Cap
    BY <1>1, <2>1
  <2> QED BY <1>1, <2>1, <2>2, <2>3 DEF Lists
<1>3. CASE ~(Len(t) > Cap)
  BY <1>1, <1>3 DEF Window, Lists
<1> QED BY <1>2, <1>3

\* drop_pending_facts returns a list within the cap: the entries after count.
LEMMA DropFrontShifts ==
  ASSUME NEW s \in Lists, NEW count \in Nat
  PROVE  /\ DropFront(s, count) \in Lists
         /\ count <= Len(s) =>
              /\ Len(DropFront(s, count)) = Len(s) - count
              /\ \A i \in 1..(Len(s) - count) : DropFront(s, count)[i] = s[count + i]
<1>1. s \in Seq(Fact) /\ Len(s) \in Nat /\ Len(s) <= Cap
  BY DEF Lists
<1>2. CASE count >= Len(s)
  BY <1>1, <1>2 DEF DropFront, Lists
<1>3. CASE count < Len(s)
  <2> DEFINE r == SubSeq(s, count + 1, Len(s))
  <2>1. r \in Seq(Fact) /\ Len(r) = Len(s) - count
    BY <1>1, <1>3
  <2>2. \A i \in 1..(Len(s) - count) : r[i] = s[count + i]
    BY <1>1, <1>3
  <2>3. DropFront(s, count) = r
    BY <1>1, <1>3 DEF DropFront
  <2> QED BY <1>1, <1>3, <2>1, <2>2, <2>3 DEF Lists
<1> QED BY <1>1, <1>2, <1>3

LEMMA EmptyList == <<>> \in Lists
  BY DEF Lists

-----------------------------------------------------------------------------
(* Type correctness, one step per action.                                  *)

LEMMA TypeInit == Init => TypeOK
  BY EmptyList DEF Init, TypeOK, Nothing, PCs, Fact

LEMMA TypeAppend ==
  ASSUME TypeOK, NEW a \in Agents, AppendFact(a)
  PROVE  TypeOK'
<1> DEFINE n == appended[a] + 1
<1>1. n \in Fact /\ n \in 0..MaxFacts
  BY DEF TypeOK, AppendFact, Fact
<1>2. Window(Append(facts[a], n)) \in Lists /\ Window(Append(pending[a], n)) \in Lists
  BY <1>1, WindowOfAppend DEF TypeOK
<1>3. facts' \in [Agents -> Lists] /\ pending' \in [Agents -> Lists]
  BY <1>2 DEF TypeOK, AppendFact
<1>4. appended' \in [Agents -> 0..MaxFacts]
  BY <1>1 DEF TypeOK, AppendFact
<1>5. trims' \in [Agents -> Nat]
  BY DEF TypeOK, AppendFact
<1> QED
  BY <1>3, <1>4, <1>5 DEF TypeOK, AppendFact, saveVars, dbVars

LEMMA TypeLearn ==
  ASSUME TypeOK, NEW a \in Agents, LearnFromPeer(a)
  PROVE  TypeOK'
<1> DEFINE n == appended[a] + 1
<1>1. n \in Fact /\ n \in 0..MaxFacts
  BY DEF TypeOK, LearnFromPeer, Fact
<1>2. Window(Append(facts[a], n)) \in Lists
  BY <1>1, WindowOfAppend DEF TypeOK
<1>3. facts' \in [Agents -> Lists]
  BY <1>2 DEF TypeOK, LearnFromPeer
<1>4. appended' \in [Agents -> 0..MaxFacts]
  BY <1>1 DEF TypeOK, LearnFromPeer
<1>5. hearsay' \in [Agents -> SUBSET Fact]
  BY <1>1 DEF TypeOK, LearnFromPeer
<1> QED
  BY <1>3, <1>4, <1>5 DEF TypeOK, LearnFromPeer, saveVars, dbVars

LEMMA TypeSnapshot ==
  ASSUME TypeOK, NEW s \in Savers, Snapshot(s)
  PROVE  TypeOK'
  BY DEF TypeOK, Snapshot, PCs, memVars, dbVars, histVars

LEMMA TypeEmbed ==
  ASSUME TypeOK, NEW s \in Savers, EmbedAll(s) \/ EmbedFails(s)
  PROVE  TypeOK'
<1>1. Nothing \in [Agents -> Lists]
  BY EmptyList DEF Nothing
<1> QED
  BY ZenonT(60), <1>1 DEF TypeOK, EmbedAll, EmbedFails, PCs, memVars, dbVars, histVars

LEMMA TypeCommit ==
  ASSUME TypeOK, NEW s \in Savers, Commit(s)
  PROVE  TypeOK'
<1>1. rows' \in [Agents -> [Fact -> Nat]]
  BY DEF TypeOK, Commit
<1>2. rowFacts' \in [Agents -> Lists]
  BY DEF TypeOK, Commit
<1> QED
  BY <1>1, <1>2 DEF TypeOK, Commit, PCs, memVars, histVars

LEMMA TypeDrop ==
  ASSUME TypeOK, NEW s \in Savers, DropFlushed(s)
  PROVE  TypeOK'
<1>1. \A a \in Agents : DropFront(pending[a], Len(take[s][a])) \in Lists
  <2> TAKE a \in Agents
  <2>1. pending[a] \in Lists /\ Len(take[s][a]) \in Nat
    BY DEF TypeOK, Lists
  <2> QED BY <2>1, DropFrontShifts
<1>2. pending' \in [Agents -> Lists]
  BY <1>1 DEF TypeOK, DropFlushed
<1>3. Nothing \in [Agents -> Lists]
  BY EmptyList DEF Nothing
<1>4. pc' \in [Savers -> PCs]
  BY DEF TypeOK, DropFlushed, PCs
<1> QED
  BY <1>2, <1>3, <1>4 DEF TypeOK, DropFlushed, dbVars, histVars

LEMMA TypeAbort ==
  ASSUME TypeOK, NEW s \in Savers, SaveAborts(s) \/ AckLost(s)
  PROVE  TypeOK'
<1>1. Nothing \in [Agents -> Lists]
  BY EmptyList DEF Nothing
<1>2. CASE SaveAborts(s)
  BY <1>1, <1>2 DEF TypeOK, SaveAborts, PCs, memVars, dbVars, histVars
<1>3. CASE AckLost(s)
  BY <1>1, <1>3 DEF TypeOK, AckLost, PCs, memVars, dbVars, histVars
<1> QED BY <1>2, <1>3

\* Whatever a list of facts holds are facts.
LEMMA ElemsOfList == ASSUME NEW s \in Lists PROVE Elems(s) \subseteq Fact
  BY DEF Lists, Elems

LEMMA TypeNewLife ==
  ASSUME TypeOK, (\E s \in Savers : Rebirth(s)) \/ Restart
  PROVE  TypeOK'
<1>1. Nothing \in [Agents -> Lists]
  BY EmptyList DEF Nothing
<1>2. \A a \in Agents : Elems(pending[a]) \subseteq Fact
  BY ElemsOfList DEF TypeOK
<1>3. [a \in Agents |-> excused[a] \cup Elems(pending[a])] \in [Agents -> SUBSET Fact]
  BY <1>2 DEF TypeOK
<1>4. CASE \E s \in Savers : Rebirth(s)
  <2> PICK s \in Savers : Rebirth(s) BY <1>4
  <2> QED BY <1>1, <1>3 DEF TypeOK, Rebirth, PCs, dbVars
<1>5. CASE Restart
  BY <1>1, <1>3, <1>5 DEF TypeOK, Restart, PCs, dbVars
<1> QED BY <1>4, <1>5

LEMMA TypeStep == TypeOK /\ [Next]_vars => TypeOK'
<1> SUFFICES ASSUME TypeOK, [Next]_vars PROVE TypeOK'
  OBVIOUS
<1>1. CASE \E a \in Agents : AppendFact(a) \/ LearnFromPeer(a)
  BY <1>1, TypeAppend, TypeLearn
<1>2. ASSUME NEW s \in Savers, SaveStep(s) PROVE TypeOK'
  BY <1>2, TypeSnapshot, TypeEmbed, TypeCommit, TypeDrop, TypeAbort, TypeNewLife DEF SaveStep
<1>3. CASE Restart
  BY <1>3, TypeNewLife
<1>4. CASE UNCHANGED vars
  BY <1>4 DEF TypeOK, vars, memVars, saveVars, dbVars, histVars
<1> QED BY <1>1, <1>2, <1>3, <1>4 DEF Next

\* Every reachable state is well typed; in particular neither the knowledge nor
\* the buffer of an agent ever outgrows the cap.
THEOREM TypeCorrect == Spec => []TypeOK
<1>1. Init => TypeOK
  BY TypeInit
<1>2. TypeOK /\ [Next]_vars => TypeOK'
  BY TypeStep
<1> QED BY <1>1, <1>2, PTL DEF Spec

-----------------------------------------------------------------------------
(* Without an overflow no fact is lost, when one save runs at a time.       *)

LEMMA FlushInit == Init => FlushInv
<1> SUFFICES ASSUME Init PROVE FlushInv
  OBVIOUS
<1>1. TypeOK
  BY TypeInit
<1>2. SnapshotIsFront /\ DrainedIsStored
  BY DEF Init, SnapshotIsFront, DrainedIsStored
<1>3. \A a \in Agents : 1..appended[a] = {}
  BY DEF Init
<1>4. NoLossWithoutOverflow
  BY <1>3 DEF NoLossWithoutOverflow, Lost
<1> QED BY <1>1, <1>2, <1>4 DEF FlushInv

\* Appending to a list with room adds one element behind the others.
LEMMA AppendElems ==
  ASSUME NEW s \in Lists, NEW n \in Fact
  PROVE  /\ Len(Append(s, n)) = Len(s) + 1
         /\ \A i \in 1..Len(s) : Append(s, n)[i] = s[i]
         /\ Elems(Append(s, n)) = Elems(s) \cup {n}
<1>1. s \in Seq(Fact) /\ Len(s) \in Nat
  BY DEF Lists
<1>2. /\ Len(Append(s, n)) = Len(s) + 1
      /\ \A i \in 1..Len(s) : Append(s, n)[i] = s[i]
      /\ Append(s, n)[Len(s) + 1] = n
  BY <1>1
<1>3. \A i : i \in 1..(Len(s) + 1) <=> i \in 1..Len(s) \/ i = Len(s) + 1
  BY <1>1
<1> QED BY <1>2, <1>3 DEF Elems

LEMMA FlushAppend ==
  ASSUME FlushInv, NEW a \in Agents, AppendFact(a)
  PROVE  SnapshotIsFront' /\ DrainedIsStored' /\ NoLossWithoutOverflow'
<1> DEFINE n == appended[a] + 1
<1>1. /\ n \in Fact /\ pending[a] \in Lists /\ Len(pending[a]) \in Nat
      /\ Len(pending[a]) <= Cap
  <2>1. pending[a] \in Lists /\ appended[a] \in Nat /\ Quota[a] \in 0..MaxFacts
    BY DEF FlushInv, TypeOK
  <2>2. n <= Quota[a]
    BY DEF AppendFact
  <2>3. n \in Fact
    BY <2>1, <2>2 DEF Fact
  <2> QED BY <2>1, <2>3 DEF Lists
<1>2. ASSUME trims'[a] = 0
      PROVE  trims[a] = 0 /\ pending'[a] = Append(pending[a], n)
  <2>1. Len(pending[a]) < Cap /\ trims[a] = 0
    BY <1>1, <1>2 DEF FlushInv, TypeOK, AppendFact
  <2>2. Window(Append(pending[a], n)) = Append(pending[a], n)
    BY <1>1, <2>1, WindowOfAppend
  <2> QED BY <2>1, <2>2 DEF FlushInv, TypeOK, AppendFact
<1>3. \A b \in Agents : b # a => /\ pending'[b] = pending[b] /\ trims'[b] = trims[b]
                                /\ appended'[b] = appended[b]
  BY DEF FlushInv, TypeOK, AppendFact
<1>4. /\ rows' = rows /\ excused' = excused /\ pc' = pc /\ take' = take
      /\ takenIn' = takenIn /\ life' = life /\ appended'[a] = n
      /\ hearsay' = hearsay
  BY DEF AppendFact, saveVars, dbVars, FlushInv, TypeOK
<1>5. SnapshotIsFront'
  <2> SUFFICES ASSUME NEW s \in Savers, NEW b \in Agents,
                      pc[s] \in {"embed", "commit", "drop"}, takenIn[s] = life, trims'[b] = 0
               PROVE  /\ Len(take[s][b]) <= Len(pending'[b])
                      /\ \A i \in 1..Len(take[s][b]) : take[s][b][i] = pending'[b][i]
    BY <1>4 DEF SnapshotIsFront
  <2>1. take[s][b] \in Lists /\ Len(take[s][b]) \in Nat
    BY DEF FlushInv, TypeOK, Lists
  <2>2. CASE b # a
    BY SMTT(30), <1>3, <2>2 DEF FlushInv, SnapshotIsFront
  <2>3. CASE b = a
    <3>1. /\ Len(take[s][a]) <= Len(pending[a])
          /\ \A i \in 1..Len(take[s][a]) : take[s][a][i] = pending[a][i]
      BY <1>2, <2>3 DEF FlushInv, SnapshotIsFront
    <3>2. \A i \in 1..Len(take[s][a]) : i \in 1..Len(pending[a])
      BY <1>1, <2>1, <2>3, <3>1
    <3>3. /\ Len(pending'[a]) = Len(pending[a]) + 1
          /\ \A i \in 1..Len(pending[a]) : pending'[a][i] = pending[a][i]
      BY <1>1, <1>2, <2>3, AppendElems
    <3> QED BY <1>1, <2>1, <2>3, <3>1, <3>2, <3>3
  <2> QED BY <2>2, <2>3
<1>6. DrainedIsStored'
  BY <1>4 DEF FlushInv, DrainedIsStored, Stored
<1>7. NoLossWithoutOverflow'
  <2> SUFFICES ASSUME NEW b \in Agents, trims'[b] = 0, NEW m \in 1..appended'[b],
                      m \notin hearsay'[b]
               PROVE  m \in Elems(pending'[b]) \/ m \in Stored(b)' \/ m \in excused'[b]
    BY DEF NoLossWithoutOverflow, Lost
  <2>1. CASE b # a
    BY <1>3, <1>4, <2>1 DEF FlushInv, NoLossWithoutOverflow, Lost, Stored
  <2>2. CASE b = a
    <3>1. trims[a] = 0 /\ pending'[a] = Append(pending[a], n)
      BY <1>2, <2>2, Zenon
    <3>2. Elems(Append(pending[a], n)) = Elems(pending[a]) \cup {n}
      BY <1>1, AppendElems, Zenon
    <3>3. Elems(pending'[a]) = Elems(pending[a]) \cup {n}
      BY <3>1, <3>2, Zenon
    <3>4. m \in 1..n
      BY <1>4, <2>2, Zenon
    <3>5. m \in 1..appended[a] \/ m = n
      <4> HIDE DEF n
      <4>1. n = appended[a] + 1 /\ appended[a] \in Nat
        BY DEF FlushInv, TypeOK, n
      <4> QED BY <3>4, <4>1
    <3>6. CASE m = n
      BY <2>2, <3>3, <3>6, Zenon
    <3>7. CASE m \in 1..appended[a]
      <4>1. m \in Elems(pending[a]) \/ m \in Stored(a) \/ m \in excused[a]
        BY <2>2, <3>1, <1>4, <3>7, Zenon DEF FlushInv, NoLossWithoutOverflow, Lost
      <4>2. Stored(a)' = Stored(a)
        BY <1>4 DEF Stored
      <4> QED BY <1>4, <2>2, <3>3, <4>1, <4>2, Zenon
    <3> QED BY <3>5, <3>6, <3>7
  <2> QED BY <2>1, <2>2
<1> QED BY <1>5, <1>6, <1>7

LEMMA FlushLearn ==
  ASSUME FlushInv, NEW a \in Agents, LearnFromPeer(a)
  PROVE  SnapshotIsFront' /\ DrainedIsStored' /\ NoLossWithoutOverflow'
<1> DEFINE n == appended[a] + 1
<1>1. UNCHANGED <<pending, rows, trims, excused, life, pc, take, takenIn>>
  BY DEF LearnFromPeer, saveVars, dbVars
<1>2. SnapshotIsFront' /\ DrainedIsStored'
  BY <1>1 DEF FlushInv, SnapshotIsFront, DrainedIsStored, Stored
<1>3. /\ appended'[a] = n /\ hearsay'[a] = hearsay[a] \cup {n}
      /\ \A b \in Agents : b # a => appended'[b] = appended[b] /\ hearsay'[b] = hearsay[b]
      /\ appended[a] \in Nat
  BY DEF LearnFromPeer, FlushInv, TypeOK
<1>4. \A b \in Agents : Elems(pending[b])' = Elems(pending[b]) /\ Stored(b)' = Stored(b)
  BY <1>1 DEF Elems, Stored
<1>5. \A m \in 1..n : m \in 1..appended[a] \/ m = n
  BY <1>3
<1> HIDE DEF n
<1>6. \A b \in Agents : Lost(b)' \subseteq Lost(b)
  <2> SUFFICES ASSUME NEW b \in Agents PROVE Lost(b)' \subseteq Lost(b)
    OBVIOUS
  <2>1. CASE b = a
    BY <1>1, <1>3, <1>4, <1>5, <2>1 DEF Lost
  <2>2. CASE b # a
    BY <1>1, <1>3, <1>4, <2>2 DEF Lost
  <2> QED BY <2>1, <2>2
<1>7. NoLossWithoutOverflow'
  BY <1>1, <1>6 DEF FlushInv, NoLossWithoutOverflow
<1> QED BY <1>2, <1>7

\* Steps of a save that change neither buffers, table nor history keep
\* NoLossWithoutOverflow.
LEMMA NoLossFramed ==
  ASSUME NoLossWithoutOverflow, UNCHANGED <<pending, rows, appended, hearsay, trims, excused>>
  PROVE  NoLossWithoutOverflow'
  BY DEF NoLossWithoutOverflow, Lost, Stored

LEMMA FlushSnapshot ==
  ASSUME FlushInv, NEW s \in Savers, Snapshot(s)
  PROVE  SnapshotIsFront' /\ DrainedIsStored' /\ NoLossWithoutOverflow'
<1>1. \A t \in Savers : t # s =>
        pc'[t] = pc[t] /\ take'[t] = take[t] /\ takenIn'[t] = takenIn[t]
  BY DEF FlushInv, TypeOK, Snapshot
<1>2. take'[s] = pending /\ pc'[s] # "drop" /\ UNCHANGED <<pending, rows, trims, life>>
  BY DEF FlushInv, TypeOK, Snapshot, memVars, dbVars, histVars
<1>3. \A a \in Agents : Len(pending[a]) \in Nat
  BY DEF FlushInv, TypeOK, Lists
<1>4. SnapshotIsFront'
  <2> SUFFICES ASSUME NEW t \in Savers, NEW a \in Agents,
                      pc'[t] \in {"embed", "commit", "drop"}, takenIn'[t] = life', trims'[a] = 0
               PROVE  /\ Len(take'[t][a]) <= Len(pending'[a])
                      /\ \A i \in 1..Len(take'[t][a]) : take'[t][a][i] = pending'[a][i]
    BY DEF SnapshotIsFront
  <2>1. CASE t = s
    BY <1>2, <1>3, <2>1
  <2>2. CASE t # s
    BY <1>1, <1>2, <2>2 DEF FlushInv, SnapshotIsFront
  <2> QED BY <2>1, <2>2
<1>5. DrainedIsStored'
  BY <1>1, <1>2 DEF FlushInv, DrainedIsStored, Stored
<1>6. NoLossWithoutOverflow'
  BY NoLossFramed DEF FlushInv, Snapshot, memVars, dbVars, histVars
<1> QED BY <1>4, <1>5, <1>6

\* A step of saver s that leaves the buffers alone and keeps or empties the
\* snapshot of s keeps SnapshotIsFront.
LEMMA FrontFramed ==
  ASSUME TypeOK, SnapshotIsFront, UNCHANGED <<pending, trims, life>>,
         NEW s \in Savers,
         \A t \in Savers : t # s =>
           pc'[t] = pc[t] /\ take'[t] = take[t] /\ takenIn'[t] = takenIn[t],
         \/ pc'[s] \in {"idle", "rebirth"}
         \/ take'[s] = Nothing
         \/ /\ pc[s] \in {"embed", "commit", "drop"}
            /\ take'[s] = take[s] /\ takenIn'[s] = takenIn[s]
  PROVE  SnapshotIsFront'
<1> SUFFICES ASSUME NEW t \in Savers, NEW a \in Agents,
                    pc'[t] \in {"embed", "commit", "drop"}, takenIn'[t] = life', trims'[a] = 0
             PROVE  /\ Len(take'[t][a]) <= Len(pending'[a])
                    /\ \A i \in 1..Len(take'[t][a]) : take'[t][a][i] = pending'[a][i]
  BY DEF SnapshotIsFront
<1>1. CASE t # s
  BY <1>1 DEF SnapshotIsFront
<1>2. CASE t = s /\ take'[s] = Nothing
  <2>1. take'[t][a] = <<>>
    BY <1>2 DEF Nothing
  <2>2. Len(pending'[a]) \in Nat
    BY DEF TypeOK, Lists
  <2> QED BY <2>1, <2>2
<1>3. CASE t = s /\ take'[s] # Nothing
  BY <1>3 DEF SnapshotIsFront
<1> QED BY <1>1, <1>2, <1>3

LEMMA FlushEmbed ==
  ASSUME FlushInv, NEW s \in Savers, EmbedAll(s) \/ EmbedFails(s)
  PROVE  SnapshotIsFront' /\ DrainedIsStored' /\ NoLossWithoutOverflow'
<1>1. UNCHANGED <<pending, rows, appended, hearsay, trims, excused, life>>
  BY DEF EmbedAll, EmbedFails, memVars, dbVars, histVars
<1>2. /\ pc[s] = "embed" /\ pc'[s] = "commit" /\ takenIn' = takenIn
      /\ take'[s] = take[s] \/ take'[s] = Nothing
      /\ \A t \in Savers : t # s => pc'[t] = pc[t] /\ take'[t] = take[t]
  BY DEF EmbedAll, EmbedFails, FlushInv, TypeOK
<1>3. SnapshotIsFront'
  BY <1>1, <1>2, FrontFramed DEF FlushInv
<1>4. DrainedIsStored'
  BY <1>1, <1>2 DEF FlushInv, DrainedIsStored, Stored
<1>5. NoLossWithoutOverflow'
  BY <1>1, NoLossFramed DEF FlushInv
<1> QED BY <1>3, <1>4, <1>5

\* A commit only adds to agent_facts.
LEMMA CommitStores ==
  ASSUME TypeOK, NEW s \in Savers, Commit(s)
  PROVE  \A a \in Agents : Stored(a)' = Stored(a) \cup Elems(take[s][a])
<1> SUFFICES ASSUME NEW a \in Agents
             PROVE  Stored(a)' = Stored(a) \cup Elems(take[s][a])
  OBVIOUS
<1> DEFINE E == Elems(take[s][a])
<1>1. E \subseteq Fact
  BY ElemsOfList DEF TypeOK
<1>2. \A n \in Fact : rows[a][n] \in Nat
  BY DEF TypeOK
<1>3. \A n \in Fact : rows'[a][n] = rows[a][n] + (IF n \in E THEN 1 ELSE 0)
  BY DEF Commit
<1> HIDE DEF E
<1>4. \A n \in Fact : rows'[a][n] > 0 <=> rows[a][n] > 0 \/ n \in E
  BY <1>2, <1>3
<1>5. Stored(a)' = Stored(a) \cup E
  BY <1>1, <1>4 DEF Stored
<1> QED BY <1>5 DEF E

LEMMA FlushCommit ==
  ASSUME FlushInv, NEW s \in Savers, Commit(s)
  PROVE  SnapshotIsFront' /\ DrainedIsStored' /\ NoLossWithoutOverflow'
<1>1. UNCHANGED <<pending, appended, hearsay, trims, excused, life, take, takenIn>>
  BY DEF Commit, memVars, histVars
<1>2. /\ pc[s] = "commit" /\ pc'[s] = "drop"
      /\ \A t \in Savers : t # s => pc'[t] = pc[t]
  BY DEF Commit, FlushInv, TypeOK
<1>3. \A a \in Agents : Stored(a)' = Stored(a) \cup Elems(take[s][a])
  BY CommitStores DEF FlushInv
<1>4. SnapshotIsFront'
  BY <1>1, <1>2, FrontFramed DEF FlushInv
<1>5. DrainedIsStored'
  <2> SUFFICES ASSUME NEW t \in Savers, NEW a \in Agents, pc'[t] = "drop"
               PROVE  Elems(take[t][a]) \subseteq Stored(a)'
    BY <1>1 DEF DrainedIsStored, Elems
  <2>1. CASE t = s
    BY <1>3, <2>1
  <2>2. CASE t # s
    BY <1>2, <1>3, <2>2 DEF FlushInv, DrainedIsStored
  <2> QED BY <2>1, <2>2
<1>6. NoLossWithoutOverflow'
  <2>1. \A a \in Agents : Elems(pending[a])' = Elems(pending[a])
    BY <1>1 DEF Elems
  <2>2. \A a \in Agents : Lost(a)' \subseteq Lost(a)
    BY <1>1, <1>3, <2>1 DEF Lost
  <2> QED BY <1>1, <2>2 DEF FlushInv, NoLossWithoutOverflow
<1> QED BY <1>4, <1>5, <1>6

LEMMA FlushDrop ==
  ASSUME FlushInv, OneSaver, NEW s \in Savers, DropFlushed(s)
  PROVE  SnapshotIsFront' /\ DrainedIsStored' /\ NoLossWithoutOverflow'
<1>1. /\ pc[s] = "drop" /\ pc'[s] \in {"idle", "rebirth"}
      /\ UNCHANGED <<rows, appended, hearsay, trims, excused, life>>
      /\ \A t \in Savers : t = s
  BY DEF DropFlushed, FlushInv, TypeOK, OneSaver, dbVars, histVars
<1>2. SnapshotIsFront' /\ DrainedIsStored'
  BY <1>1 DEF SnapshotIsFront, DrainedIsStored
<1>3. NoLossWithoutOverflow'
  <2> SUFFICES ASSUME NEW a \in Agents, trims[a] = 0,
                      NEW m \in 1..appended[a], m \notin Stored(a), m \notin excused[a],
                      m \notin hearsay[a]
               PROVE  m \in Elems(pending'[a])
    <3>1. \A a \in Agents : Stored(a)' = Stored(a)
      BY <1>1 DEF Stored
    <3> QED BY <1>1, <3>1 DEF NoLossWithoutOverflow, Lost, Elems
  <2>1. m \in Elems(pending[a])
    BY DEF FlushInv, NoLossWithoutOverflow, Lost
  <2>2. CASE takenIn[s] # life
    BY <2>1, <2>2 DEF DropFlushed
  <2>3. CASE takenIn[s] = life
    <3> DEFINE k == Len(take[s][a])
               p == pending[a]
    <3>1. p \in Lists /\ Len(p) \in Nat /\ k \in Nat
      BY DEF FlushInv, TypeOK, Lists
    <3>2. k <= Len(p) /\ \A i \in 1..k : take[s][a][i] = p[i]
      BY <1>1, <2>3 DEF FlushInv, SnapshotIsFront
    <3>3. pending'[a] = DropFront(p, k)
      BY <2>3 DEF DropFlushed
    <3>4. PICK i \in 1..Len(p) : p[i] = m
      BY <2>1 DEF Elems
    <3>5. i \notin 1..k
      <4>1. Elems(take[s][a]) \subseteq Stored(a)
        BY <1>1 DEF FlushInv, DrainedIsStored
      <4> QED BY <3>2, <3>4, <4>1 DEF Elems
    <3> HIDE DEF k, p
    <3>6. i - k \in 1..(Len(p) - k) /\ k + (i - k) = i
      BY <3>1, <3>2, <3>4, <3>5
    <3>7. /\ Len(DropFront(p, k)) = Len(p) - k
          /\ \A j \in 1..(Len(p) - k) : DropFront(p, k)[j] = p[k + j]
      BY <3>1, <3>2, DropFrontShifts
    <3>8. DropFront(p, k)[i - k] = m
      BY <3>4, <3>6, <3>7
    <3>9. m \in Elems(DropFront(p, k))
      BY <3>6, <3>7, <3>8 DEF Elems
    <3> QED BY <3>3, <3>9
  <2> QED BY <2>2, <2>3
<1> QED BY <1>2, <1>3

LEMMA FlushAbort ==
  ASSUME FlushInv, NEW s \in Savers, SaveAborts(s) \/ AckLost(s)
  PROVE  SnapshotIsFront' /\ DrainedIsStored' /\ NoLossWithoutOverflow'
<1>1. UNCHANGED <<pending, rows, appended, hearsay, trims, excused, life>>
  BY DEF SaveAborts, AckLost, memVars, dbVars, histVars
<1>2. /\ pc'[s] = "idle"
      /\ \A t \in Savers : t # s =>
           pc'[t] = pc[t] /\ take'[t] = take[t] /\ takenIn'[t] = takenIn[t]
  BY DEF SaveAborts, AckLost, FlushInv, TypeOK
<1>3. SnapshotIsFront'
  BY <1>1, <1>2, FrontFramed DEF FlushInv
<1>4. DrainedIsStored'
  BY <1>1, <1>2 DEF FlushInv, DrainedIsStored, Stored
<1>5. NoLossWithoutOverflow'
  BY <1>1, NoLossFramed DEF FlushInv
<1> QED BY <1>3, <1>4, <1>5

LEMMA FlushNewLife ==
  ASSUME FlushInv, OneSaver, (\E s \in Savers : Rebirth(s)) \/ Restart
  PROVE  SnapshotIsFront' /\ DrainedIsStored' /\ NoLossWithoutOverflow'
<1>1. /\ UNCHANGED <<rows, appended, hearsay, trims>>
      /\ \A a \in Agents : excused'[a] = excused[a] \cup Elems(pending[a])
      /\ \A t \in Savers : pc'[t] = "idle"
  <2>1. CASE \E s \in Savers : Rebirth(s)
    BY <2>1 DEF Rebirth, FlushInv, TypeOK, OneSaver, dbVars
  <2>2. CASE Restart
    BY <2>2 DEF Restart, FlushInv, TypeOK, dbVars
  <2> QED BY <2>1, <2>2
<1>2. SnapshotIsFront' /\ DrainedIsStored'
  BY <1>1 DEF SnapshotIsFront, DrainedIsStored
<1>3. \A a \in Agents : Stored(a)' = Stored(a)
  BY <1>1 DEF Stored
<1>4. \A a \in Agents : Lost(a)' \subseteq Lost(a)
  BY <1>1, <1>3 DEF Lost
<1>5. NoLossWithoutOverflow'
  BY <1>1, <1>4 DEF FlushInv, NoLossWithoutOverflow
<1> QED BY <1>2, <1>5

LEMMA FlushStep ==
  ASSUME OneSaver
  PROVE  FlushInv /\ [Next]_vars => FlushInv'
<1> SUFFICES ASSUME FlushInv, [Next]_vars PROVE FlushInv'
  OBVIOUS
<1>1. TypeOK'
  BY TypeStep DEF FlushInv
<1>2. CASE \E a \in Agents : AppendFact(a) \/ LearnFromPeer(a)
  BY <1>1, <1>2, FlushAppend, FlushLearn DEF FlushInv
<1>3. ASSUME NEW s \in Savers, SaveStep(s) PROVE FlushInv'
  BY <1>1, <1>3, FlushSnapshot, FlushEmbed, FlushCommit, FlushDrop, FlushAbort, FlushNewLife
  DEF SaveStep, FlushInv
<1>4. CASE Restart
  BY <1>1, <1>4, FlushNewLife DEF FlushInv
<1>5. CASE UNCHANGED vars
  <2>1. NoLossWithoutOverflow'
    BY <1>5, NoLossFramed DEF FlushInv, vars, memVars, dbVars, histVars
  <2>2. SnapshotIsFront' /\ DrainedIsStored'
    BY <1>5 DEF FlushInv, SnapshotIsFront, DrainedIsStored, Stored,
                vars, memVars, saveVars, dbVars, histVars
  <2> QED BY <1>1, <2>1, <2>2 DEF FlushInv
<1> QED BY <1>2, <1>3, <1>4, <1>5 DEF Next

\* While saves run one at a time and a buffer has not overflowed, no fact an
\* agent appended is lost to an outage, a failed or cancelled save, or facts
\* appended in the middle of a save.
THEOREM NoLoss ==
  ASSUME OneSaver
  PROVE  Spec => []NoLossWithoutOverflow
<1>1. Init => FlushInv
  BY FlushInit
<1>2. FlushInv /\ [Next]_vars => FlushInv'
  BY FlushStep
<1>3. FlushInv => NoLossWithoutOverflow
  BY DEF FlushInv
<1> QED BY <1>1, <1>2, <1>3, PTL DEF Spec
-----------------------------------------------------------------------------
(* What the caps and the drains leave of a list is a tail of it.            *)

TailAt(w, t, k) ==
  /\ Len(w) = Len(t) - k
  /\ \A i \in 1..Len(w) : k + i \in 1..Len(t) /\ w[i] = t[k + i]

LEMMA WindowIsTail ==
  ASSUME NEW s \in Lists, NEW n \in Fact
  PROVE  \E k \in {0, 1} : TailAt(Window(Append(s, n)), Append(s, n), k)
<1> DEFINE t == Append(s, n)
<1>1. t \in Seq(Fact) /\ Len(t) = Len(s) + 1 /\ Len(s) \in Nat /\ Len(s) <= Cap
  BY DEF Lists
<1>2. CASE Len(t) > Cap
  <2>1. Len(t) = Cap + 1
    BY <1>1, <1>2
  <2> DEFINE w == SubSeq(t, 2, Cap + 1)
  <2>2. Window(t) = w
    BY <1>2, <2>1 DEF Window
  <2>3. Len(w) = Cap /\ \A i \in 1..Cap : w[i] = t[1 + i]
    BY <1>1, <2>1
  <2> HIDE DEF w
  <2>4. TailAt(w, t, 1)
    BY <2>1, <2>3 DEF TailAt
  <2> QED BY <2>2, <2>4
<1>3. CASE ~(Len(t) > Cap)
  <2>1. Window(t) = t
    BY <1>1, <1>3 DEF Window
  <2> HIDE DEF t
  <2>2. TailAt(t, t, 0)
    BY <1>1 DEF TailAt, t
  <2> QED BY <2>1, <2>2 DEF t
<1> QED BY <1>2, <1>3

LEMMA DropFrontIsTail ==
  ASSUME NEW s \in Lists, NEW count \in Nat
  PROVE  \E k \in Nat : TailAt(DropFront(s, count), s, k) /\ (k = count \/ DropFront(s, count) = <<>>)
<1>1. s \in Seq(Fact) /\ Len(s) \in Nat
  BY DEF Lists
<1>2. CASE count <= Len(s)
  <2>1. /\ Len(DropFront(s, count)) = Len(s) - count
        /\ \A i \in 1..(Len(s) - count) : DropFront(s, count)[i] = s[count + i]
    BY <1>2, DropFrontShifts
  <2>2. TailAt(DropFront(s, count), s, count)
    BY <1>1, <1>2, <2>1 DEF TailAt
  <2> QED BY <2>2
<1>3. CASE ~(count <= Len(s))
  <2>1. DropFront(s, count) = <<>>
    BY <1>1, <1>3 DEF DropFront
  <2>2. TailAt(<<>>, s, Len(s))
    BY <1>1 DEF TailAt
  <2> QED BY <1>1, <2>1, <2>2
<1> QED BY <1>1, <1>2, <1>3

\* A tail of a rising list rises, and what it left is below what it kept.
LEMMA TailOfRising ==
  ASSUME NEW t \in Seq(Fact), NEW w, NEW k \in Nat, TailAt(w, t, k), Rising(t)
  PROVE  /\ Rising(w) /\ Elems(w) \subseteq Elems(t)
         /\ \A x \in Elems(t) \ Elems(w), y \in Elems(w) : x < y
<1>1. Len(t) \in Nat /\ Len(w) = Len(t) - k
  BY DEF TailAt
<1>2. \A i \in 1..Len(w) : k + i \in 1..Len(t) /\ w[i] = t[k + i]
  BY DEF TailAt
<1>3. Rising(w)
  <2> SUFFICES ASSUME NEW i \in 1..Len(w), NEW j \in 1..Len(w), i < j PROVE w[i] < w[j]
    BY DEF Rising
  <2>1. k + i < k + j /\ k + i \in 1..Len(t) /\ k + j \in 1..Len(t)
    BY <1>2
  <2> QED BY <1>2, <2>1 DEF Rising
<1>4. Elems(w) \subseteq Elems(t)
  BY <1>2 DEF Elems
<1>5. ASSUME NEW x \in Elems(t), x \notin Elems(w), NEW y \in Elems(w) PROVE x < y
  <2>1. PICK i \in 1..Len(t) : t[i] = x
    BY DEF Elems
  <2>2. PICK j \in 1..Len(w) : w[j] = y
    BY DEF Elems
  <2>3. i <= k
    <3>1. SUFFICES ASSUME i > k PROVE FALSE
      OBVIOUS
    <3>2. i - k \in 1..Len(w) /\ k + (i - k) = i
      BY <1>1, <3>1
    <3>3. w[i - k] = x
      BY <1>2, <2>1, <3>2
    <3> QED BY <1>5, <3>2, <3>3 DEF Elems
  <2>4. k + j \in 1..Len(t) /\ i < k + j /\ t[k + j] = y
    BY <1>2, <2>2, <2>3
  <2> QED BY <2>1, <2>4 DEF Rising
<1> QED BY <1>3, <1>4, <1>5

\* The same of an append to a rising list whose entries are below the new one.
LEMMA AppendRises ==
  ASSUME NEW s \in Lists, NEW n \in Fact, Rising(s), \A x \in Elems(s) : x < n
  PROVE  Rising(Append(s, n))
<1> DEFINE t == Append(s, n)
<1>1. s \in Seq(Fact) /\ Len(s) \in Nat
  BY DEF Lists
<1>2. Len(t) = Len(s) + 1 /\ (\A i \in 1..Len(s) : t[i] = s[i]) /\ t[Len(s) + 1] = n
  BY <1>1
<1> HIDE DEF t
<1>3. \A i \in 1..Len(s) : s[i] < n
  BY DEF Elems
<1>4. ASSUME NEW i \in 1..Len(t), NEW j \in 1..Len(t), i < j PROVE t[i] < t[j]
  <2>1. i \in 1..Len(s)
    BY <1>1, <1>2, <1>4
  <2>2. j \in 1..Len(s) \/ j = Len(s) + 1
    BY <1>1, <1>2
  <2> QED BY <1>2, <1>3, <1>4, <2>1, <2>2 DEF Rising
<1> QED BY <1>4 DEF Rising, t

LEMMA WindowOfRising ==
  ASSUME NEW s \in Lists, NEW n \in Fact, Rising(s), \A x \in Elems(s) : x < n
  PROVE  /\ Rising(Window(Append(s, n)))
         /\ Elems(Window(Append(s, n))) \subseteq Elems(s) \cup {n}
         /\ \A x \in (Elems(s) \cup {n}) \ Elems(Window(Append(s, n))) :
              \A y \in Elems(Window(Append(s, n))) : x < y
<1>1. Append(s, n) \in Seq(Fact) /\ Elems(Append(s, n)) = Elems(s) \cup {n}
  BY AppendElems DEF Lists
<1>2. PICK k \in {0, 1} : TailAt(Window(Append(s, n)), Append(s, n), k)
  BY WindowIsTail
<1>3. Rising(Append(s, n))
  BY AppendRises
<1>4. k \in Nat
  OBVIOUS
<1> DEFINE t == Append(s, n)
           w == Window(t)
<1>5. t \in Seq(Fact) /\ TailAt(w, t, k) /\ Rising(t) /\ Elems(t) = Elems(s) \cup {n}
  BY <1>1, <1>2, <1>3
<1> HIDE DEF t, w
<1>6. /\ Rising(w) /\ Elems(w) \subseteq Elems(t)
      /\ \A x \in Elems(t) \ Elems(w), y \in Elems(w) : x < y
  BY <1>4, <1>5, TailOfRising
<1> QED BY <1>5, <1>6 DEF t, w

LEMMA DropFrontOfRising ==
  ASSUME NEW s \in Lists, NEW count \in Nat, Rising(s)
  PROVE  /\ Rising(DropFront(s, count)) /\ Elems(DropFront(s, count)) \subseteq Elems(s)
         /\ \A x \in Elems(s) \ Elems(DropFront(s, count)), y \in Elems(DropFront(s, count)) : x < y
<1>1. PICK k \in Nat : TailAt(DropFront(s, count), s, k)
  BY DropFrontIsTail
<1> QED BY <1>1, TailOfRising DEF Lists

LEMMA NothingElems == \A a \in Agents : Nothing[a] = <<>> /\ Elems(Nothing[a]) = {} /\ Rising(Nothing[a])
  BY DEF Nothing, Elems, Rising
-----------------------------------------------------------------------------
(* Nothing refers to a fact that was not appended yet.                      *)

Upto(a) == 1..appended[a]
Known ==
  \A a \in Agents :
    /\ Elems(facts[a]) \subseteq Upto(a) /\ Elems(pending[a]) \subseteq Upto(a)
    /\ Elems(rowFacts[a]) \subseteq Upto(a) /\ Stored(a) \subseteq Upto(a) /\ hearsay[a] \subseteq Upto(a)
    /\ \A s \in Savers : Elems(take[s][a]) \subseteq Upto(a) /\ Elems(payload[s][a]) \subseteq Upto(a)

LEMMA KnownInit == Init => Known
<1> SUFFICES ASSUME Init, NEW a \in Agents
             PROVE  /\ Elems(facts[a]) = {} /\ Elems(pending[a]) = {}
                    /\ Elems(rowFacts[a]) = {} /\ Stored(a) = {} /\ hearsay[a] = {}
                    /\ \A s \in Savers : Elems(take[s][a]) = {} /\ Elems(payload[s][a]) = {}
  BY DEF Known
<1>1. facts = Nothing /\ pending = Nothing /\ rowFacts = Nothing /\ hearsay[a] = {}
  BY DEF Init
<1>2. \A s \in Savers : take[s] = Nothing /\ payload[s] = Nothing
  BY DEF Init
<1>3. Stored(a) = {}
  BY DEF Init, Stored
<1> QED BY <1>1, <1>2, <1>3, NothingElems

LEMMA NextFact ==
  ASSUME TypeOK, NEW a \in Agents, appended[a] + 1 <= Quota[a]
  PROVE  /\ appended[a] + 1 \in Fact /\ appended[a] \in Nat
         /\ \A S \in SUBSET Upto(a) : \A x \in S : x < appended[a] + 1
<1>1. appended[a] \in Nat /\ Quota[a] \in 0..MaxFacts
  BY DEF TypeOK
<1> QED BY <1>1 DEF Fact, Upto

\* Both appends: the new fact joins the knowledge, and perhaps the buffer.
Appends(a) ==
  LET n == appended[a] + 1 IN
  /\ n <= Quota[a] /\ appended' = [appended EXCEPT ![a] = n]
  /\ facts' = [facts EXCEPT ![a] = Window(Append(facts[a], n))]
  /\ pending' \in {pending, [pending EXCEPT ![a] = Window(Append(pending[a], n))]}
  /\ hearsay' \in {hearsay, [hearsay EXCEPT ![a] = @ \cup {n}]}
  /\ UNCHANGED <<saveVars, dbVars>>

LEMMA AppendsIs == \A a \in Agents : AppendFact(a) \/ LearnFromPeer(a) => Appends(a)
  BY DEF AppendFact, LearnFromPeer, Appends

\* Without an append, what the lists hold after a step was held before it.
LEMMA KnownKept ==
  ASSUME Known, appended' = appended,
         \A a \in Agents :
           /\ Elems(facts'[a]) \subseteq Upto(a) /\ Elems(pending'[a]) \subseteq Upto(a)
           /\ Elems(rowFacts'[a]) \subseteq Upto(a) /\ Stored(a)' \subseteq Upto(a)
           /\ hearsay'[a] \subseteq Upto(a),
         \A a \in Agents, s \in Savers :
           Elems(take'[s][a]) \subseteq Upto(a) /\ Elems(payload'[s][a]) \subseteq Upto(a)
  PROVE  Known'
  BY Zenon DEF Known, Upto, Elems

LEMMA KnownStep == TypeOK /\ Known /\ [Next]_vars => Known'
<1> SUFFICES ASSUME TypeOK, Known, [Next]_vars PROVE Known'
  OBVIOUS
<1>k. \A a \in Agents :
    /\ Elems(facts[a]) \subseteq Upto(a) /\ Elems(pending[a]) \subseteq Upto(a)
    /\ Elems(rowFacts[a]) \subseteq Upto(a) /\ Stored(a) \subseteq Upto(a) /\ hearsay[a] \subseteq Upto(a)
    /\ \A s \in Savers : Elems(take[s][a]) \subseteq Upto(a) /\ Elems(payload[s][a]) \subseteq Upto(a)
  BY DEF Known
<1>e. \A a \in Agents : Elems(Nothing[a]) \subseteq Upto(a)
  BY NothingElems
<1>1. ASSUME NEW a \in Agents, Appends(a) PROVE Known'
  <2> DEFINE n == appended[a] + 1
  <2>1. n \in Fact /\ n \in Nat /\ appended[a] \in Nat /\ facts[a] \in Lists /\ pending[a] \in Lists
    <3>1. appended[a] + 1 <= Quota[a]
      BY <1>1 DEF Appends
    <3>2. n \in Fact /\ appended[a] \in Nat
      BY <3>1, NextFact
    <3> QED BY <3>2 DEF TypeOK, Fact
  <2>2. appended'[a] = n /\ \A b \in Agents : b # a => appended'[b] = appended[b]
    BY <1>1 DEF Appends, TypeOK
  <2>3. \A b \in Agents : b # a => facts'[b] = facts[b] /\ pending'[b] = pending[b]
    BY <1>1 DEF Appends, TypeOK
  <2>4. facts'[a] = Window(Append(facts[a], n)) /\ pending'[a] \in {pending[a], Window(Append(pending[a], n))}
    BY <1>1 DEF Appends, TypeOK
  <2>5. UNCHANGED <<rowFacts, rows, take, payload>>
    BY <1>1 DEF Appends, saveVars, dbVars
  <2> HIDE DEF n
  <2>6. ASSUME NEW s \in Lists, Elems(s) \subseteq Upto(a) PROVE Elems(Window(Append(s, n))) \subseteq 1..n
    <3>1. Elems(Append(s, n)) = Elems(s) \cup {n}
      BY <2>1, AppendElems
    <3>2. PICK k \in {0, 1} : TailAt(Window(Append(s, n)), Append(s, n), k)
      BY <2>1, WindowIsTail
    <3>3. Elems(Window(Append(s, n))) \subseteq Elems(Append(s, n))
      BY <3>2 DEF TailAt, Elems
    <3>4. Upto(a) \subseteq 1..n /\ n \in 1..n
      BY <2>1 DEF Upto, n
    <3> QED BY <2>6, <3>1, <3>3, <3>4
  <2>7. Upto(a) \subseteq Upto(a)' /\ Upto(a)' = 1..n /\ \A b \in Agents : b # a => Upto(b)' = Upto(b)
    <3>1. Upto(a) \subseteq 1..n
      BY <2>1 DEF Upto, n
    <3> QED BY <2>2, <3>1 DEF Upto
  <2>8. \A b \in Agents : Upto(b) \subseteq Upto(b)'
    BY <2>7
  <2>9. \A b \in Agents : Elems(facts[b])' \subseteq Upto(b)' /\ Elems(pending[b])' \subseteq Upto(b)'
    <3> SUFFICES ASSUME NEW b \in Agents
                 PROVE  Elems(facts'[b]) \subseteq Upto(b)' /\ Elems(pending'[b]) \subseteq Upto(b)'
      BY DEF Elems
    <3>1. CASE b = a
      <4>1. Elems(pending[a]) \subseteq Upto(a)' /\ Elems(Window(Append(pending[a], n))) \subseteq Upto(a)'
        BY <1>k, <2>1, <2>6, <2>7
      <4>2. Elems(facts'[a]) \subseteq Upto(a)'
        BY <1>k, <2>1, <2>4, <2>6, <2>7
      <4> QED BY <2>4, <3>1, <4>1, <4>2
    <3>2. CASE b # a
      BY <1>k, <2>3, <2>7, <3>2
    <3> QED BY <3>1, <3>2
  <2>11. \A b \in Agents : hearsay'[b] \subseteq Upto(b)'
    <3>1. \A b \in Agents : hearsay'[b] = hearsay[b] \/ (b = a /\ hearsay'[b] = hearsay[b] \cup {n})
      <4>1. hearsay' = hearsay \/ hearsay' = [hearsay EXCEPT ![a] = hearsay[a] \cup {n}]
        BY <1>1 DEF Appends, n
      <4> DEFINE h == hearsay[a] \cup {n}
      <4>2. hearsay \in [Agents -> SUBSET Fact]
        BY DEF TypeOK
      <4> HIDE DEF h
      <4>3. ASSUME hearsay' = [hearsay EXCEPT ![a] = h], NEW b \in Agents
            PROVE  hearsay'[b] = hearsay[b] \/ (b = a /\ hearsay'[b] = h)
        BY <4>2, <4>3
      <4> QED BY <4>1, <4>3 DEF h
    <3>2. n \in Upto(a)'
      BY <2>1, <2>7 DEF Fact
    <3> QED BY <1>k, <2>8, <3>1, <3>2
  <2>10. \A b \in Agents :
           /\ Elems(rowFacts[b])' \subseteq Upto(b)' /\ Stored(b)' \subseteq Upto(b)'
           /\ \A s \in Savers : Elems(take[s][b])' \subseteq Upto(b)' /\ Elems(payload[s][b])' \subseteq Upto(b)'
    <3> SUFFICES ASSUME NEW b \in Agents
                 PROVE  /\ Elems(rowFacts[b]) \subseteq Upto(b)' /\ Stored(b) \subseteq Upto(b)'
                        /\ \A s \in Savers : Elems(take[s][b]) \subseteq Upto(b)' /\ Elems(payload[s][b]) \subseteq Upto(b)'
      BY ZenonT(60), <2>5 DEF Elems, Stored
    <3> QED BY <1>k, <2>8
  <2> QED BY <2>9, <2>10, <2>11 DEF Known
\* What a step of a save, or a new life, makes of the lists.
<1>2. ASSUME NEW s \in Savers, Snapshot(s) PROVE Known'
  <2>1. /\ UNCHANGED <<facts, pending, rowFacts, rows, appended, hearsay>>
        /\ take' = [take EXCEPT ![s] = pending] /\ payload' = [payload EXCEPT ![s] = facts]
    BY <1>2 DEF Snapshot, memVars, dbVars, histVars
  <2>2. \A t \in Savers : take'[t] \in {take[t], pending} /\ payload'[t] \in {payload[t], facts}
    BY <2>1 DEF TypeOK
  <2>3. \A a \in Agents : Stored(a)' = Stored(a)
    BY <2>1 DEF Stored
  <2> QED BY <1>k, <2>1, <2>2, <2>3, KnownKept
<1>3. ASSUME NEW s \in Savers, EmbedAll(s) \/ EmbedFails(s) PROVE Known'
  <2>1. /\ UNCHANGED <<facts, pending, rowFacts, rows, appended, hearsay, payload>>
        /\ take' \in {take, [take EXCEPT ![s] = Nothing]}
    BY <1>3 DEF EmbedAll, EmbedFails, memVars, dbVars, histVars
  <2>2. \A t \in Savers : take'[t] \in {take[t], Nothing}
    BY <2>1 DEF TypeOK
  <2>3. \A a \in Agents : Stored(a)' = Stored(a)
    BY <2>1 DEF Stored
  <2> QED BY <1>k, <1>e, <2>1, <2>2, <2>3, KnownKept
<1>4. ASSUME NEW s \in Savers, Commit(s) PROVE Known'
  <2>1. UNCHANGED <<facts, pending, appended, hearsay, take, payload>> /\ rowFacts' = payload[s]
    BY <1>4 DEF Commit, memVars, histVars
  <2>2. \A a \in Agents : Stored(a)' = Stored(a) \cup Elems(take[s][a])
    BY <1>4, CommitStores
  <2> QED BY <1>k, <2>1, <2>2, KnownKept
<1>5. ASSUME NEW s \in Savers, DropFlushed(s) \/ SaveAborts(s) \/ AckLost(s) PROVE Known'
  <2>1. /\ UNCHANGED <<facts, rowFacts, rows, appended, hearsay>>
        /\ take' = [take EXCEPT ![s] = Nothing] /\ payload' = [payload EXCEPT ![s] = Nothing]
    BY <1>5 DEF DropFlushed, SaveAborts, AckLost, memVars, dbVars, histVars
  <2>2. \A t \in Savers : take'[t] \in {take[t], Nothing} /\ payload'[t] \in {payload[t], Nothing}
    BY <2>1 DEF TypeOK
  <2>3. \A a \in Agents : Stored(a)' = Stored(a)
    BY <2>1 DEF Stored
  <2>4. \A a \in Agents : Elems(pending'[a]) \subseteq Elems(pending[a])
    <3> SUFFICES ASSUME NEW a \in Agents PROVE Elems(pending'[a]) \subseteq Elems(pending[a])
      OBVIOUS
    <3>1. pending'[a] = pending[a] \/ pending'[a] = DropFront(pending[a], Len(take[s][a]))
      BY <1>5 DEF DropFlushed, SaveAborts, AckLost, memVars
    <3>2. pending[a] \in Lists /\ Len(take[s][a]) \in Nat
      BY DEF TypeOK, Lists
    <3>3. PICK k \in Nat : TailAt(DropFront(pending[a], Len(take[s][a])), pending[a], k)
      BY <3>2, DropFrontIsTail
    <3>4. Elems(DropFront(pending[a], Len(take[s][a]))) \subseteq Elems(pending[a])
      BY <3>3 DEF TailAt, Elems
    <3> QED BY <3>1, <3>4
  <2> QED BY <1>k, <1>e, <2>1, <2>2, <2>3, <2>4, KnownKept
<1>6. ASSUME (\E s \in Savers : Rebirth(s)) \/ Restart PROVE Known'
  <2>1. /\ UNCHANGED <<rowFacts, rows, appended, hearsay>> /\ facts' \in {Nothing, rowFacts} /\ pending' = Nothing
        /\ \A t \in Savers : take'[t] \in {take[t], Nothing} /\ payload'[t] \in {payload[t], Nothing}
    BY <1>6 DEF Rebirth, Restart, dbVars
  <2>2. \A a \in Agents : Stored(a)' = Stored(a)
    BY <2>1 DEF Stored
  <2> QED BY <1>k, <1>e, <2>1, <2>2, KnownKept
<1>7. CASE UNCHANGED vars
  <2>1. UNCHANGED <<facts, pending, rowFacts, rows, appended, hearsay, take, payload>>
    BY <1>7 DEF vars, memVars, saveVars, dbVars, histVars
  <2>2. \A a \in Agents : Stored(a)' = Stored(a)
    BY <2>1 DEF Stored
  <2> QED BY <1>k, <2>1, <2>2, KnownKept
<1> QED
  BY <1>1, <1>2, <1>3, <1>4, <1>5, <1>6, <1>7, AppendsIs DEF Next, SaveStep
-----------------------------------------------------------------------------
(* Knowledge and buffer.  BufferMatchesKnowledge is inductive once the rows *)
(* a restart reads back are known to rise as well.                          *)

\* One set is the newest part of the other.
Newest(O, P) == /\ \A x \in O \ P, y \in P : x < y
                /\ \A x \in P \ O, y \in O : x < y

Own(a) == Elems(facts[a]) \ hearsay[a]
MatchInv ==
  /\ \A a \in Agents :
       Rising(facts[a]) /\ Rising(pending[a]) /\ Newest(Own(a), Elems(pending[a]))
  /\ \A a \in Agents : Rising(rowFacts[a]) /\ \A s \in Savers : Rising(payload[s][a])

LEMMA MatchIs == MatchInv => BufferMatchesKnowledge
  BY DEF MatchInv, BufferMatchesKnowledge, Newest, Own

\* Both sets get a new largest fact, or one loses its oldest part.
LEMMA NewestGrows ==
  ASSUME NEW O \in SUBSET Nat, NEW P \in SUBSET Nat, Newest(O, P),
         NEW n \in Nat, \A x \in O \cup P : x < n
  PROVE  Newest(O \cup {n}, P \cup {n})
  BY DEF Newest

LEMMA NewestCut ==
  ASSUME NEW O \in SUBSET Nat, NEW P \in SUBSET Nat, Newest(O, P),
         NEW Q \in SUBSET P, \A x \in P \ Q, y \in Q : x < y
  PROVE  Newest(O, Q)
  BY DEF Newest

LEMMA NewestSymmetric == ASSUME NEW O, NEW P, Newest(O, P) PROVE Newest(P, O)
  BY DEF Newest

LEMMA MatchInit == Init => MatchInv
<1> SUFFICES ASSUME Init PROVE MatchInv
  OBVIOUS
<1>1. facts = Nothing /\ pending = Nothing /\ rowFacts = Nothing /\ \A s \in Savers : payload[s] = Nothing
  BY DEF Init
<1>2. \A a \in Agents : Own(a) = {} /\ Elems(pending[a]) = {}
  BY <1>1, NothingElems DEF Own
<1>3. \A a \in Agents : Newest(Own(a), Elems(pending[a]))
  BY <1>2 DEF Newest
<1> QED BY <1>1, <1>3, NothingElems DEF MatchInv

LEMMA MatchStep == TypeOK /\ Known /\ MatchInv /\ [Next]_vars => MatchInv'
<1> SUFFICES ASSUME TypeOK, Known, MatchInv, [Next]_vars PROVE MatchInv'
  OBVIOUS
<1>m. /\ \A a \in Agents :
           Rising(facts[a]) /\ Rising(pending[a]) /\ Newest(Own(a), Elems(pending[a]))
      /\ \A a \in Agents : Rising(rowFacts[a]) /\ \A s \in Savers : Rising(payload[s][a])
  BY DEF MatchInv
<1>n. \A a \in Agents : /\ Elems(facts[a]) \subseteq Upto(a) /\ Elems(pending[a]) \subseteq Upto(a)
                        /\ Upto(a) \subseteq Nat /\ Own(a) \subseteq Upto(a) /\ hearsay[a] \subseteq Upto(a)
  BY DEF Known, Upto, Own
<1>g. \A a \in Agents : facts[a] \in Lists /\ pending[a] \in Lists
  BY DEF TypeOK
<1>e. \A a \in Agents : Elems(pending'[a]) = Elems(pending[a])' /\ Elems(facts'[a]) = Elems(facts[a])'
  BY DEF Elems
\* Knowledge and buffer stay, or the buffer loses its oldest part.
<1>1. ASSUME UNCHANGED <<facts, hearsay>>,
             \A a \in Agents :
               \/ pending'[a] = pending[a]
               \/ \E count \in Nat : pending'[a] = DropFront(pending[a], count),
             \A a \in Agents : Rising(rowFacts'[a]) /\ \A s \in Savers : Rising(payload'[s][a])
      PROVE  MatchInv'
  <2>1. ASSUME NEW a \in Agents
        PROVE  Rising(facts'[a]) /\ Rising(pending'[a]) /\ Newest(Own(a)', Elems(pending'[a]))
    <3>1. Own(a)' = Own(a) /\ facts'[a] = facts[a]
      BY <1>1 DEF Own, Elems
    <3>2. CASE pending'[a] = pending[a]
      BY <1>m, <3>1, <3>2
    <3>3. CASE \E count \in Nat : pending'[a] = DropFront(pending[a], count)
      <4>1. PICK count \in Nat : pending'[a] = DropFront(pending[a], count)
        BY <3>3
      <4> DEFINE Q == Elems(DropFront(pending[a], count))
      <4>2. /\ Rising(DropFront(pending[a], count)) /\ Q \subseteq Elems(pending[a])
            /\ \A x \in Elems(pending[a]) \ Q, y \in Q : x < y
        BY <1>m, <1>g, DropFrontOfRising
      <4>3. Newest(Own(a), Q)
        <5> HIDE DEF Q
        <5>1. Own(a) \in SUBSET Nat /\ Elems(pending[a]) \in SUBSET Nat /\ Newest(Own(a), Elems(pending[a]))
          BY <1>m, <1>n
        <5> QED BY <4>2, <5>1, NewestCut
      <4> QED BY <1>m, <3>1, <4>1, <4>2, <4>3
    <3> QED BY <1>1, <3>2, <3>3
  <2> QED BY <1>1, <1>e, <2>1 DEF MatchInv
\* The buffer is empty.
<1>2. ASSUME pending' = Nothing, \A a \in Agents : Rising(facts'[a]),
             \A a \in Agents : Rising(rowFacts'[a]) /\ \A s \in Savers : Rising(payload'[s][a])
      PROVE  MatchInv'
  <2>1. \A a \in Agents : Elems(pending'[a]) = {} /\ Rising(pending'[a])
    BY <1>2, NothingElems
  <2>2. ASSUME NEW a \in Agents PROVE Newest(Own(a)', Elems(pending'[a]))
    BY <2>1 DEF Newest
  <2> QED BY <1>2, <1>e, <2>1, <2>2 DEF MatchInv
\* A fact is appended to the knowledge: it is the agent's own and joins the
\* buffer, or it was told.
<1>3. ASSUME NEW a \in Agents, AppendFact(a) \/ LearnFromPeer(a) PROVE MatchInv'
  <2> DEFINE n == appended[a] + 1
             f == Window(Append(facts[a], n))
             p == Window(Append(pending[a], n))
             F == Elems(f)
             P == Elems(p)
             O == Own(a)
             H == hearsay[a]
             E == Elems(facts[a])
             B == Elems(pending[a])
  <2>1. n \in Fact /\ n \in Nat /\ \A S \in SUBSET Upto(a) : \A x \in S : x < n
    <3>1. n <= Quota[a]
      BY <1>3 DEF AppendFact, LearnFromPeer
    <3>2. n \in Fact /\ \A S \in SUBSET Upto(a) : \A x \in S : x < n
      BY <3>1, NextFact
    <3> QED BY <3>2 DEF Fact
  <2>2. /\ facts' = [facts EXCEPT ![a] = f] /\ UNCHANGED <<rowFacts, payload>>
        /\ \/ pending' = [pending EXCEPT ![a] = p] /\ hearsay' = hearsay
           \/ pending' = pending /\ hearsay' = [hearsay EXCEPT ![a] = hearsay[a] \cup {n}]
    BY <1>3 DEF AppendFact, LearnFromPeer, saveVars, dbVars
  <2> HIDE DEF n
  <2>3. /\ Rising(f) /\ F \subseteq E \cup {n}
        /\ \A x \in (E \cup {n}) \ F : \A y \in F : x < y
    <3>1. \A x \in Elems(facts[a]) : x < n
      BY <1>n, <2>1
    <3> QED BY <1>m, <1>g, <2>1, <3>1, WindowOfRising
  <2>4. /\ Rising(p) /\ P \subseteq B \cup {n}
        /\ \A x \in (B \cup {n}) \ P : \A y \in P : x < y
    <3>1. \A x \in Elems(pending[a]) : x < n
      BY <1>n, <2>1
    <3> QED BY <1>m, <1>g, <2>1, <3>1, WindowOfRising
  <2>6. /\ O \in SUBSET Nat /\ B \in SUBSET Nat /\ Newest(O, B)
        /\ (\A x \in O \cup B : x < n) /\ O = E \ H /\ n \notin H /\ n \notin O
    <3>1. O \in SUBSET Upto(a) /\ B \in SUBSET Upto(a) /\ H \in SUBSET Upto(a) /\ Upto(a) \subseteq Nat
      BY <1>n
    <3>2. \A S \in SUBSET Upto(a) : n \notin S
      BY <1>n, <2>1
    <3> QED BY <1>m, <2>1, <3>1, <3>2 DEF Own
  <2> HIDE DEF f, p, F, P, O, E, B
  <2>5. ASSUME NEW b \in Agents, b # a
        PROVE  facts'[b] = facts[b] /\ pending'[b] = pending[b] /\ Own(b)' = Own(b)
    <3>1. facts'[b] = facts[b] /\ pending'[b] = pending[b] /\ hearsay'[b] = hearsay[b]
      BY <2>2, <2>5 DEF TypeOK
    <3> QED BY <3>1 DEF Own, Elems
  <2>7. facts'[a] = f
    BY <2>2 DEF TypeOK
  <2>8. CASE pending' = [pending EXCEPT ![a] = p] /\ hearsay' = hearsay
    <3>1. pending'[a] = p /\ hearsay'[a] = H
      BY <2>8 DEF TypeOK
    <3>2. Own(a)' = F \ H
      BY <2>7, <3>1 DEF Own, F, Elems
    <3> DEFINE O1 == O \cup {n}
               B1 == B \cup {n}
               G == O1 \cap F
    <3>3. Newest(O1, B1) /\ O1 \in SUBSET Nat /\ B1 \in SUBSET Nat
      BY <2>1, <2>6, NewestGrows
    <3>4. P \in SUBSET B1 /\ \A x \in B1 \ P, y \in P : x < y
      BY <2>4
    <3>5. G \in SUBSET O1 /\ \A x \in O1 \ G, y \in G : x < y
      BY <2>3, <2>6
    <3>6. G = F \ H
      BY <2>3, <2>6
    <3> HIDE DEF O1, B1, G
    <3>7. Newest(O1, P) /\ P \in SUBSET Nat
      BY <3>3, <3>4, NewestCut
    <3>8. Newest(P, G)
      BY <3>3, <3>5, <3>7, NewestCut, NewestSymmetric
    <3>9. Newest(Own(a)', Elems(pending'[a]))
      BY <3>1, <3>2, <3>6, <3>8, NewestSymmetric DEF P
    <3>10. \A b \in Agents : Rising(facts'[b]) /\ Rising(pending'[b]) /\ Newest(Own(b)', Elems(pending'[b]))
      BY <1>m, <2>3, <2>4, <2>5, <2>7, <3>1, <3>9
    <3> QED BY <1>m, <1>e, <2>2, <3>10 DEF MatchInv
  <2>9. CASE pending' = pending /\ hearsay' = [hearsay EXCEPT ![a] = hearsay[a] \cup {n}]
    <3>1. pending'[a] = pending[a] /\ hearsay'[a] = H \cup {n}
      BY <2>9 DEF TypeOK
    <3>2. Own(a)' = F \ (H \cup {n})
      BY <2>7, <3>1 DEF Own, F, Elems
    <3> DEFINE G == O \cap F
    <3>3. Newest(B, O)
      BY <2>6, NewestSymmetric
    <3>4. G \in SUBSET O /\ \A x \in O \ G, y \in G : x < y
      BY <2>3, <2>6
    <3>5. G = F \ (H \cup {n})
      BY <2>3, <2>6
    <3> HIDE DEF G
    <3>6. Newest(B, G)
      BY <2>6, <3>3, <3>4, NewestCut
    <3>7. Newest(Own(a)', Elems(pending'[a]))
      BY <3>1, <3>2, <3>5, <3>6, NewestSymmetric DEF B
    <3>8. \A b \in Agents : Rising(facts'[b]) /\ Rising(pending'[b]) /\ Newest(Own(b)', Elems(pending'[b]))
      BY <1>m, <2>3, <2>5, <2>7, <3>1, <3>7
    <3> QED BY <1>m, <1>e, <2>2, <3>8 DEF MatchInv
  <2> QED BY <2>2, <2>8, <2>9
<1>4. ASSUME NEW s \in Savers, SaveStep(s), ~Rebirth(s) PROVE MatchInv'
  <2>1. UNCHANGED <<facts, hearsay>>
    BY <1>4 DEF SaveStep, Snapshot, EmbedAll, EmbedFails, Commit, DropFlushed, SaveAborts, AckLost,
                memVars, histVars
  <2>2. pending' = pending \/ pending' = [a \in Agents |-> DropFront(pending[a], Len(take[s][a]))]
    BY <1>4 DEF SaveStep, Snapshot, EmbedAll, EmbedFails, Commit, DropFlushed, SaveAborts, AckLost, memVars
  <2>3. \A a \in Agents : Len(take[s][a]) \in Nat
    BY DEF TypeOK, Lists
  <2>4. /\ \A t \in Savers : payload'[t] \in {payload[t], facts, Nothing}
        /\ rowFacts' \in {rowFacts, payload[s]}
    BY <1>4 DEF SaveStep, Snapshot, EmbedAll, EmbedFails, Commit, DropFlushed, SaveAborts, AckLost,
                dbVars, TypeOK
  <2>5. \A a \in Agents : Rising(rowFacts'[a]) /\ \A t \in Savers : Rising(payload'[t][a])
    BY <1>m, <2>4, NothingElems
  <2> QED BY <1>1, <2>1, <2>2, <2>3, <2>5
<1>5. ASSUME (\E s \in Savers : Rebirth(s)) \/ Restart PROVE MatchInv'
  <2>1. /\ rowFacts' = rowFacts /\ facts' \in {Nothing, rowFacts} /\ pending' = Nothing
        /\ \A t \in Savers : payload'[t] \in {payload[t], Nothing}
    BY <1>5 DEF Rebirth, Restart, dbVars
  <2>2. \A a \in Agents : Rising(facts'[a])
    BY <1>m, <2>1, NothingElems
  <2>3. \A a \in Agents : Rising(rowFacts'[a]) /\ \A t \in Savers : Rising(payload'[t][a])
    BY <1>m, <2>1, NothingElems
  <2> QED BY <1>2, <2>1, <2>2, <2>3
<1>6. CASE UNCHANGED vars
  BY <1>1, <1>6, <1>m DEF vars, memVars, saveVars, dbVars, histVars
<1> QED
  BY <1>3, <1>4, <1>5, <1>6 DEF Next

\* The knowledge and the buffer of an agent never drift apart, whatever the cap,
\* the number of savers, and the saves that fail, are cancelled or overtaken.
THEOREM BufferMatches == Spec => []BufferMatchesKnowledge
<1>1. TypeOK /\ Known /\ MatchInv /\ [Next]_vars => Known' /\ MatchInv'
  BY KnownStep, MatchStep
<1>2. Init => Known /\ MatchInv
  BY KnownInit, MatchInit
<1> QED BY <1>1, <1>2, TypeCorrect, MatchIs, PTL DEF Spec
-----------------------------------------------------------------------------
(* Duplicates.  A fact that is stored and still buffered is one the save in *)
(* progress is about to drop: it stands among the entries that go, however  *)
(* many the cap pushed out of the buffer since they were taken.             *)

Saving(s) == pc[s] \in {"embed", "commit", "drop"}

Mine == \A s \in Savers : Saving(s) => takenIn[s] = life

TakenBehind ==
  \A s \in Savers, a \in Agents : Saving(s) =>
    \A i \in 1..Len(pending[a]) : pending[a][i] \in Elems(take[s][a]) => i <= Len(take[s][a])

StoredBehind ==
  \A a \in Agents : \A i \in 1..Len(pending[a]) :
    pending[a][i] \in Stored(a) => \E s \in Savers : pc[s] = "drop" /\ i <= Len(take[s][a])

TakenNew ==
  \A s \in Savers, a \in Agents : pc[s] \in {"embed", "commit"} =>
    Elems(take[s][a]) \cap Stored(a) = {}

Once == \A a \in Agents : \A n \in Fact : rows[a][n] <= 1

OnceInv == Mine /\ TakenBehind /\ (lostAcks = 0 => StoredBehind /\ TakenNew /\ Once)

LEMMA OnceInit == Init => OnceInv
<1> SUFFICES ASSUME Init PROVE OnceInv
  OBVIOUS
<1>1. Mine /\ TakenBehind /\ TakenNew
  BY DEF Init, Mine, TakenBehind, TakenNew, Saving
<1>2. \A a \in Agents : Stored(a) = {}
  BY DEF Init, Stored
<1>3. Once
  BY DEF Init, Once
<1> QED BY <1>1, <1>2, <1>3 DEF OnceInv, StoredBehind

\* Where an entry of the buffer after an append was before it.
LEMMA AppendedAt ==
  ASSUME NEW s \in Lists, NEW n \in Fact, NEW i \in 1..Len(Window(Append(s, n)))
  PROVE  \/ Window(Append(s, n))[i] = n
         \/ \E j \in 1..Len(s) : i <= j /\ Window(Append(s, n))[i] = s[j]
<1> DEFINE t == Append(s, n)
           w == Window(t)
<1>1. s \in Seq(Fact) /\ Len(s) \in Nat
  BY DEF Lists
<1>2. Len(t) = Len(s) + 1 /\ (\A j \in 1..Len(s) : t[j] = s[j]) /\ t[Len(s) + 1] = n
  BY <1>1
<1>3. PICK k \in {0, 1} : TailAt(w, t, k)
  BY WindowIsTail
<1> HIDE DEF t, w
<1>4. k + i \in 1..Len(t) /\ w[i] = t[k + i] /\ i <= k + i
  BY <1>3 DEF TailAt, w, t
<1>5. k + i \in 1..Len(s) \/ k + i = Len(s) + 1
  BY <1>1, <1>2, <1>4
<1> QED BY <1>2, <1>4, <1>5 DEF w, t

LEMMA OnceStep ==
  ASSUME OneSaver
  PROVE  TypeOK /\ Known /\ OnceInv /\ [Next]_vars => OnceInv'
<1> SUFFICES ASSUME TypeOK, Known, OnceInv, [Next]_vars PROVE OnceInv'
  OBVIOUS
<1>s. \A s, t \in Savers : s = t
  BY DEF OneSaver
<1>t. /\ \A a \in Agents : pending[a] \in Lists /\ Len(pending[a]) \in Nat
      /\ \A s \in Savers, a \in Agents : take[s][a] \in Lists /\ Len(take[s][a]) \in Nat
      /\ lostAcks \in Nat
  BY DEF TypeOK, Lists
<1>p. \A a \in Agents : Stored(a)' = {n \in Fact : rows'[a][n] > 0}
  BY DEF Stored
\* A fact is appended.
<1>1. ASSUME NEW a \in Agents, AppendFact(a) PROVE OnceInv'
  <2> DEFINE n == appended[a] + 1
             p == Window(Append(pending[a], n))
  <2>1. n \in Fact /\ \A S \in SUBSET Upto(a) : n \notin S
    <3>1. appended[a] + 1 <= Quota[a]
      BY <1>1 DEF AppendFact
    <3>2. n \in Fact /\ appended[a] \in Nat
      BY <3>1, NextFact
    <3> QED BY <3>2 DEF Upto
  <2>2. UNCHANGED <<pc, take, takenIn, rows, life, lostAcks>> /\ pending' = [pending EXCEPT ![a] = p]
    BY <1>1 DEF AppendFact, saveVars, dbVars
  <2> HIDE DEF n
  <2>3. n \notin Stored(a) /\ \A s \in Savers : n \notin Elems(take[s][a])
    BY <2>1 DEF Known
  <2>4. ASSUME NEW i \in 1..Len(p)
        PROVE  p[i] = n \/ \E j \in 1..Len(pending[a]) : i <= j /\ p[i] = pending[a][j]
    <3> DEFINE q == pending[a]
    <3>1. q \in Lists /\ i \in 1..Len(Window(Append(q, n)))
      BY <1>t, <2>4
    <3> HIDE DEF q
    <3>2. \/ Window(Append(q, n))[i] = n
          \/ \E j \in 1..Len(q) : i <= j /\ Window(Append(q, n))[i] = q[j]
      BY <2>1, <3>1, AppendedAt, Zenon
    <3> QED BY <3>2, Zenon DEF q
  <2>5. Len(p) \in Nat
    <3>1. p \in Lists
      BY <1>t, <2>1, WindowOfAppend
    <3> QED BY <3>1 DEF Lists
  <2> HIDE DEF p
  <2>6. \A b \in Agents : pending'[b] = IF b = a THEN p ELSE pending[b]
    BY <2>2 DEF TypeOK
  <2>7. TakenBehind'
    <3> SUFFICES ASSUME NEW s \in Savers, NEW b \in Agents, Saving(s),
                        NEW i \in 1..Len(pending'[b]), pending'[b][i] \in Elems(take[s][b])
                 PROVE  i <= Len(take[s][b])
      <4>1. \A s \in Savers, b \in Agents : Elems(take[s][b])' = Elems(take[s][b]) /\ take'[s][b] = take[s][b]
        BY <2>2 DEF Elems
      <4>2. \A s \in Savers : Saving(s)' = Saving(s)
        BY <2>2 DEF Saving
      <4> QED BY <4>1, <4>2 DEF TakenBehind
    <3>1. CASE b = a
      <4>1. pending'[a] = p /\ i \in 1..Len(p) /\ p[i] # n
        BY <2>3, <2>6, <3>1
      <4>2. PICK j \in 1..Len(pending[a]) : i <= j /\ p[i] = pending[a][j]
        BY <2>4, <4>1
      <4>3. j <= Len(take[s][a])
        BY <3>1, <4>1, <4>2 DEF OnceInv, TakenBehind
      <4> QED BY <1>t, <2>5, <3>1, <4>1, <4>2, <4>3
    <3>2. CASE b # a
      BY <2>6, <3>2 DEF OnceInv, TakenBehind
    <3> QED BY <3>1, <3>2
  <2>8. ASSUME lostAcks = 0 PROVE StoredBehind'
    <3> SUFFICES ASSUME NEW b \in Agents, NEW i \in 1..Len(pending'[b]), pending'[b][i] \in Stored(b)
                 PROVE  \E s \in Savers : pc[s] = "drop" /\ i <= Len(take[s][b])
      BY <2>2 DEF StoredBehind, Stored
    <3>1. CASE b = a
      <4>1. pending'[a] = p /\ i \in 1..Len(p) /\ p[i] # n
        BY <2>3, <2>6, <3>1
      <4>2. PICK j \in 1..Len(pending[a]) : i <= j /\ p[i] = pending[a][j]
        BY <2>4, <4>1
      <4>3. PICK s \in Savers : pc[s] = "drop" /\ j <= Len(take[s][a])
        BY <2>8, <3>1, <4>1, <4>2 DEF OnceInv, StoredBehind
      <4> QED BY <1>t, <2>5, <3>1, <4>1, <4>2, <4>3
    <3>2. CASE b # a
      BY <2>6, <2>8, <3>2 DEF OnceInv, StoredBehind
    <3> QED BY <3>1, <3>2
  <2>9. Mine' /\ (lostAcks = 0 => TakenNew' /\ Once')
    <3>1. Mine' /\ (lostAcks = 0 => Once')
      BY <2>2 DEF OnceInv, Mine, Saving, Once
    <3>2. lostAcks = 0 => TakenNew'
      BY SMTT(30), <2>2 DEF OnceInv, TakenNew, Elems, Stored
    <3> QED BY <3>1, <3>2
  <2> QED BY <2>2, <2>7, <2>8, <2>9 DEF OnceInv
\* The buffers stay.
<1>2. ASSUME UNCHANGED <<pending, pc, take, takenIn, rows, life, lostAcks>> PROVE OnceInv'
  BY <1>2 DEF OnceInv, Mine, TakenBehind, StoredBehind, TakenNew, Once, Saving, Elems, Stored
<1>3. ASSUME NEW s \in Savers, Snapshot(s) PROVE OnceInv'
  <2>1. /\ UNCHANGED <<pending, rows, life, lostAcks>> /\ pc[s] = "idle"
        /\ take'[s] = pending /\ takenIn'[s] = life /\ pc'[s] \in {"embed", "commit"}
    BY <1>3 DEF Snapshot, TypeOK, memVars, dbVars
  <2>2. \A t \in Savers : t = s
    BY <1>s
  <2>3. Mine'
    BY <2>1, <2>2 DEF Mine, Saving
  <2>4. TakenBehind'
    BY <1>t, <2>1, <2>2 DEF TakenBehind
  <2>5. ASSUME lostAcks = 0, NEW a \in Agents PROVE Elems(pending[a]) \cap Stored(a) = {}
    BY <2>1, <2>2, <2>5 DEF OnceInv, StoredBehind, Elems
  <2>6. ASSUME lostAcks = 0 PROVE StoredBehind'
    BY <2>1, <2>5, <2>6 DEF StoredBehind, Elems, Stored
  <2>7. ASSUME lostAcks = 0 PROVE TakenNew'
    <3>1. \A t \in Savers, a \in Agents : Elems(take'[t][a]) = Elems(pending[a])
      BY <2>1, <2>2
    <3>2. \A t \in Savers, a \in Agents : Elems(take[t][a])' = Elems(take'[t][a]) /\ Stored(a)' = Stored(a)
      BY <2>1 DEF Elems, Stored
    <3> QED BY <2>5, <2>7, <3>1, <3>2 DEF TakenNew
  <2>8. lostAcks = 0 => Once'
    BY <2>1 DEF OnceInv, Once
  <2> QED BY <2>1, <2>3, <2>4, <2>6, <2>7, <2>8 DEF OnceInv
<1>4. ASSUME NEW s \in Savers, EmbedAll(s) \/ EmbedFails(s) PROVE OnceInv'
  <2>1. /\ UNCHANGED <<pending, rows, life, lostAcks>> /\ pc[s] = "embed" /\ pc'[s] = "commit"
        /\ takenIn' = takenIn /\ (take'[s] = take[s] \/ take'[s] = Nothing)
    BY <1>4 DEF EmbedAll, EmbedFails, TypeOK, memVars, dbVars
  <2>2. \A t \in Savers : t = s
    BY <1>s
  <2>3. \A a \in Agents : Elems(take'[s][a]) \subseteq Elems(take[s][a])
    BY <2>1, NothingElems
  <2>4. \A a \in Agents : \A x \in Elems(take'[s][a]) : take'[s] = take[s]
    BY <2>1, NothingElems
  <2>5. Mine'
    BY <2>1, <2>2 DEF OnceInv, Mine, Saving
  <2>6. TakenBehind'
    <3> SUFFICES ASSUME NEW a \in Agents, NEW i \in 1..Len(pending[a]), pending[a][i] \in Elems(take'[s][a])
                 PROVE  i <= Len(take'[s][a])
      <4>1. \A a \in Agents : Elems(take[s][a])' = Elems(take'[s][a])
        BY DEF Elems
      <4> QED BY <2>1, <2>2, <4>1 DEF TakenBehind
    <3>1. take'[s] = take[s]
      BY <2>4
    <3> QED BY <2>1, <3>1 DEF OnceInv, TakenBehind, Saving
  <2>7. ASSUME lostAcks = 0 PROVE StoredBehind' /\ TakenNew' /\ Once'
    <3>1. \A a \in Agents : Elems(take[s][a])' = Elems(take'[s][a]) /\ Stored(a)' = Stored(a)
      BY <2>1 DEF Elems, Stored
    <3>2. \A t \in Savers : pc[t] # "drop"
      BY <2>1, <2>2
    <3>3. \A a \in Agents : \A i \in 1..Len(pending[a]) : pending[a][i] \notin Stored(a)
      BY <2>7, <3>2 DEF OnceInv, StoredBehind
    <3>4. StoredBehind' /\ Once'
      BY <2>1, <2>7, <3>1, <3>3 DEF OnceInv, StoredBehind, Once
    <3>5. \A a \in Agents : Elems(take[s][a]) \cap Stored(a) = {}
      BY <2>1, <2>7 DEF OnceInv, TakenNew
    <3>6. \A a \in Agents : Elems(take'[s][a]) \cap Stored(a) = {}
      BY <2>3, <3>5
    <3>7. TakenNew'
      BY <2>2, <3>1, <3>6 DEF TakenNew
    <3> QED BY <3>4, <3>7
  <2> QED BY <2>1, <2>5, <2>6, <2>7 DEF OnceInv
<1>5. ASSUME NEW s \in Savers, Commit(s) PROVE OnceInv'
  <2>1. /\ UNCHANGED <<pending, take, takenIn, life, lostAcks>> /\ pc[s] = "commit" /\ pc'[s] = "drop"
        /\ rows' = [a \in Agents |-> [n \in Fact |-> rows[a][n] + (IF n \in Elems(take[s][a]) THEN 1 ELSE 0)]]
    BY <1>5 DEF Commit, TypeOK, memVars
  <2>2. \A t \in Savers : t = s
    BY <1>s
  <2>3. \A a \in Agents : Stored(a)' = Stored(a) \cup Elems(take[s][a])
    BY <1>5, CommitStores
  <2>4. Mine' /\ TakenBehind'
    BY <2>1, <2>2 DEF OnceInv, Mine, TakenBehind, Saving, Elems
  <2>5. ASSUME lostAcks = 0 PROVE Once'
    <3> SUFFICES ASSUME NEW a \in Agents, NEW n \in Fact PROVE rows'[a][n] <= 1
      BY DEF Once
    <3> DEFINE E == Elems(take[s][a])
    <3>1. rows'[a][n] = rows[a][n] + (IF n \in E THEN 1 ELSE 0)
      BY <2>1
    <3>2. rows[a][n] \in Nat /\ rows[a][n] <= 1
      BY <2>5 DEF OnceInv, Once, TypeOK
    <3>3. n \in E => n \notin Stored(a)
      BY <2>1, <2>5 DEF OnceInv, TakenNew
    <3> HIDE DEF E
    <3>4. n \in E => rows[a][n] = 0
      BY <3>2, <3>3 DEF Stored
    <3> QED BY <3>1, <3>2, <3>4
  <2>6. ASSUME lostAcks = 0 PROVE StoredBehind'
    <3> SUFFICES ASSUME NEW a \in Agents, NEW i \in 1..Len(pending[a]), pending[a][i] \in Stored(a)'
                 PROVE  pc'[s] = "drop" /\ i <= Len(take[s][a])
      BY <2>1 DEF StoredBehind
    <3>1. \A t \in Savers : pc[t] # "drop"
      BY <2>1, <2>2
    <3>2. pending[a][i] \notin Stored(a)
      BY <2>6, <3>1 DEF OnceInv, StoredBehind
    <3>3. pending[a][i] \in Elems(take[s][a])
      BY <2>3, <3>2
    <3> QED BY <2>1, <3>3 DEF OnceInv, TakenBehind, Saving
  <2>7. TakenNew'
    BY <2>1, <2>2 DEF TakenNew
  <2> QED BY <2>1, <2>4, <2>5, <2>6, <2>7 DEF OnceInv
\* A save that ends without a lost answer, and with nothing stored that stays
\* in a buffer.
<1>6. ASSUME \A t \in Savers : pc'[t] \in {"idle", "rebirth"}, UNCHANGED <<rows, lostAcks>>,
             lostAcks = 0 =>
               \A a \in Agents : \A i \in 1..Len(pending'[a]) : pending'[a][i] \notin Stored(a)
      PROVE  OnceInv'
  <2>1. Mine' /\ TakenBehind' /\ TakenNew'
    BY <1>6 DEF Mine, TakenBehind, TakenNew, Saving
  <2>2. lostAcks = 0 => StoredBehind' /\ Once'
    BY <1>6 DEF OnceInv, StoredBehind, Once, Stored
  <2> QED BY <1>6, <2>1, <2>2 DEF OnceInv
<1>7. ASSUME NEW s \in Savers, DropFlushed(s) PROVE OnceInv'
  <2>1. /\ UNCHANGED <<rows, lostAcks>> /\ pc[s] = "drop" /\ pc'[s] \in {"idle", "rebirth"}
        /\ takenIn[s] = life => pending' = [a \in Agents |-> DropFront(pending[a], Len(take[s][a]))]
    BY <1>7 DEF DropFlushed, TypeOK, dbVars
  <2>2. \A t \in Savers : t = s
    BY <1>s
  <2>3. pending' = [a \in Agents |-> DropFront(pending[a], Len(take[s][a]))]
    BY <2>1 DEF OnceInv, Mine, Saving
  <2>4. ASSUME lostAcks = 0, NEW a \in Agents, NEW i \in 1..Len(pending'[a]),
               pending'[a][i] \in Stored(a)
        PROVE  FALSE
    <3> DEFINE c == Len(take[s][a])
               q == pending[a]
               w == DropFront(q, c)
    <3>1. q \in Lists /\ c \in Nat /\ pending'[a] = w /\ Len(q) \in Nat
      BY <1>t, <2>3
    <3>2. PICK k \in Nat : TailAt(w, q, k) /\ (k = c \/ w = <<>>)
      BY <3>1, DropFrontIsTail
    <3> HIDE DEF c, w
    <3>3. i \in 1..Len(w) /\ k + i \in 1..Len(q) /\ w[i] = q[k + i]
      BY <2>4, <3>1, <3>2 DEF TailAt
    <3>4. k = c
      BY <3>2, <3>3
    <3>5. PICK t \in Savers : k + i <= Len(take[t][a])
      BY <2>4, <3>1, <3>3 DEF OnceInv, StoredBehind
    <3>6. k + i <= c
      BY <2>2, <3>5 DEF c
    <3> QED BY <3>1, <3>3, <3>4, <3>6
  <2> QED BY <1>6, <2>1, <2>2, <2>4
<1>8. ASSUME NEW s \in Savers, SaveAborts(s) PROVE OnceInv'
  <2>1. /\ UNCHANGED <<rows, lostAcks, pending>> /\ pc[s] \in {"embed", "commit"} /\ pc'[s] = "idle"
    BY <1>8 DEF SaveAborts, TypeOK, dbVars, memVars
  <2>2. \A t \in Savers : t = s
    BY <1>s
  <2>3. lostAcks = 0 => \A a \in Agents : \A i \in 1..Len(pending[a]) : pending[a][i] \notin Stored(a)
    BY <2>1, <2>2 DEF OnceInv, StoredBehind
  <2> QED BY <1>6, <2>1, <2>2, <2>3
<1>9. ASSUME NEW s \in Savers, AckLost(s) PROVE OnceInv'
  <2>1. lostAcks' = lostAcks + 1 /\ pc'[s] = "idle"
    BY <1>9 DEF AckLost, TypeOK
  <2>2. Mine' /\ TakenBehind' /\ lostAcks' # 0
    BY <1>s, <1>t, <2>1 DEF Mine, TakenBehind, Saving
  <2> QED BY <2>2 DEF OnceInv
<1>10. ASSUME (\E s \in Savers : Rebirth(s)) \/ Restart PROVE OnceInv'
  <2>1. /\ UNCHANGED <<rows, lostAcks>> /\ pending' = Nothing /\ \A t \in Savers : pc'[t] = "idle"
    BY <1>10, <1>s DEF Rebirth, Restart, TypeOK, dbVars
  <2>2. \A a \in Agents : \A i \in 1..Len(pending'[a]) : pending'[a][i] \notin Stored(a)
    <3>1. \A a \in Agents : Elems(pending'[a]) = {}
      BY <2>1, NothingElems
    <3>2. ASSUME NEW a \in Agents, NEW i \in 1..Len(pending'[a]) PROVE FALSE
      <4>1. pending'[a][i] \in Elems(pending'[a])
        BY DEF Elems
      <4> QED BY <3>1, <4>1
    <3> QED BY <3>2
  <2> QED BY <1>6, <2>1, <2>2
<1>11. ASSUME (\E a \in Agents : LearnFromPeer(a)) \/ UNCHANGED vars PROVE OnceInv'
  <2>1. UNCHANGED <<pending, pc, take, takenIn, rows, life, lostAcks>>
    BY <1>11 DEF LearnFromPeer, vars, memVars, saveVars, dbVars
  <2> QED BY <1>2, <2>1
<1> QED
  BY <1>1, <1>3, <1>4, <1>5, <1>7, <1>8, <1>9, <1>10, <1>11 DEF Next, SaveStep

\* While saves run one at a time, a fact is stored twice only if the answer of a
\* commit was lost: not by a failed save, facts appended or pushed out in the
\* middle of one, a reset or a restart.
THEOREM DuplicatesNeed ==
  ASSUME OneSaver
  PROVE  Spec => []DuplicatesNeedLostAck
<1>1. TypeOK /\ Known /\ OnceInv /\ [Next]_vars => Known' /\ OnceInv'
  BY KnownStep, OnceStep
<1>2. Init => Known /\ OnceInv
  BY KnownInit, OnceInit
<1>3. OnceInv => DuplicatesNeedLostAck
  BY DEF OnceInv, Once, DuplicatesNeedLostAck
<1> QED BY <1>1, <1>2, <1>3, TypeCorrect, PTL DEF Spec
-----------------------------------------------------------------------------
(* What an overflow costs.  Every fact lost has used up an overflow of its  *)
(* agent: while a save is in progress, so has every entry that will go with *)
(* its drop without having been taken.                                      *)

GoesOf(p, t) == {p[i] : i \in 1..Len(t)} \ Elems(t)
Goes(s, a) == GoesOf(pending[a], take[s][a])

OwnFacts ==
  \A a \in Agents :
    /\ excused[a] \subseteq Upto(a)
    /\ Elems(pending[a]) \cap (excused[a] \cup hearsay[a]) = {}
    /\ \A s \in Savers : Saving(s) => Elems(take[s][a]) \cap (excused[a] \cup hearsay[a]) = {}

LongEnough == \A s \in Savers, a \in Agents : Saving(s) => Len(take[s][a]) <= Len(pending[a])

LossPaid ==
  \A a \in Agents :
    /\ Cardinality(Lost(a)) <= trims[a]
    /\ \A s \in Savers : Saving(s) =>
         Cardinality(Lost(a) \ Elems(take[s][a])) + Cardinality(Goes(s, a)) <= trims[a]

\* What was proved so far, in one place.
Before == FlushInv /\ Known /\ MatchInv /\ OnceInv /\ OwnFacts /\ LongEnough

LEMMA LostIsFinite ==
  ASSUME TypeOK, NEW a \in Agents
  PROVE  /\ Lost(a) \subseteq 1..appended[a] /\ IsFiniteSet(Lost(a)) /\ Cardinality(Lost(a)) \in Nat
<1>1. appended[a] \in Int /\ 1 \in Int
  BY DEF TypeOK
<1>2. IsFiniteSet(1..appended[a])
  BY <1>1, FS_Interval
<1>3. Lost(a) \in SUBSET (1..appended[a])
  BY DEF Lost
<1>4. IsFiniteSet(Lost(a))
  BY <1>2, <1>3, FS_Subset
<1> QED BY <1>3, <1>4, FS_CardinalityType

LEMMA GoesIsFinite ==
  ASSUME TypeOK, LongEnough, NEW s \in Savers, Saving(s), NEW a \in Agents
  PROVE  IsFiniteSet(Goes(s, a)) /\ Cardinality(Goes(s, a)) \in Nat
<1>1. pending[a] \in Seq(Fact) /\ Len(take[s][a]) \in Nat /\ Len(pending[a]) \in Nat
  BY DEF TypeOK, Lists
<1>2. Len(take[s][a]) <= Len(pending[a])
  BY DEF LongEnough
<1>3. \A i \in 1..Len(take[s][a]) : pending[a][i] \in Fact
  BY <1>1, <1>2
<1>4. Goes(s, a) \in SUBSET Fact
  BY <1>3 DEF Goes, GoesOf
<1>5. IsFiniteSet(Fact)
  BY FS_Interval DEF Fact
<1>6. IsFiniteSet(Goes(s, a))
  BY <1>4, <1>5, FS_Subset
<1> QED BY <1>6, FS_CardinalityType

\* An append to a buffer, with room and without.
LEMMA Pushed ==
  ASSUME NEW s \in Lists, NEW n \in Fact, Rising(s), n \notin Elems(s)
  PROVE  LET w == Window(Append(s, n)) IN
         /\ Len(s) < Cap => /\ Len(w) = Len(s) + 1 /\ Elems(w) = Elems(s) \cup {n}
                            /\ \A i \in 1..Len(s) : w[i] = s[i]
         /\ ~(Len(s) < Cap) => /\ Len(s) = Cap /\ Len(w) = Cap /\ s[1] \in Elems(s)
                               /\ Elems(w) = (Elems(s) \ {s[1]}) \cup {n}
                               /\ \A i \in 1..(Cap - 1) : w[i] = s[i + 1]
                               /\ w[Cap] = n
<1> DEFINE t == Append(s, n)
           w == Window(t)
<1>1. s \in Seq(Fact) /\ Len(s) \in Nat /\ Len(s) <= Cap
  BY DEF Lists
<1>2. Len(t) = Len(s) + 1 /\ (\A i \in 1..Len(s) : t[i] = s[i]) /\ t[Len(s) + 1] = n
  BY <1>1
<1>3. CASE Len(s) < Cap
  <2>1. w = t
    BY <1>1, <1>2, <1>3 DEF Window
  <2> QED BY <1>2, <1>3, <2>1, AppendElems
<1>4. CASE ~(Len(s) < Cap)
  <2>1. Len(s) = Cap
    BY <1>1, <1>4
  <2>2. w = SubSeq(t, 2, Cap + 1)
    BY <1>2, <2>1 DEF Window
  <2>3. t \in Seq(Fact)
    BY <1>1
  <2>4. Len(w) = Cap /\ \A i \in 1..Cap : w[i] = t[i + 1]
    <3> HIDE DEF t, w
    <3> QED BY <1>2, <2>1, <2>2, <2>3
  <2> HIDE DEF t, w
  <2>5. (\A i \in 1..(Cap - 1) : w[i] = s[i + 1]) /\ w[Cap] = n
    BY <1>2, <2>1, <2>4
  <2>6. s[1] \in Elems(s)
    BY <2>1 DEF Elems
  <2>7. Elems(w) \subseteq (Elems(s) \ {s[1]}) \cup {n}
    <3> SUFFICES ASSUME NEW i \in 1..Cap PROVE w[i] \in (Elems(s) \ {s[1]}) \cup {n}
      BY <2>4 DEF Elems
    <3>1. CASE i = Cap
      BY <2>5, <3>1
    <3>2. CASE i # Cap
      <4>1. i \in 1..(Cap - 1) /\ i + 1 \in 1..Len(s) /\ 1 \in 1..Len(s) /\ 1 < i + 1
        BY <2>1, <3>2
      <4>2. s[1] < s[i + 1] /\ s[1] \in Nat
        BY <1>1, <4>1 DEF Rising, Fact
      <4>3. w[i] = s[i + 1] /\ s[i + 1] \in Elems(s)
        BY <2>5, <4>1 DEF Elems
      <4> QED BY <4>2, <4>3
    <3> QED BY <3>1, <3>2
  <2>8. (Elems(s) \ {s[1]}) \cup {n} \subseteq Elems(w)
    <3>1. n \in Elems(w)
      BY <2>4, <2>5 DEF Elems
    <3>2. ASSUME NEW j \in 1..Len(s), s[j] # s[1] PROVE s[j] \in Elems(w)
      <4>1. j - 1 \in 1..(Cap - 1) /\ j - 1 \in 1..Cap /\ (j - 1) + 1 = j
        BY <2>1, <3>2
      <4>2. w[j - 1] = s[j]
        BY <2>5, <4>1
      <4> QED BY <2>4, <4>1, <4>2 DEF Elems
    <3> QED BY <3>1, <3>2 DEF Elems
  <2> QED BY <1>4, <2>1, <2>4, <2>5, <2>6, <2>7, <2>8 DEF w, t
<1> QED BY <1>3, <1>4

\* What an append does to the buffer, and to what is lost.
LEMMA AppendIs ==
  ASSUME Before, NEW a \in Agents, AppendFact(a)
  PROVE  LET n == appended[a] + 1
             q == pending[a]
             p == pending'[a]
         IN /\ n \in Fact /\ n \notin Elems(q) \cup Stored(a) \cup Lost(a)
            /\ \/ /\ Len(p) = Len(q) + 1 /\ Elems(p) = Elems(q) \cup {n} /\ trims'[a] = trims[a]
                  /\ \A i \in 1..Len(q) : p[i] = q[i]
                  /\ Lost(a)' = Lost(a)
               \/ /\ Len(q) = Cap /\ Len(p) = Cap /\ q[1] \in Elems(q) /\ trims'[a] = trims[a] + 1
                  /\ Elems(p) = (Elems(q) \ {q[1]}) \cup {n} /\ q[1] \notin Lost(a) /\ q[1] # n
                  /\ \A i \in 1..(Cap - 1) : p[i] = q[i + 1]
                  /\ Lost(a)' = IF q[1] \in Stored(a) THEN Lost(a) ELSE Lost(a) \cup {q[1]}
<1> DEFINE n == appended[a] + 1
           q == pending[a]
           p == pending'[a]
<1>1. n \in Fact /\ appended[a] \in Nat
  <2>1. appended[a] + 1 <= Quota[a]
    BY DEF AppendFact
  <2> QED BY <2>1, NextFact DEF Before, FlushInv
<1>2. q \in Lists /\ Rising(q) /\ Len(q) \in Nat /\ Len(q) <= Cap /\ trims[a] \in Nat
  BY DEF Before, FlushInv, TypeOK, MatchInv, Lists
<1>3. n \notin Upto(a) /\ 1..n = Upto(a) \cup {n}
  BY <1>1 DEF Upto
<1>4. /\ Elems(q) \subseteq Upto(a) /\ Stored(a) \subseteq Upto(a) /\ Lost(a) \subseteq Upto(a)
      /\ excused[a] \subseteq Upto(a) /\ hearsay[a] \subseteq Upto(a)
  BY DEF Before, Known, OwnFacts, Lost, Upto
<1>5. /\ p = Window(Append(q, n)) /\ appended'[a] = n /\ hearsay' = hearsay /\ excused' = excused
      /\ rows' = rows /\ trims'[a] = IF Len(q) >= Cap THEN trims[a] + 1 ELSE trims[a]
  BY DEF AppendFact, Before, FlushInv, TypeOK, dbVars
<1> HIDE DEF n, p, q
<1>6. /\ Lost(a) = Upto(a) \ (Elems(q) \cup Stored(a) \cup excused[a] \cup hearsay[a])
      /\ Lost(a)' = (1..n) \ (Elems(p) \cup Stored(a) \cup excused[a] \cup hearsay[a])
  <2>1. Stored(a)' = Stored(a) /\ Elems(pending[a])' = Elems(p)
    BY <1>5 DEF Stored, Elems, p
  <2> QED BY <1>5, <2>1 DEF Lost, Upto, q
<1>7. n \notin Elems(q) \cup Stored(a) \cup Lost(a) \cup excused[a] \cup hearsay[a]
  BY <1>3, <1>4
<1>8. CASE Len(q) < Cap
  <2>1. Len(p) = Len(q) + 1 /\ Elems(p) = Elems(q) \cup {n} /\ \A i \in 1..Len(q) : p[i] = q[i]
    BY <1>1, <1>2, <1>5, <1>7, <1>8, Pushed
  <2>2. Lost(a)' = Lost(a)
    BY <1>3, <1>6, <1>7, <2>1
  <2>3. trims'[a] = trims[a]
    BY <1>2, <1>5, <1>8
  <2> QED BY <1>1, <1>7, <2>1, <2>2, <2>3 DEF n, p, q
<1>9. CASE ~(Len(q) < Cap)
  <2> DEFINE x == q[1]
  <2>1. /\ Len(q) = Cap /\ Len(p) = Cap /\ x \in Elems(q)
        /\ Elems(p) = (Elems(q) \ {x}) \cup {n} /\ \A i \in 1..(Cap - 1) : p[i] = q[i + 1]
    BY <1>1, <1>2, <1>5, <1>7, <1>9, Pushed
  <2>2. x \notin excused[a] /\ x \notin hearsay[a]
    BY <2>1 DEF Before, OwnFacts, q
  <2>3. x \in Upto(a) /\ x # n /\ x \notin Lost(a)
    BY <1>3, <1>4, <1>6, <2>1
  <2> HIDE DEF x
  <2>4. Lost(a)' = IF x \in Stored(a) THEN Lost(a) ELSE Lost(a) \cup {x}
    BY <1>3, <1>6, <1>7, <2>1, <2>2, <2>3
  <2>5. trims'[a] = trims[a] + 1
    BY <1>2, <1>5, <1>9
  <2> QED BY <1>1, <1>7, <2>1, <2>3, <2>4, <2>5 DEF n, p, q, x
<1> QED BY <1>8, <1>9

\* What the other steps do to what is lost.
LEMMA LostKept ==
  ASSUME TypeOK, UNCHANGED <<pending, rows, appended, hearsay, excused>>
  PROVE  \A a \in Agents : Lost(a)' = Lost(a)
  BY DEF Lost, Elems, Stored

LEMMA LostOnTelling ==
  ASSUME TypeOK, NEW a \in Agents, LearnFromPeer(a)
  PROVE  \A b \in Agents : Lost(b)' = Lost(b)
<1> DEFINE n == appended[a] + 1
<1>1. n \in Fact /\ appended[a] \in Nat
  <2>1. appended[a] + 1 <= Quota[a]
    BY DEF LearnFromPeer
  <2> QED BY <2>1, NextFact
<1>2. 1..n = (1..appended[a]) \cup {n} /\ n \notin 1..appended[a]
  BY <1>1
<1>3. /\ appended'[a] = n /\ hearsay'[a] = hearsay[a] \cup {n} /\ excused' = excused
      /\ \A b \in Agents : Stored(b)' = Stored(b) /\ Elems(pending[b])' = Elems(pending[b])
      /\ \A b \in Agents : b # a => appended'[b] = appended[b] /\ hearsay'[b] = hearsay[b]
  BY DEF LearnFromPeer, TypeOK, dbVars, Stored, Elems
<1> HIDE DEF n
<1>4. Lost(a)' = Lost(a)
  BY <1>2, <1>3 DEF Lost
<1>5. \A b \in Agents : b # a => Lost(b)' = Lost(b)
  BY <1>3 DEF Lost
<1> QED BY <1>4, <1>5

LEMMA LostOnCommit ==
  ASSUME TypeOK, NEW s \in Savers, Commit(s)
  PROVE  \A a \in Agents : Lost(a)' = Lost(a) \ Elems(take[s][a])
<1>1. \A a \in Agents : Stored(a)' = Stored(a) \cup Elems(take[s][a])
  BY CommitStores
<1>2. UNCHANGED <<pending, appended, hearsay, excused>>
  BY DEF Commit, memVars, histVars
<1>3. \A a \in Agents : Elems(pending[a])' = Elems(pending[a])
  BY <1>2 DEF Elems
<1> QED BY <1>1, <1>2, <1>3 DEF Lost

LEMMA LostOnDrop ==
  ASSUME Before, OneSaver, NEW s \in Savers, DropFlushed(s), NEW a \in Agents
  PROVE  LET gone == (Elems(pending[a]) \ Stored(a)) \ Elems(pending'[a]) IN
         /\ Lost(a)' = Lost(a) \cup gone /\ gone \cap Lost(a) = {}
         /\ gone \subseteq Goes(s, a) /\ Lost(a) \cap Elems(take[s][a]) = {}
         /\ Elems(pending'[a]) \subseteq Elems(pending[a])
<1> DEFINE q == pending[a]
           p == pending'[a]
           c == Len(take[s][a])
           T == Elems(take[s][a])
           gone == (Elems(q) \ Stored(a)) \ Elems(p)
<1>1. /\ UNCHANGED <<rows, appended, hearsay, excused>> /\ pc[s] = "drop"
      /\ takenIn[s] = life => p = DropFront(q, c)
  BY DEF DropFlushed, dbVars, histVars
<1>2. p = DropFront(q, c)
  BY <1>1 DEF Before, OnceInv, Mine, Saving
<1>3. q \in Lists /\ Rising(q) /\ c \in Nat /\ Len(q) \in Nat
  BY DEF Before, FlushInv, TypeOK, MatchInv, Lists
<1>4. T \subseteq Stored(a)
  BY <1>1 DEF Before, FlushInv, DrainedIsStored
<1>5. c <= Len(q)
  BY <1>1 DEF Before, LongEnough, Saving
<1> HIDE DEF p, c
<1>6. Elems(p) \subseteq Elems(q)
  BY <1>2, <1>3, DropFrontOfRising
<1>7. gone \subseteq Goes(s, a)
  <2> SUFFICES ASSUME NEW i \in 1..Len(q), q[i] \notin Stored(a), q[i] \notin Elems(p)
               PROVE  q[i] \in Goes(s, a)
    BY DEF Elems
  <2>1. i <= c
    <3> SUFFICES ASSUME ~(i <= c) PROVE FALSE
      OBVIOUS
    <3>1. /\ Len(p) = Len(q) - c
          /\ \A j \in 1..(Len(q) - c) : p[j] = q[c + j]
      BY <1>2, <1>3, <1>5, DropFrontShifts
    <3>2. i - c \in 1..(Len(q) - c) /\ c + (i - c) = i
      BY <1>3, <1>5
    <3>3. p[i - c] = q[i]
      BY <3>1, <3>2
    <3> QED BY <3>1, <3>2, <3>3 DEF Elems
  <2>2. i \in 1..c
    BY <1>3, <2>1
  <2> QED BY <1>4, <2>2 DEF Goes, GoesOf, c
<1> HIDE DEF q, T
<1>8. /\ Lost(a) = (1..appended[a]) \ (Elems(q) \cup Stored(a) \cup excused[a] \cup hearsay[a])
      /\ Lost(a)' = (1..appended[a]) \ (Elems(p) \cup Stored(a) \cup excused[a] \cup hearsay[a])
  <2>1. Stored(a)' = Stored(a) /\ Elems(pending[a])' = Elems(p)
    BY <1>1 DEF Stored, Elems, p
  <2> QED BY <1>1, <2>1 DEF Lost, q
<1>9. \A x \in Elems(q) : x \in 1..appended[a] /\ x \notin excused[a] /\ x \notin hearsay[a]
  BY DEF Before, Known, OwnFacts, Upto, q
<1>10. Lost(a)' = Lost(a) \cup gone /\ gone \cap Lost(a) = {} /\ Lost(a) \cap T = {}
  BY <1>4, <1>6, <1>8, <1>9
<1> QED BY <1>6, <1>7, <1>10 DEF p, q, T

LEMMA LostOnNewLife ==
  ASSUME TypeOK, (\E s \in Savers : Rebirth(s)) \/ Restart
  PROVE  \A a \in Agents : Lost(a)' = Lost(a)
<1>1. /\ UNCHANGED <<rows, appended, hearsay>> /\ pending' = Nothing
      /\ \A a \in Agents : excused'[a] = excused[a] \cup Elems(pending[a])
  BY DEF Rebirth, Restart, dbVars
<1>2. \A a \in Agents : Elems(pending[a])' = {}
  <2>1. \A a \in Agents : Elems(pending'[a]) = {}
    BY <1>1, NothingElems
  <2> QED BY <2>1 DEF Elems
<1>3. \A a \in Agents : Stored(a)' = Stored(a)
  BY <1>1 DEF Stored
<1> QED BY <1>1, <1>2, <1>3 DEF Lost

\* When a save ends, or a new life begins, no save is in progress.
LEMMA SaveOver ==
  ASSUME OneSaver, TypeOK,
         \/ \E s \in Savers : DropFlushed(s) \/ SaveAborts(s) \/ AckLost(s) \/ Rebirth(s)
         \/ Restart
  PROVE  \A t \in Savers : ~ (pc'[t] \in {"embed", "commit", "drop"})
<1>1. ASSUME NEW s \in Savers, DropFlushed(s) \/ SaveAborts(s) \/ AckLost(s) \/ Rebirth(s)
      PROVE  pc'[s] \in {"idle", "rebirth"}
  BY <1>1 DEF TypeOK, DropFlushed, SaveAborts, AckLost, Rebirth
<1>2. CASE Restart
  BY <1>2 DEF Restart
<1> QED BY <1>1, <1>2 DEF OneSaver

\* What the steps of a save do to its snapshot.
LEMMA SaveSteps ==
  ASSUME TypeOK, NEW s \in Savers
  PROVE  /\ Snapshot(s) => take'[s] = pending
         /\ EmbedAll(s) \/ Commit(s) => take' = take
         /\ EmbedFails(s) => take'[s] = Nothing
         /\ EmbedAll(s) \/ EmbedFails(s) \/ Commit(s) => Saving(s)
         /\ Snapshot(s) \/ EmbedAll(s) \/ EmbedFails(s) \/ Commit(s) =>
              UNCHANGED <<pending, appended, hearsay, trims, excused>>
  BY DEF TypeOK, Snapshot, EmbedAll, EmbedFails, Commit, Saving, memVars, histVars

LEMMA OwnIs ==
  ASSUME \A a \in Agents :
           /\ excused'[a] \subseteq Upto(a)'
           /\ Elems(pending'[a]) \cap (excused'[a] \cup hearsay'[a]) = {}
           /\ \A s \in Savers : pc'[s] \in {"embed", "commit", "drop"} =>
                Elems(take'[s][a]) \cap (excused'[a] \cup hearsay'[a]) = {}
  PROVE  OwnFacts'
  BY DEF OwnFacts, Saving, Elems

LEMMA OwnStep ==
  ASSUME OneSaver
  PROVE  Before /\ [Next]_vars => OwnFacts'
<1> SUFFICES ASSUME Before, [Next]_vars PROVE OwnFacts'
  OBVIOUS
<1>s. \A s, t \in Savers : s = t
  BY DEF OneSaver
<1>t. TypeOK
  BY DEF Before, FlushInv
<1>o. \A a \in Agents :
        /\ excused[a] \subseteq Upto(a) /\ Elems(pending[a]) \subseteq Upto(a) /\ hearsay[a] \subseteq Upto(a)
        /\ \A x \in Elems(pending[a]) : x \notin excused[a] /\ x \notin hearsay[a]
        /\ \A s \in Savers : Elems(take[s][a]) \subseteq Upto(a)
        /\ \A s \in Savers : Saving(s) => \A x \in Elems(take[s][a]) : x \notin excused[a] /\ x \notin hearsay[a]
  BY DEF Before, Known, OwnFacts
<1>1. ASSUME NEW a \in Agents, AppendFact(a) \/ LearnFromPeer(a) PROVE OwnFacts'
  <2> DEFINE n == appended[a] + 1
  <2>1. appended[a] \in Nat /\ n \notin Upto(a) /\ Upto(a) \subseteq 1..n
    <3>1. appended[a] \in Nat
      BY <1>t DEF TypeOK
    <3> QED BY <3>1 DEF Upto
  <2>2. excused' = excused /\ pc' = pc /\ take' = take
    BY <1>1 DEF AppendFact, LearnFromPeer, saveVars
  <2>3. appended'[a] = n /\ \A b \in Agents : b # a => appended'[b] = appended[b]
    BY <1>1, <1>t DEF AppendFact, LearnFromPeer, TypeOK
  <2>4. \A b \in Agents : b # a => pending'[b] = pending[b] /\ hearsay'[b] = hearsay[b]
    BY <1>1, <1>t DEF AppendFact, LearnFromPeer, TypeOK
  <2>5. \A b \in Agents : Upto(b) \subseteq Upto(b)'
    BY <2>1, <2>3 DEF Upto
  <2>6. \/ hearsay'[a] = hearsay[a] /\ Elems(pending'[a]) \subseteq Elems(pending[a]) \cup {n}
        \/ hearsay'[a] = hearsay[a] \cup {n} /\ pending'[a] = pending[a]
    <3>1. CASE AppendFact(a)
      <4>1. Elems(pending'[a]) \subseteq Elems(pending[a]) \cup {n}
        BY <3>1, AppendIs
      <4> QED BY <3>1, <4>1 DEF AppendFact
    <3>2. CASE LearnFromPeer(a)
      BY <3>2, <1>t DEF LearnFromPeer, TypeOK
    <3> QED BY <1>1, <3>1, <3>2
  <2> HIDE DEF n
  <2>7. ASSUME NEW b \in Agents
        PROVE  /\ excused'[b] \subseteq Upto(b)'
               /\ Elems(pending'[b]) \cap (excused'[b] \cup hearsay'[b]) = {}
               /\ \A s \in Savers : pc'[s] \in {"embed", "commit", "drop"} =>
                    Elems(take'[s][b]) \cap (excused'[b] \cup hearsay'[b]) = {}
    <3>1. CASE b = a
      <4>1. Elems(pending'[a]) \cap (excused[a] \cup hearsay'[a]) = {}
        BY <1>o, <2>1, <2>6
      <4>2. \A s \in Savers : Saving(s) => Elems(take[s][a]) \cap (excused[a] \cup hearsay'[a]) = {}
        BY <1>o, <2>1, <2>6
      <4> QED BY <1>o, <2>2, <2>5, <3>1, <4>1, <4>2 DEF Saving
    <3>2. CASE b # a
      BY <1>o, <2>2, <2>4, <2>5, <3>2 DEF Saving
    <3> QED BY <3>1, <3>2
  <2> QED BY <2>7, OwnIs
<1>2. ASSUME NEW s \in Savers, Snapshot(s) \/ EmbedAll(s) \/ EmbedFails(s) \/ Commit(s) PROVE OwnFacts'
  <2>1. UNCHANGED <<pending, appended, hearsay, excused>>
    BY <1>t, <1>2, SaveSteps
  <2>2. take'[s] = pending \/ take'[s] = Nothing \/ (take'[s] = take[s] /\ Saving(s))
    BY <1>t, <1>2, SaveSteps
  <2>3. \A a \in Agents : Elems(take'[s][a]) \cap (excused[a] \cup hearsay[a]) = {}
    BY <1>o, <2>2, NothingElems
  <2>4. \A a \in Agents : Upto(a)' = Upto(a)
    BY <2>1 DEF Upto
  <2> QED BY <1>o, <1>s, <2>1, <2>3, <2>4, OwnIs
<1>3. ASSUME NEW s \in Savers, DropFlushed(s) \/ SaveAborts(s) \/ AckLost(s) PROVE OwnFacts'
  <2>1. \A t \in Savers : ~ (pc'[t] \in {"embed", "commit", "drop"})
    BY <1>t, <1>3, SaveOver
  <2>2. UNCHANGED <<appended, hearsay, excused>>
    BY <1>3 DEF DropFlushed, SaveAborts, AckLost, histVars
  <2>3. \A a \in Agents : Elems(pending'[a]) \subseteq Elems(pending[a])
    <3>1. CASE DropFlushed(s)
      BY <3>1, LostOnDrop
    <3>2. CASE ~DropFlushed(s)
      BY <1>3, <3>2 DEF SaveAborts, AckLost, memVars
    <3> QED BY <3>1, <3>2
  <2>4. \A a \in Agents : Upto(a)' = Upto(a)
    BY <2>2 DEF Upto
  <2> QED BY <1>o, <2>1, <2>2, <2>3, <2>4, OwnIs
<1>4. ASSUME (\E s \in Savers : Rebirth(s)) \/ Restart PROVE OwnFacts'
  <2>1. \A t \in Savers : ~ (pc'[t] \in {"embed", "commit", "drop"})
    BY <1>t, <1>4, SaveOver
  <2>2. /\ UNCHANGED <<appended, hearsay>> /\ pending' = Nothing
        /\ \A a \in Agents : excused'[a] = excused[a] \cup Elems(pending[a])
    BY <1>4 DEF Rebirth, Restart
  <2>3. \A a \in Agents : Upto(a)' = Upto(a)
    BY <2>2 DEF Upto
  <2> QED BY <1>o, <2>1, <2>2, <2>3, NothingElems, OwnIs
<1>5. CASE UNCHANGED vars
  BY <1>5 DEF vars, memVars, saveVars, histVars, Before, OwnFacts, Saving, Upto, Elems
<1> QED BY <1>1, <1>2, <1>3, <1>4, <1>5 DEF Next, SaveStep

LEMMA LongStep ==
  ASSUME OneSaver
  PROVE  Before /\ [Next]_vars => LongEnough'
<1> SUFFICES ASSUME Before, [Next]_vars PROVE LongEnough'
  OBVIOUS
<1>s. \A s, t \in Savers : s = t
  BY DEF OneSaver
<1>t. TypeOK /\ \A s \in Savers, a \in Agents : Saving(s) => Len(take[s][a]) <= Len(pending[a])
  BY DEF Before, FlushInv, LongEnough
<1>n. /\ \A a \in Agents : Len(pending[a]) \in Nat /\ Len(pending[a]) <= Cap
      /\ \A s \in Savers, a \in Agents : Len(take[s][a]) \in Nat
  BY <1>t DEF TypeOK, Lists
<1>1. ASSUME NEW a \in Agents, AppendFact(a) \/ LearnFromPeer(a) PROVE LongEnough'
  <2>1. pc' = pc /\ take' = take
    BY <1>1 DEF AppendFact, LearnFromPeer, saveVars
  <2>2. \A b \in Agents : b # a => pending'[b] = pending[b]
    BY <1>1, <1>t DEF AppendFact, LearnFromPeer, TypeOK
  <2>3. Len(pending'[a]) \in {Len(pending[a]), Len(pending[a]) + 1}
    <3>1. CASE AppendFact(a)
      BY <3>1, AppendIs
    <3>2. CASE LearnFromPeer(a)
      BY <3>2 DEF LearnFromPeer
    <3> QED BY <1>1, <3>1, <3>2
  <2>4. \A b \in Agents : Len(pending[b]) <= Len(pending'[b]) /\ Len(pending'[b]) \in Nat
    <3> SUFFICES ASSUME NEW b \in Agents
                 PROVE  Len(pending[b]) <= Len(pending'[b]) /\ Len(pending'[b]) \in Nat
      OBVIOUS
    <3>1. CASE b = a
      BY <1>n, <2>3, <3>1
    <3>2. CASE b # a
      BY <1>n, <2>2, <3>2
    <3> QED BY <3>1, <3>2
  <2> SUFFICES ASSUME NEW s \in Savers, NEW b \in Agents, Saving(s)
               PROVE  Len(take[s][b]) <= Len(pending'[b])
    BY <2>1 DEF LongEnough, Saving
  <2>5. /\ Len(take[s][b]) \in Nat /\ Len(pending[b]) \in Nat
        /\ Len(take[s][b]) <= Len(pending[b])
    BY <1>t, <1>n
  <2>6. Len(pending[b]) <= Len(pending'[b]) /\ Len(pending'[b]) \in Nat
    BY <2>4
  <2> QED BY SMTT(30), <2>5, <2>6
<1>2. ASSUME NEW s \in Savers, Snapshot(s) \/ EmbedAll(s) \/ EmbedFails(s) \/ Commit(s) PROVE LongEnough'
  <2>1. pending' = pending /\ (take'[s] = pending \/ take'[s] = Nothing \/ (take'[s] = take[s] /\ Saving(s)))
    BY <1>t, <1>2, SaveSteps
  <2>2. \A a \in Agents : Len(Nothing[a]) = 0
    BY NothingElems
  <2>3. \A a \in Agents : Len(take'[s][a]) <= Len(pending'[a])
    BY <1>n, <1>t, <2>1, <2>2
  <2> QED BY <1>s, <2>3 DEF LongEnough
<1>3. ASSUME \/ \E s \in Savers : DropFlushed(s) \/ SaveAborts(s) \/ AckLost(s) \/ Rebirth(s)
             \/ Restart
      PROVE  LongEnough'
  BY <1>t, <1>3, SaveOver DEF LongEnough, Saving
<1>4. CASE UNCHANGED vars
  BY <1>4, <1>t DEF vars, memVars, saveVars, LongEnough, Saving
<1> QED BY <1>1, <1>2, <1>3, <1>4 DEF Next, SaveStep

\* Counting: one more element costs at most one, a part no more than the whole.
LEMMA OneMore ==
  ASSUME NEW S, IsFiniteSet(S), NEW x, NEW R, R \subseteq S \cup {x}
  PROVE  /\ IsFiniteSet(R) /\ Cardinality(R) \in Nat /\ Cardinality(S) \in Nat
         /\ Cardinality(R) <= Cardinality(S) + 1
         /\ R \subseteq S => Cardinality(R) <= Cardinality(S)
<1>1. /\ IsFiniteSet(S \cup {x}) /\ Cardinality(S) \in Nat
      /\ Cardinality(S \cup {x}) <= Cardinality(S) + 1
  <2>1. /\ IsFiniteSet(S \cup {x})
        /\ Cardinality(S \cup {x}) = IF x \in S THEN Cardinality(S) ELSE Cardinality(S) + 1
    BY FS_AddElement
  <2>2. Cardinality(S) \in Nat
    BY FS_CardinalityType
  <2> QED BY <2>1, <2>2
<1>2. /\ IsFiniteSet(R) /\ Cardinality(R) <= Cardinality(S \cup {x})
  BY <1>1, FS_Subset
<1>3. Cardinality(R) \in Nat /\ Cardinality(S \cup {x}) \in Nat
  BY <1>1, <1>2, FS_CardinalityType
<1>4. R \subseteq S => Cardinality(R) <= Cardinality(S)
  BY FS_Subset
<1> QED BY <1>1, <1>2, <1>3, <1>4

\* An overflow pushes the first entry of the buffer out. If the save had taken
\* it, one more entry goes with the drop; if not, it went already.
LEMMA GoesOnOverflow ==
  ASSUME NEW q \in Lists, NEW p \in Lists, Rising(q), Len(q) = Cap, Len(p) = Cap,
         \A i \in 1..(Cap - 1) : p[i] = q[i + 1],
         NEW t \in Lists, Len(t) \in 1..Cap
  PROVE  /\ GoesOf(p, t) \subseteq (GoesOf(q, t) \ {q[1]}) \cup {p[Len(t)]}
         /\ q[1] \notin Elems(t) => q[1] \in GoesOf(q, t)
<1> DEFINE c == Len(t)
<1>1. c \in Nat /\ c <= Cap /\ 1 \in 1..c /\ Cap \in Nat
  OBVIOUS
<1>2. ASSUME NEW i \in 1..c, i # c, p[i] \notin Elems(t) PROVE p[i] \in GoesOf(q, t) \ {q[1]}
  <2>1. /\ i \in 1..(Cap - 1) /\ i + 1 \in 1..c /\ i + 1 \in 1..Len(q)
        /\ 1 \in 1..Len(q) /\ 1 < i + 1
    BY <1>1, <1>2
  <2>2. p[i] = q[i + 1]
    BY <2>1
  <2>3. q[1] < q[i + 1] /\ q[1] \in Nat
    <3>1. q[1] \in Fact
      BY <2>1 DEF Lists
    <3> QED BY <2>1, <3>1 DEF Rising, Fact
  <2>4. q[i + 1] \in GoesOf(q, t)
    BY <1>2, <2>1, <2>2 DEF GoesOf
  <2> QED BY <2>2, <2>3, <2>4
<1>3. GoesOf(p, t) \subseteq (GoesOf(q, t) \ {q[1]}) \cup {p[c]}
  BY <1>2 DEF GoesOf
<1>4. q[1] \notin Elems(t) => q[1] \in GoesOf(q, t)
  BY <1>1 DEF GoesOf
<1> QED BY <1>3, <1>4

LEMMA PaidIs ==
  ASSUME \A a \in Agents : Cardinality(Lost(a)') <= trims'[a],
         \A a \in Agents, s \in Savers : pc'[s] \in {"embed", "commit", "drop"} =>
           Cardinality(Lost(a)' \ Elems(take'[s][a])) + Cardinality(GoesOf(pending'[a], take'[s][a]))
             <= trims'[a]
  PROVE  LossPaid'
<1>1. \A a \in Agents, s \in Savers : /\ Elems(take[s][a])' = Elems(take'[s][a])
                                     /\ Goes(s, a)' = GoesOf(pending'[a], take'[s][a])
  BY DEF Elems, Goes, GoesOf
<1> QED BY <1>1 DEF LossPaid, Saving

LEMMA NothingGoes ==
  ASSUME NEW a \in Agents, NEW p
  PROVE  Elems(Nothing[a]) = {} /\ GoesOf(p, Nothing[a]) = {}
  BY DEF Nothing, Elems, GoesOf

LEMMA OwnGoes == ASSUME NEW p PROVE GoesOf(p, p) = {}
  BY DEF GoesOf, Elems

LEMMA NotLost == \A a \in Agents : Lost(a) \cap Elems(pending[a]) = {}
  BY DEF Lost

\* The accounts of one agent and one save over an append.
LEMMA PaidOnAppend ==
  ASSUME Before, LossPaid, NEW a \in Agents, AppendFact(a)
  PROVE  /\ Cardinality(Lost(a)') <= trims'[a]
         /\ \A s \in Savers : Saving(s) =>
              Cardinality(Lost(a)' \ Elems(take[s][a])) + Cardinality(GoesOf(pending'[a], take[s][a]))
                <= trims'[a]
<1> DEFINE q == pending[a]
           p == pending'[a]
           n == appended[a] + 1
           L == Lost(a)
           M == Lost(a)'
<1>t. TypeOK /\ LongEnough
  BY DEF Before, FlushInv
<1>1. q \in Lists /\ Rising(q) /\ Len(q) \in Nat /\ trims[a] \in Nat
  BY <1>t DEF TypeOK, Before, MatchInv, Lists
<1>2. p \in Lists
  <2>1. TypeOK'
    BY <1>t, TypeAppend
  <2> QED BY <2>1 DEF TypeOK
<1>3. IsFiniteSet(L) /\ Cardinality(L) \in Nat /\ Cardinality(L) <= trims[a]
  BY <1>t, LostIsFinite DEF LossPaid
<1>4. \/ /\ Len(p) = Len(q) + 1 /\ trims'[a] = trims[a] /\ M = L
         /\ \A i \in 1..Len(q) : p[i] = q[i]
      \/ /\ Len(q) = Cap /\ Len(p) = Cap /\ trims'[a] = trims[a] + 1
         /\ \A i \in 1..(Cap - 1) : p[i] = q[i + 1]
         /\ M \subseteq L \cup {q[1]}
  BY AppendIs
<1>5. ASSUME NEW s \in Savers, Saving(s)
      PROVE  /\ take[s][a] \in Lists /\ Len(take[s][a]) \in Nat /\ Len(take[s][a]) <= Len(q)
             /\ IsFiniteSet(GoesOf(q, take[s][a])) /\ Cardinality(GoesOf(q, take[s][a])) \in Nat
             /\ IsFiniteSet(L \ Elems(take[s][a])) /\ Cardinality(L \ Elems(take[s][a])) \in Nat
             /\ Cardinality(L \ Elems(take[s][a])) + Cardinality(GoesOf(q, take[s][a])) <= trims[a]
  <2>1. take[s][a] \in Lists /\ Len(take[s][a]) \in Nat /\ Len(take[s][a]) <= Len(q)
    BY <1>t, <1>5 DEF TypeOK, Lists, LongEnough
  <2>2. /\ IsFiniteSet(GoesOf(q, take[s][a])) /\ Cardinality(GoesOf(q, take[s][a])) \in Nat
        /\ Cardinality(L \ Elems(take[s][a])) + Cardinality(GoesOf(q, take[s][a])) <= trims[a]
    BY <1>t, <1>5, GoesIsFinite DEF Goes, LossPaid
  <2>3. L \ Elems(take[s][a]) \in SUBSET L
    OBVIOUS
  <2>4. IsFiniteSet(L \ Elems(take[s][a]))
    BY <1>3, <2>3, FS_Subset
  <2>5. Cardinality(L \ Elems(take[s][a])) \in Nat
    BY <2>4, FS_CardinalityType
  <2> QED BY <2>1, <2>2, <2>4, <2>5
<1> HIDE DEF q, p, n, L, M
<1>6. CASE /\ Len(p) = Len(q) + 1 /\ trims'[a] = trims[a] /\ M = L
           /\ \A i \in 1..Len(q) : p[i] = q[i]
  <2>1. ASSUME NEW s \in Savers, Saving(s) PROVE GoesOf(p, take[s][a]) = GoesOf(q, take[s][a])
    <3>1. Len(take[s][a]) \in Nat /\ Len(take[s][a]) <= Len(q)
      BY <1>5, <2>1
    <3>2. \A i \in 1..Len(take[s][a]) : p[i] = q[i]
      BY <1>1, <1>6, <3>1
    <3> QED BY <3>2 DEF GoesOf
  <2>2. Cardinality(M) <= trims'[a] /\ trims'[a] = trims[a]
    BY <1>3, <1>6
  <2>3. \A s \in Savers : Saving(s) =>
          Cardinality(M \ Elems(take[s][a])) + Cardinality(GoesOf(p, take[s][a])) <= trims'[a]
    BY <1>5, <1>6, <2>1, Zenon
  <2> QED BY <2>2, <2>3 DEF M, p
<1>7. CASE /\ Len(q) = Cap /\ Len(p) = Cap /\ trims'[a] = trims[a] + 1
           /\ \A i \in 1..(Cap - 1) : p[i] = q[i + 1]
           /\ M \subseteq L \cup {q[1]}
  <2> DEFINE x == q[1]
  <2>x. M \subseteq L \cup {x}
    BY <1>7
  <2> HIDE DEF x
  <2>1. Cardinality(M) \in Nat /\ Cardinality(M) <= Cardinality(L) + 1
    BY <1>3, <2>x, OneMore
  <2>2. ASSUME NEW s \in Savers, Saving(s)
        PROVE  Cardinality(M \ Elems(take[s][a])) + Cardinality(GoesOf(p, take[s][a])) <= trims[a] + 1
    <3> DEFINE t == take[s][a]
               T == Elems(t)
               G == GoesOf(q, t)
               H == GoesOf(p, t)
    <3>1. /\ t \in Lists /\ Len(t) \in Nat /\ Len(t) <= Cap
          /\ IsFiniteSet(G) /\ Cardinality(G) \in Nat
          /\ IsFiniteSet(L \ T) /\ Cardinality(L \ T) \in Nat
          /\ Cardinality(L \ T) + Cardinality(G) <= trims[a]
      BY <1>5, <1>7, <2>2
    <3> SUFFICES Cardinality(M \ T) + Cardinality(H) <= trims[a] + 1
      OBVIOUS
    <3> HIDE DEF t
    <3>2. CASE Len(t) = 0
      <4>1. H = {} /\ T = {}
        BY <3>2 DEF GoesOf, Elems
      <4>2. Cardinality(H) = 0 /\ M \ T = M
        BY SMTT(30), <4>1, FS_EmptySet
      <4>3. Cardinality(M \ T) = Cardinality(M)
        BY <4>2
      <4> HIDE DEF T, H
      <4> QED BY <1>1, <1>3, <2>1, <4>2, <4>3
    <3>3. CASE Len(t) # 0
      <4> DEFINE y == p[Len(t)]
      <4>1. H \subseteq (G \ {x}) \cup {y} /\ (x \notin T => x \in G)
        <5>1. Len(t) \in 1..Cap
          BY <3>1, <3>3
        <5> QED BY <1>1, <1>2, <1>7, <3>1, <5>1, GoesOnOverflow DEF x
      <4> HIDE DEF y, T, G, H
      <4>n. /\ Cardinality(L \ T) \in Nat /\ Cardinality(G) \in Nat /\ trims[a] \in Nat
            /\ Cardinality(L \ T) + Cardinality(G) <= trims[a]
        BY <1>1, <3>1, Zenon
      <4>2. CASE x \in T
        <5>1. M \ T \subseteq L \ T
          BY <2>x, <4>2
        <5>2. Cardinality(M \ T) \in Nat /\ Cardinality(M \ T) <= Cardinality(L \ T)
          BY <3>1, <5>1, OneMore
        <5>3. H \subseteq G \cup {y}
          BY <4>1
        <5>4. Cardinality(H) \in Nat /\ Cardinality(H) <= Cardinality(G) + 1
          BY <3>1, <5>3, OneMore
        <5> QED BY SMTT(30), <4>n, <5>2, <5>4
      <4>3. CASE x \notin T
        <5>1. M \ T \subseteq (L \ T) \cup {x}
          BY <2>x
        <5>2. Cardinality(M \ T) \in Nat /\ Cardinality(M \ T) <= Cardinality(L \ T) + 1
          BY <3>1, <5>1, OneMore
        <5>3. IsFiniteSet(G \ {x}) /\ Cardinality(G \ {x}) = Cardinality(G) - 1
          <6>1. x \in G
            BY <4>1, <4>3
          <6> QED BY <3>1, <6>1, FS_RemoveElement
        <5>4. Cardinality(H) \in Nat /\ Cardinality(H) <= Cardinality(G \ {x}) + 1
          BY <4>1, <5>3, OneMore
        <5> QED BY SMTT(30), <4>n, <5>2, <5>3, <5>4
      <4> QED BY <4>2, <4>3
    <3> QED BY <3>2, <3>3
  <2> QED BY <1>1, <1>3, <1>7, <2>1, <2>2 DEF M, p
<1> QED BY <1>4, <1>6, <1>7

LEMMA PaidStep ==
  ASSUME OneSaver
  PROVE  Before /\ LossPaid /\ [Next]_vars => LossPaid'
<1> SUFFICES ASSUME Before, LossPaid, [Next]_vars PROVE LossPaid'
  OBVIOUS
<1>s. \A s, t \in Savers : s = t
  BY DEF OneSaver
<1>t. TypeOK /\ LongEnough /\ \A a \in Agents : trims[a] \in Nat
  BY DEF Before, FlushInv, TypeOK
<1>p. \A a \in Agents :
        /\ Cardinality(Lost(a)) <= trims[a]
        /\ \A s \in Savers : Saving(s) =>
             Cardinality(Lost(a) \ Elems(take[s][a])) + Cardinality(GoesOf(pending[a], take[s][a])) <= trims[a]
  BY DEF LossPaid, Goes
<1>f. \A a \in Agents : IsFiniteSet(Lost(a)) /\ Cardinality(Lost(a)) \in Nat
  BY <1>t, LostIsFinite
<1>0. Cardinality({}) = 0
  BY FS_EmptySet
<1>1. ASSUME NEW a \in Agents, AppendFact(a) PROVE LossPaid'
  <2>1. pc' = pc /\ take' = take
    BY <1>1 DEF AppendFact, saveVars
  <2>2. \A b \in Agents : b # a => /\ pending'[b] = pending[b] /\ trims'[b] = trims[b]
                                  /\ appended'[b] = appended[b]
    BY <1>1, <1>t DEF AppendFact, TypeOK
  <2>3. \A b \in Agents : b # a => Lost(b)' = Lost(b)
    <3>1. UNCHANGED <<rows, excused, hearsay>>
      BY <1>1 DEF AppendFact, dbVars
    <3> QED BY <2>2, <3>1 DEF Lost, Stored, Elems
  <2>4. /\ Cardinality(Lost(a)') <= trims'[a]
        /\ \A s \in Savers : Saving(s) =>
             Cardinality(Lost(a)' \ Elems(take[s][a])) + Cardinality(GoesOf(pending'[a], take[s][a]))
               <= trims'[a]
    BY <1>1, PaidOnAppend
  <2> QED BY <1>p, <2>1, <2>2, <2>3, <2>4, PaidIs DEF Saving
<1>2. ASSUME NEW a \in Agents, LearnFromPeer(a) PROVE LossPaid'
  <2>1. UNCHANGED <<pc, take, pending, trims>>
    BY <1>2 DEF LearnFromPeer, saveVars
  <2>2. \A b \in Agents : Lost(b)' = Lost(b)
    BY <1>2, <1>t, LostOnTelling
  <2> QED BY <1>p, <2>1, <2>2, PaidIs DEF Saving
<1>3. ASSUME NEW s \in Savers, Snapshot(s) \/ EmbedAll(s) \/ EmbedFails(s) PROVE LossPaid'
  <2>1. /\ UNCHANGED <<pending, appended, hearsay, trims, excused>>
        /\ (take'[s] = pending \/ take'[s] = Nothing \/ (take'[s] = take[s] /\ Saving(s)))
    BY <1>t, <1>3, SaveSteps
  <2>2. rows' = rows
    BY <1>3 DEF Snapshot, EmbedAll, EmbedFails, dbVars
  <2>3. \A a \in Agents : Lost(a)' = Lost(a)
    BY <1>t, <2>1, <2>2, LostKept
  <2>4. ASSUME NEW a \in Agents
        PROVE  Cardinality(Lost(a) \ Elems(take'[s][a])) + Cardinality(GoesOf(pending[a], take'[s][a]))
                 <= trims[a]
    <3>1. CASE take'[s] = take[s] /\ Saving(s)
      BY <1>p, <3>1
    <3>2. CASE take'[s] = pending \/ take'[s] = Nothing
      <4>1. GoesOf(pending[a], take'[s][a]) = {} /\ Lost(a) \ Elems(take'[s][a]) = Lost(a)
        BY <3>2, NothingGoes, OwnGoes, NotLost
      <4>2. Cardinality(GoesOf(pending[a], take'[s][a])) = 0
        BY <1>0, <4>1
      <4>3. Cardinality(Lost(a) \ Elems(take'[s][a])) = Cardinality(Lost(a))
        BY <4>1
      <4>4. Cardinality(Lost(a)) \in Nat /\ Cardinality(Lost(a)) <= trims[a]
        BY <1>p, <1>f
      <4> QED BY <4>2, <4>3, <4>4
    <3> QED BY <2>1, <3>1, <3>2
  <2> QED BY <1>s, <1>p, <2>1, <2>3, <2>4, PaidIs
<1>4. ASSUME NEW s \in Savers, Commit(s) PROVE LossPaid'
  <2>1. UNCHANGED <<pending, trims, take>> /\ Saving(s)
    BY <1>t, <1>4, SaveSteps
  <2>2. \A a \in Agents : Lost(a)' = Lost(a) \ Elems(take[s][a])
    BY <1>t, <1>4, LostOnCommit
  <2>3. ASSUME NEW a \in Agents
        PROVE  /\ Cardinality(Lost(a)') <= trims[a]
               /\ Cardinality(Lost(a)' \ Elems(take[s][a])) + Cardinality(GoesOf(pending[a], take[s][a]))
                    <= trims[a]
    <3>1. Lost(a)' \ Elems(take[s][a]) = Lost(a)' /\ Lost(a)' = Lost(a) \ Elems(take[s][a])
      BY <2>2
    <3>2. Cardinality(Lost(a)') + Cardinality(GoesOf(pending[a], take[s][a])) <= trims[a]
      BY <1>p, <2>1, <3>1
    <3>3. Cardinality(GoesOf(pending[a], take[s][a])) \in Nat
      BY <1>t, <2>1, GoesIsFinite DEF Goes
    <3>4. Lost(a)' \in SUBSET Lost(a)
      BY <3>1
    <3>5. Cardinality(Lost(a)') \in Nat
      BY <1>f, <3>4, FS_Subset, FS_CardinalityType
    <3>6. Cardinality(Lost(a)') <= trims[a]
      BY <1>t, <3>2, <3>3, <3>5
    <3> QED BY <3>1, <3>2, <3>6
  <2> QED BY <1>s, <2>1, <2>3, PaidIs
<1>5. ASSUME NEW s \in Savers, DropFlushed(s) PROVE LossPaid'
  <2>1. \A t \in Savers : ~ (pc'[t] \in {"embed", "commit", "drop"})
    BY <1>t, <1>5, SaveOver
  <2>2. trims' = trims /\ Saving(s)
    BY <1>5 DEF DropFlushed, Saving, histVars
  <2>3. ASSUME NEW a \in Agents PROVE Cardinality(Lost(a)') <= trims[a]
    <3> DEFINE gone == (Elems(pending[a]) \ Stored(a)) \ Elems(pending'[a])
               G == Goes(s, a)
               T == Elems(take[s][a])
    <3>1. /\ Lost(a)' = Lost(a) \cup gone /\ gone \cap Lost(a) = {}
          /\ gone \subseteq G /\ Lost(a) \cap T = {}
      BY <1>5, LostOnDrop
    <3>2. IsFiniteSet(G) /\ Cardinality(G) \in Nat
      BY <1>t, <2>2, GoesIsFinite
    <3>3. Cardinality(Lost(a) \ T) + Cardinality(G) <= trims[a]
      BY <2>2 DEF LossPaid
    <3> HIDE DEF gone, G, T
    <3>4. Lost(a) \ T = Lost(a)
      BY <3>1
    <3>5. /\ IsFiniteSet(gone) /\ Cardinality(gone) <= Cardinality(G)
      BY <3>1, <3>2, FS_Subset
    <3>6. Cardinality(gone) \in Nat
      BY <3>5, FS_CardinalityType
    <3>7. Cardinality(Lost(a) \cup gone) = Cardinality(Lost(a)) + Cardinality(gone) - Cardinality(Lost(a) \cap gone)
      BY <1>f, <3>5, FS_Union
    <3>8. Cardinality(Lost(a) \cap gone) = 0
      <4>1. Lost(a) \cap gone = {}
        BY <3>1
      <4> QED BY <1>0, <4>1
    <3>9. Cardinality(Lost(a)') = Cardinality(Lost(a)) + Cardinality(gone)
      <4>1. Cardinality(Lost(a)') = Cardinality(Lost(a) \cup gone)
        BY <3>1
      <4> QED BY <1>f, <3>6, <3>7, <3>8, <4>1
    <3>10. Cardinality(Lost(a)) + Cardinality(G) <= trims[a]
      BY <3>3, <3>4
    <3> QED BY <1>f, <1>t, <3>2, <3>5, <3>6, <3>9, <3>10
  <2> QED BY <2>1, <2>2, <2>3, PaidIs
<1>6. ASSUME \/ \E s \in Savers : SaveAborts(s) \/ AckLost(s) \/ Rebirth(s)
             \/ Restart
      PROVE  LossPaid'
  <2>1. \A t \in Savers : ~ (pc'[t] \in {"embed", "commit", "drop"})
    BY <1>t, <1>6, SaveOver
  <2>2. trims' = trims
    BY <1>6 DEF SaveAborts, AckLost, Rebirth, Restart, histVars
  <2>3. \A a \in Agents : Lost(a)' = Lost(a)
    <3>1. CASE (\E s \in Savers : Rebirth(s)) \/ Restart
      BY <1>t, <3>1, LostOnNewLife
    <3>2. CASE \E s \in Savers : SaveAborts(s) \/ AckLost(s)
      <4>1. UNCHANGED <<pending, rows, appended, hearsay, excused>>
        BY <3>2 DEF SaveAborts, AckLost, memVars, dbVars, histVars
      <4> QED BY <1>t, <4>1, LostKept
    <3> QED BY <1>6, <3>1, <3>2
  <2> QED BY <1>p, <2>1, <2>2, <2>3, PaidIs
<1>7. CASE UNCHANGED vars
  <2>1. UNCHANGED <<pending, rows, appended, hearsay, excused, trims, take, pc>>
    BY <1>7 DEF vars, memVars, saveVars, dbVars, histVars
  <2>2. \A a \in Agents : Lost(a)' = Lost(a)
    BY <1>t, <2>1, LostKept
  <2> QED BY <1>p, <2>1, <2>2, PaidIs DEF Saving
<1> QED BY <1>1, <1>2, <1>3, <1>4, <1>5, <1>6, <1>7 DEF Next, SaveStep
-----------------------------------------------------------------------------
(* The refinement, one step per action.                                     *)

\* The inductive invariant of the refinement.
Account == Before /\ LossPaid

LEMMA AccountInit == Init => Account
<1> SUFFICES ASSUME Init PROVE Account
  OBVIOUS
<1>1. FlushInv /\ Known /\ MatchInv /\ OnceInv
  BY FlushInit, KnownInit, MatchInit, OnceInit
<1>2. \A s \in Savers : ~Saving(s)
  BY DEF Init, Saving
<1>3. ASSUME NEW a \in Agents
      PROVE  excused[a] = {} /\ hearsay[a] = {} /\ trims[a] = 0 /\ Cardinality(Lost(a)) = 0
  <2>1. excused[a] = {} /\ hearsay[a] = {} /\ trims[a] = 0 /\ appended[a] = 0
    BY DEF Init
  <2>2. Lost(a) = {}
    BY <2>1 DEF Lost
  <2> QED BY <2>1, <2>2, FS_EmptySet
<1>4. OwnFacts /\ LongEnough /\ LossPaid
  BY <1>2, <1>3 DEF OwnFacts, LongEnough, LossPaid
<1> QED BY <1>1, <1>4 DEF Account, Before

LEMMA AccountStep ==
  ASSUME OneSaver
  PROVE  Account /\ [Next]_vars => Account'
<1> SUFFICES ASSUME Account, [Next]_vars PROVE Account'
  OBVIOUS
<1>1. FlushInv' /\ Known' /\ MatchInv' /\ OnceInv'
  BY FlushStep, KnownStep, MatchStep, OnceStep DEF Account, Before, FlushInv
<1>2. OwnFacts' /\ LongEnough' /\ LossPaid'
  BY OwnStep, LongStep, PaidStep DEF Account
<1> QED BY <1>1, <1>2 DEF Account, Before

\* The abstract specification counts as this module does.
LEMMA SameCount == ASSUME NEW S PROVE Memory!Cardinality(S) = Cardinality(S)
  BY Zenon DEF Memory!Cardinality, Cardinality, Memory!IsFiniteSet, IsFiniteSet

\* The view of a state and of the next one.
LEMMA ViewIs ==
  /\ Held = [a \in Agents |-> Elems(pending[a]) \ Stored(a)]
  /\ Kept = [a \in Agents |-> Stored(a)]
  /\ Credit = [a \in Agents |-> trims[a] - Cardinality(Lost(a))]
  /\ Held' = [a \in Agents |-> Elems(pending'[a]) \ Stored(a)']
  /\ Kept' = [a \in Agents |-> Stored(a)']
  /\ Credit' = [a \in Agents |-> trims'[a] - Cardinality(Lost(a)')]
  BY DEF Held, Kept, Credit, Elems

LEMMA ViewFramed ==
  ASSUME UNCHANGED <<pending, rows, trims>>, \A a \in Agents : Lost(a)' = Lost(a)
  PROVE  UNCHANGED Memory!vars
<1>1. \A a \in Agents : Stored(a)' = Stored(a)
  BY DEF Stored
<1> QED BY <1>1, ViewIs DEF Memory!vars

LEMMA CreditIsNat ==
  ASSUME Account, NEW a \in Agents
  PROVE  /\ Credit[a] = trims[a] - Cardinality(Lost(a)) /\ Credit[a] \in Nat
         /\ trims[a] \in Nat /\ IsFiniteSet(Lost(a)) /\ Cardinality(Lost(a)) \in Nat
<1>1. TypeOK /\ trims[a] \in Nat /\ Cardinality(Lost(a)) <= trims[a]
  BY DEF Account, Before, FlushInv, TypeOK, LossPaid
<1>2. IsFiniteSet(Lost(a)) /\ Cardinality(Lost(a)) \in Nat
  BY <1>1, LostIsFinite
<1>3. Credit[a] = trims[a] - Cardinality(Lost(a))
  BY DEF Credit
<1> QED BY <1>1, <1>2, <1>3

LEMMA AppendLearns ==
  ASSUME Account, NEW a \in Agents, AppendFact(a)
  PROVE  \E n \in Fact : Memory!Learn(a, n)
<1> DEFINE n == appended[a] + 1
           q == pending[a]
           p == pending'[a]
           x == q[1]
           h == Held[a]
           c == Credit[a]
<1>1. /\ n \in Fact /\ n \notin Elems(q) \cup Stored(a) \cup Lost(a)
      /\ \/ /\ Elems(p) = Elems(q) \cup {n} /\ trims'[a] = trims[a] /\ Lost(a)' = Lost(a)
         \/ /\ x \in Elems(q) /\ trims'[a] = trims[a] + 1
            /\ Elems(p) = (Elems(q) \ {x}) \cup {n} /\ x \notin Lost(a) /\ x # n
            /\ Lost(a)' = IF x \in Stored(a) THEN Lost(a) ELSE Lost(a) \cup {x}
  BY AppendIs DEF Account
<1>2. /\ \A b \in Agents : Stored(b)' = Stored(b)
      /\ \A b \in Agents : b # a => pending'[b] = pending[b] /\ trims'[b] = trims[b]
      /\ \A b \in Agents : b # a => Lost(b)' = Lost(b)
  <2>1. UNCHANGED <<rows, hearsay, excused>>
    BY DEF AppendFact, dbVars
  <2>2. \A b \in Agents : b # a => pending'[b] = pending[b] /\ trims'[b] = trims[b] /\ appended'[b] = appended[b]
    BY DEF AppendFact, Account, Before, FlushInv, TypeOK
  <2> QED BY <2>1, <2>2 DEF Stored, Lost, Elems
<1>3. h = Elems(q) \ Stored(a) /\ c = trims[a] - Cardinality(Lost(a)) /\ c \in Nat
  BY CreditIsNat DEF Held
<1>4. /\ Held'[a] = Elems(p) \ Stored(a)
      /\ Credit'[a] = trims'[a] - Cardinality(Lost(a)')
      /\ Kept' = Kept
      /\ \A b \in Agents : b # a => Held'[b] = Held[b] /\ Credit'[b] = Credit[b]
      /\ Held \in [Agents -> SUBSET UNION {Held[b] : b \in Agents}] /\ Credit = [b \in Agents |-> Credit[b]]
      /\ Held' = [b \in Agents |-> Held'[b]] /\ Credit' = [b \in Agents |-> Credit'[b]]
  BY <1>2, ViewIs
<1>5. ASSUME NEW gain \in {0, 1}, NEW gone \in SUBSET (h \cup {n}),
             Cardinality(gone) <= c + gain,
             Held'[a] = (h \cup {n}) \ gone, Credit'[a] = c + gain - Cardinality(gone)
      PROVE  Memory!Learn(a, n)
  <2>1. Held' = [Held EXCEPT ![a] = (Held[a] \cup {n}) \ gone]
    BY <1>4, <1>5
  <2>2. Credit' = [Credit EXCEPT ![a] = Credit[a] + gain - Cardinality(gone)]
    BY <1>4, <1>5
  <2>3. n \notin Held[a] \cup Kept[a]
    BY <1>1, <1>3 DEF Kept
  <2>4. /\ Memory!Cardinality(gone) <= Credit[a] + gain
        /\ Credit' = [Credit EXCEPT ![a] = Credit[a] + gain - Memory!Cardinality(gone)]
    BY <1>5, <2>2, SameCount
  <2> QED BY <1>4, <2>1, <2>3, <2>4, Zenon DEF Memory!Learn
<1> HIDE DEF n, q, p, x, h, c
<1>0. Cardinality({}) = 0 /\ Cardinality({x}) = 1
  BY FS_EmptySet, FS_Singleton
<1>6. CASE /\ Elems(p) = Elems(q) \cup {n} /\ trims'[a] = trims[a] /\ Lost(a)' = Lost(a)
  <2>1. Held'[a] = (h \cup {n}) \ {}
    BY <1>1, <1>3, <1>4, <1>6
  <2>2. Credit'[a] = c
    BY <1>3, <1>4, <1>6
  <2>3. Credit'[a] = c + 0 - Cardinality({}) /\ Cardinality({}) <= c + 0
    BY <1>0, <1>3, <2>2
  <2>4. Memory!Learn(a, n)
    BY <1>5, <2>1, <2>3
  <2> QED BY <1>1, <2>4
<1>7. CASE /\ x \in Elems(q) /\ trims'[a] = trims[a] + 1
           /\ Elems(p) = (Elems(q) \ {x}) \cup {n} /\ x \notin Lost(a) /\ x # n
           /\ Lost(a)' = IF x \in Stored(a) THEN Lost(a) ELSE Lost(a) \cup {x}
  <2>t. trims[a] \in Nat /\ IsFiniteSet(Lost(a)) /\ Cardinality(Lost(a)) \in Nat
    BY CreditIsNat
  <2>1. CASE x \in Stored(a)
    <3>1. Held'[a] = (h \cup {n}) \ {}
      BY <1>1, <1>3, <1>4, <1>7, <2>1
    <3>2. Lost(a)' = Lost(a)
      BY <1>7, <2>1
    <3>3. Cardinality(Lost(a)') = Cardinality(Lost(a))
      BY <3>2
    <3>4. Credit'[a] = c + 1 - Cardinality({}) /\ Cardinality({}) <= c + 1
      BY <1>0, <1>3, <1>4, <1>7, <2>t, <3>3
    <3>5. Memory!Learn(a, n)
      BY <1>5, <3>1, <3>4
    <3> QED BY <1>1, <3>5
  <2>2. CASE x \notin Stored(a)
    <3>1. Held'[a] = (h \cup {n}) \ {x} /\ x \in h
      BY <1>1, <1>3, <1>4, <1>7, <2>2
    <3>2. Lost(a)' = Lost(a) \cup {x}
      BY <1>7, <2>2
    <3>3. Cardinality(Lost(a)') = Cardinality(Lost(a)) + 1
      BY <1>7, <2>t, <3>2, FS_AddElement
    <3>4. Credit'[a] = c + 1 - Cardinality({x}) /\ Cardinality({x}) <= c + 1
      BY <1>0, <1>3, <1>4, <1>7, <2>t, <3>3
    <3>5. Memory!Learn(a, n)
      BY <1>5, <3>1, <3>4
    <3> QED BY <1>1, <3>5
  <2> QED BY <2>1, <2>2
<1> QED BY <1>1, <1>6, <1>7

LEMMA CommitFlushes ==
  ASSUME Account, NEW s \in Savers, Commit(s)
  PROVE  Memory!Flush
<1>t. TypeOK /\ Saving(s) /\ UNCHANGED <<pending, trims>>
  BY SaveSteps DEF Account, Before, FlushInv
<1>1. \A a \in Agents : /\ Stored(a)' = Stored(a) \cup Elems(take[s][a])
                       /\ Lost(a)' = Lost(a) \ Elems(take[s][a])
  BY <1>t, CommitStores, LostOnCommit
<1>2. ASSUME NEW a \in Agents
      PROVE  /\ Kept[a] \subseteq Kept'[a] /\ Held'[a] = Held[a] \ Kept'[a]
             /\ Credit'[a] = Credit[a] + Cardinality((Kept'[a] \ Kept[a]) \ Held[a])
  <2> DEFINE T == Elems(take[s][a])
             P == Elems(pending[a])
             K == Stored(a)
             L == Lost(a)
             M == Lost(a)'
             F == L \cap T
  <2>1. /\ Kept[a] = K /\ Kept'[a] = K \cup T /\ Held[a] = P \ K /\ Held'[a] = P \ (K \cup T)
        /\ Credit[a] = trims[a] - Cardinality(L) /\ Credit'[a] = trims[a] - Cardinality(M)
    BY <1>t, <1>1, ViewIs
  <2>2. L = Upto(a) \ (P \cup K \cup excused[a] \cup hearsay[a]) /\ M = L \ T
    BY <1>1 DEF Lost, Upto
  <2>3. T \subseteq Upto(a) /\ T \cap (excused[a] \cup hearsay[a]) = {}
    BY <1>t DEF Account, Before, Known, OwnFacts
  <2>4. trims[a] \in Nat /\ IsFiniteSet(L) /\ Cardinality(L) \in Nat
    BY CreditIsNat
  <2> HIDE DEF T, P, K, L, M
  <2>5. ((K \cup T) \ K) \ (P \ K) = F
    BY <2>2, <2>3
  <2>6. M \cup F = L /\ M \cap F = {} /\ M \in SUBSET L /\ F \in SUBSET L
    BY <2>2
  <2> HIDE DEF F
  <2>7. IsFiniteSet(M) /\ IsFiniteSet(F)
    BY <2>4, <2>6, FS_Subset
  <2>8. Cardinality(M) \in Nat /\ Cardinality(F) \in Nat
    BY <2>7, FS_CardinalityType
  <2>9. Cardinality(L) = Cardinality(M) + Cardinality(F)
    <3>1. Cardinality(M \cup F) = Cardinality(M) + Cardinality(F) - Cardinality(M \cap F)
      BY <2>7, FS_Union
    <3>2. Cardinality(M \cap F) = 0 /\ Cardinality(M \cup F) = Cardinality(L)
      BY <2>6, FS_EmptySet
    <3> QED BY <2>8, <3>1, <3>2
  <2>10. Credit'[a] = Credit[a] + Cardinality(F)
    BY <2>1, <2>4, <2>8, <2>9
  <2>11. (Kept'[a] \ Kept[a]) \ Held[a] = F
    BY <2>1, <2>5
  <2>12. Kept[a] \subseteq Kept'[a] /\ Held'[a] = Held[a] \ Kept'[a]
    BY <2>1
  <2> QED BY <2>10, <2>11, <2>12
<1>3. \A a \in Agents :
        Credit'[a] = Credit[a] + Memory!Cardinality((Kept'[a] \ Kept[a]) \ Held[a])
  BY <1>2, SameCount
<1> QED BY <1>2, <1>3, Zenon DEF Memory!Flush

LEMMA DropGivesUp ==
  ASSUME Account, OneSaver, NEW s \in Savers, DropFlushed(s)
  PROVE  Memory!GiveUp
<1>t. TypeOK /\ LongEnough /\ Saving(s) /\ UNCHANGED <<rows, trims>>
  BY DEF Account, Before, FlushInv, DropFlushed, Saving, dbVars, histVars
<1>1. \A a \in Agents : Stored(a)' = Stored(a)
  BY <1>t DEF Stored
<1>2. Kept' = Kept
  BY <1>1, ViewIs
<1>3. ASSUME NEW a \in Agents
      PROVE  /\ Held'[a] \subseteq Held[a]
             /\ Cardinality(Held[a] \ Held'[a]) <= Credit[a]
             /\ Credit'[a] = Credit[a] - Cardinality(Held[a] \ Held'[a])
  <2> DEFINE gone == (Elems(pending[a]) \ Stored(a)) \ Elems(pending'[a])
             G == Goes(s, a)
             T == Elems(take[s][a])
             L == Lost(a)
             M == Lost(a)'
             K == Stored(a)
             P == Elems(pending[a])
             R == Elems(pending'[a])
  <2>1. M = L \cup gone /\ gone \cap L = {} /\ gone \subseteq G /\ L \cap T = {} /\ R \subseteq P
    BY LostOnDrop DEF Account
  <2>2. /\ Held[a] = P \ K /\ Held'[a] = R \ K
        /\ Credit[a] = trims[a] - Cardinality(L) /\ Credit'[a] = trims[a] - Cardinality(M)
    BY <1>t, <1>1, ViewIs
  <2>3. IsFiniteSet(G) /\ Cardinality(G) \in Nat /\ Cardinality(L \ T) + Cardinality(G) <= trims[a]
    BY <1>t, GoesIsFinite DEF Account, LossPaid
  <2>4. trims[a] \in Nat /\ IsFiniteSet(L) /\ Cardinality(L) \in Nat
    BY CreditIsNat
  <2>5. gone = (P \ K) \ R
    OBVIOUS
  <2> HIDE DEF gone, G, T, L, M, K, P, R
  <2>6. Held[a] \ Held'[a] = gone /\ Held'[a] \subseteq Held[a]
    BY <2>1, <2>2, <2>5
  <2>7. IsFiniteSet(gone) /\ Cardinality(gone) <= Cardinality(G)
    BY <2>1, <2>3, FS_Subset
  <2>8. Cardinality(gone) \in Nat
    BY <2>7, FS_CardinalityType
  <2>9. Cardinality(M) = Cardinality(L) + Cardinality(gone)
    <3>1. Cardinality(L \cup gone) = Cardinality(L) + Cardinality(gone) - Cardinality(L \cap gone)
      BY <2>4, <2>7, FS_Union
    <3>2. Cardinality(L \cap gone) = 0 /\ Cardinality(M) = Cardinality(L \cup gone)
      BY <2>1, FS_EmptySet
    <3> QED BY <2>4, <2>8, <3>1, <3>2
  <2>10. Cardinality(L) + Cardinality(G) <= trims[a]
    <3>1. L \ T = L
      BY <2>1
    <3> QED BY <2>3, <3>1
  <2>11. Cardinality(gone) <= Credit[a] /\ Credit'[a] = Credit[a] - Cardinality(gone)
    BY <2>2, <2>3, <2>4, <2>7, <2>8, <2>9, <2>10
  <2> QED BY <2>6, <2>11
<1>4. \A a \in Agents :
        /\ Memory!Cardinality(Held[a] \ Held'[a]) <= Credit[a]
        /\ Credit'[a] = Credit[a] - Memory!Cardinality(Held[a] \ Held'[a])
  BY <1>3, SameCount
<1> QED BY <1>2, <1>3, <1>4, Zenon DEF Memory!GiveUp

LEMMA NewLifeForgets ==
  ASSUME Account, (\E s \in Savers : Rebirth(s)) \/ Restart
  PROVE  Memory!Forget
<1>1. pending' = Nothing /\ UNCHANGED <<rows, trims>>
  BY DEF Rebirth, Restart, dbVars
<1>2. \A a \in Agents : Lost(a)' = Lost(a)
  BY LostOnNewLife DEF Account, Before, FlushInv
<1>3. \A a \in Agents : Elems(pending'[a]) = {} /\ Stored(a)' = Stored(a)
  BY <1>1, NothingElems DEF Stored
<1>4. Held' = [a \in Agents |-> {}]
  BY <1>3, ViewIs
<1>5. Kept' = Kept /\ Credit' = Credit
  BY <1>1, <1>2, <1>3, ViewIs
<1> QED BY <1>4, <1>5 DEF Memory!Forget

LEMMA StepRefines ==
  ASSUME OneSaver
  PROVE  Account /\ [Next]_vars => [Memory!Next]_(Memory!vars)
<1> SUFFICES ASSUME Account, [Next]_vars PROVE [Memory!Next]_(Memory!vars)
  OBVIOUS
<1>t. TypeOK
  BY DEF Account, Before, FlushInv
<1>1. ASSUME NEW a \in Agents, AppendFact(a) PROVE Memory!Next
  BY <1>1, AppendLearns DEF Memory!Next
<1>2. ASSUME NEW a \in Agents, LearnFromPeer(a) PROVE UNCHANGED Memory!vars
  <2>1. UNCHANGED <<pending, rows, trims>>
    BY <1>2 DEF LearnFromPeer, dbVars
  <2> QED BY <1>t, <1>2, <2>1, LostOnTelling, ViewFramed
<1>3. ASSUME NEW s \in Savers, Snapshot(s) \/ EmbedAll(s) \/ EmbedFails(s) \/ SaveAborts(s) \/ AckLost(s)
      PROVE  UNCHANGED Memory!vars
  <2>1. UNCHANGED <<pending, rows, appended, hearsay, excused, trims>>
    BY <1>3 DEF Snapshot, EmbedAll, EmbedFails, SaveAborts, AckLost, memVars, dbVars, histVars
  <2> QED BY <1>t, <2>1, LostKept, ViewFramed
<1>4. ASSUME NEW s \in Savers, Commit(s) PROVE Memory!Next
  BY <1>4, CommitFlushes DEF Memory!Next
<1>5. ASSUME NEW s \in Savers, DropFlushed(s) PROVE Memory!Next
  BY <1>5, DropGivesUp DEF Memory!Next
<1>6. ASSUME (\E s \in Savers : Rebirth(s)) \/ Restart PROVE Memory!Next
  BY <1>6, NewLifeForgets DEF Memory!Next
<1>7. CASE UNCHANGED vars
  <2>1. UNCHANGED <<pending, rows, appended, hearsay, excused, trims>>
    BY <1>7 DEF vars, memVars, saveVars, dbVars, histVars
  <2> QED BY <1>t, <2>1, LostKept, ViewFramed
<1> QED BY <1>1, <1>2, <1>3, <1>4, <1>5, <1>6, <1>7 DEF Next, SaveStep

\* While saves run one at a time, the write path implements its promise: a fact
\* is held until one transaction stores it, and is lost only against an overflow
\* of its own agent, with the outages, failed and cancelled saves, lost answers,
\* resets and restarts of the code.
THEOREM WritePathRefines ==
  ASSUME OneSaver
  PROVE  Spec => ImplementsDurableMemory
<1>1. Init => Account
  BY AccountInit
<1>2. Account /\ [Next]_vars => Account'
  BY AccountStep
<1>3. Init => Memory!Init
  <2> SUFFICES ASSUME Init PROVE Memory!Init
    OBVIOUS
  <2>1. \A a \in Agents : Elems(pending[a]) = {}
    BY NothingElems DEF Init
  <2>2. \A a \in Agents : Stored(a) = {}
    BY DEF Init, Stored
  <2>3. \A a \in Agents : trims[a] = 0 /\ Cardinality(Lost(a)) = 0
    <3>1. \A a \in Agents : trims[a] = 0 /\ Lost(a) = {}
      BY DEF Init, Lost
    <3> QED BY <3>1, FS_EmptySet
  <2> QED BY <2>1, <2>2, <2>3 DEF Memory!Init, Held, Kept, Credit
<1>4. Account /\ [Next]_vars => [Memory!Next]_(Memory!vars)
  BY StepRefines
<1> QED BY <1>1, <1>2, <1>3, <1>4, PTL DEF Spec, ImplementsDurableMemory, Memory!Spec
-----------------------------------------------------------------------------
(* What agent_facts holds of a life, the knowledge that is in memory, in a  *)
(* payload and in the committed row reaches up to.                          *)

\* A list reaches up to every fact of a set.
Reaches(l, S) == \A n \in S : l # <<>> /\ n <= l[Len(l)]

\* What is stored of the present life of an agent.
StoredNow(a) == {n \in Stored(a) : n > born[a]}

CoverInv ==
  \A a \in Agents :
    /\ Reaches(facts[a], Elems(pending[a]) \cup StoredNow(a))
    /\ Reaches(rowFacts[a], StoredNow(a))
    /\ \A s \in Savers : Saving(s) =>
         /\ Reaches(facts[a], Elems(take[s][a]))
         /\ Reaches(payload[s][a], Elems(take[s][a]) \cup StoredNow(a))

LEMMA CoverInit == Init => CoverInv
<1> SUFFICES ASSUME Init, NEW a \in Agents
             PROVE  Elems(pending[a]) = {} /\ StoredNow(a) = {} /\ \A s \in Savers : ~Saving(s)
  BY DEF CoverInv, Reaches
<1>1. pending = Nothing /\ Stored(a) = {} /\ \A s \in Savers : pc[s] = "idle"
  BY DEF Init, Stored
<1> QED BY <1>1, NothingElems DEF StoredNow, Saving

LEMMA CoverIs ==
  ASSUME \A a \in Agents :
           /\ Reaches(facts'[a], Elems(pending'[a]) \cup StoredNow(a)')
           /\ Reaches(rowFacts'[a], StoredNow(a)')
           /\ \A s \in Savers : pc'[s] \in {"embed", "commit", "drop"} =>
                /\ Reaches(facts'[a], Elems(take'[s][a]))
                /\ Reaches(payload'[s][a], Elems(take'[s][a]) \cup StoredNow(a)')
  PROVE  CoverInv'
  BY Zenon DEF CoverInv, Reaches, Elems, Saving

\* The cap leaves a fact just appended at the end of its list.
LEMMA AppendedLast ==
  ASSUME NEW l \in Lists, NEW n \in Fact, NEW S \in SUBSET (1..n)
  PROVE  Reaches(Window(Append(l, n)), S)
<1> DEFINE t == Append(l, n)
           w == Window(t)
<1>1. Len(t) = Len(l) + 1 /\ t[Len(l) + 1] = n /\ Len(l) \in Nat
  BY DEF Lists
<1>2. PICK k \in {0, 1} : TailAt(w, t, k)
  BY WindowIsTail
<1>3. w \in Seq(Fact) /\ Len(w) >= 1
  <2>1. w \in Lists
    BY WindowOfAppend
  <2>2. CASE Len(l) = 0
    <3>1. Len(l) < Cap
      BY <2>2
    <3>2. w = t
      BY <3>1, WindowOfAppend
    <3> QED BY <1>1, <2>1, <3>2 DEF Lists
  <2>3. CASE Len(l) # 0
    <3> HIDE DEF t, w
    <3> QED BY <1>1, <1>2, <2>1, <2>3 DEF TailAt, Lists
  <2> QED BY <2>2, <2>3
<1> HIDE DEF t, w
<1>4. w[Len(w)] = n
  <2>1. Len(w) \in 1..Len(w) /\ Len(w) = Len(t) - k
    BY <1>2, <1>3 DEF TailAt
  <2>2. w[Len(w)] = t[k + Len(w)]
    BY <1>2, <2>1 DEF TailAt
  <2> QED BY <1>1, <2>1, <2>2
<1>5. w # <<>>
  BY <1>3
<1> QED BY <1>4, <1>5 DEF Reaches, w, t, Fact

\* No save in progress, and the knowledge still reaches what it must.
LEMMA CoverAtRest ==
  ASSUME \A s \in Savers : ~ (pc'[s] \in {"embed", "commit", "drop"}),
         \A a \in Agents :
           /\ Reaches(facts'[a], Elems(pending'[a]) \cup StoredNow(a)')
           /\ Reaches(rowFacts'[a], StoredNow(a)')
  PROVE  CoverInv'
  BY CoverIs

LEMMA CoverStep ==
  ASSUME OneSaver
  PROVE  TypeOK /\ Known /\ CoverInv /\ [Next]_vars => CoverInv'
<1> SUFFICES ASSUME TypeOK, Known, CoverInv, [Next]_vars PROVE CoverInv'
  OBVIOUS
<1>c. \A a \in Agents :
        /\ Reaches(facts[a], Elems(pending[a]) \cup StoredNow(a))
        /\ Reaches(rowFacts[a], StoredNow(a))
        /\ \A s \in Savers : pc[s] \in {"embed", "commit", "drop"} =>
             /\ Reaches(facts[a], Elems(take[s][a]))
             /\ Reaches(payload[s][a], Elems(take[s][a]) \cup StoredNow(a))
  BY DEF CoverInv, Saving
<1>k. \A a \in Agents :
        /\ Elems(pending[a]) \subseteq Upto(a) /\ Stored(a) \subseteq Upto(a)
        /\ StoredNow(a) \subseteq Upto(a)
        /\ \A s \in Savers : Elems(take[s][a]) \subseteq Upto(a)
  BY DEF Known, StoredNow
<1>l. \A a \in Agents : facts[a] \in Lists /\ pending[a] \in Lists
  BY DEF TypeOK
<1>s. ASSUME UNCHANGED <<rows, born>>, NEW a \in Agents PROVE StoredNow(a)' = StoredNow(a)
  BY <1>s DEF StoredNow, Stored
\* A new fact ends the knowledge, and nothing is newer.
<1>1. ASSUME NEW a \in Agents, AppendFact(a) \/ LearnFromPeer(a) PROVE CoverInv'
  <2> DEFINE n == appended[a] + 1
             f == Window(Append(facts[a], n))
             p == Window(Append(pending[a], n))
  <2>1. n \in Fact /\ appended[a] \in Nat
    <3>1. appended[a] + 1 <= Quota[a]
      BY <1>1 DEF AppendFact, LearnFromPeer
    <3> QED BY <3>1, NextFact
  <2>2. /\ facts' = [facts EXCEPT ![a] = f]
        /\ pending' \in {pending, [pending EXCEPT ![a] = p]}
        /\ UNCHANGED <<pc, take, payload, rowFacts, rows, born>>
    BY <1>1 DEF AppendFact, LearnFromPeer, saveVars, dbVars
  <2> HIDE DEF n
  <2>3. Upto(a) \subseteq 1..n /\ n \in 1..n
    BY <2>1 DEF Upto, n, Fact
  <2>4. Elems(p) \subseteq 1..n
    <3>1. Elems(Append(pending[a], n)) = Elems(pending[a]) \cup {n}
      BY <1>l, <2>1, AppendElems
    <3>2. PICK k \in {0, 1} : TailAt(p, Append(pending[a], n), k)
      BY <1>l, <2>1, WindowIsTail
    <3>3. Elems(p) \subseteq Elems(Append(pending[a], n))
      BY <3>2 DEF TailAt, Elems
    <3> QED BY <1>k, <2>3, <3>1, <3>3
  <2>5. ASSUME NEW S \in SUBSET (1..n) PROVE Reaches(f, S)
    BY <1>l, <2>1, AppendedLast
  <2> HIDE DEF f, p
  <2>6. facts'[a] = f /\ pending'[a] \in {pending[a], p}
    BY <2>2 DEF TypeOK
  <2>7. \A b \in Agents : b # a => facts'[b] = facts[b] /\ pending'[b] = pending[b]
    BY <2>2 DEF TypeOK
  <2>8. \A b \in Agents : StoredNow(b)' = StoredNow(b)
    BY <1>s, <2>2
  <2>9. Elems(pending'[a]) \cup StoredNow(a) \in SUBSET (1..n)
    BY <1>k, <2>3, <2>4, <2>6
  <2>10. \A s \in Savers : Elems(take[s][a]) \in SUBSET (1..n)
    BY <1>k, <2>3
  <2>11. \A b \in Agents : Reaches(facts'[b], Elems(pending'[b]) \cup StoredNow(b))
    BY <1>c, <2>5, <2>6, <2>7, <2>9
  <2>12. \A b \in Agents, s \in Savers :
           pc[s] \in {"embed", "commit", "drop"} => Reaches(facts'[b], Elems(take[s][b]))
    BY <1>c, <2>5, <2>6, <2>7, <2>10
  <2>13. take' = take /\ payload' = payload /\ rowFacts' = rowFacts /\ pc' = pc
    BY <2>2
  <2> QED BY <1>c, <2>8, <2>11, <2>12, <2>13, CoverIs
\* The snapshot takes the buffers and the knowledge that reaches them.
<1>2. ASSUME NEW s \in Savers, Snapshot(s) PROVE CoverInv'
  <2>1. UNCHANGED <<facts, pending, rowFacts, rows, born>>
    BY <1>2 DEF Snapshot, memVars, dbVars, histVars
  <2>2. \A t \in Savers : take'[t] = pending /\ payload'[t] = facts
    BY <1>2 DEF Snapshot, TypeOK, OneSaver
  <2>3. \A a \in Agents : StoredNow(a)' = StoredNow(a)
    BY <1>s, <2>1
  <2>4. \A a \in Agents : Reaches(facts[a], Elems(pending[a]))
    BY <1>c DEF Reaches
  <2> QED BY <1>c, <2>1, <2>2, <2>3, <2>4, CoverIs
\* Embedding leaves the snapshot, or takes nothing.
<1>3. ASSUME NEW s \in Savers, EmbedAll(s) \/ EmbedFails(s) PROVE CoverInv'
  <2>1. UNCHANGED <<facts, pending, rowFacts, rows, born, payload>>
    BY <1>3 DEF EmbedAll, EmbedFails, memVars, dbVars, histVars
  <2>2. \A t \in Savers : take'[t] \in {take[t], Nothing} /\ pc[t] \in {"embed", "commit", "drop"}
    BY <1>3 DEF EmbedAll, EmbedFails, TypeOK, OneSaver
  <2>3. \A a \in Agents : StoredNow(a)' = StoredNow(a)
    BY <1>s, <2>1
  <2>4. \A a \in Agents, t \in Savers : Elems(take'[t][a]) \subseteq Elems(take[t][a])
    BY <2>2, NothingElems
  <2>5. \A a \in Agents, t \in Savers :
          /\ Reaches(facts[a], Elems(take'[t][a]))
          /\ Reaches(payload[t][a], Elems(take'[t][a]) \cup StoredNow(a))
    BY <1>c, <2>2, <2>4 DEF Reaches
  <2> QED BY <1>c, <2>1, <2>3, <2>5, CoverIs
\* One transaction stores the facts taken and the knowledge taken with them.
<1>4. ASSUME NEW s \in Savers, Commit(s) PROVE CoverInv'
  <2>1. UNCHANGED <<facts, pending, take, payload, born>> /\ rowFacts' = payload[s]
    BY <1>4 DEF Commit, memVars, histVars
  <2>2. pc[s] = "commit" /\ \A t \in Savers : t = s
    BY <1>4 DEF Commit, OneSaver
  <2>3. ASSUME NEW a \in Agents PROVE StoredNow(a)' \subseteq StoredNow(a) \cup Elems(take[s][a])
    <3>1. Stored(a)' = Stored(a) \cup Elems(take[s][a])
      BY <1>4, CommitStores
    <3>2. StoredNow(a)' = {n \in Stored(a)' : n > born[a]}
      BY <2>1 DEF StoredNow
    <3> QED BY <3>1, <3>2 DEF StoredNow
  <2>4. \A a \in Agents :
          /\ Reaches(facts[a], Elems(pending[a]) \cup StoredNow(a))
          /\ Reaches(facts[a], Elems(take[s][a]))
          /\ Reaches(payload[s][a], Elems(take[s][a]) \cup StoredNow(a))
    BY <1>c, <2>2
  <2>5. \A a \in Agents :
          /\ Reaches(facts[a], Elems(pending[a]) \cup StoredNow(a)')
          /\ Reaches(payload[s][a], Elems(take[s][a]) \cup StoredNow(a)')
          /\ Reaches(payload[s][a], StoredNow(a)')
    BY <2>3, <2>4 DEF Reaches
  <2> QED BY <2>1, <2>2, <2>4, <2>5, CoverIs
\* A save ends; what remains of the buffers was in them.
<1>5. ASSUME NEW s \in Savers, DropFlushed(s) \/ SaveAborts(s) \/ AckLost(s) PROVE CoverInv'
  <2>1. UNCHANGED <<facts, rowFacts, rows, born>>
    BY <1>5 DEF DropFlushed, SaveAborts, AckLost, memVars, dbVars, histVars
  <2>2. \A t \in Savers : ~ (pc'[t] \in {"embed", "commit", "drop"})
    BY <1>5, SaveOver
  <2>3. \A a \in Agents : StoredNow(a)' = StoredNow(a)
    BY <1>s, <2>1
  <2>4. ASSUME NEW a \in Agents PROVE Elems(pending'[a]) \subseteq Elems(pending[a])
    <3>1. pending'[a] = pending[a] \/ pending'[a] = DropFront(pending[a], Len(take[s][a]))
      BY <1>5 DEF DropFlushed, SaveAborts, AckLost, memVars
    <3>2. pending[a] \in Lists /\ Len(take[s][a]) \in Nat
      BY DEF TypeOK, Lists
    <3>3. PICK k \in Nat : TailAt(DropFront(pending[a], Len(take[s][a])), pending[a], k)
      BY <3>2, DropFrontIsTail
    <3>4. Elems(DropFront(pending[a], Len(take[s][a]))) \subseteq Elems(pending[a])
      BY <3>3 DEF TailAt, Elems
    <3> QED BY <3>1, <3>4
  <2>5. \A a \in Agents : /\ Reaches(facts'[a], Elems(pending'[a]) \cup StoredNow(a)')
                          /\ Reaches(rowFacts'[a], StoredNow(a)')
    BY <1>c, <2>1, <2>3, <2>4 DEF Reaches
  <2> QED BY <2>2, <2>5, CoverAtRest
\* Nothing is stored yet of a new life, and one restored goes on from its row.
<1>6. ASSUME NEW s \in Savers, Rebirth(s) PROVE CoverInv'
  <2>1. /\ facts' = Nothing /\ pending' = Nothing /\ born' = appended
        /\ UNCHANGED <<rowFacts, rows>>
    BY <1>6 DEF Rebirth, dbVars
  <2>2. \A t \in Savers : ~ (pc'[t] \in {"embed", "commit", "drop"})
    BY <1>6, SaveOver
  <2>3. ASSUME NEW a \in Agents PROVE StoredNow(a)' = {}
    <3>1. StoredNow(a)' = {n \in Stored(a) : n > appended[a]}
      BY <2>1 DEF StoredNow, Stored
    <3>2. Stored(a) \subseteq 1..appended[a] /\ appended[a] \in Nat
      BY <1>k DEF Upto, TypeOK
    <3> QED BY <3>1, <3>2
  <2>4. \A a \in Agents : /\ Reaches(facts'[a], Elems(pending'[a]) \cup StoredNow(a)')
                          /\ Reaches(rowFacts'[a], StoredNow(a)')
    BY <2>1, <2>3, NothingElems DEF Reaches
  <2> QED BY <2>2, <2>4, CoverAtRest
<1>7. CASE Restart
  <2>1. facts' = rowFacts /\ pending' = Nothing /\ UNCHANGED <<rowFacts, rows, born>>
    BY <1>7 DEF Restart, dbVars
  <2>2. \A t \in Savers : ~ (pc'[t] \in {"embed", "commit", "drop"})
    BY <1>7, SaveOver
  <2>3. \A a \in Agents : StoredNow(a)' = StoredNow(a)
    BY <1>s, <2>1
  <2>4. \A a \in Agents : /\ Reaches(facts'[a], Elems(pending'[a]) \cup StoredNow(a)')
                          /\ Reaches(rowFacts'[a], StoredNow(a)')
    BY <1>c, <2>1, <2>3, NothingElems DEF Reaches
  <2> QED BY <2>2, <2>4, CoverAtRest
<1>8. CASE UNCHANGED vars
  <2>1. UNCHANGED <<facts, pending, rowFacts, rows, born, pc, take, payload>>
    BY <1>8 DEF vars, memVars, saveVars, dbVars, histVars
  <2>2. \A a \in Agents : StoredNow(a)' = StoredNow(a)
    BY <1>s, <2>1
  <2> QED BY <1>c, <2>1, <2>2, CoverIs
<1> QED BY <1>1, <1>2, <1>3, <1>4, <1>5, <1>6, <1>7, <1>8 DEF Next, SaveStep

\* While saves run one at a time, agent_facts never runs ahead of agent_state:
\* not by facts appended, pushed out or told in the middle of a save, a failed or
\* cancelled save, a lost answer, a reset or a restart.
THEOREM RowCovers ==
  ASSUME OneSaver
  PROVE  Spec => []RowCoversTable
<1>1. TypeOK /\ Known /\ CoverInv /\ [Next]_vars => Known' /\ CoverInv'
  BY KnownStep, CoverStep
<1>2. Init => Known /\ CoverInv
  BY KnownInit, CoverInit
<1>3. CoverInv => RowCoversTable
  BY DEF CoverInv, Reaches, StoredNow, RowCoversTable
<1> QED BY <1>1, <1>2, <1>3, TypeCorrect, PTL DEF Spec
=============================================================================
