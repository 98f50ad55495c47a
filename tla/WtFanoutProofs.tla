--------------------------- MODULE WtFanoutProofs ---------------------------
(***************************************************************************)
(* The fan-out for any processes, connections and sessions: a consumer     *)
(* reads the stream in order and skips only what Redis has trimmed, a      *)
(* client is sent ticks in order unless one bypassed the stream, and a     *)
(* lost connection takes no session of another one with it.                *)
(***************************************************************************)
EXTENDS WtFanout, SequenceTheorems, FiniteSetTheorems, TLAPS

\* The parts of TypeOK, to be cited where a step needs no more.
Ticks == 1..MaxTick
Consumers(n) == [at : {"new", "ready", "reading", "sleep"}, warm : BOOLEAN,
                 last : 0..n, from : 0..n]
WireType ==
  /\ log \in Seq(Ticks) /\ first \in 1..(Len(log) + 1)
  /\ tick \in 0..MaxTick /\ pub \in {"idle", "sent", "applied"}
ConType ==
  /\ con \in [Procs -> Consumers(Len(log))]
  /\ seen \in [Procs -> Seq(1..Len(log))]
  /\ joined \in [Procs -> 0..Len(log)]
ClientType ==
  /\ reg \in [Procs -> [Ids -> Sessions \cup {None}]]
  /\ conn \in [Conns -> {"new", "open", "lost"}]
  /\ opened \subseteq Sessions
  /\ got \in [Sessions -> Seq(Ticks)]
Counts == [fallbacks : 0..MaxFaults, lostAcks : 0..MaxFaults,
           faults : 0..MaxFaults, restarts : 0..MaxRestarts]

\* What bypassed the stream was a fault; what is published is a tick.
Faulty == hist.fallbacks <= hist.faults /\ hist.lostAcks <= hist.faults
Publishing == pub # "idle" => tick \in Ticks

TypeInv == WireType /\ Publishing /\ ConType /\ ClientType /\ hist \in Counts /\ Faulty

LEMMA TypeParts == TypeInv => TypeOK
  BY DEF TypeInv, TypeOK, WireType, ConType, ClientType, Counts, Ticks, Consumers

\* A batch of the stream, and the numbers of its entries.
LEMMA Batches ==
  ASSUME NEW S, NEW q \in Seq(S), NEW i \in Nat \ {0}, NEW n \in Nat \ {0}, i + n - 1 <= Len(q)
  PROVE  /\ SubSeq(q, i, i + n - 1) \in Seq(S) /\ Len(SubSeq(q, i, i + n - 1)) = n
         /\ \A j \in 1..n : SubSeq(q, i, i + n - 1)[j] = q[i + j - 1]
<1>1. \A k \in i..(i + n - 1) : q[k] \in S
  BY LenProperties, ElementOfSeq
<1>2. /\ SubSeq(q, i, i + n - 1) \in Seq(S)
      /\ Len(SubSeq(q, i, i + n - 1)) = IF i <= i + n - 1 THEN i + n - 1 - i + 1 ELSE 0
      /\ \A j \in 1..(i + n - 1 - i + 1) : SubSeq(q, i, i + n - 1)[j] = q[i + j - 1]
  BY <1>1, SubSeqProperties
<1> QED BY SMTT(30), <1>2

LEMMA Numbered ==
  ASSUME NEW i \in Nat \ {0}, NEW n \in Nat, NEW m \in Nat, i + n - 1 <= m
  PROVE  /\ [j \in 1..n |-> i + j - 1] \in Seq(1..m)
         /\ Len([j \in 1..n |-> i + j - 1]) = n
         /\ \A j \in 1..n : [k \in 1..n |-> i + k - 1][j] = i + j - 1
<1> DEFINE f == [j \in 1..n |-> i + j - 1]
<1>1. f \in [1..n -> 1..m]
  OBVIOUS
<1>2. f \in Seq(1..m)
  BY <1>1
<1>3. Len(f) = n
  BY <1>1, <1>2, LenProperties
<1> QED BY <1>2, <1>3

\* Consumers and entries stay within a stream that grows.
LEMMA Wider ==
  ASSUME NEW n \in Nat, NEW m \in Nat, n <= m
  PROVE  Consumers(n) \subseteq Consumers(m) /\ Seq(1..n) \subseteq Seq(1..m) /\ 0..n \subseteq 0..m
<1>1. 1..n \subseteq 1..m /\ 0..n \subseteq 0..m
  OBVIOUS
<1> QED BY <1>1, SeqMonotonic DEF Consumers

\* A consumer moves.
LEMMA Moved ==
  ASSUME NEW n \in Nat, NEW c \in [Procs -> Consumers(n)], NEW p \in Procs, NEW from \in 0..n,
         NEW at \in {"new", "ready", "reading", "sleep"}
  PROVE  /\ [c EXCEPT ![p].at = at, ![p].from = from] \in [Procs -> Consumers(n)]
         /\ [c EXCEPT ![p].at = at] \in [Procs -> Consumers(n)]
<1>1. [c[p] EXCEPT !.at = at] \in Consumers(n)
  BY DEF Consumers
<1>2. [[c[p] EXCEPT !.at = at] EXCEPT !.from = from] \in Consumers(n)
  BY <1>1 DEF Consumers
<1> QED BY <1>1, <1>2

LEMMA TypeInit == Init => TypeInv
<1> SUFFICES ASSUME Init PROVE TypeInv
  OBVIOUS
<1>1. <<>> \in Seq(Ticks) /\ \A n : <<>> \in Seq(1..n)
  BY EmptySeq
<1>2. WireType /\ Publishing /\ hist \in Counts /\ Faulty
  BY <1>1, FanoutAssumption DEF Init, WireType, Publishing, Counts, Faulty
<1>3. ConType
  BY <1>1 DEF Init, ConType, Consumers, Fresh
<1>4. ClientType
  BY <1>1 DEF Init, ClientType, NoSessions
<1> QED BY <1>2, <1>3, <1>4 DEF TypeInv

LEMMA BroadcastType ==
  ASSUME ClientType, NEW p \in Procs, NEW ticks \in Seq(Ticks), Broadcast(p, ticks)
  PROVE  ClientType'
<1>1. PICK stale \in SUBSET Registered(p) :
    /\ got' = [s \in Sessions |-> IF s \in Registered(p) \ stale THEN got[s] \o ticks ELSE got[s]]
    /\ reg' = [reg EXCEPT ![p] = [i \in Ids |-> IF reg[p][i] \in stale THEN None ELSE reg[p][i]]]
    /\ conn' = [k \in Conns |-> IF \E s \in stale : Conn[s] = k THEN "lost" ELSE conn[k]]
    /\ UNCHANGED opened
  BY DEF Broadcast
<1>2. got' \in [Sessions -> Seq(Ticks)]
  BY <1>1, ConcatProperties DEF ClientType
<1>3. reg' \in [Procs -> [Ids -> Sessions \cup {None}]]
  BY <1>1 DEF ClientType
<1> QED BY <1>1, <1>2, <1>3 DEF ClientType

\* What FanOut fans out.
LEMMA Fanned ==
  ASSUME WireType, ConType, NEW p \in Procs, FanOut(p)
  PROVE  \E n \in 1..Batch :
           /\ Oldest(p) \in 1..Len(log) /\ Oldest(p) + n - 1 \in 1..Len(log)
           /\ SubSeq(log, Oldest(p), Oldest(p) + n - 1) \in Seq(Ticks)
           /\ Broadcast(p, SubSeq(log, Oldest(p), Oldest(p) + n - 1))
           /\ [j \in 1..n |-> Oldest(p) + j - 1] \in Seq(1..Len(log))
           /\ seen' = [seen EXCEPT ![p] = @ \o [j \in 1..n |-> Oldest(p) + j - 1]]
           /\ con' = [con EXCEPT ![p] = [at |-> "ready", warm |-> TRUE, from |-> 0,
                                         last |-> Oldest(p) + n - 1]]
<1>1. PICK n \in 1..Batch :
           /\ Oldest(p) + n - 1 <= Len(log)
           /\ Broadcast(p, SubSeq(log, Oldest(p), Oldest(p) + n - 1))
           /\ seen' = [seen EXCEPT ![p] = @ \o [j \in 1..n |-> Oldest(p) + j - 1]]
           /\ con' = [con EXCEPT ![p] = [at |-> "ready", warm |-> TRUE, from |-> 0,
                                         last |-> Oldest(p) + n - 1]]
  BY DEF FanOut
<1>2. Len(log) \in Nat /\ n \in Nat \ {0}
  BY FanoutAssumption, LenProperties DEF WireType
<1>3. Oldest(p) \in Nat \ {0}
  BY <1>2 DEF Oldest, WireType, ConType, Consumers
<1>4. /\ SubSeq(log, Oldest(p), Oldest(p) + n - 1) \in Seq(Ticks)
      /\ [j \in 1..n |-> Oldest(p) + j - 1] \in Seq(1..Len(log))
  BY <1>1, <1>2, <1>3, Batches, Numbered DEF WireType
<1>5. Oldest(p) \in 1..Len(log) /\ Oldest(p) + n - 1 \in 1..Len(log)
  BY <1>1, <1>2, <1>3
<1> QED BY <1>1, <1>4, <1>5

LEMMA TypeStep == TypeInv /\ [Next]_vars => TypeInv'
<1> SUFFICES ASSUME TypeInv, [Next]_vars PROVE TypeInv'
  OBVIOUS
<1>0. /\ WireType /\ Publishing /\ ConType /\ ClientType /\ hist \in Counts /\ Faulty
      /\ Len(log) \in Nat
  BY LenProperties DEF TypeInv, WireType
<1>1. ASSUME UNCHANGED wire PROVE WireType' /\ Publishing'
  BY <1>0, <1>1 DEF wire, WireType, Publishing
<1>2. ASSUME UNCHANGED <<log, con, seen, joined>> PROVE ConType'
  BY <1>0, <1>2 DEF ConType
<1>3. ASSUME UNCHANGED <<clients, got>> PROVE ClientType'
  BY <1>0, <1>3 DEF clients, ClientType
<1>4. ASSUME UNCHANGED hist PROVE hist' \in Counts /\ Faulty'
  BY <1>0, <1>4 DEF Faulty
<1>5. ASSUME NEW s \in Sessions, Accept(s) PROVE TypeInv'
  <2>1. ClientType'
    BY <1>0, <1>5, FanoutAssumption DEF Accept, ClientType, Ids
  <2> QED BY <1>1, <1>2, <1>4, <1>5, <2>1 DEF Accept, wire, TypeInv
<1>6. ASSUME NEW k \in Conns, ConnectionLost(k) PROVE TypeInv'
  <2>1. ClientType'
    BY <1>0, <1>6, FanoutAssumption DEF ConnectionLost, RemoveProtocolSessions, ClientType
  <2> QED BY <1>1, <1>2, <1>4, <1>6, <2>1 DEF ConnectionLost, wire, TypeInv
<1>7. CASE Publish \/ Published
  <2>1. WireType' /\ Publishing'
    BY <1>0, <1>7, FanoutAssumption DEF Publish, Published, WireType, Publishing, Ticks
  <2> QED BY <1>2, <1>3, <1>4, <1>7, <2>1 DEF Publish, Published, TypeInv
<1>8. CASE Xadd
  <2>1. /\ tick \in Ticks /\ log' = Append(log, tick) /\ UNCHANGED <<tick, con, clients, got, seen, joined, hist>>
        /\ first' \in {first} \cup first..Len(log) /\ pub' = "applied"
    BY <1>0, <1>8 DEF Xadd, Publishing
  <2>2. log' \in Seq(Ticks) /\ Len(log') = Len(log) + 1
    BY <1>0, <2>1 DEF WireType
  <2>3. WireType' /\ Publishing'
    BY <1>0, <2>1, <2>2 DEF WireType, Publishing
  <2>4. ConType'
    BY <1>0, <2>1, <2>2, Wider DEF ConType
  <2> QED BY <1>3, <1>4, <2>1, <2>3, <2>4 DEF TypeInv
<1>9. CASE FallBack
  <2>1. <<tick>> \in Seq(Ticks) /\ tick \in Ticks
    BY <1>0, <1>9 DEF FallBack, Publishing
  <2>2. ClientType'
    BY <1>0, <1>9, <2>1, BroadcastType, FanoutAssumption DEF FallBack
  <2>3. hist' \in Counts /\ Faulty'
    <3>1. /\ hist.faults + 1 \in 0..MaxFaults /\ hist.fallbacks + 1 \in 0..MaxFaults
          /\ hist.lostAcks + 1 \in 0..MaxFaults
      BY SMTT(30), <1>0, <1>9, FanoutAssumption DEF FallBack, Counts, Faulty
    <3>2. PICK n \in {hist.lostAcks, hist.lostAcks + 1} :
            hist' = [hist EXCEPT !.faults = hist.faults + 1, !.fallbacks = hist.fallbacks + 1,
                                 !.lostAcks = n]
      BY <1>9 DEF FallBack
    <3>3. n \in 0..MaxFaults /\ n <= hist.faults + 1 /\ hist.fallbacks <= hist.faults
      BY <1>0, <3>1 DEF Counts, Faulty
    <3>4. hist' \in Counts /\ hist'.faults = hist.faults + 1
          /\ hist'.fallbacks = hist.fallbacks + 1 /\ hist'.lostAcks = n
      <4>1. PICK f \in 0..MaxFaults, b \in 0..MaxFaults :
              f = hist.faults + 1 /\ b = hist.fallbacks + 1
        BY <3>1
      <4>2. hist' = [hist EXCEPT !.faults = f, !.fallbacks = b, !.lostAcks = n]
        BY <3>2, <4>1, Zenon
      <4> QED BY <1>0, <3>3, <4>1, <4>2 DEF Counts
    <3>6. hist.faults \in 0..MaxFaults /\ hist.fallbacks \in 0..MaxFaults
      BY <1>0 DEF Counts
    <3> QED BY <3>1, <3>3, <3>4, <3>6 DEF Faulty
  <2>4. WireType' /\ Publishing'
    BY <1>0, <1>9 DEF FallBack, WireType, Publishing
  <2> QED BY <1>2, <1>9, <2>2, <2>3, <2>4 DEF FallBack, TypeInv
<1>10. ASSUME NEW p \in Procs, Read(p) PROVE TypeInv'
  <2>1. ConType'
    <3>1. PICK from \in 0..Len(log) :
            con' = [con EXCEPT ![p].at = "reading", ![p].from = from]
      <4>1. (IF con[p].warm THEN con[p].last ELSE Len(log)) \in 0..Len(log)
        BY <1>0 DEF ConType, Consumers
      <4> QED BY <1>10, <4>1, Zenon DEF Read
    <3>2. con' \in [Procs -> Consumers(Len(log))]
      BY <1>0, <3>1, Moved DEF ConType
    <3>3. joined' \in [Procs -> 0..Len(log)]
      BY <1>0, <1>10 DEF Read, ConType
    <3> QED BY <1>0, <1>10, <3>2, <3>3 DEF Read, ConType, wire
  <2> QED BY <1>1, <1>3, <1>4, <1>10, <2>1 DEF Read, wire, TypeInv
<1>11. ASSUME NEW p \in Procs, FanOut(p) PROVE TypeInv'
  <2>1. PICK n \in 1..Batch :
           /\ Oldest(p) \in 1..Len(log) /\ Oldest(p) + n - 1 \in 1..Len(log)
           /\ SubSeq(log, Oldest(p), Oldest(p) + n - 1) \in Seq(Ticks)
           /\ Broadcast(p, SubSeq(log, Oldest(p), Oldest(p) + n - 1))
           /\ [j \in 1..n |-> Oldest(p) + j - 1] \in Seq(1..Len(log))
           /\ seen' = [seen EXCEPT ![p] = @ \o [j \in 1..n |-> Oldest(p) + j - 1]]
           /\ con' = [con EXCEPT ![p] = [at |-> "ready", warm |-> TRUE, from |-> 0,
                                         last |-> Oldest(p) + n - 1]]
    BY <1>0, <1>11, Fanned
  <2>2. ClientType'
    BY <1>0, <2>1, BroadcastType
  <2>3. con' \in [Procs -> Consumers(Len(log))]
    BY <1>0, <2>1 DEF ConType, Consumers
  <2>4. seen' \in [Procs -> Seq(1..Len(log))]
    BY <1>0, <2>1, ConcatProperties DEF ConType
  <2> QED BY <1>0, <1>1, <1>4, <1>11, <2>2, <2>3, <2>4 DEF FanOut, wire, ConType, TypeInv
<1>12. ASSUME NEW p \in Procs, ReadExpires(p) \/ Wakes(p) PROVE TypeInv'
  <2>1. ConType'
    <3>1. con' \in [Procs -> Consumers(Len(log))]
      <4>1. 0 \in 0..Len(log) /\ con \in [Procs -> Consumers(Len(log))]
        BY <1>0 DEF ConType
      <4>2. con' = [con EXCEPT ![p].at = "ready", ![p].from = 0] \/ con' = [con EXCEPT ![p].at = "ready"]
        BY <1>12 DEF ReadExpires, Wakes
      <4>3. CASE con' = [con EXCEPT ![p].at = "ready", ![p].from = 0]
        BY <1>0, <4>1, <4>3, Moved
      <4>4. CASE con' = [con EXCEPT ![p].at = "ready"]
        BY <1>0, <4>1, <4>4, Moved
      <4> QED BY <4>2, <4>3, <4>4
    <3> QED BY <1>0, <1>12, <3>1 DEF ReadExpires, Wakes, ConType, wire
  <2> QED BY <1>1, <1>3, <1>4, <1>12, <2>1 DEF ReadExpires, Wakes, wire, TypeInv
<1>13. ASSUME NEW p \in Procs, ReadFails(p) PROVE TypeInv'
  <2>1. ConType'
    <3>1. con' \in [Procs -> Consumers(Len(log))]
      <4>1. 0 \in 0..Len(log) /\ con \in [Procs -> Consumers(Len(log))]
        BY <1>0 DEF ConType
      <4>2. con' = [con EXCEPT ![p].at = "sleep", ![p].from = 0]
        BY <1>13 DEF ReadFails
      <4> QED BY <1>0, <4>1, <4>2, Moved
    <3> QED BY <1>0, <1>13, <3>1 DEF ReadFails, ConType, wire
  <2>2. hist' \in Counts /\ Faulty'
    <3>1. hist.faults + 1 \in 0..MaxFaults
      BY <1>0, <1>13, FanoutAssumption DEF ReadFails, Counts
    <3>2. hist' = [hist EXCEPT !.faults = hist.faults + 1]
      BY <1>13 DEF ReadFails
    <3> QED BY <1>0, <3>1, <3>2 DEF Counts, Faulty
  <2> QED BY <1>1, <1>3, <1>13, <2>1, <2>2 DEF ReadFails, wire, TypeInv
<1>14. ASSUME NEW p \in Procs, Restart(p) PROVE TypeInv'
  <2>1. ConType'
    BY <1>0, <1>14, EmptySeq DEF Restart, ConType, Consumers, Fresh, wire
  <2>2. ClientType'
    BY <1>0, <1>14 DEF Restart, ClientType, NoSessions
  <2>3. hist' \in Counts /\ Faulty'
    <3>1. hist.restarts + 1 \in 0..MaxRestarts
      BY <1>0, <1>14, FanoutAssumption DEF Restart, Counts
    <3>2. hist' = [hist EXCEPT !.restarts = hist.restarts + 1]
      BY <1>14 DEF Restart
    <3> QED BY <1>0, <3>1, <3>2 DEF Counts, Faulty
  <2> QED BY <1>1, <1>14, <2>1, <2>2, <2>3 DEF Restart, TypeInv
<1>15. CASE UNCHANGED vars
  BY <1>1, <1>2, <1>3, <1>4, <1>15 DEF vars, wire, clients, TypeInv
<1> QED BY <1>5, <1>6, <1>7, <1>8, <1>9, <1>10, <1>11, <1>12, <1>13, <1>14, <1>15 DEF Next

LEMMA TypeHolds == Spec => []TypeInv
  BY TypeInit, TypeStep, PTL DEF Spec

\* Consumers stay within the stream and registries hold sessions, whatever fails.
THEOREM FanoutTypeCorrect == Spec => []TypeOK
  BY TypeParts, TypeHolds, PTL
-----------------------------------------------------------------------------
\* A consumer goes on behind the last entry it fanned out, and one without a last
\* entry behind the stream it joined.
Resumes(p) ==
  /\ con[p].warm => Len(seen[p]) > 0 /\ con[p].last = seen[p][Len(seen[p])]
  /\ ~con[p].warm => seen[p] = <<>>
  /\ con[p].at = "new" => ~con[p].warm
  /\ con[p].at = "reading" =>
       IF con[p].warm THEN con[p].from = con[p].last ELSE joined[p] <= con[p].from

\* TailIsFaithful for one process.
Faithful(p) ==
  \A j \in 1..Len(seen[p]) :
    LET before == IF j = 1 THEN joined[p] ELSE seen[p][j - 1] IN
    /\ before < seen[p][j]
    /\ j > 1 => \A i \in (before + 1)..(seen[p][j] - 1) : i < first

TailInv == \A p \in Procs : Resumes(p) /\ Faithful(p)

LEMMA TailInit == Init => TailInv
<1> SUFFICES ASSUME Init, NEW p \in Procs PROVE Resumes(p) /\ Faithful(p)
  BY DEF TailInv
<1>1. seen[p] = <<>> /\ ~con[p].warm /\ con[p].at = "new"
  BY DEF Init, Fresh
<1> QED BY <1>1 DEF Resumes, Faithful

\* A batch is fanned out behind what was fanned out before.
LEMMA TailFanOut ==
  ASSUME TypeInv, NEW p \in Procs, Resumes(p), Faithful(p), FanOut(p)
  PROVE  Resumes(p)' /\ Faithful(p)'
<1> DEFINE i == Oldest(p)  old == seen[p]
<1>0. WireType /\ ConType /\ Len(log) \in Nat
  BY LenProperties DEF TypeInv, WireType
<1>1. PICK n \in 1..Batch :
         /\ i \in 1..Len(log) /\ i + n - 1 \in 1..Len(log)
         /\ seen' = [seen EXCEPT ![p] = @ \o [j \in 1..n |-> i + j - 1]]
         /\ con' = [con EXCEPT ![p] = [at |-> "ready", warm |-> TRUE, from |-> 0,
                                       last |-> i + n - 1]]
  BY <1>0, Fanned
<1> DEFINE batch == [j \in 1..n |-> i + j - 1]
<1>2. n \in Nat \ {0} /\ old \in Seq(1..Len(log)) /\ Len(old) \in Nat
  BY <1>0, FanoutAssumption, LenProperties DEF ConType
<1>3. batch \in Seq(1..Len(log)) /\ Len(batch) = n /\ \A j \in 1..n : batch[j] = i + j - 1
  BY <1>0, <1>1, <1>2, Numbered
<1>4. /\ con'[p].at = "ready" /\ con'[p].warm /\ con'[p].last = i + n - 1
      /\ seen'[p] = old \o batch /\ joined' = joined /\ first' = first
  BY <1>0, <1>1 DEF ConType, FanOut, wire
<1>5. con[p].from + 1 <= i /\ \A k \in (con[p].from + 1)..(i - 1) : k < first
  BY <1>0 DEF Oldest, ConType, Consumers, WireType
<1>6. con[p].at = "reading" /\ con[p].from \in Nat /\ joined[p] \in Nat /\ con[p].last \in Nat
  BY <1>0 DEF FanOut, ConType, Consumers
<1>15. i \in Nat /\ Len(log) \in Nat /\ first \in Nat /\ i + n - 1 \in Nat
  BY <1>0, <1>1 DEF WireType
<1> HIDE DEF i, batch
<1>7. /\ Len(seen'[p]) = Len(old) + n
      /\ \A j \in 1..Len(old) : seen'[p][j] = old[j]
      /\ \A j \in (Len(old) + 1)..(Len(old) + n) : seen'[p][j] = i + (j - Len(old)) - 1
  <2>1. /\ Len(old \o batch) = Len(old) + Len(batch)
        /\ \A j \in 1..Len(old) + Len(batch) :
             (old \o batch)[j] = IF j <= Len(old) THEN old[j] ELSE batch[j - Len(old)]
    BY ZenonT(60), <1>2, <1>3, ConcatProperties
  <2>2. \A j \in (Len(old) + 1)..(Len(old) + n) : seen'[p][j] = batch[j - Len(old)]
                                                  /\ j - Len(old) \in 1..n
    BY <1>2, <1>3, <1>4, <2>1
  <2>3. \A j \in 1..Len(old) : seen'[p][j] = old[j]
    BY <1>2, <1>3, <1>4, <2>1
  <2> QED BY <1>3, <1>4, <2>1, <2>2, <2>3
<1>8. seen'[p][Len(old) + n] = i + n - 1
  BY <1>1, <1>2, <1>7
<1>9. Resumes(p)'
  BY <1>2, <1>4, <1>7, <1>8 DEF Resumes
<1>10. ASSUME NEW j \in 1..Len(seen'[p])
       PROVE  LET before == IF j = 1 THEN joined'[p] ELSE seen'[p][j - 1] IN
              /\ before < seen'[p][j]
              /\ j > 1 => \A k \in (before + 1)..(seen'[p][j] - 1) : k < first'
  <2>1. CASE j <= Len(old)
    <3>1. j \in 1..Len(old) /\ seen'[p][j] = old[j] /\ (j > 1 => seen'[p][j - 1] = old[j - 1])
      <4>1. j \in 1..Len(old) /\ (j > 1 => j - 1 \in 1..Len(old))
        BY <1>2, <1>7, <2>1
      <4> QED BY <1>7, <4>1
    <3> QED BY <1>4, <3>1 DEF Faithful
  <2>2. CASE j = Len(old) + 1
    <3>1. seen'[p][j] = i
      <4>1. j \in (Len(old) + 1)..(Len(old) + n) /\ j - Len(old) = 1
        BY <1>2, <2>2
      <4>2. seen'[p][j] = i + 1 - 1
        BY <1>7, <4>1
      <4> QED BY <1>15, <4>2
    <3>2. CASE j = 1
      <4>1. ~con[p].warm
        BY <1>2, <2>2, <3>2 DEF Resumes
      <4>2. joined[p] <= con[p].from
        BY <1>6, <4>1 DEF Resumes
      <4> QED BY <1>4, <1>5, <1>6, <1>15, <3>1, <3>2, <4>2
    <3>3. CASE j > 1
      <4>1. con[p].warm /\ con[p].from = con[p].last
        BY <1>2, <1>6, <2>2, <3>3, EmptySeq DEF Resumes
      <4>2. seen'[p][j - 1] = con[p].from
        BY SMTT(30), <1>2, <1>7, <2>2, <3>3, <4>1 DEF Resumes
      <4> QED BY SMTT(30), <1>4, <1>5, <1>6, <1>15, <3>1, <3>3, <4>2
    <3>4. j = 1 \/ j > 1
      BY <1>2, <2>2
    <3> QED BY <3>2, <3>3, <3>4
  <2>3. CASE j > Len(old) + 1
    <3>1. seen'[p][j] = i + (j - Len(old)) - 1 /\ seen'[p][j - 1] = i + (j - 1 - Len(old)) - 1
      <4>1. j \in (Len(old) + 1)..(Len(old) + n) /\ j - 1 \in (Len(old) + 1)..(Len(old) + n)
        BY <1>2, <1>7, <2>3
      <4> QED BY <1>7, <4>1
    <3>2. j > 1 /\ j \in Nat /\ (j - 1 - Len(old)) = (j - Len(old)) - 1
      BY <1>2, <1>7, <2>3
    <3>3. seen'[p][j] = seen'[p][j - 1] + 1 /\ seen'[p][j - 1] \in Int
      BY <1>2, <1>15, <3>1, <3>2
    <3> QED BY <3>2, <3>3
  <2>4. j \in Nat
    BY <1>2, <1>7
  <2> QED BY <1>2, <2>1, <2>2, <2>3, <2>4
<1>11. Faithful(p)'
  BY <1>10 DEF Faithful
<1> QED BY <1>9, <1>11

LEMMA TailStep == TypeInv /\ TailInv /\ [Next]_vars => TailInv'
<1> SUFFICES ASSUME TypeInv, TailInv, [Next]_vars, NEW p \in Procs
             PROVE  Resumes(p)' /\ Faithful(p)'
  BY DEF TailInv
<1>0. WireType /\ ConType /\ Len(log) \in Nat
  BY LenProperties DEF TypeInv, WireType
<1>1. Resumes(p) /\ Faithful(p)
  BY DEF TailInv
<1>2. ASSUME con'[p] = con[p], seen'[p] = seen[p], joined'[p] = joined[p], first' = first
      PROVE  Resumes(p)' /\ Faithful(p)'
  BY <1>1, <1>2 DEF Resumes, Faithful
<1>3. CASE \/ \E s \in Sessions : Accept(s)
           \/ \E k \in Conns : ConnectionLost(k)
           \/ Publish \/ Published \/ FallBack \/ UNCHANGED vars
  BY <1>2, <1>3 DEF Accept, ConnectionLost, Publish, Published, FallBack, vars, wire
<1>4. CASE Xadd
  <2>1. UNCHANGED <<con, seen, joined>> /\ first \in Nat /\ first' \in Nat /\ first' >= first
    BY <1>0, <1>4 DEF Xadd, WireType
  <2>2. seen[p] \in Seq(1..Len(log)) /\ joined[p] \in Nat
    BY <1>0 DEF ConType
  <2>3. \A j \in 1..Len(seen[p]) : seen[p][j] \in Nat
    BY <1>0, <2>2, ElementOfSeq
  <2>4. Resumes(p)'
    BY <1>1, <2>1 DEF Resumes
  <2>5. ASSUME NEW j \in 1..Len(seen[p])
        PROVE  LET before == IF j = 1 THEN joined[p] ELSE seen[p][j - 1] IN
               /\ before < seen[p][j]
               /\ j > 1 => \A i \in (before + 1)..(seen[p][j] - 1) : i < first'
    <3>1. (j > 1 => seen[p][j - 1] \in Nat) /\ seen[p][j] \in Nat
      BY <2>2, <2>3, LenProperties
    <3>2. CASE j = 1
      BY <1>1, <3>2 DEF Faithful
    <3>3. CASE j > 1
      <4>1. /\ seen[p][j - 1] < seen[p][j]
            /\ \A i \in (seen[p][j - 1] + 1)..(seen[p][j] - 1) : i < first
        BY <1>1, <3>3 DEF Faithful
      <4> QED BY <2>1, <3>1, <3>3, <4>1
    <3> QED BY <2>2, <3>2, <3>3, LenProperties
  <2> QED BY <2>1, <2>4, <2>5 DEF Faithful
<1>5. ASSUME NEW q \in Procs, q # p,
             Read(q) \/ FanOut(q) \/ ReadExpires(q) \/ ReadFails(q) \/ Wakes(q) \/ Restart(q)
      PROVE  Resumes(p)' /\ Faithful(p)'
  <2>1. con'[p] = con[p] /\ seen'[p] = seen[p] /\ joined'[p] = joined[p] /\ first' = first
    BY <1>0, <1>5 DEF Read, FanOut, ReadExpires, ReadFails, Wakes, Restart, ConType, wire
  <2> QED BY <1>2, <2>1
<1>6. CASE Read(p)
  <2>1. /\ con'[p].at = "reading" /\ con'[p].warm = con[p].warm /\ con'[p].last = con[p].last
        /\ con'[p].from = IF con[p].warm THEN con[p].last ELSE Len(log)
        /\ joined'[p] = IF con[p].at = "new" THEN Len(log) ELSE joined[p]
        /\ UNCHANGED <<first, seen>>
    BY <1>0, <1>6 DEF Read, ConType, Consumers, wire
  <2>2. joined'[p] <= Len(log) /\ (con[p].at = "new" => Len(seen[p]) = 0)
    BY <1>0, <1>1, <2>1 DEF ConType, Resumes
  <2>3. con[p].warm \in BOOLEAN
    BY <1>0 DEF ConType, Consumers
  <2>4. Resumes(p)'
    BY <1>1, <2>1, <2>2, <2>3 DEF Resumes
  <2>5. Faithful(p)'
    BY <1>1, <2>1, <2>2 DEF Faithful
  <2> QED BY <2>4, <2>5
<1>7. CASE FanOut(p)
  BY <1>1, <1>7, TailFanOut
<1>8. CASE ReadExpires(p) \/ ReadFails(p) \/ Wakes(p)
  <2>1. /\ con'[p].at \in {"ready", "sleep"} /\ con'[p].warm = con[p].warm
        /\ con'[p].last = con[p].last /\ UNCHANGED <<seen, joined, first>>
    BY <1>0, <1>8 DEF ReadExpires, ReadFails, Wakes, ConType, Consumers, wire
  <2> QED BY <1>1, <2>1 DEF Resumes, Faithful
<1>9. CASE Restart(p)
  <2>1. seen'[p] = <<>> /\ ~con'[p].warm /\ con'[p].at = "new"
    BY <1>0, <1>9 DEF Restart, Fresh, ConType
  <2> QED BY <2>1 DEF Resumes, Faithful
<1> QED BY <1>3, <1>4, <1>5, <1>6, <1>7, <1>8, <1>9 DEF Next

\* _consume_stream: whatever XREADs expire or fail and whenever the process is
\* restarted, entries are fanned out in order, once, and without a gap that Redis
\* could still have filled.
THEOREM TailIsFaithfulHolds == Spec => []TailIsFaithful
<1>1. TailInv => TailIsFaithful
  BY DEF TailInv, Faithful, TailIsFaithful
<1>2. Spec => []TailInv
  BY TypeHolds, TailInit, TailStep, PTL DEF Spec
<1> QED BY <1>1, <1>2, PTL
-----------------------------------------------------------------------------
\* A registry holds accepted sessions of its own process, each under its stream id.
Placed == \A p \in Procs, i \in Ids :
  reg[p][i] # None => /\ reg[p][i] \in opened
                      /\ Sid[reg[p][i]] = i /\ Home[Conn[reg[p][i]]] = p

LEMMA PlacedInit == Init => Placed
  BY DEF Init, Placed, NoSessions

\* A broadcast only takes stale sessions out of the registry of its process.
LEMMA BroadcastEffects ==
  ASSUME ClientType, NEW p \in Procs, NEW ticks, Broadcast(p, ticks)
  PROVE  \E stale \in SUBSET Registered(p) :
           /\ \A q \in Procs, i \in Ids :
                reg'[q][i] = IF q = p /\ reg[p][i] \in stale THEN None ELSE reg[q][i]
           /\ \A s \in stale : s \in Sessions /\ conn'[Conn[s]] = "lost"
           /\ \A s \in Sessions : got'[s] = IF s \in Registered(p) \ stale
                                            THEN got[s] \o ticks ELSE got[s]
           /\ opened' = opened
           /\ \A t \in Sessions : (\A s \in stale : Conn[s] # Conn[t]) => conn'[Conn[t]] = conn[Conn[t]]
           /\ \A s \in stale, t \in Registered(p) : Conn[s] = Conn[t] => t \in stale
<1>1. PICK stale \in SUBSET Registered(p) :
    /\ \A s \in stale, t \in Registered(p) : Conn[s] = Conn[t] => t \in stale
    /\ got' = [s \in Sessions |-> IF s \in Registered(p) \ stale THEN got[s] \o ticks ELSE got[s]]
    /\ reg' = [reg EXCEPT ![p] = [i \in Ids |-> IF reg[p][i] \in stale THEN None ELSE reg[p][i]]]
    /\ conn' = [k \in Conns |-> IF \E s \in stale : Conn[s] = k THEN "lost" ELSE conn[k]]
    /\ UNCHANGED opened
  BY DEF Broadcast
<1>2. Registered(p) \subseteq Sessions
  BY DEF Registered, ClientType
<1>3. \A s \in stale : s \in Sessions /\ conn'[Conn[s]] = "lost"
  BY <1>1, <1>2, FanoutAssumption
<1>4. \A q \in Procs, i \in Ids :
        reg'[q][i] = IF q = p /\ reg[p][i] \in stale THEN None ELSE reg[q][i]
  BY <1>1 DEF ClientType
<1>5. \A t \in Sessions : (\A s \in stale : Conn[s] # Conn[t]) => conn'[Conn[t]] = conn[Conn[t]]
  BY <1>1, FanoutAssumption
<1> QED BY <1>1, <1>3, <1>4, <1>5

LEMMA PlacedStep == TypeInv /\ Placed /\ [Next]_vars => Placed'
<1> SUFFICES ASSUME TypeInv, Placed, [Next]_vars PROVE Placed'
  OBVIOUS
<1>0. WireType /\ ConType /\ ClientType
  BY DEF TypeInv
<1>1. ASSUME opened \subseteq opened',
             \A q \in Procs, i \in Ids : reg'[q][i] \in {None, reg[q][i]}
      PROVE  Placed'
  BY <1>1 DEF Placed
<1>2. ASSUME NEW s \in Sessions, Accept(s) PROVE Placed'
  <2>1. \A q \in Procs, i \in Ids :
          reg'[q][i] = IF q = Home[Conn[s]] /\ i = Sid[s] THEN s ELSE reg[q][i]
    BY <1>0, <1>2 DEF Accept, ClientType
  <2>2. opened' = opened \cup {s}
    BY <1>2 DEF Accept
  <2> QED BY <2>1, <2>2 DEF Placed
<1>3. ASSUME NEW k \in Conns, ConnectionLost(k) PROVE Placed'
  <2>1. \A q \in Procs, i \in Ids : reg'[q][i] \in {None, reg[q][i]}
    BY <1>0, <1>3, FanoutAssumption DEF ConnectionLost, RemoveProtocolSessions, ClientType
  <2> QED BY <1>1, <1>3, <2>1 DEF ConnectionLost
<1>4. ASSUME NEW p \in Procs, NEW ticks, Broadcast(p, ticks) PROVE Placed'
  BY <1>0, <1>1, <1>4, BroadcastEffects
<1>5. CASE FallBack
  BY <1>4, <1>5, FanoutAssumption DEF FallBack
<1>6. ASSUME NEW p \in Procs, FanOut(p) PROVE Placed'
  BY <1>4, <1>6 DEF FanOut
<1>7. ASSUME NEW p \in Procs, Restart(p) PROVE Placed'
  <2>1. \A q \in Procs, i \in Ids : reg'[q][i] \in {None, reg[q][i]}
    BY <1>0, <1>7 DEF Restart, NoSessions, ClientType
  <2> QED BY <1>1, <1>7, <2>1 DEF Restart
<1>8. CASE \/ Publish \/ Xadd \/ Published \/ UNCHANGED vars
           \/ \E p \in Procs : Read(p) \/ ReadExpires(p) \/ ReadFails(p) \/ Wakes(p)
  BY <1>1, <1>8 DEF Publish, Xadd, Published, vars, Read, ReadExpires, ReadFails, Wakes, clients
<1> QED BY <1>2, <1>3, <1>5, <1>6, <1>7, <1>8 DEF Next

LEMMA PlacedHolds == Spec => [](TypeInv /\ Placed)
  BY TypeInit, TypeStep, PlacedInit, PlacedStep, PTL DEF Spec

\* One action at a time: what takes a session out of a registry is a loss of its
\* connection, or a session just accepted under its stream id.
LEMMA Evictions ==
  ASSUME TypeInv, Placed, [Next]_vars, NEW p \in Procs, NEW s \in Registered(p),
         conn'[Conn[s]] = "open", conn[Conn[s]] = "open"
  PROVE  reg'[p][Sid[s]] = s \/ reg'[p][Sid[s]] \in opened' \ opened
<1>0. ClientType
  BY DEF TypeInv
<1>1. /\ s \in Sessions /\ reg[p][Sid[s]] = s /\ Home[Conn[s]] = p /\ Sid[s] \in Ids /\ Conn[s] \in Conns
      /\ s # None
  BY <1>0, FanoutAssumption DEF Registered, Placed, ClientType
<1>2. ASSUME NEW t \in Sessions, Accept(t)
      PROVE  reg'[p][Sid[s]] = s \/ reg'[p][Sid[s]] \in opened' \ opened
  <2>1. \A q \in Procs, i \in Ids :
          reg'[q][i] = IF q = Home[Conn[t]] /\ i = Sid[t] THEN t ELSE reg[q][i]
    BY <1>0, <1>2 DEF Accept, ClientType
  <2> QED BY <1>1, <1>2, <2>1 DEF Accept
<1>3. ASSUME NEW k \in Conns, ConnectionLost(k) PROVE reg'[p][Sid[s]] = s
  <2>1. k # Conn[s]
    BY <1>0, <1>3 DEF ConnectionLost, ClientType
  <2> QED BY <1>0, <1>1, <1>3, <2>1 DEF ConnectionLost, RemoveProtocolSessions, ClientType
<1>4. ASSUME NEW q \in Procs, NEW ticks, Broadcast(q, ticks) PROVE reg'[p][Sid[s]] = s
  BY <1>0, <1>1, <1>4, BroadcastEffects
<1>5. CASE FallBack
  BY <1>4, <1>5, FanoutAssumption DEF FallBack
<1>6. ASSUME NEW q \in Procs, FanOut(q) PROVE reg'[p][Sid[s]] = s
  BY <1>4, <1>6 DEF FanOut
<1>7. ASSUME NEW q \in Procs, Restart(q) PROVE reg'[p][Sid[s]] = s
  <2>1. q # p
    BY <1>1, <1>7 DEF Restart
  <2> QED BY <1>0, <1>1, <1>7, <2>1 DEF Restart, ClientType
<1>8. CASE \/ Publish \/ Xadd \/ Published \/ UNCHANGED vars
           \/ \E q \in Procs : Read(q) \/ ReadExpires(q) \/ ReadFails(q) \/ Wakes(q)
  BY <1>1, <1>8 DEF Publish, Xadd, Published, vars, Read, ReadExpires, ReadFails, Wakes, clients
<1> QED BY <1>2, <1>3, <1>5, <1>6, <1>7, <1>8 DEF Next

\* register, remove_protocol_sessions and broadcast: a session of a connection that
\* stays open is not unregistered for another connection.
THEOREM OnlyOwnerEvictsHolds == Spec => OnlyOwnerEvicts
<1>1. TypeInv /\ Placed /\ [Next]_vars =>
        [\A p \in Procs : \A s \in Registered(p) :
           conn'[Conn[s]] = "open" /\ conn[Conn[s]] = "open" =>
             \/ reg'[p][Sid[s]] = s
             \/ reg'[p][Sid[s]] \in opened' \ opened]_vars
  BY Evictions
<1> QED BY <1>1, PlacedHolds, PTL DEF Spec, OnlyOwnerEvicts
-----------------------------------------------------------------------------
\* Ticks in order.
Rises(q) == \A j \in 1..(Len(q) - 1) : q[j] < q[j + 1]

\* The stream has the ticks in order, and a tick that is being published is later.
LogRises ==
  /\ \A j, k \in 1..Len(log) : j < k => log[j] < log[k]
  /\ \A j \in 1..Len(log) : log[j] <= tick /\ (pub = "sent" => log[j] < tick)

\* Without a fallback a session has been sent nothing later than the last entry of
\* its consumer, and nothing at all before it was accepted.
Reached(p, s) ==
  got[s] # <<>> => con[p].warm /\ got[s][Len(got[s])] <= log[con[p].last]
InStep ==
  /\ \A s \in Sessions : Rises(got[s])
  /\ \A s \in Sessions \ opened : got[s] = <<>>
  /\ \A p \in Procs : \A s \in Registered(p) : Reached(p, s)

OrderInv == LogRises /\ (hist.fallbacks = 0 => InStep)

LEMMA OrderInit == Init => OrderInv
<1> SUFFICES ASSUME Init PROVE LogRises /\ InStep
  BY DEF OrderInv
<1>1. LogRises
  BY DEF Init, LogRises
<1>2. \A s \in Sessions : got[s] = <<>> /\ Rises(got[s])
  BY DEF Init, Rises
<1>3. \A p \in Procs : Registered(p) = {}
  BY DEF Init, Registered, NoSessions
<1> QED BY <1>1, <1>2, <1>3 DEF InStep, Reached

\* What comes behind rises on.
LEMMA RisesOn ==
  ASSUME NEW q \in Seq(Nat), NEW r \in Seq(Nat), Rises(q), Rises(r), r # <<>>,
         q # <<>> => q[Len(q)] < r[1]
  PROVE  /\ Rises(q \o r) /\ q \o r # <<>>
         /\ (q \o r)[Len(q \o r)] = r[Len(r)]
<1>1. Len(q) \in Nat /\ Len(r) \in Nat \ {0} /\ (q # <<>> => Len(q) > 0)
  BY EmptySeq, LenProperties
<1>2. /\ Len(q \o r) = Len(q) + Len(r) /\ q \o r \in Seq(Nat)
      /\ \A i \in 1..Len(q) + Len(r) : (q \o r)[i] = IF i <= Len(q) THEN q[i] ELSE r[i - Len(q)]
  BY ConcatProperties
<1>3. ASSUME NEW j \in 1..(Len(q \o r) - 1) PROVE (q \o r)[j] < (q \o r)[j + 1]
  <2>0. j \in Nat /\ j \in 1..Len(q) + Len(r) /\ j + 1 \in 1..Len(q) + Len(r)
    BY <1>1, <1>2
  <2>1. /\ (q \o r)[j] = IF j <= Len(q) THEN q[j] ELSE r[j - Len(q)]
        /\ (q \o r)[j + 1] = IF j + 1 <= Len(q) THEN q[j + 1] ELSE r[j + 1 - Len(q)]
    BY <1>2, <2>0
  <2>2. CASE j + 1 <= Len(q)
    BY <1>1, <2>0, <2>1, <2>2 DEF Rises
  <2>3. CASE j = Len(q)
    <3>1. q # <<>> /\ j + 1 - Len(q) = 1
      BY <1>1, <2>0, <2>3, EmptySeq
    <3> QED BY <1>1, <2>0, <2>1, <2>3, <3>1
  <2>4. CASE j > Len(q)
    <3>1. j - Len(q) \in 1..(Len(r) - 1) /\ j + 1 - Len(q) = (j - Len(q)) + 1
      BY <1>1, <1>2, <2>0, <2>4
    <3> QED BY <1>1, <2>0, <2>1, <2>4, <3>1 DEF Rises
  <2> QED BY <1>1, <2>0, <2>2, <2>3, <2>4
<1>4. Rises(q \o r)
  BY <1>3 DEF Rises
<1>5. (q \o r)[Len(q) + Len(r)] = r[Len(q) + Len(r) - Len(q)]
  BY <1>1, <1>2
<1>6. q \o r # <<>>
  BY <1>1, <1>2, EmptySeq
<1> QED BY <1>1, <1>2, <1>4, <1>5, <1>6

\* A batch is sent behind what its sessions have got.
LEMMA OrderFanOut ==
  ASSUME TypeInv, TailInv, Placed, LogRises, InStep, NEW p \in Procs, FanOut(p)
  PROVE  InStep'
<1> DEFINE i == Oldest(p)
<1>0. WireType /\ ConType /\ ClientType /\ Len(log) \in Nat
  BY LenProperties DEF TypeInv, WireType
<1>1. PICK n \in 1..Batch :
         /\ i \in 1..Len(log) /\ i + n - 1 \in 1..Len(log)
         /\ SubSeq(log, i, i + n - 1) \in Seq(Ticks)
         /\ Broadcast(p, SubSeq(log, i, i + n - 1))
         /\ con' = [con EXCEPT ![p] = [at |-> "ready", warm |-> TRUE, from |-> 0,
                                       last |-> i + n - 1]]
  BY <1>0, Fanned
<1> DEFINE batch == SubSeq(log, i, i + n - 1)
<1>2. n \in Nat \ {0} /\ i \in Nat \ {0} /\ i + n - 1 <= Len(log) /\ con[p].from + 1 <= i
      /\ con[p].at = "reading"
  <2>1. n \in Nat \ {0} /\ i \in Nat \ {0} /\ i + n - 1 <= Len(log)
    BY <1>0, <1>1, FanoutAssumption
  <2>2. con[p].from + 1 <= i
    BY <1>0 DEF Oldest, ConType, Consumers, WireType
  <2> QED BY <2>1, <2>2 DEF FanOut
<1>3. /\ batch \in Seq(Ticks) /\ Len(batch) = n
      /\ \A j \in 1..n : batch[j] = log[i + j - 1]
  BY <1>0, <1>2, Batches DEF WireType
<1>4. /\ con'[p].warm /\ con'[p].last = i + n - 1
      /\ \A q \in Procs \ {p} : con'[q] = con[q]
      /\ log' = log
  BY <1>0, <1>1, <1>2 DEF ConType, FanOut, wire
<1>5. PICK stale \in SUBSET Registered(p) :
         /\ \A q \in Procs, k \in Ids :
              reg'[q][k] = IF q = p /\ reg[p][k] \in stale THEN None ELSE reg[q][k]
         /\ \A s \in stale : s \in Sessions /\ conn'[Conn[s]] = "lost"
         /\ \A s \in Sessions : got'[s] = IF s \in Registered(p) \ stale
                                          THEN got[s] \o batch ELSE got[s]
         /\ opened' = opened
  <2>1. Broadcast(p, batch)
    BY <1>1
  <2> HIDE DEF batch
  <2> QED BY <1>0, <2>1, BroadcastEffects
<1>6. con[p].warm => con[p].from = con[p].last /\ con[p].last \in 1..Len(log)
  <2>1. Resumes(p) /\ seen[p] \in Seq(1..Len(log))
    BY <1>0 DEF TailInv, ConType
  <2> QED BY <1>2, <2>1, LenProperties, ElementOfSeq DEF Resumes
<1> HIDE DEF i, batch
<1>7. Rises(batch) /\ batch # <<>> /\ batch[1] = log[i] /\ batch[n] = log[i + n - 1]
  <2>1. \A j \in 1..(n - 1) : batch[j] < batch[j + 1]
    <3> SUFFICES ASSUME NEW j \in 1..(n - 1) PROVE batch[j] < batch[j + 1]
      OBVIOUS
    <3>1. batch[j] = log[i + j - 1] /\ batch[j + 1] = log[i + j]
      <4>1. j \in 1..n /\ j + 1 \in 1..n /\ i + (j + 1) - 1 = i + j
        BY <1>2
      <4> QED BY <1>3, <4>1
    <3>2. i + j - 1 \in 1..Len(log) /\ i + j \in 1..Len(log) /\ i + j - 1 < i + j
      BY <1>0, <1>2
    <3> QED BY <3>1, <3>2 DEF LogRises
  <2>2. batch[1] = log[i] /\ batch[n] = log[i + n - 1]
    BY <1>2, <1>3
  <2> QED BY <1>2, <1>3, <2>1, <2>2, EmptySeq DEF Rises
<1>8. Ticks \subseteq Nat /\ log \in Seq(Nat) /\ batch \in Seq(Nat) /\ \A s \in Sessions : got[s] \in Seq(Nat)
  BY <1>0, <1>3, FanoutAssumption, SeqMonotonic DEF Ticks, WireType, ClientType
<1>9. ASSUME NEW s \in Registered(p) \ stale
      PROVE  /\ Rises(got'[s]) /\ s \in Sessions
             /\ got'[s][Len(got'[s])] = log[i + n - 1]
  <2>0. s \in Sessions
    BY <1>0 DEF Registered, ClientType
  <2>1. got'[s] = got[s] \o batch /\ Reached(p, s) /\ Rises(got[s])
    BY <1>5, <2>0 DEF InStep
  <2>2. ASSUME got[s] # <<>> PROVE got[s][Len(got[s])] < batch[1]
    <3>1. got[s][Len(got[s])] <= log[con[p].last] /\ con[p].last \in 1..Len(log) /\ con[p].last < i
      <4>1. got[s][Len(got[s])] <= log[con[p].last] /\ con[p].last = con[p].from
            /\ con[p].last \in 1..Len(log)
        BY <1>6, <2>1, <2>2 DEF Reached
      <4> QED BY <1>0, <1>2, <4>1
    <3>2. i \in 1..Len(log)
      BY <1>0, <1>2
    <3>3. log[con[p].last] < log[i] /\ log[con[p].last] \in Nat /\ log[i] \in Nat
      BY <1>8, <3>1, <3>2, ElementOfSeq DEF LogRises
    <3>4. got[s][Len(got[s])] \in Nat
      <4>1. Len(got[s]) \in 1..Len(got[s])
        BY <1>8, <2>0, <2>2, EmptySeq
      <4> QED BY <1>8, <2>0, <4>1, ElementOfSeq
    <3> QED BY <1>7, <3>1, <3>3, <3>4
  <2>3. got[s] \in Seq(Nat) /\ batch \in Seq(Nat) /\ Rises(batch) /\ batch # <<>>
    BY <1>7, <1>8, <2>0
  <2>4. Rises(got[s] \o batch) /\ (got[s] \o batch)[Len(got[s] \o batch)] = batch[Len(batch)]
    BY <2>1, <2>2, <2>3, RisesOn
  <2> QED BY <1>3, <1>7, <2>0, <2>1, <2>4
<1>10. \A s \in Sessions : Rises(got'[s])
  BY <1>5, <1>9 DEF InStep
<1>11. Registered(p) \subseteq opened
  BY DEF Registered, Placed
<1>12. \A s \in Sessions \ opened' : got'[s] = <<>>
  BY <1>5, <1>11 DEF InStep
<1>13. Registered(p)' \subseteq Registered(p) \ stale
  BY <1>5 DEF Registered
<1>14. \A s \in Registered(p)' : Reached(p, s)'
  <2> SUFFICES ASSUME NEW s \in Registered(p)' PROVE Reached(p, s)'
    OBVIOUS
  <2>1. got'[s][Len(got'[s])] = log[i + n - 1] /\ i + n - 1 \in 1..Len(log)
    BY <1>0, <1>2, <1>9, <1>13
  <2>2. log[i + n - 1] \in Nat
    BY <1>8, <2>1, ElementOfSeq
  <2> QED BY <1>4, <2>1, <2>2 DEF Reached
<1>15. ASSUME NEW q \in Procs \ {p}, NEW s \in Registered(q)' PROVE Reached(q, s)'
  <2>1. s \in Registered(q) /\ s \in Sessions
    BY <1>0, <1>5, <1>15 DEF Registered, ClientType
  <2>2. s \notin Registered(p)
    BY <2>1 DEF Registered, Placed
  <2> QED BY <1>4, <1>5, <2>1, <2>2 DEF Reached, InStep
<1> QED BY <1>10, <1>12, <1>14, <1>15 DEF InStep

LEMMA OrderStep == TypeInv /\ TailInv /\ Placed /\ OrderInv /\ [Next]_vars => OrderInv'
<1> SUFFICES ASSUME TypeInv, TailInv, Placed, OrderInv, [Next]_vars PROVE OrderInv'
  OBVIOUS
<1>0. /\ WireType /\ Publishing /\ ConType /\ ClientType /\ hist \in Counts
      /\ Len(log) \in Nat /\ tick \in Nat /\ LogRises
  BY LenProperties, FanoutAssumption DEF TypeInv, WireType, OrderInv
<1>1. \A j \in 1..Len(log) : log[j] \in Nat
  BY <1>0, FanoutAssumption, ElementOfSeq DEF WireType, Ticks
<1>2. ASSUME UNCHANGED <<log, tick>>, pub' = "sent" => pub = "sent" PROVE LogRises'
  BY <1>0, <1>2 DEF LogRises
<1>3. ASSUME UNCHANGED <<got, opened>>, InStep,
             \A p \in Procs : \A s \in Registered(p)' :
               s \in Registered(p) /\ con'[p].warm = con[p].warm /\ con'[p].last = con[p].last,
             \A j \in 1..Len(log) : log'[j] = log[j]
      PROVE  InStep'
  <2>1. ASSUME NEW p \in Procs, NEW s \in Registered(p)' PROVE Reached(p, s)'
    <3>1. Reached(p, s) /\ con'[p].warm = con[p].warm /\ con'[p].last = con[p].last
      BY <1>3, <2>1 DEF InStep
    <3>2. con[p].warm => con[p].last \in 1..Len(log)
      <4>1. Resumes(p) /\ seen[p] \in Seq(1..Len(log))
        BY <1>0 DEF TailInv, ConType
      <4> QED BY <4>1, LenProperties, ElementOfSeq DEF Resumes
    <3> QED BY <1>3, <3>1, <3>2 DEF Reached
  <2> QED BY <1>3, <2>1 DEF InStep
<1>4. hist'.fallbacks = 0 => hist.fallbacks = 0
  <2>1. CASE FallBack
    <3>1. hist.fallbacks \in Nat
      BY <1>0, FanoutAssumption DEF Counts
    <3>2. hist'.fallbacks = hist.fallbacks + 1
      BY <1>0, <2>1 DEF FallBack, Counts
    <3> QED BY <3>1, <3>2
  <2>2. CASE \E p \in Procs : ReadFails(p) \/ Restart(p)
    BY <1>0, <2>2 DEF ReadFails, Restart, Counts
  <2>3. CASE UNCHANGED hist
    BY <2>3
  <2> QED BY <2>1, <2>2, <2>3 DEF Next, Accept, ConnectionLost, Publish, Xadd, Published, Read,
       FanOut, ReadExpires, Wakes, vars
<1>5. ASSUME NEW s \in Sessions, Accept(s) PROVE OrderInv'
  <2>1. LogRises'
    BY <1>2, <1>5 DEF Accept, wire
  <2>2. ASSUME InStep PROVE InStep'
    <3>1. got[s] = <<>> /\ UNCHANGED <<got, con, log>> /\ opened' = opened \cup {s}
      BY <1>5, <2>2 DEF Accept, InStep, wire
    <3>2. \A p \in Procs : Registered(p)' \subseteq Registered(p) \cup {s}
      BY <1>0, <1>5 DEF Accept, Registered, ClientType
    <3> QED BY <2>2, <3>1, <3>2 DEF InStep, Reached
  <2> QED BY <1>4, <2>1, <2>2 DEF OrderInv
<1>6. ASSUME NEW k \in Conns, ConnectionLost(k) PROVE OrderInv'
  <2>1. LogRises'
    BY <1>2, <1>6 DEF ConnectionLost, wire
  <2>2. \A p \in Procs : Registered(p)' \subseteq Registered(p)
    BY <1>0, <1>6, FanoutAssumption DEF ConnectionLost, RemoveProtocolSessions, Registered, ClientType
  <2>3. InStep => InStep'
    BY <1>3, <1>6, <2>2 DEF ConnectionLost, wire
  <2> QED BY <1>4, <2>1, <2>3 DEF OrderInv
<1>7. CASE Publish
  <2>1. LogRises'
    BY <1>0, <1>1, <1>7 DEF Publish, LogRises
  <2>2. InStep => InStep'
    BY <1>3, <1>7 DEF Publish, clients, Registered
  <2> QED BY <1>4, <2>1, <2>2 DEF OrderInv
<1>8. CASE Xadd
  <2>1. /\ log' = Append(log, tick) /\ pub = "sent" /\ pub' = "applied"
        /\ UNCHANGED <<tick, con, clients, got, seen, joined, hist>>
    BY <1>8 DEF Xadd
  <2>2. /\ Len(log') = Len(log) + 1 /\ log'[Len(log) + 1] = tick
        /\ \A j \in 1..Len(log) : log'[j] = log[j]
    BY <1>0, <2>1 DEF WireType
  <2>3. LogRises'
    <3>1. \A j \in 1..Len(log') : j \in 1..Len(log) \/ j = Len(log) + 1
      BY <1>0, <2>2
    <3>2. \A j \in 1..Len(log) : log[j] < tick
      BY <1>0, <2>1 DEF LogRises
    <3>3. \A j \in 1..Len(log') : log'[j] <= tick
      BY <1>0, <1>1, <2>2, <3>1, <3>2
    <3>4. ASSUME NEW j \in 1..Len(log'), NEW k \in 1..Len(log'), j < k PROVE log'[j] < log'[k]
      <4>1. j \in 1..Len(log)
        BY <1>0, <2>2, <3>4
      <4> QED BY <1>0, <2>2, <3>1, <3>2, <3>4, <4>1 DEF LogRises
    <3> QED BY <2>1, <3>3, <3>4 DEF LogRises
  <2>4. InStep => InStep'
    BY <1>3, <2>1, <2>2 DEF clients, Registered
  <2> QED BY <1>4, <2>3, <2>4 DEF OrderInv
<1>9. CASE Published
  BY <1>2, <1>3, <1>4, <1>9 DEF Published, clients, Registered, OrderInv
<1>10. CASE FallBack
  <2>1. LogRises'
    BY <1>2, <1>10 DEF FallBack
  <2>2. hist'.fallbacks # 0
    <3>1. hist.fallbacks \in Nat
      BY <1>0, FanoutAssumption DEF Counts
    <3>2. hist'.fallbacks = hist.fallbacks + 1
      BY <1>0, <1>10 DEF FallBack, Counts
    <3> QED BY <3>1, <3>2
  <2> QED BY <2>1, <2>2 DEF OrderInv
<1>11. ASSUME NEW p \in Procs, FanOut(p) PROVE OrderInv'
  <2>1. LogRises'
    BY <1>2, <1>11 DEF FanOut, wire
  <2> QED BY <1>0, <1>4, <1>11, <2>1, OrderFanOut DEF OrderInv
<1>12. ASSUME NEW p \in Procs, Read(p) \/ ReadExpires(p) \/ ReadFails(p) \/ Wakes(p)
       PROVE  OrderInv'
  <2>1. UNCHANGED <<wire, clients, got>>
    BY <1>12 DEF Read, ReadExpires, ReadFails, Wakes
  <2>2. \A q \in Procs : con'[q].warm = con[q].warm /\ con'[q].last = con[q].last
    <3>1. \A q \in Procs \ {p} : con'[q] = con[q]
      BY <1>0, <1>12 DEF Read, ReadExpires, ReadFails, Wakes, ConType
    <3>2. CASE Read(p)
      BY <1>0, <3>1, <3>2 DEF Read, ConType, Consumers
    <3>3. CASE ReadExpires(p) \/ ReadFails(p) \/ Wakes(p)
      <4>1. con'[p].warm = con[p].warm /\ con'[p].last = con[p].last
        BY <1>0, <3>3 DEF ReadExpires, ReadFails, Wakes, ConType, Consumers
      <4> QED BY <3>1, <4>1
    <3> QED BY <1>12, <3>2, <3>3
  <2>3. LogRises' /\ (InStep => InStep')
    BY <1>2, <1>3, <2>1, <2>2 DEF wire, clients, Registered
  <2> QED BY <1>4, <2>3 DEF OrderInv
<1>13. ASSUME NEW p \in Procs, Restart(p) PROVE OrderInv'
  <2>1. UNCHANGED <<wire, opened, got>>
    BY <1>13 DEF Restart
  <2>2. \A q \in Procs : \A s \in Registered(q)' : q # p /\ s \in Registered(q) /\ con'[q] = con[q]
    BY <1>0, <1>13 DEF Restart, Registered, ClientType, NoSessions, ConType
  <2>3. LogRises' /\ (InStep => InStep')
    BY <1>2, <1>3, <2>1, <2>2 DEF wire
  <2> QED BY <1>4, <2>3 DEF OrderInv
<1>14. CASE UNCHANGED vars
  BY <1>2, <1>3, <1>4, <1>14 DEF vars, wire, clients, Registered, OrderInv
<1> QED BY <1>5, <1>6, <1>7, <1>8, <1>9, <1>10, <1>11, <1>12, <1>13, <1>14 DEF Next

\* publish_tick, _consume_stream and broadcast: through the stream, a session is
\* sent ticks in order; only a tick broadcast without it can be out of order.
THEOREM DisorderNeedsFallbackHolds == Spec => []DisorderNeedsFallback
<1>1. OrderInv => DisorderNeedsFallback
  BY DEF OrderInv, InStep, Rises, DisorderNeedsFallback
<1>2. Spec => []OrderInv
  BY TypeInit, TypeStep, TailInit, TailStep, PlacedInit, PlacedStep, OrderInit, OrderStep, PTL DEF Spec
<1> QED BY <1>1, <1>2, PTL
-----------------------------------------------------------------------------
LEMMA GhostStep == TypeInv /\ Placed /\ NoGhostSessions /\ [Next]_vars => NoGhostSessions'
<1> SUFFICES ASSUME TypeInv, Placed, NoGhostSessions, [Next]_vars PROVE NoGhostSessions'
  OBVIOUS
<1>0. /\ ClientType
      /\ \A q \in Procs : \A s \in Registered(q) :
           s \in Sessions /\ Conn[s] \in Conns /\ Home[Conn[s]] = q /\ conn[Conn[s]] # "lost"
  BY FanoutAssumption DEF TypeInv, ClientType, Registered, NoGhostSessions
<1>1. ASSUME \A q \in Procs : \A s \in Registered(q)' :
               s \in Registered(q) /\ conn'[Conn[s]] = conn[Conn[s]]
      PROVE  NoGhostSessions'
  BY <1>0, <1>1 DEF NoGhostSessions
<1>2. ASSUME NEW s \in Sessions, Accept(s) PROVE NoGhostSessions'
  <2>1. \A q \in Procs, i \in Ids :
          reg'[q][i] = IF q = Home[Conn[s]] /\ i = Sid[s] THEN s ELSE reg[q][i]
    BY <1>0, <1>2 DEF Accept, ClientType
  <2>2. \A q \in Procs : \A t \in Registered(q)' :
          t \in Registered(q) \/ (t = s /\ q = Home[Conn[s]])
    BY <2>1 DEF Registered
  <2>3. \A k \in Conns : conn'[k] = IF k = Conn[s] THEN "open" ELSE conn[k]
    BY <1>0, <1>2, FanoutAssumption DEF Accept, ClientType
  <2>4. Conn[s] \in Conns
    BY FanoutAssumption
  <2> QED BY <1>0, <2>2, <2>3, <2>4 DEF NoGhostSessions
<1>3. ASSUME NEW k \in Conns, ConnectionLost(k) PROVE NoGhostSessions'
  <2>1. \A q \in Procs : \A s \in Registered(q)' : s \in Registered(q) /\ Conn[s] # k
    <3> SUFFICES ASSUME NEW q \in Procs, NEW s \in Registered(q)'
                 PROVE  s \in Registered(q) /\ Conn[s] # k
      OBVIOUS
    <3>1. reg' = [reg EXCEPT ![Home[k]] = RemoveProtocolSessions(reg[Home[k]], k)]
      BY <1>3 DEF ConnectionLost
    <3>2. CASE q = Home[k]
      <4>1. \A i \in Ids : reg'[q][i] = IF reg[q][i] # None /\ Conn[reg[q][i]] = k
                                        THEN None ELSE reg[q][i]
        BY <1>0, <3>1, <3>2 DEF RemoveProtocolSessions, ClientType
      <4> QED BY <4>1 DEF Registered
    <3>3. CASE q # Home[k]
      <4>1. reg'[q] = reg[q]
        BY <1>0, <3>1, <3>3 DEF ClientType
      <4>2. s \in Registered(q)
        BY <4>1 DEF Registered
      <4> QED BY <1>0, <3>3, <4>2
    <3> QED BY <3>2, <3>3
  <2>2. \A s \in Sessions : Conn[s] # k => conn'[Conn[s]] = conn[Conn[s]]
    BY <1>0, <1>3, FanoutAssumption DEF ConnectionLost, ClientType
  <2> QED BY <1>0, <1>1, <2>1, <2>2
<1>4. ASSUME NEW p \in Procs, NEW ticks, Broadcast(p, ticks) PROVE NoGhostSessions'
  <2>1. PICK stale \in SUBSET Registered(p) :
           /\ \A q \in Procs, i \in Ids :
                reg'[q][i] = IF q = p /\ reg[p][i] \in stale THEN None ELSE reg[q][i]
           /\ \A t \in Sessions : (\A s \in stale : Conn[s] # Conn[t]) => conn'[Conn[t]] = conn[Conn[t]]
           /\ \A s \in stale, t \in Registered(p) : Conn[s] = Conn[t] => t \in stale
    BY <1>0, <1>4, BroadcastEffects
  <2> SUFFICES ASSUME NEW q \in Procs, NEW t \in Registered(q)'
               PROVE  t \in Registered(q) /\ conn'[Conn[t]] = conn[Conn[t]]
    BY <1>1
  <2>2. t \in Registered(q) /\ (q = p => t \notin stale)
    BY <2>1 DEF Registered
  <2>3. \A s \in stale : Conn[s] # Conn[t]
    BY <1>0, <2>1, <2>2
  <2> QED BY <1>0, <2>1, <2>2, <2>3
<1>5. CASE FallBack
  BY <1>4, <1>5, FanoutAssumption DEF FallBack
<1>6. ASSUME NEW p \in Procs, FanOut(p) PROVE NoGhostSessions'
  BY <1>4, <1>6 DEF FanOut
<1>7. ASSUME NEW p \in Procs, Restart(p) PROVE NoGhostSessions'
  <2>1. \A q \in Procs : \A s \in Registered(q)' : q # p /\ s \in Registered(q)
    BY <1>0, <1>7 DEF Restart, Registered, ClientType, NoSessions
  <2>2. \A k \in Conns : Home[k] # p => conn'[k] = conn[k]
    BY <1>7 DEF Restart
  <2> QED BY <1>0, <1>1, <2>1, <2>2
<1>8. CASE \/ Publish \/ Xadd \/ Published \/ UNCHANGED vars
           \/ \E p \in Procs : Read(p) \/ ReadExpires(p) \/ ReadFails(p) \/ Wakes(p)
  BY <1>1, <1>8 DEF Publish, Xadd, Published, vars, Read, ReadExpires, ReadFails, Wakes, clients,
                    Registered
<1> QED BY <1>2, <1>3, <1>5, <1>6, <1>7, <1>8 DEF Next

\* connection_lost, broadcast and the registry: however its connection ended, and
\* whoever took over its stream id, no session outlives its connection in a registry.
THEOREM NoGhostSessionsHolds == Spec => []NoGhostSessions
<1>1. Init => NoGhostSessions
  BY DEF Init, NoGhostSessions, Registered, NoSessions
<1> QED BY <1>1, PlacedHolds, GhostStep, PTL DEF Spec
-----------------------------------------------------------------------------
\* Ticks sent twice.

\* What a sequence holds, counted.
Elements(q) == {q[j] : j \in 1..Len(q)}

LEMMA ElementsCount ==
  ASSUME NEW q \in Seq(Nat)
  PROVE  /\ IsFiniteSet(Elements(q)) /\ Cardinality(Elements(q)) \in Nat
         /\ (\A j, k \in 1..Len(q) : j < k => q[j] < q[k]) => Cardinality(Elements(q)) = Len(q)
<1> DEFINE T == Elements(q)
<1>1. Len(q) \in Nat /\ q \in [1..Len(q) -> T]
  <2>1. Len(q) \in Nat /\ q \in [1..Len(q) -> Nat]
    BY LenProperties
  <2> QED BY <2>1 DEF Elements
<1>2. IsFiniteSet(1..Len(q)) /\ Cardinality(1..Len(q)) = Len(q)
  <2>1. 1 \in Int /\ Len(q) \in Int
    BY <1>1
  <2> QED BY <1>1, <2>1, FS_Interval
<1>3. q \in Surjection(1..Len(q), T)
  BY <1>1 DEF Surjection, Elements
<1>4. /\ IsFiniteSet(T)
      /\ Cardinality(T) = Cardinality(1..Len(q)) <=> q \in Injection(1..Len(q), T)
  BY <1>2, <1>3, FS_Surjection
<1>5. ASSUME \A j, k \in 1..Len(q) : j < k => q[j] < q[k]
      PROVE  q \in Injection(1..Len(q), T)
  <2>1. \A j \in 1..Len(q) : q[j] \in Nat /\ j \in Nat
    BY <1>1, ElementOfSeq
  <2>2. \A j, k \in 1..Len(q) : q[j] = q[k] => j = k
    BY <1>5, <2>1
  <2> QED BY <1>1, <2>2 DEF Injection, IsInjective
<1> QED BY <1>2, <1>4, <1>5, FS_CardinalityType

LEMMA ElementsJoin ==
  ASSUME NEW q \in Seq(Nat), NEW r \in Seq(Nat)
  PROVE  /\ Elements(q \o r) = Elements(q) \cup Elements(r)
         /\ Len(q \o r) = Len(q) + Len(r) /\ Len(q) \in Nat /\ Len(r) \in Nat
<1>1. /\ Len(q) \in Nat /\ Len(r) \in Nat /\ Len(q \o r) = Len(q) + Len(r)
      /\ \A j \in 1..Len(q) + Len(r) : (q \o r)[j] = IF j <= Len(q) THEN q[j] ELSE r[j - Len(q)]
  BY LenProperties, ConcatProperties
<1>2. ASSUME NEW j \in 1..Len(q) PROVE q[j] \in Elements(q \o r)
  <2>1. j \in 1..Len(q) + Len(r) /\ j <= Len(q)
    BY <1>1
  <2> QED BY <1>1, <2>1 DEF Elements
<1>3. ASSUME NEW j \in 1..Len(r) PROVE r[j] \in Elements(q \o r)
  <2>1. Len(q) + j \in 1..Len(q) + Len(r) /\ ~(Len(q) + j <= Len(q)) /\ Len(q) + j - Len(q) = j
    BY <1>1
  <2>2. (q \o r)[Len(q) + j] = r[j]
    BY <1>1, <2>1
  <2> QED BY <1>1, <2>1, <2>2 DEF Elements
<1>4. ASSUME NEW j \in 1..Len(q) + Len(r) PROVE (q \o r)[j] \in Elements(q) \cup Elements(r)
  <2>1. CASE j <= Len(q)
    <3>1. j \in 1..Len(q)
      BY <1>1, <2>1
    <3> QED BY <1>1, <2>1, <3>1 DEF Elements
  <2>2. CASE ~(j <= Len(q))
    <3>1. j - Len(q) \in 1..Len(r)
      BY <1>1, <2>2
    <3> QED BY <1>1, <2>2, <3>1 DEF Elements
  <2> QED BY <2>1, <2>2
<1> QED BY <1>1, <1>2, <1>3, <1>4 DEF Elements

\* What is sent besides, and was to come before, adds to what is there for good.
LEMMA Besides ==
  ASSUME NEW R, NEW W, NEW B, NEW V, IsFiniteSet(R), IsFiniteSet(B),
         B \cap (R \ W) = {}, V \subseteq W, B \cap V = {}
  PROVE  /\ Cardinality((R \cup B) \ V) >= Cardinality(R \ W) + Cardinality(B)
         /\ Cardinality(R \ W) \in Nat /\ Cardinality(B) \in Nat
         /\ Cardinality((R \cup B) \ V) \in Nat
<1> DEFINE S == R \ W  T == (R \cup B) \ V
<1>1. IsFiniteSet(S) /\ IsFiniteSet(T)
  <2>1. IsFiniteSet(R \cup B)
    BY FS_Union
  <2>2. S \subseteq R /\ T \subseteq R \cup B
    OBVIOUS
  <2> QED BY <2>1, <2>2, FS_Subset
<1>2. S \cup B \subseteq T /\ S \cap B = {}
  OBVIOUS
<1>3. IsFiniteSet(S \cup B) /\ Cardinality(S \cup B) = Cardinality(S) + Cardinality(B) - Cardinality(S \cap B)
  BY <1>1, FS_Union
<1>4. Cardinality(S \cap B) = 0
  BY <1>2, FS_EmptySet
<1>5. Cardinality(S \cup B) <= Cardinality(T)
  BY <1>1, <1>2, FS_Subset
<1>6. /\ Cardinality(S) \in Nat /\ Cardinality(B) \in Nat /\ Cardinality(T) \in Nat
      /\ Cardinality(S \cup B) \in Nat
  BY <1>1, <1>3, FS_CardinalityType
<1> HIDE DEF S, T
<1>7. Cardinality(T) >= Cardinality(S) + Cardinality(B)
  BY <1>3, <1>4, <1>5, <1>6
<1> QED BY <1>6, <1>7 DEF S, T

\* The ticks that the consumer of p has still to read, of those in the stream.
Due(p) == {log[j] : j \in {k \in 1..Len(log) : con[p].warm => con[p].last < k}}

\* Whatever a session was sent beyond the ticks its consumer will not read again was
\* paid for by a lost answer, already when the tick is broadcast instead.
Paid(q, due, lost) == Len(q) <= Cardinality(Elements(q) \ due) + lost
RepeatInv ==
  /\ \A s \in Sessions \ opened : got[s] = <<>>
  /\ \A s \in Sessions : \A t \in Elements(got[s]) : t <= tick /\ (pub = "sent" => t < tick)
  /\ \A s \in Sessions : Paid(got[s], {}, hist.lostAcks)
  /\ \A p \in Procs : \A s \in Registered(p) : Paid(got[s], Due(p), hist.lostAcks)

LEMMA PaidLess ==
  ASSUME NEW q \in Seq(Nat), NEW due, NEW less, NEW lost \in Nat, NEW more \in Nat,
         less \cap Elements(q) \subseteq due, lost <= more, Paid(q, due, lost)
  PROVE  Paid(q, less, more)
<1> DEFINE S == Elements(q) \ due  T == Elements(q) \ less
<1>1. IsFiniteSet(T) /\ S \subseteq T
  <2>1. T \subseteq Elements(q)
    OBVIOUS
  <2> QED BY <2>1, ElementsCount, FS_Subset
<1>2. Cardinality(S) \in Nat /\ Cardinality(T) \in Nat /\ Cardinality(S) <= Cardinality(T)
  BY <1>1, FS_Subset, FS_CardinalityType
<1>3. Len(q) \in Nat /\ Len(q) <= Cardinality(S) + lost
  BY LenProperties DEF Paid
<1> HIDE DEF S, T
<1>4. Len(q) <= Cardinality(T) + more
  BY <1>2, <1>3
<1> QED BY <1>4 DEF Paid, T

\* A batch that was due, and is not any more, is paid for.
LEMMA PaidBatch ==
  ASSUME NEW q \in Seq(Nat), NEW r \in Seq(Nat), NEW due, NEW less, NEW lost \in Nat,
         Paid(q, due, lost), Cardinality(Elements(r)) = Len(r),
         Elements(r) \cap (Elements(q) \ due) = {}, less \subseteq due, Elements(r) \cap less = {}
  PROVE  Paid(q \o r, less, lost)
<1> DEFINE S == Elements(q) \ due  T == (Elements(q) \cup Elements(r)) \ less
<1>1. /\ Cardinality(T) >= Cardinality(S) + Cardinality(Elements(r))
      /\ Cardinality(S) \in Nat /\ Cardinality(T) \in Nat
  BY ElementsCount, Besides
<1>2. Elements(q \o r) = Elements(q) \cup Elements(r) /\ Len(q \o r) = Len(q) + Len(r)
      /\ Len(q) \in Nat /\ Len(r) \in Nat
  BY ElementsJoin
<1>3. Len(q) <= Cardinality(S) + lost
  BY DEF Paid
<1> HIDE DEF S, T
<1>4. Len(q) + Len(r) <= Cardinality(T) + lost
  BY <1>1, <1>2, <1>3
<1> QED BY <1>2, <1>4 DEF Paid, T

\* So is one more tick that a lost answer accounts for.
LEMMA PaidAgain ==
  ASSUME NEW q \in Seq(Nat), NEW r \in Seq(Nat), Len(r) = 1, NEW due, NEW lost \in Nat,
         Paid(q, due, lost)
  PROVE  Paid(q \o r, due, lost + 1)
<1> DEFINE S == Elements(q) \ due  T == (Elements(q) \cup Elements(r)) \ due
<1>1. Elements(q \o r) = Elements(q) \cup Elements(r) /\ Len(q \o r) = Len(q) + 1 /\ Len(q) \in Nat
  BY ElementsJoin
<1>2. IsFiniteSet(T) /\ S \subseteq T
  <2>1. IsFiniteSet(Elements(q) \cup Elements(r))
    BY ElementsCount, FS_Union
  <2>2. T \subseteq Elements(q) \cup Elements(r) /\ S \subseteq T
    OBVIOUS
  <2> QED BY <2>1, <2>2, FS_Subset
<1>3. Cardinality(S) \in Nat /\ Cardinality(T) \in Nat /\ Cardinality(S) <= Cardinality(T)
  BY <1>2, FS_Subset, FS_CardinalityType
<1>4. Len(q) <= Cardinality(S) + lost
  BY DEF Paid
<1> HIDE DEF S, T
<1>5. Len(q) + 1 <= Cardinality(T) + (lost + 1)
  BY <1>1, <1>3, <1>4
<1> QED BY <1>1, <1>5 DEF Paid, T

LEMMA RepeatInit == Init => RepeatInv
<1> SUFFICES ASSUME Init PROVE RepeatInv
  OBVIOUS
<1>1. \A s \in Sessions : got[s] = <<>> /\ Elements(got[s]) = {}
  <2>1. \A s \in Sessions : got[s] = <<>> /\ Len(got[s]) = 0
    BY DEF Init
  <2> QED BY <2>1 DEF Elements
<1>2. Cardinality({}) = 0 /\ hist.lostAcks = 0
  BY FS_EmptySet DEF Init
<1>3. ASSUME NEW s \in Sessions PROVE Paid(got[s], {}, hist.lostAcks)
  <2>1. Elements(got[s]) \ {} = {} /\ Len(got[s]) = 0
    BY <1>1
  <2>2. Cardinality(Elements(got[s]) \ {}) = 0
    BY <1>2, <2>1, Zenon
  <2>3. Len(got[s]) <= Cardinality(Elements(got[s]) \ {}) + hist.lostAcks
    BY <1>2, <2>1, <2>2
  <2> QED BY <2>3 DEF Paid
<1>4. \A p \in Procs : Registered(p) = {}
  BY DEF Init, Registered, NoSessions
<1> QED BY <1>1, <1>3, <1>4 DEF RepeatInv

\* Nothing is sent, and consumers stay where they are.
LEMMA RepeatFrame ==
  ASSUME TypeInv, RepeatInv, UNCHANGED got, opened \subseteq opened',
         tick' >= tick, tick' \in Nat, pub' = "sent" => pub = "sent" \/ tick' > tick,
         hist'.lostAcks = hist.lostAcks,
         \A p \in Procs : \A s \in Registered(p)' :
           s \in Registered(p) /\ Due(p)' \cap Elements(got[s]) \subseteq Due(p)
  PROVE  RepeatInv'
<1>1. /\ \A s \in Sessions : got[s] \in Seq(Nat)
      /\ hist.lostAcks \in Nat /\ tick \in Nat
      /\ \A p \in Procs : Registered(p) \subseteq Sessions
  <2>1. Seq(Ticks) \subseteq Seq(Nat)
    BY FanoutAssumption, SeqMonotonic DEF Ticks
  <2> QED BY <2>1, FanoutAssumption DEF TypeInv, ClientType, WireType, Counts, Registered
<1>2. \A s \in Sessions : \A t \in Elements(got[s]) : t \in Nat
  BY <1>1, ElementOfSeq DEF Elements
<1>3. ASSUME NEW s \in Sessions, NEW t \in Elements(got[s])
      PROVE  t <= tick' /\ (pub' = "sent" => t < tick')
  <2>1. t \in Nat /\ t <= tick /\ (pub = "sent" => t < tick)
    BY <1>2, <1>3 DEF RepeatInv
  <2> QED BY <1>1, <2>1
<1>4. ASSUME NEW p \in Procs, NEW s \in Registered(p)'
      PROVE  Paid(got[s], Due(p)', hist.lostAcks)
  <2>1. Paid(got[s], Due(p), hist.lostAcks) /\ got[s] \in Seq(Nat) /\ Due(p)' \cap Elements(got[s]) \subseteq Due(p)
    BY <1>1, <1>4 DEF RepeatInv
  <2> DEFINE due == Due(p)'
  <2>2. due \cap Elements(got[s]) \subseteq Due(p)
    BY <2>1
  <2>3. hist.lostAcks <= hist.lostAcks
    BY <1>1
  <2> HIDE DEF due
  <2>4. Paid(got[s], due, hist.lostAcks)
    BY <1>1, <2>1, <2>2, <2>3, PaidLess
  <2> QED BY <2>4 DEF due
<1>5. \A s \in Sessions : Paid(got'[s], {}, hist'.lostAcks)
  BY DEF RepeatInv
<1>6. \A s \in Sessions \ opened' : got'[s] = <<>>
  BY DEF RepeatInv
<1> QED BY <1>3, <1>4, <1>5, <1>6 DEF RepeatInv

\* The tick is broadcast where the world runs: once more, if its XADD was applied.
LEMMA RepeatFallBack == TypeInv /\ Placed /\ LogRises /\ RepeatInv /\ FallBack => RepeatInv'
<1> SUFFICES ASSUME TypeInv, Placed, LogRises, RepeatInv, FallBack PROVE RepeatInv'
  OBVIOUS
<1>0. /\ WireType /\ Publishing /\ ConType /\ ClientType /\ hist \in Counts /\ Faulty
      /\ World \in Procs /\ tick \in Nat /\ hist.lostAcks \in Nat
  BY FanoutAssumption DEF TypeInv, WireType, Counts
<1>1. <<tick>> \in Seq(Nat) /\ Len(<<tick>>) = 1 /\ Elements(<<tick>>) = {tick}
  <2>1. <<tick>> \in Seq(Nat) /\ Len(<<tick>>) = 1 /\ <<tick>>[1] = tick
    BY <1>0
  <2> QED BY <2>1 DEF Elements
<1>2. \A s \in Sessions : got[s] \in Seq(Nat) /\ \A t \in Elements(got[s]) : t \in Nat
  <2>1. Seq(Ticks) \subseteq Seq(Nat)
    BY FanoutAssumption, SeqMonotonic DEF Ticks
  <2> QED BY <1>0, <2>1, ElementOfSeq DEF ClientType, Elements
<1>3. PICK stale \in SUBSET Registered(World) :
         /\ \A q \in Procs, i \in Ids :
              reg'[q][i] = IF q = World /\ reg[World][i] \in stale THEN None ELSE reg[q][i]
         /\ \A s \in Sessions : got'[s] = IF s \in Registered(World) \ stale
                                          THEN got[s] \o <<tick>> ELSE got[s]
         /\ opened' = opened
  <2>1. Broadcast(World, <<tick>>)
    BY DEF FallBack
  <2> QED BY <1>0, <2>1, BroadcastEffects
<1>4. pub' = "idle" /\ UNCHANGED <<log, first, tick, con>> /\ pub \in {"sent", "applied"}
  BY DEF FallBack
<1>5. hist'.lostAcks = IF pub = "applied" THEN hist.lostAcks + 1 ELSE hist.lostAcks
  BY <1>0 DEF FallBack, Counts
<1>6. \A p \in Procs : Due(p)' = Due(p)
  BY <1>4 DEF Due
<1>7. \A p \in Procs : \A s \in Registered(p)' :
        s \in Registered(p) /\ s \in Sessions /\ (p = World => s \notin stale)
        /\ (p # World => s \notin Registered(World))
  BY <1>0, <1>3 DEF Registered, ClientType, Placed
<1>8. Registered(World) \subseteq opened
  BY <1>0 DEF Registered, Placed
<1>9. \A s \in Sessions \ opened' : got'[s] = <<>>
  BY <1>3, <1>8 DEF RepeatInv
<1>10. ASSUME NEW s \in Sessions, NEW t \in Elements(got'[s]) PROVE t <= tick'
  <2>1. Elements(got[s] \o <<tick>>) = Elements(got[s]) \cup {tick}
    BY <1>1, <1>2, ElementsJoin
  <2>2. t \in Elements(got[s]) \/ t = tick
    BY <1>3, <1>10, <2>1
  <2>3. t \in Elements(got[s]) => t <= tick
    BY DEF RepeatInv
  <2> QED BY <1>0, <1>4, <2>2, <2>3
<1>11. ASSUME NEW s \in Sessions, NEW due, Paid(got[s], due, hist.lostAcks),
              pub = "sent" => tick \notin due
       PROVE  Paid(got'[s], due, hist'.lostAcks)
  <2>1. CASE got'[s] = got[s]
    <3>1. hist'.lostAcks \in Nat /\ hist.lostAcks <= hist'.lostAcks
      BY <1>0, <1>5
    <3>2. due \cap Elements(got[s]) \subseteq due
      OBVIOUS
    <3> DEFINE more == hist'.lostAcks
    <3> HIDE DEF more
    <3>3. Paid(got[s], due, more)
      BY <1>0, <1>2, <1>11, <3>1, <3>2, PaidLess DEF more
    <3> QED BY <2>1, <3>3 DEF more
  <2>2. CASE got'[s] = got[s] \o <<tick>> /\ pub = "applied"
    <3>1. Paid(got[s] \o <<tick>>, due, hist.lostAcks + 1)
      BY <1>0, <1>1, <1>2, <1>11, PaidAgain
    <3> QED BY <1>5, <2>2, <3>1
  <2>3. CASE got'[s] = got[s] \o <<tick>> /\ pub = "sent"
    <3>1. tick \notin Elements(got[s])
      <4>1. \A t \in Elements(got[s]) : t < tick
        BY <2>3 DEF RepeatInv
      <4> QED BY <1>0, <4>1
    <3>2. Cardinality({tick}) = 1
      BY FS_Singleton
    <3>3. {tick} \cap due = {} /\ {tick} \cap (Elements(got[s]) \ due) = {} /\ due \subseteq due
      BY <1>11, <2>3, <3>1
    <3>4. Paid(got[s] \o <<tick>>, due, hist.lostAcks)
      BY <1>0, <1>1, <1>2, <1>11, <3>2, <3>3, PaidBatch
    <3> QED BY <1>5, <2>3, <3>4
  <2> QED BY <1>3, <1>4, <2>1, <2>2, <2>3
<1>12. \A s \in Sessions : Paid(got'[s], {}, hist'.lostAcks)
  BY <1>11 DEF RepeatInv
<1>13. ASSUME NEW p \in Procs, NEW s \in Registered(p)' PROVE Paid(got'[s], Due(p)', hist'.lostAcks)
  <2>1. Paid(got[s], Due(p), hist.lostAcks) /\ s \in Sessions
    BY <1>7, <1>13 DEF RepeatInv
  <2>2. pub = "sent" => tick \notin Due(p)
    BY <1>0 DEF Due, LogRises
  <2>3. Paid(got'[s], Due(p), hist'.lostAcks)
    BY <1>11, <2>1, <2>2
  <2> QED BY <1>6, <2>3
<1> QED BY <1>4, <1>9, <1>10, <1>12, <1>13 DEF RepeatInv

\* A batch comes from what is due, and is not due any more.
LEMMA RepeatFanOut ==
  ASSUME TypeInv, TailInv, Placed, LogRises, RepeatInv, NEW p \in Procs, FanOut(p)
  PROVE  RepeatInv'
<1> DEFINE i == Oldest(p)
<1>0. /\ WireType /\ ConType /\ ClientType /\ Len(log) \in Nat /\ hist \in Counts
      /\ tick \in Nat /\ hist.lostAcks \in Nat
  BY LenProperties, FanoutAssumption DEF TypeInv, WireType, Counts
<1>1. PICK n \in 1..Batch :
         /\ i \in 1..Len(log) /\ i + n - 1 \in 1..Len(log)
         /\ SubSeq(log, i, i + n - 1) \in Seq(Ticks)
         /\ Broadcast(p, SubSeq(log, i, i + n - 1))
         /\ con' = [con EXCEPT ![p] = [at |-> "ready", warm |-> TRUE, from |-> 0,
                                       last |-> i + n - 1]]
  BY <1>0, Fanned
<1> DEFINE batch == SubSeq(log, i, i + n - 1)
<1>2. n \in Nat \ {0} /\ i \in Nat \ {0} /\ i + n - 1 <= Len(log) /\ i + n - 1 \in Nat
      /\ con[p].from + 1 <= i /\ con[p].at = "reading" /\ con[p].from \in Nat
  <2>1. n \in Nat \ {0} /\ i \in Nat \ {0} /\ i + n - 1 <= Len(log) /\ i + n - 1 \in Nat
    BY <1>0, <1>1, FanoutAssumption
  <2>2. con[p].from + 1 <= i /\ con[p].from \in Nat
    BY <1>0 DEF Oldest, ConType, Consumers, WireType
  <2> QED BY <2>1, <2>2 DEF FanOut
<1>3. /\ batch \in Seq(Ticks) /\ Len(batch) = n
      /\ \A j \in 1..n : batch[j] = log[i + j - 1]
  BY <1>0, <1>2, Batches DEF WireType
<1>4. /\ con'[p].warm /\ con'[p].last = i + n - 1
      /\ \A q \in Procs \ {p} : con'[q] = con[q]
      /\ UNCHANGED <<log, tick, pub, hist>>
  BY <1>0, <1>1, <1>2 DEF ConType, FanOut, wire
<1>5. PICK stale \in SUBSET Registered(p) :
         /\ \A q \in Procs, k \in Ids :
              reg'[q][k] = IF q = p /\ reg[p][k] \in stale THEN None ELSE reg[q][k]
         /\ \A s \in Sessions : got'[s] = IF s \in Registered(p) \ stale
                                          THEN got[s] \o batch ELSE got[s]
         /\ opened' = opened
  <2>1. Broadcast(p, batch)
    BY <1>1
  <2> HIDE DEF batch
  <2> QED BY <1>0, <2>1, BroadcastEffects
<1>6. con[p].warm => con[p].last < i
  <2>1. Resumes(p)
    BY DEF TailInv
  <2> QED BY <1>2, <2>1 DEF Resumes
<1> HIDE DEF i, batch
<1>7. Ticks \subseteq Nat /\ log \in Seq(Nat) /\ batch \in Seq(Nat) /\ \A s \in Sessions : got[s] \in Seq(Nat)
  BY <1>0, <1>3, FanoutAssumption, SeqMonotonic DEF Ticks, WireType, ClientType
<1>8. \A j \in 1..n : i + j - 1 \in 1..Len(log) /\ i + j - 1 >= i /\ i + j - 1 <= i + n - 1
  BY <1>0, <1>2
<1>9. Cardinality(Elements(batch)) = Len(batch)
  <2>1. \A j, k \in 1..Len(batch) : j < k => batch[j] < batch[k]
    <3> SUFFICES ASSUME NEW j \in 1..n, NEW k \in 1..n, j < k PROVE batch[j] < batch[k]
      BY <1>3
    <3>1. i + j - 1 < i + k - 1
      BY <1>2
    <3> QED BY <1>3, <1>8, <3>1 DEF LogRises
  <2> QED BY <1>7, <2>1, ElementsCount
<1>10. Elements(batch) \subseteq Due(p)
  <2> SUFFICES ASSUME NEW j \in 1..n PROVE log[i + j - 1] \in Due(p)
    BY <1>3 DEF Elements
  <2>1. con[p].warm => con[p].last < i + j - 1
    <3>1. con[p].last \in Nat
      BY <1>0 DEF ConType, Consumers
    <3> QED BY <1>2, <1>6, <1>8, <3>1
  <2> QED BY <1>8, <2>1 DEF Due
<1>11. Due(p)' \subseteq Due(p) /\ Elements(batch) \cap Due(p)' = {}
  <2>0. Due(p)' = {log[j] : j \in {k \in 1..Len(log) : i + n - 1 < k}}
    BY <1>4 DEF Due
  <2>1. \A k \in 1..Len(log) : i + n - 1 < k => (con[p].warm => con[p].last < k)
    <3>1. con[p].last \in Nat
      BY <1>0 DEF ConType, Consumers
    <3> QED BY <1>2, <1>6, <3>1
  <2>2. ASSUME NEW j \in 1..n, NEW k \in 1..Len(log), i + n - 1 < k PROVE batch[j] # log[k]
    <3>1. i + j - 1 \in 1..Len(log) /\ i + j - 1 < k
      BY <1>2, <1>8, <2>2
    <3>2. log[i + j - 1] < log[k] /\ log[k] \in Nat /\ log[i + j - 1] \in Nat
      BY <1>7, <3>1, ElementOfSeq DEF LogRises
    <3> QED BY <1>3, <3>2
  <2> QED BY <1>3, <2>0, <2>1, <2>2 DEF Due, Elements
<1>12. \A t \in Elements(batch) : t <= tick /\ (pub = "sent" => t < tick)
  BY <1>3, <1>8 DEF Elements, LogRises
<1>13. \A q \in Procs : \A s \in Registered(q)' :
         /\ s \in Registered(q) /\ s \in Sessions /\ (q = p => s \notin stale)
         /\ q # p => s \notin Registered(p)
  BY <1>0, <1>5 DEF Registered, ClientType, Placed
<1>14. Registered(p) \subseteq opened
  BY <1>0 DEF Registered, Placed
<1>15. \A s \in Sessions \ opened' : got'[s] = <<>>
  BY <1>5, <1>14 DEF RepeatInv
<1>16. ASSUME NEW s \in Sessions, NEW t \in Elements(got'[s])
       PROVE  t <= tick' /\ (pub' = "sent" => t < tick')
  <2>1. Elements(got[s] \o batch) = Elements(got[s]) \cup Elements(batch)
    BY <1>7, ElementsJoin
  <2>2. t \in Elements(got[s]) \/ t \in Elements(batch)
    BY <1>5, <1>16, <2>1
  <2> QED BY <1>4, <1>12, <2>2 DEF RepeatInv
<1>17. ASSUME NEW s \in Registered(p) \ stale
       PROVE  /\ Paid(got'[s], Due(p)', hist'.lostAcks)
              /\ Paid(got'[s], {}, hist'.lostAcks)
  <2> DEFINE due == Due(p)'
  <2>1. s \in Sessions /\ Paid(got[s], Due(p), hist.lostAcks)
    BY <1>0, <1>17 DEF RepeatInv, Registered, ClientType
  <2>2. due \subseteq Due(p) /\ Elements(batch) \cap due = {}
        /\ Elements(batch) \cap (Elements(got[s]) \ Due(p)) = {}
    BY <1>10, <1>11
  <2>3. got'[s] = got[s] \o batch /\ hist'.lostAcks = hist.lostAcks
    BY <1>4, <1>5, <1>17, <2>1
  <2> HIDE DEF due
  <2>4. Paid(got[s] \o batch, due, hist.lostAcks)
    BY <1>0, <1>7, <1>9, <2>1, <2>2, PaidBatch
  <2>5. Paid(got[s] \o batch, {}, hist.lostAcks)
    BY <1>0, <1>7, <1>9, <2>1, <2>2, PaidBatch
  <2> QED BY <2>3, <2>4, <2>5 DEF due
<1>18. ASSUME NEW s \in Sessions PROVE Paid(got'[s], {}, hist'.lostAcks)
  <2>1. CASE s \in Registered(p) \ stale
    BY <1>17, <2>1
  <2>2. CASE s \notin Registered(p) \ stale
    BY <1>4, <1>5, <2>2 DEF RepeatInv
  <2> QED BY <2>1, <2>2
<1>19. ASSUME NEW q \in Procs, NEW s \in Registered(q)' PROVE Paid(got'[s], Due(q)', hist'.lostAcks)
  <2>1. CASE q = p
    BY <1>13, <1>17, <1>19, <2>1
  <2>2. CASE q # p
    <3>1. Due(q)' = Due(q)
      BY <1>4, <2>2 DEF Due
    <3>2. got'[s] = got[s] /\ s \in Registered(q)
      BY <1>5, <1>13, <1>19, <2>2
    <3> QED BY <1>4, <3>1, <3>2 DEF RepeatInv
  <2> QED BY <2>1, <2>2
<1> QED BY <1>15, <1>16, <1>18, <1>19 DEF RepeatInv

LEMMA RepeatStep == TypeInv /\ TailInv /\ Placed /\ LogRises /\ RepeatInv /\ [Next]_vars => RepeatInv'
<1> SUFFICES ASSUME TypeInv, TailInv, Placed, LogRises, RepeatInv, [Next]_vars PROVE RepeatInv'
  OBVIOUS
<1>0. /\ WireType /\ ConType /\ ClientType /\ hist \in Counts /\ Len(log) \in Nat
      /\ tick \in Nat /\ tick + 1 \in Nat /\ tick >= tick /\ tick + 1 >= tick /\ tick + 1 > tick
  BY LenProperties, FanoutAssumption DEF TypeInv, WireType
<1>1. ASSUME UNCHANGED <<log, got, tick>>, pub' = "sent" => pub = "sent", opened \subseteq opened',
             hist'.lostAcks = hist.lostAcks,
             \A q \in Procs : \A s \in Registered(q)' :
               s \in Registered(q) /\ con'[q].warm = con[q].warm /\ con'[q].last = con[q].last
      PROVE  RepeatInv'
  <2>1. \A q \in Procs : \A s \in Registered(q)' : Due(q)' = Due(q)
    BY <1>1 DEF Due
  <2> QED BY <1>0, <1>1, <2>1, RepeatFrame
<1>2. ASSUME NEW s \in Sessions, Accept(s) PROVE RepeatInv'
  <2>1. /\ got[s] = <<>> /\ UNCHANGED <<got, con, log, tick, pub, hist>> /\ opened' = opened \cup {s}
        /\ \A q \in Procs : Registered(q)' \subseteq Registered(q) \cup {s}
    BY <1>0, <1>2 DEF Accept, RepeatInv, Registered, ClientType, wire
  <2>2. \A q \in Procs : Due(q)' = Due(q)
    BY <2>1 DEF Due
  <2>3. \A q \in Procs : Paid(got[s], Due(q), hist.lostAcks)
    <3>1. Elements(got[s]) = {} /\ Len(got[s]) = 0
      BY <2>1 DEF Elements
    <3>2. \A q \in Procs : Elements(got[s]) \ Due(q) = {} /\ Cardinality({}) = 0 /\ hist.lostAcks >= 0
      BY <1>0, <3>1, FS_EmptySet, FanoutAssumption DEF Counts
    <3> QED BY <1>0, <3>1, <3>2, FanoutAssumption DEF Paid, Counts
  <2> QED BY <2>1, <2>2, <2>3 DEF RepeatInv
<1>3. ASSUME NEW k \in Conns, ConnectionLost(k) PROVE RepeatInv'
  <2>1. \A q \in Procs : Registered(q)' \subseteq Registered(q)
    BY <1>0, <1>3, FanoutAssumption DEF ConnectionLost, RemoveProtocolSessions, Registered, ClientType
  <2> QED BY <1>1, <1>3, <2>1 DEF ConnectionLost, wire
<1>4. CASE Publish
  <2>1. \A q \in Procs : Due(q)' = Due(q) /\ Registered(q)' = Registered(q)
    BY <1>4 DEF Publish, Due, clients, Registered
  <2>2. tick' = tick + 1 /\ UNCHANGED <<got, opened, hist>>
    BY <1>4 DEF Publish, clients
  <2> QED BY <1>0, <2>1, <2>2, RepeatFrame
<1>5. CASE Xadd
  <2>1. /\ log' = Append(log, tick) /\ pub = "sent" /\ pub' = "applied"
        /\ UNCHANGED <<tick, con, reg, opened, got, hist>>
    BY <1>5 DEF Xadd, clients
  <2>2. /\ Len(log') = Len(log) + 1 /\ log'[Len(log) + 1] = tick
        /\ \A j \in 1..Len(log) : log'[j] = log[j]
    BY <1>0, <2>1 DEF WireType
  <2>3. \A q \in Procs : Registered(q)' = Registered(q)
    BY <2>1 DEF Registered
  <2>4. ASSUME NEW q \in Procs, NEW s \in Registered(q)
        PROVE  Due(q)' \cap Elements(got[s]) \subseteq Due(q)
    <3>1. tick \notin Elements(got[s])
      BY <1>0, <2>1, <2>4 DEF RepeatInv, Registered, ClientType
    <3>2. \A j \in 1..Len(log') : j \in 1..Len(log) \/ j = Len(log) + 1
      BY <1>0, <2>2
    <3> QED BY <2>1, <2>2, <3>1, <3>2 DEF Due
  <2> QED BY <1>0, <2>1, <2>3, <2>4, RepeatFrame
<1>6. CASE Published \/ UNCHANGED vars
  BY <1>1, <1>6 DEF Published, vars, wire, clients, Registered
<1>7. CASE FallBack
  BY <1>7, RepeatFallBack
<1>8. ASSUME NEW p \in Procs, FanOut(p) PROVE RepeatInv'
  BY <1>8, RepeatFanOut
<1>9. ASSUME NEW p \in Procs, Read(p) \/ ReadExpires(p) \/ ReadFails(p) \/ Wakes(p)
      PROVE  RepeatInv'
  <2>1. UNCHANGED <<wire, clients, got>>
    BY <1>9 DEF Read, ReadExpires, ReadFails, Wakes
  <2>2. \A q \in Procs : con'[q].warm = con[q].warm /\ con'[q].last = con[q].last
    <3>1. \A q \in Procs \ {p} : con'[q] = con[q]
      BY <1>0, <1>9 DEF Read, ReadExpires, ReadFails, Wakes, ConType
    <3>2. CASE Read(p)
      BY <1>0, <3>1, <3>2 DEF Read, ConType, Consumers
    <3>3. CASE ReadExpires(p) \/ ReadFails(p) \/ Wakes(p)
      <4>1. con'[p].warm = con[p].warm /\ con'[p].last = con[p].last
        BY <1>0, <3>3 DEF ReadExpires, ReadFails, Wakes, ConType, Consumers
      <4> QED BY <3>1, <4>1
    <3> QED BY <1>9, <3>2, <3>3
  <2>3. hist'.lostAcks = hist.lostAcks
    BY <1>0, <1>9 DEF Read, ReadExpires, ReadFails, Wakes, Counts
  <2> QED BY <1>1, <2>1, <2>2, <2>3 DEF wire, clients, Registered
<1>10. ASSUME NEW p \in Procs, Restart(p) PROVE RepeatInv'
  <2>1. UNCHANGED <<wire, opened, got>> /\ hist'.lostAcks = hist.lostAcks
    BY <1>0, <1>10 DEF Restart, Counts
  <2>2. \A q \in Procs : \A s \in Registered(q)' : q # p /\ s \in Registered(q) /\ con'[q] = con[q]
    BY <1>0, <1>10 DEF Restart, Registered, ClientType, NoSessions, ConType
  <2> QED BY <1>1, <2>1, <2>2 DEF wire
<1> QED BY <1>2, <1>3, <1>4, <1>5, <1>6, <1>7, <1>8, <1>9, <1>10 DEF Next

\* publish_tick, _consume_stream and broadcast: whatever reads fail, expire or begin
\* anew, a session is sent a tick twice only for an answer that was lost.
THEOREM RepeatsNeedLostAckHolds == Spec => []RepeatsNeedLostAck
<1>1. RepeatInv => RepeatsNeedLostAck
  <2> SUFFICES ASSUME RepeatInv, NEW s \in Sessions
               PROVE  Len(got[s]) <= Cardinality({got[s][j] : j \in 1..Len(got[s])}) + hist.lostAcks
    BY DEF RepeatsNeedLostAck
  <2>1. Paid(got[s], {}, hist.lostAcks) /\ Elements(got[s]) \ {} = Elements(got[s])
    BY DEF RepeatInv
  <2> QED BY <2>1 DEF Paid, Elements
<1>2. Spec => []RepeatInv
  <2>1. OrderInv => LogRises
    BY DEF OrderInv
  <2> QED BY <2>1, TypeInit, TypeStep, TailInit, TailStep, PlacedInit, PlacedStep, OrderInit, OrderStep,
             RepeatInit, RepeatStep, PTL DEF Spec
<1> QED BY <1>1, <1>2, PTL
=============================================================================
