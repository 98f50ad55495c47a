--------------------------- MODULE DurableMemory ---------------------------
(***************************************************************************)
(* What the write path of agent memory promises, seen from outside: a fact *)
(* is held in memory until one atomic flush stores facts of any agents.    *)
(* Holding is bounded, and the price of an overflow is one fact, paid at   *)
(* once or later: credit[a] counts the facts agent a may still lose.       *)
(***************************************************************************)
EXTENDS Naturals, FiniteSets

CONSTANTS Agents, Fact

VARIABLES held, stored, credit
vars == <<held, stored, credit>>

Init ==
  /\ held = [a \in Agents |-> {}]
  /\ stored = [a \in Agents |-> {}]
  /\ credit = [a \in Agents |-> 0]

\* Agent a learns fact n; an overflow (gain = 1) allows one fact to be lost.
Learn(a, n) ==
  /\ n \notin held[a] \cup stored[a]
  /\ \E gain \in {0, 1}, gone \in SUBSET (held[a] \cup {n}) :
       /\ Cardinality(gone) <= credit[a] + gain
       /\ held' = [held EXCEPT ![a] = (@ \cup {n}) \ gone]
       /\ credit' = [credit EXCEPT ![a] = @ + gain - Cardinality(gone)]
  /\ UNCHANGED stored

\* One transaction stores facts of every agent. Facts lost to an overflow may
\* turn out to be stored by it after all, which restores their credit.
Flush ==
  /\ \A a \in Agents : stored[a] \subseteq stored'[a]
  /\ \A a \in Agents : held'[a] = held[a] \ stored'[a]
  /\ \A a \in Agents : credit'[a] =
       credit[a] + Cardinality((stored'[a] \ stored[a]) \ held[a])

\* Facts are given up against the credit of their agents.
GiveUp ==
  /\ \A a \in Agents :
       /\ held'[a] \subseteq held[a]
       /\ Cardinality(held[a] \ held'[a]) <= credit[a]
       /\ credit'[a] = credit[a] - Cardinality(held[a] \ held'[a])
  /\ UNCHANGED stored

\* The process dies or is reset: what was only held is gone.
Forget ==
  /\ held' = [a \in Agents |-> {}]
  /\ UNCHANGED <<stored, credit>>

Next ==
  \/ \E a \in Agents, n \in Fact : Learn(a, n)
  \/ Flush \/ GiveUp \/ Forget

Spec ==
  /\ Init
  /\ [][Next]_vars
=============================================================================
