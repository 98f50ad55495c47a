---------------------------- MODULE MCFactFlush ----------------------------
(***************************************************************************)
(* FactFlush for TLC: one agent that overflows its buffer, and another.    *)
(***************************************************************************)
EXTENDS FactFlush

CONSTANTS a1, a2

\* One agent fills its buffer twice over while another takes part in the saves.
MCQuota == [a \in Agents |-> IF a = a1 THEN MaxFacts ELSE 1]

\* The agent that fills its buffer is told one of its facts.
MCMaxTold == [a \in Agents |-> IF a = a1 THEN 1 ELSE 0]
=============================================================================
