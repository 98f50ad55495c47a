---------------------------- MODULE MCAgentLife ----------------------------
(***************************************************************************)
(* AgentLife for TLC: four places on a line, three of them in two          *)
(* countries and the last one in none.                                     *)
(***************************************************************************)
EXTENDS AgentLife

MCPlaces  == 1..4
MCCountry == [p \in MCPlaces |-> IF p = 4 THEN "" ELSE IF p < 3 THEN "X" ELSE "Y"]
MCQuality == [p \in MCPlaces |-> p]

\* A road of two ticks over the border, the others of one.
MCRoads == {[ends |-> {1, 2}, d10 |-> 1, kind |-> "road"],
            [ends |-> {2, 3}, d10 |-> 2, kind |-> "road"],
            [ends |-> {3, 4}, d10 |-> 1, kind |-> "road"]}
=============================================================================
