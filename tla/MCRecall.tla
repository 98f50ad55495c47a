------------------------------ MODULE MCRecall ------------------------------
(***************************************************************************)
(* One agent that Chroma already knows, with the same text under two       *)
(* numbers.                                                                *)
(***************************************************************************)
EXTENDS Recall

MCLegacy == [a \in {"now"} |-> [i \in 1..2 |-> "p"]]
=============================================================================
