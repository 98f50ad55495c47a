----------------------------- MODULE MCSociety -----------------------------
(***************************************************************************)
(* Society for TLC: one agent that roams between two places and two that   *)
(* stay; earth sources know of the first place.                            *)
(***************************************************************************)
EXTENDS Society

MCReach == <<{1}, {1, 2}, {1}>>
=============================================================================
