---------------------------- MODULE MCGeography ----------------------------
(***************************************************************************)
(* Geography for TLC: three places in a line, and room for two of them in  *)
(* each cache.                                                             *)
(***************************************************************************)
EXTENDS Geography

MCRoads == {{1, 2}, {2, 3}}
Symmetry == Permutations(Callers)
=============================================================================
