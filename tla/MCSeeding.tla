----------------------------- MODULE MCSeeding -----------------------------
(***************************************************************************)
(* Seeding for TLC: three countries, the second without any place, and two *)
(* scripts that fill the history of one station.                           *)
(***************************************************************************)
EXTENDS Seeding
=============================================================================
