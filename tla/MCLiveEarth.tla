---------------------------- MODULE MCLiveEarth ----------------------------
(***************************************************************************)
(* LiveEarth for TLC: a station where an agent stands, and a place without *)
(* one.  The geography is refreshed less often than the rest.              *)
(***************************************************************************)
EXTENDS LiveEarth, TLC

MCPeriod == [d \in Domains |-> IF d = "geography" THEN 2 ELSE 1]
=============================================================================
