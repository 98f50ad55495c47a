----------------------------- MODULE MCWtFanout -----------------------------
(***************************************************************************)
(* WtFanout for TLC: two clients of the world's process w, which opens     *)
(* their sessions with the first stream of their own connections, numbered *)
(* 0 by QUIC, and a serving process p without clients.                     *)
(***************************************************************************)
EXTENDS WtFanout

CONSTANTS w, p, k1, k2, s1, s2

MCHome == [k \in Conns |-> w]
MCConn == [s \in Sessions |-> IF s = s1 THEN k1 ELSE k2]
MCSid  == [s \in Sessions |-> 0]
=============================================================================
