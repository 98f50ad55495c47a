-------------------------- MODULE MCWorldLifecycle --------------------------
(***************************************************************************)
(* WorldLifecycle for TLC.                                                 *)
(***************************************************************************)
EXTENDS WorldLifecycle
=============================================================================
