---- MODULE MCResolution ----
(* Resolution for TLC: one window that allows one request at a time. *)
EXTENDS Resolution

MCCaps == <<1>>
====
