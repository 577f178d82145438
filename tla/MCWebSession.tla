---------------------------- MODULE MCWebSession ----------------------------
(* Two users and one destination. *)
EXTENDS WebSession

CONSTANTS u1, u2, d1
=============================================================================
