------------------------------ MODULE MCDBPool ------------------------------
(* Three transactions that share one connection. *)
EXTENDS DBPool
=============================================================================
