------------------------------- MODULE MCLane -------------------------------
(* Two exchanges with one host, whose lane is retired once. *)
EXTENDS Lane
=============================================================================
