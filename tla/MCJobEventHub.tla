--------------------------- MODULE MCJobEventHub ----------------------------
(* Two jobs whose status changes reach the event stream. *)
EXTENDS JobEventHub
=============================================================================
