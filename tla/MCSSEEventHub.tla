--------------------------- MODULE MCSSEEventHub ---------------------------
(* A subscriber to everything and one to a single entity. *)
EXTENDS SSEEventHub, TLC

CONSTANTS e1, e2, all, some

MCFollows == (all :> {e1, e2}) @@ (some :> {e2})
=============================================================================
