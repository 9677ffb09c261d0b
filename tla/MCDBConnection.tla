--------------------------- MODULE MCDBConnection ---------------------------
(* Model checking of one database connection. *)
EXTENDS DBConnection
=============================================================================
