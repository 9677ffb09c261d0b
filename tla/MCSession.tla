----------------------------- MODULE MCSession -----------------------------
(* The constants are in MCSession.cfg. *)
EXTENDS Session
=============================================================================
