---------------------------- MODULE MCLanePolicy ----------------------------
(* Instances of LanePolicy for TLC. *)
EXTENDS LanePolicy
=============================================================================
