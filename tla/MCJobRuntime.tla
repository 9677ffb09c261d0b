---------------------------- MODULE MCJobRuntime ----------------------------
(* Three background jobs and the runtime's destructor. *)
EXTENDS JobRuntime
=============================================================================
