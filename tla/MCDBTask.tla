------------------------------ MODULE MCDBTask ------------------------------
(* Model checking of one database task.                                    *)
EXTENDS DBTask
=============================================================================
