--------------------------- MODULE MCWorkerPool ----------------------------
(* The constants are in MCWorkerPool.cfg. *)
EXTENDS WorkerPool
=============================================================================
