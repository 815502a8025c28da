---------------------------- MODULE MCWorkerPool ----------------------------
(***************************************************************************)
(* Two callers share a pool.  With three threads, 4 indices divide into    *)
(* two chunks of two and an empty one, 3 into three, 1 into one.           *)
(***************************************************************************)
EXTENDS WorkerPool

=============================================================================
