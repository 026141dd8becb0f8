---------------------------- MODULE MCWorkerPool ----------------------------
(* WorkerPool with two configured workers, room for bursts of 30, 40 and 60 *)
(* (100 never fits) and one load on each side of every threshold.           *)
EXTENDS WorkerPool

MCLoads == {0, 15, 16, 101, 201, 301}
=============================================================================
