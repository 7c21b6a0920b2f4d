---------------------------- MODULE MCWorkerPool ----------------------------
(* Model-checking instance of WorkerPool: three projects; no worker (NaN),  *)
(* one and two at a time.                                                   *)
EXTENDS WorkerPool

MCLimits == {0, 1, 2}
=============================================================================
