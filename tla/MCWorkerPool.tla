---------------------------- MODULE MCWorkerPool ----------------------------
(* Small instances of WorkerPool.                                          *)
EXTENDS WorkerPool, TLC

(* Ids and goroutines are interchangeable.                                 *)
Symmetry == Permutations(Jobs) \cup Permutations(Workers)
=============================================================================
