--------------------------- MODULE PoolParameters ---------------------------
(* The parameters of the worker pool of core-api, shared by the            *)
(* specifications that speak of it.                                        *)
EXTENDS Naturals, FiniteSets

CONSTANTS
  Jobs,      \* job ids; the primary key of the jobs table makes them unique
  Workers,   \* worker goroutines
  Capacity,  \* cap(queue); NewWorkerPool replaces a size that is not positive
  None       \* "no job", for an idle worker

ASSUME PoolAssumption ==
  /\ Capacity \in Nat \ {0}
  /\ None \notin Jobs
=============================================================================
