------------------------------ MODULE JobQueue ------------------------------
(***************************************************************************)
(* What the worker pool of core-api promises its callers                   *)
(* (src/backend/core-api/services/workerpool.go): a bounded FIFO of job    *)
(* ids, refused when full, each id taken by one worker and handled once.   *)
(* The bookkeeping of the real pool (the channel and the listed ids kept   *)
(* side by side, the counters, start and stop) is in WorkerPool, which     *)
(* implements this specification; JobLifecycle is built on top of it.      *)
(***************************************************************************)
EXTENDS PoolParameters, Sequences

VARIABLES
  waiting,   \* ids in the channel, oldest first
  serving,   \* the id each worker holds, or None
  outcome    \* what became of each id

queueVars == <<waiting, serving, outcome>>

Outcomes == {"new", "accepted", "refused", "done", "lost"}

TypeOK ==
  /\ waiting \in Seq(Jobs)
  /\ serving \in [Workers -> Jobs \cup {None}]
  /\ outcome \in [Jobs -> Outcomes]

Init ==
  /\ waiting = <<>>
  /\ serving = [w \in Workers |-> None]
  /\ outcome = [j \in Jobs |-> "new"]

-----------------------------------------------------------------------------
(* Submit, with room in the channel.                                       *)
Accept(j) ==
  /\ outcome[j] = "new"
  /\ Len(waiting) < Capacity
  /\ waiting' = Append(waiting, j)
  /\ outcome' = [outcome EXCEPT ![j] = "accepted"]
  /\ UNCHANGED serving

(* Submit, with the channel full: the default branch of the select.        *)
Refuse(j) ==
  /\ outcome[j] = "new"
  /\ Len(waiting) >= Capacity
  /\ outcome' = [outcome EXCEPT ![j] = "refused"]
  /\ UNCHANGED <<waiting, serving>>

(* An idle worker receives from the channel.                               *)
Begin(w) ==
  /\ serving[w] = None
  /\ waiting # <<>>
  /\ serving' = [serving EXCEPT ![w] = Head(waiting)]
  /\ waiting' = Tail(waiting)
  /\ UNCHANGED outcome

(* The handler returns, or panics and is recovered.                        *)
Finish(w) ==
  /\ serving[w] # None
  /\ outcome' = [outcome EXCEPT ![serving[w]] = "done"]
  /\ serving' = [serving EXCEPT ![w] = None]
  /\ UNCHANGED waiting

(* The process dies: channel and goroutines are memory only.               *)
Crash ==
  /\ waiting' = <<>>
  /\ serving' = [w \in Workers |-> None]
  /\ outcome' = [j \in Jobs |-> IF outcome[j] = "accepted" THEN "lost"
                                                           ELSE outcome[j]]

Next ==
  \/ \E j \in Jobs : Accept(j) \/ Refuse(j)
  \/ \E w \in Workers : Begin(w) \/ Finish(w)
  \/ Crash

Spec == Init /\ [][Next]_queueVars

-----------------------------------------------------------------------------
InChannel(j) == \E i \in 1..Len(waiting) : waiting[i] = j
Held(j) == \E w \in Workers : serving[w] = j

(* No id is in the channel twice, held by two workers, or both in the      *)
(* channel and held; and an id is in one of those places exactly when it   *)
(* was accepted and its handler has not returned.  This is what lets       *)
(* ProcessJob check and set the job status without a lock.                 *)
ExactlyOnce ==
  /\ \A i, k \in 1..Len(waiting) : waiting[i] = waiting[k] => i = k
  /\ \A v, w \in Workers : serving[v] = serving[w] /\ serving[v] # None => v = w
  /\ \A j \in Jobs : ~(InChannel(j) /\ Held(j))
  /\ \A j \in Jobs : outcome[j] = "accepted" <=> InChannel(j) \/ Held(j)

(* The jobs the pool still owes an execution never exceed the channel and  *)
(* the workers together: the back-pressure Submit's refusal provides.      *)
Backlog ==
  Cardinality({j \in Jobs : outcome[j] = "accepted"})
    <= Capacity + Cardinality(Workers)
=============================================================================
