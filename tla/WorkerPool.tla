----------------------------- MODULE WorkerPool -----------------------------
(***************************************************************************)
(* services/workerpool.go: a channel of job ids, worker goroutines reading *)
(* it, and beside the channel a list of the queued ids kept for display.   *)
(* The list has its own mutex, so a Submit and a worker touch the channel  *)
(* and the list in separate steps that interleave.                         *)
(*                                                                         *)
(* Each id is submitted at most once, by the goroutine serving its request *)
(* (JobService.CreateJob submits the primary key it has just inserted).    *)
(***************************************************************************)
EXTENDS PoolParameters, Sequences, SequencesExt

CONSTANT WorkerCount  \* goroutines launched by one call of Start

ASSUME CountAssumption == WorkerCount \in Nat \ {0}
ASSUME WorkersAssumption == IsFiniteSet(Workers)

VARIABLES
  queue,       \* the channel
  queued,      \* the listed ids, guarded by mu
  active,      \* the atomic counter of busy workers
  running,     \* the flag Start and Stop compare and swap
  stopClosed,  \* stopCh has been closed
  crashed,     \* a panic outside the recover ended the process
  pc,          \* where each worker goroutine is
  holding,     \* the id each worker received
  submit,      \* where each Submit call is
  handled      \* ids whose handler has returned (history)

vars == <<queue, queued, active, running, stopClosed, crashed,
          pc, holding, submit, handled>>

WorkerStates == {"unborn", "select", "received", "counted", "handling", "exited"}
SubmitStates == {"new", "sent", "accepted", "refused"}

TypeOK ==
  /\ queue \in Seq(Jobs)
  /\ queued \in Seq(Jobs)
  /\ active \in Nat
  /\ running \in BOOLEAN /\ stopClosed \in BOOLEAN /\ crashed \in BOOLEAN
  /\ pc \in [Workers -> WorkerStates]
  /\ holding \in [Workers -> Jobs \cup {None}]
  /\ submit \in [Jobs -> SubmitStates]
  /\ handled \subseteq Jobs

(* NewWorkerPool.                                                          *)
Init ==
  /\ queue = <<>> /\ queued = <<>>
  /\ active = 0
  /\ running = FALSE /\ stopClosed = FALSE /\ crashed = FALSE
  /\ pc = [w \in Workers |-> "unborn"]
  /\ holding = [w \in Workers |-> None]
  /\ submit = [j \in Jobs |-> "new"]
  /\ handled = {}

-----------------------------------------------------------------------------
(* Faulty variants of the steps below.  They are no part of Next: each is  *)
(* a bug one of the properties must catch.                                 *)

SendPastCapacity(j) ==
  /\ ~crashed
  /\ submit[j] = "new"
  /\ Len(queue) <= Capacity
  /\ queue' = Append(queue, j)
  /\ submit' = [submit EXCEPT ![j] = "sent"]
  /\ UNCHANGED <<queued, active, running, stopClosed, crashed,
                 pc, holding, handled>>

Receives(w, id, rest) ==
  /\ ~crashed
  /\ pc[w] = "select"
  /\ queue # <<>>
  /\ holding' = [holding EXCEPT ![w] = id]
  /\ queue' = rest
  /\ pc' = [pc EXCEPT ![w] = "received"]
  /\ UNCHANGED <<queued, active, running, stopClosed, crashed, submit, handled>>

ReceiveNewest(w) == Receives(w, Last(queue), Front(queue))
ReceiveWithoutTaking(w) == Receives(w, Head(queue), queue)

ExitUnlessRunning(w) ==
  /\ ~crashed
  /\ pc[w] = "select"
  /\ ~running
  /\ pc' = [pc EXCEPT ![w] = "exited"]
  /\ UNCHANGED <<queue, queued, active, running, stopClosed, crashed,
                 holding, submit, handled>>

UnlistTo(w, rest, count) ==
  /\ ~crashed
  /\ pc[w] = "counted"
  /\ queued' = rest
  /\ active' = count
  /\ pc' = [pc EXCEPT ![w] = "handling"]
  /\ UNCHANGED <<queue, running, stopClosed, crashed, holding, submit, handled>>

UnlistOldest(w) == UnlistTo(w, IF queued = <<>> THEN queued ELSE Tail(queued), active)
UnlistCountsOut(w) == UnlistTo(w, RemoveFirst(queued, holding[w]), active - 1)

ReturnTo(w, state, count) ==
  /\ ~crashed
  /\ pc[w] = "handling"
  /\ active' = count
  /\ handled' = handled \cup {holding[w]}
  /\ holding' = [holding EXCEPT ![w] = None]
  /\ pc' = [pc EXCEPT ![w] = state]
  /\ UNCHANGED <<queue, queued, running, stopClosed, crashed, submit>>

ReturnWithoutCounting(w) == ReturnTo(w, "select", active)
ReturnEndsWorker(w) == ReturnTo(w, "exited", active - 1)

-----------------------------------------------------------------------------
Unborn == {w \in Workers : pc[w] = "unborn"}

(* Start: the swap of running from 0 to 1 and the launch of the workers.   *)
(* Nothing reopens stopCh, so a pool started again has it closed.          *)
Start ==
  /\ ~crashed
  /\ ~running
  /\ running' = TRUE
  /\ \E G \in SUBSET Unborn :
       /\ Cardinality(G) = WorkerCount
       /\ pc' = [w \in Workers |-> IF w \in G THEN "select" ELSE pc[w]]
  /\ UNCHANGED <<queue, queued, active, stopClosed, crashed,
                 holding, submit, handled>>

(* Stop: closing a channel that is already closed panics.                  *)
Stop ==
  /\ ~crashed
  /\ running
  /\ running' = FALSE
  /\ IF stopClosed THEN crashed' = TRUE /\ UNCHANGED stopClosed
                   ELSE stopClosed' = TRUE /\ UNCHANGED crashed
  /\ UNCHANGED <<queue, queued, active, pc, holding, submit, handled>>

(* Submit, first step: the non-blocking send.                              *)
Send(j) ==
  /\ ~crashed
  /\ submit[j] = "new"
  /\ Len(queue) < Capacity
  /\ queue' = Append(queue, j)
  /\ submit' = [submit EXCEPT ![j] = "sent"]
  /\ UNCHANGED <<queued, active, running, stopClosed, crashed,
                 pc, holding, handled>>

(* Submit, the default branch of its select.                               *)
Refuse(j) ==
  /\ ~crashed
  /\ submit[j] = "new"
  /\ Len(queue) >= Capacity
  /\ submit' = [submit EXCEPT ![j] = "refused"]
  /\ UNCHANGED <<queue, queued, active, running, stopClosed, crashed,
                 pc, holding, handled>>

(* Submit, second step: list the id under the mutex and return true.       *)
List(j) ==
  /\ ~crashed
  /\ submit[j] = "sent"
  /\ queued' = Append(queued, j)
  /\ submit' = [submit EXCEPT ![j] = "accepted"]
  /\ UNCHANGED <<queue, active, running, stopClosed, crashed,
                 pc, holding, handled>>

(* workerLoop's select when the queue has an id; it may also choose Exit   *)
(* when both channels are ready.                                           *)
Receive(w) ==
  /\ ~crashed
  /\ pc[w] = "select"
  /\ queue # <<>>
  /\ holding' = [holding EXCEPT ![w] = Head(queue)]
  /\ queue' = Tail(queue)
  /\ pc' = [pc EXCEPT ![w] = "received"]
  /\ UNCHANGED <<queued, active, running, stopClosed, crashed, submit, handled>>

Exit(w) ==
  /\ ~crashed
  /\ pc[w] = "select"
  /\ stopClosed
  /\ pc' = [pc EXCEPT ![w] = "exited"]
  /\ UNCHANGED <<queue, queued, active, running, stopClosed, crashed,
                 holding, submit, handled>>

(* atomic.AddInt32(&w.active, 1)                                           *)
CountIn(w) ==
  /\ ~crashed
  /\ pc[w] = "received"
  /\ active' = active + 1
  /\ pc' = [pc EXCEPT ![w] = "counted"]
  /\ UNCHANGED <<queue, queued, running, stopClosed, crashed,
                 holding, submit, handled>>

(* Take the first listed occurrence of the id off the list, if any.        *)
Unlist(w) ==
  /\ ~crashed
  /\ pc[w] = "counted"
  /\ queued' = RemoveFirst(queued, holding[w])
  /\ pc' = [pc EXCEPT ![w] = "handling"]
  /\ UNCHANGED <<queue, active, running, stopClosed, crashed,
                 holding, submit, handled>>

(* The handler returns, or panics and is recovered; either way the         *)
(* deferred decrement runs and the worker selects again.                   *)
Return(w) ==
  /\ ~crashed
  /\ pc[w] = "handling"
  /\ active' = active - 1
  /\ handled' = handled \cup {holding[w]}
  /\ holding' = [holding EXCEPT ![w] = None]
  /\ pc' = [pc EXCEPT ![w] = "select"]
  /\ UNCHANGED <<queue, queued, running, stopClosed, crashed, submit>>

WorkerStep(w) == Receive(w) \/ Exit(w) \/ CountIn(w) \/ Unlist(w) \/ Return(w)
SubmitStep(j) == Send(j) \/ Refuse(j) \/ List(j)

Next ==
  \/ Start
  \/ Stop
  \/ \E j \in Jobs : SubmitStep(j)
  \/ \E w \in Workers : WorkerStep(w)

Spec == Init /\ [][Next]_vars

(* The Go scheduler runs every runnable goroutine; main calls Start before *)
(* it serves requests; handlers return (ProcessJob only touches the        *)
(* database and spawns a goroutine).  Nothing obliges anyone to Submit or  *)
(* to Stop.                                                                *)
Fairness ==
  /\ WF_vars(Start /\ ~stopClosed)
  /\ \A w \in Workers : WF_vars(WorkerStep(w))
  /\ \A j \in Jobs : WF_vars(List(j))

FairSpec == Spec /\ Fairness

-----------------------------------------------------------------------------
(* The pool implements JobQueue: the channel send is the moment of         *)
(* acceptance, the receive that of hand-over, the return that of           *)
(* completion.                                                             *)
OutcomeOf(j) ==
  IF j \in handled THEN "done"
  ELSE CASE submit[j] = "new" -> "new"
         [] submit[j] = "refused" -> "refused"
         [] OTHER -> "accepted"

Queue == INSTANCE JobQueue WITH
  waiting <- queue,
  serving <- holding,
  outcome <- [j \in Jobs |-> OutcomeOf(j)]

(* Every id the channel accepts is handed to exactly one worker and        *)
(* handled once, in channel order, and a refused id never is; Start, Stop, *)
(* restarts and the separate list do not disturb this.                     *)
ImplementsQueue == Queue!Spec

(* No id is duplicated or forgotten between the channel, the workers and   *)
(* the set of handled ids.                                                 *)
ExactlyOnce == Queue!ExactlyOnce

(* The ids accepted and not yet handled never exceed the channel and the   *)
(* goroutines together, so refusing is the only way the pool sheds load.   *)
Backlog == Queue!Backlog

(* The counter ActiveWorkers reads is the number of workers between the    *)
(* increment and the deferred decrement, whatever interleaves.             *)
Busy == {w \in Workers : pc[w] \in {"counted", "handling"}}
ActiveCounts == active = Cardinality(Busy)

(* SnapshotQueue shows every id in the channel except one whose Submit has *)
(* sent it and not listed it yet, and never shows an id twice.             *)
ListCoversQueue ==
  /\ \A i \in 1..Len(queue) :
       queue[i] \in ToSet(queued) \/ submit[queue[i]] = "sent"
  /\ \A i, k \in 1..Len(queued) : queued[i] = queued[k] => i = k

(* Unless the pool is stopped, an id that was accepted is handled.         *)
AcceptedIsHandled ==
  \A j \in Jobs : submit[j] \in {"sent", "accepted"} ~> j \in handled \/ stopClosed

(* After Stop every worker goroutine ends, even one launched by a later    *)
(* Start and even with ids left in the channel.                            *)
StopHalts ==
  stopClosed ~> crashed \/ \A w \in Workers : pc[w] \in {"unborn", "exited"}

-----------------------------------------------------------------------------
(* What the comment on SnapshotQueue says ("a copy of queued job IDs"): in *)
(* a moment when no Submit and no worker is between its two steps, the     *)
(* listed ids are the ids in the channel.                                  *)
Settled ==
  /\ \A j \in Jobs : submit[j] # "sent"
  /\ \A w \in Workers : pc[w] \in {"unborn", "select", "exited"}
SnapshotIsQueue == Settled => ToSet(queued) = ToSet(queue)
=============================================================================
