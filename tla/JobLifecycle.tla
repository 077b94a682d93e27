---------------------------- MODULE JobLifecycle ----------------------------
(***************************************************************************)
(* The life of a job in core-api, from POST /jobs to its last status:      *)
(* JobService.CreateJob and ProcessJob (services/jobService.go), the rows  *)
(* of JobRepository, the worker pool (JobQueue), the cluster-events topic  *)
(* and the consumer's EventHandler (services/eventHandler.go).             *)
(*                                                                         *)
(* Four goroutines may work on one job: the HTTP request that creates it,  *)
(* the pool worker that checks and claims it, the runner the worker        *)
(* spawns, and the single event consumer.  Every UpdateJobStatus and       *)
(* UpdateJobProgress is a SELECT followed by a Save of the whole row, in   *)
(* no transaction, so it is two steps here, ReadRow and SaveRow.           *)
(***************************************************************************)
EXTENDS PoolParameters, Sequences

CONSTANTS
  Kind,       \* the job type of each id
  Clusters,   \* what a request's cluster_id parameter may be
  MaxCopies,  \* records one WriteMessages may leave on the topic (retries)
  MaxFaults   \* bound on the faults and crashes of a behaviour

Local == {"diagnose", "monitor"}
Orchestrated == {"provision", "scale"}

ASSUME LifecycleAssumption ==
  /\ Kind \in [Jobs -> Local \cup Orchestrated]
  /\ Clusters \subseteq {"named", "blank", "absent"} /\ "named" \in Clusters
  /\ MaxCopies \in Nat \ {0}
  /\ MaxFaults \in Nat

VARIABLES
  row,       \* the jobs table: status and progress, or NoRow
  cluster,   \* the cluster_id parameter of each request
  at,        \* at[r][j]: where goroutine r of job j is
  snap,      \* snap[r][j]: the row it has read and not yet saved, or NoRow
  topic,     \* job_requested records of each job not yet consumed
  results,   \* outcomes of the work done for each job (history)
  launches,  \* runners spawned for each job (history)
  faults,    \* faults so far
  waiting, serving, outcome   \* the worker pool

jobVars == <<row, cluster, at, snap, topic, results, launches, faults>>
vars == <<jobVars, waiting, serving, outcome>>

Pool == INSTANCE JobQueue

-----------------------------------------------------------------------------
(* Rows and what the repository's two calls make of them.                  *)

Statuses ==
  {"pending", "queued", "queued_rejected", "running", "completed", "failed"}
Rows == [status : Statuses, progress : 0..100]
NoRow == [status |-> "absent", progress |-> 0]

(* Faulty variants, which the properties must catch (no part of Next).     *)
SetStatusOnly(r, s) ==
  [status |-> s,
   progress |-> IF s = "running" /\ r.progress = 0 THEN 5 ELSE r.progress]
SetProgressSums(r, p) ==
  [status |-> r.status, progress |-> r.progress + p]
SetProgressEarly(r, p) ==
  [status |-> IF p >= 30 THEN "completed" ELSE r.status, progress |-> p]

SetStatus(r, s) ==
  [status |-> s,
   progress |-> CASE s = "completed" -> 100
                  [] s = "running" /\ r.progress = 0 -> 5
                  [] OTHER -> r.progress]

SetProgress(r, p) ==
  [status |-> CASE p >= 100 -> "completed"
                [] p < 100 /\ r.status = "pending" -> "running"
                [] OTHER -> r.status,
   progress |-> p]

(* The labels at which a goroutine is inside one of the two calls.         *)
StatusAt == [
  markQueued    |-> "queued",     \* CreateJob, accepted by the pool
  markRejected  |-> "queued_rejected",
  markRunning   |-> "running",    \* ProcessJob
  markHandedOff |-> "queued",     \* the runner, after its work or its panic
  markCompleted |-> "completed",
  markFailed    |-> "failed",
  startJob      |-> "running",    \* handleJobRequestedTyped
  errorJob      |-> "failed" ]

ProgressAt == [
  run33 |-> 33, run66 |-> 66, run100 |-> 100, rerun100 |-> 100,
  orch10 |-> 10, orch30 |-> 30, orch75 |-> 75,
  orch100 |-> 100, error100 |-> 100 ]

CallLabels == DOMAIN StatusAt \cup DOMAIN ProgressAt

Written(l, r) == IF l \in DOMAIN StatusAt THEN SetStatus(r, StatusAt[l])
                                          ELSE SetProgress(r, ProgressAt[l])

(* Where control goes after the call.  No caller but ProcessJob looks at   *)
(* the error.                                                              *)
After(l, j) ==
  CASE l \in {"markQueued", "markRejected"} -> "over"
    [] l = "run33" -> "run66"
    [] l = "run66" -> "work"
    [] l = "run100" -> IF Kind[j] = "diagnose" THEN "rerun100" ELSE "markCompleted"
    [] l = "rerun100" -> "markCompleted"
    [] l = "startJob" -> "orch10"
    [] l = "orch10" -> IF cluster[j] = "blank" THEN "orch100" ELSE "orch30"
    [] l = "orch30" -> "orchestrate"
    [] l = "orch75" -> "orch100"
    [] l = "errorJob" -> "error100"
    [] OTHER -> "idle"

Roles == {"request", "worker", "runner", "consumer"}
Labels == CallLabels \cup
  {"idle", "over", "created", "load", "begin", "work", "orchestrate"}

TypeOK ==
  /\ row \in [Jobs -> Rows \cup {NoRow}]
  /\ cluster \in [Jobs -> Clusters]
  /\ at \in [Roles -> [Jobs -> Labels]]
  /\ snap \in [Roles -> [Jobs -> Rows \cup {NoRow}]]
  /\ topic \in [Jobs -> Nat]
  /\ results \in [Jobs -> Seq({"ok", "error"})]
  /\ launches \in [Jobs -> Nat]
  /\ faults \in 0..MaxFaults
  /\ Pool!TypeOK

Init ==
  /\ row = [j \in Jobs |-> NoRow]
  /\ cluster \in [Jobs -> Clusters]
  /\ \A j \in Jobs : Kind[j] \in Local => cluster[j] = "named"   \* not looked at
  /\ at = [r \in Roles |-> [j \in Jobs |-> "idle"]]
  /\ snap = [r \in Roles |-> [j \in Jobs |-> NoRow]]
  /\ topic = [j \in Jobs |-> 0]
  /\ results = [j \in Jobs |-> <<>>]
  /\ launches = [j \in Jobs |-> 0]
  /\ faults = 0
  /\ Pool!Init

Goto(r, j, l) == at' = [at EXCEPT ![r][j] = l]
Fault == faults < MaxFaults /\ faults' = faults + 1
Tally(j, res) == results' = [results EXCEPT ![j] = Append(@, res)]

-----------------------------------------------------------------------------
(* Faulty variants of the steps below (no part of Next).                   *)

SubmitRefusedQueues(j) ==
  /\ at["request"][j] = "created"
  /\ Pool!Refuse(j)
  /\ Goto("request", j, "markQueued")
  /\ UNCHANGED <<row, cluster, snap, topic, results, launches, faults>>

RunWithoutClusterSilently(j) ==
  /\ at["runner"][j] = "begin"
  /\ Kind[j] \in Orchestrated
  /\ cluster[j] = "absent"
  /\ Goto("runner", j, "idle")
  /\ UNCHANGED <<row, cluster, snap, topic, results, launches, faults,
                 waiting, serving, outcome>>

ConsumeWithoutCommit(j) ==
  /\ \A k \in Jobs : at["consumer"][k] = "idle"
  /\ topic[j] > 0
  /\ Goto("consumer", j, "startJob")
  /\ UNCHANGED <<row, cluster, snap, topic, results, launches, faults,
                 waiting, serving, outcome>>

OrchestrateRetries(j) ==
  /\ at["consumer"][j] = "orchestrate"
  /\ \/ Tally(j, "ok") /\ Goto("consumer", j, "orch75")
     \/ Tally(j, "error") /\ UNCHANGED at
  /\ UNCHANGED <<row, cluster, snap, topic, launches, faults,
                 waiting, serving, outcome>>

CrashWithoutConsumer ==
  /\ Fault
  /\ at' = [r \in Roles |-> [j \in Jobs |->
              IF r \in {"request", "consumer"} /\ at[r][j] # "idle"
              THEN "over" ELSE "idle"]]
  /\ snap' = [r \in Roles |-> [j \in Jobs |-> NoRow]]
  /\ Pool!Crash
  /\ UNCHANGED <<row, cluster, topic, results, launches>>

-----------------------------------------------------------------------------
(* Repository calls of the request, the runner and the consumer.           *)

Callers == Roles \ {"worker"}

ReadRow(r, j) ==
  /\ at[r][j] \in CallLabels
  /\ snap[r][j] = NoRow
  /\ snap' = [snap EXCEPT ![r][j] = row[j]]
  /\ UNCHANGED <<row, cluster, at, topic, results, launches, faults,
                 waiting, serving, outcome>>

SaveRow(r, j) ==
  /\ r \in Callers
  /\ at[r][j] \in CallLabels
  /\ snap[r][j] # NoRow
  /\ row' = [row EXCEPT ![j] = Written(at[r][j], snap[r][j])]
  /\ snap' = [snap EXCEPT ![r][j] = NoRow]
  /\ Goto(r, j, After(at[r][j], j))
  /\ UNCHANGED <<cluster, topic, results, launches, faults,
                 waiting, serving, outcome>>

(* The SELECT or the UPDATE fails, the latter possibly after the database  *)
(* applied it; the caller drops the error and goes on.                     *)
CallFails(r, j) ==
  /\ Fault
  /\ r \in Callers
  /\ at[r][j] \in CallLabels
  /\ \/ UNCHANGED row
     \/ /\ snap[r][j] # NoRow
        /\ row' = [row EXCEPT ![j] = Written(at[r][j], snap[r][j])]
  /\ snap' = [snap EXCEPT ![r][j] = NoRow]
  /\ Goto(r, j, After(at[r][j], j))
  /\ UNCHANGED <<cluster, topic, results, launches, waiting, serving, outcome>>

-----------------------------------------------------------------------------
(* CreateJob, in the goroutine of the HTTP request.                        *)

Create(j) ==
  /\ at["request"][j] = "idle"
  /\ row' = [row EXCEPT ![j] = [status |-> "pending", progress |-> 0]]
  /\ Goto("request", j, "created")
  /\ UNCHANGED <<cluster, snap, topic, results, launches, faults,
                 waiting, serving, outcome>>

(* Invalid type, or the INSERT fails: an id is a type and a second, so two *)
(* requests of one second collide on the primary key.                      *)
CreateFails(j) ==
  /\ at["request"][j] = "idle"
  /\ Goto("request", j, "over")
  /\ UNCHANGED <<row, cluster, snap, topic, results, launches, faults,
                 waiting, serving, outcome>>

SubmitAccepted(j) ==
  /\ at["request"][j] = "created"
  /\ Pool!Accept(j)
  /\ Goto("request", j, "markQueued")
  /\ UNCHANGED <<row, cluster, snap, topic, results, launches, faults>>

SubmitRefused(j) ==
  /\ at["request"][j] = "created"
  /\ Pool!Refuse(j)
  /\ Goto("request", j, "markRejected")
  /\ UNCHANGED <<row, cluster, snap, topic, results, launches, faults>>

-----------------------------------------------------------------------------
(* ProcessJob, called by a pool worker.                                    *)

Take(w) ==
  /\ Pool!Begin(w)
  /\ Goto("worker", Head(waiting), "load")
  /\ UNCHANGED <<row, cluster, snap, topic, results, launches, faults>>

(* GetJob; a job that is not pending is left alone.                        *)
Load(w) ==
  LET j == serving[w] IN
  /\ j # None
  /\ at["worker"][j] = "load"
  /\ \/ /\ row[j].status = "pending"
        /\ Goto("worker", j, "markRunning")
        /\ UNCHANGED <<waiting, serving, outcome>>
     \/ /\ row[j].status # "pending"
        /\ Goto("worker", j, "idle")
        /\ Pool!Finish(w)
  /\ UNCHANGED <<row, cluster, snap, topic, results, launches, faults>>

(* Save the running status, spawn the runner and return.                   *)
Launch(w) ==
  LET j == serving[w] IN
  /\ j # None
  /\ at["worker"][j] = "markRunning"
  /\ snap["worker"][j] # NoRow
  /\ row' = [row EXCEPT ![j] = Written("markRunning", snap["worker"][j])]
  /\ snap' = [snap EXCEPT !["worker"][j] = NoRow]
  /\ at' = [at EXCEPT !["worker"][j] = "idle", !["runner"][j] = "begin"]
  /\ launches' = [launches EXCEPT ![j] = @ + 1]
  /\ Pool!Finish(w)
  /\ UNCHANGED <<cluster, topic, results, faults>>

(* GetJob or UpdateJobStatus returns an error: no runner.                  *)
ProcessFails(w) ==
  LET j == serving[w] IN
  /\ Fault
  /\ j # None
  /\ at["worker"][j] \in {"load", "markRunning"}
  /\ \/ UNCHANGED row
     \/ /\ snap["worker"][j] # NoRow
        /\ row' = [row EXCEPT ![j] = Written("markRunning", snap["worker"][j])]
  /\ snap' = [snap EXCEPT !["worker"][j] = NoRow]
  /\ Goto("worker", j, "idle")
  /\ Pool!Finish(w)
  /\ UNCHANGED <<cluster, topic, results, launches>>

-----------------------------------------------------------------------------
(* The runner goroutine of ProcessJob.                                     *)

(* processDiagnoseJob reports two thirds before its last step,             *)
(* processMonitorJob nothing.  The events they publish change no job.      *)
RunLocal(j) ==
  /\ at["runner"][j] = "begin"
  /\ Kind[j] \in Local
  /\ Goto("runner", j, IF Kind[j] = "diagnose" THEN "run33" ELSE "work")
  /\ UNCHANGED <<row, cluster, snap, topic, results, launches, faults,
                 waiting, serving, outcome>>

FinishLocal(j) ==
  /\ at["runner"][j] = "work"
  /\ Tally(j, "ok")
  /\ Goto("runner", j, "run100")
  /\ UNCHANGED <<row, cluster, snap, topic, launches, faults,
                 waiting, serving, outcome>>

(* processProvisionJob and processScaleJob: no cluster_id, no request.     *)
RunWithoutCluster(j) ==
  /\ at["runner"][j] = "begin"
  /\ Kind[j] \in Orchestrated
  /\ cluster[j] = "absent"
  /\ Goto("runner", j, "markFailed")
  /\ UNCHANGED <<row, cluster, snap, topic, results, launches, faults,
                 waiting, serving, outcome>>

(* PublishEvent of the job_requested record.                               *)
Publish(j) ==
  /\ at["runner"][j] = "begin"
  /\ Kind[j] \in Orchestrated
  /\ cluster[j] # "absent"
  /\ topic' = [topic EXCEPT ![j] = @ + 1]
  /\ Goto("runner", j, "markHandedOff")
  /\ UNCHANGED <<row, cluster, snap, results, launches, faults,
                 waiting, serving, outcome>>

(* The producer asks for no acknowledgement and retries: the record may be *)
(* lost or written several times, and an error may follow a write.         *)
PublishUnreliably(j) ==
  /\ Fault
  /\ at["runner"][j] = "begin"
  /\ Kind[j] \in Orchestrated
  /\ cluster[j] # "absent"
  /\ \E n \in 0..MaxCopies : topic' = [topic EXCEPT ![j] = @ + n]
  /\ \E l \in {"markHandedOff", "markFailed"} : Goto("runner", j, l)
  /\ UNCHANGED <<row, cluster, snap, results, launches,
                 waiting, serving, outcome>>

(* The deferred recover.                                                   *)
RunnerPanics(j) ==
  /\ Fault
  /\ at["runner"][j] \notin {"idle", "markFailed"}
  /\ Goto("runner", j, "markFailed")
  /\ snap' = [snap EXCEPT !["runner"][j] = NoRow]
  /\ UNCHANGED <<row, cluster, topic, results, launches,
                 waiting, serving, outcome>>

-----------------------------------------------------------------------------
(* The single consumer of cluster-events.  ReadMessage commits the offset  *)
(* before the handler runs, and LeastBytes spreads the records of a job    *)
(* over partitions, so any pending record may be next.                     *)

Consume(j) ==
  /\ \A k \in Jobs : at["consumer"][k] = "idle"
  /\ topic[j] > 0
  /\ topic' = [topic EXCEPT ![j] = @ - 1]
  /\ Goto("consumer", j, "startJob")
  /\ UNCHANGED <<row, cluster, snap, results, launches, faults,
                 waiting, serving, outcome>>

(* Committed, but the read returned an error.                              *)
LoseRecord(j) ==
  /\ Fault
  /\ topic[j] > 0
  /\ topic' = [topic EXCEPT ![j] = @ - 1]
  /\ UNCHANGED <<row, cluster, at, snap, results, launches,
                 waiting, serving, outcome>>

(* CreateDroplet or ScaleCluster.                                          *)
Orchestrate(j) ==
  /\ at["consumer"][j] = "orchestrate"
  /\ \/ Tally(j, "ok") /\ Goto("consumer", j, "orch75")
     \/ Tally(j, "error") /\ Goto("consumer", j, "errorJob")
  /\ UNCHANGED <<row, cluster, snap, topic, launches, faults,
                 waiting, serving, outcome>>

-----------------------------------------------------------------------------
(* The process dies and main starts again.  The table and the topic        *)
(* survive; the channel and the goroutines do not, and nothing resubmits   *)
(* the jobs they were working on.                                          *)
Crash ==
  /\ Fault
  /\ at' = [r \in Roles |-> [j \in Jobs |->
              IF r = "request" /\ at[r][j] # "idle" THEN "over" ELSE "idle"]]
  /\ snap' = [r \in Roles |-> [j \in Jobs |-> NoRow]]
  /\ Pool!Crash
  /\ UNCHANGED <<row, cluster, topic, results, launches>>

RequestStep(j) ==
  Create(j) \/ CreateFails(j) \/ SubmitAccepted(j) \/ SubmitRefused(j)
WorkerStep(w) == Take(w) \/ Load(w) \/ Launch(w)
RunnerStep(j) ==
  RunLocal(j) \/ FinishLocal(j) \/ RunWithoutCluster(j) \/ Publish(j)
FaultStep ==
  \/ \E w \in Workers : ProcessFails(w)
  \/ \E j \in Jobs : PublishUnreliably(j) \/ RunnerPanics(j) \/ LoseRecord(j)
  \/ \E r \in Roles, j \in Jobs : CallFails(r, j)
  \/ Crash

Next ==
  \/ \E r \in Roles, j \in Jobs : ReadRow(r, j) \/ SaveRow(r, j)
  \/ \E j \in Jobs : RequestStep(j) \/ RunnerStep(j) \/ Consume(j) \/ Orchestrate(j)
  \/ \E w \in Workers : WorkerStep(w)
  \/ FaultStep

Spec == Init /\ [][Next]_vars

(* Every goroutine that can step does: requests in progress, workers,      *)
(* runners and the consumer loop.  No client must create a job and no      *)
(* fault must happen.                                                      *)
Fairness ==
  /\ \A r \in Roles, j \in Jobs : WF_vars(ReadRow(r, j) \/ SaveRow(r, j))
  /\ \A j \in Jobs :
       /\ WF_vars(SubmitAccepted(j) \/ SubmitRefused(j))
       /\ WF_vars(RunnerStep(j))
       /\ WF_vars(Orchestrate(j))
  /\ WF_vars(\E j \in Jobs : Consume(j))
  /\ \A w \in Workers : WF_vars(WorkerStep(w))

FairSpec == Spec /\ Fairness

-----------------------------------------------------------------------------
(* A job's phase as JobExecution sees it.                                  *)
PhaseOf(j) ==
  CASE launches[j] > 0 -> "launched"
    [] launches[j] = 0 /\ outcome[j] = "refused" -> "refused"
    [] launches[j] = 0 /\ outcome[j] \in {"accepted", "done", "lost"} -> "admitted"
    [] OTHER -> IF row[j] = NoRow THEN "absent" ELSE "registered"

Execution == INSTANCE JobExecution WITH
  Limit <- [j \in Jobs |-> IF Kind[j] \in Local THEN 1 ELSE MaxCopies],
  phase <- [j \in Jobs |-> PhaseOf(j)],
  attempts <- [j \in Jobs |-> Len(results[j])]

(* A job is launched at most once, only after the pool accepted it, and    *)
(* its work is attempted only after that and at most once per copy of its  *)
(* request record; this survives crashes, lost writes of the status and    *)
(* the stale statuses the unsynchronised Saves leave in the table.         *)
ImplementsExecution == Execution!Spec

(* Nobody will touch the job again.                                        *)
Quiet(j) ==
  /\ row[j] # NoRow
  /\ topic[j] = 0
  /\ ~Pool!InChannel(j)
  /\ \A r \in Roles : at[r][j] \in {"idle", "over"}

(* No row says completed before the work it stands for was attempted; the  *)
(* exception is a blank cluster_id, for which handleJobRequestedTyped      *)
(* skips the work and still reports completion.  A stale Save can carry    *)
(* "completed" only from a row that had it.                                *)
CompletedHasResult == \A j \in Jobs :
  row[j].status = "completed" => results[j] # <<>> \/ cluster[j] = "blank"

(* A completed row has progress 100 although the two fields are written by *)
(* different calls of goroutines that overwrite each other's rows; for an  *)
(* orchestrated job this needs a broker that does not duplicate the        *)
(* request record, since the handler of a copy starts all over.            *)
CompletedIsFull == \A j \in Jobs :
  Kind[j] \in Local \/ MaxCopies = 1 =>
    (row[j].status = "completed" => row[j].progress = 100)

(* A job the pool refused is never run nor given another status than       *)
(* pending (until CreateJob marks it) or queued_rejected.                  *)
RefusedStaysRefused == \A j \in Jobs :
  outcome[j] = "refused" =>
    /\ launches[j] = 0 /\ topic[j] = 0 /\ results[j] = <<>>
    /\ row[j].status \in {"pending", "queued_rejected"}

(* Without faults, a job nobody works on any more is never left pending or *)
(* running, and its status is one of those its history allows.  "queued"   *)
(* is among them: the late Saves of CreateJob and of the runner.           *)
FinalStatuses(j) ==
  CASE outcome[j] = "refused" -> {"queued_rejected"}
    [] launches[j] = 0 /\ outcome[j] # "refused" -> {"queued"}
    [] launches[j] > 0 /\ Kind[j] \in Orchestrated /\ cluster[j] = "absent" ->
         {"failed", "queued"}
    [] OTHER -> {"completed", "queued"}

SettlesFaultFree == \A j \in Jobs :
  faults = 0 /\ Quiet(j) => row[j].status \in FinalStatuses(j)

(* A record is consumed only by the job's own handler run: the records     *)
(* left, the handler under way and the attempts never exceed the copies    *)
(* the one Publish of the job may have written.                            *)
RecordsBounded == \A j \in Jobs : Kind[j] \in Orchestrated =>
  topic[j] + Len(results[j])
    + (IF at["consumer"][j] \in {"startJob", "orch10", "orch30", "orchestrate"}
       THEN 1 ELSE 0)
    <= MaxCopies * launches[j]

(* Every job that was created ends up with nobody working on it, whatever  *)
(* faults and crashes happened.                                            *)
CreatedQuiesces == \A j \in Jobs : row[j] # NoRow ~> Quiet(j)

-----------------------------------------------------------------------------
(* Statements of the documentation and of the comments.                    *)

(* tests/ManualTestWorkflows.md: the final status of a job is completed or *)
(* failed; and a failed orchestration is reported by the handler as failed *)
(* before its last progress call.                                          *)
OrchestrationErrorReported == \A j \in Jobs :
  faults = 0 /\ Quiet(j) /\ results[j] = <<"error">>
    => row[j].status # "completed"

(* docs/architecture/KNOWLEDGE_TRANSFER.md: worker goroutines process the  *)
(* ids JobService submits.                                                 *)
AcceptedRuns == \A j \in Jobs :
  faults = 0 /\ Quiet(j) /\ outcome[j] = "done" => launches[j] > 0

(* The comment in ProcessJob: a job handed to orchestration is left to the *)
(* consumer, so once the consumer has completed it the row says so.        *)
LeftToConsumer == \A j \in Jobs :
  faults = 0 /\ Quiet(j) /\ results[j] = <<"ok">> /\ Kind[j] \in Orchestrated
    => row[j].status = "completed"
=============================================================================
