# ClusterGenie: a verification project

TLA+ models of ClusterGenie (the Go backend in `src/backend/core-api` and the
React console in `src/frontend`), TLC runs that check them on small instances,
and TLAPS proofs that hold for any instance. `PROJECT.json` maps every definition
to the lines it models and lists the runs, the findings, the hazards and the
theorems.

## 1. Inventory

core-api is one Go process: a Gin HTTP server whose handlers call one service
each, a worker pool, a Kafka consumer loop and a number of goroutines spawned
on the way. MySQL (through GORM) and Redis hold what survives a restart; Kafka
carries events from the process to itself and to the log consumer, a second
process. The frontend polls the HTTP interface.

```
 HTTP request --CreateJob--> jobs table
      |                         ^   ^   ^
      +--Submit--> WorkerPool --+   |   |
                      |ProcessJob   |   |
                      +--go--> runner   |
                                 |publish job_requested
                                 v      |
                           cluster-events --consumer--> EventHandler
                                                          |
                              ProvisioningService / ClusterService
```

| Component | State | Operations | Interacts with | What is hard | What makes it correct |
|---|---|---|---|---|---|
| Worker pool (`services/workerpool.go`) | channel of ids, list of ids beside it, busy counter, running flag, stop channel | Start, Stop, Submit, workerLoop, QueueLength, ActiveWorkers, SnapshotQueue | job service submits, workers call ProcessJob | channel and list change in separate steps; select picks at random; stop channel never reopened; panics | FIFO, each accepted id handled once, refused ids never, counter exact, accepted ids get handled, Stop ends the goroutines |
| Job service (`services/jobService.go`) | none of its own | CreateJob, GetJob, ListJobs, ProcessJob and the four process*Job runners | pool, repository, producer | request, worker and runner write one row without a lock | a job is launched at most once, statuses are truthful and final |
| Job repository (`repositories/jobRepository.go`) | `jobs` table | CreateJob, GetJob, UpdateJobStatus, UpdateJobProgress, ListJobs | MySQL | read and save of the whole row in no transaction; ids of one-second resolution | no completed job without work done, status and progress agree |
| Event handler (`services/eventHandler.go`) | none | HandleEvent, handleJobRequestedTyped | consumer, job repository, provisioning, clusters, metrics | failure reported in two writes; copies of a record | attempts bounded by the records written |
| Kafka producer and consumer (`kafka/`) | topic and committed offset (in the broker) | PublishEvent, ConsumeEvents | broker | commit before handling, no acknowledgement asked, retries, any partition order | a record is handled at most once |
| Rate limiter (`services/limiter.go`, `middleware/ratelimit.go`) | token buckets in memory or in Redis, stored configurations | Allow, Snapshot, GetOrCreate, SaveConfig, DeleteConfig, the Redis script | Redis, every limited route | callers' clocks, key expiry, configuration cached for ever, lock held over a Redis call | grants of any interval within capacity plus refill |
| Deployments (`services/deploymentService.go`) | one JSON value per deployment, an index per cluster, in Redis | StartDeployment, RollbackDeployment, simulateRollout | Redis, producer | the rollout saves its private copy at every step; a restart ends it | a rollout ends, whatever is rolled back meanwhile |
| Clusters and droplets (`services/provisioningService.go`, `services/clusterService.go`, their repositories) | tables, Redis cache, membership list inside the cluster row | create, delete, scale, membership, bulk operations | event handler, autoscaler, scheduler | two writers of the list, stale cache, activation two seconds after creation, which also brings back a droplet deleted meanwhile | membership matches the droplets |
| Scheduler and providers (`services/schedulerService.go`) | usage counters of providers | Schedule, MigrateDroplet | provider and droplet repositories | read-change-write without a lock, counters before droplet | counters equal the placements |
| Autoscaler (`services/autoscalerService.go`) | policies and their index in Redis | policy CRUD, EvaluatePolicies | metrics, provisioning | policy and index in two calls; one droplet more per evaluation | size within the policy's bounds |
| Event broker (`events/events.go`) | subscribers and their channels | Subscribe, Unsubscribe, Publish | services | full channels drop, unsubscribing closes a channel in use | no send on a closed channel |
| Monitoring, metrics (`services/monitoringService.go`, `services/metrics_exporter.go`) | metrics table, exported gauges | GetMetrics, CollectMetrics, exporter | database | two requests generate the same hour | one sample per instant, gauges show the latest |
| Billing, diagnosis | none | estimates, report text | repositories | none | sums |
| Log consumer (`backend/log-consumer/main.go`) | offset | read, push to Loki | Kafka, Loki | committed before pushed | every log line pushed |
| Handlers and wiring (`handlers.go`, `main.go`) | none | parse, call, answer | all services | order of construction | |
| Logger, database setup, load generator | none | input and output | | | |

The console mounts one page per route. Each page keeps React state, sends
requests through axios and resumes the handler that awaits one when its answer
comes; nothing orders or cancels requests.

| Page (`src/frontend/src/components`) | State | Operations | What is hard | What makes it correct |
|---|---|---|---|---|
| `App.tsx` | route | visit, the navigation after a creation | an answer that comes after the page was left | nothing but that navigation happens late |
| `JobPanel.tsx`, `JobDetails.tsx` | paging, order, rows and total, two flags | load, 3-second poll, create and reload, paging, details | answers out of order; clamps by an old total; one flag for several loads | the list converges, the page exists, one creation at a time |
| `DiagnosisPanel.tsx` | diagnosis, metrics, history, marks, interval | diagnose by hand and by interval, history in localStorage, dismiss, implement, create a job | closures that remember an old history, answers after unmounting | history saved as shown, whole results, truthful marks, flags settle |
| `MonitoringPanel.tsx` | filters, paging, rows, two status cards | load, 5-second poll, scoped fetch, selects | three chained requests per load; a failure blanks a card; page kept across selects | cards come back; an empty answer means no metrics |
| `AutoscalingPanel.tsx`, `PolicyCard.tsx`, `PolicyEditor.tsx`, ... | policies, editor in three variables, switch of each card | create, edit, duplicate, templates, toggle, delete, evaluate | which policy is saved over; the card's own copy of the switch | editor and target match, cards agree with the backend |
| `ProvisioningPanel.tsx` and its tabs, `TabularSection.tsx` | droplets, tab, form, highlight, table view | template, create and reload, delete, browse the table | the flag over creation and reload; the goroutine that activates a droplet later | one creation at a time, the created droplet is shown, pages are the rows |
| `DeploymentsPanel.tsx` | deployments, selection, flags, logs | start, roll back, logs, list | the rollout goroutine overwrites manual rollbacks; restarts | every rollout ends, one start at a time |
| `ClustersPanel.tsx` | rows, filter, editor, flags | load, filter, edit and save, delete | editor reopened on another cluster during a save | rows agree with the backend, one save at a time |
| `ClusterPanel.tsx` | cluster, its droplets, tab | joint load | two reads that are no snapshot | no deleted droplet shows |
| `CreateClusterPanel.tsx` | form, flag | validate, submit, navigate | left while submitting | one submission |
| `LimiterRulesPanel.tsx` | rules, filter, modal | list, edit, save, delete | scope and id merged by the list, split by the form | what is edited is what is saved |
| `ProvidersPanel.tsx`, `BillingPanel.tsx`, `Dashboard.tsx` | rows, flags | load, create, schedule, migrate, estimate, check | one flag for several requests; two loads awaited together | flags settle, both lists shown together |
| Layout, side rail, toasts, hero, sparkline, card | none | drawing | | |

The hazards, each at its line and with the properties that cover it, are in
`PROJECT.json` under "hazards". Those without a property say why there is none.

## 2. Plan

Most important first: the job path is what the system is for, and the one where
four goroutines, a queue, a table and a topic meet. Then the console, which is
three quarters of the code and where the hazards are late, lost and reordered
answers.

| Order | Modules | Composition and abstract specification | Runs | Theorems |
|---|---|---|---|---|
| 1 | `PoolParameters`, `JobQueue`, `WorkerPool` | `WorkerPool` implements `JobQueue`, a bounded FIFO | `worker_pool`, `pool_progress`, `pool_snapshot` | types, busy counter, refinement, exactly-once, backlog, list covers the channel |
| 2 | `JobExecution`, `JobLifecycle` | `JobLifecycle` uses `JobQueue` for the pool and implements `JobExecution` | `job_lifecycle`, `job_duplicates`, three violations | types, completed has a result, refused stays refused, records bounded, refinement of `JobExecution`, attempts bounded, completed is full, fault-free jobs settle |
| 3 | `DiagnosisPanel` | alone: its interval and localStorage make it the page with most state | `diagnosis` | types, history saved, whole results, flags, marks |
| 4 | `Requests`, a module per page, `TabularSection` | each page with the part of the backend its requests reach | `metrics_empty`, `rule_edited` | |
| 5 | `Console` | the router over the pages | `console` | editor matches its target, no deleted droplets, the page of jobs exists, one action at a time, one save at a time, flags settle, rows and cards agree with the backend, both lists together, pages are the rows, the created droplet is shown, types of every page |

What could come next, in this order: the cache and the membership list behind
clusters and droplets as a module of their own, the provider counters under
concurrent migrations, and the two Redis calls behind a policy. Section 7 says
what is left out for good.

## 3. Modules and the code

**`PoolParameters`** declares the ids, worker goroutines and capacity of the
pool, with the assumption that the capacity is positive (`NewWorkerPool`
replaces any other value).

**`JobQueue`** says what the pool promises: `Accept` and `Refuse` are the two
ends of `Submit`'s select, `Begin` the receive, `Finish` the return of the
handler, `Crash` the end of the process. Its state is the channel, the id each
worker holds and what became of each id.

**`WorkerPool`** is the code. One action per step that another goroutine can see:

| Action | Code |
|---|---|
| `Start` | the swap of `running` and the `go workerLoop()` of `Start` |
| `Stop` | the swap back and `close(stopCh)`; a second close panics (`crashed`) |
| `Send`, `Refuse`, `List` | `Submit`: the non-blocking send or its default, then the append to the list under the mutex |
| `Receive`, `Exit` | the two cases of `workerLoop`'s select |
| `CountIn`, `Unlist`, `Return` | the increment, the removal of the id from the list, the handler with its deferred recover and decrement |

A handler that panics and one that returns end in the same action, because the
recover and the decrement are deferred. Goroutines are identities in `Workers`
that are born at `Start` and never come back, so several generations of workers
may be alive at a time, as in the code. `handled` and the final values of
`submit` are history.

**`JobExecution`** says what running a job means whatever its row says:
registered, then admitted or refused, launched at most once, attempted at most
`Limit` times.

**`JobLifecycle`** composes the pool (`JobQueue`, whose actions are conjuncts of
its own: `Accept` in `SubmitAccepted`, `Begin` in `Take`, `Finish` in `Load`,
`Launch` and `ProcessFails`), the jobs table, the topic and the consumer. Four
roles can work on one job: `request` (CreateJob), `worker` (ProcessJob),
`runner` (the goroutine ProcessJob spawns) and `consumer` (the event handler).
`at[r][j]` is where role `r` is in the code of job `j`. A label of `StatusAt` or
`ProgressAt` is a call of `UpdateJobStatus` or `UpdateJobProgress`; the two
tables give the value written, and every call takes two steps, `ReadRow` (the
SELECT, remembered in `snap`) and `SaveRow` (the UPDATE of the whole row).
`SetStatus` and `SetProgress` are what the repository makes of a row, and
`After` where the caller goes on. The other actions are:

| Action | Code |
|---|---|
| `Create`, `CreateFails`, `SubmitAccepted`, `SubmitRefused` | `CreateJob` |
| `Take`, `Load`, `Launch`, `ProcessFails` | `ProcessJob` up to the spawn |
| `RunLocal`, `FinishLocal` | diagnose and monitor jobs |
| `RunWithoutCluster`, `Publish`, `PublishUnreliably` | provision and scale jobs |
| `RunnerPanics` | the runner's deferred recover |
| `Consume`, `LoseRecord`, `Orchestrate` | consumer loop and `handleJobRequestedTyped` |
| `CallFails` | any repository call whose error the caller drops |
| `Crash` | the process ends and `main` starts again |

Two abstractions: what a request's `cluster_id` is (`named`, `blank` or
`absent`) is all that is kept of the parameters, and an orchestration
(`CreateDroplet`, `ScaleCluster`) either succeeds or fails. The record of a job
is a count on `topic`, because the copies are equal and any may be read next.

**The pages.** Each page is a module with one variable, `page`: a record of what
the component keeps, its requests in flight (`calls`) and the part of the backend
they reach. `Mounts` are the records of a first render, for every backend it may
find. What the user does is an action guarded by what the page offers: a disabled
button, a tab that is not rendered. Editors and modals guard nothing, for they are
only drawn over the page and every control behind them works from the keyboard. The
other actions are:

| Action | Code |
|---|---|
| `Serve(s)` | the backend acts on the request in slot `s`: the handler, service and repository it reaches |
| `Deliver(s)` | the handler resumes after its await, up to its next await or its end, `finally` included |
| `Fail(s)` | the request fails, before or after the backend acted: the handler's `catch` and `finally` |
| `Poll` | an interval fires |

A handler with a chain of awaits is one slot whose `kind` says which answer it
awaits: `create` goes on to `create reload`, `metrics` to `load rate` and `load
pool`. An empty slot holds `Idle`. `Requests` holds what the pages share. What a closure holds of a render
travels in the request (the question of a job load, `editing` of a cluster's
deletion, the selected cluster of a rollback).

| Module | Code besides the component | What is kept of the data |
|---|---|---|
| `JobPanel` | `JobDetails`, job repository's paging | an answer is its question and the number of jobs the table had: rows and total follow from the two |
| `MonitoringPanel` | chained status requests | an answer is its question; `Rows` is the number of stored metrics of each filter |
| `AutoscalingPanel` | top bar, cards, editor, evaluation | of a policy its switch and cluster; of the editor's form its switch, which policy it was filled from and whether it was put over another form |
| `ProvisioningPanel` | tabs, droplet repository with the late save of an active droplet (`Boot`), droplets that others create | of a droplet its status and its age |
| `TabularSection` | search, status filter, stable sort, pages | rows as records of number and status; operators, no state. A stable sort is the arrangement of the rows by the number of rows that come no later (`Arranged`), so that it needs no recursion |
| `DeploymentsPanel` | `deploymentService.go`: `Step`, `Issue`, `AutomaticRollback` are the rollout goroutine, `LoseSave` a failed read or save, `Restart` the end of the process | cluster and status of a deployment |
| `ClustersPanel` | update and delete of a cluster | its status |
| `ClusterPanel` | the two joint reads, droplets made and deleted before, between and after them | the members its record lists and the droplets that exist |
| `CreateClusterPanel` | | whether the name is blank |
| `LimiterRulesPanel` | list, save and delete of stored configurations in `handlers.go` | key and fields of a rule, as listed and as sent |
| `ProvidersPanel`, `BillingPanel`, `Dashboard` | | what is on display and for whom |

**`Console`** is `App.tsx`: `route` and the `page` mounted there. `Visit` unmounts
a page and mounts another; an answer to a page that is gone sets the state of a
component that is not there, which does nothing, so its requests go with it.
`late` is the exception: `navigate('/clusters')` after a creation runs wherever the
user is by then. What an earlier visit left in the backend is in the `Mounts` of
the next: policies and jobs, droplets that are still to become active, deployments
that have just been started, were rolled back while their rollout goes on, or were
cut short.

Histories record what a property must leave out, because the code does not promise
it:

| History | Records | Left out of |
|---|---|---|
| `mixed` | two requests of the page overlapped or one failed; on the autoscaling page also a save whose switch is not the policy's any more, and cards mounted anew during a request | `CardsAgree`, `ClustersAgree` |
| `over` | a new policy's form was put over an open one: *New policy* and the templates keep `editingPolicyId`, so the save goes over the policy that was being edited | `EditorMatchesTarget` |
| `missed`, `outlived` | droplets that were created or added, and deleted, after the answer that would have told | `NoDeletedDroplets` |
| `others` | droplets that somebody else created during the visit; a newer one is listed before the user's | `CreatedIsShown` |
| `stuck` | rollouts that a restart, a failed first read or a lost last save has cut short | `RolloutsEnd` |

**`DiagnosisPanel`** has its own variables, because its interval remembers the
`base` history and cluster of the render that armed it (`timer`, `Rearm`), its
handlers go on after unmounting (`live`), and their writes to localStorage
(`saved`) still happen then (`foreign`). A mark is an index into whatever is on
display: `accepted` holds which recommendation of which diagnosis a job was accepted
for, and `moved` that a job was on its way when a diagnosis came, or that an entry of
the history was loaded over marks or such a job, which is when marks do land on other recommendations.

The `MC` modules define the values the configurations need; those of the metrics
and the rules page add a specification of the page alone.
Operators named for a bug (`ReceiveNewest`, `PollFirst`, `CloseEditorOnly`, ...)
stand before the actions they alter. They are part of no specification: they show
that the properties can fail.

## 4. Runs

| Run | Instance | Checks | Shows |
|---|---|---|---|
| `worker_pool` | 5 ids, 2 workers of two generations, 2 slots, symmetry | types, `ExactlyOnce`, `Backlog`, `ActiveCounts`, `ListCoversQueue`, `ImplementsQueue` | the pool is a FIFO queue that handles each id once, its counter is exact and its list misses only ids being submitted |
| `pool_progress` | 4 ids, 2 workers, 1 slot | `AcceptedIsHandled`, `StopHalts` | accepted ids are handled unless the pool is stopped, and a stopped pool ends |
| `job_lifecycle` | a provision and a diagnose job, 1 worker, 1 slot, 1 fault | types, `CompletedHasResult`, `CompletedIsFull`, `RefusedStaysRefused`, `SettlesFaultFree`, `RecordsBounded`, `ImplementsExecution` | with any interleaving and one fault anywhere the rows stay truthful and no job runs twice |
| `job_duplicates` | one provision job, a publish that may write two records, 3 faults | `CompletedHasResult`, `RecordsBounded`, `ImplementsExecution`, `CreatedQuiesces` | attempts stay within the copies and the job always ends up with nobody working on it |
| `pool_snapshot` | 2 ids, 2 workers, 2 slots | violates `SnapshotIsQueue` | finding 1 |
| `job_error_reported` | one provision job, no fault | violates `OrchestrationErrorReported` | finding 2 |
| `job_accepted_runs` | the same | violates `AcceptedRuns` | finding 3 |
| `job_left_to_consumer` | the same | violates `LeftToConsumer` | finding 4 |
| `diagnosis` | 2 clusters, history of 2, 3 diagnoses, 1 job, 2 mounts, symmetry | types, `HistoryPersisted`, `ShownWhole`, `Settles`, `MarksWereAccepted` | manual, automatic and historical diagnoses, late answers and remounts leave one history, whole results, no flag, and no false mark but those of `moved` |
| `console` | every route but the diagnosis, 2 requests of a page in flight, 1 failure per visit | types, `OneAtATime`, `OneSave`, `BusyFlagsSettle`, `JobsPageExists`, `EditorMatchesTarget`, `CardsAgree`, `ClustersAgree`, `PagesAreRows`, `NoDeletedDroplets`, `ShownTogether`, `CreatedIsShown`, `JobsConverge`, `StatusRecovers`, `RolloutsEnd` | no action is doubled, no flag stays on, what is shown agrees with the backend up to the histories of section 3, and polling, cards and rollouts come to rest |
| `metrics_empty` | the metrics page alone, 1 cluster, 1 type | violates `NoMetricsMeansNone` | finding 5 |
| `rule_edited` | the rules page alone, 1 name, 1 cluster | violates `EditTargetsRule` | finding 6 |

Deadlock is not checked: ids are submitted once and clicks are bounded, so every
behaviour may end, and a stopped pool is meant to.

The findings, with the text they contradict, are in `PROJECT.json`:

1. A worker that receives an id before `Submit` has listed it removes nothing,
   and the id stays in `SnapshotQueue`'s answer for ever (`workerpool.go:101`).
2. A failed orchestration is written as `failed` and then as progress 100,
   which `UpdateJobProgress` turns into `completed` (`eventHandler.go:237`).
3. `CreateJob` writes `queued` after it has submitted. A worker that loads the
   row later finds a status that is not `pending` and leaves the job alone
   (`jobService.go:81`).
4. The runner writes `queued` after publishing. When that comes after the
   consumer's last write, a job that was done reads `queued` for ever
   (`jobService.go:162`).

5. The selects of the metrics page keep the page number. The second page of all
   metrics becomes a page a cluster does not have, the answer is empty, and the
   page says the cluster has no metrics (`MonitoringPanel.tsx:210`).
6. The list of limiter rules merges scope and id, and the form sends the merged
   scope with an empty id, which the backend takes to be global: saving an edited
   rule of a cluster writes the global rule (`LimiterRulesPanel.tsx:72`).

`SettlesFaultFree` states what is left of the final status under these:
completed, failed or the stale `queued`, and never `pending` or `running`.

### Bounds and why they are enough

- *Ids and workers.* The pool's steps concern one worker and one id at a time.
  Five ids on two slots and two workers are one more than the pool can hold, so
  refusal is reached with every worker busy, and two slots are the least for
  which order matters. The proofs of section 6 remove these bounds.
- *WorkerCount = 1 per Start.* The workers of one Start do not differ from those
  of another, except that Start needs them unborn. Two goroutines with one per
  Start are two generations at a time, the case Start and Stop make hard; there
  is never a third, because the second Stop panics.
- *Two jobs, one worker, one slot.* Jobs share the pool and the consumer and
  nothing else. Two are enough for the second to be refused, to wait, or to keep
  the consumer busy.
- *MaxFaults* bounds failed calls, panics, lost records and crashes together: one
  with two jobs, three with one. Three suffice for a duplicated publish that also
  reports an error, followed by a failed call and a crash.
- *MaxCopies = 2* for one WriteMessages: the third copy of a record meets the
  handler as the second does, in a state the second has left.
- *Kinds.* A scale job differs from a provision job in the service it calls,
  a monitor job from a diagnose job in fewer progress calls, so the runs use
  one of each pair. `ScaleAndMonitor` gives the others.

- *Two slots.* Two requests of a page in flight are the least that overtake each
  other; handlers of one page share only flags and the last answer, so a third
  adds no order two do not have. A user or an interval waits for a slot.
- *`Changes`* bounds what the user starts on a visit of each page, one to three:
  three where a third action undoes a change (load, toggle, save). On the rollouts
  page two are enough for a manual rollback, because the visit finds a deployment:
  selecting its cluster is the first. What needs no request (opening and filling an
  editor, tabs) is not bounded, nor are polls.
- *One failure per visit* (`MaxFailures`), at any request, before or after the
  backend acted; for deployments also a lost save or a restart.
- *`Waits`*: while the answer to a created cluster is due the user visits only
  three pages: the form itself, the clusters and one other. The late navigation
  leaves the others in the same way.
- *Tables*: two jobs on pages of one and two, two policies of one cluster, two
  droplets, two deployments of two steps, one cluster. Of droplets and deployments
  all but one may be there when the page is opened, in each state of section 3. Two
  rows are the least that
  make a second page and a wrong target. Two pages of metrics are the least for
  finding 5.
- *Two kept diagnoses for ten*: three diagnoses overflow the history.

### Fairness

`WorkerPool`: weak fairness of each worker's step and of the second step of
`Submit`, because the Go scheduler runs every runnable goroutine and handlers
return (`ProcessJob` touches the database and spawns a goroutine); weak fairness
of the first `Start`, which `main` calls before it serves requests. Nothing
obliges anyone to submit or to stop. A worker's choice between a closed stop
channel and a waiting id is left open. `StopHalts` does not depend on it, for ids
run out.

`JobLifecycle`: weak fairness of the goroutines in progress: the request after
its insert, workers, runners, the consumer loop and each repository call. No
client must create a job and no fault must happen. After a crash `main` restarts
the pool and the consumer, so the same fairness holds again.

`Console`: weak fairness of the intervals of the jobs and the metrics page, because
the browser fires them while the page is mounted; of the answers of these two pages,
because axios settles every promise (a failed request is an answer, and failures are
bounded); and of each rollout goroutine, which the Go scheduler runs. Nothing obliges
the user to click or to stay: the three properties say what happens on a page that is
left open. `JobsConverge` and `StatusRecovers` need the poll itself to be fair, for a
failed or overtaken load has no other successor. `DiagnosisPanel` states safety only
and needs none.

## 5. What only the runs show

- Every liveness property (`AcceptedIsHandled`, `StopHalts`, `CreatedQuiesces`,
  `JobsConverge`, `StatusRecovers`, `RolloutsEnd`): liveness under fairness and ENABLED are beyond the prover.
- The findings, which are counterexamples.

Every invariant and every safety action property of the runs is also a theorem.
Induction over data is beyond the prover too. No module declares a recursive operator,
and the one recursive function, the pages joined one after the other in
`PagesCoverRows`, needs no induction: were the first `n` pages not the first rows for
some `n`, there would be a least such `n` (`LeastNatural`), and the page before it
would join up (`OneJoining`, `PagesJoined`).

## 6. Proofs

Assumptions: the capacity is a positive natural and `None` is no id
(`PoolAssumption`), the goroutines are finitely many (`WorkersAssumption`), a
Start launches a positive number (`CountAssumption`), and each job has one of the
four types, a cluster parameter may be named, a publish leaves at most `MaxCopies`
records and a behaviour has at most `MaxFaults` faults (`LifecycleAssumption`); the
diagnosis page keeps a positive number of entries (`DiagnosisAssumption`); page sizes
are positive and the first one is on offer, the bounds on stored jobs, droplets and
deployments are naturals and those on pages of metrics and on providers positive, `None`
is no number and no status of a droplet, `Unset` no direction, the order of the table's
column has both statuses of a droplet, every policy has a cluster, a rollout has a
monitored step and a page room for two requests, as many as some pages mount with
(`ConsoleAssumption`). TLC evaluates all of them.

**`JobQueueProofs`.** `TypeCorrect` and `ExactlyOnceHolds`. `ExactlyOnce` is
inductive once the types are known: its four conjuncts together say that each
accepted id is in exactly one place, so a receive moves it from the channel to a
worker that held nothing, and a return removes the only holder. Only the shift of
positions by `Tail` needs care (lemma `TailPositions`).

**`WorkerPoolProofs`.** The inductive invariant is

    IInv == TypeOK /\ Places /\ ActiveCounts

`TypeOK` alone is not inductive: `Return` decrements the counter, and only
`ActiveCounts` says that the counter is then positive, since the returning worker
is one of those it counts. `Places` relates the program counters to the data: a
worker holds an id exactly between its receive and its return, and ids in the
channel, held or handled were sent. It is what the refinement needs: an id that
`Send` or `Refuse` starts from has outcome "new" and not "done", a worker that
receives holds nothing and one that returns holds an id. From it:

- `TypeCorrect`, `ActiveCountsHolds`: the type invariant and the busy counter;
- `Refinement`: every step of the pool is a step of `JobQueue` or changes nothing
  it sees (`Start`, `Stop`, `List`, `Exit`, `CountIn`, `Unlist`);
- `ExactlyOnceHolds`: `JobQueueProofs!ExactlyOnceHolds`, instantiated with the
  refinement mapping;
- `BacklogHolds`: the ids owed are in the channel or in a hand (`ExactlyOnce`), the
  channel is never over its capacity (`RoomHolds`), and an image is no larger than
  what it is the image of;
- `ListCoversQueueHolds`: `ListInv` adds that a listed id is one whose `Submit` has
  ended, without which `List` could list an id twice. `Unlist` takes an id that is
  held, and so not in the channel any more.

The lemmas before them are about library operators: `MinIsMember` (a least
element exists, from the well-foundedness of inclusion on intervals),
`RemoveFirstType` (removing an element leaves a sequence over the same set) and
`RemoveFirstKeeps` (every other element stays, and no two become equal).

**`JobLifecycleProofs`.** The inductive invariant is `TypeOK` and, for each job,

    JobInv(j) == Located(j) /\ Requested(j) /\ Launched(j) /\ Budget(j) /\ Truthful(j)

| Part | Says | Needed because |
|---|---|---|
| `Located` | each role is at a label of its own code | `SaveRow` goes on to `After(l, j)`, so the label decides what is written next |
| `Requested` | until it submits, the request owns the row; after a refusal it is the only writer | `Launch` and the consumer could otherwise write a refused row |
| `Launched` | a worker is on a job only while the pool owes its execution; a launched job is one the pool has done with; before, no runner, record, handler or attempt exists | a second `Launch` must be impossible although the row may read `pending` again after a stale save |
| `Budget` | the attempts made, under way and still on the topic are within the limit | a record turns into a handler and a handler into an attempt |
| `Truthful` | rows, unsaved snapshots and goroutines about to write "completed" all have work behind them | a stale save may bring back an old status, so the snapshots count as rows |

Each action changes one job, so `OneJobMoves` reduces a step to that job and
`Frame` carries the others. `Crash` changes all of them. What the pool contributes
(`ExactlyOnce`: the id at the head of the channel is accepted) is not proved
again: `PoolStep` shows that a step of the lifecycle is a step of `JobQueue` and
`PoolHolds` instantiates the theorems of `JobQueueProofs`. From the invariant:

- `TypeCorrect`, `CompletedHasResultHolds`, `RefusedStaysRefusedHolds`,
  `RecordsBoundedHolds`: the type invariant and three of the safety properties of
  the runs;
- `Refinement`: a step is a step of `JobExecution` or unseen by it. `PhaseKept`
  is the reason most steps are unseen: a row decides the phase only until the
  pool is asked, so no repository call, stale or failed, can move it. The steps
  that are seen are `Create`, the two ends of `Submit`, `Launch`, `FinishLocal`
  and `Orchestrate`;
- `AttemptsBoundedHolds`: the limit of `JobExecution`, for the implementation.

What a row says at the end depends on who saves last, and needs a second invariant on
top of the first, `EInv`, for each job

    Ends(j) == Routed(j) /\ Filled(j) /\ Settled(j)

| Part | Says | Needed because |
|---|---|---|
| `Routed` | an orchestrated job's runner makes no local call; a job without a cluster reaches no topic; records and handler are copies of one publish; a held id has its worker | the last writer of a row can only be told if the writers are known |
| `Filled` | as long as anyone may still write a progress below 100, neither the row nor an unsaved snapshot says completed | a partial progress on a completed row is made by two goroutines, neither of which sees it |
| `Settled` | without faults: what the row says while the request owns it, and, once runner, topic and consumer are done with the job, that it is completed, failed or the stale `queued` | between two saves the row may read anything its writers ever read |

`Filled` is about local jobs and about orchestrated ones with a single copy of their
record. The handler of a second copy starts over and writes progress 10 on the completed
row of the first, which is why `CompletedIsFull` has that hypothesis; TLC finds the
counterexample with `MaxCopies = 2`. From `EInv`: `CompletedIsFullHolds`, under any faults
and crashes, and `SettlesFaultFreeHolds`, which also uses `ExactlyOnce` of the pool: an
accepted job that is not in the channel is in a worker's hand, so it is not at its end.

**`DiagnosisPanelProofs`.** `TypeInv` adds the numbering of the requests to `TypeOK`;
`ExtendedIsHistory` says that an entry in front of a history cut to `Kept` is a
history of `Kept` entries, which is why neither the shown nor the saved one outgrows
the bound. The four other properties are inductive on their own: an answer writes
`history` and `saved` together or, from a mount that is gone, sets `foreign`; a
diagnosis and its metrics are set by the same handlers; the flags are cleared by
either end of a diagnosis of this mount, and set only with a new one. `MarksInv` is the
exception: as long as nothing has `moved`, every job on its way was also asked for
under the diagnosis on display, so the mark its answer makes is on that diagnosis.

**`ConsoleProofs`.** The properties are about one route, so their invariants are
implications from the route. `StepKinds` reduces a step of the console to nothing, a
step of the mounted page, or a mount, and each page brings a lemma for its mount and
one for its step.

| Invariant | Says, beyond the property | Needed because |
|---|---|---|
| `EditorInv` | a closed editor holds no policy, and every save on its way fits its policy | *New policy* and the templates fill the form without resetting `editingPolicyId`; only over an open form may that leave a policy in it |
| `ClusterInv` | each answer is what there is but for `missed` and `outlived`, and what is shown is what both answers have | the two answers are of two moments, and either may be outdated when they are joined |
| `JobsInv` | the total on display and in every answer is at most the number stored; a details page awaits only its job | *Next* and *Last* clamp to such a total, and pages of a smaller table are pages of a larger one (`PagesGrow`) |

From them `EditorMatchesTargetHolds`, `NoDeletedDropletsHolds` and
`JobsPageExistsHolds`, for any page sizes, bounds and number of requests in flight.

**`ConsoleFlagsProofs`.** What the busy flags of nine pages promise, for any number of
requests in flight. There are two kinds of flags, and the invariant keeps them apart:

| Kind | Says | Because |
|---|---|---|
| `Exactly` | the flag is on exactly while one request of its kinds is in flight | the button that sends it is disabled until it is answered |
| `Covered` | the flag is off unless a request of its kinds is in flight | loads overlap, and the first to end turns the flag off for all |

The second half of `Exactly` is the strengthening: that at most one save is in flight
(`OneSave`) is inductive only if none is while the flag is off. Every action fills one slot, so `FlaggedStep` reduces it to the
kind that leaves the slot, the kind that enters it and the flags before and after; each
page has a lemma for its mount and one for its step, with a case for each action. Pages
whose handlers choose by the kind of the request (billing, creation of a cluster,
providers) also keep the kinds there can be. `FlagsInv` joins the pages by route, and
from it follow `OneAtATimeHolds`, `OneSaveHolds` and `BusyFlagsSettleHolds`.

**`ConsoleAgreementProofs`.** What is shown agrees with the backend. The two larger
properties speak of pages whose requests have neither overlapped nor failed, so one
request is in flight at most (`Alone`), and the invariants go along with it:

| Invariant | Says | Needed because |
|---|---|---|
| `AgreeInv` | at rest the rows are the backend's; the answer of a load is the table | every change goes on to a load, which makes up for what the change did |
| `CardsInv` | at rest list, card and backend agree; a toggle in flight has its card ahead of the backend; during a load only a deleted policy's card may differ; an update in flight writes the switch there is | no card follows what an update writes; one with another switch, flipped behind the editor since it was filled, sets `mixed` |

From them `ClustersAgreeHolds` and `CardsAgreeHolds`; `ShownTogetherHolds` needs no
more than the property itself.

**`ConsoleTypesProofs`.** The types of all the pages, and what rests on those of the
table of droplets. It comes in three parts.

*The table.* `TotalOrder` is what a sort must be. In a total order of finitely many
places the ranks are `1 .. n`, each of one place (`RankRange`, `RankOrders`, `RankOnto`),
so `Arranged` is a sequence of all of them without repetition (`ArrangedRows`). Stable
sorting is such an order whatever ties there are (`SortedTotal`), which gives
`FilteredRows`; with the pages joined (`PagesJoined`) this is `TablePages`, for any rows
and view. `PagesAreRowsHolds` only needs the types of the page besides.

*The created droplet.* `CreatedInv` says that while a creation awaits its reload, its
droplet is the newest there is but for those of others (`Newest`), and that the lists on
display and on their way have no droplet that was never made; no other creation of this
page can be in flight (`OneCreating`, from `FlagsInv`). The rows are newest first, so it
is the first row of the first page (`FirstRow`) unless it was deleted or a newer one of
somebody else's is listed;
`CreatedIsShownHolds` is an action property and follows from the invariant before the
step that ends the creation.

*The types.* `TypesInv` gives each route the set of its typed pages, with their requests
in flight typed too: a display is typed only if the answers are. Three pages need more
than types.

| Set | Says, beyond types | Needed because |
|---|---|---|
| `PoliciesPages` | an open editor and a request that saves one hold a form | a closed editor holds none, and a save sends what the editor has |
| `JobsTyped` | as long as a creation is unanswered, fewer jobs are stored than there may be | the answer adds one; only one creation is in flight (`JobFlagsInv`) |
| `RolloutsPages` | rows, answers, rollouts and rollbacks on their way are of deployments in the database | it never forgets one, so a rollback of an old row still finds it |

From it `TypeOKHolds`, for the console as a whole.

## 7. What is not modelled

Within the modelled backend: the branch of `CreateJob` without a pool (`main` always
attaches one), `Result` and the times in a job row, the events that change no job, the
wording of messages, logging and metrics.

Of the backend behind the pages only what their requests reach is modelled, as one
step each: the caches, the membership list under concurrent updates, scaling and bulk
operations, provider counters and evaluations of policies are not. The token buckets
of the limiter are arithmetic on real time, of which TLC would see a few ticks and the
prover no Redis script. The generation of mock metrics, billing and diagnosis reports
are stateless. Nobody subscribes to the event broker. HTTP parsing, the log consumer,
the logger, database setup and the load generator are input and output.

Of the console: layout, toasts, drawing, the analytics computed from the diagnosis
history, the limiter-rule card of the metrics page (it makes the calls of the rules
page), the search and order of the cluster rows, the cluster filter of the provisioning
page, and the choice of table columns. Inputs are kept only as far as a guard looks at
them. `PROJECT.json` names the left-out part of each component.
