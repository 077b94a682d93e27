------------------------- MODULE JobLifecycleProofs -------------------------
(* Proofs about JobLifecycle, for any jobs, kinds, workers, capacity,      *)
(* number of record copies and number of faults.                           *)
EXTENDS JobLifecycle, SequenceTheorems, TLAPS

-----------------------------------------------------------------------------
(* The labels of each role, and the two tables of calls spelled out.       *)

RequestCalls == {"markQueued", "markRejected"}
RunnerCalls == {"run33", "run66", "run100", "rerun100",
                "markCompleted", "markHandedOff", "markFailed"}
ConsumerCalls == {"startJob", "orch10", "orch30", "orch75", "orch100",
                  "errorJob", "error100"}

RequestLabels == RequestCalls \cup {"idle", "created", "over"}
WorkerLabels == {"idle", "load", "markRunning"}
RunnerLabels == RunnerCalls \cup {"idle", "begin", "work"}
ConsumerLabels == ConsumerCalls \cup {"idle", "orchestrate"}

LEMMA CallsOf ==
  CallLabels = RequestCalls \cup RunnerCalls \cup ConsumerCalls \cup {"markRunning"}
<1>1. DOMAIN StatusAt = {"markQueued", "markRejected", "markRunning",
        "markHandedOff", "markCompleted", "markFailed", "startJob", "errorJob"}
  BY DEF StatusAt
<1>2. DOMAIN ProgressAt = {"run33", "run66", "run100", "rerun100",
        "orch10", "orch30", "orch75", "orch100", "error100"}
  BY DEF ProgressAt
<1> QED BY <1>1, <1>2 DEF CallLabels, RequestCalls, RunnerCalls, ConsumerCalls

(* What a call writes.                                                     *)
Finishing == {"markCompleted", "run100", "rerun100", "orch100", "error100"}

LEMMA WrittenRow ==
  ASSUME NEW l \in CallLabels, NEW r \in Rows
  PROVE  /\ Written(l, r) \in Rows
         /\ Written(l, r).status = "completed" =>
              r.status = "completed" \/ l \in Finishing
         /\ l = "markRejected" => Written(l, r).status = "queued_rejected"
<1>1. CASE l \in DOMAIN StatusAt
  <2>1. Written(l, r) = SetStatus(r, StatusAt[l])
    BY <1>1 DEF Written
  <2>2. StatusAt[l] \in Statuses
    BY <1>1 DEF StatusAt, Statuses
  <2>3. StatusAt[l] = "completed" => l \in Finishing
    BY <1>1 DEF StatusAt, Finishing
  <2>4. l = "markRejected" => StatusAt[l] = "queued_rejected"
    BY <1>1 DEF StatusAt
  <2> QED BY <2>1, <2>2, <2>3, <2>4 DEF SetStatus, Rows
<1>2. CASE l \notin DOMAIN StatusAt
  <2>1. l \in DOMAIN ProgressAt
    BY <1>2 DEF CallLabels
  <2>2. Written(l, r) = SetProgress(r, ProgressAt[l])
    BY <1>2 DEF Written
  <2>3. ProgressAt[l] \in 0..100
    BY <2>1 DEF ProgressAt
  <2>4. ProgressAt[l] >= 100 => l \in Finishing
    BY <2>1 DEF ProgressAt, Finishing
  <2>5. l # "markRejected"
    BY <2>1 DEF ProgressAt
  <2> QED BY <2>2, <2>3, <2>4, <2>5 DEF SetProgress, Rows, Statuses
<1> QED BY <1>1, <1>2

LEMMA NoRowIsNone == NoRow \notin Rows /\ NoRow.status = "absent"
BY DEF NoRow, Rows, Statuses

(* Where a caller goes on after a call.                                    *)
LEMMA AfterCall ==
  ASSUME NEW j, NEW l
  PROVE  /\ l \in RequestCalls => After(l, j) = "over"
         /\ l \in RunnerCalls =>
              /\ After(l, j) \in RunnerLabels \ {"begin", "run33"}
              /\ After(l, j) \in {"run66", "work"} => l \in {"run33", "run66"}
              /\ After(l, j) \in Finishing => l \in Finishing
         /\ l \in ConsumerCalls =>
              /\ After(l, j) \in ConsumerLabels \ {"startJob"}
              /\ After(l, j) \in {"orch10", "orch30", "orchestrate"} =>
                   l \in {"startJob", "orch10", "orch30"}
              /\ After(l, j) \in Finishing \cup {"orch75", "errorJob"} =>
                   \/ l \in Finishing \cup {"orch75", "errorJob"}
                   \/ cluster[j] = "blank"
<1>1. CASE l \in RequestCalls
  BY <1>1 DEF After, RequestCalls, RunnerCalls, ConsumerCalls
<1>2. CASE l \in RunnerCalls
  BY <1>2 DEF After, RequestCalls, RunnerCalls, ConsumerCalls, RunnerLabels, Finishing
<1>3. CASE l \in ConsumerCalls
  BY <1>3 DEF After, RequestCalls, RunnerCalls, ConsumerCalls, ConsumerLabels, Finishing
<1> QED BY <1>1, <1>2, <1>3

-----------------------------------------------------------------------------
(* The inductive invariant, job by job.                                    *)

(* Each goroutine is somewhere in its own code.                            *)
Located(j) ==
  /\ at["request"][j] \in RequestLabels
  /\ at["worker"][j] \in WorkerLabels
  /\ at["runner"][j] \in RunnerLabels
  /\ at["consumer"][j] \in ConsumerLabels

(* What the request knows: until it submits, the row is its own; after a   *)
(* refusal it stays so.                                                    *)
Requested(j) ==
  /\ at["request"][j] = "idle" => row[j] = NoRow /\ outcome[j] = "new"
  /\ at["request"][j] = "created" => row[j] # NoRow /\ outcome[j] = "new"
  /\ outcome[j] = "new" =>
       /\ at["request"][j] \in {"idle", "created", "over"}
       /\ row[j].status \in {"absent", "pending"}
  /\ outcome[j] = "refused" =>
       /\ at["request"][j] \in {"markRejected", "over"}
       /\ row[j].status \in {"pending", "queued_rejected"}

(* A worker is on the job only while the pool owes its execution; a job    *)
(* launched is one the pool has done with, and until then nobody else has  *)
(* touched it.                                                             *)
Launched(j) ==
  /\ at["worker"][j] # "idle" => outcome[j] = "accepted"
  /\ launches[j] \in {0, 1}
  /\ launches[j] = 1 => outcome[j] = "done"
  /\ launches[j] = 0 =>
       /\ at["runner"][j] = "idle" /\ at["consumer"][j] = "idle"
       /\ topic[j] = 0 /\ results[j] = <<>>

(* The attempts made and still to come are within the limit of the kind.   *)
Undone(j) ==
  IF at["consumer"][j] \in {"startJob", "orch10", "orch30", "orchestrate"}
  THEN 1 ELSE 0

Budget(j) ==
  \/ /\ Kind[j] \in Local
     /\ topic[j] = 0 /\ at["consumer"][j] = "idle"
     /\ at["runner"][j] \in {"begin", "run33", "run66", "work"} => results[j] = <<>>
     /\ Len(results[j]) <= 1
  \/ /\ Kind[j] \in Orchestrated
     /\ at["runner"][j] \notin {"run33", "run66", "work"}
     /\ at["runner"][j] = "begin" =>
          topic[j] = 0 /\ at["consumer"][j] = "idle" /\ results[j] = <<>>
     /\ topic[j] + Len(results[j]) + Undone(j) <= MaxCopies

(* Whoever says or is about to say completed has work to show for it, or   *)
(* works on a request without a cluster.                                   *)
Done(j) == results[j] # <<>> \/ cluster[j] = "blank"

Truthful(j) ==
  /\ row[j].status = "completed" => Done(j)
  /\ \A r \in Roles : snap[r][j].status = "completed" => Done(j)
  /\ \A r \in Roles :
       at[r][j] \in Finishing \cup {"orch75", "errorJob"} => Done(j)

JobInv(j) == Located(j) /\ Requested(j) /\ Launched(j) /\ Budget(j) /\ Truthful(j)

IInv == TypeOK /\ \A j \in Jobs : JobInv(j)

(* A step that changes nothing of a job keeps its part of the invariant.   *)
Untouched(j) ==
  /\ row'[j] = row[j] /\ topic'[j] = topic[j] /\ results'[j] = results[j]
  /\ launches'[j] = launches[j] /\ outcome'[j] = outcome[j]
  /\ \A r \in Roles : at'[r][j] = at[r][j] /\ snap'[r][j] = snap[r][j]

LEMMA Frame ==
  ASSUME NEW j, JobInv(j), cluster' = cluster, Untouched(j)
  PROVE  JobInv(j)'
BY DEF Untouched, JobInv, Located, Requested, Launched, Undone, Budget, Done, Truthful, Roles

LEMMA InitIInv == Init => IInv
<1> SUFFICES ASSUME Init PROVE IInv
  OBVIOUS
<1> USE LifecycleAssumption DEF Init
<1>1. TypeOK
  <2>1. Pool!TypeOK
    BY DEF Pool!Init, Pool!TypeOK, Pool!Outcomes
  <2>2. at \in [Roles -> [Jobs -> Labels]]
    BY DEF Labels
  <2>3. results \in [Jobs -> Seq({"ok", "error"})]
    OBVIOUS
  <2> QED BY <2>1, <2>2, <2>3 DEF TypeOK
<1>2. ASSUME NEW j \in Jobs PROVE JobInv(j)
  <2>1. \A r \in Roles : at[r][j] = "idle" /\ snap[r][j] = NoRow
    OBVIOUS
  <2>2. outcome[j] = "new" /\ row[j] = NoRow /\ topic[j] = 0 /\ results[j] = <<>>
        /\ launches[j] = 0
    BY DEF Pool!Init
  <2>3. Located(j) /\ Requested(j) /\ Launched(j)
    BY <2>1, <2>2, NoRowIsNone DEF Located, Requested, Launched, Roles,
      RequestLabels, WorkerLabels, RunnerLabels, ConsumerLabels
  <2>4. Budget(j)
    BY <2>1, <2>2 DEF Budget, Undone, Roles
  <2>5. Truthful(j)
    BY <2>1, <2>2, NoRowIsNone DEF Truthful, Finishing
  <2> QED BY <2>3, <2>4, <2>5 DEF JobInv
<1> QED BY <1>1, <1>2 DEF IInv

-----------------------------------------------------------------------------
(* The updates of the two nested functions, pointwise.                     *)
LEMMA GotoAt ==
  ASSUME TypeOK, NEW r \in Roles, NEW j \in Jobs, NEW l \in Labels, Goto(r, j, l)
  PROVE  /\ at' \in [Roles -> [Jobs -> Labels]]
         /\ \A s \in Roles, k \in Jobs :
              at'[s][k] = IF s = r /\ k = j THEN l ELSE at[s][k]
BY DEF TypeOK, Goto

LEMMA SnapSet ==
  ASSUME TypeOK, NEW r \in Roles, NEW j \in Jobs, NEW v \in Rows \cup {NoRow},
         snap' = [snap EXCEPT ![r][j] = v]
  PROVE  /\ snap' \in [Roles -> [Jobs -> Rows \cup {NoRow}]]
         /\ \A s \in Roles, k \in Jobs :
              snap'[s][k] = IF s = r /\ k = j THEN v ELSE snap[s][k]
BY DEF TypeOK

LEMMA LabelsOfRoles ==
  /\ RequestLabels \subseteq Labels /\ WorkerLabels \subseteq Labels
  /\ RunnerLabels \subseteq Labels /\ ConsumerLabels \subseteq Labels
BY CallsOf DEF Labels, RequestLabels, WorkerLabels, RunnerLabels, ConsumerLabels,
  RequestCalls, RunnerCalls, ConsumerCalls

(* The end of a repository call of the request, the runner or the          *)
(* consumer, whether it saved the row or failed.                           *)
LEMMA CallEnds ==
  ASSUME TypeOK, NEW j \in Jobs, JobInv(j), NEW r \in Callers,
         at[r][j] \in CallLabels,
         cluster' = cluster, topic' = topic, results' = results,
         launches' = launches, outcome' = outcome,
         \/ row'[j] = row[j]
         \/ snap[r][j] # NoRow /\ row'[j] = Written(at[r][j], snap[r][j]),
         \A s \in Roles : snap'[s][j] = IF s = r THEN NoRow ELSE snap[s][j],
         \A s \in Roles : at'[s][j] = IF s = r THEN After(at[r][j], j) ELSE at[s][j]
  PROVE  JobInv(j)'
<1> DEFINE l == at[r][j]
<1>0. r \in Roles /\ r \in {"request", "runner", "consumer"}
  BY DEF Callers, Roles
<1>1. /\ r = "request" => l \in RequestCalls
      /\ r = "runner" => l \in RunnerCalls
      /\ r = "consumer" => l \in ConsumerCalls
  BY CallsOf DEF JobInv, Located, RequestLabels, RunnerLabels, ConsumerLabels,
    RequestCalls, RunnerCalls, ConsumerCalls
<1>2. snap[r][j] # NoRow => snap[r][j] \in Rows
  BY <1>0 DEF TypeOK
<1>3. row'[j] # row[j] =>
        /\ row'[j] \in Rows
        /\ row'[j].status = "completed" =>
             snap[r][j].status = "completed" \/ l \in Finishing
        /\ l = "markRejected" => row'[j].status = "queued_rejected"
  BY <1>2, WrittenRow
<1>4. Located(j)'
  BY <1>0, <1>1, AfterCall DEF JobInv, Located, Roles, RequestLabels
<1>5. r # "request" => outcome[j] = "done"
  BY <1>0, <1>1 DEF JobInv, Launched, RunnerCalls, ConsumerCalls
<1>6. Requested(j)'
  <2>1. CASE r = "request"
    <3>1. at'["request"][j] = "over" /\ outcome[j] # "new"
      BY <1>0, <1>1, <2>1, AfterCall DEF JobInv, Requested, RequestCalls, Roles
    <3>2. outcome[j] = "refused" => l = "markRejected"
      BY <1>1, <2>1 DEF JobInv, Requested, RequestCalls
    <3> QED BY <1>3, <3>1, <3>2 DEF JobInv, Requested
  <2>2. CASE r # "request"
    BY <1>5, <1>0, <2>2 DEF JobInv, Requested, Roles
  <2> QED BY <2>1, <2>2
<1>7. Launched(j)'
  BY <1>0, <1>1 DEF JobInv, Launched, Roles, RunnerCalls, ConsumerCalls
<1>8. Budget(j)'
  <2>1. CASE r = "request"
    BY <1>0, <2>1 DEF JobInv, Budget, Undone, Roles
  <2>2. CASE r = "runner"
    BY <1>0, <1>1, <2>2, AfterCall DEF JobInv, Budget, Undone, Roles
  <2>3. CASE r = "consumer"
    <3>1. Undone(j)' <= Undone(j) /\ Undone(j) \in Nat /\ Undone(j)' \in Nat
      BY <1>0, <1>1, <2>3, AfterCall DEF Undone, Roles
    <3>2. topic[j] \in Nat /\ Len(results[j]) \in Nat /\ MaxCopies \in Nat
      BY LifecycleAssumption DEF TypeOK
    <3>3. at["consumer"][j] # "idle"
      BY <1>1, <2>3 DEF ConsumerCalls
    <3>4. \A s \in {"runner"} : at'[s][j] = at[s][j]
      BY <1>0, <2>3 DEF Roles
    <3> QED BY <3>1, <3>2, <3>3, <3>4 DEF JobInv, Budget
  <2> QED BY <1>0, <2>1, <2>2, <2>3
<1>9. Truthful(j)'
  <2>1. Done(j)' <=> Done(j)
    BY DEF Done
  <2>2. l \in Finishing => Done(j)
    BY <1>0 DEF JobInv, Truthful
  <2>3. row'[j].status = "completed" => Done(j)
    BY <1>0, <1>3, <2>2 DEF JobInv, Truthful
  <2>4. \A s \in Roles : snap'[s][j].status = "completed" => Done(j)
    BY NoRowIsNone DEF JobInv, Truthful
  <2>5. After(l, j) \in Finishing \cup {"orch75", "errorJob"} => Done(j)
    <3>1. r = "request" => After(l, j) = "over"
      BY <1>1, AfterCall
    <3>2. r = "runner" => After(l, j) \notin {"orch75", "errorJob"}
      BY <1>1, AfterCall DEF RunnerLabels, RunnerCalls
    <3>3. r = "runner" /\ After(l, j) \in Finishing => Done(j)
      BY <1>1, <2>2, AfterCall
    <3>4. r = "consumer" /\ After(l, j) \in Finishing \cup {"orch75", "errorJob"} => Done(j)
      BY <1>0, <1>1, AfterCall DEF JobInv, Truthful, Done
    <3> QED BY <1>0, <3>1, <3>2, <3>3, <3>4 DEF Finishing
  <2>6. \A s \in Roles :
          at'[s][j] \in Finishing \cup {"orch75", "errorJob"} => Done(j)
    BY <2>5 DEF JobInv, Truthful
  <2> QED BY <2>1, <2>3, <2>4, <2>6 DEF Truthful
<1> QED BY <1>4, <1>6, <1>7, <1>8, <1>9 DEF JobInv

(* A step of one job.                                                      *)
LEMMA OneJobMoves ==
  ASSUME IInv, TypeOK', NEW j \in Jobs, JobInv(j)', cluster' = cluster,
         \A k \in Jobs \ {j} : Untouched(k)
  PROVE  IInv'
<1>1. ASSUME NEW k \in Jobs, k # j PROVE JobInv(k)'
  BY <1>1, Frame DEF IInv
<1> QED BY <1>1 DEF IInv

-----------------------------------------------------------------------------
(* The steps of the request.                                               *)
LEMMA RequestStepIInv ==
  ASSUME IInv, Pool!TypeOK', NEW j \in Jobs, RequestStep(j)
  PROVE  IInv'
<1>0. TypeOK /\ JobInv(j)
  BY DEF IInv
<1> USE LabelsOfRoles DEF Roles
<1>1. CASE Create(j)
  <2> DEFINE new == [status |-> "pending", progress |-> 0]
  <2>1. Goto("request", j, "created") /\ "created" \in Labels
    BY <1>1 DEF Create, Labels
  <2>2. new \in Rows /\ new # NoRow
    BY DEF Rows, Statuses, NoRow
  <2>3. TypeOK'
    BY <1>0, <1>1, <2>1, <2>2, GotoAt DEF Create, TypeOK
  <2>4. at["request"][j] = "idle" /\ row'[j] = new /\ outcome[j] = "new"
    BY <1>0, <1>1 DEF Create, TypeOK, JobInv, Requested
  <2>5. /\ at'["request"][j] = "created"
        /\ \A r \in Roles \ {"request"} : at'[r][j] = at[r][j]
    BY <1>0, <2>1, GotoAt
  <2>6. Located(j)'
    BY <1>0, <2>5 DEF JobInv, Located, RequestLabels
  <2>7. Requested(j)'
    BY <1>1, <2>2, <2>4, <2>5 DEF Create, Requested
  <2>8. Launched(j)' /\ Budget(j)'
    BY <1>0, <1>1, <2>5 DEF Create, JobInv, Launched, Budget, Undone
  <2>9. Truthful(j)'
    BY <1>0, <1>1, <2>4, <2>5 DEF Create, JobInv, Truthful, Done, Finishing
  <2>10. \A k \in Jobs \ {j} : Untouched(k)
    BY <1>0, <1>1, <2>1, GotoAt DEF Create, Untouched, TypeOK
  <2> QED BY <1>1, <2>3, <2>6, <2>7, <2>8, <2>9, <2>10, OneJobMoves DEF JobInv, Create
<1>2. CASE CreateFails(j)
  <2>1. Goto("request", j, "over") /\ "over" \in Labels
    BY <1>2 DEF CreateFails, Labels
  <2>2. TypeOK'
    BY <1>0, <1>2, <2>1, GotoAt DEF CreateFails, TypeOK
  <2>3. /\ at'["request"][j] = "over"
        /\ \A r \in Roles \ {"request"} : at'[r][j] = at[r][j]
    BY <1>0, <2>1, GotoAt
  <2>4. row[j] = NoRow /\ outcome[j] = "new"
    BY <1>0, <1>2 DEF CreateFails, JobInv, Requested
  <2>5. Located(j)' /\ Requested(j)'
    BY <1>0, <1>2, <2>3, <2>4, NoRowIsNone
    DEF CreateFails, JobInv, Located, Requested, RequestLabels
  <2>6. Launched(j)' /\ Budget(j)'
    BY <1>0, <1>2, <2>3 DEF CreateFails, JobInv, Launched, Budget, Undone
  <2>7. Truthful(j)'
    BY <1>0, <1>2, <2>3 DEF CreateFails, JobInv, Truthful, Done, Finishing
  <2>8. \A k \in Jobs \ {j} : Untouched(k)
    BY <1>0, <1>2, <2>1, GotoAt DEF CreateFails, Untouched
  <2> QED BY <1>2, <2>2, <2>5, <2>6, <2>7, <2>8, OneJobMoves DEF JobInv, CreateFails
<1>3. ASSUME NEW l \in RequestCalls, NEW o \in {"accepted", "refused"},
             l = "markRejected" <=> o = "refused",
             at["request"][j] = "created", Goto("request", j, l),
             outcome' = [outcome EXCEPT ![j] = o],
             UNCHANGED <<row, cluster, snap, topic, results, launches, faults>>
      PROVE  IInv'
  <2>1. l \in Labels
    BY DEF RequestLabels
  <2>2. TypeOK'
    BY <1>0, <1>3, <2>1, GotoAt DEF TypeOK
  <2>3. /\ at'["request"][j] = l
        /\ \A r \in Roles \ {"request"} : at'[r][j] = at[r][j]
    BY <1>0, <1>3, <2>1, GotoAt
  <2>4. outcome[j] = "new" /\ outcome'[j] = o /\ row[j] # NoRow
    BY <1>0, <1>3 DEF JobInv, Requested, TypeOK, Pool!TypeOK
  <2>5. row[j].status = "pending"
    BY <1>0, <2>4 DEF JobInv, Requested, TypeOK, Rows, Statuses
  <2>6. Located(j)'
    BY <1>0, <2>3 DEF JobInv, Located, RequestLabels
  <2>7. Requested(j)'
    BY <1>3, <2>3, <2>4, <2>5 DEF Requested, RequestCalls
  <2>8. Launched(j)' /\ Budget(j)'
    BY <1>0, <1>3, <2>3, <2>4 DEF JobInv, Launched, Budget, Undone
  <2>9. Truthful(j)'
    BY <1>0, <1>3, <2>3 DEF JobInv, Truthful, Done, Finishing, RequestCalls
  <2>10. \A k \in Jobs \ {j} : Untouched(k)
    BY <1>0, <1>3, <2>1, GotoAt DEF Untouched, TypeOK, Pool!TypeOK
  <2> QED BY <1>3, <2>2, <2>6, <2>7, <2>8, <2>9, <2>10, OneJobMoves DEF JobInv
<1>4. CASE SubmitAccepted(j)
  BY <1>3, <1>4 DEF SubmitAccepted, Pool!Accept, RequestCalls
<1>5. CASE SubmitRefused(j)
  BY <1>3, <1>5 DEF SubmitRefused, Pool!Refuse, RequestCalls
<1> QED BY <1>1, <1>2, <1>4, <1>5 DEF RequestStep

-----------------------------------------------------------------------------
(* The steps of the worker.                                                *)
LEMMA TakeIInv ==
  ASSUME IInv, Pool!TypeOK', Pool!ExactlyOnce, NEW w \in Workers, Take(w)
  PROVE  IInv'
<1>0. TypeOK
  BY DEF IInv
<1>1. waiting # <<>> /\ waiting \in Seq(Jobs)
  BY <1>0 DEF Take, Pool!Begin, TypeOK, Pool!TypeOK
<1>2. PICK j \in Jobs : j = Head(waiting) /\ 1 \in 1..Len(waiting) /\ waiting[1] = j
  BY <1>1
<1>3. outcome[j] = "accepted"
  BY <1>2 DEF Pool!ExactlyOnce, Pool!InChannel
<1> USE LabelsOfRoles DEF Roles
<1>4. Goto("worker", j, "load") /\ "load" \in Labels
  BY <1>2 DEF Take, Labels
<1>5. TypeOK'
  BY <1>0, <1>4, GotoAt DEF Take, TypeOK
<1>6. /\ at'["worker"][j] = "load"
      /\ \A r \in Roles \ {"worker"} : at'[r][j] = at[r][j]
  BY <1>0, <1>2, <1>4, GotoAt
<1>7. JobInv(j)
  BY <1>2 DEF IInv
<1>8. Located(j)' /\ Requested(j)'
  BY <1>6, <1>7 DEF Take, Pool!Begin, JobInv, Located, Requested, WorkerLabels
<1>9. Launched(j)' /\ Budget(j)'
  BY <1>3, <1>6, <1>7 DEF Take, Pool!Begin, JobInv, Launched, Budget, Undone
<1>10. Truthful(j)'
  BY <1>6, <1>7 DEF Take, JobInv, Truthful, Done, Finishing
<1>11. \A k \in Jobs \ {j} : Untouched(k)
  BY <1>0, <1>2, <1>4, GotoAt DEF Take, Pool!Begin, Untouched
<1> QED BY <1>2, <1>5, <1>8, <1>9, <1>10, <1>11, OneJobMoves DEF JobInv, Take

(* ProcessJob returns, having saved the running status or not, and having  *)
(* spawned the runner or not.                                              *)
LEMMA ProcessEnds ==
  ASSUME IInv, Pool!TypeOK', NEW w \in Workers, NEW j \in Jobs,
         serving[w] = j, at["worker"][j] # "idle", Pool!Finish(w),
         cluster' = cluster, topic' = topic, results' = results,
         faults' \in 0..MaxFaults,
         \/ row' = row
         \/ /\ snap["worker"][j] # NoRow
            /\ row' = [row EXCEPT ![j] = Written("markRunning", snap["worker"][j])],
         \/ snap' = snap
         \/ snap' = [snap EXCEPT !["worker"][j] = NoRow],
         at' \in [Roles -> [Jobs -> Labels]],
         at'["worker"][j] = "idle",
         \A r \in Roles \ {"worker", "runner"} : at'[r][j] = at[r][j],
         \A r \in Roles, k \in Jobs \ {j} : at'[r][k] = at[r][k],
         \/ launches' = launches /\ at'["runner"][j] = at["runner"][j]
         \/ /\ launches' = [launches EXCEPT ![j] = @ + 1]
            /\ at'["runner"][j] = "begin"
  PROVE  IInv'
<1>0. TypeOK /\ JobInv(j)
  BY DEF IInv
<1>r. "worker" \in Roles
  BY DEF Roles
<1>1. outcome[j] = "accepted" /\ launches[j] = 0
  BY <1>0 DEF JobInv, Launched
<1>2. outcome'[j] = "done" /\ \A k \in Jobs \ {j} : outcome'[k] = outcome[k]
  BY <1>0 DEF Pool!Finish, TypeOK, Pool!TypeOK
<1>3. at["runner"][j] = "idle" /\ at["consumer"][j] = "idle" /\ topic[j] = 0
      /\ results[j] = <<>>
  BY <1>0, <1>1 DEF JobInv, Launched
<1>4. /\ launches' \in [Jobs -> Nat]
      /\ \A k \in Jobs \ {j} : launches'[k] = launches[k]
      /\ \/ launches'[j] = 0 /\ at'["runner"][j] = "idle"
         \/ launches'[j] = 1 /\ at'["runner"][j] = "begin"
  <2>1. launches \in [Jobs -> Nat]
    BY <1>0 DEF TypeOK
  <2>2. CASE launches' = launches /\ at'["runner"][j] = at["runner"][j]
    BY <1>1, <1>3, <2>1, <2>2
  <2>3. CASE /\ launches' = [launches EXCEPT ![j] = @ + 1]
             /\ at'["runner"][j] = "begin"
    BY <1>1, <2>1, <2>3
  <2> QED BY <2>2, <2>3
<1>5. /\ snap' \in [Roles -> [Jobs -> Rows \cup {NoRow}]]
      /\ \A r \in Roles : snap'[r][j] = snap[r][j] \/ snap'[r][j] = NoRow
      /\ \A r \in Roles : \A k \in Jobs \ {j} : snap'[r][k] = snap[r][k]
  <2>1. CASE snap' = snap
    BY <1>0, <2>1 DEF TypeOK
  <2>2. CASE snap' = [snap EXCEPT !["worker"][j] = NoRow]
    <3>1. /\ snap' \in [Roles -> [Jobs -> Rows \cup {NoRow}]]
          /\ \A s \in Roles, k \in Jobs :
               snap'[s][k] = IF s = "worker" /\ k = j THEN NoRow ELSE snap[s][k]
      BY <1>0, <1>r, <2>2, SnapSet
    <3> QED BY <3>1
  <2> QED BY <2>1, <2>2
<1>6. /\ row' \in [Jobs -> Rows \cup {NoRow}]
      /\ row'[j] # row[j] /\ row'[j].status = "completed" =>
           snap["worker"][j].status = "completed"
      /\ \A k \in Jobs \ {j} : row'[k] = row[k]
  <2>1. CASE row' = row
    BY <1>0, <2>1 DEF TypeOK
  <2>2. CASE snap["worker"][j] # NoRow
             /\ row' = [row EXCEPT ![j] = Written("markRunning", snap["worker"][j])]
    <3>1. snap["worker"][j] \in Rows /\ "markRunning" \in CallLabels
      BY <1>0, <1>r, <2>2, CallsOf DEF TypeOK
    <3>2. Written("markRunning", snap["worker"][j]) \in Rows
          /\ (Written("markRunning", snap["worker"][j]).status = "completed" =>
                snap["worker"][j].status = "completed")
      BY <3>1, WrittenRow DEF Finishing
    <3> QED BY <1>0, <2>2, <3>2 DEF TypeOK
  <2> QED BY <2>1, <2>2
<1>7. TypeOK'
  BY <1>0, <1>4, <1>5, <1>6 DEF TypeOK
<1>8. Located(j)' /\ Requested(j)'
  BY <1>0, <1>1, <1>2, <1>4
  DEF JobInv, Located, Requested, WorkerLabels, RunnerLabels, Roles
<1>9. Launched(j)'
  BY <1>2, <1>3, <1>4 DEF Launched, Roles
<1>10. Budget(j)'
  BY <1>0, <1>3, <1>4 DEF JobInv, Budget, Undone, Roles
<1>11. Truthful(j)'
  <2>1. Done(j)' <=> Done(j)
    BY DEF Done
  <2>2. row'[j].status = "completed" => Done(j)
    BY <1>0, <1>r, <1>6 DEF JobInv, Truthful
  <2>3. \A r \in Roles : snap'[r][j].status = "completed" => Done(j)
    BY <1>0, <1>5, NoRowIsNone DEF JobInv, Truthful
  <2>4. ASSUME NEW r \in Roles, at'[r][j] \in Finishing \cup {"orch75", "errorJob"}
        PROVE  Done(j)
    <3>1. r # "worker" /\ r # "runner"
      BY <1>4, <2>4 DEF Finishing
    <3> QED BY <1>0, <2>4, <3>1 DEF JobInv, Truthful
  <2> QED BY <2>1, <2>2, <2>3, <2>4 DEF Truthful
<1>12. \A k \in Jobs \ {j} : Untouched(k)
  BY <1>2, <1>4, <1>5, <1>6 DEF Untouched
<1> QED BY <1>7, <1>8, <1>9, <1>10, <1>11, <1>12, OneJobMoves DEF JobInv

LEMMA WorkerStepIInv ==
  ASSUME IInv, Pool!TypeOK', Pool!ExactlyOnce, NEW w \in Workers,
         WorkerStep(w) \/ ProcessFails(w)
  PROVE  IInv'
<1>0. TypeOK
  BY DEF IInv
<1> USE DEF Roles
<1>1. CASE Take(w)
  BY <1>1, TakeIInv
<1>2. ASSUME NEW j \in Jobs, j = serving[w], at["worker"][j] = "load",
             Goto("worker", j, "markRunning"),
             UNCHANGED <<row, cluster, snap, topic, results, launches, faults,
                         waiting, serving, outcome>>,
             row[j].status = "pending"
      PROVE  IInv'
  <2>1. "markRunning" \in Labels
    BY LabelsOfRoles DEF WorkerLabels
  <2>2. /\ at' \in [Roles -> [Jobs -> Labels]]
        /\ \A s \in Roles, k \in Jobs :
             at'[s][k] = IF s = "worker" /\ k = j THEN "markRunning" ELSE at[s][k]
    BY <1>0, <1>2, <2>1, GotoAt
  <2>3. TypeOK'
    BY <1>0, <1>2, <2>2 DEF TypeOK
  <2>4. JobInv(j)
    BY DEF IInv
  <2>5. Located(j)' /\ Requested(j)'
    BY <1>2, <2>2, <2>4 DEF JobInv, Located, Requested, WorkerLabels
  <2>6. Launched(j)' /\ Budget(j)'
    BY <1>2, <2>2, <2>4 DEF JobInv, Launched, Budget, Undone
  <2>7. Truthful(j)'
    BY <1>2, <2>2, <2>4 DEF JobInv, Truthful, Done, Finishing
  <2>8. \A k \in Jobs \ {j} : Untouched(k)
    BY <1>2, <2>2 DEF Untouched
  <2> QED BY <1>2, <2>3, <2>5, <2>6, <2>7, <2>8, OneJobMoves DEF JobInv
<1>3. ASSUME NEW j \in Jobs, j = serving[w], at["worker"][j] = "load",
             Goto("worker", j, "idle"), Pool!Finish(w),
             UNCHANGED <<row, cluster, snap, topic, results, launches, faults>>
      PROVE  IInv'
  <2>1. /\ at' \in [Roles -> [Jobs -> Labels]]
        /\ \A s \in Roles, k \in Jobs :
             at'[s][k] = IF s = "worker" /\ k = j THEN "idle" ELSE at[s][k]
    BY <1>0, <1>3, LabelsOfRoles, GotoAt DEF WorkerLabels
  <2>2. /\ at'["worker"][j] = "idle" /\ at'["runner"][j] = at["runner"][j]
        /\ \A r \in Roles \ {"worker", "runner"} : at'[r][j] = at[r][j]
        /\ \A r \in Roles, k \in Jobs \ {j} : at'[r][k] = at[r][k]
    BY <2>1
  <2>3. faults' \in 0..MaxFaults
    BY <1>0, <1>3 DEF TypeOK
  <2> HIDE DEF Roles
  <2> QED BY <1>3, <2>1, <2>2, <2>3, ProcessEnds
<1>4. ASSUME NEW j \in Jobs, j = serving[w], Launch(w) PROVE IInv'
  <2>1. at' = [at EXCEPT !["worker"][j] = "idle", !["runner"][j] = "begin"]
    BY <1>4 DEF Launch
  <2>2. "idle" \in Labels /\ "begin" \in Labels
    BY DEF Labels
  <2>3. /\ at' \in [Roles -> [Jobs -> Labels]]
        /\ at'["worker"][j] = "idle" /\ at'["runner"][j] = "begin"
        /\ \A r \in Roles \ {"worker", "runner"} : at'[r][j] = at[r][j]
        /\ \A r \in Roles, k \in Jobs \ {j} : at'[r][k] = at[r][k]
    BY <1>0, <2>1, <2>2 DEF TypeOK
  <2>4. /\ serving[w] = j /\ at["worker"][j] # "idle" /\ Pool!Finish(w)
        /\ cluster' = cluster /\ topic' = topic /\ results' = results
        /\ faults' \in 0..MaxFaults
        /\ snap["worker"][j] # NoRow
        /\ row' = [row EXCEPT ![j] = Written("markRunning", snap["worker"][j])]
        /\ snap' = [snap EXCEPT !["worker"][j] = NoRow]
        /\ launches' = [launches EXCEPT ![j] = @ + 1]
    BY <1>0, <1>4 DEF Launch, TypeOK
  <2> HIDE DEF Roles
  <2> QED BY <2>3, <2>4, ProcessEnds
<1>5. ASSUME NEW j \in Jobs, j = serving[w], ProcessFails(w) PROVE IInv'
  <2>1. at["worker"][j] \in {"load", "markRunning"}
    BY <1>5 DEF ProcessFails
  <2>2. /\ at' \in [Roles -> [Jobs -> Labels]]
        /\ \A s \in Roles, k \in Jobs :
             at'[s][k] = IF s = "worker" /\ k = j THEN "idle" ELSE at[s][k]
    BY <1>0, <1>5, LabelsOfRoles, GotoAt DEF ProcessFails, WorkerLabels
  <2>3. faults' \in 0..MaxFaults
    BY <1>0, <1>5, LifecycleAssumption DEF ProcessFails, Fault, TypeOK
  <2>4. /\ at'["worker"][j] = "idle" /\ at'["runner"][j] = at["runner"][j]
        /\ \A r \in Roles \ {"worker", "runner"} : at'[r][j] = at[r][j]
        /\ \A r \in Roles, k \in Jobs \ {j} : at'[r][k] = at[r][k]
    BY <2>2
  <2>5. /\ serving[w] = j /\ Pool!Finish(w)
        /\ cluster' = cluster /\ topic' = topic /\ results' = results
        /\ launches' = launches
        /\ \/ row' = row
           \/ /\ snap["worker"][j] # NoRow
              /\ row' = [row EXCEPT ![j] = Written("markRunning", snap["worker"][j])]
        /\ snap' = [snap EXCEPT !["worker"][j] = NoRow]
    BY <1>5 DEF ProcessFails
  <2>6. at["worker"][j] # "idle"
    BY <2>1
  <2> HIDE DEF Roles
  <2> QED BY <2>2, <2>3, <2>4, <2>5, <2>6, ProcessEnds
<1>6. serving[w] # None => serving[w] \in Jobs
  BY <1>0 DEF TypeOK, Pool!TypeOK
<1> QED BY <1>1, <1>2, <1>3, <1>4, <1>5, <1>6
  DEF WorkerStep, Load, Launch, ProcessFails

-----------------------------------------------------------------------------
(* The repository calls.                                                   *)
LEMMA CallStepIInv ==
  ASSUME IInv, Pool!TypeOK', NEW r \in Roles, NEW j \in Jobs,
         ReadRow(r, j) \/ SaveRow(r, j) \/ CallFails(r, j)
  PROVE  IInv'
<1>0. TypeOK /\ JobInv(j)
  BY DEF IInv
<1>1. CASE ReadRow(r, j)
  <2>1. row[j] \in Rows \cup {NoRow} /\ snap' = [snap EXCEPT ![r][j] = row[j]]
    BY <1>0, <1>1 DEF ReadRow, TypeOK
  <2>2. /\ snap' \in [Roles -> [Jobs -> Rows \cup {NoRow}]]
        /\ \A s \in Roles, k \in Jobs :
             snap'[s][k] = IF s = r /\ k = j THEN row[j] ELSE snap[s][k]
    BY <1>0, <2>1, SnapSet
  <2>3. TypeOK'
    BY <1>0, <1>1, <2>2 DEF ReadRow, TypeOK
  <2>4. Located(j)' /\ Requested(j)' /\ Launched(j)' /\ Budget(j)'
    BY <1>0, <1>1 DEF ReadRow, JobInv, Located, Requested, Launched, Budget, Undone
  <2>5. Truthful(j)'
    BY <1>0, <1>1, <2>2 DEF ReadRow, JobInv, Truthful, Done
  <2>6. \A k \in Jobs \ {j} : Untouched(k)
    BY <1>1, <2>2 DEF ReadRow, Untouched
  <2> QED BY <1>1, <2>3, <2>4, <2>5, <2>6, OneJobMoves DEF JobInv, ReadRow
<1>2. ASSUME r \in Callers, at[r][j] \in CallLabels,
             Goto(r, j, After(at[r][j], j)), snap' = [snap EXCEPT ![r][j] = NoRow],
             \/ row' = row
             \/ /\ snap[r][j] # NoRow
                /\ row' = [row EXCEPT ![j] = Written(at[r][j], snap[r][j])],
             faults' \in 0..MaxFaults,
             UNCHANGED <<cluster, topic, results, launches, waiting, serving, outcome>>
      PROVE  IInv'
  <2> DEFINE l == at[r][j]
  <2>1. r \in {"request", "runner", "consumer"}
    BY <1>2 DEF Callers, Roles
  <2>2. After(l, j) \in Labels
    <3>1. l \in RequestCalls \cup RunnerCalls \cup ConsumerCalls
      BY <1>0, <1>2, <2>1, CallsOf DEF JobInv, Located,
        RequestLabels, RunnerLabels, ConsumerLabels, RequestCalls, RunnerCalls, ConsumerCalls
    <3>2. "over" \in Labels
      BY DEF Labels
    <3> QED BY <3>1, <3>2, AfterCall, LabelsOfRoles
  <2>3. /\ at' \in [Roles -> [Jobs -> Labels]]
        /\ \A s \in Roles, k \in Jobs :
             at'[s][k] = IF s = r /\ k = j THEN After(l, j) ELSE at[s][k]
    <3> HIDE DEF l
    <3> QED BY <1>0, <1>2, <2>2, GotoAt DEF l
  <2>4. /\ snap' \in [Roles -> [Jobs -> Rows \cup {NoRow}]]
        /\ \A s \in Roles, k \in Jobs :
             snap'[s][k] = IF s = r /\ k = j THEN NoRow ELSE snap[s][k]
    <3>1. NoRow \in Rows \cup {NoRow}
      OBVIOUS
    <3> QED BY <1>0, <1>2, <3>1, SnapSet
  <2>5. /\ row' \in [Jobs -> Rows \cup {NoRow}]
        /\ \A k \in Jobs \ {j} : row'[k] = row[k]
        /\ \/ row'[j] = row[j]
           \/ snap[r][j] # NoRow /\ row'[j] = Written(l, snap[r][j])
    <3>1. CASE row' = row
      BY <1>0, <3>1 DEF TypeOK
    <3>2. CASE snap[r][j] # NoRow /\ row' = [row EXCEPT ![j] = Written(l, snap[r][j])]
      <4>1. snap[r][j] \in Rows
        BY <1>0, <3>2 DEF TypeOK
      <4>2. Written(l, snap[r][j]) \in Rows
        BY <1>2, <4>1, WrittenRow
      <4> QED BY <1>0, <3>2, <4>2 DEF TypeOK
    <3> QED BY <1>2, <3>1, <3>2
  <2>6. TypeOK'
    BY <1>0, <1>2, <2>3, <2>4, <2>5 DEF TypeOK
  <2>7. JobInv(j)'
    BY <1>0, <1>2, <2>3, <2>4, <2>5, CallEnds
  <2>8. \A k \in Jobs \ {j} : Untouched(k)
    BY <1>2, <2>3, <2>4, <2>5 DEF Untouched
  <2> QED BY <1>2, <2>6, <2>7, <2>8, OneJobMoves
<1>3. CASE SaveRow(r, j)
  BY <1>0, <1>2, <1>3 DEF SaveRow, TypeOK
<1>4. CASE CallFails(r, j)
  <2>1. faults' \in 0..MaxFaults
    BY <1>0, <1>4, LifecycleAssumption DEF CallFails, Fault, TypeOK
  <2> QED BY <1>2, <1>4, <2>1 DEF CallFails
<1> QED BY <1>1, <1>3, <1>4

-----------------------------------------------------------------------------
(* The other steps of the runner and of the consumer.                      *)

(* A step that moves one of them and leaves row and pool alone.            *)
LEMMA RoleMoves ==
  ASSUME IInv, Pool!TypeOK', NEW r \in {"runner", "consumer"}, NEW j \in Jobs,
         NEW l \in RunnerLabels \cup ConsumerLabels,
         r = "runner" => l \in RunnerLabels, r = "consumer" => l \in ConsumerLabels,
         launches[j] = 1, Goto(r, j, l),
         snap' = snap \/ snap' = [snap EXCEPT ![r][j] = NoRow],
         UNCHANGED <<row, cluster, launches, waiting, serving, outcome>>,
         topic' \in [Jobs -> Nat], \A k \in Jobs \ {j} : topic'[k] = topic[k],
         \/ UNCHANGED results
         \/ \E res \in {"ok", "error"} : Tally(j, res),
         faults' \in 0..MaxFaults,
         Budget(j)',
         l \in Finishing \cup {"orch75", "errorJob"} => Done(j)'
  PROVE  IInv'
<1>0. TypeOK /\ JobInv(j)
  BY DEF IInv
<1>1. r \in Roles /\ l \in Labels
  BY LabelsOfRoles DEF Roles
<1>2. /\ at' \in [Roles -> [Jobs -> Labels]]
      /\ \A s \in Roles, k \in Jobs :
           at'[s][k] = IF s = r /\ k = j THEN l ELSE at[s][k]
  BY <1>0, <1>1, GotoAt
<1>3. /\ snap' \in [Roles -> [Jobs -> Rows \cup {NoRow}]]
      /\ \A s \in Roles : snap'[s][j] = snap[s][j] \/ snap'[s][j] = NoRow
      /\ \A s \in Roles, k \in Jobs \ {j} : snap'[s][k] = snap[s][k]
  <2>1. CASE snap' = snap
    BY <1>0, <2>1 DEF TypeOK
  <2>2. CASE snap' = [snap EXCEPT ![r][j] = NoRow]
    <3>1. /\ snap' \in [Roles -> [Jobs -> Rows \cup {NoRow}]]
          /\ \A s \in Roles, k \in Jobs :
               snap'[s][k] = IF s = r /\ k = j THEN NoRow ELSE snap[s][k]
      <4>1. r \in Roles /\ NoRow \in Rows \cup {NoRow}
        BY <1>1
      <4> HIDE DEF Roles
      <4> QED BY <1>0, <2>2, <4>1, SnapSet
    <3> QED BY <3>1
  <2> QED BY <2>1, <2>2
<1>4. /\ results' \in [Jobs -> Seq({"ok", "error"})]
      /\ \A k \in Jobs \ {j} : results'[k] = results[k]
      /\ results[j] # <<>> => results'[j] # <<>>
  <2>1. results \in [Jobs -> Seq({"ok", "error"})]
    BY <1>0 DEF TypeOK
  <2>2. ASSUME NEW res \in {"ok", "error"}, Tally(j, res)
        PROVE  /\ results' \in [Jobs -> Seq({"ok", "error"})]
               /\ \A k \in Jobs \ {j} : results'[k] = results[k]
               /\ results'[j] # <<>>
    <3>1. results[j] \in Seq({"ok", "error"})
      BY <2>1
    <3>2. Append(results[j], res) \in Seq({"ok", "error"})
          /\ Append(results[j], res) # <<>>
      BY <3>1, AppendProperties
    <3> QED BY <2>1, <2>2, <3>2 DEF Tally
  <2> QED BY <2>1, <2>2
<1>5. TypeOK'
  BY <1>0, <1>2, <1>3, <1>4 DEF TypeOK
<1>6. Located(j)' /\ Requested(j)'
  BY <1>0, <1>1, <1>2 DEF JobInv, Located, Requested, Roles
<1>7. Launched(j)'
  BY <1>0, <1>2 DEF JobInv, Launched, Roles
<1>8. Truthful(j)'
  <2>1. Done(j) => Done(j)'
    BY <1>4 DEF Done
  <2> QED BY <1>0, <1>2, <1>3, <2>1, NoRowIsNone DEF JobInv, Truthful
<1>9. \A k \in Jobs \ {j} : Untouched(k)
  BY <1>2, <1>3, <1>4 DEF Untouched
<1> QED BY <1>5, <1>6, <1>7, <1>8, <1>9, OneJobMoves DEF JobInv

LEMMA RunnerStepIInv ==
  ASSUME IInv, Pool!TypeOK', NEW j \in Jobs,
         RunnerStep(j) \/ PublishUnreliably(j) \/ RunnerPanics(j)
  PROVE  IInv'
<1>0. TypeOK /\ JobInv(j)
  BY DEF IInv
<1>1. launches[j] = 1
  BY <1>0 DEF JobInv, Launched, RunnerStep, RunLocal, FinishLocal,
    RunWithoutCluster, Publish, PublishUnreliably, RunnerPanics
<1>2. /\ faults \in 0..MaxFaults /\ (Fault => faults' \in 0..MaxFaults)
      /\ topic \in [Jobs -> Nat] /\ results \in [Jobs -> Seq({"ok", "error"})]
      /\ Local \cap Orchestrated = {}
      /\ MaxCopies \in Nat \ {0}
  BY <1>0, LifecycleAssumption DEF Fault, TypeOK, Local, Orchestrated
<1>3. ASSUME NEW l \in RunnerLabels, Goto("runner", j, l)
      PROVE  /\ at'["runner"][j] = l
             /\ at'["consumer"][j] = at["consumer"][j]
  BY <1>0, <1>3, GotoAt, LabelsOfRoles DEF Roles
<1> USE DEF RunnerLabels, RunnerCalls
<1>4. CASE RunLocal(j)
  <2>1. PICK l \in {"run33", "work"} : Goto("runner", j, l)
    BY <1>4 DEF RunLocal
  <2>2. Budget(j)'
    BY <1>0, <1>2, <1>3, <1>4, <2>1 DEF RunLocal, JobInv, Budget
  <2> QED BY <1>1, <1>2, <1>4, <2>1, <2>2, RoleMoves DEF RunLocal, Finishing
<1>5. CASE FinishLocal(j)
  <2>1. Goto("runner", j, "run100") /\ at["runner"][j] = "work" /\ Tally(j, "ok")
    BY <1>5 DEF FinishLocal
  <2>2. results'[j] = <<"ok">> /\ Len(<<"ok">>) = 1
    BY <1>0, <1>2, <2>1 DEF Tally, JobInv, Budget
  <2>3. Budget(j)'
    BY <1>0, <1>2, <1>3, <1>5, <2>1, <2>2 DEF FinishLocal, JobInv, Budget
  <2>4. Done(j)'
    BY <2>2 DEF Done
  <2> QED BY <1>1, <1>2, <1>5, <2>1, <2>3, <2>4, RoleMoves DEF FinishLocal
<1>6. CASE RunWithoutCluster(j)
  <2>1. Goto("runner", j, "markFailed")
    BY <1>6 DEF RunWithoutCluster
  <2>2. Budget(j)'
    BY <1>0, <1>2, <1>3, <1>6, <2>1 DEF RunWithoutCluster, JobInv, Budget, Undone
  <2> QED BY <1>1, <1>2, <1>6, <2>1, <2>2, RoleMoves
      DEF RunWithoutCluster, Finishing
<1>7. ASSUME NEW l \in {"markHandedOff", "markFailed"}, Goto("runner", j, l),
             NEW n \in 0..MaxCopies, topic' = [topic EXCEPT ![j] = @ + n],
             at["runner"][j] = "begin", Kind[j] \in Orchestrated,
             UNCHANGED <<row, cluster, snap, results, launches,
                         waiting, serving, outcome>>,
             faults' \in 0..MaxFaults
      PROVE  IInv'
  <2>1. topic[j] = 0 /\ at["consumer"][j] = "idle" /\ results[j] = <<>>
    BY <1>0, <1>2, <1>7 DEF JobInv, Budget
  <2>2. topic' \in [Jobs -> Nat] /\ topic'[j] = n
        /\ \A k \in Jobs \ {j} : topic'[k] = topic[k]
    BY <1>2, <1>7, <2>1
  <2>3. at'["consumer"][j] = "idle" /\ at'["runner"][j] = l
    BY <1>3, <1>7, <2>1
  <2>4. Budget(j)'
    BY <1>2, <1>7, <2>1, <2>2, <2>3 DEF Budget, Undone
  <2> QED BY <1>1, <1>7, <2>2, <2>4, RoleMoves DEF Finishing
<1>8. CASE Publish(j)
  <2>1. 1 \in 0..MaxCopies
    BY <1>2
  <2>2. faults' \in 0..MaxFaults
    BY <1>2, <1>8 DEF Publish
  <2>3. /\ Goto("runner", j, "markHandedOff") /\ topic' = [topic EXCEPT ![j] = @ + 1]
        /\ at["runner"][j] = "begin" /\ Kind[j] \in Orchestrated
        /\ UNCHANGED <<row, cluster, snap, results, launches,
                       waiting, serving, outcome>>
    BY <1>8 DEF Publish
  <2> QED BY <1>7, <2>1, <2>2, <2>3
<1>9. CASE PublishUnreliably(j)
  BY <1>2, <1>7, <1>9 DEF PublishUnreliably
<1>10. CASE RunnerPanics(j)
  <2>1. Goto("runner", j, "markFailed")
    BY <1>10 DEF RunnerPanics
  <2>2. Budget(j)'
    BY <1>0, <1>2, <1>3, <1>10, <2>1 DEF RunnerPanics, JobInv, Budget, Undone
  <2> QED BY <1>1, <1>2, <1>10, <2>1, <2>2, RoleMoves DEF RunnerPanics, Finishing
<1> QED BY <1>4, <1>5, <1>6, <1>8, <1>9, <1>10 DEF RunnerStep

LEMMA ConsumerStepIInv ==
  ASSUME IInv, Pool!TypeOK', NEW j \in Jobs,
         Consume(j) \/ Orchestrate(j) \/ LoseRecord(j)
  PROVE  IInv'
<1>0. TypeOK /\ JobInv(j)
  BY DEF IInv
<1>1. launches[j] = 1
  <2>1. topic[j] > 0 \/ at["consumer"][j] # "idle"
    BY DEF Consume, Orchestrate, LoseRecord
  <2> QED BY <1>0, <2>1 DEF JobInv, Launched
<1>2. /\ faults \in 0..MaxFaults /\ (Fault => faults' \in 0..MaxFaults)
      /\ topic \in [Jobs -> Nat] /\ results \in [Jobs -> Seq({"ok", "error"})]
      /\ Local \cap Orchestrated = {}
      /\ MaxCopies \in Nat
  BY <1>0, LifecycleAssumption DEF Fault, TypeOK, Local, Orchestrated
<1>3. ASSUME NEW l \in ConsumerLabels, Goto("consumer", j, l)
      PROVE  /\ at'["consumer"][j] = l
             /\ at'["runner"][j] = at["runner"][j]
  BY <1>0, <1>3, GotoAt, LabelsOfRoles DEF Roles
<1> USE DEF ConsumerLabels, ConsumerCalls
<1>4. Len(results[j]) \in Nat
  BY <1>2
<1>5. CASE Consume(j)
  <2>1. Goto("consumer", j, "startJob") /\ at["consumer"][j] = "idle" /\ topic[j] > 0
    BY <1>5 DEF Consume
  <2>2. topic' \in [Jobs -> Nat] /\ topic'[j] = topic[j] - 1
        /\ \A k \in Jobs \ {j} : topic'[k] = topic[k]
    BY <1>2, <1>5, <2>1 DEF Consume
  <2>3. Budget(j)'
    BY <1>0, <1>2, <1>3, <1>4, <1>5, <2>1, <2>2 DEF Consume, JobInv, Budget, Undone
  <2> QED BY <1>1, <1>2, <1>5, <2>1, <2>2, <2>3, RoleMoves DEF Consume, Finishing
<1>6. CASE Orchestrate(j)
  <2>1. PICK l \in {"orch75", "errorJob"}, res \in {"ok", "error"} :
          Goto("consumer", j, l) /\ Tally(j, res)
    BY <1>6 DEF Orchestrate
  <2>2. at["consumer"][j] = "orchestrate" /\ topic' = topic
    BY <1>6 DEF Orchestrate
  <2>3. results'[j] # <<>> /\ Len(results'[j]) = Len(results[j]) + 1
    <3>1. results'[j] = Append(results[j], res) /\ results[j] \in Seq({"ok", "error"})
      BY <1>2, <2>1 DEF Tally
    <3> QED BY <3>1
  <2>4. Budget(j)'
    <3>1. at'["consumer"][j] = l /\ at'["runner"][j] = at["runner"][j]
      BY <1>3, <2>1
    <3>2. Undone(j) = 1 /\ Undone(j)' = 0
      BY <2>1, <2>2, <3>1 DEF Undone
    <3>3. /\ Kind[j] \in Orchestrated
          /\ at["runner"][j] \notin {"run33", "run66", "work", "begin"}
          /\ topic[j] + Len(results[j]) + Undone(j) <= MaxCopies
      BY <1>0, <2>2 DEF JobInv, Budget
    <3>4. topic[j] \in Nat
      BY <1>2
    <3>5. topic'[j] + Len(results'[j]) + Undone(j)' <= MaxCopies
      BY <1>2, <1>4, <2>2, <2>3, <3>2, <3>3, <3>4
    <3> QED BY <3>1, <3>3, <3>5 DEF Budget
  <2>5. Done(j)'
    BY <2>3 DEF Done
  <2> QED BY <1>1, <1>2, <1>6, <2>1, <2>2, <2>4, <2>5, RoleMoves DEF Orchestrate
<1>7. CASE LoseRecord(j)
  <2>1. topic' \in [Jobs -> Nat] /\ topic'[j] = topic[j] - 1
        /\ \A k \in Jobs \ {j} : topic'[k] = topic[k]
    BY <1>2, <1>7 DEF LoseRecord
  <2>2. TypeOK'
    BY <1>0, <1>2, <1>7, <2>1 DEF LoseRecord, TypeOK
  <2>3. Budget(j)'
    BY <1>0, <1>2, <1>4, <1>7, <2>1 DEF LoseRecord, JobInv, Budget, Undone
  <2>4. Located(j)' /\ Requested(j)' /\ Launched(j)' /\ Truthful(j)'
    BY <1>0, <1>1, <1>7 DEF LoseRecord, JobInv, Located, Requested, Launched, Truthful, Done
  <2>5. \A k \in Jobs \ {j} : Untouched(k)
    BY <1>7, <2>1 DEF LoseRecord, Untouched
  <2> QED BY <1>7, <2>2, <2>3, <2>4, <2>5, OneJobMoves DEF JobInv, LoseRecord
<1> QED BY <1>5, <1>6, <1>7

-----------------------------------------------------------------------------
(* The process ends and starts again.                                      *)
LEMMA CrashIInv ==
  ASSUME IInv, Pool!TypeOK', Crash
  PROVE  IInv'
<1>0. TypeOK /\ \A j \in Jobs : JobInv(j)
  BY DEF IInv
<1>1. /\ at' \in [Roles -> [Jobs -> Labels]]
      /\ \A r \in Roles, j \in Jobs :
           at'[r][j] = IF r = "request" /\ at[r][j] # "idle" THEN "over" ELSE "idle"
  <2>1. "over" \in Labels /\ "idle" \in Labels
    BY DEF Labels
  <2> QED BY <2>1 DEF Crash
<1>2. /\ snap' \in [Roles -> [Jobs -> Rows \cup {NoRow}]]
      /\ \A r \in Roles, j \in Jobs : snap'[r][j] = NoRow
  BY DEF Crash
<1>3. faults' \in 0..MaxFaults
  BY <1>0, LifecycleAssumption DEF Crash, Fault, TypeOK
<1>4. TypeOK'
  BY <1>0, <1>1, <1>2, <1>3 DEF Crash, TypeOK
<1>5. ASSUME NEW j \in Jobs PROVE JobInv(j)'
  <2>0. JobInv(j)
    BY <1>0
  <2>1. outcome'[j] = IF outcome[j] = "accepted" THEN "lost" ELSE outcome[j]
    BY DEF Crash, Pool!Crash
  <2>2. Located(j)' /\ Requested(j)'
    BY <1>1, <2>0, <2>1 DEF Crash, JobInv, Located, Requested, Roles,
      RequestLabels, WorkerLabels, RunnerLabels, ConsumerLabels
  <2>3. Launched(j)'
    BY <1>1, <2>0, <2>1 DEF Crash, JobInv, Launched, Roles
  <2>4. Budget(j)'
    <3>1. Undone(j)' = 0 /\ Undone(j) \in {0, 1}
      BY <1>1 DEF Undone, Roles
    <3>2. topic[j] \in Nat /\ Len(results[j]) \in Nat /\ MaxCopies \in Nat
      BY <1>0, LifecycleAssumption DEF TypeOK
    <3>3. at'["runner"][j] = "idle" /\ at'["consumer"][j] = "idle"
      BY <1>1 DEF Roles
    <3> QED BY <2>0, <3>1, <3>2, <3>3 DEF Crash, JobInv, Budget
  <2>5. Truthful(j)'
    <3>1. \A r \in Roles : at'[r][j] \in {"idle", "over"}
      BY <1>1
    <3> QED BY <1>2, <2>0, <3>1, NoRowIsNone DEF Crash, JobInv, Truthful, Done, Finishing
  <2> QED BY <2>2, <2>3, <2>4, <2>5 DEF JobInv
<1> QED BY <1>4, <1>5 DEF IInv

-----------------------------------------------------------------------------
(* The pool inside the model takes only JobQueue's steps, so what          *)
(* JobQueueProofs shows of it holds here.                                  *)
PoolProofs == INSTANCE JobQueueProofs

LEMMA PoolStep == [Next]_vars => [Pool!Next]_(Pool!queueVars)
<1> SUFFICES ASSUME [Next]_vars PROVE [Pool!Next]_(Pool!queueVars)
  OBVIOUS
<1> USE DEF Pool!queueVars
<1>1. ASSUME NEW r \in Roles, NEW j \in Jobs,
             ReadRow(r, j) \/ SaveRow(r, j) \/ CallFails(r, j)
      PROVE  UNCHANGED Pool!queueVars
  BY <1>1 DEF ReadRow, SaveRow, CallFails
<1>2. ASSUME NEW j \in Jobs, RequestStep(j) PROVE [Pool!Next]_(Pool!queueVars)
  BY <1>2 DEF RequestStep, Create, CreateFails, SubmitAccepted, SubmitRefused, Pool!Next
<1>3. ASSUME NEW j \in Jobs,
             \/ RunnerStep(j) \/ PublishUnreliably(j) \/ RunnerPanics(j)
             \/ Consume(j) \/ Orchestrate(j) \/ LoseRecord(j)
      PROVE  UNCHANGED Pool!queueVars
  BY <1>3 DEF RunnerStep, RunLocal, FinishLocal, RunWithoutCluster, Publish,
    PublishUnreliably, RunnerPanics, Consume, Orchestrate, LoseRecord
<1>4. ASSUME NEW w \in Workers, WorkerStep(w) \/ ProcessFails(w)
      PROVE  [Pool!Next]_(Pool!queueVars)
  BY <1>4 DEF WorkerStep, Take, Load, Launch, ProcessFails, Pool!Next
<1>5. CASE Crash
  BY <1>5 DEF Crash, Pool!Next
<1>6. CASE UNCHANGED vars
  BY <1>6 DEF vars
<1> QED BY <1>1, <1>2, <1>3, <1>4, <1>5, <1>6 DEF Next, FaultStep

LEMMA PoolHolds == Spec => [](Pool!TypeOK /\ Pool!ExactlyOnce)
<1>1. Init => PoolProofs!Init
  BY Zenon DEF Init, Pool!Init, PoolProofs!Init
<1>2. [Next]_vars => [PoolProofs!Next]_(PoolProofs!queueVars)
  <2>1. [Pool!Next]_(Pool!queueVars) => [PoolProofs!Next]_(PoolProofs!queueVars)
    BY Zenon DEF Pool!Next, PoolProofs!Next, Pool!queueVars, PoolProofs!queueVars,
      Pool!Accept, PoolProofs!Accept, Pool!Refuse, PoolProofs!Refuse,
      Pool!Begin, PoolProofs!Begin, Pool!Finish, PoolProofs!Finish,
      Pool!Crash, PoolProofs!Crash
  <2> QED BY <2>1, PoolStep
<1>3. PoolProofs!Spec => [](PoolProofs!TypeOK /\ PoolProofs!ExactlyOnce)
  <2>1. PoolProofs!PoolAssumption
    BY PoolAssumption DEF PoolProofs!PoolAssumption
  <2> QED BY <2>1, PoolProofs!TypeCorrect, PoolProofs!ExactlyOnceHolds, PTL
<1>4. PoolProofs!TypeOK /\ PoolProofs!ExactlyOnce => Pool!TypeOK /\ Pool!ExactlyOnce
  BY Zenon DEF Pool!TypeOK, PoolProofs!TypeOK, Pool!Outcomes, PoolProofs!Outcomes,
    Pool!ExactlyOnce, PoolProofs!ExactlyOnce, Pool!InChannel, PoolProofs!InChannel,
    Pool!Held, PoolProofs!Held
<1> QED BY <1>1, <1>2, <1>3, <1>4, PTL DEF Spec, PoolProofs!Spec

LEMMA StepIInv ==
  IInv /\ Pool!TypeOK' /\ Pool!ExactlyOnce /\ [Next]_vars => IInv'
<1> SUFFICES ASSUME IInv, Pool!TypeOK', Pool!ExactlyOnce, [Next]_vars PROVE IInv'
  OBVIOUS
<1>1. ASSUME NEW j \in Jobs, RequestStep(j) PROVE IInv'
  BY <1>1, RequestStepIInv
<1>2. ASSUME NEW w \in Workers, WorkerStep(w) \/ ProcessFails(w) PROVE IInv'
  BY <1>2, WorkerStepIInv
<1>3. ASSUME NEW r \in Roles, NEW j \in Jobs,
             ReadRow(r, j) \/ SaveRow(r, j) \/ CallFails(r, j)
      PROVE  IInv'
  BY <1>3, CallStepIInv
<1>4. ASSUME NEW j \in Jobs, RunnerStep(j) \/ PublishUnreliably(j) \/ RunnerPanics(j)
      PROVE  IInv'
  BY <1>4, RunnerStepIInv
<1>5. ASSUME NEW j \in Jobs, Consume(j) \/ Orchestrate(j) \/ LoseRecord(j)
      PROVE  IInv'
  BY <1>5, ConsumerStepIInv
<1>6. CASE Crash
  BY <1>6, CrashIInv
<1>7. CASE UNCHANGED vars
  <2>1. TypeOK'
    BY <1>7 DEF IInv, vars, jobVars, TypeOK
  <2>2. ASSUME NEW j \in Jobs PROVE JobInv(j)'
    BY <1>7, Frame DEF IInv, vars, jobVars, Untouched
  <2> QED BY <2>1, <2>2 DEF IInv
<1> QED BY <1>1, <1>2, <1>3, <1>4, <1>5, <1>6, <1>7 DEF Next, FaultStep

LEMMA Invariance == Spec => []IInv
BY InitIInv, StepIInv, PoolHolds, PTL DEF Spec

(* The variables always have their types: no repository call ever writes a *)
(* status or a progress a row may not have.                                *)
THEOREM TypeCorrect == Spec => []TypeOK
<1>1. IInv => TypeOK
  BY DEF IInv
<1> QED BY <1>1, Invariance, PTL

(* No row says completed before the work was attempted, whatever faults    *)
(* and stale writes there were.                                            *)
THEOREM CompletedHasResultHolds == Spec => []CompletedHasResult
<1>1. IInv => CompletedHasResult
  BY DEF IInv, JobInv, Truthful, Done, CompletedHasResult
<1> QED BY <1>1, Invariance, PTL

(* A job the pool refused is never run.                                    *)
THEOREM RefusedStaysRefusedHolds == Spec => []RefusedStaysRefused
<1>1. IInv => RefusedStaysRefused
  <2> SUFFICES ASSUME IInv, NEW j \in Jobs, outcome[j] = "refused"
               PROVE  /\ launches[j] = 0 /\ topic[j] = 0 /\ results[j] = <<>>
                      /\ row[j].status \in {"pending", "queued_rejected"}
    BY DEF RefusedStaysRefused
  <2> QED BY DEF IInv, JobInv, Launched, Requested
<1> QED BY <1>1, Invariance, PTL

(* The records left, the handler under way and the attempts of a job never *)
(* exceed the copies its one publish may have written.                     *)
THEOREM RecordsBoundedHolds == Spec => []RecordsBounded
<1>1. IInv => RecordsBounded
  <2> SUFFICES ASSUME IInv, NEW j \in Jobs, Kind[j] \in Orchestrated
               PROVE  topic[j] + Len(results[j]) + Undone(j)
                        <= MaxCopies * launches[j]
    BY DEF RecordsBounded, Undone
  <2>1. TypeOK /\ JobInv(j) /\ MaxCopies \in Nat
    BY LifecycleAssumption DEF IInv
  <2>2. CASE launches[j] = 0
    <3>1. topic[j] = 0 /\ Len(results[j]) = 0 /\ Undone(j) = 0
      BY <2>1, <2>2 DEF JobInv, Launched, Undone
    <3> QED BY <2>1, <2>2, <3>1
  <2>3. CASE launches[j] = 1
    <3>1. topic[j] + Len(results[j]) + Undone(j) <= MaxCopies
      BY <2>1 DEF JobInv, Budget, Local, Orchestrated
    <3> QED BY <2>1, <2>3, <3>1
  <2> QED BY <2>1, <2>2, <2>3 DEF JobInv, Launched
<1> QED BY <1>1, Invariance, PTL

-----------------------------------------------------------------------------
(* The refinement of JobExecution.                                         *)

Phase == [j \in Jobs |-> PhaseOf(j)]
Attempts == [j \in Jobs |-> Len(results[j])]

(* Until the pool is asked, and only until then, the row decides the phase. *)
LEMMA PhaseKept ==
  ASSUME IInv, UNCHANGED <<launches, outcome, results>>,
         \A j \in Jobs : row'[j] = row[j] \/ outcome[j] # "new"
  PROVE  UNCHANGED <<Phase, Attempts>>
<1>1. ASSUME NEW j \in Jobs PROVE PhaseOf(j)' = PhaseOf(j)
  <2>1. launches[j] \in {0, 1} /\ outcome[j] \in Pool!Outcomes
    BY DEF IInv, JobInv, Launched, TypeOK, Pool!TypeOK
  <2>2. CASE row'[j] = row[j]
    BY <2>2 DEF PhaseOf
  <2>3. CASE outcome[j] # "new" /\ launches[j] = 1
    BY <2>3 DEF PhaseOf
  <2>4. CASE outcome[j] = "refused" /\ launches[j] = 0
    BY <2>4 DEF PhaseOf
  <2>5. CASE outcome[j] \in {"accepted", "done", "lost"} /\ launches[j] = 0
    <3>1. outcome[j] # "refused" /\ ~(launches[j] > 0)
      BY <2>5
    <3>2. PhaseOf(j) = "admitted"
      BY <2>5, <3>1 DEF PhaseOf
    <3>3. PhaseOf(j)' = "admitted"
      BY <2>5, <3>1 DEF PhaseOf
    <3> QED BY <3>2, <3>3
  <2> QED BY <2>1, <2>2, <2>3, <2>4, <2>5 DEF Pool!Outcomes
<1> QED BY <1>1 DEF Phase, Attempts

LEMMA PhaseMoves ==
  ASSUME NEW j \in Jobs, NEW to, PhaseOf(j)' = to, UNCHANGED results,
         \A k \in Jobs \ {j} :
           row'[k] = row[k] /\ launches'[k] = launches[k] /\ outcome'[k] = outcome[k]
  PROVE  Phase' = [Phase EXCEPT ![j] = to] /\ Attempts' = Attempts
<1>1. \A k \in Jobs \ {j} : PhaseOf(k)' = PhaseOf(k)
  BY DEF PhaseOf
<1> QED BY <1>1 DEF Phase, Attempts

LEMMA InitRefines == Init => Execution!Init
<1> SUFFICES ASSUME Init PROVE Execution!Init
  OBVIOUS
<1>1. \A j \in Jobs : PhaseOf(j) = "absent" /\ Len(results[j]) = 0
  BY DEF Init, Pool!Init, PhaseOf
<1> QED BY <1>1 DEF Execution!Init

LEMMA RequestRefines ==
  ASSUME IInv, NEW j \in Jobs, RequestStep(j)
  PROVE  Execution!Next \/ UNCHANGED <<Phase, Attempts>>
<1>0. TypeOK /\ JobInv(j) /\ Pool!TypeOK
  BY DEF IInv, TypeOK
<1>1. CASE Create(j)
  <2>1. outcome[j] = "new" /\ launches[j] = 0 /\ row[j] = NoRow
    BY <1>0, <1>1 DEF Create, JobInv, Requested, Launched
  <2>2. row'[j] # NoRow /\ \A k \in Jobs \ {j} : row'[k] = row[k]
    BY <1>0, <1>1 DEF Create, TypeOK, NoRow
  <2>3. PhaseOf(j) = "absent" /\ PhaseOf(j)' = "registered"
    BY <1>1, <2>1, <2>2 DEF Create, PhaseOf
  <2>4. Phase' = [Phase EXCEPT ![j] = "registered"] /\ Attempts' = Attempts
    BY <1>1, <2>2, <2>3, PhaseMoves DEF Create
  <2> QED BY <2>3, <2>4
    DEF Execution!Next, Execution!Register, Execution!Move, Phase, Attempts
<1>2. CASE CreateFails(j)
  BY <1>0, <1>2, PhaseKept DEF CreateFails
<1>3. ASSUME at["request"][j] = "created", NEW o \in {"accepted", "refused"},
             outcome' = [outcome EXCEPT ![j] = o], UNCHANGED <<row, launches, results>>
      PROVE  LET to == IF o = "refused" THEN "refused" ELSE "admitted" IN
             /\ PhaseOf(j) = "registered"
             /\ Phase' = [Phase EXCEPT ![j] = to] /\ Attempts' = Attempts
  <2>1. outcome[j] = "new" /\ launches[j] = 0 /\ row[j] # NoRow
    BY <1>0, <1>3 DEF JobInv, Requested, Launched
  <2>2. outcome'[j] = o /\ \A k \in Jobs \ {j} : outcome'[k] = outcome[k]
    BY <1>0, <1>3 DEF Pool!TypeOK
  <2>3. PhaseOf(j) = "registered"
        /\ PhaseOf(j)' = IF o = "refused" THEN "refused" ELSE "admitted"
    BY <1>3, <2>1, <2>2 DEF PhaseOf
  <2> QED BY <1>3, <2>2, <2>3, PhaseMoves
<1>4. CASE SubmitAccepted(j)
  <2>1. PhaseOf(j) = "registered"
        /\ Phase' = [Phase EXCEPT ![j] = "admitted"] /\ Attempts' = Attempts
    BY <1>3, <1>4 DEF SubmitAccepted, Pool!Accept
  <2> QED BY <2>1
    DEF Execution!Next, Execution!Admit, Execution!Move, Phase, Attempts
<1>5. CASE SubmitRefused(j)
  <2>1. PhaseOf(j) = "registered"
        /\ Phase' = [Phase EXCEPT ![j] = "refused"] /\ Attempts' = Attempts
    BY <1>3, <1>5 DEF SubmitRefused, Pool!Refuse
  <2> QED BY <2>1
    DEF Execution!Next, Execution!Refuse, Execution!Move, Phase, Attempts
<1> QED BY <1>1, <1>2, <1>4, <1>5 DEF RequestStep

LEMMA WorkerRefines ==
  ASSUME IInv, NEW w \in Workers, WorkerStep(w) \/ ProcessFails(w)
  PROVE  Execution!Next \/ UNCHANGED <<Phase, Attempts>>
<1>0. TypeOK /\ Pool!TypeOK /\ (\A j \in Jobs : JobInv(j))
  BY DEF IInv, TypeOK
<1>1. CASE Take(w)
  BY <1>0, <1>1, PhaseKept DEF Take, Pool!Begin
<1>2. ASSUME NEW j \in Jobs, j = serving[w], at["worker"][j] # "idle",
             Pool!Finish(w)
      PROVE  /\ outcome[j] = "accepted" /\ outcome'[j] = "done" /\ launches[j] = 0
             /\ \A k \in Jobs \ {j} : outcome'[k] = outcome[k]
  BY <1>0, <1>2 DEF JobInv, Launched, Pool!Finish, Pool!TypeOK
<1>3. ASSUME NEW j \in Jobs, j = serving[w], at["worker"][j] # "idle",
             Pool!Finish(w), UNCHANGED <<launches, results>>,
             \A k \in Jobs \ {j} : row'[k] = row[k]
      PROVE  UNCHANGED <<Phase, Attempts>>
  <2>1. PhaseOf(j) = "admitted" /\ PhaseOf(j)' = "admitted"
    BY <1>2, <1>3 DEF PhaseOf
  <2>2. Phase' = [Phase EXCEPT ![j] = "admitted"] /\ Attempts' = Attempts
    BY <1>2, <1>3, <2>1, PhaseMoves
  <2> QED BY <2>1, <2>2 DEF Phase
<1>4. CASE Load(w)
  <2>1. CASE UNCHANGED outcome
    BY <1>0, <1>4, <2>1, PhaseKept DEF Load
  <2>2. CASE Pool!Finish(w)
    <3>1. PICK j \in Jobs : j = serving[w] /\ at["worker"][j] # "idle"
      BY <1>0, <1>4 DEF Load, Pool!TypeOK
    <3>2. UNCHANGED <<row, launches, results>>
      BY <1>4 DEF Load
    <3> QED BY <1>3, <2>2, <3>1, <3>2
  <2> QED BY <1>4, <2>1, <2>2 DEF Load
<1>5. CASE Launch(w)
  <2>1. PICK j \in Jobs : j = serving[w] /\ at["worker"][j] = "markRunning"
    BY <1>0, <1>5 DEF Launch, Pool!TypeOK
  <2>2. Pool!Finish(w) /\ UNCHANGED results
    BY <1>5 DEF Launch
  <2>3. /\ outcome[j] = "accepted" /\ launches[j] = 0
        /\ \A k \in Jobs \ {j} : outcome'[k] = outcome[k]
    BY <1>2, <2>1, <2>2
  <2>4. launches'[j] = 1 /\ \A k \in Jobs \ {j} : launches'[k] = launches[k]
    BY <1>0, <1>5, <2>1, <2>3 DEF Launch, TypeOK
  <2>5. \A k \in Jobs \ {j} : row'[k] = row[k]
    BY <1>0, <1>5, <2>1 DEF Launch, TypeOK
  <2>6. PhaseOf(j) = "admitted" /\ PhaseOf(j)' = "launched"
    BY <2>3, <2>4 DEF PhaseOf
  <2>7. Phase' = [Phase EXCEPT ![j] = "launched"] /\ Attempts' = Attempts
    BY <2>2, <2>3, <2>4, <2>5, <2>6, PhaseMoves
  <2> QED BY <2>6, <2>7
    DEF Execution!Next, Execution!Launch, Execution!Move, Phase, Attempts
<1>6. CASE ProcessFails(w)
  <2>1. PICK j \in Jobs : j = serving[w] /\ at["worker"][j] # "idle"
    BY <1>0, <1>6 DEF ProcessFails, Pool!TypeOK
  <2>2. \A k \in Jobs \ {j} : row'[k] = row[k]
    BY <1>0, <1>6, <2>1 DEF ProcessFails, TypeOK
  <2> QED BY <1>3, <1>6, <2>1, <2>2 DEF ProcessFails
<1> QED BY <1>1, <1>4, <1>5, <1>6 DEF WorkerStep

(* The three ends of a repository call: none of them is seen by            *)
(* JobExecution, since no call is made on a job before the pool was asked. *)
LEMMA CallRefines ==
  ASSUME IInv, NEW r \in Roles, NEW j \in Jobs,
         ReadRow(r, j) \/ SaveRow(r, j) \/ CallFails(r, j)
  PROVE  UNCHANGED <<Phase, Attempts>>
<1>1. at[r][j] \in CallLabels
  BY DEF ReadRow, SaveRow, CallFails
<1>2. JobInv(j)
  BY DEF IInv
<1>3. outcome[j] # "new"
  <2>1. CASE r = "request"
    BY <1>1, <1>2, <2>1, CallsOf
    DEF JobInv, Requested, RequestCalls, RunnerCalls, ConsumerCalls
  <2>2. CASE r = "worker"
    BY <1>1, <1>2, <2>2, CallsOf
    DEF JobInv, Launched, RequestCalls, RunnerCalls, ConsumerCalls
  <2>3. CASE r \in {"runner", "consumer"}
    BY <1>1, <1>2, <2>3, CallsOf
    DEF JobInv, Launched, RequestCalls, RunnerCalls, ConsumerCalls
  <2> QED BY <2>1, <2>2, <2>3 DEF Roles
<1>4. \A k \in Jobs : row'[k] = row[k] \/ k = j
  BY DEF ReadRow, SaveRow, CallFails, IInv, TypeOK
<1>5. UNCHANGED <<launches, outcome, results>>
  BY DEF ReadRow, SaveRow, CallFails
<1> QED BY <1>3, <1>4, <1>5, PhaseKept

(* The work of a job, done or failed: one more attempt, within the limit.  *)
LEMMA TallyRefines ==
  ASSUME IInv, NEW j \in Jobs, NEW res \in {"ok", "error"}, Tally(j, res),
         launches[j] = 1, UNCHANGED <<row, launches, outcome>>,
         Len(results[j]) < (IF Kind[j] \in Local THEN 1 ELSE MaxCopies)
  PROVE  Execution!Next
<1>1. Phase' = Phase /\ Phase[j] = "launched"
  BY DEF Phase, PhaseOf
<1>2. results \in [Jobs -> Seq({"ok", "error"})]
  BY DEF IInv, TypeOK
<1>3. \A k \in Jobs : Len(results'[k]) = IF k = j THEN Len(results[j]) + 1
                                                 ELSE Len(results[k])
  BY <1>2 DEF Tally
<1>4. Attempts' = [Attempts EXCEPT ![j] = @ + 1]
  BY <1>3 DEF Attempts
<1>5. Execution!Attempt(j)
  BY <1>1, <1>4 DEF Execution!Attempt, Phase, Attempts
<1> QED BY <1>5 DEF Execution!Next

LEMMA RunnerRefines ==
  ASSUME IInv, NEW j \in Jobs,
         RunnerStep(j) \/ PublishUnreliably(j) \/ RunnerPanics(j)
  PROVE  Execution!Next \/ UNCHANGED <<Phase, Attempts>>
<1>1. CASE FinishLocal(j)
  <2>1. /\ at["runner"][j] = "work" /\ Tally(j, "ok")
        /\ UNCHANGED <<row, launches, outcome>>
    BY <1>1 DEF FinishLocal
  <2>2. JobInv(j)
    BY DEF IInv
  <2>3. launches[j] = 1
    BY <2>1, <2>2 DEF JobInv, Launched
  <2>4. Kind[j] \in Local /\ Len(results[j]) < 1
    BY <2>1, <2>2 DEF JobInv, Budget
  <2> QED BY <2>1, <2>3, <2>4, TallyRefines
<1>2. CASE ~FinishLocal(j)
  <2>1. UNCHANGED <<row, launches, outcome, results>>
    BY <1>2 DEF RunnerStep, RunLocal, RunWithoutCluster, Publish,
      PublishUnreliably, RunnerPanics
  <2> QED BY <2>1, PhaseKept
<1> QED BY <1>1, <1>2

LEMMA ConsumerRefines ==
  ASSUME IInv, NEW j \in Jobs, Consume(j) \/ LoseRecord(j) \/ Orchestrate(j)
  PROVE  Execution!Next \/ UNCHANGED <<Phase, Attempts>>
<1>1. CASE Orchestrate(j)
  <2>1. /\ at["consumer"][j] = "orchestrate" /\ UNCHANGED <<row, launches, outcome>>
        /\ Tally(j, "ok") \/ Tally(j, "error")
    BY <1>1 DEF Orchestrate
  <2>2. JobInv(j) /\ topic[j] \in Nat /\ Len(results[j]) \in Nat
    BY DEF IInv, TypeOK
  <2>3. launches[j] = 1
    BY <2>1, <2>2 DEF JobInv, Launched
  <2>4. Kind[j] \notin Local /\ topic[j] + Len(results[j]) + 1 <= MaxCopies
    BY <2>1, <2>2 DEF JobInv, Budget, Undone, Local, Orchestrated
  <2>5. Len(results[j]) < MaxCopies
    BY <2>2, <2>4, LifecycleAssumption
  <2> QED BY <2>1, <2>3, <2>4, <2>5, TallyRefines
<1>2. CASE Consume(j) \/ LoseRecord(j)
  <2>1. UNCHANGED <<row, launches, outcome, results>>
    BY <1>2 DEF Consume, LoseRecord
  <2> QED BY <2>1, PhaseKept
<1> QED BY <1>1, <1>2

(* A crash makes an accepted job a lost one; both were admitted.           *)
LEMMA CrashRefines ==
  ASSUME IInv, Crash
  PROVE  UNCHANGED <<Phase, Attempts>>
<1>1. UNCHANGED <<row, launches, results>>
  BY DEF Crash
<1>2. ASSUME NEW j \in Jobs PROVE PhaseOf(j)' = PhaseOf(j)
  <2>1. outcome'[j] = IF outcome[j] = "accepted" THEN "lost" ELSE outcome[j]
    BY DEF Crash, Pool!Crash
  <2>2. CASE outcome[j] = "accepted"
    <3>1. launches[j] = 0 /\ outcome'[j] = "lost"
      BY <2>1, <2>2 DEF IInv, JobInv, Launched
    <3>2. PhaseOf(j) = "admitted" /\ PhaseOf(j)' = "admitted"
      BY <1>1, <2>2, <3>1 DEF PhaseOf
    <3> QED BY <3>2
  <2>3. CASE outcome[j] # "accepted"
    BY <1>1, <2>1, <2>3 DEF PhaseOf
  <2> QED BY <2>2, <2>3
<1> QED BY <1>1, <1>2 DEF Phase, Attempts

LEMMA StepRefines ==
  ASSUME IInv, [Next]_vars
  PROVE  Execution!Next \/ UNCHANGED <<Phase, Attempts>>
<1>1. CASE UNCHANGED vars
  BY <1>1, PhaseKept DEF vars, jobVars
<1>2. CASE \E r \in Roles, j \in Jobs : ReadRow(r, j) \/ SaveRow(r, j) \/ CallFails(r, j)
  BY <1>2, CallRefines
<1>3. CASE \E j \in Jobs : RequestStep(j)
  BY <1>3, RequestRefines
<1>4. CASE \E j \in Jobs : RunnerStep(j) \/ PublishUnreliably(j) \/ RunnerPanics(j)
  BY <1>4, RunnerRefines
<1>5. CASE \E j \in Jobs : Consume(j) \/ LoseRecord(j) \/ Orchestrate(j)
  BY <1>5, ConsumerRefines
<1>6. CASE \E w \in Workers : WorkerStep(w) \/ ProcessFails(w)
  BY <1>6, WorkerRefines
<1>7. CASE Crash
  BY <1>7, CrashRefines
<1> QED BY <1>1, <1>2, <1>3, <1>4, <1>5, <1>6, <1>7 DEF Next, FaultStep

(* A job is registered, admitted and launched in that order, launched at   *)
(* most once, and its work is attempted at most once per copy of its one   *)
(* record, whatever the interleaving of the four goroutines, the faults    *)
(* and the crashes: JobLifecycle implements JobExecution.                  *)
THEOREM Refinement == Spec => ImplementsExecution
<1>1. Init => Execution!Init
  BY InitRefines
<1>2. IInv /\ [Next]_vars => [Execution!Next]_<<Phase, Attempts>>
  BY StepRefines
<1>3. ASSUME IInv, [Next]_vars PROVE [Execution!Next]_(Execution!execVars)
  BY <1>2, <1>3 DEF Phase, Attempts, Execution!execVars
<1> QED BY <1>1, <1>3, Invariance, PTL DEF Spec, ImplementsExecution, Execution!Spec

(* What JobExecution promises its readers, read off the implementation: no *)
(* work without a launch, one attempt of a local job and at most MaxCopies *)
(* of an orchestrated one.                                                 *)
THEOREM AttemptsBoundedHolds == Spec => []Execution!AtMostLimit
<1>1. IInv => Execution!AtMostLimit
  <2> SUFFICES ASSUME IInv, NEW j \in Jobs
               PROVE  /\ Len(results[j]) <= IF Kind[j] \in Local THEN 1 ELSE MaxCopies
                      /\ Len(results[j]) > 0 => PhaseOf(j) = "launched"
    BY DEF Execution!AtMostLimit
  <2>1. JobInv(j) /\ topic[j] \in Nat /\ Len(results[j]) \in Nat /\ MaxCopies \in Nat
    BY LifecycleAssumption DEF IInv, TypeOK
  <2>2. Undone(j) \in Nat
    BY DEF Undone
  <2>3. Len(results[j]) <= IF Kind[j] \in Local THEN 1 ELSE MaxCopies
    BY <2>1, <2>2 DEF JobInv, Budget, Local, Orchestrated
  <2>4. ASSUME Len(results[j]) > 0 PROVE launches[j] = 1
    BY <2>1, <2>4 DEF JobInv, Launched
  <2>5. Len(results[j]) > 0 => PhaseOf(j) = "launched"
    BY <2>4 DEF PhaseOf
  <2> QED BY <2>3, <2>5
<1> QED BY <1>1, Invariance, PTL
-----------------------------------------------------------------------------
(* The two properties of a job's row at its end.  Both follow from further *)
(* invariants, proved on top of IInv.                                      *)

(* The runner of an orchestrated job makes none of the local calls; a      *)
(* request without a cluster reaches no topic; the records left and the    *)
(* handler at work are copies of one publish.                              *)
Handling(j) == IF at["consumer"][j] = "idle" THEN 0 ELSE 1

Routed(j) ==
  /\ at["request"][j] = "markRejected" => outcome[j] = "refused"
  /\ Kind[j] \in Orchestrated =>
       at["runner"][j] \in {"idle", "begin", "markHandedOff", "markFailed"}
  /\ cluster[j] = "absent" => topic[j] = 0 /\ at["consumer"][j] = "idle"
  /\ topic[j] + Handling(j) <= MaxCopies
  /\ Pool!Held(j) => at["worker"][j] # "idle"

(* Someone may still write a progress below 100 to the row.                *)
Unfinished(j) ==
  \/ launches[j] = 0
  \/ at["runner"][j] \in {"begin", "run33", "run66"}
  \/ topic[j] > 0
  \/ at["consumer"][j] \in {"startJob", "orch10", "orch30", "orchestrate", "orch75"}

Full(r) == r.status = "completed" => r.progress = 100

(* As long as there is such a writer neither the row nor an unsaved copy   *)
(* of it says completed, so no partial progress is put on a completed row. *)
OneCopy(j) == Kind[j] \in Local \/ MaxCopies = 1

Filled(j) == OneCopy(j) =>
  /\ Full(row[j]) /\ \A r \in Roles : Full(snap[r][j])
  /\ Unfinished(j) =>
       /\ row[j].status # "completed"
       /\ \A r \in Roles : snap[r][j].status # "completed"

(* Without faults: what the row says while the request owns it, and what   *)
(* it says once the last of the others has saved.                          *)
Submitted(j) ==
  /\ outcome[j] # "lost"
  /\ outcome[j] = "new" /\ at["request"][j] = "over" => row[j] = NoRow
  /\ outcome[j] = "refused" /\ at["request"][j] = "over" =>
       row[j].status = "queued_rejected"
  /\ outcome[j] \in {"accepted", "done"} /\ launches[j] = 0 =>
       \/ at["request"][j] = "over" /\ row[j].status = "queued"
       \/ /\ at["request"][j] = "markQueued" /\ row[j].status = "pending"
          /\ outcome[j] = "accepted"

LocalRunner == {"idle", "begin", "run33", "run66", "work", "run100",
                "rerun100", "markCompleted"}

Ended(j) == launches[j] = 1 =>
  /\ Kind[j] \in Local =>
       /\ at["runner"][j] \in LocalRunner
       /\ at["runner"][j] = "idle" => row[j].status \in {"completed", "queued"}
  /\ Kind[j] \in Orchestrated /\ cluster[j] = "absent" =>
       (at["runner"][j] = "idle" => row[j].status \in {"failed", "queued"})
  /\ Kind[j] \in Orchestrated /\ cluster[j] # "absent" =>
       /\ at["runner"][j] # "markFailed"
       /\ at["runner"][j] # "begin" /\ topic[j] = 0 /\ at["consumer"][j] = "idle" =>
            row[j].status \in {"completed", "queued"}

Settled(j) == faults = 0 => Submitted(j) /\ Ended(j)

Ends(j) == Routed(j) /\ Filled(j) /\ Settled(j)

EInv == \A j \in Jobs : Ends(j)

(* A step that changes nothing of a job keeps its part.                    *)
LEMMA EndsFrame ==
  ASSUME NEW j, Ends(j), cluster' = cluster, Untouched(j),
         Pool!Held(j)' => Pool!Held(j), faults' = 0 => faults = 0
  PROVE  Ends(j)'
<1>1. Routed(j)'
  BY DEF Ends, Routed, Handling, Untouched, Roles
<1>2. Filled(j)'
  BY DEF Ends, Filled, OneCopy, Full, Unfinished, Untouched, Roles
<1>3. Settled(j)'
  BY DEF Ends, Settled, Submitted, Ended, Untouched, Roles
<1> QED BY <1>1, <1>2, <1>3 DEF Ends

LEMMA OneJobEnds ==
  ASSUME EInv, NEW j \in Jobs, Ends(j)', cluster' = cluster,
         \A k \in Jobs \ {j} : Untouched(k),
         \A k \in Jobs \ {j} : Pool!Held(k)' => Pool!Held(k),
         faults' = 0 => faults = 0
  PROVE  EInv'
<1>1. ASSUME NEW k \in Jobs, k # j PROVE Ends(k)'
  BY <1>1, EndsFrame DEF EInv
<1> QED BY <1>1 DEF EInv

LEMMA InitEInv == Init => EInv
<1> SUFFICES ASSUME Init, NEW j \in Jobs PROVE Ends(j)
  BY DEF EInv
<1> USE LifecycleAssumption
<1>1. \A r \in Roles : at[r][j] = "idle" /\ snap[r][j] = NoRow
  BY DEF Init
<1>2. /\ outcome[j] = "new" /\ row[j] = NoRow /\ topic[j] = 0 /\ launches[j] = 0
      /\ ~Pool!Held(j)
  BY PoolAssumption DEF Init, Pool!Init, Pool!Held
<1>3. Routed(j)
  BY <1>1, <1>2 DEF Routed, Handling, Roles
<1>4. Filled(j)
  BY <1>1, <1>2, NoRowIsNone DEF Filled, Full
<1>5. Settled(j)
  BY <1>1, <1>2 DEF Settled, Submitted, Ended, Roles
<1> QED BY <1>3, <1>4, <1>5 DEF Ends

(* Filled, for a step that writes no row: copies are made of the row and   *)
(* dropped.                                                                *)
LEMMA FilledKept ==
  ASSUME NEW j, Filled(j), row'[j] = row[j],
         \A r \in Roles : snap'[r][j] \in {snap[r][j], row[j], NoRow},
         Unfinished(j)' => Unfinished(j)
  PROVE  Filled(j)'
BY NoRowIsNone DEF Filled, Full, OneCopy

(* Filled, for a repository call that saves.                               *)
Partial == {"run33", "run66", "orch10", "orch30", "orch75"}

LEMMA WrittenFull ==
  ASSUME NEW l \in CallLabels, NEW r \in Rows, Full(r),
         l \in Partial => r.status # "completed"
  PROVE  Full(Written(l, r))
<1>1. CASE l \in DOMAIN StatusAt
  <2>1. Written(l, r) = SetStatus(r, StatusAt[l])
    BY <1>1 DEF Written
  <2> QED BY <2>1 DEF SetStatus, Full, Rows
<1>2. CASE l \notin DOMAIN StatusAt
  <2>1. l \in DOMAIN ProgressAt
    BY <1>2 DEF CallLabels
  <2>2. Written(l, r) = SetProgress(r, ProgressAt[l])
    BY <1>2 DEF Written
  <2>3. ProgressAt[l] \in 0..100
    BY <2>1 DEF ProgressAt
  <2>4. ProgressAt[l] = 100 \/ l \in Partial
    BY <2>1 DEF ProgressAt, Partial
  <2> QED BY <2>2, <2>3, <2>4 DEF SetProgress, Full, Rows
<1> QED BY <1>1, <1>2

LEMMA FilledSaved ==
  ASSUME NEW j, Filled(j), NEW r \in Roles, at[r][j] \in CallLabels,
         snap[r][j] \in Rows, row'[j] = Written(at[r][j], snap[r][j]),
         \A s \in Roles : snap'[s][j] \in {snap[s][j], NoRow},
         Unfinished(j)' => Unfinished(j),
         at[r][j] \in Partial => Unfinished(j),
         OneCopy(j) /\ Unfinished(j)' => at[r][j] \notin Finishing
  PROVE  Filled(j)'
<1> SUFFICES ASSUME OneCopy(j)
             PROVE  /\ Full(row'[j]) /\ \A s \in Roles : Full(snap'[s][j])
                    /\ Unfinished(j)' =>
                         /\ row'[j].status # "completed"
                         /\ \A s \in Roles : snap'[s][j].status # "completed"
  BY DEF Filled, OneCopy, Full
<1>1. /\ \A s \in Roles : Full(snap[s][j])
      /\ Unfinished(j) => \A s \in Roles : snap[s][j].status # "completed"
  BY DEF Filled
<1>2. Full(row'[j])
  BY <1>1, WrittenFull
<1>3. \A s \in Roles : Full(snap'[s][j])
  BY <1>1, NoRowIsNone DEF Full
<1>4. Unfinished(j)' => row'[j].status # "completed"
  BY <1>1, WrittenRow
<1>5. Unfinished(j)' => \A s \in Roles : snap'[s][j].status # "completed"
  BY <1>1, NoRowIsNone
<1> QED BY <1>2, <1>3, <1>4, <1>5

-----------------------------------------------------------------------------
(* The steps of the request.                                               *)
LEMMA RequestStepEnds ==
  ASSUME IInv, EInv, NEW j \in Jobs, RequestStep(j)
  PROVE  EInv'
<1>0. TypeOK /\ JobInv(j) /\ Ends(j) /\ topic[j] \in Nat
  BY DEF IInv, EInv, TypeOK
<1> USE LabelsOfRoles DEF Roles
<1>1. outcome[j] = "new" /\ launches[j] = 0 /\ row[j].status \in {"absent", "pending"}
  BY <1>0 DEF RequestStep, Create, CreateFails, SubmitAccepted, SubmitRefused,
    JobInv, Requested, Launched
<1>2. ASSUME NEW l \in RequestLabels, NEW o \in {"new", "accepted", "refused"},
             Goto("request", j, l), outcome' = [outcome EXCEPT ![j] = o],
             UNCHANGED <<cluster, snap, topic, results, launches, faults, serving>>,
             row' = row \/ row' = [row EXCEPT ![j] = [status |-> "pending", progress |-> 0]],
             l = "markRejected" => o = "refused",
             Submitted(j)'
      PROVE  EInv'
  <2>1. /\ at'["request"][j] = l
        /\ \A r \in Roles \ {"request"} : at'[r][j] = at[r][j]
        /\ \A k \in Jobs \ {j}, r \in Roles : at'[r][k] = at[r][k]
    BY <1>0, <1>2, GotoAt
  <2>2. /\ \A k \in Jobs \ {j} : row'[k] = row[k] /\ outcome'[k] = outcome[k]
        /\ outcome'[j] = o /\ row'[j].status # "completed"
    BY <1>0, <1>1, <1>2 DEF TypeOK, Pool!TypeOK
  <2>3. Routed(j)'
    BY <1>0, <1>2, <2>1, <2>2 DEF Ends, Routed, Handling, Pool!Held
  <2>4. Filled(j)'
    <3>1. Unfinished(j)' <=> Unfinished(j)
      BY <1>2, <2>1 DEF Unfinished
    <3> QED BY <1>0, <1>2, <2>2, <3>1 DEF Ends, Filled, Full, OneCopy
  <2>5. Settled(j)'
    BY <1>1, <1>2 DEF Settled, Ended
  <2>6. \A k \in Jobs \ {j} : Untouched(k)
    BY <1>2, <2>1, <2>2 DEF Untouched
  <2>7. \A k \in Jobs : Pool!Held(k)' <=> Pool!Held(k)
    BY <1>2 DEF Pool!Held
  <2> QED BY <1>2, <2>3, <2>4, <2>5, <2>6, <2>7, OneJobEnds DEF Ends
<1>3. outcome = [outcome EXCEPT ![j] = "new"]
  BY <1>0, <1>1 DEF TypeOK, Pool!TypeOK
<1>4. CASE Create(j)
  <2>1. at'["request"][j] = "created" /\ outcome'[j] = "new"
    BY <1>0, <1>1, <1>4, GotoAt DEF Create, RequestLabels
  <2>2. Submitted(j)'
    BY <2>1 DEF Submitted
  <2> QED BY <1>2, <1>3, <1>4, <2>2 DEF Create, RequestLabels
<1>5. CASE CreateFails(j)
  <2>1. row[j] = NoRow
    BY <1>0, <1>5 DEF CreateFails, JobInv, Requested
  <2>2. Submitted(j)'
    BY <1>1, <1>5, <2>1 DEF CreateFails, Submitted
  <2> QED BY <1>2, <1>3, <1>5, <2>2 DEF CreateFails, RequestLabels
<1>6. CASE SubmitAccepted(j) \/ SubmitRefused(j)
  <2>1. PICK l \in RequestCalls, o \in {"accepted", "refused"} :
          /\ at["request"][j] = "created"
          /\ Goto("request", j, l) /\ outcome' = [outcome EXCEPT ![j] = o]
          /\ l = "markRejected" <=> o = "refused"
          /\ UNCHANGED <<row, cluster, snap, topic, results, launches, faults, serving>>
    BY <1>6 DEF SubmitAccepted, SubmitRefused, Pool!Accept, Pool!Refuse, RequestCalls
  <2>2. row[j] # NoRow
    BY <1>0, <2>1 DEF JobInv, Requested
  <2>3. row[j].status = "pending"
    BY <1>0, <1>1, <2>2 DEF TypeOK, Rows, Statuses
  <2>4. at'["request"][j] = l /\ outcome'[j] = o
    BY <1>0, <2>1, GotoAt DEF RequestLabels, TypeOK, Pool!TypeOK
  <2>5. Submitted(j)'
    BY <2>1, <2>3, <2>4 DEF Submitted, RequestCalls
  <2> QED BY <1>2, <2>1, <2>5 DEF RequestLabels
<1> QED BY <1>4, <1>5, <1>6 DEF RequestStep

-----------------------------------------------------------------------------
(* The steps of the worker.                                                *)
LEMMA TakeEnds ==
  ASSUME IInv, EInv, Pool!ExactlyOnce, NEW w \in Workers, Take(w)
  PROVE  EInv'
<1>0. TypeOK
  BY DEF IInv
<1>1. waiting # <<>> /\ waiting \in Seq(Jobs)
  BY <1>0 DEF Take, Pool!Begin, TypeOK, Pool!TypeOK
<1>2. PICK j \in Jobs : j = Head(waiting) /\ 1 \in 1..Len(waiting) /\ waiting[1] = j
  BY <1>1
<1>3. outcome[j] = "accepted" /\ JobInv(j) /\ Ends(j) /\ topic[j] \in Nat
  BY <1>0, <1>2 DEF Pool!ExactlyOnce, Pool!InChannel, IInv, EInv, TypeOK
<1> USE LabelsOfRoles DEF Roles
<1>4. Goto("worker", j, "load") /\ "load" \in Labels
  BY <1>2 DEF Take, Labels
<1>5. /\ at'["worker"][j] = "load"
      /\ \A r \in Roles \ {"worker"} : at'[r][j] = at[r][j]
      /\ \A k \in Jobs \ {j}, r \in Roles : at'[r][k] = at[r][k]
  BY <1>0, <1>4, GotoAt
<1>6. serving' = [serving EXCEPT ![w] = j] /\ UNCHANGED outcome
      /\ UNCHANGED <<row, cluster, snap, topic, results, launches, faults>>
  BY <1>2 DEF Take, Pool!Begin
<1>7. \A k \in Jobs \ {j} : Pool!Held(k)' => Pool!Held(k)
  BY <1>0, <1>6 DEF Pool!Held, TypeOK, Pool!TypeOK
<1>8. Routed(j)'
  BY <1>3, <1>5, <1>6 DEF Ends, Routed, Handling
<1>9. Filled(j)'
  <2>1. Unfinished(j)' <=> Unfinished(j)
    BY <1>5, <1>6 DEF Unfinished
  <2> QED BY <1>3, <1>6, <2>1, FilledKept DEF Ends
<1>10. Settled(j)'
  BY <1>3, <1>5, <1>6 DEF Ends, Settled, Submitted, Ended
<1>11. \A k \in Jobs \ {j} : Untouched(k)
  BY <1>5, <1>6 DEF Untouched
<1> QED BY <1>2, <1>6, <1>7, <1>8, <1>9, <1>10, <1>11, OneJobEnds DEF Ends

(* ProcessJob returns.                                                     *)
LEMMA ServingEnds ==
  ASSUME TypeOK, Pool!ExactlyOnce, NEW w \in Workers, NEW j \in Jobs,
         serving[w] = j, Pool!Finish(w)
  PROVE  /\ ~Pool!Held(j)'
         /\ \A k \in Jobs \ {j} : Pool!Held(k)' => Pool!Held(k)
         /\ outcome'[j] = "done"
         /\ \A k \in Jobs \ {j} : outcome'[k] = outcome[k]
<1>1. serving \in [Workers -> Jobs \cup {None}] /\ None \notin Jobs
      /\ outcome \in [Jobs -> Pool!Outcomes]
  BY PoolAssumption DEF TypeOK, Pool!TypeOK
<1>2. serving' = [serving EXCEPT ![w] = None]
      /\ outcome' = [outcome EXCEPT ![j] = "done"]
  BY DEF Pool!Finish
<1>3. \A v \in Workers : serving[v] = j => v = w
  BY <1>1 DEF Pool!ExactlyOnce
<1>4. ~Pool!Held(j)'
  BY <1>1, <1>2, <1>3 DEF Pool!Held
<1>5. \A k \in Jobs \ {j} : Pool!Held(k)' => Pool!Held(k)
  BY <1>1, <1>2 DEF Pool!Held
<1> QED BY <1>1, <1>2, <1>4, <1>5

LEMMA WorkerStepEnds ==
  ASSUME IInv, EInv, Pool!ExactlyOnce, NEW w \in Workers,
         WorkerStep(w) \/ ProcessFails(w)
  PROVE  EInv'
<1>0. TypeOK
  BY DEF IInv
<1>1. CASE Take(w)
  BY <1>1, TakeEnds
<1>2. CASE ~Take(w)
  <2>1. PICK j \in Jobs : /\ serving[w] = j
                          /\ at["worker"][j] \in {"load", "markRunning"}
    BY <1>0, <1>2 DEF WorkerStep, Load, Launch, ProcessFails, TypeOK, Pool!TypeOK
  <2>2. JobInv(j) /\ Ends(j) /\ topic[j] \in Nat
    BY <1>0 DEF IInv, EInv, TypeOK
  <2>3. /\ outcome[j] = "accepted" /\ launches[j] = 0 /\ topic[j] = 0
        /\ at["runner"][j] = "idle" /\ at["consumer"][j] = "idle"
    BY <2>1, <2>2 DEF JobInv, Launched
  <2> USE LabelsOfRoles DEF Roles
  <2>4. CASE Goto("worker", j, "markRunning") /\ row[j].status = "pending"
             /\ UNCHANGED <<row, cluster, snap, topic, results, launches, faults,
                            waiting, serving, outcome>>
    <3>1. /\ at'["worker"][j] = "markRunning"
          /\ \A r \in Roles \ {"worker"} : at'[r][j] = at[r][j]
          /\ \A k \in Jobs \ {j}, r \in Roles : at'[r][k] = at[r][k]
      BY <1>0, <2>4, GotoAt DEF WorkerLabels
    <3>2. Routed(j)'
      BY <2>2, <2>4, <3>1 DEF Ends, Routed, Handling, Pool!Held
    <3>3. Unfinished(j)' <=> Unfinished(j)
      BY <2>4, <3>1 DEF Unfinished
    <3>4. Filled(j)'
      BY <2>2, <2>4, <3>3, FilledKept DEF Ends
    <3>5. Settled(j)'
      BY <2>2, <2>4, <3>1 DEF Ends, Settled, Submitted, Ended
    <3>6. \A k \in Jobs \ {j} : Untouched(k)
      BY <2>4, <3>1 DEF Untouched
    <3>7. \A k \in Jobs : Pool!Held(k)' <=> Pool!Held(k)
      BY <2>4 DEF Pool!Held
    <3> QED BY <2>4, <3>2, <3>4, <3>5, <3>6, <3>7, OneJobEnds DEF Ends
  <2>5. ASSUME Pool!Finish(w), UNCHANGED <<cluster, topic, results>>,
               \/ row' = row
               \/ /\ snap["worker"][j] # NoRow
                  /\ row' = [row EXCEPT ![j] = Written("markRunning", snap["worker"][j])],
               snap' = snap \/ snap' = [snap EXCEPT !["worker"][j] = NoRow],
               at'["worker"][j] = "idle",
               \A r \in Roles \ {"worker", "runner"} : at'[r][j] = at[r][j],
               \A r \in Roles, k \in Jobs \ {j} : at'[r][k] = at[r][k],
               \A k \in Jobs \ {j} : launches'[k] = launches[k],
               at'["runner"][j] \in {"idle", "begin"},
               faults' = 0 => faults = 0,
               Settled(j)'
        PROVE  EInv'
    <3>1. /\ ~Pool!Held(j)'
          /\ \A k \in Jobs \ {j} : Pool!Held(k)' => Pool!Held(k)
          /\ outcome'[j] = "done"
          /\ \A k \in Jobs \ {j} : outcome'[k] = outcome[k]
      BY <1>0, <2>1, <2>5, ServingEnds
    <3>2. Routed(j)'
      BY <2>2, <2>3, <2>5, <3>1 DEF JobInv, Requested, Ends, Routed, Handling
    <3>3. /\ \A r \in Roles : snap'[r][j] \in {snap[r][j], NoRow}
          /\ \A r \in Roles, k \in Jobs \ {j} : snap'[r][k] = snap[r][k]
      <4>1. CASE snap' = snap
        BY <4>1
      <4>2. CASE snap' = [snap EXCEPT !["worker"][j] = NoRow]
        <5>1. "worker" \in Roles /\ NoRow \in Rows \cup {NoRow}
          OBVIOUS
        <5>2. \A s \in Roles, k \in Jobs :
                snap'[s][k] = IF s = "worker" /\ k = j THEN NoRow ELSE snap[s][k]
          BY <1>0, <4>2, <5>1, SnapSet
        <5> QED BY <5>2
      <4> QED BY <2>5, <4>1, <4>2
    <3>4. Unfinished(j)
      BY <2>3 DEF Unfinished
    <3>5. Filled(j)'
      <4>1. CASE row' = row
        BY <2>2, <3>3, <3>4, <4>1, FilledKept DEF Ends
      <4>2. CASE /\ snap["worker"][j] # NoRow
                 /\ row' = [row EXCEPT ![j] = Written("markRunning", snap["worker"][j])]
        <5>1. snap["worker"][j] \in Rows /\ "markRunning" \in CallLabels
              /\ row'[j] = Written("markRunning", snap["worker"][j])
          BY <1>0, <4>2, CallsOf DEF TypeOK
        <5>2. "markRunning" \notin Partial \cup Finishing
          BY DEF Partial, Finishing
        <5>3. OneCopy(j) =>
                /\ Full(row'[j])
                /\ row'[j].status = "completed" => snap["worker"][j].status = "completed"
          BY <2>2, <3>4, <5>1, <5>2, WrittenFull, WrittenRow DEF Ends, Filled, Full
        <5> QED BY <2>2, <3>3, <3>4, <5>1, <5>3, NoRowIsNone
              DEF Ends, Filled, Full, OneCopy
      <4> QED BY <2>5, <4>1, <4>2
    <3>6. \A k \in Jobs \ {j} : row'[k] = row[k] /\ topic'[k] = topic[k]
                                /\ results'[k] = results[k]
      BY <1>0, <2>5 DEF TypeOK
    <3>7. \A k \in Jobs \ {j} : Untouched(k)
      BY <2>5, <3>1, <3>3, <3>6 DEF Untouched
    <3> QED BY <2>5, <3>1, <3>2, <3>5, <3>7, OneJobEnds DEF Ends
  <2>6. CASE Goto("worker", j, "idle") /\ row[j].status # "pending" /\ Pool!Finish(w)
             /\ UNCHANGED <<row, cluster, snap, topic, results, launches, faults>>
    <3>1. /\ at'["worker"][j] = "idle"
          /\ \A r \in Roles \ {"worker"} : at'[r][j] = at[r][j]
          /\ \A k \in Jobs \ {j}, r \in Roles : at'[r][k] = at[r][k]
      BY <1>0, <2>6, GotoAt DEF WorkerLabels
    <3>2. outcome'[j] = "done"
      BY <1>0, <2>1, <2>6, ServingEnds
    <3>3. Settled(j)'
      BY <2>2, <2>3, <2>6, <3>1, <3>2 DEF Ends, Settled, Submitted, Ended
    <3> QED BY <2>3, <2>5, <2>6, <3>1, <3>3
  <2>7. CASE Launch(w)
    <3>1. at' = [at EXCEPT !["worker"][j] = "idle", !["runner"][j] = "begin"]
      BY <2>1, <2>7 DEF Launch
    <3>2. /\ at'["worker"][j] = "idle" /\ at'["runner"][j] = "begin"
          /\ \A r \in Roles \ {"worker", "runner"} : at'[r][j] = at[r][j]
          /\ \A r \in Roles, k \in Jobs \ {j} : at'[r][k] = at[r][k]
      BY <1>0, <3>1 DEF TypeOK
    <3>3. launches'[j] = 1 /\ \A k \in Jobs \ {j} : launches'[k] = launches[k]
      BY <1>0, <2>1, <2>3, <2>7 DEF Launch, TypeOK
    <3>4. Pool!Finish(w) /\ outcome'[j] = "done"
      BY <1>0, <2>1, <2>7, ServingEnds DEF Launch
    <3>5. Settled(j)'
      BY <2>2, <2>3, <3>2, <3>3, <3>4 DEF Settled, Submitted, Ended, LocalRunner
    <3> QED BY <2>1, <2>5, <2>7, <3>2, <3>3, <3>4, <3>5 DEF Launch
  <2>8. CASE ProcessFails(w)
    <3>1. faults' # 0
      BY <1>0, <2>8, LifecycleAssumption DEF ProcessFails, Fault, TypeOK
    <3>2. Goto("worker", j, "idle") /\ Pool!Finish(w)
      BY <2>1, <2>8 DEF ProcessFails
    <3>3. /\ at'["worker"][j] = "idle"
          /\ \A r \in Roles \ {"worker"} : at'[r][j] = at[r][j]
          /\ \A k \in Jobs \ {j}, r \in Roles : at'[r][k] = at[r][k]
      BY <1>0, <3>2, GotoAt DEF WorkerLabels
    <3>4. Settled(j)'
      BY <3>1 DEF Settled
    <3> QED BY <2>1, <2>3, <2>5, <2>8, <3>1, <3>2, <3>3, <3>4 DEF ProcessFails
  <2> QED BY <1>2, <2>1, <2>4, <2>6, <2>7, <2>8 DEF WorkerStep, Load
<1> QED BY <1>1, <1>2

-----------------------------------------------------------------------------
(* The repository calls.                                                   *)
LEMMA WrittenStatus ==
  ASSUME NEW l \in CallLabels, NEW r
  PROVE  /\ l \in {"markQueued", "markHandedOff"} => Written(l, r).status = "queued"
         /\ l = "markRejected" => Written(l, r).status = "queued_rejected"
         /\ l = "markFailed" => Written(l, r).status = "failed"
         /\ l \in {"markCompleted", "orch100", "error100"} =>
              Written(l, r).status = "completed"
<1>1. CASE l \in DOMAIN StatusAt
  <2>1. Written(l, r).status = StatusAt[l]
    BY <1>1 DEF Written, SetStatus
  <2> QED BY <1>1, <2>1 DEF StatusAt
<1>2. CASE l \notin DOMAIN StatusAt
  <2>1. Written(l, r) = SetProgress(r, ProgressAt[l])
    BY <1>2 DEF Written
  <2>2. l \in {"orch100", "error100"} => ProgressAt[l] = 100
    BY DEF ProgressAt
  <2>3. l \notin {"markQueued", "markHandedOff", "markRejected", "markFailed",
                  "markCompleted"}
    BY <1>2 DEF StatusAt
  <2> QED BY <2>1, <2>2, <2>3 DEF SetProgress
<1> QED BY <1>1, <1>2

LEMMA AfterLast ==
  ASSUME NEW j, NEW l
  PROVE  /\ l \in RunnerCalls =>
              /\ After(l, j) = "idle" =>
                   l \in {"markHandedOff", "markCompleted", "markFailed"}
              /\ l \in {"markHandedOff", "markFailed"} => After(l, j) = "idle"
              /\ l \in LocalRunner => After(l, j) \in LocalRunner
              /\ After(l, j) = "run66" => l = "run33"
              /\ After(l, j) \notin {"begin", "run33", "markFailed"}
         /\ l \in ConsumerCalls =>
              /\ After(l, j) = "idle" => l \in {"orch100", "error100"}
              /\ l \in {"orch100", "error100"} => After(l, j) = "idle"
              /\ After(l, j) \in {"orch10", "orch30", "orchestrate"} =>
                   l \in {"startJob", "orch10", "orch30"}
              /\ After(l, j) \notin {"startJob", "orch75"}
<1>1. CASE l \in RunnerCalls
  <2>1. l \notin ConsumerCalls
    BY <1>1 DEF RunnerCalls, ConsumerCalls
  <2> QED BY <1>1, <2>1 DEF After, RunnerCalls, LocalRunner
<1>2. CASE l \in ConsumerCalls
  <2>1. l \notin RunnerCalls
    BY <1>2 DEF RunnerCalls, ConsumerCalls
  <2> QED BY <1>2, <2>1 DEF After, ConsumerCalls
<1> QED BY <1>1, <1>2

LEMMA CallEndsEnds ==
  ASSUME TypeOK, NEW j \in Jobs, JobInv(j), Ends(j), NEW r \in Callers,
         at[r][j] \in CallLabels,
         cluster' = cluster, topic' = topic, results' = results,
         launches' = launches, outcome' = outcome, serving' = serving,
         \/ row'[j] = row[j] /\ faults' # 0
         \/ snap[r][j] # NoRow /\ row'[j] = Written(at[r][j], snap[r][j]),
         faults' = 0 => faults = 0,
         \A s \in Roles : snap'[s][j] = IF s = r THEN NoRow ELSE snap[s][j],
         \A s \in Roles : at'[s][j] = IF s = r THEN After(at[r][j], j) ELSE at[s][j]
  PROVE  Ends(j)'
<1> DEFINE l == at[r][j]
<1>0. r \in Roles /\ r \in {"request", "runner", "consumer"}
  BY DEF Callers, Roles
<1>1. /\ r = "request" => l \in RequestCalls /\ After(l, j) = "over"
      /\ r = "runner" => l \in RunnerCalls
      /\ r = "consumer" => l \in ConsumerCalls
  BY CallsOf, AfterCall DEF JobInv, Located, RequestLabels, RunnerLabels, ConsumerLabels,
    RequestCalls, RunnerCalls, ConsumerCalls
<1>2. topic[j] \in Nat /\ MaxCopies \in Nat /\ Local \cap Orchestrated = {}
      /\ Kind[j] \in Local \cup Orchestrated
  BY LifecycleAssumption DEF TypeOK, Local, Orchestrated
<1>3. r # "request" => launches[j] = 1 /\ outcome[j] = "done"
  BY <1>0, <1>1 DEF JobInv, Launched, RunnerCalls, ConsumerCalls
<1>4. r = "runner" /\ Kind[j] \in Orchestrated => l \in {"markHandedOff", "markFailed"}
  BY <1>1 DEF Ends, Routed, RunnerCalls
<1>5. r = "consumer" =>
        /\ Kind[j] \in Orchestrated /\ cluster[j] # "absent"
        /\ at["runner"][j] \notin {"begin", "run33", "run66"}
        /\ topic[j] + 1 <= MaxCopies
  <2> HAVE r = "consumer"
  <2>1. at["consumer"][j] # "idle"
    BY <1>1 DEF ConsumerCalls
  <2>2. Kind[j] \in Orchestrated
        /\ at["runner"][j] \notin {"begin", "run33", "run66"}
    BY <2>1 DEF JobInv, Budget
  <2>3. cluster[j] # "absent" /\ topic[j] + 1 <= MaxCopies
    BY <2>1 DEF Ends, Routed, Handling
  <2> QED BY <2>2, <2>3
<1>6. /\ r # "request" => at'["request"][j] = at["request"][j]
      /\ r # "runner" => at'["runner"][j] = at["runner"][j]
      /\ r # "consumer" => at'["consumer"][j] = at["consumer"][j]
      /\ at'["worker"][j] = at["worker"][j]
      /\ at'[r][j] = After(l, j)
  BY <1>0 DEF Roles
<1>7. Routed(j)'
  <2>1. at'["request"][j] = "markRejected" => outcome[j] = "refused"
    BY <1>0, <1>1, <1>6 DEF Ends, Routed
  <2>2. Kind[j] \in Orchestrated =>
          at'["runner"][j] \in {"idle", "begin", "markHandedOff", "markFailed"}
    BY <1>0, <1>1, <1>4, <1>6, AfterLast DEF Ends, Routed
  <2>3. cluster[j] = "absent" => topic[j] = 0 /\ at'["consumer"][j] = "idle"
    BY <1>5, <1>6 DEF Ends, Routed
  <2>4. topic[j] + Handling(j)' <= MaxCopies
    BY <1>2, <1>5, <1>6 DEF Ends, Routed, Handling
  <2>5. Pool!Held(j)' <=> Pool!Held(j)
    BY DEF Pool!Held
  <2> QED BY <1>6, <2>1, <2>2, <2>3, <2>4, <2>5 DEF Ends, Routed
<1>8. Unfinished(j)' => Unfinished(j)
  <2>1. CASE r = "request"
    BY <1>6, <2>1 DEF Unfinished
  <2>2. CASE r = "runner"
    BY <1>1, <1>6, <2>2, AfterLast DEF Unfinished
  <2>3. CASE r = "consumer"
    BY <1>1, <1>6, <2>3, AfterLast DEF Unfinished
  <2> QED BY <1>0, <2>1, <2>2, <2>3
<1>9. l \in Partial => Unfinished(j)
  BY <1>0, <1>1 DEF Unfinished, Partial, RequestCalls, RunnerCalls, ConsumerCalls
<1>10. OneCopy(j) /\ l \in Finishing => ~Unfinished(j)'
  <2> SUFFICES ASSUME OneCopy(j), l \in Finishing PROVE ~Unfinished(j)'
    OBVIOUS
  <2>1. CASE r = "request"
    BY <1>1, <2>1 DEF RequestCalls, Finishing
  <2>2. CASE r = "runner"
    <3>1. Kind[j] \in Local
      BY <1>2, <1>4, <2>2 DEF Finishing
    <3>2. topic[j] = 0 /\ at["consumer"][j] = "idle"
      BY <1>2, <3>1 DEF JobInv, Budget
    <3>3. After(l, j) \notin {"begin", "run33", "run66"}
      BY <1>1, <2>2, AfterLast DEF Finishing
    <3> QED BY <1>3, <1>6, <2>2, <3>2, <3>3 DEF Unfinished
  <2>3. CASE r = "consumer"
    <3>1. MaxCopies = 1 /\ topic[j] = 0
      BY <1>2, <1>5, <2>3 DEF OneCopy
    <3>2. After(l, j) = "idle"
      BY <1>1, <2>3, AfterLast DEF Finishing, ConsumerCalls
    <3> QED BY <1>3, <1>5, <1>6, <2>3, <3>1, <3>2 DEF Unfinished
  <2> QED BY <1>0, <2>1, <2>2, <2>3
<1>11. Filled(j)'
  <2>1. CASE row'[j] = row[j]
    BY <1>8, <2>1, FilledKept DEF Ends
  <2>2. CASE snap[r][j] # NoRow /\ row'[j] = Written(l, snap[r][j])
    <3>1. snap[r][j] \in Rows
      BY <1>0, <2>2 DEF TypeOK
    <3>2. Filled(j)
      BY DEF Ends
    <3> HIDE DEF Roles
    <3> QED BY <1>0, <1>8, <1>9, <1>10, <2>2, <3>1, <3>2, FilledSaved
  <2> QED BY <2>1, <2>2
<1>12. Settled(j)'
  <2> SUFFICES ASSUME faults' = 0 PROVE Submitted(j)' /\ Ended(j)'
    BY DEF Settled
  <2>1. row'[j] = Written(l, snap[r][j]) /\ Submitted(j) /\ Ended(j)
    BY DEF Ends, Settled
  <2>2. CASE r = "request"
    <3>1. outcome[j] # "new" /\ (outcome[j] = "refused" <=> l = "markRejected")
      BY <1>1, <2>2 DEF JobInv, Requested, Ends, Routed, RequestCalls
    <3>2. row'[j].status = IF l = "markRejected" THEN "queued_rejected" ELSE "queued"
      BY <1>1, <2>1, <2>2, WrittenStatus DEF RequestCalls
    <3>3. at'["request"][j] = "over"
      BY <1>1, <1>6, <2>2
    <3>4. Submitted(j)'
      BY <2>1, <3>1, <3>2, <3>3 DEF Submitted
    <3>5. launches[j] = 1 => row'[j].status = "queued"
      BY <3>1, <3>2 DEF JobInv, Launched
    <3> QED BY <1>6, <2>1, <2>2, <3>4, <3>5 DEF Ended
  <2>3. CASE r = "runner"
    <3>1. Submitted(j)'
      BY <1>3, <2>3 DEF Submitted
    <3>2. ASSUME Kind[j] \in Local
          PROVE  /\ After(l, j) \in LocalRunner
                 /\ After(l, j) = "idle" => row'[j].status = "completed"
      <4>1. l \in LocalRunner
        BY <1>3, <2>1, <2>3, <3>2 DEF Ended
      <4>2. After(l, j) \in LocalRunner
        BY <1>1, <2>3, <4>1, AfterLast
      <4>3. After(l, j) = "idle" => l = "markCompleted"
        BY <1>1, <2>3, <4>1, AfterLast DEF LocalRunner
      <4> QED BY <2>1, <4>2, <4>3, WrittenStatus
    <3>3. ASSUME Kind[j] \in Orchestrated
          PROVE  /\ After(l, j) = "idle"
                 /\ row'[j].status \in {"queued", "failed"}
                 /\ cluster[j] # "absent" => row'[j].status = "queued"
      <4>1. l \in {"markHandedOff", "markFailed"}
        BY <1>4, <2>3, <3>3
      <4>2. cluster[j] # "absent" => l = "markHandedOff"
        BY <1>3, <2>1, <2>3, <3>3, <4>1 DEF Ended
      <4> QED BY <1>1, <2>1, <2>3, <4>1, <4>2, AfterLast, WrittenStatus
    <3>4. Ended(j)'
      BY <1>2, <1>6, <2>3, <3>2, <3>3 DEF Ended
    <3> QED BY <3>1, <3>4
  <2>4. CASE r = "consumer"
    <3>1. Submitted(j)'
      BY <1>3, <2>4 DEF Submitted
    <3>2. After(l, j) = "idle" => row'[j].status = "completed"
      BY <1>1, <2>1, <2>4, AfterLast, WrittenStatus
    <3>3. Ended(j)'
      BY <1>2, <1>3, <1>5, <1>6, <2>1, <2>4, <3>2 DEF Ended
    <3> QED BY <3>1, <3>3
  <2> QED BY <1>0, <2>2, <2>3, <2>4
<1> QED BY <1>7, <1>11, <1>12 DEF Ends

LEMMA CallStepEnds ==
  ASSUME IInv, EInv, NEW r \in Roles, NEW j \in Jobs,
         ReadRow(r, j) \/ SaveRow(r, j) \/ CallFails(r, j)
  PROVE  EInv'
<1>0. TypeOK /\ JobInv(j) /\ Ends(j)
  BY DEF IInv, EInv
<1>1. \A k \in Jobs : Pool!Held(k)' <=> Pool!Held(k)
  BY DEF ReadRow, SaveRow, CallFails, Pool!Held
<1>2. CASE ReadRow(r, j)
  <2>1. row[j] \in Rows \cup {NoRow} /\ snap' = [snap EXCEPT ![r][j] = row[j]]
    BY <1>0, <1>2 DEF ReadRow, TypeOK
  <2>2. \A s \in Roles, k \in Jobs :
          snap'[s][k] = IF s = r /\ k = j THEN row[j] ELSE snap[s][k]
    BY <1>0, <2>1, SnapSet
  <2>3. UNCHANGED <<row, cluster, at, topic, results, launches, faults, outcome>>
    BY <1>2 DEF ReadRow
  <2>4. Routed(j)'
    BY <1>0, <1>1, <2>3 DEF Ends, Routed, Handling
  <2>5. Filled(j)'
    <3>1. Unfinished(j)' <=> Unfinished(j)
      BY <2>3 DEF Unfinished
    <3> QED BY <1>0, <2>2, <2>3, <3>1, FilledKept DEF Ends
  <2>6. Settled(j)'
    BY <1>0, <2>3 DEF Ends, Settled, Submitted, Ended
  <2>7. \A k \in Jobs \ {j} : Untouched(k)
    BY <2>2, <2>3 DEF Untouched
  <2> QED BY <1>1, <2>3, <2>4, <2>5, <2>6, <2>7, OneJobEnds DEF Ends
<1>3. CASE SaveRow(r, j) \/ CallFails(r, j)
  <2> DEFINE l == at[r][j]
  <2>1. /\ r \in Callers /\ l \in CallLabels
        /\ Goto(r, j, After(l, j)) /\ snap' = [snap EXCEPT ![r][j] = NoRow]
        /\ UNCHANGED <<cluster, topic, results, launches, waiting, serving, outcome>>
    BY <1>3 DEF SaveRow, CallFails
  <2>2. faults' = 0 => faults = 0
    BY <1>0, <1>3, LifecycleAssumption DEF SaveRow, CallFails, Fault, TypeOK
  <2>3. /\ \A k \in Jobs \ {j} : row'[k] = row[k]
        /\ \/ row'[j] = row[j] /\ faults' # 0
           \/ snap[r][j] # NoRow /\ row'[j] = Written(l, snap[r][j])
    <3>1. row \in [Jobs -> Rows \cup {NoRow}] /\ faults \in Nat
      BY <1>0, LifecycleAssumption DEF TypeOK
    <3>2. CASE SaveRow(r, j)
      BY <3>1, <3>2 DEF SaveRow
    <3>3. CASE CallFails(r, j)
      <4>1. faults' # 0
        BY <3>1, <3>3 DEF CallFails, Fault
      <4> QED BY <3>1, <3>3, <4>1 DEF CallFails
    <3> QED BY <1>3, <3>2, <3>3
  <2>4. After(l, j) \in Labels
    <3>1. l \in RequestCalls \cup RunnerCalls \cup ConsumerCalls
      BY <1>0, <2>1, CallsOf DEF Callers, Roles, JobInv, Located,
        RequestLabels, RunnerLabels, ConsumerLabels, RequestCalls, RunnerCalls, ConsumerCalls
    <3>2. "over" \in Labels
      BY DEF Labels
    <3> QED BY <3>1, <3>2, AfterCall, LabelsOfRoles
  <2>5. \A s \in Roles, k \in Jobs :
          at'[s][k] = IF s = r /\ k = j THEN After(l, j) ELSE at[s][k]
    <3> HIDE DEF l
    <3> QED BY <1>0, <2>1, <2>4, GotoAt DEF l
  <2>6. \A s \in Roles, k \in Jobs :
          snap'[s][k] = IF s = r /\ k = j THEN NoRow ELSE snap[s][k]
    <3>1. NoRow \in Rows \cup {NoRow}
      OBVIOUS
    <3> QED BY <1>0, <2>1, <3>1, SnapSet
  <2>7. Ends(j)'
    BY <1>0, <2>1, <2>2, <2>3, <2>5, <2>6, CallEndsEnds
  <2>8. \A k \in Jobs \ {j} : Untouched(k)
    BY <2>1, <2>3, <2>5, <2>6 DEF Untouched
  <2> QED BY <1>1, <2>1, <2>2, <2>7, <2>8, OneJobEnds
<1> QED BY <1>2, <1>3

-----------------------------------------------------------------------------
(* The other steps of the runner and of the consumer, which write no row.  *)
LEMMA RoleEnds ==
  ASSUME IInv, EInv, NEW r \in {"runner", "consumer"}, NEW j \in Jobs,
         NEW l \in RunnerLabels \cup ConsumerLabels, Goto(r, j, l),
         snap' = snap \/ snap' = [snap EXCEPT ![r][j] = NoRow],
         UNCHANGED <<row, cluster, launches, outcome, serving>>,
         \A k \in Jobs \ {j} : topic'[k] = topic[k] /\ results'[k] = results[k],
         faults' = 0 => faults = 0,
         Routed(j)', Unfinished(j)' => Unfinished(j),
         faults' = 0 => Ended(j)'
  PROVE  EInv'
<1>0. TypeOK /\ Ends(j)
  BY DEF IInv, EInv
<1>1. r \in Roles /\ l \in Labels /\ NoRow \in Rows \cup {NoRow}
  BY LabelsOfRoles DEF Roles
<1>2. \A s \in Roles, k \in Jobs :
        at'[s][k] = IF s = r /\ k = j THEN l ELSE at[s][k]
  BY <1>0, <1>1, GotoAt
<1>3. /\ \A s \in Roles : snap'[s][j] \in {snap[s][j], NoRow}
      /\ \A s \in Roles, k \in Jobs \ {j} : snap'[s][k] = snap[s][k]
  <2>1. CASE snap' = snap
    BY <2>1
  <2>2. CASE snap' = [snap EXCEPT ![r][j] = NoRow]
    <3>1. \A s \in Roles, k \in Jobs :
            snap'[s][k] = IF s = r /\ k = j THEN NoRow ELSE snap[s][k]
      BY <1>0, <1>1, <2>2, SnapSet
    <3> QED BY <3>1
  <2> QED BY <2>1, <2>2
<1>4. Filled(j)'
  BY <1>0, <1>3, FilledKept DEF Ends
<1>5. Settled(j)'
  <2>1. at'["request"][j] = at["request"][j]
    BY <1>2 DEF Roles
  <2> QED BY <1>0, <2>1 DEF Ends, Settled, Submitted
<1>6. \A k \in Jobs \ {j} : Untouched(k)
  BY <1>2, <1>3 DEF Untouched
<1>7. \A k \in Jobs : Pool!Held(k)' <=> Pool!Held(k)
  BY DEF Pool!Held
<1> QED BY <1>4, <1>5, <1>6, <1>7, OneJobEnds DEF Ends

LEMMA RunnerStepEnds ==
  ASSUME IInv, EInv, NEW j \in Jobs,
         RunnerStep(j) \/ PublishUnreliably(j) \/ RunnerPanics(j)
  PROVE  EInv'
<1>0. TypeOK /\ JobInv(j) /\ Ends(j) /\ topic[j] \in Nat /\ MaxCopies \in Nat \ {0}
      /\ Local \cap Orchestrated = {} /\ Kind[j] \in Local \cup Orchestrated
      /\ (Fault => faults' # 0)
  BY LifecycleAssumption DEF IInv, EInv, TypeOK, Local, Orchestrated, Fault
<1>1. launches[j] = 1
  BY <1>0 DEF JobInv, Launched, RunnerStep, RunLocal, FinishLocal,
    RunWithoutCluster, Publish, PublishUnreliably, RunnerPanics
<1>2. ASSUME NEW l \in RunnerLabels, Goto("runner", j, l)
      PROVE  /\ at'["runner"][j] = l
             /\ \A s \in {"request", "worker", "consumer"} : at'[s][j] = at[s][j]
  BY <1>0, <1>2, GotoAt, LabelsOfRoles DEF Roles
<1>3. at["runner"][j] = "begin" =>
        /\ Unfinished(j)
        /\ Kind[j] \in Orchestrated => topic[j] = 0 /\ at["consumer"][j] = "idle"
  BY <1>0 DEF JobInv, Budget, Unfinished
<1> USE DEF RunnerLabels, RunnerCalls
<1>4. CASE RunLocal(j) \/ FinishLocal(j)
  <2>1. PICK l \in {"run33", "work", "run100"} :
          /\ Goto("runner", j, l) /\ (l = "run33" => at["runner"][j] = "begin")
          /\ at["runner"][j] \in {"begin", "work"}
          /\ UNCHANGED <<row, cluster, snap, topic, launches, faults, outcome, serving>>
    BY <1>4 DEF RunLocal, FinishLocal
  <2>2. Kind[j] \in Local
    BY <1>0, <1>4 DEF RunLocal, FinishLocal, JobInv, Budget
  <2>3. \A k \in Jobs \ {j} : results'[k] = results[k]
    BY <1>0, <1>4 DEF RunLocal, FinishLocal, Tally, TypeOK
  <2>4. Routed(j)'
    BY <1>0, <1>2, <2>1, <2>2 DEF Ends, Routed, Handling, Pool!Held
  <2>5. Unfinished(j)' => Unfinished(j)
    BY <1>2, <1>3, <2>1 DEF Unfinished
  <2>6. Ended(j)'
    BY <1>0, <1>2, <2>1, <2>2 DEF Ended, LocalRunner
  <2> QED BY <2>1, <2>3, <2>4, <2>5, <2>6, RoleEnds
<1>5. CASE RunWithoutCluster(j)
  <2>1. at["runner"][j] = "begin" /\ Kind[j] \in Orchestrated /\ cluster[j] = "absent"
        /\ Goto("runner", j, "markFailed")
        /\ UNCHANGED <<row, cluster, snap, topic, results, launches, faults, outcome, serving>>
    BY <1>5 DEF RunWithoutCluster
  <2>2. Routed(j)'
    BY <1>0, <1>2, <2>1 DEF Ends, Routed, Handling, Pool!Held
  <2>3. Unfinished(j)' => Unfinished(j)
    BY <1>3, <2>1
  <2>4. Ended(j)'
    BY <1>0, <1>2, <2>1 DEF Ended
  <2> QED BY <2>1, <2>2, <2>3, <2>4, RoleEnds
<1>6. CASE Publish(j) \/ PublishUnreliably(j)
  <2>1. PICK n \in 0..MaxCopies, l \in {"markHandedOff", "markFailed"} :
          /\ topic' = [topic EXCEPT ![j] = @ + n] /\ Goto("runner", j, l)
          /\ faults' = 0 => faults = 0 /\ n = 1 /\ l = "markHandedOff"
          /\ at["runner"][j] = "begin"
          /\ Kind[j] \in Orchestrated /\ cluster[j] # "absent"
          /\ UNCHANGED <<row, cluster, snap, results, launches, outcome, serving>>
    BY <1>0, <1>6 DEF Publish, PublishUnreliably
  <2>2. topic'[j] = n /\ \A k \in Jobs \ {j} : topic'[k] = topic[k]
    BY <1>0, <1>3, <2>1 DEF TypeOK
  <2>3. Routed(j)'
    <3>1. at["consumer"][j] = "idle" /\ at'["consumer"][j] = "idle"
          /\ at'["runner"][j] = l /\ at'["request"][j] = at["request"][j]
          /\ at'["worker"][j] = at["worker"][j]
      BY <1>2, <1>3, <2>1
    <3>2. topic'[j] + Handling(j)' <= MaxCopies
      BY <1>0, <2>2, <3>1 DEF Handling
    <3>3. Pool!Held(j)' <=> Pool!Held(j)
      BY <2>1 DEF Pool!Held
    <3> QED BY <1>0, <2>1, <3>1, <3>2, <3>3 DEF Ends, Routed
  <2>4. Unfinished(j)' => Unfinished(j)
    BY <1>3, <2>1
  <2>5. faults' = 0 => Ended(j)'
    BY <1>0, <1>2, <2>1, <2>2 DEF Ended
  <2> QED BY <2>1, <2>2, <2>3, <2>4, <2>5, RoleEnds
<1>7. CASE RunnerPanics(j)
  <2>1. Goto("runner", j, "markFailed") /\ faults' # 0
        /\ snap' = [snap EXCEPT !["runner"][j] = NoRow]
        /\ UNCHANGED <<row, cluster, topic, results, launches, outcome, serving>>
    BY <1>0, <1>7 DEF RunnerPanics
  <2>2. Routed(j)'
    BY <1>0, <1>2, <2>1 DEF Ends, Routed, Handling, Pool!Held
  <2>3. Unfinished(j)' => Unfinished(j)
    BY <1>2, <2>1 DEF Unfinished
  <2> QED BY <2>1, <2>2, <2>3, RoleEnds
<1> QED BY <1>4, <1>5, <1>6, <1>7 DEF RunnerStep

LEMMA ConsumerStepEnds ==
  ASSUME IInv, EInv, NEW j \in Jobs, Consume(j) \/ Orchestrate(j) \/ LoseRecord(j)
  PROVE  EInv'
<1>0. TypeOK /\ JobInv(j) /\ Ends(j) /\ topic[j] \in Nat /\ MaxCopies \in Nat
      /\ Local \cap Orchestrated = {} /\ Kind[j] \in Local \cup Orchestrated
      /\ (Fault => faults' # 0)
  BY LifecycleAssumption DEF IInv, EInv, TypeOK, Local, Orchestrated, Fault
<1>1. ASSUME NEW l \in ConsumerLabels, Goto("consumer", j, l)
      PROVE  /\ at'["consumer"][j] = l
             /\ \A s \in {"request", "worker", "runner"} : at'[s][j] = at[s][j]
  BY <1>0, <1>1, GotoAt, LabelsOfRoles DEF Roles
<1> USE DEF ConsumerLabels, ConsumerCalls
<1>2. CASE Consume(j)
  <2>1. /\ at["consumer"][j] = "idle" /\ topic[j] > 0 /\ Goto("consumer", j, "startJob")
        /\ UNCHANGED <<row, cluster, snap, results, launches, faults, outcome, serving>>
    BY <1>2 DEF Consume
  <2>2. topic'[j] = topic[j] - 1 /\ \A k \in Jobs \ {j} : topic'[k] = topic[k]
    BY <1>0, <1>2 DEF Consume, TypeOK
  <2>3. Kind[j] \in Orchestrated
    BY <1>0, <2>1 DEF JobInv, Budget
  <2>4. Routed(j)'
    BY <1>0, <1>1, <2>1, <2>2 DEF Ends, Routed, Handling, Pool!Held
  <2>5. Unfinished(j)
    BY <2>1 DEF Unfinished
  <2>6. faults' = 0 => Ended(j)'
    BY <1>0, <1>1, <2>1, <2>3 DEF Ends, Routed, Settled, Ended
  <2> QED BY <2>1, <2>2, <2>4, <2>5, <2>6, RoleEnds
<1>3. CASE Orchestrate(j)
  <2>1. PICK l \in {"orch75", "errorJob"}, res \in {"ok", "error"} :
          /\ at["consumer"][j] = "orchestrate" /\ Goto("consumer", j, l) /\ Tally(j, res)
          /\ UNCHANGED <<row, cluster, snap, topic, launches, faults, outcome, serving>>
    BY <1>3 DEF Orchestrate
  <2>2. \A k \in Jobs \ {j} : results'[k] = results[k]
    BY <1>0, <2>1 DEF Tally, TypeOK
  <2>3. Kind[j] \in Orchestrated
    BY <1>0, <2>1 DEF JobInv, Budget
  <2>4. Routed(j)'
    BY <1>0, <1>1, <2>1 DEF Ends, Routed, Handling, Pool!Held
  <2>5. Unfinished(j)
    BY <2>1 DEF Unfinished
  <2>6. faults' = 0 => Ended(j)'
    BY <1>0, <1>1, <2>1, <2>3 DEF Ends, Routed, Settled, Ended
  <2> QED BY <2>1, <2>2, <2>4, <2>5, <2>6, RoleEnds
<1>4. CASE LoseRecord(j)
  <2>1. UNCHANGED <<row, cluster, at, snap, results, launches, outcome, serving>>
        /\ topic[j] > 0 /\ faults' # 0
    BY <1>0, <1>4 DEF LoseRecord
  <2>2. topic'[j] = topic[j] - 1 /\ \A k \in Jobs \ {j} : topic'[k] = topic[k]
    BY <1>0, <1>4 DEF LoseRecord, TypeOK
  <2>3. Routed(j)'
    BY <1>0, <2>1, <2>2 DEF Ends, Routed, Handling, Pool!Held
  <2>4. Unfinished(j)
    BY <2>1 DEF Unfinished
  <2>5. Filled(j)'
    BY <1>0, <2>1, <2>4, FilledKept DEF Ends
  <2>6. Settled(j)'
    BY <2>1 DEF Settled
  <2>7. \A k \in Jobs \ {j} : Untouched(k)
    BY <2>1, <2>2 DEF Untouched
  <2>8. \A k \in Jobs : Pool!Held(k)' <=> Pool!Held(k)
    BY <2>1 DEF Pool!Held
  <2> QED BY <2>1, <2>3, <2>5, <2>6, <2>7, <2>8, OneJobEnds DEF Ends
<1> QED BY <1>2, <1>3, <1>4

(* A crash is a fault, and leaves no goroutine and no unsaved copy.        *)
LEMMA CrashEnds ==
  ASSUME IInv, EInv, Crash
  PROVE  EInv'
<1> SUFFICES ASSUME NEW j \in Jobs PROVE Ends(j)'
  BY DEF EInv
<1>0. TypeOK /\ Ends(j) /\ topic[j] \in Nat /\ MaxCopies \in Nat
  BY LifecycleAssumption DEF IInv, EInv, TypeOK
<1>1. \A r \in Roles :
        /\ at'[r][j] = IF r = "request" /\ at[r][j] # "idle" THEN "over" ELSE "idle"
        /\ snap'[r][j] = NoRow
  BY DEF Crash
<1>2. UNCHANGED <<row, cluster, topic, launches>> /\ faults' # 0
  BY <1>0, LifecycleAssumption DEF Crash, Fault, TypeOK
<1>3. ~Pool!Held(j)'
  BY PoolAssumption DEF Crash, Pool!Crash, Pool!Held
<1>4. Routed(j)'
  BY <1>0, <1>1, <1>2, <1>3 DEF Ends, Routed, Handling, Roles
<1>5. Filled(j)'
  <2>1. Unfinished(j)' => Unfinished(j)
    BY <1>1, <1>2 DEF Unfinished, Roles
  <2> QED BY <1>0, <1>1, <1>2, <2>1, FilledKept DEF Ends
<1>6. Settled(j)'
  BY <1>2 DEF Settled
<1> QED BY <1>4, <1>5, <1>6 DEF Ends

LEMMA StepEnds == IInv /\ EInv /\ Pool!ExactlyOnce /\ [Next]_vars => EInv'
<1> SUFFICES ASSUME IInv, EInv, Pool!ExactlyOnce, [Next]_vars PROVE EInv'
  OBVIOUS
<1>1. ASSUME NEW j \in Jobs, RequestStep(j) PROVE EInv'
  BY <1>1, RequestStepEnds
<1>2. ASSUME NEW w \in Workers, WorkerStep(w) \/ ProcessFails(w) PROVE EInv'
  BY <1>2, WorkerStepEnds
<1>3. ASSUME NEW r \in Roles, NEW j \in Jobs,
             ReadRow(r, j) \/ SaveRow(r, j) \/ CallFails(r, j)
      PROVE  EInv'
  BY <1>3, CallStepEnds
<1>4. ASSUME NEW j \in Jobs, RunnerStep(j) \/ PublishUnreliably(j) \/ RunnerPanics(j)
      PROVE  EInv'
  BY <1>4, RunnerStepEnds
<1>5. ASSUME NEW j \in Jobs, Consume(j) \/ Orchestrate(j) \/ LoseRecord(j)
      PROVE  EInv'
  BY <1>5, ConsumerStepEnds
<1>6. CASE Crash
  BY <1>6, CrashEnds
<1>7. CASE UNCHANGED vars
  <2>1. \A j \in Jobs : Untouched(j) /\ (Pool!Held(j)' <=> Pool!Held(j))
    BY <1>7 DEF vars, jobVars, Untouched, Pool!Held
  <2>2. cluster' = cluster /\ faults' = faults
    BY <1>7 DEF vars, jobVars
  <2> QED BY <2>1, <2>2, EndsFrame DEF EInv
<1> QED BY <1>1, <1>2, <1>3, <1>4, <1>5, <1>6, <1>7 DEF Next, FaultStep

LEMMA EndsInvariance == Spec => []EInv
BY InitEInv, StepEnds, Invariance, PoolHolds, PTL DEF Spec

(* A completed row has progress 100, whatever faults and crashes there     *)
(* were: always for a local job, and for an orchestrated one if the broker *)
(* does not duplicate its request record.                                  *)
THEOREM CompletedIsFullHolds == Spec => []CompletedIsFull
<1>1. EInv => CompletedIsFull
  BY DEF EInv, Ends, Filled, OneCopy, Full, CompletedIsFull
<1> QED BY <1>1, EndsInvariance, PTL

(* Without faults, a job nobody works on any more has one of the statuses  *)
(* its history allows, and never stays pending or running, however the     *)
(* saves of its four goroutines overwrote each other.                      *)
THEOREM SettlesFaultFreeHolds == Spec => []SettlesFaultFree
<1>1. IInv /\ EInv /\ Pool!ExactlyOnce => SettlesFaultFree
  <2> SUFFICES ASSUME IInv, EInv, Pool!ExactlyOnce, NEW j \in Jobs,
                      faults = 0, Quiet(j)
               PROVE  row[j].status \in FinalStatuses(j)
    BY DEF SettlesFaultFree
  <2>1. JobInv(j) /\ Routed(j) /\ Submitted(j) /\ Ended(j)
        /\ Kind[j] \in Local \cup Orchestrated /\ outcome[j] \in Pool!Outcomes
    BY LifecycleAssumption DEF IInv, EInv, Ends, Settled, TypeOK, Pool!TypeOK
  <2>2. /\ row[j] # NoRow /\ topic[j] = 0 /\ ~Pool!InChannel(j)
        /\ \A r \in Roles : at[r][j] \in {"idle", "over"}
    BY DEF Quiet
  <2>3. /\ at["worker"][j] = "idle" /\ at["runner"][j] = "idle"
        /\ at["consumer"][j] = "idle" /\ at["request"][j] \in {"idle", "over"}
    BY <2>1, <2>2 DEF JobInv, Located, Roles, WorkerLabels, RunnerLabels,
      RunnerCalls, ConsumerLabels, ConsumerCalls
  <2>4. CASE outcome[j] = "refused"
    <3>1. row[j].status = "queued_rejected"
      BY <2>1, <2>3, <2>4 DEF JobInv, Requested, Submitted
    <3>2. launches[j] = 0
      BY <2>1, <2>4 DEF JobInv, Launched
    <3> QED BY <2>4, <3>1, <3>2 DEF FinalStatuses
  <2>5. CASE launches[j] = 0 /\ outcome[j] # "refused"
    <3>1. outcome[j] # "new"
      BY <2>1, <2>2, <2>3 DEF JobInv, Requested, Submitted
    <3>2. outcome[j] # "accepted"
      BY <2>1, <2>2, <2>3 DEF Routed, Pool!ExactlyOnce
    <3>3. outcome[j] = "done"
      BY <2>1, <2>5, <3>1, <3>2 DEF Submitted, Pool!Outcomes
    <3>4. row[j].status = "queued"
      BY <2>1, <2>5, <3>3 DEF Submitted
    <3> QED BY <2>5, <3>4 DEF FinalStatuses
  <2>6. CASE launches[j] = 1 /\ outcome[j] # "refused"
    <3>1. CASE Kind[j] \in Orchestrated /\ cluster[j] = "absent"
      BY <2>1, <2>3, <2>6, <3>1 DEF Ended, FinalStatuses
    <3>2. CASE ~(Kind[j] \in Orchestrated /\ cluster[j] = "absent")
      <4>1. row[j].status \in {"completed", "queued"}
        BY <2>1, <2>2, <2>3, <2>6, <3>2 DEF Ended
      <4> QED BY <2>6, <3>2, <4>1 DEF FinalStatuses
    <3> QED BY <3>1, <3>2
  <2> QED BY <2>1, <2>4, <2>5, <2>6 DEF JobInv, Launched
<1> QED BY <1>1, Invariance, EndsInvariance, PoolHolds, PTL
=============================================================================
