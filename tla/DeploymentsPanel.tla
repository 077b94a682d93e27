-------------------------- MODULE DeploymentsPanel --------------------------
(***************************************************************************)
(* components/DeploymentsPanel.tsx and the deployment service behind it.   *)
(* A deployment is rolled out by a goroutine that keeps a copy of it and   *)
(* saves the copy whole after every step, whatever a manual rollback wrote *)
(* meanwhile; an error of a save is ignored.  Of a deployment the cluster  *)
(* and the status are kept.                                                *)
(***************************************************************************)
EXTENDS Naturals, FiniteSets, Requests

CONSTANTS
  Clusters,
  MaxDeployments,  \* bound: deployments there ever are
  Steps,           \* steps of a rollout: four or five
  Monitor,         \* the step that may find an issue
  MaxChanges,      \* bound: requests the user starts
  MaxFailures      \* bound: failed requests, lost saves and restarts

VARIABLE page

Ids == 1 .. MaxDeployments
Ended == {"rolled_out", "rolled_back"}
RolloutStatuses == Ended \cup {"pending", "in-progress", "failed"}
Deployments == [cluster : Clusters, status : RolloutStatuses]
Tables == [Ids -> Deployments \cup {None}]
Empty == [d \in Ids |-> None]

(* A rollout's next step: 0 is its first read, Steps + 1 the end; another  *)
(* one is the pause before the automatic rollback.                         *)
Pause == Steps + 2
Rollouts == [Ids -> {None} \cup 0 .. Pause]

Request(kind, cluster, id) ==
  [kind |-> kind, cluster |-> cluster, id |-> id, served |-> FALSE, answer |-> None]

Loads == {"list", "start reload", "rollback reload"}
Starts == {"start", "start reload"}
Reload == [start |-> "start reload", rollback |-> "rollback reload"]

TypeOK ==
  /\ page.db \in Tables /\ page.shown \in Tables
  /\ page.selected \in Clusters \cup {None}
  /\ page.loading \in BOOLEAN /\ page.creating \in BOOLEAN
  /\ page.logs \in Ids \cup {None} /\ page.stuck \subseteq Ids
  /\ page.rollout \in Rollouts
  /\ \A s \in Slots : page.calls[s] = Idle \/
       /\ page.calls[s].kind \in Loads \cup {"start", "rollback", "logs"}
       /\ page.calls[s].cluster \in Clusters
       /\ page.calls[s].id \in Ids \cup {None}
       /\ page.calls[s].answer \in Tables \cup {None}

-----------------------------------------------------------------------------
(* What a visit finds of an earlier deployment: just started, rolled back  *)
(* by hand while its rollout goes on, or cut short.  What else there may   *)
(* be these become while the user does nothing yet.                        *)
Left == {<<"pending", 0>>, <<"rolled_back", 0>>, <<"in-progress", None>>}

Mounted(kept, left) ==
  [db |-> [d \in Ids |-> IF d \in DOMAIN kept
             THEN [cluster |-> kept[d], status |-> left[d][1]] ELSE None],
   rollout |-> [d \in Ids |-> IF d \in DOMAIN kept THEN left[d][2] ELSE None],
   stuck |-> {d \in DOMAIN kept : left[d][2] = None /\ left[d][1] \notin Ended},
   shown |-> Empty, selected |-> None, loading |-> FALSE, creating |-> FALSE,
   logs |-> None, calls |-> NoCalls, changes |-> 0, failures |-> 0]

(* There is room left for a start.                                         *)
Mounts ==
  UNION {{Mounted(kept, left) : kept \in [1 .. n -> Clusters], left \in [1 .. n -> Left]} :
           n \in 0 .. MaxDeployments - 1}

Init == page \in Mounts

MayStart == HasRoom(page.calls) /\ page.changes < MaxChanges

Started(call) == [page EXCEPT !.calls = Sent(@, call), !.changes = @ + 1]

(* The effect loads the deployments of the cluster; for the empty option   *)
(* the old rows stay, out of sight.                                        *)
SelectCluster(c) ==
  /\ MayStart /\ c # page.selected
  /\ page' = IF c = None THEN [page EXCEPT !.selected = c, !.changes = @ + 1]
             ELSE [Started(Request("list", c, None)) EXCEPT !.selected = c, !.loading = TRUE]

Refresh ==
  /\ MayStart /\ page.selected # None /\ ~page.loading
  /\ page' = [Started(Request("list", page.selected, None)) EXCEPT !.loading = TRUE]

Start ==
  /\ MayStart /\ page.selected # None /\ ~page.creating
  /\ page' = [Started(Request("start", page.selected, None)) EXCEPT !.creating = TRUE]

RowsListed == IF page.selected = None THEN {} ELSE {d \in Ids : page.shown[d] # None}

Rollback(d) ==
  /\ MayStart /\ d \in RowsListed
  /\ page' = Started(Request("rollback", page.selected, d))

ViewLogs(d) ==
  /\ MayStart /\ d \in RowsListed
  /\ page' = Started(Request("logs", page.selected, d))

CloseLogs ==
  /\ page.logs # None
  /\ page' = [page EXCEPT !.logs = None]

-----------------------------------------------------------------------------
Unused == {d \in Ids : page.db[d] = None}

Serve(s) ==
  /\ page.calls[s] # Idle /\ ~page.calls[s].served
  /\ LET c == page.calls[s]
         served == [page EXCEPT !.calls[s].served = TRUE]
     IN \/ /\ c.kind = "start" /\ Unused # {}
           /\ LET d == CHOOSE e \in Unused : \A f \in Unused : e <= f IN
              page' = [served EXCEPT !.rollout[d] = 0,
                         !.db[d] = [cluster |-> c.cluster, status |-> "pending"]]
        \/ /\ c.kind = "rollback"
           /\ page' = [served EXCEPT !.db[c.id].status = "rolled_back"]
        \/ c.kind = "logs" /\ page' = served
        \/ /\ c.kind \in Loads
           /\ page' = [served EXCEPT !.calls[s].answer =
                [d \in Ids |-> IF page.db[d] # None /\ page.db[d].cluster = c.cluster
                               THEN page.db[d] ELSE None]]

Running(d) == page.rollout[d] \notin {None, Pause}

(* A save of the rollout d: its own status for the record, and what it is  *)
(* at next.                                                                *)
Saved(d, status, next) ==
  page' = [page EXCEPT !.db[d].status = status, !.rollout[d] = next]

(* The first read and save, and the steps after it; the last ends it.      *)
Step(d) ==
  /\ Running(d)
  /\ LET i == page.rollout[d] IN
     IF i <= Steps THEN Saved(d, "in-progress", i + 1) ELSE Saved(d, "rolled_out", None)

IssueAndStop(d) == Running(d) /\ page.rollout[d] = Monitor + 1 /\ Saved(d, "failed", None)

(* The step that monitors finds an issue, and after a pause rolls back.    *)
Issue(d) == Running(d) /\ page.rollout[d] = Monitor + 1 /\ Saved(d, "failed", Pause)

AutomaticRollback(d) == page.rollout[d] = Pause /\ Saved(d, "rolled_back", None)

Roll(d) == Step(d) \/ Issue(d) \/ AutomaticRollback(d)

(* A read or a save of the rollout fails.  The read ends it; the next save *)
(* makes up for another one; nothing makes up for the last.                *)
Lost(d, next) ==
  page' = [page EXCEPT !.failures = @ + 1, !.rollout[d] = next,
                       !.stuck = IF next = None THEN @ \cup {d} ELSE @]

LoseSave(d) ==
  /\ page.rollout[d] # None /\ page.failures < MaxFailures
  /\ LET i == page.rollout[d] IN
     \/ i \in {0, Steps + 1, Pause} /\ Lost(d, None)
     \/ i <= Steps /\ Lost(d, i + 1)
     \/ i = Monitor + 1 /\ Lost(d, Pause)

(* The backend restarts: the rollouts are gone.                            *)
Restart ==
  /\ page.failures < MaxFailures
  /\ \E d \in Ids : page.rollout[d] # None
  /\ page' = [page EXCEPT !.failures = @ + 1, !.rollout = [d \in Ids |-> None],
                          !.stuck = @ \cup {d \in Ids : page.rollout[d] # None}]

-----------------------------------------------------------------------------
Arrived(s, kinds) == s \in InFlight(page.calls, kinds) /\ page.calls[s].served

DeliverList(s) ==
  /\ Arrived(s, Loads)
  /\ page' = [page EXCEPT !.calls = Done(@, s), !.shown = page.calls[s].answer,
       !.loading = FALSE, !.creating = @ /\ page.calls[s].kind # "start reload"]

(* onStart loads the cluster selected at the click, and so does the        *)
(* rollback.                                                               *)
DeliverChange(s) ==
  /\ Arrived(s, DOMAIN Reload)
  /\ page' = [page EXCEPT !.loading = TRUE,
       !.calls[s] = [@ EXCEPT !.kind = Reload[page.calls[s].kind], !.served = FALSE]]

DeliverLogs(s) ==
  /\ Arrived(s, {"logs"})
  /\ page' = [page EXCEPT !.calls = Done(@, s), !.logs = page.calls[s].id]

Deliver(s) == DeliverList(s) \/ DeliverChange(s) \/ DeliverLogs(s)

Fail(s) ==
  /\ page.calls[s] # Idle
  /\ \/ page.failures < MaxFailures
     \/ page.calls[s].kind = "start" /\ ~page.calls[s].served /\ Unused = {}
  /\ page' = [page EXCEPT !.calls = Done(@, s),
       !.failures = IF @ < MaxFailures THEN @ + 1 ELSE @,
       !.loading = @ /\ page.calls[s].kind \notin Loads,
       !.creating = @ /\ page.calls[s].kind \notin Starts]

-----------------------------------------------------------------------------
Next ==
  \/ Refresh \/ Start \/ CloseLogs \/ Restart
  \/ \E c \in Clusters \cup {None} : SelectCluster(c)
  \/ \E d \in Ids : Rollback(d) \/ ViewLogs(d) \/ Roll(d) \/ LoseSave(d)
  \/ \E s \in Slots : Serve(s) \/ Deliver(s) \/ Fail(s)

-----------------------------------------------------------------------------
(* One start at a time, up to the load that follows it.                    *)
OneStart == Cardinality(InFlight(page.calls, Starts)) <= 1

(* The flags are on only while a request that clears them is on its way.   *)
Settles ==
  /\ page.loading => InFlight(page.calls, Loads) # {}
  /\ page.creating => InFlight(page.calls, Starts) # {}

(* Every deployment has ended, save those whose rollout was cut short.     *)
AllEnded == \A d \in Ids \ page.stuck : page.db[d] # None => page.db[d].status \in Ended
=============================================================================
