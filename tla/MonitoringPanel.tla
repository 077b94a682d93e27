--------------------------- MODULE MonitoringPanel ---------------------------
(***************************************************************************)
(* components/MonitoringPanel.tsx: the stored metrics of one cluster or of *)
(* all, by type and by page, and the status of the rate limiter and of the *)
(* worker pool, read after every load and by an interval of five seconds.  *)
(*                                                                         *)
(* A slot holds one run of a handler: its kind says which answer the       *)
(* handler awaits, and with that answer it goes on to its next request.    *)
(***************************************************************************)
EXTENDS Naturals, FiniteSets, Requests

CONSTANTS
  Clusters,      \* ids; the empty id, for all of them, is None
  Types,         \* metric types; the empty one is None
  Sizes,         \* rows per page
  DefaultSize,   \* twenty
  Rows,          \* number of stored metrics, by cluster and type
  MaxPage,       \* bound: pages asked for
  MaxChanges,    \* bound: questions asked by the user
  MaxFailures    \* bound: requests of a visit that fail

AnyCluster == Clusters \cup {None}
AnyType == Types \cup {None}

VARIABLE page

Asks == [cluster : AnyCluster, type : AnyType, page : 1 .. MaxPage, size : Sizes]
FirstAsk == [cluster |-> None, type |-> None, page |-> 1, size |-> DefaultSize]
Scopes == {"global", "scoped"}
Loads == {"metrics", "load rate", "load pool"}
Polls == {"poll pool", "poll rate"}
Fetches == {"fetch global", "fetch scoped"}

Total(ask) == Rows[ask.cluster][ask.type]
Pages(total, size) == IF total = 0 THEN 1 ELSE (total + size - 1) \div size

(* The rows of the answer on display; without any, the table and all its   *)
(* controls are left out.                                                  *)
HasRows == /\ page.view # None
           /\ (page.view.page - 1) * page.view.size < Total(page.view)

Request(kind, ask) == [kind |-> kind, ask |-> ask]

TypeOK ==
  /\ page.ask \in Asks /\ page.view \in Asks \cup {None}
  /\ page.clusters \subseteq Clusters
  /\ page.loading \in BOOLEAN /\ page.pool \in BOOLEAN
  /\ page.rate \in Scopes \cup {None}
  /\ page.calls \in [Slots -> {Idle} \cup
       [kind : Loads \cup Polls \cup Fetches \cup {"clusters"}, ask : Asks]]

-----------------------------------------------------------------------------
(* loadMetrics up to its first await.                                      *)
Loading(p, ask) ==
  [p EXCEPT !.loading = TRUE, !.calls = Sent(@, Request("metrics", ask))]

(* The first render asks for the metrics of all clusters and for the list  *)
(* of clusters.                                                            *)
Mounted ==
  Loading([ask |-> FirstAsk, view |-> None, clusters |-> {}, loading |-> FALSE,
           rate |-> None, pool |-> FALSE, changes |-> 0, failures |-> 0,
           calls |-> Sent(NoCalls, Request("clusters", FirstAsk))], FirstAsk)

Mounts == {Mounted}

Init == page \in Mounts

MayAsk == HasRoom(page.calls) /\ page.changes < MaxChanges

(* The effect on clusterId, selectedType, page and pageSize.               *)
Reask(ask) ==
  /\ MayAsk /\ ask # page.ask /\ ask.page <= MaxPage
  /\ page' = [Loading(page, ask) EXCEPT !.ask = ask, !.changes = @ + 1]

Refresh ==
  /\ MayAsk /\ ~page.loading
  /\ page' = [Loading(page, page.ask) EXCEPT !.changes = @ + 1]

(* The two selects keep the page.                                          *)
SelectCluster(c) ==
  /\ c \in page.clusters \cup {None}
  /\ Reask([page.ask EXCEPT !.cluster = c])

SelectType(t) == Reask([page.ask EXCEPT !.type = t])

(* The controls go by the answer on display; Next adds to the page in use. *)
FirstPage == HasRows /\ page.view.page > 1 /\ Reask([page.ask EXCEPT !.page = 1])

PrevPage ==
  /\ HasRows /\ page.view.page > 1
  /\ Reask([page.ask EXCEPT !.page = IF @ > 1 THEN @ - 1 ELSE 1])

MoreRows == HasRows /\ page.view.page * page.view.size < Total(page.view)

NextPage == MoreRows /\ Reask([page.ask EXCEPT !.page = @ + 1])

LastPage ==
  /\ MoreRows
  /\ Reask([page.ask EXCEPT !.page = Pages(Total(page.view), page.view.size)])

SetPageSize(n) ==
  HasRows /\ Reask([page.ask EXCEPT !.size = n, !.page = 1])

PollWhileShown ==
  /\ HasRoom(page.calls) /\ page.pool
  /\ page' = [page EXCEPT !.calls = Sent(@, Request("poll pool", page.ask))]

(* The interval, which reads the pool first.                               *)
Poll ==
  /\ HasRoom(page.calls)
  /\ page' = [page EXCEPT !.calls = Sent(@, Request("poll pool", page.ask))]

(* fetchScopedRateLimit, for the scope chosen beside the button.           *)
FetchScoped(kind) ==
  /\ MayAsk
  /\ page' = [page EXCEPT !.changes = @ + 1,
                          !.calls = Sent(@, Request(kind, page.ask))]

-----------------------------------------------------------------------------
(* What a handler goes on to, whether its request succeeded or failed.     *)
Follower == [kind \in {"metrics", "load rate", "poll pool"} |->
  CASE kind = "metrics" -> "load rate"
    [] kind = "load rate" -> "load pool"
    [] kind = "poll pool" -> "poll rate"]

Resumed(p, s) ==
  IF p.calls[s].kind \in DOMAIN Follower
  THEN [p EXCEPT !.calls[s].kind = Follower[@]]
  ELSE [p EXCEPT !.calls = Done(@, s)]

Awaits(s, kinds) == s \in InFlight(page.calls, kinds)

DeliverMetrics(s) ==
  /\ Awaits(s, {"metrics"})
  /\ page' = Resumed([page EXCEPT !.view = page.calls[s].ask, !.loading = FALSE], s)

DeliverRate(s) ==
  /\ Awaits(s, {"load rate", "poll rate"} \cup Fetches)
  /\ page' = Resumed([page EXCEPT !.rate =
       IF page.calls[s].kind = "fetch scoped" THEN "scoped" ELSE "global"], s)

DeliverPool(s) ==
  /\ Awaits(s, {"load pool", "poll pool"})
  /\ page' = Resumed([page EXCEPT !.pool = TRUE], s)

(* The dropdown is filled; the handler remembers the first render, where   *)
(* no cluster is selected, and selects the first.                          *)
DeliverClusters(s, list) ==
  /\ Awaits(s, {"clusters"})
  /\ LET got == [page EXCEPT !.clusters = list, !.calls = Done(@, s)] IN
     IF list = {} THEN page' = got
     ELSE \E first \in list :
            LET ask == [page.ask EXCEPT !.cluster = first]
            IN page' = IF ask = page.ask THEN got
                       ELSE [Loading(got, ask) EXCEPT !.ask = ask]

Deliver(s) ==
  \/ DeliverMetrics(s) \/ DeliverRate(s) \/ DeliverPool(s)
  \/ \E list \in SUBSET Clusters : DeliverClusters(s, list)

(* A failed load blanks what it was to show; a failed poll changes nothing. *)
Fail(s) ==
  /\ page.calls[s] # Idle /\ page.failures < MaxFailures
  /\ LET kind == page.calls[s].kind IN
     page' = Resumed([page EXCEPT !.failures = @ + 1,
       !.loading = @ /\ kind # "metrics",
       !.rate = IF kind \in {"load rate"} \cup Fetches THEN None ELSE @,
       !.pool = @ /\ kind # "load pool"], s)

-----------------------------------------------------------------------------
Next ==
  \/ Refresh \/ FirstPage \/ PrevPage \/ NextPage \/ LastPage \/ Poll
  \/ \E c \in AnyCluster : SelectCluster(c)
  \/ \E t \in AnyType : SelectType(t)
  \/ \E n \in Sizes : SetPageSize(n)
  \/ \E kind \in Fetches : FetchScoped(kind)
  \/ \E s \in Slots : Deliver(s) \/ Fail(s)

-----------------------------------------------------------------------------
(* The flag is on only while a load that clears it is on its way.          *)
Settles == page.loading => InFlight(page.calls, {"metrics"}) # {}

(* Both status cards show something: what a failed load blanked is back.   *)
StatusShown == page.rate # None /\ page.pool

(* "No metrics found for this cluster" is said when the cluster has none   *)
(* of the type asked for.                                                  *)
NoMetricsMeansNone ==
  page.view # None /\ ~HasRows /\ ~page.loading => Total(page.view) = 0
=============================================================================
