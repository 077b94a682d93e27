----------------------------- MODULE BillingPanel -----------------------------
(***************************************************************************)
(* components/BillingPanel.tsx: the estimated costs of the cluster that    *)
(* was selected when Estimate was clicked; an estimate is represented by   *)
(* that cluster.                                                           *)
(***************************************************************************)
EXTENDS Naturals, FiniteSets, Requests

CONSTANTS
  Clusters,
  MaxChanges,    \* bound: estimates asked for
  MaxFailures    \* bound: requests of a visit that fail

VARIABLE page

Request(kind, cluster) == [kind |-> kind, cluster |-> cluster]

TypeOK ==
  /\ page.clusters \in BOOLEAN /\ page.loading \in BOOLEAN /\ page.error \in BOOLEAN
  /\ page.selected \in Clusters \cup {None} /\ page.estimate \in Clusters \cup {None}
  /\ page.calls \in [Slots -> {Idle} \cup
       [kind : {"clusters", "estimate"}, cluster : Clusters \cup {None}]]

Mounts ==
  {[clusters |-> FALSE, selected |-> None, estimate |-> None, loading |-> FALSE,
    error |-> FALSE, calls |-> Sent(NoCalls, Request("clusters", None)),
    changes |-> 0, failures |-> 0]}

Init == page \in Mounts

SelectCluster(c) ==
  /\ c # page.selected /\ (c # None => page.clusters)
  /\ page' = [page EXCEPT !.selected = c]

Estimate ==
  /\ ~page.loading
  /\ \/ page.selected = None /\ page' = [page EXCEPT !.error = TRUE]
     \/ /\ page.selected # None
        /\ HasRoom(page.calls) /\ page.changes < MaxChanges
        /\ page' = [page EXCEPT !.loading = TRUE, !.error = FALSE, !.changes = @ + 1,
                      !.calls = Sent(@, Request("estimate", page.selected))]

(* The estimate on its way stays on its way.                               *)
Reset ==
  page' = [page EXCEPT !.selected = None, !.estimate = None, !.error = FALSE]

Deliver(s) ==
  /\ page.calls[s] # Idle
  /\ LET c == page.calls[s] IN
     page' = IF c.kind = "clusters"
             THEN [page EXCEPT !.calls = Done(@, s), !.clusters = TRUE]
             ELSE [page EXCEPT !.calls = Done(@, s), !.estimate = c.cluster,
                               !.loading = FALSE]

Fail(s) ==
  /\ page.calls[s] # Idle /\ page.failures < MaxFailures
  /\ LET asked == page.calls[s].kind = "estimate" IN
     page' = [page EXCEPT !.calls = Done(@, s), !.failures = @ + 1,
                          !.error = @ \/ asked, !.loading = @ /\ ~asked]

Next ==
  \/ Estimate \/ Reset
  \/ \E c \in Clusters \cup {None} : SelectCluster(c)
  \/ \E s \in Slots : Deliver(s) \/ Fail(s)

-----------------------------------------------------------------------------
(* One estimate at a time, and the flag is on exactly while it is asked    *)
(* for, whatever is selected or reset meanwhile.                           *)
OneEstimate ==
  Cardinality(InFlight(page.calls, {"estimate"})) = IF page.loading THEN 1 ELSE 0
=============================================================================
