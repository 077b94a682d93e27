-------------------------- MODULE CreateClusterPanel --------------------------
(***************************************************************************)
(* components/CreateClusterPanel.tsx: the form that creates a cluster and, *)
(* when the backend answered, goes to the list of clusters.                *)
(***************************************************************************)
EXTENDS Naturals, FiniteSets, Requests

CONSTANTS
  MaxChanges,    \* bound: submissions
  MaxFailures    \* bound: submissions that fail

VARIABLE page

(* A name that is missing stops the browser, one that is blank the form.   *)
FormNames == {"missing", "blank", "given"}

TypeOK ==
  /\ page.name \in FormNames
  /\ page.error \in BOOLEAN /\ page.saving \in BOOLEAN /\ page.left \in BOOLEAN
  /\ page.calls \in [Slots -> {Idle} \cup [kind : {"create"}]]

Mounts == {[name |-> "missing", error |-> FALSE, saving |-> FALSE, left |-> FALSE,
            calls |-> NoCalls, changes |-> 0, failures |-> 0]}

Init == page \in Mounts

SetName(name) == ~page.left /\ name # page.name /\ page' = [page EXCEPT !.name = name]

(* handleSubmit up to its await.                                           *)
Submit ==
  /\ ~page.left /\ ~page.saving /\ page.name # "missing"
  /\ \/ page.name = "blank" /\ page' = [page EXCEPT !.error = TRUE]
     \/ /\ page.name = "given" /\ HasRoom(page.calls) /\ page.changes < MaxChanges
        /\ page' = [page EXCEPT !.saving = TRUE, !.error = FALSE, !.changes = @ + 1,
                                !.calls = Sent(@, [kind |-> "create"])]

(* The answer; the page is left for the list of clusters.                  *)
Deliver(s) ==
  /\ page.calls[s] # Idle
  /\ page' = [page EXCEPT !.calls = Done(@, s), !.saving = FALSE, !.left = TRUE]

Fail(s) ==
  /\ page.calls[s] # Idle /\ page.failures < MaxFailures
  /\ page' = [page EXCEPT !.calls = Done(@, s), !.saving = FALSE, !.error = TRUE,
                          !.failures = @ + 1]

Next ==
  \/ Submit
  \/ \E name \in FormNames : SetName(name)
  \/ \E s \in Slots : Deliver(s) \/ Fail(s)

-----------------------------------------------------------------------------
(* The flag is on exactly while one cluster is being created.              *)
OneSubmission ==
  Cardinality(InFlight(page.calls, {"create"})) = IF page.saving THEN 1 ELSE 0
=============================================================================
