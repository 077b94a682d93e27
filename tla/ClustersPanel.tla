---------------------------- MODULE ClustersPanel ----------------------------
(***************************************************************************)
(* components/ClustersPanel.tsx: the list of all clusters, filtered by     *)
(* status, with one editor and a delete button on every row.  Of a cluster *)
(* only its status is kept; a deleted one is None.  Every change is        *)
(* followed by a load of the list, which the same handler awaits.          *)
(***************************************************************************)
EXTENDS Naturals, FiniteSets, Requests

CONSTANTS
  Clusters,
  Statuses,
  MaxChanges,    \* bound: requests the user starts
  MaxFailures    \* bound: requests of a visit that fail

VARIABLE page

Tables == [Clusters -> Statuses \cup {None}]
Unlisted == [c \in Clusters |-> None]
Filters == Statuses \cup {"all"}

(* `editing' is what a handler's closure holds of editingClusterId.        *)
Request(kind, id, status, editing) ==
  [kind |-> kind, id |-> id, status |-> status, editing |-> editing,
   served |-> FALSE, answer |-> None]

List == Request("list", None, None, None)
Reload == [update |-> "update reload", delete |-> "delete reload"]
Loads == {"list", "update reload", "delete reload"}
Saves == {"update", "update reload"}

Closed == [id |-> None, status |-> None]

TypeOK ==
  /\ page.table \in Tables /\ page.listed \in Tables
  /\ page.loading \in BOOLEAN /\ page.saving \in BOOLEAN /\ page.mixed \in BOOLEAN
  /\ page.filter \in Filters
  /\ page.editor \in [id : Clusters \cup {None}, status : Statuses \cup {None}]
  /\ \A s \in Slots : page.calls[s] = Idle \/
       /\ page.calls[s].kind \in Loads \cup {"update", "delete"}
       /\ page.calls[s].answer \in Tables \cup {None}

-----------------------------------------------------------------------------
Mounted(table) ==
  [table |-> table, listed |-> Unlisted, loading |-> TRUE, filter |-> "all",
   editor |-> Closed, saving |-> FALSE, calls |-> Sent(NoCalls, List),
   changes |-> 0, failures |-> 0, mixed |-> FALSE]

Mounts == {Mounted(table) : table \in Tables}

Init == page \in Mounts

(* The rows: the clusters last loaded that pass the filter.                *)
Shown == {c \in Clusters : /\ page.listed[c] # None
                           /\ page.filter \in {"all", page.listed[c]}}

MayStart == HasRoom(page.calls) /\ page.changes < MaxChanges

(* `mixed' records that two requests of the page overlapped.               *)
Started(call) ==
  [page EXCEPT !.calls = Sent(@, call), !.changes = @ + 1,
               !.mixed = @ \/ page.calls # NoCalls]

Refresh ==
  /\ ~page.loading /\ MayStart
  /\ page' = [Started(List) EXCEPT !.loading = TRUE]

(* A card's button: a second click shows all again.                        *)
FilterByCard(key) ==
  page' = [page EXCEPT !.filter = IF @ = key THEN "all" ELSE key]

SelectFilter(key) ==
  /\ key # page.filter
  /\ page' = [page EXCEPT !.filter = key]

StartEditingAfresh(c) ==
  /\ c \in Shown
  /\ page' = [page EXCEPT !.saving = FALSE,
       !.editor = [id |-> c, status |-> page.listed[c]]]

(* The form is filled from the row; a save on its way keeps the button     *)
(* disabled.                                                               *)
StartEditing(c) ==
  /\ c \in Shown
  /\ page' = [page EXCEPT !.editor = [id |-> c, status |-> page.listed[c]]]

ChangeForm(status) ==
  /\ page.editor.id # None /\ status # page.editor.status
  /\ page' = [page EXCEPT !.editor.status = status]

CancelEditing ==
  /\ page.editor.id # None
  /\ page' = [page EXCEPT !.editor = Closed]

(* handleEditSave and handleDeleteCluster up to their first awaits.        *)
Save ==
  /\ page.editor.id # None /\ ~page.saving /\ MayStart
  /\ page' = [Started(Request("update", page.editor.id, page.editor.status, None))
                EXCEPT !.saving = TRUE]

Delete(c) ==
  /\ c \in Shown /\ MayStart
  /\ page' = Started(Request("delete", c, None, page.editor.id))

-----------------------------------------------------------------------------
(* The backend: a missing cluster cannot be updated, and deleting it is    *)
(* no error.                                                               *)
Serve(s) ==
  /\ page.calls[s] # Idle /\ ~page.calls[s].served
  /\ LET c == page.calls[s]
         Acted(table) == page' = [page EXCEPT !.table = table, !.calls[s].served = TRUE]
     IN \/ /\ c.kind = "update" /\ page.table[c.id] # None
           /\ Acted([page.table EXCEPT ![c.id] = c.status])
        \/ /\ c.kind = "delete"
           /\ Acted([page.table EXCEPT ![c.id] = None])
        \/ /\ c.kind \in Loads
           /\ page' = [page EXCEPT !.calls[s] =
                [c EXCEPT !.served = TRUE, !.answer = page.table]]

(* What a handler does after its load, whether the load succeeded or not:  *)
(* handleEditSave closes the editor, whichever cluster is in it by now.    *)
Finished(p, s) ==
  LET c == page.calls[s] IN
  [p EXCEPT !.calls = Done(@, s), !.loading = FALSE,
     !.saving = @ /\ c.kind # "update reload",
     !.editor = IF c.kind = "update reload" \/ (c.kind = "delete reload" /\ c.editing = c.id)
                THEN Closed ELSE @]

DeliverList(s) ==
  /\ page.calls[s] # Idle /\ page.calls[s].served /\ page.calls[s].kind \in Loads
  /\ page' = Finished([page EXCEPT !.listed = page.calls[s].answer], s)

DeliverChangeOnly(s) ==
  /\ page.calls[s] # Idle /\ page.calls[s].served
  /\ page.calls[s].kind \in DOMAIN Reload
  /\ page' = [page EXCEPT !.calls = Done(@, s), !.saving = FALSE, !.editor = Closed]

DeliverChange(s) ==
  /\ page.calls[s] # Idle /\ page.calls[s].served
  /\ page.calls[s].kind \in DOMAIN Reload
  /\ page' = [page EXCEPT !.loading = TRUE,
       !.calls[s] = [@ EXCEPT !.kind = Reload[page.calls[s].kind], !.served = FALSE]]

Deliver(s) == DeliverList(s) \/ DeliverChange(s)

(* A failed load leaves the rows; a failed change loads nothing.           *)
Fail(s) ==
  /\ page.calls[s] # Idle
  /\ LET c == page.calls[s]
         failed == [page EXCEPT !.failures = IF @ < MaxFailures THEN @ + 1 ELSE @,
                                !.mixed = TRUE]
     IN /\ \/ page.failures < MaxFailures
           \/ c.kind = "update" /\ ~c.served /\ page.table[c.id] = None
        /\ page' = IF c.kind \in Loads THEN Finished(failed, s)
                   ELSE [failed EXCEPT !.calls = Done(@, s),
                                       !.saving = @ /\ c.kind # "update"]

-----------------------------------------------------------------------------
Next ==
  \/ Refresh \/ CancelEditing \/ Save
  \/ \E key \in Filters : FilterByCard(key) \/ SelectFilter(key)
  \/ \E c \in Clusters : StartEditing(c) \/ Delete(c)
  \/ \E status \in Statuses : ChangeForm(status)
  \/ \E s \in Slots : Serve(s) \/ Deliver(s) \/ Fail(s)

-----------------------------------------------------------------------------
(* One update at a time, although its editor may be closed and opened for  *)
(* another cluster while it is on its way.                                 *)
OneSave == Cardinality(InFlight(page.calls, Saves)) <= 1

(* The flags are on only while a request that clears them is on its way.   *)
Settles ==
  /\ page.loading => InFlight(page.calls, Loads) # {}
  /\ page.saving => InFlight(page.calls, Saves) # {}

(* Every change reloads: the rows are what the backend has, as long as     *)
(* requests do not overlap or fail.                                        *)
ListedAgrees ==
  ~page.mixed /\ page.calls = NoCalls => page.listed = page.table
=============================================================================
