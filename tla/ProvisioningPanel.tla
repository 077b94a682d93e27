-------------------------- MODULE ProvisioningPanel --------------------------
(***************************************************************************)
(* components/ProvisioningPanel.tsx with its tabs: templates (OverviewTab) *)
(* and a form (CreateDropletTab) that create droplets, and the table of    *)
(* droplets (DropletsListTab over TabularSection).  Behind it, the         *)
(* droplet repository, whose goroutine saves a new droplet once more, as   *)
(* active, two seconds after it was created.                               *)
(*                                                                         *)
(* Droplets are numbered in the order they are created.                    *)
(***************************************************************************)
EXTENDS FiniteSets, TabularSection, Requests

CONSTANTS
  MaxDroplets,   \* bound: droplets there ever are
  MaxChanges,    \* bound: requests, changes of the table and others' droplets of a visit
  MaxFailures    \* bound: requests of a visit that fail

VARIABLE page

Ids == 1 .. MaxDroplets
DropletStatuses == {"active", "provisioning"}
Tables == [Ids -> DropletStatuses \cup {None, "gone"}]
Listings == [Ids -> DropletStatuses \cup {None}]
Tabs == {"overview", "create", "droplets"}

Listing(table) == [d \in Ids |-> IF table[d] \in DropletStatuses THEN table[d] ELSE None]
Empty == [d \in Ids |-> None]
Blank == [named |-> FALSE, clustered |-> FALSE]

Request(kind, id) == [kind |-> kind, id |-> id, served |-> FALSE, answer |-> None]

Loads == {"list", "create reload", "delete reload"}
Creations == {"create", "create reload"}
Reload == [create |-> "create reload", delete |-> "delete reload"]

(* The rows, oldest and newest first; DropletsListTab gives the latter.    *)
RowsOf(listed, upto) ==
  Arranged([d \in Ids |-> [id |-> d, status |-> listed[d]]],
           {d \in Ids : listed[d] # None}, upto)

OldestFirst(listed) == RowsOf(listed, {p \in Ids \X Ids : p[1] <= p[2]})

NewestFirst(listed) == RowsOf(listed, {p \in Ids \X Ids : p[1] >= p[2]})

Items(listed) == NewestFirst(listed)

TypeOK ==
  /\ page.table \in Tables /\ page.booting \subseteq Ids /\ page.others \subseteq Ids
  /\ page.listed \in Listings
  /\ page.tab \in Tabs /\ page.loading \in BOOLEAN
  /\ page.form \in [named : BOOLEAN, clustered : BOOLEAN]
  /\ page.highlight \in Ids \cup {None}
  /\ page.view.at \in 1 .. MaxDroplets /\ page.view.size \in RowSizes
  /\ page.view.dir \in Directions \cup {Unset}
  /\ \A s \in Slots : page.calls[s] = Idle \/
       /\ page.calls[s].kind \in Loads \cup {"create", "delete"}
       /\ page.calls[s].id \in Ids \cup {None}
       /\ page.calls[s].answer \in Listings \cup {None}

-----------------------------------------------------------------------------
(* `others' are the droplets that others created since (history).          *)
Mounted(table, booting) ==
  [table |-> table, booting |-> booting, others |-> {}, listed |-> Empty, tab |-> "overview",
   loading |-> FALSE, form |-> Blank, highlight |-> None, view |-> FirstView,
   calls |-> Sent(NoCalls, Request("list", None)), changes |-> 0, failures |-> 0]

(* Droplets from before the visit are still becoming active, each by its   *)
(* goroutine, and may do so before the user does anything; or a restart of *)
(* the backend ended the goroutine.                                        *)
Mounts ==
  UNION {{Mounted([d \in Ids |-> IF d <= n THEN "provisioning" ELSE None], booting) :
            booting \in SUBSET (1 .. n)} :
           n \in 0 .. MaxDroplets - 1}

Init == page \in Mounts

MayStart == HasRoom(page.calls) /\ page.changes < MaxChanges

Started(call) == [page EXCEPT !.calls = Sent(@, call), !.changes = @ + 1]

(* The table is mounted anew with its tab.                                 *)
Opened(p, tab) ==
  [p EXCEPT !.tab = tab, !.view = IF page.tab = tab THEN @ ELSE FirstView]

SelectTab(tab) == tab # page.tab /\ page' = Opened(page, tab)

(* A template names the droplet and leaves the cluster as it is.           *)
QuickDeploy ==
  /\ page.tab = "overview"
  /\ page' = Opened([page EXCEPT !.form.named = TRUE], "create")

ChangeForm(form) ==
  /\ page.tab = "create" /\ form # page.form
  /\ page' = [page EXCEPT !.form = form]

(* The button, and so handleCreate, up to its await.                       *)
Create ==
  /\ page.tab = "create" /\ MayStart
  /\ ~page.loading /\ page.form.named /\ page.form.clustered
  /\ page' = [Started(Request("create", None)) EXCEPT !.loading = TRUE]

Refresh ==
  /\ page.tab = "droplets" /\ ~page.loading /\ MayStart
  /\ page' = Started(Request("list", None))

Delete(d) ==
  /\ page.tab = "droplets" /\ MayStart
  /\ \E i \in DOMAIN RowsShown(Items(page.listed), page.view) :
       RowsShown(Items(page.listed), page.view)[i].id = d
  /\ page' = Started(Request("delete", d))

Browse(view) ==
  /\ page.tab = "droplets" /\ page.changes < MaxChanges
  /\ view \in Views(Items(page.listed), page.view) \ {page.view}
  /\ page' = [page EXCEPT !.view = view, !.changes = @ + 1]

(* The timer of the highlight.                                             *)
Unhighlight ==
  /\ page.highlight # None
  /\ page' = [page EXCEPT !.highlight = None]

-----------------------------------------------------------------------------
Unused == {d \in Ids : page.table[d] = None}
Lowest(ids) == CHOOSE d \in ids : \A e \in ids : d <= e

(* The repository acts: deleting a droplet that is gone is no error.       *)
Serve(s) ==
  /\ page.calls[s] # Idle /\ ~page.calls[s].served
  /\ LET c == page.calls[s] IN
     \/ /\ c.kind = "create" /\ Unused # {}
        /\ LET d == Lowest(Unused) IN
           page' = [page EXCEPT !.table[d] = "provisioning", !.booting = @ \cup {d},
                                !.calls[s] = [c EXCEPT !.served = TRUE, !.id = d]]
     \/ /\ c.kind = "delete"
        /\ page' = [page EXCEPT !.table[c.id] = "gone", !.calls[s].served = TRUE]
     \/ /\ c.kind \in Loads
        /\ page' = [page EXCEPT !.calls[s] =
             [c EXCEPT !.served = TRUE, !.answer = Listing(page.table)]]

(* A job, or another page, creates one.                                    *)
CreateElsewhere ==
  /\ page.changes < MaxChanges /\ Unused # {}
  /\ LET d == Lowest(Unused) IN
     page' = [page EXCEPT !.table[d] = "provisioning", !.booting = @ \cup {d},
                          !.others = @ \cup {d}, !.changes = @ + 1]

(* The goroutine saves the droplet whole, deleted or not.                  *)
Boot(d) ==
  /\ d \in page.booting
  /\ page' = [page EXCEPT !.table[d] = "active", !.booting = @ \ {d}]

DeliverChangeDone(s) ==
  /\ page.calls[s] # Idle /\ page.calls[s].served
  /\ page.calls[s].kind \in DOMAIN Reload
  /\ page' = [page EXCEPT !.loading = FALSE,
       !.calls[s] = [@ EXCEPT !.kind = Reload[page.calls[s].kind], !.served = FALSE]]

(* handleCreate and handleDelete resume and load the droplets.             *)
DeliverChange(s) ==
  /\ page.calls[s] # Idle /\ page.calls[s].served
  /\ page.calls[s].kind \in DOMAIN Reload
  /\ page' = [page EXCEPT
       !.calls[s] = [@ EXCEPT !.kind = Reload[page.calls[s].kind], !.served = FALSE]]

(* loadDroplets ends, without rows when it failed; handleCreate goes on to *)
(* show the droplet and to clear the form.                                 *)
Loaded(p, s, listing) ==
  LET got == [p EXCEPT !.calls = Done(@, s), !.listed = listing]
  IN IF page.calls[s].kind # "create reload" THEN got
     ELSE Opened([got EXCEPT !.highlight = page.calls[s].id, !.form = Blank,
                             !.loading = FALSE], "droplets")

DeliverList(s) ==
  /\ page.calls[s] # Idle /\ page.calls[s].served /\ page.calls[s].kind \in Loads
  /\ page' = Loaded(page, s, page.calls[s].answer)

Deliver(s) == DeliverChange(s) \/ DeliverList(s)

Fail(s) ==
  /\ page.calls[s] # Idle
  /\ \/ page.failures < MaxFailures
     \/ page.calls[s].kind = "create" /\ ~page.calls[s].served /\ Unused = {}
  /\ LET failed == [page EXCEPT !.failures = IF @ < MaxFailures THEN @ + 1 ELSE @] IN
     page' = IF page.calls[s].kind \in Loads THEN Loaded(failed, s, Empty)
             ELSE [failed EXCEPT !.calls = Done(@, s),
                                 !.loading = @ /\ page.calls[s].kind # "create"]

-----------------------------------------------------------------------------
Next ==
  \/ QuickDeploy \/ Create \/ Refresh \/ Unhighlight \/ CreateElsewhere
  \/ \E tab \in Tabs : SelectTab(tab)
  \/ \E form \in [named : BOOLEAN, clustered : BOOLEAN] : ChangeForm(form)
  \/ \E view \in Views(Items(page.listed), page.view) : Browse(view)
  \/ \E d \in Ids : Delete(d) \/ Boot(d)
  \/ \E s \in Slots : Serve(s) \/ Deliver(s) \/ Fail(s)

-----------------------------------------------------------------------------
(* One creation at a time, up to the reload that follows it.               *)
OneCreation == Cardinality(InFlight(page.calls, Creations)) <= 1

(* The flag is on only while a creation that clears it is on its way.      *)
Settles == page.loading => InFlight(page.calls, Creations) # {}

(* The pages of the table are the rows that pass its filters.              *)
PagesAreRows == PagesCoverRows(Items(page.listed), page.view)

(* "so user sees created item": what a creation highlights is a row of the *)
(* page on display, unless the reload failed, came after the droplet was   *)
(* deleted, or brought a newer one of somebody else's, which comes before  *)
(* it, or the user had changed the table by then.                          *)
ShowsCreated ==
  page'.highlight \notin {page.highlight, None} =>
    \/ page'.listed[page'.highlight] = None \/ page'.view # FirstView
    \/ \E d \in page'.others : d > page'.highlight /\ page'.listed[d] # None
    \/ /\ page'.tab = "droplets"
       /\ \E i \in DOMAIN RowsShown(Items(page'.listed), page'.view) :
            RowsShown(Items(page'.listed), page'.view)[i].id = page'.highlight
=============================================================================
