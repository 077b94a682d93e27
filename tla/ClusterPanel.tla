----------------------------- MODULE ClusterPanel -----------------------------
(***************************************************************************)
(* components/ClusterPanel.tsx: one cluster and its droplets, from two     *)
(* requests that are sent together and awaited together.  A droplet is     *)
(* created, or deleted, between the two answers.                           *)
(***************************************************************************)
EXTENDS Naturals, FiniteSets, Requests

CONSTANTS
  Droplets,
  MaxChanges,    \* bound: droplets created or deleted during the visit
  MaxFailures    \* bound: requests of a visit that fail

VARIABLE page

Tabs == {"overview", "droplets", "diagnosis"}
Parts == {"cluster", "droplets"}

(* What the backend has: the ids its record of the cluster lists, which    *)
(* deleting a droplet leaves alone, and the droplets there are.            *)
TypeOK ==
  /\ page.members \subseteq Droplets /\ page.existing \subseteq Droplets
  /\ page.loading \in BOOLEAN /\ page.error \in BOOLEAN /\ page.known \in BOOLEAN
  /\ page.droplets \subseteq Droplets
  /\ page.tab \in Tabs
  /\ page.answers \in [Parts -> {None} \cup SUBSET Droplets]
  /\ page.missed \subseteq Droplets /\ page.outlived \subseteq Droplets

Mounted(members, existing) ==
  [members |-> members, existing |-> existing, loading |-> TRUE, error |-> FALSE,
   known |-> FALSE, droplets |-> {}, tab |-> "overview",
   answers |-> [part \in Parts |-> None], missed |-> {}, outlived |-> {},
   changes |-> 0, failures |-> 0]

Mounts ==
  UNION {{Mounted(members, existing) : existing \in SUBSET members} :
           members \in SUBSET Droplets}

Init == page \in Mounts

(* The tabs are rendered only when the load is over and has succeeded.     *)
Shown == ~page.loading /\ ~page.error /\ page.known

SelectTab(tab) == Shown /\ tab # page.tab /\ page' = [page EXCEPT !.tab = tab]

(* A droplet that this part of the answer no longer takes into account.    *)
After(part, d) == IF page.answers[part] = None THEN {} ELSE {d}

(* The repository saves a new droplet, then adds it to the cluster.        *)
(* `missed' and `outlived' record what the page could not know: droplets   *)
(* created or added, and deleted, after their answer was given.            *)
CreateDroplet(d) ==
  /\ page.changes < MaxChanges /\ d \notin page.existing \cup page.members
  /\ page' = [page EXCEPT !.existing = @ \cup {d}, !.changes = @ + 1,
                          !.missed = @ \cup After("droplets", d)]

AttachDroplet(d) ==
  /\ d \in page.existing \ page.members
  /\ page' = [page EXCEPT !.members = @ \cup {d},
                          !.missed = @ \cup After("cluster", d)]

DeleteDroplet(d) ==
  /\ page.changes < MaxChanges /\ d \in page.existing \cap page.members
  /\ page' = [page EXCEPT !.existing = @ \ {d}, !.changes = @ + 1,
                          !.outlived = @ \cup After("droplets", d)]

Serve(part) ==
  /\ page.loading /\ page.answers[part] = None
  /\ page' = [page EXCEPT !.answers[part] =
       IF part = "cluster" THEN page.members ELSE page.existing]

DeliverMembers ==
  /\ page.loading /\ \A part \in Parts : page.answers[part] # None
  /\ page' = [page EXCEPT !.loading = FALSE, !.known = TRUE,
                          !.droplets = page.answers["cluster"]]

(* Promise.all resumes with both answers; of the droplets those are kept   *)
(* that the cluster lists.                                                 *)
Deliver ==
  /\ page.loading /\ \A part \in Parts : page.answers[part] # None
  /\ page' = [page EXCEPT !.loading = FALSE, !.known = TRUE,
       !.droplets = page.answers["droplets"] \cap page.answers["cluster"]]

(* It fails with the first request that does.                              *)
Fail ==
  /\ page.loading /\ page.failures < MaxFailures
  /\ page' = [page EXCEPT !.loading = FALSE, !.error = TRUE, !.failures = @ + 1]

Next ==
  \/ Deliver \/ Fail
  \/ \E tab \in Tabs : SelectTab(tab)
  \/ \E d \in Droplets : CreateDroplet(d) \/ AttachDroplet(d) \/ DeleteDroplet(d)
  \/ \E part \in Parts : Serve(part)

-----------------------------------------------------------------------------
(* The two answers are of two moments, and the record of the cluster still *)
(* lists what was deleted.  The page shows no droplet but those of the     *)
(* cluster that existed when the droplets were read, and leaves out none   *)
(* of them that there was to see at either moment.                         *)
NoDeletedDroplets ==
  Shown =>
    /\ page.droplets \subseteq page.members \cap (page.existing \cup page.outlived)
    /\ page.members \cap page.existing \subseteq page.droplets \cup page.missed
=============================================================================
