---------------------------- MODULE ProvidersPanel ----------------------------
(***************************************************************************)
(* components/ProvidersPanel.tsx: the list of providers, a form that       *)
(* creates one, a simulated placement and a migration.  All three share    *)
(* one flag, which the load of the list clears as well; Start migrate is   *)
(* never disabled.                                                         *)
(***************************************************************************)
EXTENDS Naturals, FiniteSets, Requests

CONSTANTS
  MaxProviders,  \* bound: providers there ever are
  MaxChanges,    \* bound: requests the user starts
  MaxFailures    \* bound: requests of a visit that fail

VARIABLE page

Counts == 0 .. MaxProviders
Actions == {"create", "schedule", "migrate"}
Inputs == {"cluster", "preferred", "avoid", "droplet"}
Details == {"provider", "placement", "migration"}

Request(kind) == [kind |-> kind, served |-> FALSE, answer |-> None]

(* Which inputs are filled in.                                             *)
TypeOK ==
  /\ page.stored \in Counts /\ page.providers \in Counts
  /\ page.inputs \subseteq Inputs
  /\ page.loading \in BOOLEAN /\ page.error \in BOOLEAN /\ page.clusters \in BOOLEAN
  /\ page.details \in Details \cup {None}
  /\ \A s \in Slots : page.calls[s] = Idle \/
       /\ page.calls[s].kind \in Actions \cup {"list", "create reload", "clusters"}
       /\ page.calls[s].answer \in Counts \cup {None}

Mounted(n) ==
  [stored |-> n, providers |-> 0, inputs |-> {}, loading |-> TRUE, error |-> FALSE,
   details |-> None, clusters |-> FALSE,
   calls |-> Sent(Sent(NoCalls, Request("list")), Request("clusters")),
   changes |-> 0, failures |-> 0]

Mounts == {Mounted(n) : n \in 0 .. 1}

Init == page \in Mounts

Fill(inputs) ==
  /\ inputs # page.inputs
  /\ "cluster" \in inputs => page.clusters
  /\ page' = [page EXCEPT !.inputs = inputs]

Act(kind) ==
  /\ HasRoom(page.calls) /\ page.changes < MaxChanges
  /\ page' = [page EXCEPT !.calls = Sent(@, Request(kind)), !.changes = @ + 1,
                          !.loading = TRUE, !.error = FALSE]

(* A click without the input it needs only says so.                        *)
Complain(needed) ==
  /\ ~(needed \subseteq page.inputs)
  /\ page' = [page EXCEPT !.error = TRUE]

Create == ~page.loading /\ Act("create")

Schedule ==
  /\ ~page.loading
  /\ Complain({"cluster"}) \/ ("cluster" \in page.inputs /\ Act("schedule"))

Migrate ==
  \/ Complain({"droplet", "preferred"})
  \/ {"droplet", "preferred"} \subseteq page.inputs /\ Act("migrate")

ClearChoice == Fill(page.inputs \ {"preferred", "avoid"})

OpenDetails ==
  /\ page.providers > 0
  /\ page' = [page EXCEPT !.details = "provider"]

CloseDetails ==
  /\ page.details # None
  /\ page' = [page EXCEPT !.details = None]

-----------------------------------------------------------------------------
Serve(s) ==
  /\ page.calls[s] # Idle /\ ~page.calls[s].served
  /\ LET c == page.calls[s]
         stored == page.stored + IF c.kind = "create" THEN 1 ELSE 0
     IN /\ stored <= MaxProviders
        /\ page' = [page EXCEPT !.stored = stored,
             !.calls[s] = [c EXCEPT !.served = TRUE, !.answer = stored]]

(* onCreate resumes with a load, which sets the flag again; any other      *)
(* handler clears it when it ends.                                         *)
Deliver(s) ==
  /\ page.calls[s] # Idle /\ page.calls[s].served
  /\ LET c == page.calls[s]
         done == [page EXCEPT !.calls = Done(@, s), !.loading = @ /\ c.kind = "clusters"]
     IN page' = CASE c.kind = "create" ->
                       [page EXCEPT !.calls[s] = Request("create reload"), !.loading = TRUE]
                  [] c.kind \in {"list", "create reload"} ->
                       [done EXCEPT !.providers = c.answer]
                  [] c.kind = "schedule" -> [done EXCEPT !.details = "placement"]
                  [] c.kind = "migrate" -> [done EXCEPT !.details = "migration"]
                  [] c.kind = "clusters" -> [done EXCEPT !.clusters = TRUE]

Fail(s) ==
  /\ page.calls[s] # Idle
  /\ \/ page.failures < MaxFailures
     \/ page.calls[s].kind = "create" /\ page.stored = MaxProviders
  /\ page' = [page EXCEPT !.calls = Done(@, s),
       !.failures = IF @ < MaxFailures THEN @ + 1 ELSE @,
       !.loading = @ /\ page.calls[s].kind = "clusters",
       !.error = @ \/ page.calls[s].kind # "clusters"]

Next ==
  \/ Create \/ Schedule \/ Migrate \/ ClearChoice \/ OpenDetails \/ CloseDetails
  \/ \E inputs \in SUBSET Inputs : Fill(inputs)
  \/ \E s \in Slots : Serve(s) \/ Deliver(s) \/ Fail(s)

-----------------------------------------------------------------------------
(* The flag is on only while a request that clears it is on its way.       *)
Settles ==
  page.loading => InFlight(page.calls, Actions \cup {"list", "create reload"}) # {}
=============================================================================
