------------------------------- MODULE Console -------------------------------
(***************************************************************************)
(* App.tsx: the router mounts the component of one route at a time, and    *)
(* what it kept is gone when the route changes.  `page' is the mounted     *)
(* component, with its requests and the part of the backend they reach;    *)
(* each component's module says how it moves.                              *)
(*                                                                         *)
(* A request outlives its page.  Its answer then sets the state of a       *)
(* component that is no longer there, which does nothing, with one         *)
(* exception: the answer of a created cluster goes to the list of clusters *)
(* from wherever the user is by then.                                      *)
(***************************************************************************)
EXTENDS Naturals, FiniteSets, Sequences

CONSTANTS
  Slots, None, Unset,
  Clusters,
  Changes,       \* bounds: MaxChanges of each route's page
  MaxFailures,
  JobSizes, JobSize, MaxJobs,
  Types, MetricSizes, MetricSize, Rows, MaxPage,
  Policies, Owner,
  Statuses,
  Terms, RowSizes, FirstSize, Order, MaxDroplets,
  MaxDeployments, Steps, Monitor,
  MaxProviders,
  Names, ScopeIds, Fields,
  Droplets,
  Waits          \* bound: the pages a user turns to while a cluster is created

ASSUME ConsoleAssumption ==
  /\ \E s, t \in Slots : s # t        \* some pages mount with two requests
  /\ JobSizes \subseteq Nat \ {0} /\ JobSize \in JobSizes
  /\ MetricSizes \subseteq Nat \ {0} /\ MetricSize \in MetricSizes
  /\ RowSizes \subseteq Nat \ {0} /\ FirstSize \in RowSizes
  /\ MaxJobs \in Nat /\ MaxDroplets \in Nat /\ MaxDeployments \in Nat
  /\ MaxPage \in Nat \ {0} /\ MaxProviders \in Nat \ {0}
  /\ None \notin Nat \cup {"active", "provisioning", "gone"} /\ Unset \notin {"asc", "desc"}
  /\ Order \in Seq(STRING)
  /\ {"active", "provisioning"} \subseteq {Order[i] : i \in DOMAIN Order}
  /\ Rows \in [Clusters \cup {None} -> [Types \cup {None} -> Nat]]
  /\ Owner \in [Policies -> Clusters]
  /\ Steps \in Nat /\ Monitor \in 1 .. Steps

VARIABLES
  route,
  page,
  late           \* clusters being created by a form the user has left

D == INSTANCE Dashboard
P == INSTANCE ProvisioningPanel WITH MaxChanges <- Changes["provisioning"]
J == INSTANCE JobPanel WITH MaxChanges <- Changes["jobs"],
       Sizes <- JobSizes, DefaultSize <- JobSize
M == INSTANCE MonitoringPanel WITH MaxChanges <- Changes["monitoring"],
       Sizes <- MetricSizes, DefaultSize <- MetricSize
A == INSTANCE AutoscalingPanel WITH MaxChanges <- Changes["autoscaling"]
R == INSTANCE DeploymentsPanel WITH MaxChanges <- Changes["deployments"]
V == INSTANCE ProvidersPanel WITH MaxChanges <- Changes["providers"]
B == INSTANCE BillingPanel WITH MaxChanges <- Changes["billing"]
L == INSTANCE LimiterRulesPanel WITH MaxChanges <- Changes["rules"]
C == INSTANCE ClustersPanel WITH MaxChanges <- Changes["clusters"]
N == INSTANCE CreateClusterPanel WITH MaxChanges <- Changes["new"]
K == INSTANCE ClusterPanel WITH MaxChanges <- Changes["cluster"]

vars == <<route, page, late>>

Routes == {"dashboard", "provisioning", "jobs", "monitoring", "autoscaling",
           "deployments", "providers", "billing", "rules", "clusters", "new", "cluster"}

(* The component of a route as it is first rendered.                       *)
Mounts(r) ==
  CASE r = "dashboard" -> D!Mounts      [] r = "provisioning" -> P!Mounts
    [] r = "jobs" -> J!Mounts           [] r = "monitoring" -> M!Mounts
    [] r = "autoscaling" -> A!Mounts    [] r = "deployments" -> R!Mounts
    [] r = "providers" -> V!Mounts      [] r = "billing" -> B!Mounts
    [] r = "rules" -> L!Mounts          [] r = "clusters" -> C!Mounts
    [] r = "new" -> N!Mounts            [] r = "cluster" -> K!Mounts

TypeOK ==
  /\ route \in Routes /\ late \in {0, 1}
  /\ CASE route = "dashboard" -> D!TypeOK      [] route = "provisioning" -> P!TypeOK
       [] route = "jobs" -> J!TypeOK           [] route = "monitoring" -> M!TypeOK
       [] route = "autoscaling" -> A!TypeOK    [] route = "deployments" -> R!TypeOK
       [] route = "providers" -> V!TypeOK      [] route = "billing" -> B!TypeOK
       [] route = "rules" -> L!TypeOK          [] route = "clusters" -> C!TypeOK
       [] route = "new" -> N!TypeOK            [] route = "cluster" -> K!TypeOK

Init == route = "dashboard" /\ page \in D!Mounts /\ late = 0

-----------------------------------------------------------------------------
(* A link or the address bar.  The form that creates a cluster may be left *)
(* with its request on the way.                                            *)
Creating == route = "new" /\ page.saving

Visit(r) ==
  /\ r # route
  /\ late = 1 \/ Creating => r \in Waits
  /\ route' = r /\ page' \in Mounts(r)
  /\ late' = IF Creating THEN 1 ELSE late

(* navigate('/clusters'), which mounts nothing anew where it already is.   *)
ToClusters ==
  /\ route' = "clusters"
  /\ IF route = "clusters" THEN UNCHANGED page ELSE page' \in C!Mounts

(* The form's own answer, and one that comes late.                         *)
Navigate == route = "new" /\ page.left /\ ToClusters /\ UNCHANGED late

LateAnswer == late = 1 /\ late' = 0 /\ (ToClusters \/ UNCHANGED <<route, page>>)

Step(r, next) == route = r /\ next /\ UNCHANGED <<route, late>>

Next ==
  \/ \E r \in Routes : Visit(r)
  \/ Navigate \/ LateAnswer
  \/ Step("dashboard", D!Next) \/ Step("provisioning", P!Next)
  \/ Step("jobs", J!Next) \/ Step("monitoring", M!Next)
  \/ Step("autoscaling", A!Next) \/ Step("deployments", R!Next)
  \/ Step("providers", V!Next) \/ Step("billing", B!Next)
  \/ Step("rules", L!Next) \/ Step("clusters", C!Next)
  \/ Step("new", N!Next) \/ Step("cluster", K!Next)

(* Intervals fire, answers come, and the goroutine of a rollout runs.      *)
Fairness ==
  /\ WF_vars(Step("jobs", J!Poll))
  /\ WF_vars(Step("monitoring", M!Poll))
  /\ \A s \in Slots : /\ WF_vars(Step("jobs", J!Serve(s) \/ J!Deliver(s)))
                      /\ WF_vars(Step("monitoring", M!Deliver(s)))
  /\ \A d \in 1 .. MaxDeployments : WF_vars(Step("deployments", R!Roll(d)))

Spec == Init /\ [][Next]_vars /\ Fairness

-----------------------------------------------------------------------------
(* What a busy flag guards is done once at a time, up to the reload that   *)
(* follows it: a job, a droplet, a rollout or a cluster created, an        *)
(* estimate asked for.                                                     *)
OneAtATime ==
  /\ route = "jobs" => J!OneCreation
  /\ route = "provisioning" => P!OneCreation
  /\ route = "deployments" => R!OneStart
  /\ route = "billing" => B!OneEstimate
  /\ route = "new" => N!OneSubmission

(* ClustersPanel.tsx, LimiterRulesPanel.tsx: one save at a time, although  *)
(* the editor may be closed and opened on something else meanwhile.        *)
OneSave ==
  /\ route = "clusters" => C!OneSave
  /\ route = "rules" => L!OneSave

(* No page stays busy without a request that ends it, whatever fails.      *)
BusyFlagsSettle ==
  /\ route = "jobs" => J!Settles
  /\ route = "monitoring" => M!Settles
  /\ route = "provisioning" => P!Settles
  /\ route = "deployments" => R!Settles
  /\ route = "clusters" => C!Settles
  /\ route = "rules" => L!Settles
  /\ route = "providers" => V!Settles

(* JobPanel.tsx: the page of jobs asked for exists in the table, although  *)
(* the clamps go by an older total.                                        *)
JobsPageExists == route = "jobs" => J!PageExists

(* AutoscalingPanel.tsx: what is saved over a policy was filled from it,   *)
(* or put over the form that was.                                          *)
EditorMatchesTarget == route = "autoscaling" => A!EditorMatchesTarget

(* PolicyCard.tsx: the card's own switch is the policy's, as long as       *)
(* requests neither overlap nor fail and no save brings an old switch.     *)
CardsAgree == route = "autoscaling" => A!CardsAgree

(* ClustersPanel.tsx: so are the rows those of the backend.                *)
ClustersAgree == route = "clusters" => C!ListedAgrees

(* TabularSection.tsx: the pages are the rows that pass the filters.       *)
PagesAreRows == route = "provisioning" => P!PagesAreRows

(* ProvisioningPanel.tsx:61: "switch to droplets tab so user sees created  *)
(* item", unless a newer one of somebody else's is listed before it.       *)
CreatedIsShown ==
  [][route = "provisioning" /\ route' = route => P!ShowsCreated]_vars

(* ClusterPanel.tsx: a droplet that was deleted before the droplets were   *)
(* read does not show, although the record of its cluster lists it, and    *)
(* one that both reads could see does.                                     *)
NoDeletedDroplets == route = "cluster" => K!NoDeletedDroplets

(* Dashboard.tsx: droplets and jobs are shown together or not at all.      *)
ShownTogether == route = "dashboard" => D!Together

(* JobPanel.tsx: a list that is left open ends up showing the rows asked   *)
(* for as the backend has them, whatever order answers came in before.     *)
JobsConverge ==
  <>[](route = "jobs" /\ J!OnList) => <>[](route = "jobs" => J!Current)

(* MonitoringPanel.tsx: on a page that is left open both status cards come *)
(* back after any failure.                                                 *)
StatusRecovers ==
  <>[](route = "monitoring") => <>[](route = "monitoring" => M!StatusShown)

(* deploymentService.go: a rollout ends, whatever is rolled back by hand   *)
(* meanwhile, unless it was cut short.                                     *)
RolloutsEnd ==
  <>[](route = "deployments") => <>[](route = "deployments" => R!AllEnded)
=============================================================================
