---------------------------- MODULE ConsoleProofs ----------------------------
(***************************************************************************)
(* Three properties of the console, for any clusters, policies, droplets,  *)
(* page sizes, bounds and number of requests in flight:                    *)
(*                                                                         *)
(*   AutoscalingPanel.tsx   a policy is saved over only by a form filled   *)
(*                          from it, or a new one put over that form;      *)
(*   ClusterPanel.tsx       no droplet shows that was deleted before the   *)
(*                          droplets were read, and none is left out that  *)
(*                          both reads could see;                          *)
(*   JobPanel.tsx           the page of jobs asked for exists.             *)
(*                                                                         *)
(* They are about one route each, so the invariants are implications from  *)
(* the route, and a step of the console is one of three things to a page:  *)
(* nothing, a step of its own, or its being mounted anew.                  *)
(***************************************************************************)
EXTENDS Console, Integers, TLAPS

(* A page that is opened.                                                  *)
Opens == route' \in Routes /\ page' \in Mounts(route')

(* What the mounted page does.                                             *)
PageStep ==
  /\ route = "dashboard" => D!Next
  /\ route = "provisioning" => P!Next
  /\ route = "jobs" => J!Next
  /\ route = "monitoring" => M!Next
  /\ route = "autoscaling" => A!Next
  /\ route = "deployments" => R!Next
  /\ route = "providers" => V!Next
  /\ route = "billing" => B!Next
  /\ route = "rules" => L!Next
  /\ route = "clusters" => C!Next
  /\ route = "new" => N!Next
  /\ route = "cluster" => K!Next

(* What a step of the console is to a page.                                *)
LEMMA StepKinds ==
  ASSUME [Next]_vars
  PROVE  \/ UNCHANGED <<route, page>>
         \/ Opens
         \/ route' = route /\ PageStep
<1>1. CASE UNCHANGED vars
  BY <1>1 DEF vars
<1>2. CASE Next
  <2>1. ASSUME NEW r \in Routes, Visit(r) PROVE Opens
    BY <2>1 DEF Visit, Opens
  <2>2. ASSUME ToClusters PROVE UNCHANGED <<route, page>> \/ Opens
    BY <2>2 DEF ToClusters, Opens, Routes, Mounts
  <2>3. ASSUME LateAnswer PROVE UNCHANGED <<route, page>> \/ Opens
    BY <2>2, <2>3 DEF LateAnswer
  <2>4. ASSUME Navigate PROVE UNCHANGED <<route, page>> \/ Opens
    BY <2>2, <2>4 DEF Navigate
  <2> QED BY <1>2, <2>1, <2>3, <2>4 DEF Next, Step, PageStep
<1> QED BY <1>1, <1>2

-----------------------------------------------------------------------------
(* A closed editor holds no policy, on which opening it for a new one      *)
(* relies; and a save keeps the form and the policy it was sent with.      *)
AutoscalingFields ==
  {"cluster", "table", "listed", "card", "editor", "detail", "samples", "result",
   "calls", "changes", "failures", "mixed"}

SaveFits(c) ==
  c = A!Idle \/
    /\ DOMAIN c = {"kind", "policy", "form", "cluster", "served", "answer"}
    /\ c.kind \in {"create", "update"} => A!Matches(c.form, c.policy)

SavesFit(calls) == DOMAIN calls = Slots /\ \A s \in Slots : SaveFits(calls[s])

EditorInv ==
  /\ DOMAIN page = AutoscalingFields
  /\ DOMAIN page.editor = {"open", "id", "form"}
  /\ page.editor.open \in BOOLEAN
  /\ ~page.editor.open => page.editor = A!Closed
  /\ page.editor.open => A!Matches(page.editor.form, page.editor.id)
  /\ SavesFit(page.calls)

LEMMA EditorMounted ==
  ASSUME page' \in A!Mounts
  PROVE  EditorInv'
<1>1. PICK table : page' = A!Mounted(table)
  BY DEF A!Mounts
<1>2. DOMAIN page' = AutoscalingFields
  BY <1>1 DEF A!Mounted, AutoscalingFields
<1>3. page'.editor = A!Closed /\ page'.calls = A!NoCalls
  BY <1>1 DEF A!Mounted
<1>4. ~A!Closed.open /\ A!Closed.open \in BOOLEAN /\ DOMAIN A!Closed = {"open", "id", "form"}
  BY DEF A!Closed
<1>5. SavesFit(A!NoCalls)
  BY DEF SavesFit, SaveFits, A!NoCalls
<1> QED BY <1>2, <1>3, <1>4, <1>5 DEF EditorInv

LEMMA SavesFitStill ==
  ASSUME NEW calls, SavesFit(calls), NEW s \in Slots, NEW c, SaveFits(c)
  PROVE  SavesFit([calls EXCEPT ![s] = c])
BY DEF SavesFit

LEMMA SavesFitSent ==
  ASSUME NEW calls, SavesFit(calls), A!HasRoom(calls), NEW c, SaveFits(c)
  PROVE  SavesFit(A!Sent(calls, c))
<1>1. (CHOOSE s \in Slots : calls[s] = A!Idle) \in Slots
  BY DEF A!HasRoom
<1> QED BY <1>1, SavesFitStill DEF A!Sent

LEMMA OtherFits ==
  ASSUME NEW kind, kind \notin {"create", "update"}, NEW policy, NEW form, NEW cluster
  PROVE  SaveFits(A!Request(kind, policy, form, cluster))
BY DEF SaveFits, A!Request

LEMMA EditorStep ==
  ASSUME EditorInv, A!Next
  PROVE  EditorInv'
<1>0. DOMAIN page = AutoscalingFields /\ SavesFit(page.calls)
  BY DEF EditorInv
<1> USE DEF AutoscalingFields
<1>1. ASSUME DOMAIN page' = DOMAIN page, page'.editor = page.editor, SavesFit(page'.calls)
      PROVE  EditorInv'
  BY <1>1 DEF EditorInv
<1>2. ASSUME DOMAIN page' = DOMAIN page, page'.editor = page.editor, page'.calls = page.calls
      PROVE  EditorInv'
  BY <1>0, <1>1, <1>2
<1>3. ASSUME DOMAIN page' = DOMAIN page, page'.editor = A!Closed, SavesFit(page'.calls)
      PROVE  EditorInv'
  <2>1. ~A!Closed.open /\ A!Closed.open \in BOOLEAN /\ DOMAIN A!Closed = {"open", "id", "form"}
    BY DEF A!Closed
  <2> QED BY <1>0, <1>3, <2>1 DEF EditorInv
(* A request other than a save is sent.                                    *)
<1>4. ASSUME A!MayStart, DOMAIN page' = DOMAIN page, page'.editor = page.editor,
             NEW kind, kind \notin {"create", "update"}, NEW policy, NEW form, NEW cluster,
             page'.calls = A!Sent(page.calls, A!Request(kind, policy, form, cluster))
      PROVE  EditorInv'
  BY <1>0, <1>1, <1>4, SavesFitSent, OtherFits DEF A!MayStart
<1>5. CASE A!CloseResult \/ A!CloseDetail
  BY <1>0, <1>2, <1>5 DEF A!CloseResult, A!CloseDetail
<1>6. CASE A!Refresh \/ A!Evaluate
  <2>1. \E kind \in {"list", "evaluate"} :
          /\ A!MayStart /\ DOMAIN page' = DOMAIN page /\ page'.editor = page.editor
          /\ page'.calls = A!Sent(page.calls, A!Request(kind, None, None, page.cluster))
    BY <1>0, <1>6 DEF A!Refresh, A!Evaluate, A!Started
  <2> QED BY <1>4, <2>1
<1>7. ASSUME NEW c \in Clusters \cup {None}, A!SelectCluster(c) PROVE EditorInv'
  <2>1. CASE c = None
    BY <1>0, <1>2, <1>7, <2>1 DEF A!SelectCluster, A!Remounted
  <2>2. CASE c # None
    <3>1. /\ A!MayStart /\ DOMAIN page' = DOMAIN page /\ page'.editor = page.editor
          /\ page'.calls = A!Sent(page.calls, A!Request("list", None, None, c))
      BY <1>0, <1>7, <2>2 DEF A!SelectCluster, A!Started
    <3> QED BY <1>4, <3>1
  <2> QED BY <2>1, <2>2
<1>8. ASSUME NEW p \in Policies, A!Refilter(p) PROVE EditorInv'
  BY <1>0, <1>2, <1>8 DEF A!Refilter, A!Remounted
<1>9. ASSUME NEW p \in Policies, A!Delete(p) \/ A!Toggle(p) \/ A!OpenDetail(p)
      PROVE  EditorInv'
  <2>1. \E kind \in {"delete", "toggle", "samples"}, form \in
             {None, [of |-> p, enabled |-> A!Flip(page.card[p]), over |-> FALSE]} :
          /\ A!MayStart /\ DOMAIN page' = DOMAIN page /\ page'.editor = page.editor
          /\ page'.calls = A!Sent(page.calls, A!Request(kind, p, form, page.cluster))
    BY <1>0, <1>9 DEF A!Delete, A!Toggle, A!OpenDetail, A!Started
  <2> QED BY <1>4, <2>1
<1>10. ASSUME NEW p \in Policies, A!Edit(p) \/ A!Duplicate(p) PROVE EditorInv'
  <2>1. \E id \in {p, None} :
          /\ DOMAIN page' = DOMAIN page /\ page'.calls = page.calls
          /\ page'.editor = [open |-> TRUE, id |-> id,
               form |-> [of |-> id, enabled |-> page.listed[p], over |-> FALSE]]
    BY <1>0, <1>10 DEF A!Edit, A!Duplicate
  <2> QED BY <1>0, <2>1 DEF EditorInv, A!Matches
(* A form for a new policy: the editor held none, or it is put over one.   *)
<1>11. ASSUME NEW enabled, A!Fill(enabled) PROVE EditorInv'
  <2>1. /\ DOMAIN page' = DOMAIN page /\ page'.calls = page.calls
        /\ DOMAIN page'.editor = {"open", "id", "form"}
        /\ page'.editor.open = TRUE /\ page'.editor.id = page.editor.id
        /\ page'.editor.form.of = None /\ page'.editor.form.over = page.editor.open
    BY <1>0, <1>11 DEF A!Fill, EditorInv
  <2>2. page.editor.open = TRUE \/ page.editor.id = None
    BY DEF EditorInv, A!Closed
  <2> QED BY <1>0, <2>1, <2>2 DEF EditorInv, A!Matches
<1>12. CASE A!NewPolicy \/ A!UseTemplate
  BY <1>11, <1>12 DEF A!NewPolicy, A!UseTemplate
<1>13. CASE A!CloseEditor \/ A!Escape
  BY <1>0, <1>3, <1>13 DEF A!CloseEditor, A!Escape
<1>14. CASE A!Save
  <2> DEFINE e == page.editor
             call == A!Request(IF e.id = None THEN "create" ELSE "update", e.id, e.form, page.cluster)
  <2>1. /\ A!MayStart /\ e.open /\ DOMAIN page' = DOMAIN page /\ page'.editor = page.editor
        /\ page'.calls = A!Sent(page.calls, call)
    BY <1>0, <1>14 DEF A!Save, A!Started
  <2>2. SaveFits(call)
    BY <2>1 DEF SaveFits, A!Request, EditorInv
  <2> QED BY <1>0, <1>1, <2>1, <2>2, SavesFitSent DEF A!MayStart
<1>15. ASSUME NEW s \in Slots, A!Serve(s) PROVE EditorInv'
  <2> DEFINE c == page.calls[s]
             acted == [c EXCEPT !.served = TRUE]
             read == [c EXCEPT !.served = TRUE, !.answer = A!Listing(page.table, c.cluster)]
  <2>1. SaveFits(c) /\ c # A!Idle
    BY <1>0, <1>15 DEF SavesFit, A!Serve
  <2>2. SaveFits(acted) /\ SaveFits(read)
    BY <2>1 DEF SaveFits
  <2>3. /\ DOMAIN page' = DOMAIN page /\ page'.editor = page.editor
        /\ \/ page'.calls = [page.calls EXCEPT ![s] = acted]
           \/ page'.calls = [page.calls EXCEPT ![s] = read]
    BY <1>0, <1>15 DEF A!Serve
  <2> HIDE DEF acted, read
  <2> QED BY <1>0, <1>1, <2>2, <2>3, SavesFitStill
<1>16. ASSUME NEW s \in Slots, A!Deliver(s) PROVE EditorInv'
  <2> DEFINE c == page.calls[s]
             done == [page EXCEPT !.calls = A!Done(@, s)]
             again == A!Request("list", None, None, c.cluster)
             reload == [page EXCEPT !.calls[s] = again]
  <2>1. /\ SavesFit(done.calls) /\ DOMAIN done = DOMAIN page /\ done.editor = page.editor
    <3>1. SaveFits(A!Idle)
      BY DEF SaveFits
    <3> QED BY <1>0, <3>1, SavesFitStill DEF A!Done
  <2>2. /\ SavesFit(reload.calls) /\ DOMAIN reload = DOMAIN page /\ reload.editor = page.editor
    <3>1. SaveFits(again)
      BY OtherFits
    <3> HIDE DEF again
    <3> QED BY <1>0, <3>1, SavesFitStill
  <2> HIDE DEF done, reload
  <2>3. CASE page' = A!Shown(done, c.answer)
    BY <1>0, <1>1, <2>1, <2>3 DEF A!Shown
  <2>4. CASE page' = [done EXCEPT !.result = TRUE] \/ page' = [done EXCEPT !.samples = c.policy]
    BY <1>0, <1>1, <2>1, <2>4
  <2>5. CASE page' = reload
    BY <1>1, <2>2, <2>5
  <2>6. CASE page' = [reload EXCEPT !.editor = A!Closed]
    BY <1>0, <1>3, <2>2, <2>6
  <2> QED BY <1>16, <2>3, <2>4, <2>5, <2>6 DEF A!Deliver, done, reload
<1>17. ASSUME NEW s \in Slots, A!Fail(s) PROVE EditorInv'
  <2>1. /\ DOMAIN page' = DOMAIN page /\ page'.editor = page.editor
        /\ page'.calls = [page.calls EXCEPT ![s] = A!Idle]
    BY <1>0, <1>17 DEF A!Fail, A!Done
  <2>2. SaveFits(A!Idle)
    BY DEF SaveFits
  <2> QED BY <1>0, <1>1, <2>1, <2>2, SavesFitStill
<1> QED
  BY <1>5, <1>6, <1>7, <1>8, <1>9, <1>10, <1>12, <1>13, <1>14, <1>15, <1>16, <1>17 DEF A!Next

(* AutoscalingPanel.tsx, PolicyEditor: whatever is opened, closed, saved   *)
(* and answered in between, what is saved over a policy was filled from it *)
(* or, with the editor open on it, was put over its form as a new policy's *)
(* by the user; and a form filled from a policy creates none.              *)
THEOREM EditorMatchesTargetHolds == Spec => []EditorMatchesTarget
<1> DEFINE I == route = "autoscaling" => EditorInv
<1>1. Init => I
  BY DEF Init
<1>2. I /\ [Next]_vars => I'
  <2> SUFFICES ASSUME I, [Next]_vars, route' = "autoscaling" PROVE EditorInv'
    OBVIOUS
  <2>1. CASE UNCHANGED <<route, page>>
    BY <2>1 DEF EditorInv, SavesFit, SaveFits, A!Matches
  <2>2. CASE Opens
    <3>1. page' \in A!Mounts
      BY <2>2 DEF Opens, Mounts
    <3> QED BY <3>1, EditorMounted
  <2>3. CASE route' = route /\ A!Next
    BY <2>3, EditorStep
  <2> QED BY <2>1, <2>2, <2>3, StepKinds DEF PageStep
<1>3. I => EditorMatchesTarget
  <2> SUFFICES ASSUME EditorInv PROVE A!EditorMatchesTarget
    BY DEF EditorMatchesTarget
  <2>1. \A s \in Slots : page.calls[s].kind \in {"create", "update"} =>
          A!Matches(page.calls[s].form, page.calls[s].policy)
    BY DEF EditorInv, SavesFit, SaveFits, A!Idle
  <2> QED BY <2>1 DEF EditorInv, A!EditorMatchesTarget, A!InFlight
<1> QED BY <1>1, <1>2, <1>3, PTL DEF Spec

-----------------------------------------------------------------------------
LEMMA PagesGrow ==
  ASSUME NEW size \in Nat \ {0}, NEW old \in Nat, NEW total \in Nat, old <= total
  PROVE  /\ J!Pages(old, size) \in Nat \ {0}
         /\ J!Pages(old, size) <= J!Pages(total, size)
<1> DEFINE q == (old + size - 1) \div size
           p == (total + size - 1) \div size
<1>1. /\ q \in Int /\ p \in Int
      /\ size * q <= old + size - 1 /\ old + size - 1 < size * q + size
      /\ size * p <= total + size - 1 /\ total + size - 1 < size * p + size
  BY SMT
<1>2. old # 0 => q >= 1
  <2> SUFFICES ASSUME old # 0, q <= 0 PROVE FALSE
    BY <1>1
  <2>1. size * q <= 0
    BY <1>1
  <2> QED BY <2>1, <1>1
<1>3. q <= p
  <2> SUFFICES ASSUME p + 1 <= q PROVE FALSE
    BY <1>1
  <2>1. size * (p + 1) <= size * q
    BY <1>1
  <2>2. size * (p + 1) = size * p + size
    BY <1>1
  <2> QED BY <2>1, <2>2, <1>1
<1> HIDE DEF q, p
<1>4. /\ J!Pages(old, size) = IF old = 0 THEN 1 ELSE q
      /\ J!Pages(total, size) = IF total = 0 THEN 1 ELSE p
  BY DEF J!Pages, q, p
<1>5. total # 0 => p >= 1
  <2> SUFFICES ASSUME total # 0, p <= 0 PROVE FALSE
    BY <1>1
  <2>1. size * p <= 0
    BY <1>1
  <2> QED BY <2>1, <1>1 DEF p
<1> QED BY <1>1, <1>2, <1>3, <1>4, <1>5

-----------------------------------------------------------------------------
(* What an answer says is what there is, but for what happened to droplets *)
(* after it was given.                                                     *)
ClusterFields ==
  {"members", "existing", "loading", "error", "known", "droplets", "tab", "answers",
   "missed", "outlived", "changes", "failures"}

ListedFits(listed) ==
  listed \subseteq page.members /\ page.members \subseteq listed \cup page.missed

ExistingFits(existing) ==
  /\ existing \subseteq page.existing \cup page.outlived
  /\ page.existing \subseteq existing \cup page.missed

ClusterInv ==
  /\ DOMAIN page = ClusterFields
  /\ DOMAIN page.answers = K!Parts
  /\ page.answers["cluster"] # None => ListedFits(page.answers["cluster"])
  /\ page.answers["droplets"] # None => ExistingFits(page.answers["droplets"])
  /\ page.known =>
       /\ \A part \in K!Parts : page.answers[part] # None
       /\ page.droplets = page.answers["droplets"] \cap page.answers["cluster"]
       /\ ~page.loading

LEMMA ClusterMounted ==
  ASSUME page' \in K!Mounts
  PROVE  ClusterInv'
<1>1. PICK members, existing : page' = K!Mounted(members, existing)
  BY DEF K!Mounts
<1>2. DOMAIN page' = ClusterFields
  BY <1>1 DEF K!Mounted, ClusterFields
<1>3. /\ page'.known = FALSE
      /\ page'.answers = [part \in K!Parts |-> None]
  BY <1>1 DEF K!Mounted
<1> QED BY <1>1, <1>2, <1>3 DEF ClusterInv, K!Parts

LEMMA ClusterStep ==
  ASSUME ClusterInv, K!Next
  PROVE  ClusterInv'
<1> USE DEF ClusterInv, ClusterFields, ListedFits, ExistingFits, K!Parts
<1>1. CASE K!Deliver
  BY <1>1 DEF K!Deliver
<1>2. CASE K!Fail
  BY <1>2 DEF K!Fail
<1>3. ASSUME NEW tab \in K!Tabs, K!SelectTab(tab) PROVE ClusterInv'
  BY <1>3 DEF K!SelectTab
<1>4. ASSUME NEW d \in Droplets, K!CreateDroplet(d) PROVE ClusterInv'
  BY <1>4 DEF K!CreateDroplet, K!After
<1>5. ASSUME NEW d \in Droplets, K!AttachDroplet(d) PROVE ClusterInv'
  BY <1>5 DEF K!AttachDroplet, K!After
<1>6. ASSUME NEW d \in Droplets, K!DeleteDroplet(d) PROVE ClusterInv'
  BY <1>6 DEF K!DeleteDroplet, K!After
<1>7. ASSUME NEW part \in K!Parts, K!Serve(part) PROVE ClusterInv'
  BY <1>7 DEF K!Serve
<1> QED BY <1>1, <1>2, <1>3, <1>4, <1>5, <1>6, <1>7 DEF K!Next

(* ClusterPanel.tsx: whatever happens to droplets between the two reads    *)
(* and after them, the page shows exactly what both reads had, which the   *)
(* ids of deleted droplets that the cluster keeps are not.                 *)
THEOREM NoDeletedDropletsHolds == Spec => []NoDeletedDroplets
<1> DEFINE Inv == route = "cluster" => ClusterInv
<1>1. Init => Inv
  BY DEF Init
<1>2. Inv /\ [Next]_vars => Inv'
  <2> SUFFICES ASSUME Inv, [Next]_vars, route' = "cluster" PROVE ClusterInv'
    OBVIOUS
  <2>1. CASE UNCHANGED <<route, page>>
    BY <2>1 DEF ClusterInv, ListedFits, ExistingFits
  <2>2. CASE Opens
    <3>1. page' \in K!Mounts
      BY <2>2 DEF Opens, Mounts
    <3> QED BY <3>1, ClusterMounted
  <2>3. CASE route' = route /\ K!Next
    BY <2>3, ClusterStep
  <2> QED BY <2>1, <2>2, <2>3, StepKinds DEF PageStep
<1>3. Inv => NoDeletedDroplets
  BY DEF NoDeletedDroplets, ClusterInv, ListedFits, ExistingFits, K!NoDeletedDroplets, K!Parts,
         K!Shown
<1> QED BY <1>1, <1>2, <1>3, PTL DEF Spec

-----------------------------------------------------------------------------
(* Every total seen, or on its way, is at most the number of jobs stored.  *)
JobsFields ==
  {"ask", "view", "loading", "creating", "job", "calls", "stored", "changes", "failures"}

JobsCall(c, stored) ==
  /\ DOMAIN c = {"kind", "ask", "answer"}
  /\ c.ask \in J!Asks
  /\ c.kind \in J!Lists /\ c.answer # None => c.answer \in Nat /\ c.answer <= stored

JobsInv ==
  /\ DOMAIN page = JobsFields
  /\ page.stored \in Nat
  /\ page.ask \in J!Asks
  /\ DOMAIN page.view = {"ask", "total"}
  /\ page.view.total \in Nat /\ page.view.total <= page.stored
  /\ DOMAIN page.calls = Slots
  /\ \A s \in Slots : page.calls[s] # J!Idle => JobsCall(page.calls[s], page.stored)
  /\ DOMAIN page.job = {"id", "got", "loading"}
  /\ ~J!OnList => \A s \in Slots : page.calls[s] # J!Idle => page.calls[s].kind = "get"
  /\ J!PageExists

LEMMA FirstAskIsAsk == J!FirstAsk \in J!Asks
BY ConsoleAssumption DEF J!FirstAsk, J!Asks, J!SortFields, J!Dirs

LEMMA SentCalls ==
  ASSUME NEW calls, NEW call, DOMAIN calls = Slots
  PROVE  /\ DOMAIN J!Sent(calls, call) = Slots
         /\ \A s \in Slots : J!Sent(calls, call)[s] \in {call, calls[s]}
BY DEF J!Sent

LEMMA DoneCalls ==
  ASSUME NEW calls, NEW t \in Slots, DOMAIN calls = Slots
  PROVE  /\ DOMAIN J!Done(calls, t) = Slots
         /\ \A s \in Slots : J!Done(calls, t)[s] \in {J!Idle, calls[s]}
BY DEF J!Done

(* A new request, for a question there is, has no answer yet.              *)
LEMMA RequestFits ==
  ASSUME NEW kind, NEW ask \in J!Asks, NEW stored
  PROVE  JobsCall(J!Request(kind, ask), stored)
BY DEF JobsCall, J!Request

(* A page just mounted, the list or a job: the first question is asked.    *)
LEMMA JobsFresh ==
  ASSUME NEW n \in Nat, NEW kind, kind # "get" => page'.job.id = 0,
         DOMAIN page' = JobsFields, page'.ask = J!FirstAsk, page'.view = J!NoView,
         page'.stored = n, DOMAIN page'.job = {"id", "got", "loading"},
         page'.calls = J!Sent(J!NoCalls, J!Request(kind, J!FirstAsk))
  PROVE  JobsInv'
<1>1. J!FirstAsk.page = 1 /\ J!FirstAsk.size \in Nat \ {0}
  BY ConsoleAssumption DEF J!FirstAsk
<1>2. DOMAIN J!NoView = {"ask", "total"} /\ J!NoView.total = 0
  BY DEF J!NoView
<1>3. J!PageExists'
  BY <1>1, PagesGrow DEF J!PageExists
<1>4. /\ DOMAIN J!NoCalls = Slots
      /\ \A s \in Slots : J!NoCalls[s] = J!Idle
  BY DEF J!NoCalls
<1>5. /\ DOMAIN page'.calls = Slots
      /\ \A s \in Slots : page'.calls[s] \in {J!Request(kind, J!FirstAsk), J!Idle}
  BY <1>4, SentCalls
<1>6. JobsCall(J!Request(kind, J!FirstAsk), page'.stored)
  BY FirstAskIsAsk, RequestFits
<1>7. J!Request(kind, J!FirstAsk).kind = kind
  BY DEF J!Request
<1> QED BY <1>2, <1>3, <1>5, <1>6, <1>7, FirstAskIsAsk DEF JobsInv, J!OnList

LEMMA JobsMounted ==
  ASSUME page' \in J!Mounts
  PROVE  JobsInv'
<1>1. PICK n \in 0 .. MaxJobs : page' = J!Mounted(n)
  BY DEF J!Mounts
<1>2. DOMAIN page' = JobsFields
  BY <1>1 DEF J!Mounted, JobsFields
<1>3. /\ page'.ask = J!FirstAsk /\ page'.view = J!NoView /\ page'.stored = n
      /\ page'.job = J!NoJob
      /\ page'.calls = J!Sent(J!NoCalls, J!Request("list", J!FirstAsk))
  BY <1>1 DEF J!Mounted
<1>4. DOMAIN J!NoJob = {"id", "got", "loading"} /\ J!NoJob.id = 0
  BY DEF J!NoJob
<1> QED BY <1>2, <1>3, <1>4, JobsFresh

(* loadJobs asks a question whose page the table has.                      *)
LEMMA JobsAsked ==
  ASSUME JobsInv, J!OnList, NEW ask \in J!Asks,
         ask.page <= J!Pages(page.stored, ask.size),
         DOMAIN page' = DOMAIN page, page'.ask = ask, page'.view = page.view,
         page'.stored = page.stored, page'.job = page.job,
         page'.calls = J!Sent(page.calls, J!Request("list", ask))
  PROVE  JobsInv'
<1>1. /\ DOMAIN page'.calls = Slots
      /\ \A s \in Slots : page'.calls[s] \in {J!Request("list", ask), page.calls[s]}
  BY SentCalls DEF JobsInv
<1>2. JobsCall(J!Request("list", ask), page'.stored)
  BY RequestFits
<1> QED BY <1>1, <1>2 DEF JobsInv, J!OnList, J!PageExists

LEMMA PagesOfTable ==
  ASSUME JobsInv, NEW size \in JobSizes
  PROVE  /\ J!Pages(page.stored, size) \in Nat \ {0}
         /\ J!Pages(page.view.total, size) \in Nat \ {0}
         /\ J!Pages(page.view.total, size) <= J!Pages(page.stored, size)
<1>1. size \in Nat \ {0}
  BY ConsoleAssumption
<1>2. /\ page.stored \in Nat /\ page.view.total \in Nat
      /\ page.view.total <= page.stored
  BY DEF JobsInv
<1> QED BY <1>1, <1>2, PagesGrow

LEMMA JobsReasked ==
  ASSUME JobsInv, NEW ask \in J!Asks, ask.page <= J!Pages(page.stored, ask.size), J!Reask(ask)
  PROVE  JobsInv'
<1>1. /\ J!OnList
      /\ DOMAIN page' = DOMAIN page /\ page'.ask = ask /\ page'.view = page.view
      /\ page'.stored = page.stored /\ page'.job = page.job
      /\ page'.calls = J!Sent(page.calls, J!Request("list", ask))
  BY DEF J!Reask, J!Loading, JobsInv, JobsFields
<1> QED BY <1>1, JobsAsked

LEMMA JobsGone ==
  ASSUME JobsInv, NEW n \in Nat \ {0}, n <= J!Pages(page.stored, page.ask.size), J!GoTo(n)
  PROVE  JobsInv'
<1> DEFINE ask == [page.ask EXCEPT !.page = n]
<1>1. ask \in J!Asks /\ ask.page = n /\ ask.size = page.ask.size
  BY DEF J!Asks, JobsInv
<1> QED BY <1>1, JobsReasked DEF J!GoTo

LEMMA JobsPaged ==
  ASSUME JobsInv, J!FirstPage \/ J!PrevPage \/ J!NextPage \/ J!LastPage
  PROVE  JobsInv'
<1> DEFINE size == page.ask.size
           at == page.ask.page
<1>1. size \in JobSizes /\ at \in Nat \ {0}
  BY DEF JobsInv, J!Asks
<1>2. at <= J!Pages(page.stored, size)
  BY DEF JobsInv, J!PageExists
<1>3. /\ J!PageCount \in Nat \ {0}
      /\ J!PageCount <= J!Pages(page.stored, size)
      /\ J!Pages(page.stored, size) \in Nat \ {0}
  BY <1>1, PagesOfTable DEF J!PageCount
<1>4. CASE J!FirstPage
  BY <1>3, <1>4, JobsGone DEF J!FirstPage
<1>5. CASE J!PrevPage
  <2>1. at - 1 \in Nat \ {0} /\ at - 1 <= J!Pages(page.stored, size)
    BY <1>1, <1>2, <1>3, <1>5 DEF J!PrevPage
  <2> QED BY <2>1, <1>5, JobsGone DEF J!PrevPage
<1>6. CASE J!NextPage
  <2> DEFINE next == IF at < J!PageCount THEN at + 1 ELSE J!PageCount
  <2>1. next \in Nat \ {0} /\ next <= J!Pages(page.stored, size)
    BY <1>1, <1>3
  <2>2. J!GoTo(next)
    BY <1>6 DEF J!NextPage
  <2> QED BY <2>1, <2>2, JobsGone
<1>7. CASE J!LastPage
  BY <1>3, <1>7, JobsGone DEF J!LastPage
<1> QED BY <1>4, <1>5, <1>6, <1>7

(* A table that has grown still has the page asked for.                    *)
LEMMA TableGrown ==
  ASSUME JobsInv, NEW stored \in Nat, page.stored <= stored,
         page'.ask = page.ask, page'.stored = stored
  PROVE  J!PageExists'
<1>1. page.ask.size \in Nat \ {0} /\ page.ask.page \in Nat
  BY ConsoleAssumption DEF JobsInv, J!Asks
<1>2. page.stored \in Nat
  BY DEF JobsInv
<1>3. /\ J!Pages(page.stored, page.ask.size) \in Nat \ {0}
      /\ J!Pages(page.stored, page.ask.size) <= J!Pages(stored, page.ask.size)
  BY <1>1, <1>2, PagesGrow
<1>4. J!Pages(stored, page.ask.size) \in Nat \ {0}
  BY <1>1, PagesGrow
<1>5. page.ask.page <= J!Pages(page.stored, page.ask.size)
  BY DEF JobsInv, J!PageExists
<1>6. page.ask.page <= J!Pages(stored, page.ask.size)
  BY <1>1, <1>3, <1>4, <1>5
<1> QED BY <1>6 DEF J!PageExists

LEMMA JobsAnswered ==
  ASSUME JobsInv, NEW s \in Slots, J!Serve(s)
  PROVE  JobsInv'
<1> DEFINE stored == page.stored + IF page.calls[s].kind = "create" THEN 1 ELSE 0
           answer == IF J!OnList THEN stored ELSE page.job.id
<1>1. /\ page.calls[s] # J!Idle
      /\ page' = [page EXCEPT !.stored = stored, !.calls[s].answer = answer]
  BY DEF J!Serve
<1>2. stored \in Nat /\ page.stored <= stored
  BY DEF JobsInv
<1> HIDE DEF stored
<1>3. /\ DOMAIN page' = DOMAIN page /\ page'.stored = stored
      /\ page'.ask = page.ask /\ page'.view = page.view /\ page'.job = page.job
      /\ page'.calls = [page.calls EXCEPT ![s].answer = answer]
  BY <1>1 DEF JobsInv, JobsFields
<1>4. /\ DOMAIN page'.calls = Slots
      /\ \A t \in Slots \ {s} : page'.calls[t] = page.calls[t]
      /\ page'.calls[s] = [page.calls[s] EXCEPT !.answer = answer]
  BY <1>3 DEF JobsInv
<1>5. JobsCall(page.calls[s], page.stored)
  BY <1>1 DEF JobsInv
<1>6. page.calls[s].kind \in J!Lists => J!OnList
  BY <1>1 DEF JobsInv, J!Lists
<1>7. /\ page'.calls[s].kind = page.calls[s].kind /\ page'.calls[s].ask = page.calls[s].ask
      /\ page'.calls[s].answer = answer /\ DOMAIN page'.calls[s] = DOMAIN page.calls[s]
  BY <1>4, <1>5 DEF JobsCall
<1>8. JobsCall(page'.calls[s], stored)
  BY <1>2, <1>5, <1>6, <1>7 DEF JobsCall
<1>9. \A t \in Slots \ {s} : page'.calls[t] # J!Idle => JobsCall(page'.calls[t], stored)
  BY <1>2, <1>4 DEF JobsInv, JobsCall
<1>10. J!PageExists'
  BY <1>2, <1>3, TableGrown
<1>11. ~J!OnList => \A t \in Slots : page'.calls[t] # J!Idle => page'.calls[t].kind = "get"
  BY <1>1, <1>4, <1>7 DEF JobsInv
<1>12. page'.view.total \in Nat /\ page'.view.total <= stored
  BY <1>2, <1>3 DEF JobsInv
<1> QED BY <1>2, <1>3, <1>4, <1>8, <1>9, <1>10, <1>11, <1>12 DEF JobsInv, J!OnList

(* What is asked for and what there is stay, requests end or wait, and the *)
(* view becomes an answer.                                                 *)
LEMMA JobsSettled ==
  ASSUME JobsInv, DOMAIN page' = DOMAIN page, page'.ask = page.ask, page'.stored = page.stored,
         DOMAIN page'.view = {"ask", "total"},
         page'.view.total \in Nat /\ page'.view.total <= page.stored,
         DOMAIN page'.job = DOMAIN page.job, page'.job.id = page.job.id,
         DOMAIN page'.calls = Slots,
         \A s \in Slots : page'.calls[s] \in {J!Idle, page.calls[s]}
  PROVE  JobsInv'
BY DEF JobsInv, J!OnList, J!PageExists

LEMMA JobsDelivered ==
  ASSUME JobsInv, NEW s \in Slots, J!Deliver(s) \/ J!Fail(s)
  PROVE  JobsInv'
<1>1. CASE J!DeliverList(s)
  <2>1. /\ page.calls[s] # J!Idle /\ page.calls[s].kind \in J!Lists /\ page.calls[s].answer # None
    BY <1>1 DEF J!DeliverList, J!Arrived
  <2>2. JobsCall(page.calls[s], page.stored)
    BY <2>1 DEF JobsInv
  <2>3. /\ DOMAIN page' = DOMAIN page /\ page'.ask = page.ask
        /\ page'.stored = page.stored /\ page'.job = page.job
        /\ page'.calls = J!Done(page.calls, s)
        /\ page'.view = [ask |-> page.calls[s].ask, total |-> page.calls[s].answer]
    BY <1>1 DEF J!DeliverList, JobsInv, JobsFields
  <2>4. DOMAIN page'.view = {"ask", "total"} /\ page'.view.total = page.calls[s].answer
    BY <2>3
  <2> QED BY <2>1, <2>2, <2>3, <2>4, DoneCalls, JobsSettled DEF JobsInv, JobsCall
<1>2. CASE J!DeliverCreate(s)
  <2>1. page.calls[s] # J!Idle /\ page.calls[s].kind = "create"
    BY <1>2 DEF J!DeliverCreate, J!Arrived
  <2>2. JobsCall(page.calls[s], page.stored)
    BY <2>1 DEF JobsInv
  <2>3. J!OnList
    BY <2>1 DEF JobsInv
  <2>4. /\ DOMAIN page' = DOMAIN page /\ page'.ask = page.ask /\ page'.view = page.view
        /\ page'.stored = page.stored /\ page'.job = page.job
        /\ page'.calls = [page.calls EXCEPT ![s] = J!Request("reload", @.ask)]
    BY <1>2 DEF J!DeliverCreate, JobsInv, JobsFields
  <2>5. JobsCall(J!Request("reload", page.calls[s].ask), page'.stored)
    BY <2>2, RequestFits DEF JobsCall
  <2> QED BY <2>3, <2>4, <2>5 DEF JobsInv, J!OnList, J!PageExists
<1>3. CASE J!DeliverJob(s)
  <2>1. /\ DOMAIN page' = DOMAIN page /\ page'.ask = page.ask /\ page'.view = page.view
        /\ page'.stored = page.stored /\ page'.calls = J!Done(page.calls, s)
        /\ page'.job = [page.job EXCEPT !.got = page.calls[s].answer, !.loading = FALSE]
    BY <1>3 DEF J!DeliverJob, JobsInv, JobsFields
  <2>2. DOMAIN page'.job = DOMAIN page.job /\ page'.job.id = page.job.id
    BY <2>1 DEF JobsInv
  <2> QED BY <2>1, <2>2, DoneCalls, JobsSettled DEF JobsInv
<1>4. CASE J!Fail(s)
  <2>1. /\ DOMAIN page' = DOMAIN page /\ page'.ask = page.ask /\ page'.view = page.view
        /\ page'.stored = page.stored /\ page'.calls = J!Done(page.calls, s)
        /\ DOMAIN page'.job = DOMAIN page.job /\ page'.job.id = page.job.id
    BY <1>4 DEF J!Fail, JobsInv, JobsFields
  <2> QED BY <2>1, DoneCalls, JobsSettled DEF JobsInv
<1> QED BY <1>1, <1>2, <1>3, <1>4 DEF J!Deliver

(* Questions that differ from one there is in what a control changes.      *)
LEMMA AskChanged ==
  ASSUME NEW ask \in J!Asks
  PROVE  /\ [ask EXCEPT !.page = 1] \in J!Asks
         /\ \A n \in JobSizes : [ask EXCEPT !.size = n] \in J!Asks
         /\ \A f \in J!SortFields : [ask EXCEPT !.field = f] \in J!Asks
         /\ \A d \in J!Dirs : [ask EXCEPT !.dir = d] \in J!Asks
BY DEF J!Asks

LEMMA SizeAsked ==
  ASSUME NEW ask \in J!Asks, NEW n \in JobSizes
  PROVE  [ask EXCEPT !.size = n, !.page = 1] \in J!Asks
<1> DEFINE sized == [ask EXCEPT !.size = n]
<1>1. sized \in J!Asks
  BY AskChanged
<1>2. [ask EXCEPT !.size = n, !.page = 1] = [sized EXCEPT !.page = 1]
  OBVIOUS
<1> HIDE DEF sized
<1> QED BY <1>1, <1>2, AskChanged

LEMMA OrderAsked ==
  ASSUME NEW ask \in J!Asks, NEW f \in J!SortFields, NEW dir \in J!Dirs
  PROVE  [ask EXCEPT !.page = 1, !.field = f, !.dir = dir] \in J!Asks
<1> DEFINE first == [ask EXCEPT !.page = 1]
           by == [first EXCEPT !.field = f]
<1>1. first \in J!Asks
  BY AskChanged
<1>2. [ask EXCEPT !.page = 1, !.field = f, !.dir = dir] = [by EXCEPT !.dir = dir]
  OBVIOUS
<1> HIDE DEF first
<1>3. by \in J!Asks
  BY <1>1, AskChanged
<1> HIDE DEF by
<1> QED BY <1>2, <1>3, AskChanged

LEMMA JobsStep ==
  ASSUME JobsInv, J!Next
  PROVE  JobsInv'
<1>0. \A size \in JobSizes : J!Pages(page.stored, size) \in Nat \ {0}
  BY PagesOfTable
<1>1. CASE J!Poll \/ J!Refresh
  <2>1. J!OnList /\ page' = J!Loading(page, page.ask)
    BY <1>1 DEF J!Poll, J!Refresh
  <2>2. /\ DOMAIN page' = DOMAIN page /\ page'.ask = page.ask /\ page'.view = page.view
        /\ page'.stored = page.stored /\ page'.job = page.job
        /\ page'.calls = J!Sent(page.calls, J!Request("list", page.ask))
    BY <2>1 DEF J!Loading, JobsInv, JobsFields
  <2> QED BY <2>1, <2>2, JobsAsked DEF JobsInv, J!PageExists
<1>2. CASE J!CreateJob
  <2>1. J!OnList
    BY <1>2 DEF J!CreateJob, J!Submit
  <2>2. /\ DOMAIN page' = DOMAIN page /\ page'.ask = page.ask /\ page'.view = page.view
        /\ page'.stored = page.stored /\ page'.job = page.job
        /\ page'.calls = J!Sent(page.calls, J!Request("create", page.ask))
    BY <1>2 DEF J!CreateJob, J!Submit, JobsInv, JobsFields
  <2>3. /\ DOMAIN page'.calls = Slots
        /\ \A s \in Slots : page'.calls[s] \in {J!Request("create", page.ask), page.calls[s]}
    BY <2>2, SentCalls DEF JobsInv
  <2>4. JobsCall(J!Request("create", page.ask), page'.stored)
    BY RequestFits DEF JobsInv
  <2> QED BY <2>1, <2>2, <2>3, <2>4 DEF JobsInv, J!OnList, J!PageExists
<1>3. CASE J!Back
  <2>1. page' = [J!Mounted(page.stored) EXCEPT !.changes = page.changes + 1,
                                               !.failures = page.failures]
    BY <1>3 DEF J!Back
  <2>2. /\ DOMAIN page' = JobsFields
        /\ page'.ask = J!FirstAsk /\ page'.view = J!NoView /\ page'.stored = page.stored
        /\ page'.job = J!NoJob
        /\ page'.calls = J!Sent(J!NoCalls, J!Request("list", J!FirstAsk))
    BY <2>1 DEF J!Mounted, JobsFields
  <2>3. DOMAIN J!NoJob = {"id", "got", "loading"} /\ J!NoJob.id = 0
    BY DEF J!NoJob
  <2>4. page.stored \in Nat
    BY DEF JobsInv
  <2> QED BY <2>2, <2>3, <2>4, JobsFresh
<1>4. CASE J!AddElsewhere
  <2>1. /\ DOMAIN page' = DOMAIN page /\ page'.ask = page.ask /\ page'.view = page.view
        /\ page'.stored = page.stored + 1 /\ page'.job = page.job
        /\ page'.calls = page.calls
    BY <1>4 DEF J!AddElsewhere, JobsInv, JobsFields
  <2>2. page.stored \in Nat /\ page.stored + 1 \in Nat /\ page.stored <= page.stored + 1
    BY DEF JobsInv
  <2>3. J!PageExists'
    BY <2>1, <2>2, TableGrown
  <2>4. \A s \in Slots : page'.calls[s] # J!Idle => JobsCall(page'.calls[s], page'.stored)
    BY <2>1, <2>2 DEF JobsInv, JobsCall
  <2> QED BY <2>1, <2>2, <2>3, <2>4 DEF JobsInv, J!OnList
<1>5. ASSUME NEW id \in 1 .. MaxJobs, J!OpenJob(id) PROVE JobsInv'
  <2>1. page' = [page EXCEPT !.ask = J!FirstAsk, !.view = J!NoView,
                             !.loading = FALSE, !.creating = FALSE,
                             !.job = [id |-> id, got |-> 0, loading |-> TRUE],
                             !.calls = J!Sent(J!NoCalls, J!Request("get", J!FirstAsk))]
    BY <1>5 DEF J!OpenJob
  <2>2. /\ DOMAIN page' = JobsFields
        /\ page'.ask = J!FirstAsk /\ page'.view = J!NoView /\ page'.stored = page.stored
        /\ DOMAIN page'.job = {"id", "got", "loading"}
        /\ page'.calls = J!Sent(J!NoCalls, J!Request("get", J!FirstAsk))
    BY <2>1 DEF JobsInv, JobsFields
  <2>3. page.stored \in Nat
    BY DEF JobsInv
  <2> QED BY <2>2, <2>3, JobsFresh
<1>6. ASSUME NEW f \in J!SortFields, J!ToggleSort(f) PROVE JobsInv'
  <2> DEFINE dir == IF f = page.ask.field /\ page.ask.dir = "desc" THEN "asc" ELSE "desc"
             ask == [page.ask EXCEPT !.page = 1, !.field = f, !.dir = dir]
  <2>1. page.ask \in J!Asks /\ dir \in J!Dirs
    BY DEF JobsInv, J!Dirs
  <2>2. J!Reask(ask)
    BY <1>6 DEF J!ToggleSort
  <2> HIDE DEF dir
  <2>3. ask \in J!Asks
    BY <2>1, OrderAsked
  <2>4. ask.page = 1 /\ ask.size \in JobSizes
    BY <2>1 DEF J!Asks
  <2> HIDE DEF ask
  <2>5. ask.page <= J!Pages(page.stored, ask.size)
    BY <1>0, <2>4
  <2> QED BY <2>2, <2>3, <2>5, JobsReasked
<1>7. ASSUME NEW n \in JobSizes, J!SetPageSize(n) PROVE JobsInv'
  <2> DEFINE ask == [page.ask EXCEPT !.size = n, !.page = 1]
  <2>1. page.ask \in J!Asks
    BY DEF JobsInv
  <2>2. J!Reask(ask)
    BY <1>7 DEF J!SetPageSize
  <2>3. ask \in J!Asks
    BY <2>1, SizeAsked
  <2>4. ask.page = 1 /\ ask.size \in JobSizes
    BY <2>1 DEF J!Asks
  <2> HIDE DEF ask
  <2>5. ask.page <= J!Pages(page.stored, ask.size)
    BY <1>0, <2>4
  <2> QED BY <2>2, <2>3, <2>5, JobsReasked
<1> QED
  BY <1>1, <1>2, <1>3, <1>4, <1>5, <1>6, <1>7, JobsPaged, JobsAnswered, JobsDelivered
  DEF J!Next

(* JobPanel.tsx: jobs are only ever added, an old total is a lower one, so *)
(* a page clamped to it is a page of the table.                            *)
THEOREM JobsPageExistsHolds == Spec => []JobsPageExists
<1> DEFINE Inv == route = "jobs" => JobsInv
<1>1. Init => Inv
  BY DEF Init
<1>2. Inv /\ [Next]_vars => Inv'
  <2> SUFFICES ASSUME Inv, [Next]_vars, route' = "jobs" PROVE JobsInv'
    OBVIOUS
  <2>1. CASE UNCHANGED <<route, page>>
    BY <2>1 DEF JobsInv, J!OnList, J!PageExists
  <2>2. CASE Opens
    <3>1. page' \in J!Mounts
      BY <2>2 DEF Opens, Mounts
    <3> QED BY <3>1, JobsMounted
  <2>3. CASE route' = route /\ J!Next
    BY <2>3, JobsStep
  <2> QED BY <2>1, <2>2, <2>3, StepKinds DEF PageStep
<1>3. Inv => JobsPageExists
  BY DEF JobsPageExists, JobsInv
<1> QED BY <1>1, <1>2, <1>3, PTL DEF Spec
=============================================================================
