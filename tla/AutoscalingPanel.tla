-------------------------- MODULE AutoscalingPanel --------------------------
(***************************************************************************)
(* components/AutoscalingPanel.tsx with PolicyCard, PolicyEditor,          *)
(* AutoscalingTopBar and EvaluateModal: the autoscaling policies of the    *)
(* selected cluster, a card for each with a switch of its own, and one     *)
(* editor that creates or updates.  Of a policy only its switch is kept.   *)
(*                                                                         *)
(* The editor and the result of an evaluation are drawn over the page, and *)
(* nothing more: every control behind them still works from the keyboard.  *)
(***************************************************************************)
EXTENDS Naturals, FiniteSets, Requests

CONSTANTS
  Clusters,
  Policies,      \* ids of the policies there are or will be
  Owner,         \* the cluster of each
  MaxChanges,    \* bound: requests the user starts
  MaxFailures    \* bound: requests of a visit that fail

VARIABLE page

Switch == {"on", "off"}
Flip(x) == IF x = "on" THEN "off" ELSE "on"

(* What the backend has, or a list shows, of each policy; an id is not     *)
(* used again after the policy is deleted.                                 *)
Tables == [Policies -> Switch \cup {None, "gone"}]
Listings == [Policies -> Switch \cup {None}]

Listing(table, cluster) ==
  [p \in Policies |->
     IF Owner[p] = cluster /\ table[p] # "gone" THEN table[p] ELSE None]

(* The editor's form: the policy it was filled from, None for a new one;   *)
(* its switch, which has no input; and whether it was put over the form of *)
(* an editor that was open (history).                                      *)
Forms == [of : Policies \cup {None}, enabled : Switch, over : BOOLEAN]
Editors == [open : BOOLEAN, id : Policies \cup {None}, form : Forms \cup {None}]
Closed == [open |-> FALSE, id |-> None, form |-> None]

Request(kind, policy, form, cluster) ==
  [kind |-> kind, policy |-> policy, form |-> form, cluster |-> cluster,
   served |-> FALSE, answer |-> None]

PolicyChanges == {"delete", "toggle", "update", "create"}
Kinds == PolicyChanges \cup {"list", "evaluate", "samples"}

TypeOK ==
  /\ page.cluster \in Clusters \cup {None}
  /\ page.table \in Tables /\ page.listed \in Listings /\ page.card \in Listings
  /\ page.editor \in Editors
  /\ page.detail \in Policies \cup {None} /\ page.samples \in Policies \cup {None}
  /\ page.result \in BOOLEAN /\ page.mixed \in BOOLEAN
  /\ \A s \in Slots : page.calls[s] = Idle \/
       /\ page.calls[s].kind \in Kinds
       /\ page.calls[s].policy \in Policies \cup {None}
       /\ page.calls[s].form \in Forms \cup {None}
       /\ page.calls[s].answer \in Listings \cup {None}

-----------------------------------------------------------------------------
Unlisted == [p \in Policies |-> None]

Mounted(table) ==
  [cluster |-> None, table |-> table, listed |-> Unlisted, card |-> Unlisted,
   editor |-> Closed, detail |-> None, samples |-> None, result |-> FALSE,
   calls |-> NoCalls, changes |-> 0, failures |-> 0, mixed |-> FALSE]

Mounts == {Mounted(table) : table \in [Policies -> Switch \cup {None}]}

Init == page \in Mounts

(* The user starts a request.  `mixed' records that something happened     *)
(* while one was on its way, failed, or wrote a switch as it was before.   *)
Started(p, call) ==
  [p EXCEPT !.calls = Sent(@, call), !.changes = @ + 1,
            !.mixed = @ \/ page.calls # NoCalls]

MayStart == HasRoom(page.calls) /\ page.changes < MaxChanges

(* Cards that were hidden for a while are mounted anew.                    *)
Remounted(p, hidden) ==
  [p EXCEPT !.card = [q \in Policies |-> IF q \in hidden THEN p.listed[q] ELSE @[q]],
            !.mixed = @ \/ page.calls # NoCalls]

(* The effect loads the policies of the cluster, and nothing when it is    *)
(* the empty option: the old list stays, without its cards.                *)
SelectCluster(c) ==
  /\ MayStart /\ c # page.cluster
  /\ page' = IF c = None
             THEN [Remounted(page, Policies) EXCEPT !.cluster = c, !.changes = @ + 1]
             ELSE Started([page EXCEPT !.cluster = c], Request("list", None, None, c))

Refresh ==
  /\ MayStart /\ page.cluster # None
  /\ page' = Started(page, Request("list", None, None, page.cluster))

Evaluate ==
  /\ MayStart /\ page.cluster # None
  /\ page' = Started(page, Request("evaluate", None, None, page.cluster))

CloseResult ==
  /\ page.result
  /\ page' = [page EXCEPT !.result = FALSE]

(* The cards are rendered for a selected cluster only.                     *)
Cards == IF page.cluster = None THEN {} ELSE {p \in Policies : page.listed[p] # None}

(* The search box or one of the selects hides a card and shows it again.   *)
Refilter(p) ==
  /\ p \in Cards /\ page.card[p] # page.listed[p]
  /\ page' = Remounted(page, {p})

Delete(p) ==
  /\ MayStart /\ p \in Cards
  /\ page' = Started(page, Request("delete", p, None, page.cluster))

ToggleRemoteOnly(p) ==
  /\ MayStart /\ p \in Cards
  /\ page' = Started(page,
       Request("toggle", p, [of |-> p, enabled |-> Flip(page.card[p]), over |-> FALSE], page.cluster))

(* The card flips its own switch at once.                                  *)
Toggle(p) ==
  /\ MayStart /\ p \in Cards
  /\ LET to == Flip(page.card[p]) IN
     page' = Started([page EXCEPT !.card[p] = to],
       Request("toggle", p, [of |-> p, enabled |-> to, over |-> FALSE], page.cluster))

(* The details of a policy and the metrics drawn beside them.              *)
OpenDetail(p) ==
  /\ MayStart /\ p \in Cards
  /\ page' = Started([page EXCEPT !.detail = p],
       Request("samples", p, None, page.cluster))

CloseDetail ==
  /\ page.detail # None
  /\ page' = [page EXCEPT !.detail = None, !.samples = None]

-----------------------------------------------------------------------------
(* onEdit fills the form with the policy as listed.                        *)
Edit(p) ==
  /\ p \in Cards
  /\ page' = [page EXCEPT !.editor = [open |-> TRUE, id |-> p,
       form |-> [of |-> p, enabled |-> page.listed[p], over |-> FALSE]]]

(* onDuplicate; the copy is a new policy.                                  *)
Duplicate(p) ==
  /\ p \in Cards
  /\ page' = [page EXCEPT !.editor = [open |-> TRUE, id |-> None,
       form |-> [of |-> None, enabled |-> page.listed[p], over |-> FALSE]]]

(* New policy and the three templates leave editingPolicyId alone.         *)
Fill(enabled) ==
  page' = [page EXCEPT !.editor = [@ EXCEPT !.open = TRUE,
    !.form = [of |-> None, enabled |-> enabled, over |-> page.editor.open]]]

(* Without a switch a policy is off.                                       *)
NewPolicy == page.cluster # None /\ Fill("off")

UseTemplate == Fill("on")

CloseEditorOnly ==
  /\ page.editor.open
  /\ page' = [page EXCEPT !.editor.open = FALSE]

(* Cancel, Close, and a click beside the editor.                           *)
CloseEditor ==
  /\ page.editor.open
  /\ page' = [page EXCEPT !.editor = Closed]

(* Both listen for it.                                                     *)
Escape ==
  /\ page.editor.open \/ page.result
  /\ page' = [page EXCEPT !.editor = Closed, !.result = FALSE]

(* onEditorSave up to its await; the button is not disabled meanwhile.     *)
Save ==
  /\ page.editor.open /\ MayStart
  /\ LET e == page.editor
         kind == IF e.id = None THEN "create" ELSE "update"
         stale == e.id # None /\ e.form.enabled # page.table[e.id]
     IN page' = Started([page EXCEPT !.mixed = @ \/ stale],
                        Request(kind, e.id, e.form, page.cluster))

-----------------------------------------------------------------------------
(* The backend acts on a request.  An update overwrites the switch and     *)
(* leaves the cluster; a new policy goes to the one chosen in the editor.  *)
(* No list is given of no cluster.                                         *)
Serve(s) ==
  /\ page.calls[s] # Idle /\ ~page.calls[s].served
  /\ LET c == page.calls[s]
         Exists(p) == page.table[p] \in Switch
         Acted(table) == page' = [page EXCEPT !.table = table,
                                              !.calls[s].served = TRUE]
     IN \/ /\ c.kind \in {"toggle", "update"} /\ Exists(c.policy)
           /\ Acted([page.table EXCEPT ![c.policy] = c.form.enabled])
        \/ /\ c.kind = "delete" /\ Exists(c.policy)
           /\ Acted([page.table EXCEPT ![c.policy] = "gone"])
        \/ /\ c.kind = "create"
           /\ \E p \in Policies :
                /\ page.table[p] = None
                /\ Acted([page.table EXCEPT ![p] = c.form.enabled])
        \/ /\ c.kind \in {"evaluate", "samples"}
           /\ Acted(page.table)
        \/ /\ c.kind = "list" /\ c.cluster # None
           /\ page' = [page EXCEPT !.calls[s] =
                [c EXCEPT !.served = TRUE, !.answer = Listing(page.table, c.cluster)]]

(* A card is mounted with the switch as listed, and keeps its own after.   *)
Shown(p, listing) ==
  [p EXCEPT !.listed = listing,
     !.card = [q \in Policies |->
        IF listing[q] = None \/ p.listed[q] = None THEN listing[q] ELSE p.card[q]]]

(* The handler resumes.  Every change ends with a load of the policies of  *)
(* the cluster that was selected when it began.                            *)
Deliver(s) ==
  /\ page.calls[s] # Idle /\ page.calls[s].served
  /\ LET c == page.calls[s]
         done == [page EXCEPT !.calls = Done(@, s)]
         reload == [page EXCEPT !.calls[s] = Request("list", None, None, c.cluster)]
     IN \/ c.kind = "list" /\ page' = Shown(done, c.answer)
        \/ c.kind = "evaluate" /\ page' = [done EXCEPT !.result = TRUE]
        \/ c.kind = "samples" /\ page' = [done EXCEPT !.samples = c.policy]
        \/ c.kind \in {"delete", "toggle"} /\ page' = reload
        \/ /\ c.kind \in {"create", "update"}
           /\ page' = [reload EXCEPT !.editor = Closed]

(* Only an error toast, or no metrics; a flipped card stays flipped.       *)
Fail(s) ==
  /\ page.calls[s] # Idle
  /\ \/ page.failures < MaxFailures
     \/ /\ page.calls[s].kind \in {"delete", "toggle", "update"} /\ ~page.calls[s].served
        /\ page.table[page.calls[s].policy] = "gone"
     \/ page.calls[s].kind = "list" /\ page.calls[s].cluster = None
  /\ page' = [page EXCEPT !.calls = Done(@, s), !.mixed = TRUE,
       !.failures = IF @ < MaxFailures THEN @ + 1 ELSE @,
       !.samples = IF page.calls[s].kind = "samples" THEN None ELSE @]

-----------------------------------------------------------------------------
Next ==
  \/ Refresh \/ Evaluate \/ CloseResult \/ CloseDetail
  \/ NewPolicy \/ UseTemplate \/ CloseEditor \/ Escape \/ Save
  \/ \E c \in Clusters \cup {None} : SelectCluster(c)
  \/ \E p \in Policies :
       Delete(p) \/ Toggle(p) \/ Refilter(p) \/ OpenDetail(p) \/ Edit(p) \/ Duplicate(p)
  \/ \E s \in Slots : Serve(s) \/ Deliver(s) \/ Fail(s)

-----------------------------------------------------------------------------
(* A form and the policy it is saved over, None for a new one.             *)
Matches(form, id) == form.of = id \/ (form.over /\ form.of = None)

(* What is saved over a policy was filled from that policy, although only  *)
(* closing and duplicating reset editingPolicyId: no policy gets what was  *)
(* filled in for another one, and a form that was opened as a new policy's *)
(* overwrites nothing, up to the request.  The one exception is a new      *)
(* policy's form put over an open one: that does overwrite the policy that *)
(* was being edited.                                                       *)
EditorMatchesTarget ==
  /\ page.editor.open => Matches(page.editor.form, page.editor.id)
  /\ \A s \in InFlight(page.calls, {"create", "update"}) :
       Matches(page.calls[s].form, page.calls[s].policy)

(* A card has its switch to itself and is never brought up to date, yet it *)
(* agrees with the backend as long as requests do not overlap or fail, no  *)
(* card is mounted anew during one, and no save of the editor carries a    *)
(* switch that the policy no longer has, from before it was flipped behind *)
(* the editor, or not the policy's.                                        *)
CardsAgree ==
  ~page.mixed /\ page.calls = NoCalls
    => \A p \in Cards : page.card[p] = page.table[p]
=============================================================================
