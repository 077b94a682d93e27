------------------------ MODULE ConsoleAgreementProofs ------------------------
(***************************************************************************)
(* What a page shows agrees with the backend: the rows of the clusters     *)
(* page and the switches of the policy cards, as long as the requests of   *)
(* the page neither overlap nor fail, and the two lists of the dashboard.  *)
(* A page that promises this has at most one request in flight, so the     *)
(* invariants say what is true at each point of that one request.          *)
(***************************************************************************)
EXTENDS ConsoleFlagsProofs

-----------------------------------------------------------------------------
(* Dashboard: the first failure blanks both lists, and only the last       *)
(* answer shows any.                                                       *)
TogetherInv ==
  /\ {"backend", "tab", "shown", "waiting", "failed", "failures"} = DOMAIN page
  /\ D!Together

LEMMA DashboardStep ==
  ASSUME TogetherInv, D!Next
  PROVE  TogetherInv'
<1> USE DEF TogetherInv, D!Together
<1>1. CASE D!CheckBackend
  BY <1>1 DEF D!CheckBackend
<1>2. ASSUME NEW tab \in D!Tabs, D!SelectTab(tab) PROVE TogetherInv'
  BY <1>2 DEF D!SelectTab
<1>3. ASSUME NEW part \in D!Parts, D!Answer(part) PROVE TogetherInv'
  BY <1>3 DEF D!Answer
<1>4. ASSUME NEW part \in D!Parts, D!Fail(part) PROVE TogetherInv'
  BY <1>4 DEF D!Fail
<1> QED BY <1>1, <1>2, <1>3, <1>4 DEF D!Next

LEMMA DashboardMounted ==
  ASSUME NEW p \in D!Mounts
  PROVE  /\ {"backend", "tab", "shown", "waiting", "failed", "failures"} = DOMAIN p
         /\ p.shown = {}
BY DEF D!Mounts

(* Dashboard.tsx: however the two loads end, droplets and jobs are shown   *)
(* together or not at all.                                                 *)
THEOREM ShownTogetherHolds == Spec => []ShownTogether
<1> DEFINE I == route = "dashboard" => TogetherInv
<1>1. Init => I
  BY DashboardMounted DEF Init, TogetherInv, D!Together
<1>2. I /\ [Next]_vars => I'
  <2> SUFFICES ASSUME I, [Next]_vars PROVE I'
    OBVIOUS
  <2>1. CASE UNCHANGED <<route, page>>
    BY <2>1 DEF TogetherInv, D!Together, D!Parts
  <2>2. CASE Opens
    <3>1. route' = "dashboard" => page' \in D!Mounts
      BY <2>2 DEF Opens, Mounts
    <3> QED BY <3>1, DashboardMounted DEF TogetherInv, D!Together
  <2>3. CASE route' = route /\ PageStep
    BY <2>3, DashboardStep DEF PageStep
  <2> QED BY <2>1, <2>2, <2>3, StepKinds
<1>3. I => ShownTogether
  BY DEF TogetherInv, ShownTogether
<1> QED BY <1>1, <1>2, <1>3, PTL DEF Spec

-----------------------------------------------------------------------------
(* The only request of a page.                                             *)
Alone(calls, s) == calls = Filled(Unused, s, calls[s])

LEMMA AloneSent ==
  ASSUME NEW s \in Slots, NEW c
  PROVE  /\ Alone(Filled(Unused, s, c), s)
         /\ Filled(Unused, s, c)[s] = c
BY DEF Alone, Filled, Unused

LEMMA AloneFilled ==
  ASSUME NEW calls, NEW s \in Slots, Alone(calls, s), NEW c
  PROVE  /\ Filled(calls, s, c) = Filled(Unused, s, c)
         /\ c = Empty => Filled(calls, s, c) = Unused
BY DEF Alone, Filled, Unused

LEMMA AloneOther ==
  ASSUME NEW calls, NEW s \in Slots, Alone(calls, s), NEW t \in Slots, calls[t] # Empty
  PROVE  s = t
BY DEF Alone, Filled, Unused

-----------------------------------------------------------------------------
(* ClustersPanel.                                                          *)
ClustersFields == {"table", "listed", "mixed", "calls", "loading", "saving", "editor"}

ClustersCall(c, table) ==
  /\ {"kind", "served", "answer"} \subseteq DOMAIN c
  /\ c.kind \in C!Loads \/ c.kind \in DOMAIN C!Reload
  /\ c.kind \in C!Loads /\ c.served => c.answer = table

AgreeInv ==
  /\ ClustersFields \subseteq DOMAIN page
  /\ page.mixed \in BOOLEAN
  /\ ~page.mixed =>
       \/ page.calls = Unused /\ page.listed = page.table
       \/ \E s \in Slots : Alone(page.calls, s) /\ ClustersCall(page.calls[s], page.table)

LEMMA AgreeSent ==
  ASSUME ClustersFields \subseteq DOMAIN page', page'.mixed \in BOOLEAN,
         NEW s \in Slots, NEW c, ClustersCall(c, page'.table),
         page'.calls = Filled(Unused, s, c)
  PROVE  AgreeInv'
<1>1. Alone(page'.calls, s) /\ page'.calls[s] = c
  BY AloneSent
<1>2. ClustersCall(page'.calls[s], page'.table)
  BY <1>1
<1> QED BY <1>1, <1>2
  DEF AgreeInv, Alone, Filled, Unused, Empty, ClustersCall, ClustersFields, C!Loads, C!Reload

LEMMA AgreeMounted ==
  ASSUME page' \in C!Mounts
  PROVE  AgreeInv'
<1> DEFINE s == CHOOSE t \in Slots : Unused[t] = Empty
<1>1. s \in Slots
  BY ConsoleAssumption DEF Unused
<1>2. PICK table : page' = C!Mounted(table)
  BY DEF C!Mounts
<1>3. /\ ClustersFields \subseteq DOMAIN page' /\ page'.mixed = FALSE
      /\ page'.calls = C!Sent(C!NoCalls, C!List)
  BY <1>2 DEF C!Mounted, ClustersFields
<1>4. page'.calls = Filled(Unused, s, C!List)
  BY <1>3 DEF C!Sent, C!NoCalls, C!Idle, Unused, Empty, Filled
<1> HIDE DEF s
<1>5. ClustersCall(C!List, page'.table)
  BY DEF ClustersCall, C!List, C!Request, C!Loads
<1> QED BY <1>1, <1>3, <1>4, <1>5, AgreeSent

LEMMA AgreeStep ==
  ASSUME AgreeInv, C!Next
  PROVE  AgreeInv'
<1>0. ClustersFields \subseteq DOMAIN page /\ page.mixed \in BOOLEAN
  BY DEF AgreeInv
<1>1. ASSUME DOMAIN page' = DOMAIN page, page'.calls = page.calls, page'.table = page.table,
             page'.listed = page.listed, page'.mixed = page.mixed
      PROVE  AgreeInv'
  BY <1>1 DEF AgreeInv, Alone, Filled, Unused, Empty, ClustersCall, ClustersFields,
     C!Loads, C!Reload
<1>2. ASSUME DOMAIN page' = DOMAIN page, page'.mixed = TRUE
      PROVE  AgreeInv'
  BY <1>2 DEF AgreeInv
<1>3. ASSUME C!MayStart, NEW c, ClustersCall(c, page.table),
             DOMAIN page' = DOMAIN page, page'.table = page.table,
             page'.calls = C!Sent(page.calls, c),
             page'.mixed = (page.mixed \/ page.calls # C!NoCalls)
      PROVE  AgreeInv'
  <2> DEFINE s == CHOOSE t \in Slots : page.calls[t] = C!Idle
  <2>1. CASE page.mixed \/ page.calls # C!NoCalls
    BY <1>2, <1>3, <2>1
  <2>2. CASE ~page.mixed /\ page.calls = C!NoCalls
    <3>1. s \in Slots
      BY <1>3 DEF C!MayStart, C!HasRoom
    <3>2. page'.calls = Filled(Unused, s, c)
      BY <1>3, <2>2 DEF C!Sent, C!NoCalls, C!Idle, Unused, Empty, Filled
    <3> HIDE DEF s
    <3>3. ClustersCall(c, page'.table) /\ page'.mixed = FALSE
      BY <1>3, <2>2
    <3> QED BY <1>0, <1>3, <3>1, <3>2, <3>3, AgreeSent DEF ClustersFields
  <2> QED BY <2>1, <2>2
<1>4. ASSUME NEW s \in Slots, page.calls[s] # C!Idle, ~page.mixed
      PROVE  Alone(page.calls, s) /\ ClustersCall(page.calls[s], page.table)
  <2>1. Unused[s] = C!Idle /\ C!Idle = Empty
    BY DEF Unused, Empty, C!Idle
  <2>2. PICK t \in Slots : Alone(page.calls, t) /\ ClustersCall(page.calls[t], page.table)
    BY <1>4, <2>1 DEF AgreeInv
  <2>3. t = s
    BY <1>4, <2>1, <2>2, AloneOther
  <2> QED BY <2>2, <2>3
<1>5. ASSUME NEW s \in Slots, page.calls[s] # C!Idle, NEW c, ~page.mixed => ClustersCall(c, page'.table),
             DOMAIN page' = DOMAIN page, page'.mixed = page.mixed,
             page'.calls = Filled(page.calls, s, c)
      PROVE  AgreeInv'
  <2>1. CASE page.mixed
    BY <1>2, <1>5, <2>1
  <2>2. CASE ~page.mixed
    <3>1. page'.calls = Filled(Unused, s, c)
      BY <1>4, <1>5, <2>2, AloneFilled
    <3> QED BY <1>0, <1>5, <2>2, <3>1, AgreeSent
  <2> QED BY <2>1, <2>2
<1> USE DEF ClustersFields
<1>6. ASSUME NEW key \in C!Filters, C!FilterByCard(key) \/ C!SelectFilter(key)
      PROVE  AgreeInv'
  BY <1>0, <1>1, <1>6 DEF C!FilterByCard, C!SelectFilter
<1>7. ASSUME NEW c \in Clusters, C!StartEditing(c) PROVE AgreeInv'
  BY <1>0, <1>1, <1>7 DEF C!StartEditing
<1>8. ASSUME NEW status \in Statuses, C!ChangeForm(status) PROVE AgreeInv'
  BY <1>0, <1>1, <1>8 DEF C!ChangeForm
<1>9. CASE C!CancelEditing
  BY <1>0, <1>1, <1>9 DEF C!CancelEditing
<1>10. ASSUME NEW kind \in {"list", "update", "delete"}, NEW id, NEW status, NEW editing
       PROVE  ClustersCall(C!Request(kind, id, status, editing), page.table)
  BY DEF ClustersCall, C!Request, C!Loads, C!Reload
<1>11. CASE C!Refresh
  <2>1. /\ C!MayStart /\ DOMAIN page' = DOMAIN page /\ page'.table = page.table
        /\ page'.calls = C!Sent(page.calls, C!List)
        /\ page'.mixed = (page.mixed \/ page.calls # C!NoCalls)
    BY <1>0, <1>11 DEF C!Refresh, C!Started
  <2>2. ClustersCall(C!List, page.table)
    BY <1>10 DEF C!List
  <2> QED BY <1>3, <2>1, <2>2
<1>12. CASE C!Save
  <2> DEFINE call == C!Request("update", page.editor.id, page.editor.status, None)
  <2>1. /\ C!MayStart /\ DOMAIN page' = DOMAIN page /\ page'.table = page.table
        /\ page'.calls = C!Sent(page.calls, call)
        /\ page'.mixed = (page.mixed \/ page.calls # C!NoCalls)
    BY <1>0, <1>12 DEF C!Save, C!Started
  <2>2. ClustersCall(call, page.table)
    BY <1>10
  <2> QED BY <1>3, <2>1, <2>2
<1>13. ASSUME NEW c \in Clusters, C!Delete(c) PROVE AgreeInv'
  <2> DEFINE call == C!Request("delete", c, None, page.editor.id)
  <2>1. /\ C!MayStart /\ DOMAIN page' = DOMAIN page /\ page'.table = page.table
        /\ page'.calls = C!Sent(page.calls, call)
        /\ page'.mixed = (page.mixed \/ page.calls # C!NoCalls)
    BY <1>0, <1>13 DEF C!Delete, C!Started
  <2>2. ClustersCall(call, page.table)
    BY <1>10
  <2> QED BY <1>3, <2>1, <2>2
<1>14. ASSUME NEW s \in Slots, C!Serve(s) PROVE AgreeInv'
  <2> DEFINE acted == [page.calls[s] EXCEPT !.served = TRUE]
             read == [page.calls[s] EXCEPT !.served = TRUE, !.answer = page.table]
  <2>1. page.calls[s] # C!Idle
    BY <1>14 DEF C!Serve
  <2>2. /\ DOMAIN page' = DOMAIN page /\ page'.mixed = page.mixed
        /\ \/ /\ page.calls[s].kind \in {"update", "delete"}
              /\ page'.calls = Filled(page.calls, s, acted)
           \/ /\ page.calls[s].kind \in C!Loads /\ page'.table = page.table
              /\ page'.calls = Filled(page.calls, s, read)
    BY <1>0, <1>14 DEF C!Serve, Filled
  <2>3. ASSUME ~page.mixed, page.calls[s].kind \in {"update", "delete"}
        PROVE  ClustersCall(acted, page'.table)
    BY <1>4, <2>1, <2>3 DEF ClustersCall, C!Loads, C!Reload
  <2>4. ASSUME ~page.mixed, page.calls[s].kind \in C!Loads
        PROVE  ClustersCall(read, page.table)
    BY <1>4, <2>1, <2>4 DEF ClustersCall
  <2> HIDE DEF acted, read
  <2> QED BY <1>5, <2>1, <2>2, <2>3, <2>4
<1>15. ASSUME NEW s \in Slots, C!DeliverList(s) PROVE AgreeInv'
  <2> DEFINE got == [page EXCEPT !.listed = page.calls[s].answer]
  <2>1. /\ page.calls[s] # C!Idle /\ page.calls[s].served /\ page.calls[s].kind \in C!Loads
        /\ page' = C!Finished(got, s)
    BY <1>15 DEF C!DeliverList
  <2>2. /\ DOMAIN got = DOMAIN page /\ got.calls = page.calls /\ got.table = page.table
        /\ got.mixed = page.mixed /\ got.listed = page.calls[s].answer
    BY <1>0
  <2> HIDE DEF got
  <2>3. /\ DOMAIN page' = DOMAIN page /\ page'.calls = Filled(page.calls, s, Empty)
        /\ page'.table = page.table /\ page'.mixed = page.mixed
        /\ page'.listed = page.calls[s].answer
    BY <1>0, <2>1, <2>2 DEF C!Finished, C!Done, C!Idle, Empty, Filled
  <2>4. CASE page.mixed
    BY <1>2, <2>3, <2>4
  <2>5. CASE ~page.mixed
    <3>1. page'.calls = Unused
      BY <1>4, <2>1, <2>3, <2>5, AloneFilled
    <3>2. page'.listed = page'.table
      BY <1>4, <2>1, <2>3, <2>5 DEF ClustersCall
    <3> QED BY <1>0, <2>3, <3>1, <3>2 DEF AgreeInv
  <2> QED BY <2>4, <2>5
<1>16. ASSUME NEW s \in Slots, C!DeliverChange(s) PROVE AgreeInv'
  <2> DEFINE c == [page.calls[s] EXCEPT !.kind = C!Reload[page.calls[s].kind], !.served = FALSE]
  <2>1. /\ page.calls[s] # C!Idle /\ page.calls[s].kind \in DOMAIN C!Reload
        /\ DOMAIN page' = DOMAIN page /\ page'.calls = Filled(page.calls, s, c)
        /\ page'.table = page.table /\ page'.mixed = page.mixed
    BY <1>0, <1>16 DEF C!DeliverChange, Filled
  <2>2. C!Reload[page.calls[s].kind] \in C!Loads
    <3>1. DOMAIN C!Reload = {"update", "delete"}
      BY DEF C!Reload
    <3>2. C!Reload["update"] = "update reload" /\ C!Reload["delete"] = "delete reload"
      BY DEF C!Reload
    <3> QED BY <2>1, <3>1, <3>2 DEF C!Loads
  <2>3. ASSUME ~page.mixed PROVE ClustersCall(c, page'.table)
    BY <1>4, <2>1, <2>2, <2>3 DEF ClustersCall
  <2> HIDE DEF c
  <2> QED BY <1>5, <2>1, <2>3
<1>17. ASSUME NEW s \in Slots, C!Fail(s) PROVE AgreeInv'
  <2> DEFINE failed == [page EXCEPT !.failures = IF @ < MaxFailures THEN @ + 1 ELSE @,
                                    !.mixed = TRUE]
  <2>1. DOMAIN failed = DOMAIN page /\ failed.mixed = TRUE
    BY <1>0
  <2>2. \/ page' = C!Finished(failed, s)
        \/ page' = [failed EXCEPT !.calls = C!Done(@, s),
                                  !.saving = @ /\ page.calls[s].kind # "update"]
    BY <1>17 DEF C!Fail
  <2> HIDE DEF failed
  <2>3. DOMAIN page' = DOMAIN page /\ page'.mixed = TRUE
    BY <1>0, <2>1, <2>2 DEF C!Finished
  <2> QED BY <1>2, <2>3
<1> QED
  BY <1>6, <1>7, <1>8, <1>9, <1>11, <1>12, <1>13, <1>14, <1>15, <1>16, <1>17
  DEF C!Next, C!Deliver

(* ClustersPanel.tsx: with no request in flight the rows are the clusters  *)
(* of the backend, through any sequence of loads, saves and deletions that *)
(* neither overlap nor fail.                                               *)
THEOREM ClustersAgreeHolds == Spec => []ClustersAgree
<1> DEFINE I == route = "clusters" => AgreeInv
<1>1. Init => I
  BY DEF Init
<1>2. I /\ [Next]_vars => I'
  <2> SUFFICES ASSUME I, [Next]_vars PROVE I'
    OBVIOUS
  <2>1. CASE UNCHANGED <<route, page>>
    BY <2>1 DEF AgreeInv, Alone, Filled, Unused, Empty, ClustersCall, ClustersFields,
       C!Loads, C!Reload
  <2>2. CASE Opens
    BY <2>2, AgreeMounted DEF Opens, Mounts
  <2>3. CASE route' = route /\ PageStep
    BY <2>3, AgreeStep DEF PageStep
  <2> QED BY <2>1, <2>2, <2>3, StepKinds
<1>3. I => ClustersAgree
  <2> SUFFICES ASSUME AgreeInv, ~page.mixed, page.calls = C!NoCalls
               PROVE  page.listed = page.table
    BY DEF ClustersAgree, C!ListedAgrees
  <2>1. \A s \in Slots : page.calls[s].kind = "idle"
    BY DEF C!NoCalls, C!Idle
  <2> QED BY <2>1 DEF AgreeInv, ClustersCall, C!Loads, C!Reload
<1> QED BY <1>1, <1>2, <1>3, PTL DEF Spec

-----------------------------------------------------------------------------
(* AutoscalingPanel.  At rest, list, cards and backend have the same       *)
(* switches; while a list is loaded only a deleted policy's may differ,    *)
(* whose card the answer takes away.                                       *)
Settled(p) ==
  \A q \in Policies : p.listed[q] # None =>
    p.listed[q] = p.table[q] /\ p.card[q] = p.table[q]

Following(p) ==
  \A q \in Policies : p.listed[q] # None => p.card[q] = p.table[q] \/ p.table[q] = "gone"

(* The only request, with the change it makes.                             *)
CardsCall(c, p) ==
  /\ DOMAIN c = {"kind", "policy", "form", "cluster", "served", "answer"}
  /\ c.served \in BOOLEAN
  /\ \/ c.kind \in {"evaluate", "samples", "create"} /\ Settled(p)
     \/ /\ c.kind = "update" /\ Settled(p)
        /\ ~c.served => c.form.enabled = p.table[c.policy]
     \/ c.kind = "delete" /\ IF c.served THEN Following(p) ELSE Settled(p)
     \/ /\ c.kind = "toggle"
        /\ IF c.served THEN Following(p)
           ELSE \A q \in Policies : p.listed[q] # None =>
                  p.card[q] = IF q = c.policy THEN c.form.enabled ELSE p.table[q]
     \/ /\ c.kind = "list" /\ Following(p)
        /\ c.served => \A q \in Policies : c.answer[q] # None =>
                         c.answer[q] = p.table[q] /\ c.answer[q] # "gone"

Resting == page.calls = Unused /\ Settled(page)

CardsSteady ==
  Resting \/ \E s \in Slots : Alone(page.calls, s) /\ CardsCall(page.calls[s], page)

Shaped ==
  /\ page.mixed \in BOOLEAN
  /\ DOMAIN page.table = Policies /\ DOMAIN page.card = Policies

CardsInv == EditorInv /\ Shaped /\ (~page.mixed => CardsSteady)

LEMMA CardsMounted ==
  ASSUME page' \in A!Mounts
  PROVE  CardsInv'
<1>1. PICK table \in [Policies -> A!Switch \cup {None}] : page' = A!Mounted(table)
  BY DEF A!Mounts
<1>2. /\ page'.table = table /\ page'.listed = A!Unlisted /\ page'.card = A!Unlisted
      /\ page'.mixed = FALSE /\ page'.calls = Unused /\ page'.editor = A!Closed
  BY <1>1 DEF A!Mounted, A!NoCalls, A!Idle, Unused, Empty
<1>3. ~A!Closed.open /\ DOMAIN A!Unlisted = Policies /\ \A p \in Policies : A!Unlisted[p] = None
  BY DEF A!Closed, A!Unlisted
<1>4. Shaped'
  BY <1>2, <1>3 DEF Shaped
<1>5. Resting'
  BY <1>2, <1>3 DEF Resting, Settled, Unused, Empty
<1> QED BY <1>4, <1>5, EditorMounted DEF CardsInv, CardsSteady

(* No action forgets that requests overlapped or failed.                   *)
LEMMA ShapedStep ==
  ASSUME EditorInv, Shaped, A!Next
  PROVE  Shaped' /\ (page.mixed => page'.mixed)
<1> USE DEF Shaped
<1>0. DOMAIN page = AutoscalingFields
  BY DEF EditorInv
<1> USE <1>0 DEF AutoscalingFields
<1>1. CASE A!Refresh \/ A!Evaluate \/ A!CloseResult \/ A!CloseDetail \/ A!CloseEditor \/ A!Escape \/ A!Save
  BY <1>1 DEF A!Refresh, A!Evaluate, A!CloseResult, A!CloseDetail, A!CloseEditor, A!Escape,
     A!Save, A!Started
<1>2. ASSUME NEW c \in Clusters \cup {None}, A!SelectCluster(c)
      PROVE  Shaped' /\ (page.mixed => page'.mixed)
  BY <1>2 DEF A!SelectCluster, A!Started, A!Remounted
<1>3. ASSUME NEW p \in Policies, A!Delete(p) \/ A!Toggle(p) \/ A!Refilter(p) \/ A!OpenDetail(p)
      PROVE  Shaped' /\ (page.mixed => page'.mixed)
  BY <1>3 DEF A!Delete, A!Toggle, A!Refilter, A!OpenDetail, A!Started, A!Remounted
<1>4. ASSUME NEW p \in Policies, A!Edit(p) \/ A!Duplicate(p)
      PROVE  Shaped' /\ (page.mixed => page'.mixed)
  BY <1>4 DEF A!Edit, A!Duplicate
<1>5. CASE A!NewPolicy \/ A!UseTemplate
  BY <1>5 DEF A!NewPolicy, A!UseTemplate, A!Fill
<1>6. ASSUME NEW s \in Slots, A!Serve(s)
      PROVE  Shaped' /\ (page.mixed => page'.mixed)
  BY <1>6 DEF A!Serve
<1>7. ASSUME NEW s \in Slots, A!Deliver(s)
      PROVE  Shaped' /\ (page.mixed => page'.mixed)
  <2> DEFINE c == page.calls[s]
             done == [page EXCEPT !.calls = A!Done(@, s)]
             reload == [page EXCEPT !.calls[s] = A!Request("list", None, None, c.cluster)]
  <2>1. CASE c.kind = "list" /\ page' = A!Shown(done, c.answer)
    <3>1. /\ page'.mixed = page.mixed /\ page'.table = page.table
          /\ DOMAIN page'.card = Policies
      BY <2>1 DEF A!Shown
    <3> QED BY <3>1
  <2>2. CASE \/ page' = [done EXCEPT !.result = TRUE]
             \/ page' = [done EXCEPT !.samples = c.policy]
             \/ page' = reload
             \/ page' = [reload EXCEPT !.editor = A!Closed]
    BY <2>2
  <2> QED BY <1>7, <2>1, <2>2 DEF A!Deliver
<1>8. ASSUME NEW s \in Slots, A!Fail(s)
      PROVE  Shaped' /\ (page.mixed => page'.mixed)
  BY <1>8 DEF A!Fail
<1> QED BY <1>1, <1>2, <1>3, <1>4, <1>5, <1>6, <1>7, <1>8 DEF A!Next

LEMMA SteadyStep ==
  ASSUME CardsInv, EditorInv', Shaped', A!Next, ~page'.mixed
  PROVE  CardsSteady'
<1>0. /\ ~page.mixed /\ page.mixed \in BOOLEAN /\ CardsSteady
      /\ DOMAIN page = AutoscalingFields /\ DOMAIN page.table = Policies
      /\ DOMAIN page.card = Policies
  BY ShapedStep DEF CardsInv, Shaped, EditorInv
<1>1. ASSUME page'.calls = page.calls, page'.table = page.table, page'.listed = page.listed,
             page'.card = page.card
      PROVE  CardsSteady'
  <2>1. Settled(page) => Settled(page')
    BY <1>1 DEF Settled
  <2>2. Following(page) => Following(page')
    BY <1>1 DEF Following
  <2>3. ASSUME NEW c, CardsCall(c, page) PROVE CardsCall(c, page')
    BY <1>1, <2>1, <2>2, <2>3 DEF CardsCall
  <2> QED BY <1>0, <1>1, <2>1, <2>3 DEF CardsSteady, Resting, Alone, Filled, Unused, Empty
<1>4. ASSUME page.calls = A!NoCalls PROVE page.calls = Unused /\ Settled(page)
  <2>1. page.calls = Unused /\ \A s \in Slots : page.calls[s].kind = "idle"
    BY <1>4 DEF A!NoCalls, A!Idle, Unused, Empty
  <2> QED BY <1>0, <2>1 DEF CardsSteady, Resting, CardsCall
(* A request is sent.                                                      *)
<1>5. ASSUME A!MayStart, page.calls = Unused, NEW c, page'.calls = A!Sent(page.calls, c),
             CardsCall(c, page')
      PROVE  CardsSteady'
  <2> DEFINE s == CHOOSE t \in Slots : page.calls[t] = A!Idle
  <2>1. s \in Slots
    BY <1>5 DEF A!MayStart, A!HasRoom
  <2>2. page'.calls = Filled(Unused, s, c)
    BY <1>5 DEF A!Sent, Filled
  <2> HIDE DEF s
  <2>3. Alone(page'.calls, s) /\ page'.calls[s] = c
    BY <2>1, <2>2, AloneSent
  <2>4. CardsCall(page'.calls[s], page')
    BY <1>5, <2>3
  <2> QED BY <1>5, <2>1, <2>3, <2>4 DEF CardsSteady, Alone, Filled, Unused, Empty
(* A request is acted upon, or goes on to its reload.                      *)
<1>6. ASSUME NEW s \in Slots, page.calls[s] # A!Idle
      PROVE  Alone(page.calls, s) /\ CardsCall(page.calls[s], page)
  <2>1. Unused[s] = A!Idle /\ A!Idle = Empty
    BY DEF Unused, Empty, A!Idle
  <2>2. PICK t \in Slots : Alone(page.calls, t) /\ CardsCall(page.calls[t], page)
    BY <1>0, <1>6, <2>1 DEF CardsSteady, Resting
  <2>3. t = s
    BY <1>6, <2>1, <2>2, AloneOther
  <2> QED BY <2>2, <2>3
<1>8. ASSUME NEW s \in Slots, page.calls[s] # A!Idle, NEW c,
             page'.calls = Filled(page.calls, s, c), CardsCall(c, page')
      PROVE  CardsSteady'
  <2>1. page'.calls = Filled(Unused, s, c)
    BY <1>6, <1>8, AloneFilled
  <2>2. Alone(page'.calls, s) /\ page'.calls[s] = c
    BY <2>1, AloneSent
  <2>3. CardsCall(page'.calls[s], page')
    BY <1>8, <2>2
  <2> QED BY <1>8, <2>2, <2>3 DEF CardsSteady, Alone, Filled, Unused, Empty
<1> USE DEF AutoscalingFields
<1>9. CASE A!CloseResult \/ A!CloseDetail \/ A!CloseEditor \/ A!Escape
  BY <1>0, <1>1, <1>9 DEF A!CloseResult, A!CloseDetail, A!CloseEditor, A!Escape
<1>10. CASE A!NewPolicy \/ A!UseTemplate
  BY <1>0, <1>1, <1>10 DEF A!NewPolicy, A!UseTemplate, A!Fill
<1>11. ASSUME NEW p \in Policies, A!Edit(p) \/ A!Duplicate(p) PROVE CardsSteady'
  BY <1>0, <1>1, <1>11 DEF A!Edit, A!Duplicate
(* The cards are mounted anew, all or one of them.                         *)
<1>14. ASSUME NEW hidden, page.calls = A!NoCalls,
              page'.calls = page.calls, page'.table = page.table, page'.listed = page.listed,
              \A q \in Policies :
                page'.card[q] = IF q \in hidden THEN page.listed[q] ELSE page.card[q]
       PROVE  CardsSteady'
  <2>1. Resting'
    BY <1>4, <1>14 DEF Resting, Settled, Unused, Empty
  <2> QED BY <2>1 DEF CardsSteady
<1>15. ASSUME NEW p \in Policies, A!Refilter(p) PROVE CardsSteady'
  <2>1. /\ page.calls = A!NoCalls
        /\ page'.calls = page.calls /\ page'.table = page.table /\ page'.listed = page.listed
        /\ \A q \in Policies :
             page'.card[q] = IF q \in {p} THEN page.listed[q] ELSE page.card[q]
    BY <1>0, <1>15 DEF A!Refilter, A!Remounted
  <2> QED BY <1>14, <2>1
(* Nothing else is in flight when a request other than a save is sent.     *)
<1>16. ASSUME NEW kind, NEW policy, NEW form, NEW cluster, A!MayStart,
              page'.calls = A!Sent(page.calls, A!Request(kind, policy, form, cluster)),
              page'.table = page.table, page'.listed = page.listed,
              page.calls = A!NoCalls,
              \/ page'.card = page.card /\ kind \in {"list", "evaluate", "samples", "delete"}
              \/ /\ kind = "toggle" /\ policy \in Policies
                 /\ page'.card = [page.card EXCEPT ![policy] = form.enabled]
       PROVE  CardsSteady'
  <2> DEFINE c == A!Request(kind, policy, form, cluster)
  <2>1. /\ DOMAIN c = {"kind", "policy", "form", "cluster", "served", "answer"}
        /\ c.kind = kind /\ c.policy = policy /\ c.form = form /\ c.served = FALSE
    BY DEF A!Request
  <2> HIDE DEF c
  <2>2. page.calls = Unused /\ Settled(page)
    BY <1>4, <1>16
  <2>3. ASSUME page'.card = page.card, kind \in {"list", "evaluate", "samples", "delete"}
        PROVE  CardsCall(c, page')
    <3>1. Settled(page') /\ Following(page')
      BY <1>16, <2>2, <2>3 DEF Settled, Following
    <3> QED BY <2>1, <2>3, <3>1 DEF CardsCall
  <2>4. ASSUME kind = "toggle", policy \in Policies,
               page'.card = [page.card EXCEPT ![policy] = form.enabled]
        PROVE  CardsCall(c, page')
    <3>1. \A p \in Policies : page'.listed[p] # None =>
            page'.card[p] = IF p = policy THEN form.enabled ELSE page'.table[p]
      BY <1>0, <1>16, <2>2, <2>4 DEF Settled
    <3> QED BY <2>1, <2>4, <3>1 DEF CardsCall
  <2>5. CardsCall(c, page')
    BY <1>16, <2>3, <2>4
  <2> QED BY <1>5, <1>16, <2>2, <2>5 DEF c
<1>17. CASE A!Refresh \/ A!Evaluate
  <2>1. \E kind \in {"list", "evaluate"} :
          /\ A!MayStart /\ page.calls = A!NoCalls
          /\ page'.calls = A!Sent(page.calls, A!Request(kind, None, None, page.cluster))
          /\ page'.table = page.table /\ page'.listed = page.listed
          /\ page'.card = page.card
    BY <1>0, <1>17 DEF A!Refresh, A!Evaluate, A!Started
  <2> QED BY <1>16, <2>1
<1>18. ASSUME NEW c \in Clusters \cup {None}, A!SelectCluster(c) PROVE CardsSteady'
  <2>1. CASE c = None
    <3>1. /\ page.calls = A!NoCalls
          /\ page'.calls = page.calls /\ page'.table = page.table /\ page'.listed = page.listed
          /\ \A q \in Policies :
               page'.card[q] = IF q \in Policies THEN page.listed[q] ELSE page.card[q]
      BY <1>0, <1>18, <2>1 DEF A!SelectCluster, A!Remounted
    <3> QED BY <1>14, <3>1
  <2>2. CASE c # None
    <3>1. /\ A!MayStart /\ page.calls = A!NoCalls
          /\ page'.calls = A!Sent(page.calls, A!Request("list", None, None, c))
          /\ page'.table = page.table /\ page'.listed = page.listed
          /\ page'.card = page.card
      BY <1>0, <1>18, <2>2 DEF A!SelectCluster, A!Started
    <3> QED BY <1>16, <3>1
  <2> QED BY <2>1, <2>2
<1>19. ASSUME NEW p \in Policies, A!Delete(p) \/ A!OpenDetail(p) PROVE CardsSteady'
  <2>1. \E kind \in {"delete", "samples"} :
          /\ A!MayStart /\ page.calls = A!NoCalls
          /\ page'.calls = A!Sent(page.calls, A!Request(kind, p, None, page.cluster))
          /\ page'.table = page.table /\ page'.listed = page.listed
          /\ page'.card = page.card
    BY <1>0, <1>19 DEF A!Delete, A!OpenDetail, A!Started
  <2> QED BY <1>16, <2>1
<1>20. ASSUME NEW p \in Policies, A!Toggle(p) PROVE CardsSteady'
  <2> DEFINE form == [of |-> p, enabled |-> A!Flip(page.card[p]), over |-> FALSE]
  <2>1. /\ A!MayStart /\ page.calls = A!NoCalls
        /\ page'.calls = A!Sent(page.calls, A!Request("toggle", p, form, page.cluster))
        /\ page'.table = page.table /\ page'.listed = page.listed
        /\ page'.card = [page.card EXCEPT ![p] = A!Flip(page.card[p])]
    BY <1>0, <1>20 DEF A!Toggle, A!Started
  <2>2. form.enabled = A!Flip(page.card[p])
    OBVIOUS
  <2> HIDE DEF form
  <2> QED BY <1>16, <2>1, <2>2
<1>21. CASE A!Save
  <2> DEFINE e == page.editor
             c == A!Request(IF e.id = None THEN "create" ELSE "update", e.id, e.form, page.cluster)
  <2>1. /\ A!MayStart /\ page.calls = A!NoCalls /\ e.open
        /\ page'.calls = A!Sent(page.calls, c)
        /\ page'.table = page.table /\ page'.listed = page.listed
        /\ page'.card = page.card
    BY <1>0, <1>21 DEF A!Save, A!Started
  <2>2. /\ DOMAIN c = {"kind", "policy", "form", "cluster", "served", "answer"}
        /\ c.kind = (IF e.id = None THEN "create" ELSE "update")
        /\ c.policy = e.id /\ c.form = e.form /\ c.served = FALSE
    BY DEF A!Request
  <2> HIDE DEF c
  <2>3. page.calls = Unused /\ Settled(page)
    BY <1>4, <2>1
  <2>4. e.id # None => e.form.enabled = page.table[e.id]
    BY <1>0, <1>21 DEF A!Save, A!Started
  <2>5. Settled(page')
    BY <2>1, <2>3 DEF Settled
  <2>6. CardsCall(c, page')
    BY <2>1, <2>2, <2>4, <2>5 DEF CardsCall
  <2> QED BY <1>5, <2>1, <2>3, <2>6
<1>22. ASSUME NEW s \in Slots, A!Serve(s) PROVE CardsSteady'
  <2> DEFINE c == page.calls[s]
             acted == [c EXCEPT !.served = TRUE]
             read == [c EXCEPT !.served = TRUE, !.answer = A!Listing(page.table, c.cluster)]
  <2>1. /\ c # A!Idle /\ c.served = FALSE /\ CardsCall(c, page) /\ Alone(page.calls, s)
    BY <1>6, <1>22 DEF A!Serve, CardsCall
  <2>2. /\ page'.listed = page.listed /\ page'.card = page.card
        /\ DOMAIN c = {"kind", "policy", "form", "cluster", "served", "answer"}
    BY <1>0, <1>22, <2>1 DEF A!Serve, CardsCall
  <2>3. /\ \A d \in {acted, read} :
             /\ DOMAIN d = DOMAIN c /\ d.kind = c.kind /\ d.policy = c.policy
             /\ d.form = c.form /\ d.cluster = c.cluster /\ d.served = TRUE
        /\ read.answer = A!Listing(page.table, c.cluster)
    BY <2>2
  <2>4. ASSUME NEW d \in {acted, read}, page'.calls = Filled(page.calls, s, d), CardsCall(d, page')
        PROVE  CardsSteady'
    BY <1>8, <2>1, <2>4
  <2>5. CASE /\ c.kind \in {"toggle", "update"}
             /\ page' = [page EXCEPT !.table = [page.table EXCEPT ![c.policy] = c.form.enabled],
                                     !.calls[s].served = TRUE]
    <3>1. /\ page'.table = [page.table EXCEPT ![c.policy] = c.form.enabled]
          /\ page'.calls = Filled(page.calls, s, acted)
      BY <1>0, <2>5 DEF Filled
    <3>2. CASE c.kind = "toggle"
      <4>1. Following(page')
        BY <1>0, <2>1, <2>2, <3>1, <3>2 DEF CardsCall, Following
      <4> HIDE DEF c, acted, read
      <4>2. CardsCall(acted, page')
        BY <2>2, <2>3, <3>2, <4>1 DEF CardsCall
      <4> QED BY <2>4, <3>1, <4>2
    <3>3. CASE c.kind = "update"
      <4>1. Settled(page) /\ c.form.enabled = page.table[c.policy]
        BY <2>1, <3>3 DEF CardsCall
      <4>2. Settled(page')
        BY <1>0, <2>2, <3>1, <4>1 DEF Settled
      <4> HIDE DEF c, acted, read
      <4>3. CardsCall(acted, page')
        BY <2>2, <2>3, <3>3, <4>1, <4>2 DEF CardsCall
      <4> QED BY <2>4, <3>1, <4>3
    <3> QED BY <2>5, <3>2, <3>3
  <2>6. CASE /\ c.kind = "delete"
             /\ page' = [page EXCEPT !.table = [page.table EXCEPT ![c.policy] = "gone"],
                                     !.calls[s].served = TRUE]
    <3>1. /\ page'.table = [page.table EXCEPT ![c.policy] = "gone"]
          /\ page'.calls = Filled(page.calls, s, acted)
      BY <1>0, <2>6 DEF Filled
    <3>2. Settled(page)
      BY <2>1, <2>6 DEF CardsCall
    <3>3. Following(page')
      BY <1>0, <2>2, <3>1, <3>2 DEF Settled, Following
    <3> HIDE DEF c, acted, read
    <3>4. CardsCall(acted, page')
      BY <2>2, <2>3, <2>6, <3>3 DEF CardsCall
    <3> QED BY <2>4, <3>1, <3>4
  <2>7. CASE /\ c.kind = "create"
             /\ \E p \in Policies :
                  /\ page.table[p] = None
                  /\ page' = [page EXCEPT !.table = [page.table EXCEPT ![p] = c.form.enabled],
                                          !.calls[s].served = TRUE]
    <3>1. PICK p \in Policies :
            /\ page.table[p] = None
            /\ page'.table = [page.table EXCEPT ![p] = c.form.enabled]
            /\ page'.calls = Filled(page.calls, s, acted)
      BY <1>0, <2>7 DEF Filled
    <3>2. Settled(page)
      BY <2>1, <2>7 DEF CardsCall
    <3>3. Settled(page')
      BY <1>0, <2>2, <3>1, <3>2 DEF Settled
    <3> HIDE DEF c, acted, read
    <3>4. CardsCall(acted, page')
      BY <2>2, <2>3, <2>7, <3>3 DEF CardsCall
    <3> QED BY <2>4, <3>1, <3>4
  <2>8. CASE /\ c.kind \in {"evaluate", "samples"}
             /\ page' = [page EXCEPT !.table = page.table, !.calls[s].served = TRUE]
    <3>1. page'.table = page.table /\ page'.calls = Filled(page.calls, s, acted)
      BY <1>0, <2>8 DEF Filled
    <3>2. Settled(page')
      BY <2>1, <2>2, <2>8, <3>1 DEF CardsCall, Settled
    <3> HIDE DEF c, acted, read
    <3>3. CardsCall(acted, page')
      BY <2>2, <2>3, <2>8, <3>2 DEF CardsCall
    <3> QED BY <2>4, <3>1, <3>3
  <2>9. CASE c.kind = "list" /\ page' = [page EXCEPT !.calls[s] = read]
    <3>1. page'.table = page.table /\ page'.calls = Filled(page.calls, s, read)
      BY <1>0, <2>9 DEF Filled
    <3>2. Following(page')
      BY <2>1, <2>2, <2>9, <3>1 DEF CardsCall, Following
    <3>3. \A p \in Policies : A!Listing(page.table, c.cluster)[p] # None =>
            /\ A!Listing(page.table, c.cluster)[p] = page.table[p]
            /\ A!Listing(page.table, c.cluster)[p] # "gone"
      BY DEF A!Listing
    <3> HIDE DEF c, acted, read
    <3>4. CardsCall(read, page')
      BY <2>2, <2>3, <2>9, <3>1, <3>2, <3>3 DEF CardsCall
    <3> QED BY <2>4, <3>1, <3>4
  <2> QED BY <1>22, <2>5, <2>6, <2>7, <2>8, <2>9 DEF A!Serve
<1>23. ASSUME NEW s \in Slots, A!Deliver(s) PROVE CardsSteady'
  <2> DEFINE c == page.calls[s]
             done == [page EXCEPT !.calls = A!Done(@, s)]
             again == A!Request("list", None, None, c.cluster)
             reload == [page EXCEPT !.calls[s] = again]
  <2>1. c # A!Idle /\ c.served = TRUE /\ CardsCall(c, page) /\ Alone(page.calls, s)
    BY <1>6, <1>23 DEF A!Deliver, CardsCall
  <2>2. /\ DOMAIN done = DOMAIN page /\ done.calls = Filled(page.calls, s, Empty)
        /\ done.table = page.table /\ done.listed = page.listed /\ done.card = page.card
    BY <1>0 DEF A!Done, A!Idle, Empty, Filled
  <2>3. /\ DOMAIN reload = DOMAIN page /\ reload.calls = Filled(page.calls, s, again)
        /\ reload.table = page.table /\ reload.listed = page.listed /\ reload.card = page.card
    BY <1>0 DEF Filled
  <2>4. /\ DOMAIN again = {"kind", "policy", "form", "cluster", "served", "answer"}
        /\ again.kind = "list" /\ again.served = FALSE
    BY DEF A!Request
  <2>5. Filled(page.calls, s, Empty) = Unused
    BY <2>1, AloneFilled
  <2> HIDE DEF done, again, reload
  <2>6. CASE c.kind = "list" /\ page' = A!Shown(done, c.answer)
    <3>1. /\ page'.calls = Unused /\ page'.table = page.table
          /\ page'.listed = c.answer
          /\ \A q \in Policies : page'.card[q] =
               IF c.answer[q] = None \/ page.listed[q] = None THEN c.answer[q] ELSE page.card[q]
      BY <1>0, <2>2, <2>5, <2>6 DEF A!Shown
    <3>2. /\ Following(page)
          /\ \A p \in Policies : c.answer[p] # None =>
               c.answer[p] = page.table[p] /\ c.answer[p] # "gone"
      BY <2>1, <2>6 DEF CardsCall
    <3>3. Settled(page')
      BY <3>1, <3>2 DEF Settled, Following
    <3> QED BY <3>1, <3>3 DEF CardsSteady, Resting, Unused, Empty
  <2>7. CASE /\ c.kind \in {"evaluate", "samples"}
             /\ \/ page' = [done EXCEPT !.result = TRUE]
                \/ page' = [done EXCEPT !.samples = c.policy]
    <3>1. /\ page'.calls = Unused /\ page'.table = page.table
          /\ page'.listed = page.listed /\ page'.card = page.card
      BY <1>0, <2>2, <2>5, <2>7
    <3>2. Settled(page')
      BY <2>1, <2>7, <3>1 DEF CardsCall, Settled
    <3> QED BY <3>1, <3>2 DEF CardsSteady, Resting, Unused, Empty
  <2>8. Following(page)
    <3>1. Settled(page) => Following(page)
      BY DEF Settled, Following
    <3>2. CASE c.kind \in {"delete", "toggle", "list"}
      BY <2>1, <3>2 DEF CardsCall
    <3>3. CASE c.kind \notin {"delete", "toggle", "list"}
      BY <2>1, <3>1, <3>3 DEF CardsCall
    <3> QED BY <3>2, <3>3
  <2>9. CASE c.kind \in {"delete", "toggle"} /\ page' = reload
    <3>1. Following(page')
      BY <2>3, <2>8, <2>9 DEF Following
    <3>2. CardsCall(again, page')
      BY <2>4, <3>1 DEF CardsCall
    <3> QED BY <1>8, <2>1, <2>3, <2>9, <3>2
  <2>10. CASE page' = [reload EXCEPT !.editor = A!Closed]
    <3>1. /\ page'.calls = Filled(page.calls, s, again) /\ page'.table = page.table
          /\ page'.listed = page.listed /\ page'.card = page.card
      BY <1>0, <2>3, <2>10
    <3>2. Following(page')
      BY <2>8, <3>1 DEF Following
    <3>3. CardsCall(again, page')
      BY <2>4, <3>2 DEF CardsCall
    <3> QED BY <1>8, <2>1, <3>1, <3>3
  <2> QED BY <1>23, <2>6, <2>7, <2>9, <2>10 DEF A!Deliver, done, again, reload
<1>24. ASSUME NEW s \in Slots, A!Fail(s) PROVE CardsSteady'
  BY <1>0, <1>24 DEF A!Fail
<1> QED
  BY <1>9, <1>10, <1>11, <1>15, <1>17, <1>18, <1>19, <1>20, <1>21, <1>22,
     <1>23, <1>24 DEF A!Next

LEMMA CardsStep ==
  ASSUME CardsInv, A!Next
  PROVE  CardsInv'
<1>1. EditorInv' /\ Shaped'
  BY EditorStep, ShapedStep DEF CardsInv
<1> QED BY <1>1, SteadyStep DEF CardsInv

(* AutoscalingPanel.tsx, PolicyCard.tsx: with no request in flight every   *)
(* card has the switch of its policy, although nothing brings a card up to *)
(* date, through any sequence of switches, edits, deletions, selections    *)
(* and loads that neither overlap nor fail.                                *)
THEOREM CardsAgreeHolds == Spec => []CardsAgree
<1> DEFINE I == route = "autoscaling" => CardsInv
<1>1. Init => I
  BY DEF Init
<1>2. I /\ [Next]_vars => I'
  <2> SUFFICES ASSUME I, [Next]_vars PROVE I'
    OBVIOUS
  <2>1. CASE UNCHANGED <<route, page>>
    BY <2>1 DEF CardsInv, EditorInv, SavesFit, SaveFits, A!Matches, Shaped, CardsSteady,
       Resting, Settled, Following, CardsCall, Alone, Filled, Unused, Empty
  <2>2. CASE Opens
    BY <2>2, CardsMounted DEF Opens, Mounts
  <2>3. CASE route' = route /\ PageStep
    BY <2>3, CardsStep DEF PageStep
  <2> QED BY <2>1, <2>2, <2>3, StepKinds
<1>3. I => CardsAgree
  <2> SUFFICES ASSUME CardsInv, ~page.mixed, page.calls = A!NoCalls, NEW p \in A!Cards
               PROVE  page.card[p] = page.table[p]
    BY DEF CardsAgree, A!CardsAgree
  <2>1. \A s \in Slots : page.calls[s].kind = "idle"
    BY DEF A!NoCalls, A!Idle
  <2>2. Settled(page)
    BY <2>1 DEF CardsInv, CardsSteady, Resting, CardsCall
  <2>3. p \in Policies /\ page.listed[p] # None
    BY DEF A!Cards
  <2> QED BY <2>2, <2>3 DEF Settled
<1> QED BY <1>1, <1>2, <1>3, PTL DEF Spec
=============================================================================
