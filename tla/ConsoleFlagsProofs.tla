-------------------------- MODULE ConsoleFlagsProofs --------------------------
(***************************************************************************)
(* The busy flags of the console's pages, for any number of requests in    *)
(* flight: what a flag guards is done once at a time, and no flag is on    *)
(* without a request that ends it.                                         *)
(*                                                                         *)
(* There are two kinds of flags.  One is on exactly while one request of   *)
(* its kinds is in flight, because the action that sends it is disabled    *)
(* until then; another is shared by requests that overlap, and goes off    *)
(* with the first of them.  An action of a page changes one slot, so a     *)
(* lemma for either kind of flag says what such a change may be.           *)
(***************************************************************************)
EXTENDS ConsoleProofs, FiniteSetTheorems

Waiting(calls, kinds) == {s \in Slots : calls[s].kind \in kinds}

WellFormed(calls) == DOMAIN calls = Slots /\ \A s \in Slots : "kind" \in DOMAIN calls[s]

(* The flag is on exactly while one request of the kinds is in flight.     *)
Exactly(flag, calls, kinds) ==
  /\ flag \in BOOLEAN
  /\ flag = TRUE => \E s \in Slots : Waiting(calls, kinds) = {s}
  /\ flag = FALSE => Waiting(calls, kinds) = {}

(* The flag is off unless such a request is in flight.                     *)
Covered(flag, calls, kinds) ==
  /\ flag \in BOOLEAN
  /\ flag = TRUE => Waiting(calls, kinds) # {}

Filled(calls, s, c) == [calls EXCEPT ![s] = c]

LEMMA FilledSlot ==
  ASSUME NEW calls, WellFormed(calls), NEW s \in Slots, NEW c, "kind" \in DOMAIN c,
         NEW kinds
  PROVE  /\ WellFormed(Filled(calls, s, c))
         /\ c.kind \in kinds =>
              Waiting(Filled(calls, s, c), kinds) = Waiting(calls, kinds) \cup {s}
         /\ c.kind \notin kinds =>
              Waiting(Filled(calls, s, c), kinds) = Waiting(calls, kinds) \ {s}
BY DEF WellFormed, Waiting, Filled

(* A guarded request is sent, goes on to its next await, or ends.          *)
LEMMA ExactlyStep ==
  ASSUME NEW calls, WellFormed(calls), NEW s \in Slots, NEW c, "kind" \in DOMAIN c,
         NEW kinds, NEW flag, Exactly(flag, calls, kinds), NEW next \in BOOLEAN,
         \/ (c.kind \in kinds <=> calls[s].kind \in kinds) /\ next = flag
         \/ calls[s].kind \notin kinds /\ c.kind \in kinds /\ flag = FALSE /\ next = TRUE
         \/ calls[s].kind \in kinds /\ c.kind \notin kinds /\ next = FALSE
  PROVE  Exactly(next, Filled(calls, s, c), kinds)
<1> USE FilledSlot DEF Exactly
<1>1. CASE (c.kind \in kinds <=> calls[s].kind \in kinds) /\ next = flag
  <2>1. Waiting(Filled(calls, s, c), kinds) = Waiting(calls, kinds)
    BY <1>1 DEF Waiting
  <2> QED BY <1>1, <2>1
<1>2. CASE calls[s].kind \notin kinds /\ c.kind \in kinds /\ flag = FALSE /\ next = TRUE
  <2>1. Waiting(Filled(calls, s, c), kinds) = {s}
    BY <1>2
  <2> QED BY <1>2, <2>1
<1>3. CASE calls[s].kind \in kinds /\ c.kind \notin kinds /\ next = FALSE
  <2>1. s \in Waiting(calls, kinds)
    BY <1>3 DEF Waiting
  <2>2. Waiting(calls, kinds) = {s}
    BY <2>1
  <2> QED BY <1>3, <2>2
<1> QED BY <1>1, <1>2, <1>3

(* A shared flag is on after a step only with a request behind it.         *)
LEMMA CoveredStep ==
  ASSUME NEW calls, WellFormed(calls), NEW s \in Slots, NEW c, "kind" \in DOMAIN c,
         NEW kinds, NEW flag, Covered(flag, calls, kinds), NEW next \in BOOLEAN,
         next = TRUE => c.kind \in kinds \/ (flag = TRUE /\ calls[s].kind \notin kinds)
  PROVE  Covered(next, Filled(calls, s, c), kinds)
<1>1. CASE c.kind \in kinds
  BY <1>1, FilledSlot DEF Covered
<1>2. CASE c.kind \notin kinds
  <2>1. calls[s].kind \notin kinds => Waiting(calls, kinds) \ {s} = Waiting(calls, kinds)
    BY DEF Waiting
  <2> QED BY <1>2, <2>1, FilledSlot DEF Covered
<1> QED BY <1>1, <1>2

(* At most one request behind an exact flag.                               *)
LEMMA ExactlyOne ==
  ASSUME NEW flag, NEW calls, NEW kinds, Exactly(flag, calls, kinds)
  PROVE  Cardinality(Waiting(calls, kinds)) = IF flag THEN 1 ELSE 0
BY FS_EmptySet, FS_Singleton DEF Exactly

-----------------------------------------------------------------------------
(* Requests of a page are sent into an empty slot, and answered out of it. *)
Empty == [kind |-> "idle"]
Unused == [s \in Slots |-> Empty]

LEMMA UnusedWaits ==
  ASSUME NEW kinds, "idle" \notin kinds
  PROVE  WellFormed(Unused) /\ Waiting(Unused, kinds) = {}
BY DEF WellFormed, Waiting, Unused, Empty

-----------------------------------------------------------------------------
(* What the requests of a page are to its flags: one exact, one shared.  A *)
(* page without one of them has FALSE and no kinds in its place.           *)
Flagged(calls, exact, kinds, shared, loads) ==
  /\ WellFormed(calls)
  /\ Exactly(exact, calls, kinds)
  /\ Covered(shared, calls, loads)

(* How a flag may change with the kind in a slot.                          *)
Follows(flag, next, old, new, kinds) ==
  /\ next \in BOOLEAN
  /\ \/ (new \in kinds <=> old \in kinds) /\ next = flag
     \/ old \notin kinds /\ new \in kinds /\ flag = FALSE /\ next = TRUE
     \/ old \in kinds /\ new \notin kinds /\ next = FALSE

Backed(flag, next, old, new, kinds) ==
  /\ next \in BOOLEAN
  /\ next = TRUE => new \in kinds \/ (flag = TRUE /\ old \notin kinds)

LEMMA FlaggedStep ==
  ASSUME NEW calls, NEW exact, NEW kinds, NEW shared, NEW loads,
         Flagged(calls, exact, kinds, shared, loads),
         NEW s \in Slots, NEW c, "kind" \in DOMAIN c, NEW exact2, NEW shared2,
         Follows(exact, exact2, calls[s].kind, c.kind, kinds),
         Backed(shared, shared2, calls[s].kind, c.kind, loads)
  PROVE  Flagged(Filled(calls, s, c), exact2, kinds, shared2, loads)
<1>1. WellFormed(Filled(calls, s, c))
  BY FilledSlot DEF Flagged
<1>2. Exactly(exact2, Filled(calls, s, c), kinds)
  BY ExactlyStep DEF Flagged, Follows
<1>3. Covered(shared2, Filled(calls, s, c), loads)
  BY CoveredStep DEF Flagged, Backed
<1> QED BY <1>1, <1>2, <1>3 DEF Flagged

LEMMA FlaggedUnused ==
  ASSUME NEW kinds, NEW loads, "idle" \notin kinds, "idle" \notin loads
  PROVE  Flagged(Unused, FALSE, kinds, FALSE, loads)
BY UnusedWaits DEF Flagged, Exactly, Covered

-----------------------------------------------------------------------------
(* ClustersPanel.                                                          *)
ClustersInv ==
  /\ {"calls", "saving", "loading"} \subseteq DOMAIN page
  /\ Flagged(page.calls, page.saving, C!Saves, page.loading, C!Loads)

LEMMA ClustersFilled ==
  ASSUME ClustersInv, DOMAIN page' = DOMAIN page,
         NEW s \in Slots, NEW c, "kind" \in DOMAIN c,
         page'.calls = Filled(page.calls, s, c),
         Follows(page.saving, page'.saving, page.calls[s].kind, c.kind, C!Saves),
         Backed(page.loading, page'.loading, page.calls[s].kind, c.kind, C!Loads)
  PROVE  ClustersInv'
<1>1. Flagged(page'.calls, page'.saving, C!Saves, page'.loading, C!Loads)
  BY FlaggedStep DEF ClustersInv
<1> QED BY <1>1 DEF ClustersInv, C!Saves, C!Loads

LEMMA ClustersMounted ==
  ASSUME page' \in C!Mounts
  PROVE  ClustersInv'
<1> DEFINE s == CHOOSE t \in Slots : Unused[t] = Empty
<1>1. s \in Slots /\ Unused[s] = Empty
  BY ConsoleAssumption DEF Unused
<1>2. PICK table : page' = C!Mounted(table)
  BY DEF C!Mounts
<1>3. /\ {"calls", "saving", "loading"} \subseteq DOMAIN page'
      /\ page'.saving = FALSE /\ page'.loading = TRUE
      /\ page'.calls = C!Sent(C!NoCalls, C!List)
  BY <1>2 DEF C!Mounted
<1>4. page'.calls = Filled(Unused, s, C!List)
  BY <1>3 DEF C!Sent, C!NoCalls, C!Idle, Unused, Empty, Filled
<1> HIDE DEF s
<1>5. "kind" \in DOMAIN C!List /\ C!List.kind = "list" /\ Unused[s].kind = "idle"
  BY <1>1 DEF C!List, C!Request, Empty
<1>6. Flagged(Unused, FALSE, C!Saves, FALSE, C!Loads)
  BY FlaggedUnused DEF C!Saves, C!Loads
<1>7. Follows(FALSE, FALSE, "idle", "list", C!Saves) /\ Backed(FALSE, TRUE, "idle", "list", C!Loads)
  BY DEF Follows, Backed, C!Saves, C!Loads
<1>8. Flagged(page'.calls, FALSE, C!Saves, TRUE, C!Loads)
  BY <1>1, <1>4, <1>5, <1>6, <1>7, FlaggedStep
<1> QED BY <1>3, <1>8 DEF ClustersInv, C!Saves, C!Loads

LEMMA ClustersStep ==
  ASSUME ClustersInv, C!Next
  PROVE  ClustersInv'
<1> USE DEF C!Saves, C!Loads
<1>0. /\ {"calls", "saving", "loading"} \subseteq DOMAIN page
      /\ page.saving \in BOOLEAN /\ page.loading \in BOOLEAN
      /\ \A s \in Slots : "kind" \in DOMAIN page.calls[s]
      /\ DOMAIN page.calls = Slots
  BY DEF ClustersInv, Flagged, Exactly, Covered, WellFormed
<1>1. ASSUME DOMAIN page' = DOMAIN page, page'.calls = page.calls,
             page'.saving = page.saving, page'.loading = page.loading
      PROVE  ClustersInv'
  BY <1>1 DEF ClustersInv
<1>2. ASSUME NEW key \in C!Filters, C!FilterByCard(key) \/ C!SelectFilter(key)
      PROVE  ClustersInv'
  BY <1>0, <1>1, <1>2 DEF C!FilterByCard, C!SelectFilter
<1>3. ASSUME NEW c \in Clusters, C!StartEditing(c) PROVE ClustersInv'
  BY <1>0, <1>1, <1>3 DEF C!StartEditing
<1>4. ASSUME NEW status \in Statuses, C!ChangeForm(status) PROVE ClustersInv'
  BY <1>0, <1>1, <1>4 DEF C!ChangeForm
<1>5. CASE C!CancelEditing
  BY <1>0, <1>1, <1>5 DEF C!CancelEditing
<1>6. ASSUME C!MayStart, NEW c, "kind" \in DOMAIN c, NEW saving, NEW loading,
             DOMAIN page' = DOMAIN page, page'.calls = C!Sent(page.calls, c),
             page'.saving = saving, page'.loading = loading,
             Follows(page.saving, saving, "idle", c.kind, C!Saves),
             Backed(page.loading, loading, "idle", c.kind, C!Loads)
      PROVE  ClustersInv'
  <2> DEFINE s == CHOOSE t \in Slots : page.calls[t] = C!Idle
  <2>1. s \in Slots /\ page.calls[s] = C!Idle
    BY <1>6 DEF C!MayStart, C!HasRoom
  <2>2. page'.calls = Filled(page.calls, s, c)
    BY <1>6 DEF C!Sent, Filled
  <2> HIDE DEF s
  <2>3. page.calls[s].kind = "idle"
    BY <2>1 DEF C!Idle
  <2> QED BY <1>6, <2>1, <2>2, <2>3, ClustersFilled
<1>7. CASE C!Refresh
  <2>1. /\ C!MayStart
        /\ DOMAIN page' = DOMAIN page /\ page'.calls = C!Sent(page.calls, C!List)
        /\ page'.saving = page.saving /\ page'.loading = TRUE
    BY <1>0, <1>7 DEF C!Refresh, C!Started
  <2>2. "kind" \in DOMAIN C!List /\ C!List.kind = "list"
    BY DEF C!List, C!Request
  <2> QED BY <1>0, <1>6, <2>1, <2>2 DEF Follows, Backed
<1>8. CASE C!Save
  <2> DEFINE call == C!Request("update", page.editor.id, page.editor.status, None)
  <2>1. /\ C!MayStart /\ page.saving = FALSE
        /\ DOMAIN page' = DOMAIN page /\ page'.calls = C!Sent(page.calls, call)
        /\ page'.saving = TRUE /\ page'.loading = page.loading
    BY <1>0, <1>8 DEF C!Save, C!Started
  <2>2. "kind" \in DOMAIN call /\ call.kind = "update"
    BY DEF C!Request
  <2> HIDE DEF call
  <2> QED BY <1>0, <1>6, <2>1, <2>2 DEF Follows, Backed
<1>9. ASSUME NEW c \in Clusters, C!Delete(c) PROVE ClustersInv'
  <2> DEFINE call == C!Request("delete", c, None, page.editor.id)
  <2>1. /\ C!MayStart
        /\ DOMAIN page' = DOMAIN page /\ page'.calls = C!Sent(page.calls, call)
        /\ page'.saving = page.saving /\ page'.loading = page.loading
    BY <1>0, <1>9 DEF C!Delete, C!Started
  <2>2. "kind" \in DOMAIN call /\ call.kind = "delete"
    BY DEF C!Request
  <2> HIDE DEF call
  <2> QED BY <1>0, <1>6, <2>1, <2>2 DEF Follows, Backed
<1>10. ASSUME NEW s \in Slots, C!Serve(s) PROVE ClustersInv'
  <2> DEFINE acted == [page.calls[s] EXCEPT !.served = TRUE]
             read == [page.calls[s] EXCEPT !.served = TRUE, !.answer = page.table]
  <2>1. \A c \in {acted, read} : "kind" \in DOMAIN c /\ c.kind = page.calls[s].kind
    BY <1>0
  <2>2. /\ DOMAIN page' = DOMAIN page
        /\ page'.saving = page.saving /\ page'.loading = page.loading
        /\ \E c \in {acted, read} : page'.calls = Filled(page.calls, s, c)
    BY <1>0, <1>10 DEF C!Serve, Filled
  <2> HIDE DEF acted, read
  <2> QED BY <1>0, <2>1, <2>2, ClustersFilled DEF Follows, Backed
<1>11. ASSUME NEW s \in Slots, page.calls[s].kind \in C!Loads,
              DOMAIN page' = DOMAIN page, page'.calls = Filled(page.calls, s, Empty),
              page'.saving = IF page.calls[s].kind = "update reload" THEN FALSE ELSE page.saving,
              page'.loading = FALSE
       PROVE  ClustersInv'
  <2>1. "kind" \in DOMAIN Empty /\ Empty.kind = "idle"
    BY DEF Empty
  <2> QED BY <1>0, <1>11, <2>1, ClustersFilled DEF Follows, Backed
<1>12. ASSUME NEW s \in Slots, C!DeliverList(s) PROVE ClustersInv'
  <2> DEFINE got == [page EXCEPT !.listed = page.calls[s].answer]
  <2>1. DOMAIN got = DOMAIN page /\ got.calls = page.calls /\ got.saving = page.saving
    BY <1>0
  <2>2. page.calls[s].kind \in C!Loads /\ page' = C!Finished(got, s)
    BY <1>12 DEF C!DeliverList
  <2> HIDE DEF got
  <2>3. /\ DOMAIN page' = DOMAIN page /\ page'.calls = Filled(page.calls, s, Empty)
        /\ page'.saving = IF page.calls[s].kind = "update reload" THEN FALSE ELSE page.saving
        /\ page'.loading = FALSE
    BY <1>0, <2>1, <2>2 DEF C!Finished, C!Done, C!Idle, Empty, Filled
  <2> QED BY <1>11, <2>2, <2>3
<1>13. ASSUME NEW s \in Slots, C!DeliverChange(s) PROVE ClustersInv'
  <2> DEFINE c == [page.calls[s] EXCEPT !.kind = C!Reload[page.calls[s].kind], !.served = FALSE]
  <2>1. /\ page.calls[s].kind \in DOMAIN C!Reload
        /\ DOMAIN page' = DOMAIN page /\ page'.calls = Filled(page.calls, s, c)
        /\ page'.saving = page.saving /\ page'.loading = TRUE
    BY <1>0, <1>13 DEF C!DeliverChange, Filled
  <2>2. "kind" \in DOMAIN c /\ c.kind = C!Reload[page.calls[s].kind]
    BY <1>0
  <2> HIDE DEF c
  <2>3. DOMAIN C!Reload = {"update", "delete"}
    BY DEF C!Reload
  <2>4. C!Reload["update"] = "update reload" /\ C!Reload["delete"] = "delete reload"
    BY DEF C!Reload
  <2>5. \/ page.calls[s].kind = "update" /\ c.kind = "update reload"
        \/ page.calls[s].kind = "delete" /\ c.kind = "delete reload"
    BY <2>1, <2>2, <2>3, <2>4
  <2> QED BY <1>0, <2>1, <2>2, <2>5, ClustersFilled DEF Follows, Backed
<1>14. ASSUME NEW s \in Slots, C!Fail(s) PROVE ClustersInv'
  <2> DEFINE failed == [page EXCEPT !.failures = IF @ < MaxFailures THEN @ + 1 ELSE @,
                                    !.mixed = TRUE]
  <2>0. /\ DOMAIN failed = DOMAIN page /\ failed.calls = page.calls
        /\ failed.saving = page.saving /\ failed.loading = page.loading
    BY <1>0
  <2>1. CASE page.calls[s].kind \in C!Loads
    <3>1. page' = C!Finished(failed, s)
      BY <1>14, <2>1 DEF C!Fail
    <3> HIDE DEF failed
    <3>2. /\ DOMAIN page' = DOMAIN page /\ page'.calls = Filled(page.calls, s, Empty)
          /\ page'.saving = IF page.calls[s].kind = "update reload" THEN FALSE ELSE page.saving
          /\ page'.loading = FALSE
      BY <1>0, <2>0, <3>1 DEF C!Finished, C!Done, C!Idle, Empty, Filled
    <3> QED BY <1>11, <2>1, <3>2
  <2>2. CASE page.calls[s].kind \notin C!Loads
    <3>1. page' = [failed EXCEPT !.calls = C!Done(@, s),
                                 !.saving = @ /\ page.calls[s].kind # "update"]
      BY <1>14, <2>2 DEF C!Fail
    <3> HIDE DEF failed
    <3>2. /\ DOMAIN page' = DOMAIN page /\ page'.calls = Filled(page.calls, s, Empty)
          /\ page'.saving = IF page.calls[s].kind = "update" THEN FALSE ELSE page.saving
          /\ page'.loading = page.loading
      BY <1>0, <2>0, <3>1 DEF C!Done, C!Idle, Empty, Filled
    <3>3. "kind" \in DOMAIN Empty /\ Empty.kind = "idle"
      BY DEF Empty
    <3> QED BY <1>0, <2>2, <3>2, <3>3, ClustersFilled DEF Follows, Backed
  <2> QED BY <2>1, <2>2
<1> QED
  BY <1>2, <1>3, <1>4, <1>5, <1>7, <1>8, <1>9, <1>10, <1>12, <1>13, <1>14
  DEF C!Next, C!Deliver

-----------------------------------------------------------------------------
(* DeploymentsPanel.                                                       *)
DeploymentsInv ==
  /\ {"calls", "creating", "loading"} \subseteq DOMAIN page
  /\ Flagged(page.calls, page.creating, R!Starts, page.loading, R!Loads)

LEMMA DeploymentsFilled ==
  ASSUME DeploymentsInv, DOMAIN page' = DOMAIN page,
         NEW s \in Slots, NEW c, "kind" \in DOMAIN c,
         page'.calls = Filled(page.calls, s, c),
         Follows(page.creating, page'.creating, page.calls[s].kind, c.kind, R!Starts),
         Backed(page.loading, page'.loading, page.calls[s].kind, c.kind, R!Loads)
  PROVE  DeploymentsInv'
<1>1. Flagged(page'.calls, page'.creating, R!Starts, page'.loading, R!Loads)
  BY FlaggedStep DEF DeploymentsInv
<1> QED BY <1>1 DEF DeploymentsInv, R!Starts, R!Loads

LEMMA DeploymentsMounted ==
  ASSUME page' \in R!Mounts
  PROVE  DeploymentsInv'
<1>1. /\ {"calls", "creating", "loading"} \subseteq DOMAIN page'
      /\ page'.creating = FALSE /\ page'.loading = FALSE /\ page'.calls = Unused
  BY DEF R!Mounts, R!Mounted, R!NoCalls, R!Idle, Unused, Empty
<1>2. Flagged(Unused, FALSE, R!Starts, FALSE, R!Loads)
  BY FlaggedUnused DEF R!Starts, R!Loads
<1> QED BY <1>1, <1>2 DEF DeploymentsInv, R!Starts, R!Loads

LEMMA DeploymentsStep ==
  ASSUME DeploymentsInv, R!Next
  PROVE  DeploymentsInv'
<1> USE DEF R!Starts, R!Loads
<1>0. /\ {"calls", "creating", "loading"} \subseteq DOMAIN page
      /\ page.creating \in BOOLEAN /\ page.loading \in BOOLEAN
      /\ \A s \in Slots : "kind" \in DOMAIN page.calls[s]
      /\ DOMAIN page.calls = Slots
  BY DEF DeploymentsInv, Flagged, Exactly, Covered, WellFormed
<1>1. ASSUME DOMAIN page' = DOMAIN page, page'.calls = page.calls,
             page'.creating = page.creating, page'.loading = page.loading
      PROVE  DeploymentsInv'
  BY <1>1 DEF DeploymentsInv
<1>2. ASSUME R!MayStart, NEW c, "kind" \in DOMAIN c, NEW creating, NEW loading,
             DOMAIN page' = DOMAIN page, page'.calls = R!Sent(page.calls, c),
             page'.creating = creating, page'.loading = loading,
             Follows(page.creating, creating, "idle", c.kind, R!Starts),
             Backed(page.loading, loading, "idle", c.kind, R!Loads)
      PROVE  DeploymentsInv'
  <2> DEFINE s == CHOOSE t \in Slots : page.calls[t] = R!Idle
  <2>1. s \in Slots /\ page.calls[s] = R!Idle
    BY <1>2 DEF R!MayStart, R!HasRoom
  <2>2. page'.calls = Filled(page.calls, s, c)
    BY <1>2 DEF R!Sent, Filled
  <2> HIDE DEF s
  <2>3. page.calls[s].kind = "idle"
    BY <2>1 DEF R!Idle
  <2> QED BY <1>2, <2>1, <2>2, <2>3, DeploymentsFilled
<1>3. \A kind, cluster, id : /\ "kind" \in DOMAIN R!Request(kind, cluster, id)
                             /\ R!Request(kind, cluster, id).kind = kind
  BY DEF R!Request
<1>4. ASSUME NEW c \in Clusters \cup {None}, R!SelectCluster(c) PROVE DeploymentsInv'
  <2>1. CASE c = None
    BY <1>0, <1>1, <1>4, <2>1 DEF R!SelectCluster
  <2>2. CASE c # None
    <3> DEFINE call == R!Request("list", c, None)
    <3>1. /\ R!MayStart /\ DOMAIN page' = DOMAIN page
          /\ page'.calls = R!Sent(page.calls, call)
          /\ page'.creating = page.creating /\ page'.loading = TRUE
      BY <1>0, <1>4, <2>2 DEF R!SelectCluster, R!Started
    <3>2. "kind" \in DOMAIN call /\ call.kind = "list"
      BY <1>3
    <3> HIDE DEF call
    <3> QED BY <1>0, <1>2, <3>1, <3>2 DEF Follows, Backed
  <2> QED BY <2>1, <2>2
<1>5. CASE R!Refresh
  <2> DEFINE call == R!Request("list", page.selected, None)
  <2>1. /\ R!MayStart /\ DOMAIN page' = DOMAIN page
        /\ page'.calls = R!Sent(page.calls, call)
        /\ page'.creating = page.creating /\ page'.loading = TRUE
    BY <1>0, <1>5 DEF R!Refresh, R!Started
  <2>2. "kind" \in DOMAIN call /\ call.kind = "list"
    BY <1>3
  <2> HIDE DEF call
  <2> QED BY <1>0, <1>2, <2>1, <2>2 DEF Follows, Backed
<1>6. CASE R!Start
  <2> DEFINE call == R!Request("start", page.selected, None)
  <2>1. /\ R!MayStart /\ page.creating = FALSE /\ DOMAIN page' = DOMAIN page
        /\ page'.calls = R!Sent(page.calls, call)
        /\ page'.creating = TRUE /\ page'.loading = page.loading
    BY <1>0, <1>6 DEF R!Start, R!Started
  <2>2. "kind" \in DOMAIN call /\ call.kind = "start"
    BY <1>3
  <2> HIDE DEF call
  <2> QED BY <1>0, <1>2, <2>1, <2>2 DEF Follows, Backed
<1>7. ASSUME NEW d \in R!Ids, R!Rollback(d) \/ R!ViewLogs(d) PROVE DeploymentsInv'
  <2>1. \E kind \in {"rollback", "logs"} :
          /\ R!MayStart /\ DOMAIN page' = DOMAIN page
          /\ page'.calls = R!Sent(page.calls, R!Request(kind, page.selected, d))
          /\ page'.creating = page.creating /\ page'.loading = page.loading
    BY <1>0, <1>7 DEF R!Rollback, R!ViewLogs, R!Started
  <2> QED BY <1>0, <1>2, <1>3, <2>1 DEF Follows, Backed
<1>8. CASE R!CloseLogs \/ R!Restart
  BY <1>0, <1>1, <1>8 DEF R!CloseLogs, R!Restart
<1>9. ASSUME NEW d \in R!Ids, R!Roll(d) PROVE DeploymentsInv'
  BY <1>0, <1>1, <1>9 DEF R!Roll, R!Step, R!Issue, R!AutomaticRollback, R!Saved
<1>10. ASSUME NEW d \in R!Ids, R!LoseSave(d) PROVE DeploymentsInv'
  BY <1>0, <1>1, <1>10 DEF R!LoseSave, R!Lost
<1>11. ASSUME NEW s \in Slots, R!Serve(s) PROVE DeploymentsInv'
  <2> DEFINE served == [page EXCEPT !.calls[s].served = TRUE]
             acted == [page.calls[s] EXCEPT !.served = TRUE]
             read == [page.calls[s] EXCEPT !.served = TRUE, !.answer =
               [d \in R!Ids |-> IF page.db[d] # None /\ page.db[d].cluster = page.calls[s].cluster
                                THEN page.db[d] ELSE None]]
  <2>1. \A c \in {acted, read} : "kind" \in DOMAIN c /\ c.kind = page.calls[s].kind
    BY <1>0
  <2>2. /\ DOMAIN page' = DOMAIN page
        /\ page'.creating = page.creating /\ page'.loading = page.loading
        /\ \E c \in {acted, read} : page'.calls = Filled(page.calls, s, c)
    BY <1>0, <1>11 DEF R!Serve, Filled
  <2> HIDE DEF acted, read
  <2> QED BY <1>0, <2>1, <2>2, DeploymentsFilled DEF Follows, Backed
<1>12. ASSUME NEW s \in Slots, DOMAIN page' = DOMAIN page,
              page'.calls = Filled(page.calls, s, Empty),
              \/ /\ page.calls[s].kind \in R!Loads
                 /\ page'.loading = FALSE
                 /\ page'.creating = IF page.calls[s].kind = "start reload" THEN FALSE
                                     ELSE page.creating
              \/ /\ page.calls[s].kind \notin R!Loads
                 /\ page'.loading = page.loading
                 /\ page'.creating = IF page.calls[s].kind = "start" THEN FALSE
                                     ELSE page.creating
       PROVE  DeploymentsInv'
  <2>1. "kind" \in DOMAIN Empty /\ Empty.kind = "idle"
    BY DEF Empty
  <2> QED BY <1>0, <1>12, <2>1, DeploymentsFilled DEF Follows, Backed
<1>13. ASSUME NEW s \in Slots, R!DeliverList(s) PROVE DeploymentsInv'
  <2>1. /\ page.calls[s].kind \in R!Loads
        /\ DOMAIN page' = DOMAIN page /\ page'.calls = Filled(page.calls, s, Empty)
        /\ page'.loading = FALSE
        /\ page'.creating = IF page.calls[s].kind = "start reload" THEN FALSE ELSE page.creating
    BY <1>0, <1>13 DEF R!DeliverList, R!Arrived, R!InFlight, R!Done, R!Idle, Empty, Filled
  <2> QED BY <1>12, <2>1
<1>14. ASSUME NEW s \in Slots, R!DeliverChange(s) PROVE DeploymentsInv'
  <2> DEFINE c == [page.calls[s] EXCEPT !.kind = R!Reload[page.calls[s].kind], !.served = FALSE]
  <2>1. /\ page.calls[s].kind \in DOMAIN R!Reload
        /\ DOMAIN page' = DOMAIN page /\ page'.calls = Filled(page.calls, s, c)
        /\ page'.creating = page.creating /\ page'.loading = TRUE
    BY <1>0, <1>14 DEF R!DeliverChange, R!Arrived, R!InFlight, Filled
  <2>2. "kind" \in DOMAIN c /\ c.kind = R!Reload[page.calls[s].kind]
    BY <1>0
  <2> HIDE DEF c
  <2>3. DOMAIN R!Reload = {"start", "rollback"}
    BY DEF R!Reload
  <2>4. R!Reload["start"] = "start reload" /\ R!Reload["rollback"] = "rollback reload"
    BY DEF R!Reload
  <2>5. \/ page.calls[s].kind = "start" /\ c.kind = "start reload"
        \/ page.calls[s].kind = "rollback" /\ c.kind = "rollback reload"
    BY <2>1, <2>2, <2>3, <2>4
  <2> QED BY <1>0, <2>1, <2>2, <2>5, DeploymentsFilled DEF Follows, Backed
<1>15. ASSUME NEW s \in Slots, R!DeliverLogs(s) PROVE DeploymentsInv'
  <2>1. /\ page.calls[s].kind = "logs"
        /\ DOMAIN page' = DOMAIN page /\ page'.calls = Filled(page.calls, s, Empty)
        /\ page'.loading = page.loading /\ page'.creating = page.creating
    BY <1>0, <1>15 DEF R!DeliverLogs, R!Arrived, R!InFlight, R!Done, R!Idle, Empty, Filled
  <2> QED BY <1>12, <2>1
<1>16. ASSUME NEW s \in Slots, R!Fail(s) PROVE DeploymentsInv'
  <2>1. /\ DOMAIN page' = DOMAIN page /\ page'.calls = Filled(page.calls, s, Empty)
        /\ page'.loading = IF page.calls[s].kind \in R!Loads THEN FALSE ELSE page.loading
        /\ page'.creating = IF page.calls[s].kind \in R!Starts THEN FALSE ELSE page.creating
    BY <1>0, <1>16 DEF R!Fail, R!Done, R!Idle, Empty, Filled
  <2> QED BY <1>12, <2>1
<1> QED
  BY <1>4, <1>5, <1>6, <1>7, <1>8, <1>9, <1>10, <1>11, <1>13, <1>14, <1>15, <1>16
  DEF R!Next, R!Deliver

-----------------------------------------------------------------------------
(* LimiterRulesPanel.                                                      *)
RuleLoads == L!Loads \cup {"delete"}

RulesInv ==
  /\ {"calls", "submitting", "loading"} \subseteq DOMAIN page
  /\ Flagged(page.calls, page.submitting, L!Saves, page.loading, RuleLoads)

LEMMA RulesFilled ==
  ASSUME RulesInv, DOMAIN page' = DOMAIN page,
         NEW s \in Slots, NEW c, "kind" \in DOMAIN c,
         page'.calls = Filled(page.calls, s, c),
         Follows(page.submitting, page'.submitting, page.calls[s].kind, c.kind, L!Saves),
         Backed(page.loading, page'.loading, page.calls[s].kind, c.kind, RuleLoads)
  PROVE  RulesInv'
<1>1. Flagged(page'.calls, page'.submitting, L!Saves, page'.loading, RuleLoads)
  BY FlaggedStep DEF RulesInv
<1> QED BY <1>1 DEF RulesInv, L!Saves, L!Loads, RuleLoads

LEMMA RulesMounted ==
  ASSUME page' \in L!Mounts
  PROVE  RulesInv'
<1> DEFINE s == CHOOSE t \in Slots : Unused[t] = Empty
           call == L!Request("list", None, None, None)
<1>1. s \in Slots /\ Unused[s] = Empty
  BY ConsoleAssumption DEF Unused
<1>2. PICK rules : page' = L!Mounted(rules)
  BY DEF L!Mounts
<1>3. /\ {"calls", "submitting", "loading"} \subseteq DOMAIN page'
      /\ page'.submitting = FALSE /\ page'.loading = TRUE
      /\ page'.calls = L!Sent(L!NoCalls, call)
  BY <1>2 DEF L!Mounted
<1>4. page'.calls = Filled(Unused, s, call)
  BY <1>3 DEF L!Sent, L!NoCalls, L!Idle, Unused, Empty, Filled
<1> HIDE DEF s
<1>5. "kind" \in DOMAIN call /\ call.kind = "list" /\ Unused[s].kind = "idle"
  BY <1>1 DEF L!Request, Empty
<1> HIDE DEF call
<1>6. Flagged(Unused, FALSE, L!Saves, FALSE, RuleLoads)
  BY FlaggedUnused DEF L!Saves, L!Loads, RuleLoads
<1>7. /\ Follows(FALSE, FALSE, "idle", "list", L!Saves)
      /\ Backed(FALSE, TRUE, "idle", "list", RuleLoads)
  BY DEF Follows, Backed, L!Saves, L!Loads, RuleLoads
<1>8. Flagged(page'.calls, FALSE, L!Saves, TRUE, RuleLoads)
  BY <1>1, <1>4, <1>5, <1>6, <1>7, FlaggedStep
<1> QED BY <1>3, <1>8 DEF RulesInv, L!Saves, L!Loads, RuleLoads

LEMMA RulesStep ==
  ASSUME RulesInv, L!Next
  PROVE  RulesInv'
<1> USE DEF L!Saves, L!Loads, RuleLoads
<1>0. /\ {"calls", "submitting", "loading"} \subseteq DOMAIN page
      /\ page.submitting \in BOOLEAN /\ page.loading \in BOOLEAN
      /\ \A s \in Slots : "kind" \in DOMAIN page.calls[s]
      /\ DOMAIN page.calls = Slots
  BY DEF RulesInv, Flagged, Exactly, Covered, WellFormed
<1>1. ASSUME DOMAIN page' = DOMAIN page, page'.calls = page.calls,
             page'.submitting = page.submitting, page'.loading = page.loading
      PROVE  RulesInv'
  BY <1>1 DEF RulesInv
<1>2. ASSUME L!MayStart, NEW c, "kind" \in DOMAIN c, NEW submitting, NEW loading,
             DOMAIN page' = DOMAIN page, page'.calls = L!Sent(page.calls, c),
             page'.submitting = submitting, page'.loading = loading,
             Follows(page.submitting, submitting, "idle", c.kind, L!Saves),
             Backed(page.loading, loading, "idle", c.kind, RuleLoads)
      PROVE  RulesInv'
  <2> DEFINE s == CHOOSE t \in Slots : page.calls[t] = L!Idle
  <2>1. s \in Slots /\ page.calls[s] = L!Idle
    BY <1>2 DEF L!MayStart, L!HasRoom
  <2>2. page'.calls = Filled(page.calls, s, c)
    BY <1>2 DEF L!Sent, Filled
  <2> HIDE DEF s
  <2>3. page.calls[s].kind = "idle"
    BY <2>1 DEF L!Idle
  <2> QED BY <1>2, <2>1, <2>2, <2>3, RulesFilled
<1>3. \A kind, key, form, filter :
        /\ "kind" \in DOMAIN L!Request(kind, key, form, filter)
        /\ L!Request(kind, key, form, filter).kind = kind
  BY DEF L!Request
<1>4. CASE L!Refresh
  <2> DEFINE call == L!Request("list", None, None, page.filter)
  <2>1. /\ L!MayStart /\ DOMAIN page' = DOMAIN page
        /\ page'.calls = L!Sent(page.calls, call)
        /\ page'.submitting = page.submitting /\ page'.loading = TRUE
    BY <1>0, <1>4 DEF L!Refresh, L!Started
  <2>2. "kind" \in DOMAIN call /\ call.kind = "list"
    BY <1>3
  <2> HIDE DEF call
  <2> QED BY <1>0, <1>2, <2>1, <2>2 DEF Follows, Backed
<1>5. ASSUME NEW k \in L!Keys, L!Delete(k) PROVE RulesInv'
  <2> DEFINE call == L!Request("delete", k, None, page.filter)
  <2>1. /\ L!MayStart /\ DOMAIN page' = DOMAIN page
        /\ page'.calls = L!Sent(page.calls, call)
        /\ page'.submitting = page.submitting /\ page'.loading = TRUE
    BY <1>0, <1>5 DEF L!Delete, L!Started
  <2>2. "kind" \in DOMAIN call /\ call.kind = "delete"
    BY <1>3
  <2> HIDE DEF call
  <2> QED BY <1>0, <1>2, <2>1, <2>2 DEF Follows, Backed
<1>6. CASE L!Submit
  <2> DEFINE call == L!Request("save", None, page.form, page.filter)
  <2>1. /\ L!MayStart /\ page.submitting = FALSE /\ DOMAIN page' = DOMAIN page
        /\ page'.calls = L!Sent(page.calls, call)
        /\ page'.submitting = TRUE /\ page'.loading = page.loading
    BY <1>0, <1>6 DEF L!Submit, L!Started
  <2>2. "kind" \in DOMAIN call /\ call.kind = "save"
    BY <1>3
  <2> HIDE DEF call
  <2> QED BY <1>0, <1>2, <2>1, <2>2 DEF Follows, Backed
<1>7. CASE L!OpenCreate \/ L!CloseModal
  BY <1>0, <1>1, <1>7 DEF L!OpenCreate, L!CloseModal
<1>8. ASSUME NEW name, L!SetFilter(name) PROVE RulesInv'
  BY <1>0, <1>1, <1>8 DEF L!SetFilter
<1>9. ASSUME NEW k \in L!Keys, L!OpenEdit(k) PROVE RulesInv'
  BY <1>0, <1>1, <1>9 DEF L!OpenEdit
<1>10. ASSUME NEW x, L!SetName(x) \/ L!SetScope(x) \/ L!SetScopeId(x) \/ L!SetFields(x)
       PROVE  RulesInv'
  BY <1>0, <1>1, <1>10 DEF L!SetName, L!SetScope, L!SetScopeId, L!SetFields, L!Change
<1>11. ASSUME NEW s \in Slots, L!Serve(s) PROVE RulesInv'
  <2> DEFINE acted == [page.calls[s] EXCEPT !.served = TRUE]
             read == [page.calls[s] EXCEPT !.served = TRUE,
                !.answer = [k \in L!Keys |->
                   IF page.calls[s].filter \in {None, k.name} THEN page.rules[k] ELSE {}]]
  <2>1. \A c \in {acted, read} : "kind" \in DOMAIN c /\ c.kind = page.calls[s].kind
    BY <1>0
  <2>2. /\ DOMAIN page' = DOMAIN page
        /\ page'.submitting = page.submitting /\ page'.loading = page.loading
        /\ \E c \in {acted, read} : page'.calls = Filled(page.calls, s, c)
    BY <1>0, <1>11 DEF L!Serve, Filled
  <2> HIDE DEF acted, read
  <2> QED BY <1>0, <2>1, <2>2, RulesFilled DEF Follows, Backed
<1>12. ASSUME NEW s \in Slots, page.calls[s].kind \in L!Loads,
              DOMAIN page' = DOMAIN page, page'.calls = Filled(page.calls, s, Empty),
              page'.submitting = IF page.calls[s].kind = "save reload" THEN FALSE
                                 ELSE page.submitting,
              page'.loading = FALSE
       PROVE  RulesInv'
  <2>1. "kind" \in DOMAIN Empty /\ Empty.kind = "idle"
    BY DEF Empty
  <2> QED BY <1>0, <1>12, <2>1, RulesFilled DEF Follows, Backed
<1>13. ASSUME NEW s \in Slots, L!DeliverList(s) PROVE RulesInv'
  <2> DEFINE got == [page EXCEPT !.items = page.calls[s].answer]
  <2>1. DOMAIN got = DOMAIN page /\ got.calls = page.calls /\ got.submitting = page.submitting
    BY <1>0
  <2>2. page.calls[s].kind \in L!Loads /\ page' = L!Finished(got, s)
    BY <1>13 DEF L!DeliverList
  <2> HIDE DEF got
  <2>3. /\ DOMAIN page' = DOMAIN page /\ page'.calls = Filled(page.calls, s, Empty)
        /\ page'.submitting = IF page.calls[s].kind = "save reload" THEN FALSE
                              ELSE page.submitting
        /\ page'.loading = FALSE
    BY <1>0, <2>1, <2>2 DEF L!Finished, L!Done, L!Idle, Empty, Filled
  <2> QED BY <1>12, <2>2, <2>3
<1>14. ASSUME NEW s \in Slots, L!DeliverChange(s) PROVE RulesInv'
  <2> DEFINE c == [page.calls[s] EXCEPT !.kind = L!Reload[page.calls[s].kind], !.served = FALSE]
  <2>1. /\ page.calls[s].kind \in DOMAIN L!Reload
        /\ DOMAIN page' = DOMAIN page /\ page'.calls = Filled(page.calls, s, c)
        /\ page'.submitting = page.submitting /\ page'.loading = TRUE
    BY <1>0, <1>14 DEF L!DeliverChange, Filled
  <2>2. "kind" \in DOMAIN c /\ c.kind = L!Reload[page.calls[s].kind]
    BY <1>0
  <2> HIDE DEF c
  <2>3. DOMAIN L!Reload = {"save", "delete"}
    BY DEF L!Reload
  <2>4. L!Reload["save"] = "save reload" /\ L!Reload["delete"] = "delete reload"
    BY DEF L!Reload
  <2>5. \/ page.calls[s].kind = "save" /\ c.kind = "save reload"
        \/ page.calls[s].kind = "delete" /\ c.kind = "delete reload"
    BY <2>1, <2>2, <2>3, <2>4
  <2> QED BY <1>0, <2>1, <2>2, <2>5, RulesFilled DEF Follows, Backed
<1>15. ASSUME NEW s \in Slots, L!Fail(s) PROVE RulesInv'
  <2> DEFINE failed == [page EXCEPT !.failures = IF @ < MaxFailures THEN @ + 1 ELSE @]
  <2>0. /\ DOMAIN failed = DOMAIN page /\ failed.calls = page.calls
        /\ failed.submitting = page.submitting /\ failed.loading = page.loading
    BY <1>0
  <2>1. CASE page.calls[s].kind \in L!Loads
    <3>1. page' = L!Finished(failed, s)
      BY <1>15, <2>1 DEF L!Fail
    <3> HIDE DEF failed
    <3>2. /\ DOMAIN page' = DOMAIN page /\ page'.calls = Filled(page.calls, s, Empty)
          /\ page'.submitting = IF page.calls[s].kind = "save reload" THEN FALSE
                                ELSE page.submitting
          /\ page'.loading = FALSE
      BY <1>0, <2>0, <3>1 DEF L!Finished, L!Done, L!Idle, Empty, Filled
    <3> QED BY <1>12, <2>1, <3>2
  <2>2. CASE page.calls[s].kind \notin L!Loads
    <3>1. page' = [failed EXCEPT !.calls = L!Done(@, s),
                                 !.submitting = @ /\ page.calls[s].kind # "save",
                                 !.loading = @ /\ page.calls[s].kind # "delete"]
      BY <1>15, <2>2 DEF L!Fail
    <3> HIDE DEF failed
    <3>2. /\ DOMAIN page' = DOMAIN page /\ page'.calls = Filled(page.calls, s, Empty)
          /\ page'.submitting = IF page.calls[s].kind = "save" THEN FALSE ELSE page.submitting
          /\ page'.loading = IF page.calls[s].kind = "delete" THEN FALSE ELSE page.loading
      BY <1>0, <2>0, <3>1 DEF L!Done, L!Idle, Empty, Filled
    <3>3. "kind" \in DOMAIN Empty /\ Empty.kind = "idle"
      BY DEF Empty
    <3> QED BY <1>0, <2>2, <3>2, <3>3, RulesFilled DEF Follows, Backed
  <2> QED BY <2>1, <2>2
<1> QED
  BY <1>4, <1>5, <1>6, <1>7, <1>8, <1>9, <1>10, <1>11, <1>13, <1>14, <1>15
  DEF L!Next, L!Deliver

-----------------------------------------------------------------------------
(* JobPanel.                                                               *)
JobGets == {"get"}

JobFlagsInv ==
  /\ {"calls", "creating", "loading", "job"} \subseteq DOMAIN page
  /\ "loading" \in DOMAIN page.job
  /\ Flagged(page.calls, page.creating, J!Creations, page.loading, J!Lists)
  /\ Covered(page.job.loading, page.calls, JobGets)

LEMMA JobFlagsFilled ==
  ASSUME JobFlagsInv, DOMAIN page' = DOMAIN page, "loading" \in DOMAIN page'.job,
         NEW s \in Slots, NEW c, "kind" \in DOMAIN c,
         page'.calls = Filled(page.calls, s, c),
         Follows(page.creating, page'.creating, page.calls[s].kind, c.kind, J!Creations),
         Backed(page.loading, page'.loading, page.calls[s].kind, c.kind, J!Lists),
         Backed(page.job.loading, page'.job.loading, page.calls[s].kind, c.kind, JobGets)
  PROVE  JobFlagsInv'
<1>1. Flagged(page'.calls, page'.creating, J!Creations, page'.loading, J!Lists)
  BY FlaggedStep DEF JobFlagsInv
<1>2. Covered(page'.job.loading, Filled(page.calls, s, c), JobGets)
  <2>1. WellFormed(page.calls) /\ Covered(page.job.loading, page.calls, JobGets)
    BY DEF JobFlagsInv, Flagged
  <2>2. /\ page'.job.loading \in BOOLEAN
        /\ page'.job.loading = TRUE =>
             c.kind \in JobGets \/ (page.job.loading = TRUE /\ page.calls[s].kind \notin JobGets)
    BY DEF Backed
  <2> QED BY <2>1, <2>2, CoveredStep
<1> QED BY <1>1, <1>2 DEF JobFlagsInv, J!Creations, J!Lists, JobGets

(* A list, or the page of a job, just mounted with its first request.      *)
LEMMA JobFlagsFresh ==
  ASSUME NEW kind \in {"list", "get"},
         {"calls", "creating", "loading", "job"} \subseteq DOMAIN page',
         "loading" \in DOMAIN page'.job, page'.creating = FALSE,
         page'.calls = J!Sent(J!NoCalls, J!Request(kind, J!FirstAsk)),
         page'.loading \in BOOLEAN, page'.loading = TRUE => kind = "list",
         page'.job.loading \in BOOLEAN, page'.job.loading = TRUE => kind = "get"
  PROVE  JobFlagsInv'
<1> DEFINE s == CHOOSE t \in Slots : Unused[t] = Empty
           call == J!Request(kind, J!FirstAsk)
<1>1. s \in Slots /\ Unused[s] = Empty
  BY ConsoleAssumption DEF Unused
<1>2. page'.calls = Filled(Unused, s, call)
  BY DEF J!Sent, J!NoCalls, J!Idle, Unused, Empty, Filled
<1> HIDE DEF s
<1>3. "kind" \in DOMAIN call /\ call.kind = kind /\ Unused[s].kind = "idle"
  BY <1>1 DEF J!Request, Empty
<1> HIDE DEF call
<1>4. /\ Flagged(Unused, FALSE, J!Creations, FALSE, J!Lists)
      /\ Covered(FALSE, Unused, JobGets)
  BY FlaggedUnused, UnusedWaits DEF Covered, J!Creations, J!Lists, JobGets
<1>5. /\ Follows(FALSE, FALSE, "idle", kind, J!Creations)
      /\ Backed(FALSE, page'.loading, "idle", kind, J!Lists)
      /\ Backed(FALSE, page'.job.loading, "idle", kind, JobGets)
  BY DEF Follows, Backed, J!Creations, J!Lists, JobGets
<1>6. Flagged(page'.calls, FALSE, J!Creations, page'.loading, J!Lists)
  BY <1>1, <1>2, <1>3, <1>4, <1>5, FlaggedStep
<1>7. Covered(page'.job.loading, page'.calls, JobGets)
  BY <1>1, <1>2, <1>3, <1>4, <1>5, CoveredStep DEF Flagged, Backed
<1> QED BY <1>6, <1>7 DEF JobFlagsInv, J!Creations, J!Lists, JobGets

LEMMA JobFlagsMounted ==
  ASSUME page' \in J!Mounts
  PROVE  JobFlagsInv'
<1>1. PICK n \in 0 .. MaxJobs : page' = J!Mounted(n)
  BY DEF J!Mounts
<1>2. /\ {"calls", "creating", "loading", "job"} \subseteq DOMAIN page'
      /\ page'.job = J!NoJob /\ page'.creating = FALSE /\ page'.loading = TRUE
      /\ page'.calls = J!Sent(J!NoCalls, J!Request("list", J!FirstAsk))
  BY <1>1 DEF J!Mounted
<1>3. "loading" \in DOMAIN J!NoJob /\ J!NoJob.loading = FALSE
  BY DEF J!NoJob
<1> QED BY <1>2, <1>3, JobFlagsFresh

LEMMA JobFlagsStep ==
  ASSUME JobFlagsInv, J!Next
  PROVE  JobFlagsInv'
<1> USE DEF J!Creations, J!Lists, JobGets
<1>0. /\ {"calls", "creating", "loading", "job"} \subseteq DOMAIN page
      /\ "loading" \in DOMAIN page.job
      /\ page.creating \in BOOLEAN /\ page.loading \in BOOLEAN /\ page.job.loading \in BOOLEAN
      /\ \A s \in Slots : "kind" \in DOMAIN page.calls[s]
      /\ DOMAIN page.calls = Slots
  BY DEF JobFlagsInv, Flagged, Exactly, Covered, WellFormed
<1>1. ASSUME J!HasRoom(page.calls), NEW c, "kind" \in DOMAIN c, NEW creating, NEW loading,
             DOMAIN page' = DOMAIN page, page'.calls = J!Sent(page.calls, c),
             page'.creating = creating, page'.loading = loading, page'.job = page.job,
             Follows(page.creating, creating, "idle", c.kind, J!Creations),
             Backed(page.loading, loading, "idle", c.kind, J!Lists)
      PROVE  JobFlagsInv'
  <2> DEFINE s == CHOOSE t \in Slots : page.calls[t] = J!Idle
  <2>1. s \in Slots /\ page.calls[s] = J!Idle
    BY <1>1 DEF J!HasRoom
  <2>2. page'.calls = Filled(page.calls, s, c)
    BY <1>1 DEF J!Sent, Filled
  <2> HIDE DEF s
  <2>3. page.calls[s].kind = "idle"
    BY <2>1 DEF J!Idle
  <2>4. Backed(page.job.loading, page'.job.loading, page.calls[s].kind, c.kind, JobGets)
    BY <1>0, <1>1, <2>3 DEF Backed
  <2> QED BY <1>0, <1>1, <2>1, <2>2, <2>3, <2>4, JobFlagsFilled
<1>2. \A kind, ask : /\ "kind" \in DOMAIN J!Request(kind, ask)
                     /\ J!Request(kind, ask).kind = kind
  BY DEF J!Request
<1>3. ASSUME NEW ask, J!HasRoom(page.calls), DOMAIN page' = DOMAIN page,
             page'.calls = J!Sent(page.calls, J!Request("list", ask)),
             page'.creating = page.creating, page'.loading = TRUE, page'.job = page.job
      PROVE  JobFlagsInv'
  <2> DEFINE call == J!Request("list", ask)
  <2>1. page'.calls = J!Sent(page.calls, call) /\ "kind" \in DOMAIN call /\ call.kind = "list"
    BY <1>2, <1>3
  <2> HIDE DEF call
  <2> QED BY <1>0, <1>1, <1>3, <2>1 DEF Follows, Backed
<1>4. CASE J!Poll \/ J!Refresh
  BY <1>0, <1>3, <1>4 DEF J!Poll, J!Refresh, J!Loading
<1>5. ASSUME NEW ask, J!Reask(ask) PROVE JobFlagsInv'
  BY <1>0, <1>3, <1>5 DEF J!Reask, J!Loading
<1>6. ASSUME NEW f \in J!SortFields, J!ToggleSort(f) PROVE JobFlagsInv'
  BY <1>5, <1>6 DEF J!ToggleSort
<1>7. ASSUME NEW n \in JobSizes, J!SetPageSize(n) PROVE JobFlagsInv'
  BY <1>5, <1>7 DEF J!SetPageSize
<1>8. CASE J!FirstPage \/ J!PrevPage \/ J!NextPage \/ J!LastPage
  <2>1. PICK n : J!GoTo(n)
    BY <1>8 DEF J!FirstPage, J!PrevPage, J!NextPage, J!LastPage
  <2> QED BY <1>5, <2>1 DEF J!GoTo
<1>9. CASE J!CreateJob
  <2> DEFINE call == J!Request("create", page.ask)
  <2>1. /\ J!HasRoom(page.calls) /\ page.creating = FALSE
        /\ DOMAIN page' = DOMAIN page /\ page'.calls = J!Sent(page.calls, call)
        /\ page'.creating = TRUE /\ page'.loading = page.loading /\ page'.job = page.job
    BY <1>0, <1>9 DEF J!CreateJob, J!Submit
  <2>2. "kind" \in DOMAIN call /\ call.kind = "create"
    BY <1>2
  <2> HIDE DEF call
  <2> QED BY <1>0, <1>1, <2>1, <2>2 DEF Follows, Backed
<1>10. ASSUME NEW id \in 1 .. MaxJobs, J!OpenJob(id) PROVE JobFlagsInv'
  <2>1. /\ DOMAIN page' = DOMAIN page
        /\ page'.calls = J!Sent(J!NoCalls, J!Request("get", J!FirstAsk))
        /\ page'.creating = FALSE /\ page'.loading = FALSE
        /\ page'.job = [id |-> id, got |-> 0, loading |-> TRUE]
    BY <1>0, <1>10 DEF J!OpenJob
  <2>2. "loading" \in DOMAIN page'.job /\ page'.job.loading = TRUE
    BY <2>1
  <2> QED BY <1>0, <2>1, <2>2, JobFlagsFresh
<1>11. CASE J!Back
  <2>1. page' = [J!Mounted(page.stored) EXCEPT !.changes = page.changes + 1,
                                               !.failures = page.failures]
    BY <1>11 DEF J!Back
  <2>2. /\ {"calls", "creating", "loading", "job"} \subseteq DOMAIN page'
        /\ page'.job = J!NoJob /\ page'.creating = FALSE /\ page'.loading = TRUE
        /\ page'.calls = J!Sent(J!NoCalls, J!Request("list", J!FirstAsk))
    BY <2>1 DEF J!Mounted
  <2>3. "loading" \in DOMAIN J!NoJob /\ J!NoJob.loading = FALSE
    BY DEF J!NoJob
  <2> QED BY <2>2, <2>3, JobFlagsFresh
<1>12. CASE J!AddElsewhere
  <2>1. /\ DOMAIN page' = DOMAIN page /\ page'.calls = page.calls /\ page'.job = page.job
        /\ page'.creating = page.creating /\ page'.loading = page.loading
    BY <1>0, <1>12 DEF J!AddElsewhere
  <2> QED BY <2>1 DEF JobFlagsInv
<1>13. ASSUME NEW s \in Slots, J!Serve(s) PROVE JobFlagsInv'
  <2> DEFINE stored == page.stored + IF page.calls[s].kind = "create" THEN 1 ELSE 0
             c == [page.calls[s] EXCEPT !.answer = IF J!OnList THEN stored ELSE page.job.id]
  <2>1. "kind" \in DOMAIN c /\ c.kind = page.calls[s].kind
    BY <1>0
  <2>2. /\ DOMAIN page' = DOMAIN page /\ page'.calls = Filled(page.calls, s, c)
        /\ page'.job = page.job
        /\ page'.creating = page.creating /\ page'.loading = page.loading
    BY <1>0, <1>13 DEF J!Serve, Filled
  <2> HIDE DEF c
  <2> QED BY <1>0, <2>1, <2>2, JobFlagsFilled DEF Follows, Backed
<1>14. "kind" \in DOMAIN Empty /\ Empty.kind = "idle"
  BY DEF Empty
<1>15. ASSUME NEW s \in Slots, J!DeliverList(s) PROVE JobFlagsInv'
  <2>1. /\ page.calls[s].kind \in J!Lists
        /\ DOMAIN page' = DOMAIN page /\ page'.calls = Filled(page.calls, s, Empty)
        /\ page'.loading = FALSE /\ page'.job = page.job
        /\ page'.creating = IF page.calls[s].kind = "reload" THEN FALSE ELSE page.creating
    BY <1>0, <1>15 DEF J!DeliverList, J!Arrived, J!Done, J!Idle, Empty, Filled
  <2> QED BY <1>0, <1>14, <2>1, JobFlagsFilled DEF Follows, Backed
<1>16. ASSUME NEW s \in Slots, J!DeliverCreate(s) PROVE JobFlagsInv'
  <2> DEFINE call == J!Request("reload", page.calls[s].ask)
  <2>1. /\ page.calls[s].kind = "create"
        /\ DOMAIN page' = DOMAIN page /\ page'.calls = Filled(page.calls, s, call)
        /\ page'.loading = TRUE /\ page'.job = page.job /\ page'.creating = page.creating
    BY <1>0, <1>16 DEF J!DeliverCreate, J!Arrived, Filled
  <2>2. "kind" \in DOMAIN call /\ call.kind = "reload"
    BY <1>2
  <2> HIDE DEF call
  <2> QED BY <1>0, <2>1, <2>2, JobFlagsFilled DEF Follows, Backed
<1>17. ASSUME NEW s \in Slots, J!DeliverJob(s) PROVE JobFlagsInv'
  <2>1. /\ page.calls[s].kind = "get"
        /\ DOMAIN page' = DOMAIN page /\ page'.calls = Filled(page.calls, s, Empty)
        /\ page'.loading = page.loading /\ page'.creating = page.creating
        /\ "loading" \in DOMAIN page'.job /\ page'.job.loading = FALSE
    BY <1>0, <1>17 DEF J!DeliverJob, J!Arrived, J!Done, J!Idle, Empty, Filled
  <2> QED BY <1>0, <1>14, <2>1, JobFlagsFilled DEF Follows, Backed
<1>18. ASSUME NEW s \in Slots, J!Fail(s) PROVE JobFlagsInv'
  <2>1. /\ DOMAIN page' = DOMAIN page /\ page'.calls = Filled(page.calls, s, Empty)
        /\ page'.loading = IF page.calls[s].kind \in J!Lists THEN FALSE ELSE page.loading
        /\ page'.creating = IF page.calls[s].kind \in J!Creations THEN FALSE ELSE page.creating
        /\ "loading" \in DOMAIN page'.job
        /\ page'.job.loading = IF page.calls[s].kind = "get" THEN FALSE ELSE page.job.loading
    BY <1>0, <1>18 DEF J!Fail, J!Done, J!Idle, Empty, Filled
  <2> QED BY <1>0, <1>14, <2>1, JobFlagsFilled DEF Follows, Backed
<1> QED
  BY <1>4, <1>6, <1>7, <1>8, <1>9, <1>10, <1>11, <1>12, <1>13, <1>15, <1>16, <1>17, <1>18
  DEF J!Next, J!Deliver

-----------------------------------------------------------------------------
(* ProvisioningPanel.                                                      *)
ProvisioningInv ==
  /\ {"calls", "loading"} \subseteq DOMAIN page
  /\ Flagged(page.calls, page.loading, P!Creations, FALSE, {})

LEMMA ProvisioningFilled ==
  ASSUME ProvisioningInv, DOMAIN page' = DOMAIN page,
         NEW s \in Slots, NEW c, "kind" \in DOMAIN c,
         page'.calls = Filled(page.calls, s, c),
         Follows(page.loading, page'.loading, page.calls[s].kind, c.kind, P!Creations),
         Backed(FALSE, FALSE, page.calls[s].kind, c.kind, {})
  PROVE  ProvisioningInv'
<1>1. Flagged(page'.calls, page'.loading, P!Creations, FALSE, {})
  BY FlaggedStep DEF ProvisioningInv
<1> QED BY <1>1 DEF ProvisioningInv, P!Creations

LEMMA ProvisioningMounted ==
  ASSUME page' \in P!Mounts
  PROVE  ProvisioningInv'
<1> DEFINE s == CHOOSE t \in Slots : Unused[t] = Empty
           call == P!Request("list", None)
<1>1. s \in Slots /\ Unused[s] = Empty
  BY ConsoleAssumption DEF Unused
<1>2. PICK table, booting : page' = P!Mounted(table, booting)
  BY DEF P!Mounts
<1>3. /\ {"calls", "loading"} \subseteq DOMAIN page' /\ page'.loading = FALSE
      /\ page'.calls = P!Sent(P!NoCalls, call)
  BY <1>2 DEF P!Mounted
<1>4. page'.calls = Filled(Unused, s, call)
  BY <1>3 DEF P!Sent, P!NoCalls, P!Idle, Unused, Empty, Filled
<1> HIDE DEF s
<1>5. "kind" \in DOMAIN call /\ call.kind = "list" /\ Unused[s].kind = "idle"
  BY <1>1 DEF P!Request, Empty
<1> HIDE DEF call
<1>6. Flagged(Unused, FALSE, P!Creations, FALSE, {})
  BY FlaggedUnused DEF P!Creations
<1>7. Follows(FALSE, FALSE, "idle", "list", P!Creations) /\ Backed(FALSE, FALSE, "idle", "list", {})
  BY DEF Follows, Backed, P!Creations
<1>8. Flagged(page'.calls, FALSE, P!Creations, FALSE, {})
  BY <1>1, <1>4, <1>5, <1>6, <1>7, FlaggedStep
<1> QED BY <1>3, <1>8 DEF ProvisioningInv, P!Creations

LEMMA ProvisioningStep ==
  ASSUME ProvisioningInv, P!Next
  PROVE  ProvisioningInv'
<1> USE DEF P!Creations
<1>0. /\ {"calls", "loading"} \subseteq DOMAIN page /\ page.loading \in BOOLEAN
      /\ \A s \in Slots : "kind" \in DOMAIN page.calls[s]
      /\ DOMAIN page.calls = Slots
  BY DEF ProvisioningInv, Flagged, Exactly, WellFormed
<1>1. ASSUME DOMAIN page' = DOMAIN page, page'.calls = page.calls, page'.loading = page.loading
      PROVE  ProvisioningInv'
  BY <1>1 DEF ProvisioningInv
<1>2. ASSUME P!MayStart, NEW c, "kind" \in DOMAIN c, NEW loading,
             DOMAIN page' = DOMAIN page, page'.calls = P!Sent(page.calls, c),
             page'.loading = loading,
             Follows(page.loading, loading, "idle", c.kind, P!Creations)
      PROVE  ProvisioningInv'
  <2> DEFINE s == CHOOSE t \in Slots : page.calls[t] = P!Idle
  <2>1. s \in Slots /\ page.calls[s] = P!Idle
    BY <1>2 DEF P!MayStart, P!HasRoom
  <2>2. page'.calls = Filled(page.calls, s, c)
    BY <1>2 DEF P!Sent, Filled
  <2> HIDE DEF s
  <2>3. page.calls[s].kind = "idle"
    BY <2>1 DEF P!Idle
  <2> QED BY <1>2, <2>1, <2>2, <2>3, ProvisioningFilled DEF Backed
<1>3. \A kind, id : /\ "kind" \in DOMAIN P!Request(kind, id)
                    /\ P!Request(kind, id).kind = kind
  BY DEF P!Request
<1>4. CASE P!QuickDeploy
  BY <1>0, <1>1, <1>4 DEF P!QuickDeploy, P!Opened
<1>5. ASSUME NEW tab \in P!Tabs, P!SelectTab(tab) PROVE ProvisioningInv'
  BY <1>0, <1>1, <1>5 DEF P!SelectTab, P!Opened
<1>6. ASSUME NEW form, P!ChangeForm(form) PROVE ProvisioningInv'
  BY <1>0, <1>1, <1>6 DEF P!ChangeForm
<1>7. ASSUME NEW view, P!Browse(view) PROVE ProvisioningInv'
  BY <1>0, <1>1, <1>7 DEF P!Browse
<1>8. CASE P!Unhighlight \/ P!CreateElsewhere
  BY <1>0, <1>1, <1>8 DEF P!Unhighlight, P!CreateElsewhere
<1>9. CASE P!Create
  <2> DEFINE call == P!Request("create", None)
  <2>1. /\ P!MayStart /\ page.loading = FALSE /\ DOMAIN page' = DOMAIN page
        /\ page'.calls = P!Sent(page.calls, call) /\ page'.loading = TRUE
    BY <1>0, <1>9 DEF P!Create, P!Started
  <2>2. "kind" \in DOMAIN call /\ call.kind = "create"
    BY <1>3
  <2> HIDE DEF call
  <2> QED BY <1>0, <1>2, <2>1, <2>2 DEF Follows
<1>10. CASE P!Refresh
  <2> DEFINE call == P!Request("list", None)
  <2>1. /\ P!MayStart /\ DOMAIN page' = DOMAIN page
        /\ page'.calls = P!Sent(page.calls, call) /\ page'.loading = page.loading
    BY <1>0, <1>10 DEF P!Refresh, P!Started
  <2>2. "kind" \in DOMAIN call /\ call.kind = "list"
    BY <1>3
  <2> HIDE DEF call
  <2> QED BY <1>0, <1>2, <2>1, <2>2 DEF Follows
<1>11. ASSUME NEW d \in P!Ids, P!Delete(d) PROVE ProvisioningInv'
  <2> DEFINE call == P!Request("delete", d)
  <2>1. /\ P!MayStart /\ DOMAIN page' = DOMAIN page
        /\ page'.calls = P!Sent(page.calls, call) /\ page'.loading = page.loading
    BY <1>0, <1>11 DEF P!Delete, P!Started
  <2>2. "kind" \in DOMAIN call /\ call.kind = "delete"
    BY <1>3
  <2> HIDE DEF call
  <2> QED BY <1>0, <1>2, <2>1, <2>2 DEF Follows
<1>12. ASSUME NEW d \in P!Ids, P!Boot(d) PROVE ProvisioningInv'
  BY <1>0, <1>1, <1>12 DEF P!Boot
<1>13. ASSUME NEW s \in Slots, P!Serve(s) PROVE ProvisioningInv'
  <2> DEFINE made == [page.calls[s] EXCEPT !.served = TRUE, !.id = P!Lowest(P!Unused)]
             acted == [page.calls[s] EXCEPT !.served = TRUE]
             read == [page.calls[s] EXCEPT !.served = TRUE, !.answer = P!Listing(page.table)]
  <2>1. \A c \in {made, acted, read} : "kind" \in DOMAIN c /\ c.kind = page.calls[s].kind
    BY <1>0
  <2>2. /\ DOMAIN page' = DOMAIN page /\ page'.loading = page.loading
        /\ \E c \in {made, acted, read} : page'.calls = Filled(page.calls, s, c)
    BY <1>0, <1>13 DEF P!Serve, Filled
  <2> HIDE DEF made, acted, read
  <2> QED BY <1>0, <2>1, <2>2, ProvisioningFilled DEF Follows, Backed
<1>14. ASSUME NEW s \in Slots, P!DeliverChange(s) PROVE ProvisioningInv'
  <2> DEFINE c == [page.calls[s] EXCEPT !.kind = P!Reload[page.calls[s].kind], !.served = FALSE]
  <2>1. /\ page.calls[s].kind \in DOMAIN P!Reload
        /\ DOMAIN page' = DOMAIN page /\ page'.calls = Filled(page.calls, s, c)
        /\ page'.loading = page.loading
    BY <1>0, <1>14 DEF P!DeliverChange, Filled
  <2>2. "kind" \in DOMAIN c /\ c.kind = P!Reload[page.calls[s].kind]
    BY <1>0
  <2> HIDE DEF c
  <2>3. DOMAIN P!Reload = {"create", "delete"}
    BY DEF P!Reload
  <2>4. P!Reload["create"] = "create reload" /\ P!Reload["delete"] = "delete reload"
    BY DEF P!Reload
  <2>5. \/ page.calls[s].kind = "create" /\ c.kind = "create reload"
        \/ page.calls[s].kind = "delete" /\ c.kind = "delete reload"
    BY <2>1, <2>2, <2>3, <2>4
  <2> QED BY <1>0, <2>1, <2>2, <2>5, ProvisioningFilled DEF Follows, Backed
<1>15. "kind" \in DOMAIN Empty /\ Empty.kind = "idle"
  BY DEF Empty
<1>16. ASSUME NEW s \in Slots, page.calls[s].kind \in P!Loads,
              DOMAIN page' = DOMAIN page, page'.calls = Filled(page.calls, s, Empty),
              page'.loading = IF page.calls[s].kind = "create reload" THEN FALSE
                              ELSE page.loading
       PROVE  ProvisioningInv'
  BY <1>0, <1>15, <1>16, ProvisioningFilled DEF Follows, Backed, P!Loads
<1>17. ASSUME NEW s \in Slots, P!DeliverList(s) PROVE ProvisioningInv'
  <2>1. page.calls[s].kind \in P!Loads /\ page' = P!Loaded(page, s, page.calls[s].answer)
    BY <1>17 DEF P!DeliverList
  <2>2. /\ DOMAIN page' = DOMAIN page /\ page'.calls = Filled(page.calls, s, Empty)
        /\ page'.loading = IF page.calls[s].kind = "create reload" THEN FALSE ELSE page.loading
    BY <1>0, <2>1 DEF P!Loaded, P!Opened, P!Done, P!Idle, Empty, Filled
  <2> QED BY <1>16, <2>1, <2>2
<1>18. ASSUME NEW s \in Slots, P!Fail(s) PROVE ProvisioningInv'
  <2> DEFINE failed == [page EXCEPT !.failures = IF @ < MaxFailures THEN @ + 1 ELSE @]
  <2>0. /\ DOMAIN failed = DOMAIN page /\ failed.calls = page.calls
        /\ failed.loading = page.loading
    BY <1>0
  <2>1. CASE page.calls[s].kind \in P!Loads
    <3>1. page' = P!Loaded(failed, s, P!Empty)
      BY <1>18, <2>1 DEF P!Fail
    <3> HIDE DEF failed
    <3>2. /\ DOMAIN page' = DOMAIN page /\ page'.calls = Filled(page.calls, s, Empty)
          /\ page'.loading = IF page.calls[s].kind = "create reload" THEN FALSE
                             ELSE page.loading
      BY <1>0, <2>0, <3>1 DEF P!Loaded, P!Opened, P!Done, P!Idle, Empty, Filled
    <3> QED BY <1>16, <2>1, <3>2
  <2>2. CASE page.calls[s].kind \notin P!Loads
    <3>1. page' = [failed EXCEPT !.calls = P!Done(@, s),
                                 !.loading = @ /\ page.calls[s].kind # "create"]
      BY <1>18, <2>2 DEF P!Fail
    <3> HIDE DEF failed
    <3>2. /\ DOMAIN page' = DOMAIN page /\ page'.calls = Filled(page.calls, s, Empty)
          /\ page'.loading = IF page.calls[s].kind = "create" THEN FALSE ELSE page.loading
      BY <1>0, <2>0, <3>1 DEF P!Done, P!Idle, Empty, Filled
    <3> QED BY <1>0, <1>15, <2>2, <3>2, ProvisioningFilled DEF Follows, Backed, P!Loads
  <2> QED BY <2>1, <2>2
<1> QED
  BY <1>4, <1>5, <1>6, <1>7, <1>8, <1>9, <1>10, <1>11, <1>12, <1>13, <1>14, <1>17, <1>18
  DEF P!Next, P!Deliver

-----------------------------------------------------------------------------
(* CreateClusterPanel: every request is a creation.                        *)
NewLoads == {"create"}

NewInv ==
  /\ {"calls", "saving"} \subseteq DOMAIN page
  /\ Flagged(page.calls, page.saving, NewLoads, FALSE, {})
  /\ \A s \in Slots : page.calls[s] = Empty \/ page.calls[s].kind \in NewLoads

LEMMA NewFilled ==
  ASSUME NewInv, DOMAIN page' = DOMAIN page,
         NEW s \in Slots, NEW c, "kind" \in DOMAIN c, c = Empty \/ c.kind \in NewLoads,
         page'.calls = Filled(page.calls, s, c),
         Follows(page.saving, page'.saving, page.calls[s].kind, c.kind, NewLoads)
  PROVE  NewInv'
<1>1. Backed(FALSE, FALSE, page.calls[s].kind, c.kind, {})
  BY DEF Backed
<1>2. Flagged(page'.calls, page'.saving, NewLoads, FALSE, {})
  BY <1>1, FlaggedStep DEF NewInv
<1>3. \A t \in Slots : page'.calls[t] = Empty \/ page'.calls[t].kind \in NewLoads
  BY DEF NewInv, Flagged, WellFormed, Filled
<1> QED BY <1>2, <1>3 DEF NewInv, NewLoads

LEMMA NewMounted ==
  ASSUME page' \in N!Mounts
  PROVE  NewInv'
<1>1. /\ {"calls", "saving"} \subseteq DOMAIN page'
      /\ page'.saving = FALSE /\ page'.calls = Unused
  BY DEF N!Mounts, N!NoCalls, N!Idle, Unused, Empty
<1>2. Flagged(Unused, FALSE, NewLoads, FALSE, {})
  BY FlaggedUnused DEF NewLoads
<1> QED BY <1>1, <1>2 DEF NewInv, NewLoads, Unused

LEMMA NewStep ==
  ASSUME NewInv, N!Next
  PROVE  NewInv'
<1> USE DEF NewLoads
<1>0. /\ {"calls", "saving"} \subseteq DOMAIN page /\ page.saving \in BOOLEAN
      /\ \A s \in Slots : "kind" \in DOMAIN page.calls[s]
      /\ \A s \in Slots : page.calls[s] = N!Idle \/ page.calls[s].kind \in NewLoads
      /\ DOMAIN page.calls = Slots
  BY DEF NewInv, Flagged, Exactly, WellFormed, Empty, N!Idle
<1>1. ASSUME DOMAIN page' = DOMAIN page, page'.calls = page.calls, page'.saving = page.saving
      PROVE  NewInv'
  BY <1>1 DEF NewInv
<1>2. ASSUME NEW name, N!SetName(name) PROVE NewInv'
  BY <1>0, <1>1, <1>2 DEF N!SetName
<1>3. CASE N!Submit
  <2> DEFINE s == CHOOSE t \in Slots : page.calls[t] = N!Idle
             call == [kind |-> "create"]
  <2>1. CASE page.name = "blank"
    BY <1>0, <1>1, <1>3, <2>1 DEF N!Submit
  <2>2. CASE page.name # "blank"
    <3>1. N!HasRoom(page.calls)
      BY <1>3, <2>2 DEF N!Submit
    <3>2. s \in Slots /\ page.calls[s] = N!Idle
      BY <3>1 DEF N!HasRoom
    <3>3. /\ page.saving = FALSE /\ DOMAIN page' = DOMAIN page /\ page'.saving = TRUE
          /\ page'.calls = Filled(page.calls, s, call)
      BY <1>0, <1>3, <2>2 DEF N!Submit, N!Sent, Filled
    <3> HIDE DEF s
    <3>4. /\ page.calls[s].kind = "idle"
          /\ "kind" \in DOMAIN call /\ call.kind = "create"
      BY <3>2 DEF N!Idle
    <3> HIDE DEF call
    <3> QED BY <1>0, <3>2, <3>3, <3>4, NewFilled DEF Follows
  <2> QED BY <2>1, <2>2
<1>4. ASSUME NEW s \in Slots, N!Deliver(s) \/ N!Fail(s) PROVE NewInv'
  <2>1. /\ page.calls[s] # N!Idle
        /\ DOMAIN page' = DOMAIN page /\ page'.calls = Filled(page.calls, s, Empty)
        /\ page'.saving = FALSE
    BY <1>0, <1>4 DEF N!Deliver, N!Fail, N!Done, N!Idle, Empty, Filled
  <2>2. page.calls[s].kind = "create"
    BY <1>0, <2>1
  <2>3. "kind" \in DOMAIN Empty /\ Empty.kind = "idle"
    BY DEF Empty
  <2> QED BY <1>0, <2>1, <2>2, <2>3, NewFilled DEF Follows
<1> QED BY <1>2, <1>3, <1>4 DEF N!Next

-----------------------------------------------------------------------------
(* BillingPanel: every request is the list of clusters or an estimate.     *)
Estimates == {"estimate"}

BillingInv ==
  /\ {"calls", "loading"} \subseteq DOMAIN page
  /\ Flagged(page.calls, page.loading, Estimates, FALSE, {})
  /\ \A s \in Slots : page.calls[s] = Empty \/ page.calls[s].kind \in Estimates \cup {"clusters"}

LEMMA BillingFilled ==
  ASSUME BillingInv, DOMAIN page' = DOMAIN page,
         NEW s \in Slots, NEW c, "kind" \in DOMAIN c,
         c = Empty \/ c.kind \in Estimates \cup {"clusters"},
         page'.calls = Filled(page.calls, s, c),
         Follows(page.loading, page'.loading, page.calls[s].kind, c.kind, Estimates)
  PROVE  BillingInv'
<1>1. Backed(FALSE, FALSE, page.calls[s].kind, c.kind, {})
  BY DEF Backed
<1>2. Flagged(page'.calls, page'.loading, Estimates, FALSE, {})
  BY <1>1, FlaggedStep DEF BillingInv
<1>3. \A t \in Slots : \/ page'.calls[t] = Empty
                       \/ page'.calls[t].kind \in Estimates \cup {"clusters"}
  BY DEF BillingInv, Flagged, WellFormed, Filled
<1> QED BY <1>2, <1>3 DEF BillingInv, Estimates

LEMMA BillingMounted ==
  ASSUME page' \in B!Mounts
  PROVE  BillingInv'
<1> DEFINE s == CHOOSE t \in Slots : Unused[t] = Empty
           call == B!Request("clusters", None)
<1>1. s \in Slots /\ Unused[s] = Empty
  BY ConsoleAssumption DEF Unused
<1>2. /\ {"calls", "loading"} \subseteq DOMAIN page' /\ page'.loading = FALSE
      /\ page'.calls = B!Sent(B!NoCalls, call)
  BY DEF B!Mounts
<1>3. page'.calls = Filled(Unused, s, call)
  BY <1>2 DEF B!Sent, B!NoCalls, B!Idle, Unused, Empty, Filled
<1> HIDE DEF s
<1>4. "kind" \in DOMAIN call /\ call.kind = "clusters" /\ Unused[s].kind = "idle"
  BY <1>1 DEF B!Request, Empty
<1> HIDE DEF call
<1>5. Flagged(Unused, FALSE, Estimates, FALSE, {})
  BY FlaggedUnused DEF Estimates
<1>6. Follows(FALSE, FALSE, "idle", "clusters", Estimates) /\ Backed(FALSE, FALSE, "idle", "clusters", {})
  BY DEF Follows, Backed, Estimates
<1>7. Flagged(page'.calls, FALSE, Estimates, FALSE, {})
  BY <1>1, <1>3, <1>4, <1>5, <1>6, FlaggedStep
<1>8. \A t \in Slots : page'.calls[t] = Empty \/ page'.calls[t].kind = "clusters"
  BY <1>1, <1>3, <1>4 DEF Unused, Filled
<1> QED BY <1>2, <1>7, <1>8 DEF BillingInv, Estimates

LEMMA BillingStep ==
  ASSUME BillingInv, B!Next
  PROVE  BillingInv'
<1> USE DEF Estimates
<1>0. /\ {"calls", "loading"} \subseteq DOMAIN page /\ page.loading \in BOOLEAN
      /\ \A s \in Slots : "kind" \in DOMAIN page.calls[s]
      /\ \A s \in Slots : \/ page.calls[s] = B!Idle
                          \/ page.calls[s].kind \in Estimates \cup {"clusters"}
      /\ DOMAIN page.calls = Slots
  BY DEF BillingInv, Flagged, Exactly, WellFormed, Empty, B!Idle
<1>1. ASSUME DOMAIN page' = DOMAIN page, page'.calls = page.calls, page'.loading = page.loading
      PROVE  BillingInv'
  BY <1>1 DEF BillingInv
<1>2. ASSUME NEW c, B!SelectCluster(c) PROVE BillingInv'
  BY <1>0, <1>1, <1>2 DEF B!SelectCluster
<1>3. CASE B!Reset
  BY <1>0, <1>1, <1>3 DEF B!Reset
<1>4. CASE B!Estimate
  <2> DEFINE s == CHOOSE t \in Slots : page.calls[t] = B!Idle
             call == B!Request("estimate", page.selected)
  <2>1. CASE page.selected = None
    BY <1>0, <1>1, <1>4, <2>1 DEF B!Estimate
  <2>2. CASE page.selected # None
    <3>1. B!HasRoom(page.calls)
      BY <1>4, <2>2 DEF B!Estimate
    <3>2. s \in Slots /\ page.calls[s] = B!Idle
      BY <3>1 DEF B!HasRoom
    <3>3. /\ page.loading = FALSE /\ DOMAIN page' = DOMAIN page /\ page'.loading = TRUE
          /\ page'.calls = Filled(page.calls, s, call)
      BY <1>0, <1>4, <2>2 DEF B!Estimate, B!Sent, Filled
    <3> HIDE DEF s
    <3>4. /\ page.calls[s].kind = "idle"
          /\ "kind" \in DOMAIN call /\ call.kind = "estimate"
      BY <3>2 DEF B!Idle, B!Request
    <3> HIDE DEF call
    <3> QED BY <1>0, <3>2, <3>3, <3>4, BillingFilled DEF Follows
  <2> QED BY <2>1, <2>2
<1>5. ASSUME NEW s \in Slots, B!Deliver(s) \/ B!Fail(s) PROVE BillingInv'
  <2>1. /\ page.calls[s] # B!Idle
        /\ DOMAIN page' = DOMAIN page /\ page'.calls = Filled(page.calls, s, Empty)
        /\ page.calls[s].kind \in {"clusters", "estimate"}
        /\ page'.loading = IF page.calls[s].kind = "estimate" THEN FALSE ELSE page.loading
    BY <1>0, <1>5 DEF B!Deliver, B!Fail, B!Done, B!Idle, Empty, Filled
  <2>2. "kind" \in DOMAIN Empty /\ Empty.kind = "idle"
    BY DEF Empty
  <2> QED BY <1>0, <2>1, <2>2, BillingFilled DEF Follows
<1> QED BY <1>2, <1>3, <1>4, <1>5 DEF B!Next

-----------------------------------------------------------------------------
(* MonitoringPanel.                                                        *)
MetricLoads == {"metrics"}

MonitoringInv ==
  /\ {"calls", "loading"} \subseteq DOMAIN page
  /\ Flagged(page.calls, FALSE, {}, page.loading, MetricLoads)

LEMMA OnlyShared ==
  ASSUME NEW old, NEW new
  PROVE  Follows(FALSE, FALSE, old, new, {})
BY DEF Follows

(* A second slot is left when the first request of a page was sent.        *)
LEMMA SecondSlot ==
  ASSUME NEW s \in Slots, NEW c
  PROVE  \E t \in Slots : t # s /\ Filled(Unused, s, c)[t] = Empty
<1>1. PICK t \in Slots : t # s
  BY ConsoleAssumption
<1> QED BY <1>1 DEF Filled, Unused

LEMMA MonitoringMounted ==
  ASSUME page' \in M!Mounts
  PROVE  MonitoringInv'
<1> DEFINE first == M!Request("clusters", M!FirstAsk)
           second == M!Request("metrics", M!FirstAsk)
           s == CHOOSE t \in Slots : Unused[t] = Empty
           calls == Filled(Unused, s, first)
           u == CHOOSE t \in Slots : calls[t] = Empty
<1>1. s \in Slots /\ Unused[s] = Empty
  BY ConsoleAssumption DEF Unused
<1>2. /\ {"calls", "loading"} \subseteq DOMAIN page' /\ page'.loading = TRUE
      /\ page'.calls = M!Sent(M!Sent(M!NoCalls, first), second)
  BY DEF M!Mounts, M!Mounted, M!Loading
<1>3. M!Sent(M!NoCalls, first) = calls
  BY DEF M!Sent, M!NoCalls, M!Idle, Unused, Empty, Filled
<1> HIDE DEF s
<1>4. \E t \in Slots : calls[t] = Empty
  BY <1>1, SecondSlot
<1>5. u \in Slots /\ calls[u] = Empty
  BY <1>4
<1> HIDE DEF calls
<1>6. page'.calls = Filled(calls, u, second)
  BY <1>2, <1>3 DEF M!Sent, M!Idle, Empty, Filled
<1> HIDE DEF u
<1>7. /\ "kind" \in DOMAIN first /\ first.kind = "clusters"
      /\ "kind" \in DOMAIN second /\ second.kind = "metrics"
  BY DEF M!Request
<1> HIDE DEF first, second
<1>8. Unused[s].kind = "idle" /\ calls[u].kind = "idle"
  BY <1>1, <1>5 DEF Empty
<1>9. Flagged(Unused, FALSE, {}, FALSE, MetricLoads)
  BY FlaggedUnused DEF MetricLoads
<1>10. /\ Backed(FALSE, FALSE, "idle", "clusters", MetricLoads)
       /\ Backed(FALSE, TRUE, "idle", "metrics", MetricLoads)
  BY DEF Backed, MetricLoads
<1>11. Flagged(calls, FALSE, {}, FALSE, MetricLoads)
  BY <1>1, <1>7, <1>8, <1>9, <1>10, OnlyShared, FlaggedStep DEF calls
<1>12. Flagged(page'.calls, FALSE, {}, TRUE, MetricLoads)
  BY <1>5, <1>6, <1>7, <1>8, <1>10, <1>11, OnlyShared, FlaggedStep
<1> QED BY <1>2, <1>12 DEF MonitoringInv, MetricLoads

LEMMA MonitoringFilled ==
  ASSUME MonitoringInv, DOMAIN page' = DOMAIN page,
         NEW s \in Slots, NEW c, "kind" \in DOMAIN c,
         page'.calls = Filled(page.calls, s, c),
         Backed(page.loading, page'.loading, page.calls[s].kind, c.kind, MetricLoads)
  PROVE  MonitoringInv'
<1>1. Flagged(page'.calls, FALSE, {}, page'.loading, MetricLoads)
  BY FlaggedStep, OnlyShared DEF MonitoringInv
<1> QED BY <1>1 DEF MonitoringInv, MetricLoads

LEMMA MonitoringStep ==
  ASSUME MonitoringInv, M!Next
  PROVE  MonitoringInv'
<1>0. /\ {"calls", "loading"} \subseteq DOMAIN page /\ page.loading \in BOOLEAN
      /\ \A s \in Slots : "kind" \in DOMAIN page.calls[s]
      /\ DOMAIN page.calls = Slots
  BY DEF MonitoringInv, Flagged, Covered, WellFormed
<1>1. \A kind, ask : "kind" \in DOMAIN M!Request(kind, ask) /\ M!Request(kind, ask).kind = kind
  BY DEF M!Request
<1>2. ASSUME M!HasRoom(page.calls), NEW kind, NEW ask, NEW loading,
             DOMAIN page' = DOMAIN page,
             page'.calls = M!Sent(page.calls, M!Request(kind, ask)),
             page'.loading = loading,
             Backed(page.loading, loading, "idle", kind, MetricLoads)
      PROVE  MonitoringInv'
  <2> DEFINE s == CHOOSE t \in Slots : page.calls[t] = M!Idle
             call == M!Request(kind, ask)
  <2>1. s \in Slots /\ page.calls[s] = M!Idle
    BY <1>2 DEF M!HasRoom
  <2>2. page'.calls = Filled(page.calls, s, call)
    BY <1>2 DEF M!Sent, Filled
  <2> HIDE DEF s
  <2>3. page.calls[s].kind = "idle" /\ "kind" \in DOMAIN call /\ call.kind = kind
    BY <1>1, <2>1 DEF M!Idle
  <2> HIDE DEF call
  <2> QED BY <1>2, <2>1, <2>2, <2>3, MonitoringFilled
<1>3. ASSUME NEW ask, M!HasRoom(page.calls), DOMAIN page' = DOMAIN page,
             page'.calls = M!Sent(page.calls, M!Request("metrics", ask)), page'.loading = TRUE
      PROVE  MonitoringInv'
  <2>1. Backed(page.loading, TRUE, "idle", "metrics", MetricLoads)
    BY DEF Backed, MetricLoads
  <2> QED BY <1>2, <1>3, <2>1
<1>4. CASE M!Refresh
  BY <1>0, <1>3, <1>4 DEF M!Refresh, M!MayAsk, M!Loading
<1>5. ASSUME NEW ask, M!Reask(ask) PROVE MonitoringInv'
  BY <1>0, <1>3, <1>5 DEF M!Reask, M!MayAsk, M!Loading
<1>6. ASSUME NEW c, M!SelectCluster(c) PROVE MonitoringInv'
  BY <1>5, <1>6 DEF M!SelectCluster
<1>7. ASSUME NEW t, M!SelectType(t) PROVE MonitoringInv'
  BY <1>5, <1>7 DEF M!SelectType
<1>8. ASSUME NEW n, M!SetPageSize(n) PROVE MonitoringInv'
  BY <1>5, <1>8 DEF M!SetPageSize
<1>9. CASE M!FirstPage \/ M!PrevPage
  BY <1>5, <1>9 DEF M!FirstPage, M!PrevPage
<1>10. CASE M!NextPage \/ M!LastPage
  BY <1>5, <1>10 DEF M!NextPage, M!LastPage
<1>11. ASSUME NEW kind \in M!Fetches \cup {"poll pool"}, M!HasRoom(page.calls),
              DOMAIN page' = DOMAIN page, page'.loading = page.loading,
              page'.calls = M!Sent(page.calls, M!Request(kind, page.ask))
       PROVE  MonitoringInv'
  <2>1. Backed(page.loading, page.loading, "idle", kind, MetricLoads)
    BY <1>0 DEF Backed, MetricLoads
  <2> QED BY <1>2, <1>11, <2>1
<1>12. CASE M!Poll
  BY <1>0, <1>11, <1>12 DEF M!Poll
<1>13. ASSUME NEW kind \in M!Fetches, M!FetchScoped(kind) PROVE MonitoringInv'
  BY <1>0, <1>11, <1>13 DEF M!FetchScoped, M!MayAsk
<1>14. "kind" \in DOMAIN Empty /\ Empty.kind = "idle"
  BY DEF Empty
<1>15. ASSUME NEW p, NEW s \in Slots, DOMAIN p = DOMAIN page, p.calls = page.calls
       PROVE  /\ DOMAIN M!Resumed(p, s) = DOMAIN page
              /\ M!Resumed(p, s).loading = p.loading
              /\ \E c : /\ M!Resumed(p, s).calls = Filled(page.calls, s, c)
                        /\ "kind" \in DOMAIN c /\ c.kind # "metrics"
  <2>1. CASE page.calls[s].kind \in DOMAIN M!Follower
    <3> DEFINE c == [page.calls[s] EXCEPT !.kind = M!Follower[@]]
    <3>1. M!Follower[page.calls[s].kind] # "metrics"
      BY <2>1 DEF M!Follower
    <3>2. M!Resumed(p, s) = [p EXCEPT !.calls[s].kind = M!Follower[@]]
      BY <1>15, <2>1 DEF M!Resumed
    <3>3. M!Resumed(p, s).calls = Filled(page.calls, s, c)
      BY <1>0, <1>15, <3>2 DEF Filled
    <3>4. "kind" \in DOMAIN c /\ c.kind # "metrics"
      BY <1>0, <3>1
    <3> QED BY <1>0, <1>15, <3>2, <3>3, <3>4
  <2>2. CASE page.calls[s].kind \notin DOMAIN M!Follower
    <3>1. M!Resumed(p, s) = [p EXCEPT !.calls = M!Done(@, s)]
      BY <1>15, <2>2 DEF M!Resumed
    <3>2. M!Resumed(p, s).calls = Filled(page.calls, s, Empty)
      BY <1>0, <1>15, <3>1 DEF M!Done, M!Idle, Empty, Filled
    <3> QED BY <1>0, <1>14, <1>15, <3>1, <3>2
  <2> QED BY <2>1, <2>2
<1>16. ASSUME NEW s \in Slots, M!DeliverMetrics(s) PROVE MonitoringInv'
  <2> DEFINE p == [page EXCEPT !.view = page.calls[s].ask, !.loading = FALSE]
  <2>1. DOMAIN p = DOMAIN page /\ p.calls = page.calls /\ p.loading = FALSE
    BY <1>0
  <2>2. page' = M!Resumed(p, s)
    BY <1>16 DEF M!DeliverMetrics
  <2> HIDE DEF p
  <2>3. PICK c : /\ DOMAIN page' = DOMAIN page /\ page'.loading = FALSE
                 /\ page'.calls = Filled(page.calls, s, c)
                 /\ "kind" \in DOMAIN c /\ c.kind # "metrics"
    BY <1>15, <2>1, <2>2
  <2> QED BY <2>3, MonitoringFilled DEF Backed
<1>17. ASSUME NEW s \in Slots, M!DeliverRate(s) PROVE MonitoringInv'
  <2> DEFINE p == [page EXCEPT !.rate =
       IF page.calls[s].kind = "fetch scoped" THEN "scoped" ELSE "global"]
  <2>1. DOMAIN p = DOMAIN page /\ p.calls = page.calls /\ p.loading = page.loading
    BY <1>0
  <2>2. page' = M!Resumed(p, s) /\ page.calls[s].kind # "metrics"
    BY <1>17 DEF M!DeliverRate, M!Awaits, M!InFlight, M!Fetches
  <2> HIDE DEF p
  <2>3. PICK c : /\ DOMAIN page' = DOMAIN page /\ page'.loading = page.loading
                 /\ page'.calls = Filled(page.calls, s, c)
                 /\ "kind" \in DOMAIN c /\ c.kind # "metrics"
    BY <1>15, <2>1, <2>2
  <2> QED BY <1>0, <2>2, <2>3, MonitoringFilled DEF Backed, MetricLoads
<1>18. ASSUME NEW s \in Slots, M!DeliverPool(s) PROVE MonitoringInv'
  <2> DEFINE p == [page EXCEPT !.pool = TRUE]
  <2>1. DOMAIN p = DOMAIN page /\ p.calls = page.calls /\ p.loading = page.loading
    BY <1>0
  <2>2. page' = M!Resumed(p, s) /\ page.calls[s].kind # "metrics"
    BY <1>18 DEF M!DeliverPool, M!Awaits, M!InFlight
  <2> HIDE DEF p
  <2>3. PICK c : /\ DOMAIN page' = DOMAIN page /\ page'.loading = page.loading
                 /\ page'.calls = Filled(page.calls, s, c)
                 /\ "kind" \in DOMAIN c /\ c.kind # "metrics"
    BY <1>15, <2>1, <2>2
  <2> QED BY <1>0, <2>2, <2>3, MonitoringFilled DEF Backed, MetricLoads
<1>19. ASSUME NEW s \in Slots, NEW list, M!DeliverClusters(s, list) PROVE MonitoringInv'
  <2> DEFINE got == [page EXCEPT !.clusters = list, !.calls = M!Done(@, s)]
             calls == Filled(page.calls, s, Empty)
             u == CHOOSE t \in Slots : calls[t] = Empty
  <2>1. /\ DOMAIN got = DOMAIN page /\ got.calls = calls /\ got.loading = page.loading
        /\ page.calls[s].kind = "clusters"
    BY <1>0, <1>19 DEF M!DeliverClusters, M!Awaits, M!InFlight, M!Done, M!Idle, Empty, Filled
  <2>2. \/ page' = got
        \/ \E ask : page' = [M!Loading(got, ask) EXCEPT !.ask = ask]
    BY <1>19 DEF M!DeliverClusters
  <2> HIDE DEF got
  <2>3. CASE page' = got
    BY <1>0, <1>14, <2>1, <2>3, MonitoringFilled DEF Backed, MetricLoads
  <2>4. ASSUME NEW ask, page' = [M!Loading(got, ask) EXCEPT !.ask = ask]
        PROVE  MonitoringInv'
    <3> DEFINE call == M!Request("metrics", ask)
    <3>1. calls[s] = Empty
      BY <1>0 DEF Filled
    <3>2. u \in Slots /\ calls[u] = Empty
      BY <3>1
    <3> HIDE DEF calls
    <3>3. /\ DOMAIN page' = DOMAIN page /\ page'.loading = TRUE
          /\ page'.calls = M!Sent(calls, call)
      BY <1>0, <2>1, <2>4 DEF M!Loading
    <3>4. page'.calls = Filled(calls, u, call)
      BY <3>3 DEF M!Sent, M!Idle, Empty, Filled
    <3> HIDE DEF u
    <3>5. "kind" \in DOMAIN call /\ call.kind = "metrics" /\ calls[u].kind = "idle"
      BY <1>1, <3>2 DEF Empty
    <3> HIDE DEF call
    <3>6. /\ Backed(page.loading, page.loading, "clusters", "idle", MetricLoads)
          /\ Backed(page.loading, TRUE, "idle", "metrics", MetricLoads)
      BY <1>0 DEF Backed, MetricLoads
    <3>7. Flagged(calls, FALSE, {}, page.loading, MetricLoads)
      BY <1>14, <2>1, <3>6, OnlyShared, FlaggedStep DEF calls, MonitoringInv
    <3>8. Flagged(page'.calls, FALSE, {}, TRUE, MetricLoads)
      BY <3>2, <3>4, <3>5, <3>6, <3>7, OnlyShared, FlaggedStep
    <3> QED BY <1>0, <3>3, <3>8 DEF MonitoringInv, MetricLoads
  <2> QED BY <2>2, <2>3, <2>4
<1>20. ASSUME NEW s \in Slots, M!Fail(s) PROVE MonitoringInv'
  <2> DEFINE kind == page.calls[s].kind
             p == [page EXCEPT !.failures = @ + 1,
                    !.loading = @ /\ kind # "metrics",
                    !.rate = IF kind \in {"load rate"} \cup M!Fetches THEN None ELSE @,
                    !.pool = @ /\ kind # "load pool"]
  <2>1. /\ DOMAIN p = DOMAIN page /\ p.calls = page.calls
        /\ p.loading = IF kind = "metrics" THEN FALSE ELSE page.loading
    BY <1>0
  <2>2. page' = M!Resumed(p, s)
    BY <1>20 DEF M!Fail
  <2> HIDE DEF p
  <2>3. PICK c : /\ DOMAIN page' = DOMAIN page
                 /\ page'.loading = IF kind = "metrics" THEN FALSE ELSE page.loading
                 /\ page'.calls = Filled(page.calls, s, c)
                 /\ "kind" \in DOMAIN c /\ c.kind # "metrics"
    BY <1>15, <2>1, <2>2
  <2> QED BY <1>0, <2>3, MonitoringFilled DEF Backed, MetricLoads
<1> QED
  BY <1>4, <1>6, <1>7, <1>8, <1>9, <1>10, <1>12, <1>13, <1>16, <1>17, <1>18, <1>19, <1>20
  DEF M!Next, M!Deliver

-----------------------------------------------------------------------------
(* ProvidersPanel.  What a handler does with its answer depends on which   *)
(* of the kinds there are it awaits.                                       *)
ProviderWork == {"create", "schedule", "migrate", "list", "create reload"}
ProviderKinds == ProviderWork \cup {"clusters"}

ProvidersInv ==
  /\ {"calls", "loading"} \subseteq DOMAIN page
  /\ Flagged(page.calls, FALSE, {}, page.loading, ProviderWork)
  /\ \A s \in Slots : page.calls[s] = Empty \/ page.calls[s].kind \in ProviderKinds

LEMMA ProvidersFilled ==
  ASSUME ProvidersInv, DOMAIN page' = DOMAIN page,
         NEW s \in Slots, NEW c, "kind" \in DOMAIN c, c = Empty \/ c.kind \in ProviderKinds,
         page'.calls = Filled(page.calls, s, c),
         Backed(page.loading, page'.loading, page.calls[s].kind, c.kind, ProviderWork)
  PROVE  ProvidersInv'
<1>1. Flagged(page'.calls, FALSE, {}, page'.loading, ProviderWork)
  BY FlaggedStep, OnlyShared DEF ProvidersInv
<1>2. \A t \in Slots : page'.calls[t] = Empty \/ page'.calls[t].kind \in ProviderKinds
  BY DEF ProvidersInv, Flagged, WellFormed, Filled
<1> QED BY <1>1, <1>2 DEF ProvidersInv, ProviderWork, ProviderKinds

LEMMA ProvidersMounted ==
  ASSUME page' \in V!Mounts
  PROVE  ProvidersInv'
<1> DEFINE first == V!Request("list")
           second == V!Request("clusters")
           s == CHOOSE t \in Slots : Unused[t] = Empty
           calls == Filled(Unused, s, first)
           u == CHOOSE t \in Slots : calls[t] = Empty
<1>1. s \in Slots /\ Unused[s] = Empty
  BY ConsoleAssumption DEF Unused
<1>2. /\ {"calls", "loading"} \subseteq DOMAIN page' /\ page'.loading = TRUE
      /\ page'.calls = V!Sent(V!Sent(V!NoCalls, first), second)
  BY DEF V!Mounts, V!Mounted
<1>3. V!Sent(V!NoCalls, first) = calls
  BY DEF V!Sent, V!NoCalls, V!Idle, Unused, Empty, Filled
<1> HIDE DEF s
<1>4. \E t \in Slots : calls[t] = Empty
  BY <1>1, SecondSlot
<1>5. u \in Slots /\ calls[u] = Empty
  BY <1>4
<1> HIDE DEF calls
<1>6. page'.calls = Filled(calls, u, second)
  BY <1>2, <1>3 DEF V!Sent, V!Idle, Empty, Filled
<1> HIDE DEF u
<1>7. /\ "kind" \in DOMAIN first /\ first.kind = "list"
      /\ "kind" \in DOMAIN second /\ second.kind = "clusters"
  BY DEF V!Request
<1> HIDE DEF first, second
<1>8. Unused[s].kind = "idle" /\ calls[u].kind = "idle"
  BY <1>1, <1>5 DEF Empty
<1>9. Flagged(Unused, FALSE, {}, FALSE, ProviderWork)
  BY FlaggedUnused DEF ProviderWork
<1>10. /\ Backed(FALSE, TRUE, "idle", "list", ProviderWork)
       /\ Backed(TRUE, TRUE, "idle", "clusters", ProviderWork)
  BY DEF Backed, ProviderWork
<1>11. Flagged(calls, FALSE, {}, TRUE, ProviderWork)
  BY <1>1, <1>7, <1>8, <1>9, <1>10, OnlyShared, FlaggedStep DEF calls
<1>12. Flagged(page'.calls, FALSE, {}, TRUE, ProviderWork)
  BY <1>5, <1>6, <1>7, <1>8, <1>10, <1>11, OnlyShared, FlaggedStep
<1>13. \A t \in Slots : calls[t] = Empty \/ calls[t].kind = "list"
  BY <1>1, <1>7 DEF calls, Filled, Unused
<1>14. /\ DOMAIN calls = Slots
       /\ \A t \in Slots : page'.calls[t] = second \/ page'.calls[t] = calls[t]
  BY <1>5, <1>6, <1>11 DEF Flagged, WellFormed, Filled
<1>15. \A t \in Slots : page'.calls[t] = Empty \/ page'.calls[t].kind \in ProviderKinds
  BY <1>7, <1>13, <1>14 DEF ProviderKinds, ProviderWork
<1> QED BY <1>2, <1>12, <1>15 DEF ProvidersInv, ProviderWork, ProviderKinds

LEMMA ProvidersStep ==
  ASSUME ProvidersInv, V!Next
  PROVE  ProvidersInv'
<1>0. /\ {"calls", "loading"} \subseteq DOMAIN page /\ page.loading \in BOOLEAN
      /\ \A s \in Slots : "kind" \in DOMAIN page.calls[s]
      /\ \A s \in Slots : page.calls[s] = V!Idle \/ page.calls[s].kind \in ProviderKinds
      /\ DOMAIN page.calls = Slots
  BY DEF ProvidersInv, Flagged, Covered, WellFormed, Empty, V!Idle
<1>1. ASSUME DOMAIN page' = DOMAIN page, page'.calls = page.calls, page'.loading = page.loading
      PROVE  ProvidersInv'
  BY <1>1 DEF ProvidersInv
<1>2. "kind" \in DOMAIN Empty /\ Empty.kind = "idle"
  BY DEF Empty
<1>3. \A kind : "kind" \in DOMAIN V!Request(kind) /\ V!Request(kind).kind = kind
  BY DEF V!Request
<1>4. ASSUME NEW inputs, V!Fill(inputs) PROVE ProvidersInv'
  BY <1>0, <1>1, <1>4 DEF V!Fill
<1>5. CASE V!ClearChoice
  BY <1>4, <1>5 DEF V!ClearChoice
<1>6. CASE V!OpenDetails \/ V!CloseDetails
  BY <1>0, <1>1, <1>6 DEF V!OpenDetails, V!CloseDetails
<1>7. ASSUME NEW needed, V!Complain(needed) PROVE ProvidersInv'
  BY <1>0, <1>1, <1>7 DEF V!Complain
<1>8. ASSUME NEW kind \in {"create", "schedule", "migrate"}, V!Act(kind) PROVE ProvidersInv'
  <2> DEFINE s == CHOOSE t \in Slots : page.calls[t] = V!Idle
             call == V!Request(kind)
  <2>1. s \in Slots /\ page.calls[s] = V!Idle
    BY <1>8 DEF V!Act, V!HasRoom
  <2>2. /\ DOMAIN page' = DOMAIN page /\ page'.loading = TRUE
        /\ page'.calls = Filled(page.calls, s, call)
    BY <1>0, <1>8 DEF V!Act, V!Sent, Filled
  <2> HIDE DEF s
  <2>3. "kind" \in DOMAIN call /\ call.kind = kind
    BY <1>3
  <2> HIDE DEF call
  <2>4. call.kind \in ProviderKinds
    BY <2>3 DEF ProviderKinds, ProviderWork
  <2>5. Backed(page.loading, page'.loading, page.calls[s].kind, call.kind, ProviderWork)
    BY <2>2, <2>3 DEF Backed, ProviderWork
  <2> QED BY <2>1, <2>2, <2>3, <2>4, <2>5, ProvidersFilled
<1>9. CASE V!Create
  BY <1>8, <1>9 DEF V!Create
<1>10. CASE V!Schedule
  BY <1>7, <1>8, <1>10 DEF V!Schedule
<1>11. CASE V!Migrate
  BY <1>7, <1>8, <1>11 DEF V!Migrate
<1>12. ASSUME NEW s \in Slots, V!Serve(s) PROVE ProvidersInv'
  <2> DEFINE stored == page.stored + IF page.calls[s].kind = "create" THEN 1 ELSE 0
             c == [page.calls[s] EXCEPT !.served = TRUE, !.answer = stored]
  <2>1. /\ page.calls[s] # V!Idle
        /\ DOMAIN page' = DOMAIN page /\ page'.loading = page.loading
        /\ page'.calls = Filled(page.calls, s, c)
    BY <1>0, <1>12 DEF V!Serve, Filled
  <2>2. "kind" \in DOMAIN c /\ c.kind = page.calls[s].kind
    BY <1>0
  <2> HIDE DEF c
  <2> QED BY <1>0, <2>1, <2>2, ProvidersFilled DEF Backed
<1>13. ASSUME NEW s \in Slots, page.calls[s] # V!Idle,
              DOMAIN page' = DOMAIN page, page'.calls = Filled(page.calls, s, Empty),
              page'.loading = IF page.calls[s].kind = "clusters" THEN page.loading ELSE FALSE
       PROVE  ProvidersInv'
  <2>1. Backed(page.loading, page'.loading, page.calls[s].kind, Empty.kind, ProviderWork)
    BY <1>0, <1>13 DEF Backed, ProviderWork
  <2> QED BY <1>2, <1>13, <2>1, ProvidersFilled
<1>14. ASSUME NEW s \in Slots, V!Deliver(s) PROVE ProvidersInv'
  <2> DEFINE c == page.calls[s]
             done == [page EXCEPT !.calls = V!Done(@, s), !.loading = @ /\ c.kind = "clusters"]
             call == V!Request("create reload")
  <2>1. page.calls[s] # V!Idle /\ c.kind \in ProviderKinds
    BY <1>0, <1>14 DEF V!Deliver
  <2>2. CASE c.kind = "create"
    <3>1. /\ DOMAIN page' = DOMAIN page /\ page'.loading = TRUE
          /\ page'.calls = Filled(page.calls, s, call)
      BY <1>0, <1>14, <2>2 DEF V!Deliver, Filled
    <3>2. "kind" \in DOMAIN call /\ call.kind = "create reload"
      BY <1>3
    <3> HIDE DEF call
    <3>3. /\ call.kind \in ProviderKinds
          /\ Backed(page.loading, page'.loading, page.calls[s].kind, call.kind, ProviderWork)
      BY <3>1, <3>2 DEF Backed, ProviderKinds, ProviderWork
    <3> QED BY <3>1, <3>2, <3>3, ProvidersFilled
  <2>3. CASE c.kind # "create"
    <3>1. /\ DOMAIN done = DOMAIN page /\ done.calls = Filled(page.calls, s, Empty)
          /\ done.loading = IF c.kind = "clusters" THEN page.loading ELSE FALSE
      BY <1>0 DEF V!Done, V!Idle, Empty, Filled
    <3>2. \/ page' = [done EXCEPT !.providers = c.answer]
          \/ page' = [done EXCEPT !.details = "placement"]
          \/ page' = [done EXCEPT !.details = "migration"]
          \/ page' = [done EXCEPT !.clusters = TRUE]
      BY <1>14, <2>1, <2>3 DEF V!Deliver, ProviderKinds, ProviderWork
    <3> HIDE DEF done
    <3>3. /\ DOMAIN page' = DOMAIN page /\ page'.calls = Filled(page.calls, s, Empty)
          /\ page'.loading = IF c.kind = "clusters" THEN page.loading ELSE FALSE
      BY <1>0, <3>1, <3>2
    <3> QED BY <1>13, <2>1, <3>3
  <2> QED BY <2>2, <2>3
<1>15. ASSUME NEW s \in Slots, V!Fail(s) PROVE ProvidersInv'
  <2>1. /\ page.calls[s] # V!Idle
        /\ DOMAIN page' = DOMAIN page /\ page'.calls = Filled(page.calls, s, Empty)
        /\ page'.loading = IF page.calls[s].kind = "clusters" THEN page.loading ELSE FALSE
    BY <1>0, <1>15 DEF V!Fail, V!Done, V!Idle, Empty, Filled
  <2> QED BY <1>13, <2>1
<1> QED
  BY <1>4, <1>5, <1>6, <1>9, <1>10, <1>11, <1>12, <1>14, <1>15 DEF V!Next

-----------------------------------------------------------------------------
(* The flags of whichever page is mounted.                                 *)
FlagsInv ==
  /\ route = "clusters" => ClustersInv
  /\ route = "deployments" => DeploymentsInv
  /\ route = "rules" => RulesInv
  /\ route = "jobs" => JobFlagsInv
  /\ route = "provisioning" => ProvisioningInv
  /\ route = "new" => NewInv
  /\ route = "billing" => BillingInv
  /\ route = "monitoring" => MonitoringInv
  /\ route = "providers" => ProvidersInv

LEMMA FlagsKept ==
  ASSUME UNCHANGED <<route, page>>, FlagsInv
  PROVE  FlagsInv'
BY DEF FlagsInv, ClustersInv, DeploymentsInv, RulesInv, JobFlagsInv, ProvisioningInv,
       NewInv, BillingInv, MonitoringInv, ProvidersInv,
       C!Saves, C!Loads, R!Starts, R!Loads, L!Saves, L!Loads, RuleLoads,
       J!Creations, J!Lists, JobGets, P!Creations, NewLoads, Estimates, MetricLoads,
       ProviderWork, ProviderKinds

LEMMA FlagsOpened ==
  ASSUME Opens
  PROVE  FlagsInv'
<1>1. page' \in Mounts(route')
  BY DEF Opens
<1>2. route' = "clusters" => ClustersInv'
  BY <1>1, ClustersMounted DEF Mounts
<1>3. route' = "deployments" => DeploymentsInv'
  BY <1>1, DeploymentsMounted DEF Mounts
<1>4. route' = "rules" => RulesInv'
  BY <1>1, RulesMounted DEF Mounts
<1>5. route' = "jobs" => JobFlagsInv'
  BY <1>1, JobFlagsMounted DEF Mounts
<1>6. route' = "provisioning" => ProvisioningInv'
  BY <1>1, ProvisioningMounted DEF Mounts
<1>7. route' = "new" => NewInv'
  BY <1>1, NewMounted DEF Mounts
<1>8. route' = "billing" => BillingInv'
  BY <1>1, BillingMounted DEF Mounts
<1>9. route' = "monitoring" => MonitoringInv'
  BY <1>1, MonitoringMounted DEF Mounts
<1>10. route' = "providers" => ProvidersInv'
  BY <1>1, ProvidersMounted DEF Mounts
<1> QED
  BY <1>2, <1>3, <1>4, <1>5, <1>6, <1>7, <1>8, <1>9, <1>10 DEF FlagsInv

LEMMA FlagsStepped ==
  ASSUME FlagsInv, route' = route, PageStep
  PROVE  FlagsInv'
BY ClustersStep, DeploymentsStep, RulesStep, JobFlagsStep, ProvisioningStep, NewStep,
   BillingStep, MonitoringStep, ProvidersStep DEF FlagsInv, PageStep

LEMMA FlagsAlways == Spec => []FlagsInv
<1>1. Init => FlagsInv
  BY DEF Init, FlagsInv
<1>2. FlagsInv /\ [Next]_vars => FlagsInv'
  BY StepKinds, FlagsKept, FlagsOpened, FlagsStepped
<1> QED BY <1>1, <1>2, PTL DEF Spec

LEMMA InFlightWaiting ==
  ASSUME NEW calls, NEW kinds
  PROVE  /\ C!InFlight(calls, kinds) = Waiting(calls, kinds)
         /\ R!InFlight(calls, kinds) = Waiting(calls, kinds)
         /\ L!InFlight(calls, kinds) = Waiting(calls, kinds)
         /\ J!InFlight(calls, kinds) = Waiting(calls, kinds)
         /\ P!InFlight(calls, kinds) = Waiting(calls, kinds)
         /\ N!InFlight(calls, kinds) = Waiting(calls, kinds)
         /\ B!InFlight(calls, kinds) = Waiting(calls, kinds)
         /\ M!InFlight(calls, kinds) = Waiting(calls, kinds)
         /\ V!InFlight(calls, kinds) = Waiting(calls, kinds)
BY DEF Waiting, C!InFlight, R!InFlight, L!InFlight, J!InFlight, P!InFlight, N!InFlight,
       B!InFlight, M!InFlight, V!InFlight

(* The pages' modules each have the standard operator as one of theirs.    *)
LEMMA OneCardinality ==
  ASSUME NEW S
  PROVE  /\ J!Cardinality(S) = Cardinality(S)
         /\ P!Cardinality(S) = Cardinality(S)
         /\ R!Cardinality(S) = Cardinality(S)
         /\ B!Cardinality(S) = Cardinality(S)
         /\ N!Cardinality(S) = Cardinality(S)
         /\ C!Cardinality(S) = Cardinality(S)
         /\ L!Cardinality(S) = Cardinality(S)
BY DEF Cardinality, J!Cardinality, P!Cardinality, R!Cardinality, B!Cardinality,
       N!Cardinality, C!Cardinality, L!Cardinality

LEMMA AtMostOne ==
  ASSUME NEW flag, NEW calls, NEW kinds, Exactly(flag, calls, kinds)
  PROVE  Cardinality(Waiting(calls, kinds)) <= 1
BY ExactlyOne

(* JobPanel.tsx, ProvisioningPanel.tsx, DeploymentsPanel.tsx,              *)
(* BillingPanel.tsx, CreateClusterPanel.tsx: however many requests are on  *)
(* their way, at most one of them is what a busy flag guards; an estimate  *)
(* and a new cluster are on their way exactly when their flag is on.       *)
THEOREM OneAtATimeHolds == Spec => []OneAtATime
<1>1. FlagsInv => OneAtATime
  <2> SUFFICES ASSUME FlagsInv PROVE OneAtATime
    OBVIOUS
  <2>1. route = "jobs" => J!OneCreation
    <3> SUFFICES ASSUME JobFlagsInv PROVE J!OneCreation
      BY DEF FlagsInv
    <3>1. Exactly(page.creating, page.calls, J!Creations)
      BY DEF JobFlagsInv, Flagged
    <3>2. Cardinality(Waiting(page.calls, J!Creations)) <= 1
      BY <3>1, AtMostOne
    <3>3. J!InFlight(page.calls, J!Creations) = Waiting(page.calls, J!Creations)
      BY InFlightWaiting
    <3> QED BY <3>2, <3>3, OneCardinality DEF J!OneCreation
  <2>2. route = "provisioning" => P!OneCreation
    <3> SUFFICES ASSUME ProvisioningInv PROVE P!OneCreation
      BY DEF FlagsInv
    <3>1. Exactly(page.loading, page.calls, P!Creations)
      BY DEF ProvisioningInv, Flagged
    <3>2. Cardinality(Waiting(page.calls, P!Creations)) <= 1
      BY <3>1, AtMostOne
    <3>3. P!InFlight(page.calls, P!Creations) = Waiting(page.calls, P!Creations)
      BY InFlightWaiting
    <3> QED BY <3>2, <3>3, OneCardinality DEF P!OneCreation
  <2>3. route = "deployments" => R!OneStart
    <3> SUFFICES ASSUME DeploymentsInv PROVE R!OneStart
      BY DEF FlagsInv
    <3>1. Exactly(page.creating, page.calls, R!Starts)
      BY DEF DeploymentsInv, Flagged
    <3>2. Cardinality(Waiting(page.calls, R!Starts)) <= 1
      BY <3>1, AtMostOne
    <3>3. R!InFlight(page.calls, R!Starts) = Waiting(page.calls, R!Starts)
      BY InFlightWaiting
    <3> QED BY <3>2, <3>3, OneCardinality DEF R!OneStart
  <2>4. route = "billing" => B!OneEstimate
    <3> SUFFICES ASSUME BillingInv PROVE B!OneEstimate
      BY DEF FlagsInv
    <3>1. Exactly(page.loading, page.calls, Estimates)
      BY DEF BillingInv, Flagged
    <3>2. Cardinality(Waiting(page.calls, Estimates)) = IF page.loading THEN 1 ELSE 0
      BY <3>1, ExactlyOne
    <3>3. B!InFlight(page.calls, Estimates) = Waiting(page.calls, Estimates)
      BY InFlightWaiting
    <3> QED BY <3>2, <3>3, OneCardinality DEF B!OneEstimate, Estimates
  <2>5. route = "new" => N!OneSubmission
    <3> SUFFICES ASSUME NewInv PROVE N!OneSubmission
      BY DEF FlagsInv
    <3>1. Exactly(page.saving, page.calls, NewLoads)
      BY DEF NewInv, Flagged
    <3>2. Cardinality(Waiting(page.calls, NewLoads)) = IF page.saving THEN 1 ELSE 0
      BY <3>1, ExactlyOne
    <3>3. N!InFlight(page.calls, NewLoads) = Waiting(page.calls, NewLoads)
      BY InFlightWaiting
    <3> QED BY <3>2, <3>3, OneCardinality DEF N!OneSubmission, NewLoads
  <2> QED BY <2>1, <2>2, <2>3, <2>4, <2>5 DEF OneAtATime
<1> QED BY <1>1, FlagsAlways, PTL

(* ClustersPanel.tsx, LimiterRulesPanel.tsx: nothing that opens or closes  *)
(* the editor while a save is on its way makes room for a second save.     *)
THEOREM OneSaveHolds == Spec => []OneSave
<1>1. FlagsInv => OneSave
  <2> SUFFICES ASSUME FlagsInv PROVE OneSave
    OBVIOUS
  <2>1. route = "clusters" => C!OneSave
    <3> SUFFICES ASSUME ClustersInv PROVE C!OneSave
      BY DEF FlagsInv
    <3>1. Exactly(page.saving, page.calls, C!Saves)
      BY DEF ClustersInv, Flagged
    <3>2. Cardinality(Waiting(page.calls, C!Saves)) <= 1
      BY <3>1, AtMostOne
    <3>3. C!InFlight(page.calls, C!Saves) = Waiting(page.calls, C!Saves)
      BY InFlightWaiting
    <3> QED BY <3>2, <3>3, OneCardinality DEF C!OneSave
  <2>2. route = "rules" => L!OneSave
    <3> SUFFICES ASSUME RulesInv PROVE L!OneSave
      BY DEF FlagsInv
    <3>1. Exactly(page.submitting, page.calls, L!Saves)
      BY DEF RulesInv, Flagged
    <3>2. Cardinality(Waiting(page.calls, L!Saves)) <= 1
      BY <3>1, AtMostOne
    <3>3. L!InFlight(page.calls, L!Saves) = Waiting(page.calls, L!Saves)
      BY InFlightWaiting
    <3> QED BY <3>2, <3>3, OneCardinality DEF L!OneSave
  <2> QED BY <2>1, <2>2 DEF OneSave
<1> QED BY <1>1, FlagsAlways, PTL

(* On every page that has one, a flag that is on has a request behind it   *)
(* whose answer or failure turns it off: no interleaving of requests,      *)
(* failures and reloads leaves a page busy for good.                       *)
THEOREM BusyFlagsSettleHolds == Spec => []BusyFlagsSettle
<1>1. FlagsInv => BusyFlagsSettle
  <2> SUFFICES ASSUME FlagsInv PROVE BusyFlagsSettle
    OBVIOUS
  <2> USE InFlightWaiting DEF FlagsInv, Flagged, Exactly, Covered
  <2>1. route = "jobs" => J!Settles
    BY DEF JobFlagsInv, J!Settles, JobGets
  <2>2. route = "monitoring" => M!Settles
    BY DEF MonitoringInv, M!Settles, MetricLoads
  <2>3. route = "provisioning" => P!Settles
    BY DEF ProvisioningInv, P!Settles
  <2>4. route = "deployments" => R!Settles
    BY DEF DeploymentsInv, R!Settles
  <2>5. route = "clusters" => C!Settles
    BY DEF ClustersInv, C!Settles
  <2>6. route = "rules" => L!Settles
    BY DEF RulesInv, L!Settles, RuleLoads
  <2>7. V!Actions \cup {"list", "create reload"} = ProviderWork
    BY DEF V!Actions, ProviderWork
  <2>8. route = "providers" => V!Settles
    BY <2>7 DEF ProvidersInv, V!Settles
  <2> QED BY <2>1, <2>2, <2>3, <2>4, <2>5, <2>6, <2>8 DEF BusyFlagsSettle
<1> QED BY <1>1, FlagsAlways, PTL
=============================================================================
