------------------------ MODULE DiagnosisPanelProofs ------------------------
(* Proofs about DiagnosisPanel, for any clusters, history length, number   *)
(* of recommendations and number of requests.                              *)
EXTENDS DiagnosisPanel, SequenceTheorems, TLAPS

(* An entry in front of a history of results, cut to Kept, is one again.   *)
LEMMA ExtendedIsHistory ==
  ASSUME NEW result \in Results, NEW base \in Histories
  PROVE  Extended(result, base) \in Histories
<1>1. PICK k \in 0 .. Kept : base \in [1 .. k -> Results]
  BY DEF Histories
<1> DEFINE n == IF k < Kept - 1 THEN k ELSE Kept - 1
<1>2. n \in 0 .. Kept - 1 /\ n =< k /\ n + 1 \in 0 .. Kept
  BY DiagnosisAssumption
<1>3. base \in Seq(Results) /\ Len(base) = k
  BY <1>1
<1>4. SubSeq(base, 1, n) \in Seq(Results) /\ Len(SubSeq(base, 1, n)) = n
  BY <1>2, <1>3
<1>5. Extended(result, base) = <<result>> \o SubSeq(base, 1, n)
  BY <1>3, DiagnosisAssumption DEF Extended
<1> HIDE DEF n
<1>6. /\ <<result>> \o SubSeq(base, 1, n) \in Seq(Results)
      /\ Len(<<result>> \o SubSeq(base, 1, n)) = n + 1
  BY <1>2, <1>4
<1>7. <<result>> \o SubSeq(base, 1, n) \in [1 .. n + 1 -> Results]
  BY <1>6, LenProperties
<1> QED BY <1>2, <1>5, <1>7 DEF Histories

-----------------------------------------------------------------------------
(* What TypeOK needs to be inductive: the numbering of the requests.       *)
TypeInv == TypeOK /\ asked \in Nat /\ orders \in Nat

(* The variables are of their types; in particular neither the history on  *)
(* display nor the saved one ever outgrows Kept, however manual and        *)
(* automatic diagnoses, loads and clears interleave.                       *)
LEMMA TypeInductive == TypeInv /\ [Next]_vars => TypeInv'
<1> SUFFICES ASSUME TypeInv, [Next]_vars PROVE TypeInv'
  OBVIOUS
<1> USE DiagnosisAssumption DEF TypeInv, TypeOK
<1>1. \A id \in Clusters : Open(id) => TypeInv'
  BY DEF Open, Fresh, Tabs
<1>2. Leave => TypeInv'
  <2> SUFFICES ASSUME Leave PROVE TypeInv'
    OBVIOUS
  <2>1. <<>> \in Histories
    <3>1. <<>> \in [1 .. 0 -> Results]
      OBVIOUS
    <3> QED BY <3>1 DEF Histories
  <2>2. \A b \in calls : [b EXCEPT !.live = FALSE] \in DiagnosisCalls \cup JobCalls
    BY DEF DiagnosisCalls, JobCalls
  <2> QED BY <2>1, <2>2 DEF Leave, Fresh, Tabs, store, counts, ghosts, marking
<1>3. ASSUME NEW id \in Clusters \cup {None}, NEW base \in Histories, NEW b \in BOOLEAN,
             Ask(id, base, b),
             UNCHANGED <<mounted, activeTab, orders, mounts, screen, refresh, store, ghosts>>
      PROVE  TypeInv'
  <2>1. CASE id = None
    BY <1>3, <2>1 DEF Ask, screen, refresh, store, ghosts, marking
  <2>2. CASE id # None
    <3>1. [n |-> asked + 1, cluster |-> id] \in Results
      BY <1>3, <2>2 DEF Ask, Results
    <3> DEFINE call == [kind |-> "diagnose", live |-> TRUE, base |-> base,
                        result |-> [n |-> asked + 1, cluster |-> id]]
    <3>2. call \in DiagnosisCalls
      BY <3>1 DEF DiagnosisCalls
    <3>3. calls' = calls \cup {call} /\ asked' = asked + 1
      BY <1>3, <2>2 DEF Ask
    <3>4. loading' \in BOOLEAN /\ analyzing' \in BOOLEAN
      BY <1>3, <2>2, Zenon DEF Ask
    <3> HIDE DEF call
    <3> QED BY <1>3, <3>2, <3>3, <3>4 DEF screen, refresh, store, ghosts, marking
  <2> QED BY <2>1, <2>2
<1>4. ClickDiagnose \/ PressEnter \/ Tick => TypeInv'
  BY <1>3 DEF ClickDiagnose, PressEnter, Tick, Remembered
<1>5. ASSUME NEW c \in calls, AnswerDiagnosis(c) PROVE TypeInv'
  <2>1. c \in DiagnosisCalls
    BY <1>5 DEF AnswerDiagnosis, Diagnoses, JobCalls
  <2>2. c.result \in Results /\ Extended(c.result, c.base) \in Histories
    BY <2>1, ExtendedIsHistory DEF DiagnosisCalls
  <2>3. CASE c.live
    <3>1. [diagnosis |-> c.result, metrics |-> c.result]
            \in [diagnosis : Results, metrics : Results]
      BY <2>2
    <3>2. shown' = [diagnosis |-> c.result, metrics |-> c.result]
      BY <1>5, <2>3, Zenon DEF AnswerDiagnosis
    <3> QED BY <1>5, <2>2, <2>3, <3>1, <3>2 DEF AnswerDiagnosis, counts, refresh
  <2>4. CASE ~c.live
    BY <1>5, <2>2, <2>4 DEF AnswerDiagnosis, screen, busy, counts, refresh
  <2> QED BY <2>3, <2>4
<1>6. \A c \in calls : FailDiagnosis(c) => TypeInv'
  BY DEF FailDiagnosis, counts, screen, refresh, store, ghosts, marking
<1>7. ToggleAutoRefresh => TypeInv'
  BY DEF ToggleAutoRefresh, Rearm, Remembered, counts, screen, busy, store, ghosts, marking
<1>8. \A id \in Clusters \cup {None} : ChooseCluster(id) => TypeInv'
  BY DEF ChooseCluster, Rearm, Remembered, counts, screen, busy, store, ghosts, marking
<1>9. \A t \in Tabs : SelectTab(t) => TypeInv'
  BY DEF SelectTab, counts, screen, refresh, busy, store, ghosts, marking
<1>10. ASSUME NEW k \in DOMAIN history, LoadFromHistory(k) PROVE TypeInv'
  <2>1. history[k] \in Results /\ history[k].cluster \in Clusters
    BY DEF Histories, Results
  <2> QED BY <1>10, <2>1 DEF LoadFromHistory, Rearm, Remembered, Tabs, counts, busy, store, ghosts, marking
<1>11. ClearHistory => TypeInv'
  <2>1. <<>> \in Histories
    <3>1. <<>> \in [1 .. 0 -> Results]
      OBVIOUS
    <3> QED BY <3>1 DEF Histories
  <2> QED BY <2>1 DEF ClearHistory, counts, screen, refresh, busy, ghosts, marking
<1>12. \A i \in Recommendations : Dismiss(i) => TypeInv'
  BY DEF Dismiss, refresh, busy, store, counts, ghosts, marking
<1>13. ResetActions => TypeInv'
  BY DEF ResetActions, refresh, busy, store, counts, ghosts, marking
<1>a. ASSUME NEW i \in Recommendations \cup {None}, RequestJob(i), shown # None
      PROVE  calls' \subseteq DiagnosisCalls \cup JobCalls /\ orders' \in Nat
  <2> DEFINE call == [kind |-> "job", live |-> TRUE, of |-> shown.diagnosis,
                      rec |-> i, n |-> orders + 1]
  <2>1. call \in JobCalls
    BY <1>a DEF JobCalls
  <2>2. calls' = calls \cup {call} /\ orders' = orders + 1
    BY <1>a DEF RequestJob
  <2> HIDE DEF call
  <2> QED BY <2>1, <2>2
<1>14. \A i \in Recommendations : Implement(i) => TypeInv'
  BY <1>a DEF Implement, Listed, screen, refresh, busy, store, ghosts, marking
<1>15. CreateJob => TypeInv'
  BY <1>a DEF CreateJob, screen, refresh, busy, store, ghosts, marking
<1>16. ASSUME NEW c \in calls, AnswerJob(c) PROVE TypeInv'
  <2>1. c.rec \in Recommendations \cup {None} /\ c.of \in Results
    BY <1>16 DEF AnswerJob, Diagnoses, DiagnosisCalls, JobCalls
  <2> QED BY <1>16, <2>1 DEF AnswerJob, refresh, busy, store, counts, marking
<1>17. \A c \in calls : FailJob(c) => TypeInv'
  BY DEF FailJob, screen, refresh, busy, store, counts, ghosts, marking
<1>18. UNCHANGED vars => TypeInv'
  BY DEF vars, screen, refresh, busy, store, counts, ghosts, marking
<1> QED BY <1>1, <1>2, <1>4, <1>5, <1>6, <1>7, <1>8, <1>9, <1>10, <1>11, <1>12, <1>13,
           <1>14, <1>15, <1>16, <1>17, <1>18 DEF Next, Click, Answer

LEMMA InitTyped == Init => TypeInv
<1>1. <<>> \in [1 .. 0 -> Results] /\ 0 \in 0 .. Kept
  BY DiagnosisAssumption
<1>2. <<>> \in Histories
  BY <1>1 DEF Histories
<1>3. Init => TypeOK
  BY <1>2, Zenon DEF Init, TypeOK, Tabs
<1> QED BY <1>3 DEF Init, TypeInv

(* The types of the page's state, and the bound on the history it keeps.   *)
THEOREM TypeCorrect == Spec => []TypeOK
<1>1. TypeInv => TypeOK
  BY DEF TypeInv
<1> QED BY <1>1, InitTyped, TypeInductive, PTL DEF Spec

-----------------------------------------------------------------------------
(* The history on display is the saved one, unless the handler of an       *)
(* earlier mount wrote localStorage: only an answer writes both, and the   *)
(* one write that leaves the display alone comes from a mount that is gone. *)
THEOREM HistoryIsPersisted == Spec => []HistoryPersisted
<1>1. Init => HistoryPersisted
  BY DEF Init, HistoryPersisted
<1>2. HistoryPersisted /\ [Next]_vars => HistoryPersisted'
  <2> SUFFICES ASSUME HistoryPersisted, [Next]_vars PROVE HistoryPersisted'
    OBVIOUS
  <2> USE DEF HistoryPersisted
  <2>1. \A id \in Clusters : Open(id) => HistoryPersisted'
    BY DEF Open, Fresh
  <2>2. Leave => HistoryPersisted'
    BY DEF Leave
  <2>3. \A c \in calls : AnswerDiagnosis(c) => HistoryPersisted'
    BY DEF AnswerDiagnosis
  <2>4. ClearHistory => HistoryPersisted'
    BY DEF ClearHistory
  <2>5. UNCHANGED <<mounted, store, foreign>> => HistoryPersisted'
    BY DEF store
  <2>6. ClickDiagnose \/ PressEnter \/ Tick => HistoryPersisted'
    BY <2>5 DEF ClickDiagnose, PressEnter, Tick, ghosts
  <2>7. \A c \in calls : FailDiagnosis(c) \/ AnswerJob(c) \/ FailJob(c) => HistoryPersisted'
    BY <2>5 DEF FailDiagnosis, AnswerJob, FailJob, ghosts
  <2>8. /\ ToggleAutoRefresh => HistoryPersisted'
        /\ \A id \in Clusters \cup {None} : ChooseCluster(id) => HistoryPersisted'
        /\ \A t \in Tabs : SelectTab(t) => HistoryPersisted'
        /\ \A k \in DOMAIN history : LoadFromHistory(k) => HistoryPersisted'
    BY <2>5 DEF ToggleAutoRefresh, ChooseCluster, SelectTab, LoadFromHistory, ghosts
  <2>9. /\ \A i \in Recommendations : Dismiss(i) \/ Implement(i) => HistoryPersisted'
        /\ ResetActions \/ CreateJob => HistoryPersisted'
    BY <2>5 DEF Dismiss, Implement, ResetActions, CreateJob, ghosts
  <2>10. UNCHANGED vars => HistoryPersisted'
    BY <2>5 DEF vars, ghosts
  <2> QED BY <2>1, <2>2, <2>3, <2>4, <2>6, <2>7, <2>8, <2>9, <2>10 DEF Next, Click, Answer
<1> QED BY <1>1, <1>2, PTL DEF Spec

-----------------------------------------------------------------------------
(* A diagnosis never stands beside the metrics of another one.             *)
THEOREM ShownIsWhole == Spec => []ShownWhole
<1>1. Init => ShownWhole
  BY DEF Init, ShownWhole
<1>2. ShownWhole /\ [Next]_vars => ShownWhole'
  <2> SUFFICES ASSUME ShownWhole, [Next]_vars PROVE ShownWhole'
    OBVIOUS
  <2> USE DEF ShownWhole
  <2>1. (\E id \in Clusters : Open(id)) \/ Leave => ShownWhole'
    BY DEF Open, Leave, Fresh
  <2>2. \A c \in calls : AnswerDiagnosis(c) => ShownWhole'
    BY DEF AnswerDiagnosis, screen
  <2>3. \A k \in DOMAIN history : LoadFromHistory(k) => ShownWhole'
    BY DEF LoadFromHistory
  <2>4. UNCHANGED shown => ShownWhole'
    OBVIOUS
  <2>5. ClickDiagnose \/ PressEnter \/ Tick \/ ToggleAutoRefresh \/ ClearHistory => ShownWhole'
    BY <2>4 DEF ClickDiagnose, PressEnter, Tick, ToggleAutoRefresh, ClearHistory, screen
  <2>6. \A c \in calls : FailDiagnosis(c) \/ AnswerJob(c) \/ FailJob(c) => ShownWhole'
    BY <2>4 DEF FailDiagnosis, AnswerJob, FailJob, screen
  <2>7. /\ \A id \in Clusters \cup {None} : ChooseCluster(id) => ShownWhole'
        /\ \A t \in Tabs : SelectTab(t) => ShownWhole'
    BY <2>4 DEF ChooseCluster, SelectTab, screen
  <2>8. /\ \A i \in Recommendations : Dismiss(i) \/ Implement(i) => ShownWhole'
        /\ ResetActions \/ CreateJob => ShownWhole'
    BY <2>4 DEF Dismiss, Implement, ResetActions, CreateJob, screen
  <2>9. UNCHANGED vars => ShownWhole'
    BY <2>4 DEF vars, screen
  <2> QED BY <2>1, <2>2, <2>3, <2>5, <2>6, <2>7, <2>8, <2>9 DEF Next, Click, Answer
<1> QED BY <1>1, <1>2, PTL DEF Spec

-----------------------------------------------------------------------------
(* The busy flags are off once the last diagnosis of the page is answered  *)
(* or has failed, whatever else was in flight.                             *)
THEOREM BusyFlagsSettle == Spec => []Settles
<1>1. Init => Settles
  BY DEF Init, Settles
<1>2. Settles /\ [Next]_vars => Settles'
  <2> SUFFICES ASSUME Settles, [Next]_vars PROVE Settles'
    OBVIOUS
  <2> USE DEF Settles, Diagnoses
  <2>1. (\E id \in Clusters : Open(id)) \/ Leave => Settles'
    BY DEF Open, Leave, Fresh
  <2>2. ASSUME NEW id, NEW base, NEW b, Ask(id, base, b) PROVE Settles'
    <3> DEFINE call == [kind |-> "diagnose", live |-> TRUE, base |-> base,
                        result |-> [n |-> asked + 1, cluster |-> id]]
    <3>1. CASE id = None
      BY <2>2, <3>1 DEF Ask
    <3>2. CASE id # None
      <4>1. call \in calls'
        BY <2>2, <3>2 DEF Ask
      <4>2. call.kind = "diagnose" /\ call.live
        OBVIOUS
      <4> HIDE DEF call
      <4> QED BY <4>1, <4>2
    <3> QED BY <3>1, <3>2
  <2>3. ClickDiagnose \/ PressEnter \/ Tick => Settles'
    BY <2>2 DEF ClickDiagnose, PressEnter, Tick
  <2>4. \A c \in calls : AnswerDiagnosis(c) => Settles'
    BY DEF AnswerDiagnosis, busy
  <2>5. \A c \in calls : FailDiagnosis(c) => Settles'
    BY DEF FailDiagnosis
  <2>6. UNCHANGED <<calls, busy>> => Settles'
    BY DEF busy
  <2>7. \A c \in calls : AnswerJob(c) \/ FailJob(c) => Settles'
    BY DEF AnswerJob, FailJob, busy
  <2>8. /\ \A i \in Recommendations : Implement(i) => Settles'
        /\ CreateJob => Settles'
    BY DEF Implement, CreateJob, RequestJob, busy
  <2>9. /\ ToggleAutoRefresh \/ ClearHistory \/ ResetActions => Settles'
        /\ \A id \in Clusters \cup {None} : ChooseCluster(id) => Settles'
        /\ \A t \in Tabs : SelectTab(t) => Settles'
        /\ \A k \in DOMAIN history : LoadFromHistory(k) => Settles'
        /\ \A i \in Recommendations : Dismiss(i) => Settles'
    BY <2>6 DEF ToggleAutoRefresh, ClearHistory, ResetActions, ChooseCluster, SelectTab,
                LoadFromHistory, Dismiss
  <2>10. UNCHANGED vars => Settles'
    BY <2>6 DEF vars
  <2> QED BY <2>1, <2>3, <2>4, <2>5, <2>7, <2>8, <2>9, <2>10 DEF Next, Click, Answer
<1> QED BY <1>1, <1>2, PTL DEF Spec

-----------------------------------------------------------------------------
(* Unless the display was replaced under a mark or a job, the marks are of *)
(* the diagnosis on display, and so is every job that is going to mark one. *)
MarksInv ==
  /\ MarksWereAccepted
  /\ ~moved => \A c \in Marking : c.of = shown.diagnosis
  /\ ~mounted => Marking = {}

(* No new job, and nothing on display or about the marks changed.          *)
LEMMA MarksKept ==
  ASSUME MarksInv, Marking' \subseteq Marking,
         UNCHANGED <<mounted, shown, implemented, marking>>
  PROVE  MarksInv'
BY DEF MarksInv, MarksWereAccepted, marking

(* A job asked for under the diagnosis on display.                         *)
LEMMA MarksOrdered ==
  ASSUME MarksInv, NEW i, RequestJob(i), mounted, shown # None,
         UNCHANGED <<mounted, shown, implemented, marking>>
  PROVE  MarksInv'
<1> DEFINE call == [kind |-> "job", live |-> TRUE, of |-> shown.diagnosis,
                    rec |-> i, n |-> orders + 1]
<1>1. calls' = calls \cup {call} /\ call.of = shown.diagnosis
  BY DEF RequestJob
<1> HIDE DEF call
<1>2. Marking' \subseteq Marking \cup {call}
  BY <1>1 DEF Marking, Diagnoses
<1> QED BY <1>1, <1>2 DEF MarksInv, MarksWereAccepted, marking

LEMMA MarksStep == TypeInv /\ MarksInv /\ [Next]_vars => MarksInv'
<1> SUFFICES ASSUME TypeInv, MarksInv, [Next]_vars PROVE MarksInv'
  OBVIOUS
<1>1. ASSUME NEW id \in Clusters, Open(id) PROVE MarksInv'
  BY <1>1 DEF Open, Fresh, Marking, Diagnoses, MarksInv, MarksWereAccepted
<1>2. CASE Leave
  <2>1. calls' = {[c EXCEPT !.live = FALSE] : c \in calls} /\ implemented' = {}
    BY <1>2 DEF Leave, Fresh
  <2>2. \A c \in calls : [c EXCEPT !.live = FALSE].live = FALSE
    BY DEF TypeInv, TypeOK, DiagnosisCalls, JobCalls
  <2>3. Marking' = {}
    BY <2>1, <2>2 DEF Marking, Diagnoses
  <2> QED BY <2>1, <2>3 DEF MarksInv, MarksWereAccepted
<1>3. ASSUME NEW id, NEW base, NEW b, Ask(id, base, b),
             UNCHANGED <<mounted, screen, ghosts>>
      PROVE  MarksInv'
  <2> DEFINE call == [kind |-> "diagnose", live |-> TRUE, base |-> base,
                      result |-> [n |-> asked + 1, cluster |-> id]]
  <2>1. calls' = calls \/ calls' = calls \cup {call}
    BY <1>3 DEF Ask
  <2>2. call.kind = "diagnose"
    OBVIOUS
  <2> HIDE DEF call
  <2>3. Marking' \subseteq Marking
    BY <2>1, <2>2 DEF Marking, Diagnoses
  <2> QED BY <1>3, <2>3, MarksKept DEF screen, ghosts
<1>4. CASE ClickDiagnose \/ PressEnter \/ Tick
  BY <1>3, <1>4 DEF ClickDiagnose, PressEnter, Tick
<1>5. ASSUME NEW c \in calls, AnswerDiagnosis(c) PROVE MarksInv'
  <2>1. Marking' = Marking
    BY <1>5 DEF AnswerDiagnosis, Marking, Diagnoses
  <2>2. CASE c.live
    <3>1. implemented' = {} /\ moved' = (Marking # {}) /\ mounted' = mounted
      BY <1>5, <2>2 DEF AnswerDiagnosis
    <3> QED BY <2>1, <3>1 DEF MarksInv, MarksWereAccepted
  <2>3. CASE ~c.live
    BY <1>5, <2>1, <2>3, MarksKept DEF AnswerDiagnosis, screen, marking
  <2> QED BY <2>2, <2>3
<1>6. ASSUME NEW c \in calls, FailDiagnosis(c) \/ FailJob(c) PROVE MarksInv'
  <2>1. Marking' \subseteq Marking
    BY <1>6 DEF FailDiagnosis, FailJob, Marking, Diagnoses
  <2> QED BY <1>6, <2>1, MarksKept DEF FailDiagnosis, FailJob, screen, ghosts
<1>7. ASSUME NEW c \in calls, AnswerJob(c) PROVE MarksInv'
  <2>1. /\ Marking' \subseteq Marking /\ UNCHANGED <<mounted, shown, moved>>
    BY <1>7 DEF AnswerJob, Marking, Diagnoses
  <2>2. CASE c.live /\ c.rec # None
    <3>1. /\ implemented' = implemented \cup {c.rec}
          /\ accepted' = accepted \cup {<<c.of, c.rec>>}
      BY <1>7, <2>2 DEF AnswerJob
    <3>2. c \in Marking
      BY <1>7, <2>2 DEF AnswerJob, Marking
    <3> QED BY <2>1, <3>1, <3>2 DEF MarksInv, MarksWereAccepted
  <2>3. CASE ~(c.live /\ c.rec # None)
    BY <1>7, <2>1, <2>3, MarksKept DEF AnswerJob, marking
  <2> QED BY <2>2, <2>3
<1>8. ASSUME NEW k \in DOMAIN history, LoadFromHistory(k) PROVE MarksInv'
  <2>1. /\ Marking' = Marking /\ UNCHANGED <<mounted, implemented, accepted>>
        /\ moved' = (moved \/ (/\ implemented # {} \/ Marking # {}
                               /\ history[k] # shown.diagnosis))
        /\ shown' = [diagnosis |-> history[k], metrics |-> history[k]]
    BY <1>8 DEF LoadFromHistory, Marking, Diagnoses
  <2>2. SUFFICES ASSUME ~moved' PROVE
          /\ \A i \in implemented : <<shown'.diagnosis, i>> \in accepted
          /\ \A c \in Marking : c.of = shown'.diagnosis
    BY <2>1 DEF MarksInv, MarksWereAccepted
  <2>3. CASE implemented = {} /\ Marking = {}
    BY <2>3
  <2>4. CASE implemented # {} \/ Marking # {}
    <3>1. ~moved /\ history[k] = shown.diagnosis
      BY <2>1, <2>2, <2>4
    <3>2. shown'.diagnosis = shown.diagnosis
      BY <2>1, <3>1
    <3> QED BY <3>1, <3>2 DEF MarksInv, MarksWereAccepted
  <2> QED BY <2>3, <2>4
<1>9. CASE ResetActions
  <2>1. Marking' = Marking /\ implemented' = {} /\ UNCHANGED <<mounted, shown, moved>>
    BY <1>9 DEF ResetActions, Marking, Diagnoses, ghosts, marking
  <2> QED BY <2>1 DEF MarksInv, MarksWereAccepted
<1>10. ASSUME NEW i \in Recommendations, Implement(i) PROVE MarksInv'
  BY <1>10, MarksOrdered DEF Implement, Listed, screen, ghosts
<1>11. CASE CreateJob
  BY <1>11, MarksOrdered DEF CreateJob, screen, ghosts
<1>12. ASSUME UNCHANGED <<mounted, calls, shown, implemented, marking>> PROVE MarksInv'
  BY <1>12, MarksKept DEF Marking, Diagnoses
<1>13. CASE ToggleAutoRefresh \/ ClearHistory
  BY <1>12, <1>13 DEF ToggleAutoRefresh, ClearHistory, screen, ghosts
<1>14. /\ \A id \in Clusters \cup {None} : ChooseCluster(id) => MarksInv'
       /\ \A t \in Tabs : SelectTab(t) => MarksInv'
       /\ \A i \in Recommendations : Dismiss(i) => MarksInv'
  BY <1>12 DEF ChooseCluster, SelectTab, Dismiss, screen, ghosts
<1>15. CASE UNCHANGED vars
  BY <1>12, <1>15 DEF vars, screen, ghosts
<1> QED BY <1>1, <1>2, <1>4, <1>5, <1>6, <1>7, <1>8, <1>9, <1>10, <1>11, <1>13, <1>14, <1>15
        DEF Next, Click, Answer

(* As long as the display is not replaced under a mark or under a job that *)
(* is on its way, a marked recommendation is one of the diagnosis on       *)
(* display for which the backend accepted a job, however diagnoses by hand *)
(* and by the timer succeed each other.                                    *)
THEOREM MarksAreAccepted == Spec => []MarksWereAccepted
<1>1. Init => MarksInv
  BY DEF Init, MarksInv, MarksWereAccepted, Marking, Diagnoses
<1>2. Init => TypeInv
  BY InitTyped
<1>3. MarksInv => MarksWereAccepted
  BY DEF MarksInv
<1> QED BY <1>1, <1>2, <1>3, TypeInductive, MarksStep, PTL DEF Spec
=============================================================================
