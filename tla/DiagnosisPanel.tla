--------------------------- MODULE DiagnosisPanel ---------------------------
(***************************************************************************)
(* components/DiagnosisPanel.tsx: a page that diagnoses one cluster at a   *)
(* time, keeps a history of the diagnoses in localStorage, repeats the     *)
(* diagnosis on a timer, and turns recommendations into jobs.              *)
(*                                                                         *)
(* Nothing cancels a request.  Its handler resumes whenever the answer     *)
(* comes, with the variables of the render that started it: `base' below   *)
(* is the history such a handler remembers.  React ignores a state update  *)
(* of a page that was left, but a write to localStorage still happens.     *)
(***************************************************************************)
EXTENDS Naturals, Sequences, FiniteSets

CONSTANTS
  Clusters,        \* ids a user may name
  Kept,            \* entries the history keeps: ten
  RecCount,        \* recommendations of a diagnosis
  None,
  MaxDiagnoses,    \* bound: diagnoses asked for
  MaxOrders,       \* bound: jobs asked for
  MaxMounts        \* bound: times the page is opened

ASSUME DiagnosisAssumption == Kept \in Nat \ {0} /\ MaxDiagnoses \in Nat

VARIABLES
  mounted,       \* the page is open
  clusterId,     \* the input; None when blank
  shown,         \* the diagnosis and the metrics on display, or None
  activeTab,
  autoRefresh,
  timer,         \* what the interval's handler remembers, or None
  loading, analyzing,
  dismissed, implemented,   \* indices of recommendations
  history,       \* newest first
  saved,         \* localStorage
  calls,         \* requests in flight
  asked, orders, mounts,    \* numbers of requests and mounts so far
  accepted,      \* whose recommendations a job was accepted for (history)
  moved,         \* the display was replaced under a mark or a job (history)
  foreign        \* an earlier mount wrote localStorage (history)

screen == <<shown, dismissed, implemented>>
refresh == <<clusterId, autoRefresh, timer>>
busy == <<loading, analyzing>>
store == <<history, saved>>
counts == <<asked, orders, mounts>>
marking == <<accepted, moved>>
ghosts == <<marking, foreign>>
vars == <<mounted, activeTab, screen, refresh, busy, store, calls, counts, ghosts>>

Recommendations == 0 .. RecCount - 1
Tabs == {"current", "history", "analytics"}
Results == [n : 1 .. MaxDiagnoses, cluster : Clusters]
Histories == UNION {[1 .. k -> Results] : k \in 0 .. Kept}
Remembered == [cluster : Clusters \cup {None}, base : Histories]

DiagnosisCalls ==
  [kind : {"diagnose"}, live : BOOLEAN, base : Histories, result : Results]
JobCalls ==
  [kind : {"job"}, live : BOOLEAN, of : Results, rec : Recommendations \cup {None}, n : Nat]
Diagnoses == {c \in calls : c.kind = "diagnose"}

(* Jobs whose acceptance is going to mark a recommendation.                *)
Marking == {c \in calls \ Diagnoses : c.live /\ c.rec # None}

TypeOK ==
  /\ mounted \in BOOLEAN /\ autoRefresh \in BOOLEAN
  /\ loading \in BOOLEAN /\ analyzing \in BOOLEAN /\ foreign \in BOOLEAN
  /\ clusterId \in Clusters \cup {None}
  /\ shown = None \/ shown \in [diagnosis : Results, metrics : Results]
  /\ activeTab \in Tabs
  /\ timer = None \/ timer \in Remembered
  /\ dismissed \subseteq Recommendations /\ implemented \subseteq Recommendations
  /\ history \in Histories /\ saved \in Histories
  /\ accepted \subseteq Results \X Recommendations /\ moved \in BOOLEAN
  /\ calls \subseteq DiagnosisCalls \cup JobCalls

-----------------------------------------------------------------------------
(* The page as its first render leaves it, and as no page is open.         *)
Fresh(id, kept) ==
  /\ clusterId' = id /\ shown' = None /\ activeTab' = "current"
  /\ autoRefresh' = FALSE /\ timer' = None
  /\ loading' = FALSE /\ analyzing' = FALSE
  /\ dismissed' = {} /\ implemented' = {}
  /\ history' = kept

Init ==
  /\ mounted = FALSE
  /\ clusterId = None /\ shown = None /\ activeTab = "current"
  /\ autoRefresh = FALSE /\ timer = None
  /\ loading = FALSE /\ analyzing = FALSE
  /\ dismissed = {} /\ implemented = {}
  /\ history = <<>> /\ saved = <<>>
  /\ calls = {} /\ asked = 0 /\ orders = 0 /\ mounts = 0
  /\ accepted = {} /\ moved = FALSE /\ foreign = FALSE

(* Mounting with the default or the given cluster; the effect reads the    *)
(* saved history back.                                                     *)
Open(id) ==
  /\ ~mounted /\ mounts < MaxMounts
  /\ mounted' = TRUE /\ mounts' = mounts + 1
  /\ Fresh(id, saved)
  /\ foreign' = FALSE /\ accepted' = {} /\ moved' = FALSE
  /\ UNCHANGED <<saved, calls, asked, orders>>

(* Unmounting clears the interval; the requests go on.                     *)
Leave ==
  /\ mounted
  /\ mounted' = FALSE
  /\ Fresh(None, <<>>)
  /\ calls' = {[c EXCEPT !.live = FALSE] : c \in calls}
  /\ UNCHANGED <<saved, counts, ghosts>>

-----------------------------------------------------------------------------
(* performDiagnosis up to its await, with the variables its closure holds. *)
Ask(id, base, showLoading) ==
  IF id = None
  THEN UNCHANGED <<calls, asked, loading, analyzing>>
  ELSE /\ asked < MaxDiagnoses
       /\ asked' = asked + 1
       /\ calls' = calls \cup
            {[kind |-> "diagnose", live |-> TRUE, base |-> base,
              result |-> [n |-> asked + 1, cluster |-> id]]}
       /\ loading' = (loading \/ showLoading)
       /\ analyzing' = TRUE

(* The Diagnose button, disabled while loading.                            *)
ClickDiagnose ==
  /\ mounted /\ ~loading
  /\ Ask(clusterId, history, TRUE)
  /\ UNCHANGED <<mounted, activeTab, orders, mounts, screen, refresh, store, ghosts>>

(* Enter in the input and the Diagnose button of the overview are not.     *)
PressEnter ==
  /\ mounted /\ activeTab = "current"
  /\ Ask(clusterId, history, TRUE)
  /\ UNCHANGED <<mounted, activeTab, orders, mounts, screen, refresh, store, ghosts>>

(* The interval fires.                                                     *)
Tick ==
  /\ mounted /\ timer # None
  /\ Ask(timer.cluster, timer.base, FALSE)
  /\ UNCHANGED <<mounted, activeTab, orders, mounts, screen, refresh, store, ghosts>>

ExtendedPastBound(result, base) ==
  <<result>> \o SubSeq(base, 1, IF Len(base) < Kept THEN Len(base) ELSE Kept)

(* The new entry in front, ten kept.                                       *)
Extended(result, base) ==
  <<result>> \o SubSeq(base, 1, IF Len(base) < Kept - 1 THEN Len(base) ELSE Kept - 1)

AnswerDiagnosisKeepingMarks(c) ==
  /\ c \in Diagnoses
  /\ calls' = calls \ {c}
  /\ saved' = Extended(c.result, c.base)
  /\ IF c.live
     THEN /\ shown' = [diagnosis |-> c.result, metrics |-> c.result]
          /\ history' = saved'
          /\ loading' = FALSE /\ analyzing' = FALSE
          /\ moved' = (Marking # {})
          /\ UNCHANGED <<dismissed, implemented, foreign>>
     ELSE /\ foreign' = mounted
          /\ UNCHANGED <<history, screen, busy, moved>>
  /\ UNCHANGED <<mounted, activeTab, counts, accepted, refresh>>

(* Both answers of Promise.all have come.  The marks of the diagnosis that *)
(* was on display go with it; a job that is on its way stays.              *)
AnswerDiagnosis(c) ==
  /\ c \in Diagnoses
  /\ calls' = calls \ {c}
  /\ saved' = Extended(c.result, c.base)
  /\ IF c.live
     THEN /\ shown' = [diagnosis |-> c.result, metrics |-> c.result]
          /\ dismissed' = {} /\ implemented' = {}
          /\ history' = saved'
          /\ loading' = FALSE /\ analyzing' = FALSE
          /\ moved' = (Marking # {})
          /\ UNCHANGED foreign
     ELSE /\ foreign' = mounted
          /\ UNCHANGED <<history, screen, busy, moved>>
  /\ UNCHANGED <<mounted, activeTab, counts, accepted, refresh>>

FailDiagnosisWithoutFinally(c) ==
  /\ c \in Diagnoses
  /\ calls' = calls \ {c}
  /\ UNCHANGED <<mounted, activeTab, screen, refresh, busy, counts, store, ghosts>>

(* One of them failed: what is shown stays.                                *)
FailDiagnosis(c) ==
  /\ c \in Diagnoses
  /\ calls' = calls \ {c}
  /\ loading' = (loading /\ ~c.live)
  /\ analyzing' = (analyzing /\ ~c.live)
  /\ UNCHANGED <<mounted, activeTab, counts, screen, refresh, store, ghosts>>

-----------------------------------------------------------------------------
(* The auto-refresh effect: it runs again when the switch or the cluster   *)
(* changes, and only then; its handler remembers that render.              *)
Rearm(on, id, result, kept) ==
  /\ autoRefresh' = on /\ clusterId' = id
  /\ timer' = IF on = autoRefresh /\ id = clusterId THEN timer
              ELSE IF on /\ result # None THEN [cluster |-> id, base |-> kept]
              ELSE None

ToggleAutoRefresh ==
  /\ mounted
  /\ Rearm(~autoRefresh, clusterId, shown, history)
  /\ UNCHANGED <<mounted, activeTab, calls, counts, screen, busy, store, ghosts>>

(* Typing, the dropdown and the two preset buttons.                        *)
ChooseCluster(id) ==
  /\ mounted /\ activeTab = "current" /\ id # clusterId
  /\ Rearm(autoRefresh, id, shown, history)
  /\ UNCHANGED <<mounted, activeTab, calls, counts, screen, busy, store, ghosts>>

SelectTab(t) ==
  /\ mounted /\ t # activeTab
  /\ activeTab' = t
  /\ UNCHANGED <<mounted, calls, counts, screen, refresh, busy, store, ghosts>>

LoadHistoryWithoutMetrics(k) ==
  /\ mounted /\ activeTab = "history" /\ k \in DOMAIN history
  /\ shown' = [diagnosis |-> history[k],
               metrics |-> IF shown = None THEN history[k] ELSE shown.metrics]
  /\ activeTab' = "current"
  /\ Rearm(autoRefresh, history[k].cluster, shown', history)
  /\ moved' = (moved \/ (/\ implemented # {} \/ Marking # {}
                        /\ history[k] # shown.diagnosis))
  /\ UNCHANGED <<mounted, dismissed, implemented, calls, counts, busy, store,
                 accepted, foreign>>

(* A click on an entry; dismissed and implemented marks are kept.          *)
LoadFromHistory(k) ==
  /\ mounted /\ activeTab = "history" /\ k \in DOMAIN history
  /\ shown' = [diagnosis |-> history[k], metrics |-> history[k]]
  /\ activeTab' = "current"
  /\ Rearm(autoRefresh, history[k].cluster, shown', history)
  /\ moved' = (moved \/ (/\ implemented # {} \/ Marking # {}
                        /\ history[k] # shown.diagnosis))
  /\ UNCHANGED <<mounted, dismissed, implemented, calls, counts, busy, store,
                 accepted, foreign>>

ClearHistoryKeepingSaved ==
  /\ mounted /\ activeTab = "history"
  /\ history' = <<>>
  /\ UNCHANGED <<mounted, activeTab, saved, calls, counts, screen, refresh, busy, ghosts>>

ClearHistory ==
  /\ mounted /\ activeTab = "history"
  /\ history' = <<>> /\ saved' = <<>>
  /\ UNCHANGED <<mounted, activeTab, calls, counts, screen, refresh, busy, ghosts>>

-----------------------------------------------------------------------------
(* A recommendation is listed unless dismissed, and offers Implement unless *)
(* implemented.                                                            *)
Listed == IF mounted /\ activeTab = "current" /\ shown # None
          THEN Recommendations \ dismissed ELSE {}

Dismiss(i) ==
  /\ i \in Listed
  /\ dismissed' = dismissed \cup {i}
  /\ UNCHANGED <<mounted, activeTab, shown, implemented, refresh, busy, store,
                 calls, counts, ghosts>>

(* Reset Actions and Restore All.                                          *)
ResetActions ==
  /\ mounted /\ activeTab = "current" /\ shown # None
  /\ dismissed # {} \/ implemented # {}
  /\ dismissed' = {} /\ implemented' = {}
  /\ UNCHANGED <<mounted, activeTab, shown, refresh, busy, store, calls,
                 counts, ghosts>>

(* A request for a job: for recommendation i of the diagnosis on display,  *)
(* or by one of the two Create Job buttons (i = None).  Nothing is         *)
(* disabled while it is in flight.                                         *)
RequestJob(i) ==
  /\ orders < MaxOrders
  /\ orders' = orders + 1
  /\ calls' = calls \cup {[kind |-> "job", live |-> TRUE, of |-> shown.diagnosis,
                           rec |-> i, n |-> orders + 1]}

Implement(i) ==
  /\ i \in Listed \ implemented
  /\ RequestJob(i)
  /\ UNCHANGED <<mounted, activeTab, screen, refresh, busy, store, asked,
                 mounts, ghosts>>

CreateJob ==
  /\ mounted /\ activeTab = "current" /\ shown # None
  /\ RequestJob(None)
  /\ UNCHANGED <<mounted, activeTab, screen, refresh, busy, store, asked,
                 mounts, ghosts>>

(* The job was created: the index is marked on whatever is shown now.      *)
AnswerJob(c) ==
  /\ c \in calls \ Diagnoses
  /\ calls' = calls \ {c}
  /\ IF c.live /\ c.rec # None
     THEN /\ implemented' = implemented \cup {c.rec}
          /\ accepted' = accepted \cup {<<c.of, c.rec>>}
     ELSE UNCHANGED <<implemented, accepted>>
  /\ UNCHANGED <<mounted, activeTab, shown, dismissed, refresh, busy, store,
                 counts, moved, foreign>>

(* Only an alert.                                                          *)
FailJob(c) ==
  /\ c \in calls \ Diagnoses
  /\ calls' = calls \ {c}
  /\ UNCHANGED <<mounted, activeTab, screen, refresh, busy, store, counts, ghosts>>

-----------------------------------------------------------------------------
Click ==
  \/ ClickDiagnose \/ PressEnter \/ ToggleAutoRefresh \/ ClearHistory
  \/ ResetActions \/ CreateJob
  \/ \E id \in Clusters \cup {None} : ChooseCluster(id)
  \/ \E t \in Tabs : SelectTab(t)
  \/ \E k \in DOMAIN history : LoadFromHistory(k)
  \/ \E i \in Recommendations : Dismiss(i) \/ Implement(i)

Answer == \E c \in calls : AnswerDiagnosis(c) \/ FailDiagnosis(c)
                          \/ AnswerJob(c) \/ FailJob(c)

Next ==
  \/ \E id \in Clusters : Open(id)
  \/ Leave \/ Click \/ Tick \/ Answer

Spec == Init /\ [][Next]_vars

(* A request is answered or fails in the end.                              *)
FairSpec == Spec /\ WF_vars(Answer)

-----------------------------------------------------------------------------
(* localStorage holds the history on display, over any interleaving of     *)
(* manual and automatic diagnoses, loads and clears, unless the handler of *)
(* an earlier mount wrote it meanwhile.                                    *)
HistoryPersisted == mounted /\ ~foreign => saved = history

(* The metrics beside a diagnosis are those fetched with it, even when     *)
(* answers of several requests and loads from the history mix.             *)
ShownWhole == shown # None => shown.metrics = shown.diagnosis

(* With no diagnosis in flight neither busy flag is left on, whatever      *)
(* failed.                                                                 *)
Settles ==
  (\A c \in Diagnoses : ~c.live) => ~loading /\ ~analyzing

(* A recommendation of the diagnosis on display is marked implemented only *)
(* when a job was accepted for it: marks are indices, and the timer        *)
(* replaces the diagnosis they point into.  An answer that comes under     *)
(* another diagnosis than it was asked for, and an entry loaded from the   *)
(* history over marks, do leave marks on recommendations without a job.    *)
MarksWereAccepted ==
  ~moved => \A i \in implemented : <<shown.diagnosis, i>> \in accepted
=============================================================================
