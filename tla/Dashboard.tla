------------------------------ MODULE Dashboard ------------------------------
(***************************************************************************)
(* components/Dashboard.tsx: the droplets and the latest jobs, read        *)
(* together once, and the state of the backend, checked once.  Of what was *)
(* read it is kept whether it is shown.                                    *)
(***************************************************************************)
EXTENDS Naturals, FiniteSets

CONSTANT MaxFailures   \* bound: requests of a visit that fail

VARIABLE page

Parts == {"droplets", "jobs"}
Tabs == {"status", "actions", "activity"}

TypeOK ==
  /\ page.backend \in {"checking", "online", "offline"}
  /\ page.tab \in Tabs /\ page.shown \subseteq Parts
  /\ page.waiting \subseteq Parts /\ page.failed \in BOOLEAN

Mounts == {[backend |-> "checking", tab |-> "status", shown |-> {},
            waiting |-> Parts, failed |-> FALSE, failures |-> 0]}

Init == page \in Mounts

SelectTab(tab) == tab # page.tab /\ page' = [page EXCEPT !.tab = tab]

AnswerAlone(part) ==
  /\ part \in page.waiting
  /\ page' = [page EXCEPT !.waiting = @ \ {part}, !.shown = @ \cup {part}]

(* Promise.all: one answer waits for the other, and is lost with it.       *)
Answer(part) ==
  /\ part \in page.waiting
  /\ LET all == page.waiting = {part} /\ ~page.failed IN
     page' = [page EXCEPT !.waiting = @ \ {part}, !.shown = IF all THEN Parts ELSE @]

(* The first failure blanks both.                                          *)
Fail(part) ==
  /\ part \in page.waiting /\ page.failures < MaxFailures
  /\ page' = [page EXCEPT !.waiting = @ \ {part}, !.failed = TRUE, !.shown = {},
                          !.failures = @ + 1]

(* An answer that is not OK counts as none.                                *)
CheckBackend ==
  /\ page.backend = "checking"
  /\ \E status \in {"online", "offline"} : page' = [page EXCEPT !.backend = status]

Next ==
  \/ CheckBackend
  \/ \E tab \in Tabs : SelectTab(tab)
  \/ \E part \in Parts : Answer(part) \/ Fail(part)

-----------------------------------------------------------------------------
(* Droplets and jobs are shown together or not at all.                     *)
Together == page.shown \in {{}, Parts}
=============================================================================
