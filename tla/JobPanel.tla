------------------------------ MODULE JobPanel ------------------------------
(***************************************************************************)
(* components/JobPanel.tsx and JobDetails.tsx: a paged, sorted list of the *)
(* jobs, fetched again every three seconds and after every change of the   *)
(* paging, a button that creates a job, and a page for one job.            *)
(*                                                                         *)
(* An answer is represented by its question (page, rows per page, order)   *)
(* and by the number of jobs the backend had when it read the table; the   *)
(* rows follow from the two.                                               *)
(***************************************************************************)
EXTENDS Naturals, FiniteSets, Requests

CONSTANTS
  Sizes,         \* rows per page a user may choose
  DefaultSize,   \* the first of them: five
  MaxJobs,       \* bound: jobs the backend ever has
  MaxChanges,    \* bound: changes of the paging or the order
  MaxFailures    \* bound: requests of a visit that fail

VARIABLE page    \* the mounted page, its requests, and the jobs in the backend

SortFields == {"createdAt", "id"}
Dirs == {"desc", "asc"}
Asks == [page : Nat \ {0}, size : Sizes, field : SortFields, dir : Dirs]
FirstAsk == [page |-> 1, size |-> DefaultSize, field |-> "createdAt", dir |-> "desc"]
NoView == [ask |-> FirstAsk, total |-> 0]
NoJob == [id |-> 0, got |-> 0, loading |-> FALSE]

(* loadJobs sends its question; the other calls only carry it along.       *)
Request(kind, ask) == [kind |-> kind, ask |-> ask, answer |-> None]

(* Math.max(1, Math.ceil(total / size)).                                   *)
Pages(total, size) == IF total = 0 THEN 1 ELSE (total + size - 1) \div size

PageCount == Pages(page.view.total, page.ask.size)

(* An answer without rows shows an empty state instead of the table and    *)
(* all its controls.                                                       *)
HasRows == (page.view.ask.page - 1) * page.view.ask.size < page.view.total

OnList == page.job.id = 0
Lists == {"list", "reload"}
Creations == {"create", "reload"}

TypeOK ==
  /\ page.ask \in Asks
  /\ page.view \in [ask : Asks, total : 0 .. MaxJobs]
  /\ page.loading \in BOOLEAN /\ page.creating \in BOOLEAN
  /\ page.job \in [id : 0 .. MaxJobs, got : 0 .. MaxJobs, loading : BOOLEAN]
  /\ page.stored \in 0 .. MaxJobs
  /\ page.calls \in [Slots -> {Idle} \cup
       [kind : Lists \cup Creations \cup {"get"}, ask : Asks,
        answer : {None} \cup 0 .. MaxJobs]]

-----------------------------------------------------------------------------
(* The list as it is mounted, its first load sent, with n jobs stored.     *)
Mounted(n) ==
  [ask |-> FirstAsk, view |-> NoView, loading |-> TRUE, creating |-> FALSE,
   job |-> NoJob, calls |-> Sent(NoCalls, Request("list", FirstAsk)),
   stored |-> n, changes |-> 0, failures |-> 0]

Mounts == {Mounted(n) : n \in 0 .. MaxJobs}

Init == page \in Mounts

(* loadJobs up to its await.                                               *)
Loading(p, ask) ==
  [p EXCEPT !.loading = TRUE, !.calls = Sent(@, Request("list", ask))]

PollFirst ==
  /\ OnList /\ HasRoom(page.calls)
  /\ page' = Loading(page, FirstAsk)

(* The interval of the effect, which runs again, and so holds the current  *)
(* question, whenever one of the four parts changes.                       *)
Poll ==
  /\ OnList /\ HasRoom(page.calls)
  /\ page' = Loading(page, page.ask)

Refresh == ~page.loading /\ Poll

(* The effect on page, pageSize, sortField and sortDir.                    *)
Reask(ask) ==
  /\ OnList /\ HasRows /\ HasRoom(page.calls)
  /\ page.changes < MaxChanges
  /\ ask # page.ask
  /\ page' = [Loading(page, ask) EXCEPT !.ask = ask, !.changes = @ + 1]

ToggleSort(field) ==
  Reask([page.ask EXCEPT !.page = 1, !.field = field,
           !.dir = IF field = page.ask.field /\ @ = "desc" THEN "asc" ELSE "desc"])

SetPageSizeOnly(n) == Reask([page.ask EXCEPT !.size = n])

SetPageSize(n) == Reask([page.ask EXCEPT !.size = n, !.page = 1])

GoTo(p) == Reask([page.ask EXCEPT !.page = p])

FirstPage == page.ask.page # 1 /\ GoTo(1)
PrevPageUnclamped == GoTo(page.ask.page - 1)
PrevPage == page.ask.page # 1 /\ GoTo(page.ask.page - 1)
NextPage == /\ page.ask.page # PageCount
            /\ GoTo(IF page.ask.page < PageCount THEN page.ask.page + 1 ELSE PageCount)
LastPage == page.ask.page # PageCount /\ GoTo(PageCount)

(* The bound on jobs leaves room for the creations on their way.           *)
RoomForJob ==
  page.stored + Cardinality({s \in InFlight(page.calls, {"create"}) :
                               page.calls[s].answer = None}) < MaxJobs

(* handleCreateJob up to its first await.                                  *)
Submit ==
  /\ OnList /\ HasRoom(page.calls) /\ RoomForJob
  /\ page' = [page EXCEPT !.creating = TRUE,
                          !.calls = Sent(@, Request("create", page.ask))]

(* The button is disabled while creating.                                  *)
CreateJob == ~page.creating /\ Submit

(* A click on a row: the details page mounts and fetches its job once.     *)
OpenJob(id) ==
  /\ OnList /\ HasRows /\ id \in 1 .. page.view.total
  /\ page' = [page EXCEPT !.ask = FirstAsk, !.view = NoView,
                          !.loading = FALSE, !.creating = FALSE,
                          !.job = [id |-> id, got |-> 0, loading |-> TRUE],
                          !.calls = Sent(NoCalls, Request("get", FirstAsk))]

(* Back to the list, which is mounted anew.                                *)
Back ==
  /\ ~OnList /\ page.changes < MaxChanges
  /\ page' = [Mounted(page.stored) EXCEPT !.changes = page.changes + 1,
                                          !.failures = page.failures]

-----------------------------------------------------------------------------
(* The backend answers: it reads the table, creates a job, or reads one.   *)
Serve(s) ==
  /\ page.calls[s] # Idle /\ page.calls[s].answer = None
  /\ LET stored == page.stored + IF page.calls[s].kind = "create" THEN 1 ELSE 0
     IN page' = [page EXCEPT !.stored = stored,
          !.calls[s].answer = IF OnList THEN stored ELSE page.job.id]

(* Another tab, or a creation this page was left with, adds a job.         *)
AddElsewhere ==
  /\ RoomForJob
  /\ page' = [page EXCEPT !.stored = @ + 1]

Arrived(s, kinds) ==
  page.calls[s] # Idle /\ page.calls[s].answer # None /\ page.calls[s].kind \in kinds

(* loadJobs resumes; after a creation handleCreateJob ends with it.        *)
DeliverList(s) ==
  /\ Arrived(s, Lists)
  /\ page' = [page EXCEPT !.calls = Done(@, s), !.loading = FALSE,
       !.view = [ask |-> page.calls[s].ask, total |-> page.calls[s].answer],
       !.creating = @ /\ page.calls[s].kind # "reload"]

(* handleCreateJob resumes and loads what was asked for at the click.      *)
DeliverCreate(s) ==
  /\ Arrived(s, {"create"})
  /\ page' = [page EXCEPT !.loading = TRUE,
       !.calls[s] = Request("reload", @.ask)]

DeliverJob(s) ==
  /\ Arrived(s, {"get"})
  /\ page' = [page EXCEPT !.calls = Done(@, s),
       !.job = [@ EXCEPT !.got = page.calls[s].answer, !.loading = FALSE]]

Deliver(s) == DeliverList(s) \/ DeliverCreate(s) \/ DeliverJob(s)

(* A request fails, before or after the backend acted on it: an error is   *)
(* shown and the flags of its handler are cleared.                         *)
FailShowingBusy(s) ==
  /\ page.calls[s] # Idle /\ page.failures < MaxFailures
  /\ page' = [page EXCEPT !.failures = @ + 1, !.calls = Done(@, s),
       !.loading = @ /\ page.calls[s].kind \notin Lists,
       !.job.loading = @ /\ page.calls[s].kind # "get"]

Fail(s) ==
  /\ page.calls[s] # Idle /\ page.failures < MaxFailures
  /\ page' = [page EXCEPT !.failures = @ + 1, !.calls = Done(@, s),
       !.loading = @ /\ page.calls[s].kind \notin Lists,
       !.creating = @ /\ page.calls[s].kind \notin Creations,
       !.job.loading = @ /\ page.calls[s].kind # "get"]

-----------------------------------------------------------------------------
Next ==
  \/ Poll \/ Refresh \/ CreateJob \/ Back \/ AddElsewhere
  \/ \E id \in 1 .. MaxJobs : OpenJob(id)
  \/ \E f \in SortFields : ToggleSort(f)
  \/ \E n \in Sizes : SetPageSize(n)
  \/ FirstPage \/ PrevPage \/ NextPage \/ LastPage
  \/ \E s \in Slots : Serve(s) \/ Deliver(s) \/ Fail(s)

-----------------------------------------------------------------------------
(* The page asked for exists in the backend's table, so an empty answer,   *)
(* which hides the controls, never lasts: the clamps use a total that may  *)
(* be old, but jobs are never deleted.                                     *)
PageExists == page.ask.page <= Pages(page.stored, page.ask.size)

(* One creation at a time, up to the reload that follows it.               *)
OneCreation == Cardinality(InFlight(page.calls, Creations)) <= 1

(* A flag is on only while a request that clears it is on its way.         *)
Settles ==
  /\ page.loading => InFlight(page.calls, Lists) # {}
  /\ page.creating => InFlight(page.calls, Creations) # {}
  /\ page.job.loading => InFlight(page.calls, {"get"}) # {}

(* The list shows the rows asked for as the backend has them.              *)
Current == OnList => page.view = [ask |-> page.ask, total |-> page.stored]
=============================================================================
