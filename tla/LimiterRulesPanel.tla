-------------------------- MODULE LimiterRulesPanel --------------------------
(***************************************************************************)
(* components/LimiterRulesPanel.tsx and the handlers of the limiter        *)
(* configurations it calls: the rules kept in Redis, one for every name    *)
(* and scope, and a modal that creates or edits one.                       *)
(*                                                                         *)
(* A rule is the set of its fields that are set; their values are left     *)
(* out.  The scope of a key is the id of a cluster, None for the global    *)
(* one.                                                                    *)
(***************************************************************************)
EXTENDS Naturals, FiniteSets, Requests

CONSTANTS
  Names, ScopeIds,
  Fields,        \* refill_rate and capacity
  MaxChanges,    \* bound: requests a user starts and inputs a user changes
  MaxFailures    \* bound: requests of a visit that fail

VARIABLE page

Keys == [name : Names, scope : ScopeIds \cup {None}]
Rules == [Keys -> SUBSET Fields]
NoRules == [k \in Keys |-> {}]
Filters == Names \cup {None}

(* The form: the key it was opened on, and what its inputs hold.  A listed *)
(* scope such as cluster:c1 is neither of the two options; the list gives  *)
(* no scope id.                                                            *)
FormScopes == {"global", "cluster", "listed"}
Forms == [key : Keys \cup {None}, name : Names \cup {None}, scope : FormScopes,
          id : ScopeIds \cup {None}, fields : SUBSET Fields]

(* submitForm sends a scope other than global as it is, and the handler    *)
(* takes anything but a cluster or user with an id to be global.           *)
Target(form) ==
  [name |-> form.name,
   scope |-> IF form.scope = "cluster" THEN form.id ELSE None]

Request(kind, key, form, filter) ==
  [kind |-> kind, key |-> key, form |-> form, filter |-> filter,
   served |-> FALSE, answer |-> None]

Reload == [save |-> "save reload", delete |-> "delete reload"]
Loads == {"list", "save reload", "delete reload"}
Saves == {"save", "save reload"}

TypeOK ==
  /\ page.rules \in Rules /\ page.items \in Rules
  /\ page.filter \in Filters /\ page.form \in Forms \cup {None}
  /\ page.loading \in BOOLEAN /\ page.submitting \in BOOLEAN
  /\ \A s \in Slots : page.calls[s] = Idle \/
       /\ page.calls[s].kind \in Loads \cup {"save", "delete"}
       /\ page.calls[s].key \in Keys \cup {None}
       /\ page.calls[s].form \in Forms \cup {None}
       /\ page.calls[s].answer \in Rules \cup {None}

-----------------------------------------------------------------------------
Mounted(rules) ==
  [rules |-> rules, items |-> NoRules, filter |-> None, form |-> None,
   loading |-> TRUE, submitting |-> FALSE,
   calls |-> Sent(NoCalls, Request("list", None, None, None)),
   changes |-> 0, failures |-> 0]

Mounts == {Mounted([k \in Keys |-> IF k \in some THEN Fields ELSE {}]) : some \in SUBSET Keys}

Init == page \in Mounts

MayStart == HasRoom(page.calls) /\ page.changes < MaxChanges

Started(call) == [page EXCEPT !.calls = Sent(@, call), !.changes = @ + 1]

SetFilter(name) ==
  /\ name # page.filter
  /\ page' = [page EXCEPT !.filter = name]

Refresh ==
  /\ MayStart /\ ~page.loading
  /\ page' = [Started(Request("list", None, None, page.filter)) EXCEPT !.loading = TRUE]

(* del up to its first await.                                              *)
Delete(k) ==
  /\ MayStart /\ page.items[k] # {}
  /\ page' = [Started(Request("delete", k, None, page.filter)) EXCEPT !.loading = TRUE]

OpenCreate ==
  page' = [page EXCEPT !.form =
    [key |-> None, name |-> None, scope |-> "global", id |-> None, fields |-> {}]]

FormOf(k) ==
  [key |-> k, name |-> k.name, scope |-> IF k.scope = None THEN "global" ELSE "listed",
   id |-> None, fields |-> page.items[k]]

OpenEdit(k) ==
  /\ page.items[k] # {}
  /\ page' = [page EXCEPT !.form = FormOf(k)]

CloseModal ==
  /\ page.form # None
  /\ page' = [page EXCEPT !.form = None]

(* The inputs.  The scope id has one only beside a scope that is not       *)
(* global.                                                                 *)
Change(form) ==
  /\ page.changes < MaxChanges /\ form # page.form
  /\ page' = [page EXCEPT !.form = form, !.changes = @ + 1]

SetName(name) == page.form # None /\ Change([page.form EXCEPT !.name = name])
SetScope(scope) == page.form # None /\ Change([page.form EXCEPT !.scope = scope])
SetScopeId(id) ==
  /\ page.form # None /\ page.form.scope # "global"
  /\ Change([page.form EXCEPT !.id = id])
SetFields(fields) == page.form # None /\ Change([page.form EXCEPT !.fields = fields])

(* submitForm up to its first await.                                       *)
Submit ==
  /\ page.form # None /\ MayStart /\ ~page.submitting
  /\ page' = [Started(Request("save", None, page.form, page.filter))
                EXCEPT !.submitting = TRUE]

-----------------------------------------------------------------------------
(* The handler refuses a rule without a name or without a positive field.  *)
Refused(c) ==
  c.kind = "save" /\ (c.form.name = None \/ c.form.fields = {})

(* HSET adds to the fields that are there already.                         *)
Serve(s) ==
  /\ page.calls[s] # Idle /\ ~page.calls[s].served
  /\ LET c == page.calls[s]
         Acted(rules) == page' = [page EXCEPT !.rules = rules, !.calls[s].served = TRUE]
     IN \/ /\ c.kind = "save" /\ ~Refused(c)
           /\ Acted([page.rules EXCEPT ![Target(c.form)] = @ \cup c.form.fields])
        \/ /\ c.kind = "delete"
           /\ Acted([page.rules EXCEPT ![c.key] = {}])
        \/ /\ c.kind \in Loads
           /\ page' = [page EXCEPT !.calls[s] = [c EXCEPT !.served = TRUE,
                !.answer = [k \in Keys |->
                   IF c.filter \in {None, k.name} THEN page.rules[k] ELSE {}]]]

(* After its load, successful or not, submitForm closes the modal, for     *)
(* whichever rule it is open by now.                                       *)
Finished(p, s) ==
  LET saved == page.calls[s].kind = "save reload" IN
  [p EXCEPT !.calls = Done(@, s), !.loading = FALSE,
     !.form = IF saved THEN None ELSE @, !.submitting = @ /\ ~saved]

DeliverList(s) ==
  /\ page.calls[s] # Idle /\ page.calls[s].served /\ page.calls[s].kind \in Loads
  /\ page' = Finished([page EXCEPT !.items = page.calls[s].answer], s)

DeliverChange(s) ==
  /\ page.calls[s] # Idle /\ page.calls[s].served
  /\ page.calls[s].kind \in DOMAIN Reload
  /\ page' = [page EXCEPT !.loading = TRUE,
       !.calls[s] = [@ EXCEPT !.kind = Reload[page.calls[s].kind], !.served = FALSE]]

Deliver(s) == DeliverList(s) \/ DeliverChange(s)

Fail(s) ==
  /\ page.calls[s] # Idle
  /\ page.failures < MaxFailures \/ Refused(page.calls[s])
  /\ LET failed == [page EXCEPT !.failures = IF @ < MaxFailures THEN @ + 1 ELSE @]
         kind == page.calls[s].kind
     IN page' = IF kind \in Loads THEN Finished(failed, s)
                ELSE [failed EXCEPT !.calls = Done(@, s),
                                    !.submitting = @ /\ kind # "save",
                                    !.loading = @ /\ kind # "delete"]

-----------------------------------------------------------------------------
Next ==
  \/ Refresh \/ OpenCreate \/ CloseModal \/ Submit
  \/ \E name \in Filters : SetFilter(name)
  \/ \E k \in Keys : Delete(k) \/ OpenEdit(k)
  \/ \E name \in Names : SetName(name)
  \/ \E scope \in {"global", "cluster"} : SetScope(scope)
  \/ \E id \in ScopeIds \cup {None} : SetScopeId(id)
  \/ \E fields \in SUBSET Fields : SetFields(fields)
  \/ \E s \in Slots : Serve(s) \/ Deliver(s) \/ Fail(s)

-----------------------------------------------------------------------------
(* One save at a time, although the modal may be closed and opened for     *)
(* another rule while it is on its way.                                    *)
OneSave == Cardinality(InFlight(page.calls, Saves)) <= 1

(* The flags are on only while a request that clears them is on its way.   *)
Settles ==
  /\ page.loading => InFlight(page.calls, Loads \cup {"delete"}) # {}
  /\ page.submitting => InFlight(page.calls, Saves) # {}

(* "create/edit/delete": a rule edited, its name and scope left as they    *)
(* are, is saved under its own key.                                        *)
EditTargetsRule ==
  \A s \in InFlight(page.calls, {"save"}) :
    LET form == page.calls[s].form IN
    form.key # None /\ form.name = form.key.name /\ form.scope # "cluster"
        /\ (form.scope = "global" => form.key.scope = None)
      => Target(form) = form.key
=============================================================================
