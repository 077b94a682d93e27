------------------------------ MODULE Requests ------------------------------
(***************************************************************************)
(* The requests of one page of the console: axios sends each of them and   *)
(* resumes the handler that awaits it when the answer comes.  Nothing      *)
(* orders them and nothing cancels one.  A request in a slot is a record   *)
(* with a `kind'; where it matters what the backend had when it acted, its *)
(* `answer' is None until then.                                            *)
(***************************************************************************)
CONSTANTS
  Slots,     \* bound: requests of a page in flight
  None

(* A slot without a request; no request is of this kind.                   *)
Idle == [kind |-> "idle"]

NoCalls == [s \in Slots |-> Idle]

(* The slots that hold a request of one of the kinds.                      *)
InFlight(calls, kinds) == {s \in Slots : calls[s].kind \in kinds}

HasRoom(calls) == \E s \in Slots : calls[s] = Idle

Sent(calls, call) ==
  [calls EXCEPT ![CHOOSE s \in Slots : calls[s] = Idle] = call]

Done(calls, s) == [calls EXCEPT ![s] = Idle]
=============================================================================
