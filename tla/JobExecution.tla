---------------------------- MODULE JobExecution ----------------------------
(***************************************************************************)
(* What core-api promises about running a job, whatever its table says: a  *)
(* job runs only after it was registered and admitted, is launched at most *)
(* once, and its work is attempted at most a fixed number of times: once,  *)
(* unless the broker duplicates the request record.  JobLifecycle, crashes *)
(* and faults included, implements it.                                     *)
(***************************************************************************)
EXTENDS Naturals

CONSTANTS
  Jobs,
  Limit   \* Limit[j]: attempts allowed for job j

VARIABLES
  phase,     \* how far each job got
  attempts   \* times its work was attempted

execVars == <<phase, attempts>>

Phases == {"absent", "registered", "refused", "admitted", "launched"}

TypeOK ==
  /\ phase \in [Jobs -> Phases]
  /\ attempts \in [Jobs -> Nat]

Init ==
  /\ phase = [j \in Jobs |-> "absent"]
  /\ attempts = [j \in Jobs |-> 0]

Move(j, from, to) ==
  /\ phase[j] = from
  /\ phase' = [phase EXCEPT ![j] = to]
  /\ UNCHANGED attempts

Register(j) == Move(j, "absent", "registered")
Refuse(j)   == Move(j, "registered", "refused")
Admit(j)    == Move(j, "registered", "admitted")
Launch(j)   == Move(j, "admitted", "launched")

Attempt(j) ==
  /\ phase[j] = "launched"
  /\ attempts[j] < Limit[j]
  /\ attempts' = [attempts EXCEPT ![j] = @ + 1]
  /\ UNCHANGED phase

Next == \E j \in Jobs :
  Register(j) \/ Refuse(j) \/ Admit(j) \/ Launch(j) \/ Attempt(j)

Spec == Init /\ [][Next]_execVars

(* No work without a launch, and never more than the limit.                *)
AtMostLimit == \A j \in Jobs :
  /\ attempts[j] <= Limit[j]
  /\ attempts[j] > 0 => phase[j] = "launched"
=============================================================================
