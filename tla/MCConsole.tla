------------------------------ MODULE MCConsole ------------------------------
(***************************************************************************)
(* A small instance of Console: two requests at a time on a page, and a    *)
(* few changes by the user in each visit.                                  *)
(***************************************************************************)
EXTENDS Console, TLC

CONSTANTS c1, p1, p2, cpu

MCChanges ==
  [provisioning |-> 2, jobs |-> 3, monitoring |-> 2, autoscaling |-> 3, deployments |-> 2,
   providers |-> 2, billing |-> 2, rules |-> 2, clusters |-> 2, new |-> 2, cluster |-> 1]

(* Two pages of metrics for all clusters, none of one type for c1.         *)
MCRows == [c \in Clusters \cup {None} |->
             [t \in Types \cup {None} |-> IF c = None THEN 2 ELSE IF t = None THEN 1 ELSE 0]]

MCOwner == [p \in Policies |-> c1]
MCTerms == {{1}}
MCOrder == <<"active", "provisioning">>
=============================================================================
