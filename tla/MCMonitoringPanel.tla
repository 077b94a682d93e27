-------------------------- MODULE MCMonitoringPanel --------------------------
(***************************************************************************)
(* The metrics page alone: two pages of metrics for all clusters, one of   *)
(* them of cluster c1, and none of the type cpu.                           *)
(***************************************************************************)
EXTENDS MonitoringPanel

Spec == Init /\ [][Next]_page

MCRows == [c \in AnyCluster |->
             [t \in AnyType |-> IF c = None THEN 2 ELSE IF t = None THEN 1 ELSE 0]]
=============================================================================
