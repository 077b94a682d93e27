------------------------- MODULE MCLimiterRulesPanel -------------------------
(***************************************************************************)
(* The limiter rules alone: one name, the global scope and one cluster.    *)
(***************************************************************************)
EXTENDS LimiterRulesPanel

Spec == Init /\ [][Next]_page
=============================================================================
