-------------------------- MODULE MCDiagnosisPanel --------------------------
(* Small instances of DiagnosisPanel.                                      *)
EXTENDS DiagnosisPanel, TLC

(* The page never looks into a cluster id.                                 *)
Symmetry == Permutations(Clusters)
=============================================================================
