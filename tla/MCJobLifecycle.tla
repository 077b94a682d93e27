--------------------------- MODULE MCJobLifecycle ---------------------------
(* Small instances of JobLifecycle.                                        *)
EXTENDS JobLifecycle, TLC

CONSTANTS j1, j2

OneOfEach == (j1 :> "provision" @@ j2 :> "diagnose")
ScaleAndMonitor == (j1 :> "scale" @@ j2 :> "monitor")
OneProvision == (j1 :> "provision")
=============================================================================
