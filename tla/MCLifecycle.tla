----------------------------- MODULE MCLifecycle -----------------------------
(* Instances that start, overlap, fail and are stopped, under every         *)
(* configuration.                                                           *)
EXTENDS Lifecycle

MCConfigs == (SUBSET Targets) \cup {NoTable, Broken}
UnixAlone == {{"unix"}}

=============================================================================
