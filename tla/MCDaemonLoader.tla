--------------------------- MODULE MCDaemonLoader ---------------------------
(* Instances of DaemonLoader for TLC.                                      *)
EXTENDS DaemonLoader

CONSTANTS p1, p2, p3

=============================================================================
