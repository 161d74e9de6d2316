---------------------------- MODULE MCPciDriver -----------------------------
(* Instances of PciDriver for TLC.                                         *)
EXTENDS PciDriver

CONSTANTS u, v

=============================================================================
