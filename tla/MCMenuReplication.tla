------------------------- MODULE MCMenuReplication -------------------------
(* MenuReplication on small instances.                                      *)
EXTENDS MenuReplication, TLC

CONSTANTS v1, v2

=============================================================================
