--------------------------- MODULE MCShieldClient ---------------------------
(* ShieldClient on small instances. *)
EXTENDS ShieldClient

CONSTANTS v1, k1, k2
=============================================================================
