------------------------------ MODULE MCRelay ------------------------------
(* Relay on small instances. *)
EXTENDS Relay

CONSTANTS r1, r2, t1, a1
=============================================================================
