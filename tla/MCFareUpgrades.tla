--------------------------- MODULE MCFareUpgrades ---------------------------
(* Every migration script, two orders in each book. *)
EXTENDS FareUpgrades

AllScripts == DOMAIN Sends
=============================================================================
