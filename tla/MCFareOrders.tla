---------------------------- MODULE MCFareOrders ----------------------------
(* FareOrders on small instances.                                           *)
EXTENDS FareOrders

CONSTANTS c1, c2, d1, d2, v1, usd, relay
=============================================================================
