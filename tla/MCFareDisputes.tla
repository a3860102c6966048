--------------------------- MODULE MCFareDisputes ---------------------------
(* FareDisputes on small instances. *)
EXTENDS FareDisputes, TLC

CONSTANTS c1, c2, d1, d2, v1, relay

\* Drivers are interchangeable: no constant and no property names one.
Symmetry == Permutations(Drivers)
=============================================================================
