---------------------------- MODULE MCFareVault -----------------------------
(* FareVault on small instances.                                            *)
EXTENDS FareVault, TLC

CONSTANTS a1, relay, orderBook, usd, n1, n2

\* No definition tells one note from another.
Symmetry == Permutations(Notes)
=============================================================================
