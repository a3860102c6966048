---------------------------- MODULE MCDisclosure ----------------------------
(* Disclosure on small instances.  The parties do the same things: which is *)
(* which makes no difference to an invariant.                               *)
EXTENDS Disclosure, TLC

CONSTANTS customer, driver, council, former

Interchangeable == Permutations(Parties)
=============================================================================
