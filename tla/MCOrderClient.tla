--------------------------- MODULE MCOrderClient ----------------------------
(* One attempt at an order, which may create two, two bids, and pages that  *)
(* refresh twice at once.                                                   *)
EXTENDS OrderClient

BothAssets == {Native, Token}
=============================================================================
