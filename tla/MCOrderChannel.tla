--------------------------- MODULE MCOrderChannel ---------------------------
(* OrderChannel on small instances. *)
EXTENDS OrderChannel

Chats    == Sides \X {"chat"}
Tracking == Sides \X {"track"}

\* The two chats, without and with a profile to share; or the driver's
\* tracking and the customer who follows it.
MCUses == {[panels |-> Chats, committed |-> {}, envelopes |-> 5],
           [panels |-> Chats, committed |-> {"customer"}, envelopes |-> 4],
           [panels |-> Tracking, committed |-> {}, envelopes |-> 5]}
=============================================================================
