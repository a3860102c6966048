--------------------------- MODULE EscrowContract ---------------------------
(***************************************************************************)
(* What an order's escrow promises, whatever the order's business is: a    *)
(* pot is opened once, takes deposits while it is live, is released in     *)
(* parts that never exceed what is in it, and is closed once, empty.       *)
(***************************************************************************)
EXTENDS Naturals

CONSTANT Pots

VARIABLES phase, deposited, released

pot == <<phase, deposited, released>>

Init ==
    /\ phase = [p \in Pots |-> "none"]
    /\ deposited = [p \in Pots |-> 0]
    /\ released = [p \in Pots |-> 0]

Open(p) ==
    /\ phase[p] = "none"
    /\ phase' = [phase EXCEPT ![p] = "live"]
    /\ deposited'[p] \in Nat
    /\ deposited' = [deposited EXCEPT ![p] = deposited'[p]]
    /\ UNCHANGED released

Deposit(p) ==
    /\ phase[p] = "live"
    /\ deposited[p] < deposited'[p]
    /\ deposited' = [deposited EXCEPT ![p] = deposited'[p]]
    /\ UNCHANGED <<phase, released>>

\* Part of the pot leaves, never more than it holds.
Release(p) ==
    /\ phase[p] = "live"
    /\ released[p] < released'[p] /\ released'[p] <= deposited[p]
    /\ released' = [released EXCEPT ![p] = released'[p]]
    /\ UNCHANGED <<phase, deposited>>

\* The rest leaves, all of it, and the pot never reopens.
Close(p) ==
    /\ phase[p] = "live"
    /\ phase' = [phase EXCEPT ![p] = "closed"]
    /\ released' = [released EXCEPT ![p] = deposited[p]]
    /\ UNCHANGED deposited

Next == \E p \in Pots : Open(p) \/ Deposit(p) \/ Release(p) \/ Close(p)

Spec == Init /\ [][Next]_pot
=============================================================================
