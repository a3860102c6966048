---------------------------- MODULE FareDrivers ----------------------------
(***************************************************************************)
(* The driver registry of FARE: src/contracts/FareDrivers.sol.             *)
(*                                                                         *)
(* A driver registers, may keep a stake, and is struck, slashed or banned. *)
(* Stake leaves by withdrawal, a delay after the request, or by a slash.   *)
(* The module has no next-state relation of its own: FareDisputes, where   *)
(* the record is the one the order book's hooks keep, composes its actions.*)
(*                                                                         *)
(* Abstractions.  The pause of category 3 and the freeze gate the same two *)
(* entries and are one switch.  The dust a send may leave in the queue of  *)
(* lib/PaseoSafeSender.sol counts as sent (FareVault models that queue).   *)
(* Metadata is left out.                                                   *)
(***************************************************************************)
EXTENDS Integers

CONSTANTS
    Drivers,
    MaxStake,     \* bound: the most a driver has at stake
    Stakes,       \* amounts drivers send along
    MinStakes, Periods, \* floors and unbonding delays governance chooses
    Refusing      \* accounts whose code refuses native transfers

VARIABLES
    now,
    drivers,          \* driver -> Driver
    record,           \* driver -> delivered / failed counts
    minStake, unbondingSeconds,
    entryOpen,        \* neither paused (category 3) nor frozen
    stakeHeld         \* native units this contract owns as stake

stakeVars == <<drivers, stakeHeld>>
floors == <<minStake, unbondingSeconds, entryOpen>>
driverVars == <<stakeVars, floors>>

NoRequest == -1   \* the code's unstakeRequestedAt = 0

Driver == [registered : BOOLEAN, banned : BOOLEAN, stake : Nat,
           unstakeRequestedAt : Nat \cup {NoRequest}]

Init ==
    /\ now = 0
    /\ drivers = [d \in Drivers |->
          [registered |-> FALSE, banned |-> FALSE, stake |-> 0,
           unstakeRequestedAt |-> NoRequest]]
    /\ record = [d \in Drivers |-> [delivered |-> 0, failed |-> 0]]
    /\ minStake = 0 /\ unbondingSeconds \in Periods
    /\ entryOpen = TRUE
    /\ stakeHeld = 0

-----------------------------------------------------------------------------
(* Who may be assigned an order.                                           *)

\* Mutant: a driver on the way out still qualifies.
IsEligible_Exiting(d) ==
    /\ drivers[d].registered /\ ~drivers[d].banned
    /\ drivers[d].stake >= minStake
IsEligible(d) ==
    /\ drivers[d].registered /\ ~drivers[d].banned
    /\ drivers[d].stake >= minStake
    /\ drivers[d].unstakeRequestedAt = NoRequest

EligibleDrivers == {d \in Drivers : IsEligible(d)}

-----------------------------------------------------------------------------
(* The driver's own calls.                                                 *)

Register(d, v) ==
    /\ entryOpen
    /\ ~drivers[d].registered
    /\ drivers' = [drivers EXCEPT ![d].registered = TRUE, ![d].stake = v]
    /\ stakeHeld' = stakeHeld + v
    /\ UNCHANGED <<now, floors, record>>

AddStake(d, v) ==
    /\ entryOpen
    /\ drivers[d].registered
    /\ v > 0 /\ drivers[d].stake + v <= MaxStake
    /\ drivers' = [drivers EXCEPT ![d].stake = @ + v,
                                  ![d].unstakeRequestedAt = NoRequest]
    /\ stakeHeld' = stakeHeld + v
    /\ UNCHANGED <<now, floors, record>>

RequestUnstake(d) ==
    /\ drivers[d].registered /\ drivers[d].stake > 0
    /\ drivers' = [drivers EXCEPT ![d].unstakeRequestedAt = now]
    /\ UNCHANGED <<now, stakeHeld, floors, record>>

Unbonded(d) ==
    /\ drivers[d].unstakeRequestedAt # NoRequest
    /\ now >= drivers[d].unstakeRequestedAt + unbondingSeconds

\* Mutant: the withdrawal deletes the driver, reputation and all.
WithdrawStake_Deletes(d) ==
    /\ Unbonded(d)
    /\ drivers[d].stake > 0
    /\ d \notin Refusing
    /\ drivers' = [drivers EXCEPT ![d] =
          [registered |-> FALSE, banned |-> FALSE, stake |-> 0,
           unstakeRequestedAt |-> NoRequest]]
    /\ record' = [record EXCEPT ![d] = [delivered |-> 0, failed |-> 0]]
    /\ stakeHeld' = stakeHeld - drivers[d].stake
    /\ UNCHANGED <<now, floors>>

WithdrawStake(d) ==
    /\ Unbonded(d)
    /\ drivers[d].stake > 0
    /\ d \notin Refusing
    /\ drivers' = [drivers EXCEPT ![d].stake = 0,
                                  ![d].unstakeRequestedAt = NoRequest]
    /\ stakeHeld' = stakeHeld - drivers[d].stake
    /\ UNCHANGED <<now, floors, record>>

-----------------------------------------------------------------------------
(* A ruling's slash.                                                       *)

Taken(d, amount) ==
    IF amount > drivers[d].stake THEN drivers[d].stake ELSE amount

\* Whoever gets the damages is paid at once, and may refuse them.
MaySlash(d, amount, recipient) == Taken(d, amount) > 0 => recipient \notin Refusing

\* The part of slash that concerns stake.
Slash(d, amount, recipient) ==
    LET taken == Taken(d, amount) IN
    /\ MaySlash(d, amount, recipient)
    /\ drivers' = [drivers EXCEPT ![d].stake = @ - taken]
    /\ stakeHeld' = stakeHeld - taken
    /\ UNCHANGED floors

-----------------------------------------------------------------------------
(* The owner's calls.                                                      *)

SetBanned(d, b) ==
    /\ drivers' = [drivers EXCEPT ![d].banned = b]
    /\ UNCHANGED <<now, stakeHeld, floors, record>>

SetFloors ==
    /\ \/ minStake' \in MinStakes /\ UNCHANGED unbondingSeconds
       \/ unbondingSeconds' \in Periods /\ UNCHANGED minStake
    /\ UNCHANGED <<now, stakeVars, entryOpen, record>>

SwitchEntry ==
    /\ entryOpen' = ~entryOpen
    /\ UNCHANGED <<now, stakeVars, minStake, unbondingSeconds, record>>

-----------------------------------------------------------------------------
Account(d) ==
    \/ \E v \in Stakes : Register(d, v) \/ AddStake(d, v)
    \/ RequestUnstake(d)
    \/ WithdrawStake(d)

Owner ==
    \/ \E d \in Drivers, b \in BOOLEAN : SetBanned(d, b)
    \/ SetFloors
    \/ SwitchEntry
=============================================================================
