---------------------------- MODULE FareDisputes ----------------------------
(***************************************************************************)
(* Disputes over the order book and the driver registry:                   *)
(* src/contracts/FareDisputes.sol composed with FareOrders and FareDrivers.*)
(*                                                                         *)
(* A party of an order puts it in dispute against a bond; the arbiter's    *)
(* ruling splits the escrow, may strike and slash the driver, and awards   *)
(* the bond, all in one transaction of four contracts.  Here eligibility   *)
(* is the registry's, not an environment's choice, and an order is only    *)
(* disputed through this contract.  The contracts stay wired to each       *)
(* other: configure, setAuthorized and importRecords are not taken.        *)
(***************************************************************************)
EXTENDS FareOrders, Functions

CONSTANTS
    MaxStake, Stakes, MinStakes, Periods, Refusing, \* see FareDrivers
    Bonds,        \* bonds governance asks for
    Slashes       \* damages the arbiter may award

ASSUME DisputesAssumption ==
    /\ "drivers" \in Volatile
    /\ Bonds \subseteq Nat /\ Slashes \subseteq Nat
    /\ Stakes \subseteq Nat /\ Periods \subseteq Nat
    /\ IsFiniteSet(Customers) /\ IsFiniteSet(Drivers)

VARIABLES
    drivers, minStake, unbondingSeconds, entryOpen, stakeHeld, \* FareDrivers
    disputes,         \* disputeId -> Dispute
    nextDisputeId,
    disputeOfOrder,   \* orderId -> disputeId, 0 = none
    disputeBond,
    disputesOpen,     \* neither paused (category 2) nor frozen
    bondHeld,         \* native units this contract owns
    bondCredit        \* account -> units credited in FareVault

Registry == INSTANCE FareDrivers

DisputeIds == 1..MaxOrders   \* as many as orders: each is disputed once

caseVars == <<disputes, nextDisputeId, disputeOfOrder, bondHeld, bondCredit>>
rules == <<disputeBond, disputesOpen>>
disputeVars == <<caseVars, rules>>
driverVars == <<drivers, minStake, unbondingSeconds, entryOpen, stakeHeld>>
allVars == <<vars, driverVars, disputeVars>>

Dispute == [orderId : 0..MaxOrders, opener : Customers \cup Drivers \cup {Nobody},
            bond : Bonds \cup {0}, status : {"None", "Open", "Resolved"}]

NoDispute == [orderId |-> 0, opener |-> Nobody, bond |-> 0, status |-> "None"]

DisputesInit ==
    /\ Init /\ Registry!Init
    /\ eligible = Registry!EligibleDrivers
    /\ disputes = [i \in DisputeIds |-> NoDispute]
    /\ nextDisputeId = 1
    /\ disputeOfOrder = [o \in OrderIds |-> 0]
    /\ disputeBond \in Bonds
    /\ disputesOpen = TRUE
    /\ bondHeld = 0
    /\ bondCredit = [a \in Customers \cup Drivers \cup {Treasury} |-> 0]

-----------------------------------------------------------------------------
(* Opening and resolving a dispute.                                        *)

OpenDispute(p, o) ==
    /\ disputesOpen
    /\ nextDisputeId \in DisputeIds
    /\ disputeOfOrder[o] = 0
    /\ p \in {orders[o].customer, orders[o].driver}
    /\ MarkDisputed(o)
    /\ disputes' = [disputes EXCEPT ![nextDisputeId] =
          [orderId |-> o, opener |-> p, bond |-> disputeBond, status |-> "Open"]]
    /\ nextDisputeId' = nextDisputeId + 1
    /\ disputeOfOrder' = [disputeOfOrder EXCEPT ![o] = nextDisputeId]
    /\ bondHeld' = bondHeld + disputeBond
    /\ UNCHANGED <<bondCredit, rules, driverVars>>

\* Mutant: the winner gets the bond in force, not the bond that was paid.
AwardBond_Current(i, winner) ==
    /\ disputeBond <= bondHeld
    /\ bondHeld' = bondHeld - disputeBond
    /\ bondCredit' = [bondCredit EXCEPT ![winner] = @ + disputeBond]

\* The opener or the treasury is credited in the vault.
AwardBond(i, winner) ==
    /\ disputes[i].bond <= bondHeld
    /\ bondHeld' = bondHeld - disputes[i].bond
    /\ bondCredit' = [bondCredit EXCEPT ![winner] = @ + disputes[i].bond]

\* Mutant: a pause of disputes stops rulings too.
MayRule_Gated(i, bps, slashed) ==
    /\ disputesOpen
    /\ disputes[i].status = "Open"
    /\ MayResolve(disputes[i].orderId, bps)
    /\ disputes[i].bond <= bondHeld

\* What a ruling requires, of the four contracts it calls.
MayRule(i, bps, slashed) ==
    LET o == disputes[i].orderId IN
    /\ disputes[i].status = "Open"
    /\ MayResolve(o, bps)
    /\ Registry!MaySlash(orders[o].driver, slashed, orders[o].customer)
    /\ disputes[i].bond <= bondHeld

\* Mutant: the ruling leaves the dispute open.
Ruled_Open(dispute) == dispute
Ruled(dispute) == [dispute EXCEPT !.status = "Resolved"]

Resolve(i, customerShareBps, openerWins, driverAtFault, slashDriverAmount) ==
    LET o == disputes[i].orderId IN
    /\ MayRule(i, customerShareBps, slashDriverAmount)
    /\ disputes' = [disputes EXCEPT ![i] = Ruled(@)]
    /\ ResolveDisputed(o, customerShareBps, driverAtFault)
    /\ Registry!Slash(orders[o].driver, slashDriverAmount, orders[o].customer)
    /\ eligible' = Registry!EligibleDrivers'
    /\ AwardBond(i, IF openerWins THEN disputes[i].opener ELSE Treasury)
    /\ UNCHANGED <<nextDisputeId, disputeOfOrder, rules>>

SetDisputeBond ==
    /\ disputeBond' \in Bonds
    /\ UNCHANGED <<vars, driverVars, caseVars, disputesOpen>>

SwitchDisputes ==
    /\ disputesOpen' = ~disputesOpen
    /\ UNCHANGED <<vars, driverVars, caseVars, disputeBond>>

-----------------------------------------------------------------------------
(* The steps of the other two contracts.                                   *)

\* A step of the registry, seen by the order book through isEligible.
RegistryStep ==
    /\ \/ \E d \in Drivers : Registry!Account(d)
       \/ Registry!Owner
    /\ eligible' = Registry!EligibleDrivers'
    /\ UNCHANGED <<blocked, activeVenues, ledger, book, governance, disputeVars>>

\* A step of the order book in which no dispute is opened or resolved.
OrderStep ==
    /\ \/ \E c \in Customers : Customer(c)
       \/ \E o \in OrderIds :
             \/ Bidding(o)
             \/ OnPickupConfirmed(o)
             \/ \E r \in Relayers : OnDropoffConfirmed(o, r)
             \/ \E d \in Drivers : AbandonOrder(d, o)
       \/ Owner
       \/ Tick
       \/ Switch
    /\ UNCHANGED <<driverVars, disputeVars>>

Arbiter ==
    \E i \in DisputeIds, bps \in ShareBps, wins, atFault \in BOOLEAN,
       amount \in Slashes : Resolve(i, bps, wins, atFault, amount)

DisputesNext ==
    \/ OrderStep
    \/ RegistryStep
    \/ \E p \in Customers \cup Drivers, o \in OrderIds : OpenDispute(p, o)
    \/ Arbiter
    \/ SetDisputeBond
    \/ SwitchDisputes

DisputesSpec == DisputesInit /\ [][DisputesNext]_allVars

-----------------------------------------------------------------------------
(* Properties.                                                             *)

\* The two contracts never disagree on what is in dispute: an order is
\* Disputed exactly while the one dispute that names it is open, and Resolved
\* exactly when that dispute was ruled on; so no dispute can be left behind by
\* an order that settled or was cancelled meanwhile, and none is ruled twice.
DisputesMatchOrders ==
    /\ \A o \in OrderIds :
          LET i == disputeOfOrder[o] IN
          IF orders[o].status \in {"Disputed", "Resolved"}
            THEN /\ i \in DisputeIds /\ disputes[i].orderId = o
                 /\ disputes[i].status =
                      IF orders[o].status = "Disputed" THEN "Open" ELSE "Resolved"
            ELSE i = 0
    /\ \A i \in DisputeIds :
          disputes[i].status # "None" => disputeOfOrder[disputes[i].orderId] = i

\* Bonds and stakes are there to be paid: this contract owns the bonds of the
\* open disputes, each at what was paid for it, every other bond has been
\* credited once, and the registry owns what its drivers have at stake, none of
\* them less than nothing.
Backed ==
    LET bonds(st) == SumFunction([i \in DisputeIds |->
                        IF disputes[i].status = st THEN disputes[i].bond ELSE 0])
    IN /\ bondHeld = bonds("Open")
       /\ SumFunction(bondCredit) = bonds("Resolved")
       /\ stakeHeld = SumFunction([d \in Drivers |-> drivers[d].stake])
       /\ \A d \in Drivers : drivers[d].stake >= 0

\* "pending disputes always finish" (openDispute): whatever is paused or
\* frozen, whoever refuses money and however little stake is left, every
\* ruling without damages passes every require of the four contracts.
PendingDisputesFinish ==
    \A i \in DisputeIds : disputes[i].status = "Open" =>
        \A bps \in ShareBps \cap (0..BPS) : MayRule(i, bps, 0)

Working(d) == {o \in OrderIds : /\ orders[o].driver = d
                                /\ orders[o].status \in {"Assigned", "PickedUp", "Disputed"}}

AssignedAt(o) == orders[o].pickupDeadline - orders[o].pickupWindowSecs

\* Stake that leaves in a step which is no ruling.
Withdrawn(d) == drivers'[d].stake < drivers[d].stake /\ disputes' = disputes

\* What the delay does guarantee: a driver who takes the stake out was given
\* every order still in the driver's hands at least the delay ago.
OrdersPredateWithdrawal ==
    [][\A d \in Drivers : Withdrawn(d) =>
          \A o \in Working(d) : now >= AssignedAt(o) + unbondingSeconds]_allVars

\* The composition implements FareOrders: everything the registry and the
\* disputes do to an order is something its open environment may do, so what
\* holds of FareOrders holds here.
ImplementsOrders == Spec
=============================================================================
