------------------------- MODULE FareDisputesProofs -------------------------
(***************************************************************************)
(* The composition of order book, registry and disputes implements the     *)
(* open FareOrders, which carries the theorems of FareOrdersProofs over;   *)
(* the two contracts agree on what is in dispute; stake taken out was      *)
(* unbonding since the driver's last order; and every bond and every stake *)
(* is there to be paid.  For any number of orders, drivers and disputes.   *)
(***************************************************************************)
EXTENDS FareDisputes, FareOrdersProofs

-----------------------------------------------------------------------------
(* The composition implements FareOrders.                                  *)

\* Every dispute ever opened is about an order.
CasesType ==
    /\ disputes \in [DisputeIds -> Dispute]
    /\ nextDisputeId \in Nat
    /\ disputeBond \in Bonds
    /\ \A i \in DisputeIds : disputes[i].status # "None" => disputes[i].orderId \in OrderIds

LEMMA InitCases == DisputesInit => CasesType
<1> SUFFICES ASSUME DisputesInit PROVE CasesType
  OBVIOUS
<1>1. NoDispute \in Dispute
  BY BoundsAssumption DEF NoDispute, Dispute
<1>2. /\ disputes = [i \in DisputeIds |-> NoDispute]
      /\ nextDisputeId = 1 /\ disputeBond \in Bonds
  BY DEF DisputesInit
<1>3. \A i \in DisputeIds : disputes[i].status = "None"
  BY <1>2 DEF NoDispute
<1>4. QED BY <1>1, <1>2, <1>3 DEF CasesType

LEMMA NewDispute ==
    ASSUME NEW o \in OrderIds, NEW p \in Customers \cup Drivers, NEW b \in Bonds
    PROVE  LET q == [orderId |-> o, opener |-> p, bond |-> b, status |-> "Open"]
           IN q \in Dispute /\ q.status = "Open" /\ q.orderId = o
BY BoundsAssumption DEF Dispute, OrderIds

LEMMA RuledFields ==
    ASSUME NEW q \in Dispute
    PROVE  /\ Ruled(q) \in Dispute
           /\ Ruled(q).status = "Resolved" /\ Ruled(q).orderId = q.orderId
BY DEF Ruled, Dispute

LEMMA OpenDisputeCases ==
    ASSUME CasesType, NEW o \in OrderIds, NEW p \in Customers \cup Drivers,
           OpenDispute(p, o)
    PROVE  CasesType'
<1> DEFINE q == [orderId |-> o, opener |-> p, bond |-> disputeBond, status |-> "Open"]
<1>1. /\ nextDisputeId \in DisputeIds
      /\ disputes' = [disputes EXCEPT ![nextDisputeId] = q]
      /\ nextDisputeId' = nextDisputeId + 1
      /\ disputeBond' = disputeBond
  BY DEF OpenDispute, rules
<1>2. q \in Dispute /\ q.status = "Open" /\ q.orderId = o
  BY NewDispute DEF CasesType
<1> HIDE DEF q
<1>3. disputes' \in [DisputeIds -> Dispute]
  BY <1>1, <1>2 DEF CasesType
<1>4. \A i \in DisputeIds : disputes'[i].status # "None" => disputes'[i].orderId \in OrderIds
  BY <1>1, <1>2 DEF CasesType
<1>5. QED BY <1>1, <1>3, <1>4 DEF CasesType

LEMMA ResolveCases ==
    ASSUME CasesType, NEW i \in DisputeIds, NEW bps, NEW wins, NEW atFault, NEW amount,
           Resolve(i, bps, wins, atFault, amount)
    PROVE  CasesType'
<1>1. /\ disputes' = [disputes EXCEPT ![i] = Ruled(disputes[i])]
      /\ disputes[i].status = "Open"
      /\ nextDisputeId' = nextDisputeId /\ disputeBond' = disputeBond
  BY DEF Resolve, MayRule, rules, CasesType
<1>2. /\ Ruled(disputes[i]) \in Dispute
      /\ Ruled(disputes[i]).orderId = disputes[i].orderId
  BY RuledFields DEF CasesType
<1>3. disputes' \in [DisputeIds -> Dispute]
  BY <1>1, <1>2 DEF CasesType
<1>4. \A j \in DisputeIds : disputes'[j].status # "None" => disputes'[j].orderId \in OrderIds
  BY <1>1, <1>2 DEF CasesType
<1>5. QED BY <1>1, <1>3, <1>4 DEF CasesType

LEMMA NextCases == CasesType /\ [DisputesNext]_allVars => CasesType'
<1> SUFFICES ASSUME CasesType, [DisputesNext]_allVars PROVE CasesType'
  OBVIOUS
<1>1. CASE UNCHANGED disputeVars
  BY <1>1 DEF CasesType, disputeVars, caseVars, rules
<1>2. CASE OrderStep \/ RegistryStep
  <2>1. UNCHANGED disputeVars
    BY <1>2 DEF OrderStep, RegistryStep
  <2>2. QED BY <1>1, <2>1
<1>3. ASSUME NEW p \in Customers \cup Drivers, NEW o \in OrderIds, OpenDispute(p, o)
      PROVE  CasesType'
  BY <1>3, OpenDisputeCases
<1>4. CASE Arbiter
  BY <1>4, ResolveCases DEF Arbiter
<1>5. CASE SetDisputeBond \/ SwitchDisputes
  BY <1>5 DEF SetDisputeBond, SwitchDisputes, caseVars, CasesType
<1>6. CASE UNCHANGED allVars
  BY <1>1, <1>6 DEF allVars
<1>7. QED BY <1>2, <1>3, <1>4, <1>5, <1>6 DEF DisputesNext

\* A step of the registry is a change of eligibility the order book allows.
LEMMA RegistryStepImplements == RegistryStep => Registries
<1> SUFFICES ASSUME RegistryStep PROVE Registries
  OBVIOUS
<1>1. eligible' \in SUBSET Drivers
  BY DEF RegistryStep, Registry!EligibleDrivers
<1>2. UNCHANGED <<now, record>>
  BY DEF RegistryStep, Registry!Account, Registry!Owner, Registry!Register,
         Registry!AddStake, Registry!RequestUnstake, Registry!WithdrawStake,
         Registry!SetBanned, Registry!SetFloors, Registry!SwitchEntry
<1>3. QED
  BY <1>1, <1>2, DisputesAssumption DEF RegistryStep, Registries

\* A ruling is one the order book accepts.
LEMMA RulingImplements == CasesType /\ Arbiter => Next
<1> SUFFICES ASSUME CasesType,
                    NEW i \in DisputeIds, NEW bps \in ShareBps, NEW wins \in BOOLEAN,
                    NEW atFault \in BOOLEAN, NEW amount \in Slashes,
                    Resolve(i, bps, wins, atFault, amount)
             PROVE  Next
  BY DEF Arbiter
<1>1. disputes[i].orderId \in OrderIds
  BY DEF CasesType, Resolve, MayRule
<1>2. ResolveDisputed(disputes[i].orderId, bps, atFault)
  BY DEF Resolve
<1>3. Callback(disputes[i].orderId)
  BY <1>2 DEF Callback
<1>4. QED BY <1>1, <1>3 DEF Next

LEMMA StepImplements == CasesType /\ [DisputesNext]_allVars => [Next]_vars
<1> SUFFICES ASSUME CasesType, [DisputesNext]_allVars PROVE [Next]_vars
  OBVIOUS
<1>1. CASE OrderStep
  BY <1>1 DEF OrderStep, Next, Callback
<1>2. CASE RegistryStep
  BY <1>2, RegistryStepImplements DEF Next
<1>3. ASSUME NEW p \in Customers \cup Drivers, NEW o \in OrderIds, OpenDispute(p, o)
      PROVE  Next
  <2>1. MarkDisputed(o)
    BY <1>3 DEF OpenDispute
  <2>2. QED BY <2>1 DEF Next, Callback
<1>4. CASE Arbiter
  BY <1>4, RulingImplements
<1>5. CASE SetDisputeBond \/ SwitchDisputes
  BY <1>5 DEF SetDisputeBond, SwitchDisputes
<1>6. CASE UNCHANGED allVars
  BY <1>6 DEF allVars
<1>7. QED BY <1>1, <1>2, <1>3, <1>4, <1>5, <1>6 DEF DisputesNext

\* The composition implements the open order book: whatever the registry and
\* the disputes do together, FareOrders' environment was allowed to do.
THEOREM DisputesImplementOrders == DisputesSpec => ImplementsOrders
<1>1. DisputesInit => Init
  BY DEF DisputesInit
<1>2. QED
  BY <1>1, InitCases, NextCases, StepImplements, PTL DEF DisputesSpec, ImplementsOrders, Spec

\* So the escrow theorems hold of orders disputed, ruled upon and slashed here.
THEOREM DisputesKeepEscrow ==
    DisputesSpec => [](TypeOK /\ Conservation /\ EscrowMatchesStatus /\ Entitlements
                         /\ Solvency)
BY DisputesImplementOrders, TypeCorrect, ConservationHolds, EscrowHolds,
   EntitlementsHold, EscrowsAreOwned, PTL DEF ImplementsOrders

-----------------------------------------------------------------------------
(* The order book and the disputes agree.                                  *)

InDispute == {"Disputed", "Resolved"}

\* Order o neither enters nor leaves a dispute.
SameCase(o) ==
    orders[o].status \in InDispute \/ orders'[o].status \in InDispute
       => orders'[o].status = orders[o].status

\* A write to one order, from and to statuses outside a dispute.
LEMMA WriteOutside ==
    ASSUME TypeOK, NEW o1 \in OrderIds, NEW r,
           orders' = [orders EXCEPT ![o1] = r],
           orders[o1].status \notin InDispute, r.status \notin InDispute
    PROVE  \A o \in OrderIds : SameCase(o)
BY DEF TypeOK, LedgerType, SameCase

LEMMA NoWrite ==
    ASSUME UNCHANGED orders
    PROVE  \A o \in OrderIds : SameCase(o)
BY DEF SameCase

\* Closing an order, other than by a ruling.
LEMMA CloseOutside ==
    ASSUME TypeOK, NEW o1 \in OrderIds,
           orders' = [orders EXCEPT ![o1] = Closed(@, "Cancelled")],
           orders[o1].status \notin InDispute
    PROVE  \A o \in OrderIds : SameCase(o)
<1>1. orders[o1] \in Order /\ orders' = [orders EXCEPT ![o1] = Closed(orders[o1], "Cancelled")]
  BY DEF TypeOK, LedgerType
<1>2. Closed(orders[o1], "Cancelled").status = "Cancelled"
  BY <1>1, ClosedFields
<1>3. QED BY <1>1, <1>2, WriteOutside DEF InDispute

LEMMA CustomerSameCase ==
    ASSUME IInv, NEW c \in Customers, Customer(c)
    PROVE  \A o \in OrderIds : SameCase(o)
<1>0. TypeOK /\ \A o \in OrderIds : orders[o] \in Order
  BY DEF IInv, TypeOK, LedgerType
<1>1. ASSUME NEW token \in Assets, NEW venue \in Venues, NEW value \in Values,
             NEW tip \in Tips, NEW maxFare \in Fares, NEW window \in Windows,
             CreateOrder(c, token, venue, value, tip, maxFare, window)
      PROVE  \A o \in OrderIds : SameCase(o)
  <2> DEFINE w == IF window = 0 THEN config.defaultPickupWindow ELSE window
             r == NewOrder(c, token, value, tip, maxFare, config.relayServiceFee[token], w)
  <2>1. nextOrderId \in OrderIds /\ orders' = [orders EXCEPT ![nextOrderId] = r]
    BY <1>1 DEF CreateOrder
  <2>2. orders[nextOrderId].status = "None"
    BY <2>1 DEF IInv, OrderIds
  <2>3. r.status = "Open"
    BY DEF NewOrder
  <2> HIDE DEF r
  <2>4. QED BY <1>0, <2>1, <2>2, <2>3, WriteOutside DEF InDispute
<1>2. ASSUME NEW o1 \in OrderIds, NEW v \in Tips, IncreaseTip(c, o1, v)
      PROVE  \A o \in OrderIds : SameCase(o)
  <2>1. /\ orders' = [orders EXCEPT ![o1] = ToppedUp(orders[o1], U96(v))]
        /\ orders[o1].status \in Tippable
    BY <1>0, <1>2 DEF IncreaseTip
  <2>2. ToppedUp(orders[o1], U96(v)).status = orders[o1].status
    BY <1>0, ToppedUpFields
  <2>3. QED BY <1>0, <2>1, <2>2, WriteOutside DEF InDispute, Tippable
<1>3. ASSUME NEW o1 \in OrderIds, CancelOpen(c, o1) \/ CancelAssigned(c, o1)
      PROVE  \A o \in OrderIds : SameCase(o)
  BY <1>0, <1>3, CloseOutside DEF CancelOpen, CancelAssigned, InDispute,
     MayCancelOpen, Refund, MayCancelAssigned, Compensated
<1>4. ASSUME NEW o1 \in OrderIds, NEW d \in Drivers, NEW fare \in Fares, NEW salt \in Salts,
             AcceptSealedBid(c, o1, d, fare, salt)
      PROVE  \A o \in OrderIds : SameCase(o)
  <2>1. /\ orders' = [orders EXCEPT ![o1] = Assigned(orders[o1], d, fare)]
        /\ orders[o1].status = "Open"
    BY <1>0, <1>4 DEF AcceptSealedBid, Acceptable
  <2>2. Assigned(orders[o1], d, fare).status = "Assigned"
    BY <1>0, AssignedFields
  <2>3. QED BY <1>0, <2>1, <2>2, WriteOutside DEF InDispute
<1>5. QED BY <1>1, <1>2, <1>3, <1>4 DEF Customer

\* Confirmations move an order outside a dispute.
LEMMA ConfirmedSameCase ==
    ASSUME IInv, NEW o1 \in OrderIds, NEW r,
           OnPickupConfirmed(o1) \/ OnDropoffConfirmed(o1, r)
    PROVE  \A o \in OrderIds : SameCase(o)
<1>0. TypeOK /\ orders[o1] \in Order
  BY DEF IInv, TypeOK, LedgerType
<1>1. ASSUME NEW v, NEW st \in {"PickedUp", "Delivered"},
             orders' = [orders EXCEPT ![o1] = Released(orders[o1], v, st)],
             orders[o1].status \in {"Assigned", "PickedUp"}
      PROVE  \A o \in OrderIds : SameCase(o)
  <2>1. Released(orders[o1], v, st).status \notin InDispute
    BY <1>0, ReleasedFields DEF InDispute
  <2>2. QED BY <1>0, <1>1, <2>1, WriteOutside DEF InDispute
<1>2. CASE OnPickupConfirmed(o1)
  BY <1>1, <1>2 DEF OnPickupConfirmed, MayConfirmPickup, PickupPay
<1>3. CASE OnDropoffConfirmed(o1, r)
  BY <1>1, <1>3 DEF OnDropoffConfirmed, MayConfirmDropoff, DropoffRelease
<1>4. QED BY <1>2, <1>3

LEMMA OrderStepSameCase ==
    ASSUME IInv, OrderStep
    PROVE  \A o \in OrderIds : SameCase(o)
<1>1. ASSUME NEW c \in Customers, Customer(c) PROVE \A o \in OrderIds : SameCase(o)
  BY <1>1, CustomerSameCase
<1>2. ASSUME NEW o1 \in OrderIds, Bidding(o1) PROVE UNCHANGED orders
  BY <1>2 DEF Bidding, CommitBid, RevokeBid, ledger
<1>3. ASSUME NEW o1 \in OrderIds, NEW r,
             OnPickupConfirmed(o1) \/ OnDropoffConfirmed(o1, r)
      PROVE  \A o \in OrderIds : SameCase(o)
  BY <1>3, ConfirmedSameCase
<1>4. ASSUME NEW o1 \in OrderIds, NEW d \in Drivers, AbandonOrder(d, o1)
      PROVE  \A o \in OrderIds : SameCase(o)
  BY <1>4, CloseOutside DEF AbandonOrder, InDispute, IInv, MayAbandonOrder, Refund
<1>5. CASE Owner
  <2>1. ASSUME NEW fee, NEW comp, NEW w, SetParams(fee, comp, w) PROVE UNCHANGED orders
    BY <2>1 DEF SetParams, ledger
  <2>2. ASSUME NEW bps, SetRelayRebateBps(bps) PROVE UNCHANGED orders
    BY <2>2 DEF SetRelayRebateBps, ledger
  <2>3. ASSUME NEW token, NEW fee, SetRelayServiceFee(token, fee) PROVE UNCHANGED orders
    BY <2>3 DEF SetRelayServiceFee, ledger
  <2>4. ASSUME NEW token, NEW b, SetAcceptedToken(token, b) PROVE UNCHANGED orders
    BY <2>4 DEF SetAcceptedToken, ledger
  <2>5. UNCHANGED orders
    BY <1>5, <2>1, <2>2, <2>3, <2>4 DEF Owner
  <2>6. QED BY <2>5, NoWrite
<1>6. CASE Tick \/ Switch
  BY <1>6, NoWrite DEF Tick, Switch, ledger
<1>7. QED BY <1>1, <1>2, <1>3, <1>4, <1>5, <1>6, NoWrite DEF OrderStep

-----------------------------------------------------------------------------
\* Inductive with the facts about orders: every order in a dispute has a case
\* of its own, and cases are numbered in order.
Agreed(o) ==
    LET i == disputeOfOrder[o] IN
    IF orders[o].status \in InDispute
      THEN /\ i \in DisputeIds /\ disputes[i].orderId = o
           /\ disputes[i].status =
                IF orders[o].status = "Disputed" THEN "Open" ELSE "Resolved"
      ELSE i = 0

DInv ==
    /\ CasesType
    /\ disputeOfOrder \in [OrderIds -> Nat]
    /\ \A o \in OrderIds : Agreed(o)
    /\ \A i \in DisputeIds :
          disputes[i].status # "None" => disputeOfOrder[disputes[i].orderId] = i
    /\ \A i \in DisputeIds : i >= nextDisputeId => disputes[i].status = "None"

LEMMA DInvImplies == DInv => DisputesMatchOrders
BY DEF DInv, Agreed, InDispute, DisputesMatchOrders

LEMMA InitDInv == DisputesInit => DInv
<1> SUFFICES ASSUME DisputesInit PROVE DInv
  OBVIOUS
<1>1. CasesType
  BY InitCases
<1>2. /\ disputes = [i \in DisputeIds |-> NoDispute]
      /\ disputeOfOrder = [o \in OrderIds |-> 0]
      /\ orders = [o \in OrderIds |-> EmptyOrder]
  BY DEF DisputesInit, Init
<1>3. \A i \in DisputeIds : disputes[i].status = "None"
  BY <1>2 DEF NoDispute
<1>4. \A o \in OrderIds : orders[o].status = "None"
  BY <1>2 DEF EmptyOrder
<1>5. \A o \in OrderIds : Agreed(o)
  BY <1>2, <1>4 DEF Agreed, InDispute
<1>6. QED BY <1>1, <1>2, <1>3, <1>5 DEF DInv

\* A step that touches no case, and no order in a dispute.
LEMMA OutsideDInv ==
    ASSUME DInv, UNCHANGED caseVars, CasesType', \A o \in OrderIds : SameCase(o)
    PROVE  DInv'
<1>1. UNCHANGED <<disputes, nextDisputeId, disputeOfOrder>>
  BY DEF caseVars
<1>2. \A o \in OrderIds : Agreed(o)'
  BY <1>1 DEF DInv, Agreed, SameCase
<1>3. QED BY <1>1, <1>2 DEF DInv

\* The case opened is a new one, of an order that had none.
LEMMA OpenDisputeDInv ==
    ASSUME IInv, DInv, NEW o1 \in OrderIds, NEW p \in Customers \cup Drivers,
           OpenDispute(p, o1)
    PROVE  DInv'
<1> DEFINE n == nextDisputeId
           q == [orderId |-> o1, opener |-> p, bond |-> disputeBond, status |-> "Open"]
<1>1. /\ n \in DisputeIds /\ disputeOfOrder[o1] = 0
      /\ disputes' = [disputes EXCEPT ![n] = q] /\ nextDisputeId' = n + 1
      /\ disputeOfOrder' = [disputeOfOrder EXCEPT ![o1] = n]
  BY DEF OpenDispute
<1>2. q.status = "Open" /\ q.orderId = o1
  OBVIOUS
<1> HIDE DEF q
<1>3. CasesType'
  BY OpenDisputeCases DEF DInv
<1>4. /\ orders[o1].status \notin InDispute /\ orders'[o1].status = "Disputed"
      /\ \A o \in OrderIds \ {o1} : orders'[o] = orders[o]
  <2>1. /\ orders[o1].status \in Disputable
        /\ orders' = [orders EXCEPT ![o1] = [orders[o1] EXCEPT !.status = "Disputed"]]
        /\ orders[o1] \in Order
    BY DEF OpenDispute, MarkDisputed, IInv, TypeOK, LedgerType, MayDispute
  <2>2. [orders[o1] EXCEPT !.status = "Disputed"].status = "Disputed"
    BY <2>1, DisputedFields
  <2>3. QED BY <2>1, <2>2 DEF Disputable, InDispute, IInv, TypeOK, LedgerType
<1>5. /\ disputes'[n] = q /\ \A i \in DisputeIds \ {n} : disputes'[i] = disputes[i]
      /\ disputeOfOrder'[o1] = n
      /\ \A o \in OrderIds \ {o1} : disputeOfOrder'[o] = disputeOfOrder[o]
      /\ disputes[n].status = "None"
  BY <1>1 DEF DInv, CasesType, DisputeIds
<1>6. \A o \in OrderIds : Agreed(o)'
  <2>1. Agreed(o1)'
    BY <1>1, <1>2, <1>4, <1>5 DEF Agreed, InDispute
  <2>2. ASSUME NEW o \in OrderIds \ {o1} PROVE Agreed(o)'
    <3>1. Agreed(o)
      BY DEF DInv
    <3>2. CASE orders[o].status \in InDispute
      <4>1. disputeOfOrder[o] \in DisputeIds \ {n}
        BY <3>1, <3>2, <1>5 DEF Agreed
      <4>2. QED BY <3>1, <3>2, <4>1, <1>4, <1>5 DEF Agreed
    <3>3. CASE orders[o].status \notin InDispute
      BY <3>1, <3>3, <1>4, <1>5 DEF Agreed
    <3>4. QED BY <3>2, <3>3
  <2>3. QED BY <2>1, <2>2
<1>7. ASSUME NEW i \in DisputeIds, disputes'[i].status # "None"
      PROVE  disputeOfOrder'[disputes'[i].orderId] = i
  <2>1. CASE i = n
    BY <2>1, <1>2, <1>5
  <2>2. CASE i # n
    <3>1. /\ disputes'[i] = disputes[i] /\ disputes[i].orderId \in OrderIds
          /\ disputeOfOrder[disputes[i].orderId] = i
      BY <1>5, <1>7, <2>2 DEF DInv, CasesType
    <3>2. disputes[i].orderId # o1
      BY <1>1, <3>1 DEF DisputeIds
    <3>3. QED BY <3>1, <3>2, <1>5
  <2>3. QED BY <2>1, <2>2
<1>8. \A i \in DisputeIds : i >= nextDisputeId' => disputes'[i].status = "None"
  BY <1>1, <1>5 DEF DInv, CasesType, DisputeIds
<1>9. disputeOfOrder' \in [OrderIds -> Nat]
  BY <1>1 DEF DInv, DisputeIds
<1>10. QED BY <1>3, <1>6, <1>7, <1>8, <1>9 DEF DInv

\* The case ruled upon is the order's, and the order leaves with it.
LEMMA ResolveDInv ==
    ASSUME IInv, DInv, NEW n \in DisputeIds, NEW bps, NEW wins, NEW atFault, NEW amount,
           Resolve(n, bps, wins, atFault, amount)
    PROVE  DInv'
<1>1. /\ disputes[n].status = "Open"
      /\ disputes' = [disputes EXCEPT ![n] = Ruled(disputes[n])]
      /\ UNCHANGED <<nextDisputeId, disputeOfOrder>>
  BY DEF Resolve, MayRule, DInv, CasesType
<1>2. CasesType'
  BY ResolveCases DEF DInv
<1>3. PICK o1 \in OrderIds : o1 = disputes[n].orderId /\ disputeOfOrder[o1] = n
  BY <1>1 DEF DInv, CasesType
<1>4. /\ orders[o1].status = "Disputed" /\ orders'[o1].status = "Resolved"
      /\ \A o \in OrderIds \ {o1} : orders'[o] = orders[o]
  <2>1. /\ orders[o1].status = "Disputed" /\ orders[o1] \in Order
        /\ orders' = [orders EXCEPT ![o1] = Closed(orders[o1], "Resolved")]
    BY <1>3 DEF Resolve, ResolveDisputed, IInv, TypeOK, LedgerType, MayResolve, Split
  <2>2. Closed(orders[o1], "Resolved").status = "Resolved"
    BY <2>1, ClosedFields
  <2>3. QED BY <1>3, <2>1, <2>2 DEF IInv, TypeOK, LedgerType
<1>5. /\ disputes'[n].status = "Resolved" /\ disputes'[n].orderId = o1
      /\ \A i \in DisputeIds \ {n} : disputes'[i] = disputes[i]
  <2>1. disputes \in [DisputeIds -> Dispute] /\ disputes[n] \in Dispute
    BY DEF DInv, CasesType
  <2>2. /\ Ruled(disputes[n]).status = "Resolved"
        /\ Ruled(disputes[n]).orderId = disputes[n].orderId
    BY <2>1, RuledFields
  <2>3. disputes'[n] = Ruled(disputes[n])
    BY <1>1, <2>1
  <2>4. QED BY <1>1, <1>3, <2>1, <2>2, <2>3
<1>6. \A o \in OrderIds : Agreed(o)'
  <2>1. Agreed(o1)'
    BY <1>1, <1>3, <1>4, <1>5 DEF Agreed, InDispute
  <2>2. ASSUME NEW o \in OrderIds \ {o1} PROVE Agreed(o)'
    <3>1. Agreed(o)
      BY DEF DInv
    <3>2. CASE orders[o].status \in InDispute
      <4>1. /\ disputeOfOrder[o] \in DisputeIds
            /\ disputes[disputeOfOrder[o]].orderId = o
        BY <3>1, <3>2 DEF Agreed
      <4>2. disputeOfOrder[o] # n
        BY <1>3, <4>1
      <4>3. QED BY <3>1, <3>2, <4>1, <4>2, <1>1, <1>4, <1>5 DEF Agreed
    <3>3. CASE orders[o].status \notin InDispute
      BY <3>1, <3>3, <1>1, <1>4, <1>5 DEF Agreed
    <3>4. QED BY <3>2, <3>3
  <2>3. QED BY <1>3, <2>1, <2>2
<1>7. \A i \in DisputeIds :
         disputes'[i].status # "None" => disputeOfOrder'[disputes'[i].orderId] = i
  BY <1>1, <1>3, <1>5 DEF DInv
<1>8. \A i \in DisputeIds : i >= nextDisputeId' => disputes'[i].status = "None"
  BY <1>1, <1>5 DEF DInv, CasesType
<1>9. QED BY <1>1, <1>2, <1>6, <1>7, <1>8 DEF DInv

LEMMA NextDInv == IInv /\ DInv /\ [DisputesNext]_allVars => DInv'
<1> SUFFICES ASSUME IInv, DInv, [DisputesNext]_allVars PROVE DInv'
  OBVIOUS
<1>1. CasesType'
  BY NextCases DEF DInv
<1>2. CASE OrderStep
  <2>1. UNCHANGED caseVars
    BY <1>2 DEF OrderStep, disputeVars
  <2>2. QED BY <1>1, <1>2, <2>1, OrderStepSameCase, OutsideDInv
<1>3. CASE RegistryStep \/ SetDisputeBond \/ SwitchDisputes \/ UNCHANGED allVars
  <2>1. UNCHANGED <<caseVars, orders>>
    <3>1. CASE RegistryStep
      BY <3>1 DEF RegistryStep, disputeVars, ledger
    <3>2. CASE SetDisputeBond \/ SwitchDisputes \/ UNCHANGED allVars
      BY <3>2 DEF SetDisputeBond, SwitchDisputes, allVars, disputeVars, vars, ledger
    <3>3. QED BY <1>3, <3>1, <3>2
  <2>2. QED BY <1>1, <2>1, NoWrite, OutsideDInv
<1>4. ASSUME NEW p \in Customers \cup Drivers, NEW o \in OrderIds, OpenDispute(p, o)
      PROVE  DInv'
  BY <1>4, OpenDisputeDInv
<1>5. CASE Arbiter
  BY <1>5, ResolveDInv DEF Arbiter
<1>6. QED BY <1>2, <1>3, <1>4, <1>5 DEF DisputesNext

\* Order book and disputes agree on what is in dispute, for any number of
\* orders: no dispute is left behind, and none is ruled twice.
THEOREM DisputesAgree == DisputesSpec => []DisputesMatchOrders
<1>1. DisputesSpec => []IInv
  BY DisputesImplementOrders, Inductive, PTL DEF ImplementsOrders
<1>2. DisputesSpec => []DInv
  BY <1>1, InitDInv, NextDInv, PTL DEF DisputesSpec
<1>3. QED BY <1>2, DInvImplies, PTL

-----------------------------------------------------------------------------
(* What the unbonding delay guarantees.  It takes the three contracts      *)
(* together: eligibility is lost with the request, orders are given to     *)
(* eligible drivers only, and disputes keep an order in hand.              *)

InHand == {"Assigned", "PickedUp", "Disputed"}

SameAssignment(q, r) ==
    /\ q.driver = r.driver
    /\ q.pickupDeadline = r.pickupDeadline /\ q.pickupWindowSecs = r.pickupWindowSecs

\* An order in a driver's hands after the step was so before, or is given now
\* to an eligible driver.
Given(o) ==
    orders'[o].status \in InHand =>
        \/ orders[o].status \in InHand /\ SameAssignment(orders'[o], orders[o])
        \/ orders'[o].driver \in eligible /\ AssignedAt(o)' = now

AllGiven == \A o \in OrderIds : Given(o)

-----------------------------------------------------------------------------
(* What each write does to an assignment.                                  *)

LEMMA GivenIfSame == ASSUME UNCHANGED orders PROVE AllGiven
BY DEF AllGiven, Given, SameAssignment

\* The order written is the only one to look at.
LEMMA GivenIfOne ==
    ASSUME TypeOK, NEW o \in OrderIds, NEW q, orders' = [orders EXCEPT ![o] = q],
           q.status \in InHand =>
              \/ orders[o].status \in InHand /\ SameAssignment(q, orders[o])
              \/ q.driver \in eligible /\ q.pickupDeadline - q.pickupWindowSecs = now
    PROVE  AllGiven
<1>1. orders'[o] = q /\ \A p \in OrderIds \ {o} : orders'[p] = orders[p]
  BY DEF TypeOK, LedgerType
<1>2. Given(o)
  BY <1>1 DEF Given, AssignedAt
<1>3. \A p \in OrderIds \ {o} : Given(p)
  BY <1>1 DEF Given, SameAssignment
<1> QED
  BY <1>2, <1>3 DEF AllGiven

LEMMA ClosedAssignment ==
    ASSUME NEW r \in Order, NEW st PROVE Closed(r, st).status = st
BY DEF Closed, Order

LEMMA ReleasedAssignment ==
    ASSUME NEW r \in Order, NEW v, NEW st
    PROVE  Released(r, v, st).status = st /\ SameAssignment(Released(r, v, st), r)
BY DEF Released, Order, SameAssignment

LEMMA ToppedUpAssignment ==
    ASSUME NEW r \in Order, NEW v
    PROVE  ToppedUp(r, v).status = r.status /\ SameAssignment(ToppedUp(r, v), r)
BY DEF ToppedUp, Order, SameAssignment

LEMMA DisputedAssignment ==
    ASSUME NEW r \in Order, NEW q, q = [r EXCEPT !.status = "Disputed"]
    PROVE  SameAssignment(q, r)
BY DEF Order, SameAssignment

\* The deadline counts from now, so its distance to the window is now.
LEMMA AssignedAssignment ==
    ASSUME TypeOK, NEW r \in Order, NEW d, NEW amount
    PROVE  LET q == Assigned(r, d, amount) IN
           q.driver = d /\ q.pickupDeadline - q.pickupWindowSecs = now
<1> DEFINE q == Assigned(r, d, amount)
<1>1. /\ q.driver = d /\ q.pickupDeadline = now + r.pickupWindowSecs
      /\ q.pickupWindowSecs = r.pickupWindowSecs
  BY DEF Assigned, Order
<1>2. now \in Nat /\ r.pickupWindowSecs \in Nat
  BY DEF TypeOK, WorldType, Order
<1> HIDE DEF q
<1> QED
  BY <1>1, <1>2 DEF q

-----------------------------------------------------------------------------
(* The order book's actions.                                               *)

LEMMA TypedOrders == TypeOK => \A o \in OrderIds : orders[o] \in Order
BY DEF TypeOK, LedgerType

LEMMA ClosingGiven ==
    ASSUME TypeOK, NEW o \in OrderIds, NEW st \in {"Cancelled", "Resolved"},
           orders' = [orders EXCEPT ![o] = Closed(@, st)]
    PROVE  AllGiven
<1> DEFINE q == Closed(orders[o], st)
<1>1. orders' = [orders EXCEPT ![o] = q] /\ q.status = st
  BY TypedOrders, ClosedAssignment DEF TypeOK, LedgerType
<1> HIDE DEF q
<1>2. q.status \notin InHand
  BY <1>1 DEF InHand
<1> QED
  BY <1>1, <1>2, GivenIfOne

LEMMA ReleaseGiven ==
    ASSUME TypeOK, NEW o \in OrderIds, NEW v, NEW st,
           orders' = [orders EXCEPT ![o] = Released(@, v, st)],
           orders[o].status \in InHand
    PROVE  AllGiven
<1> DEFINE q == Released(orders[o], v, st)
<1>1. orders' = [orders EXCEPT ![o] = q] /\ SameAssignment(q, orders[o])
  BY TypedOrders, ReleasedAssignment DEF TypeOK, LedgerType
<1> HIDE DEF q
<1> QED
  BY <1>1, GivenIfOne

LEMMA CreateOrderGiven ==
    ASSUME TypeOK, NEW c, NEW token, NEW venue, NEW value, NEW tip, NEW maxFare, NEW window,
           CreateOrder(c, token, venue, value, tip, maxFare, window)
    PROVE  AllGiven
<1> DEFINE o == nextOrderId
           w == IF window = 0 THEN config.defaultPickupWindow ELSE window
           q == NewOrder(c, token, value, tip, maxFare, config.relayServiceFee[token], w)
<1>1. o \in OrderIds /\ orders' = [orders EXCEPT ![o] = q]
  BY DEF CreateOrder
<1>2. q.status = "Open"
  BY DEF NewOrder
<1> HIDE DEF q
<1>3. q.status \notin InHand
  BY <1>2 DEF InHand
<1> QED
  BY <1>1, <1>3, GivenIfOne

LEMMA IncreaseTipGiven ==
    ASSUME TypeOK, NEW c, NEW o \in OrderIds, NEW v, IncreaseTip(c, o, v)
    PROVE  AllGiven
<1> DEFINE q == ToppedUp(orders[o], U96(v))
<1>1. /\ orders' = [orders EXCEPT ![o] = q]
      /\ q.status = orders[o].status /\ SameAssignment(q, orders[o])
  <2>1. orders' = [orders EXCEPT ![o] = q]
    BY DEF IncreaseTip, TypeOK, LedgerType
  <2> QED
    BY <2>1, TypedOrders, ToppedUpAssignment
<1> HIDE DEF q
<1> QED
  BY <1>1, GivenIfOne

LEMMA AcceptSealedBidGiven ==
    ASSUME TypeOK, NEW c, NEW o \in OrderIds, NEW d, NEW amount, NEW salt,
           AcceptSealedBid(c, o, d, amount, salt)
    PROVE  AllGiven
<1> DEFINE q == Assigned(orders[o], d, amount)
<1>1. orders' = [orders EXCEPT ![o] = q] /\ d \in eligible
  BY DEF AcceptSealedBid, Acceptable, TypeOK, LedgerType
<1>2. q.driver = d /\ q.pickupDeadline - q.pickupWindowSecs = now
  BY TypedOrders, AssignedAssignment
<1> HIDE DEF q
<1> QED
  BY <1>1, <1>2, GivenIfOne

LEMMA MarkDisputedGiven ==
    ASSUME TypeOK, NEW o \in OrderIds, MarkDisputed(o)
    PROVE  AllGiven
<1> DEFINE q == [orders[o] EXCEPT !.status = "Disputed"]
<1>1. orders' = [orders EXCEPT ![o] = q] /\ orders[o].status \in InHand
  BY DEF MarkDisputed, Disputable, InHand, TypeOK, LedgerType, MayDispute
<1>2. SameAssignment(q, orders[o])
  BY TypedOrders, DisputedAssignment
<1> HIDE DEF q
<1> QED
  BY <1>1, <1>2, GivenIfOne

LEMMA ClosingActionsGiven ==
    ASSUME TypeOK, NEW o \in OrderIds, NEW p, CancelOpen(p, o) \/ CancelAssigned(p, o) \/ AbandonOrder(p, o)
    PROVE  AllGiven
<1>1. orders' = [orders EXCEPT ![o] = Closed(@, "Cancelled")]
  BY DEF CancelOpen, CancelAssigned, AbandonOrder,
     MayCancelOpen, Refund, MayCancelAssigned, Compensated, MayAbandonOrder
<1> QED
  BY <1>1, ClosingGiven

LEMMA ConfirmedGiven ==
    ASSUME TypeOK, NEW o \in OrderIds, NEW r, OnPickupConfirmed(o) \/ OnDropoffConfirmed(o, r)
    PROVE  AllGiven
<1>1. /\ orders[o].status \in InHand
      /\ \E v, st : orders' = [orders EXCEPT ![o] = Released(@, v, st)]
  BY DEF OnPickupConfirmed, OnDropoffConfirmed, InHand,
     MayConfirmPickup, PickupPay, MayConfirmDropoff, DropoffRelease
<1> QED
  BY <1>1, ReleaseGiven

\* The owner's setters and the environment leave every order alone.
LEMMA OwnerLedger == Owner => UNCHANGED <<ledger, world>>
<1>1. ASSUME NEW fee, NEW comp, NEW w, SetParams(fee, comp, w) PROVE UNCHANGED <<ledger, world>>
  BY <1>1 DEF SetParams
<1>2. ASSUME NEW bps, SetRelayRebateBps(bps) PROVE UNCHANGED <<ledger, world>>
  BY <1>2 DEF SetRelayRebateBps
<1>3. ASSUME NEW token, NEW fee, SetRelayServiceFee(token, fee) PROVE UNCHANGED <<ledger, world>>
  BY <1>3 DEF SetRelayServiceFee
<1>4. ASSUME NEW token, NEW b, SetAcceptedToken(token, b) PROVE UNCHANGED <<ledger, world>>
  BY <1>4 DEF SetAcceptedToken
<1> QED
  BY <1>1, <1>2, <1>3, <1>4 DEF Owner

LEMMA OrderStepGiven ==
    ASSUME TypeOK, OrderStep
    PROVE  AllGiven
<1>1. ASSUME NEW c \in Customers, Customer(c) PROVE AllGiven
  BY <1>1, CreateOrderGiven, IncreaseTipGiven, ClosingActionsGiven, AcceptSealedBidGiven
     DEF Customer
<1>2. ASSUME NEW o \in OrderIds, Bidding(o) PROVE AllGiven
  BY <1>2, GivenIfSame DEF Bidding, CommitBid, RevokeBid, ledger
<1>3. ASSUME NEW o \in OrderIds, NEW r \in Relayers, OnPickupConfirmed(o) \/ OnDropoffConfirmed(o, r)
      PROVE  AllGiven
  BY <1>3, ConfirmedGiven
<1>4. ASSUME NEW o \in OrderIds, OnPickupConfirmed(o) PROVE AllGiven
  BY <1>4, ConfirmedGiven
<1>5. ASSUME NEW o \in OrderIds, NEW d \in Drivers, AbandonOrder(d, o) PROVE AllGiven
  BY <1>5, ClosingActionsGiven
<1>6. CASE Owner \/ Tick \/ Switch
  BY <1>6, OwnerLedger, GivenIfSame DEF Tick, Switch, ledger
<1> QED
  BY <1>1, <1>2, <1>3, <1>4, <1>5, <1>6 DEF OrderStep

\* No action of the order book touches eligibility, and time moves on.
LEMMA OrderStepWorld ==
    ASSUME TypeOK, OrderStep
    PROVE  eligible' = eligible /\ drivers' = drivers /\ now' \in {now, now + 1}
<1>1. ASSUME NEW c \in Customers, Customer(c) PROVE UNCHANGED world
  BY <1>1 DEF Customer, CreateOrder, IncreaseTip, CancelOpen, CancelAssigned, AcceptSealedBid,
     MayCancelOpen, Refund, MayCancelAssigned, Compensated
<1>2. ASSUME NEW o \in OrderIds, Bidding(o) PROVE UNCHANGED world
  BY <1>2 DEF Bidding, CommitBid, RevokeBid
<1>3. ASSUME NEW o \in OrderIds, NEW r, OnPickupConfirmed(o) \/ OnDropoffConfirmed(o, r)
      PROVE  UNCHANGED world
  BY <1>3 DEF OnPickupConfirmed, OnDropoffConfirmed,
     MayConfirmPickup, PickupPay, MayConfirmDropoff, DropoffRelease
<1>4. ASSUME NEW o \in OrderIds, NEW d \in Drivers, AbandonOrder(d, o) PROVE UNCHANGED world
  BY <1>4 DEF AbandonOrder, MayAbandonOrder, Refund
<1>5. ASSUME Owner PROVE UNCHANGED world
  BY <1>5, OwnerLedger
<1>6. ASSUME Tick \/ Switch PROVE eligible' = eligible /\ now' \in {now, now + 1}
  BY <1>6 DEF Tick, Switch
<1>7. UNCHANGED world \/ Tick \/ Switch
  BY <1>1, <1>2, <1>3, <1>4, <1>5 DEF OrderStep
<1> QED
  BY <1>6, <1>7 DEF world, OrderStep, driverVars

LEMMA OpenDisputeGiven ==
    ASSUME TypeOK, NEW p, NEW o \in OrderIds, OpenDispute(p, o)
    PROVE  AllGiven /\ UNCHANGED <<eligible, drivers, now>>
<1>1. MarkDisputed(o) /\ UNCHANGED <<eligible, drivers, now>>
  BY DEF OpenDispute, driverVars, MarkDisputed, world, MayDispute
<1> QED
  BY <1>1, MarkDisputedGiven

-----------------------------------------------------------------------------
(* The registry's actions.                                                 *)

DriverType == drivers \in [Drivers -> Registry!Driver]

\* A request is only ever withdrawn or made now; stake shrinks only by a
\* withdrawal after the delay; who never registered has none.
Registered == \A d \in Drivers : ~drivers[d].registered => drivers[d].stake = 0

RequestStep(d) ==
    drivers'[d].unstakeRequestedAt \in {drivers[d].unstakeRequestedAt, Registry!NoRequest, now}

WithdrawStep(d) == drivers'[d].stake < drivers[d].stake => Registry!Unbonded(d)

LEMMA DriverWrite ==
    ASSUME DriverType, Registered, NEW d \in Drivers, NEW q \in Registry!Driver,
           drivers' = [drivers EXCEPT ![d] = q],
           ~q.registered => q.stake = 0,
           q.unstakeRequestedAt \in {drivers[d].unstakeRequestedAt, Registry!NoRequest, now},
           q.stake < drivers[d].stake => Registry!Unbonded(d)
    PROVE  /\ DriverType' /\ Registered'
           /\ \A e \in Drivers : RequestStep(e) /\ WithdrawStep(e)
<1>1. /\ drivers'[d] = q /\ \A e \in Drivers \ {d} : drivers'[e] = drivers[e]
      /\ drivers' \in [Drivers -> Registry!Driver]
  BY DEF DriverType
<1>2. \A e \in Drivers : drivers[e].stake \in Nat
  BY DEF DriverType, Registry!Driver
<1>3. RequestStep(d) /\ WithdrawStep(d)
  BY <1>1 DEF RequestStep, WithdrawStep
<1>4. \A e \in Drivers \ {d} : RequestStep(e) /\ WithdrawStep(e)
  BY <1>1, <1>2 DEF RequestStep, WithdrawStep
<1> QED
  BY <1>1, <1>3, <1>4 DEF DriverType, Registered

LEMMA RegisterDriver ==
    ASSUME TypeOK, DriverType, Registered, NEW d \in Drivers, NEW v \in Stakes,
           Registry!Register(d, v) \/ Registry!AddStake(d, v)
    PROVE  /\ DriverType' /\ Registered'
           /\ \A e \in Drivers : RequestStep(e) /\ WithdrawStep(e)
<1> DEFINE r == drivers[d]
           q1 == [r EXCEPT !.registered = TRUE, !.stake = v]
           q2 == [r EXCEPT !.stake = r.stake + v, !.unstakeRequestedAt = Registry!NoRequest]
<1>1. r \in Registry!Driver /\ v \in Nat /\ r.stake \in Nat
  BY DisputesAssumption DEF DriverType, Registry!Driver
<1>2. CASE Registry!Register(d, v)
  <2>1. /\ q1 \in Registry!Driver /\ q1.registered = TRUE /\ q1.stake = v
        /\ q1.unstakeRequestedAt = r.unstakeRequestedAt
    BY <1>1 DEF Registry!Driver
  <2>2. r.stake = 0 /\ drivers' = [drivers EXCEPT ![d] = q1]
    BY <1>2 DEF Registry!Register, Registered, DriverType
  <2> HIDE DEF q1, r
  <2>3. ~(q1.stake < drivers[d].stake)
    BY <1>1, <2>1, <2>2 DEF r
  <2> QED
    BY <2>1, <2>2, <2>3, DriverWrite DEF r
<1>3. CASE Registry!AddStake(d, v)
  <2>1. /\ q2 \in Registry!Driver /\ q2.registered = r.registered /\ q2.stake = r.stake + v
        /\ q2.unstakeRequestedAt = Registry!NoRequest
    <3> DEFINE sum == r.stake + v
    <3>1. sum \in Nat
      BY <1>1
    <3> HIDE DEF sum
    <3>2. q2 = [r EXCEPT !.stake = sum, !.unstakeRequestedAt = Registry!NoRequest]
      BY DEF sum
    <3>3. q2 \in Registry!Driver /\ q2.registered = r.registered /\ q2.stake = sum
          /\ q2.unstakeRequestedAt = Registry!NoRequest
      BY <1>1, <3>1, <3>2 DEF Registry!Driver
    <3> QED
      BY <3>3 DEF sum
  <2>2. r.registered /\ drivers' = [drivers EXCEPT ![d] = q2]
    BY <1>3 DEF Registry!AddStake, DriverType
  <2> HIDE DEF q2, r
  <2>3. ~(q2.stake < drivers[d].stake)
    BY <1>1, <2>1 DEF r
  <2> QED
    BY <2>1, <2>2, <2>3, DriverWrite DEF r
<1> QED
  BY <1>2, <1>3

LEMMA UnstakeDriver ==
    ASSUME TypeOK, DriverType, Registered, NEW d \in Drivers,
           Registry!RequestUnstake(d) \/ Registry!WithdrawStake(d)
    PROVE  /\ DriverType' /\ Registered'
           /\ \A e \in Drivers : RequestStep(e) /\ WithdrawStep(e)
<1> DEFINE r == drivers[d]
           q1 == [r EXCEPT !.unstakeRequestedAt = now]
           q2 == [r EXCEPT !.stake = 0, !.unstakeRequestedAt = Registry!NoRequest]
<1>1. r \in Registry!Driver /\ r.stake \in Nat /\ now \in Nat
  BY DEF DriverType, Registry!Driver, TypeOK, WorldType
<1>2. CASE Registry!RequestUnstake(d)
  <2>1. /\ q1 \in Registry!Driver /\ q1.registered = r.registered /\ q1.stake = r.stake
        /\ q1.unstakeRequestedAt = now
    BY <1>1 DEF Registry!Driver
  <2>2. r.registered /\ drivers' = [drivers EXCEPT ![d] = q1]
    BY <1>2 DEF Registry!RequestUnstake, DriverType
  <2> HIDE DEF q1, r
  <2>3. ~(q1.stake < drivers[d].stake)
    BY <1>1, <2>1 DEF r
  <2> QED
    BY <2>1, <2>2, <2>3, DriverWrite DEF r
<1>3. CASE Registry!WithdrawStake(d)
  <2>1. /\ q2 \in Registry!Driver /\ q2.stake = 0
        /\ q2.unstakeRequestedAt = Registry!NoRequest
    BY <1>1 DEF Registry!Driver
  <2>2. Registry!Unbonded(d) /\ drivers' = [drivers EXCEPT ![d] = q2]
    BY <1>3 DEF Registry!WithdrawStake, DriverType
  <2> HIDE DEF q2, r
  <2> QED
    BY <2>1, <2>2, DriverWrite
<1> QED
  BY <1>2, <1>3

LEMMA BanDriver ==
    ASSUME TypeOK, DriverType, Registered, NEW d \in Drivers, NEW b \in BOOLEAN,
           Registry!SetBanned(d, b)
    PROVE  /\ DriverType' /\ Registered'
           /\ \A e \in Drivers : RequestStep(e) /\ WithdrawStep(e)
<1> DEFINE r == drivers[d]
           q == [r EXCEPT !.banned = b]
<1>1. r \in Registry!Driver /\ r.stake \in Nat
  BY DEF DriverType, Registry!Driver
<1>2. /\ q \in Registry!Driver /\ q.registered = r.registered /\ q.stake = r.stake
      /\ q.unstakeRequestedAt = r.unstakeRequestedAt
  BY <1>1 DEF Registry!Driver
<1>3. drivers' = [drivers EXCEPT ![d] = q]
  BY DEF Registry!SetBanned, DriverType
<1>4. ~r.registered => r.stake = 0
  BY DEF Registered
<1> HIDE DEF q, r
<1>5. ~(q.stake < drivers[d].stake)
  BY <1>1, <1>2 DEF r
<1> QED
  BY <1>2, <1>3, <1>4, <1>5, DriverWrite DEF r

LEMMA NoDriverWrite ==
    ASSUME DriverType, Registered, UNCHANGED drivers
    PROVE  /\ DriverType' /\ Registered'
           /\ \A e \in Drivers : RequestStep(e) /\ WithdrawStep(e)
<1>1. \A e \in Drivers : drivers[e].stake \in Nat
  BY DEF DriverType, Registry!Driver
<1> QED
  BY <1>1 DEF DriverType, Registered, RequestStep, WithdrawStep

LEMMA RegistryStepDrivers ==
    ASSUME TypeOK, DriverType, Registered, RegistryStep
    PROVE  /\ DriverType' /\ Registered'
           /\ \A e \in Drivers : RequestStep(e) /\ WithdrawStep(e)
<1>1. ASSUME NEW d \in Drivers, Registry!Account(d)
      PROVE  /\ DriverType' /\ Registered'
             /\ \A e \in Drivers : RequestStep(e) /\ WithdrawStep(e)
  BY <1>1, RegisterDriver, UnstakeDriver DEF Registry!Account
<1>2. CASE Registry!Owner
  <2>1. CASE Registry!SetFloors \/ Registry!SwitchEntry
    BY <2>1, NoDriverWrite DEF Registry!SetFloors, Registry!SwitchEntry, Registry!stakeVars
  <2> QED
    BY <1>2, <2>1, BanDriver DEF Registry!Owner
<1> QED
  BY <1>1, <1>2 DEF RegistryStep

\* A slash leaves the request and the registration alone.
LEMMA SlashDrivers ==
    ASSUME DriverType, Registered, NEW p, NEW amount \in Nat, NEW recipient,
           Registry!Slash(p, amount, recipient)
    PROVE  /\ DriverType' /\ Registered'
           /\ \A e \in Drivers :
                 drivers'[e].unstakeRequestedAt = drivers[e].unstakeRequestedAt
<1>1. CASE p \in Drivers
  <2> DEFINE r == drivers[p]
             t == Registry!Taken(p, amount)
             q == [r EXCEPT !.stake = r.stake - t]
  <2>1. r \in Registry!Driver /\ r.stake \in Nat
    BY <1>1 DEF DriverType, Registry!Driver
  <2>2. t \in Nat /\ t <= r.stake
    BY <2>1 DEF Registry!Taken
  <2> HIDE DEF t
  <2>3. r.stake - t \in Nat
    BY <2>1, <2>2
  <2>4. /\ q \in Registry!Driver /\ q.registered = r.registered /\ q.stake = r.stake - t
        /\ q.unstakeRequestedAt = r.unstakeRequestedAt
    BY <2>1, <2>3 DEF Registry!Driver
  <2>5. drivers' = [drivers EXCEPT ![p] = q]
    BY <1>1 DEF Registry!Slash, DriverType, t, Registry!MaySlash
  <2>6. ~r.registered => r.stake = 0
    BY <1>1 DEF Registered
  <2> HIDE DEF q
  <2>7. ~q.registered => q.stake = 0
    BY <2>1, <2>2, <2>4, <2>6
  <2>8. /\ drivers'[p] = q /\ \A e \in Drivers \ {p} : drivers'[e] = drivers[e]
        /\ drivers' \in [Drivers -> Registry!Driver]
    BY <1>1, <2>4, <2>5 DEF DriverType
  <2> QED
    BY <1>1, <2>4, <2>7, <2>8 DEF DriverType, Registered
<1>2. CASE p \notin Drivers
  <2>1. drivers' = drivers
    BY <1>2 DEF Registry!Slash, DriverType, Registry!MaySlash
  <2> QED
    BY <2>1 DEF DriverType, Registered
<1> QED
  BY <1>1, <1>2

-----------------------------------------------------------------------------
(* The invariant.                                                          *)

\* Every order in a driver's hands was given before now, and before the
\* driver asked for the stake; who is eligible has no request pending.
Before(d) ==
    \A o \in Working(d) :
        /\ AssignedAt(o) <= now
        /\ drivers[d].unstakeRequestedAt # Registry!NoRequest =>
              AssignedAt(o) <= drivers[d].unstakeRequestedAt

UnbondInv ==
    /\ DriverType /\ Registered
    /\ eligible = Registry!EligibleDrivers
    /\ \A d \in Drivers : Before(d)

\* Times are integers.
LEMMA Times ==
    ASSUME TypeOK, DriverType
    PROVE  /\ now \in Int
           /\ \A o \in OrderIds : AssignedAt(o) \in Int
           /\ \A d \in Drivers : drivers[d].unstakeRequestedAt \in Int
<1>1. \A o \in OrderIds : orders[o].pickupDeadline \in Nat /\ orders[o].pickupWindowSecs \in Nat
  BY TypedOrders DEF Order
<1>2. \A d \in Drivers : drivers[d].unstakeRequestedAt \in Int
  BY DEF DriverType, Registry!Driver, Registry!NoRequest
<1> QED
  BY <1>1, <1>2 DEF TypeOK, WorldType, AssignedAt

LEMMA TimesAfter ==
    ASSUME TypeOK', DriverType'
    PROVE  /\ now' \in Int
           /\ \A o \in OrderIds : AssignedAt(o)' \in Int
           /\ \A d \in Drivers : drivers'[d].unstakeRequestedAt \in Int
<1>1. \A o \in OrderIds : orders'[o] \in Order
  BY DEF TypeOK, LedgerType
<1>2. \A o \in OrderIds : orders'[o].pickupDeadline \in Nat /\ orders'[o].pickupWindowSecs \in Nat
  BY <1>1 DEF Order
<1>3. \A d \in Drivers : drivers'[d].unstakeRequestedAt \in Int
  BY DEF DriverType, Registry!Driver, Registry!NoRequest
<1> QED
  BY <1>2, <1>3 DEF TypeOK, WorldType, AssignedAt

\* A step that gives orders to eligible drivers only, and in which requests
\* are made at the present time only, keeps the order of events.
LEMMA BeforeKept ==
    ASSUME TypeOK, TypeOK', UnbondInv, DriverType', AllGiven, now' \in {now, now + 1},
           \A d \in Drivers : RequestStep(d),
           orders' = orders \/ \A d \in Drivers :
              drivers'[d].unstakeRequestedAt = drivers[d].unstakeRequestedAt
    PROVE  \A d \in Drivers : Before(d)'
<1> SUFFICES ASSUME NEW d \in Drivers, NEW o \in Working(d)'
             PROVE  /\ AssignedAt(o)' <= now'
                    /\ drivers'[d].unstakeRequestedAt # Registry!NoRequest =>
                          AssignedAt(o)' <= drivers'[d].unstakeRequestedAt
  BY DEF Before
<1>1. o \in OrderIds /\ orders'[o].driver = d /\ orders'[o].status \in InHand
  BY DEF Working, InHand
<1>2. /\ now \in Int /\ AssignedAt(o) \in Int /\ drivers[d].unstakeRequestedAt \in Int
      /\ now' \in Int /\ AssignedAt(o)' \in Int /\ drivers'[d].unstakeRequestedAt \in Int
  BY <1>1, Times, TimesAfter DEF UnbondInv
<1>3. CASE orders[o].status \in InHand /\ SameAssignment(orders'[o], orders[o])
  <2>1. o \in Working(d) /\ AssignedAt(o)' = AssignedAt(o)
    BY <1>1, <1>3 DEF Working, InHand, SameAssignment, AssignedAt
  <2>2. /\ AssignedAt(o) <= now
        /\ drivers[d].unstakeRequestedAt # Registry!NoRequest =>
              AssignedAt(o) <= drivers[d].unstakeRequestedAt
    BY <2>1 DEF UnbondInv, Before
  <2>3. \/ drivers'[d].unstakeRequestedAt = drivers[d].unstakeRequestedAt
        \/ drivers'[d].unstakeRequestedAt = Registry!NoRequest
        \/ drivers'[d].unstakeRequestedAt = now
    BY DEF RequestStep
  <2> QED
    BY <1>2, <2>1, <2>2, <2>3
<1>4. CASE orders'[o].driver \in eligible /\ AssignedAt(o)' = now
  <2>1. drivers[d].unstakeRequestedAt = Registry!NoRequest
    BY <1>1, <1>4 DEF UnbondInv, Registry!EligibleDrivers, Registry!IsEligible
  <2>2. \/ drivers'[d].unstakeRequestedAt = Registry!NoRequest
        \/ drivers'[d].unstakeRequestedAt = now
    BY <2>1 DEF RequestStep
  <2> QED
    BY <1>2, <1>4, <2>2
<1> QED
  BY <1>1, <1>3, <1>4 DEF AllGiven, Given

PeriodType == unbondingSeconds \in Nat

LEMMA UnbondInit == DisputesInit => UnbondInv
<1> SUFFICES ASSUME DisputesInit PROVE UnbondInv
  OBVIOUS
<1> DEFINE r == [registered |-> FALSE, banned |-> FALSE, stake |-> 0,
                 unstakeRequestedAt |-> Registry!NoRequest]
<1>1. r \in Registry!Driver /\ r.stake = 0
  BY DEF Registry!Driver
<1>2. drivers = [d \in Drivers |-> r]
  BY DEF DisputesInit, Registry!Init
<1> HIDE DEF r
<1>3. DriverType /\ Registered
  BY <1>1, <1>2 DEF DriverType, Registered
<1>4. \A d \in Drivers : Working(d) = {}
  <2>1. \A o \in OrderIds : orders[o].status = "None"
    BY DEF DisputesInit, Init, EmptyOrder
  <2> QED
    BY <2>1 DEF Working
<1> QED
  BY <1>3, <1>4 DEF UnbondInv, Before, DisputesInit

\* One lemma for what any step does to drivers, orders and time.
UnbondStep ==
    /\ UnbondInv'
    /\ \A d \in Drivers : Withdrawn(d) => Registry!Unbonded(d)

LEMMA OrderStepUnbond ==
    ASSUME TypeOK, TypeOK', UnbondInv,
           AllGiven, UNCHANGED <<eligible, drivers>>, now' \in {now, now + 1},
           Registry!EligibleDrivers' = Registry!EligibleDrivers
    PROVE  UnbondStep
<1>1. /\ DriverType' /\ Registered'
      /\ \A d \in Drivers : RequestStep(d) /\ WithdrawStep(d)
  BY NoDriverWrite DEF UnbondInv
<1>2. \A d \in Drivers : Before(d)'
  BY <1>1, BeforeKept
<1> QED
  BY <1>1, <1>2 DEF UnbondStep, UnbondInv, Withdrawn, WithdrawStep

LEMMA RegistryStepUnbond ==
    ASSUME TypeOK, TypeOK', UnbondInv, RegistryStep
    PROVE  UnbondStep
<1>1. /\ DriverType' /\ Registered'
      /\ \A d \in Drivers : RequestStep(d) /\ WithdrawStep(d)
  BY RegistryStepDrivers DEF UnbondInv
<1>2. /\ eligible' = Registry!EligibleDrivers' /\ UNCHANGED orders
  BY DEF RegistryStep, ledger
<1>3. now' = now
  BY DEF RegistryStep, Registry!Account, Registry!Owner, Registry!Register,
         Registry!AddStake, Registry!RequestUnstake, Registry!WithdrawStake,
         Registry!SetBanned, Registry!SetFloors, Registry!SwitchEntry
<1>4. AllGiven
  BY <1>2, GivenIfSame
<1>5. \A d \in Drivers : Before(d)'
  BY <1>1, <1>2, <1>3, <1>4, BeforeKept
<1> QED
  BY <1>1, <1>2, <1>5 DEF UnbondStep, UnbondInv, Withdrawn, WithdrawStep

\* A ruling takes stake, but it is a ruling: the dispute changes.
LEMMA ResolveUnbond ==
    ASSUME TypeOK, TypeOK', UnbondInv, CasesType,
           NEW i \in DisputeIds, NEW bps, NEW wins, NEW atFault, NEW amount \in Slashes,
           Resolve(i, bps, wins, atFault, amount)
    PROVE  UnbondStep
<1> DEFINE o == disputes[i].orderId
<1>1. /\ disputes[i].status = "Open" /\ disputes' = [disputes EXCEPT ![i] = Ruled(disputes[i])]
      /\ ResolveDisputed(o, bps, atFault)
      /\ Registry!Slash(orders[o].driver, amount, orders[o].customer)
      /\ eligible' = Registry!EligibleDrivers'
  BY DEF Resolve, MayRule, CasesType
<1>2. o \in OrderIds /\ amount \in Nat
  BY <1>1, DisputesAssumption DEF CasesType
<1>3. disputes' # disputes
  <2>1. Ruled(disputes[i]).status = "Resolved"
    BY RuledFields DEF CasesType
  <2> QED
    BY <1>1, <2>1 DEF CasesType
<1>4. /\ DriverType' /\ Registered'
      /\ \A d \in Drivers : drivers'[d].unstakeRequestedAt = drivers[d].unstakeRequestedAt
  BY <1>1, <1>2, SlashDrivers DEF UnbondInv
<1>5. orders' = [orders EXCEPT ![o] = Closed(@, "Resolved")] /\ now' = now
  BY <1>1 DEF ResolveDisputed, MayResolve, Split
<1> HIDE DEF o
<1>6. AllGiven
  BY <1>2, <1>5, ClosingGiven
<1>7. \A d \in Drivers : Before(d)'
  BY <1>4, <1>5, <1>6, BeforeKept DEF RequestStep
<1> QED
  BY <1>1, <1>3, <1>4, <1>7 DEF UnbondStep, UnbondInv, Withdrawn

LEMMA NextUnbond ==
    ASSUME TypeOK, TypeOK', CasesType, UnbondInv, [DisputesNext]_allVars
    PROVE  UnbondStep
<1>1. ASSUME UNCHANGED <<drivers, minStake>>
      PROVE  Registry!EligibleDrivers' = Registry!EligibleDrivers
  BY <1>1 DEF Registry!EligibleDrivers, Registry!IsEligible
<1>2. CASE OrderStep
  <2>1. UNCHANGED <<drivers, minStake>>
    BY <1>2 DEF OrderStep, driverVars
  <2> QED
    BY <1>1, <1>2, <2>1, OrderStepGiven, OrderStepWorld, OrderStepUnbond
<1>3. CASE RegistryStep
  BY <1>3, RegistryStepUnbond
<1>4. ASSUME NEW p \in Customers \cup Drivers, NEW o \in OrderIds, OpenDispute(p, o)
      PROVE  UnbondStep
  <2>1. UNCHANGED <<drivers, minStake>>
    BY <1>4 DEF OpenDispute, driverVars
  <2>2. AllGiven /\ UNCHANGED <<eligible, now>>
    BY <1>4, OpenDisputeGiven
  <2> QED
    BY <1>1, <2>1, <2>2, OrderStepUnbond
<1>5. CASE Arbiter
  BY <1>5, ResolveUnbond DEF Arbiter
<1>6. CASE SetDisputeBond \/ SwitchDisputes \/ UNCHANGED allVars
  <2>1. UNCHANGED <<drivers, minStake, orders, eligible, now>>
    BY <1>6 DEF SetDisputeBond, SwitchDisputes, allVars, vars, driverVars, ledger, world
  <2>2. AllGiven
    BY <2>1, GivenIfSame
  <2> QED
    BY <1>1, <2>1, <2>2, OrderStepUnbond
<1> QED
  BY <1>2, <1>3, <1>4, <1>5, <1>6 DEF DisputesNext

\* A driver who takes the stake out has had every order still in hand for at
\* least the delay: no order can be taken on between the request and the
\* withdrawal, whatever governance does to delay and floor and whoever is
\* struck, slashed or banned meanwhile.
THEOREM WithdrawalsComeAfter == DisputesSpec => OrdersPredateWithdrawal
<1> DEFINE Late == \A d \in Drivers : Withdrawn(d) =>
              \A o \in Working(d) : now >= AssignedAt(o) + unbondingSeconds
<1>1. ASSUME TypeOK, UnbondInv, UnbondStep, PeriodType
      PROVE  Late
  <2> SUFFICES ASSUME NEW d \in Drivers, Registry!Unbonded(d), NEW o \in Working(d)
               PROVE  now >= AssignedAt(o) + unbondingSeconds
    BY <1>1 DEF UnbondStep
  <2>1. /\ now \in Int /\ AssignedAt(o) \in Int /\ drivers[d].unstakeRequestedAt \in Int
    BY <1>1, Times DEF UnbondInv, Working
  <2>2. AssignedAt(o) <= drivers[d].unstakeRequestedAt
    BY <1>1 DEF UnbondInv, Before, Registry!Unbonded
  <2>3. now >= drivers[d].unstakeRequestedAt + unbondingSeconds
    BY DEF Registry!Unbonded
  <2> QED
    BY <1>1, <2>1, <2>2, <2>3 DEF PeriodType
<1>2. DisputesSpec => []TypeOK
  BY DisputesKeepEscrow, PTL
<1>3. DisputesSpec => []CasesType
  BY InitCases, NextCases, PTL DEF DisputesSpec
<1>4. DisputesInit => PeriodType
  BY DisputesAssumption DEF DisputesInit, Registry!Init, PeriodType
<1>5. PeriodType /\ [DisputesNext]_allVars => PeriodType'
  <2> SUFFICES ASSUME PeriodType, [DisputesNext]_allVars
               PROVE  PeriodType'
    OBVIOUS
  <2>1. CASE RegistryStep
    <3>1. ASSUME NEW d, Registry!Account(d) PROVE unbondingSeconds' = unbondingSeconds
      BY <3>1 DEF Registry!Account, Registry!Register, Registry!AddStake,
                  Registry!RequestUnstake, Registry!WithdrawStake, Registry!floors
    <3>2. ASSUME Registry!Owner PROVE unbondingSeconds' \in Periods \cup {unbondingSeconds}
      BY <3>2 DEF Registry!Owner, Registry!SetBanned, Registry!SetFloors,
                  Registry!SwitchEntry, Registry!floors
    <3> QED
      BY <2>1, <3>1, <3>2, DisputesAssumption DEF RegistryStep, PeriodType
  <2>2. CASE Arbiter
    BY <2>2 DEF Arbiter, Resolve, Registry!Slash, Registry!floors, PeriodType,
       Registry!MaySlash
  <2>3. CASE UNCHANGED driverVars
    BY <2>3 DEF driverVars, PeriodType
  <2>4. \/ RegistryStep \/ Arbiter \/ UNCHANGED driverVars
    BY DEF DisputesNext, OrderStep, OpenDispute, SetDisputeBond, SwitchDisputes, allVars
  <2> QED
    BY <2>1, <2>2, <2>3, <2>4
<1>6. DisputesSpec => []PeriodType
  BY <1>4, <1>5, PTL DEF DisputesSpec
<1>7. TypeOK /\ TypeOK' /\ CasesType /\ UnbondInv /\ [DisputesNext]_allVars => UnbondInv'
  BY NextUnbond DEF UnbondStep
<1>8. DisputesSpec => []UnbondInv
  BY <1>2, <1>3, <1>7, UnbondInit, PTL DEF DisputesSpec
<1>9. TypeOK /\ TypeOK' /\ CasesType /\ UnbondInv /\ PeriodType
         /\ [DisputesNext]_allVars => [Late]_allVars
  BY <1>1, NextUnbond
<1> HIDE DEF Late
<1>10. DisputesSpec => [][Late]_allVars
  BY <1>2, <1>3, <1>6, <1>8, <1>9, PTL DEF DisputesSpec
<1> QED
  BY <1>10 DEF OrdersPredateWithdrawal, Late

-----------------------------------------------------------------------------
(* Bonds and stakes are there to be paid.  Both are sums over what was     *)
(* written at one place per step.                                          *)

Payees == Customers \cup Drivers \cup {Treasury}

\* What dispute q counts for among those of status st.
BondAt(q, st) == IF q.status = st THEN q.bond ELSE 0

BondsIn(cases, st) == [i \in DisputeIds |-> BondAt(cases[i], st)]

StakesIn(registered) == [d \in Drivers |-> registered[d].stake]

LEMMA FiniteDisputes == IsFiniteSet(DisputeIds) /\ IsFiniteSet(Payees)
<1>1. IsFiniteSet(DisputeIds)
  BY BoundsAssumption, FS_Interval DEF DisputeIds
<1>2. IsFiniteSet(Customers \cup Drivers)
  BY DisputesAssumption, FS_Union
<1>3. IsFiniteSet({Treasury})
  BY FS_Singleton
<1>4. IsFiniteSet((Customers \cup Drivers) \cup {Treasury})
  BY <1>2, <1>3, FS_Union
<1> QED
  BY <1>1, <1>4 DEF Payees

LEMMA BondNat ==
    ASSUME NEW b \in Bonds \cup {0} PROVE b \in Nat
<1>1. Bonds \subseteq Nat
  BY DisputesAssumption
<1> QED
  BY <1>1

LEMMA BondAtInt ==
    ASSUME NEW q \in Dispute, NEW st
    PROVE  BondAt(q, st) \in Int
<1> DEFINE b == q.bond
<1>1. b \in Bonds \cup {0}
  BY DEF Dispute
<1>2. BondAt(q, st) \in {b, 0}
  BY DEF BondAt
<1> HIDE DEF b
<1>3. b \in Nat
  BY <1>1, BondNat
<1> QED
  BY <1>2, <1>3

LEMMA BondsInType ==
    ASSUME NEW c \in [DisputeIds -> Dispute], NEW st
    PROVE  BondsIn(c, st) \in [DisputeIds -> Int]
<1>1. \A i \in DisputeIds : BondAt(c[i], st) \in Int
  BY BondAtInt
<1> QED
  BY <1>1 DEF BondsIn

\* A write to one dispute changes each sum by what that dispute counts for.
LEMMA CaseWritten ==
    ASSUME NEW c \in [DisputeIds -> Dispute], NEW g \in [DisputeIds -> Dispute],
           NEW i \in DisputeIds, \A j \in DisputeIds \ {i} : g[j] = c[j], NEW st
    PROVE  SumFunction(BondsIn(g, st)) =
              SumFunction(BondsIn(c, st)) + (BondAt(g[i], st) - BondAt(c[i], st))
<1>2. /\ BondsIn(c, st) \in [DisputeIds -> Int] /\ BondsIn(g, st) \in [DisputeIds -> Int]
  BY BondsInType
<1>3. /\ BondsIn(g, st)[i] = BondAt(g[i], st) /\ BondsIn(c, st)[i] = BondAt(c[i], st)
      /\ \A j \in DisputeIds \ {i} : BondsIn(g, st)[j] = BondsIn(c, st)[j]
  BY DEF BondsIn
<1> DEFINE G == BondsIn(g, st)
           C == BondsIn(c, st)
<1>4. G \in [DisputeIds -> Int] /\ C \in [DisputeIds -> Int]
  BY <1>2
<1>5. \A j \in DisputeIds \ {i} : G[j] = C[j]
  BY <1>3
<1>6. G[i] = BondAt(g[i], st) /\ C[i] = BondAt(c[i], st)
  BY <1>3
<1> HIDE DEF G, C
<1>7. SumFunction(G) = SumFunction(C) + (G[i] - C[i])
  BY <1>4, <1>5, FiniteDisputes, SumChange
<1> QED
  BY <1>6, <1>7 DEF G, C

\* A write to one driver changes what is at stake by the driver's change.
LEMMA StakeWritten ==
    ASSUME NEW f \in [Drivers -> Registry!Driver], NEW d \in Drivers,
           NEW q \in Registry!Driver, NEW g, g = [f EXCEPT ![d] = q]
    PROVE  SumFunction(StakesIn(g)) = SumFunction(StakesIn(f)) + (q.stake - f[d].stake)
<1>1. /\ g \in [Drivers -> Registry!Driver] /\ g[d] = q
      /\ \A e \in Drivers \ {d} : g[e] = f[e]
  OBVIOUS
<1>2. /\ StakesIn(f) \in [Drivers -> Int] /\ StakesIn(g) \in [Drivers -> Int]
  BY <1>1 DEF StakesIn, Registry!Driver
<1>3. /\ StakesIn(g)[d] = q.stake /\ StakesIn(f)[d] = f[d].stake
      /\ \A e \in Drivers \ {d} : StakesIn(g)[e] = StakesIn(f)[e]
  BY <1>1 DEF StakesIn
<1> DEFINE G == StakesIn(g)
           F == StakesIn(f)
<1>4. G \in [Drivers -> Int] /\ F \in [Drivers -> Int]
  BY <1>2
<1>5. \A e \in Drivers \ {d} : G[e] = F[e]
  BY <1>3
<1>6. G[d] = q.stake /\ F[d] = f[d].stake
  BY <1>3
<1> HIDE DEF G, F
<1>7. SumFunction(G) = SumFunction(F) + (G[d] - F[d])
  BY <1>4, <1>5, DisputesAssumption, SumChange
<1> QED
  BY <1>6, <1>7 DEF G, F

-----------------------------------------------------------------------------
\* Whoever may be slashed is a driver of the registry, and whoever opened a
\* dispute an account that can be credited.
HandsInv == \A o \in OrderIds : orders[o].status \in InHand => orders[o].driver \in Drivers

OpenersInv ==
    \A i \in DisputeIds : disputes[i].status # "None" => disputes[i].opener \in Payees

BondInv ==
    /\ bondHeld \in Int /\ bondCredit \in [Payees -> Int]
    /\ bondHeld = SumFunction(BondsIn(disputes, "Open"))
    /\ SumFunction(bondCredit) = SumFunction(BondsIn(disputes, "Resolved"))

StakeInv == stakeHeld \in Int /\ stakeHeld = SumFunction(StakesIn(drivers))

PayInv == OpenersInv /\ BondInv /\ StakeInv

LEMMA PayImpliesBacked == PayInv /\ DriverType => Backed
<1> SUFFICES ASSUME PayInv, DriverType PROVE Backed
  OBVIOUS
<1>1. \A d \in Drivers : drivers[d].stake >= 0
  BY DEF DriverType, Registry!Driver
<1>2. \A st : BondsIn(disputes, st) =
         [i \in DisputeIds |-> IF disputes[i].status = st THEN disputes[i].bond ELSE 0]
  BY DEF BondsIn, BondAt
<1> QED
  BY <1>1, <1>2 DEF PayInv, BondInv, StakeInv, StakesIn, Backed

LEMMA InitPayInv == DisputesInit => PayInv
<1> SUFFICES ASSUME DisputesInit PROVE PayInv
  OBVIOUS
<1>1. /\ disputes \in [DisputeIds -> Dispute]
      /\ \A i \in DisputeIds : disputes[i].status = "None"
      /\ bondHeld = 0 /\ bondCredit = [a \in Payees |-> 0] /\ stakeHeld = 0
      /\ \A d \in Drivers : drivers[d].stake = 0
  BY InitCases DEF DisputesInit, CasesType, NoDispute, Registry!Init, Payees
<1>2. ASSUME NEW st \in {"Open", "Resolved"} PROVE SumFunction(BondsIn(disputes, st)) = 0
  <2>1. BondsIn(disputes, st) \in [DisputeIds -> Int]
    BY <1>1, BondsInType
  <2>2. \A i \in DisputeIds : BondsIn(disputes, st)[i] = 0
    BY <1>1, <1>2 DEF BondsIn, BondAt
  <2> QED
    BY <2>1, <2>2, FiniteDisputes, SumZero
<1>3. SumFunction(bondCredit) = 0
  <2>1. bondCredit \in [Payees -> Int] /\ \A a \in Payees : bondCredit[a] = 0
    BY <1>1
  <2> QED
    BY <2>1, FiniteDisputes, SumZero
<1>4. SumFunction(StakesIn(drivers)) = 0
  <2>1. StakesIn(drivers) \in [Drivers -> Int] /\ \A d \in Drivers : StakesIn(drivers)[d] = 0
    BY <1>1 DEF StakesIn
  <2> QED
    BY <2>1, DisputesAssumption, SumZero
<1> QED
  BY <1>1, <1>2, <1>3, <1>4 DEF PayInv, OpenersInv, BondInv, StakeInv

-----------------------------------------------------------------------------
(* What each step pays in and out.                                         *)

\* Given orders are in drivers' hands.
LEMMA GivenHands ==
    ASSUME TypeOK, HandsInv, AllGiven
    PROVE  HandsInv'
<1>1. eligible \subseteq Drivers
  BY DEF TypeOK, WorldType
<1> SUFFICES ASSUME NEW o \in OrderIds, orders'[o].status \in InHand
             PROVE  orders'[o].driver \in Drivers
  BY DEF HandsInv
<1>2. Given(o)
  BY DEF AllGiven
<1> QED
  BY <1>1, <1>2 DEF Given, HandsInv, SameAssignment

LEMMA OpenDisputePays ==
    ASSUME IInv, DInv, PayInv, NEW o \in OrderIds, NEW p \in Customers \cup Drivers,
           OpenDispute(p, o)
    PROVE  PayInv'
<1> DEFINE n == nextDisputeId
           q == [orderId |-> o, opener |-> p, bond |-> disputeBond, status |-> "Open"]
<1>1. /\ n \in DisputeIds /\ disputes' = [disputes EXCEPT ![n] = q]
      /\ bondHeld' = bondHeld + disputeBond /\ bondCredit' = bondCredit
      /\ stakeHeld' = stakeHeld /\ drivers' = drivers
  BY DEF OpenDispute, driverVars
<1>2. disputes \in [DisputeIds -> Dispute] /\ disputeBond \in Bonds /\ disputes[n].status = "None"
  BY <1>1 DEF DInv, CasesType, DisputeIds
<1>3. q \in Dispute
  BY <1>2, NewDispute
<1>4. q.status = "Open" /\ q.bond = disputeBond /\ q.opener \in Payees
  BY DEF Payees
<1>5. disputeBond \in Int
  <2>1. Bonds \subseteq Nat
    BY DisputesAssumption
  <2> QED
    BY <1>2, <2>1
<1> HIDE DEF q, n
<1>6. OpenersInv'
  BY <1>1, <1>2, <1>4 DEF PayInv, OpenersInv
<1>7. ASSUME NEW st
      PROVE  SumFunction(BondsIn(disputes', st)) =
                SumFunction(BondsIn(disputes, st)) + (BondAt(q, st) - BondAt(disputes[n], st))
  <2>1. /\ disputes' \in [DisputeIds -> Dispute] /\ disputes'[n] = q /\ n \in DisputeIds
        /\ \A j \in DisputeIds \ {n} : disputes'[j] = disputes[j]
    BY <1>1, <1>2, <1>3
  <2> QED
    BY <1>2, <2>1, CaseWritten
<1>8. /\ BondAt(q, "Open") = disputeBond /\ BondAt(disputes[n], "Open") = 0
      /\ BondAt(q, "Resolved") = 0 /\ BondAt(disputes[n], "Resolved") = 0
  BY <1>2, <1>4 DEF BondAt
<1>9. SumFunction(bondCredit) \in Int /\ bondHeld \in Int
  BY FiniteDisputes, SumInt DEF PayInv, BondInv
<1>10. bondHeld' = SumFunction(BondsIn(disputes', "Open"))
  <2>1. SumFunction(BondsIn(disputes', "Open")) = bondHeld + (disputeBond - 0)
    BY <1>7, <1>8 DEF PayInv, BondInv
  <2> QED
    BY <1>1, <1>5, <1>9, <2>1
<1>11. SumFunction(bondCredit) = SumFunction(BondsIn(disputes', "Resolved"))
  BY <1>7, <1>8, <1>9 DEF PayInv, BondInv
<1>12. BondInv'
  BY <1>1, <1>5, <1>9, <1>10, <1>11 DEF PayInv, BondInv
<1> QED
  BY <1>1, <1>6, <1>12 DEF PayInv, StakeInv

\* A write to one driver, and as much of stake as it changes.
LEMMA StakePaid ==
    ASSUME DriverType, StakeInv, NEW d \in Drivers, NEW q \in Registry!Driver,
           drivers' = [drivers EXCEPT ![d] = q],
           stakeHeld' = stakeHeld + (q.stake - drivers[d].stake)
    PROVE  StakeInv'
<1>1. SumFunction(StakesIn(drivers')) = SumFunction(StakesIn(drivers)) + (q.stake - drivers[d].stake)
  BY StakeWritten DEF DriverType
<1>2. q.stake \in Int /\ drivers[d].stake \in Int
  BY DEF DriverType, Registry!Driver
<1> QED
  BY <1>1, <1>2 DEF StakeInv

LEMMA SlashPays ==
    ASSUME DriverType, StakeInv, NEW d \in Drivers, NEW amount \in Nat, NEW recipient,
           Registry!Slash(d, amount, recipient)
    PROVE  StakeInv'
<1> DEFINE r == drivers[d]
           t == Registry!Taken(d, amount)
           q == [r EXCEPT !.stake = r.stake - t]
<1>1. r \in Registry!Driver /\ r.stake \in Nat
  BY DEF DriverType, Registry!Driver
<1>2. t \in Nat /\ t <= r.stake
  BY <1>1 DEF Registry!Taken
<1>3. stakeHeld' = stakeHeld - t /\ stakeHeld \in Int
  BY DEF Registry!Slash, StakeInv, Registry!MaySlash
<1>4. drivers' = [drivers EXCEPT ![d] = q]
  BY DEF Registry!Slash, DriverType, Registry!MaySlash
<1> HIDE DEF t
<1>5. r.stake - t \in Nat
  BY <1>1, <1>2
<1>6. q \in Registry!Driver /\ q.stake = r.stake - t
  BY <1>1, <1>5 DEF Registry!Driver
<1> HIDE DEF q
<1>7. stakeHeld' = stakeHeld + (q.stake - drivers[d].stake)
  <2> HIDE DEF r
  <2>1. stakeHeld' = stakeHeld + (q.stake - r.stake)
    BY <1>1, <1>2, <1>3, <1>6
  <2> QED
    BY <2>1 DEF r
<1> QED
  BY <1>4, <1>6, <1>7, StakePaid

LEMMA ResolvePays ==
    ASSUME IInv, DInv, PayInv, DriverType, HandsInv,
           NEW n \in DisputeIds, NEW bps, NEW wins \in BOOLEAN, NEW atFault,
           NEW amount \in Slashes, Resolve(n, bps, wins, atFault, amount)
    PROVE  PayInv'
<1> DEFINE o == disputes[n].orderId
           w == IF wins THEN disputes[n].opener ELSE Treasury
           q == Ruled(disputes[n])
           b == disputes[n].bond
<1>1. /\ disputes[n].status = "Open" /\ disputes' = [disputes EXCEPT ![n] = q]
      /\ orders[o].status = "Disputed"
      /\ Registry!Slash(orders[o].driver, amount, orders[o].customer)
      /\ bondHeld' = bondHeld - b /\ bondCredit' = [bondCredit EXCEPT ![w] = @ + b]
  BY DEF Resolve, MayRule, DInv, CasesType, AwardBond, ResolveDisputed, MayResolve, Split
<1>2. /\ disputes \in [DisputeIds -> Dispute] /\ disputes[n] \in Dispute
      /\ o \in OrderIds /\ amount \in Nat
  BY <1>1, DisputesAssumption DEF DInv, CasesType
<1>3. orders[o].driver \in Drivers
  BY <1>1, <1>2 DEF HandsInv, InHand
<1>4. StakeInv'
  BY <1>1, <1>2, <1>3, SlashPays DEF PayInv
<1>5. q \in Dispute /\ q.status = "Resolved" /\ q.bond = b /\ q.opener = disputes[n].opener
  BY <1>2 DEF Ruled, Dispute
<1>6. b \in Int
  <2>1. b \in Bonds \cup {0}
    BY <1>2 DEF Dispute
  <2> HIDE DEF b
  <2> QED
    BY <2>1, BondNat
<1>7. w \in Payees /\ q.opener \in Payees
  BY <1>1, <1>5 DEF PayInv, OpenersInv, Payees
<1>8. /\ BondAt(q, "Open") = 0 /\ BondAt(disputes[n], "Open") = b
      /\ BondAt(q, "Resolved") = b /\ BondAt(disputes[n], "Resolved") = 0
  BY <1>1, <1>5 DEF BondAt
<1> HIDE DEF q, b, w, o
<1>9. OpenersInv'
  BY <1>1, <1>2, <1>7 DEF PayInv, OpenersInv
<1>10. ASSUME NEW st
       PROVE  SumFunction(BondsIn(disputes', st)) =
                 SumFunction(BondsIn(disputes, st)) + (BondAt(q, st) - BondAt(disputes[n], st))
  <2>1. /\ disputes' \in [DisputeIds -> Dispute] /\ disputes'[n] = q /\ n \in DisputeIds
        /\ \A j \in DisputeIds \ {n} : disputes'[j] = disputes[j]
    BY <1>1, <1>2, <1>5
  <2> QED
    BY <1>2, <2>1, CaseWritten
<1>11. bondCredit \in [Payees -> Int] /\ bondHeld \in Int /\ SumFunction(bondCredit) \in Int
  BY FiniteDisputes, SumInt DEF PayInv, BondInv
<1>12. /\ bondCredit' \in [Payees -> Int] /\ bondCredit'[w] = bondCredit[w] + b
       /\ \A a \in Payees \ {w} : bondCredit'[a] = bondCredit[a]
  BY <1>1, <1>6, <1>7, <1>11
<1>13. SumFunction(bondCredit') = SumFunction(bondCredit) + b
  <2>1. SumFunction(bondCredit') = SumFunction(bondCredit) + (bondCredit'[w] - bondCredit[w])
    BY <1>7, <1>11, <1>12, FiniteDisputes, SumChange
  <2>2. bondCredit[w] \in Int
    BY <1>7, <1>11
  <2> QED
    BY <1>6, <1>11, <1>12, <2>1, <2>2
<1>14. bondHeld' = SumFunction(BondsIn(disputes', "Open"))
  <2>1. SumFunction(BondsIn(disputes', "Open")) = bondHeld + (0 - b)
    BY <1>8, <1>10 DEF PayInv, BondInv
  <2> QED
    BY <1>1, <1>6, <1>11, <2>1
<1>15. SumFunction(bondCredit') = SumFunction(BondsIn(disputes', "Resolved"))
  BY <1>6, <1>8, <1>10, <1>11, <1>13 DEF PayInv, BondInv
<1>16. bondHeld' \in Int
  BY <1>1, <1>6, <1>11
<1> QED
  BY <1>4, <1>9, <1>12, <1>14, <1>15, <1>16 DEF PayInv, BondInv

\* The registry's own calls: what a driver sends or takes is what changes.
LEMMA RegisterPays ==
    ASSUME DriverType, Registered, StakeInv, NEW d \in Drivers, NEW v \in Stakes,
           Registry!Register(d, v) \/ Registry!AddStake(d, v)
    PROVE  StakeInv'
<1> DEFINE r == drivers[d]
           q1 == [r EXCEPT !.registered = TRUE, !.stake = v]
           sum == r.stake + v
           q2 == [r EXCEPT !.stake = sum, !.unstakeRequestedAt = Registry!NoRequest]
<1>1. v \in Nat /\ stakeHeld \in Int
  BY DisputesAssumption DEF StakeInv
<1>2. r \in Registry!Driver /\ r.stake \in Nat
  BY DEF DriverType, Registry!Driver
<1>3. CASE Registry!Register(d, v)
  <2>1. /\ drivers' = [drivers EXCEPT ![d] = q1] /\ stakeHeld' = stakeHeld + v
        /\ r.stake = 0
    BY <1>3 DEF Registry!Register, Registered, DriverType
  <2>2. q1 \in Registry!Driver /\ q1.stake = v
    BY <1>1, <1>2 DEF Registry!Driver
  <2> HIDE DEF q1, r
  <2>3. stakeHeld' = stakeHeld + (q1.stake - r.stake)
    BY <1>1, <2>1, <2>2
  <2> QED
    BY <2>1, <2>2, <2>3, StakePaid DEF r
<1>4. CASE Registry!AddStake(d, v)
  <2>1. drivers' = [drivers EXCEPT ![d] = q2] /\ stakeHeld' = stakeHeld + v
    BY <1>4 DEF Registry!AddStake, DriverType
  <2>2. sum \in Nat
    BY <1>1, <1>2
  <2> HIDE DEF sum
  <2>3. q2 \in Registry!Driver /\ q2.stake = sum
    BY <1>2, <2>2 DEF Registry!Driver
  <2> HIDE DEF q2, r
  <2>4. stakeHeld' = stakeHeld + (q2.stake - r.stake)
    BY <1>1, <1>2, <2>1, <2>3 DEF sum
  <2> QED
    BY <2>1, <2>3, <2>4, StakePaid DEF r
<1> QED
  BY <1>3, <1>4

LEMMA UnstakePays ==
    ASSUME TypeOK, DriverType, StakeInv, NEW d \in Drivers,
           Registry!RequestUnstake(d) \/ Registry!WithdrawStake(d)
    PROVE  StakeInv'
<1> DEFINE r == drivers[d]
           q1 == [r EXCEPT !.unstakeRequestedAt = now]
           q2 == [r EXCEPT !.stake = 0, !.unstakeRequestedAt = Registry!NoRequest]
<1>1. r \in Registry!Driver /\ r.stake \in Nat /\ now \in Nat /\ stakeHeld \in Int
  BY DEF DriverType, Registry!Driver, TypeOK, WorldType, StakeInv
<1>2. CASE Registry!RequestUnstake(d)
  <2>1. drivers' = [drivers EXCEPT ![d] = q1] /\ stakeHeld' = stakeHeld
    BY <1>2 DEF Registry!RequestUnstake, DriverType
  <2>2. q1 \in Registry!Driver /\ q1.stake = r.stake
    BY <1>1 DEF Registry!Driver
  <2> HIDE DEF q1, r
  <2>3. stakeHeld' = stakeHeld + (q1.stake - r.stake)
    BY <1>1, <2>1, <2>2
  <2> QED
    BY <2>1, <2>2, <2>3, StakePaid DEF r
<1>3. CASE Registry!WithdrawStake(d)
  <2>1. drivers' = [drivers EXCEPT ![d] = q2] /\ stakeHeld' = stakeHeld - r.stake
    BY <1>3 DEF Registry!WithdrawStake, DriverType
  <2>2. q2 \in Registry!Driver /\ q2.stake = 0
    BY <1>1 DEF Registry!Driver
  <2> HIDE DEF q2, r
  <2>3. stakeHeld' = stakeHeld + (q2.stake - r.stake)
    BY <1>1, <2>1, <2>2
  <2> QED
    BY <2>1, <2>2, <2>3, StakePaid DEF r
<1> QED
  BY <1>2, <1>3

LEMMA BanPays ==
    ASSUME DriverType, StakeInv, NEW d \in Drivers, NEW b \in BOOLEAN,
           Registry!SetBanned(d, b)
    PROVE  StakeInv'
<1> DEFINE r == drivers[d]
           q == [r EXCEPT !.banned = b]
<1>1. r \in Registry!Driver /\ r.stake \in Nat /\ stakeHeld \in Int
  BY DEF DriverType, Registry!Driver, StakeInv
<1>2. q \in Registry!Driver /\ q.stake = r.stake
  BY <1>1 DEF Registry!Driver
<1>3. drivers' = [drivers EXCEPT ![d] = q] /\ stakeHeld' = stakeHeld
  BY DEF Registry!SetBanned, DriverType
<1> HIDE DEF q, r
<1>4. stakeHeld' = stakeHeld + (q.stake - r.stake)
  BY <1>1, <1>2, <1>3
<1> QED
  BY <1>2, <1>3, <1>4, StakePaid DEF r

LEMMA RegistryPays ==
    ASSUME TypeOK, DriverType, Registered, StakeInv, RegistryStep
    PROVE  StakeInv'
<1>1. ASSUME NEW d \in Drivers, Registry!Account(d) PROVE StakeInv'
  BY <1>1, RegisterPays, UnstakePays DEF Registry!Account
<1>2. CASE Registry!Owner
  <2>1. CASE Registry!SetFloors \/ Registry!SwitchEntry
    BY <2>1 DEF Registry!SetFloors, Registry!SwitchEntry, Registry!stakeVars, StakeInv
  <2> QED
    BY <1>2, <2>1, BanPays DEF Registry!Owner
<1> QED
  BY <1>1, <1>2 DEF RegistryStep

LEMMA NothingPaid ==
    ASSUME PayInv, UNCHANGED <<caseVars, driverVars>>
    PROVE  PayInv'
BY DEF PayInv, OpenersInv, BondInv, StakeInv, caseVars, driverVars

\* Everything the composition does to bonds, stakes and orders in hand.
LEMMA NextPayInv ==
    ASSUME IInv, DInv, UnbondInv, HandsInv, PayInv, [DisputesNext]_allVars
    PROVE  PayInv' /\ HandsInv'
<1>0. TypeOK
  BY DEF IInv
<1>1. CASE OrderStep
  <2>1. UNCHANGED <<caseVars, driverVars>>
    BY <1>1 DEF OrderStep, disputeVars
  <2> QED
    BY <1>0, <1>1, <2>1, NothingPaid, OrderStepGiven, GivenHands
<1>2. CASE RegistryStep
  <2>1. UNCHANGED caseVars /\ UNCHANGED orders
    BY <1>2 DEF RegistryStep, disputeVars, ledger
  <2>2. StakeInv'
    BY <1>0, <1>2, RegistryPays DEF UnbondInv, PayInv
  <2> QED
    BY <1>0, <2>1, <2>2, GivenIfSame, GivenHands
       DEF PayInv, OpenersInv, BondInv, caseVars
<1>3. ASSUME NEW p \in Customers \cup Drivers, NEW o \in OrderIds, OpenDispute(p, o)
      PROVE  PayInv' /\ HandsInv'
  BY <1>0, <1>3, OpenDisputePays, OpenDisputeGiven, GivenHands
<1>4. ASSUME NEW i \in DisputeIds, NEW bps \in ShareBps, NEW wins \in BOOLEAN,
             NEW atFault \in BOOLEAN, NEW amount \in Slashes,
             Resolve(i, bps, wins, atFault, amount)
      PROVE  PayInv' /\ HandsInv'
  <2>1. PayInv'
    BY <1>4, ResolvePays DEF UnbondInv
  <2>2. /\ disputes[i].orderId \in OrderIds
        /\ ResolveDisputed(disputes[i].orderId, bps, atFault)
    BY <1>4 DEF Resolve, MayRule, DInv, CasesType
  <2>3. orders' = [orders EXCEPT ![disputes[i].orderId] = Closed(@, "Resolved")]
    BY <2>2 DEF ResolveDisputed, MayResolve, Split
  <2> QED
    BY <1>0, <2>1, <2>2, <2>3, ClosingGiven, GivenHands
<1>5. CASE SetDisputeBond \/ SwitchDisputes \/ UNCHANGED allVars
  <2>1. UNCHANGED <<caseVars, driverVars, orders>>
    BY <1>5 DEF SetDisputeBond, SwitchDisputes, allVars, disputeVars, vars, ledger
  <2> QED
    BY <1>0, <2>1, NothingPaid, GivenIfSame, GivenHands
<1> QED
  BY <1>1, <1>2, <1>3, <1>4, <1>5 DEF DisputesNext, Arbiter

LEMMA DisputesAlways ==
    DisputesSpec => [](IInv /\ DInv /\ UnbondInv /\ PayInv /\ HandsInv)
<1>1. DisputesSpec => []IInv
  BY DisputesImplementOrders, Inductive, PTL DEF ImplementsOrders
<1>2. IInv => TypeOK
  BY DEF IInv
<1>3. DInv => CasesType
  BY DEF DInv
<1>4. DisputesSpec => []DInv
  BY <1>1, InitDInv, NextDInv, PTL DEF DisputesSpec
<1>5. TypeOK /\ TypeOK' /\ CasesType /\ UnbondInv /\ [DisputesNext]_allVars => UnbondInv'
  BY NextUnbond DEF UnbondStep
<1>6. DisputesSpec => []UnbondInv
  BY <1>1, <1>2, <1>3, <1>4, <1>5, UnbondInit, PTL DEF DisputesSpec
<1>7. DisputesInit => HandsInv
  BY DEF DisputesInit, Init, EmptyOrder, HandsInv, InHand
<1>8. IInv /\ DInv /\ UnbondInv /\ HandsInv /\ PayInv /\ [DisputesNext]_allVars
         => PayInv' /\ HandsInv'
  BY NextPayInv
<1>9. DisputesSpec => [](PayInv /\ HandsInv)
  BY <1>1, <1>4, <1>6, <1>7, <1>8, InitPayInv, PTL DEF DisputesSpec
<1> QED
  BY <1>1, <1>4, <1>6, <1>9, PTL

\* This contract owns the bonds of the open disputes, each at what was paid
\* for it, has credited every other bond once, and the registry owns what its
\* drivers have at stake: for any number of disputes and drivers, whatever bond
\* governance asks for meanwhile and whatever damages the arbiter awards.
THEOREM BondsAreBacked == DisputesSpec => []Backed
<1>1. PayInv /\ UnbondInv => Backed
  BY PayImpliesBacked DEF UnbondInv
<1> QED
  BY <1>1, DisputesAlways, PTL

\* What a ruling without damages takes from each of the three contracts.
RulingsFunded ==
    \A i \in DisputeIds : disputes[i].status = "Open" =>
        LET o == disputes[i].orderId  d == orders[o].driver IN
        /\ orders[o].status = "Disputed"
        /\ orders[o].escrow <= held[orders[o].token]
        /\ \A bps \in ShareBps \cap (0..BPS) : Share(orders[o].escrow, bps) \in 0..orders[o].escrow
        /\ d \in Drivers /\ Registry!Taken(d, 0) = 0
        /\ disputes[i].opener \in DOMAIN bondCredit
        /\ disputes[i].bond <= bondHeld

LEMMA FundedNow ==
    ASSUME IInv, DInv, UnbondInv, PayInv, HandsInv, ExitsFunded,
           NEW i \in DisputeIds, disputes[i].status = "Open"
    PROVE  LET o == disputes[i].orderId  d == orders[o].driver IN
           /\ o \in OrderIds /\ orders[o].status = "Disputed"
           /\ d \in Drivers /\ Registry!Taken(d, 0) = 0
           /\ disputes[i].opener \in Payees
           /\ disputes[i].bond <= bondHeld
<1> DEFINE o == disputes[i].orderId
           d == orders[o].driver
<1>1. disputes \in [DisputeIds -> Dispute] /\ o \in OrderIds
  BY DEF DInv, CasesType
<1>2. orders[o].status = "Disputed"
  <2>1. disputeOfOrder[o] = i /\ Agreed(o)
    BY <1>1 DEF DInv
  <2> QED
    BY <2>1 DEF Agreed, InDispute, DisputeIds
<1>3. d \in Drivers
  BY <1>1, <1>2 DEF HandsInv, InHand
<1>4. Registry!Taken(d, 0) = 0
  <2>1. drivers[d].stake \in Nat
    BY <1>3 DEF UnbondInv, DriverType, Registry!Driver
  <2> HIDE DEF d
  <2> QED
    BY <2>1 DEF Registry!Taken
<1>5. disputes[i].opener \in Payees
  BY DEF PayInv, OpenersInv
<1>6. disputes[i].bond <= bondHeld
  <2> DEFINE f == BondsIn(disputes, "Open")
  <2>1. \A j \in DisputeIds : f[j] \in Nat
    <3> SUFFICES ASSUME NEW j \in DisputeIds PROVE BondAt(disputes[j], "Open") \in Nat
      BY DEF BondsIn
    <3>1. disputes[j].bond \in Nat
      BY <1>1, BondNat DEF Dispute
    <3> QED
      BY <3>1 DEF BondAt
  <2>2. f = [j \in DisputeIds |-> f[j]] /\ f[i] = disputes[i].bond
    BY DEF BondsIn, BondAt
  <2>3. bondHeld = SumFunction(f)
    BY DEF PayInv, BondInv
  <2> HIDE DEF f
  <2>4. f \in [DisputeIds -> Nat]
    BY <2>1, <2>2
  <2>5. f[i] <= SumFunction(f)
    BY <2>4, FiniteDisputes, SumBounds
  <2> QED
    BY <2>2, <2>3, <2>5
<1> QED
  BY <1>1, <1>2, <1>3, <1>4, <1>5, <1>6

\* Nothing a ruling without damages takes is ever missing: the order is in
\* dispute, its escrow is whole and splits, the driver is one the registry can
\* slash by nothing, and the bond is there for an account that can be credited.
THEOREM RulingsAreFunded == DisputesSpec => []RulingsFunded
<1>1. IInv /\ DInv /\ UnbondInv /\ PayInv /\ HandsInv /\ ExitsFunded => RulingsFunded
  <2> SUFFICES ASSUME IInv, DInv, UnbondInv, PayInv, HandsInv, ExitsFunded,
                      NEW i \in DisputeIds, disputes[i].status = "Open"
               PROVE  LET o == disputes[i].orderId  d == orders[o].driver IN
        /\ orders[o].status = "Disputed"
        /\ orders[o].escrow <= held[orders[o].token]
        /\ \A bps \in ShareBps \cap (0..BPS) : Share(orders[o].escrow, bps) \in 0..orders[o].escrow
        /\ d \in Drivers /\ Registry!Taken(d, 0) = 0
        /\ disputes[i].opener \in DOMAIN bondCredit
        /\ disputes[i].bond <= bondHeld
    BY DEF RulingsFunded
  <2>1. DOMAIN bondCredit = Payees
    BY DEF PayInv, BondInv
  <2>2. disputes[i].orderId \in OrderIds
    BY FundedNow
  <2>3. LET o == disputes[i].orderId IN
        /\ orders[o].escrow <= held[orders[o].token]
        /\ \A bps \in ShareBps \cap (0..BPS) : Share(orders[o].escrow, bps) \in 0..orders[o].escrow
    BY <2>2 DEF ExitsFunded
  <2> QED
    BY <2>1, <2>3, FundedNow
<1>2. DisputesSpec => []ExitsFunded
  BY DisputesImplementOrders, ExitsAreFunded, PTL DEF ImplementsOrders
<1> QED
  BY <1>1, <1>2, DisputesAlways, PTL

\* "Pending disputes always finish": for any bonds and stakes, any number of
\* disputes, paused, frozen or refused, every split of the escrow without
\* damages passes every require of the four contracts a ruling calls.
THEOREM RulingsStayPossible == DisputesSpec => []PendingDisputesFinish
<1>1. IInv /\ ExitsFunded /\ RulingsFunded /\ DInv => PendingDisputesFinish
  <2> SUFFICES ASSUME IInv, ExitsFunded, RulingsFunded, DInv,
                      NEW i \in DisputeIds, disputes[i].status = "Open",
                      NEW bps \in ShareBps \cap (0..BPS)
               PROVE  MayRule(i, bps, 0)
    BY DEF PendingDisputesFinish
  <2> DEFINE o == disputes[i].orderId
  <2>1. /\ orders[o].status = "Disputed" /\ Registry!Taken(orders[o].driver, 0) = 0
        /\ disputes[i].bond <= bondHeld
    BY DEF RulingsFunded
  <2>2. o \in OrderIds
    BY DEF DInv, CasesType
  <2>3. MayResolve(o, bps)
    <3>1. ExitsOpen
      BY FundedIsOpen
    <3> HIDE DEF o
    <3> QED
      BY <2>1, <2>2, <3>1 DEF ExitsOpen
  <2>4. Registry!MaySlash(orders[o].driver, 0, orders[o].customer)
    BY <2>1 DEF Registry!MaySlash
  <2> QED
    BY <2>1, <2>3, <2>4 DEF MayRule
<1>2. DisputesSpec => []ExitsFunded
  BY DisputesImplementOrders, ExitsAreFunded, PTL DEF ImplementsOrders
<1> QED
  BY <1>1, <1>2, RulingsAreFunded, DisputesAlways, PTL
=============================================================================
