-------------------------- MODULE FareOrdersProofs --------------------------
(***************************************************************************)
(* What TLAPS shows of FareOrders for every value of the constants:        *)
(*   I    the types;                                                       *)
(*   II   the inductive invariant, and what follows from it: conservation, *)
(*        the exact escrow of every status, who was paid what;             *)
(*   III  what a step may do to an order: its lifecycle, its terms, and    *)
(*        that it is a pot of EscrowContract;                              *)
(*   IV   what the book says of the past: the driver and the fare of an    *)
(*        order are a bid that was committed, a driver's record is the     *)
(*        outcomes of the driver's orders;                                 *)
(*   V    that the contract owns exactly the escrows, and that every way   *)
(*        out of a live order finds the money it moves.                    *)
(***************************************************************************)
EXTENDS FareOrders, SumLemmas

\* A share of an amount, rounded down, is part of the amount.
LEMMA DivBound ==
    ASSUME NEW x \in Nat, NEW p \in Nat, p <= x * 10000
    PROVE  p \div 10000 \in 0..x
OBVIOUS

LEMMA MulBound ==
    ASSUME NEW x \in Nat, NEW k \in Nat, NEW n \in Nat, k <= n
    PROVE  x * k \in Nat /\ x * k <= x * n
OBVIOUS

LEMMA ShareBound ==
    ASSUME NEW x \in Nat, NEW bps \in Nat, bps <= BPS
    PROVE  Share(x, bps) \in Nat /\ Share(x, bps) <= x
<1> DEFINE p == x * bps
<1>1. p \in Nat /\ p <= x * 10000
  BY MulBound DEF BPS
<1>2. p \div 10000 \in 0..x
  <2> HIDE DEF p
  <2> QED BY <1>1, DivBound
<1>3. QED BY <1>2 DEF Share, BPS

LEMMA TenthBound ==
    ASSUME NEW x \in Nat, NEW bps \in Nat, bps <= 1000
    PROVE  10 * Share(x, bps) <= x
<1> DEFINE p == x * bps
<1>1. p \in Nat /\ p <= x * 1000
  BY MulBound
<1>2. 10 * (p \div 10000) <= x
  <2> HIDE DEF p
  <2> QED BY <1>1
<1>3. QED BY <1>2 DEF Share, BPS

LEMMA HalfBound ==
    ASSUME NEW x \in Nat, NEW bps \in Nat, bps <= 5000
    PROVE  2 * Share(x, bps) <= x
<1> DEFINE p == x * bps
<1>1. p \in Nat /\ p <= x * 5000
  BY MulBound
<1>2. 2 * (p \div 10000) <= x
  <2> HIDE DEF p
  <2> QED BY <1>1
<1>3. QED BY <1>2 DEF Share, BPS

\* A value the uint96 type can hold survives the narrowing cast.
LEMMA CastExact ==
    ASSUME NEW x \in 0..MaxU96
    PROVE  U96(x) = x
BY BoundsAssumption DEF U96

-----------------------------------------------------------------------------
(* Type correctness.                                                       *)

LEMMA TotalType ==
    ASSUME NEW p \in [Roles -> Nat]
    PROVE  Total(p) \in Nat
BY DEF Total, Roles

LEMMA InitType == Init => TypeOK
<1> SUFFICES ASSUME Init PROVE TypeOK
  OBVIOUS
<1>1. config \in Config
  <2>1. config \in [feeBps : FeeBps \cap 0..1000,
                    assignedCancelBps : CancelBps \cap 0..5000,
                    relayRebateBps : RebateBps \cap 0..BPS,
                    relayServiceFee : [Assets -> ServiceFees],
                    defaultPickupWindow : {MIN_WINDOW}]
    BY DEF Init
  <2>2. [Assets -> ServiceFees] \subseteq [Assets -> 0..MaxU96]
    BY InputAssumption
  <2>3. MIN_WINDOW \in MIN_WINDOW..MAX_WINDOW
    BY BoundsAssumption
  <2>4. QED BY <2>1, <2>2, <2>3 DEF Config
<1>2. EmptyOrder \in Order
  BY BoundsAssumption DEF EmptyOrder, Order, Assets, Status
<1>3. orders \in [OrderIds -> Order]
  BY <1>2 DEF Init
<1>4. payout \in [OrderIds -> [Roles -> Nat]]
  BY DEF Init, NoPay
<1>5. LedgerType
  BY <1>3, <1>4 DEF Init, LedgerType
<1>6. NoBid \in Bid /\ 0 \in 0..MAX_SEALED_BIDS /\ 1 \in 1..(MaxOrders + 1)
  BY BoundsAssumption DEF NoBid, Bid
<1>7. BookType
  BY <1>6 DEF Init, BookType
<1>8. WorldType
  BY DEF Init, WorldType
<1>9. RecordType
  <2>1. record = [d \in Drivers |-> [delivered |-> 0, failed |-> 0]]
    BY DEF Init
  <2>2. QED BY <2>1 DEF RecordType
<1>10. acceptedToken \in SUBSET Tokens
  BY DEF Init
<1>11. QED
  BY <1>1, <1>5, <1>7, <1>8, <1>9, <1>10 DEF TypeOK, GovernanceType

LEMMA CollectType ==
    ASSUME LedgerType, NEW o \in OrderIds, NEW t \in Assets, NEW v \in Nat,
           Collect(o, t, v)
    PROVE  held' \in [Assets -> Nat] /\ collected' \in [OrderIds -> Nat]
BY DEF LedgerType, Collect

LEMMA CreditType ==
    ASSUME LedgerType, NEW o \in OrderIds, NEW pay \in [Roles -> Nat],
           Credit(o, pay)
    PROVE  /\ held' \in [Assets -> Nat]
           /\ payout' \in [OrderIds -> [Roles -> Nat]]
           /\ collected' \in [OrderIds -> Nat]
<1>1. orders[o].token \in Assets /\ Total(pay) \in Nat
  BY TotalType DEF LedgerType, Order
<1>2. held' \in [Assets -> Nat]
  BY <1>1 DEF LedgerType, Credit, Creditable
<1>3. [r \in Roles |-> payout[o][r] + pay[r]] \in [Roles -> Nat]
  BY DEF LedgerType
<1>4. payout' \in [OrderIds -> [Roles -> Nat]]
  BY <1>3 DEF LedgerType, Credit, Creditable
<1>5. QED BY <1>2, <1>4 DEF LedgerType, Credit, Creditable

LEMMA NewOrderType ==
    ASSUME NEW c \in Customers, NEW token \in Assets, NEW value \in 0..MaxU96,
           NEW tip \in 0..MaxU96, NEW maxFare \in 0..MaxU96,
           NEW svcFee \in 0..MaxU96, NEW w \in Nat
    PROVE  NewOrder(c, token, value, tip, maxFare, svcFee, w) \in Order
<1>1. U96(value + tip + svcFee) \in 0..MaxU96
  BY BoundsAssumption DEF U96
<1>2. QED BY <1>1, BoundsAssumption DEF NewOrder, Order, Status

LEMMA CreateOrderType ==
    ASSUME TypeOK, NEW c \in Customers, NEW token \in Assets, NEW venue,
           NEW value \in Values, NEW tip \in Tips, NEW maxFare \in Fares,
           NEW window \in Windows,
           CreateOrder(c, token, venue, value, tip, maxFare, window)
    PROVE  TypeOK'
<1> DEFINE o == nextOrderId
           svcFee == config.relayServiceFee[token]
           w == IF window = 0 THEN config.defaultPickupWindow ELSE window
           new == NewOrder(c, token, value, tip, maxFare, svcFee, w)
<1>1. value \in 0..MaxU96 /\ tip \in 0..MaxU96 /\ maxFare \in 0..MaxU96
  BY InputAssumption
<1>2. svcFee \in 0..MaxU96
  BY DEF TypeOK, GovernanceType, Config
<1>3. w \in Nat
  BY BoundsAssumption DEF CreateOrder
<1>4. new \in Order
  BY <1>1, <1>2, <1>3, NewOrderType
<1>5. o \in OrderIds /\ Collect(o, token, value + tip + svcFee)
  BY DEF CreateOrder
<1>6. orders' = [orders EXCEPT ![o] = new]
  BY DEF CreateOrder
<1>7. orders' \in [OrderIds -> Order]
  BY <1>4, <1>5, <1>6 DEF TypeOK, LedgerType
<1>8. value + tip + svcFee \in Nat
  BY <1>1, <1>2, BoundsAssumption
<1>9. held' \in [Assets -> Nat] /\ collected' \in [OrderIds -> Nat]
  BY <1>5, <1>8, CollectType DEF TypeOK
<1>10. /\ UNCHANGED <<payout, sealedBid, sealedBidCount, governance, world, record>>
       /\ nextOrderId' = o + 1
  BY DEF CreateOrder
<1>11. LedgerType'
  BY <1>7, <1>9, <1>10 DEF TypeOK, LedgerType
<1>12. nextOrderId' \in 1..(MaxOrders + 1)
  BY <1>5, <1>10, BoundsAssumption DEF OrderIds
<1>13. BookType' /\ GovernanceType' /\ WorldType' /\ RecordType'
  BY <1>10, <1>12 DEF TypeOK, BookType, GovernanceType, WorldType,
                      RecordType, governance, world
<1>14. QED BY <1>11, <1>13 DEF TypeOK

\* Of the steps below each changes one part of the state.
LEMMA LedgerStepType ==
    ASSUME TypeOK, LedgerType', UNCHANGED <<book, governance, world>>, RecordType'
    PROVE  TypeOK'
BY DEF TypeOK, BookType, GovernanceType, WorldType, book, governance, world

\* Writing an order record back keeps the order book well typed.
LEMMA UpdateType ==
    ASSUME LedgerType, NEW o \in OrderIds, NEW r \in Order,
           orders' = [orders EXCEPT ![o] = r]
    PROVE  orders' \in [OrderIds -> Order]
BY DEF LedgerType

LEMMA IncreaseTipType ==
    ASSUME TypeOK, NEW c \in Customers, NEW o \in OrderIds, NEW v \in Tips,
           IncreaseTip(c, o, v)
    PROVE  TypeOK'
<1> DEFINE r == ToppedUp(orders[o], v)
<1>1. v \in 0..MaxU96 /\ U96(v) = v
  BY InputAssumption, CastExact
<1>2. /\ Collect(o, orders[o].token, v)
      /\ orders[o].tip + v <= MaxU96 /\ orders[o].escrow + v <= MaxU96
      /\ orders' = [orders EXCEPT ![o] = r]
      /\ UNCHANGED <<payout, book, governance, world, record>>
  BY <1>1 DEF IncreaseTip
<1>3. orders[o] \in Order /\ LedgerType
  BY DEF TypeOK, LedgerType
<1>4. r \in Order
  <2>1. /\ orders[o].tip + v \in 0..MaxU96
        /\ orders[o].escrow + v \in 0..MaxU96
    BY <1>1, <1>2, <1>3, BoundsAssumption DEF Order
  <2>2. QED BY <1>3, <2>1 DEF Order, ToppedUp
<1>5. orders' \in [OrderIds -> Order]
  BY <1>2, <1>3, <1>4, UpdateType
<1>6. held' \in [Assets -> Nat] /\ collected' \in [OrderIds -> Nat]
  <2>1. orders[o].token \in Assets
    BY <1>3 DEF Order
  <2>2. QED BY <1>1, <1>2, <1>3, <2>1, CollectType, BoundsAssumption
<1>7. LedgerType' /\ RecordType'
  BY <1>2, <1>5, <1>6 DEF TypeOK, LedgerType, RecordType
<1>8. QED BY <1>2, <1>7, LedgerStepType

LEMMA AcceptSealedBidType ==
    ASSUME TypeOK, NEW c \in Customers, NEW o \in OrderIds,
           NEW driver \in Drivers, NEW amount \in Fares, NEW salt \in Salts,
           AcceptSealedBid(c, o, driver, amount, salt)
    PROVE  TypeOK'
<1> DEFINE r == Assigned(orders[o], driver, amount)
<1>1. amount \in 0..MaxU96
  BY InputAssumption
<1>2. /\ Collect(o, orders[o].token, amount)
      /\ orders[o].escrow + amount <= MaxU96
      /\ orders' = [orders EXCEPT ![o] = r]
      /\ UNCHANGED <<payout, book, governance, world, record>>
  BY DEF AcceptSealedBid
<1>3. orders[o] \in Order /\ LedgerType /\ now \in Nat
  BY DEF TypeOK, LedgerType, WorldType
<1>4. r \in Order
  <2>1. /\ orders[o].escrow + amount \in 0..MaxU96
        /\ now + orders[o].pickupWindowSecs \in Nat
    BY <1>1, <1>2, <1>3, BoundsAssumption DEF Order
  <2>2. QED BY <1>1, <1>3, <2>1 DEF Order, Status, Assigned
<1>5. orders' \in [OrderIds -> Order]
  BY <1>2, <1>3, <1>4, UpdateType
<1>6. held' \in [Assets -> Nat] /\ collected' \in [OrderIds -> Nat]
  <2>1. orders[o].token \in Assets
    BY <1>3 DEF Order
  <2>2. QED BY <1>1, <1>2, <1>3, <2>1, CollectType, BoundsAssumption
<1>7. LedgerType' /\ RecordType'
  BY <1>2, <1>5, <1>6 DEF TypeOK, LedgerType, RecordType
<1>8. QED BY <1>2, <1>7, LedgerStepType

\* The payments the contract makes, and what each adds up to.
LEMMA PayCustomer ==
    ASSUME NEW c \in Nat
    PROVE  /\ [NoPay EXCEPT !["customer"] = c] \in [Roles -> Nat]
           /\ Total([NoPay EXCEPT !["customer"] = c]) = c
BY DEF NoPay, Roles, Total

LEMMA PayVenue ==
    ASSUME NEW v \in Nat
    PROVE  /\ [NoPay EXCEPT !["venue"] = v] \in [Roles -> Nat]
           /\ Total([NoPay EXCEPT !["venue"] = v]) = v
BY DEF NoPay, Roles, Total

LEMMA PayBoth ==
    ASSUME NEW c \in Nat, NEW d \in Nat
    PROVE  /\ [NoPay EXCEPT !["driver"] = d, !["customer"] = c] \in [Roles -> Nat]
           /\ [NoPay EXCEPT !["customer"] = c, !["driver"] = d] \in [Roles -> Nat]
           /\ Total([NoPay EXCEPT !["driver"] = d, !["customer"] = c]) = c + d
           /\ Total([NoPay EXCEPT !["customer"] = c, !["driver"] = d]) = c + d
BY DEF NoPay, Roles, Total

\* A step that closes an order and credits what was in its escrow.
LEMMA CreditStepType ==
    ASSUME TypeOK, NEW o \in OrderIds, NEW r \in Order, NEW pay \in [Roles -> Nat],
           orders' = [orders EXCEPT ![o] = r], Credit(o, pay),
           RecordType', UNCHANGED <<book, governance, world>>
    PROVE  TypeOK'
<1>1. LedgerType
  BY DEF TypeOK
<1>2. orders' \in [OrderIds -> Order]
  BY <1>1, UpdateType
<1>3. /\ held' \in [Assets -> Nat]
      /\ payout' \in [OrderIds -> [Roles -> Nat]]
      /\ collected' \in [OrderIds -> Nat]
  BY <1>1, CreditType
<1>4. LedgerType'
  BY <1>2, <1>3 DEF LedgerType
<1>5. QED BY <1>4, LedgerStepType

LEMMA ClosedType ==
    ASSUME TypeOK, NEW o \in OrderIds, NEW st \in Status
    PROVE  /\ orders[o] \in Order
           /\ Closed(orders[o], st) \in Order
           /\ orders[o].escrow \in Nat /\ orders[o].fare \in Nat
<1>1. orders[o] \in Order
  BY DEF TypeOK, LedgerType
<1>2. orders[o].escrow \in Nat /\ orders[o].fare \in Nat
  BY <1>1, BoundsAssumption DEF Order
<1>3. 0 \in 0..MaxU96
  BY BoundsAssumption
<1>4. Closed(orders[o], st) \in Order
  BY <1>1, <1>3 DEF Closed, Order
<1>5. QED BY <1>1, <1>2, <1>4

LEMMA RecordFailedType ==
    ASSUME RecordType, NEW d \in Drivers \cup {Nobody}, recordFailed(d)
    PROVE  RecordType'
<1>1. CASE d \in Drivers
  BY <1>1 DEF RecordType, recordFailed
<1>2. CASE d \notin Drivers
  <2>1. record' = record
    BY <1>2 DEF RecordType, recordFailed
  <2>2. QED BY <2>1 DEF RecordType
<1>3. QED BY <1>1, <1>2

LEMMA RecordDeliveredType ==
    ASSUME RecordType, NEW d \in Drivers \cup {Nobody}, recordDelivered(d)
    PROVE  RecordType'
<1>1. CASE d \in Drivers
  BY <1>1 DEF RecordType, recordDelivered
<1>2. CASE d \notin Drivers
  <2>1. record' = record
    BY <1>2 DEF RecordType, recordDelivered
  <2>2. QED BY <2>1 DEF RecordType
<1>3. QED BY <1>1, <1>2

LEMMA CancelOpenType ==
    ASSUME TypeOK, NEW c \in Customers, NEW o \in OrderIds, CancelOpen(c, o)
    PROVE  TypeOK'
<1>1. "Cancelled" \in Status
  BY DEF Status
<1>2. RecordType'
  BY DEF CancelOpen, TypeOK, RecordType, MayCancelOpen, Refund
<1>3. /\ orders' = [orders EXCEPT ![o] = Closed(orders[o], "Cancelled")]
      /\ Credit(o, [NoPay EXCEPT !["customer"] = orders[o].escrow])
      /\ UNCHANGED <<book, governance, world>>
  BY DEF CancelOpen, MayCancelOpen, Refund
<1>4. QED BY <1>1, <1>2, <1>3, ClosedType, PayCustomer, CreditStepType

LEMMA AbandonOrderType ==
    ASSUME TypeOK, NEW d \in Drivers, NEW o \in OrderIds, AbandonOrder(d, o)
    PROVE  TypeOK'
<1>1. "Cancelled" \in Status
  BY DEF Status
<1>2. RecordType'
  BY RecordFailedType DEF AbandonOrder, TypeOK, MayAbandonOrder, Refund
<1>3. /\ orders' = [orders EXCEPT ![o] = Closed(orders[o], "Cancelled")]
      /\ Credit(o, [NoPay EXCEPT !["customer"] = orders[o].escrow])
      /\ UNCHANGED <<book, governance, world>>
  BY DEF AbandonOrder, MayAbandonOrder, Refund
<1>4. QED BY <1>1, <1>2, <1>3, ClosedType, PayCustomer, CreditStepType

\* The compensation never exceeds half the fare: the owner cannot set it higher.
LEMMA CompensationBound ==
    ASSUME TypeOK, NEW o \in OrderIds
    PROVE  Compensation(o) \in Nat /\ 2 * Compensation(o) <= orders[o].fare
<1> DEFINE x == orders[o].fare
           bps == config.assignedCancelBps
<1>1. x \in Nat
  BY ClosedType DEF Status
<1>2. bps \in 0..5000
  BY DEF TypeOK, GovernanceType, Config
<1>3. Share(x, bps) \in Nat /\ 2 * Share(x, bps) <= x
  <2> HIDE DEF x, bps
  <2>1. bps \in Nat /\ bps <= 5000 /\ bps <= BPS
    BY <1>2 DEF BPS
  <2>2. QED BY <1>1, <2>1, ShareBound, HalfBound
<1>4. QED BY <1>3 DEF Compensation

LEMMA CancelAssignedType ==
    ASSUME TypeOK, NEW c \in Customers, NEW o \in OrderIds, CancelAssigned(c, o)
    PROVE  TypeOK'
<1> DEFINE comp == Compensation(o)
           e == orders[o].escrow
<1>1. "Cancelled" \in Status
  BY DEF Status
<1>2. /\ orders' = [orders EXCEPT ![o] = Closed(orders[o], "Cancelled")]
      /\ UNCHANGED <<book, governance, world>>
  BY DEF CancelAssigned, MayCancelAssigned, Refund, Compensated
<1>3. e \in Nat /\ comp \in Nat
  BY <1>1, ClosedType, CompensationBound
<1>4. orders[o].driver \in Drivers \cup {Nobody}
  BY <1>1, ClosedType DEF Order
<1>5. CASE recordFailed(orders[o].driver) /\ Credit(o, [NoPay EXCEPT !["customer"] = e])
  <2>1. RecordType'
    BY <1>4, <1>5, RecordFailedType DEF TypeOK
  <2>2. QED BY <1>1, <1>2, <1>3, <1>5, <2>1, ClosedType, PayCustomer, CreditStepType
<1>6. CASE /\ comp <= e
           /\ Credit(o, [NoPay EXCEPT !["driver"] = comp, !["customer"] = e - comp])
           /\ UNCHANGED record
  <2> DEFINE pay == [NoPay EXCEPT !["driver"] = comp, !["customer"] = e - comp]
  <2>1. RecordType'
    BY <1>6 DEF TypeOK, RecordType
  <2>2. pay \in [Roles -> Nat]
    <3> HIDE DEF comp, e
    <3>1. e - comp \in Nat
      BY <1>3, <1>6
    <3>2. QED BY <1>3, <3>1, PayBoth
  <2>3. QED BY <1>1, <1>2, <1>6, <2>1, <2>2, ClosedType, CreditStepType
<1>7. QED BY <1>5, <1>6 DEF CancelAssigned, MayCancelAssigned, Refund, Compensated

LEMMA ReleasedType ==
    ASSUME NEW r \in Order, NEW v \in Nat, v <= r.escrow, NEW st \in Status
    PROVE  Released(r, v, st) \in Order
<1>1. r.escrow - v \in 0..MaxU96
  BY BoundsAssumption DEF Order
<1>2. QED BY <1>1 DEF Released, Order

LEMMA OnPickupConfirmedType ==
    ASSUME TypeOK, NEW o \in OrderIds, OnPickupConfirmed(o)
    PROVE  TypeOK'
<1> DEFINE v == orders[o].orderValue
<1>1. "PickedUp" \in Status
  BY DEF Status
<1>2. orders[o] \in Order
  BY <1>1, ClosedType
<1>3. v \in Nat /\ v <= orders[o].escrow
  BY <1>2, BoundsAssumption DEF Order, OnPickupConfirmed, MayConfirmPickup, PickupPay
<1>4. Released(orders[o], v, "PickedUp") \in Order
  BY <1>1, <1>2, <1>3, ReleasedType
<1>5. /\ orders' = [orders EXCEPT ![o] = Released(orders[o], v, "PickedUp")]
      /\ Credit(o, [NoPay EXCEPT !["venue"] = v])
      /\ UNCHANGED <<book, governance, world, record>>
  BY DEF OnPickupConfirmed, MayConfirmPickup, PickupPay
<1>6. RecordType'
  BY <1>5 DEF TypeOK, RecordType
<1>7. QED BY <1>3, <1>4, <1>5, <1>6, PayVenue, CreditStepType

\* The four parts of a dropoff are amounts, and together they are what the
\* contract releases: fare, tip and relay fee.
LEMMA DropoffPayType ==
    ASSUME TypeOK, NEW o \in OrderIds, NEW relayer
    PROVE  /\ DropoffPay(o, relayer) \in [Roles -> Nat]
           /\ Total(DropoffPay(o, relayer))
                = orders[o].fare + orders[o].tip + orders[o].serviceFee
           /\ DropoffPay(o, relayer)["venue"] = 0
           /\ 10 * (DropoffPay(o, relayer)["driver"] - orders[o].tip) >= 9 * orders[o].fare
           /\ DropoffPay(o, relayer)["customer"] \in {0, orders[o].serviceFee}
<1> DEFINE hasRelay == relayer \notin {Nobody, Treasury}
           fare == orders[o].fare
           tip == orders[o].tip
           svcFee == orders[o].serviceFee
           feeBps == config.feeBps
           rebateBps == config.relayRebateBps
           fee == Share(fare, feeBps)
           cut == Share(fee, rebateBps)
           rebate == IF hasRelay THEN cut ELSE 0
           relay == rebate + (IF hasRelay THEN svcFee ELSE 0)
           back == IF hasRelay THEN 0 ELSE svcFee
<1>1. fare \in Nat /\ tip \in Nat /\ svcFee \in Nat
  BY BoundsAssumption DEF TypeOK, LedgerType, Order
<1>2. feeBps \in 0..1000 /\ rebateBps \in 0..10000
  BY DEF TypeOK, GovernanceType, Config, BPS
<1>3. fee \in Nat /\ fee <= fare /\ 10 * fee <= fare
  <2> HIDE DEF feeBps, fare
  <2>1. feeBps \in Nat /\ feeBps <= 1000 /\ feeBps <= BPS
    BY <1>2 DEF BPS
  <2>2. QED BY <1>1, <2>1, ShareBound, TenthBound
<1>4. cut \in Nat /\ cut <= fee
  <2> HIDE DEF rebateBps, fee
  <2>1. rebateBps \in Nat /\ rebateBps <= BPS
    BY <1>2 DEF BPS
  <2>2. QED BY <1>3, <2>1, ShareBound
<1>5. DropoffPay(o, relayer) =
        [NoPay EXCEPT !["driver"] = fare - fee + tip, !["treasury"] = fee - rebate,
                      !["relay"] = relay, !["customer"] = back]
  BY DEF DropoffPay, Fee
<1> HIDE DEF fare, tip, svcFee, fee, cut
<1>6. /\ fare - fee + tip \in Nat /\ fee - rebate \in Nat
      /\ relay \in Nat /\ back \in Nat
      /\ (fare - fee + tip) + (fee - rebate) + relay + back = fare + tip + svcFee
      /\ 10 * (fare - fee) >= 9 * fare
  BY <1>1, <1>3, <1>4
<1>7. back \in {0, svcFee}
  OBVIOUS
<1> HIDE DEF relay, back, rebate
<1>8. /\ DropoffPay(o, relayer) \in [Roles -> Nat]
      /\ Total(DropoffPay(o, relayer)) = (fare - fee + tip) + (fee - rebate) + relay + back
      /\ DropoffPay(o, relayer)["venue"] = 0
      /\ DropoffPay(o, relayer)["driver"] = fare - fee + tip
      /\ DropoffPay(o, relayer)["customer"] = back
  <2> DEFINE d == fare - fee + tip
             t == fee - rebate
  <2>1. d \in Nat /\ t \in Nat
    BY <1>6
  <2> HIDE DEF d, t
  <2> DEFINE pay == DropoffPay(o, relayer)
  <2>2. pay = [NoPay EXCEPT !["driver"] = d, !["treasury"] = t,
                            !["relay"] = relay, !["customer"] = back]
    BY <1>5 DEF d, t
  <2> HIDE DEF pay
  <2>3. /\ pay \in [Roles -> Nat]
        /\ Total(pay) = d + t + relay + back
        /\ pay["venue"] = 0 /\ pay["driver"] = d /\ pay["customer"] = back
    BY <1>6, <2>1, <2>2 DEF NoPay, Roles, Total
  <2>4. QED BY <2>3 DEF d, t, pay
<1>9. QED
  BY <1>1, <1>3, <1>6, <1>7, <1>8 DEF fare, tip, svcFee

LEMMA OnDropoffConfirmedType ==
    ASSUME TypeOK, NEW o \in OrderIds, NEW relayer, OnDropoffConfirmed(o, relayer)
    PROVE  TypeOK'
<1> DEFINE v == orders[o].fare + orders[o].tip + orders[o].serviceFee
           pay == DropoffPay(o, relayer)
<1>1. "Delivered" \in Status
  BY DEF Status
<1>2. orders[o] \in Order
  BY <1>1, ClosedType
<1>3. /\ v <= orders[o].escrow
      /\ orders' = [orders EXCEPT ![o] = Released(orders[o], v, "Delivered")]
      /\ Credit(o, pay)
      /\ recordDelivered(orders[o].driver)
      /\ UNCHANGED <<book, governance, world>>
  BY DEF OnDropoffConfirmed, MayConfirmDropoff, DropoffRelease
<1>4. v \in Nat
  BY <1>2, BoundsAssumption DEF Order
<1>5. Released(orders[o], v, "Delivered") \in Order
  BY <1>1, <1>2, <1>3, <1>4, ReleasedType
<1>6. pay \in [Roles -> Nat]
  BY DropoffPayType
<1>7. RecordType'
  <2>1. orders[o].driver \in Drivers \cup {Nobody}
    BY <1>2 DEF Order
  <2>2. QED BY <1>3, <2>1, RecordDeliveredType DEF TypeOK
<1>8. QED
  <2> HIDE DEF v, pay
  <2> QED BY <1>3, <1>5, <1>6, <1>7, CreditStepType

LEMMA MarkDisputedType ==
    ASSUME TypeOK, NEW o \in OrderIds, MarkDisputed(o)
    PROVE  TypeOK'
<1>1. orders[o] \in Order /\ "Disputed" \in Status
  BY ClosedType DEF Status
<1>2. [orders[o] EXCEPT !.status = "Disputed"] \in Order
  BY <1>1 DEF Order
<1>3. /\ orders' = [orders EXCEPT ![o] = [orders[o] EXCEPT !.status = "Disputed"]]
      /\ UNCHANGED <<held, payout, collected, book, governance, world, record>>
  BY DEF MarkDisputed, MayDispute
<1>4. orders' \in [OrderIds -> Order]
  BY <1>2, <1>3, UpdateType DEF TypeOK
<1>5. LedgerType' /\ RecordType'
  BY <1>3, <1>4 DEF TypeOK, LedgerType, RecordType
<1>6. QED BY <1>3, <1>5, LedgerStepType

\* The arbiter's split is two amounts that add up to the escrow.
LEMMA SplitType ==
    ASSUME TypeOK, NEW o \in OrderIds, NEW bps \in Nat, ValidShare(bps)
    PROVE  /\ Share(orders[o].escrow, bps) \in Nat
           /\ orders[o].escrow - Share(orders[o].escrow, bps) \in Nat
<1> DEFINE e == orders[o].escrow
<1>1. e \in Nat
  BY ClosedType DEF Status
<1>2. Share(e, bps) \in Nat /\ Share(e, bps) <= e
  <2> HIDE DEF e
  <2> QED BY <1>1, ShareBound DEF ValidShare
<1> HIDE DEF e
<1>3. Share(e, bps) \in Nat /\ e - Share(e, bps) \in Nat
  BY <1>1, <1>2
<1>4. QED BY <1>3 DEF e

LEMMA ResolveDisputedType ==
    ASSUME TypeOK, NEW o \in OrderIds, NEW bps \in ShareBps,
           NEW atFault \in BOOLEAN, ResolveDisputed(o, bps, atFault)
    PROVE  TypeOK'
<1> DEFINE e == orders[o].escrow
           amt == Share(e, bps)
           pay == [NoPay EXCEPT !["customer"] = amt, !["driver"] = e - amt]
<1>1. "Resolved" \in Status /\ bps \in Nat
  BY InputAssumption DEF Status
<1>2. /\ ValidShare(bps)
      /\ orders' = [orders EXCEPT ![o] = Closed(orders[o], "Resolved")]
      /\ Credit(o, pay)
      /\ IF atFault THEN recordFailed(orders[o].driver) ELSE UNCHANGED record
      /\ eligible' \subseteq eligible
      /\ UNCHANGED <<book, governance, now, blocked, activeVenues>>
  BY DEF ResolveDisputed, MayResolve, Split
<1>3. amt \in Nat /\ e - amt \in Nat
  BY <1>1, <1>2, SplitType
<1>4. pay \in [Roles -> Nat]
  <2> HIDE DEF e, amt
  <2> QED BY <1>3, PayBoth
<1>5. orders[o].driver \in Drivers \cup {Nobody} /\ Closed(orders[o], "Resolved") \in Order
  BY <1>1, ClosedType DEF Order
<1>6. RecordType'
  <2>1. CASE atFault
    BY <1>2, <1>5, <2>1, RecordFailedType DEF TypeOK
  <2>2. CASE ~atFault
    BY <1>2, <2>2 DEF TypeOK, RecordType
  <2>3. QED BY <2>1, <2>2
<1>7. LedgerType'
  <2>1. LedgerType
    BY DEF TypeOK
  <2>2. orders' \in [OrderIds -> Order]
    BY <1>2, <1>5, <2>1, UpdateType
  <2> HIDE DEF pay
  <2>3. QED BY <1>2, <1>4, <2>1, <2>2, CreditType DEF LedgerType
<1>8. BookType' /\ GovernanceType' /\ WorldType'
  BY <1>2 DEF TypeOK, BookType, GovernanceType, WorldType, book, governance
<1>9. QED BY <1>6, <1>7, <1>8 DEF TypeOK

LEMMA CommitBidType ==
    ASSUME TypeOK, NEW o \in OrderIds, NEW h \in BidHashes, NEW s \in Secrets,
           CommitBid(o, h, s)
    PROVE  TypeOK'
<1> DEFINE b == [exists |-> TRUE, revoked |-> FALSE, revokeHash |-> s]
<1>1. /\ sealedBidCount[o] < MAX_SEALED_BIDS
      /\ sealedBid' = [sealedBid EXCEPT ![o][h] = b]
      /\ sealedBidCount' = [sealedBidCount EXCEPT ![o] = @ + 1]
      /\ UNCHANGED <<ledger, nextOrderId, governance, world, record>>
  BY DEF CommitBid
<1>2. b \in Bid
  BY DEF Bid
<1>3. sealedBid' \in [OrderIds -> [BidHashes -> Bid]]
  <2> HIDE DEF b
  <2> QED BY <1>1, <1>2 DEF TypeOK, BookType
<1>4. sealedBidCount' \in [OrderIds -> 0..MAX_SEALED_BIDS]
  <2>1. sealedBidCount[o] + 1 \in 0..MAX_SEALED_BIDS
    BY <1>1, BoundsAssumption DEF TypeOK, BookType
  <2>2. QED BY <1>1, <2>1 DEF TypeOK, BookType
<1>5. BookType'
  BY <1>1, <1>3, <1>4 DEF TypeOK, BookType
<1>6. QED
  BY <1>1, <1>5 DEF TypeOK, LedgerType, GovernanceType, WorldType, RecordType,
                    ledger, governance, world

LEMMA RevokeBidType ==
    ASSUME TypeOK, NEW o \in OrderIds, NEW h \in BidHashes, NEW s, RevokeBid(o, h, s)
    PROVE  TypeOK'
<1> DEFINE b == Revoked(sealedBid[o][h])
<1>1. /\ sealedBid' = [sealedBid EXCEPT ![o][h] = b]
      /\ UNCHANGED <<ledger, nextOrderId, sealedBidCount, governance, world, record>>
  BY DEF RevokeBid
<1>2. b \in Bid
  <2>1. sealedBid[o][h] \in Bid
    BY DEF TypeOK, BookType
  <2>2. QED BY <2>1 DEF Bid, Revoked
<1>3. sealedBid' \in [OrderIds -> [BidHashes -> Bid]]
  <2> HIDE DEF b
  <2> QED BY <1>1, <1>2 DEF TypeOK, BookType
<1>4. BookType'
  BY <1>1, <1>3 DEF TypeOK, BookType
<1>5. QED
  BY <1>1, <1>4 DEF TypeOK, LedgerType, GovernanceType, WorldType, RecordType,
                    ledger, governance, world

\* Writing the configuration back keeps the state well typed.
LEMMA ConfigStepType ==
    ASSUME TypeOK, config' \in Config, acceptedToken' \in SUBSET Tokens,
           UNCHANGED <<ledger, book, world, record>>
    PROVE  TypeOK'
BY DEF TypeOK, LedgerType, BookType, GovernanceType, WorldType, RecordType,
       ledger, book, world

LEMMA OwnerType == TypeOK /\ Owner => TypeOK'
<1> SUFFICES ASSUME TypeOK, Owner PROVE TypeOK'
  OBVIOUS
<1>1. config \in Config /\ acceptedToken \in SUBSET Tokens
  BY DEF TypeOK, GovernanceType
<1>2. ASSUME NEW fee \in FeeBps, NEW comp \in CancelBps,
             NEW w \in MIN_WINDOW..MAX_WINDOW, SetParams(fee, comp, w)
      PROVE  TypeOK'
  <2>1. /\ fee <= 1000 /\ comp <= 5000
        /\ config' = [config EXCEPT !.feeBps = fee, !.assignedCancelBps = comp,
                                    !.defaultPickupWindow = w]
        /\ UNCHANGED <<acceptedToken, ledger, book, world, record>>
    BY <1>2 DEF SetParams
  <2>2. fee \in Nat /\ comp \in Nat
    BY InputAssumption
  <2>3. fee <= 1000 /\ comp <= 5000
    BY <2>1
  <2>4. fee \in 0..1000 /\ comp \in 0..5000
    BY <2>2, <2>3
  <2> DEFINE F == 0..1000
             C == 0..5000
             R == 0..BPS
             S == [Assets -> 0..MaxU96]
             W == MIN_WINDOW..MAX_WINDOW
  <2>5. /\ Config = [feeBps : F, assignedCancelBps : C, relayRebateBps : R,
                     relayServiceFee : S, defaultPickupWindow : W]
        /\ fee \in F /\ comp \in C /\ w \in W
    BY <2>4 DEF Config
  <2> HIDE DEF F, C, R, S, W
  <2>6. [config EXCEPT !.feeBps = fee, !.assignedCancelBps = comp,
                       !.defaultPickupWindow = w] \in Config
    BY <1>1, <2>5, Zenon
  <2>7. config' \in Config
    BY <2>1, <2>6
  <2>8. QED BY <1>1, <2>1, <2>7, ConfigStepType
<1>3. ASSUME NEW bps \in RebateBps, SetRelayRebateBps(bps)
      PROVE  TypeOK'
  <2>1. /\ bps <= BPS
        /\ config' = [config EXCEPT !.relayRebateBps = bps]
        /\ UNCHANGED <<acceptedToken, ledger, book, world, record>>
    BY <1>3 DEF SetRelayRebateBps
  <2>2. bps \in Nat
    BY InputAssumption
  <2>3. bps <= BPS
    BY <2>1
  <2>4. bps \in 0..BPS
    BY <2>2, <2>3 DEF BPS
  <2>5. config' \in Config
    BY <1>1, <2>1, <2>4 DEF Config
  <2>6. QED BY <1>1, <2>1, <2>5, ConfigStepType
<1>4. ASSUME NEW token \in Assets, NEW fee \in ServiceFees,
             SetRelayServiceFee(token, fee)
      PROVE  TypeOK'
  <2>1. [config.relayServiceFee EXCEPT ![token] = fee] \in [Assets -> 0..MaxU96]
    BY <1>1, InputAssumption DEF Config
  <2>2. config' = [config EXCEPT !.relayServiceFee =
                      [config.relayServiceFee EXCEPT ![token] = fee]]
    BY <1>1, <1>4 DEF SetRelayServiceFee, Config
  <2>3. config' \in Config
    BY <1>1, <2>1, <2>2 DEF Config
  <2>4. QED BY <1>1, <1>4, <2>3, ConfigStepType DEF SetRelayServiceFee
<1>5. ASSUME NEW token \in Tokens, NEW b \in BOOLEAN, SetAcceptedToken(token, b)
      PROVE  TypeOK'
  <2>1. acceptedToken' \in SUBSET Tokens
    BY <1>1, <1>5 DEF SetAcceptedToken
  <2>2. QED BY <1>1, <1>5, <2>1, ConfigStepType DEF SetAcceptedToken
<1>6. QED BY <1>2, <1>3, <1>4, <1>5 DEF Owner

LEMMA WorldStepType == TypeOK /\ (Tick \/ Switch \/ Registries) => TypeOK'
<1> SUFFICES ASSUME TypeOK, Tick \/ Switch \/ Registries PROVE TypeOK'
  OBVIOUS
<1>1. UNCHANGED <<ledger, book, governance, record>>
  BY DEF Tick, Switch, Registries
<1>2. LedgerType' /\ BookType' /\ GovernanceType' /\ RecordType'
  BY <1>1 DEF TypeOK, LedgerType, BookType, GovernanceType, RecordType,
              ledger, book, governance
<1>3. CASE Tick
  BY <1>2, <1>3 DEF Tick, TypeOK, WorldType
<1>4. CASE Switch
  BY <1>2, <1>4 DEF Switch, TypeOK, WorldType
<1>5. CASE Registries
  BY <1>2, <1>5 DEF Registries, TypeOK, WorldType
<1>6. QED BY <1>3, <1>4, <1>5

LEMMA StutterType == TypeOK /\ UNCHANGED vars => TypeOK'
BY DEF vars, ledger, book, governance, world, TypeOK, LedgerType, BookType,
       GovernanceType, WorldType, RecordType

LEMMA NextType == TypeOK /\ [Next]_vars => TypeOK'
<1> SUFFICES ASSUME TypeOK, Next PROVE TypeOK'
  BY StutterType
<1>1. ASSUME NEW c \in Customers, Customer(c) PROVE TypeOK'
  BY <1>1, CreateOrderType, IncreaseTipType, CancelOpenType, CancelAssignedType,
     AcceptSealedBidType DEF Customer
<1>2. ASSUME NEW o \in OrderIds, Bidding(o) PROVE TypeOK'
  BY <1>2, CommitBidType, RevokeBidType DEF Bidding
<1>3. ASSUME NEW o \in OrderIds, Callback(o) PROVE TypeOK'
  BY <1>3, OnPickupConfirmedType, OnDropoffConfirmedType, MarkDisputedType,
     ResolveDisputedType DEF Callback
<1>4. ASSUME NEW o \in OrderIds, NEW d \in Drivers, AbandonOrder(d, o) PROVE TypeOK'
  BY <1>4, AbandonOrderType
<1>5. QED BY <1>1, <1>2, <1>3, <1>4, OwnerType, WorldStepType DEF Next

\* Every variable keeps its type: in particular the escrow, the fare and the
\* tip of an order always fit the uint96 the contract stores them in.
THEOREM TypeCorrect == Spec => []TypeOK
BY InitType, NextType, PTL DEF Spec

-----------------------------------------------------------------------------
(* II.  The inductive invariant.                                           *)

\* Nobody but a venue has been paid.
OnlyVenuePaid(pay) ==
    pay["customer"] = 0 /\ pay["driver"] = 0 /\ pay["treasury"] = 0 /\ pay["relay"] = 0

\* What must hold of one order `r` whose payees got `pay` and whose customer
\* paid in `paidIn`, for the next transaction on it to keep the properties.
Sound(r, pay, paidIn) ==
    LET due == r.tip + r.fare + r.serviceFee  st == r.status IN
    /\ paidIn = r.escrow + Total(pay)
    /\ st \in {"None", "Delivered", "Cancelled", "Resolved"} => r.escrow = 0
    /\ st \in {"None", "Open"} => r.fare = 0
    /\ st \in {"Open", "Assigned"} => r.escrow = due + r.orderValue
    /\ st = "PickedUp" => r.escrow = due
    /\ st = "Disputed" => r.escrow = due + r.orderValue - pay["venue"]
    /\ st \in {"None", "Open", "Assigned", "PickedUp", "Disputed"} => OnlyVenuePaid(pay)
    /\ st \in {"None", "Open", "Assigned", "Cancelled"} => pay["venue"] = 0
    /\ st \in {"PickedUp", "Delivered"} => pay["venue"] = r.orderValue
    /\ st \in {"Disputed", "Resolved"} => pay["venue"] \in {0, r.orderValue}
    /\ st # "Delivered" => pay["treasury"] = 0 /\ pay["relay"] = 0
    /\ st = "Cancelled" => 2 * pay["driver"] <= r.fare
    /\ st = "Delivered" => /\ 10 * (pay["driver"] - r.tip) >= 9 * r.fare
                           /\ pay["customer"] \in {0, r.serviceFee}

SoundAt(o) == Sound(orders[o], payout[o], collected[o])

\* Inductive: a fresh id was never used, and every order is sound.
IInv ==
    /\ TypeOK
    /\ \A o \in OrderIds : SoundAt(o)
    /\ \A o \in OrderIds : o >= nextOrderId => orders[o].status = "None"

-----------------------------------------------------------------------------
(* The fields of an order record after each kind of write.                 *)

SameTerms(q, r) ==
    /\ q.tip = r.tip /\ q.fare = r.fare
    /\ q.orderValue = r.orderValue /\ q.serviceFee = r.serviceFee

LEMMA ClosedFields ==
    ASSUME NEW r \in Order, NEW st
    PROVE  /\ Closed(r, st).escrow = 0 /\ Closed(r, st).status = st
           /\ SameTerms(Closed(r, st), r)
BY DEF Closed, Order, SameTerms

LEMMA ReleasedFields ==
    ASSUME NEW r \in Order, NEW v, NEW st
    PROVE  /\ Released(r, v, st).escrow = r.escrow - v
           /\ Released(r, v, st).status = st
           /\ SameTerms(Released(r, v, st), r)
BY DEF Released, Order, SameTerms

LEMMA AssignedFields ==
    ASSUME NEW r \in Order, NEW d, NEW amount
    PROVE  LET q == Assigned(r, d, amount) IN
           /\ q.status = "Assigned" /\ q.fare = amount
           /\ q.escrow = r.escrow + amount
           /\ q.tip = r.tip /\ q.orderValue = r.orderValue
           /\ q.serviceFee = r.serviceFee
BY DEF Assigned, Order

LEMMA ToppedUpFields ==
    ASSUME NEW r \in Order, NEW v
    PROVE  LET q == ToppedUp(r, v) IN
           /\ q.status = r.status /\ q.fare = r.fare
           /\ q.escrow = r.escrow + v /\ q.tip = r.tip + v
           /\ q.orderValue = r.orderValue /\ q.serviceFee = r.serviceFee
BY DEF ToppedUp, Order

LEMMA DisputedFields ==
    ASSUME NEW r \in Order
    PROVE  LET q == [r EXCEPT !.status = "Disputed"] IN
           /\ q.status = "Disputed" /\ q.escrow = r.escrow
           /\ SameTerms(q, r)
BY DEF Order, SameTerms

\* The amounts of an order are natural numbers.
LEMMA OrderAmounts ==
    ASSUME NEW r \in Order
    PROVE  /\ r.escrow \in Nat /\ r.tip \in Nat /\ r.fare \in Nat
           /\ r.orderValue \in Nat /\ r.serviceFee \in Nat
           /\ r.status \in Status
BY BoundsAssumption DEF Order

\* `after` is `before` with `pay` added, payee by payee.
Paid(after, before, pay) ==
    \A role \in Roles : after[role] = before[role] + pay[role]

LEMMA PaidTotal ==
    ASSUME NEW before \in [Roles -> Nat], NEW pay \in [Roles -> Nat],
           NEW after, Paid(after, before, pay)
    PROVE  Total(after) = Total(before) + Total(pay)
BY DEF Paid, Total, Roles

-----------------------------------------------------------------------------
(* Each transition of one order, as a fact about records and payments.     *)

\* A step that closes the order and credits its whole escrow, with the shares
\* the status allows.
LEMMA SoundClosed ==
    ASSUME NEW r \in Order, NEW before \in [Roles -> Nat], NEW paidIn \in Nat,
           Sound(r, before, paidIn), NEW st \in {"Cancelled", "Resolved"},
           st = "Cancelled" => r.status \in {"Open", "Assigned"},
           st = "Resolved" => r.status = "Disputed",
           NEW pay \in [Roles -> Nat], Total(pay) = r.escrow,
           pay["venue"] = 0, pay["treasury"] = 0, pay["relay"] = 0,
           st = "Cancelled" => 2 * pay["driver"] <= r.fare,
           NEW after, Paid(after, before, pay)
    PROVE  Sound(Closed(r, st), after, paidIn)
<1> DEFINE q == Closed(r, st)
<1>1. q.escrow = 0 /\ q.status = st /\ SameTerms(q, r)
  BY ClosedFields
<1>2. Total(after) = Total(before) + r.escrow
  BY PaidTotal
<1>3. /\ after["venue"] = before["venue"]
      /\ after["treasury"] = before["treasury"] /\ after["relay"] = before["relay"]
      /\ after["driver"] = before["driver"] + pay["driver"]
  BY DEF Paid, Roles
<1>4. Total(before) \in Nat /\ r.escrow \in Nat
  BY TotalType, OrderAmounts
<1> SUFFICES Sound(q, after, paidIn)
  OBVIOUS
<1> HIDE DEF q
<1>5. paidIn = q.escrow + Total(after)
  BY <1>1, <1>2, <1>4 DEF Sound
<1>6. CASE st = "Cancelled"
  <2>1. /\ before["driver"] = 0 /\ before["treasury"] = 0
        /\ before["relay"] = 0 /\ before["venue"] = 0
    BY <1>6 DEF Sound, OnlyVenuePaid
  <2>2. pay["driver"] \in Nat
    BY DEF Roles
  <2>3. QED BY <1>1, <1>3, <1>5, <1>6, <2>1, <2>2 DEF Sound, SameTerms
<1>7. CASE st = "Resolved"
  <2>1. /\ before["treasury"] = 0 /\ before["relay"] = 0
        /\ before["venue"] \in {0, r.orderValue}
    BY <1>7 DEF Sound, OnlyVenuePaid
  <2>2. QED BY <1>1, <1>3, <1>5, <1>7, <2>1 DEF Sound, SameTerms
<1>8. QED BY <1>6, <1>7

LEMMA SoundPickedUp ==
    ASSUME NEW r \in Order, NEW before \in [Roles -> Nat], NEW paidIn \in Nat,
           Sound(r, before, paidIn), r.status = "Assigned",
           NEW pay \in [Roles -> Nat], Total(pay) = r.orderValue,
           pay["venue"] = r.orderValue,
           pay["customer"] = 0, pay["driver"] = 0, pay["treasury"] = 0, pay["relay"] = 0,
           NEW after, Paid(after, before, pay)
    PROVE  Sound(Released(r, r.orderValue, "PickedUp"), after, paidIn)
<1> DEFINE q == Released(r, r.orderValue, "PickedUp")
<1>1. q.escrow = r.escrow - r.orderValue /\ q.status = "PickedUp" /\ SameTerms(q, r)
  BY ReleasedFields
<1>2. Total(after) = Total(before) + r.orderValue
  BY PaidTotal
<1>3. /\ Total(before) \in Nat /\ r.escrow \in Nat /\ r.orderValue \in Nat
      /\ r.tip \in Nat /\ r.fare \in Nat /\ r.serviceFee \in Nat
  BY TotalType, OrderAmounts
<1>4. /\ OnlyVenuePaid(before) /\ before["venue"] = 0
      /\ r.escrow = r.tip + r.fare + r.serviceFee + r.orderValue
      /\ paidIn = r.escrow + Total(before)
  BY DEF Sound
<1>5. OnlyVenuePaid(after) /\ after["venue"] = r.orderValue
  BY <1>3, <1>4 DEF Paid, Roles, OnlyVenuePaid
<1> SUFFICES Sound(q, after, paidIn)
  OBVIOUS
<1> HIDE DEF q
<1>6. /\ paidIn = q.escrow + Total(after)
      /\ q.escrow = q.tip + q.fare + q.serviceFee
  BY <1>1, <1>2, <1>3, <1>4 DEF SameTerms
<1>7. QED BY <1>1, <1>5, <1>6 DEF Sound, SameTerms, OnlyVenuePaid

LEMMA SoundDelivered ==
    ASSUME NEW r \in Order, NEW before \in [Roles -> Nat], NEW paidIn \in Nat,
           Sound(r, before, paidIn), r.status = "PickedUp",
           NEW pay \in [Roles -> Nat], Total(pay) = r.fare + r.tip + r.serviceFee,
           pay["venue"] = 0,
           10 * (pay["driver"] - r.tip) >= 9 * r.fare,
           pay["customer"] \in {0, r.serviceFee},
           NEW after, Paid(after, before, pay)
    PROVE  Sound(Released(r, r.fare + r.tip + r.serviceFee, "Delivered"), after, paidIn)
<1> DEFINE v == r.fare + r.tip + r.serviceFee
           q == Released(r, v, "Delivered")
<1>1. q.escrow = r.escrow - v /\ q.status = "Delivered" /\ SameTerms(q, r)
  BY ReleasedFields
<1>2. Total(after) = Total(before) + v
  BY PaidTotal
<1>3. /\ Total(before) \in Nat /\ r.escrow \in Nat
      /\ r.tip \in Nat /\ r.fare \in Nat /\ r.serviceFee \in Nat
  BY TotalType, OrderAmounts
<1>4. /\ OnlyVenuePaid(before) /\ before["venue"] = r.orderValue
      /\ r.escrow = v /\ paidIn = r.escrow + Total(before)
  BY <1>3 DEF Sound
<1>5. /\ after["venue"] = r.orderValue
      /\ after["driver"] = pay["driver"] /\ after["customer"] = pay["customer"]
  <2>1. /\ pay["driver"] \in Nat /\ pay["customer"] \in Nat
        /\ r.orderValue \in Nat
    BY OrderAmounts DEF Roles
  <2>2. QED BY <1>4, <2>1 DEF Paid, Roles, OnlyVenuePaid
<1> SUFFICES Sound(q, after, paidIn)
  OBVIOUS
<1> HIDE DEF q
<1>6. paidIn = q.escrow + Total(after) /\ q.escrow = 0
  BY <1>1, <1>2, <1>3, <1>4
<1>7. QED BY <1>1, <1>5, <1>6 DEF Sound, SameTerms

LEMMA SoundDisputed ==
    ASSUME NEW r \in Order, NEW before \in [Roles -> Nat], NEW paidIn \in Nat,
           Sound(r, before, paidIn), r.status \in Disputable
    PROVE  Sound([r EXCEPT !.status = "Disputed"], before, paidIn)
<1> DEFINE q == [r EXCEPT !.status = "Disputed"]
<1>1. q.status = "Disputed" /\ q.escrow = r.escrow /\ SameTerms(q, r)
  BY DisputedFields
<1>2. /\ r.escrow \in Nat /\ r.tip \in Nat /\ r.fare \in Nat
      /\ r.orderValue \in Nat /\ r.serviceFee \in Nat
  BY OrderAmounts
<1>3. /\ OnlyVenuePaid(before) /\ before["venue"] \in {0, r.orderValue}
      /\ r.escrow = r.tip + r.fare + r.serviceFee + r.orderValue - before["venue"]
      /\ paidIn = r.escrow + Total(before)
  BY <1>2 DEF Sound, Disputable
<1> SUFFICES Sound(q, before, paidIn)
  OBVIOUS
<1> HIDE DEF q
<1>4. QED BY <1>1, <1>3 DEF Sound, SameTerms, OnlyVenuePaid

LEMMA SoundAssigned ==
    ASSUME NEW r \in Order, NEW before \in [Roles -> Nat], NEW paidIn \in Nat,
           Sound(r, before, paidIn), r.status = "Open", NEW d, NEW amount \in Nat
    PROVE  Sound(Assigned(r, d, amount), before, paidIn + amount)
<1> DEFINE q == Assigned(r, d, amount)
<1>1. /\ q.status = "Assigned" /\ q.fare = amount /\ q.escrow = r.escrow + amount
      /\ q.tip = r.tip /\ q.orderValue = r.orderValue /\ q.serviceFee = r.serviceFee
  BY AssignedFields
<1>2. /\ r.escrow \in Nat /\ r.tip \in Nat /\ r.orderValue \in Nat
      /\ r.serviceFee \in Nat /\ Total(before) \in Nat
  BY OrderAmounts, TotalType
<1>3. /\ OnlyVenuePaid(before) /\ before["venue"] = 0 /\ r.fare = 0
      /\ r.escrow = r.tip + r.fare + r.serviceFee + r.orderValue
      /\ paidIn = r.escrow + Total(before)
  BY DEF Sound
<1> SUFFICES Sound(q, before, paidIn + amount)
  OBVIOUS
<1> HIDE DEF q
<1>4. /\ paidIn + amount = q.escrow + Total(before)
      /\ q.escrow = q.tip + q.fare + q.serviceFee + q.orderValue
  BY <1>1, <1>2, <1>3
<1>5. QED BY <1>1, <1>3, <1>4 DEF Sound, OnlyVenuePaid

LEMMA SoundToppedUp ==
    ASSUME NEW r \in Order, NEW before \in [Roles -> Nat], NEW paidIn \in Nat,
           Sound(r, before, paidIn), r.status \in Tippable, NEW v \in Nat
    PROVE  Sound(ToppedUp(r, v), before, paidIn + v)
<1> DEFINE q == ToppedUp(r, v)
<1>1. /\ q.status = r.status /\ q.fare = r.fare
      /\ q.escrow = r.escrow + v /\ q.tip = r.tip + v
      /\ q.orderValue = r.orderValue /\ q.serviceFee = r.serviceFee
  BY ToppedUpFields
<1>2. /\ r.escrow \in Nat /\ r.tip \in Nat /\ r.fare \in Nat
      /\ r.orderValue \in Nat /\ r.serviceFee \in Nat /\ Total(before) \in Nat
  BY OrderAmounts, TotalType
<1> SUFFICES Sound(q, before, paidIn + v)
  OBVIOUS
<1> HIDE DEF q
<1>3. paidIn + v = q.escrow + Total(before)
  BY <1>1, <1>2 DEF Sound
<1>4. CASE r.status \in {"Open", "Assigned"}
  <2>1. q.escrow = q.tip + q.fare + q.serviceFee + q.orderValue
    BY <1>1, <1>2, <1>4 DEF Sound
  <2>2. QED BY <1>1, <1>3, <1>4, <2>1 DEF Sound, OnlyVenuePaid
<1>5. CASE r.status = "PickedUp"
  <2>1. q.escrow = q.tip + q.fare + q.serviceFee
    BY <1>1, <1>2, <1>5 DEF Sound
  <2>2. QED BY <1>1, <1>3, <1>5, <2>1 DEF Sound, OnlyVenuePaid
<1>6. QED BY <1>4, <1>5 DEF Tippable

-----------------------------------------------------------------------------
(* From the record-level facts to the steps of the specification.          *)

\* What _credit does to the ledger of the order, and to that of the others.
LEMMA CreditEffect ==
    ASSUME TypeOK, NEW o \in OrderIds, NEW pay \in [Roles -> Nat], Credit(o, pay)
    PROVE  /\ Paid(payout'[o], payout[o], pay)
           /\ \A p \in OrderIds \ {o} : payout'[p] = payout[p]
           /\ collected' = collected
<1>1. payout \in [OrderIds -> [Roles -> Nat]]
  BY DEF TypeOK, LedgerType
<1>2. /\ payout' = [payout EXCEPT ![o] = [r \in Roles |-> payout[o][r] + pay[r]]]
      /\ collected' = collected
  BY DEF Credit, Creditable
<1>3. payout'[o] = [r \in Roles |-> payout[o][r] + pay[r]]
  BY <1>1, <1>2
<1>4. \A p \in OrderIds \ {o} : payout'[p] = payout[p]
  BY <1>1, <1>2
<1>5. QED BY <1>2, <1>3, <1>4 DEF Paid

LEMMA CollectEffect ==
    ASSUME TypeOK, NEW o \in OrderIds, NEW t, NEW v, Collect(o, t, v)
    PROVE  /\ collected'[o] = collected[o] + v
           /\ \A p \in OrderIds \ {o} : collected'[p] = collected[p]
BY DEF TypeOK, LedgerType, Collect

LEMMA SoundTypes ==
    ASSUME TypeOK, NEW o \in OrderIds
    PROVE  /\ orders[o] \in Order /\ payout[o] \in [Roles -> Nat]
           /\ collected[o] \in Nat
BY DEF TypeOK, LedgerType

\* A transaction touches one order that already existed: the others keep
\* their soundness, and no fresh id is used up.
LEMMA OneOrder ==
    ASSUME IInv, TypeOK', NEW o \in OrderIds, NEW q,
           orders[o].status # "None",
           orders' = [orders EXCEPT ![o] = q],
           \A p \in OrderIds \ {o} : payout'[p] = payout[p] /\ collected'[p] = collected[p],
           nextOrderId' = nextOrderId,
           Sound(q, payout'[o], collected'[o])
    PROVE  IInv'
<1>1. orders \in [OrderIds -> Order]
  BY DEF IInv, TypeOK, LedgerType
<1>2. orders'[o] = q /\ \A p \in OrderIds \ {o} : orders'[p] = orders[p]
  BY <1>1
<1>3. \A p \in OrderIds : SoundAt(p)'
  BY <1>2 DEF IInv, SoundAt
<1>4. nextOrderId \in Nat
  BY DEF IInv, TypeOK, BookType
<1>5. \A p \in OrderIds : p >= nextOrderId' => orders'[p].status = "None"
  <2>1. ~(o >= nextOrderId)
    BY DEF IInv
  <2>2. QED BY <1>2, <2>1 DEF IInv
<1>6. QED BY <1>3, <1>5 DEF IInv

\* A transaction that leaves every order and every payment alone.
LEMMA NoOrder ==
    ASSUME IInv, TypeOK', UNCHANGED <<orders, payout, collected, nextOrderId>>
    PROVE  IInv'
BY DEF IInv, SoundAt

\* Closing an order, whichever call does it.
LEMMA CloseStep ==
    ASSUME IInv, TypeOK', NEW o \in OrderIds, NEW st \in {"Cancelled", "Resolved"},
           st = "Cancelled" => orders[o].status \in {"Open", "Assigned"},
           st = "Resolved" => orders[o].status = "Disputed",
           NEW pay \in [Roles -> Nat], Total(pay) = orders[o].escrow,
           pay["venue"] = 0, pay["treasury"] = 0, pay["relay"] = 0,
           st = "Cancelled" => 2 * pay["driver"] <= orders[o].fare,
           orders' = [orders EXCEPT ![o] = Closed(orders[o], st)],
           Credit(o, pay), nextOrderId' = nextOrderId
    PROVE  IInv'
<1>1. TypeOK /\ Sound(orders[o], payout[o], collected[o])
  BY DEF IInv, SoundAt
<1>2. /\ Paid(payout'[o], payout[o], pay)
      /\ \A p \in OrderIds \ {o} : payout'[p] = payout[p]
      /\ collected' = collected
  BY <1>1, CreditEffect
<1>3. Sound(Closed(orders[o], st), payout'[o], collected[o])
  <2> DEFINE r == orders[o]
             before == payout[o]
             paidIn == collected[o]
             after == payout'[o]
  <2>1. r \in Order /\ before \in [Roles -> Nat] /\ paidIn \in Nat
    BY <1>1, SoundTypes
  <2>2. Sound(r, before, paidIn) /\ Paid(after, before, pay)
    BY <1>1, <1>2
  <2>3. /\ st = "Cancelled" => r.status \in {"Open", "Assigned"}
        /\ st = "Resolved" => r.status = "Disputed"
        /\ Total(pay) = r.escrow
        /\ st = "Cancelled" => 2 * pay["driver"] <= r.fare
    OBVIOUS
  <2> SUFFICES Sound(Closed(r, st), after, paidIn)
    OBVIOUS
  <2> HIDE DEF r, before, paidIn, after
  <2>4. QED BY <2>1, <2>2, <2>3, SoundClosed
<1>4. orders[o].status # "None"
  OBVIOUS
<1>5. QED
  BY <1>2, <1>3, <1>4, OneOrder

\* Who gets what of a payment.
LEMMA CustomerOnly ==
    ASSUME NEW c \in Nat, NEW pay, pay = [NoPay EXCEPT !["customer"] = c]
    PROVE  /\ pay \in [Roles -> Nat] /\ Total(pay) = c
           /\ pay["customer"] = c /\ pay["driver"] = 0 /\ pay["venue"] = 0
           /\ pay["treasury"] = 0 /\ pay["relay"] = 0
BY DEF NoPay, Roles, Total

LEMMA VenueOnly ==
    ASSUME NEW v \in Nat, NEW pay, pay = [NoPay EXCEPT !["venue"] = v]
    PROVE  /\ pay \in [Roles -> Nat] /\ Total(pay) = v
           /\ pay["customer"] = 0 /\ pay["driver"] = 0 /\ pay["venue"] = v
           /\ pay["treasury"] = 0 /\ pay["relay"] = 0
BY DEF NoPay, Roles, Total

LEMMA CustomerAndDriver ==
    ASSUME NEW c \in Nat, NEW d \in Nat, NEW pay,
           \/ pay = [NoPay EXCEPT !["driver"] = d, !["customer"] = c]
           \/ pay = [NoPay EXCEPT !["customer"] = c, !["driver"] = d]
    PROVE  /\ pay \in [Roles -> Nat] /\ Total(pay) = c + d
           /\ pay["customer"] = c /\ pay["driver"] = d /\ pay["venue"] = 0
           /\ pay["treasury"] = 0 /\ pay["relay"] = 0
BY DEF NoPay, Roles, Total

\* A cancellation that refunds the customer in full.
LEMMA RefundStep ==
    ASSUME IInv, TypeOK', NEW o \in OrderIds,
           orders[o].status \in {"Open", "Assigned"},
           orders' = [orders EXCEPT ![o] = Closed(orders[o], "Cancelled")],
           Credit(o, [NoPay EXCEPT !["customer"] = orders[o].escrow]),
           nextOrderId' = nextOrderId
    PROVE  IInv'
<1> DEFINE e == orders[o].escrow
           pay == [NoPay EXCEPT !["customer"] = e]
<1>1. e \in Nat /\ orders[o].fare \in Nat
  BY SoundTypes, OrderAmounts DEF IInv
<1>2. /\ pay \in [Roles -> Nat] /\ Total(pay) = e /\ pay["driver"] = 0
      /\ pay["venue"] = 0 /\ pay["treasury"] = 0 /\ pay["relay"] = 0
  <2> HIDE DEF e
  <2> QED BY <1>1, CustomerOnly
<1>3. Credit(o, pay)
  OBVIOUS
<1> HIDE DEF pay
<1>4. 2 * pay["driver"] <= orders[o].fare
  BY <1>1, <1>2
<1>5. QED BY <1>2, <1>3, <1>4, CloseStep

-----------------------------------------------------------------------------
(* One lemma per action.                                                   *)

LEMMA CancelOpenSafe ==
    ASSUME IInv, TypeOK', NEW c, NEW o \in OrderIds, CancelOpen(c, o)
    PROVE  IInv'
<1>1. /\ orders[o].status = "Open"
      /\ orders' = [orders EXCEPT ![o] = Closed(orders[o], "Cancelled")]
      /\ Credit(o, [NoPay EXCEPT !["customer"] = orders[o].escrow])
      /\ nextOrderId' = nextOrderId
  BY DEF CancelOpen, book, MayCancelOpen, Refund
<1>2. QED BY <1>1, RefundStep

LEMMA AbandonOrderSafe ==
    ASSUME IInv, TypeOK', NEW d, NEW o \in OrderIds, AbandonOrder(d, o)
    PROVE  IInv'
<1>1. /\ orders[o].status = "Assigned"
      /\ orders' = [orders EXCEPT ![o] = Closed(orders[o], "Cancelled")]
      /\ Credit(o, [NoPay EXCEPT !["customer"] = orders[o].escrow])
      /\ nextOrderId' = nextOrderId
  BY DEF AbandonOrder, book, MayAbandonOrder, Refund
<1>2. QED BY <1>1, RefundStep

LEMMA CancelAssignedSafe ==
    ASSUME IInv, TypeOK', NEW c, NEW o \in OrderIds, CancelAssigned(c, o)
    PROVE  IInv'
<1> DEFINE e == orders[o].escrow
           comp == Compensation(o)
<1>1. /\ orders[o].status = "Assigned"
      /\ orders' = [orders EXCEPT ![o] = Closed(orders[o], "Cancelled")]
      /\ nextOrderId' = nextOrderId
  BY DEF CancelAssigned, book, MayCancelAssigned, Refund, Compensated
<1>2. CASE Credit(o, [NoPay EXCEPT !["customer"] = e])
  BY <1>1, <1>2, RefundStep
<1>3. CASE /\ comp <= e
           /\ Credit(o, [NoPay EXCEPT !["driver"] = comp, !["customer"] = e - comp])
  <2> DEFINE pay == [NoPay EXCEPT !["driver"] = comp, !["customer"] = e - comp]
  <2>1. e \in Nat /\ comp \in Nat /\ 2 * comp <= orders[o].fare
    BY SoundTypes, OrderAmounts, CompensationBound DEF IInv
  <2>2. /\ pay \in [Roles -> Nat] /\ Total(pay) = e
        /\ pay["driver"] = comp /\ pay["venue"] = 0
        /\ pay["treasury"] = 0 /\ pay["relay"] = 0
    <3> HIDE DEF e, comp
    <3>1. e - comp \in Nat /\ (e - comp) + comp = e
      BY <1>3, <2>1
    <3> DEFINE rest == e - comp
    <3>2. pay = [NoPay EXCEPT !["driver"] = comp, !["customer"] = rest]
      OBVIOUS
    <3> HIDE DEF rest, pay
    <3>3. /\ pay \in [Roles -> Nat] /\ Total(pay) = rest + comp
          /\ pay["driver"] = comp /\ pay["venue"] = 0
          /\ pay["treasury"] = 0 /\ pay["relay"] = 0
      <4>1. rest \in Nat
        BY <3>1 DEF rest
      <4>2. QED BY <2>1, <3>2, <4>1 DEF NoPay, Roles, Total
    <3>4. QED BY <3>1, <3>3 DEF rest
  <2>3. Credit(o, pay)
    BY <1>3
  <2> HIDE DEF pay
  <2>4. 2 * pay["driver"] <= orders[o].fare
    BY <2>1, <2>2
  <2>5. QED BY <1>1, <2>2, <2>3, <2>4, CloseStep
<1>4. QED BY <1>2, <1>3 DEF CancelAssigned, MayCancelAssigned, Refund, Compensated

LEMMA ResolveDisputedSafe ==
    ASSUME IInv, TypeOK', NEW o \in OrderIds, NEW bps \in ShareBps,
           NEW atFault, ResolveDisputed(o, bps, atFault)
    PROVE  IInv'
<1> DEFINE e == orders[o].escrow
           amt == Share(e, bps)
           pay == [NoPay EXCEPT !["customer"] = amt, !["driver"] = e - amt]
<1>1. /\ orders[o].status = "Disputed"
      /\ orders' = [orders EXCEPT ![o] = Closed(orders[o], "Resolved")]
      /\ Credit(o, pay)
      /\ nextOrderId' = nextOrderId
      /\ ValidShare(bps)
  BY DEF ResolveDisputed, book, MayResolve, Split
<1>2. amt \in Nat /\ e - amt \in Nat /\ e \in Nat
  BY <1>1, InputAssumption, SplitType, SoundTypes, OrderAmounts DEF IInv
<1>3. /\ pay \in [Roles -> Nat] /\ Total(pay) = e
      /\ pay["venue"] = 0 /\ pay["treasury"] = 0 /\ pay["relay"] = 0
  <2> HIDE DEF e, amt
  <2> DEFINE rest == e - amt
  <2>1. pay = [NoPay EXCEPT !["customer"] = amt, !["driver"] = rest]
    OBVIOUS
  <2>2. rest \in Nat /\ amt + rest = e
    BY <1>2
  <2> HIDE DEF rest, pay
  <2>3. QED BY <1>2, <2>1, <2>2 DEF NoPay, Roles, Total
<1> HIDE DEF pay
<1>4. QED BY <1>1, <1>3, CloseStep

LEMMA OnPickupConfirmedSafe ==
    ASSUME IInv, TypeOK', NEW o \in OrderIds, OnPickupConfirmed(o)
    PROVE  IInv'
<1> DEFINE r == orders[o]
           v == orders[o].orderValue
           pay == [NoPay EXCEPT !["venue"] = v]
           q == Released(r, v, "PickedUp")
<1>1. TypeOK /\ Sound(r, payout[o], collected[o])
  BY DEF IInv, SoundAt
<1>2. /\ r.status = "Assigned" /\ orders' = [orders EXCEPT ![o] = q]
      /\ Credit(o, pay) /\ nextOrderId' = nextOrderId
  BY DEF OnPickupConfirmed, book, MayConfirmPickup, PickupPay
<1>3. r \in Order /\ payout[o] \in [Roles -> Nat] /\ collected[o] \in Nat /\ v \in Nat
  BY <1>1, SoundTypes, OrderAmounts
<1>4. /\ pay \in [Roles -> Nat] /\ Total(pay) = v
      /\ pay["customer"] = 0 /\ pay["driver"] = 0 /\ pay["venue"] = v
      /\ pay["treasury"] = 0 /\ pay["relay"] = 0
  <2> HIDE DEF v
  <2> QED BY <1>3, VenueOnly
<1> HIDE DEF pay
<1>5. /\ Paid(payout'[o], payout[o], pay)
      /\ \A p \in OrderIds \ {o} : payout'[p] = payout[p]
      /\ collected' = collected
  BY <1>1, <1>2, <1>4, CreditEffect
<1>6. Sound(q, payout'[o], collected[o])
  <2> DEFINE before == payout[o]
             paidIn == collected[o]
             after == payout'[o]
  <2> HIDE DEF before, paidIn, after
  <2>1. /\ r \in Order /\ before \in [Roles -> Nat] /\ paidIn \in Nat
        /\ Sound(r, before, paidIn) /\ Paid(after, before, pay)
    BY <1>1, <1>3, <1>5 DEF before, paidIn, after
  <2> HIDE DEF r
  <2>2. v = r.orderValue
    BY DEF r
  <2>3. Sound(Released(r, r.orderValue, "PickedUp"), after, paidIn)
    BY <1>2, <1>4, <2>1, <2>2, SoundPickedUp
  <2>4. QED BY <2>2, <2>3 DEF before, paidIn, after
<1>7. r.status # "None"
  BY <1>2
<1> HIDE DEF q
<1>8. QED BY <1>2, <1>5, <1>6, <1>7, OneOrder

LEMMA OnDropoffConfirmedSafe ==
    ASSUME IInv, TypeOK', NEW o \in OrderIds, NEW relayer,
           OnDropoffConfirmed(o, relayer)
    PROVE  IInv'
<1> DEFINE r == orders[o]
           pay == DropoffPay(o, relayer)
           v == r.fare + r.tip + r.serviceFee
           q == Released(r, v, "Delivered")
<1>1. TypeOK /\ Sound(r, payout[o], collected[o])
  BY DEF IInv, SoundAt
<1>2. /\ r.status = "PickedUp" /\ orders' = [orders EXCEPT ![o] = q]
      /\ Credit(o, pay) /\ nextOrderId' = nextOrderId
  BY DEF OnDropoffConfirmed, book, MayConfirmDropoff, DropoffRelease
<1>3. r \in Order /\ payout[o] \in [Roles -> Nat] /\ collected[o] \in Nat
  BY <1>1, SoundTypes
<1>4. /\ pay \in [Roles -> Nat] /\ Total(pay) = v /\ pay["venue"] = 0
      /\ 10 * (pay["driver"] - r.tip) >= 9 * r.fare
      /\ pay["customer"] \in {0, r.serviceFee}
  BY <1>1, DropoffPayType
<1> HIDE DEF pay
<1>5. /\ Paid(payout'[o], payout[o], pay)
      /\ \A p \in OrderIds \ {o} : payout'[p] = payout[p]
      /\ collected' = collected
  BY <1>1, <1>2, <1>4, CreditEffect
<1>6. Sound(q, payout'[o], collected[o])
  <2> DEFINE before == payout[o]
             paidIn == collected[o]
             after == payout'[o]
  <2> HIDE DEF before, paidIn, after
  <2>1. /\ r \in Order /\ before \in [Roles -> Nat] /\ paidIn \in Nat
        /\ Sound(r, before, paidIn) /\ Paid(after, before, pay)
    BY <1>1, <1>3, <1>5 DEF before, paidIn, after
  <2> HIDE DEF r
  <2>2. Sound(q, after, paidIn)
    BY <1>2, <1>4, <2>1, SoundDelivered
  <2>3. QED BY <2>2 DEF before, paidIn, after
<1>7. r.status # "None"
  BY <1>2
<1> HIDE DEF q
<1>8. QED BY <1>2, <1>5, <1>6, <1>7, OneOrder

LEMMA MarkDisputedSafe ==
    ASSUME IInv, TypeOK', NEW o \in OrderIds, MarkDisputed(o)
    PROVE  IInv'
<1> DEFINE r == orders[o]
           q == [r EXCEPT !.status = "Disputed"]
<1>1. TypeOK /\ Sound(r, payout[o], collected[o])
  BY DEF IInv, SoundAt
<1>2. /\ r.status \in Disputable /\ orders' = [orders EXCEPT ![o] = q]
      /\ payout' = payout /\ collected' = collected /\ nextOrderId' = nextOrderId
  BY DEF MarkDisputed, book, MayDispute
<1>3. r \in Order /\ payout[o] \in [Roles -> Nat] /\ collected[o] \in Nat
  BY <1>1, SoundTypes
<1>4. Sound(q, payout[o], collected[o])
  <2> DEFINE before == payout[o]
             paidIn == collected[o]
  <2> HIDE DEF before, paidIn, r
  <2>1. /\ r \in Order /\ before \in [Roles -> Nat] /\ paidIn \in Nat
        /\ Sound(r, before, paidIn)
    BY <1>1, <1>3 DEF before, paidIn
  <2>2. Sound(q, before, paidIn)
    BY <1>2, <2>1, SoundDisputed
  <2>3. QED BY <2>2 DEF before, paidIn
<1>5. r.status # "None"
  BY <1>2 DEF Disputable
<1> HIDE DEF q
<1>6. QED BY <1>2, <1>4, <1>5, OneOrder

LEMMA IncreaseTipSafe ==
    ASSUME IInv, TypeOK', NEW c, NEW o \in OrderIds, NEW v \in Tips,
           IncreaseTip(c, o, v)
    PROVE  IInv'
<1> DEFINE r == orders[o]
           q == ToppedUp(r, v)
<1>1. TypeOK /\ Sound(r, payout[o], collected[o])
  BY DEF IInv, SoundAt
<1>2. v \in Nat /\ U96(v) = v
  BY InputAssumption, CastExact, BoundsAssumption
<1>3. /\ r.status \in Tippable /\ orders' = [orders EXCEPT ![o] = q]
      /\ Collect(o, r.token, v) /\ payout' = payout /\ nextOrderId' = nextOrderId
  BY <1>2 DEF IncreaseTip, book
<1>4. r \in Order /\ payout[o] \in [Roles -> Nat] /\ collected[o] \in Nat
  BY <1>1, SoundTypes
<1>5. /\ collected'[o] = collected[o] + v
      /\ \A p \in OrderIds \ {o} : collected'[p] = collected[p]
  BY <1>1, <1>3, CollectEffect
<1>6. Sound(q, payout[o], collected[o] + v)
  <2> DEFINE before == payout[o]
             paidIn == collected[o]
  <2> HIDE DEF before, paidIn, r
  <2>1. /\ r \in Order /\ before \in [Roles -> Nat] /\ paidIn \in Nat
        /\ Sound(r, before, paidIn)
    BY <1>1, <1>4 DEF before, paidIn
  <2>2. Sound(q, before, paidIn + v)
    BY <1>2, <1>3, <2>1, SoundToppedUp
  <2>3. QED BY <2>2 DEF before, paidIn
<1>7. r.status # "None"
  BY <1>3 DEF Tippable
<1> HIDE DEF q
<1>8. QED BY <1>3, <1>5, <1>6, <1>7, OneOrder

LEMMA AcceptSealedBidSafe ==
    ASSUME IInv, TypeOK', NEW c, NEW o \in OrderIds, NEW driver,
           NEW amount \in Fares, NEW salt, AcceptSealedBid(c, o, driver, amount, salt)
    PROVE  IInv'
<1> DEFINE r == orders[o]
           q == Assigned(r, driver, amount)
<1>1. TypeOK /\ Sound(r, payout[o], collected[o])
  BY DEF IInv, SoundAt
<1>2. amount \in Nat
  BY InputAssumption, BoundsAssumption
<1>3. /\ r.status = "Open" /\ orders' = [orders EXCEPT ![o] = q]
      /\ Collect(o, r.token, amount) /\ payout' = payout
      /\ nextOrderId' = nextOrderId
  BY DEF AcceptSealedBid, Acceptable, book
<1>4. r \in Order /\ payout[o] \in [Roles -> Nat] /\ collected[o] \in Nat
  BY <1>1, SoundTypes
<1>5. /\ collected'[o] = collected[o] + amount
      /\ \A p \in OrderIds \ {o} : collected'[p] = collected[p]
  BY <1>1, <1>3, CollectEffect
<1>6. Sound(q, payout[o], collected[o] + amount)
  <2> DEFINE before == payout[o]
             paidIn == collected[o]
  <2> HIDE DEF before, paidIn, r
  <2>1. /\ r \in Order /\ before \in [Roles -> Nat] /\ paidIn \in Nat
        /\ Sound(r, before, paidIn)
    BY <1>1, <1>4 DEF before, paidIn
  <2>2. Sound(q, before, paidIn + amount)
    BY <1>2, <1>3, <2>1, SoundAssigned
  <2>3. QED BY <2>2 DEF before, paidIn
<1>7. r.status # "None"
  BY <1>3
<1> HIDE DEF q
<1>8. QED BY <1>3, <1>5, <1>6, <1>7, OneOrder

\* The cast of value + tip + fee is exact because nobody owns more than Supply.
LEMMA SoundNew ==
    ASSUME NEW c, NEW token, NEW value \in 0..MaxU96, NEW tip \in 0..MaxU96,
           NEW maxFare, NEW fee \in 0..MaxU96, NEW w,
           value + tip + fee <= Supply, NEW pay, pay = NoPay
    PROVE  Sound(NewOrder(c, token, value, tip, maxFare, fee, w), pay, value + tip + fee)
<1> DEFINE q == NewOrder(c, token, value, tip, maxFare, fee, w)
           v == value + tip + fee
<1>1. v \in 0..MaxU96
  BY BoundsAssumption, SupplyAssumption
<1>2. U96(v) = v
  <2> HIDE DEF v
  <2> QED BY <1>1, CastExact
<1>3. /\ q.status = "Open" /\ q.escrow = v /\ q.fare = 0
      /\ q.tip = tip /\ q.orderValue = value /\ q.serviceFee = fee
  BY <1>2 DEF NewOrder
<1>4. OnlyVenuePaid(pay) /\ pay["venue"] = 0 /\ Total(pay) = 0
  BY DEF NoPay, Roles, OnlyVenuePaid, Total
<1>5. q.escrow = q.tip + q.fare + q.serviceFee + q.orderValue
  BY <1>3, BoundsAssumption
<1> SUFFICES Sound(q, pay, v)
  OBVIOUS
<1> HIDE DEF q
<1>6. v = q.escrow + Total(pay)
  BY <1>1, <1>3, <1>4, BoundsAssumption
<1> HIDE DEF v
<1>7. QED BY <1>3, <1>4, <1>5, <1>6 DEF Sound, OnlyVenuePaid

LEMMA CreateOrderSafe ==
    ASSUME IInv, TypeOK', NEW c, NEW token \in Assets, NEW venue,
           NEW value \in Values, NEW tip \in Tips, NEW maxFare, NEW window,
           CreateOrder(c, token, venue, value, tip, maxFare, window)
    PROVE  IInv'
<1> DEFINE o == nextOrderId
           fee == config.relayServiceFee[token]
           w == IF window = 0 THEN config.defaultPickupWindow ELSE window
           v == value + tip + fee
           q == NewOrder(c, token, value, tip, maxFare, fee, w)
<1>1. TypeOK /\ o \in OrderIds
  BY DEF IInv, CreateOrder
<1>2. /\ Collect(o, token, v) /\ nextOrderId' = o + 1
      /\ orders' = [orders EXCEPT ![o] = q] /\ payout' = payout
  BY DEF CreateOrder
<1>3. /\ orders \in [OrderIds -> Order] /\ held[token] \in Nat
      /\ payout[o] \in [Roles -> Nat] /\ collected[o] \in Nat /\ o \in Nat
  BY <1>1 DEF TypeOK, LedgerType, BookType
<1>4. value \in 0..MaxU96 /\ tip \in 0..MaxU96 /\ fee \in 0..MaxU96
  BY <1>1, InputAssumption DEF TypeOK, GovernanceType, Config
<1>5. v <= Supply
  <2>1. v <= Supply - held[token]
    BY <1>2 DEF Collect
  <2>2. v \in Nat
    BY <1>4, BoundsAssumption
  <2> HIDE DEF v
  <2>3. QED BY <1>3, <2>1, <2>2, BoundsAssumption
<1>6. payout[o] = NoPay /\ collected[o] = 0
  <2>1. orders[o].status = "None" /\ Sound(orders[o], payout[o], collected[o])
    BY <1>1, <1>3 DEF IInv, SoundAt
  <2>2. /\ OnlyVenuePaid(payout[o]) /\ payout[o]["venue"] = 0
        /\ orders[o].escrow = 0 /\ collected[o] = orders[o].escrow + Total(payout[o])
    BY <2>1 DEF Sound
  <2>3. \A role \in Roles : payout[o][role] = 0
    BY <2>2 DEF Roles, OnlyVenuePaid
  <2>4. payout[o] = NoPay
    BY <1>3, <2>3 DEF NoPay
  <2>5. QED BY <2>2, <2>4 DEF Total, NoPay, Roles
<1>7. Sound(q, payout[o], v)
  BY <1>4, <1>5, <1>6, SoundNew
<1>8. /\ collected'[o] = v
      /\ \A p \in OrderIds \ {o} : collected'[p] = collected[p]
  <2>1. v \in Nat
    BY <1>4, BoundsAssumption
  <2> HIDE DEF v
  <2>2. QED BY <1>1, <1>2, <1>6, <2>1, CollectEffect
<1> HIDE DEF q
<1>9. orders'[o] = q /\ \A p \in OrderIds \ {o} : orders'[p] = orders[p]
  BY <1>1, <1>2, <1>3
<1>10. \A p \in OrderIds : SoundAt(p)'
  BY <1>2, <1>7, <1>8, <1>9 DEF IInv, SoundAt
<1>11. \A p \in OrderIds : p >= nextOrderId' => orders'[p].status = "None"
  <2> SUFFICES ASSUME NEW p \in OrderIds, p >= o + 1 PROVE orders'[p].status = "None"
    BY <1>2
  <2>1. p # o /\ p >= o
    BY <1>3 DEF OrderIds
  <2>2. orders[p].status = "None"
    BY <2>1 DEF IInv
  <2>3. QED BY <1>9, <2>1, <2>2
<1>12. QED BY <1>10, <1>11 DEF IInv

-----------------------------------------------------------------------------
(* The invariant is inductive.                                             *)

LEMMA InitSafe == Init => IInv
<1> SUFFICES ASSUME Init PROVE IInv
  OBVIOUS
<1>1. TypeOK
  BY InitType
<1>2. ASSUME NEW o \in OrderIds
      PROVE  orders[o] = EmptyOrder /\ payout[o] = NoPay /\ collected[o] = 0
  BY DEF Init
<1>3. /\ EmptyOrder.status = "None" /\ EmptyOrder.escrow = 0 /\ EmptyOrder.fare = 0
      /\ OnlyVenuePaid(NoPay) /\ NoPay["venue"] = 0 /\ Total(NoPay) = 0
  BY DEF EmptyOrder, NoPay, Roles, OnlyVenuePaid, Total
<1>4. Sound(EmptyOrder, NoPay, 0)
  BY <1>3 DEF Sound, OnlyVenuePaid
<1>5. QED BY <1>1, <1>2, <1>3, <1>4 DEF IInv, SoundAt

LEMMA NextSafe == IInv /\ [Next]_vars => IInv'
<1> SUFFICES ASSUME IInv, [Next]_vars PROVE IInv'
  OBVIOUS
<1>1. TypeOK'
  BY NextType DEF IInv
<1>2. ASSUME NEW c \in Customers, Customer(c) PROVE IInv'
  BY <1>1, <1>2, CreateOrderSafe, IncreaseTipSafe, CancelOpenSafe,
     CancelAssignedSafe, AcceptSealedBidSafe DEF Customer
<1>3. ASSUME NEW o \in OrderIds, Callback(o) PROVE IInv'
  BY <1>1, <1>3, OnPickupConfirmedSafe, OnDropoffConfirmedSafe, MarkDisputedSafe,
     ResolveDisputedSafe DEF Callback
<1>4. ASSUME NEW o \in OrderIds, NEW d \in Drivers, AbandonOrder(d, o) PROVE IInv'
  BY <1>1, <1>4, AbandonOrderSafe
<1>5. ASSUME NEW o \in OrderIds, Bidding(o) PROVE IInv'
  <2>1. UNCHANGED <<orders, payout, collected, nextOrderId>>
    BY <1>5 DEF Bidding, CommitBid, RevokeBid, ledger
  <2>2. QED BY <1>1, <2>1, NoOrder
<1>6. CASE Owner \/ Tick \/ Switch \/ Registries \/ UNCHANGED vars
  <2>1. UNCHANGED <<orders, payout, collected, nextOrderId>>
    <3>1. CASE Owner
      <4>1. UNCHANGED <<ledger, book>>
        <5>1. ASSUME NEW fee, NEW comp, NEW w, SetParams(fee, comp, w)
              PROVE  UNCHANGED <<ledger, book>>
          BY <5>1 DEF SetParams
        <5>2. ASSUME NEW bps, SetRelayRebateBps(bps)
              PROVE  UNCHANGED <<ledger, book>>
          BY <5>2 DEF SetRelayRebateBps
        <5>3. ASSUME NEW token, NEW fee, SetRelayServiceFee(token, fee)
              PROVE  UNCHANGED <<ledger, book>>
          BY <5>3 DEF SetRelayServiceFee
        <5>4. ASSUME NEW token, NEW b, SetAcceptedToken(token, b)
              PROVE  UNCHANGED <<ledger, book>>
          BY <5>4 DEF SetAcceptedToken
        <5>5. QED BY <3>1, <5>1, <5>2, <5>3, <5>4 DEF Owner
      <4>2. QED BY <4>1 DEF ledger, book
    <3>2. CASE Tick \/ Switch \/ Registries \/ UNCHANGED vars
      BY <3>2 DEF Tick, Switch, Registries, vars, ledger, book
    <3>3. QED BY <1>6, <3>1, <3>2
  <2>2. QED BY <1>1, <2>1, NoOrder
<1>7. QED BY <1>2, <1>3, <1>4, <1>5, <1>6 DEF Next

LEMMA Inductive == Spec => []IInv
BY InitSafe, NextSafe, PTL DEF Spec

-----------------------------------------------------------------------------
(* What it gives.                                                          *)

\* Every unit a customer paid in for an order is in its escrow or has been
\* credited to somebody: no cast, split or release loses or invents one.
THEOREM ConservationHolds == Spec => []Conservation
<1>1. IInv => Conservation
  BY DEF IInv, SoundAt, Sound, Conservation
<1>2. QED BY <1>1, Inductive, PTL

\* The escrow of an order is at every status exactly what its remaining
\* releases take.
THEOREM EscrowHolds == Spec => []EscrowMatchesStatus
<1>1. IInv => EscrowMatchesStatus
  <2> SUFFICES ASSUME IInv, NEW o \in OrderIds
               PROVE  orders[o].escrow =
            CASE orders[o].status \in {"Open", "Assigned"} -> Due(o) + orders[o].orderValue
              [] orders[o].status = "PickedUp" -> Due(o)
              [] orders[o].status = "Disputed" ->
                    Due(o) + orders[o].orderValue - payout[o]["venue"]
              [] OTHER -> 0
    BY DEF EscrowMatchesStatus
  <2>1. Sound(orders[o], payout[o], collected[o]) /\ orders[o].status \in Status
    BY SoundTypes, OrderAmounts DEF IInv, SoundAt
  <2>2. CASE orders[o].status \in {"Open", "Assigned"}
    <3>1. orders[o].escrow = Due(o) + orders[o].orderValue
      BY <2>1, <2>2 DEF Sound, Due
    <3>2. QED BY <2>2, <3>1
  <2>3. CASE orders[o].status = "PickedUp"
    <3>1. orders[o].escrow = Due(o)
      BY <2>1, <2>3 DEF Sound, Due
    <3>2. QED BY <2>3, <3>1
  <2>4. CASE orders[o].status = "Disputed"
    <3>1. orders[o].escrow = Due(o) + orders[o].orderValue - payout[o]["venue"]
      BY <2>1, <2>4 DEF Sound, Due
    <3>2. QED BY <2>4, <3>1
  <2>5. CASE orders[o].status \in {"None", "Delivered", "Cancelled", "Resolved"}
    <3>1. orders[o].escrow = 0
      BY <2>1, <2>5 DEF Sound
    <3>2. QED BY <2>5, <3>1
  <2>6. QED BY <2>1, <2>2, <2>3, <2>4, <2>5 DEF Status
<1>2. QED BY <1>1, Inductive, PTL

\* Who has been paid what is decided by the status of the order.
THEOREM EntitlementsHold == Spec => []Entitlements
<1>1. IInv => Entitlements
  <2> SUFFICES ASSUME IInv, NEW o \in OrderIds
               PROVE  LET paid == payout[o]  st == orders[o].status IN
        /\ st \in {"None", "Open", "Assigned"} => paid = NoPay
        /\ st \in {"PickedUp", "Delivered"} => paid["venue"] = orders[o].orderValue
        /\ st \in {"Disputed", "Resolved"} => paid["venue"] \in {0, orders[o].orderValue}
        /\ st # "Delivered" => paid["treasury"] = 0 /\ paid["relay"] = 0
        /\ st = "Cancelled" => paid["venue"] = 0 /\ 2 * paid["driver"] <= orders[o].fare
        /\ st = "Delivered" =>
              /\ 10 * (paid["driver"] - orders[o].tip) >= 9 * orders[o].fare
              /\ paid["customer"] \in {0, orders[o].serviceFee}
    BY DEF Entitlements
  <2>1. Sound(orders[o], payout[o], collected[o]) /\ payout[o] \in [Roles -> Nat]
    BY SoundTypes DEF IInv, SoundAt
  <2>2. ASSUME orders[o].status \in {"None", "Open", "Assigned"}
        PROVE  payout[o] = NoPay
    <3>1. OnlyVenuePaid(payout[o]) /\ payout[o]["venue"] = 0
      BY <2>1, <2>2 DEF Sound
    <3>2. \A role \in Roles : payout[o][role] = 0
      BY <3>1 DEF Roles, OnlyVenuePaid
    <3>3. QED BY <2>1, <3>2 DEF NoPay
  <2>3. QED BY <2>1, <2>2 DEF Sound
<1>2. QED BY <1>1, Inductive, PTL

-----------------------------------------------------------------------------
(* III.  Steps.                                                            *)

\* Who and what the order is about, and the deal with the driver.
SameParties(q, r) == q.customer = r.customer /\ q.token = r.token /\ q.serviceFee = r.serviceFee
SameDeal(q, r) == q.fare = r.fare /\ q.driver = r.driver

\* The status changes that pay from the escrow, empty it, or leave it.
Endings == {<<"Open", "Cancelled">>, <<"Assigned", "Cancelled">>,
            <<"PickedUp", "Delivered">>, <<"Disputed", "Resolved">>}

Opened(o) ==
    /\ orders[o].status = "None" /\ orders'[o].status = "Open"
    /\ payout'[o] = payout[o]

Deposited(o) ==
    /\ \/ /\ orders[o].status \in Tippable /\ orders'[o].status = orders[o].status
          /\ SameDeal(orders'[o], orders[o])
       \/ /\ orders[o].status = "Open" /\ orders'[o].status = "Assigned"
          /\ orders[o].fare = 0
    /\ SameParties(orders'[o], orders[o])
    /\ payout'[o] = payout[o] /\ collected[o] < collected'[o]

PartPaid(o) ==
    /\ orders[o].status = "Assigned" /\ orders'[o].status = "PickedUp"
    /\ SameParties(orders'[o], orders[o]) /\ SameDeal(orders'[o], orders[o])
    /\ Total(payout[o]) <= Total(payout'[o]) /\ collected'[o] = collected[o]

Contested(o) ==
    /\ orders[o].status \in Disputable /\ orders'[o].status = "Disputed"
    /\ SameParties(orders'[o], orders[o]) /\ SameDeal(orders'[o], orders[o])
    /\ payout'[o] = payout[o] /\ collected'[o] = collected[o]

Ended(o) ==
    /\ <<orders[o].status, orders'[o].status>> \in Endings
    /\ SameParties(orders'[o], orders[o]) /\ SameDeal(orders'[o], orders[o])
    /\ collected'[o] = collected[o]

\* One order moves, the others rest.
Moves(o) ==
    /\ Opened(o) \/ Deposited(o) \/ PartPaid(o) \/ Contested(o) \/ Ended(o)
    /\ \A p \in OrderIds \ {o} :
          orders'[p] = orders[p] /\ payout'[p] = payout[p] /\ collected'[p] = collected[p]

Rests == UNCHANGED <<orders, held, payout, collected>>

-----------------------------------------------------------------------------
(* What each write leaves alone.                                           *)

LEMMA Updated ==
    ASSUME TypeOK, NEW o \in OrderIds, NEW q, orders' = [orders EXCEPT ![o] = q]
    PROVE  orders'[o] = q /\ \A p \in OrderIds \ {o} : orders'[p] = orders[p]
BY DEF TypeOK, LedgerType

LEMMA ClosedTerms ==
    ASSUME NEW r \in Order, NEW st
    PROVE  /\ SameParties(Closed(r, st), r) /\ SameDeal(Closed(r, st), r)
           /\ Closed(r, st).status = st
BY DEF Closed, Order, SameParties, SameDeal

LEMMA ReleasedTerms ==
    ASSUME NEW r \in Order, NEW v, NEW st
    PROVE  /\ SameParties(Released(r, v, st), r) /\ SameDeal(Released(r, v, st), r)
           /\ Released(r, v, st).status = st
BY DEF Released, Order, SameParties, SameDeal

LEMMA ToppedUpTerms ==
    ASSUME NEW r \in Order, NEW v
    PROVE  /\ SameParties(ToppedUp(r, v), r) /\ SameDeal(ToppedUp(r, v), r)
           /\ ToppedUp(r, v).status = r.status
BY DEF ToppedUp, Order, SameParties, SameDeal

LEMMA AssignedTerms ==
    ASSUME NEW r \in Order, NEW d, NEW amount
    PROVE  SameParties(Assigned(r, d, amount), r) /\ Assigned(r, d, amount).status = "Assigned"
BY DEF Assigned, Order, SameParties

LEMMA DisputedTerms ==
    ASSUME NEW r \in Order, NEW q, q = [r EXCEPT !.status = "Disputed"]
    PROVE  SameParties(q, r) /\ SameDeal(q, r) /\ q.status = "Disputed"
BY DEF Order, SameParties, SameDeal

\* A credit leaves what others were paid, and what was collected, alone.
LEMMA CreditOthers ==
    ASSUME TypeOK, NEW o \in OrderIds, NEW pay, Credit(o, pay)
    PROVE  /\ \A p \in OrderIds \ {o} : payout'[p] = payout[p]
           /\ collected' = collected
BY DEF Credit, TypeOK, LedgerType, Creditable

-----------------------------------------------------------------------------
(* One lemma per action.                                                   *)

LEMMA CreateOrderMoves ==
    ASSUME IInv, NEW c, NEW token, NEW venue, NEW value, NEW tip, NEW maxFare, NEW window,
           CreateOrder(c, token, venue, value, tip, maxFare, window)
    PROVE  nextOrderId \in OrderIds /\ Moves(nextOrderId)
<1> DEFINE o == nextOrderId
           w == IF window = 0 THEN config.defaultPickupWindow ELSE window
           fee == config.relayServiceFee[token]
           q == NewOrder(c, token, value, tip, maxFare, fee, w)
<1>1. /\ TypeOK /\ o \in OrderIds /\ orders' = [orders EXCEPT ![o] = q]
      /\ Collect(o, token, value + tip + fee) /\ payout' = payout
  BY DEF CreateOrder, IInv
<1>2. q.status = "Open"
  BY DEF NewOrder
<1> HIDE DEF q
<1>3. orders[o].status = "None"
  BY <1>1 DEF IInv, TypeOK, BookType
<1>4. orders'[o] = q /\ \A p \in OrderIds \ {o} : orders'[p] = orders[p]
  BY <1>1, Updated
<1>5. \A p \in OrderIds \ {o} : collected'[p] = collected[p]
  BY <1>1, CollectEffect
<1>6. Opened(o)
  BY <1>1, <1>2, <1>3, <1>4 DEF Opened
<1> QED
  BY <1>1, <1>4, <1>5, <1>6 DEF Moves

LEMMA IncreaseTipMoves ==
    ASSUME IInv, NEW c, NEW o \in OrderIds, NEW v \in Tips, IncreaseTip(c, o, v)
    PROVE  Moves(o)
<1> DEFINE r == orders[o]
           u == U96(v)
           q == ToppedUp(r, u)
<1>1. /\ TypeOK /\ orders' = [orders EXCEPT ![o] = q] /\ r.status \in Tippable /\ v > 0
      /\ Collect(o, r.token, v) /\ payout' = payout
  BY DEF IncreaseTip, IInv
<1>2. r \in Order /\ collected[o] \in Nat /\ v \in Nat
  BY <1>1, SoundTypes, InputAssumption, BoundsAssumption
<1>3. SameParties(q, r) /\ SameDeal(q, r) /\ q.status = r.status
  BY <1>2, ToppedUpTerms
<1> HIDE DEF q
<1>4. orders'[o] = q /\ \A p \in OrderIds \ {o} : orders'[p] = orders[p]
  BY <1>1, Updated
<1>5. collected'[o] = collected[o] + v
      /\ \A p \in OrderIds \ {o} : collected'[p] = collected[p]
  BY <1>1, CollectEffect
<1>6. Deposited(o)
  BY <1>1, <1>2, <1>3, <1>4, <1>5 DEF Deposited
<1> QED
  BY <1>1, <1>4, <1>5, <1>6 DEF Moves

LEMMA AcceptSealedBidMoves ==
    ASSUME IInv, NEW c, NEW o \in OrderIds, NEW d, NEW amount \in Fares, NEW salt,
           AcceptSealedBid(c, o, d, amount, salt)
    PROVE  Moves(o)
<1> DEFINE r == orders[o]
           q == Assigned(r, d, amount)
<1>1. /\ TypeOK /\ orders' = [orders EXCEPT ![o] = q] /\ r.status = "Open" /\ amount > 0
      /\ Collect(o, r.token, amount) /\ payout' = payout
  BY DEF AcceptSealedBid, Acceptable, IInv
<1>2. r \in Order /\ collected[o] \in Nat /\ amount \in Nat
  BY <1>1, SoundTypes, InputAssumption, BoundsAssumption
<1>3. SameParties(q, r) /\ q.status = "Assigned"
  BY <1>2, AssignedTerms
<1> HIDE DEF q
<1>4. orders'[o] = q /\ \A p \in OrderIds \ {o} : orders'[p] = orders[p]
  BY <1>1, Updated
<1>5. collected'[o] = collected[o] + amount
      /\ \A p \in OrderIds \ {o} : collected'[p] = collected[p]
  BY <1>1, CollectEffect
<1>6. r.fare = 0
  BY <1>1 DEF IInv, SoundAt, Sound
<1>7. Deposited(o)
  BY <1>1, <1>2, <1>3, <1>4, <1>5, <1>6 DEF Deposited
<1> QED
  BY <1>1, <1>4, <1>5, <1>7 DEF Moves

\* A release: the record is rewritten with its terms, and somebody is credited.
LEMMA EndMoves ==
    ASSUME IInv, NEW o \in OrderIds, NEW q, NEW pay,
           orders' = [orders EXCEPT ![o] = q], Credit(o, pay),
           SameParties(q, orders[o]), SameDeal(q, orders[o]),
           <<orders[o].status, q.status>> \in Endings
    PROVE  Moves(o)
<1>1. TypeOK
  BY DEF IInv
<1>2. orders'[o] = q /\ \A p \in OrderIds \ {o} : orders'[p] = orders[p]
  BY <1>1, Updated
<1>3. collected' = collected /\ \A p \in OrderIds \ {o} : payout'[p] = payout[p]
  BY <1>1, CreditOthers
<1>4. Ended(o)
  BY <1>2, <1>3 DEF Ended
<1> QED
  BY <1>2, <1>3, <1>4 DEF Moves

LEMMA ClosingMoves ==
    ASSUME IInv, NEW o \in OrderIds, NEW c,
           \/ CancelOpen(c, o) \/ CancelAssigned(c, o) \/ AbandonOrder(c, o)
           \/ \E bps \in ShareBps, atFault \in BOOLEAN : ResolveDisputed(o, bps, atFault)
    PROVE  Moves(o)
<1>1. orders[o] \in Order
  BY SoundTypes DEF IInv
<1>2. CASE CancelOpen(c, o) \/ CancelAssigned(c, o) \/ AbandonOrder(c, o)
  <2> DEFINE q == Closed(orders[o], "Cancelled")
  <2>1. orders[o].status \in {"Open", "Assigned"} /\ orders' = [orders EXCEPT ![o] = q]
    BY <1>2 DEF CancelOpen, CancelAssigned, AbandonOrder,
       MayCancelOpen, Refund, MayCancelAssigned, Compensated, MayAbandonOrder
  <2>2. \E pay : Credit(o, pay)
    BY <1>2 DEF CancelOpen, CancelAssigned, AbandonOrder,
       MayCancelOpen, Refund, MayCancelAssigned, Compensated, MayAbandonOrder
  <2>3. SameParties(q, orders[o]) /\ SameDeal(q, orders[o]) /\ q.status = "Cancelled"
    BY <1>1, ClosedTerms
  <2> HIDE DEF q
  <2>4. <<orders[o].status, q.status>> \in Endings
    BY <2>1, <2>3 DEF Endings
  <2> QED
    BY <2>1, <2>2, <2>3, <2>4, EndMoves
<1>3. CASE \E bps \in ShareBps, atFault \in BOOLEAN : ResolveDisputed(o, bps, atFault)
  <2> DEFINE q == Closed(orders[o], "Resolved")
  <2>1. orders[o].status = "Disputed" /\ orders' = [orders EXCEPT ![o] = q]
    BY <1>3 DEF ResolveDisputed, MayResolve, Split
  <2>2. \E pay : Credit(o, pay)
    BY <1>3 DEF ResolveDisputed, MayResolve, Split
  <2>3. SameParties(q, orders[o]) /\ SameDeal(q, orders[o]) /\ q.status = "Resolved"
    BY <1>1, ClosedTerms
  <2> HIDE DEF q
  <2>4. <<orders[o].status, q.status>> \in Endings
    BY <2>1, <2>3 DEF Endings
  <2> QED
    BY <2>1, <2>2, <2>3, <2>4, EndMoves
<1> QED
  BY <1>2, <1>3

LEMMA DropoffMoves ==
    ASSUME IInv, NEW o \in OrderIds, NEW relayer, OnDropoffConfirmed(o, relayer)
    PROVE  Moves(o)
<1> DEFINE v == orders[o].fare + orders[o].tip + orders[o].serviceFee
           q == Released(orders[o], v, "Delivered")
<1>1. orders[o].status = "PickedUp" /\ orders' = [orders EXCEPT ![o] = q]
      /\ Credit(o, DropoffPay(o, relayer))
  BY DEF OnDropoffConfirmed, MayConfirmDropoff, DropoffRelease
<1>2. SameParties(q, orders[o]) /\ SameDeal(q, orders[o]) /\ q.status = "Delivered"
  <2> HIDE DEF v
  <2> QED
    BY SoundTypes, ReleasedTerms DEF IInv
<1> HIDE DEF q
<1>3. <<orders[o].status, q.status>> \in Endings
  BY <1>1, <1>2 DEF Endings
<1> QED
  BY <1>1, <1>2, <1>3, EndMoves

LEMMA PickupMoves ==
    ASSUME IInv, NEW o \in OrderIds, OnPickupConfirmed(o)
    PROVE  Moves(o)
<1> DEFINE v == orders[o].orderValue
           q == Released(orders[o], v, "PickedUp")
           pay == [NoPay EXCEPT !["venue"] = v]
<1>1. /\ TypeOK /\ orders[o].status = "Assigned" /\ orders' = [orders EXCEPT ![o] = q]
      /\ Credit(o, pay)
  BY DEF OnPickupConfirmed, IInv, MayConfirmPickup, PickupPay
<1>2. orders[o] \in Order /\ payout[o] \in [Roles -> Nat] /\ v \in Nat
  BY <1>1, SoundTypes, OrderAmounts
<1>3. SameParties(q, orders[o]) /\ SameDeal(q, orders[o]) /\ q.status = "PickedUp"
  <2> HIDE DEF v
  <2> QED
    BY <1>2, ReleasedTerms
<1>4. pay \in [Roles -> Nat] /\ Total(pay) = v
  <2> HIDE DEF v
  <2> QED
    BY <1>2, VenueOnly
<1> HIDE DEF q, pay, v
<1>5. orders'[o] = q /\ \A p \in OrderIds \ {o} : orders'[p] = orders[p]
  BY <1>1, Updated
<1>6. /\ Paid(payout'[o], payout[o], pay) /\ collected' = collected
      /\ \A p \in OrderIds \ {o} : payout'[p] = payout[p]
  BY <1>1, <1>4, CreditEffect
<1>7. Total(payout'[o]) = Total(payout[o]) + v /\ Total(payout[o]) \in Nat
  BY <1>2, <1>4, <1>6, PaidTotal, TotalType
<1>8. PartPaid(o)
  BY <1>1, <1>2, <1>3, <1>5, <1>6, <1>7 DEF PartPaid
<1> QED
  BY <1>5, <1>6, <1>8 DEF Moves

LEMMA MarkDisputedMoves ==
    ASSUME IInv, NEW o \in OrderIds, MarkDisputed(o)
    PROVE  Moves(o)
<1> DEFINE q == [orders[o] EXCEPT !.status = "Disputed"]
<1>1. /\ TypeOK /\ orders[o].status \in Disputable /\ orders' = [orders EXCEPT ![o] = q]
      /\ payout' = payout /\ collected' = collected
  BY DEF MarkDisputed, IInv, MayDispute
<1>2. SameParties(q, orders[o]) /\ SameDeal(q, orders[o]) /\ q.status = "Disputed"
  BY <1>1, SoundTypes, DisputedTerms
<1> HIDE DEF q
<1>3. orders'[o] = q /\ \A p \in OrderIds \ {o} : orders'[p] = orders[p]
  BY <1>1, Updated
<1>4. Contested(o)
  BY <1>1, <1>2, <1>3 DEF Contested
<1> QED
  BY <1>1, <1>3, <1>4 DEF Moves

\* The rest of the protocol moves no order.
LEMMA RestRests ==
    ASSUME Owner \/ Tick \/ Switch \/ Registries \/ UNCHANGED vars
           \/ \E o \in OrderIds : Bidding(o)
    PROVE  Rests
<1>1. CASE Owner
  <2>1. ledger' = ledger
    <3>1. ASSUME NEW fee, NEW comp, NEW w, SetParams(fee, comp, w) PROVE ledger' = ledger
      BY <3>1 DEF SetParams
    <3>2. ASSUME NEW bps, SetRelayRebateBps(bps) PROVE ledger' = ledger
      BY <3>2 DEF SetRelayRebateBps
    <3>3. ASSUME NEW token, NEW fee, SetRelayServiceFee(token, fee) PROVE ledger' = ledger
      BY <3>3 DEF SetRelayServiceFee
    <3>4. ASSUME NEW token, NEW b, SetAcceptedToken(token, b) PROVE ledger' = ledger
      BY <3>4 DEF SetAcceptedToken
    <3> QED
      BY <1>1, <3>1, <3>2, <3>3, <3>4 DEF Owner
  <2> QED
    BY <2>1 DEF ledger, Rests
<1>2. CASE Tick \/ Switch \/ Registries \/ UNCHANGED vars
  BY <1>2 DEF Tick, Switch, Registries, vars, ledger, Rests
<1>3. CASE \E o \in OrderIds : Bidding(o)
  BY <1>3 DEF Bidding, CommitBid, RevokeBid, ledger, Rests
<1> QED
  BY <1>1, <1>2, <1>3

LEMMA NextMoves ==
    ASSUME IInv, [Next]_vars
    PROVE  Rests \/ \E o \in OrderIds : Moves(o)
<1>1. ASSUME NEW c \in Customers, Customer(c) PROVE \E o \in OrderIds : Moves(o)
  BY <1>1, CreateOrderMoves, IncreaseTipMoves, AcceptSealedBidMoves, ClosingMoves
     DEF Customer
<1>2. ASSUME NEW o \in OrderIds, Callback(o) PROVE Moves(o)
  BY <1>2, PickupMoves, DropoffMoves, MarkDisputedMoves, ClosingMoves DEF Callback
<1>3. ASSUME NEW o \in OrderIds, NEW d \in Drivers, AbandonOrder(d, o) PROVE Moves(o)
  BY <1>3, ClosingMoves
<1>4. CASE Owner \/ Tick \/ Switch \/ Registries \/ UNCHANGED vars
           \/ \E o \in OrderIds : Bidding(o)
  BY <1>4, RestRests
<1> QED
  BY <1>1, <1>2, <1>3, <1>4 DEF Next

-----------------------------------------------------------------------------
(* Lifecycle and terms.                                                    *)

LEMMA StepIsLegal ==
    ASSUME IInv, [Next]_vars
    PROVE  \A o \in OrderIds : LegalStep(o)
<1>1. CASE Rests
  BY <1>1 DEF Rests, LegalStep
<1>2. ASSUME NEW o \in OrderIds, Moves(o) PROVE \A p \in OrderIds : LegalStep(p)
  <2>1. \A p \in OrderIds \ {o} : LegalStep(p)
    BY <1>2 DEF Moves, LegalStep
  <2>2. ASSUME Opened(o) \/ PartPaid(o) \/ Ended(o) PROVE LegalStep(o)
    <3>1. Endings \subseteq Lifecycle
      BY DEF Endings, Lifecycle
    <3>2. <<"None", "Open">> \in Lifecycle /\ <<"Assigned", "PickedUp">> \in Lifecycle
      BY DEF Lifecycle
    <3>3. <<orders[o].status, orders'[o].status>> \in Lifecycle
      BY <2>2, <3>1, <3>2 DEF Opened, PartPaid, Ended
    <3> QED
      BY <3>3 DEF LegalStep
  <2>3. ASSUME Contested(o) PROVE LegalStep(o)
    <3>1. <<"Assigned", "Disputed">> \in Lifecycle /\ <<"PickedUp", "Disputed">> \in Lifecycle
      BY DEF Lifecycle
    <3>2. <<orders[o].status, orders'[o].status>> \in Lifecycle
      BY <2>3, <3>1 DEF Contested, Disputable
    <3> QED
      BY <3>2 DEF LegalStep
  <2>4. ASSUME Deposited(o) PROVE LegalStep(o)
    <3>1. CASE orders[o].status \in Tippable /\ orders'[o].status = orders[o].status
      BY <2>4, <3>1 DEF Deposited, Tippable, LegalStep
    <3>2. CASE orders[o].status = "Open" /\ orders'[o].status = "Assigned"
      <4>1. <<"Open", "Assigned">> \in Lifecycle
        BY DEF Lifecycle
      <4> QED
        BY <3>2, <4>1 DEF LegalStep
    <3> QED
      BY <2>4, <3>1, <3>2 DEF Deposited
  <2>5. LegalStep(o)
    BY <1>2, <2>2, <2>3, <2>4 DEF Moves
  <2> QED
    BY <2>1, <2>5
<1> QED
  BY <1>1, <1>2, NextMoves

\* The lifecycle in the contract's header, for any number of orders and any
\* amounts: no order skips a status or leaves an end, and one that has ended
\* pays nobody again.
THEOREM LifecycleHolds == Spec => LegalTransitions
<1>1. IInv /\ [Next]_vars => [\A o \in OrderIds : LegalStep(o)]_<<orders, payout>>
  BY StepIsLegal
<1> QED
  BY <1>1, Inductive, PTL DEF Spec, LegalTransitions

\* What the parties agreed on stays: once opened an order keeps its customer,
\* asset and relay fee, once assigned its driver and fare, whatever the owner
\* changes meanwhile.
THEOREM TermsHold == Spec => TermsFixed
<1> DEFINE Fixed == \A o \in OrderIds : orders[o].status # "None" =>
         /\ orders'[o].customer = orders[o].customer
         /\ orders'[o].token = orders[o].token
         /\ orders'[o].serviceFee = orders[o].serviceFee
         /\ orders[o].fare > 0 => /\ orders'[o].fare = orders[o].fare
                                  /\ orders'[o].driver = orders[o].driver
<1>1. ASSUME IInv, [Next]_vars PROVE Fixed
  <2>1. CASE Rests
    BY <2>1 DEF Rests
  <2>2. ASSUME NEW o \in OrderIds, Moves(o) PROVE Fixed
    <3>1. \A p \in OrderIds \ {o} : orders'[p] = orders[p]
      BY <2>2 DEF Moves
    <3>2. CASE Opened(o)
      BY <3>1, <3>2 DEF Opened
    <3>3. CASE Deposited(o)
      BY <3>1, <3>3 DEF Deposited, SameParties, SameDeal
    <3>4. CASE PartPaid(o) \/ Contested(o) \/ Ended(o)
      BY <3>1, <3>4 DEF PartPaid, Contested, Ended, SameParties, SameDeal
    <3> QED
      BY <2>2, <3>2, <3>3, <3>4 DEF Moves
  <2> QED
    BY <1>1, <2>1, <2>2, NextMoves
<1>2. IInv /\ [Next]_vars => [Fixed]_orders
  BY <1>1
<1> QED
  BY <1>2, Inductive, PTL DEF Spec, TermsFixed

-----------------------------------------------------------------------------
(* Each order is a pot of EscrowContract.                                  *)

\* The variables of the pot.
PhaseOf == [o \in OrderIds |-> Phase(orders[o].status)]
ReleasedOf == [o \in OrderIds |-> Total(payout[o])]

Live == {"Open", "Assigned", "PickedUp", "Disputed"}

LEMMA Phases ==
    /\ Phase("None") = "none"
    /\ \A st \in Live : Phase(st) = "live"
    /\ \A st \in {"Delivered", "Cancelled", "Resolved"} : Phase(st) = "closed"
BY DEF Phase, Live

LEMMA PotMoves ==
    ASSUME TypeOK, TypeOK', NEW o \in OrderIds, Moves(o)
    PROVE  /\ PhaseOf' = [PhaseOf EXCEPT ![o] = Phase(orders'[o].status)]
           /\ ReleasedOf' = [ReleasedOf EXCEPT ![o] = Total(payout'[o])]
           /\ collected' = [collected EXCEPT ![o] = collected'[o]]
           /\ PhaseOf[o] = Phase(orders[o].status) /\ ReleasedOf[o] = Total(payout[o])
           /\ PhaseOf'[o] = Phase(orders'[o].status) /\ ReleasedOf'[o] = Total(payout'[o])
           /\ collected[o] \in Nat /\ collected'[o] \in Nat
<1>1. \A p \in OrderIds \ {o} :
         orders'[p] = orders[p] /\ payout'[p] = payout[p] /\ collected'[p] = collected[p]
  BY DEF Moves
<1>2. PhaseOf' = [PhaseOf EXCEPT ![o] = Phase(orders'[o].status)]
  BY <1>1 DEF PhaseOf
<1>3. ReleasedOf' = [ReleasedOf EXCEPT ![o] = Total(payout'[o])]
  BY <1>1 DEF ReleasedOf
<1>4. collected \in [OrderIds -> Nat] /\ collected' \in [OrderIds -> Nat]
  BY DEF TypeOK, LedgerType
<1>5. collected' = [collected EXCEPT ![o] = collected'[o]]
  BY <1>1, <1>4
<1> QED
  BY <1>2, <1>3, <1>4, <1>5 DEF PhaseOf, ReleasedOf

LEMMA PotStep ==
    ASSUME IInv, IInv', NEW o \in OrderIds, Moves(o)
    PROVE  \/ Escrow!Open(o) \/ Escrow!Deposit(o) \/ Escrow!Release(o) \/ Escrow!Close(o)
           \/ UNCHANGED Escrow!pot
<1>1. TypeOK /\ TypeOK'
  BY DEF IInv
<1>2. /\ PhaseOf' = [PhaseOf EXCEPT ![o] = Phase(orders'[o].status)]
      /\ ReleasedOf' = [ReleasedOf EXCEPT ![o] = Total(payout'[o])]
      /\ collected' = [collected EXCEPT ![o] = collected'[o]]
      /\ PhaseOf[o] = Phase(orders[o].status) /\ ReleasedOf[o] = Total(payout[o])
      /\ PhaseOf'[o] = Phase(orders'[o].status) /\ ReleasedOf'[o] = Total(payout'[o])
      /\ collected[o] \in Nat /\ collected'[o] \in Nat
  BY <1>1, PotMoves
<1>3. /\ collected'[o] = orders'[o].escrow + Total(payout'[o])
      /\ orders'[o].status \in {"Delivered", "Cancelled", "Resolved"} => orders'[o].escrow = 0
      /\ orders'[o].escrow \in Nat /\ Total(payout'[o]) \in Nat
  <2>1. orders'[o] \in Order /\ payout'[o] \in [Roles -> Nat]
    BY <1>1 DEF TypeOK, LedgerType
  <2>2. Sound(orders'[o], payout'[o], collected'[o])
    BY DEF IInv, SoundAt
  <2> QED
    BY <2>1, <2>2, OrderAmounts, TotalType DEF Sound
<1>4. PhaseOf = [PhaseOf EXCEPT ![o] = PhaseOf[o]]
      /\ ReleasedOf = [ReleasedOf EXCEPT ![o] = ReleasedOf[o]]
      /\ collected = [collected EXCEPT ![o] = collected[o]]
  BY <1>1 DEF PhaseOf, ReleasedOf, TypeOK, LedgerType
<1>5. CASE Opened(o)
  <2>1. Phase(orders[o].status) = "none" /\ Phase(orders'[o].status) = "live"
        /\ payout'[o] = payout[o]
    BY <1>5, Phases DEF Opened, Live
  <2>2. Escrow!Open(o)
    BY <2>1, <1>2, <1>4 DEF Escrow!Open, PhaseOf, ReleasedOf
  <2> QED
    BY <2>2
<1>6. CASE Deposited(o)
  <2>1. Phase(orders[o].status) = "live" /\ Phase(orders'[o].status) = "live"
        /\ payout'[o] = payout[o] /\ collected[o] < collected'[o]
    BY <1>6, Phases DEF Deposited, Live, Tippable
  <2>2. Escrow!Deposit(o)
    BY <2>1, <1>2, <1>4 DEF Escrow!Deposit, PhaseOf, ReleasedOf
  <2> QED
    BY <2>2
<1>7. CASE PartPaid(o)
  <2>1. Phase(orders[o].status) = "live" /\ Phase(orders'[o].status) = "live"
        /\ collected'[o] = collected[o] /\ Total(payout[o]) <= Total(payout'[o])
    BY <1>7, Phases DEF PartPaid, Live
  <2>2. CASE Total(payout[o]) = Total(payout'[o])
    BY <2>1, <2>2, <1>2, <1>4 DEF Escrow!pot, PhaseOf, ReleasedOf
  <2>3. CASE Total(payout[o]) # Total(payout'[o])
    <3>1. Total(payout[o]) < Total(payout'[o]) /\ Total(payout'[o]) <= collected[o]
      <4>1. Total(payout[o]) \in Nat
        BY <1>1, SoundTypes, TotalType
      <4> QED
        BY <4>1, <2>1, <2>3, <1>3
    <3>2. Escrow!Release(o)
      BY <2>1, <3>1, <1>2, <1>4 DEF Escrow!Release, PhaseOf, ReleasedOf
    <3> QED
      BY <3>2
  <2> QED
    BY <2>2, <2>3
<1>8. CASE Contested(o)
  <2>1. Phase(orders[o].status) = "live" /\ Phase(orders'[o].status) = "live"
        /\ collected'[o] = collected[o] /\ payout'[o] = payout[o]
    BY <1>8, Phases DEF Contested, Live, Disputable
  <2> QED
    BY <2>1, <1>2, <1>4 DEF Escrow!pot, PhaseOf, ReleasedOf
<1>9. CASE Ended(o)
  <2>1. orders'[o].status \in {"Delivered", "Cancelled", "Resolved"} /\ orders[o].status \in Live
        /\ collected'[o] = collected[o]
    BY <1>9 DEF Ended, Endings, Live
  <2>2. Phase(orders[o].status) = "live" /\ Phase(orders'[o].status) = "closed"
    BY <2>1, Phases
  <2>3. Total(payout'[o]) = collected[o]
    BY <2>1, <1>3
  <2>4. Escrow!Close(o)
    BY <2>1, <2>2, <2>3, <1>2, <1>4 DEF Escrow!Close, PhaseOf, ReleasedOf
  <2> QED
    BY <2>4
<1> QED
  BY <1>5, <1>6, <1>7, <1>8, <1>9 DEF Moves

\* Every order keeps the promise of an escrow, for any number of orders, any
\* amounts and fees: opened once, never overdrawn, emptied when it closes and
\* never reopened.
THEOREM OrdersKeepEscrow == Spec => EscrowSpec
<1>1. Init => Escrow!Init
  BY Phases DEF Init, Escrow!Init, EmptyOrder, NoPay, Roles, Total
<1>2. IInv /\ IInv' /\ [Next]_vars => [Escrow!Next]_(Escrow!pot)
  <2> SUFFICES ASSUME IInv, IInv', [Next]_vars PROVE [Escrow!Next]_(Escrow!pot)
    OBVIOUS
  <2>1. CASE Rests
    BY <2>1 DEF Rests, Escrow!pot
  <2>2. ASSUME NEW o \in OrderIds, Moves(o) PROVE [Escrow!Next]_(Escrow!pot)
    BY <2>2, PotStep DEF Escrow!Next
  <2> QED
    BY <2>1, <2>2, NextMoves
<1> QED
  BY <1>1, <1>2, Inductive, PTL DEF Spec, EscrowSpec, Escrow!Spec

-----------------------------------------------------------------------------
(* IV.  History.                                                           *)

-----------------------------------------------------------------------------
(* The assignment is the bid.                                              *)

CommittedBids(o) == {h \in BidHashes : sealedBid[o][h].exists}

\* Order r of id o is dealt as one of these bids, under its ceiling.
DealIn(r, bids) ==
    /\ r.fare <= r.maxFare
    /\ \E salt \in Salts : <<r.driver, r.fare, salt>> \in bids

BidInv ==
    /\ \A o \in OrderIds : orders[o].fare > 0 => DealIn(orders[o], CommittedBids(o))
    /\ \A o \in OrderIds : /\ IsFiniteSet(CommittedBids(o))
                           /\ sealedBidCount[o] = Cardinality(CommittedBids(o))

LEMMA BidInvImplies == BidInv => AssignedByBid
BY DEF BidInv, DealIn, AssignedByBid, CommittedBids

LEMMA InitBidInv == Init => BidInv
<1> SUFFICES ASSUME Init PROVE BidInv
  OBVIOUS
<1>1. \A o \in OrderIds : /\ orders[o].fare = 0 /\ sealedBidCount[o] = 0
                          /\ \A h \in BidHashes : ~sealedBid[o][h].exists
  BY DEF Init, EmptyOrder, NoBid
<1>2. \A o \in OrderIds : CommittedBids(o) = {}
  BY <1>1 DEF CommittedBids
<1> QED
  BY <1>1, <1>2, FS_EmptySet DEF BidInv

\* What a step may do to the deal of an order.
SameCeiling(q, r) == SameDeal(q, r) /\ q.maxFare = r.maxFare

Dealt(o) ==
    \/ orders'[o].fare = 0
    \/ SameCeiling(orders'[o], orders[o])
    \/ DealIn(orders'[o], CommittedBids(o))

AllDealt == \A o \in OrderIds : Dealt(o)

LEMMA DealtIfSame == ASSUME UNCHANGED orders PROVE AllDealt
BY DEF AllDealt, Dealt, SameCeiling, SameDeal

LEMMA DealtIfOne ==
    ASSUME TypeOK, NEW o \in OrderIds, NEW q, orders' = [orders EXCEPT ![o] = q],
           q.fare = 0 \/ SameCeiling(q, orders[o]) \/ DealIn(q, CommittedBids(o))
    PROVE  AllDealt
<1>1. orders'[o] = q /\ \A p \in OrderIds \ {o} : orders'[p] = orders[p]
  BY Updated
<1>2. Dealt(o)
  BY <1>1 DEF Dealt
<1>3. \A p \in OrderIds \ {o} : Dealt(p)
  BY <1>1 DEF Dealt, SameCeiling, SameDeal
<1> QED
  BY <1>2, <1>3 DEF AllDealt

\* Every write but an assignment keeps the deal.
LEMMA WritesKeepDeal ==
    ASSUME NEW r \in Order, NEW v, NEW st
    PROVE  /\ SameCeiling(Closed(r, st), r)
           /\ SameCeiling(Released(r, v, st), r)
           /\ SameCeiling(ToppedUp(r, v), r)
           /\ SameCeiling([r EXCEPT !.status = "Disputed"], r)
BY DEF Closed, Released, ToppedUp, Order, SameCeiling, SameDeal

LEMMA KeepingDeal ==
    ASSUME TypeOK, NEW o \in OrderIds, NEW v, NEW st,
           \/ orders' = [orders EXCEPT ![o] = Closed(@, st)]
           \/ orders' = [orders EXCEPT ![o] = Released(@, v, st)]
           \/ orders' = [orders EXCEPT ![o] = ToppedUp(@, v)]
           \/ orders' = [orders EXCEPT ![o].status = "Disputed"]
    PROVE  AllDealt
<1> DEFINE r == orders[o]
<1>1. r \in Order /\ orders \in [OrderIds -> Order]
  BY DEF TypeOK, LedgerType
<1>2. ASSUME NEW q, orders' = [orders EXCEPT ![o] = q], SameCeiling(q, r) PROVE AllDealt
  BY <1>2, DealtIfOne
<1>3. /\ orders' = [orders EXCEPT ![o] = Closed(@, st)]
         => orders' = [orders EXCEPT ![o] = Closed(r, st)]
      /\ orders' = [orders EXCEPT ![o] = Released(@, v, st)]
         => orders' = [orders EXCEPT ![o] = Released(r, v, st)]
      /\ orders' = [orders EXCEPT ![o] = ToppedUp(@, v)]
         => orders' = [orders EXCEPT ![o] = ToppedUp(r, v)]
      /\ orders' = [orders EXCEPT ![o].status = "Disputed"]
         => orders' = [orders EXCEPT ![o] = [r EXCEPT !.status = "Disputed"]]
  BY <1>1
<1> HIDE DEF r
<1> QED
  BY <1>1, <1>2, <1>3, WritesKeepDeal

LEMMA CreateOrderDealt ==
    ASSUME TypeOK, NEW c, NEW token, NEW venue, NEW value, NEW tip, NEW maxFare, NEW window,
           CreateOrder(c, token, venue, value, tip, maxFare, window)
    PROVE  AllDealt
<1> DEFINE o == nextOrderId
           w == IF window = 0 THEN config.defaultPickupWindow ELSE window
           q == NewOrder(c, token, value, tip, maxFare, config.relayServiceFee[token], w)
<1>1. o \in OrderIds /\ orders' = [orders EXCEPT ![o] = q]
  BY DEF CreateOrder
<1>2. q.fare = 0
  BY DEF NewOrder
<1> HIDE DEF q
<1> QED
  BY <1>1, <1>2, DealtIfOne

LEMMA AcceptSealedBidDealt ==
    ASSUME TypeOK, NEW c, NEW o \in OrderIds, NEW d \in Drivers, NEW amount \in Fares,
           NEW salt \in Salts, AcceptSealedBid(c, o, d, amount, salt)
    PROVE  AllDealt
<1> DEFINE r == orders[o]
           q == Assigned(r, d, amount)
<1>1. /\ orders' = [orders EXCEPT ![o] = q] /\ r \in Order
      /\ amount <= r.maxFare /\ sealedBid[o][<<d, amount, salt>>].exists
  BY DEF AcceptSealedBid, Acceptable, TypeOK, LedgerType
<1>2. q.driver = d /\ q.fare = amount /\ q.maxFare = r.maxFare
  BY <1>1 DEF Assigned, Order
<1> HIDE DEF q
<1>3. <<d, amount, salt>> \in CommittedBids(o)
  BY <1>1 DEF CommittedBids, BidHashes
<1>4. DealIn(q, CommittedBids(o))
  BY <1>1, <1>2, <1>3 DEF DealIn
<1> QED
  BY <1>1, <1>4, DealtIfOne

LEMMA CustomerDealt ==
    ASSUME TypeOK, NEW c \in Customers, Customer(c)
    PROVE  AllDealt
<1>1. ASSUME NEW o \in OrderIds, NEW v \in Tips, IncreaseTip(c, o, v) PROVE AllDealt
  <2>1. orders' = [orders EXCEPT ![o] = ToppedUp(@, U96(v))]
    BY <1>1 DEF IncreaseTip
  <2> QED
    BY <2>1, KeepingDeal
<1>2. ASSUME NEW o \in OrderIds, CancelOpen(c, o) \/ CancelAssigned(c, o) PROVE AllDealt
  <2>1. orders' = [orders EXCEPT ![o] = Closed(@, "Cancelled")]
    BY <1>2 DEF CancelOpen, CancelAssigned,
       MayCancelOpen, Refund, MayCancelAssigned, Compensated
  <2> QED
    BY <2>1, KeepingDeal
<1> QED
  BY <1>1, <1>2, CreateOrderDealt, AcceptSealedBidDealt DEF Customer

LEMMA CallbackDealt ==
    ASSUME TypeOK, NEW o \in OrderIds, Callback(o) \/ \E d \in Drivers : AbandonOrder(d, o)
    PROVE  AllDealt
<1>1. ASSUME NEW d, AbandonOrder(d, o) PROVE AllDealt
  <2>1. orders' = [orders EXCEPT ![o] = Closed(@, "Cancelled")]
    BY <1>1 DEF AbandonOrder, MayAbandonOrder, Refund
  <2> QED
    BY <2>1, KeepingDeal
<1>2. ASSUME NEW r, OnPickupConfirmed(o) \/ OnDropoffConfirmed(o, r) PROVE AllDealt
  <2>1. \E v, st : orders' = [orders EXCEPT ![o] = Released(@, v, st)]
    BY <1>2 DEF OnPickupConfirmed, OnDropoffConfirmed,
       MayConfirmPickup, PickupPay, MayConfirmDropoff, DropoffRelease
  <2> QED
    BY <2>1, KeepingDeal
<1>3. ASSUME MarkDisputed(o) PROVE AllDealt
  <2>1. orders' = [orders EXCEPT ![o].status = "Disputed"]
    BY <1>3 DEF MarkDisputed, MayDispute
  <2> QED
    BY <2>1, KeepingDeal
<1>4. ASSUME NEW bps, NEW atFault, ResolveDisputed(o, bps, atFault) PROVE AllDealt
  <2>1. orders' = [orders EXCEPT ![o] = Closed(@, "Resolved")]
    BY <1>4 DEF ResolveDisputed, MayResolve, Split
  <2> QED
    BY <2>1, KeepingDeal
<1>5. ASSUME OnPickupConfirmed(o) PROVE AllDealt
  BY <1>2, <1>5
<1> QED
  BY <1>1, <1>2, <1>3, <1>4, <1>5 DEF Callback

LEMMA NextDealt ==
    ASSUME TypeOK, [Next]_vars
    PROVE  AllDealt
<1>1. ASSUME Rests PROVE AllDealt
  BY <1>1, DealtIfSame DEF Rests
<1> QED
  BY <1>1, RestRests, CustomerDealt, CallbackDealt DEF Next

-----------------------------------------------------------------------------
\* The book of bids: one is added and counted, or the sets stay.
BookStep ==
    \/ \A o \in OrderIds : /\ CommittedBids(o)' = CommittedBids(o)
                           /\ sealedBidCount'[o] = sealedBidCount[o]
    \/ \E o \in OrderIds, h \in BidHashes :
          /\ h \notin CommittedBids(o)
          /\ CommittedBids(o)' = CommittedBids(o) \cup {h}
          /\ sealedBidCount'[o] = sealedBidCount[o] + 1
          /\ \A p \in OrderIds \ {o} : /\ CommittedBids(p)' = CommittedBids(p)
                                       /\ sealedBidCount'[p] = sealedBidCount[p]

LEMMA SameBook == ASSUME UNCHANGED <<sealedBid, sealedBidCount>> PROVE BookStep
BY DEF BookStep, CommittedBids

LEMMA CommitBidBook ==
    ASSUME TypeOK, NEW o \in OrderIds, NEW h \in BidHashes, NEW s, CommitBid(o, h, s)
    PROVE  BookStep
<1> DEFINE b == [exists |-> TRUE, revoked |-> FALSE, revokeHash |-> s]
<1>1. /\ sealedBid \in [OrderIds -> [BidHashes -> Bid]]
      /\ sealedBidCount \in [OrderIds -> 0..MAX_SEALED_BIDS]
  BY DEF TypeOK, BookType
<1>2. /\ ~sealedBid[o][h].exists
      /\ sealedBid' = [sealedBid EXCEPT ![o][h] = b]
      /\ sealedBidCount' = [sealedBidCount EXCEPT ![o] = @ + 1]
  BY DEF CommitBid
<1>3. b.exists = TRUE
  OBVIOUS
<1> HIDE DEF b
<1>4. /\ sealedBid'[o] = [sealedBid[o] EXCEPT ![h] = b]
      /\ \A p \in OrderIds \ {o} : sealedBid'[p] = sealedBid[p]
  BY <1>1, <1>2
<1>5. sealedBid'[o][h] = b /\ \A g \in BidHashes \ {h} : sealedBid'[o][g] = sealedBid[o][g]
  BY <1>1, <1>4
<1>6. h \notin CommittedBids(o) /\ CommittedBids(o)' = CommittedBids(o) \cup {h}
  BY <1>2, <1>3, <1>5 DEF CommittedBids
<1>7. \A p \in OrderIds \ {o} : CommittedBids(p)' = CommittedBids(p)
  BY <1>4 DEF CommittedBids
<1>8. /\ sealedBidCount'[o] = sealedBidCount[o] + 1
      /\ \A p \in OrderIds \ {o} : sealedBidCount'[p] = sealedBidCount[p]
  BY <1>1, <1>2
<1> QED
  BY <1>6, <1>7, <1>8 DEF BookStep

LEMMA RevokeBidBook ==
    ASSUME TypeOK, NEW o \in OrderIds, NEW h \in BidHashes, NEW s, RevokeBid(o, h, s)
    PROVE  BookStep
<1> DEFINE b == Revoked(sealedBid[o][h])
<1>1. sealedBid \in [OrderIds -> [BidHashes -> Bid]] /\ sealedBid[o][h] \in Bid
  BY DEF TypeOK, BookType
<1>2. /\ sealedBid' = [sealedBid EXCEPT ![o][h] = b]
      /\ sealedBidCount' = sealedBidCount
  BY <1>1 DEF RevokeBid
<1>3. b.exists = sealedBid[o][h].exists
  BY <1>1 DEF Revoked, Bid
<1> HIDE DEF b
<1>4. \A p \in OrderIds : \A g \in BidHashes :
         sealedBid'[p][g].exists = sealedBid[p][g].exists
  <2>1. /\ sealedBid'[o] = [sealedBid[o] EXCEPT ![h] = b]
        /\ \A p \in OrderIds \ {o} : sealedBid'[p] = sealedBid[p]
    BY <1>1, <1>2
  <2>2. sealedBid'[o][h] = b /\ \A g \in BidHashes \ {h} : sealedBid'[o][g] = sealedBid[o][g]
    BY <1>1, <2>1
  <2> QED
    BY <1>3, <2>1, <2>2
<1>5. \A p \in OrderIds : CommittedBids(p)' = CommittedBids(p)
  BY <1>4 DEF CommittedBids
<1> QED
  BY <1>2, <1>5 DEF BookStep

LEMMA NextBook ==
    ASSUME TypeOK, [Next]_vars
    PROVE  BookStep
<1> DEFINE Same == UNCHANGED <<sealedBid, sealedBidCount>>
<1>1. ASSUME NEW c \in Customers, Customer(c) PROVE Same
  BY <1>1 DEF Customer, CreateOrder, IncreaseTip, CancelOpen, CancelAssigned,
              AcceptSealedBid, book, MayCancelOpen, Refund, MayCancelAssigned, Compensated
<1>2. ASSUME NEW o \in OrderIds, Callback(o) PROVE Same
  BY <1>2 DEF Callback, OnPickupConfirmed, OnDropoffConfirmed, MarkDisputed,
              ResolveDisputed, book,
              MayConfirmPickup, PickupPay, MayConfirmDropoff, DropoffRelease, MayDispute, MayResolve, Split
<1>3. ASSUME NEW o \in OrderIds, NEW d \in Drivers, AbandonOrder(d, o) PROVE Same
  BY <1>3 DEF AbandonOrder, book, MayAbandonOrder, Refund
<1>4. ASSUME Owner PROVE Same
  <2>1. ASSUME NEW fee, NEW comp, NEW w, SetParams(fee, comp, w) PROVE Same
    BY <2>1 DEF SetParams, book
  <2>2. ASSUME NEW bps, SetRelayRebateBps(bps) PROVE Same
    BY <2>2 DEF SetRelayRebateBps, book
  <2>3. ASSUME NEW token, NEW fee, SetRelayServiceFee(token, fee) PROVE Same
    BY <2>3 DEF SetRelayServiceFee, book
  <2>4. ASSUME NEW token, NEW b, SetAcceptedToken(token, b) PROVE Same
    BY <2>4 DEF SetAcceptedToken, book
  <2> QED
    BY <1>4, <2>1, <2>2, <2>3, <2>4 DEF Owner
<1>5. ASSUME Tick \/ Switch \/ Registries \/ UNCHANGED vars PROVE Same
  BY <1>5 DEF Tick, Switch, Registries, vars, book
<1>6. ASSUME NEW o \in OrderIds, Bidding(o) PROVE BookStep
  BY <1>6, CommitBidBook, RevokeBidBook DEF Bidding
<1>7. ASSUME Same PROVE BookStep
  BY <1>7, SameBook
<1> HIDE DEF Same
<1> QED
  BY <1>1, <1>2, <1>3, <1>4, <1>5, <1>6, <1>7 DEF Next

LEMMA NextBidInv == TypeOK /\ BidInv /\ [Next]_vars => BidInv'
<1> SUFFICES ASSUME TypeOK, BidInv, [Next]_vars PROVE BidInv'
  OBVIOUS
<1>1. AllDealt /\ BookStep
  BY NextDealt, NextBook
<1>2. \A o \in OrderIds : CommittedBids(o) \subseteq CommittedBids(o)'
  BY <1>1 DEF BookStep
<1>3. ASSUME NEW o \in OrderIds, orders'[o].fare > 0
      PROVE  DealIn(orders'[o], CommittedBids(o)')
  <2>1. CASE orders'[o].fare = 0
    BY <1>3, <2>1
  <2>2. CASE SameCeiling(orders'[o], orders[o])
    BY <1>2, <1>3, <2>2 DEF SameCeiling, SameDeal, BidInv, DealIn
  <2>3. CASE DealIn(orders'[o], CommittedBids(o))
    BY <1>2, <2>3 DEF DealIn
  <2> QED
    BY <1>1, <2>1, <2>2, <2>3 DEF AllDealt, Dealt
<1>4. ASSUME NEW o \in OrderIds
      PROVE  /\ IsFiniteSet(CommittedBids(o)')
             /\ sealedBidCount'[o] = Cardinality(CommittedBids(o)')
  <2>1. /\ IsFiniteSet(CommittedBids(o)) /\ sealedBidCount[o] = Cardinality(CommittedBids(o))
    BY DEF BidInv
  <2>2. \/ CommittedBids(o)' = CommittedBids(o) /\ sealedBidCount'[o] = sealedBidCount[o]
        \/ \E h : /\ h \notin CommittedBids(o)
                  /\ CommittedBids(o)' = CommittedBids(o) \cup {h}
                  /\ sealedBidCount'[o] = sealedBidCount[o] + 1
    BY <1>1 DEF BookStep
  <2> QED
    BY <2>1, <2>2, FS_AddElement
<1> QED
  BY <1>3, <1>4 DEF BidInv

\* Who works on an order and for how much is what was bid: no owner, dispute
\* or revocation puts a driver or a fare there that was not committed, and the
\* cap on bids counts every one, for any number of bids.
THEOREM AssignmentsAreBids == Spec => []AssignedByBid
<1> QED
  BY TypeCorrect, InitBidInv, NextBidInv, BidInvImplies, PTL DEF Spec

-----------------------------------------------------------------------------
(* Reputation is the history of the orders.                                *)

DeliveredBy(d) == {o \in OrderIds : orders[o].driver = d /\ orders[o].status = "Delivered"}

\* The orders of d that may have cost a strike.
StrikeAt(o) ==
    \/ orders[o].status = "Resolved"
    \/ orders[o].status = "Cancelled" /\ payout[o]["driver"] = 0
StrikesOf(d) == {o \in OrderIds : orders[o].driver = d /\ StrikeAt(o)}

RepInv ==
    \A d \in Drivers : /\ record[d].delivered = Cardinality(DeliveredBy(d))
                       /\ record[d].failed <= Cardinality(StrikesOf(d))

LEMMA RepInvImplies == RepInv => ReputationMatchesOutcomes
<1>1. \A d : StrikesOf(d) =
         {o \in OrderIds : orders[o].driver = d /\ orders[o].status = "Resolved"} \cup
         {o \in {p \in OrderIds : orders[p].driver = d /\ orders[p].status = "Cancelled"} :
             payout[o]["driver"] = 0}
  BY DEF StrikesOf, StrikeAt
<1> QED
  BY <1>1 DEF RepInv, ReputationMatchesOutcomes, DeliveredBy

LEMMA OrdersFinite ==
    ASSUME NEW S \in SUBSET OrderIds
    PROVE  IsFiniteSet(S) /\ Cardinality(S) \in Nat
<1>1. IsFiniteSet(1..MaxOrders)
  BY BoundsAssumption, FS_Interval
<1>2. IsFiniteSet(OrderIds)
  BY <1>1 DEF OrderIds
<1>3. IsFiniteSet(S)
  BY <1>2, FS_Subset
<1> QED
  BY <1>3, FS_CardinalityType

LEMMA InitRepInv == Init => RepInv
<1> SUFFICES ASSUME Init PROVE RepInv
  OBVIOUS
<1>1. \A o \in OrderIds : orders[o].status = "None"
  BY DEF Init, EmptyOrder
<1>2. \A d : DeliveredBy(d) = {} /\ StrikesOf(d) = {}
  BY <1>1 DEF DeliveredBy, StrikesOf, StrikeAt
<1>3. \A d \in Drivers : record[d].delivered = 0 /\ record[d].failed = 0
  BY DEF Init
<1> QED
  BY <1>2, <1>3, FS_EmptySet DEF RepInv

\* The three kinds of step: a delivery, a strike, and all the others.
Delivers(o) ==
    /\ orders[o].status # "Delivered" /\ orders'[o].status = "Delivered"
    /\ orders'[o].driver = orders[o].driver /\ recordDelivered(orders[o].driver)

Strikes(o) ==
    /\ orders[o].status \in {"Assigned", "Disputed"} /\ StrikeAt(o)'
    /\ orders'[o].driver = orders[o].driver /\ recordFailed(orders[o].driver)

NoneDelivered(O) ==
    \A o \in O : orders'[o].status = "Delivered" => orders'[o] = orders[o]

\* An order at its end is not written again.
Ends == {"Delivered", "Cancelled", "Resolved"}

LEMMA EndsFinal ==
    ASSUME IInv, [Next]_vars
    PROVE  \A o \in OrderIds : orders[o].status \in Ends =>
              orders'[o] = orders[o] /\ payout'[o] = payout[o]
<1>1. ASSUME NEW o \in OrderIds, Moves(o) PROVE orders[o].status \notin Ends
  BY <1>1 DEF Moves, Opened, Deposited, PartPaid, Contested, Ended, Ends, Endings,
              Tippable, Disputable
<1> QED
  BY <1>1, NextMoves DEF Moves, Rests

LEMMA SetsGrow ==
    ASSUME IInv, [Next]_vars, NEW d
    PROVE  DeliveredBy(d) \subseteq DeliveredBy(d)' /\ StrikesOf(d) \subseteq StrikesOf(d)'
BY EndsFinal DEF Ends, DeliveredBy, StrikesOf, StrikeAt

\* What each kind of step does to the counts.
LEMMA SparingKeeps ==
    ASSUME IInv, RepInv, [Next]_vars, record' = record, NoneDelivered(OrderIds)
    PROVE  RepInv'
<1> SUFFICES ASSUME NEW d \in Drivers
             PROVE  /\ record'[d].delivered = Cardinality(DeliveredBy(d)')
                    /\ record'[d].failed <= Cardinality(StrikesOf(d)')
  BY DEF RepInv
<1>1. DeliveredBy(d)' = DeliveredBy(d)
  BY SetsGrow DEF NoneDelivered, DeliveredBy
<1>2. /\ StrikesOf(d) \in SUBSET StrikesOf(d)'
      /\ StrikesOf(d)' \in SUBSET OrderIds /\ StrikesOf(d) \in SUBSET OrderIds
  BY SetsGrow DEF StrikesOf
<1>3. Cardinality(StrikesOf(d)) <= Cardinality(StrikesOf(d)')
  BY <1>2, OrdersFinite, FS_Subset
<1>4. record[d].failed \in Nat
  BY DEF IInv, TypeOK, RecordType
<1>5. Cardinality(StrikesOf(d)) \in Nat /\ Cardinality(StrikesOf(d)') \in Nat
  BY <1>2, OrdersFinite
<1>6. record[d].failed <= Cardinality(StrikesOf(d))
      /\ record[d].delivered = Cardinality(DeliveredBy(d))
  BY DEF RepInv
<1>7. record'[d].failed <= Cardinality(StrikesOf(d)')
  BY <1>3, <1>4, <1>5, <1>6
<1> QED
  BY <1>1, <1>6, <1>7

LEMMA RecordFields ==
    ASSUME TypeOK, NEW x, NEW d \in Drivers
    PROVE  /\ recordDelivered(x) =>
                 /\ record'[d].failed = record[d].failed
                 /\ record'[d].delivered = record[d].delivered + (IF d = x THEN 1 ELSE 0)
           /\ recordFailed(x) =>
                 /\ record'[d].delivered = record[d].delivered
                 /\ record'[d].failed = record[d].failed + (IF d = x THEN 1 ELSE 0)
<1> DEFINE r == record[d]
<1>1. record \in [Drivers -> [delivered : Nat, failed : Nat]]
  BY DEF TypeOK, RecordType
<1>2. r \in [delivered : Nat, failed : Nat]
  BY <1>1
<1>3. ASSUME recordDelivered(x)
      PROVE  /\ record'[d].failed = r.failed
             /\ record'[d].delivered = r.delivered + (IF d = x THEN 1 ELSE 0)
  <2>1. CASE d = x
    <3>1. record'[d] = [r EXCEPT !.delivered = r.delivered + 1]
      BY <1>1, <1>3, <2>1 DEF recordDelivered
    <3> QED
      BY <1>2, <2>1, <3>1
  <2>2. CASE d # x
    <3>1. record'[d] = r
      BY <1>1, <1>3, <2>2 DEF recordDelivered
    <3> QED
      BY <1>2, <2>2, <3>1
  <2> QED
    BY <2>1, <2>2
<1>4. ASSUME recordFailed(x)
      PROVE  /\ record'[d].delivered = r.delivered
             /\ record'[d].failed = r.failed + (IF d = x THEN 1 ELSE 0)
  <2>1. CASE d = x
    <3>1. record'[d] = [r EXCEPT !.failed = r.failed + 1]
      BY <1>1, <1>4, <2>1 DEF recordFailed
    <3> QED
      BY <1>2, <2>1, <3>1
  <2>2. CASE d # x
    <3>1. record'[d] = r
      BY <1>1, <1>4, <2>2 DEF recordFailed
    <3> QED
      BY <1>2, <2>2, <3>1
  <2> QED
    BY <2>1, <2>2
<1> QED
  BY <1>3, <1>4

LEMMA DeliveryKeeps ==
    ASSUME IInv, RepInv, [Next]_vars, NEW o \in OrderIds, Delivers(o),
           NoneDelivered(OrderIds \ {o})
    PROVE  RepInv'
<1> SUFFICES ASSUME NEW d \in Drivers
             PROVE  /\ record'[d].delivered = Cardinality(DeliveredBy(d)')
                    /\ record'[d].failed <= Cardinality(StrikesOf(d)')
  BY DEF RepInv
<1>0. TypeOK /\ record[d].failed \in Nat /\ record[d].delivered \in Nat
  BY DEF IInv, TypeOK, RecordType
<1>1. /\ record'[d].failed = record[d].failed
      /\ record'[d].delivered =
            record[d].delivered + (IF d = orders[o].driver THEN 1 ELSE 0)
  BY <1>0, RecordFields DEF Delivers
<1>2. DeliveredBy(d) \in SUBSET OrderIds /\ DeliveredBy(d) \subseteq DeliveredBy(d)'
  BY SetsGrow DEF DeliveredBy
<1>3. record[d].delivered = Cardinality(DeliveredBy(d))
      /\ record[d].failed <= Cardinality(StrikesOf(d))
  BY DEF RepInv
<1>4. record'[d].delivered = Cardinality(DeliveredBy(d)')
  <2>1. CASE d = orders[o].driver
    <3>1. DeliveredBy(d)' = DeliveredBy(d) \cup {o} /\ o \notin DeliveredBy(d)
      BY <1>2, <2>1 DEF DeliveredBy, Delivers, NoneDelivered
    <3> QED
      BY <1>1, <1>2, <1>3, <2>1, <3>1, OrdersFinite, FS_AddElement
  <2>2. CASE d # orders[o].driver
    <3>1. DeliveredBy(d)' = DeliveredBy(d)
      BY <1>2, <2>2 DEF DeliveredBy, Delivers, NoneDelivered
    <3> QED
      BY <1>0, <1>1, <1>3, <2>2, <3>1
  <2> QED
    BY <2>1, <2>2
<1>5. /\ StrikesOf(d) \in SUBSET StrikesOf(d)'
      /\ StrikesOf(d)' \in SUBSET OrderIds /\ StrikesOf(d) \in SUBSET OrderIds
  BY SetsGrow DEF StrikesOf
<1>6. /\ Cardinality(StrikesOf(d)) <= Cardinality(StrikesOf(d)')
      /\ Cardinality(StrikesOf(d)) \in Nat /\ Cardinality(StrikesOf(d)') \in Nat
  BY <1>5, OrdersFinite, FS_Subset
<1>7. record'[d].failed <= Cardinality(StrikesOf(d)')
  BY <1>0, <1>1, <1>3, <1>6
<1> QED
  BY <1>4, <1>7

LEMMA StrikeKeeps ==
    ASSUME IInv, RepInv, [Next]_vars, NEW o \in OrderIds, Strikes(o), NoneDelivered(OrderIds)
    PROVE  RepInv'
<1> SUFFICES ASSUME NEW d \in Drivers
             PROVE  /\ record'[d].delivered = Cardinality(DeliveredBy(d)')
                    /\ record'[d].failed <= Cardinality(StrikesOf(d)')
  BY DEF RepInv
<1>0. TypeOK /\ record[d].failed \in Nat /\ record[d].delivered \in Nat
  BY DEF IInv, TypeOK, RecordType
<1>1. /\ record'[d].delivered = record[d].delivered
      /\ record'[d].failed = record[d].failed + (IF d = orders[o].driver THEN 1 ELSE 0)
  BY <1>0, RecordFields DEF Strikes
<1>2. DeliveredBy(d)' = DeliveredBy(d)
  BY SetsGrow DEF NoneDelivered, DeliveredBy
<1>3. record[d].delivered = Cardinality(DeliveredBy(d))
      /\ record[d].failed <= Cardinality(StrikesOf(d))
  BY DEF RepInv
<1>4. /\ StrikesOf(d) \in SUBSET StrikesOf(d)'
      /\ StrikesOf(d)' \in SUBSET OrderIds /\ StrikesOf(d) \in SUBSET OrderIds
  BY SetsGrow DEF StrikesOf
<1>5. /\ Cardinality(StrikesOf(d)) <= Cardinality(StrikesOf(d)')
      /\ Cardinality(StrikesOf(d)) \in Nat /\ Cardinality(StrikesOf(d)') \in Nat
      /\ IsFiniteSet(StrikesOf(d)) /\ IsFiniteSet(StrikesOf(d)')
  BY <1>4, OrdersFinite, FS_Subset
<1>6. record'[d].failed <= Cardinality(StrikesOf(d)')
  <2>1. CASE d = orders[o].driver
    <3>1. o \notin StrikesOf(d) /\ StrikesOf(d) \cup {o} \in SUBSET StrikesOf(d)'
      BY <1>4, <2>1 DEF StrikesOf, StrikeAt, Strikes
    <3>2. /\ Cardinality(StrikesOf(d) \cup {o}) = Cardinality(StrikesOf(d)) + 1
          /\ Cardinality(StrikesOf(d) \cup {o}) <= Cardinality(StrikesOf(d)')
      BY <1>5, <3>1, FS_AddElement, FS_Subset
    <3> QED
      BY <1>0, <1>1, <1>3, <1>5, <2>1, <3>2
  <2>2. CASE d # orders[o].driver
    BY <1>0, <1>1, <1>3, <1>5, <2>2
  <2> QED
    BY <2>1, <2>2
<1> QED
  BY <1>1, <1>2, <1>3, <1>6

-----------------------------------------------------------------------------
\* Which action is of which kind.
Kind ==
    \/ record' = record /\ NoneDelivered(OrderIds)
    \/ \E o \in OrderIds : Delivers(o) /\ NoneDelivered(OrderIds \ {o})
    \/ \E o \in OrderIds : Strikes(o) /\ NoneDelivered(OrderIds)

LEMMA WrittenOnce ==
    ASSUME TypeOK, NEW o \in OrderIds, NEW q, orders' = [orders EXCEPT ![o] = q]
    PROVE  /\ orders'[o] = q /\ NoneDelivered(OrderIds \ {o})
           /\ q.status # "Delivered" => NoneDelivered(OrderIds)
BY Updated DEF NoneDelivered

\* An order whose customer is refunded in full has not paid its driver.
LEMMA RefundStrikes ==
    ASSUME IInv, NEW o \in OrderIds, orders[o].status = "Assigned",
           orders' = [orders EXCEPT ![o] = Closed(@, "Cancelled")],
           Credit(o, [NoPay EXCEPT !["customer"] = orders[o].escrow]),
           recordFailed(orders[o].driver)
    PROVE  Kind
<1> DEFINE q == Closed(orders[o], "Cancelled")
           pay == [NoPay EXCEPT !["customer"] = orders[o].escrow]
<1>1. TypeOK /\ orders[o] \in Order /\ payout[o] \in [Roles -> Nat]
  BY SoundTypes DEF IInv
<1>2. orders' = [orders EXCEPT ![o] = q] /\ q.status = "Cancelled" /\ q.driver = orders[o].driver
  <2>1. orders' = [orders EXCEPT ![o] = q]
    OBVIOUS
  <2>2. q.status = "Cancelled" /\ SameDeal(q, orders[o])
    BY <1>1, ClosedTerms
  <2> QED
    BY <2>1, <2>2 DEF SameDeal
<1>3. orders[o].escrow \in Nat
  BY <1>1, OrderAmounts
<1>4. pay \in [Roles -> Nat] /\ pay["driver"] = 0 /\ Credit(o, pay)
  BY <1>3, CustomerOnly
<1> HIDE DEF q, pay
<1>5. Paid(payout'[o], payout[o], pay)
  BY <1>1, <1>4, CreditEffect
<1>6. payout[o]["driver"] = 0
  BY DEF IInv, SoundAt, Sound, OnlyVenuePaid
<1>7. payout'[o]["driver"] = 0
  <2>1. payout'[o]["driver"] = payout[o]["driver"] + pay["driver"]
    BY <1>5 DEF Paid, Roles
  <2> QED
    BY <1>4, <1>6, <2>1
<1>8. orders'[o] = q /\ NoneDelivered(OrderIds)
  BY <1>1, <1>2, WrittenOnce
<1>9. Strikes(o)
  BY <1>2, <1>7, <1>8 DEF Strikes, StrikeAt
<1> QED
  BY <1>8, <1>9 DEF Kind

LEMMA DropoffDelivers ==
    ASSUME IInv, NEW o \in OrderIds, NEW r, OnDropoffConfirmed(o, r)
    PROVE  Kind
<1> DEFINE v == orders[o].fare + orders[o].tip + orders[o].serviceFee
           q == Released(orders[o], v, "Delivered")
<1>1. /\ TypeOK /\ orders[o] \in Order /\ orders[o].status = "PickedUp"
      /\ orders' = [orders EXCEPT ![o] = q] /\ recordDelivered(orders[o].driver)
  BY SoundTypes DEF OnDropoffConfirmed, IInv, MayConfirmDropoff, DropoffRelease
<1>2. q.status = "Delivered" /\ q.driver = orders[o].driver
  <2> HIDE DEF v
  <2>1. q.status = "Delivered" /\ SameDeal(q, orders[o])
    BY <1>1, ReleasedTerms
  <2> QED
    BY <2>1 DEF SameDeal
<1> HIDE DEF q
<1>3. orders'[o] = q /\ NoneDelivered(OrderIds \ {o})
  BY <1>1, WrittenOnce
<1> QED
  BY <1>1, <1>2, <1>3 DEF Kind, Delivers

LEMMA RulingStrikes ==
    ASSUME IInv, NEW o \in OrderIds, NEW bps, NEW atFault, ResolveDisputed(o, bps, atFault)
    PROVE  Kind
<1> DEFINE q == Closed(orders[o], "Resolved")
<1>1. /\ TypeOK /\ orders[o] \in Order /\ orders[o].status = "Disputed"
      /\ orders' = [orders EXCEPT ![o] = q]
      /\ recordFailed(orders[o].driver) \/ record' = record
  BY SoundTypes DEF ResolveDisputed, IInv, MayResolve, Split
<1>2. q.status = "Resolved" /\ q.driver = orders[o].driver
  BY <1>1, ClosedTerms DEF SameDeal
<1> HIDE DEF q
<1>3. orders'[o] = q /\ NoneDelivered(OrderIds)
  BY <1>1, <1>2, WrittenOnce
<1> QED
  BY <1>1, <1>2, <1>3 DEF Kind, Strikes, StrikeAt

\* Steps that leave the record alone and deliver nothing.
LEMMA SparingKind ==
    ASSUME TypeOK, record' = record,
           \/ UNCHANGED orders
           \/ \E o \in OrderIds : \E q : q.status # "Delivered" /\ orders' = [orders EXCEPT ![o] = q]
    PROVE  Kind
BY WrittenOnce DEF Kind, NoneDelivered

LEMMA CustomerKind ==
    ASSUME IInv, NEW c \in Customers, Customer(c)
    PROVE  Kind
<1>0. TypeOK /\ \A o \in OrderIds : orders[o] \in Order
  BY SoundTypes DEF IInv
<1>1. ASSUME NEW token, NEW venue, NEW value, NEW tip, NEW maxFare, NEW window,
             CreateOrder(c, token, venue, value, tip, maxFare, window)
      PROVE  Kind
  <2> DEFINE w == IF window = 0 THEN config.defaultPickupWindow ELSE window
             q == NewOrder(c, token, value, tip, maxFare, config.relayServiceFee[token], w)
  <2>1. nextOrderId \in OrderIds /\ orders' = [orders EXCEPT ![nextOrderId] = q] /\ record' = record
    BY <1>1 DEF CreateOrder
  <2>2. q.status = "Open"
    BY DEF NewOrder
  <2> HIDE DEF q
  <2> QED
    BY <1>0, <2>1, <2>2, SparingKind
<1>2. ASSUME NEW o \in OrderIds, NEW v, IncreaseTip(c, o, v) PROVE Kind
  <2> DEFINE q == ToppedUp(orders[o], U96(v))
  <2>1. orders' = [orders EXCEPT ![o] = q] /\ record' = record /\ orders[o].status \in Tippable
    BY <1>2 DEF IncreaseTip
  <2>2. q.status = orders[o].status
    BY <1>0, ToppedUpTerms
  <2> HIDE DEF q
  <2> QED
    BY <1>0, <2>1, <2>2, SparingKind DEF Tippable
<1>3. ASSUME NEW o \in OrderIds, CancelOpen(c, o) PROVE Kind
  <2> DEFINE q == Closed(orders[o], "Cancelled")
  <2>1. orders' = [orders EXCEPT ![o] = q] /\ record' = record
    BY <1>3 DEF CancelOpen, MayCancelOpen, Refund
  <2>2. q.status = "Cancelled"
    BY <1>0, ClosedTerms
  <2> HIDE DEF q
  <2> QED
    BY <1>0, <2>1, <2>2, SparingKind
<1>4. ASSUME NEW o \in OrderIds, CancelAssigned(c, o) PROVE Kind
  <2> DEFINE q == Closed(orders[o], "Cancelled")
  <2>1. orders' = [orders EXCEPT ![o] = q]
    BY <1>4 DEF CancelAssigned, MayCancelAssigned, Refund, Compensated
  <2>2. q.status = "Cancelled"
    BY <1>0, ClosedTerms
  <2> HIDE DEF q
  <2>3. CASE record' = record
    BY <1>0, <2>1, <2>2, <2>3, SparingKind
  <2>4. CASE recordFailed(orders[o].driver)
             /\ Credit(o, [NoPay EXCEPT !["customer"] = orders[o].escrow])
    <3>1. orders[o].status = "Assigned" /\ orders' = [orders EXCEPT ![o] = Closed(@, "Cancelled")]
      BY <1>4 DEF CancelAssigned, MayCancelAssigned, Refund, Compensated
    <3> QED
      BY <2>4, <3>1, RefundStrikes
  <2> QED
    BY <1>4, <2>3, <2>4 DEF CancelAssigned, MayCancelAssigned, Refund, Compensated
<1>5. ASSUME NEW o \in OrderIds, NEW d, NEW fare, NEW salt, AcceptSealedBid(c, o, d, fare, salt)
      PROVE  Kind
  <2> DEFINE q == Assigned(orders[o], d, fare)
  <2>1. orders' = [orders EXCEPT ![o] = q] /\ record' = record
    BY <1>5 DEF AcceptSealedBid
  <2>2. q.status = "Assigned"
    BY <1>0, AssignedTerms
  <2> HIDE DEF q
  <2> QED
    BY <1>0, <2>1, <2>2, SparingKind
<1> QED
  BY <1>1, <1>2, <1>3, <1>4, <1>5 DEF Customer

LEMMA OtherKind ==
    ASSUME IInv, NEW o \in OrderIds, Callback(o) \/ \E d \in Drivers : AbandonOrder(d, o)
    PROVE  Kind
<1>0. TypeOK /\ orders[o] \in Order
  BY SoundTypes DEF IInv
<1>1. ASSUME OnPickupConfirmed(o) PROVE Kind
  <2> DEFINE q == Released(orders[o], orders[o].orderValue, "PickedUp")
  <2>1. orders' = [orders EXCEPT ![o] = q] /\ record' = record
    BY <1>1 DEF OnPickupConfirmed, MayConfirmPickup, PickupPay
  <2>2. q.status = "PickedUp"
    BY <1>0, ReleasedTerms
  <2> HIDE DEF q
  <2> QED
    BY <1>0, <2>1, <2>2, SparingKind
<1>2. ASSUME MarkDisputed(o) PROVE Kind
  <2> DEFINE q == [orders[o] EXCEPT !.status = "Disputed"]
  <2>1. orders' = [orders EXCEPT ![o] = q] /\ record' = record
    BY <1>2 DEF MarkDisputed, MayDispute
  <2>2. q.status = "Disputed"
    BY <1>0, DisputedTerms
  <2> HIDE DEF q
  <2> QED
    BY <1>0, <2>1, <2>2, SparingKind
<1>3. ASSUME NEW d, AbandonOrder(d, o) PROVE Kind
  <2>1. /\ orders[o].status = "Assigned" /\ orders' = [orders EXCEPT ![o] = Closed(@, "Cancelled")]
        /\ Credit(o, [NoPay EXCEPT !["customer"] = orders[o].escrow])
        /\ recordFailed(orders[o].driver)
    BY <1>3 DEF AbandonOrder, MayAbandonOrder, Refund
  <2> QED
    BY <2>1, RefundStrikes
<1> QED
  BY <1>1, <1>2, <1>3, DropoffDelivers, RulingStrikes DEF Callback

LEMMA NextKind ==
    ASSUME IInv, [Next]_vars
    PROVE  Kind
<1>1. TypeOK
  BY DEF IInv
<1>2. ASSUME NEW o \in OrderIds, Bidding(o) PROVE Kind
  <2>1. UNCHANGED <<orders, record>>
    BY <1>2 DEF Bidding, CommitBid, RevokeBid, ledger
  <2> QED
    BY <1>1, <2>1, SparingKind
<1>3. ASSUME Owner PROVE Kind
  <2> DEFINE Same == UNCHANGED <<orders, record>>
  <2>1. ASSUME NEW fee, NEW comp, NEW w, SetParams(fee, comp, w) PROVE Same
    BY <2>1 DEF SetParams, ledger
  <2>2. ASSUME NEW bps, SetRelayRebateBps(bps) PROVE Same
    BY <2>2 DEF SetRelayRebateBps, ledger
  <2>3. ASSUME NEW token, NEW fee, SetRelayServiceFee(token, fee) PROVE Same
    BY <2>3 DEF SetRelayServiceFee, ledger
  <2>4. ASSUME NEW token, NEW b, SetAcceptedToken(token, b) PROVE Same
    BY <2>4 DEF SetAcceptedToken, ledger
  <2>5. Same
    BY <1>3, <2>1, <2>2, <2>3, <2>4 DEF Owner
  <2> QED
    BY <1>1, <2>5, SparingKind
<1>4. ASSUME Tick \/ Switch \/ Registries \/ UNCHANGED vars PROVE Kind
  <2>1. UNCHANGED <<orders, record>>
    BY <1>4 DEF Tick, Switch, Registries, vars, ledger
  <2> QED
    BY <1>1, <2>1, SparingKind
<1> QED
  BY <1>2, <1>3, <1>4, CustomerKind, OtherKind DEF Next

LEMMA NextRepInv == IInv /\ RepInv /\ [Next]_vars => RepInv'
BY NextKind, SparingKeeps, DeliveryKeeps, StrikeKeeps DEF Kind

\* A driver's record is what the driver did: one delivery counted for each
\* order delivered, and no strike without an order that was cancelled with a
\* full refund or ruled upon, for any number of orders and drivers.
THEOREM ReputationIsHistory == Spec => []ReputationMatchesOutcomes
<1> QED
  BY Inductive, InitRepInv, NextRepInv, RepInvImplies, PTL DEF Spec

-----------------------------------------------------------------------------
(* V.  The escrows are there.                                              *)

\* One order moves, and the asset it is in follows its escrow.
LEMMA FlowSolvent ==
    ASSUME IInv, IInv', Solvency, NEW o \in OrderIds, Moves(o),
           NEW t \in Assets, orders'[o].token = t,
           held' = [held EXCEPT ![t] = held[t] + (orders'[o].escrow - orders[o].escrow)]
    PROVE  Solvency'
<1> DEFINE e == orders[o].escrow
           n == orders'[o].escrow
<1>1. IsFiniteSet(OrderIds)
  BY OrdersFinite
<1>2. /\ \A p \in OrderIds : orders[p] \in Order /\ orders'[p] \in Order
      /\ held \in [Assets -> Nat]
  BY DEF IInv, TypeOK, LedgerType
<1>3. \A p \in OrderIds : orders[p].escrow \in Int /\ orders'[p].escrow \in Int
  <2>1. \A p \in OrderIds : orders[p].escrow \in Nat /\ orders'[p].escrow \in Nat
    BY <1>2, OrderAmounts
  <2> QED
    BY <2>1
<1>4. orders[o].token = t \/ e = 0
  <2>1. CASE Opened(o)
    BY <2>1 DEF Opened, IInv, SoundAt, Sound
  <2>2. CASE SameParties(orders'[o], orders[o])
    BY <2>2 DEF SameParties
  <2> QED
    BY <2>1, <2>2 DEF Moves, Deposited, PartPaid, Contested, Ended
<1> SUFFICES ASSUME NEW s \in Assets PROVE held'[s] = SumFunction(EscrowIn(s)')
  BY DEF Solvency
<1> DEFINE f == EscrowIn(s)
           g == EscrowIn(s)'
<1>5. f \in [OrderIds -> Int] /\ g \in [OrderIds -> Int]
  BY <1>3 DEF EscrowIn
<1>6. \A p \in OrderIds \ {o} : g[p] = f[p]
  BY DEF Moves, EscrowIn
<1>7. /\ s = t => f[o] = e /\ g[o] = n
      /\ s # t => f[o] = 0 /\ g[o] = 0
  BY <1>4 DEF EscrowIn
<1>8. held[s] = SumFunction(f)
  BY DEF Solvency
<1>9. SumFunction(g) = SumFunction(f) + (g[o] - f[o])
  <2> HIDE DEF f, g
  <2> QED
    BY <1>1, <1>5, <1>6, SumChange
<1>10. held'[s] = IF s = t THEN held[s] + (n - e) ELSE held[s]
  BY <1>2
<1>11. held[s] \in Int /\ e \in Int /\ n \in Int
  BY <1>2, <1>3
<1> HIDE DEF f, g, e, n
<1>12. held'[s] = SumFunction(g)
  BY <1>7, <1>8, <1>9, <1>10, <1>11
<1> QED
  BY <1>12 DEF g

\* By conservation the escrow follows what comes in and goes out.
LEMMA CollectSolvent ==
    ASSUME IInv, IInv', Solvency, NEW o \in OrderIds, Moves(o),
           NEW t \in Assets, orders'[o].token = t, NEW v \in Nat, Collect(o, t, v),
           payout' = payout
    PROVE  Solvency'
<1> DEFINE e == orders[o].escrow
           n == orders'[o].escrow
           out == Total(payout[o])
<1>1. collected[o] = e + out /\ collected'[o] = n + out
  BY DEF IInv, SoundAt, Sound
<1>2. orders[o] \in Order /\ orders'[o] \in Order /\ payout[o] \in [Roles -> Nat]
  BY DEF IInv, TypeOK, LedgerType
<1>3. e \in Nat /\ n \in Nat /\ out \in Nat
  BY <1>2, OrderAmounts, TotalType
<1>4. collected'[o] = collected[o] + v
  BY CollectEffect DEF IInv
<1>5. held' = [held EXCEPT ![t] = held[t] + v]
  BY DEF Collect
<1>6. n + out = (e + out) + v
  BY <1>1, <1>4
<1>7. v = n - e
  <2> HIDE DEF e, n, out
  <2> QED
    BY <1>3, <1>6
<1> QED
  BY <1>5, <1>7, FlowSolvent

LEMMA CreditSolvent ==
    ASSUME IInv, IInv', Solvency, NEW o \in OrderIds, Moves(o), ~Opened(o),
           NEW pay \in [Roles -> Nat], Credit(o, pay)
    PROVE  Solvency'
<1> DEFINE e == orders[o].escrow
           n == orders'[o].escrow
           t == orders[o].token
           v == Total(pay)
           out == Total(payout[o])
           after == Total(payout'[o])
<1>1. collected[o] = e + out /\ collected'[o] = n + after
  BY DEF IInv, SoundAt, Sound
<1>2. /\ orders[o] \in Order /\ orders'[o] \in Order /\ payout[o] \in [Roles -> Nat]
      /\ held \in [Assets -> Nat]
  BY DEF IInv, TypeOK, LedgerType
<1>3. e \in Nat /\ n \in Nat /\ out \in Nat /\ v \in Nat
  BY <1>2, OrderAmounts, TotalType
<1>4. t \in Assets
  BY <1>2 DEF Order
<1>5. Paid(payout'[o], payout[o], pay) /\ collected' = collected
  BY CreditEffect DEF IInv
<1>6. after = out + v
  BY <1>2, <1>5, PaidTotal
<1>7. held' = [held EXCEPT ![t] = held[t] - v]
  BY DEF Credit, Creditable
<1>8. held[t] \in Nat
  BY <1>2, <1>4
<1>9. held[t] - v = held[t] + (n - e)
  <2> HIDE DEF e, n, v, out, after, t
  <2> QED
    BY <1>1, <1>3, <1>5, <1>6, <1>8
<1>10. orders'[o].token = t
  BY DEF Moves, Deposited, PartPaid, Contested, Ended, SameParties
<1> HIDE DEF t, v
<1> QED
  BY <1>4, <1>7, <1>9, <1>10, FlowSolvent DEF t

\* A release is never the step that opens an order.
LEMMA EndSolvent ==
    ASSUME IInv, IInv', Solvency, NEW o \in OrderIds, Moves(o),
           orders[o].status # "None", NEW pay \in [Roles -> Nat], Credit(o, pay)
    PROVE  Solvency'
BY CreditSolvent DEF Opened

LEMMA CreateOrderSolvent ==
    ASSUME IInv, IInv', Solvency, NEW c, NEW token \in Assets, NEW venue,
           NEW value \in Values, NEW tip \in Tips, NEW maxFare, NEW window,
           CreateOrder(c, token, venue, value, tip, maxFare, window)
    PROVE  Solvency'
<1> DEFINE o == nextOrderId
           w == IF window = 0 THEN config.defaultPickupWindow ELSE window
           fee == config.relayServiceFee[token]
           q == NewOrder(c, token, value, tip, maxFare, fee, w)
<1>1. /\ TypeOK /\ o \in OrderIds /\ orders' = [orders EXCEPT ![o] = q]
      /\ Collect(o, token, value + tip + fee) /\ payout' = payout
  BY DEF CreateOrder, IInv
<1>2. Moves(o)
  BY CreateOrderMoves
<1>3. orders'[o].token = token
  <2>1. q.token = token
    BY DEF NewOrder
  <2> HIDE DEF q
  <2> QED
    BY <1>1, <2>1, Updated
<1>4. fee \in Nat
  BY <1>1, BoundsAssumption DEF TypeOK, GovernanceType, Config
<1>5. value \in Nat /\ tip \in Nat
  BY InputAssumption, BoundsAssumption
<1> HIDE DEF fee
<1>6. value + tip + fee \in Nat
  BY <1>4, <1>5
<1> QED
  BY <1>1, <1>2, <1>3, <1>6, CollectSolvent

LEMMA TopUpSolvent ==
    ASSUME IInv, IInv', Solvency, NEW o \in OrderIds, Moves(o), ~Opened(o),
           NEW v \in Nat, Collect(o, orders[o].token, v), payout' = payout
    PROVE  Solvency'
<1>1. orders[o].token \in Assets
  BY SoundTypes DEF IInv, Order
<1>2. orders'[o].token = orders[o].token
  BY DEF Moves, Deposited, PartPaid, Contested, Ended, SameParties
<1> QED
  BY <1>1, <1>2, CollectSolvent

LEMMA CustomerSolvent ==
    ASSUME IInv, IInv', Solvency, NEW c \in Customers, Customer(c)
    PROVE  Solvency'
<1>1. ASSUME NEW o \in OrderIds, NEW v \in Tips, IncreaseTip(c, o, v) PROVE Solvency'
  <2>1. Moves(o)
    BY <1>1, IncreaseTipMoves
  <2>2. ~Opened(o) /\ v \in Nat
    BY <1>1, InputAssumption, BoundsAssumption DEF IncreaseTip, Tippable, Opened
  <2> QED
    BY <1>1, <2>1, <2>2, TopUpSolvent DEF IncreaseTip
<1>2. ASSUME NEW o \in OrderIds, NEW d \in Drivers, NEW fare \in Fares, NEW salt \in Salts,
             AcceptSealedBid(c, o, d, fare, salt)
      PROVE  Solvency'
  <2>1. Moves(o)
    BY <1>2, AcceptSealedBidMoves
  <2>2. ~Opened(o) /\ fare \in Nat
    BY <1>2, InputAssumption, BoundsAssumption DEF AcceptSealedBid, Acceptable, Opened
  <2> QED
    BY <1>2, <2>1, <2>2, TopUpSolvent DEF AcceptSealedBid
<1>3. ASSUME NEW o \in OrderIds, CancelOpen(c, o) \/ CancelAssigned(c, o) PROVE Solvency'
  <2> DEFINE e == orders[o].escrow
             comp == Compensation(o)
             rest == e - comp
  <2>1. Moves(o)
    BY <1>3, ClosingMoves
  <2>2. e \in Nat /\ comp \in Nat /\ orders[o].status # "None"
    BY <1>3, SoundTypes, OrderAmounts, CompensationBound DEF IInv, CancelOpen, CancelAssigned,
       MayCancelOpen, Refund, MayCancelAssigned, Compensated
  <2>3. \/ Credit(o, [NoPay EXCEPT !["customer"] = e])
        \/ /\ comp <= e
           /\ Credit(o, [NoPay EXCEPT !["driver"] = comp, !["customer"] = rest])
    BY <1>3 DEF CancelOpen, CancelAssigned,
       MayCancelOpen, Refund, MayCancelAssigned, Compensated
  <2>4. rest \in Int /\ (comp <= e => rest \in Nat)
    <3> HIDE DEF e, comp
    <3> QED
      BY <2>2
  <2> HIDE DEF e, comp, rest
  <2> QED
    BY <2>1, <2>2, <2>3, <2>4, PayCustomer, PayBoth, EndSolvent
<1> QED
  BY <1>1, <1>2, <1>3, CreateOrderSolvent DEF Customer

LEMMA CallbackSolvent ==
    ASSUME IInv, IInv', Solvency, NEW o \in OrderIds, Callback(o)
    PROVE  Solvency'
<1>1. ASSUME OnPickupConfirmed(o) PROVE Solvency'
  <2> DEFINE v == orders[o].orderValue
  <2>1. Moves(o) /\ v \in Nat
    BY <1>1, PickupMoves, SoundTypes, OrderAmounts DEF IInv
  <2>2. Credit(o, [NoPay EXCEPT !["venue"] = v]) /\ orders[o].status # "None"
    BY <1>1 DEF OnPickupConfirmed, MayConfirmPickup, PickupPay
  <2> HIDE DEF v
  <2> QED
    BY <2>1, <2>2, PayVenue, EndSolvent
<1>2. ASSUME NEW r, OnDropoffConfirmed(o, r) PROVE Solvency'
  <2>1. Moves(o) /\ DropoffPay(o, r) \in [Roles -> Nat]
    BY <1>2, DropoffMoves, DropoffPayType DEF IInv
  <2>2. Credit(o, DropoffPay(o, r)) /\ orders[o].status # "None"
    BY <1>2 DEF OnDropoffConfirmed, MayConfirmDropoff, DropoffRelease
  <2> QED
    BY <2>1, <2>2, EndSolvent
<1>3. ASSUME MarkDisputed(o) PROVE Solvency'
  <2>1. TypeOK /\ orders' = [orders EXCEPT ![o] = [orders[o] EXCEPT !.status = "Disputed"]]
        /\ held' = held
    BY <1>3 DEF MarkDisputed, IInv, MayDispute
  <2>2. orders[o] \in Order
    BY <2>1, SoundTypes
  <2>3. /\ orders'[o].escrow = orders[o].escrow /\ orders'[o].token = orders[o].token
        /\ \A p \in OrderIds \ {o} : orders'[p] = orders[p]
    BY <2>1, <2>2, Updated DEF Order
  <2>4. \A t \in Assets : EscrowIn(t)' = EscrowIn(t)
    BY <2>3 DEF EscrowIn
  <2> QED
    BY <2>1, <2>4 DEF Solvency
<1>4. ASSUME NEW bps \in ShareBps, NEW atFault \in BOOLEAN, ResolveDisputed(o, bps, atFault)
      PROVE  Solvency'
  <2> DEFINE e == orders[o].escrow
             amt == Share(e, bps)
             rest == e - amt
  <2>1. Moves(o)
    BY <1>4, ClosingMoves
  <2>2. amt \in Nat /\ rest \in Nat /\ orders[o].status # "None"
    BY <1>4, SplitType, InputAssumption DEF IInv, ResolveDisputed, MayResolve, Split
  <2>3. Credit(o, [NoPay EXCEPT !["customer"] = amt, !["driver"] = rest])
    BY <1>4 DEF ResolveDisputed, MayResolve, Split
  <2> HIDE DEF amt, rest
  <2> QED
    BY <2>1, <2>2, <2>3, PayBoth, EndSolvent
<1> QED
  BY <1>1, <1>2, <1>3, <1>4 DEF Callback

LEMMA NextSolvent == IInv /\ IInv' /\ Solvency /\ [Next]_vars => Solvency'
<1> SUFFICES ASSUME IInv, IInv', Solvency, [Next]_vars PROVE Solvency'
  OBVIOUS
<1>1. ASSUME NEW o \in OrderIds, NEW d \in Drivers, AbandonOrder(d, o) PROVE Solvency'
  <2> DEFINE e == orders[o].escrow
  <2>1. Moves(o) /\ e \in Nat
    BY <1>1, ClosingMoves, SoundTypes, OrderAmounts DEF IInv
  <2>2. Credit(o, [NoPay EXCEPT !["customer"] = e]) /\ orders[o].status # "None"
    BY <1>1 DEF AbandonOrder, MayAbandonOrder, Refund
  <2> HIDE DEF e
  <2> QED
    BY <2>1, <2>2, PayCustomer, EndSolvent
<1>2. CASE Owner \/ Tick \/ Switch \/ Registries \/ UNCHANGED vars
           \/ \E o \in OrderIds : Bidding(o)
  <2>1. held' = held /\ orders' = orders
    BY <1>2, RestRests DEF Rests
  <2> QED
    BY <2>1 DEF Solvency, EscrowIn
<1> QED
  BY <1>1, <1>2, CustomerSolvent, CallbackSolvent DEF Next

LEMMA InitSolvent == Init => Solvency
<1> SUFFICES ASSUME Init, NEW t \in Assets PROVE held[t] = SumFunction(EscrowIn(t))
  BY DEF Solvency
<1> DEFINE f == EscrowIn(t)
<1>1. f \in [OrderIds -> Int] /\ \A o \in OrderIds : f[o] = 0
  BY DEF Init, EmptyOrder, EscrowIn
<1> HIDE DEF f
<1>2. SumFunction(f) = 0
  BY <1>1, OrdersFinite, SumZero
<1> QED
  BY <1>2 DEF f, Init

\* Whatever happens to any number of orders in any number of assets, the
\* contract owns of each asset exactly the escrows in it: no order is ever
\* paid with another order's money, nor in another order's asset, and nothing
\* is left behind that no order accounts for.
THEOREM EscrowsAreOwned == Spec => []Solvency
<1>1. IInv /\ Solvency /\ [Next]_vars => Solvency'
  BY NextSafe, NextSolvent
<1> QED
  BY <1>1, Inductive, InitSolvent, PTL DEF Spec

\* What the ways out of a live order subtract, and the units they send.
ExitsFunded ==
    \A o \in OrderIds : LET e == orders[o].escrow  st == orders[o].status IN
        /\ e <= held[orders[o].token]
        /\ st = "Assigned" => orders[o].orderValue <= e /\ Compensation(o) <= e
        /\ st = "PickedUp" => \A r \in Relayers :
              DropoffPay(o, r) \in [Roles -> Nat] /\ Total(DropoffPay(o, r)) = e
        /\ \A bps \in ShareBps \cap (0..BPS) : Share(e, bps) \in 0..e

\* Neither a release nor a split ever underflows, nor asks for units that the
\* contract does not own: of what the ways out of a live order require, all
\* that is not its status or its parties is always there (ExitsOpen).
THEOREM ExitsAreFunded == Spec => []ExitsFunded
<1>1. ASSUME IInv, Solvency, NEW o \in OrderIds
      PROVE  orders[o].escrow <= held[orders[o].token]
  <2>1. PICK t : t = orders[o].token
    OBVIOUS
  <2> DEFINE f == EscrowIn(t)
  <2>2. \A p \in OrderIds : orders[p] \in Order /\ orders[p].escrow \in Nat
    BY <1>1, SoundTypes, OrderAmounts DEF IInv
  <2>3. t \in Assets
    BY <2>1, <2>2 DEF Order
  <2>4. f \in [OrderIds -> Nat] /\ f[o] = orders[o].escrow
    BY <2>1, <2>2 DEF EscrowIn
  <2>5. held[t] = SumFunction(f)
    BY <1>1, <2>3 DEF Solvency
  <2> HIDE DEF f
  <2>6. f[o] <= SumFunction(f)
    BY <2>4, OrdersFinite, SumBounds
  <2> QED
    BY <2>1, <2>4, <2>5, <2>6
<1>2. ASSUME IInv, NEW o \in OrderIds, orders[o].status = "Assigned"
      PROVE  orders[o].orderValue <= orders[o].escrow /\ Compensation(o) <= orders[o].escrow
  <2>1. /\ Compensation(o) \in Nat /\ 2 * Compensation(o) <= orders[o].fare
        /\ Sound(orders[o], payout[o], collected[o]) /\ orders[o] \in Order
    BY <1>2, CompensationBound, SoundTypes DEF IInv, SoundAt
  <2>2. orders[o].escrow = orders[o].tip + orders[o].fare + orders[o].serviceFee + orders[o].orderValue
    BY <1>2, <2>1 DEF Sound
  <2>3. /\ orders[o].escrow \in Nat /\ orders[o].tip \in Nat /\ orders[o].fare \in Nat
        /\ orders[o].orderValue \in Nat /\ orders[o].serviceFee \in Nat
    BY <2>1, OrderAmounts
  <2> QED
    BY <2>1, <2>2, <2>3
<1>3. ASSUME IInv, NEW o \in OrderIds, orders[o].status = "PickedUp", NEW r
      PROVE  DropoffPay(o, r) \in [Roles -> Nat] /\ Total(DropoffPay(o, r)) = orders[o].escrow
  <2>1. orders[o].escrow = orders[o].tip + orders[o].fare + orders[o].serviceFee
    BY <1>3 DEF IInv, SoundAt, Sound
  <2>2. orders[o].tip \in Nat /\ orders[o].fare \in Nat /\ orders[o].serviceFee \in Nat
    BY <1>3, SoundTypes, OrderAmounts DEF IInv
  <2>3. /\ DropoffPay(o, r) \in [Roles -> Nat]
        /\ Total(DropoffPay(o, r)) = orders[o].fare + orders[o].tip + orders[o].serviceFee
    BY <1>3, DropoffPayType DEF IInv
  <2> QED
    BY <2>1, <2>2, <2>3
<1>4. ASSUME IInv, NEW o \in OrderIds, NEW bps \in ShareBps \cap (0..BPS)
      PROVE  Share(orders[o].escrow, bps) \in 0..orders[o].escrow
  <2>1. orders[o].escrow \in Nat
    BY <1>4, SoundTypes, OrderAmounts DEF IInv
  <2>2. bps \in 0..BPS
    BY <1>4, Zenon
  <2>3. bps \in Nat /\ bps <= BPS
    BY <2>2 DEF BPS
  <2>4. Share(orders[o].escrow, bps) \in Nat /\ Share(orders[o].escrow, bps) <= orders[o].escrow
    BY <2>1, <2>3, ShareBound
  <2> QED
    BY <2>1, <2>4
<1>5. IInv /\ Solvency => ExitsFunded
  BY <1>1, <1>2, <1>3, <1>4 DEF ExitsFunded
<1> QED
  BY <1>5, Inductive, EscrowsAreOwned, PTL

LEMMA FundedIsOpen == IInv /\ ExitsFunded => ExitsOpen
<1> SUFFICES ASSUME IInv, ExitsFunded, NEW o \in OrderIds
             PROVE  LET c == orders[o].customer  st == orders[o].status IN
        /\ st = "Open" => MayCancelOpen(c, o)
        /\ st = "Assigned" => /\ MayCancelAssigned(c, o)
                              /\ MayAbandonOrder(orders[o].driver, o)
                              /\ MayConfirmPickup(o)
        /\ st = "PickedUp" => \A r \in Relayers : MayConfirmDropoff(o, r)
        /\ st \in {"Assigned", "PickedUp"} => MayDispute(o)
        /\ st = "Disputed" => \A bps \in ShareBps \cap (0..BPS) : MayResolve(o, bps)
  BY DEF ExitsOpen
<1> DEFINE e == orders[o].escrow
           comp == Compensation(o)
           v == orders[o].orderValue
<1>1. /\ e \in Nat /\ v \in Nat /\ comp \in Nat
      /\ orders[o].tip \in Nat /\ orders[o].fare \in Nat /\ orders[o].serviceFee \in Nat
  BY SoundTypes, OrderAmounts, CompensationBound DEF IInv
<1>2. \A pay : Total(pay) = e => Creditable(o, pay)
  BY DEF ExitsFunded, Creditable
<1>3. Creditable(o, Refund(o))
  BY <1>1, <1>2, PayCustomer DEF Refund
<1>4. ASSUME orders[o].status = "Assigned"
      PROVE  /\ comp <= e /\ Creditable(o, Compensated(o))
             /\ v <= e /\ Creditable(o, PickupPay(o))
  <2>1. v <= e /\ comp <= e /\ e <= held[orders[o].token]
    BY <1>4 DEF ExitsFunded
  <2>2. Creditable(o, Compensated(o))
    <3> DEFINE rest == e - comp
    <3>1. rest \in Nat /\ rest + comp = e
      <4> HIDE DEF e, comp
      <4> QED BY <1>1, <2>1
    <3>2. Compensated(o) = [NoPay EXCEPT !["driver"] = comp, !["customer"] = rest]
      BY DEF Compensated
    <3> HIDE DEF rest, comp, e
    <3>3. Total(Compensated(o)) = rest + comp
      BY <1>1, <3>1, <3>2, PayBoth
    <3> QED
      BY <1>2, <3>1, <3>3
  <2>3. Creditable(o, PickupPay(o))
    <3>1. Total(PickupPay(o)) = v
      BY <1>1, PayVenue DEF PickupPay
    <3>2. held[orders[o].token] \in Nat
      BY SoundTypes, OrderAmounts DEF IInv, TypeOK, LedgerType, Order
    <3> QED
      BY <1>1, <2>1, <3>1, <3>2 DEF Creditable
  <2> QED
    BY <2>1, <2>2, <2>3
<1>5. ASSUME orders[o].status = "PickedUp", NEW r \in Relayers PROVE MayConfirmDropoff(o, r)
  <2>1. e = orders[o].tip + orders[o].fare + orders[o].serviceFee
    BY <1>5 DEF IInv, SoundAt, Sound
  <2>2. DropoffRelease(o) <= e
    BY <1>1, <2>1 DEF DropoffRelease
  <2>3. Total(DropoffPay(o, r)) = e
    BY <1>5 DEF ExitsFunded
  <2> QED
    BY <1>2, <1>5, <2>2, <2>3 DEF MayConfirmDropoff
<1>6. ASSUME orders[o].status = "Disputed", NEW bps \in ShareBps \cap (0..BPS)
      PROVE  MayResolve(o, bps)
  <2> DEFINE amt == Share(e, bps)
             rest == e - amt
  <2>1. amt \in 0..e
    BY <1>6 DEF ExitsFunded
  <2>2. amt \in Nat /\ rest \in Nat /\ amt + rest = e
    <3> HIDE DEF amt, e
    <3> QED BY <1>1, <2>1
  <2>3. Split(o, bps) = [NoPay EXCEPT !["customer"] = amt, !["driver"] = rest]
    BY DEF Split
  <2>4. ValidShare(bps)
    <3>1. bps \in 0..BPS
      BY <1>6, Zenon
    <3> QED
      BY <3>1 DEF ValidShare, BPS
  <2>5. Creditable(o, Split(o, bps))
    <3> HIDE DEF amt, rest, e
    <3>1. Total(Split(o, bps)) = amt + rest
      BY <2>2, <2>3, PayBoth
    <3> QED
      BY <1>2, <2>2, <3>1
  <2> QED
    BY <1>6, <2>4, <2>5 DEF MayResolve
<1> HIDE DEF e, comp, v
<1>7. orders[o].status \in {"Assigned", "PickedUp"} => MayDispute(o)
  BY DEF MayDispute, Disputable
<1> QED
  BY <1>3, <1>4, <1>5, <1>6, <1>7
     DEF MayCancelOpen, MayCancelAssigned, MayAbandonOrder, MayConfirmPickup, v, e, comp

\* "Nothing is ever trapped behind an upgrade": for any amounts, fees and number
\* of orders, whatever is paused or frozen, no require of a call that takes a
\* live order out of its status fails but those on who calls.
THEOREM ExitsStayOpen == Spec => []ExitsOpen
  BY FundedIsOpen, ExitsAreFunded, Inductive, PTL
=============================================================================
