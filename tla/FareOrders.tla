----------------------------- MODULE FareOrders -----------------------------
(***************************************************************************)
(* The order book of FARE: src/contracts/FareOrders.sol.                   *)
(*                                                                         *)
(* An order's escrow is collected in one asset (Native, or an accepted     *)
(* ERC-20) and leaves only as credits to FareVault.  A transaction is one  *)
(* step; a `require` that fails is a guard that does not hold.             *)
(*                                                                         *)
(* The module is open: every other contract and every caller is an         *)
(* environment that may take any step those contracts allow at any time,   *)
(* so what is shown here holds in every composition.                       *)
(*                                                                         *)
(* Abstractions.  Vault credits are recorded per order and per ROLE of the *)
(* payee, which keeps every number the contract computes.  Locations, the  *)
(* drop commitment, events and the delivery window (which no code reads    *)
(* back) are left out.  A hash is the tuple it hashes.                     *)
(***************************************************************************)
EXTENDS Integers, FiniteSets, Functions

CONSTANTS
    MaxOrders,        \* bound: order ids are 1..MaxOrders
    MaxTime,          \* bound: block.timestamp runs over 0..MaxTime
    Customers, Drivers, Venues,
    Nobody,           \* address(0) as an account
    Native, Tokens,   \* address(0) and the ERC-20s governance may accept
    Relayers,         \* accounts that submit a dropoff
    Treasury,         \* the treasury account, possibly a relayer
    Values, Tips,     \* order values, tips and top-ups customers choose
    Fares,            \* bid amounts and bid ceilings
    Salts, Secrets,   \* of sealed bids
    FeeBps, CancelBps, RebateBps, ShareBps, \* basis points callers choose
    ServiceFees,      \* flat relay fees governance chooses
    Windows,          \* pickup windows callers choose; 0 asks for the default
    MIN_WINDOW, MAX_WINDOW,
    MAX_SEALED_BIDS,
    MaxU96,           \* 2^96 - 1
    Supply,           \* units of each asset in existence
    Volatile          \* bound: the parts of the environment that change

BPS == 10000

ASSUME BoundsAssumption ==
    /\ MaxOrders \in Nat /\ MaxTime \in Nat
    /\ MaxU96 \in Nat /\ Supply \in Nat
    /\ MIN_WINDOW \in Nat /\ MAX_WINDOW \in Nat
    /\ 0 < MIN_WINDOW /\ MIN_WINDOW <= MAX_WINDOW
    /\ MAX_SEALED_BIDS \in Nat

ASSUME InputAssumption ==
    /\ Values \subseteq 0..MaxU96 /\ Tips \subseteq 0..MaxU96
    /\ Fares \subseteq 0..MaxU96
    /\ ServiceFees \subseteq 0..MaxU96 /\ 0 \in ServiceFees
    /\ FeeBps \subseteq Nat /\ CancelBps \subseteq Nat
    /\ RebateBps \subseteq Nat /\ ShareBps \subseteq Nat
    /\ Windows \subseteq Nat

\* No asset has more units than a uint96 can count: what the contract's
\* narrowing casts of a uint256 value rely on.
ASSUME SupplyAssumption == Supply <= MaxU96

ASSUME NativeAssumption == Native \notin Tokens

ASSUME NobodyAssumption == Nobody \notin Customers \cup Drivers \cup Secrets

OrderIds == 1..MaxOrders
Assets == Tokens \cup {Native}
Roles == {"customer", "driver", "venue", "treasury", "relay"}
Status == {"None", "Open", "Assigned", "PickedUp", "Delivered",
           "Cancelled", "Disputed", "Resolved"}
BidHashes == Drivers \X Fares \X Salts

VARIABLES
    now,             \* block.timestamp
    nextOrderId,
    orders,          \* orderId -> Order
    sealedBid,       \* orderId -> bidHash -> [exists, revoked, revokeHash]
    sealedBidCount,
    config,          \* the governance parameters
    acceptedToken,
    blocked,         \* which of "paused" (category 0) and "frozen" hold
    eligible,        \* drivers for which FareDrivers.isEligible holds
    activeVenues,    \* venues for which FareVenues.isActive holds
    held,            \* asset -> units this contract owns
    payout,          \* orderId -> role -> units credited in FareVault
    collected,       \* orderId -> units the customer has paid in (history)
    record           \* FareDrivers' delivered / failed counts

ledger == <<orders, held, payout, collected>>
book == <<nextOrderId, sealedBid, sealedBidCount>>
governance == <<config, acceptedToken>>
world == <<now, blocked, eligible, activeVenues>>
vars == <<ledger, book, governance, world, record>>

Order == [customer : Customers \cup {Nobody}, status : Status,
          driver : Drivers \cup {Nobody}, token : Assets,
          orderValue : 0..MaxU96, tip : 0..MaxU96, fare : 0..MaxU96,
          maxFare : 0..MaxU96, escrow : 0..MaxU96, serviceFee : 0..MaxU96,
          pickupWindowSecs : Nat, pickupDeadline : Nat]

EmptyOrder == [customer |-> Nobody, status |-> "None",
               driver |-> Nobody, token |-> Native,
               orderValue |-> 0, tip |-> 0, fare |-> 0, maxFare |-> 0,
               escrow |-> 0, serviceFee |-> 0,
               pickupWindowSecs |-> 0, pickupDeadline |-> 0]

NoBid == [exists |-> FALSE, revoked |-> FALSE, revokeHash |-> Nobody]

NoPay == [r \in Roles |-> 0]

Config == [feeBps : 0..1000, assignedCancelBps : 0..5000,
           relayRebateBps : 0..BPS, relayServiceFee : [Assets -> 0..MaxU96],
           defaultPickupWindow : MIN_WINDOW..MAX_WINDOW]

Init ==
    /\ now = 0
    /\ nextOrderId = 1
    /\ orders = [o \in OrderIds |-> EmptyOrder]
    /\ sealedBid = [o \in OrderIds |-> [h \in BidHashes |-> NoBid]]
    /\ sealedBidCount = [o \in OrderIds |-> 0]
    /\ config \in [feeBps : FeeBps \cap 0..1000,
                   assignedCancelBps : CancelBps \cap 0..5000,
                   relayRebateBps : RebateBps \cap 0..BPS,
                   relayServiceFee : [Assets -> ServiceFees],
                   defaultPickupWindow : {MIN_WINDOW}]
    /\ acceptedToken = Tokens
    /\ blocked = {}
    /\ eligible \in {{}, Drivers}
    /\ activeVenues = Venues
    /\ held = [t \in Assets |-> 0]
    /\ payout = [o \in OrderIds |-> NoPay]
    /\ collected = [o \in OrderIds |-> 0]
    /\ record = [d \in Drivers |-> [delivered |-> 0, failed |-> 0]]

-----------------------------------------------------------------------------
(* Helpers.                                                                *)

U96(x) == x % (MaxU96 + 1)
Share(x, bps) == (x * bps) \div BPS
Total(p) == p["customer"] + p["driver"] + p["venue"] + p["treasury"] + p["relay"]

\* Money enters: `v` units of the order's asset, all of which some account
\* outside this contract must own.
Collect(o, token, v) ==
    /\ v <= Supply - held[token]
    /\ held' = [held EXCEPT ![token] = @ + v]
    /\ collected' = [collected EXCEPT ![o] = @ + v]

\* Mutant: _credit that does not skip a zero amount, which FareVault refuses.
Creditable_NotZero(o, pay) == Total(pay) \in 1..held[orders[o].token]

\* What a transaction needs to credit `pay`: the units themselves.
Creditable(o, pay) == Total(pay) <= held[orders[o].token]

\* Mutant: every payout leaves in the native asset.
Credit_Native(o, pay) ==
    /\ Total(pay) <= held[Native]
    /\ held' = [held EXCEPT ![Native] = @ - Total(pay)]
    /\ payout' = [payout EXCEPT ![o] = [r \in Roles |-> @[r] + pay[r]]]
    /\ UNCHANGED collected

\* FareOrders._credit, for each payee of one transaction: the asset leaves
\* this contract for FareVault, in the order's own token.
Credit(o, pay) ==
    /\ Creditable(o, pay)
    /\ held' = [held EXCEPT ![orders[o].token] = @ - Total(pay)]
    /\ payout' = [payout EXCEPT ![o] = [r \in Roles |-> @[r] + pay[r]]]
    /\ UNCHANGED collected

\* FareDrivers.recordFailed and recordDelivered.
recordFailed(d) == record' = [record EXCEPT ![d].failed = @ + 1]
\* Mutant: the dropoff callback calls the wrong hook.
recordDelivered_Failed(d) == record' = [record EXCEPT ![d].failed = @ + 1]
recordDelivered(d) == record' = [record EXCEPT ![d].delivered = @ + 1]

-----------------------------------------------------------------------------
(* The customer opens, tops up and cancels an order.                       *)

\* What _open writes.
NewOrder(c, token, value, tip, maxFare, svcFee, window) ==
    [customer |-> c, status |-> "Open", driver |-> Nobody, token |-> token,
     orderValue |-> value, tip |-> tip, fare |-> 0, maxFare |-> maxFare,
     escrow |-> U96(value + tip + svcFee), serviceFee |-> svcFee,
     pickupWindowSecs |-> window, pickupDeadline |-> 0]

\* createOrder (token = Native), createOrderERC20 and its permit variant.
CreateOrder(c, token, venue, value, tip, maxFare, window) ==
    LET o == nextOrderId
        svcFee == config.relayServiceFee[token]
        w == IF window = 0 THEN config.defaultPickupWindow ELSE window
    IN
    /\ blocked = {}
    /\ token # Native => token \in acceptedToken
    /\ venue \in activeVenues
    /\ maxFare > 0
    /\ w \in MIN_WINDOW..MAX_WINDOW
    /\ o \in OrderIds
    /\ Collect(o, token, value + tip + svcFee)
    /\ nextOrderId' = o + 1
    /\ orders' = [orders EXCEPT ![o] =
                     NewOrder(c, token, value, tip, maxFare, svcFee, w)]
    /\ UNCHANGED <<payout, sealedBid, sealedBidCount, governance, world, record>>

\* Mutant: the status check of a top-up only excludes orders never created.
Tippable_Ever == Status \ {"None"}
Tippable == {"Open", "Assigned", "PickedUp"}

ToppedUp(order, v) == [order EXCEPT !.tip = @ + v, !.escrow = @ + v]

\* increaseTip and increaseTipERC20.
IncreaseTip(c, o, v) ==
    /\ "frozen" \notin blocked
    /\ c = orders[o].customer
    /\ orders[o].status \in Tippable
    /\ v > 0
    /\ orders[o].tip + U96(v) <= MaxU96
    /\ orders[o].escrow + U96(v) <= MaxU96
    /\ Collect(o, orders[o].token, v)
    /\ orders' = [orders EXCEPT ![o] = ToppedUp(@, U96(v))]
    /\ UNCHANGED <<payout, book, governance, world, record>>

\* Every cancellation and resolution empties the escrow before it credits.
Closed(order, status) == [order EXCEPT !.escrow = 0, !.status = status]

Refund(o) == [NoPay EXCEPT !["customer"] = orders[o].escrow]

\* Every call that takes an order out of a live status has its requires in an
\* operator of their own, its transfer's included: see ExitsOpen.
MayCancelOpen(c, o) ==
    /\ c = orders[o].customer
    /\ orders[o].status = "Open"
    /\ Creditable(o, Refund(o))

CancelOpen(c, o) ==
    /\ MayCancelOpen(c, o)
    /\ orders' = [orders EXCEPT ![o] = Closed(@, "Cancelled")]
    /\ Credit(o, Refund(o))
    /\ UNCHANGED <<book, governance, world, record>>

\* What a customer who cancels a committed driver in time owes the driver.
\* Mutant: the whole fare.
Compensation_Whole(o) == orders[o].fare
Compensation(o) == Share(orders[o].fare, config.assignedCancelBps)

Compensated(o) == [NoPay EXCEPT !["driver"] = Compensation(o),
                                !["customer"] = orders[o].escrow - Compensation(o)]

PickupOverdue(o) == now > orders[o].pickupDeadline

MayCancelAssigned(c, o) ==
    /\ c = orders[o].customer
    /\ orders[o].status = "Assigned"
    /\ \/ PickupOverdue(o) /\ Creditable(o, Refund(o))
       \/ /\ ~PickupOverdue(o)
          /\ Compensation(o) <= orders[o].escrow
          /\ Creditable(o, Compensated(o))

CancelAssigned(c, o) ==
    /\ MayCancelAssigned(c, o)
    /\ orders' = [orders EXCEPT ![o] = Closed(@, "Cancelled")]
    /\ \/ /\ PickupOverdue(o)
          /\ recordFailed(orders[o].driver)
          /\ Credit(o, Refund(o))
       \/ /\ ~PickupOverdue(o)
          /\ Credit(o, Compensated(o))
          /\ UNCHANGED record
    /\ UNCHANGED <<book, governance, world>>

MayAbandonOrder(d, o) ==
    /\ d = orders[o].driver
    /\ orders[o].status = "Assigned"
    /\ Creditable(o, Refund(o))

AbandonOrder(d, o) ==
    /\ MayAbandonOrder(d, o)
    /\ orders' = [orders EXCEPT ![o] = Closed(@, "Cancelled")]
    /\ recordFailed(d)
    /\ Credit(o, Refund(o))
    /\ UNCHANGED <<book, governance, world>>

-----------------------------------------------------------------------------
(* The sealed-bid auction.                                                 *)

\* Names nobody: any account may commit any hash.
CommitBid(o, h, revokeHash) ==
    /\ blocked = {}
    /\ orders[o].status = "Open"
    /\ sealedBidCount[o] < MAX_SEALED_BIDS
    /\ ~sealedBid[o][h].exists
    /\ sealedBid' = [sealedBid EXCEPT ![o][h] =
          [exists |-> TRUE, revoked |-> FALSE, revokeHash |-> revokeHash]]
    /\ sealedBidCount' = [sealedBidCount EXCEPT ![o] = @ + 1]
    /\ UNCHANGED <<ledger, nextOrderId, governance, world, record>>

\* Mutant: a revoked bid is deleted.
Revoked_Deleted(bid) == NoBid
Revoked(bid) == [bid EXCEPT !.revoked = TRUE]

\* Knowledge of the secret is the only authorisation, at any status.
RevokeBid(o, h, secret) ==
    /\ sealedBid[o][h].exists /\ ~sealedBid[o][h].revoked
    /\ secret = sealedBid[o][h].revokeHash
    /\ sealedBid' = [sealedBid EXCEPT ![o][h] = Revoked(@)]
    /\ UNCHANGED <<ledger, nextOrderId, sealedBidCount, governance, world, record>>

\* _prepareSealedAccept: the bid the customer reveals was committed.
Acceptable(c, o, driver, amount, salt) ==
    LET bid == sealedBid[o][<<driver, amount, salt>>] IN
    /\ c = orders[o].customer
    /\ orders[o].status = "Open"
    /\ amount > 0 /\ amount <= orders[o].maxFare
    /\ driver \in eligible
    /\ bid.exists /\ ~bid.revoked

\* What _assign writes.
Assigned(order, driver, amount) ==
    [order EXCEPT !.driver = driver, !.fare = amount,
                  !.escrow = @ + amount, !.status = "Assigned",
                  !.pickupDeadline = now + order.pickupWindowSecs]

\* acceptSealedBid and acceptSealedBidERC20.
AcceptSealedBid(c, o, driver, amount, salt) ==
    /\ blocked = {}
    /\ Acceptable(c, o, driver, amount, salt)
    /\ orders[o].escrow + amount <= MaxU96
    /\ Collect(o, orders[o].token, amount)
    /\ orders' = [orders EXCEPT ![o] = Assigned(@, driver, amount)]
    /\ UNCHANGED <<payout, book, governance, world, record>>

-----------------------------------------------------------------------------
(* Callbacks: FareSettlement and FareDisputes drive the order on.          *)

Released(order, v, status) == [order EXCEPT !.escrow = @ - v, !.status = status]

PickupPay(o) == [NoPay EXCEPT !["venue"] = orders[o].orderValue]

MayConfirmPickup(o) ==
    /\ orders[o].status = "Assigned"
    /\ orders[o].orderValue <= orders[o].escrow
    /\ Creditable(o, PickupPay(o))

OnPickupConfirmed(o) ==
    /\ MayConfirmPickup(o)
    /\ orders' = [orders EXCEPT ![o] = Released(@, orders[o].orderValue, "PickedUp")]
    /\ Credit(o, PickupPay(o))
    /\ UNCHANGED <<book, governance, world, record>>

Fee(o) == Share(orders[o].fare, config.feeBps)

\* Mutant: nobody gets the relay fee when no relay settled.
DropoffPay_FeeStuck(o, relayer) ==
    LET hasRelay == relayer \notin {Nobody, Treasury}
        rebate == IF hasRelay THEN Share(Fee(o), config.relayRebateBps) ELSE 0
    IN [NoPay EXCEPT
          !["driver"] = orders[o].fare - Fee(o) + orders[o].tip,
          !["treasury"] = Fee(o) - rebate,
          !["relay"] = rebate + (IF hasRelay THEN orders[o].serviceFee ELSE 0)]

\* What a dropoff submitted by `relayer` releases, by payee.
DropoffPay(o, relayer) ==
    LET hasRelay == relayer \notin {Nobody, Treasury}
        rebate == IF hasRelay THEN Share(Fee(o), config.relayRebateBps) ELSE 0
        svcFee == orders[o].serviceFee
    IN [NoPay EXCEPT
          !["driver"] = orders[o].fare - Fee(o) + orders[o].tip,
          !["treasury"] = Fee(o) - rebate,
          !["relay"] = rebate + (IF hasRelay THEN svcFee ELSE 0),
          !["customer"] = IF hasRelay THEN 0 ELSE svcFee]

DropoffRelease(o) == orders[o].fare + orders[o].tip + orders[o].serviceFee

MayConfirmDropoff(o, relayer) ==
    /\ orders[o].status = "PickedUp"
    /\ DropoffRelease(o) <= orders[o].escrow
    /\ Creditable(o, DropoffPay(o, relayer))

OnDropoffConfirmed(o, relayer) ==
    /\ MayConfirmDropoff(o, relayer)
    /\ orders' = [orders EXCEPT ![o] = Released(@, DropoffRelease(o), "Delivered")]
    /\ Credit(o, DropoffPay(o, relayer))
    /\ recordDelivered(orders[o].driver)
    /\ UNCHANGED <<book, governance, world>>

\* Mutants: a dispute before any driver is assigned, or after delivery.
Disputable_Open == {"Open", "Assigned", "PickedUp"}
Disputable_Delivered == {"Assigned", "PickedUp", "Delivered"}
Disputable == {"Assigned", "PickedUp"}

MayDispute(o) == orders[o].status \in Disputable

MarkDisputed(o) ==
    /\ MayDispute(o)
    /\ orders' = [orders EXCEPT ![o].status = "Disputed"]
    /\ UNCHANGED <<held, payout, collected, book, governance, world, record>>

\* Mutant: no bound on the arbiter's split.
ValidShare_Any(bps) == TRUE
ValidShare(bps) == bps <= BPS

Split(o, bps) ==
    LET customerAmt == Share(orders[o].escrow, bps) IN
    [NoPay EXCEPT !["customer"] = customerAmt, !["driver"] = orders[o].escrow - customerAmt]

MayResolve(o, bps) ==
    /\ orders[o].status = "Disputed"
    /\ ValidShare(bps)
    /\ Creditable(o, Split(o, bps))

\* The ruling of FareDisputes.resolve: in the same transaction it may strike
\* the driver, and take so much stake that the driver is eligible no more.
ResolveDisputed(o, customerShareBps, driverAtFault) ==
    LET driver == orders[o].driver IN
    /\ MayResolve(o, customerShareBps)
    /\ orders' = [orders EXCEPT ![o] = Closed(@, "Resolved")]
    /\ Credit(o, Split(o, customerShareBps))
    /\ IF driverAtFault THEN recordFailed(driver) ELSE UNCHANGED record
    /\ \/ eligible' = eligible
       \/ /\ "drivers" \in Volatile
          /\ eligible' = eligible \ {driver}
    /\ UNCHANGED <<book, governance, now, blocked, activeVenues>>

-----------------------------------------------------------------------------
(* The owner's setters, bounded as the contract bounds them.               *)

SetParams(fee, comp, window) ==
    /\ "config" \in Volatile
    /\ fee <= 1000 /\ comp <= 5000
    /\ window \in MIN_WINDOW..MAX_WINDOW
    /\ config' = [config EXCEPT !.feeBps = fee, !.assignedCancelBps = comp,
                                !.defaultPickupWindow = window]
    /\ UNCHANGED <<acceptedToken, ledger, book, world, record>>

SetRelayRebateBps(bps) ==
    /\ "config" \in Volatile
    /\ bps <= BPS
    /\ config' = [config EXCEPT !.relayRebateBps = bps]
    /\ UNCHANGED <<acceptedToken, ledger, book, world, record>>

SetRelayServiceFee(token, amount) ==
    /\ "config" \in Volatile
    /\ config' = [config EXCEPT !.relayServiceFee[token] = amount]
    /\ UNCHANGED <<acceptedToken, ledger, book, world, record>>

SetAcceptedToken(token, accepted) ==
    /\ "tokens" \in Volatile
    /\ acceptedToken' = IF accepted THEN acceptedToken \cup {token}
                                    ELSE acceptedToken \ {token}
    /\ UNCHANGED <<config, ledger, book, world, record>>

-----------------------------------------------------------------------------
(* What the rest of the protocol does meanwhile.                           *)

\* block.timestamp moves on.
Tick ==
    /\ now < MaxTime
    /\ now' = now + 1
    /\ UNCHANGED <<blocked, eligible, activeVenues,
                   ledger, book, governance, record>>

\* FarePauseRegistry.setPaused and FareUpgradable.setFrozen.
Switch ==
    /\ \E s \in {"paused", "frozen"} \cap Volatile :
          blocked' \in {blocked \cup {s}, blocked \ {s}}
    /\ UNCHANGED <<now, eligible, activeVenues, ledger, book, governance, record>>

\* Stakes, bans and unstake requests change isEligible; owners change isActive.
Registries ==
    /\ \/ /\ "drivers" \in Volatile
          /\ eligible' \in SUBSET Drivers /\ UNCHANGED activeVenues
       \/ /\ "venues" \in Volatile
          /\ activeVenues' \in SUBSET Venues /\ UNCHANGED eligible
    /\ UNCHANGED <<now, blocked, ledger, book, governance, record>>

-----------------------------------------------------------------------------
Customer(c) ==
    \/ \E token \in Assets, venue \in Venues, value \in Values, tip \in Tips,
          maxFare \in Fares, window \in Windows :
          CreateOrder(c, token, venue, value, tip, maxFare, window)
    \/ \E o \in OrderIds :
          \/ \E v \in Tips : IncreaseTip(c, o, v)
          \/ CancelOpen(c, o)
          \/ CancelAssigned(c, o)
          \/ \E d \in Drivers, fare \in Fares, salt \in Salts :
                AcceptSealedBid(c, o, d, fare, salt)

Bidding(o) ==
    \E h \in BidHashes, s \in Secrets : CommitBid(o, h, s) \/ RevokeBid(o, h, s)

Callback(o) ==
    \/ OnPickupConfirmed(o)
    \/ \E r \in Relayers : OnDropoffConfirmed(o, r)
    \/ MarkDisputed(o)
    \/ \E bps \in ShareBps, atFault \in BOOLEAN : ResolveDisputed(o, bps, atFault)

Owner ==
    \/ \E fee \in FeeBps, comp \in CancelBps, w \in MIN_WINDOW..MAX_WINDOW :
          SetParams(fee, comp, w)
    \/ \E bps \in RebateBps : SetRelayRebateBps(bps)
    \/ \E token \in Assets, fee \in ServiceFees : SetRelayServiceFee(token, fee)
    \/ \E token \in Tokens, b \in BOOLEAN : SetAcceptedToken(token, b)

Next ==
    \/ \E c \in Customers : Customer(c)
    \/ \E o \in OrderIds :
          Bidding(o) \/ Callback(o) \/ \E d \in Drivers : AbandonOrder(d, o)
    \/ Owner
    \/ Tick \/ Switch \/ Registries

Spec == Init /\ [][Next]_vars

-----------------------------------------------------------------------------
(* Properties.                                                             *)

LedgerType ==
    /\ orders \in [OrderIds -> Order]
    /\ held \in [Assets -> Nat]
    /\ payout \in [OrderIds -> [Roles -> Nat]]
    /\ collected \in [OrderIds -> Nat]

Bid == [exists : BOOLEAN, revoked : BOOLEAN, revokeHash : Secrets \cup {Nobody}]

BookType ==
    /\ nextOrderId \in 1..(MaxOrders + 1)
    /\ sealedBid \in [OrderIds -> [BidHashes -> Bid]]
    /\ sealedBidCount \in [OrderIds -> 0..MAX_SEALED_BIDS]

GovernanceType == config \in Config /\ acceptedToken \in SUBSET Tokens

WorldType ==
    /\ now \in Nat
    /\ blocked \subseteq {"paused", "frozen"}
    /\ eligible \in SUBSET Drivers /\ activeVenues \in SUBSET Venues

RecordType == record \in [Drivers -> [delivered : Nat, failed : Nat]]

TypeOK == LedgerType /\ BookType /\ GovernanceType /\ WorldType /\ RecordType

\* Every unit collected for an order is in its escrow or has been credited:
\* the narrowing casts, the fee split and the three-way releases lose nothing
\* and pay nothing twice.
Conservation ==
    \A o \in OrderIds : collected[o] = orders[o].escrow + Total(payout[o])

EscrowIn(t) ==
    [o \in OrderIds |-> IF orders[o].token = t THEN orders[o].escrow ELSE 0]

\* The contract owns, of each asset, exactly the sum of the escrows in that
\* asset: an order is never paid with another order's money, nor in another
\* order's asset.
Solvency == \A t \in Assets : held[t] = SumFunction(EscrowIn(t))

\* The escrow of an order is at each status exactly what its remaining
\* releases will take: whatever top-ups, cancellations and disputes happened
\* and whatever the owner did to the fees since, no release can underflow
\* and none leaves a remainder behind.
Due(o) == orders[o].tip + orders[o].fare + orders[o].serviceFee

EscrowMatchesStatus ==
    \A o \in OrderIds :
        orders[o].escrow =
            CASE orders[o].status \in {"Open", "Assigned"} -> Due(o) + orders[o].orderValue
              [] orders[o].status = "PickedUp" -> Due(o)
              [] orders[o].status = "Disputed" ->
                    Due(o) + orders[o].orderValue - payout[o]["venue"]
              [] OTHER -> 0

\* Who was paid what, by how the order ended.  A venue is paid its order
\* value or nothing, and never for an order cancelled; a driver who delivers
\* gets the tip and at least 90% of the fare; one whose order is cancelled at
\* most half the fare; treasury and relay only ever share a delivery.
Entitlements ==
    \A o \in OrderIds :
        LET paid == payout[o]  st == orders[o].status IN
        /\ st \in {"None", "Open", "Assigned"} => paid = NoPay
        /\ st \in {"PickedUp", "Delivered"} => paid["venue"] = orders[o].orderValue
        /\ st \in {"Disputed", "Resolved"} => paid["venue"] \in {0, orders[o].orderValue}
        /\ st # "Delivered" => paid["treasury"] = 0 /\ paid["relay"] = 0
        /\ st = "Cancelled" => paid["venue"] = 0 /\ 2 * paid["driver"] <= orders[o].fare
        /\ st = "Delivered" =>
              /\ 10 * (paid["driver"] - orders[o].tip) >= 9 * orders[o].fare
              /\ paid["customer"] \in {0, orders[o].serviceFee}

\* The reputation this contract writes is the history of its orders: one
\* delivery per order delivered, and a strike only for an order of that
\* driver that was cancelled with a full refund, or ruled upon.
ReputationMatchesOutcomes ==
    \A d \in Drivers :
        LET ended(st) == {o \in OrderIds : orders[o].driver = d /\ orders[o].status = st}
        IN /\ record[d].delivered = Cardinality(ended("Delivered"))
           /\ record[d].failed <=
                Cardinality(ended("Resolved") \cup
                            {o \in ended("Cancelled") : payout[o]["driver"] = 0})

\* The assignment is the bid: the driver and the fare of an order are those
\* of a committed bid within the ceiling, and the cap counts every commitment.
AssignedByBid ==
    \A o \in OrderIds :
        /\ orders[o].fare > 0 =>
              /\ orders[o].fare <= orders[o].maxFare
              /\ \E salt \in Salts :
                    sealedBid[o][<<orders[o].driver, orders[o].fare, salt>>].exists
        /\ sealedBidCount[o] = Cardinality({h \in BidHashes : sealedBid[o][h].exists})

\* "Nothing is ever trapped behind an upgrade" (lib/FareUpgradable.sol): in
\* every live status, paused or frozen, the calls that take the order out of
\* it pass every require, the transfer of the units included.
ExitsOpen ==
    \A o \in OrderIds : LET c == orders[o].customer  st == orders[o].status IN
        /\ st = "Open" => MayCancelOpen(c, o)
        /\ st = "Assigned" => /\ MayCancelAssigned(c, o)
                              /\ MayAbandonOrder(orders[o].driver, o)
                              /\ MayConfirmPickup(o)
        /\ st = "PickedUp" => \A r \in Relayers : MayConfirmDropoff(o, r)
        /\ st \in {"Assigned", "PickedUp"} => MayDispute(o)
        /\ st = "Disputed" => \A bps \in ShareBps \cap (0..BPS) : MayResolve(o, bps)

\* The lifecycle of the contract's header comment; the three ends are final,
\* and with them everything the order paid.
Lifecycle ==
    {<<"None", "Open">>, <<"Open", "Assigned">>, <<"Open", "Cancelled">>,
     <<"Assigned", "Cancelled">>, <<"Assigned", "PickedUp">>,
     <<"Assigned", "Disputed">>, <<"PickedUp", "Disputed">>,
     <<"PickedUp", "Delivered">>, <<"Disputed", "Resolved">>}

LegalStep(o) ==
    \/ orders'[o] = orders[o] /\ payout'[o] = payout[o]
    \/ <<orders[o].status, orders'[o].status>> \in Lifecycle
    \/ /\ orders'[o].status = orders[o].status
       /\ orders[o].status \in {"Open", "Assigned", "PickedUp"}
       /\ payout'[o] = payout[o]

LegalTransitions == [][\A o \in OrderIds : LegalStep(o)]_<<orders, payout>>

\* The driver of an order, its fare and its relay fee never change once set,
\* and nobody but the customer adds to an escrow that has been opened.
TermsFixed ==
    [][\A o \in OrderIds : orders[o].status # "None" =>
         /\ orders'[o].customer = orders[o].customer
         /\ orders'[o].token = orders[o].token
         /\ orders'[o].serviceFee = orders[o].serviceFee
         /\ orders[o].fare > 0 => /\ orders'[o].fare = orders[o].fare
                                  /\ orders'[o].driver = orders[o].driver]_orders

-----------------------------------------------------------------------------
(* Refinement: each order is a pot of EscrowContract.                      *)

Phase(st) == CASE st = "None" -> "none"
               [] st \in {"Delivered", "Cancelled", "Resolved"} -> "closed"
               [] OTHER -> "live"

Escrow == INSTANCE EscrowContract WITH
    Pots <- OrderIds,
    phase <- [o \in OrderIds |-> Phase(orders[o].status)],
    deposited <- collected,
    released <- [o \in OrderIds |-> Total(payout[o])]

\* What the customer pays in, the tips and the fare added later, and every
\* release keep the promise of an escrow: opened once, never overdrawn,
\* emptied when it closes, never reopened.
EscrowSpec == Escrow!Spec
=============================================================================
