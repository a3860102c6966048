------------------------------- MODULE Handoff -------------------------------
(***************************************************************************)
(* The hand-offs of one order, from the signing devices to the settlement  *)
(* contract: venue and driver sign attestations and pass them on as codes, *)
(* the driver submits the pickup, the customer proves and submits the      *)
(* dropoff, through a relay whose answer may be lost, to a contract that   *)
(* checks signers, ages and distances when the transaction is mined.       *)
(*                                                                         *)
(* Places lie on a line, a distance is a difference.  Other orders of the  *)
(* same driver and venue ("elsewhere") appear through their codes.  Kinds  *)
(* of code, types of signature and phases exclude each other alike, and    *)
(* are one here; the nullifier is a second lock behind the status.         *)
(* Pauses, freezes and rewiring are in FareOrders and FareUpgrades, what   *)
(* an order pays and its other ends in FareOrders.                         *)
(***************************************************************************)
EXTENDS Integers, FiniteSets, FiniteSetsExt

CONSTANTS Signers,      \* wallets a venue may appoint
          Pins,         \* where it may say it is
          Drop,         \* where the customer wants the goods
          GeoParams,    \* what governance may choose: maxAge, skew and two radii
          Devices,      \* the GPS fixes the devices may give, or NoFix
          Clocks,       \* by how much the phones' clocks may be ahead
          NoFix,
          MaxTime,      \* bound: the clock of the chain
          MaxFaults     \* bound: lost calls and answers, reloads, codes of other
                        \* orders used, changes of signer, pin and parameters

ASSUME HandoffAssumption ==
    /\ Pins \subseteq Int /\ Drop \in Int /\ NoFix \notin Int
    /\ GeoParams \subseteq [maxAge : Nat, skew : Nat, pickup : Nat, dropoff : Nat]
    /\ Devices \subseteq [{"venue", "pickup", "dropoff"} -> Int \cup {NoFix}]
    /\ Clocks \subseteq [{"venue", "driver"} -> Int]
    /\ MaxTime \in Nat /\ MaxFaults \in Nat

Pages == {"venue", "driver", "customer"}

VARIABLES
    now, faults,
    gps, clock, canStore,          \* the devices; may the customer's store more?
    status, venue, geo,            \* the order's; signer and pin; the contract's parameters
    mempool,
    seen, venueSeen,               \* per page, status and venue as last read
    venueCode, driverCode, requestCode,   \* codes shown, or NoCode
    pending,                       \* the stored salt of the last request, or 0
    driverOp, customerOp,          \* the act each is in
    signed                         \* history: when each last signed, for the hand-off
                                   \* the order is waiting for

devices == <<gps, clock, canStore>>
world   == <<faults, devices>>
chain   == <<status, venue, geo>>
view    == <<seen, venueSeen>>
codes   == <<venueCode, driverCode, requestCode, pending>>
acts    == <<driverOp, customerOp>>
vars    == <<now, world, chain, mempool, view, codes, acts, signed>>

NoCode == [order |-> "none"]
Idle   == [at |-> "idle"]
Never  == -99
Unsigned == [pickup |-> Never, dropoff |-> Never, venue |-> [s \in Signers |-> Never]]
OwnSalt == 0
RequestSalts == 1 .. 4

Init ==
    /\ now = 0 /\ faults = 0
    /\ gps \in Devices /\ clock \in Clocks /\ canStore \in BOOLEAN
    /\ status = "Assigned"
    /\ venue \in [signer : Signers, pin : Pins] /\ geo \in GeoParams
    /\ mempool = {}
    /\ seen = [p \in Pages |-> status]
    /\ venueSeen = [p \in {"venue", "driver"} |-> venue]
    /\ venueCode = NoCode /\ driverCode = NoCode /\ requestCode = NoCode
    /\ pending = 0
    /\ driverOp = Idle /\ customerOp = Idle
    /\ signed = Unsigned

\* What happens to codes and calls after the delivery is left out.
Underway == status # "Delivered"

Fault == faults < MaxFaults /\ faults' = faults + 1

\* To use the code of another order is a person's mistake.
Mistakes(code) == IF code.order = "elsewhere" THEN Fault ELSE UNCHANGED faults

-----------------------------------------------------------------------------
(* Positions and the contract's checks.                                    *)

Within(a, b, radius) == a - b <= radius /\ b - a <= radius

\* Rounded to even places, as microdegrees are to multiples of 300.
SnapToGrid(p) == 2 * ((p + 1) \div 2)

\* Only a missing fix falls back to the pin.
PickupPosition(fix, pin) == IF fix = NoFix THEN pin ELSE SnapToGrid(fix)

Fresh(ts) == ts + geo.maxAge >= now /\ ts <= now + geo.skew

\* What the customer's wallet proves, of its own drop and order.
Provable(position, radius) == Within(position.at, Drop, radius)

\* Mutant: only the driver's attestation must be recent.
ConfirmsPickup_DriverFresh(tx) ==
    /\ tx.driver.order = tx.venue.order /\ tx.driver.order = "here"
    /\ status = "Assigned"
    /\ Fresh(tx.driver.ts) /\ tx.venue.actor = venue.signer
    /\ Within(tx.driver.at, venue.pin, geo.pickup)
    /\ Within(tx.venue.at, venue.pin, geo.pickup)

ConfirmsPickup(tx) ==
    /\ tx.driver.order = tx.venue.order /\ tx.driver.order = "here"
    /\ status = "Assigned"
    /\ Fresh(tx.driver.ts)
    /\ tx.venue.actor = venue.signer /\ Fresh(tx.venue.ts)
    /\ Within(tx.driver.at, venue.pin, geo.pickup)
    /\ Within(tx.venue.at, venue.pin, geo.pickup)

ConfirmsDropoff(tx) ==
    /\ tx.att.order = tx.proof.order
    /\ status = "PickedUp"
    /\ Fresh(tx.att.ts)
    /\ tx.proof.driver = tx.att.commit
    /\ tx.proof.radius = geo.dropoff

Confirms(tx) == IF tx.method = "confirmPickup" THEN ConfirmsPickup(tx) ELSE ConfirmsDropoff(tx)

-----------------------------------------------------------------------------
(* The venue's page.                                                       *)

Stamp(who) == now + clock[who]

VenueAtt(order, pin) ==
    [order |-> order, actor |-> venueSeen["venue"].signer,
     at |-> PickupPosition(gps["venue"], pin), ts |-> Stamp("venue")]

SignPickup ==
    LET mine == venueSeen["venue"]
    IN  /\ Underway /\ seen["venue"] = "Assigned"
        /\ venueCode' = VenueAtt("here", mine.pin)
        /\ signed' = IF status = "Assigned"
                     THEN [signed EXCEPT !.venue[mine.signer] = now] ELSE signed
        /\ UNCHANGED <<now, world, chain, mempool, view, driverCode, requestCode, pending, acts>>

-----------------------------------------------------------------------------
(* The driver's page.                                                      *)

\* The driver signs, and the venue's code is submitted unexamined.
SubmitPickup(code) ==
    /\ Underway /\ Mistakes(code)
    /\ seen["driver"] = "Assigned" /\ driverOp = Idle /\ code # NoCode
    /\ driverOp' = [at |-> "post", tx |->
          [method |-> "confirmPickup", venue |-> code,
           driver |-> [order |-> "here", ts |-> Stamp("driver"),
                       at |-> PickupPosition(gps["pickup"], venueSeen["driver"].pin)]]]
    /\ signed' = IF status = "Assigned" THEN [signed EXCEPT !.pickup = now] ELSE signed
    /\ UNCHANGED <<now, devices, chain, mempool, view, codes, customerOp>>

Signs(commit, open) ==
    /\ Underway /\ seen["driver"] = "PickedUp" /\ driverOp = Idle
    /\ driverCode' = [order |-> "here", commit |-> commit, ts |-> Stamp("driver"), open |-> open]
    /\ signed' = [signed EXCEPT !.dropoff = now]
    /\ UNCHANGED <<now, world, chain, mempool, view, venueCode, requestCode, pending, acts>>

\* With a fix: a position under a salt, both in the code.
SignDropoffHandoff ==
    /\ gps["dropoff"] # NoFix
    /\ Signs([at |-> gps["dropoff"], salt |-> OwnSalt], TRUE)

\* Without: the commitment the customer shows, unopened, for this order only.
SignDropoffRequest(request) ==
    /\ request.order = "here"
    /\ Signs(request.commit, FALSE)

-----------------------------------------------------------------------------
(* The customer's page.                                                    *)

SaltsInUse ==
    {c.commit.salt : c \in {driverCode, requestCode} \ {NoCode}} \cup {pending}

FreshSalt == Min(RequestSalts \ SaltsInUse)

Requests(salt) ==
    requestCode' = [order |-> "here", commit |-> [at |-> Drop, salt |-> salt]]

\* Mutant: a request already stored is not replaced.
Remembers_First(salt) == pending' = IF canStore /\ pending = 0 THEN salt ELSE pending
Remembers(salt) == pending' = IF canStore THEN salt ELSE pending

MakeDropoffRequest ==
    /\ Underway /\ seen["customer"] = "PickedUp" /\ customerOp.at \in {"idle", "prove"}
    /\ Requests(FreshSalt) /\ Remembers(FreshSalt)
    /\ UNCHANGED <<now, world, chain, mempool, view, venueCode, driverCode, acts, signed>>

\* driverWitness: the position in the code, or the drop under the salt stored.
Answers(code) == code.open \/ (pending # 0 /\ code.commit = [at |-> Drop, salt |-> pending])

\* confirmDelivery, until the proof; the radius is read before it.  Two at once,
\* begun while one proves, are not modelled: only one can be mined.
ConfirmDelivery(code) ==
    /\ Underway /\ Mistakes(code)
    /\ seen["customer"] = "PickedUp" /\ customerOp = Idle
    /\ code # NoCode
    /\ Answers(code)
    /\ customerOp' = [at |-> "prove", att |-> code, radius |-> geo.dropoff]
    /\ UNCHANGED <<now, devices, chain, mempool, view, codes, driverOp, signed>>

ProveProximity ==
    /\ Underway /\ customerOp.at = "prove"
    /\ customerOp' = IF Provable(customerOp.att.commit, customerOp.radius)
          THEN [at |-> "post", tx |->
                   [method |-> "confirmDropoffZK", att |-> customerOp.att,
                    proof |-> [order |-> "here", driver |-> customerOp.att.commit,
                               radius |-> customerOp.radius]]]
          ELSE Idle
    /\ UNCHANGED <<now, world, chain, mempool, view, codes, driverOp, signed>>

-----------------------------------------------------------------------------
(* Relay and chain.                                                        *)

\* An act that ends, well or not, forgets the request made.
DriverAct(op) == driverOp' = op
CustomerAct(op) == customerOp' = op /\ pending' = IF op = Idle THEN 0 ELSE pending

Waiting(op) == [op EXCEPT !.at = "wait"]

\* relaySettle: sent and answered, sent and not, or refused.
RelaySettle(op, then) ==
    /\ Underway /\ op.at = "post"
    /\ \/ then = Waiting(op) /\ mempool' = mempool \cup {op.tx} /\ UNCHANGED faults
       \/ then = Idle /\ mempool' \in {mempool, mempool \cup {op.tx}} /\ Fault
    /\ UNCHANGED <<now, devices, chain, view, venueCode, driverCode, requestCode, signed>>

SendPickup == \E then \in {Waiting(driverOp), Idle} :
    RelaySettle(driverOp, then) /\ DriverAct(then) /\ UNCHANGED <<pending, customerOp>>

SendDropoff == \E then \in {Waiting(customerOp), Idle} :
    RelaySettle(customerOp, then) /\ CustomerAct(then) /\ UNCHANGED driverOp

\* A transaction that reverts ends the wait as one that succeeds does.
Mine(tx) ==
    /\ Underway
    /\ mempool' = mempool \ {tx}
    /\ IF Confirms(tx)
       THEN /\ status' = IF tx.method = "confirmPickup" THEN "PickedUp" ELSE "Delivered"
            /\ signed' = Unsigned
       ELSE UNCHANGED <<status, signed>>
    /\ IF driverOp = [at |-> "wait", tx |-> tx]
       THEN DriverAct(Idle) ELSE UNCHANGED driverOp
    /\ IF customerOp = [at |-> "wait", tx |-> tx]
       THEN CustomerAct(Idle) ELSE UNCHANGED <<customerOp, pending>>
    /\ UNCHANGED <<now, world, venue, geo, view, venueCode, driverCode, requestCode>>

\* The blocks of a hand-off go with the status they are shown for, and the
\* codes in them; the driver's is one for both.
Refresh(p) ==
    /\ Underway
    /\ seen' = [seen EXCEPT ![p] = status]
    /\ venueSeen' = [q \in DOMAIN venueSeen |-> IF q = p THEN venue ELSE venueSeen[q]]
    /\ venueCode' = IF p = "venue" /\ (status # "Assigned" \/ venue.signer # venueSeen[p].signer)
                    THEN NoCode ELSE venueCode
    /\ UNCHANGED <<now, world, chain, mempool, driverCode, requestCode, pending, acts, signed>>

-----------------------------------------------------------------------------
(* What else happens.                                                      *)

Tick == /\ Underway /\ now < MaxTime /\ now' = now + 1
        /\ UNCHANGED <<world, chain, mempool, view, codes, acts, signed>>

SetSigner(s) == venue' = [venue EXCEPT !.signer = s] /\ UNCHANGED geo
SetLocation(p) == venue' = [venue EXCEPT !.pin = p] /\ UNCHANGED geo
SetGeoParams(g) == geo' = g /\ UNCHANGED venue

Changes ==
    /\ Underway /\ Fault
    /\ \/ \E s \in Signers \ {venue.signer} : SetSigner(s)
       \/ \E p \in Pins \ {venue.pin} : SetLocation(p)
       \/ \E g \in GeoParams \ {geo} : SetGeoParams(g)
    /\ UNCHANGED <<now, devices, status, mempool, view, codes, acts, signed>>

\* What a page holds is gone; what was stored or sent is not.
Reload(p) ==
    /\ Underway /\ Fault
    /\ venueCode' = IF p = "venue" THEN NoCode ELSE venueCode
    /\ IF p = "driver" THEN driverCode' = NoCode /\ driverOp' = Idle
                       ELSE UNCHANGED <<driverCode, driverOp>>
    /\ IF p = "customer" THEN requestCode' = NoCode /\ customerOp' = Idle
                         ELSE UNCHANGED <<requestCode, customerOp>>
    /\ UNCHANGED <<now, devices, chain, mempool, view, pending, signed>>

\* Codes of the same venue and driver for another order.
VenueElsewhere  == VenueAtt("elsewhere", venue.pin)
DriverElsewhere == [order |-> "elsewhere", commit |-> [at |-> Drop, salt |-> OwnSalt],
                    ts |-> Stamp("driver"), open |-> TRUE]
RequestElsewhere == [order |-> "elsewhere", commit |-> [at |-> Drop, salt |-> OwnSalt]]

Next ==
    \/ SignPickup
    \/ \E code \in {venueCode, VenueElsewhere} : SubmitPickup(code)
    \/ SignDropoffHandoff
    \/ \E request \in {requestCode, RequestElsewhere} : SignDropoffRequest(request)
    \/ MakeDropoffRequest
    \/ \E code \in {driverCode, DriverElsewhere} : ConfirmDelivery(code)
    \/ ProveProximity \/ SendPickup \/ SendDropoff
    \/ \E tx \in mempool : Mine(tx)
    \/ \E p \in Pages : Refresh(p) \/ Reload(p)
    \/ Tick \/ Changes

-----------------------------------------------------------------------------
(* Fairness: pages refresh, proofs end, the relay answers and the chain    *)
(* mines; and people who can sign, show and use a code that is good now do *)
(* so in the end, if they can again and again.                             *)

GoodVenueCode(code) ==
    /\ code # NoCode /\ code.order = "here" /\ code.actor = venue.signer
    /\ Fresh(code.ts) /\ Within(code.at, venue.pin, geo.pickup)

GoodDriverCode(code) ==
    /\ code # NoCode /\ code.order = "here" /\ Fresh(code.ts)
    /\ Answers(code) /\ Provable(code.commit, geo.dropoff)

MineFor(op) == op.at = "wait" /\ Mine(op.tx)

RequestStands == requestCode # NoCode /\ requestCode.commit.salt = pending

ProgramFairness ==
    /\ \A p \in Pages : WF_vars(Refresh(p))
    /\ WF_vars(ProveProximity) /\ WF_vars(SendPickup) /\ WF_vars(SendDropoff)
    /\ WF_vars(\E tx \in mempool : Mine(tx))
    /\ WF_vars(MineFor(driverOp)) /\ WF_vars(MineFor(customerOp))

PeopleFairness ==
    /\ WF_vars(SignPickup)
    /\ SF_vars(GoodVenueCode(venueCode) /\ SubmitPickup(venueCode))
    /\ SF_vars(SignDropoffHandoff)
    /\ SF_vars(~RequestStands /\ MakeDropoffRequest)
    /\ SF_vars(SignDropoffRequest(requestCode))
    /\ SF_vars(GoodDriverCode(driverCode) /\ ConfirmDelivery(driverCode))

Spec == Init /\ [][Next]_vars /\ ProgramFairness /\ PeopleFairness

-----------------------------------------------------------------------------
(* Properties.                                                             *)

\* By the signer's own clock, it signed for this order at most maxAge ago.
Recent(who, at) == at + clock[who] + geo.maxAge >= now

\* An order is picked up only if its driver and whoever is the venue's signer
\* now both signed for it recently, and delivered only if its driver did:
\* no code of another order, of a replaced signer or left over from an earlier
\* attempt will do, whatever was scanned, sent again or delayed
\* (FareSettlement.confirmPickup, confirmDropoffZK).
Consent ==
    [][/\ status' = "PickedUp" /\ status # "PickedUp" =>
              Recent("driver", signed.pickup) /\ Recent("venue", signed.venue[venue.signer])
       /\ status' = "Delivered" /\ status # "Delivered" =>
              Recent("driver", signed.dropoff)]_vars

\* What the code needs to bring this hand-off about.
Possible ==
    /\ \A who \in DOMAIN clock : Fresh(Stamp(who))
    /\ status = "Assigned" =>
          \A who \in {"venue", "pickup"} :
              Within(PickupPosition(gps[who], venue.pin), venue.pin, geo.pickup)
    /\ status = "PickedUp" =>
          IF gps["dropoff"] = NoFix THEN canStore ELSE Within(gps["dropoff"], Drop, geo.dropoff)

\* Where the clocks are not too far off and each device at the counter is near
\* the pin or has no fix at all, the goods are handed over; where the driver has
\* a fix near the door, or none and the customer's device can store its request,
\* the delivery is confirmed: no lost reply, reload, stale code or change of
\* signer, pin or radius leaves the two with codes that never match
\* (submitPickup, makeDropoffRequest, driverWitness, confirmDelivery).
HandoffsComplete == <>[]Possible => <>(status = "Delivered")
=============================================================================
