---------------------------- MODULE HandoffProofs ----------------------------
(***************************************************************************)
(* Nobody's goods change hands without recent signatures, for any places,  *)
(* clocks, radii, ages, signers, and any number of mistakes and faults.    *)
(* The argument: a code of this order carries a time its signer has signed *)
(* at or later, wherever the code has got to; and no code for the delivery *)
(* exists before the pickup, so none can be left over from an attempt      *)
(* before it.                                                              *)
(* After it: what the customer's device sends can fail for few reasons.    *)
(***************************************************************************)
EXTENDS Handoff, TLAPS

Statuses == {"Assigned", "PickedUp", "Delivered"}
Who == {"venue", "driver"}

HandoffType ==
    /\ now \in Nat
    /\ clock \in [Who -> Int]
    /\ status \in Statuses
    /\ venue \in [signer : Signers, pin : Pins]
    /\ geo \in [maxAge : Nat, skew : Nat, pickup : Nat, dropoff : Nat]
    /\ seen \in [Pages -> Statuses]
    /\ venueSeen \in [Who -> [signer : Signers, pin : Pins]]
    /\ signed \in [pickup : Int, dropoff : Int, venue : [Signers -> Int]]

\* Signatures are past, and a page is never ahead of the chain.
SignedPast ==
    /\ signed.pickup <= now /\ signed.dropoff <= now
    /\ \A s \in Signers : signed.venue[s] <= now

SeenPast == status = "Assigned" => \A p \in Pages : seen[p] # "PickedUp"

\* A code of this order is no later than its signer's last signature.
VenueStamped(code) ==
    code.order = "here" =>
        /\ code.actor \in Signers /\ code.ts \in Int
        /\ code.ts <= signed.venue[code.actor] + clock["venue"]

DriverStamped(code) ==
    code.order = "here" => code.ts \in Int /\ code.ts <= signed.pickup + clock["driver"]

DropoffStamped(code) ==
    code.order = "here" =>
        /\ status # "Assigned"
        /\ status = "PickedUp" =>
              code.ts \in Int /\ code.ts <= signed.dropoff + clock["driver"]

\* The same of what is sent.
Stamped(tx) ==
    /\ tx.method \in {"confirmPickup", "confirmDropoffZK"}
    /\ tx.method = "confirmPickup" /\ status = "Assigned" =>
          VenueStamped(tx.venue) /\ DriverStamped(tx.driver)
    /\ tx.method = "confirmDropoffZK" => tx.proof.order = "here" /\ DropoffStamped(tx.att)

Op == {"post", "wait"}

DriverOpInv ==
    \/ driverOp = Idle
    \/ \E at \in Op : \E tx : driverOp = [at |-> at, tx |-> tx] /\ (at = "post" => Stamped(tx))

CustomerOpInv ==
    \/ customerOp = Idle
    \/ \E att, r : customerOp = [at |-> "prove", att |-> att, radius |-> r] /\ DropoffStamped(att)
    \/ \E at \in Op : \E tx : customerOp = [at |-> at, tx |-> tx] /\ (at = "post" => Stamped(tx))

HInv ==
    /\ HandoffType /\ SignedPast /\ SeenPast
    /\ status = "Assigned" => VenueStamped(venueCode)
    /\ DropoffStamped(driverCode)
    /\ DriverOpInv /\ CustomerOpInv
    /\ \A tx \in mempool : Stamped(tx)

-----------------------------------------------------------------------------
(* What time and the chain do to a code that exists.                       *)

\* Signatures are renewed, or the order moves on.
Advance ==
    /\ clock' = clock
    /\ \/ /\ status' = status
          /\ signed'.pickup >= signed.pickup /\ signed'.dropoff >= signed.dropoff
          /\ \A s \in Signers : signed'.venue[s] >= signed.venue[s]
       \/ status = "Assigned" /\ status' = "PickedUp"
       \/ status = "PickedUp" /\ status' = "Delivered"

LEMMA SignedInts ==
    ASSUME HandoffType
    PROVE  /\ clock["venue"] \in Int /\ clock["driver"] \in Int
           /\ signed.pickup \in Int /\ signed.dropoff \in Int
           /\ \A s \in Signers : signed.venue[s] \in Int
           /\ now \in Nat
BY DEF HandoffType, Who

LEMMA SignedIntsAfter ==
    ASSUME HandoffType'
    PROVE  /\ signed'.pickup \in Int /\ signed'.dropoff \in Int
           /\ \A s \in Signers : signed'.venue[s] \in Int
           /\ now' \in Nat
BY DEF HandoffType

LEMMA Ordered ==
    ASSUME NEW a \in Int, NEW b \in Int, NEW c \in Int, NEW d \in Int, a <= b + c, d >= b
    PROVE  a <= d + c
OBVIOUS

LEMMA VenueKept ==
    ASSUME HandoffType, HandoffType', Advance, NEW code, status = "Assigned",
           status' = "Assigned", VenueStamped(code)
    PROVE  VenueStamped(code)'
<1> SUFFICES ASSUME code.order = "here"
             PROVE  /\ code.actor \in Signers /\ code.ts \in Int
                    /\ code.ts <= signed'.venue[code.actor] + clock'["venue"]
  BY DEF VenueStamped
<1>1. code.actor \in Signers /\ code.ts \in Int
      /\ code.ts <= signed.venue[code.actor] + clock["venue"]
  BY DEF VenueStamped
<1> DEFINE s == code.actor
           t == code.ts
<1>2. s \in Signers /\ t \in Int /\ t <= signed.venue[s] + clock["venue"]
  BY <1>1
<1> HIDE DEF s, t
<1>3. signed'.venue[s] >= signed.venue[s] /\ clock' = clock
  BY <1>2 DEF Advance
<1>4. t <= signed'.venue[s] + clock["venue"]
  BY <1>2, <1>3, SignedInts, SignedIntsAfter, Ordered
<1> QED
  BY <1>2, <1>3, <1>4 DEF s, t

LEMMA DriverKept ==
    ASSUME HandoffType, HandoffType', Advance, NEW code, status = "Assigned",
           status' = "Assigned", DriverStamped(code)
    PROVE  DriverStamped(code)'
<1> DEFINE t == code.ts
<1> SUFFICES ASSUME code.order = "here"
             PROVE  t \in Int /\ t <= signed'.pickup + clock'["driver"]
  BY DEF DriverStamped
<1>1. t \in Int /\ t <= signed.pickup + clock["driver"]
  BY DEF DriverStamped
<1> HIDE DEF t
<1>2. signed'.pickup >= signed.pickup /\ clock' = clock
  BY DEF Advance
<1> QED
  BY <1>1, <1>2, SignedInts, SignedIntsAfter, Ordered

LEMMA DropoffKept ==
    ASSUME HandoffType, HandoffType', Advance, NEW code, DropoffStamped(code)
    PROVE  DropoffStamped(code)'
<1> DEFINE t == code.ts
<1> SUFFICES ASSUME code.order = "here"
             PROVE  /\ status' # "Assigned"
                    /\ status' = "PickedUp" =>
                          t \in Int /\ t <= signed'.dropoff + clock'["driver"]
  BY DEF DropoffStamped
<1>1. /\ status # "Assigned"
      /\ status = "PickedUp" => t \in Int /\ t <= signed.dropoff + clock["driver"]
  BY DEF DropoffStamped
<1> HIDE DEF t
<1>2. CASE status' = "PickedUp"
  <2>1. /\ status = "PickedUp" /\ clock' = clock
        /\ signed'.dropoff >= signed.dropoff
    BY <1>1, <1>2 DEF Advance
  <2> QED
    BY <1>1, <1>2, <2>1, SignedInts, SignedIntsAfter, Ordered
<1>3. CASE status' # "PickedUp"
  BY <1>1, <1>3 DEF Advance
<1> QED
  BY <1>2, <1>3

LEMMA StampedKept ==
    ASSUME HandoffType, HandoffType', Advance, NEW tx, Stamped(tx)
    PROVE  Stamped(tx)'
<1>1. ASSUME tx.method = "confirmPickup", status' = "Assigned"
      PROVE  VenueStamped(tx.venue)' /\ DriverStamped(tx.driver)'
  <2>1. status = "Assigned"
    BY <1>1 DEF Advance
  <2>2. VenueStamped(tx.venue) /\ DriverStamped(tx.driver)
    BY <1>1, <2>1 DEF Stamped
  <2>3. \A c : VenueStamped(c) => VenueStamped(c)'
    BY <1>1, <2>1, VenueKept
  <2>4. \A c : DriverStamped(c) => DriverStamped(c)'
    BY <1>1, <2>1, DriverKept
  <2> QED
    BY <2>2, <2>3, <2>4
<1>2. ASSUME tx.method = "confirmDropoffZK"
      PROVE  tx.proof.order = "here" /\ DropoffStamped(tx.att)'
  <2>1. tx.proof.order = "here" /\ DropoffStamped(tx.att)
    BY <1>2 DEF Stamped
  <2>2. \A c : DropoffStamped(c) => DropoffStamped(c)'
    BY DropoffKept
  <2> QED
    BY <2>1, <2>2
<1> QED
  BY <1>1, <1>2 DEF Stamped

-----------------------------------------------------------------------------
(* Codes and calls no step touches keep what is known of them.             *)

LEMMA KeptOps ==
    ASSUME HInv, HandoffType', Advance
    PROVE  /\ driverOp' = driverOp => DriverOpInv'
           /\ customerOp' = customerOp => CustomerOpInv'
<1>1. \A tx : Stamped(tx) => Stamped(tx)'
  BY StampedKept DEF HInv
<1>2. \A c : DropoffStamped(c) => DropoffStamped(c)'
  BY DropoffKept DEF HInv
<1>3. ASSUME driverOp' = driverOp PROVE DriverOpInv'
  BY <1>1, <1>3 DEF HInv, DriverOpInv
<1>4. ASSUME customerOp' = customerOp PROVE CustomerOpInv'
  <2>1. CASE customerOp = Idle
    BY <1>4, <2>1 DEF CustomerOpInv
  <2>2. CASE \E att, r : /\ customerOp = [at |-> "prove", att |-> att, radius |-> r]
                         /\ DropoffStamped(att)
    BY <1>2, <1>4, <2>2 DEF CustomerOpInv
  <2>3. CASE \E at \in Op : \E tx : /\ customerOp = [at |-> at, tx |-> tx]
                                /\ (at = "post" => Stamped(tx))
    BY <1>1, <1>4, <2>3 DEF CustomerOpInv
  <2> QED
    BY <2>1, <2>2, <2>3 DEF HInv, CustomerOpInv
<1> QED
  BY <1>3, <1>4

LEMMA KeptCodes ==
    ASSUME HInv, HandoffType', Advance
    PROVE  /\ driverCode' = driverCode => DropoffStamped(driverCode)'
           /\ venueCode' = venueCode => (status' = "Assigned" => VenueStamped(venueCode)')
           /\ \A tx \in mempool : Stamped(tx)'
<1>1. \A tx : Stamped(tx) => Stamped(tx)'
  BY StampedKept DEF HInv
<1>2. ASSUME driverCode' = driverCode PROVE DropoffStamped(driverCode)'
  <2>1. PICK k : k = driverCode
    OBVIOUS
  <2>2. DropoffStamped(k)
    BY <2>1 DEF HInv
  <2>3. DropoffStamped(k)'
    BY <2>2, DropoffKept DEF HInv
  <2> QED
    BY <1>2, <2>1, <2>3 DEF DropoffStamped
<1>3. ASSUME venueCode' = venueCode, status' = "Assigned" PROVE VenueStamped(venueCode)'
  <2>1. status = "Assigned"
    BY <1>3 DEF Advance
  <2>2. PICK k : k = venueCode
    OBVIOUS
  <2>3. VenueStamped(k)
    BY <2>1, <2>2 DEF HInv
  <2>4. VenueStamped(k)'
    BY <1>3, <2>1, <2>3, VenueKept DEF HInv
  <2> QED
    BY <1>3, <2>2, <2>4 DEF VenueStamped
<1> QED
  BY <1>1, <1>2, <1>3 DEF HInv

\* A step that signs nothing, and what it leaves alone.
Still == UNCHANGED <<clock, status, signed>>

LEMMA StillAdvances ==
    ASSUME HandoffType, Still PROVE Advance
BY SignedInts DEF Advance, Still, HandoffType

LEMMA NoCodeStamped == VenueStamped(NoCode) /\ DropoffStamped(NoCode)
BY DEF NoCode, VenueStamped, DropoffStamped

LEMMA NoCodeAfter == VenueStamped(NoCode)' /\ DropoffStamped(NoCode)'
BY DEF NoCode, VenueStamped, DropoffStamped

-----------------------------------------------------------------------------
(* Signing.                                                                *)

LEMMA StampInt ==
    ASSUME HandoffType, NEW who \in Who
    PROVE  Stamp(who) \in Int /\ Stamp(who) = now + clock[who]
BY DEF HandoffType, Stamp

LEMMA SignedFields ==
    ASSUME HandoffType, NEW s \in Signers
    PROVE  /\ LET e == [signed EXCEPT !.venue[s] = now] IN
              /\ e \in [pickup : Int, dropoff : Int, venue : [Signers -> Int]]
              /\ e.pickup = signed.pickup /\ e.dropoff = signed.dropoff
              /\ e.venue[s] = now /\ \A r \in Signers \ {s} : e.venue[r] = signed.venue[r]
           /\ LET e == [signed EXCEPT !.pickup = now] IN
              /\ e \in [pickup : Int, dropoff : Int, venue : [Signers -> Int]]
              /\ e.pickup = now /\ e.dropoff = signed.dropoff /\ e.venue = signed.venue
           /\ LET e == [signed EXCEPT !.dropoff = now] IN
              /\ e \in [pickup : Int, dropoff : Int, venue : [Signers -> Int]]
              /\ e.dropoff = now /\ e.pickup = signed.pickup /\ e.venue = signed.venue
BY DEF HandoffType

LEMMA SignPickupHInv == HInv /\ SignPickup => HInv'
<1> SUFFICES ASSUME HInv, SignPickup PROVE HInv'
  OBVIOUS
<1> DEFINE s == venueSeen["venue"].signer
           e == [signed EXCEPT !.venue[s] = now]
           c == VenueAtt("here", venueSeen["venue"].pin)
<1>0. HandoffType /\ SignedPast /\ SeenPast
  BY DEF HInv
<1>1. s \in Signers
  BY <1>0 DEF HandoffType, Who
<1>2. /\ venueCode' = c
      /\ signed' = IF status = "Assigned" THEN e ELSE signed
      /\ UNCHANGED <<now, clock, status, venue, geo, seen, venueSeen, driverCode, driverOp,
                     customerOp, mempool>>
  BY DEF SignPickup, world, devices, chain, view, acts
<1>3. c.order = "here" /\ c.actor = s /\ c.ts = Stamp("venue")
  BY DEF VenueAtt
<1> HIDE DEF c
<1>4. /\ e \in [pickup : Int, dropoff : Int, venue : [Signers -> Int]]
      /\ e.pickup = signed.pickup /\ e.dropoff = signed.dropoff
      /\ e.venue[s] = now /\ \A r \in Signers \ {s} : e.venue[r] = signed.venue[r]
  BY <1>0, <1>1, SignedFields
<1> HIDE DEF e, s
<1>5. HandoffType'
  BY <1>0, <1>2, <1>4 DEF HandoffType
<1>6. /\ signed'.pickup = signed.pickup /\ signed'.dropoff = signed.dropoff
      /\ status = "Assigned" => signed'.venue[s] = now
      /\ \A r \in Signers : signed'.venue[r] = signed.venue[r] \/ signed'.venue[r] = now
  BY <1>2, <1>4
<1>7. Advance
  <2>1. \A r \in Signers : signed'.venue[r] >= signed.venue[r]
    BY <1>0, <1>6, SignedInts DEF SignedPast
  <2> QED
    BY <1>0, <1>2, <1>6, <2>1, SignedInts DEF Advance
<1>8. SignedPast' /\ SeenPast'
  BY <1>0, <1>2, <1>6, SignedInts DEF SignedPast, SeenPast
<1>9. status' = "Assigned" => VenueStamped(venueCode)'
  <2> SUFFICES ASSUME status = "Assigned"
               PROVE  /\ c.actor \in Signers /\ c.ts \in Int
                      /\ c.ts <= signed'.venue[c.actor] + clock'["venue"]
    BY <1>2 DEF VenueStamped
  <2>1. c.ts = now + clock["venue"] /\ c.ts \in Int
    BY <1>0, <1>3, StampInt DEF Who
  <2>2. signed'.venue[s] + clock'["venue"] = now + clock["venue"]
    BY <1>2, <1>6
  <2>3. c.ts = signed'.venue[c.actor] + clock'["venue"]
    BY <1>3, <2>1, <2>2
  <2> QED
    BY <1>1, <1>3, <2>1, <2>3
<1> QED
  BY <1>2, <1>5, <1>7, <1>8, <1>9, KeptOps, KeptCodes DEF HInv

LEMMA SignsHInv ==
    ASSUME HInv, NEW commit, NEW open, Signs(commit, open)
    PROVE  HInv'
<1> DEFINE e == [signed EXCEPT !.dropoff = now]
           c == [order |-> "here", commit |-> commit, ts |-> Stamp("driver"), open |-> open]
<1>0. HandoffType /\ SignedPast /\ SeenPast
  BY DEF HInv
<1>1. /\ driverCode' = c /\ signed' = e /\ seen["driver"] = "PickedUp"
      /\ UNCHANGED <<now, clock, status, venue, geo, seen, venueSeen, venueCode, driverOp,
                     customerOp, mempool>>
  BY DEF Signs, world, devices, chain, view, acts
<1>2. c.order = "here" /\ c.ts = Stamp("driver")
  OBVIOUS
<1> HIDE DEF c
<1>3. /\ e \in [pickup : Int, dropoff : Int, venue : [Signers -> Int]]
      /\ e.dropoff = now /\ e.pickup = signed.pickup /\ e.venue = signed.venue
  BY <1>0 DEF HandoffType
<1> HIDE DEF e
<1>4. HandoffType'
  BY <1>0, <1>1, <1>3 DEF HandoffType
<1>5. Advance
  BY <1>0, <1>1, <1>3, SignedInts DEF Advance, SignedPast
<1>6. SignedPast' /\ SeenPast'
  BY <1>0, <1>1, <1>3, SignedInts DEF SignedPast, SeenPast
<1>7. status # "Assigned"
  BY <1>0, <1>1 DEF SeenPast, Pages
<1>8. DropoffStamped(driverCode)'
  <2>1. c.ts = now + clock["driver"] /\ c.ts \in Int
    BY <1>0, <1>2, StampInt DEF Who
  <2>2. signed'.dropoff + clock'["driver"] = now + clock["driver"]
    BY <1>1, <1>3
  <2>3. c.ts <= signed'.dropoff + clock'["driver"]
    BY <2>1, <2>2
  <2> QED
    BY <1>1, <1>7, <2>1, <2>3 DEF DropoffStamped
<1> QED
  BY <1>1, <1>4, <1>5, <1>6, <1>8, KeptOps, KeptCodes DEF HInv

-----------------------------------------------------------------------------
(* Submitting.                                                             *)

\* The code submitted is the one shown, or of another order.
LEMMA SubmitPickupHInv ==
    ASSUME HInv, NEW code, code = venueCode \/ code.order # "here", SubmitPickup(code)
    PROVE  HInv'
<1> DEFINE e == [signed EXCEPT !.pickup = now]
<1>d. PICK d : d = [order |-> "here", ts |-> Stamp("driver"),
                    at |-> PickupPosition(gps["pickup"], venueSeen["driver"].pin)]
  OBVIOUS
<1>tx. PICK tx : tx = [method |-> "confirmPickup", venue |-> code, driver |-> d]
  OBVIOUS
<1>0. HandoffType /\ SignedPast /\ SeenPast
  BY DEF HInv
<1>1. /\ driverOp' = [at |-> "post", tx |-> tx]
      /\ signed' = IF status = "Assigned" THEN e ELSE signed
      /\ UNCHANGED <<now, clock, status, venue, geo, seen, venueSeen, venueCode, driverCode,
                     customerOp, mempool>>
  BY <1>d, <1>tx DEF SubmitPickup, devices, chain, view, codes
<1>2. d.ts = Stamp("driver")
  BY <1>d
<1>3. tx.method = "confirmPickup" /\ tx.venue = code /\ tx.driver = d
  BY <1>tx
<1>4. /\ e \in [pickup : Int, dropoff : Int, venue : [Signers -> Int]]
      /\ e.pickup = now /\ e.dropoff = signed.dropoff /\ e.venue = signed.venue
  BY <1>0 DEF HandoffType
<1> HIDE DEF e
<1>5. HandoffType'
  BY <1>0, <1>1, <1>4 DEF HandoffType
<1>6. Advance
  BY <1>0, <1>1, <1>4, SignedInts DEF Advance, SignedPast
<1>7. SignedPast' /\ SeenPast'
  BY <1>0, <1>1, <1>4, SignedInts DEF SignedPast, SeenPast
<1>8. ASSUME status' = "Assigned" PROVE DriverStamped(d)'
  <2>1. d.ts = now + clock["driver"] /\ d.ts \in Int
    BY <1>0, <1>2, StampInt DEF Who
  <2>2. signed'.pickup + clock'["driver"] = now + clock["driver"]
    BY <1>1, <1>4, <1>8
  <2>3. d.ts <= signed'.pickup + clock'["driver"]
    BY <2>1, <2>2
  <2> QED
    BY <2>1, <2>3 DEF DriverStamped
<1>9. ASSUME status' = "Assigned" PROVE VenueStamped(code)'
  <2>1. CASE code.order # "here"
    BY <2>1 DEF VenueStamped
  <2>2. CASE code = venueCode
    <3>1. VenueStamped(code)
      BY <1>1, <1>9, <2>2 DEF HInv
    <3> QED
      BY <1>0, <1>1, <1>5, <1>6, <1>9, <3>1, VenueKept
  <2> QED
    BY <2>1, <2>2
<1>10. Stamped(tx)'
  BY <1>3, <1>8, <1>9 DEF Stamped
<1>11. DriverOpInv'
  BY <1>1, <1>10 DEF DriverOpInv, Op
<1> QED
  BY <1>1, <1>5, <1>6, <1>7, <1>11, KeptOps, KeptCodes DEF HInv

\* Steps that sign nothing keep the types and the times.
LEMMA StillKeeps ==
    ASSUME HInv, Still, UNCHANGED <<now, venue, geo, seen, venueSeen>>
    PROVE  HandoffType' /\ Advance /\ SignedPast' /\ SeenPast'
<1>1. HandoffType /\ SignedPast /\ SeenPast
  BY DEF HInv
<1>2. HandoffType' /\ SignedPast' /\ SeenPast'
  BY <1>1 DEF Still, HandoffType, SignedPast, SeenPast
<1> QED
  BY <1>1, <1>2, StillAdvances

LEMMA ConfirmDeliveryHInv ==
    ASSUME HInv, NEW code, code = driverCode \/ code.order # "here", ConfirmDelivery(code)
    PROVE  HInv'
<1>1. /\ customerOp' = [at |-> "prove", att |-> code, radius |-> geo.dropoff]
      /\ Still /\ UNCHANGED <<now, venue, geo, seen, venueSeen, venueCode, driverCode,
                              driverOp, mempool>>
  BY DEF ConfirmDelivery, Still, devices, chain, view, codes
<1>2. HandoffType' /\ Advance /\ SignedPast' /\ SeenPast'
  BY <1>1, StillKeeps
<1>3. DropoffStamped(code)
  BY DEF HInv, DropoffStamped
<1>4. DropoffStamped(code)'
  BY <1>2, <1>3, DropoffKept DEF HInv
<1>5. CustomerOpInv'
  BY <1>1, <1>4 DEF CustomerOpInv
<1> QED
  BY <1>1, <1>2, <1>5, KeptOps, KeptCodes DEF HInv

LEMMA ProveProximityHInv == HInv /\ ProveProximity => HInv'
<1> SUFFICES ASSUME HInv, ProveProximity PROVE HInv'
  OBVIOUS
<1>1. /\ Still /\ UNCHANGED <<now, venue, geo, seen, venueSeen, venueCode, driverCode,
                              driverOp, mempool>>
      /\ customerOp.at = "prove"
  BY DEF ProveProximity, Still, world, devices, chain, view, codes
<1>2. HandoffType' /\ Advance /\ SignedPast' /\ SeenPast'
  BY <1>1, StillKeeps
<1>3. PICK att, r : /\ customerOp = [at |-> "prove", att |-> att, radius |-> r]
                    /\ DropoffStamped(att)
  BY <1>1 DEF HInv, CustomerOpInv, Idle, Op
<1>p. PICK proof : proof = [order |-> "here", driver |-> customerOp.att.commit,
                            radius |-> customerOp.radius]
  OBVIOUS
<1>tx. PICK tx : tx = [method |-> "confirmDropoffZK", att |-> att, proof |-> proof]
  OBVIOUS
<1>4. customerOp.att = att
  BY <1>3
<1>5. customerOp' = Idle \/ customerOp' = [at |-> "post", tx |-> tx]
  BY <1>p, <1>tx, <1>4 DEF ProveProximity
<1>6. proof.order = "here"
  BY <1>p
<1>7. tx.method = "confirmDropoffZK" /\ tx.att = att /\ tx.proof.order = "here"
  BY <1>tx, <1>6
<1>8. DropoffStamped(att)'
  BY <1>2, <1>3, DropoffKept DEF HInv
<1>9. Stamped(tx)'
  BY <1>7, <1>8 DEF Stamped
<1>10. CustomerOpInv'
  BY <1>5, <1>9 DEF CustomerOpInv, Op
<1> QED
  BY <1>1, <1>2, <1>10, KeptOps, KeptCodes DEF HInv

\* What is posted is sent, and what is sent is waited for or forgotten.
LEMMA SendPickupHInv == HInv /\ SendPickup => HInv'
<1> SUFFICES ASSUME HInv, SendPickup PROVE HInv'
  OBVIOUS
<1>1. PICK then \in {Waiting(driverOp), Idle} :
         /\ driverOp.at = "post" /\ mempool' \subseteq mempool \cup {driverOp.tx}
         /\ driverOp' = then
         /\ Still /\ UNCHANGED <<now, venue, geo, seen, venueSeen, venueCode, driverCode,
                                 customerOp>>
  BY DEF SendPickup, RelaySettle, DriverAct, Still, devices, chain, view
<1>2. HandoffType' /\ Advance /\ SignedPast' /\ SeenPast'
  BY <1>1, StillKeeps
<1> DEFINE Acting(at, tx) == driverOp = [at |-> at, tx |-> tx] /\ (at = "post" => Stamped(tx))
<1>20. \E at \in Op : \E tx : Acting(at, tx)
  BY <1>1 DEF HInv, DriverOpInv, Idle
<1>3. PICK at, tx : at \in Op /\ Acting(at, tx)
  BY <1>20
<1>4. driverOp.tx = tx /\ Stamped(tx) /\ Waiting(driverOp) = [at |-> "wait", tx |-> tx]
  BY <1>1, <1>3 DEF Waiting
<1>5. Stamped(tx)'
  BY <1>2, <1>4, StampedKept DEF HInv
<1>6. \A t \in mempool' : Stamped(t)'
  BY <1>1, <1>2, <1>4, <1>5, KeptCodes
<1>7. DriverOpInv'
  BY <1>1, <1>4 DEF DriverOpInv, Op
<1> QED
  BY <1>1, <1>2, <1>6, <1>7, KeptOps, KeptCodes DEF HInv

LEMMA SendDropoffHInv == HInv /\ SendDropoff => HInv'
<1> SUFFICES ASSUME HInv, SendDropoff PROVE HInv'
  OBVIOUS
<1>1. PICK then \in {Waiting(customerOp), Idle} :
         /\ customerOp.at = "post" /\ mempool' \subseteq mempool \cup {customerOp.tx}
         /\ customerOp' = then
         /\ Still /\ UNCHANGED <<now, venue, geo, seen, venueSeen, venueCode, driverCode,
                                 driverOp>>
  BY DEF SendDropoff, RelaySettle, CustomerAct, Still, devices, chain, view
<1>2. HandoffType' /\ Advance /\ SignedPast' /\ SeenPast'
  BY <1>1, StillKeeps
<1> DEFINE Acting(at, tx) == customerOp = [at |-> at, tx |-> tx] /\ (at = "post" => Stamped(tx))
<1>20. \E at \in Op : \E tx : Acting(at, tx)
  BY <1>1 DEF HInv, CustomerOpInv, Idle
<1>3. PICK at, tx : at \in Op /\ Acting(at, tx)
  BY <1>20
<1>4. customerOp.tx = tx /\ Stamped(tx) /\ Waiting(customerOp) = [at |-> "wait", tx |-> tx]
  BY <1>1, <1>3 DEF Waiting
<1>5. Stamped(tx)'
  BY <1>2, <1>4, StampedKept DEF HInv
<1>6. \A t \in mempool' : Stamped(t)'
  BY <1>1, <1>2, <1>4, <1>5, KeptCodes
<1>7. CustomerOpInv'
  BY <1>1, <1>4 DEF CustomerOpInv, Op
<1> QED
  BY <1>1, <1>2, <1>6, <1>7, KeptOps, KeptCodes DEF HInv

-----------------------------------------------------------------------------
(* The chain, the pages and the rest.                                      *)

LEMMA MineHInv ==
    ASSUME HInv, NEW tx \in mempool, Mine(tx)
    PROVE  HInv'
<1>0. HandoffType /\ SignedPast /\ SeenPast
  BY DEF HInv
<1>1. /\ mempool' \subseteq mempool
      /\ UNCHANGED <<now, clock, venue, geo, seen, venueSeen, venueCode, driverCode>>
      /\ driverOp' \in {driverOp, Idle} /\ customerOp' \in {customerOp, Idle}
  BY DEF Mine, DriverAct, CustomerAct, world, devices, view
<1>2. \/ UNCHANGED <<status, signed>>
      \/ /\ signed' = Unsigned
         /\ \/ status = "Assigned" /\ status' = "PickedUp"
            \/ status = "PickedUp" /\ status' = "Delivered"
  <2>1. tx.method \in {"confirmPickup", "confirmDropoffZK"}
    BY DEF HInv, Stamped
  <2> QED
    BY <2>1 DEF Mine, Confirms, ConfirmsPickup, ConfirmsDropoff
<1>3. /\ Unsigned \in [pickup : Int, dropoff : Int, venue : [Signers -> Int]]
      /\ Unsigned.pickup = Never /\ Unsigned.dropoff = Never
      /\ \A s \in Signers : Unsigned.venue[s] = Never
  BY DEF Unsigned, Never
<1>4. HandoffType'
  BY <1>0, <1>1, <1>2, <1>3 DEF HandoffType, Statuses
<1>5. Advance
  <2>1. CASE UNCHANGED <<status, signed>>
    BY <1>0, <1>1, <2>1, StillAdvances DEF Still
  <2>2. CASE ~ UNCHANGED <<status, signed>>
    BY <1>1, <1>2, <2>2 DEF Advance
  <2> QED
    BY <2>1, <2>2
<1>6. SignedPast'
  <2>1. CASE UNCHANGED <<status, signed>>
    BY <1>0, <1>1, <2>1 DEF SignedPast
  <2>2. CASE signed' = Unsigned
    BY <1>1, <1>3, <2>2, SignedInts, <1>0 DEF SignedPast, Never
  <2> QED
    BY <1>2, <2>1, <2>2
<1>7. SeenPast'
  BY <1>0, <1>1, <1>2 DEF SeenPast
<1>8. DriverOpInv' /\ CustomerOpInv'
  <2>1. (driverOp' = Idle => DriverOpInv') /\ (customerOp' = Idle => CustomerOpInv')
    BY DEF DriverOpInv, CustomerOpInv
  <2> QED
    BY <1>1, <1>4, <1>5, <2>1, KeptOps
<1> QED
  BY <1>1, <1>4, <1>5, <1>6, <1>7, <1>8, KeptCodes DEF HInv

LEMMA RefreshHInv ==
    ASSUME HInv, NEW p \in Pages, Refresh(p)
    PROVE  HInv'
<1>0. HandoffType /\ SignedPast /\ SeenPast
  BY DEF HInv
<1>1. /\ seen' = [seen EXCEPT ![p] = status]
      /\ venueSeen' = [q \in DOMAIN venueSeen |-> IF q = p THEN venue ELSE venueSeen[q]]
      /\ venueCode' \in {NoCode, venueCode}
      /\ Still /\ UNCHANGED <<now, venue, geo, driverCode, driverOp, customerOp, mempool>>
  BY DEF Refresh, Still, world, devices, chain, acts
<1>2. HandoffType'
  BY <1>0, <1>1 DEF HandoffType, Still
<1>3. Advance /\ SignedPast'
  BY <1>0, <1>1, StillAdvances DEF Still, SignedPast
<1>4. SeenPast'
  <2>1. seen \in [Pages -> Statuses] /\ status' = status
    BY <1>0, <1>1 DEF HandoffType, Still
  <2> QED
    BY <1>0, <1>1, <2>1 DEF SeenPast
<1>5. status' = "Assigned" => VenueStamped(venueCode)'
  <2>1. venueCode' = NoCode => VenueStamped(venueCode)'
    BY DEF VenueStamped, NoCode
  <2> QED
    BY <1>1, <1>2, <1>3, <2>1, KeptCodes
<1> QED
  BY <1>1, <1>2, <1>3, <1>4, <1>5, KeptOps, KeptCodes DEF HInv

LEMMA ReloadHInv ==
    ASSUME HInv, NEW p \in Pages, Reload(p)
    PROVE  HInv'
<1>1. /\ venueCode' \in {NoCode, venueCode} /\ driverCode' \in {NoCode, driverCode}
      /\ driverOp' \in {Idle, driverOp} /\ customerOp' \in {Idle, customerOp}
      /\ Still /\ UNCHANGED <<now, venue, geo, seen, venueSeen, mempool>>
  BY DEF Reload, Still, devices, chain, view
<1>2. HandoffType' /\ Advance /\ SignedPast' /\ SeenPast'
  BY <1>1, StillKeeps
<1>3. /\ venueCode' = NoCode => VenueStamped(venueCode)'
      /\ driverCode' = NoCode => DropoffStamped(driverCode)'
  BY DEF VenueStamped, DropoffStamped, NoCode
<1>4. (driverOp' = Idle => DriverOpInv') /\ (customerOp' = Idle => CustomerOpInv')
  BY DEF DriverOpInv, CustomerOpInv
<1> QED
  BY <1>1, <1>2, <1>3, <1>4, KeptOps, KeptCodes DEF HInv

LEMMA RestHInv ==
    ASSUME HInv, MakeDropoffRequest \/ Tick \/ Changes \/ UNCHANGED vars
    PROVE  HInv'
<1>0. HandoffType /\ SignedPast /\ SeenPast
  BY DEF HInv
<1>1. /\ Still /\ UNCHANGED <<seen, venueSeen, venueCode, driverCode, driverOp, customerOp, mempool>>
      /\ now' \in {now, now + 1}
  BY DEF MakeDropoffRequest, Tick, Changes, Still, vars, world, devices, chain, view, codes, acts
<1>2. UNCHANGED <<venue, geo>> \/ Changes
  BY DEF MakeDropoffRequest, Tick, vars, chain
<1>3. /\ venue' \in [signer : Signers, pin : Pins]
      /\ geo' \in [maxAge : Nat, skew : Nat, pickup : Nat, dropoff : Nat]
  <2>1. CASE UNCHANGED <<venue, geo>>
    BY <1>0, <2>1 DEF HandoffType
  <2>2. CASE Changes
    <3>1. /\ venue \in [signer : Signers, pin : Pins]
          /\ geo \in [maxAge : Nat, skew : Nat, pickup : Nat, dropoff : Nat]
      BY <1>0 DEF HandoffType
    <3>2. GeoParams \subseteq [maxAge : Nat, skew : Nat, pickup : Nat, dropoff : Nat]
      BY HandoffAssumption
    <3> QED
      BY <2>2, <3>1, <3>2 DEF Changes, SetSigner, SetLocation, SetGeoParams
  <2> QED
    BY <1>2, <2>1, <2>2
<1>4. HandoffType'
  BY <1>0, <1>1, <1>3 DEF HandoffType, Still
<1>5. Advance /\ SeenPast'
  BY <1>0, <1>1, StillAdvances DEF Still, SeenPast
<1>6. SignedPast'
  BY <1>0, <1>1, SignedInts DEF Still, SignedPast
<1> QED
  BY <1>1, <1>4, <1>5, <1>6, KeptOps, KeptCodes DEF HInv

LEMMA InitHInv == Init => HInv
<1> SUFFICES ASSUME Init PROVE HInv
  OBVIOUS
<1>1. /\ now = 0 /\ status = "Assigned" /\ clock \in Clocks /\ geo \in GeoParams
      /\ venue \in [signer : Signers, pin : Pins]
      /\ seen = [p \in Pages |-> "Assigned"] /\ venueSeen = [p \in Who |-> venue]
      /\ venueCode = NoCode /\ driverCode = NoCode /\ driverOp = Idle /\ customerOp = Idle
      /\ mempool = {} /\ signed = Unsigned
  BY DEF Init, Who
<1>2. /\ Clocks \subseteq [Who -> Int]
      /\ GeoParams \subseteq [maxAge : Nat, skew : Nat, pickup : Nat, dropoff : Nat]
  BY HandoffAssumption DEF Who
<1>3. /\ Unsigned \in [pickup : Int, dropoff : Int, venue : [Signers -> Int]]
      /\ Unsigned.pickup <= 0 /\ Unsigned.dropoff <= 0
      /\ \A s \in Signers : Unsigned.venue[s] <= 0
  BY DEF Unsigned, Never
<1>4. HandoffType
  BY <1>1, <1>2, <1>3 DEF HandoffType, Statuses
<1>5. SignedPast /\ SeenPast
  BY <1>1, <1>3 DEF SignedPast, SeenPast
<1>6. DriverOpInv /\ CustomerOpInv
  BY <1>1 DEF DriverOpInv, CustomerOpInv
<1> QED
  BY <1>1, <1>4, <1>5, <1>6, NoCodeStamped DEF HInv

LEMMA NextHInv == HInv /\ [Next]_vars => HInv'
<1> SUFFICES ASSUME HInv, [Next]_vars PROVE HInv'
  OBVIOUS
<1>1. ASSUME NEW code \in {venueCode, VenueElsewhere}, SubmitPickup(code) PROVE HInv'
  <2>1. VenueElsewhere.order # "here"
    BY DEF VenueElsewhere, VenueAtt
  <2> QED
    BY <1>1, <2>1, SubmitPickupHInv
<1>2. CASE SignDropoffHandoff
  BY <1>2, SignsHInv DEF SignDropoffHandoff
<1>3. ASSUME NEW request, SignDropoffRequest(request) PROVE HInv'
  BY <1>3, SignsHInv DEF SignDropoffRequest
<1>4. ASSUME NEW code \in {driverCode, DriverElsewhere}, ConfirmDelivery(code) PROVE HInv'
  <2>1. DriverElsewhere.order # "here"
    BY DEF DriverElsewhere
  <2> QED
    BY <1>4, <2>1, ConfirmDeliveryHInv
<1> QED
  BY <1>1, <1>2, <1>3, <1>4, SignPickupHInv, ProveProximityHInv, SendPickupHInv,
     SendDropoffHInv, MineHInv, RefreshHInv, ReloadHInv, RestHInv DEF Next

-----------------------------------------------------------------------------
\* A transaction that confirms is of this order, so its codes are stamped.
LEMMA ConsentStep ==
    ASSUME HInv, [Next]_vars
    PROVE  /\ status' = "PickedUp" /\ status # "PickedUp" =>
                Recent("driver", signed.pickup) /\ Recent("venue", signed.venue[venue.signer])
           /\ status' = "Delivered" /\ status # "Delivered" => Recent("driver", signed.dropoff)
<1>0. HandoffType
  BY DEF HInv
<1>1. status' = status \/ \E tx \in mempool : Mine(tx)
  BY DEF Next, SignPickup, SubmitPickup, SignDropoffHandoff, SignDropoffRequest, Signs,
         MakeDropoffRequest, ConfirmDelivery, ProveProximity, SendPickup, SendDropoff,
         RelaySettle, Refresh, Reload, Tick, Changes, chain, vars
<1> SUFFICES ASSUME NEW tx \in mempool, Mine(tx), Confirms(tx)
             PROVE  /\ status' = "PickedUp" =>
                         Recent("driver", signed.pickup)
                         /\ Recent("venue", signed.venue[venue.signer])
                    /\ status' = "Delivered" => Recent("driver", signed.dropoff)
  BY <1>1 DEF Mine
<1>2. /\ Stamped(tx) /\ now \in Nat /\ geo.maxAge \in Nat /\ venue.signer \in Signers
      /\ clock["driver"] \in Int /\ clock["venue"] \in Int
      /\ signed.pickup \in Int /\ signed.dropoff \in Int
      /\ signed.venue[venue.signer] \in Int
  BY <1>0 DEF HInv, HandoffType, Who
<1>3. ASSUME NEW ts \in Int, NEW at \in Int, NEW who \in Who,
             ts <= at + clock[who], Fresh(ts)
      PROVE  Recent(who, at)
  BY <1>2, <1>3 DEF Fresh, Recent, Who
<1>4. CASE tx.method = "confirmPickup"
  <2>1. ConfirmsPickup(tx)
    BY <1>4 DEF Confirms
  <2>2. /\ status' = "PickedUp" /\ VenueStamped(tx.venue) /\ DriverStamped(tx.driver)
        /\ tx.driver.order = "here" /\ tx.venue.order = "here"
        /\ Fresh(tx.driver.ts) /\ Fresh(tx.venue.ts) /\ tx.venue.actor = venue.signer
    BY <1>2, <1>4, <2>1 DEF ConfirmsPickup, Stamped, Mine
  <2>3. /\ tx.driver.ts \in Int /\ tx.driver.ts <= signed.pickup + clock["driver"]
        /\ tx.venue.ts \in Int
        /\ tx.venue.ts <= signed.venue[venue.signer] + clock["venue"]
    BY <2>2 DEF VenueStamped, DriverStamped
  <2>4. Recent("driver", signed.pickup)
    BY <1>2, <1>3, <2>2, <2>3 DEF Who
  <2>5. Recent("venue", signed.venue[venue.signer])
    BY <1>2, <1>3, <2>2, <2>3 DEF Who
  <2> QED
    BY <2>2, <2>4, <2>5
<1>5. CASE tx.method = "confirmDropoffZK"
  <2>1. ConfirmsDropoff(tx)
    BY <1>5 DEF Confirms
  <2>2. /\ status' = "Delivered" /\ status = "PickedUp" /\ DropoffStamped(tx.att)
        /\ tx.att.order = "here" /\ Fresh(tx.att.ts)
    BY <1>2, <1>5, <2>1 DEF ConfirmsDropoff, Stamped, Mine
  <2>3. tx.att.ts \in Int /\ tx.att.ts <= signed.dropoff + clock["driver"]
    BY <2>2 DEF DropoffStamped
  <2>4. Recent("driver", signed.dropoff)
    BY <1>2, <1>3, <2>2, <2>3 DEF Who
  <2> QED
    BY <2>2, <2>4
<1> QED
  BY <1>2, <1>4, <1>5 DEF Stamped

\* An order is picked up only if its driver and the venue's present signer both
\* signed for it within the age allowed, by their own clocks, and delivered only
\* if its driver did: whichever codes were scanned, whatever was lost, sent
\* twice, delayed or reloaded, and however signer, pin, ages and radii changed.
THEOREM HandoffsAreConsented == Spec => Consent
<1> DEFINE C == /\ status' = "PickedUp" /\ status # "PickedUp" =>
                      Recent("driver", signed.pickup) /\ Recent("venue", signed.venue[venue.signer])
                /\ status' = "Delivered" /\ status # "Delivered" =>
                      Recent("driver", signed.dropoff)
<1>1. HInv /\ [Next]_vars => [C]_vars
  BY ConsentStep
<1>2. Spec => []HInv
  BY InitHInv, NextHInv, PTL DEF Spec
<1> HIDE DEF C
<1>3. Spec => [][C]_vars
  BY <1>1, <1>2, PTL DEF Spec
<1> QED
  BY <1>3 DEF Consent, C
-----------------------------------------------------------------------------
(* The half of HandoffsComplete that is not about time or people.          *)

\* What the customer's device sends of a delivery: the order is its own, the
\* proof is of the position the driver signed, and that is near its drop.
Proven(tx) ==
    tx.method = "confirmDropoffZK" =>
        /\ tx.proof.order = "here" /\ tx.proof.driver = tx.att.commit
        /\ Provable(tx.att.commit, tx.proof.radius)

\* Who waits for a transaction waits for one that can still be mined.
WaitsForSome ==
    /\ driverOp.at = "wait" => driverOp.tx \in mempool
    /\ customerOp.at = "wait" => customerOp.tx \in mempool

SentProven == \A tx \in mempool : Proven(tx)

SettleInv ==
    /\ WaitsForSome /\ SentProven
    /\ driverOp.at = "post" => Proven(driverOp.tx)
    /\ customerOp.at = "post" => Proven(customerOp.tx)

\* A delivery that fails on the chain although the code is of this order was
\* late, or the radius changed, or the order was not waiting for it.
FailsForReason ==
    \A tx \in mempool :
        Mine(tx) /\ tx.method = "confirmDropoffZK" /\ tx.att.order = "here"
                 /\ status' # "Delivered" =>
            ~Fresh(tx.att.ts) \/ tx.proof.radius # geo.dropoff \/ status # "PickedUp"

\* What an act in progress is.
LEMMA ActsAre ==
    ASSUME HInv
    PROVE  /\ driverOp.at \in {"post", "wait"} => driverOp = [at |-> driverOp.at, tx |-> driverOp.tx]
           /\ customerOp.at \in {"post", "wait"} =>
                 customerOp = [at |-> customerOp.at, tx |-> customerOp.tx]
<1>1. driverOp.at \in {"post", "wait"} => \E at, tx : driverOp = [at |-> at, tx |-> tx]
  BY DEF HInv, DriverOpInv, Idle, Op
<1>2. customerOp.at \in {"post", "wait"} => \E at, tx : customerOp = [at |-> at, tx |-> tx]
  BY DEF HInv, CustomerOpInv, Idle, Op
<1>3. \A op : (\E at, tx : op = [at |-> at, tx |-> tx]) => op = [at |-> op.at, tx |-> op.tx]
  OBVIOUS
<1> QED
  BY <1>1, <1>2, <1>3

\* Steps that send nothing, end no wait and post nothing unproven.
LEMMA QuietSettles ==
    ASSUME SettleInv, mempool' = mempool,
           \/ driverOp' = driverOp \/ driverOp'.at = "idle"
           \/ driverOp'.at = "post" /\ Proven(driverOp'.tx),
           \/ customerOp' = customerOp \/ customerOp'.at \in {"idle", "prove"}
           \/ customerOp'.at = "post" /\ Proven(customerOp'.tx)
    PROVE  SettleInv'
<1>1. \A tx \in mempool : Proven(tx)
  BY DEF SettleInv, SentProven
<1>2. \A tx \in mempool' : Proven(tx)'
  BY <1>1 DEF Proven
<1>3. /\ driverOp'.at = "wait" => driverOp'.tx \in mempool'
      /\ driverOp'.at = "post" => Proven(driverOp'.tx)
  BY DEF SettleInv, WaitsForSome
<1>4. /\ customerOp'.at = "wait" => customerOp'.tx \in mempool'
      /\ customerOp'.at = "post" => Proven(customerOp'.tx)
  BY DEF SettleInv, WaitsForSome
<1> QED
  BY <1>2, <1>3, <1>4 DEF SettleInv, SentProven, WaitsForSome, Proven

LEMMA ProveSettles == ASSUME SettleInv, ProveProximity PROVE SettleInv'
<1>1. mempool' = mempool /\ driverOp' = driverOp
  BY DEF ProveProximity, world, devices, chain, view, codes
<1>p. PICK proof : proof = [order |-> "here", driver |-> customerOp.att.commit,
                            radius |-> customerOp.radius]
  OBVIOUS
<1>t. PICK tx : tx = [method |-> "confirmDropoffZK", att |-> customerOp.att, proof |-> proof]
  OBVIOUS
<1>o. PICK op : op = [at |-> "post", tx |-> tx]
  OBVIOUS
<1>2. IF Provable(customerOp.att.commit, customerOp.radius)
        THEN customerOp' = op ELSE customerOp' = Idle
  BY <1>p, <1>t, <1>o DEF ProveProximity
<1>3. Idle.at = "idle" /\ op.at = "post" /\ op.tx = tx
  BY <1>o DEF Idle
<1>4. /\ tx.att = customerOp.att /\ tx.proof = proof
      /\ proof.order = "here" /\ proof.driver = customerOp.att.commit
      /\ proof.radius = customerOp.radius
  BY <1>p, <1>t
<1>5. Provable(customerOp.att.commit, customerOp.radius) => Proven(tx)
  BY <1>4 DEF Proven
<1> QED
  BY <1>1, <1>2, <1>3, <1>5, QuietSettles

\* What is sent was posted.
LEMMA SendSettles == ASSUME HInv, SettleInv, SendPickup \/ SendDropoff PROVE SettleInv'
<1>0. Idle.at = "idle"
  BY DEF Idle
<1>1. ASSUME NEW op, op = [at |-> "post", tx |-> op.tx]
      PROVE  Waiting(op).at = "wait" /\ Waiting(op).tx = op.tx
  BY <1>1 DEF Waiting
<1>2. ASSUME NEW op, op.at = "post", Proven(op.tx), NEW then, RelaySettle(op, then)
      PROVE  /\ mempool \subseteq mempool' /\ \A tx \in mempool' : Proven(tx)
             /\ (then = Waiting(op) /\ op.tx \in mempool') \/ then = Idle
  BY <1>2 DEF RelaySettle, SettleInv, SentProven
<1>3. CASE SendPickup
  <2>1. PICK then : RelaySettle(driverOp, then) /\ driverOp' = then /\ UNCHANGED customerOp
    BY <1>3 DEF SendPickup, DriverAct
  <2>2. driverOp.at = "post" /\ Proven(driverOp.tx)
        /\ driverOp = [at |-> "post", tx |-> driverOp.tx]
    BY <2>1, ActsAre DEF RelaySettle, SettleInv
  <2>3. /\ mempool \subseteq mempool' /\ \A tx \in mempool' : Proven(tx)
        /\ (then = Waiting(driverOp) /\ driverOp.tx \in mempool') \/ then = Idle
    BY <2>1, <2>2, <1>2
  <2>4. driverOp'.at \in {"wait", "idle"} /\ (driverOp'.at = "wait" => driverOp'.tx \in mempool')
    BY <2>1, <2>2, <2>3, <1>0, <1>1
  <2> QED
    BY <2>1, <2>3, <2>4 DEF SettleInv, SentProven, WaitsForSome, Proven
<1>4. CASE SendDropoff
  <2>1. PICK then : RelaySettle(customerOp, then) /\ customerOp' = then /\ UNCHANGED driverOp
    BY <1>4 DEF SendDropoff, CustomerAct
  <2>2. customerOp.at = "post" /\ Proven(customerOp.tx)
        /\ customerOp = [at |-> "post", tx |-> customerOp.tx]
    BY <2>1, ActsAre DEF RelaySettle, SettleInv
  <2>3. /\ mempool \subseteq mempool' /\ \A tx \in mempool' : Proven(tx)
        /\ (then = Waiting(customerOp) /\ customerOp.tx \in mempool') \/ then = Idle
    BY <2>1, <2>2, <1>2
  <2>4. customerOp'.at \in {"wait", "idle"}
        /\ (customerOp'.at = "wait" => customerOp'.tx \in mempool')
    BY <2>1, <2>2, <2>3, <1>0, <1>1
  <2> QED
    BY <2>1, <2>3, <2>4 DEF SettleInv, SentProven, WaitsForSome, Proven
<1> QED
  BY <1>3, <1>4

\* What is mined nobody waits for any longer.
LEMMA MineSettles == ASSUME HInv, SettleInv, NEW tx \in mempool, Mine(tx) PROVE SettleInv'
<1>1. /\ mempool' = mempool \ {tx}
      /\ driverOp' = IF driverOp = [at |-> "wait", tx |-> tx] THEN Idle ELSE driverOp
      /\ customerOp' = IF customerOp = [at |-> "wait", tx |-> tx] THEN Idle ELSE customerOp
  BY DEF Mine, DriverAct, CustomerAct
<1>2. Idle.at = "idle"
  BY DEF Idle
<1>3. /\ driverOp.at = "wait" /\ driverOp.tx = tx => driverOp = [at |-> "wait", tx |-> tx]
      /\ customerOp.at = "wait" /\ customerOp.tx = tx => customerOp = [at |-> "wait", tx |-> tx]
  BY ActsAre
<1>4. /\ driverOp'.at = "wait" => driverOp'.tx \in mempool'
      /\ driverOp'.at = "post" => Proven(driverOp'.tx)
  BY <1>1, <1>2, <1>3 DEF SettleInv, WaitsForSome
<1>5. /\ customerOp'.at = "wait" => customerOp'.tx \in mempool'
      /\ customerOp'.at = "post" => Proven(customerOp'.tx)
  BY <1>1, <1>2, <1>3 DEF SettleInv, WaitsForSome
<1> QED
  BY <1>1, <1>4, <1>5 DEF SettleInv, SentProven, WaitsForSome, Proven

LEMMA SettleStep == ASSUME HInv, SettleInv, [Next]_vars PROVE SettleInv'
<1>1. ASSUME NEW code, SubmitPickup(code) PROVE SettleInv'
  <2>1. PICK drv : drv = [order |-> "here", ts |-> Stamp("driver"),
                          at |-> PickupPosition(gps["pickup"], venueSeen["driver"].pin)]
    OBVIOUS
  <2>2. PICK tx : tx = [method |-> "confirmPickup", venue |-> code, driver |-> drv]
    OBVIOUS
  <2>3. driverOp' = [at |-> "post", tx |-> tx] /\ customerOp' = customerOp /\ mempool' = mempool
    BY <1>1, <2>1, <2>2 DEF SubmitPickup
  <2>4. driverOp'.at = "post" /\ driverOp'.tx = tx
    BY <2>3
  <2>5. tx.method = "confirmPickup"
    BY <2>2
  <2>6. Proven(tx)
    BY <2>5 DEF Proven
  <2> QED
    BY <2>3, <2>4, <2>6, QuietSettles
<1>2. ASSUME NEW code, ConfirmDelivery(code) PROVE SettleInv'
  <2>1. /\ customerOp' = [at |-> "prove", att |-> code, radius |-> geo.dropoff]
        /\ driverOp' = driverOp /\ mempool' = mempool
    BY <1>2 DEF ConfirmDelivery
  <2>2. customerOp'.at = "prove"
    BY <2>1
  <2> QED
    BY <2>1, <2>2, QuietSettles
<1>3. ASSUME \/ SignPickup \/ SignDropoffHandoff \/ MakeDropoffRequest \/ Tick \/ Changes
             \/ \E request : SignDropoffRequest(request)
             \/ \E p \in Pages : Refresh(p)
             \/ UNCHANGED vars
      PROVE  SettleInv'
  <2>1. UNCHANGED <<mempool, driverOp, customerOp>>
    BY <1>3 DEF SignPickup, SignDropoffHandoff, MakeDropoffRequest, Tick, Changes,
                SignDropoffRequest, Signs, Refresh, vars, acts
  <2> QED
    BY <2>1, QuietSettles
<1>4. ASSUME NEW p \in Pages, Reload(p) PROVE SettleInv'
  <2>1. /\ mempool' = mempool /\ driverOp' \in {driverOp, Idle}
        /\ customerOp' \in {customerOp, Idle}
    BY <1>4 DEF Reload
  <2>2. Idle.at = "idle"
    BY DEF Idle
  <2> QED
    BY <2>1, <2>2, QuietSettles
<1> QED
  BY <1>1, <1>2, <1>3, <1>4, ProveSettles, SendSettles, MineSettles DEF Next

\* No page waits for a transaction that is gone. What the customer's device sends is
\* provable and is about the position the driver signed, so a delivery with a
\* code of this order fails for three reasons only: it was late, the radius had
\* changed since it was read, or the order was not waiting for it
\* (driverWitness, confirmDelivery, relaySettle).
THEOREM DeliveriesFailForReasons ==
    Spec => [](WaitsForSome /\ SentProven) /\ [][FailsForReason]_vars
<1>1. Init => SettleInv
  BY DEF Init, SettleInv, SentProven, WaitsForSome, Idle
<1>2. Spec => []HInv
  BY InitHInv, NextHInv, PTL DEF Spec
<1>3. HInv /\ SettleInv /\ [Next]_vars => SettleInv'
  BY SettleStep
<1>4. Spec => []SettleInv
  BY <1>1, <1>2, <1>3, PTL DEF Spec
<1>5. SettleInv => WaitsForSome /\ SentProven
  BY DEF SettleInv
<1>6. ASSUME SettleInv PROVE FailsForReason
  <2> SUFFICES ASSUME NEW tx \in mempool, Mine(tx), tx.method = "confirmDropoffZK",
                      tx.att.order = "here", status' # "Delivered"
               PROVE  ~Fresh(tx.att.ts) \/ tx.proof.radius # geo.dropoff \/ status # "PickedUp"
    BY DEF FailsForReason
  <2>1. tx.proof.order = "here" /\ tx.proof.driver = tx.att.commit
    BY <1>6 DEF SettleInv, SentProven, Proven
  <2>2. ~Confirms(tx)
    BY DEF Mine
  <2> QED
    BY <2>1, <2>2 DEF Confirms, ConfirmsDropoff
<1>7. SettleInv /\ [Next]_vars => [FailsForReason]_vars
  BY <1>6
<1> QED
  BY <1>4, <1>5, <1>7, PTL DEF Spec
=============================================================================
