---------------------------- MODULE OrderClient -----------------------------
(***************************************************************************)
(* The web client from "Place order" to the accepted bid: a customer's     *)
(* device that makes a wallet per order, funds it, creates the order and   *)
(* announces its key; a driver's device that bids through its relay; the   *)
(* relays' bid boxes; and the customer's page, which follows the chain by  *)
(* overlapping refreshes and polls a bid box.  Each device has a relay of  *)
(* its own: the one it was built with, until a menu names another.         *)
(*                                                                         *)
(* An order's number is its place in orders.  The order book itself is     *)
(* module FareOrders; here it is the statuses the client reads.            *)
(***************************************************************************)
EXTENDS Naturals, Sequences, SequencesExt, FiniteSets

CONSTANTS Native, Token,  \* the assets of an order
          Assets,         \* those offered, a subset of {Native, Token}
          MaxAttempts,    \* bound: orders the customer tries to place
          Anchors,        \* relays a build is configured with, NoRelay if none
          Relays,         \* relays a menu may name
          NoRelay,
          MaxBids,        \* bound: bids the driver makes
          MaxRefreshes,   \* bound: refreshes in flight at once
          MaxBusy,        \* bound: bids made and refreshes in flight, together
          MaxMishaps      \* bound: reloads, relay restarts and relays learned, together

ASSUME ClientAssumption == /\ NoRelay \notin Relays /\ Anchors \cap Relays = {}
                           /\ MaxBids \in Nat /\ MaxBusy \in Nat /\ MaxBids < MaxBusy

Attempts == 1 .. MaxAttempts
Bids == 1 .. MaxBids
Devices == {"customer", "driver"}
MaxOrders == 2 * MaxAttempts

VARIABLES drops,      \* attempts whose drop secret and receipt are stored
          wallets,    \* attempts whose wallet is stored
          placing,    \* the act in progress: where it is, which attempt, which asset
          creations,  \* per attempt and path, the creating transaction
          orders,     \* on the chain: whose wallet placed it, its status
          hellos,     \* orders whose customer key is on the order's thread
          relays,     \* per device, the relay it uses
          bids,       \* per bid, what the chain, a relay and the driver hold
          misled,     \* bids sent although the relay answered with an error
          cache,      \* order rows the page has read
          refreshes,  \* rows read by the refreshes in flight
          bidList,    \* bids the customer's page lists
          watched,    \* per order shown as open, the relay its bids are polled from
          mishaps

orderDevice == <<drops, wallets, placing>>
orderChain  == <<creations, orders>>
orderPage   == <<cache, refreshes, bidList, watched>>
clientVars  == <<orderDevice, orderChain, hellos, relays, bids, misled, orderPage, mishaps>>

NotPlacing == [at |-> "idle", attempt |-> 0, asset |-> Native]
NoBid      == [order |-> 0, commit |-> "none", revoke |-> "none", stored |-> FALSE, box |-> NoRelay]
Paths      == {"direct", "forwarded"}

ClientInit ==
    /\ drops = {} /\ wallets = {} /\ placing = NotPlacing
    /\ creations = [a \in Attempts |-> [p \in Paths |-> "none"]]
    /\ orders = <<>>
    /\ hellos = {}
    /\ \E r \in Anchors : relays = [d \in Devices |-> r]
    /\ bids = [b \in Bids |-> NoBid] /\ misled = {}
    /\ cache = <<>> /\ refreshes = <<>> /\ bidList = {} /\ watched = <<>>
    /\ mishaps = 0

Numbers == DOMAIN orders
StatusOf(n) == orders[n].status
Terminal_Disputed == {"Delivered", "Cancelled", "Resolved", "Disputed"}
Terminal == {"Delivered", "Cancelled", "Resolved"}

-----------------------------------------------------------------------------
(* Placing an order.  The secrets are stored before the act begins, the     *)
(* wallet before it is used.                                                *)

Place(asset) ==
    /\ placing.at = "idle"
    /\ \E a \in Attempts :
          /\ a \notin drops /\ a - 1 \in drops \cup {0}
          /\ drops' = drops \cup {a} /\ wallets' = wallets \cup {a}
          /\ placing' = [at |-> "fund", attempt |-> a, asset |-> asset]
    /\ UNCHANGED <<orderChain, hellos, relays, bids, misled, orderPage, mishaps>>

GoTo(step) == placing' = IF step = "idle" THEN NotPlacing ELSE [placing EXCEPT !.at = step]
placeSame == UNCHANGED <<drops, wallets, orders, relays, bids, misled, orderPage, mishaps>>

(* fundBurner throws, or comes back, with the money or without; a token     *)
(* order also needs a wallet that already holds the token.                  *)
Fund == /\ placing.at = "fund"
        /\ \E step \in {"idle", "create"} : GoTo(step)
        /\ placeSame /\ UNCHANGED <<creations, hellos>>

Sent(path) == creations' = [creations EXCEPT ![placing.attempt][path] = "pending"]

(* The forwarded creation of a token order: any error of it, an answer lost *)
(* after the relay has sent included, falls through to the direct one.      *)
Forward == /\ placing.at = "create" /\ placing.asset = Token
           /\ \/ Sent("forwarded") /\ GoTo("mining")
              \/ Sent("forwarded") /\ GoTo("direct")
              \/ GoTo("direct") /\ UNCHANGED creations
           /\ placeSame /\ UNCHANGED hellos

(* The direct creation; the node may fail to answer after taking it.        *)
Create == /\ \/ placing.at = "direct"
             \/ placing.at = "create" /\ placing.asset = Native
          /\ \/ Sent("direct") /\ GoTo("mining")
             \/ Sent("direct") /\ GoTo("idle")
             \/ GoTo("idle") /\ UNCHANGED creations
          /\ placeSame /\ UNCHANGED hellos

MineOrder(a, path) ==
    /\ creations[a][path] = "pending"
    /\ \/ /\ creations' = [creations EXCEPT ![a][path] = "mined"]
          /\ orders' = Append(orders, [wallet |-> a, status |-> "Open"])
       \/ /\ creations' = [creations EXCEPT ![a][path] = "failed"]
          /\ UNCHANGED orders
    /\ UNCHANGED <<orderDevice, hellos, relays, bids, misled, orderPage, mishaps>>

(* tx.wait: a native order goes on to announce its key, a token order is    *)
(* done with.  Whether the hello reaches the thread nobody looks.           *)
Await == /\ placing.at = "mining"
         /\ LET outcomes == {creations[placing.attempt][p] : p \in Paths}
            IN /\ "pending" \notin outcomes
               /\ GoTo(IF "mined" \in outcomes /\ placing.asset = Native
                       THEN "announce" ELSE "idle")
         /\ placeSame /\ UNCHANGED <<creations, hellos>>
Announce ==
    /\ placing.at = "announce"
    /\ \/ hellos' = hellos \cup {n \in Numbers : orders[n].wallet = placing.attempt}
       \/ UNCHANGED hellos
    /\ GoTo("idle")
    /\ placeSame /\ UNCHANGED creations

-----------------------------------------------------------------------------
(* The driver's bids. *)

bidSame == UNCHANGED <<orderDevice, orderChain, hellos, relays, orderPage, mishaps>>

BidsMade == {b \in Bids : bids[b] # NoBid}
NotBusy == Cardinality(BidsMade) + Len(refreshes) < MaxBusy

(* Fails closed: without a relay there is no bidding. *)
MayBid(b, n) == /\ NotBusy /\ b \notin BidsMade /\ b - 1 \in {0} \cup BidsMade
                /\ n \in hellos /\ relays["driver"] # NoRelay
BidOf(n, sent, boxed, stored) ==
    [order |-> n, commit |-> IF sent THEN "pending" ELSE "none", revoke |-> "none",
     stored |-> stored, box |-> IF boxed THEN relays["driver"] ELSE NoRelay]

(* placeSealedBid: the bid is stored before it is posted to the driver's    *)
(* relay.  That refuses; fails after it has sent; sends and boxes the       *)
(* terms, and its answer arrives or is lost.  An error answer takes the bid *)
(* out of the store again, a lost one does not.                             *)
PlaceBid_SaveAfter(b, n) ==
    /\ MayBid(b, n)
    /\ \E sent, boxed, stored \in BOOLEAN :
          /\ (boxed => sent) /\ (stored => boxed)
          /\ bids' = [bids EXCEPT ![b] = BidOf(n, sent, boxed, stored)]
          /\ misled' = IF sent /\ ~boxed THEN misled \cup {b} ELSE misled
    /\ bidSame
PlaceBid(b, n) ==
    /\ MayBid(b, n)
    /\ \E sent, boxed, lost \in BOOLEAN :
          /\ (boxed => sent) /\ (sent /\ ~boxed => ~lost)
          /\ bids' = [bids EXCEPT ![b] = BidOf(n, sent, boxed, boxed \/ lost)]
          /\ misled' = IF sent /\ ~boxed THEN misled \cup {b} ELSE misled
    /\ bidSame

(* The commitment is mined: refused unless the order is still open. *)
MineBid(b) ==
    /\ bids[b].commit = "pending"
    /\ \E result \in {"live", "failed"} :
          /\ result = "live" => StatusOf(bids[b].order) = "Open"
          /\ bids' = [bids EXCEPT ![b].commit = result]
    /\ bidSame /\ UNCHANGED misled

(* revokeSealedBid: the driver forgets the bid when a hash comes back; an   *)
(* error or no answer keeps it, though the relay may have sent.             *)
Revoke(b) ==
    /\ bids[b].stored /\ bids[b].revoke = "none"
    /\ \/ bids' = [bids EXCEPT ![b].revoke = "pending", ![b].stored = FALSE]
       \/ bids' = [bids EXCEPT ![b].revoke = "pending"]
    /\ bidSame /\ UNCHANGED misled

(* The withdrawal is mined after the commitment, or fails. *)
MineRevoke(b) ==
    /\ bids[b].revoke = "pending" /\ bids[b].commit # "pending"
    /\ \E result \in {"mined", "failed"} :
          /\ result = "mined" => bids[b].commit = "live"
          /\ bids' = [bids EXCEPT ![b].revoke = result]
    /\ bidSame /\ UNCHANGED misled

Mishap == mishaps < MaxMishaps /\ mishaps' = mishaps + 1

(* A relay keeps its box in memory. *)
Restart(r) ==
    /\ Mishap
    /\ bids' = [b \in Bids |-> IF bids[b].box = r THEN [bids[b] EXCEPT !.box = NoRelay]
                              ELSE bids[b]]
    /\ UNCHANGED <<orderDevice, orderChain, hellos, relays, misled, orderPage>>

(* learnFromManifest: a device keeps the first relay that a menu names, and *)
(* prefers it from now on.                                                  *)
Learn(d, r) ==
    /\ relays[d] \in Anchors /\ Mishap
    /\ relays' = [relays EXCEPT ![d] = r]
    /\ UNCHANGED <<orderDevice, orderChain, hellos, bids, misled, orderPage>>

-----------------------------------------------------------------------------
(* The customer's page. *)

pageSame == UNCHANGED <<orderDevice, orderChain, hellos, relays, bids, misled, mishaps>>
Known    == DOMAIN cache

(* refresh: the orders of this device's wallets, those whose row is not     *)
(* cached in a terminal state are read again.                               *)
StartRefresh ==
    /\ Len(refreshes) < MaxRefreshes /\ NotBusy
    /\ LET toRead == {n \in Numbers : /\ orders[n].wallet \in wallets
                                      /\ n \in Known => cache[n] \notin Terminal}
       IN refreshes' = Append(refreshes, [n \in toRead |-> StatusOf(n)])
    /\ UNCHANGED <<cache, bidList, watched>> /\ pageSame

(* What is shown as open is polled for, at the relay the device used when   *)
(* it was first shown so.                                                   *)
Polled(rows) == [n \in {m \in DOMAIN rows : rows[m] = "Open"} |->
                    IF n \in DOMAIN watched THEN watched[n] ELSE relays["customer"]]

(* Its rows are written over the cached ones, whichever refresh began last; *)
(* a read that fails drops them all.                                        *)
EndRefresh(i) ==
    /\ i \in DOMAIN refreshes
    /\ refreshes' = RemoveAt(refreshes, i)
    /\ LET rows == refreshes[i]
       IN cache' = [n \in Known \cup DOMAIN rows |-> IF n \in DOMAIN rows THEN rows[n] ELSE cache[n]]
    /\ watched' = Polled(cache')
    /\ UNCHANGED bidList /\ pageSame
FailRefresh(i) ==
    /\ i \in DOMAIN refreshes
    /\ refreshes' = RemoveAt(refreshes, i)
    /\ UNCHANGED <<cache, bidList, watched>> /\ pageSame

Standing(b) == bids[b].commit = "live" /\ bids[b].revoke # "mined"

(* The bids of an order that lie where the page looks. *)
Boxed(n) == {b \in Bids : bids[b].order = n /\ bids[b].box = watched[n]}

Fetched_One(n) ==
    LET live == {b \in Boxed(n) : Standing(b)}
    IN IF live = {} THEN {} ELSE {CHOOSE b \in live : TRUE}
(* fetchSealedBids: the boxed bids that the chain holds and that were not   *)
(* withdrawn.                                                               *)
Fetched(n) == {b \in Boxed(n) : Standing(b)}

FetchBids(n) ==
    /\ n \in DOMAIN watched /\ watched[n] # NoRelay
    /\ bidList' = {b \in bidList : bids[b].order # n} \cup Fetched(n)
    /\ UNCHANGED <<cache, refreshes, watched>> /\ pageSame

(* The customer leaves the orders and comes back: what was polled is        *)
(* forgotten, and polled for at the relay the device uses now.              *)
Return ==
    /\ watched' = [n \in DOMAIN watched |-> relays["customer"]] /\ bidList' = {}
    /\ UNCHANGED <<cache, refreshes>> /\ pageSame

Listed(b) == b \in bidList /\ bids[b].order \in Known /\ cache[bids[b].order] = "Open"

Move(n, s) == /\ orders' = [orders EXCEPT ![n].status = s]
              /\ UNCHANGED <<orderDevice, creations, hellos, relays, bids, misled, orderPage, mishaps>>

(* Accepting a listed bid: the chain has the last word. *)
Accept(b) == /\ Listed(b)
             /\ Standing(b) /\ StatusOf(bids[b].order) = "Open"
             /\ Move(bids[b].order, "Assigned")

(* The rest of the order's life, on the chain. *)
Later == [Open |-> {"Cancelled"}, Assigned |-> {"PickedUp", "Cancelled", "Disputed"},
          PickedUp |-> {"Delivered", "Disputed"}, Disputed |-> {"Resolved"}]
Progress(n) == /\ StatusOf(n) \in DOMAIN Later
               /\ \E s \in Later[StatusOf(n)] : Move(n, s)

(* A reload forgets what the page held in memory, an act included. *)
Reload == /\ Mishap
          /\ placing' = NotPlacing
          /\ cache' = <<>> /\ refreshes' = <<>> /\ bidList' = {} /\ watched' = <<>>
          /\ UNCHANGED <<drops, wallets, orderChain, hellos, relays, bids, misled>>

-----------------------------------------------------------------------------
ClientNext ==
    \/ \E asset \in Assets : Place(asset)
    \/ Fund \/ Forward \/ Create \/ Await \/ Announce
    \/ \E a \in Attempts, p \in Paths : MineOrder(a, p)
    \/ \E b \in Bids : MineBid(b) \/ Revoke(b) \/ MineRevoke(b) \/ Accept(b)
    \/ \E b \in Bids, n \in Numbers : PlaceBid(b, n)
    \/ \E n \in Numbers : FetchBids(n) \/ Progress(n)
    \/ \E r \in Relays \cup (Anchors \ {NoRelay}) : Restart(r)
    \/ \E d \in Devices, r \in Relays : Learn(d, r)
    \/ StartRefresh \/ Return \/ Reload
    \/ \E i \in DOMAIN refreshes : EndRefresh(i) \/ FailRefresh(i)

(* The page refreshes on a timer and after every block with events, looks   *)
(* into the bid box on a timer, and a node that fails some reads answers    *)
(* others.                                                                  *)
ClientFairness ==
    /\ WF_clientVars(StartRefresh)
    /\ SF_clientVars(EndRefresh(1))
    /\ \A n \in 1 .. MaxOrders : WF_clientVars(n \in Numbers /\ FetchBids(n))

ClientSpec == ClientInit /\ [][ClientNext]_clientVars /\ ClientFairness

-----------------------------------------------------------------------------
(* Properties *)

(* Whatever the chain or a transaction under way holds of this device's can *)
(* still be acted on: an order's wallet and drop secret are stored, and a   *)
(* bid can be withdrawn, unless the relay's error answer or an earlier      *)
(* withdrawal made the driver forget it (placeOrder, newOrderWallet,        *)
(* placeSealedBid).                                                         *)
SecretsHere ==
    /\ \A a \in Attempts, p \in Paths :
          creations[a][p] \in {"pending", "mined"} => a \in drops \cap wallets
    /\ \A b \in Bids :
          bids[b].commit \in {"pending", "live"} =>
             bids[b].stored \/ bids[b].revoke # "none" \/ b \in misled

(* Refreshes that overlap, fail or finish in the wrong order leave the page *)
(* behind the chain for a while only: again and again it shows every order  *)
(* of this device as the chain has it, disputed ones that are resolved      *)
(* included (refresh, TERMINAL_STATUS).                                     *)
ViewCatchesUp ==
    []<>(\A n \in Numbers : n \in Known /\ cache[n] = StatusOf(n))

(* The page polls for the bid's order, but not where the driver put it. *)
Elsewhere(b) == LET n == bids[b].order IN n \in DOMAIN watched /\ watched[n] # bids[b].box

(* A bid that stands on the chain and lies in a box is listed to the        *)
(* customer, unless it is withdrawn, the order is no longer open, the relay *)
(* lost its box or the page polls another relay than the driver bids        *)
(* through: whatever is learned, reloaded or overtaken, nothing else keeps  *)
(* the page from it (fetchSealedBids, CustomerOrder, activeRelayUrl).       *)
BidsListed ==
    \A b \in Bids :
       (bids[b].box # NoRelay /\ Standing(b)) ~>
          (\/ Listed(b) \/ bids[b].box = NoRelay \/ ~Standing(b) \/ Elsewhere(b)
           \/ StatusOf(bids[b].order) # "Open")
=============================================================================
