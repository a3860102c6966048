---------------------------- MODULE ClientProofs ----------------------------
(***************************************************************************)
(* What TLAPS shows of the web client's modules:                           *)
(*   I    OrderClient: what an order or a bid needs later is on the device.*)
(*        And the page can catch up with the chain.                        *)
(*   II   Disclosure: who disclosed is faulted for the named reasons only. *)
(*   III  OrderChannel: no line is lost unaccounted for, no panel goes     *)
(*        back to older news.                                              *)
(*   IV   ShieldClient: the secret of a note with value is not lost, but   *)
(*        for a named reason.                                              *)
(*   V    ShieldClient: a record's path is right but for a named reason.   *)
(*                                                                         *)
(* The modules are parts of one page that do not share state, and name     *)
(* their specifications apart; no theorem is about two of them.            *)
(***************************************************************************)
EXTENDS OrderClient, Disclosure, OrderChannel, ShieldClient,
        FiniteSetTheorems, FunctionTheorems, SumLemmas, TLAPS

-----------------------------------------------------------------------------
(* I.  The order client.                                                   *)

\* What is read and replaced field by field: acts, transactions and bids.
OrderShapes ==
    /\ placing = [at |-> placing.at, attempt |-> placing.attempt, asset |-> placing.asset]
    /\ creations \in [Attempts -> [Paths -> {"none", "pending", "mined", "failed"}]]
    /\ bids = [b \in Bids |-> bids[b]]
    /\ \A b \in Bids :
          bids[b] = [order |-> bids[b].order, commit |-> bids[b].commit,
                     revoke |-> bids[b].revoke, stored |-> bids[b].stored,
                     box |-> bids[b].box]

\* Inductive: an act that goes on has its secrets stored.
OrderInv ==
    /\ OrderShapes
    /\ placing.at # "idle" => placing.attempt \in Attempts \cap drops \cap wallets
    /\ SecretsHere

LEMMA OrderInit == ClientInit => OrderInv
<1> SUFFICES ASSUME ClientInit PROVE OrderInv
  OBVIOUS
<1>1. /\ placing = NotPlacing /\ bids = [b \in Bids |-> NoBid]
      /\ creations = [a \in Attempts |-> [p \in Paths |-> "none"]]
  BY DEF ClientInit
<1> QED
  BY <1>1 DEF NotPlacing, NoBid, OrderInv, OrderShapes, SecretsHere

\* A step of the act in progress: the secrets stay where they are.
LEMMA ActStep ==
    ASSUME OrderInv, placing.at # "idle", NEW step,
           placing' = (IF step = "idle" THEN NotPlacing ELSE [placing EXCEPT !.at = step]),
           UNCHANGED <<drops, wallets, bids, misled>>,
           \/ UNCHANGED creations
           \/ \E path \in Paths :
                 creations' = [creations EXCEPT ![placing.attempt][path] = "pending"]
    PROVE  OrderInv'
<1>1. placing.attempt \in Attempts \cap drops \cap wallets
  BY DEF OrderInv
<1>2. /\ placing' = [at |-> placing'.at, attempt |-> placing'.attempt, asset |-> placing'.asset]
      /\ placing'.at # "idle" => placing'.attempt = placing.attempt
  <2>1. CASE step = "idle"
    BY <2>1 DEF NotPlacing
  <2>2. CASE step # "idle"
    <3>1. placing' = [placing EXCEPT !.at = step]
      BY <2>2
    <3>2. placing = [at |-> placing.at, attempt |-> placing.attempt, asset |-> placing.asset]
      BY DEF OrderInv, OrderShapes
    <3> QED
      BY <3>1, <3>2
  <2> QED
    BY <2>1, <2>2
<1>3. /\ creations' \in [Attempts -> [Paths -> {"none", "pending", "mined", "failed"}]]
      /\ \A a \in Attempts, p \in Paths :
            creations'[a][p] \in {"pending", "mined"} => a \in drops' \cap wallets'
  <2>1. CASE UNCHANGED creations
    BY <2>1 DEF OrderInv, OrderShapes, SecretsHere
  <2>2. ASSUME NEW path \in Paths,
               creations' = [creations EXCEPT ![placing.attempt][path] = "pending"]
        PROVE  /\ creations' \in [Attempts -> [Paths -> {"none", "pending", "mined", "failed"}]]
               /\ \A a \in Attempts, p \in Paths :
                     creations'[a][p] \in {"pending", "mined"} => a \in drops' \cap wallets'
    BY <1>1, <2>2 DEF OrderInv, OrderShapes, SecretsHere
  <2> QED
    BY <2>1, <2>2
<1>4. OrderShapes'
  BY <1>2, <1>3 DEF OrderInv, OrderShapes
<1>5. SecretsHere'
  BY <1>3 DEF OrderInv, SecretsHere
<1> QED
  BY <1>1, <1>2, <1>4, <1>5 DEF OrderInv

LEMMA PlaceStep == ASSUME OrderInv, NEW asset, Place(asset) PROVE OrderInv'
BY DEF OrderInv, OrderShapes, SecretsHere, Place, orderChain, orderPage

LEMMA ActSteps ==
    ASSUME OrderInv,
           Fund \/ Forward \/ Create \/ Await \/ Announce
    PROVE  OrderInv'
<1>1. CASE Fund
  BY <1>1, ActStep DEF Fund, GoTo, placeSame
<1>2. CASE Forward
  BY <1>2, ActStep DEF Forward, GoTo, placeSame, Sent, Paths
<1>3. CASE Create
  BY <1>3, ActStep DEF Create, GoTo, placeSame, Sent, Paths
<1>4. CASE Await
  BY <1>4, ActStep DEF Await, GoTo, placeSame
<1>5. CASE Announce
  BY <1>5, ActStep DEF Announce, GoTo, placeSame
<1> QED
  BY <1>1, <1>2, <1>3, <1>4, <1>5

LEMMA MineStep ==
    ASSUME OrderInv, NEW a \in Attempts, NEW p \in Paths, MineOrder(a, p)
    PROVE  OrderInv'
<1>1. PICK result \in {"mined", "failed"} : creations' = [creations EXCEPT ![a][p] = result]
  BY DEF MineOrder
<1>2. creations[a][p] = "pending" /\ UNCHANGED <<drops, wallets, placing, bids, misled>>
  BY DEF MineOrder, orderDevice
<1>3. OrderShapes'
  BY <1>1, <1>2 DEF OrderInv, OrderShapes
<1>4. SecretsHere'
  <2>1. a \in drops \cap wallets
    BY <1>2 DEF OrderInv, SecretsHere
  <2> QED
    BY <1>1, <1>2, <2>1 DEF OrderInv, OrderShapes, SecretsHere
<1> QED
  BY <1>2, <1>3, <1>4 DEF OrderInv

\* A step about one bid.
LEMMA BidStep ==
    ASSUME OrderInv, NEW b \in Bids, NEW bid,
           bids' = [bids EXCEPT ![b] = bid],
           bid = [order |-> bid.order, commit |-> bid.commit, revoke |-> bid.revoke,
                  stored |-> bid.stored, box |-> bid.box],
           bid.commit \in {"pending", "live"} =>
              bid.stored \/ bid.revoke # "none" \/ b \in misled',
           misled \subseteq misled', bidSame
    PROVE  OrderInv'
BY DEF OrderInv, OrderShapes, SecretsHere, bidSame, orderDevice, orderChain

LEMMA BidSteps ==
    ASSUME OrderInv, NEW b \in Bids,
           \/ \E n \in Numbers : PlaceBid(b, n)
           \/ MineBid(b) \/ Revoke(b) \/ MineRevoke(b)
    PROVE  OrderInv'
<1> DEFINE bid == bids[b]
<1>1. /\ bid = [order |-> bid.order, commit |-> bid.commit, revoke |-> bid.revoke,
               stored |-> bid.stored, box |-> bid.box]
      /\ bid.commit \in {"pending", "live"} =>
            bid.stored \/ bid.revoke # "none" \/ b \in misled
  BY DEF OrderInv, OrderShapes, SecretsHere
<1>2. ASSUME NEW n, PlaceBid(b, n) PROVE OrderInv'
  <2> PICK sent \in BOOLEAN, boxed \in BOOLEAN, unheard \in BOOLEAN :
        /\ (boxed => sent) /\ (sent /\ ~boxed => ~unheard)
        /\ bids' = [bids EXCEPT ![b] = [order |-> n, commit |-> IF sent THEN "pending" ELSE "none",
                                        revoke |-> "none", stored |-> boxed \/ unheard,
                                        box |-> IF boxed THEN relays["driver"] ELSE NoRelay]]
        /\ misled' = IF sent /\ ~boxed THEN misled \cup {b} ELSE misled
    BY <1>2 DEF PlaceBid, BidOf
  <2> QED
    BY <1>2, BidStep DEF PlaceBid
<1>3. CASE MineBid(b)
  <2> PICK result \in {"live", "failed"} : bids' = [bids EXCEPT ![b].commit = result]
    BY <1>3 DEF MineBid
  <2> DEFINE mined == [order |-> bid.order, commit |-> result, revoke |-> bid.revoke,
                       stored |-> bid.stored, box |-> bid.box]
  <2>1. [bid EXCEPT !.commit = result] = mined
    BY <1>1
  <2>2. bids' = [bids EXCEPT ![b] = [bids[b] EXCEPT !.commit = result]]
    OBVIOUS
  <2>3. bids' = [bids EXCEPT ![b] = mined]
    BY <2>1, <2>2
  <2>4. bid.commit = "pending" /\ misled' = misled /\ bidSame
    BY <1>3 DEF MineBid
  <2> QED
    BY <1>1, <2>3, <2>4, BidStep
<1>4. CASE Revoke(b)
  BY <1>1, <1>4, BidStep DEF Revoke
<1>5. CASE MineRevoke(b)
  <2> PICK result \in {"mined", "failed"} : bids' = [bids EXCEPT ![b].revoke = result]
    BY <1>5 DEF MineRevoke
  <2> DEFINE mined == [order |-> bid.order, commit |-> bid.commit, revoke |-> result,
                       stored |-> bid.stored, box |-> bid.box]
  <2>1. [bid EXCEPT !.revoke = result] = mined
    BY <1>1
  <2>2. bids' = [bids EXCEPT ![b] = [bids[b] EXCEPT !.revoke = result]]
    OBVIOUS
  <2>3. bids' = [bids EXCEPT ![b] = mined]
    BY <2>1, <2>2
  <2>4. misled' = misled /\ bidSame
    BY <1>5 DEF MineRevoke
  <2> QED
    BY <2>3, <2>4, BidStep
<1> QED
  BY <1>2, <1>3, <1>4, <1>5

LEMMA RestartStep == ASSUME OrderInv, NEW r, Restart(r) PROVE OrderInv'
<1>1. /\ bids' = [b \in Bids |-> IF bids[b].box = r THEN [bids[b] EXCEPT !.box = NoRelay]
                                ELSE bids[b]]
      /\ UNCHANGED <<drops, wallets, placing, creations, misled>>
  BY DEF Restart, orderDevice, orderChain
<1>2. ASSUME NEW b \in Bids
      PROVE  bids'[b] = [order |-> bids[b].order, commit |-> bids[b].commit,
                         revoke |-> bids[b].revoke, stored |-> bids[b].stored,
                         box |-> bids'[b].box]
  <2>1. bids[b] = [order |-> bids[b].order, commit |-> bids[b].commit,
                   revoke |-> bids[b].revoke, stored |-> bids[b].stored,
                   box |-> bids[b].box]
    BY DEF OrderInv, OrderShapes
  <2>2. bids'[b] = bids[b] \/ bids'[b] = [bids[b] EXCEPT !.box = NoRelay]
    BY <1>1
  <2> QED
    BY <2>1, <2>2
<1>3. OrderShapes'
  BY <1>1, <1>2 DEF OrderInv, OrderShapes
<1> QED
  BY <1>1, <1>2, <1>3 DEF OrderInv, SecretsHere

LEMMA ReloadStep == ASSUME OrderInv, Reload PROVE OrderInv'
BY DEF OrderInv, OrderShapes, SecretsHere, Reload, NotPlacing, orderChain

\* Steps of the page and of the chain alone.
LEMMA OtherSteps ==
    ASSUME OrderInv, UNCHANGED <<drops, wallets, placing, creations, bids, misled>>
    PROVE  OrderInv'
BY DEF OrderInv, OrderShapes, SecretsHere

LEMMA OrderNext == OrderInv /\ [ClientNext]_(clientVars) => OrderInv'
<1> SUFFICES ASSUME OrderInv, [ClientNext]_(clientVars) PROVE OrderInv'
  OBVIOUS
<1>1. ASSUME NEW b \in Bids, Accept(b) PROVE OrderInv'
  BY <1>1, OtherSteps DEF Accept, Move, orderDevice
<1>2. ASSUME NEW n \in Numbers, FetchBids(n) \/ Progress(n) PROVE OrderInv'
  BY <1>2, OtherSteps DEF FetchBids, Progress, Move, pageSame,
                          orderDevice, orderChain
<1>3. CASE StartRefresh
  BY <1>3, OtherSteps DEF StartRefresh, pageSame, orderDevice, orderChain
<1>4. ASSUME NEW i, EndRefresh(i) \/ FailRefresh(i) PROVE OrderInv'
  BY <1>4, OtherSteps DEF EndRefresh, FailRefresh, pageSame,
                          orderDevice, orderChain
<1>5. CASE Return \/ \E d \in Devices, r \in Relays : Learn(d, r)
  BY <1>5, OtherSteps DEF Return, Learn, pageSame, orderDevice, orderChain
<1>6. CASE UNCHANGED clientVars
  BY <1>6, OtherSteps DEF clientVars, orderDevice, orderChain
<1> QED
  BY <1>1, <1>2, <1>3, <1>4, <1>5, <1>6, PlaceStep, ActSteps, MineStep, BidSteps, RestartStep,
     ReloadStep DEF ClientNext

\* For any number of orders, bids, refreshes and mishaps, an order on the chain
\* has its wallet and drop secret on the device, and a bid can be withdrawn
\* (placeOrder, newOrderWallet, placeSealedBid).
THEOREM SecretsAreHere == ClientSpec => []SecretsHere
<1>1. OrderInv => SecretsHere
  BY DEF OrderInv
<1> QED
  BY <1>1, OrderInit, OrderNext, PTL DEF ClientSpec

-----------------------------------------------------------------------------
(* The customer's page: the half of ViewCatchesUp and BidsListed that is    *)
(* not about time.                                                          *)

Statuses == {"Open", "Assigned", "PickedUp", "Disputed", "Delivered", "Cancelled", "Resolved"}

\* What an order of each status may have come to.
MayBecome == [Open      |-> Statuses,
           Assigned  |-> Statuses \ {"Open"},
           PickedUp  |-> {"PickedUp", "Disputed", "Delivered", "Resolved"},
           Disputed  |-> {"Disputed", "Resolved"},
           Delivered |-> {"Delivered"}, Cancelled |-> {"Cancelled"}, Resolved |-> {"Resolved"}]

\* Rows that were true when they were read.
Behind(rows) ==
    \A n \in DOMAIN rows : /\ n \in Numbers
                           /\ rows[n] \in Statuses /\ StatusOf(n) \in MayBecome[rows[n]]

Rows == UNION {[S -> Statuses] : S \in SUBSET Nat}

OrdersInv ==
    /\ orders \in Seq([wallet : Attempts, status : Statuses])
    /\ \A n \in Numbers : orders[n].wallet \in wallets

RowsInv ==
    /\ refreshes \in Seq(Rows)
    /\ Behind(cache)
    /\ \A i \in DOMAIN refreshes : Behind(refreshes[i])

ListInv == \A b \in bidList : b \in Bids /\ bids[b].commit = "live"

\* What is shown as open is polled for.
WatchInv == DOMAIN watched = {n \in Known : cache[n] = "Open"}

PageInv == OrdersInv /\ RowsInv /\ ListInv /\ WatchInv

\* What the page does not read again needs no reading, what it should read it can
\* find, an order that is open on the chain and known to the page is shown so and
\* polled for, and what is listed was committed on the chain.
PageSound ==
    /\ \A n \in Numbers : orders[n].wallet \in wallets
    /\ \A n \in Known : n \in Numbers /\ (cache[n] \in Terminal => StatusOf(n) = cache[n])
    /\ \A n \in Known : StatusOf(n) = "Open" => cache[n] = "Open" /\ n \in DOMAIN watched
    /\ \A b \in bidList : bids[b].commit = "live"

\* A refresh reads whatever the page does not already show as it is.
ReadsAll ==
    StartRefresh =>
       LET rows == refreshes'[Len(refreshes) + 1]
       IN \A n \in Numbers :
             StatusOf(n) = IF n \in DOMAIN rows THEN rows[n] ELSE cache[n]

LEMMA OnwardFacts ==
    /\ \A s \in Statuses : s \in MayBecome[s]
    /\ \A s \in Statuses : \A t \in MayBecome[s] : t \in Statuses
    /\ \A s \in Statuses : "Open" \in MayBecome[s] => s = "Open"
    /\ \A s \in Statuses : s \in Terminal => MayBecome[s] = {s}
BY DEF Statuses, MayBecome, Terminal

LEMMA OnwardLater ==
    ASSUME NEW s \in Statuses, NEW t \in MayBecome[s], NEW u,
           \/ t = "Open" /\ u = "Assigned"
           \/ t \in DOMAIN Later /\ u \in Later[t]
    PROVE  u \in MayBecome[s]
<1>1. \/ t = "Open" /\ u \in {"Assigned", "Cancelled"}
      \/ t = "Assigned" /\ u \in {"PickedUp", "Cancelled", "Disputed"}
      \/ t = "PickedUp" /\ u \in {"Delivered", "Disputed"}
      \/ t = "Disputed" /\ u = "Resolved"
  BY DEF Later
<1> QED
  BY <1>1 DEF Statuses, MayBecome

LEMMA OrderTyped ==
    ASSUME OrdersInv, NEW n \in Numbers
    PROVE  /\ n \in Nat /\ orders[n] \in [wallet : Attempts, status : Statuses]
           /\ StatusOf(n) \in Statuses
<1> DEFINE T == [wallet : Attempts, status : Statuses]
<1>1. orders \in Seq(T) /\ n \in DOMAIN orders
  BY DEF OrdersInv, Numbers
<1>2. n \in Nat /\ orders[n] \in T
  <2> HIDE DEF T
  <2> QED
    BY <1>1
<1> QED
  BY <1>2 DEF StatusOf

LEMMA PageInit == ClientInit => PageInv
<1> SUFFICES ASSUME ClientInit PROVE PageInv
  OBVIOUS
<1>1. orders = <<>> /\ refreshes = <<>> /\ cache = <<>> /\ bidList = {} /\ watched = <<>>
  BY DEF ClientInit
<1>2. OrdersInv
  BY <1>1 DEF OrdersInv, Numbers
<1>3. RowsInv
  BY <1>1 DEF RowsInv, Behind
<1>4. WatchInv
  BY <1>1 DEF WatchInv, Known
<1> QED
  BY <1>1, <1>2, <1>3, <1>4 DEF PageInv, ListInv

\* The orders stay as they are, or there is one more, or one goes on.
LEMMA OrdersSame ==
    ASSUME OrdersInv, UNCHANGED orders, wallets \subseteq wallets'
    PROVE  OrdersInv'
BY DEF OrdersInv, Numbers

LEMMA BehindSame == ASSUME NEW rows, Behind(rows), UNCHANGED orders
                    PROVE  \A r : r = rows => Behind(r)'
BY DEF Behind, Numbers, StatusOf

LEMMA RowsSame ==
    ASSUME RowsInv, UNCHANGED <<orders, cache, refreshes>>
    PROVE  RowsInv'
BY DEF RowsInv, Behind, Numbers, StatusOf

\* Rows that were true once still were when the orders have gone on.
LEMMA OrdersGoOn ==
    ASSUME OrdersInv, UNCHANGED <<cache, refreshes>>,
           Len(orders') \in Nat, Len(orders') >= Len(orders), DOMAIN orders' = 1..Len(orders'),
           \A n \in Numbers : \A s \in Statuses :
              StatusOf(n) \in MayBecome[s] => StatusOf(n)' \in MayBecome[s]
    PROVE  RowsInv => RowsInv'
<1> SUFFICES ASSUME RowsInv PROVE RowsInv'
  OBVIOUS
<1>1. Numbers \subseteq Numbers'
  BY DEF OrdersInv, Numbers
<1>2. ASSUME NEW rows, Behind(rows)
      PROVE  \A n \in DOMAIN rows : /\ n \in Numbers' /\ rows[n] \in Statuses
                                    /\ StatusOf(n)' \in MayBecome[rows[n]]
  BY <1>1, <1>2 DEF Behind
<1>3. Behind(cache)'
  BY <1>2 DEF RowsInv, Behind
<1>4. \A i \in DOMAIN refreshes : Behind(refreshes[i])'
  BY <1>2 DEF RowsInv, Behind
<1> QED
  BY <1>3, <1>4 DEF RowsInv

LEMMA MineOrderPage ==
    ASSUME PageInv, OrderInv, NEW a \in Attempts, NEW p \in Paths, MineOrder(a, p)
    PROVE  PageInv'
<1>1. /\ UNCHANGED <<wallets, cache, refreshes, bidList, watched, bids>>
      /\ a \in wallets
      /\ orders' = orders \/ orders' = Append(orders, [wallet |-> a, status |-> "Open"])
  BY DEF MineOrder, orderDevice, orderPage, OrderInv, SecretsHere
<1>2. CASE orders' = orders
  BY <1>1, <1>2, OrdersSame, RowsSame DEF PageInv, ListInv, WatchInv, Known
<1>3. CASE orders' = Append(orders, [wallet |-> a, status |-> "Open"])
  <2> DEFINE o == [wallet |-> a, status |-> "Open"]
             T == [wallet : Attempts, status : Statuses]
  <2>1. o \in T
    BY DEF Statuses
  <2>2. o.wallet = a
    OBVIOUS
  <2>3. orders \in Seq(T)
    BY DEF PageInv, OrdersInv
  <2>4. orders' = Append(orders, o)
    BY <1>3
  <2> HIDE DEF o, T
  <2>5. /\ orders' \in Seq(T) /\ Len(orders') = Len(orders) + 1 /\ Len(orders) \in Nat
        /\ DOMAIN orders' = 1..Len(orders') /\ DOMAIN orders = 1..Len(orders)
        /\ orders'[Len(orders) + 1] = o
        /\ \A n \in 1..Len(orders) : orders'[n] = orders[n]
    BY <2>1, <2>3, <2>4
  <2>6. \A n \in Numbers' : n \in Numbers \/ n = Len(orders) + 1
    BY <2>5 DEF Numbers
  <2>7. \A n \in Numbers : StatusOf(n)' = StatusOf(n)
    BY <2>5 DEF Numbers, StatusOf
  <2>8. OrdersInv'
    BY <1>1, <2>2, <2>5, <2>6 DEF PageInv, OrdersInv, Numbers, T
  <2>9. RowsInv'
    BY <1>1, <2>5, <2>7, OrdersGoOn DEF PageInv
  <2> QED
    BY <1>1, <2>8, <2>9 DEF PageInv, ListInv, WatchInv, Known
<1> QED
  BY <1>1, <1>2, <1>3

LEMMA MovePage ==
    ASSUME PageInv, NEW n \in Numbers, NEW s, Move(n, s),
           \/ StatusOf(n) = "Open" /\ s = "Assigned"
           \/ StatusOf(n) \in DOMAIN Later /\ s \in Later[StatusOf(n)]
    PROVE  PageInv'
<1> DEFINE T == [wallet : Attempts, status : Statuses]
<1>1. /\ UNCHANGED <<wallets, cache, refreshes, bidList, watched, bids>>
      /\ orders' = [orders EXCEPT ![n].status = s]
  BY DEF Move, orderDevice, orderPage
<1>2. orders \in Seq(T) /\ n \in DOMAIN orders /\ orders[n] \in T
  BY OrderTyped DEF PageInv, OrdersInv, Numbers
<1>3. StatusOf(n) \in Statuses
  BY OrderTyped DEF PageInv
<1>4. s \in MayBecome[StatusOf(n)] /\ s \in Statuses
  BY <1>3, OnwardFacts, OnwardLater
<1>5. orders' = [orders EXCEPT ![n] = [wallet |-> orders[n].wallet, status |-> s]]
  <2>1. [orders[n] EXCEPT !.status = s] = [wallet |-> orders[n].wallet, status |-> s]
    BY <1>2
  <2> QED
    BY <1>1, <2>1
<1>6. [wallet |-> orders[n].wallet, status |-> s] \in T
  BY <1>2, <1>4
<1>7. /\ orders' \in Seq(T) /\ Len(orders') = Len(orders) /\ Len(orders) \in Nat
      /\ DOMAIN orders' = 1..Len(orders') /\ DOMAIN orders = 1..Len(orders)
      /\ \A m \in DOMAIN orders \ {n} : orders'[m] = orders[m]
      /\ orders'[n].wallet = orders[n].wallet /\ orders'[n].status = s
  <2> DEFINE o == [wallet |-> orders[n].wallet, status |-> s]
  <2>1. o.wallet = orders[n].wallet /\ o.status = s
    OBVIOUS
  <2>2. orders' = [orders EXCEPT ![n] = o] /\ o \in T
    BY <1>5, <1>6
  <2> HIDE DEF o, T
  <2> QED
    BY <1>2, <2>1, <2>2
<1>8. OrdersInv'
  BY <1>1, <1>7 DEF PageInv, OrdersInv, Numbers
<1>9. \A m \in Numbers : \A t \in Statuses :
         StatusOf(m) \in MayBecome[t] => StatusOf(m)' \in MayBecome[t]
  <2> SUFFICES ASSUME NEW m \in Numbers, NEW t \in Statuses, StatusOf(m) \in MayBecome[t]
               PROVE  StatusOf(m)' \in MayBecome[t]
    OBVIOUS
  <2>1. CASE m = n
    <3>1. s \in MayBecome[t]
      BY <2>1, OnwardLater
    <3> QED
      BY <2>1, <3>1, <1>7 DEF StatusOf
  <2>2. CASE m # n
    BY <2>2, <1>7 DEF StatusOf, Numbers
  <2> QED
    BY <2>1, <2>2
<1>10. RowsInv'
  BY <1>1, <1>7, <1>9, OrdersGoOn DEF PageInv
<1> QED
  BY <1>1, <1>8, <1>10 DEF PageInv, ListInv, WatchInv, Known

\* What a refresh reads now is true now.
LEMMA FreshRows ==
    ASSUME OrdersInv, NEW toRead \in SUBSET Numbers
    PROVE  /\ [n \in toRead |-> StatusOf(n)] \in Rows
           /\ Behind([n \in toRead |-> StatusOf(n)])
<1>1. \A n \in Numbers : n \in Nat /\ StatusOf(n) \in Statuses
  BY OrderTyped
<1>2. [n \in toRead |-> StatusOf(n)] \in [toRead -> Statuses] /\ toRead \in SUBSET Nat
  BY <1>1
<1> QED
  BY <1>1, <1>2, OnwardFacts DEF Rows, Behind

LEMMA StartRefreshPage ==
    ASSUME PageInv, StartRefresh
    PROVE  PageInv' /\ ReadsAll
<1> DEFINE toRead == {n \in Numbers : /\ orders[n].wallet \in wallets
                                      /\ n \in Known => cache[n] \notin Terminal}
           rows == [n \in toRead |-> StatusOf(n)]
<1>1. /\ refreshes' = Append(refreshes, rows)
      /\ UNCHANGED <<orders, wallets, cache, bidList, watched, bids>>
  BY DEF StartRefresh, pageSame, orderDevice, orderChain
<1>2. rows \in Rows /\ Behind(rows)
  BY FreshRows DEF PageInv
<1>3. \A n \in Numbers : StatusOf(n) = IF n \in DOMAIN rows THEN rows[n] ELSE cache[n]
  <2>1. \A n \in Numbers \ toRead : n \in Known /\ cache[n] \in Terminal
    BY DEF PageInv, OrdersInv
  <2>2. \A n \in Numbers \ toRead : StatusOf(n) = cache[n]
    BY <2>1, OnwardFacts DEF PageInv, RowsInv, Behind, Known
  <2> QED
    BY <2>2
<1>4. OrdersInv' /\ ListInv' /\ WatchInv'
  BY <1>1, OrdersSame DEF PageInv, ListInv, WatchInv, Known
<1>5. refreshes \in Seq(Rows)
  BY DEF PageInv, RowsInv
<1> HIDE DEF rows, toRead
<1>6. /\ refreshes' \in Seq(Rows) /\ DOMAIN refreshes' = 1..(Len(refreshes) + 1)
      /\ Len(refreshes) \in Nat /\ DOMAIN refreshes = 1..Len(refreshes)
      /\ refreshes'[Len(refreshes) + 1] = rows
      /\ \A i \in 1..Len(refreshes) : refreshes'[i] = refreshes[i]
  BY <1>1, <1>2, <1>5
<1>7. \A i \in DOMAIN refreshes' : Behind(refreshes'[i])
  <2> SUFFICES ASSUME NEW i \in DOMAIN refreshes' PROVE Behind(refreshes'[i])
    OBVIOUS
  <2>1. i \in 1..Len(refreshes) \/ i = Len(refreshes) + 1
    BY <1>6
  <2> QED
    BY <2>1, <1>2, <1>6 DEF PageInv, RowsInv
<1>8. RowsInv'
  BY <1>1, <1>6, <1>7 DEF PageInv, RowsInv, Behind, Numbers, StatusOf
<1>9. ReadsAll
  BY <1>3, <1>6 DEF ReadsAll
<1> QED
  BY <1>4, <1>8, <1>9 DEF PageInv

\* A refresh ends: the others keep their rows.
LEMMA RemovedRows ==
    ASSUME RowsInv, NEW i \in DOMAIN refreshes, refreshes' = RemoveAt(refreshes, i)
    PROVE  /\ refreshes' \in Seq(Rows)
           /\ \A j \in DOMAIN refreshes' : \E k \in DOMAIN refreshes : refreshes'[j] = refreshes[k]
<1> DEFINE n == Len(refreshes)
           front == SubSeq(refreshes, 1, i - 1)
           back == SubSeq(refreshes, i + 1, n)
<1>1. refreshes \in Seq(Rows) /\ n \in Nat /\ i \in 1..n /\ DOMAIN refreshes = 1..n
  BY DEF RowsInv
<1>2. /\ front \in Seq(Rows) /\ Len(front) = i - 1
      /\ \A j \in 1..(i - 1) : front[j] = refreshes[j]
  BY <1>1
<1>3. /\ back \in Seq(Rows) /\ Len(back) = n - i
      /\ \A j \in 1..(n - i) : back[j] = refreshes[j + i]
  BY <1>1
<1>4. refreshes' = front \o back
  BY DEF RemoveAt
<1> HIDE DEF front, back, n
<1>5. /\ refreshes' \in Seq(Rows) /\ Len(refreshes') = n - 1
      /\ \A j \in 1..(i - 1) : refreshes'[j] = front[j]
      /\ \A j \in i..(n - 1) : refreshes'[j] = back[j - i + 1]
  <2>1. /\ refreshes' \in Seq(Rows) /\ Len(refreshes') = (i - 1) + (n - i)
        /\ \A j \in 1..(i - 1) : refreshes'[j] = front[j]
        /\ \A j \in 1..(n - i) : refreshes'[(i - 1) + j] = back[j]
    <3>1. /\ front \o back \in Seq(Rows) /\ Len(front \o back) = Len(front) + Len(back)
          /\ \A j \in 1..Len(front) : (front \o back)[j] = front[j]
          /\ \A j \in 1..Len(back) : (front \o back)[Len(front) + j] = back[j]
      <4>1. front \in Seq(Rows) /\ back \in Seq(Rows)
        BY <1>2, <1>3
      <4> QED
        BY <4>1
    <3> QED
      BY <3>1, <1>2, <1>3, <1>4
  <2>2. ASSUME NEW j \in i..(n - 1) PROVE refreshes'[j] = back[j - i + 1]
    <3>1. j - i + 1 \in 1..(n - i) /\ (i - 1) + (j - i + 1) = j
      BY <1>1
    <3> QED
      BY <2>1, <3>1
  <2> QED
    BY <1>1, <2>1, <2>2
<1>6. ASSUME NEW j \in DOMAIN refreshes'
      PROVE  \E k \in DOMAIN refreshes : refreshes'[j] = refreshes[k]
  <2>1. j \in 1..(n - 1)
    BY <1>5
  <2>2. CASE j \in 1..(i - 1)
    BY <2>2, <1>1, <1>2, <1>5
  <2>3. CASE j \in i..(n - 1)
    <3>1. j - i + 1 \in 1..(n - i) /\ (j - i + 1) + i = j + 1 /\ j + 1 \in 1..n
      BY <2>1, <2>3, <1>1
    <3>2. refreshes'[j] = refreshes[j + 1]
      BY <2>3, <3>1, <1>3, <1>5
    <3> QED
      BY <3>1, <3>2, <1>1
  <2> QED
    BY <2>1, <2>2, <2>3, <1>1
<1> QED
  BY <1>5, <1>6

LEMMA RefreshEndsPage ==
    ASSUME PageInv, NEW i \in DOMAIN refreshes, EndRefresh(i) \/ FailRefresh(i)
    PROVE  PageInv'
<1>1. /\ refreshes' = RemoveAt(refreshes, i)
      /\ UNCHANGED <<orders, wallets, bidList, bids>>
  BY DEF EndRefresh, FailRefresh, pageSame, orderDevice, orderChain
<1>2. Behind(refreshes[i]) /\ Behind(cache)
  BY DEF PageInv, RowsInv
<1>3. Behind(cache')
  <2>1. CASE cache' = cache
    BY <2>1, <1>2
  <2>2. CASE EndRefresh(i)
    <3> DEFINE rows == refreshes[i]
    <3>1. cache' = [n \in Known \cup DOMAIN rows |-> IF n \in DOMAIN rows THEN rows[n] ELSE cache[n]]
      BY <2>2 DEF EndRefresh
    <3> HIDE DEF rows
    <3>2. Behind(rows)
      BY <1>2 DEF rows
    <3> QED
      BY <3>1, <3>2, <1>2 DEF Behind, Known
  <2> QED
    BY <2>1, <2>2 DEF FailRefresh
<1>4. /\ refreshes' \in Seq(Rows)
      /\ \A j \in DOMAIN refreshes' : \E k \in DOMAIN refreshes : refreshes'[j] = refreshes[k]
  BY <1>1, RemovedRows DEF PageInv
<1>5. \A j \in DOMAIN refreshes' : Behind(refreshes'[j])
  BY <1>4 DEF PageInv, RowsInv
<1>6. RowsInv'
  BY <1>1, <1>3, <1>4, <1>5 DEF RowsInv, Behind, Numbers, StatusOf
<1>7. WatchInv'
  <2>1. CASE EndRefresh(i)
    BY <2>1 DEF EndRefresh, Polled, WatchInv, Known
  <2>2. CASE FailRefresh(i)
    BY <2>2 DEF FailRefresh, PageInv, WatchInv, Known
  <2> QED
    BY <2>1, <2>2
<1> QED
  BY <1>1, <1>6, <1>7, OrdersSame DEF PageInv, ListInv

\* A bid that is on the chain stays.
LEMMA BidPage ==
    ASSUME PageInv, OrderInv, NEW b \in Bids,
           \/ \E n \in Numbers : PlaceBid(b, n)
           \/ MineBid(b) \/ Revoke(b) \/ MineRevoke(b)
    PROVE  PageInv'
<1>1. UNCHANGED <<orders, wallets, cache, refreshes, bidList, watched>>
  BY DEF PlaceBid, MineBid, Revoke, MineRevoke, bidSame, orderDevice, orderChain, orderPage
<1>2. ASSUME NEW c \in Bids, bids[c].commit = "live" PROVE bids'[c].commit = "live"
  <2>1. CASE \E n \in Numbers : PlaceBid(b, n)
    <3>1. bids[b].commit # "live" /\ \A d \in Bids \ {b} : bids'[d] = bids[d]
      BY <2>1 DEF PlaceBid, MayBid, BidsMade, NoBid, OrderInv, OrderShapes
    <3> QED
      BY <3>1, <1>2
  <2>2. CASE MineBid(b)
    BY <2>2, <1>2 DEF MineBid, OrderInv, OrderShapes
  <2>3. CASE Revoke(b)
    BY <2>3, <1>2 DEF Revoke, OrderInv, OrderShapes
  <2>4. CASE MineRevoke(b)
    BY <2>4, <1>2 DEF MineRevoke, OrderInv, OrderShapes
  <2> QED
    BY <2>1, <2>2, <2>3, <2>4
<1>3. ListInv'
  BY <1>1, <1>2 DEF PageInv, ListInv
<1> QED
  BY <1>1, <1>3, OrdersSame, RowsSame DEF PageInv, WatchInv, Known

\* Steps that leave the orders and the page alone, and take no wallet or bid back.
LEMMA QuietPage ==
    ASSUME PageInv, UNCHANGED <<orders, cache, refreshes, bidList, watched>>, wallets \subseteq wallets',
           \A b \in Bids : bids[b].commit = "live" => bids'[b].commit = "live"
    PROVE  PageInv'
<1>1. ListInv'
  BY DEF PageInv, ListInv
<1> QED
  BY <1>1, OrdersSame, RowsSame DEF PageInv, WatchInv, Known

LEMMA PageNext == PageInv /\ OrderInv /\ [ClientNext]_(clientVars) => PageInv' /\ ReadsAll
<1> SUFFICES ASSUME PageInv, OrderInv, [ClientNext]_(clientVars)
             PROVE  PageInv' /\ (StartRefresh => ReadsAll)
  BY DEF ReadsAll
<1>1. CASE StartRefresh
  BY <1>1, StartRefreshPage
<1> SUFFICES ASSUME ~StartRefresh PROVE PageInv'
  BY <1>1
<1>2. ASSUME NEW asset, Place(asset) PROVE PageInv'
  BY <1>2, QuietPage DEF Place, orderChain, orderPage
<1>3. CASE Fund \/ Forward \/ Create \/ Await \/ Announce
  BY <1>3, QuietPage DEF Fund, Forward, Create, Await, Announce, placeSame, orderPage
<1>4. ASSUME NEW r, Restart(r) PROVE PageInv'
  <2>1. /\ UNCHANGED <<orders, cache, refreshes, bidList, watched, wallets>>
        /\ bids' = [b \in Bids |-> IF bids[b].box = r THEN [bids[b] EXCEPT !.box = NoRelay]
                                  ELSE bids[b]]
    BY <1>4 DEF Restart, orderDevice, orderChain, orderPage
  <2>2. \A b \in Bids : bids[b].commit = "live" => bids'[b].commit = "live"
    BY <2>1 DEF OrderInv, OrderShapes
  <2> QED
    BY <2>1, <2>2, QuietPage
<1>5. CASE Reload
  <2>1. /\ cache' = <<>> /\ refreshes' = <<>> /\ bidList' = {} /\ watched' = <<>>
        /\ UNCHANGED <<orders, wallets>>
    BY <1>5 DEF Reload, orderChain
  <2>2. RowsInv'
    BY <2>1 DEF RowsInv, Behind
  <2> QED
    BY <2>1, <2>2, OrdersSame DEF PageInv, ListInv, WatchInv, Known
<1>6. ASSUME NEW b \in Bids, Accept(b) PROVE PageInv'
  <2>1. bids[b].order \in Numbers
    BY <1>6 DEF Accept, Listed, PageInv, RowsInv, Behind, Known
  <2> QED
    BY <1>6, <2>1, MovePage DEF Accept
<1>7. ASSUME NEW n \in Numbers, Progress(n) PROVE PageInv'
  BY <1>7, MovePage DEF Progress
<1>8. ASSUME NEW n \in Numbers, FetchBids(n) PROVE PageInv'
  <2>1. /\ UNCHANGED <<orders, wallets, cache, refreshes, watched, bids>>
        /\ bidList' = {b \in bidList : bids[b].order # n}
                    \cup {b \in Boxed(n) : Standing(b)}
    BY <1>8 DEF FetchBids, Fetched, pageSame, orderDevice, orderChain
  <2>2. ListInv'
    BY <2>1 DEF PageInv, ListInv, Standing, Boxed
  <2> QED
    BY <2>1, <2>2, OrdersSame, RowsSame DEF PageInv, WatchInv, Known
<1>9. CASE Return
  <2>1. /\ UNCHANGED <<orders, wallets, cache, refreshes, bids>> /\ bidList' = {}
        /\ DOMAIN watched' = DOMAIN watched
    BY <1>9 DEF Return, pageSame, orderDevice, orderChain
  <2> QED
    BY <2>1, OrdersSame, RowsSame DEF PageInv, ListInv, WatchInv, Known
<1>10. CASE (\E d \in Devices, r \in Relays : Learn(d, r)) \/ UNCHANGED clientVars
  BY <1>10, QuietPage DEF Learn, clientVars, orderDevice, orderChain, orderPage
<1> QED
  BY <1>2, <1>3, <1>4, <1>5, <1>6, <1>7, <1>8, <1>9, <1>10, MineOrderPage, BidPage, RefreshEndsPage
  DEF ClientNext, Numbers

\* However refreshes overlap, fail or end in the wrong order: a row the page will not
\* read again is the order's last status, so a refresh that begins now reads whatever
\* the page does not show as it is, and an order that is still open is never shown as
\* anything else and its bids are polled for (refresh, fetchSealedBids).
THEOREM PagesCanCatchUp ==
    ClientSpec => []PageSound /\ [][ReadsAll]_clientVars
<1>1. ASSUME PageInv PROVE PageSound
  <2>1. \A n \in Numbers : orders[n].wallet \in wallets
    BY <1>1 DEF PageInv, OrdersInv
  <2>2. \A n \in Known : n \in Numbers /\ cache[n] \in Statuses /\ StatusOf(n) \in MayBecome[cache[n]]
    BY <1>1 DEF PageInv, RowsInv, Behind, Known
  <2>3. \A n \in Known : /\ cache[n] \in Terminal => StatusOf(n) = cache[n]
                         /\ StatusOf(n) = "Open" => cache[n] = "Open" /\ n \in DOMAIN watched
    BY <1>1, <2>2, OnwardFacts DEF PageInv, WatchInv
  <2> QED
    BY <1>1, <2>1, <2>2, <2>3 DEF PageInv, ListInv, PageSound
<1>2. ClientSpec => []OrderInv
  BY OrderInit, OrderNext, PTL DEF ClientSpec
<1>3. PageInv /\ OrderInv /\ [ClientNext]_clientVars => PageInv'
  BY PageNext
<1>4. ClientSpec => []PageInv
  BY <1>2, <1>3, PageInit, PTL DEF ClientSpec
<1>5. PageInv /\ OrderInv /\ [ClientNext]_clientVars => [ReadsAll]_clientVars
  BY PageNext
<1> QED
  BY <1>1, <1>2, <1>4, <1>5, PTL DEF ClientSpec

-----------------------------------------------------------------------------
(* II.  Disclosure.                                                        *)

\* Things numbered differently, after lo and up to hi, are few.
LEMMA FewBetween ==
    ASSUME NEW S, NEW at, NEW lo \in Int, NEW hi \in Int, lo <= hi,
           \A x \in S : at[x] \in Int /\ lo < at[x] /\ at[x] <= hi,
           \A x, y \in S : at[x] = at[y] => x = y
    PROVE  IsFiniteSet(S) /\ Cardinality(S) \in Nat /\ Cardinality(S) <= hi - lo
<1> DEFINE number == [x \in S |-> at[x]]
<1>1. number \in [S -> (lo + 1)..hi]
  OBVIOUS
<1>2. number \in Injection(S, (lo + 1)..hi)
  BY <1>1 DEF Injection, IsInjective
<1>3. IsFiniteSet((lo + 1)..hi) /\ Cardinality((lo + 1)..hi) = hi - lo
  <2>1. lo + 1 \in Int
    OBVIOUS
  <2>2. Cardinality((lo + 1)..hi) = IF lo + 1 > hi THEN 0 ELSE hi - (lo + 1) + 1
    BY <2>1, FS_Interval
  <2>3. IsFiniteSet((lo + 1)..hi)
    BY <2>1, FS_Interval
  <2> QED
    BY <2>2, <2>3
<1>4. IsFiniteSet(S) /\ Cardinality(S) <= Cardinality((lo + 1)..hi)
  BY <1>2, <1>3, FS_Injection
<1> QED
  BY <1>3, <1>4, FS_CardinalityType

\* A thread: finitely many capsules, and a number of others.
IsThread(t) ==
    /\ t = [capsules |-> t.capsules, others |-> t.others]
    /\ IsFiniteSet(t.capsules) /\ t.others \in Nat

AtStore == {q \in mailing : q.at = "kv"}

\* A shelf holds no more than was posted and is not on its way there.
SizesInv ==
    /\ postCount \in Nat /\ IsFiniteSet(mailing)
    /\ topics = [s \in Shelves |-> topics[s]]
    /\ IsThread(topics["kv"]) /\ IsThread(topics["relay"])
    /\ Size(topics["kv"]) + Cardinality(AtStore) <= postCount
    /\ Size(topics["relay"]) + Cardinality(mailing) <= postCount
    /\ \A q \in mailing : q = [env |-> q.env, at |-> q.at, view |-> q.view]
    /\ \A q \in AtStore : q.view # Unread =>
          IsThread(q.view) /\ Size(q.view) + Cardinality(AtStore) <= postCount

\* What party w found on shelf s is there, or there is a reason why not.
StandsFor(w, evidence, s) ==
    since[w] = {} /\ postCount <= MSG_THREAD_MAX =>
        evidence = Found(s) /\ \A q \in mailing : ~IsCapsule(q.env)

FilingShapes ==
    /\ since = [w \in Parties |-> since[w]]
    /\ filing = [w \in Parties |-> [begun |-> filing[w].begun, evidence |-> filing[w].evidence,
                                    shelf |-> filing[w].shelf]]
    /\ \A w \in Parties : filing[w].shelf \in Shelves \cup {"none"}
    /\ dispute.status # "None" =>
          dispute.opener \in Parties /\ dispute.shelf \in Shelves \cup {"none"}

\* Inductive.
DisclosureInv ==
    /\ FilingShapes
    /\ SizesInv
    /\ \A w \in Parties : filing[w].begun => StandsFor(w, filing[w].evidence, filing[w].shelf)
    /\ dispute.status # "None" => StandsFor(dispute.opener, dispute.evidence, dispute.shelf)

LEMMA SetSizes ==
    ASSUME NEW M, IsFiniteSet(M), NEW x
    PROVE  /\ Cardinality(M) \in Nat
           /\ IsFiniteSet(M \cup {x}) /\ Cardinality(M \cup {x}) \in Nat
           /\ Cardinality(M \cup {x}) <= Cardinality(M) + 1
           /\ \A q \in M : /\ IsFiniteSet(M \ {q}) /\ Cardinality(M \ {q}) = Cardinality(M) - 1
                           /\ Cardinality(M \ {q}) \in Nat
                           /\ IsFiniteSet((M \ {q}) \cup {x})
                           /\ Cardinality((M \ {q}) \cup {x}) \in Nat
                           /\ Cardinality((M \ {q}) \cup {x}) <= Cardinality(M)
<1>1. ASSUME NEW L, IsFiniteSet(L)
      PROVE  /\ IsFiniteSet(L \cup {x}) /\ Cardinality(L \cup {x}) <= Cardinality(L) + 1
             /\ Cardinality(L) \in Nat /\ Cardinality(L \cup {x}) \in Nat
  BY <1>1, FS_AddElement, FS_CardinalityType
<1>2. ASSUME NEW q \in M
      PROVE  /\ IsFiniteSet(M \ {q}) /\ Cardinality(M \ {q}) = Cardinality(M) - 1
             /\ Cardinality(M \ {q}) \in Nat
  BY FS_RemoveElement, FS_CardinalityType
<1>3. ASSUME NEW q \in M
      PROVE  /\ IsFiniteSet((M \ {q}) \cup {x}) /\ Cardinality((M \ {q}) \cup {x}) \in Nat
             /\ Cardinality((M \ {q}) \cup {x}) <= Cardinality(M)
  <2> DEFINE L == M \ {q}
  <2>1. IsFiniteSet(L) /\ Cardinality(L) = Cardinality(M) - 1 /\ Cardinality(M) \in Nat
    BY <1>1, <1>2
  <2> HIDE DEF L
  <2>2. /\ IsFiniteSet(L \cup {x}) /\ Cardinality(L \cup {x}) \in Nat
        /\ Cardinality(L \cup {x}) <= Cardinality(L) + 1
    BY <1>1, <2>1
  <2>3. Cardinality(L \cup {x}) <= Cardinality(M)
    BY <2>1, <2>2
  <2> QED
    BY <2>2, <2>3 DEF L
<1>4. /\ Cardinality(M) \in Nat
      /\ IsFiniteSet(M \cup {x}) /\ Cardinality(M \cup {x}) \in Nat
      /\ Cardinality(M \cup {x}) <= Cardinality(M) + 1
  BY <1>1
<1> QED
  BY <1>2, <1>3, <1>4

LEMMA SubsetSizes ==
    ASSUME NEW M, IsFiniteSet(M), NEW L, L \subseteq M
    PROVE  IsFiniteSet(L) /\ Cardinality(L) \in Nat /\ Cardinality(L) <= Cardinality(M)
BY FS_Subset, FS_CardinalityType

\* What is kept is one more at most; and if that is not too many, a line or a
\* hello leaves the capsules as they are.
LEMMA KeptFacts ==
    ASSUME MSG_THREAD_MAX \in Nat, NEW mail, IsThread(mail), NEW env, NEW kept \in Kept(mail, env)
    PROVE  /\ IsThread(kept) /\ Size(kept) \in Nat /\ Size(mail) \in Nat
           /\ Size(kept) <= Size(mail) + 1
           /\ ~IsCapsule(env) /\ Size(mail) + 1 <= MSG_THREAD_MAX =>
                 kept.capsules = mail.capsules
<1> DEFINE all == Added(mail, env)
<1>0. IsFiniteSet(mail.capsules) /\ mail.others \in Nat
      /\ Cardinality(mail.capsules) \in Nat /\ Size(mail) \in Nat
  BY SubsetSizes DEF IsThread, Size
<1>1. /\ IsThread(all) /\ Size(all) \in Nat /\ Size(all) <= Size(mail) + 1
      /\ ~IsCapsule(env) => all.capsules = mail.capsules
  <2>1. CASE IsCapsule(env)
    <3> DEFINE left == {e \in mail.capsules : ~Replaces(env, e)}
    <3>1. all = [capsules |-> left \cup {env}, others |-> mail.others]
      BY <2>1 DEF Added, IsThread
    <3>2. left \subseteq mail.capsules
      OBVIOUS
    <3> HIDE DEF left
    <3>3. IsFiniteSet(left) /\ Cardinality(left) \in Nat
          /\ Cardinality(left) <= Cardinality(mail.capsules)
      BY <1>0, <3>2, SubsetSizes
    <3>4. IsFiniteSet(left \cup {env}) /\ Cardinality(left \cup {env}) \in Nat
          /\ Cardinality(left \cup {env}) <= Cardinality(left) + 1
      BY <3>3, SetSizes
    <3>5. all.capsules = left \cup {env} /\ all.others = mail.others
      BY <3>1
    <3> QED
      BY <1>0, <2>1, <3>1, <3>3, <3>4, <3>5 DEF IsThread, Size
  <2>2. CASE ~IsCapsule(env)
    <3>1. all = [capsules |-> mail.capsules, others |-> mail.others + 1]
      BY <2>2 DEF Added, IsThread
    <3>2. all.capsules = mail.capsules /\ all.others = mail.others + 1
      BY <3>1
    <3> QED
      BY <1>0, <3>1, <3>2 DEF IsThread, Size
  <2> QED
    BY <2>1, <2>2
<1>2. CASE Size(all) <= MSG_THREAD_MAX
  <2>1. kept = all
    BY <1>2 DEF Kept
  <2> QED
    BY <1>0, <1>1, <2>1
<1>3. CASE ~(Size(all) <= MSG_THREAD_MAX)
  <2>1. /\ kept \in [capsules : SUBSET all.capsules, others : 0..all.others]
        /\ Size(kept) = MSG_THREAD_MAX
    BY <1>3 DEF Kept
  <2>2. IsFiniteSet(all.capsules) /\ all.others \in Nat
    BY <1>1 DEF IsThread
  <2> HIDE DEF all
  <2>3. IsThread(kept)
    BY <2>1, <2>2, SubsetSizes DEF IsThread
  <2> QED
    BY <1>0, <1>1, <1>3, <2>1, <2>3
<1> QED
  BY <1>2, <1>3

-----------------------------------------------------------------------------
\* What a step must do for what party w found to stand: forget no reason, and
\* give one if it posts, takes away or adds a capsule.
SameCapsules ==
    /\ topics'["kv"].capsules = topics["kv"].capsules
    /\ topics'["relay"].capsules = topics["relay"].capsules
    /\ \A q \in mailing' : ~IsCapsule(q.env)

Lasts(w) ==
    since'[w] = {} =>
        /\ since[w] = {} /\ postCount <= postCount'
        /\ postCount' <= MSG_THREAD_MAX /\ (\A q \in mailing : ~IsCapsule(q.env)) => SameCapsules

Reader(w) == filing[w].begun \/ dispute.opener = w

LEMMA StandsOnward ==
    ASSUME postCount \in Nat, postCount' \in Nat, MSG_THREAD_MAX \in Nat,
           NEW w, Lasts(w), NEW evidence, NEW s \in Shelves \cup {"none"},
           StandsFor(w, evidence, s)
    PROVE  StandsFor(w, evidence, s)'
BY DEF StandsFor, Lasts, SameCapsules, Found, Shelves

\* A step that leaves evidence alone.
LEMMA QuietDisclosure ==
    ASSUME DisclosureInv, MSG_THREAD_MAX \in Nat, SizesInv',
           since' = [p \in Parties |-> since'[p]],
           \A w \in Parties : Reader(w) => Lasts(w),
           UNCHANGED <<filing, dispute>>
    PROVE  DisclosureInv'
<1>1. postCount \in Nat /\ postCount' \in Nat
  BY DEF DisclosureInv, SizesInv
<1>2. ASSUME NEW w \in Parties, filing'[w].begun
      PROVE  StandsFor(w, filing[w].evidence, filing[w].shelf)'
  <2> PICK S, s : S = filing[w].evidence /\ s = filing[w].shelf
    OBVIOUS
  <2>1. StandsFor(w, S, s) /\ Lasts(w) /\ s \in Shelves \cup {"none"}
    BY <1>2 DEF DisclosureInv, FilingShapes, Reader
  <2>2. StandsFor(w, S, s)'
    BY <1>1, <2>1, StandsOnward
  <2>3. S = filing'[w].evidence /\ s = filing'[w].shelf
    OBVIOUS
  <2> QED
    BY <2>2, <2>3 DEF StandsFor, Found
<1>3. ASSUME dispute'.status # "None"
      PROVE  StandsFor(dispute.opener, dispute.evidence, dispute.shelf)'
  <2> PICK S, s, w : S = dispute.evidence /\ s = dispute.shelf /\ w = dispute.opener
    OBVIOUS
  <2>1. StandsFor(w, S, s) /\ Lasts(w) /\ s \in Shelves \cup {"none"}
    BY <1>3 DEF DisclosureInv, FilingShapes, Reader
  <2>2. StandsFor(w, S, s)'
    BY <1>1, <2>1, StandsOnward
  <2>3. S = dispute'.evidence /\ s = dispute'.shelf /\ w = dispute'.opener
    OBVIOUS
  <2> QED
    BY <2>2, <2>3 DEF StandsFor, Found
<1>4. FilingShapes'
  BY DEF DisclosureInv, FilingShapes
<1> QED
  BY <1>2, <1>3, <1>4 DEF DisclosureInv

\* Whoever read the evidence has a reason.
LEMMA Befallen ==
    ASSUME DisclosureInv, NEW what, Befalls(what)
    PROVE  /\ since' = [p \in Parties |-> since'[p]]
           /\ \A w \in Parties : Reader(w) => Lasts(w)
<1>1. ASSUME NEW w \in Parties, Reader(w) PROVE since'[w] # {}
  BY <1>1 DEF Befalls, Reader
<1> QED
  BY <1>1 DEF Befalls, Lasts

LEMMA SinceSame ==
    ASSUME DisclosureInv, UNCHANGED since
    PROVE  since' = [p \in Parties |-> since'[p]]
BY DEF DisclosureInv, FilingShapes

-----------------------------------------------------------------------------
\* An envelope is on its way.
LEMMA SendSizes ==
    ASSUME SizesInv, NEW env, SendEnvelope(env)
    PROVE  SizesInv'
<1> DEFINE new == [env |-> env, at |-> first, view |-> Unread]
<1>1. /\ postCount' = postCount + 1 /\ postCount \in Nat
      /\ mailing' = mailing \cup {new} /\ UNCHANGED topics
  BY DEF SendEnvelope, SizesInv
<1>2. AtStore \subseteq mailing /\ IsFiniteSet(mailing)
  BY DEF AtStore, SizesInv
<1>3. IsFiniteSet(AtStore) /\ Cardinality(AtStore) \in Nat
  BY <1>2, SubsetSizes
<1>4. AtStore' \subseteq AtStore \cup {new}
  BY <1>1 DEF AtStore
<1>5. new = [env |-> new.env, at |-> new.at, view |-> new.view] /\ new.view = Unread
  OBVIOUS
<1> HIDE DEF new
<1>6. IsFiniteSet(mailing') /\ Cardinality(mailing') \in Nat
      /\ Cardinality(mailing') <= Cardinality(mailing) + 1 /\ Cardinality(mailing) \in Nat
  BY <1>1, <1>2, SetSizes
<1>7. Cardinality(AtStore') \in Nat /\ Cardinality(AtStore') <= Cardinality(AtStore) + 1
  <2>1. IsFiniteSet(AtStore \cup {new}) /\ Cardinality(AtStore \cup {new}) \in Nat
        /\ Cardinality(AtStore \cup {new}) <= Cardinality(AtStore) + 1
    BY <1>3, SetSizes
  <2>2. Cardinality(AtStore') \in Nat /\ Cardinality(AtStore') <= Cardinality(AtStore \cup {new})
    BY <1>4, <2>1, SubsetSizes
  <2> QED
    BY <1>3, <2>1, <2>2
<1>8. Size(topics["kv"]) \in Nat /\ Size(topics["relay"]) \in Nat
  BY SubsetSizes DEF SizesInv, IsThread, Size
<1>9. \A q \in mailing' : q = [env |-> q.env, at |-> q.at, view |-> q.view]
  BY <1>1, <1>5 DEF SizesInv
<1>10. ASSUME NEW q \in AtStore', q.view # Unread
       PROVE  IsThread(q.view) /\ Size(q.view) + Cardinality(AtStore') <= postCount'
  <2>1. q \in AtStore
    BY <1>4, <1>5, <1>10
  <2>2. IsThread(q.view) /\ Size(q.view) + Cardinality(AtStore) <= postCount
    BY <1>10, <2>1 DEF SizesInv
  <2>3. Size(q.view) \in Nat
    BY <2>2, SubsetSizes DEF IsThread, Size
  <2> QED
    BY <1>1, <1>3, <1>7, <2>2, <2>3
<1> QED
  BY <1>1, <1>3, <1>6, <1>7, <1>8, <1>9, <1>10 DEF SizesInv, Size

\* A post under way goes on, moves or ends: it is counted where it was.
LEMMA MoveSizes ==
    ASSUME SizesInv, MSG_THREAD_MAX \in Nat, NEW q \in mailing, UNCHANGED postCount,
           NEW r, r = [env |-> r.env, at |-> r.at, view |-> r.view], r.at \in Shelves,
           r.at = "kv" => q.at = "kv" /\ r.view \in {Unread, topics["kv"]},
           \/ mailing' = mailing \ {q}
           \/ mailing' = (mailing \ {q}) \cup {r},
           \/ UNCHANGED topics
           \/ /\ q.at = "kv" /\ q.view # Unread
              /\ mailing' = mailing \ {q} \/ r.at = "relay"
              /\ \E kept \in Kept(q.view, q.env) : topics' = [topics EXCEPT !["kv"] = kept]
           \/ /\ mailing' = mailing \ {q}
              /\ q.at = "relay"
              /\ \E kept \in Kept(topics["relay"], q.env) : topics' = [topics EXCEPT !["relay"] = kept]
    PROVE  SizesInv'
<1>1. /\ postCount \in Nat /\ AtStore \subseteq mailing /\ IsFiniteSet(mailing)
      /\ IsThread(topics["kv"]) /\ IsThread(topics["relay"])
  BY DEF AtStore, SizesInv
<1>2. IsFiniteSet(AtStore)
  BY <1>1, SubsetSizes
<1>3. /\ IsFiniteSet(mailing') /\ Cardinality(mailing') \in Nat /\ Cardinality(mailing) \in Nat
      /\ Cardinality(mailing') <= Cardinality(mailing)
      /\ mailing' = mailing \ {q} => Cardinality(mailing') = Cardinality(mailing) - 1
  <2>1. CASE mailing' = mailing \ {q}
    <3>1. /\ IsFiniteSet(mailing \ {q}) /\ Cardinality(mailing \ {q}) = Cardinality(mailing) - 1
          /\ Cardinality(mailing \ {q}) \in Nat /\ Cardinality(mailing) \in Nat
      BY <1>1, SetSizes
    <3> QED
      BY <2>1, <3>1
  <2>2. CASE mailing' = (mailing \ {q}) \cup {r} /\ mailing' # mailing \ {q}
    <3>1. /\ IsFiniteSet((mailing \ {q}) \cup {r}) /\ Cardinality(mailing) \in Nat
          /\ Cardinality((mailing \ {q}) \cup {r}) \in Nat
          /\ Cardinality((mailing \ {q}) \cup {r}) <= Cardinality(mailing)
      BY <1>1, SetSizes
    <3> QED
      BY <2>2, <3>1
  <2> QED
    BY <2>1, <2>2
<1>4. /\ Cardinality(AtStore) \in Nat
      /\ Cardinality(AtStore') \in Nat /\ Cardinality(AtStore') <= Cardinality(AtStore)
      /\ q.at = "kv" /\ (mailing' = mailing \ {q} \/ r.at = "relay") =>
            Cardinality(AtStore') + 1 <= Cardinality(AtStore)
  <2>1. CASE q.at = "kv" /\ (mailing' = mailing \ {q} \/ r.at = "relay")
    <3>1. q \in AtStore /\ AtStore' \subseteq AtStore \ {q}
      BY <2>1 DEF AtStore
    <3>2. IsFiniteSet(AtStore \ {q}) /\ Cardinality(AtStore \ {q}) = Cardinality(AtStore) - 1
      BY <1>2, <3>1, SetSizes
    <3>3. Cardinality(AtStore') \in Nat /\ Cardinality(AtStore') <= Cardinality(AtStore \ {q})
      BY <3>1, <3>2, SubsetSizes
    <3>4. Cardinality(AtStore) \in Nat
      BY <1>2, SetSizes
    <3> QED
      BY <3>2, <3>3, <3>4
  <2>2. CASE q.at = "kv" /\ ~(mailing' = mailing \ {q} \/ r.at = "relay")
    <3>1. q \in AtStore /\ AtStore' \subseteq (AtStore \ {q}) \cup {r}
      BY <2>2 DEF AtStore
    <3>2. /\ IsFiniteSet((AtStore \ {q}) \cup {r}) /\ Cardinality(AtStore) \in Nat
          /\ Cardinality((AtStore \ {q}) \cup {r}) \in Nat
          /\ Cardinality((AtStore \ {q}) \cup {r}) <= Cardinality(AtStore)
      BY <1>2, <3>1, SetSizes
    <3>3. Cardinality(AtStore') \in Nat
          /\ Cardinality(AtStore') <= Cardinality((AtStore \ {q}) \cup {r})
      BY <3>1, <3>2, SubsetSizes
    <3> QED
      BY <2>2, <3>2, <3>3
  <2>3. CASE q.at # "kv"
    <3>1. AtStore' \subseteq AtStore
      BY <2>3 DEF AtStore
    <3>2. Cardinality(AtStore) \in Nat /\ Cardinality(AtStore') \in Nat
          /\ Cardinality(AtStore') <= Cardinality(AtStore)
      BY <1>2, <3>1, SubsetSizes
    <3> QED
      BY <2>3, <3>2
  <2> QED
    BY <2>1, <2>2, <2>3
<1>5. Size(topics["kv"]) \in Nat /\ Size(topics["relay"]) \in Nat
  BY <1>1, SubsetSizes DEF IsThread, Size
<1>6. \A p \in mailing' : p = [env |-> p.env, at |-> p.at, view |-> p.view]
  BY DEF SizesInv
<1>7. ASSUME NEW p \in AtStore', p.view # Unread
      PROVE  IsThread(p.view) /\ Size(p.view) + Cardinality(AtStore') <= postCount'
  <2>1. /\ IsThread(p.view)
        /\ Size(p.view) + Cardinality(AtStore) <= postCount
    <3>1. CASE p \in AtStore
      BY <1>7, <3>1 DEF SizesInv
    <3>2. CASE p \notin AtStore
      <4>1. p = r /\ r.at = "kv"
        BY <3>2 DEF AtStore
      <4> QED
        BY <1>7, <4>1 DEF SizesInv
    <3> QED
      BY <3>1, <3>2
  <2>2. Size(p.view) \in Nat
    BY <2>1, SubsetSizes DEF IsThread, Size
  <2> QED
    BY <1>1, <1>4, <2>1, <2>2
<1> DEFINE Fits == /\ topics' = [s \in Shelves |-> topics'[s]]
                   /\ IsThread(topics'["kv"]) /\ IsThread(topics'["relay"])
                   /\ Size(topics'["kv"]) + Cardinality(AtStore') <= postCount
                   /\ Size(topics'["relay"]) + Cardinality(mailing') <= postCount
<1>8. Fits
  <2>1. CASE UNCHANGED topics
    BY <1>1, <1>3, <1>4, <1>5, <2>1 DEF SizesInv
  <2>2. ASSUME q.at = "kv", q.view # Unread, mailing' = mailing \ {q} \/ r.at = "relay",
               NEW kept \in Kept(q.view, q.env), topics' = [topics EXCEPT !["kv"] = kept]
        PROVE  Fits
    <3>1. IsThread(q.view) /\ Size(q.view) + Cardinality(AtStore) <= postCount
      BY <2>2 DEF AtStore, SizesInv
    <3>2. IsThread(kept) /\ Size(kept) \in Nat /\ Size(q.view) \in Nat
          /\ Size(kept) <= Size(q.view) + 1
      BY <2>2, <3>1, KeptFacts
    <3>3. topics'["kv"] = kept /\ topics'["relay"] = topics["relay"]
          /\ topics' = [s \in Shelves |-> topics'[s]]
      BY <2>2 DEF SizesInv, Shelves
    <3>4. Size(topics["relay"]) + Cardinality(mailing) <= postCount
      BY DEF SizesInv
    <3>5. Size(kept) + Cardinality(AtStore') <= postCount
      BY <1>1, <1>4, <2>2, <3>1, <3>2
    <3> QED
      BY <1>1, <1>3, <1>5, <3>2, <3>3, <3>4, <3>5
  <2>3. ASSUME q.at = "relay", mailing' = mailing \ {q},
               NEW kept \in Kept(topics["relay"], q.env),
               topics' = [topics EXCEPT !["relay"] = kept]
        PROVE  Fits
    <3>1. Size(topics["relay"]) + Cardinality(mailing) <= postCount
          /\ Size(topics["kv"]) + Cardinality(AtStore) <= postCount
      BY DEF SizesInv
    <3>2. IsThread(kept) /\ Size(kept) \in Nat /\ Size(kept) <= Size(topics["relay"]) + 1
      BY <1>1, <2>3, KeptFacts
    <3>3. topics'["relay"] = kept /\ topics'["kv"] = topics["kv"]
          /\ topics' = [s \in Shelves |-> topics'[s]]
      BY <2>3 DEF SizesInv, Shelves
    <3> QED
      BY <1>1, <1>3, <1>4, <1>5, <2>3, <3>1, <3>2, <3>3
  <2> QED
    BY <2>1, <2>2, <2>3
<1> QED
  BY <1>1, <1>3, <1>6, <1>7, <1>8 DEF SizesInv

\* Whatever a shelf takes, it may be the last of at most postCount.
LEMMA RoomFor ==
    ASSUME SizesInv, NEW q \in mailing
    PROVE  /\ Size(topics["relay"]) \in Nat /\ Size(topics["relay"]) + 1 <= postCount
           /\ q.at = "kv" /\ q.view # Unread =>
                 /\ IsThread(q.view) /\ Size(q.view) \in Nat
                 /\ Size(q.view) + 1 <= postCount
<1>1. /\ postCount \in Nat /\ AtStore \subseteq mailing /\ IsFiniteSet(mailing)
      /\ IsThread(topics["relay"])
      /\ Size(topics["relay"]) + Cardinality(mailing) <= postCount
  BY DEF AtStore, SizesInv
<1>2. /\ Cardinality(mailing) \in Nat /\ Cardinality(mailing \ {q}) \in Nat
      /\ Cardinality(mailing \ {q}) = Cardinality(mailing) - 1
  BY <1>1, SetSizes
<1>3. Size(topics["relay"]) \in Nat
  BY <1>1, SubsetSizes DEF IsThread, Size
<1>4. ASSUME q.at = "kv", q.view # Unread
      PROVE  IsThread(q.view) /\ Size(q.view) \in Nat /\ Size(q.view) + 1 <= postCount
  <2>1. q \in AtStore /\ IsFiniteSet(AtStore)
    BY <1>1, <1>4, SubsetSizes DEF AtStore
  <2>2. /\ Cardinality(AtStore) \in Nat /\ Cardinality(AtStore \ {q}) \in Nat
        /\ Cardinality(AtStore \ {q}) = Cardinality(AtStore) - 1
    BY <2>1, SetSizes
  <2>3. IsThread(q.view) /\ Size(q.view) + Cardinality(AtStore) <= postCount
    BY <1>4, <2>1 DEF SizesInv
  <2>4. Size(q.view) \in Nat
    BY <2>3, SubsetSizes DEF IsThread, Size
  <2> QED
    BY <1>1, <2>2, <2>3, <2>4
<1> QED
  BY <1>1, <1>2, <1>3, <1>4

-----------------------------------------------------------------------------
LEMMA SendStep ==
    ASSUME DisclosureInv, MSG_THREAD_MAX \in Nat, NEW w \in Parties,
           \/ Talk(w) \/ OpenChat(w) \/ SendCapsule(w) \/ StrangePost
    PROVE  DisclosureInv'
<1> USE DEF contract, mailbox, partyPages
<1>1. UNCHANGED <<filing, dispute>>
  BY DEF Talk, OpenChat, SendCapsule, StrangePost
<1>2. ASSUME SendChatter(w), UNCHANGED since PROVE DisclosureInv'
  <2> DEFINE env == [kind |-> "other", id |-> postCount + 1]
  <2>1. SendEnvelope(env)
    BY <1>2 DEF SendChatter
  <2>2. ~IsCapsule(env)
    BY DEF IsCapsule
  <2> HIDE DEF env
  <2>3. SizesInv'
    BY <2>1, SendSizes DEF DisclosureInv
  <2>4. /\ UNCHANGED topics /\ postCount' = postCount + 1 /\ postCount \in Nat
        /\ mailing' = mailing \cup {[env |-> env, at |-> first, view |-> Unread]}
    BY <2>1 DEF SendEnvelope, DisclosureInv, SizesInv
  <2>5. \A p \in Parties : Lasts(p)
    BY <1>2, <2>2, <2>4 DEF Lasts, SameCapsules
  <2> QED
    BY <1>1, <1>2, <2>3, <2>5, QuietDisclosure, SinceSame
<1>3. ASSUME NEW p, NEW seq, NEW to, PostCapsule(p, seq, to), NEW what, Befalls(what)
      PROVE  DisclosureInv'
  <2>1. PICK env : SendEnvelope(env)
    BY <1>3 DEF PostCapsule
  <2>2. SizesInv'
    BY <2>1, SendSizes DEF DisclosureInv
  <2> QED
    BY <1>1, <1>3, <2>2, Befallen, QuietDisclosure
<1>4. ASSUME UNCHANGED <<mailbox, since>> PROVE DisclosureInv'
  <2>1. SizesInv'
    BY <1>4 DEF DisclosureInv, SizesInv, AtStore
  <2>2. \A p \in Parties : Lasts(p)
    BY <1>4 DEF Lasts, SameCapsules, DisclosureInv, SizesInv
  <2> QED
    BY <1>1, <1>4, <2>1, <2>2, QuietDisclosure, SinceSame
<1> QED
  BY <1>2, <1>3, <1>4 DEF Talk, OpenChat, SendCapsule, StrangePost

LEMMA ShelfStep ==
    ASSUME DisclosureInv, MSG_THREAD_MAX \in Nat, NEW q \in mailing,
           \/ TakeOut(q) \/ PutBack(q) \/ RelayTakes(q) \/ TurnedAway(q)
    PROVE  DisclosureInv'
<1> USE DEF contract, mailbox, partyPages
<1> DEFINE view == [env |-> q.env, at |-> "kv", view |-> topics["kv"]]
           next == [env |-> q.env, at |-> "relay", view |-> Unread]
<1>1. /\ UNCHANGED <<filing, dispute, postCount>> /\ postCount \in Nat
      /\ q = [env |-> q.env, at |-> q.at, view |-> q.view]
  BY DEF TakeOut, PutBack, RelayTakes, TurnedAway, mailSame, DisclosureInv, SizesInv
<1>2. /\ view = [env |-> view.env, at |-> view.at, view |-> view.view]
      /\ view.at = "kv" /\ view.view = topics["kv"] /\ view.env = q.env
      /\ next = [env |-> next.env, at |-> next.at, view |-> next.view]
      /\ next.at = "relay" /\ next.env = q.env
  OBVIOUS
<1>3. /\ TakeOut(q) => [q EXCEPT !.view = topics["kv"]] = view
      /\ AtRelay(q) = next
  BY <1>1 DEF TakeOut, AtRelay
<1> HIDE DEF view, next
<1>4. CASE TakeOut(q)
  <2>1. /\ q.at = "kv" /\ mailing' = (mailing \ {q}) \cup {view} /\ UNCHANGED <<topics, since>>
    BY <1>3, <1>4 DEF TakeOut
  <2>2. SizesInv'
    BY <1>1, <1>2, <2>1, MoveSizes DEF DisclosureInv, Shelves
  <2>3. \A p \in Parties : Lasts(p)
    BY <1>1, <1>2, <2>1 DEF Lasts, SameCapsules
  <2> QED
    BY <1>1, <2>1, <2>2, <2>3, QuietDisclosure, SinceSame
<1>5. CASE TurnedAway(q)
  <2>1. /\ mailing' = mailing \ {q} \/ mailing' = (mailing \ {q}) \cup {next}
        /\ UNCHANGED <<topics, since>>
    BY <1>3, <1>5 DEF TurnedAway
  <2>2. SizesInv'
    BY <1>1, <1>2, <2>1, MoveSizes DEF DisclosureInv, Shelves
  <2>3. \A p \in Parties : Lasts(p)
    BY <1>1, <1>2, <2>1 DEF Lasts, SameCapsules
  <2> QED
    BY <1>1, <2>1, <2>2, <2>3, QuietDisclosure, SinceSame
<1>6. CASE RelayTakes(q)
  <2>1. PICK kept \in Kept(topics["relay"], q.env) : topics' = [topics EXCEPT !["relay"] = kept]
    BY <1>6 DEF RelayTakes
  <2>2. q.at = "relay" /\ mailing' = mailing \ {q} /\ UNCHANGED since
    BY <1>6 DEF RelayTakes
  <2>3. SizesInv'
    BY <1>1, <1>2, <2>1, <2>2, MoveSizes DEF DisclosureInv, Shelves
  <2>4. topics'["kv"] = topics["kv"] /\ topics'["relay"] = kept
    BY <2>1 DEF DisclosureInv, SizesInv, Shelves
  <2>5. IsThread(topics["relay"]) /\ Size(topics["relay"]) \in Nat
        /\ Size(topics["relay"]) + 1 <= postCount
    BY RoomFor DEF DisclosureInv, SizesInv
  <2>6. ~IsCapsule(q.env) /\ Size(topics["relay"]) + 1 <= MSG_THREAD_MAX =>
           kept.capsules = topics["relay"].capsules
    BY <2>5, KeptFacts
  <2>7. \A p \in Parties : Lasts(p)
    BY <1>1, <2>2, <2>4, <2>5, <2>6 DEF Lasts, SameCapsules
  <2> QED
    BY <1>1, <2>2, <2>3, <2>7, QuietDisclosure, SinceSame
<1>7. CASE PutBack(q)
  <2>1. PICK kept \in Kept(q.view, q.env) : topics' = [topics EXCEPT !["kv"] = kept]
    BY <1>7 DEF PutBack
  <2>2. /\ q.at = "kv" /\ q.view # Unread
        /\ mailing' = mailing \ {q} \/ mailing' = (mailing \ {q}) \cup {next}
    BY <1>3, <1>7 DEF PutBack
  <2>3. SizesInv'
    BY <1>1, <1>2, <2>1, <2>2, MoveSizes DEF DisclosureInv, Shelves
  <2>4. CASE Befalls("raced")
    BY <1>1, <2>3, <2>4, Befallen, QuietDisclosure
  <2>5. CASE q.view.capsules = topics["kv"].capsules /\ UNCHANGED since
    <3>1. topics'["relay"] = topics["relay"] /\ topics'["kv"] = kept
      BY <2>1 DEF DisclosureInv, SizesInv, Shelves
    <3>2. IsThread(q.view) /\ Size(q.view) \in Nat /\ Size(q.view) + 1 <= postCount
      BY <2>2, RoomFor DEF DisclosureInv
    <3>3. ~IsCapsule(q.env) /\ Size(q.view) + 1 <= MSG_THREAD_MAX =>
             kept.capsules = topics["kv"].capsules
      BY <2>5, <3>2, KeptFacts
    <3>4. \A p \in Parties : Lasts(p)
      BY <1>1, <1>2, <2>2, <2>5, <3>1, <3>2, <3>3 DEF Lasts, SameCapsules
    <3> QED
      BY <1>1, <2>3, <2>5, <3>4, QuietDisclosure, SinceSame
  <2> QED
    BY <1>7, <2>4, <2>5 DEF PutBack
<1> QED
  BY <1>4, <1>5, <1>6, <1>7

LEMMA SameMail ==
    ASSUME DisclosureInv, UNCHANGED mailbox PROVE SizesInv'
BY DEF DisclosureInv, SizesInv, AtStore, mailbox

\* Nothing that the evidence depends on.
LEMMA OtherStep ==
    ASSUME DisclosureInv, MSG_THREAD_MAX \in Nat,
           \/ \E w \in Parties : VerifyArbiter(w)
           \/ SetArbiter \/ UNCHANGED disclosureVars
    PROVE  DisclosureInv'
<1>1. UNCHANGED <<filing, dispute, since, mailbox>>
  BY DEF VerifyArbiter, SetArbiter, partyPages, contract, disclosureVars
<1>2. \A p \in Parties : Lasts(p)
  BY <1>1 DEF Lasts, SameCapsules, mailbox, DisclosureInv, SizesInv
<1> QED
  BY <1>1, <1>2, SameMail, QuietDisclosure, SinceSame

LEMMA ForgetTopicStep ==
    ASSUME DisclosureInv, MSG_THREAD_MAX \in Nat, NEW s \in Shelves, ForgetTopic(s)
    PROVE  DisclosureInv'
<1> USE DEF contract, mailbox, partyPages
<1>1. /\ UNCHANGED <<filing, dispute, mailing, postCount>> /\ Befalls("forgotten")
      /\ topics' = [topics EXCEPT ![s] = Empty]
  BY DEF ForgetTopic, mailSame
<1>2. IsThread(Empty) /\ Size(Empty) = 0
  BY FS_EmptySet DEF IsThread, Size, Empty
<1>3. /\ postCount \in Nat /\ IsThread(topics["kv"]) /\ IsThread(topics["relay"])
      /\ IsFiniteSet(mailing) /\ AtStore \subseteq mailing
      /\ Size(topics["kv"]) + Cardinality(AtStore) <= postCount
      /\ Size(topics["relay"]) + Cardinality(mailing) <= postCount
  BY DEF DisclosureInv, SizesInv, AtStore
<1>4. /\ Size(topics["kv"]) \in Nat /\ Size(topics["relay"]) \in Nat
      /\ Cardinality(mailing) \in Nat /\ Cardinality(AtStore) \in Nat
  BY <1>3, SubsetSizes DEF IsThread, Size
<1>5. /\ topics' = [x \in Shelves |-> topics'[x]]
      /\ \A x \in Shelves : topics'[x] = topics[x] \/ topics'[x] = Empty
  BY <1>1 DEF DisclosureInv, SizesInv
<1>6. AtStore' = AtStore
  BY <1>1 DEF AtStore
<1>7. SizesInv'
  BY <1>1, <1>2, <1>3, <1>4, <1>5, <1>6 DEF DisclosureInv, SizesInv, Shelves
<1> QED
  BY <1>1, <1>7, Befallen, QuietDisclosure

\* What is read is on the shelf, or on its way there.
LEMMA ReadBundleStep ==
    ASSUME DisclosureInv, NEW w \in Parties, ReadBundle(w) PROVE DisclosureInv'
<1> USE DEF contract
<1>1. PICK s \in Shelves \cup {"none"} :
        filing' = [filing EXCEPT ![w] = [begun |-> TRUE, evidence |-> Bundle(w, s), shelf |-> s]]
  BY DEF ReadBundle
<1>2. /\ dispute.status = "None" /\ UNCHANGED <<dispute, mailbox>>
      /\ since' = [since EXCEPT ![w] = Coming]
  BY DEF ReadBundle
<1>3. /\ filing'[w] = [begun |-> TRUE, evidence |-> Found(s), shelf |-> s]
      /\ since'[w] = Coming
      /\ \A p \in Parties \ {w} : filing'[p] = filing[p] /\ since'[p] = since[p]
  BY <1>1, <1>2 DEF DisclosureInv, FilingShapes, Bundle
<1>4. FilingShapes'
  BY <1>1, <1>2, <1>3 DEF DisclosureInv, FilingShapes
<1>5. ASSUME NEW p \in Parties, filing'[p].begun
      PROVE  StandsFor(p, filing[p].evidence, filing[p].shelf)'
  <2>1. CASE p = w
    <3>1. Coming = {} => \A q \in mailing : ~IsCapsule(q.env)
      BY DEF Coming
    <3>2. Found(s)' = Found(s)
      BY <1>2 DEF Found, mailbox
    <3> QED
      BY <1>2, <1>3, <2>1, <3>1, <3>2 DEF StandsFor, mailbox
  <2>2. CASE p # w
    BY <1>2, <1>3, <1>5, <2>2 DEF DisclosureInv, StandsFor, Found, mailbox
  <2> QED
    BY <2>1, <2>2
<1> QED
  BY <1>2, <1>4, <1>5, SameMail DEF DisclosureInv

LEMMA OpenDisputeStep ==
    ASSUME DisclosureInv, NEW w \in Parties, OpenDispute(w) PROVE DisclosureInv'
<1>1. /\ UNCHANGED <<mailbox, since>> /\ filing[w].begun
      /\ filing' = [filing EXCEPT ![w] = NotFiling]
      /\ \/ UNCHANGED dispute
         \/ dispute' = [status |-> "Open", opener |-> w, evidence |-> filing[w].evidence,
                        shelf |-> filing[w].shelf]
  BY DEF OpenDispute
<1>2. /\ ~filing'[w].begun /\ filing'[w] = NotFiling
      /\ \A p \in Parties \ {w} : filing'[p] = filing[p]
  BY <1>1 DEF DisclosureInv, FilingShapes, NotFiling
<1>3. FilingShapes'
  <2>1. /\ since' = [p \in Parties |-> since'[p]]
        /\ \A p \in Parties : filing[p].shelf \in Shelves \cup {"none"}
    BY <1>1 DEF DisclosureInv, FilingShapes
  <2>2. NotFiling.shelf \in Shelves \cup {"none"}
        /\ NotFiling = [begun |-> NotFiling.begun, evidence |-> NotFiling.evidence,
                        shelf |-> NotFiling.shelf]
    BY DEF NotFiling
  <2>3. \A p \in Parties : filing[p] = [begun |-> filing[p].begun,
                                        evidence |-> filing[p].evidence,
                                        shelf |-> filing[p].shelf]
    BY DEF DisclosureInv, FilingShapes
  <2>4. \A p \in Parties : filing'[p] = [begun |-> filing'[p].begun,
                                         evidence |-> filing'[p].evidence,
                                         shelf |-> filing'[p].shelf]
    BY <1>2, <2>2, <2>3
  <2>5. filing' = [p \in Parties |-> filing'[p]]
    BY <1>1 DEF DisclosureInv, FilingShapes
  <2>6. \A p \in Parties : filing'[p].shelf \in Shelves \cup {"none"}
    BY <1>2, <2>1, <2>2
  <2>7. dispute'.status # "None" =>
           dispute'.opener \in Parties /\ dispute'.shelf \in Shelves \cup {"none"}
    <3>1. CASE UNCHANGED dispute
      BY <3>1 DEF DisclosureInv, FilingShapes
    <3>2. CASE dispute' = [status |-> "Open", opener |-> w, evidence |-> filing[w].evidence,
                           shelf |-> filing[w].shelf]
      BY <2>1, <3>2
    <3> QED
      BY <1>1, <3>1, <3>2
  <2>8. filing' = [p \in Parties |-> [begun |-> filing'[p].begun,
                                      evidence |-> filing'[p].evidence,
                                      shelf |-> filing'[p].shelf]]
    BY <2>4, <2>5
  <2> QED
    BY <2>1, <2>6, <2>7, <2>8 DEF FilingShapes
<1>4. ASSUME NEW p, NEW S, NEW s, StandsFor(p, S, s) PROVE StandsFor(p, S, s)'
  BY <1>1, <1>4 DEF StandsFor, Found, mailbox
<1>5. ASSUME NEW p \in Parties, filing'[p].begun
      PROVE  StandsFor(p, filing[p].evidence, filing[p].shelf)'
  <2>1. filing'[p] = filing[p] /\ StandsFor(p, filing[p].evidence, filing[p].shelf)
    BY <1>2, <1>5 DEF DisclosureInv
  <2> QED
    BY <1>1, <2>1 DEF StandsFor, Found, mailbox
<1>6. ASSUME dispute'.status # "None"
      PROVE  StandsFor(dispute.opener, dispute.evidence, dispute.shelf)'
  <2>1. CASE UNCHANGED dispute
    BY <1>1, <1>6, <2>1 DEF DisclosureInv, StandsFor, Found, mailbox
  <2>2. CASE dispute' = [status |-> "Open", opener |-> w, evidence |-> filing[w].evidence,
                         shelf |-> filing[w].shelf]
    <3>1. StandsFor(w, filing[w].evidence, filing[w].shelf)
      BY <1>1 DEF DisclosureInv
    <3>2. dispute'.opener = w /\ dispute'.evidence = filing[w].evidence
          /\ dispute'.shelf = filing[w].shelf
      BY <2>2
    <3> QED
      BY <1>1, <3>1, <3>2 DEF StandsFor, Found, mailbox
  <2> QED
    BY <1>1, <2>1, <2>2
<1> QED
  BY <1>1, <1>3, <1>5, <1>6, SameMail DEF DisclosureInv

LEMMA DisclosureStarts == DisclosureInit => DisclosureInv
<1> SUFFICES ASSUME DisclosureInit PROVE DisclosureInv
  OBVIOUS
<1>1. /\ topics["kv"] = Empty /\ topics["relay"] = Empty /\ mailing = {} /\ postCount = 0
      /\ topics = [s \in Shelves |-> topics[s]]
  BY DEF DisclosureInit, Shelves
<1>2. IsThread(Empty) /\ Size(Empty) = 0 /\ IsFiniteSet(mailing) /\ Cardinality(mailing) = 0
  BY <1>1, FS_EmptySet DEF IsThread, Size, Empty
<1>3. AtStore = {}
  BY <1>1 DEF AtStore
<1>4. SizesInv
  BY <1>1, <1>2, <1>3 DEF SizesInv
<1> QED
  BY <1>4 DEF DisclosureInit, NotFiling, NoDispute, DisclosureInv, FilingShapes

LEMMA DisclosureSteps ==
    ASSUME DisclosureAssumption
    PROVE  DisclosureInv /\ [DisclosureNext]_disclosureVars => DisclosureInv'
<1> SUFFICES ASSUME DisclosureInv, [DisclosureNext]_disclosureVars PROVE DisclosureInv'
  OBVIOUS
<1>1. MSG_THREAD_MAX \in Nat
  BY DEF DisclosureAssumption
<1>2. CASE StrangePost
  <2>1. PICK w \in Parties : TRUE
    BY <1>2 DEF StrangePost
  <2> QED
    BY <1>1, <1>2, SendStep
<1> QED
  BY <1>1, <1>2, SendStep, ShelfStep, OtherStep, ForgetTopicStep, ReadBundleStep, OpenDisputeStep
     DEF DisclosureNext

\* For any parties and arbiters, any length of thread and any order of posts, races,
\* refusals, forgeries and disputes, the console that is answered by the opener's
\* shelf faults a party whose capsule the evidence names for one of the named
\* reasons only (escrowCapsule, openWithAnchor, reveal).
THEOREM DisclosuresStand ==
    ASSUME DisclosureAssumption
    PROVE  DisclosureSpec => []DisclosureStands
<1>1. DisclosureInv => DisclosureStands
  <2> SUFFICES ASSUME DisclosureInv, dispute.status = "Open", NEW e \in dispute.evidence,
                      MayFault(e.from, dispute.shelf), since[dispute.opener] = {},
                      ~(postCount > MSG_THREAD_MAX)
               PROVE  \E f \in dispute.evidence : f.from = e.from /\ f.to # arbiter
    BY DEF DisclosureStands
  <2>1. postCount \in Nat /\ MSG_THREAD_MAX \in Nat
    BY DEF DisclosureInv, SizesInv, DisclosureAssumption
  <2>2. dispute.evidence = Found(dispute.shelf)
    BY <2>1 DEF DisclosureInv, StandsFor
  <2> QED
    BY <2>2 DEF MayFault, Anchored
<1> QED
  BY <1>1, DisclosureStarts, DisclosureSteps, PTL DEF DisclosureSpec

-----------------------------------------------------------------------------
(* III.  The order thread.                                                 *)

\* Every envelope there is, in a store or on its way.
Posting == {q.env : q \in posts}
Taken == UNION {q.view : q \in {r \in posts : r.view # NotRead}}
Mail == Posting \cup Taken \cup lines \cup threads["kv"] \cup threads["relay"]

Somewhere(e) ==
    \/ \E q \in posts : e = q.env \/ (q.view # NotRead /\ e \in q.view)
    \/ e \in lines \/ e \in threads["kv"] \/ e \in threads["relay"]

LEMMA InMail == \A e : /\ e \in Mail <=> Somewhere(e)
                       /\ e \in Mail' <=> Somewhere(e)'
<1>1. ASSUME NEW e, NEW P
      PROVE  /\ e \in {q.env : q \in P} <=> \E q \in P : e = q.env
             /\ e \in UNION {q.view : q \in {r \in P : r.view # NotRead}}
                   <=> \E q \in P : q.view # NotRead /\ e \in q.view
  OBVIOUS
<1>2. ASSUME NEW e
      PROVE  /\ e \in Posting <=> \E q \in posts : e = q.env
             /\ e \in Taken <=> \E q \in posts : q.view # NotRead /\ e \in q.view
  BY <1>1 DEF Posting, Taken
<1>3. ASSUME NEW e
      PROVE  /\ e \in Posting' <=> \E q \in posts' : e = q.env
             /\ e \in Taken' <=> \E q \in posts' : q.view # NotRead /\ e \in q.view
  BY <1>1 DEF Posting, Taken
<1> QED
  BY <1>2, <1>3 DEF Mail, Somewhere

\* A post the relay is asked to take instead.
LEMMA PassedOn ==
    ASSUME NEW q, NEW e, NEW a, NEW v, q = [env |-> e, at |-> a, view |-> v], NEW b, NEW w
    PROVE  [q EXCEPT !.at = b, !.view = w] = [env |-> q.env, at |-> b, view |-> w]
<1> PICK p : p = [env |-> e, at |-> b, view |-> v]
  OBVIOUS
<1>1. [q EXCEPT !.at = b] = p
  OBVIOUS
<1>2. [p EXCEPT !.view = w] = [env |-> e, at |-> b, view |-> w]
  OBVIOUS
<1>3. [q EXCEPT !.at = b, !.view = w] = [[q EXCEPT !.at = b] EXCEPT !.view = w]
  OBVIOUS
<1> QED
  BY <1>1, <1>2, <1>3

\* Envelopes have times of their own.
Dated(mail) ==
    /\ \A e \in mail : e.ts \in 1..time
    /\ \A e, f \in mail : e.ts = f.ts => e = f

ChannelShapes ==
    /\ time \in Nat
    /\ threads = [s \in Stores |-> threads[s]]
    /\ \A q \in posts : q = [env |-> q.env, at |-> q.at, view |-> q.view]

\* Inductive: lines are the chat envelopes.
LinesInv ==
    /\ ChannelShapes
    /\ Dated(Mail)
    /\ \A e \in Mail : e.kind = "chat" <=> e \in lines
    /\ LinesAccounted

LEMMA LinesInit == ChannelInit => LinesInv
<1> SUFFICES ASSUME ChannelInit PROVE LinesInv
  OBVIOUS
<1>1. \A e : e \notin Mail
  BY InMail DEF Somewhere, ChannelInit, Stores
<1>2. ChannelShapes
  BY DEF ChannelShapes, ChannelInit
<1> QED
  BY <1>1, <1>2 DEF LinesInv, Dated, LinesAccounted, ChannelInit

\* What a store does to an envelope it holds or takes: keeps it, replaces it by
\* one with its number, or cuts it off as too old.
LEMMA StoredMail ==
    ASSUME time \in Nat, THREAD_MAX \in Nat, NEW mail, NEW env, Dated(mail \cup {env})
    PROVE  /\ Stored(mail, env) \subseteq mail \cup {env}
           /\ \A l \in mail \cup {env} :
                 \/ l \in Stored(mail, env)
                 \/ l # env /\ SameMessage(l, env)
                 \/ time - l.ts >= THREAD_MAX
<1> DEFINE all == {e \in mail : ~SameMessage(e, env)} \cup {env}
           after(e) == {f \in all : f.ts > e.ts}
           ts == [f \in all |-> f.ts]
<1>1. Stored(mail, env) = {e \in all : Cardinality(after(e)) < THREAD_MAX}
  BY DEF Stored
<1>2. ASSUME NEW l \in all PROVE l \in Stored(mail, env) \/ time - l.ts >= THREAD_MAX
  <2> DEFINE lo == l.ts
  <2>1. lo \in Int /\ time \in Int /\ lo <= time
    BY DEF Dated
  <2>2. \A x \in after(l) : ts[x] \in Int /\ lo < ts[x] /\ ts[x] <= time
    BY DEF Dated
  <2>3. \A x, y \in after(l) : ts[x] = ts[y] => x = y
    BY DEF Dated
  <2>4. Cardinality(after(l)) \in Nat /\ Cardinality(after(l)) <= time - lo
    <3> HIDE DEF after, ts, lo
    <3> QED
      BY <2>1, <2>2, <2>3, FewBetween
  <2>5. l \in Stored(mail, env) <=> Cardinality(after(l)) < THREAD_MAX
    BY <1>1
  <2> HIDE DEF after
  <2> QED
    BY <2>1, <2>4, <2>5
<1> QED
  BY <1>1, <1>2

\* A store takes an envelope: what it held and what it read is still accounted for.
LEMMA TakeLines ==
    ASSUME LinesInv, THREAD_MAX \in Nat, NEW q \in posts, NEW s \in Stores, NEW mail,
           mail \subseteq Mail,
           threads' = [threads EXCEPT ![s] = Stored(mail, q.env)],
           posts' \in {posts \ {q}, (posts \ {q}) \cup {[q EXCEPT !.at = "relay", !.view = NotRead]}},
           lost' = lost \cup (lines \cap (threads[s] \ mail)),
           UNCHANGED <<time, lines>>
    PROVE  LinesInv'
<1> DEFINE kept == Stored(mail, q.env)
<1>0. time \in Nat /\ q.env \in Mail
  BY InMail DEF LinesInv, ChannelShapes, Somewhere
<1>1. Dated(mail \cup {q.env})
  BY <1>0 DEF LinesInv, Dated
<1>2. /\ kept \subseteq mail \cup {q.env}
      /\ \A l \in mail \cup {q.env} :
            \/ l \in kept
            \/ l # q.env /\ SameMessage(l, q.env)
            \/ time - l.ts >= THREAD_MAX
  BY <1>0, <1>1, StoredMail
<1> HIDE DEF kept
<1>3. threads' = [t \in Stores |-> IF t = s THEN kept ELSE threads[t]]
  BY DEF LinesInv, ChannelShapes, kept
<1>4. \A r \in posts' : /\ r = [env |-> r.env, at |-> r.at, view |-> r.view]
                        /\ r \in posts \/ (r.env = q.env /\ r.view = NotRead)
  <2>1. \A r \in posts : r = [env |-> r.env, at |-> r.at, view |-> r.view]
    BY DEF LinesInv, ChannelShapes
  <2>2. [q EXCEPT !.at = "relay", !.view = NotRead]
           = [env |-> q.env, at |-> "relay", view |-> NotRead]
    BY <2>1, PassedOn
  <2>3. ASSUME NEW r \in posts' PROVE r \in posts \/ r = [env |-> q.env, at |-> "relay", view |-> NotRead]
    BY <2>2
  <2> QED
    BY <2>1, <2>3
<1>5. Mail' \subseteq Mail
  <2>1. ASSUME NEW t \in Stores PROVE threads'[t] \subseteq Mail
    <3>1. threads[t] \subseteq Mail
      BY InMail DEF Somewhere, Stores
    <3> QED
      BY <1>0, <1>2, <1>3, <3>1
  <2>2. ASSUME NEW r \in posts' PROVE r.env \in Mail /\ (r.view # NotRead => r.view \subseteq Mail)
    BY <1>0, <1>4, InMail DEF Somewhere
  <2>3. lines \subseteq Mail
    BY InMail DEF Somewhere
  <2>4. ASSUME NEW e \in Mail' PROVE e \in Mail
    <3>1. Somewhere(e)'
      BY InMail
    <3> QED
      BY <2>1, <2>2, <2>3, <3>1 DEF Somewhere, Stores
  <2> QED
    BY <2>4
<1>6. ChannelShapes'
  BY <1>3, <1>4 DEF LinesInv, ChannelShapes
<1>7. Dated(Mail)' /\ \A e \in Mail' : e.kind = "chat" <=> e \in lines'
  BY <1>5 DEF LinesInv, Dated
<1>8. ASSUME NEW l \in lines, l \in mail \cup {q.env}
      PROVE  l \in kept \/ NumberedAlike(l) \/ time - l.ts >= THREAD_MAX
  <2>1. ASSUME l # q.env, SameMessage(l, q.env) PROVE NumberedAlike(l)
    <3>1. l.kind = "chat"
      BY DEF LinesInv, Mail
    <3>2. q.env \in lines
      BY <1>0, <2>1, <3>1 DEF LinesInv, SameMessage
    <3> QED
      BY <2>1, <3>2 DEF SameMessage, NumberedAlike
  <2> QED
    BY <1>2, <1>8, <2>1
<1>9. LinesAccounted'
  <2> SUFFICES ASSUME NEW l \in lines
               PROVE  \/ \E t \in Stores : l \in threads'[t]
                      \/ \E r \in posts' : r.env = l
                      \/ l \in lost'
                      \/ NumberedAlike(l)
                      \/ time - l.ts >= THREAD_MAX
    BY DEF LinesAccounted, NumberedAlike
  <2>1. CASE l \in mail \cup {q.env}
    BY <1>3, <1>8, <2>1
  <2>2. CASE l \notin mail \cup {q.env}
    <3>1. \/ \E t \in Stores : l \in threads[t]
          \/ \E r \in posts : r.env = l
          \/ l \in lost
          \/ NumberedAlike(l)
          \/ time - l.ts >= THREAD_MAX
      BY DEF LinesInv, LinesAccounted
    <3>2. ASSUME NEW t \in Stores, l \in threads[t]
          PROVE  l \in threads'[t] \/ l \in lost'
      BY <1>3, <2>2, <3>2
    <3>3. ASSUME NEW r \in posts, r.env = l PROVE r \in posts'
      BY <2>2, <3>3
    <3> QED
      BY <3>1, <3>2, <3>3
  <2> QED
    BY <2>1, <2>2
<1> QED
  BY <1>6, <1>7, <1>9 DEF LinesInv

\* A new envelope is the newest, and on its way.
LEMMA PostLines ==
    ASSUME LinesInv, THREAD_MAX \in Nat, NEW from, NEW seq, NEW kind, NEW commit,
           Post(Envelope(from, seq, kind, commit))
    PROVE  LinesInv'
<1> DEFINE env == [from |-> from, seq |-> seq, kind |-> kind, ts |-> time + 1, commit |-> commit]
           q == [env |-> env, at |-> "kv", view |-> NotRead]
<1>1. /\ posts' = posts \cup {q} /\ time' = time + 1
      /\ lines' = IF kind = "chat" THEN lines \cup {env} ELSE lines
      /\ UNCHANGED <<threads, lost>>
  BY DEF Post, Envelope
<1>2. time \in Nat /\ env.ts = time + 1 /\ env.kind = kind
  BY DEF LinesInv, ChannelShapes
<1>3. q.env = env /\ q.view = NotRead /\ q = [env |-> q.env, at |-> q.at, view |-> q.view]
  OBVIOUS
<1> HIDE DEF env, q
<1>4. ASSUME NEW e \in Mail' PROVE e \in Mail \/ e = env
  <2>1. Somewhere(e)'
    BY InMail
  <2>2. Somewhere(e) \/ e = env
    BY <1>1, <1>3, <2>1 DEF Somewhere
  <2> QED
    BY <2>2, InMail
<1>5. ChannelShapes'
  BY <1>1, <1>2, <1>3 DEF LinesInv, ChannelShapes
<1>6. ASSUME NEW e \in Mail PROVE e.ts \in 1..time /\ e.ts # env.ts
  BY <1>2 DEF LinesInv, Dated
<1>7. Dated(Mail)'
  <2>1. ASSUME NEW e \in Mail' PROVE e.ts \in 1..time'
    BY <1>1, <1>2, <1>4, <1>6
  <2>2. ASSUME NEW e \in Mail', NEW f \in Mail', e.ts = f.ts PROVE e = f
    BY <1>4, <1>6, <2>2 DEF LinesInv, Dated
  <2> QED
    BY <2>1, <2>2 DEF Dated
<1>8. ASSUME NEW e \in Mail' PROVE e.kind = "chat" <=> e \in lines'
  <2>1. CASE e = env
    <3>1. env \notin lines
      BY <1>6, InMail DEF Somewhere
    <3> QED
      BY <1>1, <1>2, <2>1, <3>1
  <2>2. CASE e # env
    BY <1>1, <1>4, <2>2 DEF LinesInv
  <2> QED
    BY <2>1, <2>2
<1>9. LinesAccounted'
  <2> SUFFICES ASSUME NEW l \in lines'
               PROVE  \/ \E t \in Stores : l \in threads[t]
                      \/ \E r \in posts' : r.env = l
                      \/ l \in lost
                      \/ \E m \in lines' : m # l /\ m.from = l.from /\ m.seq = l.seq
                      \/ time' - l.ts >= THREAD_MAX
    BY <1>1 DEF LinesAccounted, NumberedAlike
  <2>1. CASE l = env
    BY <1>1, <1>3, <2>1
  <2>2. CASE l # env
    <3>1. l \in lines /\ lines \subseteq lines'
      BY <1>1, <2>2
    <3>2. l.ts \in Nat
      BY <1>6, <3>1, InMail DEF Somewhere
    <3>3. \/ \E t \in Stores : l \in threads[t]
          \/ \E r \in posts : r.env = l
          \/ l \in lost
          \/ \E m \in lines : m # l /\ m.from = l.from /\ m.seq = l.seq
          \/ time - l.ts >= THREAD_MAX
      BY <3>1 DEF LinesInv, LinesAccounted, NumberedAlike
    <3>4. time - l.ts >= THREAD_MAX => time' - l.ts >= THREAD_MAX
      BY <1>1, <1>2, <3>2
    <3> QED
      BY <1>1, <3>1, <3>3, <3>4
  <2> QED
    BY <2>1, <2>2
<1> QED
  BY <1>5, <1>7, <1>8, <1>9 DEF LinesInv

\* A post that goes on carries its envelope with it.
LEMMA PassLines ==
    ASSUME LinesInv, NEW q \in posts, NEW r, r.env = q.env,
           r = [env |-> r.env, at |-> r.at, view |-> r.view],
           r.view = NotRead \/ r.view \subseteq Mail,
           posts' = (posts \ {q}) \cup {r}, UNCHANGED <<threads, time, lines, lost>>
    PROVE  LinesInv'
<1>1. ASSUME NEW e \in Mail' PROVE e \in Mail
  <2>1. Somewhere(e)'
    BY InMail
  <2>2. e \in r.view => r.view = NotRead \/ e \in Mail
    OBVIOUS
  <2>3. Somewhere(e) \/ e \in Mail
    BY <2>1, <2>2 DEF Somewhere
  <2> QED
    BY <2>3, InMail
<1>2. ChannelShapes'
  BY DEF LinesInv, ChannelShapes
<1>3. Dated(Mail)' /\ \A e \in Mail' : e.kind = "chat" <=> e \in lines'
  BY <1>1 DEF LinesInv, Dated
<1>4. LinesAccounted'
  <2> SUFFICES ASSUME NEW l \in lines, NEW p \in posts, p.env = l
               PROVE  \E s \in posts' : s.env = l
    BY DEF LinesInv, LinesAccounted, NumberedAlike
  <2> QED
    OBVIOUS
<1> QED
  BY <1>2, <1>3, <1>4 DEF LinesInv

LEMMA StoreSteps ==
    ASSUME LinesInv, THREAD_MAX \in Nat, NEW q \in posts,
           \/ ReadThread(q) \/ WriteThread(q)
           \/ RelayThread(q) \/ Refused(q)
    PROVE  LinesInv'
<1> USE DEF history
<1>1. PICK e, a, v : q = [env |-> e, at |-> a, view |-> v]
  BY DEF LinesInv, ChannelShapes
<1>2. threads["kv"] \subseteq Mail /\ threads["relay"] \subseteq Mail
  BY InMail DEF Somewhere
<1>3. CASE ReadThread(q)
  <2>1. [q EXCEPT !.view = threads["kv"]] = [env |-> q.env, at |-> q.at, view |-> threads["kv"]]
    BY <1>1
  <2> QED
    BY <1>2, <1>3, <2>1, PassLines DEF ReadThread
<1>4. CASE WriteThread(q)
  <2>1. q.view \subseteq Mail
    BY <1>4, InMail DEF WriteThread, Somewhere
  <2>2. "kv" \in Stores
    BY DEF Stores
  <2> QED
    BY <1>4, <2>1, <2>2, TakeLines DEF WriteThread
<1>5. CASE RelayThread(q)
  <2>1. "relay" \in Stores
    BY DEF Stores
  <2>2. threads' = [threads EXCEPT !["relay"] = Stored(threads["relay"], q.env)]
    BY <1>5 DEF RelayThread
  <2>3. lost' = lost \cup (lines \cap (threads["relay"] \ threads["relay"]))
    BY <1>5 DEF RelayThread
  <2> QED
    BY <1>2, <1>5, <2>1, <2>2, <2>3, TakeLines DEF RelayThread
<1>6. CASE Refused(q) /\ q.at = "kv"
  <2>1. [q EXCEPT !.at = "relay"] = [env |-> q.env, at |-> "relay", view |-> q.view]
    BY <1>1
  <2>2. /\ posts' = (posts \ {q}) \cup {[q EXCEPT !.at = "relay"]} /\ q.view = NotRead
        /\ UNCHANGED <<threads, time, lines, lost>>
    BY <1>6 DEF Refused
  <2> QED
    BY <2>1, <2>2, PassLines
<1>7. CASE Refused(q) /\ q.at # "kv"
  <2>1. /\ posts' = posts \ {q} /\ lost' = lost \cup (lines \cap {q.env})
        /\ UNCHANGED <<threads, time, lines>>
    BY <1>7 DEF Refused
  <2>2. ASSUME NEW m \in Mail' PROVE m \in Mail
    <3>1. Somewhere(m)'
      BY InMail
    <3> QED
      BY <2>1, <3>1, InMail DEF Somewhere
  <2>3. ChannelShapes'
    BY <2>1 DEF LinesInv, ChannelShapes
  <2>4. Dated(Mail)' /\ \A m \in Mail' : m.kind = "chat" <=> m \in lines'
    BY <2>1, <2>2 DEF LinesInv, Dated
  <2>5. LinesAccounted'
    <3> SUFFICES ASSUME NEW l \in lines, NEW p \in posts, p.env = l
                 PROVE  (\E s \in posts' : s.env = l) \/ l \in lost'
      BY <2>1 DEF LinesInv, LinesAccounted, NumberedAlike
    <3> QED
      BY <2>1
  <2> QED
    BY <2>3, <2>4, <2>5 DEF LinesInv
<1> QED
  BY <1>3, <1>4, <1>5, <1>6, <1>7

\* What a store forgets is lost.
LEMMA ForgetLines ==
    ASSUME LinesInv, NEW s \in Stores, Forget(s) PROVE LinesInv'
<1>1. /\ threads' = [threads EXCEPT ![s] = {}]
      /\ lost' = lost \cup (lines \cap threads[s])
      /\ UNCHANGED <<posts, time, lines>>
  BY DEF Forget
<1>2. threads' = [t \in Stores |-> IF t = s THEN {} ELSE threads[t]]
  BY <1>1 DEF LinesInv, ChannelShapes
<1>3. ASSUME NEW e \in Mail' PROVE e \in Mail
  <2>1. Somewhere(e)'
    BY InMail
  <2>2. Somewhere(e)
    BY <1>1, <1>2, <2>1 DEF Somewhere, Stores
  <2> QED
    BY <2>2, InMail
<1>4. ChannelShapes'
  BY <1>1, <1>2 DEF LinesInv, ChannelShapes
<1>5. Dated(Mail)' /\ \A e \in Mail' : e.kind = "chat" <=> e \in lines'
  BY <1>1, <1>3 DEF LinesInv, Dated
<1>6. LinesAccounted'
  <2> SUFFICES ASSUME NEW l \in lines, NEW t \in Stores, l \in threads[t]
               PROVE  l \in threads'[t] \/ l \in lost'
    BY <1>1 DEF LinesInv, LinesAccounted, NumberedAlike
  <2> QED
    BY <1>1, <1>2
<1> QED
  BY <1>4, <1>5, <1>6 DEF LinesInv

LEMMA LinesSame ==
    ASSUME LinesInv, UNCHANGED <<threads, posts, time, lines, lost>> PROVE LinesInv'
BY DEF LinesInv, ChannelShapes, Dated, Mail, Posting, Taken, LinesAccounted,
       NumberedAlike

LEMMA LinesNext ==
    ASSUME ChannelAssumption
    PROVE  LinesInv /\ [ChannelNext]_(channelVars) => LinesInv'
<1> SUFFICES ASSUME LinesInv, [ChannelNext]_(channelVars) PROVE LinesInv'
  OBVIOUS
<1> USE DEF history
<1>0. THREAD_MAX \in Nat
  BY DEF ChannelAssumption
<1>1. ASSUME NEW p, Open(p) PROVE LinesInv'
  BY <1>0, <1>1, PostLines DEF Open, Hello
<1>2. ASSUME NEW p, Send(p) PROVE LinesInv'
  BY <1>0, <1>2, PostLines DEF Send, Hello
<1>3. ASSUME NEW p, SendProfile(p) \/ SendLoc(p) PROVE LinesInv'
  BY <1>0, <1>3, PostLines DEF SendProfile, SendLoc, SendLatest,
                               Hello
<1>4. ASSUME NEW p, Close(p) PROVE LinesInv'
  BY <1>4, LinesSame DEF Close
<1>5. ASSUME NEW p, NEW s, Poll(p, s) PROVE LinesInv'
  BY <1>5, LinesSame DEF Poll
<1>6. CASE UNCHANGED channelVars
  BY <1>6, LinesSame DEF channelVars
<1> QED
  BY <1>0, <1>1, <1>2, <1>3, <1>4, <1>5, <1>6, StoreSteps, ForgetLines DEF ChannelNext

\* For any use of a thread, stores of any length, any races and refusals, and
\* stores that forget, a line is in a store or on its way, or it is known why
\* not (post, POST /msg, threadOf).
THEOREM LinesAreAccounted ==
    ASSUME ChannelAssumption
    PROVE  ChannelSpec => []LinesAccounted
<1>1. LinesInv => LinesAccounted
  BY DEF LinesInv
<1> QED
  BY <1>1, LinesInit, LinesNext, PTL DEF ChannelSpec

\* What a panel shows is no newer than the newest it took.
ThreadFields == {"open", "peerPub", "peerCommit", "seq", "seen", "lastTs"}
ShownFields == {"msgs", "place", "peerProfile"}

ShowsTaken(p) ==
    /\ thread[p] = [f \in ThreadFields |-> thread[p][f]]
    /\ shown[p] = [f \in ShownFields |-> shown[p][f]]
    /\ thread[p].lastTs \in Nat /\ shown[p].place \in Nat /\ shown[p].peerProfile \in Nat
    /\ p \notin closedPanels =>
          IF thread[p].open
          THEN shown[p].place <= thread[p].lastTs /\ shown[p].peerProfile <= thread[p].lastTs
          ELSE shown[p].place = 0 /\ shown[p].peerProfile = 0

\* Inductive, with LinesInv.
NewsInv ==
    /\ thread = [p \in Panels |-> thread[p]]
    /\ shown = [p \in Panels |-> shown[p]]
    /\ \A p \in Panels : ShowsTaken(p)

LEMMA NewsInit == ChannelInit => NewsInv
BY DEF ChannelInit, NewsInv, ShowsTaken, ThreadFields, ShownFields,
       Closed, OrderThread

\* Of envelopes with times there is a newest.
LEMMA NewestIn ==
    ASSUME NEW mail, mail # {}, NEW now \in Nat, \A e \in mail : e.ts \in 1..now
    PROVE  Newest(mail) \in mail
<1> DEFINE ages == {now - e.ts : e \in mail}
<1>1. ages \subseteq Nat /\ ages # {}
  OBVIOUS
<1>2. PICK n \in ages : \A m \in ages : n <= m
  <2> HIDE DEF ages
  <2> QED
    BY <1>1, LeastNat
<1>3. PICK e \in mail : n = now - e.ts
  OBVIOUS
<1>4. ASSUME NEW f \in mail PROVE e.ts >= f.ts
  <2>1. now - f.ts \in ages
    OBVIOUS
  <2>2. now - e.ts <= now - f.ts
    BY <1>2, <1>3, <2>1
  <2>3. e.ts \in Int /\ f.ts \in Int
    OBVIOUS
  <2> QED
    BY <2>2, <2>3
<1>5. \E g \in mail : \A f \in mail : g.ts >= f.ts
  BY <1>4
<1> QED
  BY <1>5 DEF Newest

LEMMA NewsSame ==
    ASSUME NewsInv, NEW p \in Panels,
           thread'[p] = thread[p], shown'[p] = shown[p], p \in closedPanels => p \in closedPanels'
    PROVE  ShowsTaken(p)'
BY DEF NewsInv, ShowsTaken

\* A poll takes what is newer than all it took before, or shows what it did.
LEMMA PollNews ==
    ASSUME LinesInv, NewsInv, NEW p \in Panels, NEW s \in Stores, Poll(p, s)
    PROVE  /\ NewsInv'
           /\ p \notin closedPanels' => /\ shown'[p].place >= shown[p].place
                                  /\ shown'[p].peerProfile >= shown[p].peerProfile
<1> DEFINE peer == Peer(p[1])
           theirs(kind) == {e \in threads[s] : e.kind = kind /\ e.from = peer}
           t == Adopted(thread[p], threads[s], peer)
           unread == {e \in theirs("chat") : e.seq \notin t.seen}
           lineup == SetToSortSeq(IF t.peerPub /\ p[2] = "chat" THEN unread ELSE {}, Earlier)
           latest == theirs(Latest(p))
           news == t.peerPub /\ IsNews(t, latest)
           known == peer \in Registered \/ t.peerCommit
           newest == Newest(latest).ts
           msgs == shown[p].msgs \o [i \in DOMAIN lineup |-> lineup[i].ts]
           place == IF news /\ Latest(p) = "loc" THEN newest ELSE shown[p].place
           profile == IF news /\ Latest(p) = "profile" /\ known
                      THEN newest ELSE shown[p].peerProfile
           taken == IF news THEN newest ELSE thread[p].lastTs
<1>1. /\ thread[p] = [f \in ThreadFields |-> thread[p][f]]
      /\ shown[p] = [f \in ShownFields |-> shown[p][f]]
      /\ thread[p].lastTs \in Nat /\ shown[p].place \in Nat /\ shown[p].peerProfile \in Nat
      /\ p \notin closedPanels => /\ shown[p].place <= thread[p].lastTs
                            /\ shown[p].peerProfile <= thread[p].lastTs
      /\ thread[p].open /\ closedPanels' = closedPanels
  BY DEF NewsInv, ShowsTaken, Poll
<1>2. PICK pub, commit : t = [thread[p] EXCEPT !.peerPub = pub, !.peerCommit = commit]
  BY DEF Adopted
<1>3. /\ thread'[p] = [f \in ThreadFields |-> thread'[p][f]]
      /\ thread'[p].open = thread[p].open /\ thread'[p].lastTs = taken
      /\ t.lastTs = thread[p].lastTs
  <2>1. thread' = [thread EXCEPT ![p] =
                     [t EXCEPT !.seen = Seen(t, unread),
                               !.lastTs = IF news THEN newest ELSE t.lastTs]]
    BY DEF Poll
  <2> HIDE DEF t, news, newest, unread
  <2> PICK old, u, v, seen, ts :
        /\ old = thread[p] /\ u = t /\ v = thread'[p] /\ seen = Seen(t, unread)
        /\ ts = IF news THEN newest ELSE t.lastTs
    OBVIOUS
  <2>2. v = [u EXCEPT !.seen = seen, !.lastTs = ts]
    BY <2>1 DEF NewsInv
  <2>3. old = [f \in ThreadFields |-> old[f]] /\ u = [old EXCEPT !.peerPub = pub, !.peerCommit = commit]
    BY <1>1, <1>2
  <2>4. /\ v = [f \in ThreadFields |-> v[f]] /\ v.open = old.open /\ v.lastTs = ts
        /\ u.lastTs = old.lastTs
    BY <2>2, <2>3 DEF ThreadFields
  <2>5. ts = taken
    BY <2>4
  <2> HIDE DEF taken
  <2> QED
    BY <2>4, <2>5
<1>4. /\ shown' = [q \in Panels |-> shown'[q]]
      /\ shown'[p] = [f \in ShownFields |-> shown'[p][f]]
      /\ shown'[p].place = place /\ shown'[p].peerProfile = profile
      /\ \A q \in Panels : q # p => shown'[q] = shown[q]
  <2>1. shown' = [shown EXCEPT ![p].msgs = msgs, ![p].place = place, ![p].peerProfile = profile]
    BY DEF Poll
  <2> HIDE DEF msgs, place, profile
  <2> PICK f, g, a, b, c : f = shown /\ g = shown' /\ a = msgs /\ b = place /\ c = profile
    OBVIOUS
  <2>2. /\ f = [q \in Panels |-> f[q]] /\ f[p] = [i \in ShownFields |-> f[p][i]]
        /\ g = [f EXCEPT ![p].msgs = a, ![p].place = b, ![p].peerProfile = c]
    BY <1>1, <2>1 DEF NewsInv
  <2> PICK P : P = Panels
    OBVIOUS
  <2>3. /\ p \in P /\ f = [q \in P |-> f[q]] /\ f[p] = [i \in ShownFields |-> f[p][i]]
        /\ g = [f EXCEPT ![p].msgs = a, ![p].place = b, ![p].peerProfile = c]
    BY <2>2
  <2>4. /\ g = [q \in P |-> g[q]]
        /\ \A q \in P : q # p => g[q] = f[q]
    BY <2>3
  <2>5. g[p] = [[[f[p] EXCEPT !.msgs = a] EXCEPT !.place = b] EXCEPT !.peerProfile = c]
    BY <2>3
  <2>6. /\ g[p] = [i \in ShownFields |-> g[p][i]]
        /\ g[p].place = b /\ g[p].peerProfile = c
    BY <2>3, <2>5 DEF ShownFields
  <2> QED
    BY <2>4, <2>6
<1>5. news => newest \in Nat /\ newest > thread[p].lastTs
  <2> SUFFICES ASSUME news PROVE newest \in Nat /\ newest > thread[p].lastTs
    OBVIOUS
  <2>1. latest # {} /\ newest > t.lastTs
    BY DEF IsNews
  <2>2. ASSUME NEW e \in latest PROVE e.ts \in 1..time
    <3>1. e \in Mail
      BY InMail DEF Somewhere, Stores
    <3> QED
      BY <3>1 DEF LinesInv, Dated
  <2>3. Newest(latest) \in latest
    <3> HIDE DEF latest
    <3> QED
      BY <2>1, <2>2, NewestIn DEF LinesInv, ChannelShapes
  <2>4. t.lastTs = thread[p].lastTs
    BY <1>3
  <2> HIDE DEF latest, t
  <2> QED
    BY <2>1, <2>2, <2>3, <2>4
<1>6. /\ place \in Nat /\ profile \in Nat /\ taken \in Nat
      /\ p \notin closedPanels => /\ place <= taken /\ profile <= taken
                            /\ place >= shown[p].place /\ profile >= shown[p].peerProfile
  <2> HIDE DEF news, newest, known
  <2> QED
    BY <1>1, <1>5
<1> HIDE DEF place, profile, taken, msgs, t, unread
<1>9. ShowsTaken(p)'
  BY <1>1, <1>3, <1>4, <1>6 DEF ShowsTaken
<1>10. ASSUME NEW r \in Panels, r # p PROVE ShowsTaken(r)'
  <2>1. thread'[r] = thread[r] /\ shown'[r] = shown[r]
    BY <1>4, <1>10 DEF Poll, NewsInv
  <2> QED
    BY <1>1, <2>1, NewsSame
<1>11. NewsInv'
  <2>1. thread' = [r \in Panels |-> thread'[r]]
    BY DEF Poll, NewsInv
  <2>2. shown' = [r \in Panels |-> shown'[r]]
    BY <1>4
  <2> QED
    BY <1>9, <1>10, <2>1, <2>2 DEF NewsInv
<1>12. ASSUME p \notin closedPanels
       PROVE  shown'[p].place >= shown[p].place /\ shown'[p].peerProfile >= shown[p].peerProfile
  BY <1>4, <1>6, <1>12
<1> QED
  BY <1>1, <1>11, <1>12

\* Panels that open, close or send show what they did.
LEMMA PanelNews ==
    ASSUME NewsInv, NEW p \in Panels,
           \/ Open(p) \/ Close(p) \/ Send(p)
           \/ SendProfile(p) \/ SendLoc(p)
    PROVE  NewsInv' /\ shown' = shown
<1>1. shown' = shown /\ shown = [q \in Panels |-> shown[q]] /\ closedPanels \subseteq closedPanels'
  BY DEF NewsInv, Open, Close, Send, SendProfile,
         SendLoc, SendLatest
<1>2. PICK old, new : old = thread[p] /\ new = thread'[p]
  OBVIOUS
<1>3. /\ thread' = [thread EXCEPT ![p] = new]
      /\ \/ Open(p) /\ new = OrderThread
         \/ Close(p) /\ new = Closed
         \/ new = old
         \/ new = [old EXCEPT !.seq = old.seq + 1]
  BY <1>2 DEF NewsInv, Open, Close, Send, SendProfile,
              SendLoc, SendLatest
<1>4. old = [f \in ThreadFields |-> old[f]] /\ old.lastTs \in Nat
  BY <1>2 DEF NewsInv, ShowsTaken
<1>5. new = [f \in ThreadFields |-> new[f]] /\ new.lastTs \in Nat
  BY <1>3, <1>4 DEF ThreadFields, OrderThread, Closed
<1>6. ShowsTaken(p)'
  <2>1. CASE Open(p) /\ new = OrderThread
    <3>1. ~old.open /\ new.open /\ new.lastTs = 0
      BY <1>2, <2>1 DEF Open, OrderThread
    <3> QED
      BY <1>1, <1>2, <1>5, <3>1 DEF NewsInv, ShowsTaken
  <2>2. CASE Close(p)
    <3>1. p \in closedPanels'
      BY <2>2 DEF Close
    <3> QED
      BY <1>1, <1>2, <1>5, <3>1 DEF NewsInv, ShowsTaken
  <2>3. CASE new = old \/ new = [old EXCEPT !.seq = old.seq + 1]
    <3>1. new.open = old.open /\ new.lastTs = old.lastTs
      BY <1>4, <2>3 DEF ThreadFields
    <3> QED
      BY <1>1, <1>2, <1>5, <3>1 DEF NewsInv, ShowsTaken
  <2> QED
    BY <1>3, <2>1, <2>2, <2>3
<1>7. ASSUME NEW q \in Panels, q # p PROVE ShowsTaken(q)'
  BY <1>1, <1>3, <1>7, NewsSame DEF NewsInv
<1>8. thread' = [q \in Panels |-> thread'[q]]
  BY <1>3 DEF NewsInv
<1> QED
  BY <1>1, <1>6, <1>7, <1>8 DEF NewsInv

LEMMA StoreNews ==
    ASSUME NewsInv,
           \/ \E q \in posts : \/ ReadThread(q) \/ WriteThread(q)
                               \/ RelayThread(q) \/ Refused(q)
           \/ \E s \in Stores : Forget(s)
           \/ UNCHANGED channelVars
    PROVE  NewsInv' /\ shown' = shown
<1>1. UNCHANGED <<thread, shown, closedPanels>>
  BY DEF ReadThread, WriteThread, RelayThread, Refused, Forget,
         channelVars
<1> QED
  BY <1>1 DEF NewsInv, ShowsTaken

\* What a step may not do, as NewsOnlyForward has it.
NewsForward ==
    \A p \in Panels :
        p \notin closedPanels' =>
            /\ shown'[p].place >= shown[p].place
            /\ shown'[p].peerProfile >= shown[p].peerProfile

LEMMA NewsNext ==
    LinesInv /\ NewsInv /\ [ChannelNext]_(channelVars) => NewsInv' /\ NewsForward
<1> SUFFICES ASSUME LinesInv, NewsInv, [ChannelNext]_(channelVars) PROVE NewsInv' /\ NewsForward
  OBVIOUS
<1>1. ASSUME NEW p \in Panels
      PROVE  shown[p].place \in Nat /\ shown[p].peerProfile \in Nat
  BY DEF NewsInv, ShowsTaken
<1>2. ASSUME NEW p \in Panels, NEW s \in Stores, Poll(p, s)
      PROVE  NewsInv' /\ NewsForward
  <2>1. ASSUME NEW q \in Panels, q # p PROVE shown'[q] = shown[q]
    BY <1>2, <2>1 DEF Poll, NewsInv
  <2> QED
    BY <1>1, <1>2, <2>1, PollNews DEF NewsForward
<1>3. ASSUME shown' = shown PROVE NewsForward
  BY <1>1, <1>3 DEF NewsForward
<1> QED
  BY <1>2, <1>3, PanelNews, StoreNews DEF ChannelNext

\* For any use, any stores, races and late answers, the place and the profile a
\* panel shows never go back, unless it was opened again (poll).
THEOREM NewsGoForward ==
    ASSUME ChannelAssumption
    PROVE  ChannelSpec => NewsOnlyForward
<1>1. LinesInv /\ NewsInv /\ [ChannelNext]_(channelVars)
        => [\A p \in Panels :
              p \notin closedPanels' =>
                  /\ shown'[p].place >= shown[p].place
                  /\ shown'[p].peerProfile >= shown[p].peerProfile]_(channelVars)
  BY NewsNext DEF NewsForward
<1>2. LinesInv /\ NewsInv /\ [ChannelNext]_(channelVars) => LinesInv' /\ NewsInv'
  BY NewsNext, LinesNext
<1>3. ChannelInit => LinesInv /\ NewsInv
  BY LinesInit, NewsInit
<1> QED
  BY <1>1, <1>2, <1>3, PTL DEF ChannelSpec, NewsOnlyForward

-----------------------------------------------------------------------------
(* IV.  The wallet: secrets.                                               *)

\* The fields of an operation, a transaction and a record.
RunFields == {"pc", "todo", "note", "fresh", "index", "left", "attempt"}
TxFields == {"kind", "note", "out", "value"}
RecFields == {"note", "index", "left", "depositBlock", "value", "spent"}

\* Where an operation holds the secret of a new note; and has not sent it yet.
Drawing == {"deposit", "confirm", "spend", "adopt", "withdraw", "answer", "change"}
Unsent == {"deposit", "spend", "withdraw"}

\* A secret no leaf and no transaction is of.
Untouched(k) == ~Landed(k) /\ \A tx \in mempool : tx.out # k

\* The shapes of what the state is made of; a secret is drawn before it is used.
RunShape(p) ==
    /\ run[p] = [f \in RunFields |-> run[p][f]]
    /\ p = "earnings" => run[p].pc \in {"idle", "insert", "prove", "spend", "adopt"}
    /\ p = "wallet" => run[p].pc \in {"idle", "deposit", "confirm"}
    /\ p = "order" => run[p].pc \in {"idle", "build", "withdraw", "answer", "change"}
    /\ IF run[p].pc \in Drawing THEN run[p].fresh \in PoolSecrets ELSE run[p].fresh = Null
    /\ run[p].pc \in Unsent => Untouched(run[p].fresh)

TxShape(tx) ==
    /\ tx = [f \in TxFields |-> tx[f]]
    /\ tx.value \in Int
    /\ \/ tx.kind = "insert" /\ tx.note \in VaultSecrets /\ tx.out = Null /\ tx.value = 0
       \/ tx.kind = "spend" /\ tx.note \in VaultSecrets /\ tx.out \in PoolSecrets
       \/ tx.kind \in {"deposit", "withdraw"} /\ tx.out \in PoolSecrets

RecShape(rec) ==
    /\ rec = [f \in RecFields |-> rec[f]]
    /\ rec.note \in PoolSecrets /\ rec.value \in Int

NotesShapes ==
    /\ height \in Nat
    /\ run = [p \in Parts |-> run[p]]
    /\ \A p \in Parts : RunShape(p)
    /\ \A tx \in mempool : TxShape(tx)
    /\ \A rec \in poolStore : RecShape(rec)
    /\ pool \in Seq([note : PoolSecrets \cup {Null}, block : Nat, value : Int])
    /\ \A i \in DOMAIN pool : pool[i].note = Null => pool[i].value = 0
    /\ vaultLeaves \subseteq VaultSecrets

\* A secret is drawn once: it is in the hands of one operation, then in one
\* transaction, then in one leaf.
DrawnOnce ==
    /\ \A p, q \in Parts : run[p].fresh = run[q].fresh => p = q \/ run[p].fresh = Null
    /\ \A t, u \in mempool : t.out = u.out => t = u \/ t.out = Null
    /\ \A i, j \in DOMAIN pool : pool[i].note = pool[j].note => i = j \/ pool[i].note = Null
    /\ \A tx \in mempool : tx.out # Null => ~Landed(tx.out)

\* The order form spends a note that is in the tree, and what it draws is its change.
OrderSpends ==
    LET r == run["order"] IN
    /\ r.pc \in {"build", "withdraw", "answer", "change"} =>
          RecShape(r.note)
    /\ r.pc \in {"withdraw", "answer", "change"} => Landed(r.note.note)
    /\ r.pc = "answer" =>
          /\ \A tx \in mempool : tx.out = r.fresh =>
                tx.kind = "withdraw" /\ tx.value = r.note.value - 1
          /\ \A i \in DOMAIN pool : pool[i].note = r.fresh => pool[i].value = r.note.value - 1

\* A note of the vault is stored before its insert is sent.
VaultKept ==
    LET r == run["earnings"] IN
    /\ r.pc = "insert" =>
          /\ r.note \in VaultSecrets \ vaultLeaves /\ Held(r.note)
          /\ \A tx \in mempool : tx.kind = "insert" => tx.note # r.note
    /\ r.pc = "spend" => r.note \in vaultLeaves
    /\ \A tx \in mempool : tx.kind = "insert" =>
          tx.note \notin vaultLeaves /\ (Held(tx.note) \/ tx.note \in excused)
    /\ \A v \in LiveVaultNotes :
          \/ Held(v) \/ v \in excused
          \/ \E tx \in mempool : tx.kind = "spend" /\ tx.note = v

\* The secret of a pool note is recorded, in hand, or given up.
Traced(k) ==
    \/ \E rec \in poolStore : rec.note = k /\ ~rec.spent
    \/ \E p \in Parts : run[p].fresh = k
    \/ k \in excused

\* So is the secret of each note with value, on chain or on its way.
PoolKept ==
    /\ \A tx \in mempool : tx.out # Null /\ tx.value > 0 => Traced(tx.out)
    /\ \A k \in LivePoolNotes : Traced(k)

\* Inductive.
NotesInv == NotesShapes /\ DrawnOnce /\ OrderSpends /\ VaultKept /\ PoolKept

LEMMA NotesInit == ShieldAssumption /\ ShieldInit => NotesInv
<1> SUFFICES ASSUME ShieldAssumption, ShieldInit PROVE NotesInv
  OBVIOUS
<1>1. \A p \in Parts : run[p] = Idle /\ run[p].fresh = Null /\ run[p].pc = "idle"
  BY DEF ShieldInit, Idle
<1>2. /\ mempool = {} /\ poolStore = {} /\ vaultLeaves = {} /\ height = 0
      /\ pool = << >> /\ DOMAIN pool = {}
  BY DEF ShieldInit
<1>3. NotesShapes
  <2>1. \A p \in Parts : RunShape(p)
    BY <1>1 DEF RunShape, RunFields, Drawing, Unsent, Idle
  <2>2. run = [p \in Parts |-> run[p]]
    BY DEF ShieldInit
  <2> QED
    BY <1>2, <2>1, <2>2 DEF NotesShapes
<1>4. DrawnOnce
  BY <1>1, <1>2 DEF DrawnOnce
<1>5. OrderSpends /\ VaultKept /\ PoolKept
  BY <1>1, <1>2 DEF OrderSpends, VaultKept, PoolKept, LiveVaultNotes, LivePoolNotes, Parts
<1> QED
  BY <1>3, <1>4, <1>5 DEF NotesInv

\* An operation of the page goes on: it may draw a secret nothing refers to, or
\* send what it drew before.
Goes(p, r, new) ==
    /\ Go(p, r) /\ UNCHANGED chain /\ excused \subseteq excused'
    /\ RunShape(p)'
    /\ r.fresh \in {run[p].fresh, Null} \/ Unused(r.fresh)
    /\ mempool' = mempool \cup new
    /\ \A t, u \in new : t = u
    /\ \A tx \in new :
          /\ TxShape(tx)
          /\ tx.out # Null =>
                run[p].pc \in Unsent /\ tx.out = run[p].fresh /\ r.pc \notin Unsent
    /\ \A rec \in poolStore' : RecShape(rec)

\* Shapes and secrets after a step of the page.
LEMMA PageStep ==
    ASSUME NotesInv, ShieldAssumption, NEW p \in Parts, NEW r, NEW new, Goes(p, r, new)
    PROVE  /\ NotesShapes' /\ DrawnOnce'
           /\ p # "order" => OrderSpends'
           /\ \A q \in Parts : q # p => run'[q] = run[q]
           /\ run'[p] = r
<1>1. run' = [q \in Parts |-> run'[q]] /\ run'[p] = r /\ \A q \in Parts : q # p => run'[q] = run[q]
  BY DEF NotesInv, NotesShapes, Go, Goes
<1> USE DEF Goes
<1>2. \A k : Landed(k)' <=> Landed(k)
  BY DEF Landed, chain
<1>3. \A q \in Parts : RunShape(q)
  BY DEF NotesInv, NotesShapes
<1>4. ASSUME NEW q \in Parts, q # p PROVE RunShape(q)'
  <2>1. run[q].pc \in Unsent => run[q].fresh \in PoolSecrets /\ run[q].fresh # Null
    BY <1>3 DEF RunShape, Unsent, Drawing, ShieldAssumption
  <2>2. run[q].pc \in Unsent => \A tx \in new : tx.out # run[q].fresh
    BY <2>1, <1>4 DEF NotesInv, DrawnOnce
  <2>3. run[q].pc \in Unsent => Untouched(run[q].fresh)'
    BY <1>1, <1>2, <1>3, <1>4, <2>2 DEF RunShape, Untouched
  <2> QED
    BY <1>1, <1>3, <1>4, <2>3 DEF RunShape
<1>5. NotesShapes'
  <2>1. \A tx \in mempool' : TxShape(tx)
    BY DEF NotesInv, NotesShapes
  <2>2. \A q \in Parts : RunShape(q)'
    BY <1>4
  <2>3. \A rec \in poolStore' : RecShape(rec)
    OBVIOUS
  <2> QED
    BY <1>1, <2>1, <2>2, <2>3 DEF NotesInv, NotesShapes, chain
<1>6. DrawnOnce'
  <2>1. \A q, s \in Parts : run'[q].fresh = run'[s].fresh => q = s \/ run'[q].fresh = Null
    <3>1. ASSUME Unused(r.fresh) PROVE \A q \in Parts : run[q].fresh # r.fresh
      BY <3>1 DEF Unused
    <3> QED
      BY <1>1, <3>1 DEF NotesInv, DrawnOnce
  <2>2. \A tx \in new : tx.out # Null => Untouched(tx.out)
    BY <1>3 DEF RunShape
  <2>3. \A t, u \in mempool' : t.out = u.out => t = u \/ t.out = Null
    BY <2>2 DEF NotesInv, DrawnOnce, Untouched
  <2>4. \A i, j \in DOMAIN pool' : pool'[i].note = pool'[j].note => i = j \/ pool'[i].note = Null
    BY DEF NotesInv, DrawnOnce, chain
  <2>5. \A tx \in mempool' : tx.out # Null => ~Landed(tx.out)'
    BY <1>2, <2>2 DEF NotesInv, DrawnOnce, Untouched
  <2> QED
    BY <2>1, <2>3, <2>4, <2>5 DEF DrawnOnce
<1>7. ASSUME p # "order" PROVE OrderSpends'
  <2>1. "order" \in Parts /\ run'["order"] = run["order"]
    BY <1>1, <1>7 DEF Parts
  <2>2. run["order"].pc \in {"answer", "change"} => run["order"].fresh # Null
    BY <1>3, <2>1 DEF RunShape, Drawing, ShieldAssumption
  <2>3. run["order"].pc \in {"answer", "change"} => \A tx \in new : tx.out # run["order"].fresh
    BY <1>7, <2>1, <2>2 DEF NotesInv, DrawnOnce
  <2> QED
    BY <1>2, <2>1, <2>3 DEF NotesInv, OrderSpends, chain, RecShape
<1> QED
  BY <1>1, <1>5, <1>6, <1>7

\* What is not the earnings strip's doing leaves its notes where they are.
LEMMA VaultFrame ==
    ASSUME NotesInv, run'["earnings"] = run["earnings"],
           UNCHANGED <<vaultStore, vaultLeaves, vaultSpent>>,
           excused \subseteq excused', mempool \subseteq mempool',
           \A tx \in mempool' \ mempool : tx.kind # "insert"
    PROVE  VaultKept'
BY DEF NotesInv, VaultKept, Held, LiveVaultNotes

\* A part that lets go of a secret has recorded it or given it up, or nothing
\* of value came of it.
Gone(k) ==
    \/ k \in excused'
    \/ k \notin LivePoolNotes /\ \A tx \in mempool' : tx.out = k => tx.value <= 0

Keeps(p, r) ==
    /\ \A rec \in poolStore : rec.spent \/ rec \in poolStore' \/ Gone(rec.note)
    /\ \/ r.fresh = run[p].fresh
       \/ run[p].fresh = Null
       \/ \E rec \in poolStore' : rec.note = run[p].fresh /\ ~rec.spent
       \/ Gone(run[p].fresh)

\* A step of the page that lets go of secrets so keeps the pool's.
LEMMA PoolFrame ==
    ASSUME NotesInv, ShieldAssumption, NEW p \in Parts, NEW r, NEW new,
           Goes(p, r, new), Keeps(p, r)
    PROVE  PoolKept'
<1>0. /\ NotesShapes' /\ run'[p] = r /\ \A q \in Parts : q # p => run'[q] = run[q]
  BY PageStep
<1> USE DEF Goes, Keeps
<1>1. LivePoolNotes' = LivePoolNotes
  BY DEF LivePoolNotes, chain
<1>2. ASSUME NEW k, k # run[p].fresh \/ k = r.fresh, Traced(k)
      PROVE  Traced(k)' \/ Gone(k)
  <2>1. CASE \E rec \in poolStore : rec.note = k /\ ~rec.spent
    BY <2>1 DEF Traced
  <2>2. CASE \E q \in Parts : run[q].fresh = k
    BY <1>0, <1>2, <2>2 DEF Traced
  <2>3. CASE k \in excused
    BY <2>3 DEF Traced
  <2> QED
    BY <1>2, <2>1, <2>2, <2>3 DEF Traced
<1>3. ASSUME NEW k, k = run[p].fresh, k # Null, k # r.fresh
      PROVE  Traced(k)' \/ Gone(k)
  BY <1>0, <1>3 DEF Traced
<1>7. ASSUME NEW k, Gone(k), ~Traced(k)'
      PROVE  k \notin LivePoolNotes /\ \A tx \in mempool' : tx.out = k => tx.value <= 0
  BY <1>7 DEF Gone, Traced
<1>4. Null \notin LivePoolNotes
  BY DEF LivePoolNotes, NotesInv, NotesShapes
<1>5. ASSUME NEW tx \in mempool', tx.out # Null, tx.value > 0 PROVE Traced(tx.out)'
  <2>1. tx.value \in Int
    BY <1>0, <1>5 DEF NotesShapes, TxShape
  <2>2. CASE tx.out # run[p].fresh
    <3>1. tx \in mempool
      BY <1>5, <2>2
    <3>2. Traced(tx.out)
      BY <1>5, <3>1 DEF NotesInv, PoolKept
    <3> QED
      BY <1>2, <1>5, <1>7, <2>1, <2>2, <3>2
  <2>3. CASE tx.out = run[p].fresh
    <3>1. Traced(tx.out)
      BY <2>3 DEF Traced
    <3> QED
      BY <1>2, <1>3, <1>5, <1>7, <2>1, <2>3, <3>1
  <2> QED
    BY <2>2, <2>3
<1>6. ASSUME NEW k \in LivePoolNotes PROVE Traced(k)'
  <2>1. Traced(k) /\ k # Null
    BY <1>4 DEF NotesInv, PoolKept
  <2> QED
    BY <1>2, <1>3, <1>7, <2>1
<1> QED
  BY <1>1, <1>5, <1>6 DEF PoolKept

\* A secret that is given up is excused, or nothing came of it.
LEMMA GivenUp ==
    ASSUME NEW k, k # Null, GiveUp(k), UNCHANGED <<mempool, chain>>
    PROVE  excused \subseteq excused' /\ Gone(k)
<1>1. CASE OnChain(k)
  BY <1>1 DEF GiveUp, Excuse, Gone
<1>2. CASE ~OnChain(k)
  <2>1. k \notin LivePoolNotes /\ \A tx \in mempool' : tx.out # k
    BY <1>2 DEF OnChain, LivePoolNotes, Landed
  <2>2. excused \subseteq excused'
    BY DEF GiveUp, Excuse
  <2> QED
    BY <2>1, <2>2 DEF Gone
<1> QED
  BY <1>1, <1>2

\* The earnings strip, action by action.
LEMMA InsertNoteKeeps ==
    ASSUME NotesInv, ShieldAssumption, NEW v \in VaultSecrets, InsertNote(v) PROVE NotesInv'
<1> PICK r : r = [Idle EXCEPT !.pc = "insert", !.note = v]
  OBVIOUS
<1>1. /\ r = [f \in RunFields |-> r[f]] /\ r.pc = "insert" /\ r.fresh = Null /\ r.note = v
      /\ Go("earnings", r) /\ run["earnings"].pc = "idle" /\ "earnings" \in Parts
      /\ UNCHANGED <<poolStore, mempool, chain, excused, overtaken, closedTabs>>
  BY DEF InsertNote, Idle, RunFields, Parts
<1>2. run["earnings"].fresh = Null
  BY <1>1 DEF NotesInv, NotesShapes, RunShape, Drawing
<1>3. run'["earnings"] = r
  BY <1>1 DEF Go, NotesInv, NotesShapes
<1>4. RunShape("earnings")'
  BY <1>1, <1>3 DEF RunShape, Drawing, Unsent
<1>5. \A rec \in poolStore' : RecShape(rec)
  BY <1>1 DEF NotesInv, NotesShapes
<1>6. Goes("earnings", r, {}) /\ Keeps("earnings", r)
  BY <1>1, <1>2, <1>4, <1>5 DEF Goes, Keeps
<1>7. NotesShapes' /\ DrawnOnce' /\ OrderSpends' /\ PoolKept'
  BY <1>1, <1>6, PageStep, PoolFrame
<1>8. VaultKept'
  <2>1. /\ v \in VaultSecrets \ vaultLeaves /\ vaultStore' = vaultStore \cup {v}
        /\ \A tx \in mempool : tx.note # v
    BY DEF InsertNote, rememberShieldNote
  <2>2. LiveVaultNotes' = LiveVaultNotes /\ vaultLeaves' = vaultLeaves
    BY <1>1 DEF LiveVaultNotes, chain
  <2>3. /\ run'["earnings"].pc = "insert" /\ run'["earnings"].note = v
        /\ mempool' = mempool /\ excused' = excused
    BY <1>1, <1>3
  <2>4. /\ \A tx \in mempool : tx.kind = "insert" =>
              tx.note \notin vaultLeaves /\ (Held(tx.note) \/ tx.note \in excused)
        /\ \A u \in LiveVaultNotes :
              \/ Held(u) \/ u \in excused
              \/ \E tx \in mempool : tx.kind = "spend" /\ tx.note = u
    BY DEF NotesInv, VaultKept
  <2> QED
    BY <2>1, <2>2, <2>3, <2>4 DEF VaultKept, Held
<1> QED
  BY <1>7, <1>8 DEF NotesInv

LEMMA PostInsertKeeps == ASSUME NotesInv, ShieldAssumption, PostInsert PROVE NotesInv'
<1> PICK tx : tx = Tx("insert", run["earnings"].note, Null, 0)
  OBVIOUS
<1> PICK o \in Outcomes :
      /\ Submit(o, tx)
      /\ IF Forgotten(o.reply) THEN forgetShieldNote(run["earnings"].note) ELSE UNCHANGED vaultStore
      /\ Excuse(IF o.sent /\ o.reply = "error" THEN {run["earnings"].note} ELSE {})
  BY DEF PostInsert
<1> PICK new : new = IF o.sent THEN {tx} ELSE {}
  OBVIOUS
<1> PICK v : v = run["earnings"].note
  OBVIOUS
<1>1. /\ Go("earnings", Idle) /\ run["earnings"].pc = "insert" /\ "earnings" \in Parts
      /\ UNCHANGED <<poolStore, chain, overtaken, closedTabs>>
  BY DEF PostInsert, Stop, Parts
<1>2. run["earnings"].fresh = Null
  BY <1>1 DEF NotesInv, NotesShapes, RunShape, Drawing
<1>3. run'["earnings"] = Idle /\ Idle.pc = "idle" /\ Idle.fresh = Null
  BY <1>1 DEF Go, NotesInv, NotesShapes, Idle
<1>4. RunShape("earnings")'
  BY <1>3 DEF RunShape, Drawing, Unsent, Idle, RunFields
<1>5. \A rec \in poolStore' : RecShape(rec)
  BY <1>1 DEF NotesInv, NotesShapes
<1>6. /\ v \in VaultSecrets \ vaultLeaves /\ Held(v) /\ v # Null
      /\ \A u \in mempool : u.kind = "insert" => u.note # v
  BY <1>1 DEF NotesInv, VaultKept, ShieldAssumption
<1>7. /\ mempool' = mempool \cup new
      /\ excused' = excused \cup (IF o.sent /\ o.reply = "error" THEN {v} ELSE {})
      /\ \A t, u \in new : t = u
  BY <1>6 DEF Submit, Excuse
<1>8. /\ tx.kind = "insert" /\ tx.note = v /\ tx.out = Null /\ TxShape(tx)
  BY <1>6 DEF Tx, TxShape, TxFields
<1>9. Goes("earnings", Idle, new) /\ Keeps("earnings", Idle)
  BY <1>1, <1>2, <1>3, <1>4, <1>5, <1>7, <1>8 DEF Goes, Keeps
<1>10. NotesShapes' /\ DrawnOnce' /\ OrderSpends' /\ PoolKept'
  BY <1>1, <1>9, PageStep, PoolFrame
<1>11. VaultKept'
  <2>1. \A u : Held(u)' <=> Held(u) /\ (u # v \/ o.reply # "error")
    BY <1>6 DEF Forgotten, forgetShieldNote, Held
  <2>2. o.reply = "error" /\ ~o.sent => mempool' = mempool
    BY <1>7
  <2>3. \A u \in mempool' : u.kind = "insert" =>
           u.note \notin vaultLeaves' /\ (Held(u.note)' \/ u.note \in excused')
    BY <1>1, <1>6, <1>7, <1>8, <2>1 DEF NotesInv, VaultKept, chain
  <2>4. ASSUME NEW u \in LiveVaultNotes'
        PROVE  \/ Held(u)' \/ u \in excused'
               \/ \E t \in mempool' : t.kind = "spend" /\ t.note = u
    <3>1. u \in LiveVaultNotes /\ u # v
      BY <1>1, <1>6 DEF LiveVaultNotes, chain
    <3> QED
      BY <1>7, <2>1, <3>1 DEF NotesInv, VaultKept
  <2> QED
    BY <1>3, <2>3, <2>4 DEF VaultKept
<1> QED
  BY <1>10, <1>11 DEF NotesInv

LEMMA SpendAllKeeps == ASSUME NotesInv, ShieldAssumption, SpendAll PROVE NotesInv'
<1> PICK r : r = [Idle EXCEPT !.pc = "prove", !.todo = vaultStore]
  OBVIOUS
<1>1. /\ r = [f \in RunFields |-> r[f]] /\ r.pc = "prove" /\ r.fresh = Null
      /\ Go("earnings", r) /\ run["earnings"].pc = "idle" /\ "earnings" \in Parts
      /\ UNCHANGED <<stores, mempool, chain, excused, overtaken, closedTabs>>
  BY DEF SpendAll, Idle, RunFields, Parts
<1>2. run["earnings"].fresh = Null
  BY <1>1 DEF NotesInv, NotesShapes, RunShape, Drawing
<1>3. run'["earnings"] = r /\ mempool' = mempool \cup {}
  BY <1>1 DEF Go, NotesInv, NotesShapes
<1>4. RunShape("earnings")'
  BY <1>1, <1>3 DEF RunShape, Drawing, Unsent
<1>5. \A rec \in poolStore' : RecShape(rec)
  BY <1>1 DEF NotesInv, NotesShapes, stores
<1>6. Goes("earnings", r, {}) /\ Keeps("earnings", r)
  BY <1>1, <1>2, <1>3, <1>4, <1>5 DEF Goes, Keeps, stores
<1>7. NotesShapes' /\ DrawnOnce' /\ OrderSpends' /\ PoolKept'
  BY <1>1, <1>6, PageStep, PoolFrame
<1>8. VaultKept'
  BY <1>1, <1>3 DEF NotesInv, VaultKept, Held, LiveVaultNotes, chain, stores
<1> QED
  BY <1>7, <1>8 DEF NotesInv

LEMMA ProveSpendKeeps ==
    ASSUME NotesInv, ShieldAssumption, NEW k \in PoolSecrets, ProveSpend(k) PROVE NotesInv'
<1>1. /\ run["earnings"].pc = "prove" /\ "earnings" \in Parts
      /\ UNCHANGED <<stores, mempool, chain, excused, closedTabs>>
  BY DEF ProveSpend, Parts
<1>2. run["earnings"].fresh = Null
  BY <1>1 DEF NotesInv, NotesShapes, RunShape, Drawing
<1>3. ASSUME NEW r, r = [f \in RunFields |-> r[f]], Go("earnings", r),
             \/ r.pc = "idle" /\ r.fresh = Null
             \/ /\ r.pc = "spend" /\ r.fresh = k /\ Unused(k)
                /\ r.note \in vaultLeaves
      PROVE  NotesInv'
  <2>1. run'["earnings"] = r
    BY <1>1, <1>3 DEF Go, NotesInv, NotesShapes
  <2>2. RunShape("earnings")'
    <3>1. r.pc = "spend" => Untouched(k)'
      BY <1>1, <1>3 DEF Untouched, Unused, Landed, chain
    <3> QED
      BY <1>3, <2>1, <3>1 DEF RunShape, Drawing, Unsent
  <2>3. \A rec \in poolStore' : RecShape(rec)
    BY <1>1 DEF NotesInv, NotesShapes, stores
  <2>4. Goes("earnings", r, {}) /\ Keeps("earnings", r)
    BY <1>1, <1>2, <1>3, <2>1, <2>2, <2>3 DEF Goes, Keeps, stores
  <2>5. NotesShapes' /\ DrawnOnce' /\ OrderSpends' /\ PoolKept'
    BY <1>1, <2>4, PageStep, PoolFrame
  <2>6. VaultKept'
    BY <1>1, <1>3, <2>1 DEF NotesInv, VaultKept, Held, LiveVaultNotes, chain, stores
  <2> QED
    BY <2>5, <2>6 DEF NotesInv
<1>4. CASE Stop("earnings")
  <2>1. Idle = [f \in RunFields |-> Idle[f]] /\ Idle.pc = "idle" /\ Idle.fresh = Null
    BY DEF Idle, RunFields
  <2> QED
    BY <1>3, <1>4, <2>1 DEF Stop
<1>5. ASSUME Unused(k), NEW v \in run["earnings"].todo \cap vaultLeaves,
             Go("earnings", [run["earnings"] EXCEPT !.pc = "spend", !.note = v, !.fresh = k,
                                   !.index = Len(pool),
                                   !.left = Snapshot(Len(pool), Len(pool))])
      PROVE  NotesInv'
  <2> PICK r : r = [run["earnings"] EXCEPT !.pc = "spend", !.note = v, !.fresh = k,
                                   !.index = Len(pool),
                                   !.left = Snapshot(Len(pool), Len(pool))]
    OBVIOUS
  <2>1. run["earnings"] = [f \in RunFields |-> run["earnings"][f]]
    BY <1>1 DEF NotesInv, NotesShapes, RunShape
  <2>2. /\ r = [f \in RunFields |-> r[f]] /\ r.pc = "spend" /\ r.fresh = k /\ r.note = v
    BY <2>1 DEF RunFields
  <2> QED
    BY <1>3, <1>5, <2>2
<1> QED
  BY <1>4, <1>5 DEF ProveSpend

LEMMA PostSpendKeeps == ASSUME NotesInv, ShieldAssumption, PostSpend PROVE NotesInv'
<1> PICK s : s = run["earnings"]
  OBVIOUS
<1> PICK tx : tx = Tx("spend", s.note, s.fresh, 2)
  OBVIOUS
<1>1. /\ s.pc = "spend" /\ "earnings" \in Parts /\ s = [f \in RunFields |-> s[f]]
      /\ s.fresh \in PoolSecrets /\ s.fresh # Null /\ Untouched(s.fresh)
      /\ s.note \in vaultLeaves /\ s.note \in VaultSecrets
      /\ UNCHANGED <<poolStore, chain, overtaken, closedTabs>>
  BY DEF PostSpend, Parts, NotesInv, NotesShapes, RunShape, Drawing, Unsent, VaultKept,
         ShieldAssumption
<1> PICK o \in Outcomes :
      /\ Submit(o, tx)
      /\ IF o.reply = "hash"
         THEN /\ forgetShieldNote(s.note)
              /\ Go("earnings", [s EXCEPT !.pc = "adopt"])
              /\ Excuse({})
         ELSE /\ UNCHANGED vaultStore
              /\ Stop("earnings")
              /\ Excuse(IF o.sent THEN {s.fresh} ELSE {})
  BY DEF PostSpend
<1> PICK new : new = IF o.sent THEN {tx} ELSE {}
  OBVIOUS
<1> PICK r : r = IF o.reply = "hash" THEN [s EXCEPT !.pc = "adopt"] ELSE Idle
  OBVIOUS
<1>2. /\ mempool' = mempool \cup new /\ \A t, u \in new : t = u
      /\ excused' = excused \cup (IF o.sent /\ o.reply # "hash" THEN {s.fresh} ELSE {})
      /\ o.reply = "hash" => o.sent
  BY <1>1 DEF Submit, Excuse, Outcomes
<1>3. /\ tx.kind = "spend" /\ tx.note = s.note /\ tx.out = s.fresh /\ TxShape(tx)
  BY <1>1 DEF Tx, TxShape, TxFields
<1>4. /\ r = [f \in RunFields |-> r[f]] /\ Go("earnings", r)
      /\ IF o.reply = "hash" THEN r.pc = "adopt" /\ r.fresh = s.fresh /\ r.note = s.note
         ELSE r.pc = "idle" /\ r.fresh = Null
  BY <1>1 DEF RunFields, Idle, Stop
<1>5. run'["earnings"] = r
  BY <1>4, <1>1 DEF Go, NotesInv, NotesShapes
<1>6. RunShape("earnings")'
  BY <1>1, <1>4, <1>5 DEF RunShape, Drawing, Unsent
<1>7. \A rec \in poolStore' : RecShape(rec)
  BY <1>1 DEF NotesInv, NotesShapes
<1>8. Goes("earnings", r, new)
  BY <1>1, <1>2, <1>3, <1>4, <1>6, <1>7 DEF Goes, Unsent
<1>9. s.fresh \notin LivePoolNotes
  BY <1>1 DEF Untouched, LivePoolNotes, Landed
<1>10. Keeps("earnings", r)
  <2>1. CASE o.reply = "hash"
    BY <1>1, <1>4, <2>1 DEF Keeps
  <2>2. CASE o.reply # "hash" /\ o.sent
    BY <1>1, <1>2, <2>2 DEF Keeps, Gone
  <2>3. CASE o.reply # "hash" /\ ~o.sent
    <3>1. \A t \in mempool' : t.out # s.fresh
      BY <1>1, <1>2, <2>3 DEF Untouched
    <3> QED
      BY <1>1, <1>9, <3>1 DEF Keeps, Gone
  <2> QED
    BY <2>1, <2>2, <2>3
<1>11. NotesShapes' /\ DrawnOnce' /\ OrderSpends' /\ PoolKept'
  BY <1>1, <1>8, <1>10, PageStep, PoolFrame
<1>12. VaultKept'
  <2>1. \A u : Held(u) => Held(u)' \/ (u = s.note /\ o.reply = "hash")
    <3>1. CASE o.reply = "hash"
      <4>1. vaultStore' = vaultStore \ {s.note}
        BY <3>1 DEF forgetShieldNote
      <4> QED
        BY <3>1, <4>1 DEF Held
    <3>2. CASE o.reply # "hash"
      <4>1. vaultStore' = vaultStore
        BY <3>2
      <4> QED
        BY <4>1 DEF Held
    <3> QED
      BY <3>1, <3>2
  <2>2. /\ r.pc # "insert" /\ r.pc # "spend"
    BY <1>4
  <2>3. ASSUME NEW u \in mempool', u.kind = "insert"
        PROVE  u.note \notin vaultLeaves' /\ (Held(u.note)' \/ u.note \in excused')
    <3>1. u \in mempool
      BY <1>2, <1>3, <2>3
    <3>2. u.note \notin vaultLeaves /\ (Held(u.note) \/ u.note \in excused)
      BY <2>3, <3>1 DEF NotesInv, VaultKept
    <3> QED
      BY <1>1, <1>2, <2>1, <3>2 DEF chain
  <2>4. ASSUME NEW u \in LiveVaultNotes'
        PROVE  \/ Held(u)' \/ u \in excused'
               \/ \E t \in mempool' : t.kind = "spend" /\ t.note = u
    <3>1. \/ Held(u) \/ u \in excused
          \/ \E t \in mempool : t.kind = "spend" /\ t.note = u
      BY <1>1 DEF LiveVaultNotes, chain, NotesInv, VaultKept
    <3>2. o.reply = "hash" => tx \in mempool'
      BY <1>2
    <3> QED
      BY <1>2, <1>3, <2>1, <3>1, <3>2
  <2> QED
    BY <1>5, <2>2, <2>3, <2>4 DEF VaultKept
<1> QED
  BY <1>11, <1>12 DEF NotesInv

LEMMA AdoptNoteKeeps == ASSUME NotesInv, ShieldAssumption, AdoptNote PROVE NotesInv'
<1> PICK s : s = run["earnings"]
  OBVIOUS
<1>1. /\ s.pc = "adopt" /\ "earnings" \in Parts /\ s.fresh \in PoolSecrets /\ s.fresh # Null
      /\ UNCHANGED <<vaultStore, mempool, chain, closedTabs>>
  BY DEF AdoptNote, Parts, NotesInv, NotesShapes, RunShape, Drawing, ShieldAssumption
<1>2. ASSUME NEW r, r = [f \in RunFields |-> r[f]], r.pc \in {"idle", "prove"}, r.fresh = Null,
             Go("earnings", r), excused \subseteq excused', Keeps("earnings", r),
             \A x \in poolStore' : RecShape(x)
      PROVE  NotesInv'
  <2>1. run'["earnings"] = r
    BY <1>1, <1>2 DEF Go, NotesInv, NotesShapes
  <2>2. RunShape("earnings")'
    BY <1>2, <2>1 DEF RunShape, Drawing, Unsent
  <2>3. Goes("earnings", r, {})
    BY <1>1, <1>2, <2>2 DEF Goes
  <2>4. NotesShapes' /\ DrawnOnce' /\ OrderSpends' /\ PoolKept'
    BY <1>1, <1>2, <2>3, PageStep, PoolFrame
  <2>5. VaultKept'
    BY <1>1, <1>2, <2>1 DEF NotesInv, VaultKept, Held, LiveVaultNotes, chain
  <2> QED
    BY <2>4, <2>5 DEF NotesInv
<1>3. ASSUME NEW block,
             poolStore' = poolStore \cup
               {[note |-> s.fresh, index |-> s.index, left |-> s.left,
                 depositBlock |-> block, value |-> 2, spent |-> FALSE]},
             Go("earnings", IF s.todo = {s.note} THEN Idle
                            ELSE [Idle EXCEPT !.pc = "prove", !.todo = s.todo \ {s.note}]),
             UNCHANGED excused
      PROVE  NotesInv'
  <2> PICK rec : rec = [note |-> s.fresh, index |-> s.index, left |-> s.left,
                        depositBlock |-> block, value |-> 2, spent |-> FALSE]
    OBVIOUS
  <2> PICK r : r = IF s.todo = {s.note} THEN Idle
                   ELSE [Idle EXCEPT !.pc = "prove", !.todo = s.todo \ {s.note}]
    OBVIOUS
  <2>1. /\ r = [f \in RunFields |-> r[f]] /\ r.pc \in {"idle", "prove"} /\ r.fresh = Null
        /\ Go("earnings", r)
    BY <1>3 DEF Idle, RunFields
  <2>2. poolStore' = poolStore \cup {rec} /\ RecShape(rec) /\ rec.note = s.fresh /\ ~rec.spent
    BY <1>1, <1>3 DEF RecShape, RecFields
  <2>3. \A x \in poolStore' : RecShape(x)
    BY <2>2 DEF NotesInv, NotesShapes
  <2>4. Keeps("earnings", r)
    <3>1. rec \in poolStore' /\ rec.note = run["earnings"].fresh /\ ~rec.spent
      BY <2>2
    <3> QED
      BY <2>2, <3>1 DEF Keeps
  <2> QED
    BY <1>2, <1>3, <2>1, <2>3, <2>4
<1>4. CASE Stop("earnings") /\ GiveUp(s.fresh) /\ UNCHANGED poolStore
  <2>1. Idle = [f \in RunFields |-> Idle[f]] /\ Idle.pc = "idle" /\ Idle.fresh = Null
    BY DEF Idle, RunFields
  <2>2. excused \subseteq excused' /\ Gone(s.fresh)
    BY <1>1, <1>4, GivenUp
  <2>3. Keeps("earnings", Idle) /\ \A x \in poolStore' : RecShape(x)
    BY <1>4, <2>1, <2>2 DEF Keeps, NotesInv, NotesShapes
  <2> QED
    BY <1>2, <1>4, <2>1, <2>2, <2>3 DEF Stop
<1> QED
  BY <1>3, <1>4 DEF AdoptNote

\* The wallet.
LEMMA StartDepositKeeps ==
    ASSUME NotesInv, ShieldAssumption, NEW k \in PoolSecrets, StartDeposit(k) PROVE NotesInv'
<1> PICK r : r = [Idle EXCEPT !.pc = "deposit", !.fresh = k, !.index = Len(pool)]
  OBVIOUS
<1>1. /\ r = [f \in RunFields |-> r[f]] /\ r.pc = "deposit" /\ r.fresh = k
      /\ Go("wallet", r) /\ run["wallet"].pc = "idle" /\ "wallet" \in Parts /\ Unused(k)
      /\ UNCHANGED <<stores, mempool, chain, excused, closedTabs>>
  BY DEF StartDeposit, Idle, RunFields, Parts
<1>2. run["wallet"].fresh = Null
  BY <1>1 DEF NotesInv, NotesShapes, RunShape, Drawing
<1>3. run'["wallet"] = r
  BY <1>1 DEF Go, NotesInv, NotesShapes
<1>4. RunShape("wallet")'
  <2>1. Untouched(k)'
    BY <1>1 DEF Untouched, Unused, Landed, chain
  <2> QED
    BY <1>1, <1>3, <2>1 DEF RunShape, Drawing, Unsent
<1>5. \A rec \in poolStore' : RecShape(rec)
  BY <1>1 DEF NotesInv, NotesShapes, stores
<1>6. Goes("wallet", r, {}) /\ Keeps("wallet", r)
  BY <1>1, <1>2, <1>4, <1>5 DEF Goes, Keeps, stores
<1>7. /\ NotesShapes' /\ DrawnOnce' /\ OrderSpends' /\ PoolKept'
      /\ run'["earnings"] = run["earnings"]
  BY <1>1, <1>6, PageStep, PoolFrame DEF Parts
<1>8. VaultKept'
  BY <1>1, <1>7, VaultFrame DEF stores, chain
<1> QED
  BY <1>7, <1>8 DEF NotesInv

LEMMA SubmitDepositKeeps == ASSUME NotesInv, ShieldAssumption, SubmitDeposit PROVE NotesInv'
<1> PICK s : s = run["wallet"]
  OBVIOUS
<1> PICK tx : tx = Tx("deposit", Null, s.fresh, 2)
  OBVIOUS
<1>1. /\ s.pc = "deposit" /\ "wallet" \in Parts /\ s = [f \in RunFields |-> s[f]]
      /\ s.fresh \in PoolSecrets /\ s.fresh # Null /\ Untouched(s.fresh)
      /\ UNCHANGED <<stores, chain, overtaken, closedTabs>>
  BY DEF SubmitDeposit, Parts, NotesInv, NotesShapes, RunShape, Drawing, Unsent,
         ShieldAssumption
<1> PICK o \in Outcomes :
      /\ Submit(o, tx)
      /\ IF o.reply = "hash" THEN Go("wallet", [s EXCEPT !.pc = "confirm"]) ELSE Stop("wallet")
      /\ Excuse(IF o.sent /\ o.reply = "lost" THEN {s.fresh} ELSE {})
      /\ o.reply \in {"hash", "lost"}
  BY DEF SubmitDeposit
<1> PICK new : new = IF o.sent THEN {tx} ELSE {}
  OBVIOUS
<1> PICK r : r = IF o.reply = "hash" THEN [s EXCEPT !.pc = "confirm"] ELSE Idle
  OBVIOUS
<1>2. /\ mempool' = mempool \cup new /\ \A t, u \in new : t = u
      /\ excused' = excused \cup (IF o.sent /\ o.reply = "lost" THEN {s.fresh} ELSE {})
      /\ o.reply = "hash" => o.sent
  BY <1>1 DEF Submit, Excuse, Outcomes
<1>3. /\ tx.kind = "deposit" /\ tx.out = s.fresh /\ TxShape(tx)
  BY <1>1 DEF Tx, TxShape, TxFields
<1>4. /\ r = [f \in RunFields |-> r[f]] /\ Go("wallet", r)
      /\ IF o.reply = "hash" THEN r.pc = "confirm" /\ r.fresh = s.fresh
         ELSE r.pc = "idle" /\ r.fresh = Null
  BY <1>1 DEF RunFields, Idle, Stop
<1>5. run'["wallet"] = r
  BY <1>4, <1>1 DEF Go, NotesInv, NotesShapes
<1>6. RunShape("wallet")'
  BY <1>1, <1>4, <1>5 DEF RunShape, Drawing, Unsent
<1>7. \A rec \in poolStore' : RecShape(rec)
  BY <1>1 DEF NotesInv, NotesShapes, stores
<1>8. Goes("wallet", r, new)
  BY <1>1, <1>2, <1>3, <1>4, <1>6, <1>7 DEF Goes, Unsent
<1>9. s.fresh \notin LivePoolNotes
  BY <1>1 DEF Untouched, LivePoolNotes, Landed
<1>10. Keeps("wallet", r)
  <2>1. CASE o.reply = "hash"
    BY <1>1, <1>4, <2>1 DEF Keeps, stores
  <2>2. CASE o.reply = "lost" /\ o.sent
    BY <1>1, <1>2, <2>2 DEF Keeps, Gone, stores
  <2>3. CASE o.reply = "lost" /\ ~o.sent
    <3>1. \A t \in mempool' : t.out # s.fresh
      BY <1>1, <1>2, <2>3 DEF Untouched
    <3> QED
      BY <1>1, <1>9, <3>1 DEF Keeps, Gone, stores
  <2> QED
    BY <2>1, <2>2, <2>3
<1>11. /\ NotesShapes' /\ DrawnOnce' /\ OrderSpends' /\ PoolKept'
       /\ run'["earnings"] = run["earnings"]
  BY <1>1, <1>8, <1>10, PageStep, PoolFrame DEF Parts
<1>12. VaultKept'
  BY <1>1, <1>2, <1>3, <1>11, VaultFrame DEF stores, chain
<1> QED
  BY <1>11, <1>12 DEF NotesInv

LEMMA ConfirmDepositKeeps == ASSUME NotesInv, ShieldAssumption, ConfirmDeposit PROVE NotesInv'
<1> PICK s : s = run["wallet"]
  OBVIOUS
<1>1. /\ s.pc = "confirm" /\ "wallet" \in Parts /\ s.fresh \in PoolSecrets /\ s.fresh # Null
      /\ Go("wallet", Idle)
      /\ UNCHANGED <<vaultStore, mempool, chain, overtaken, closedTabs>>
  BY DEF ConfirmDeposit, Stop, Parts, NotesInv, NotesShapes, RunShape, Drawing,
         ShieldAssumption
<1> PICK rec : rec = [note |-> s.fresh, index |-> s.index, left |-> Snapshot(Len(pool), s.index),
                 depositBlock |-> pool[IndexOf(s.fresh) + 1].block - 1,
                 value |-> 2, spent |-> FALSE]
  OBVIOUS
<1>2. \/ poolStore' = poolStore \cup {rec} /\ excused' = excused
      \/ poolStore' = poolStore /\ excused \subseteq excused' /\ Gone(s.fresh)
  BY <1>1, GivenUp DEF ConfirmDeposit
<1>3. RecShape(rec) /\ rec.note = s.fresh /\ ~rec.spent
  BY <1>1 DEF RecShape, RecFields
<1>4. \A x \in poolStore' : RecShape(x)
  BY <1>2, <1>3 DEF NotesInv, NotesShapes
<1>5. /\ run'["wallet"] = Idle /\ Idle.pc = "idle" /\ Idle.fresh = Null
      /\ Idle = [f \in RunFields |-> Idle[f]]
  BY <1>1 DEF Go, NotesInv, NotesShapes, Idle, RunFields
<1>6. RunShape("wallet")'
  BY <1>5 DEF RunShape, Drawing, Unsent
<1>7. Goes("wallet", Idle, {})
  BY <1>1, <1>2, <1>4, <1>5, <1>6 DEF Goes
<1>8. Keeps("wallet", Idle)
  <2>1. CASE poolStore' = poolStore \cup {rec}
    BY <1>3, <2>1 DEF Keeps
  <2>2. CASE poolStore' = poolStore /\ Gone(s.fresh)
    BY <2>2 DEF Keeps
  <2> QED
    BY <1>2, <2>1, <2>2
<1>9. /\ NotesShapes' /\ DrawnOnce' /\ OrderSpends' /\ PoolKept'
      /\ run'["earnings"] = run["earnings"]
  BY <1>1, <1>7, <1>8, PageStep, PoolFrame DEF Parts
<1>10. VaultKept'
  BY <1>1, <1>2, <1>9, VaultFrame DEF chain
<1> QED
  BY <1>9, <1>10 DEF NotesInv

\* The order form.
LEMMA FundBurnerKeeps == ASSUME NotesInv, ShieldAssumption, FundBurner PROVE NotesInv'
<1> PICK rec \in pickSpendable :
        Go("order", [Idle EXCEPT !.pc = "build", !.note = rec, !.attempt = 1])
  BY DEF FundBurner
<1> PICK r : r = [Idle EXCEPT !.pc = "build", !.note = rec, !.attempt = 1]
  OBVIOUS
<1>1. /\ r = [f \in RunFields |-> r[f]] /\ r.pc = "build" /\ r.fresh = Null /\ r.note = rec
      /\ Go("order", r) /\ run["order"].pc = "idle" /\ "order" \in Parts
      /\ UNCHANGED <<stores, mempool, chain, excused, overtaken, closedTabs>>
  BY DEF FundBurner, Idle, RunFields, Parts
<1>2. run["order"].fresh = Null
  BY <1>1 DEF NotesInv, NotesShapes, RunShape, Drawing
<1>3. run'["order"] = r
  BY <1>1 DEF Go, NotesInv, NotesShapes
<1>4. RunShape("order")'
  BY <1>1, <1>3 DEF RunShape, Drawing, Unsent
<1>5. (\A x \in poolStore' : RecShape(x)) /\ RecShape(rec)
  BY <1>1 DEF NotesInv, NotesShapes, stores, pickSpendable
<1>6. Goes("order", r, {}) /\ Keeps("order", r)
  BY <1>1, <1>2, <1>4, <1>5 DEF Goes, Keeps, stores
<1>7. NotesShapes' /\ DrawnOnce' /\ PoolKept' /\ run'["earnings"] = run["earnings"]
  BY <1>1, <1>6, PageStep, PoolFrame DEF Parts
<1>8. VaultKept'
  BY <1>1, <1>7, VaultFrame DEF stores, chain
<1>9. OrderSpends'
  BY <1>1, <1>3, <1>5 DEF OrderSpends, RecShape
<1> QED
  BY <1>7, <1>8, <1>9 DEF NotesInv

LEMMA BuildWithdrawalKeeps ==
    ASSUME NotesInv, ShieldAssumption, NEW k \in PoolSecrets, BuildWithdrawal(k) PROVE NotesInv'
<1> PICK s : s = run["order"]
  OBVIOUS
<1>1. /\ s.pc = "build" /\ "order" \in Parts /\ s = [f \in RunFields |-> s[f]]
      /\ RecShape(s.note) /\ s.fresh = Null
      /\ UNCHANGED <<stores, mempool, chain, excused, closedTabs>>
  BY DEF BuildWithdrawal, Parts, NotesInv, NotesShapes, RunShape, Drawing, OrderSpends
<1> PICK b \in BOOLEAN :
      IF b THEN Stop("order")
      ELSE /\ Reconstructs(s.note) /\ Unused(k)
           /\ Go("order", [s EXCEPT !.pc = "withdraw", !.fresh = k])
  BY DEF BuildWithdrawal
<1> PICK r : r = IF b THEN Idle ELSE [s EXCEPT !.pc = "withdraw", !.fresh = k]
  OBVIOUS
<1>2. /\ r = [f \in RunFields |-> r[f]] /\ Go("order", r)
      /\ IF b THEN r.pc = "idle" /\ r.fresh = Null
         ELSE r.pc = "withdraw" /\ r.fresh = k /\ r.note = s.note
  BY <1>1 DEF RunFields, Idle, Stop
<1>3. run'["order"] = r
  BY <1>1, <1>2 DEF Go, NotesInv, NotesShapes
<1>4. RunShape("order")'
  <2>1. ~b => Untouched(k)'
    BY <1>1 DEF Untouched, Unused, Landed, chain
  <2> QED
    BY <1>2, <1>3, <2>1 DEF RunShape, Drawing, Unsent
<1>5. \A x \in poolStore' : RecShape(x)
  BY <1>1 DEF NotesInv, NotesShapes, stores
<1>6. Goes("order", r, {}) /\ Keeps("order", r)
  BY <1>1, <1>2, <1>4, <1>5 DEF Goes, Keeps, stores
<1>7. NotesShapes' /\ DrawnOnce' /\ PoolKept' /\ run'["earnings"] = run["earnings"]
  BY <1>1, <1>6, PageStep, PoolFrame DEF Parts
<1>8. VaultKept'
  BY <1>1, <1>7, VaultFrame DEF stores, chain
<1>9. OrderSpends'
  <2>1. ~b => Landed(s.note.note)'
    BY <1>1 DEF Reconstructs, Landed, chain
  <2>2. CASE b
    BY <1>2, <1>3, <2>2 DEF OrderSpends
  <2>3. CASE ~b
    <3>1. run'["order"].pc = "withdraw" /\ run'["order"].note = s.note
      BY <1>2, <1>3, <2>3
    <3>2. RecShape(s.note) /\ Landed(s.note.note)'
      BY <1>1, <2>1, <2>3
    <3> QED
      BY <3>1, <3>2 DEF OrderSpends, RecShape, Landed
  <2> QED
    BY <2>2, <2>3
<1> QED
  BY <1>7, <1>8, <1>9 DEF NotesInv

LEMMA PostWithdrawKeeps == ASSUME NotesInv, ShieldAssumption, PostWithdraw PROVE NotesInv'
<1> PICK s : s = run["order"]
  OBVIOUS
<1> PICK tx : tx = Tx("withdraw", s.note.note, s.fresh, s.note.value - 1)
  OBVIOUS
<1>1. /\ s.pc = "withdraw" /\ "order" \in Parts /\ s = [f \in RunFields |-> s[f]]
      /\ s.fresh \in PoolSecrets /\ s.fresh # Null /\ Untouched(s.fresh)
      /\ RecShape(s.note) /\ Landed(s.note.note)
      /\ UNCHANGED <<stores, chain, excused, overtaken, closedTabs>>
  BY DEF PostWithdraw, Parts, NotesInv, NotesShapes, RunShape, Drawing, Unsent, OrderSpends,
         ShieldAssumption
<1>2. /\ tx.kind = "withdraw" /\ tx.out = s.fresh /\ tx.value = s.note.value - 1
      /\ TxShape(tx)
  BY <1>1 DEF Tx, TxShape, TxFields, RecShape
<1>3. s.fresh \notin LivePoolNotes
  BY <1>1 DEF Untouched, LivePoolNotes, Landed
<1>4. ASSUME NEW r, NEW new, r = [f \in RunFields |-> r[f]], Go("order", r),
             mempool' = mempool \cup new,
             \/ r.pc = "answer" /\ r.fresh = s.fresh /\ r.note = s.note /\ new = {tx}
             \/ /\ (r.pc = "build" /\ r.note = s.note) \/ r.pc = "idle"
                /\ r.fresh = Null /\ new = {}
      PROVE  NotesInv'
  <2>1. run'["order"] = r
    BY <1>1, <1>4 DEF Go, NotesInv, NotesShapes
  <2>2. RunShape("order")'
    BY <1>1, <1>4, <2>1 DEF RunShape, Drawing, Unsent
  <2>3. \A x \in poolStore' : RecShape(x)
    BY <1>1 DEF NotesInv, NotesShapes, stores
  <2>4. Goes("order", r, new)
    BY <1>1, <1>2, <1>4, <2>2, <2>3 DEF Goes, Unsent
  <2>5. Keeps("order", r)
    <3>1. CASE r.fresh = s.fresh
      BY <1>1, <3>1 DEF Keeps, stores
    <3>2. CASE new = {}
      <4>1. \A t \in mempool' : t.out # s.fresh
        BY <1>1, <1>4, <3>2 DEF Untouched
      <4> QED
        BY <1>1, <1>3, <4>1 DEF Keeps, Gone, stores
    <3> QED
      BY <1>4, <3>1, <3>2
  <2>6. NotesShapes' /\ DrawnOnce' /\ PoolKept' /\ run'["earnings"] = run["earnings"]
    BY <1>1, <2>4, <2>5, PageStep, PoolFrame DEF Parts
  <2>7. VaultKept'
    BY <1>1, <1>2, <1>4, <2>6, VaultFrame DEF stores, chain
  <2>8. OrderSpends'
    <3>1. r.pc = "answer" => \A u \in mempool' : u.out = s.fresh => u = tx
      BY <1>1, <1>4 DEF Untouched
    <3>2. \A i \in DOMAIN pool' : pool'[i].note # s.fresh
      BY <1>1 DEF Untouched, Landed, chain
    <3>3. Landed(s.note.note)'
      BY <1>1 DEF Landed, chain
    <3> QED
      BY <1>1, <1>2, <1>4, <2>1, <3>1, <3>2, <3>3 DEF OrderSpends, RecShape
  <2> QED
    BY <2>6, <2>7, <2>8 DEF NotesInv
<1>5. CASE /\ Submit([sent |-> TRUE], tx)
           /\ Go("order", [s EXCEPT !.pc = "answer"])
  <2> PICK r : r = [s EXCEPT !.pc = "answer"]
    OBVIOUS
  <2>1. r = [f \in RunFields |-> r[f]] /\ r.pc = "answer" /\ r.fresh = s.fresh /\ r.note = s.note
    BY <1>1 DEF RunFields
  <2>2. mempool' = mempool \cup {tx}
    BY <1>5 DEF Submit
  <2> QED
    BY <1>4, <1>5, <2>1, <2>2
<1>6. CASE Go("order", [s EXCEPT !.pc = "build", !.fresh = Null, !.attempt = Rebuilt(@)])
           /\ UNCHANGED mempool
  <2> PICK r : r = [s EXCEPT !.pc = "build", !.fresh = Null, !.attempt = Rebuilt(@)]
    OBVIOUS
  <2>1. r = [f \in RunFields |-> r[f]] /\ r.pc = "build" /\ r.fresh = Null /\ r.note = s.note
    BY <1>1 DEF RunFields
  <2>2. mempool' = mempool \cup {}
    BY <1>6
  <2> QED
    BY <1>4, <1>6, <2>1, <2>2
<1>7. CASE Stop("order") /\ UNCHANGED mempool
  <2>1. Idle = [f \in RunFields |-> Idle[f]] /\ Idle.pc = "idle" /\ Idle.fresh = Null
    BY DEF Idle, RunFields
  <2>2. mempool' = mempool \cup {}
    BY <1>7
  <2> QED
    BY <1>4, <1>7, <2>1, <2>2 DEF Stop
<1> QED
  BY <1>5, <1>6, <1>7 DEF PostWithdraw

LEMMA HearHashKeeps == ASSUME NotesInv, ShieldAssumption, HearHash PROVE NotesInv'
<1> PICK s : s = run["order"]
  OBVIOUS
<1> PICK n : n = s.note.note
  OBVIOUS
<1>1. /\ s.pc = "answer" /\ "order" \in Parts /\ s = [f \in RunFields |-> s[f]]
      /\ s.fresh \in PoolSecrets /\ s.fresh # Null
      /\ RecShape(s.note) /\ Landed(n) /\ n # Null /\ s.note.value \in Int
      /\ UNCHANGED <<vaultStore, mempool, chain, overtaken, closedTabs>>
  BY DEF HearHash, Parts, NotesInv, NotesShapes, RunShape, Drawing, OrderSpends, RecShape,
         ShieldAssumption
<1>2. /\ \A tx \in mempool : tx.out = s.fresh => tx.value = s.note.value - 1
      /\ \A i \in DOMAIN pool : pool[i].note = s.fresh => pool[i].value = s.note.value - 1
      /\ \A tx \in mempool : tx.out # n
  BY <1>1 DEF NotesInv, OrderSpends, DrawnOnce
<1> PICK r : r = IF s.note.value > 1 THEN [s EXCEPT !.pc = "change"] ELSE Idle
  OBVIOUS
<1>3. /\ r = [f \in RunFields |-> r[f]] /\ Go("order", r)
      /\ IF s.note.value > 1 THEN r.pc = "change" /\ r.fresh = s.fresh /\ r.note = s.note
         ELSE r.pc = "idle" /\ r.fresh = Null
  BY <1>1 DEF HearHash, RunFields, Idle
<1>4. /\ poolStore' = {IF rec.note = n THEN [rec EXCEPT !.spent = TRUE] ELSE rec : rec \in poolStore}
      /\ excused' = excused \cup (IF n \notin poolSpent THEN {n} ELSE {})
  BY <1>1 DEF HearHash, markSpent, Excuse
<1>5. run'["order"] = r
  BY <1>1, <1>3 DEF Go, NotesInv, NotesShapes
<1>6. RunShape("order")'
  BY <1>1, <1>3, <1>5 DEF RunShape, Drawing, Unsent
<1>7. \A x \in poolStore' : RecShape(x)
  <2>1. ASSUME NEW rec \in poolStore PROVE RecShape([rec EXCEPT !.spent = TRUE])
    <3>1. RecShape(rec)
      BY DEF NotesInv, NotesShapes
    <3> PICK x : x = [rec EXCEPT !.spent = TRUE]
      OBVIOUS
    <3>2. x = [f \in RecFields |-> x[f]] /\ x.note = rec.note /\ x.value = rec.value
      BY <3>1 DEF RecShape, RecFields
    <3> QED
      BY <3>1, <3>2 DEF RecShape
  <2>2. \A rec \in poolStore : RecShape(rec)
    BY DEF NotesInv, NotesShapes
  <2> QED
    BY <1>4, <2>1, <2>2
<1>8. Goes("order", r, {})
  BY <1>1, <1>3, <1>4, <1>6, <1>7 DEF Goes
<1>9. Keeps("order", r)
  <2>1. Gone(n)
    <3>1. n \in poolSpent => n \notin LivePoolNotes
      BY DEF LivePoolNotes
    <3> QED
      BY <1>1, <1>2, <1>4, <3>1 DEF Gone
  <2>2. \A rec \in poolStore : rec \in poolStore' \/ rec.note = n
    BY <1>4
  <2>3. s.note.value <= 1 => Gone(s.fresh)
    <3>1. s.note.value <= 1 => s.fresh \notin LivePoolNotes
      BY <1>1, <1>2 DEF LivePoolNotes
    <3> QED
      BY <1>1, <1>2, <3>1 DEF Gone
  <2> QED
    BY <1>1, <1>3, <2>1, <2>2, <2>3 DEF Keeps
<1>10. NotesShapes' /\ DrawnOnce' /\ PoolKept' /\ run'["earnings"] = run["earnings"]
  BY <1>1, <1>8, <1>9, PageStep, PoolFrame DEF Parts
<1>11. VaultKept'
  BY <1>1, <1>4, <1>10, VaultFrame DEF chain
<1>12. OrderSpends'
  <2>1. CASE s.note.value > 1
    <3>1. /\ run'["order"].pc = "change" /\ run'["order"].note = s.note
          /\ run'["order"].fresh = s.fresh
      BY <1>3, <1>5, <2>1
    <3>2. Landed(n)'
      BY <1>1 DEF Landed, chain
    <3> QED
      BY <1>1, <1>2, <3>1, <3>2 DEF OrderSpends, RecShape, Landed
  <2>2. CASE ~(s.note.value > 1)
    BY <1>3, <1>5, <2>2 DEF OrderSpends
  <2> QED
    BY <2>1, <2>2
<1> QED
  BY <1>10, <1>11, <1>12 DEF NotesInv

\* The last step of the order form: the change is recorded, or given up.
Stops(new) ==
    /\ run["order"].pc \in {"answer", "change"} /\ Stop("order")
    /\ UNCHANGED <<vaultStore, mempool, chain, closedTabs>> /\ excused \subseteq excused'
    /\ poolStore' = poolStore \cup new /\ \A x \in new : RecShape(x)
    /\ \/ Gone(run["order"].fresh)
       \/ \E rec \in new : rec.note = run["order"].fresh /\ ~rec.spent

LEMMA OrderStops ==
    ASSUME NotesInv, ShieldAssumption, NEW new, Stops(new) PROVE NotesInv'
<1> USE DEF Stops
<1>1. "order" \in Parts /\ Idle.pc = "idle" /\ Idle.fresh = Null
      /\ Idle = [f \in RunFields |-> Idle[f]]
  BY DEF Parts, Idle, RunFields
<1>2. run'["order"] = Idle
  BY <1>1 DEF Stop, Go, NotesInv, NotesShapes
<1>3. RunShape("order")'
  BY <1>1, <1>2 DEF RunShape, Drawing, Unsent
<1>4. \A x \in poolStore' : RecShape(x)
  BY DEF NotesInv, NotesShapes
<1>5. Goes("order", Idle, {})
  BY <1>1, <1>3, <1>4 DEF Goes, Stop
<1>6. Keeps("order", Idle)
  BY <1>1 DEF Keeps
<1>7. NotesShapes' /\ DrawnOnce' /\ PoolKept' /\ run'["earnings"] = run["earnings"]
  BY <1>1, <1>5, <1>6, PageStep, PoolFrame DEF Parts
<1>8. VaultKept'
  BY <1>1, <1>7, VaultFrame DEF chain
<1>9. OrderSpends'
  BY <1>1, <1>2 DEF OrderSpends
<1> QED
  BY <1>7, <1>8, <1>9 DEF NotesInv

LEMMA HearNothingKeeps == ASSUME NotesInv, ShieldAssumption, HearNothing PROVE NotesInv'
<1>1. run["order"].pc = "answer" /\ run["order"].fresh # Null /\ "order" \in Parts
  BY DEF HearNothing, Parts, NotesInv, NotesShapes, RunShape, Drawing, ShieldAssumption
<1>2. /\ Stop("order") /\ UNCHANGED <<vaultStore, mempool, chain, closedTabs>>
      /\ poolStore' = poolStore \cup {}
      /\ GiveUp(run["order"].fresh)
  BY <1>1 DEF HearNothing, stores
<1>3. excused \subseteq excused' /\ Gone(run["order"].fresh)
  BY <1>1, <1>2, GivenUp
<1>4. Stops({})
  BY <1>1, <1>2, <1>3 DEF Stops
<1> QED
  BY <1>4, OrderStops

LEMMA RecordChangeKeeps == ASSUME NotesInv, ShieldAssumption, RecordChange PROVE NotesInv'
<1> PICK s : s = run["order"]
  OBVIOUS
<1>1. /\ s.pc = "change" /\ s.fresh # Null /\ "order" \in Parts /\ s.fresh \in PoolSecrets
      /\ RecShape(s.note) /\ s.note.value \in Int
      /\ Stop("order") /\ UNCHANGED <<vaultStore, mempool, chain, closedTabs>>
  BY DEF RecordChange, Parts, NotesInv, NotesShapes, RunShape, Drawing, ShieldAssumption,
         OrderSpends, RecShape
<1> PICK rec : rec = [note |-> s.fresh, index |-> ChangeIndex,
                 left |-> Snapshot(Len(pool), ChangeIndex), depositBlock |-> height,
                 value |-> s.note.value - 1, spent |-> FALSE]
  OBVIOUS
<1>2. RecShape(rec) /\ rec.note = s.fresh /\ ~rec.spent
  BY <1>1 DEF RecShape, RecFields
<1>3. CASE poolStore' = poolStore \cup {rec} /\ UNCHANGED excused
  <2>1. \A x \in {rec} : RecShape(x)
    BY <1>2
  <2>2. excused \subseteq excused' /\ \E x \in {rec} : x.note = run["order"].fresh /\ ~x.spent
    BY <1>2, <1>3
  <2>3. Stops({rec})
    BY <1>1, <1>3, <2>1, <2>2 DEF Stops
  <2> QED
    BY <2>3, OrderStops
<1>4. CASE UNCHANGED poolStore /\ GiveUp(s.fresh)
  <2>1. poolStore' = poolStore \cup {}
    BY <1>4
  <2>2. excused \subseteq excused' /\ Gone(run["order"].fresh)
    BY <1>1, <1>4, GivenUp
  <2>3. Stops({})
    BY <1>1, <2>1, <2>2 DEF Stops
  <2> QED
    BY <2>3, OrderStops
<1> QED
  BY <1>3, <1>4 DEF RecordChange

\* A leaf is added to the pool's tree.
LEMMA PoolGrows ==
    ASSUME NotesShapes, NEW leaf, pool' = Append(pool, leaf)
    PROVE  /\ Len(pool) \in Nat /\ DOMAIN pool = 1..Len(pool)
           /\ Len(pool') = Len(pool) + 1 /\ DOMAIN pool' = 1..(Len(pool) + 1)
           /\ pool'[Len(pool) + 1] = leaf
           /\ \A i \in DOMAIN pool : i \in DOMAIN pool' /\ pool'[i] = pool[i]
           /\ \A i \in DOMAIN pool' : i \in DOMAIN pool \/ i = Len(pool) + 1
           /\ \A k : Landed(k)' <=> Landed(k) \/ k = leaf.note
<1> PICK D : D = [note : PoolSecrets \cup {Null}, block : Nat, value : Int]
  OBVIOUS
<1>1. pool \in Seq(D)
  BY DEF NotesShapes
<1>2. Len(pool) \in Nat /\ DOMAIN pool = 1..Len(pool)
  BY <1>1
<1>3. /\ Len(pool') = Len(pool) + 1 /\ DOMAIN pool' = 1..(Len(pool) + 1)
      /\ pool'[Len(pool) + 1] = leaf
      /\ \A i \in 1..Len(pool) : pool'[i] = pool[i]
  BY <1>1, <1>2
<1>4. /\ \A i \in DOMAIN pool : i \in DOMAIN pool' /\ pool'[i] = pool[i]
      /\ \A i \in DOMAIN pool' : i \in DOMAIN pool \/ i = Len(pool) + 1
      /\ Len(pool) + 1 \in DOMAIN pool'
  BY <1>2, <1>3
<1>5. ASSUME NEW k PROVE Landed(k)' <=> Landed(k) \/ k = leaf.note
  BY <1>3, <1>4 DEF Landed
<1> QED
  BY <1>2, <1>3, <1>4, <1>5

\* A block comes in with a leaf: of the transactions that leave, or somebody else's.
Lands(gone, leaf) ==
    /\ pool' = Append(pool, leaf) /\ mempool' = mempool \ gone
    /\ UNCHANGED <<stores, run, vaultLeaves, excused>>
    /\ poolSpent \subseteq poolSpent' /\ height' \in Nat
    /\ leaf \in [note : PoolSecrets \cup {Null}, block : Nat, value : Int]
    /\ leaf.note = Null => leaf.value = 0
    /\ leaf.note # Null => \E tx \in gone \cap mempool : tx.out = leaf.note /\ tx.value = leaf.value

LEMMA LeafLands ==
    ASSUME NotesInv, ShieldAssumption, NEW gone, NEW leaf, Lands(gone, leaf)
    PROVE  NotesShapes' /\ DrawnOnce' /\ OrderSpends' /\ PoolKept'
<1> USE DEF Lands
<1>1. /\ \A i \in DOMAIN pool : i \in DOMAIN pool' /\ pool'[i] = pool[i]
      /\ \A i \in DOMAIN pool' : i \in DOMAIN pool \/ pool'[i] = leaf
      /\ \A i \in DOMAIN pool' \ DOMAIN pool : i = Len(pool) + 1
      /\ \A k : Landed(k)' <=> Landed(k) \/ k = leaf.note
  BY PoolGrows DEF NotesInv
<1>2. \A p \in Parts : RunShape(p)
  BY DEF NotesInv, NotesShapes
<1>3. leaf.note # Null => ~Landed(leaf.note)
  BY DEF NotesInv, DrawnOnce
<1>4. ASSUME NEW p \in Parts PROVE RunShape(p)'
  <2>1. run[p].pc \in Unsent => run[p].fresh # Null /\ Untouched(run[p].fresh)
    BY <1>2 DEF RunShape, Unsent, Drawing, ShieldAssumption
  <2>2. run[p].pc \in Unsent => Untouched(run[p].fresh)'
    BY <1>1, <2>1 DEF Untouched
  <2>3. RunShape(p) /\ run' = run
    BY <1>2
  <2> QED
    BY <2>2, <2>3 DEF RunShape
<1>5. NotesShapes'
  <2>1. \A tx \in mempool' : TxShape(tx)
    BY DEF NotesInv, NotesShapes
  <2>2. \A rec \in poolStore' : RecShape(rec)
    BY DEF NotesInv, NotesShapes, stores
  <2>3. \A i \in DOMAIN pool' : pool'[i].note = Null => pool'[i].value = 0
    BY <1>1 DEF NotesInv, NotesShapes
  <2>4. pool' \in Seq([note : PoolSecrets \cup {Null}, block : Nat, value : Int])
    BY DEF NotesInv, NotesShapes
  <2>5. run' = [p \in Parts |-> run'[p]] /\ vaultLeaves' \subseteq VaultSecrets
    BY DEF NotesInv, NotesShapes
  <2> QED
    BY <1>4, <2>1, <2>2, <2>3, <2>4, <2>5 DEF NotesShapes
<1>6. DrawnOnce'
  <2>1. ASSUME NEW i \in DOMAIN pool', NEW j \in DOMAIN pool', pool'[i].note = pool'[j].note
        PROVE  i = j \/ pool'[i].note = Null
    <3>1. CASE i \in DOMAIN pool /\ j \in DOMAIN pool
      BY <1>1, <2>1, <3>1 DEF NotesInv, DrawnOnce
    <3>2. CASE i \in DOMAIN pool /\ j \notin DOMAIN pool
      BY <1>1, <1>3, <2>1, <3>2 DEF Landed
    <3>3. CASE i \notin DOMAIN pool /\ j \in DOMAIN pool
      BY <1>1, <1>3, <2>1, <3>3 DEF Landed
    <3>4. CASE i \notin DOMAIN pool /\ j \notin DOMAIN pool
      BY <1>1, <3>4
    <3> QED
      BY <3>1, <3>2, <3>3, <3>4
  <2>2. ASSUME NEW t \in mempool', t.out # Null PROVE ~Landed(t.out)'
    <3>1. ~Landed(t.out) /\ t.out # leaf.note
      BY <2>2 DEF NotesInv, DrawnOnce
    <3> QED
      BY <1>1, <3>1
  <2>3. \A t, u \in mempool' : t.out = u.out => t = u \/ t.out = Null
    BY DEF NotesInv, DrawnOnce
  <2>4. \A p, q \in Parts : run'[p].fresh = run'[q].fresh => p = q \/ run'[p].fresh = Null
    BY DEF NotesInv, DrawnOnce
  <2> QED
    BY <2>1, <2>2, <2>3, <2>4 DEF DrawnOnce
<1>7. OrderSpends'
  <2> PICK r : r = run["order"]
    OBVIOUS
  <2>1. r = run'["order"]
    OBVIOUS
  <2>2. "order" \in Parts /\ (r.pc = "answer" => r.fresh # Null)
    BY <1>2 DEF Parts, RunShape, Drawing, ShieldAssumption
  <2>3. r.pc = "answer" /\ leaf.note = r.fresh => leaf.value = r.note.value - 1
    BY <2>2 DEF NotesInv, OrderSpends
  <2>4. ASSUME r.pc = "answer", NEW i \in DOMAIN pool', pool'[i].note = r.fresh
        PROVE  pool'[i].value = r.note.value - 1
    BY <1>1, <2>3, <2>4 DEF NotesInv, OrderSpends
  <2>5. /\ r.pc \in {"build", "withdraw", "answer", "change"} => RecShape(r.note)
        /\ r.pc \in {"withdraw", "answer", "change"} => Landed(r.note.note)'
        /\ r.pc = "answer" => \A tx \in mempool' : tx.out = r.fresh =>
              tx.kind = "withdraw" /\ tx.value = r.note.value - 1
    BY <1>1 DEF NotesInv, OrderSpends
  <2> QED
    BY <2>1, <2>4, <2>5 DEF OrderSpends, RecShape, Landed
<1>8. PoolKept'
  <2>1. \A k : Traced(k)' <=> Traced(k)
    BY DEF Traced, stores
  <2>2. \A k \in LivePoolNotes' : k \in LivePoolNotes \/ (k = leaf.note /\ leaf.value > 0)
    BY <1>1 DEF LivePoolNotes
  <2>3. leaf.value > 0 => Traced(leaf.note)
    BY DEF NotesInv, PoolKept
  <2>4. \A k \in LivePoolNotes' : Traced(k)'
    BY <2>1, <2>2, <2>3 DEF NotesInv, PoolKept
  <2>5. \A tx \in mempool' : tx.out # Null /\ tx.value > 0 => Traced(tx.out)'
    BY <2>1 DEF NotesInv, PoolKept
  <2> QED
    BY <2>4, <2>5 DEF PoolKept
<1> QED
  BY <1>5, <1>6, <1>7, <1>8

\* A step of the world without a leaf: transactions may leave.
Quiet ==
    /\ UNCHANGED <<stores, run, pool, poolSpent>>
    /\ mempool' \subseteq mempool /\ excused \subseteq excused'
    /\ height' \in Nat /\ vaultLeaves' \subseteq VaultSecrets

LEMMA QuietKeeps ==
    ASSUME NotesInv, Quiet
    PROVE  NotesShapes' /\ DrawnOnce' /\ OrderSpends' /\ PoolKept'
<1> USE DEF Quiet
<1>1. \A k : Landed(k)' <=> Landed(k)
  BY DEF Landed
<1>2. \A p \in Parts : RunShape(p)'
  BY <1>1 DEF NotesInv, NotesShapes, RunShape, Untouched
<1>3. NotesShapes'
  BY <1>2 DEF NotesInv, NotesShapes, stores, TxShape, RecShape
<1>4. DrawnOnce'
  BY <1>1 DEF NotesInv, DrawnOnce
<1>5. OrderSpends'
  BY <1>1 DEF NotesInv, OrderSpends, RecShape
<1>6. PoolKept'
  BY DEF NotesInv, PoolKept, Traced, LivePoolNotes, stores
<1> QED
  BY <1>3, <1>4, <1>5, <1>6

\* The chain and the tab, action by action.
LEMMA MineKeeps ==
    ASSUME NotesInv, ShieldAssumption, NEW tx \in mempool, Mine(tx) PROVE NotesInv'
<1>1. /\ Succeeds(tx) /\ mempool' = mempool \ {tx} /\ height' = height + 1 /\ height' \in Nat
      /\ UNCHANGED <<stores, run, excused, closedTabs>> /\ TxShape(tx) /\ height + 1 \in Nat
  BY DEF Mine, NextBlock, NotesInv, NotesShapes
<1>2. ASSUME tx.kind # "insert", Append1(tx.out, tx.value), vaultLeaves' = vaultLeaves,
             poolSpent \subseteq poolSpent'
      PROVE  NotesShapes' /\ DrawnOnce' /\ OrderSpends' /\ PoolKept'
  <2> PICK leaf : leaf = [note |-> tx.out, block |-> height + 1, value |-> tx.value]
    OBVIOUS
  <2>1. /\ leaf \in [note : PoolSecrets \cup {Null}, block : Nat, value : Int]
        /\ leaf.note = tx.out /\ leaf.value = tx.value /\ leaf.note # Null
    BY <1>1, <1>2 DEF TxShape, ShieldAssumption
  <2>2. Lands({tx}, leaf)
    BY <1>1, <1>2, <2>1 DEF Lands, Append1
  <2> QED
    BY <2>2, LeafLands
<1>3. CASE /\ tx.kind = "insert" /\ vaultLeaves' = vaultLeaves \cup {tx.note}
           /\ UNCHANGED <<vaultSpent, pool, poolSpent>>
  <2>1. tx.note \in VaultSecrets /\ tx.out = Null /\ tx.value = 0
    BY <1>1, <1>3 DEF TxShape
  <2>2. Quiet
    BY <1>1, <1>3, <2>1 DEF Quiet, NotesInv, NotesShapes
  <2>3. ASSUME NEW u \in mempool, u.kind = "insert", u.note = tx.note PROVE u = tx
    <3>1. TxShape(u)
      BY DEF NotesInv, NotesShapes
    <3>2. \A f \in TxFields : u[f] = tx[f]
      BY <1>3, <2>1, <2>3, <3>1 DEF TxShape, TxFields
    <3> QED
      BY <1>1, <3>1, <3>2 DEF TxShape
  <2>4. VaultKept'
    <3>1. \A v : Held(v)' <=> Held(v)
      BY <1>1 DEF Held, stores
    <3>2. \A v \in LiveVaultNotes' : v \in LiveVaultNotes \/ v = tx.note
      BY <1>3 DEF LiveVaultNotes
    <3> PICK r : r = run["earnings"]
      OBVIOUS
    <3>3. /\ r.pc = "insert" =>
              /\ r.note \in VaultSecrets \ vaultLeaves' /\ Held(r.note)'
              /\ \A t \in mempool' : t.kind = "insert" => t.note # r.note
          /\ r.pc = "spend" => r.note \in vaultLeaves'
      BY <1>1, <1>3, <3>1 DEF NotesInv, VaultKept
    <3>4. \A t \in mempool' : t.kind = "insert" =>
             t.note \notin vaultLeaves' /\ (Held(t.note)' \/ t.note \in excused')
      BY <1>1, <1>3, <2>3, <3>1 DEF NotesInv, VaultKept
    <3>5. \A v \in LiveVaultNotes' :
            \/ Held(v)' \/ v \in excused'
            \/ \E t \in mempool' : t.kind = "spend" /\ t.note = v
      BY <1>1, <1>3, <3>1, <3>2 DEF NotesInv, VaultKept
    <3>6. r = run'["earnings"]
      BY <1>1
    <3> QED
      BY <3>3, <3>4, <3>5, <3>6 DEF VaultKept
  <2> QED
    BY <2>2, <2>4, QuietKeeps DEF NotesInv
<1>4. CASE /\ tx.kind = "spend" /\ tx.note \in vaultLeaves \ vaultSpent
           /\ vaultSpent' = vaultSpent \cup {tx.note} /\ Append1(tx.out, tx.value)
           /\ UNCHANGED <<vaultLeaves, poolSpent>>
  <2>1. \A v \in LiveVaultNotes' : v \in LiveVaultNotes /\ v # tx.note
    BY <1>4 DEF LiveVaultNotes
  <2>2. VaultKept'
    BY <1>1, <1>4, <2>1 DEF NotesInv, VaultKept, Held, stores
  <2> QED
    BY <1>2, <1>4, <2>2 DEF NotesInv
<1>5. CASE /\ tx.kind \in {"deposit", "withdraw"} /\ Append1(tx.out, tx.value)
           /\ UNCHANGED <<vaultLeaves, vaultSpent>> /\ poolSpent \subseteq poolSpent'
  <2>1. VaultKept'
    BY <1>1, <1>5 DEF NotesInv, VaultKept, Held, stores, LiveVaultNotes
  <2> QED
    BY <1>2, <1>5, <2>1 DEF NotesInv
<1> QED
  BY <1>1, <1>3, <1>4, <1>5 DEF Succeeds

LEMMA FailKeeps ==
    ASSUME NotesInv, ShieldAssumption, NEW tx \in mempool, Fail(tx) PROVE NotesInv'
<1>1. /\ mempool' = mempool \ {tx} /\ UNCHANGED <<stores, run, chain>> /\ TxShape(tx)
      /\ excused' = excused \cup ((IF tx.kind = "spend" /\ ~Held(tx.note) THEN {tx.note} ELSE {})
                                   \ {Null})
  BY DEF Fail, Excuse, NotesInv, NotesShapes
<1>2. Quiet
  BY <1>1 DEF Quiet, chain, NotesInv, NotesShapes
<1>3. tx.kind = "spend" => Held(tx.note) \/ tx.note \in excused'
  BY <1>1 DEF TxShape, ShieldAssumption
<1>4. VaultKept'
  BY <1>1, <1>3 DEF NotesInv, VaultKept, Held, stores, chain, LiveVaultNotes
<1> QED
  BY <1>2, <1>4, QuietKeeps DEF NotesInv

LEMMA ForeignLeafKeeps == ASSUME NotesInv, ShieldAssumption, ForeignLeaf PROVE NotesInv'
<1> PICK leaf : leaf = [note |-> Null, block |-> height + 1, value |-> 0]
  OBVIOUS
<1>1. /\ leaf \in [note : PoolSecrets \cup {Null}, block : Nat, value : Int]
      /\ leaf.note = Null /\ leaf.value = 0 /\ height' \in Nat
  BY DEF NotesInv, NotesShapes, ForeignLeaf, NextBlock
<1>2. Lands({}, leaf)
  BY <1>1 DEF Lands, ForeignLeaf, Append1
<1>3. VaultKept'
  BY DEF ForeignLeaf, NotesInv, VaultKept, Held, stores, LiveVaultNotes
<1> QED
  BY <1>2, <1>3, LeafLands DEF NotesInv

LEMMA EmptyBlockKeeps == ASSUME NotesInv, ShieldAssumption, EmptyBlock PROVE NotesInv'
<1>1. Quiet
  BY DEF EmptyBlock, NextBlock, Quiet, NotesInv, NotesShapes
<1>2. VaultKept'
  BY DEF EmptyBlock, NotesInv, VaultKept, Held, stores, LiveVaultNotes
<1> QED
  BY <1>1, <1>2, QuietKeeps DEF NotesInv

LEMMA CloseTabKeeps == ASSUME NotesInv, ShieldAssumption, CloseTab PROVE NotesInv'
<1>1. /\ run' = [p \in Parts |-> Idle] /\ UNCHANGED <<stores, mempool, chain, overtaken>>
      /\ excused' = excused \cup ({run[p].fresh : p \in {q \in Parts :
            Landed(run[q].fresh) \/ \E tx \in mempool : tx.out = run[q].fresh}} \ {Null})
  BY DEF CloseTab, Excuse, OnChain
<1>2. \A p \in Parts : run'[p] = Idle /\ run'[p].pc = "idle" /\ run'[p].fresh = Null
  BY <1>1 DEF Idle
<1>3. \A k : Landed(k)' <=> Landed(k)
  BY <1>1 DEF Landed, chain
<1>4. NotesShapes'
  <2>1. \A p \in Parts : RunShape(p)'
    BY <1>2 DEF RunShape, RunFields, Drawing, Unsent, Idle
  <2>2. run' = [p \in Parts |-> run'[p]]
    BY <1>1
  <2> QED
    BY <1>1, <2>1, <2>2 DEF NotesInv, NotesShapes, stores, chain, TxShape, RecShape
<1>5. DrawnOnce'
  BY <1>1, <1>2, <1>3 DEF NotesInv, DrawnOnce, chain
<1>6. OrderSpends' /\ VaultKept'
  BY <1>1, <1>2 DEF NotesInv, OrderSpends, VaultKept, Held, LiveVaultNotes, Parts, stores, chain
<1>7. ASSUME NEW k, k # Null, Traced(k), Landed(k) \/ \E tx \in mempool : tx.out = k
      PROVE  Traced(k)'
  <2>1. ASSUME NEW p \in Parts, run[p].fresh = k PROVE k \in excused'
    BY <1>1, <1>7, <2>1
  <2> QED
    BY <1>1, <1>7, <2>1 DEF Traced, stores
<1>8. PoolKept'
  <2>1. ASSUME NEW tx \in mempool', tx.out # Null, tx.value > 0 PROVE Traced(tx.out)'
    BY <1>1, <1>7, <2>1 DEF NotesInv, PoolKept
  <2>2. ASSUME NEW k \in LivePoolNotes' PROVE Traced(k)'
    <3>1. k \in LivePoolNotes
      BY <1>1 DEF LivePoolNotes, chain
    <3>2. k # Null /\ Landed(k)
      BY <3>1 DEF LivePoolNotes, Landed, NotesInv, NotesShapes
    <3> QED
      BY <1>7, <3>1, <3>2 DEF NotesInv, PoolKept
  <2> QED
    BY <2>1, <2>2 DEF PoolKept
<1> QED
  BY <1>4, <1>5, <1>6, <1>8 DEF NotesInv

LEMMA NotesStutter == ASSUME NotesInv, UNCHANGED shieldVars PROVE NotesInv'
<1> USE DEF shieldVars, stores, chain
<1>1. Quiet
  BY DEF Quiet, NotesInv, NotesShapes
<1>2. VaultKept'
  BY DEF NotesInv, VaultKept, Held, LiveVaultNotes
<1> QED
  BY <1>1, <1>2, QuietKeeps DEF NotesInv

LEMMA NotesStep ==
    ASSUME NotesInv, ShieldAssumption, [ShieldNext]_shieldVars PROVE NotesInv'
<1>1. CASE Steps
  BY <1>1, InsertNoteKeeps, SpendAllKeeps, StartDepositKeeps, FundBurnerKeeps DEF Steps
<1>2. CASE Continues
  BY <1>2, PostInsertKeeps, PostSpendKeeps, AdoptNoteKeeps, ProveSpendKeeps, SubmitDepositKeeps,
     ConfirmDepositKeeps, BuildWithdrawalKeeps, PostWithdrawKeeps, HearHashKeeps,
     HearNothingKeeps, RecordChangeKeeps DEF Continues
<1>3. CASE World
  BY <1>3, MineKeeps, FailKeeps, ForeignLeafKeeps, EmptyBlockKeeps, CloseTabKeeps
     DEF World, Revert, Drop
<1> QED
  BY <1>1, <1>2, <1>3, NotesStutter DEF ShieldNext

\* For any number of secrets, leaves, blocks, answers and closed tabs, a note with
\* value on chain has its secret in a store, in hand, or given up for a named
\* reason (insertShieldNote, spendShieldNote, topUpShielded, fundBurner).
THEOREM SecretsAreKept == ASSUME ShieldAssumption PROVE ShieldSpec => []SecretsKept
<1>1. ShieldInit => NotesInv
  BY NotesInit
<1>2. NotesInv /\ [ShieldNext]_shieldVars => NotesInv'
  BY NotesStep
<1>3. NotesInv => SecretsKept
  <2> SUFFICES ASSUME NotesInv PROVE SecretsKept
    OBVIOUS
  <2>1. VaultKept /\ PoolKept
    BY DEF NotesInv
  <2> QED
    BY <2>1 DEF VaultKept, PoolKept, Traced, SecretsKept
<1> QED
  BY <1>1, <1>2, <1>3, PTL DEF ShieldSpec

-----------------------------------------------------------------------------
(* V.  The wallet: paths.                                                  *)

\* Division, and the only number it can be.
LEMMA DivIs ==
    ASSUME NEW P \in Nat, P > 0, NEW j \in Nat
    PROVE  /\ j \div P \in Nat
           /\ (j \div P) * P <= j
           /\ j < (j \div P) * P + P
OBVIOUS

LEMMA DivOnly ==
    ASSUME NEW P \in Nat, P > 0, NEW j \in Nat, NEW q \in Nat, q * P <= j, j < q * P + P
    PROVE  j \div P = q
<1> DEFINE d == j \div P
<1>1. d \in Nat /\ d * P <= j /\ j < d * P + P
  BY DivIs
<1> HIDE DEF d
<1>2. CASE d < q
  <2>1. d + 1 <= q
    BY <1>1, <1>2
  <2>2. (d + 1) * P <= q * P
    BY <1>1, <2>1
  <2> QED
    BY <1>1, <2>2
<1>3. CASE q < d
  <2>1. q + 1 <= d
    BY <1>1, <1>3
  <2>2. (q + 1) * P <= d * P
    BY <1>1, <2>1
  <2> QED
    BY <1>1, <2>2
<1> QED
  BY <1>1, <1>2, <1>3 DEF d

LEMMA PowPositive == ASSUME NEW n \in Nat PROVE 2^n \in Nat /\ 2^n > 0
<1>1. 2^n \in Nat /\ Cardinality(SUBSET (1..n)) = 2^n /\ IsFiniteSet(SUBSET (1..n))
  BY PowNat
<1>2. {} \in SUBSET (1..n)
  OBVIOUS
<1>3. Cardinality(SUBSET (1..n)) # 0
  BY <1>1, <1>2, FS_EmptySet
<1> QED
  BY <1>1, <1>3

\* Above a right child, the last left child to its left ends its sibling.
LEMMA SideNodeIs ==
    ASSUME NEW n \in Nat, NEW lv \in Nat, Bit(n, lv), NEW size \in {n, n + 1}
    PROVE  SideNode(size, lv) = <<(n \div 2^lv - 1) * 2^lv, (n \div 2^lv) * 2^lv - 1>>
<1> DEFINE P == 2^lv
           q == n \div P
           end == q * P - 1
           lefts == {j \in 0..(size - 1) : ~Bit(j, lv)}
<1>1. P \in Nat /\ P > 0
  BY PowPositive
<1>2. q \in Nat /\ q * P <= n /\ n < q * P + P
  BY <1>1, DivIs
<1>3. q % 2 = 1
  BY DEF Bit
<1>4. \A j : Bit(j, lv) <=> (j \div P) % 2 = 1
  BY DEF Bit
<1>5. SideNode(size, lv) =
         LET last == CHOOSE j \in lefts : \A i \in lefts : i <= j
         IN IF lefts = {} THEN << >> ELSE <<(last \div P) * P, last>>
  BY DEF SideNode
<1>6. \A i : i \in lefts <=> i \in 0..(size - 1) /\ ~Bit(i, lv)
  OBVIOUS
<1> HIDE DEF P, lefts
<1>7. q - 1 \in Nat /\ (q - 1) % 2 = 0 /\ (q - 1) * P = q * P - P /\ q * P \in Nat
  <2>1. q >= 1 /\ (q - 1) % 2 = 0
    BY <1>2, <1>3
  <2> HIDE DEF q
  <2> QED
    BY <1>1, <1>2, <2>1
<1>8. (q - 1) * P \in Nat /\ end \in Nat
  <2>1. q - 1 \in Nat /\ P \in Nat
    BY <1>1, <1>7
  <2>2. (q - 1) * P \in Nat
    BY <2>1
  <2> QED
    BY <1>1, <1>7, <2>2
<1> DEFINE m == q - 1
<1>9. end \div P = m
  <2>1. m \in Nat /\ m * P <= end /\ end < m * P + P
    <3> HIDE DEF q
    <3> QED
      BY <1>1, <1>7, <1>8
  <2> HIDE DEF m, end
  <2> QED
    BY <1>1, <1>8, <2>1, DivOnly
<1>10. end \in lefts
  <2>1. end <= n - 1 /\ end \in 0..(size - 1)
    <3>1. q * P <= n /\ q * P \in Nat /\ end \in Nat /\ size \in Nat /\ n <= size
      BY <1>2, <1>7, <1>8
    <3> HIDE DEF q
    <3> QED
      BY <3>1
  <2> QED
    BY <1>4, <1>6, <1>7, <1>9, <2>1
<1>11. ASSUME NEW i \in lefts PROVE i <= end
  <2> DEFINE d == i \div P
  <2>1. i \in Nat /\ i <= n /\ d % 2 # 1
    BY <1>4, <1>6
  <2>2. d \in Nat /\ d * P <= i /\ i < d * P + P
    BY <1>1, <2>1, DivIs
  <2> HIDE DEF d, q
  <2>3. ~(d > q)
    <3> SUFFICES ASSUME d > q PROVE FALSE
      OBVIOUS
    <3>1. q + 1 <= d
      BY <1>2, <2>2
    <3>2. (q + 1) * P <= d * P /\ (q + 1) * P = q * P + P
      BY <1>1, <1>2, <2>2, <3>1
    <3> QED
      BY <1>1, <1>2, <2>1, <2>2, <3>2
  <2>4. d # q
    BY <1>3, <2>1
  <2>5. d + 1 <= q
    BY <1>2, <2>2, <2>3, <2>4
  <2>6. (d + 1) * P <= q * P /\ (d + 1) * P = d * P + P
    BY <1>1, <1>2, <2>2, <2>5
  <2> QED
    BY <1>1, <1>2, <2>1, <2>2, <2>6
<1>12. \A i \in lefts : i \in Nat
  BY <1>6
<1>13. (CHOOSE j \in lefts : \A i \in lefts : i <= j) = end
  <2>1. \A j \in lefts : (\A i \in lefts : i <= j) => j = end
    <3> HIDE DEF end
    <3> QED
      BY <1>8, <1>10, <1>11, <1>12
  <2> HIDE DEF end
  <2> QED
    BY <1>10, <1>11, <2>1
<1>14. SideNode(size, lv) = <<(end \div P) * P, end>>
  BY <1>5, <1>10, <1>13
<1> QED
  BY <1>9, <1>14 DEF P

\* A snapshot taken just before a leaf, or just after it, has its left siblings.
LEMMA SnapshotIs ==
    ASSUME ShieldAssumption, NEW n \in Nat, NEW size \in {n, n + 1}
    PROVE  Snapshot(size, n) = LeftPath(n)
<1>1. \A lv \in Levels : lv \in Nat
  BY DEF Levels, ShieldAssumption
<1>2. \A lv \in {l \in Levels : Bit(n, l)} :
         SideNode(size, lv) = <<(n \div 2^lv - 1) * 2^lv, (n \div 2^lv) * 2^lv - 1>>
  BY <1>1, SideNodeIs
<1> QED
  BY <1>2 DEF Snapshot, LeftPath

\* Where an operation takes its leaf to be: where it is, or where the next comes.
Placed(k, index) == index = IF Landed(k) THEN IndexOf(k) ELSE Len(pool)

DepositPath ==
    LET r == run["wallet"] IN
    r.pc \in {"deposit", "confirm"} /\ r.fresh \notin overtaken =>
        Placed(r.fresh, r.index) /\ (Landed(r.fresh) => Len(pool) = r.index + 1)
SpendPath ==
    LET r == run["earnings"] IN
    /\ r.pc \in {"spend", "adopt"} /\ r.fresh \notin overtaken =>
           Placed(r.fresh, r.index) /\ r.left = LeftPath(r.index)
    /\ r.pc = "adopt" => \A tx \in mempool : tx.out = r.fresh => tx.kind = "spend"
ChangePath ==
    LET r == run["order"] IN
    r.pc \in {"answer", "change"} /\ r.fresh \notin overtaken /\ Landed(r.fresh) =>
        Len(pool) = IndexOf(r.fresh) + 1 /\ pool[Len(pool)].block = height

\* A record can be proved against the tree, or its leaf is not there; then, unless
\* it was overtaken, only a spend on its way can bring it, to the place it says.
RecordPath(rec) ==
    /\ Landed(rec.note) /\ rec.note \notin overtaken => Reconstructs(rec)
    /\ ~Landed(rec.note) =>
          /\ \A p \in Parts : run[p].fresh # rec.note
          /\ rec.note \notin overtaken => \A tx \in mempool : tx.out = rec.note =>
                /\ tx.kind = "spend"
                /\ rec.index = Len(pool) /\ rec.left = LeftPath(rec.index)
                /\ rec.depositBlock \in 0..height

\* Inductive, with NotesInv.
PathsInv ==
    DepositPath /\ SpendPath /\ ChangePath /\ \A rec \in poolStore : RecordPath(rec)

LEMMA PathsInit == ShieldInit => PathsInv
BY DEF ShieldInit, PathsInv, DepositPath, SpendPath, ChangePath, Parts, Idle

\* The page does a step: part p is where r says, of the records only `recs` are new.
SameRecord(rec, old) ==
    /\ rec.note = old.note /\ rec.index = old.index /\ rec.left = old.left
    /\ rec.depositBlock = old.depositBlock
Treads(p, r, recs) ==
    /\ UNCHANGED chain
    /\ Go(p, r) /\ (r.fresh \in {run[p].fresh, Null} \/ Unused(r.fresh))
    /\ \A tx \in mempool' : tx \in mempool \/ tx.out \in {run[p].fresh, Null}
    /\ \A k \in overtaken : k \in overtaken' \/ Unused(k)
    /\ \A rec \in poolStore' : rec \in recs \/ \E old \in poolStore : SameRecord(rec, old)

LEMMA PageFrame ==
    ASSUME NotesInv, PathsInv, ShieldAssumption, NEW p \in Parts, NEW r, NEW recs, Treads(p, r, recs)
    PROVE  /\ run'[p] = r /\ \A q \in Parts : q # p => run'[q] = run[q]
           /\ \A k : Landed(k)' <=> Landed(k)
           /\ \A k : IndexOf(k)' = IndexOf(k)
           /\ \A rec : Reconstructs(rec)' <=> Reconstructs(rec)
           /\ \A k, n : Placed(k, n)' <=> Placed(k, n)
           /\ p # "wallet" => DepositPath'
           /\ p # "earnings" => SpendPath'
           /\ p # "order" => ChangePath'
           /\ \A rec \in poolStore' : rec \in recs \/ RecordPath(rec)'
<1> USE DEF Treads
<1>1. run'[p] = r /\ \A q \in Parts : q # p => run'[q] = run[q]
  BY DEF Go, NotesInv, NotesShapes
<1>2. UNCHANGED <<pool, height>>
  BY DEF chain
<1>3. /\ \A k : Landed(k)' <=> Landed(k)
      /\ \A k : IndexOf(k)' = IndexOf(k)
  BY <1>2 DEF Landed, IndexOf
<1>4. \A rec : Reconstructs(rec)' <=> Reconstructs(rec)
  BY <1>2, <1>3 DEF Reconstructs
<1>5. \A k, n : Placed(k, n)' <=> Placed(k, n)
  BY <1>2, <1>3 DEF Placed
<1>6. ASSUME NEW q \in Parts PROVE run[q].fresh \notin overtaken' => run[q].fresh \notin overtaken
  BY DEF Unused
<1>7. p # "wallet" => DepositPath'
  BY <1>1, <1>2, <1>3, <1>5, <1>6 DEF PathsInv, DepositPath, Parts
<1>8. ASSUME p # "earnings" PROVE SpendPath'
  <2> PICK e : e = run["earnings"]
    OBVIOUS
  <2>1. e = run'["earnings"] /\ "earnings" \in Parts
    BY <1>1, <1>8 DEF Parts
  <2>2. e.pc = "adopt" => e.fresh \notin {run[p].fresh, Null}
    BY <1>8, <2>1 DEF NotesInv, NotesShapes, DrawnOnce, RunShape, Drawing, ShieldAssumption
  <2>3. e.pc = "adopt" => \A tx \in mempool' : tx.out = e.fresh => tx.kind = "spend"
    BY <2>2 DEF PathsInv, SpendPath
  <2>4. e.pc \in {"spend", "adopt"} /\ e.fresh \notin overtaken' =>
           Placed(e.fresh, e.index)' /\ e.left = LeftPath(e.index)
    BY <1>5, <1>6, <2>1 DEF PathsInv, SpendPath
  <2> QED
    BY <2>1, <2>3, <2>4 DEF SpendPath, Placed, Landed, IndexOf
<1>9. p # "order" => ChangePath'
  BY <1>1, <1>2, <1>3, <1>6 DEF PathsInv, ChangePath, Parts
<1>10. ASSUME NEW rec \in poolStore', rec \notin recs PROVE RecordPath(rec)'
  <2> PICK old \in poolStore : SameRecord(rec, old)
    BY <1>10
  <2> PICK n : n = rec.note
    OBVIOUS
  <2>1. /\ RecordPath(old) /\ n # Null /\ n = old.note
    BY DEF PathsInv, NotesInv, NotesShapes, RecShape, ShieldAssumption, SameRecord
  <2>2. ~Unused(n)
    BY <2>1 DEF Unused
  <2>3. n \notin overtaken' => n \notin overtaken
    BY <2>2
  <2>4. Landed(n)' /\ n \notin overtaken' => Reconstructs(rec)'
    BY <1>3, <1>4, <2>1, <2>3 DEF RecordPath, Reconstructs, SameRecord
  <2>5. ~Landed(n)' => \A q \in Parts : run[q].fresh # n /\ run'[q].fresh # n
    BY <1>1, <1>3, <2>1, <2>2 DEF RecordPath
  <2>6. ASSUME ~Landed(n)', n \notin overtaken', NEW tx \in mempool', tx.out = n
        PROVE  /\ tx.kind = "spend"
               /\ rec.index = Len(pool') /\ rec.left = LeftPath(rec.index)
               /\ rec.depositBlock \in 0..height'
    <3>1. tx \in mempool
      BY <2>1, <2>5, <2>6
    <3> QED
      BY <1>2, <1>3, <2>1, <2>3, <2>6, <3>1 DEF RecordPath, SameRecord
  <2> QED
    BY <2>4, <2>5, <2>6 DEF RecordPath
<1> QED
  BY <1>1, <1>3, <1>4, <1>5, <1>7, <1>8, <1>9, <1>10

\* The page, action by action.
LEMMA InsertNotePaths ==
    ASSUME NotesInv, PathsInv, ShieldAssumption, NEW v \in VaultSecrets, InsertNote(v) PROVE PathsInv'
<1> PICK r : r = [Idle EXCEPT !.pc = "insert", !.note = v]
  OBVIOUS
<1>1. r.pc = "insert" /\ r.fresh = Null /\ "earnings" \in Parts
  BY DEF Idle, Parts
<1>2. Treads("earnings", r, {})
  BY <1>1 DEF InsertNote, Treads, SameRecord
<1>3. SpendPath'
  BY <1>1, <1>2, PageFrame DEF SpendPath
<1> QED
  BY <1>1, <1>2, <1>3, PageFrame DEF PathsInv

LEMMA PostInsertPaths ==
    ASSUME NotesInv, PathsInv, ShieldAssumption, PostInsert PROVE PathsInv'
<1>1. Idle.pc = "idle" /\ Idle.fresh = Null /\ "earnings" \in Parts
  BY DEF Idle, Parts
<1>2. \A tx \in mempool' : tx \in mempool \/ tx.out = Null
  BY DEF PostInsert, Submit, Tx
<1>3. Treads("earnings", Idle, {})
  BY <1>1, <1>2 DEF PostInsert, Stop, Treads, SameRecord
<1>4. SpendPath'
  BY <1>1, <1>3, PageFrame DEF SpendPath
<1> QED
  BY <1>1, <1>3, <1>4, PageFrame DEF PathsInv

LEMMA SpendAllPaths ==
    ASSUME NotesInv, PathsInv, ShieldAssumption, SpendAll PROVE PathsInv'
<1> PICK r : r = [Idle EXCEPT !.pc = "prove", !.todo = vaultStore]
  OBVIOUS
<1>1. r.pc = "prove" /\ r.fresh = Null /\ "earnings" \in Parts
  BY DEF Idle, Parts
<1>2. Treads("earnings", r, {})
  BY <1>1 DEF SpendAll, Treads, SameRecord, stores
<1>3. SpendPath'
  BY <1>1, <1>2, PageFrame DEF SpendPath
<1> QED
  BY <1>1, <1>2, <1>3, PageFrame DEF PathsInv

LEMMA ProveSpendPaths ==
    ASSUME NotesInv, PathsInv, ShieldAssumption, NEW k \in PoolSecrets, ProveSpend(k) PROVE PathsInv'
<1>1. /\ "earnings" \in Parts /\ Idle.pc = "idle" /\ Idle.fresh = Null
      /\ run["earnings"] = [f \in RunFields |-> run["earnings"][f]]
      /\ UNCHANGED <<stores, mempool, chain>>
  BY DEF Parts, Idle, NotesInv, NotesShapes, RunShape, ProveSpend
<1>2. CASE Stop("earnings") /\ UNCHANGED overtaken
  <2>1. Treads("earnings", Idle, {})
    BY <1>1, <1>2 DEF Stop, Treads, SameRecord, stores
  <2>2. SpendPath'
    BY <1>1, <2>1, PageFrame DEF SpendPath
  <2> QED
    BY <1>1, <2>1, <2>2, PageFrame DEF PathsInv
<1>3. ASSUME Unused(k), overtaken' = overtaken \ {k}, NEW v,
             Go("earnings", [run["earnings"] EXCEPT !.pc = "spend", !.note = v, !.fresh = k,
                                   !.index = Len(pool),
                                   !.left = Snapshot(Len(pool), Len(pool))])
      PROVE  PathsInv'
  <2> PICK r : r = [run["earnings"] EXCEPT !.pc = "spend", !.note = v, !.fresh = k,
                                   !.index = Len(pool),
                                   !.left = Snapshot(Len(pool), Len(pool))]
    OBVIOUS
  <2>1. /\ r.pc = "spend" /\ r.fresh = k /\ r.index = Len(pool)
        /\ r.left = Snapshot(Len(pool), Len(pool))
    BY <1>1 DEF RunFields
  <2>2. Treads("earnings", r, {})
    BY <1>1, <1>3, <2>1 DEF Treads, SameRecord, stores
  <2>3. Len(pool) \in Nat
    BY DEF NotesInv, NotesShapes
  <2>4. r.left = LeftPath(r.index)
    BY <2>1, <2>3, SnapshotIs
  <2>5. ~Landed(k)' /\ pool' = pool /\ run'["earnings"] = r
    BY <1>1, <1>3, <2>2, PageFrame DEF Unused, chain
  <2>6. SpendPath'
    <3>1. Placed(r.fresh, r.index)'
      BY <2>1, <2>5 DEF Placed
    <3>2. run'["earnings"].pc # "adopt"
      BY <2>1, <2>5
    <3> QED
      BY <2>4, <2>5, <3>1, <3>2 DEF SpendPath, Placed, Landed, IndexOf
  <2> QED
    BY <1>1, <2>2, <2>6, PageFrame DEF PathsInv
<1> QED
  BY <1>2, <1>3 DEF ProveSpend, Draw

LEMMA PostSpendPaths ==
    ASSUME NotesInv, PathsInv, ShieldAssumption, PostSpend PROVE PathsInv'
<1> PICK s : s = run["earnings"]
  OBVIOUS
<1>1. /\ s.pc = "spend" /\ "earnings" \in Parts /\ s = [f \in RunFields |-> s[f]]
      /\ s.fresh \in PoolSecrets /\ s.fresh # Null /\ Untouched(s.fresh)
      /\ Idle.pc = "idle" /\ Idle.fresh = Null
      /\ UNCHANGED <<poolStore, chain, overtaken, closedTabs>>
  BY DEF PostSpend, Parts, NotesInv, NotesShapes, RunShape, Drawing, Unsent, ShieldAssumption, Idle
<1> PICK o \in Outcomes :
      /\ Submit(o, Tx("spend", s.note, s.fresh, 2))
      /\ IF o.reply = "hash" THEN Go("earnings", [s EXCEPT !.pc = "adopt"]) ELSE Stop("earnings")
  BY DEF PostSpend
<1>2. \A tx \in mempool' : tx \in mempool \/ (tx.out = s.fresh /\ tx.kind = "spend")
  BY DEF Submit, Tx
<1>3. CASE o.reply = "hash"
  <2> PICK r : r = [s EXCEPT !.pc = "adopt"]
    OBVIOUS
  <2>1. r.pc = "adopt" /\ r.fresh = s.fresh /\ r.index = s.index /\ r.left = s.left
    BY <1>1 DEF RunFields
  <2>2. Treads("earnings", r, {})
    BY <1>1, <1>2, <1>3, <2>1 DEF Treads, SameRecord
  <2>3. run'["earnings"] = r /\ pool' = pool /\ overtaken' = overtaken
    BY <1>1, <2>2, PageFrame DEF chain
  <2>4. s.fresh \notin overtaken => Placed(s.fresh, s.index) /\ s.left = LeftPath(s.index)
    BY <1>1 DEF PathsInv, SpendPath
  <2>5. \A tx \in mempool' : tx.out = s.fresh => tx.kind = "spend"
    BY <1>1, <1>2 DEF Untouched
  <2>6. SpendPath'
    BY <2>1, <2>3, <2>4, <2>5 DEF SpendPath, Placed, Landed, IndexOf
  <2> QED
    BY <1>1, <2>2, <2>6, PageFrame DEF PathsInv
<1>4. CASE o.reply # "hash"
  <2>1. Treads("earnings", Idle, {})
    BY <1>1, <1>2, <1>4 DEF Stop, Treads, SameRecord
  <2>2. SpendPath'
    BY <1>1, <2>1, PageFrame DEF SpendPath
  <2> QED
    BY <1>1, <2>1, <2>2, PageFrame DEF PathsInv
<1> QED
  BY <1>3, <1>4

\* The place of a leaf is the only one with its note.
LEMMA PlaceIs ==
    ASSUME NEW seq, \A i, j \in DOMAIN seq : seq[i].note = seq[j].note => i = j \/ seq[i].note = Null,
           NEW i \in DOMAIN seq, seq[i].note # Null
    PROVE  (CHOOSE j \in DOMAIN seq : seq[j].note = seq[i].note) = i
OBVIOUS

LEMMA SeqAt ==
    ASSUME NEW D, NEW seq \in Seq(D), NEW i \in DOMAIN seq
    PROVE  seq[i] \in D /\ i \in Nat /\ i > 0
OBVIOUS

LEMMA IndexIs ==
    ASSUME NotesInv, NEW k, k # Null, Landed(k)
    PROVE  /\ IndexOf(k) + 1 \in DOMAIN pool /\ pool[IndexOf(k) + 1].note = k
           /\ IndexOf(k) \in Nat /\ pool[IndexOf(k) + 1].block \in Nat
<1> PICK i \in DOMAIN pool : pool[i].note = k
  BY DEF Landed
<1>1. IndexOf(k) = i - 1
  BY PlaceIs DEF IndexOf, NotesInv, DrawnOnce
<1>2. i \in Nat /\ i > 0 /\ pool[i].block \in Nat
  <2> PICK D : D = [note : PoolSecrets \cup {Null}, block : Nat, value : Int]
    OBVIOUS
  <2>1. pool \in Seq(D)
    BY DEF NotesInv, NotesShapes
  <2>2. pool[i] \in D /\ i \in Nat /\ i > 0
    BY <2>1, SeqAt
  <2> QED
    BY <2>2
<1>3. IndexOf(k) + 1 = i
  BY <1>1, <1>2
<1> QED
  BY <1>1, <1>2, <1>3

LEMMA AdoptNotePaths ==
    ASSUME NotesInv, PathsInv, ShieldAssumption, AdoptNote PROVE PathsInv'
<1> PICK s : s = run["earnings"]
  OBVIOUS
<1>1. /\ s.pc = "adopt" /\ "earnings" \in Parts /\ s.fresh \in PoolSecrets /\ s.fresh # Null
      /\ UNCHANGED <<vaultStore, mempool, chain, closedTabs>> /\ height \in Nat
      /\ height' = height /\ pool' = pool
  BY DEF AdoptNote, Parts, NotesInv, NotesShapes, RunShape, Drawing, ShieldAssumption, chain
<1>2. ASSUME NEW block,
             poolStore' = poolStore \cup
               {[note |-> s.fresh, index |-> s.index, left |-> s.left,
                 depositBlock |-> block, value |-> 2, spent |-> FALSE]},
             Go("earnings", IF s.todo = {s.note} THEN Idle
                            ELSE [Idle EXCEPT !.pc = "prove", !.todo = s.todo \ {s.note}]),
             \/ Landed(s.fresh) /\ block = pool[IndexOf(s.fresh) + 1].block /\ UNCHANGED overtaken
             \/ /\ block = height
                /\ overtaken' = overtaken \cup (IF Landed(s.fresh) THEN {s.fresh} ELSE {})
      PROVE  PathsInv'
  <2> PICK rec : rec = [note |-> s.fresh, index |-> s.index, left |-> s.left,
                        depositBlock |-> block, value |-> 2, spent |-> FALSE]
    OBVIOUS
  <2> PICK r : r = IF s.todo = {s.note} THEN Idle
                   ELSE [Idle EXCEPT !.pc = "prove", !.todo = s.todo \ {s.note}]
    OBVIOUS
  <2>2. r.pc \in {"idle", "prove"} /\ r.fresh = Null /\ Go("earnings", r)
    BY <1>2 DEF Idle
  <2>3. Treads("earnings", r, {rec})
    BY <1>1, <1>2, <2>2 DEF Treads, SameRecord
  <2>4. /\ run'["earnings"] = r /\ \A q \in Parts : q # "earnings" => run'[q] = run[q]
        /\ \A k : Landed(k)' <=> Landed(k)
        /\ \A x : Reconstructs(x)' <=> Reconstructs(x)
    BY <1>1, <2>3, PageFrame
  <2>5. SpendPath'
    BY <2>2, <2>4 DEF SpendPath
  <2>6. s.fresh \notin overtaken => Placed(s.fresh, s.index) /\ s.left = LeftPath(s.index)
    BY <1>1 DEF PathsInv, SpendPath
  <2>7. rec.note = s.fresh /\ rec.index = s.index /\ rec.left = s.left /\ rec.depositBlock = block
    OBVIOUS
  <2>8. ASSUME Landed(s.fresh), s.fresh \notin overtaken' PROVE Reconstructs(rec)
    <3>1. block = pool[IndexOf(s.fresh) + 1].block /\ block \in Nat
      BY <1>1, <1>2, <2>8, IndexIs
    <3>2. /\ rec.depositBlock <= pool[IndexOf(rec.note) + 1].block
          /\ s.fresh \notin overtaken
      BY <1>2, <2>7, <2>8, <3>1
    <3>3. rec.index = IndexOf(rec.note) /\ rec.left = LeftPath(rec.index)
      BY <2>6, <2>7, <2>8, <3>2 DEF Placed
    <3> QED
      BY <2>7, <2>8, <3>2, <3>3 DEF Reconstructs
  <2>9. ASSUME ~Landed(s.fresh)
        PROVE  /\ \A q \in Parts : run'[q].fresh # s.fresh
               /\ s.fresh \notin overtaken' => \A tx \in mempool' : tx.out = s.fresh =>
                     /\ tx.kind = "spend"
                     /\ rec.index = Len(pool') /\ rec.left = LeftPath(rec.index)
                     /\ rec.depositBlock \in 0..height'
    <3>1. \A q \in Parts : run'[q].fresh # s.fresh
      BY <1>1, <2>2, <2>4 DEF NotesInv, DrawnOnce
    <3>2. \A tx \in mempool' : tx.out = s.fresh => tx.kind = "spend"
      BY <1>1 DEF PathsInv, SpendPath
    <3>3. s.fresh \notin overtaken' => rec.index = Len(pool') /\ rec.left = LeftPath(rec.index)
      BY <1>1, <1>2, <2>6, <2>7, <2>9 DEF Placed
    <3>4. rec.depositBlock \in 0..height'
      BY <1>1, <1>2, <2>7, <2>9
    <3> QED
      BY <3>1, <3>2, <3>3, <3>4
  <2>10. RecordPath(rec)'
    BY <2>4, <2>7, <2>8, <2>9 DEF RecordPath
  <2>11. \A x \in poolStore' : RecordPath(x)'
    <3>1. \A x \in poolStore' : x \in {rec} \/ RecordPath(x)'
      BY <1>1, <2>3, PageFrame
    <3>2. ASSUME NEW x \in poolStore' PROVE RecordPath(x)'
      <4>1. CASE x = rec
        BY <2>10, <4>1
      <4>2. CASE x # rec
        BY <3>1, <4>2
      <4> QED
        BY <4>1, <4>2
    <3> QED
      BY <3>2
  <2> QED
    BY <1>1, <2>3, <2>5, <2>11, PageFrame DEF PathsInv
<1>3. CASE Stop("earnings") /\ UNCHANGED <<poolStore, overtaken>>
  <2>1. Idle.pc = "idle" /\ Idle.fresh = Null
    BY DEF Idle
  <2>2. Treads("earnings", Idle, {})
    BY <1>1, <1>3, <2>1 DEF Stop, Treads, SameRecord
  <2>3. SpendPath'
    BY <1>1, <2>1, <2>2, PageFrame DEF SpendPath
  <2> QED
    BY <1>1, <2>2, <2>3, PageFrame DEF PathsInv
<1> QED
  BY <1>2, <1>3 DEF AdoptNote

LEMMA StartDepositPaths ==
    ASSUME NotesInv, PathsInv, ShieldAssumption, NEW k \in PoolSecrets, StartDeposit(k) PROVE PathsInv'
<1> PICK r : r = [Idle EXCEPT !.pc = "deposit", !.fresh = k, !.index = Len(pool)]
  OBVIOUS
<1>1. r.pc = "deposit" /\ r.fresh = k /\ r.index = Len(pool) /\ "wallet" \in Parts
  BY DEF Idle, Parts
<1>2. Treads("wallet", r, {})
  BY <1>1 DEF StartDeposit, Draw, Treads, SameRecord, stores
<1>3. run'["wallet"] = r /\ ~Landed(k)' /\ pool' = pool
  BY <1>1, <1>2, PageFrame DEF StartDeposit, Unused, chain
<1>4. DepositPath'
  BY <1>1, <1>3 DEF DepositPath, Placed, Landed
<1> QED
  BY <1>1, <1>2, <1>4, PageFrame DEF PathsInv

LEMMA SubmitDepositPaths ==
    ASSUME NotesInv, PathsInv, ShieldAssumption, SubmitDeposit PROVE PathsInv'
<1> PICK s : s = run["wallet"]
  OBVIOUS
<1>1. /\ s.pc = "deposit" /\ "wallet" \in Parts /\ s = [f \in RunFields |-> s[f]]
      /\ Idle.pc = "idle" /\ Idle.fresh = Null
      /\ UNCHANGED <<stores, chain, overtaken, closedTabs>>
  BY DEF SubmitDeposit, Parts, NotesInv, NotesShapes, RunShape, Idle
<1> PICK o \in Outcomes :
      /\ Submit(o, Tx("deposit", Null, s.fresh, 2))
      /\ IF o.reply = "hash" THEN Go("wallet", [s EXCEPT !.pc = "confirm"]) ELSE Stop("wallet")
  BY DEF SubmitDeposit
<1>2. \A tx \in mempool' : tx \in mempool \/ tx.out = s.fresh
  BY DEF Submit, Tx
<1>3. CASE o.reply = "hash"
  <2> PICK r : r = [s EXCEPT !.pc = "confirm"]
    OBVIOUS
  <2>1. r.pc = "confirm" /\ r.fresh = s.fresh /\ r.index = s.index
    BY <1>1 DEF RunFields
  <2>2. Treads("wallet", r, {})
    BY <1>1, <1>2, <1>3, <2>1 DEF Treads, SameRecord, stores
  <2>3. run'["wallet"] = r /\ pool' = pool /\ overtaken' = overtaken
    BY <1>1, <2>2, PageFrame DEF chain
  <2>4. s.fresh \notin overtaken =>
           Placed(s.fresh, s.index) /\ (Landed(s.fresh) => Len(pool) = s.index + 1)
    BY <1>1 DEF PathsInv, DepositPath
  <2>5. DepositPath'
    BY <2>1, <2>3, <2>4 DEF DepositPath, Placed, Landed, IndexOf
  <2> QED
    BY <1>1, <2>2, <2>5, PageFrame DEF PathsInv
<1>4. CASE o.reply # "hash"
  <2>1. Treads("wallet", Idle, {})
    BY <1>1, <1>2, <1>4 DEF Stop, Treads, SameRecord, stores
  <2>2. DepositPath'
    BY <1>1, <2>1, PageFrame DEF DepositPath
  <2> QED
    BY <1>1, <2>1, <2>2, PageFrame DEF PathsInv
<1> QED
  BY <1>3, <1>4

LEMMA ConfirmDepositPaths ==
    ASSUME NotesInv, PathsInv, ShieldAssumption, ConfirmDeposit PROVE PathsInv'
<1> PICK s : s = run["wallet"]
  OBVIOUS
<1>1. /\ s.pc = "confirm" /\ "wallet" \in Parts /\ s.fresh \in PoolSecrets /\ s.fresh # Null
      /\ Idle.pc = "idle" /\ Idle.fresh = Null /\ Go("wallet", Idle)
      /\ UNCHANGED <<vaultStore, mempool, chain, overtaken, closedTabs>>
  BY DEF ConfirmDeposit, Stop, Parts, NotesInv, NotesShapes, RunShape, Drawing,
         ShieldAssumption, Idle
<1> PICK rec : rec = [note |-> s.fresh, index |-> s.index, left |-> Snapshot(Len(pool), s.index),
                 depositBlock |-> pool[IndexOf(s.fresh) + 1].block - 1,
                 value |-> 2, spent |-> FALSE]
  OBVIOUS
<1>2. \/ poolStore' = poolStore \cup {rec} /\ Landed(s.fresh)
      \/ poolStore' = poolStore
  BY <1>1 DEF ConfirmDeposit
<1>3. Treads("wallet", Idle, {rec})
  BY <1>1, <1>2 DEF Treads, SameRecord
<1>4. /\ run'["wallet"] = Idle /\ \A k : Landed(k)' <=> Landed(k)
      /\ \A x : Reconstructs(x)' <=> Reconstructs(x)
  BY <1>1, <1>3, PageFrame
<1>5. DepositPath'
  BY <1>1, <1>4 DEF DepositPath
<1>6. rec \in poolStore' /\ rec \notin poolStore => Landed(s.fresh)
  BY <1>2
<1>7. ASSUME Landed(s.fresh), s.fresh \notin overtaken PROVE Reconstructs(rec)
  <2>1. /\ s.index = IndexOf(s.fresh) /\ Len(pool) = s.index + 1
        /\ s.index \in Nat /\ pool[IndexOf(s.fresh) + 1].block \in Nat
    BY <1>1, <1>7, IndexIs DEF PathsInv, DepositPath, Placed
  <2>2. Snapshot(Len(pool), s.index) = LeftPath(s.index)
    BY <2>1, SnapshotIs
  <2>3. /\ rec.note = s.fresh /\ rec.index = s.index /\ rec.left = LeftPath(s.index)
        /\ rec.depositBlock = pool[IndexOf(s.fresh) + 1].block - 1
    BY <2>2
  <2>4. rec.depositBlock <= pool[IndexOf(s.fresh) + 1].block
    BY <2>1, <2>3
  <2> QED
    BY <1>7, <2>1, <2>3, <2>4 DEF Reconstructs
<1>8. Landed(s.fresh) => RecordPath(rec)'
  BY <1>1, <1>4, <1>7 DEF RecordPath
<1>9. ASSUME NEW x \in poolStore' PROVE RecordPath(x)'
  <2>1. CASE x = rec /\ Landed(s.fresh)
    BY <1>8, <2>1
  <2>2. CASE x \in poolStore /\ poolStore' = poolStore
    <3>1. Treads("wallet", Idle, {})
      BY <1>1, <2>2 DEF Treads, SameRecord
    <3> QED
      BY <1>1, <3>1, PageFrame
  <2>3. CASE x # rec
    BY <1>1, <1>3, <2>3, PageFrame
  <2> QED
    BY <1>2, <2>1, <2>2, <2>3
<1> QED
  BY <1>1, <1>3, <1>5, <1>9, PageFrame DEF PathsInv

LEMMA FundBurnerPaths ==
    ASSUME NotesInv, PathsInv, ShieldAssumption, FundBurner PROVE PathsInv'
<1> PICK rec : Go("order", [Idle EXCEPT !.pc = "build", !.note = rec, !.attempt = 1])
  BY DEF FundBurner
<1> PICK r : r = [Idle EXCEPT !.pc = "build", !.note = rec, !.attempt = 1]
  OBVIOUS
<1>1. r.pc = "build" /\ r.fresh = Null /\ "order" \in Parts
  BY DEF Idle, Parts
<1>2. Treads("order", r, {})
  BY <1>1 DEF FundBurner, Treads, SameRecord, stores
<1>3. ChangePath'
  BY <1>1, <1>2, PageFrame DEF ChangePath
<1> QED
  BY <1>1, <1>2, <1>3, PageFrame DEF PathsInv

LEMMA BuildWithdrawalPaths ==
    ASSUME NotesInv, PathsInv, ShieldAssumption, NEW k \in PoolSecrets, BuildWithdrawal(k)
    PROVE  PathsInv'
<1> PICK s : s = run["order"]
  OBVIOUS
<1>1. /\ "order" \in Parts /\ s = [f \in RunFields |-> s[f]] /\ Idle.pc = "idle" /\ Idle.fresh = Null
      /\ UNCHANGED <<stores, mempool, chain, excused, closedTabs>>
  BY DEF BuildWithdrawal, Parts, NotesInv, NotesShapes, RunShape, Idle
<1>2. ASSUME NEW r, Go("order", r), r.pc \in {"idle", "withdraw"},
             \/ r.fresh = Null /\ UNCHANGED overtaken
             \/ Unused(k) /\ r.fresh = k /\ overtaken' = overtaken \ {k}
      PROVE  PathsInv'
  <2>1. Treads("order", r, {})
    BY <1>1, <1>2 DEF Treads, SameRecord, stores
  <2>2. ChangePath'
    BY <1>1, <1>2, <2>1, PageFrame DEF ChangePath
  <2> QED
    BY <1>1, <2>1, <2>2, PageFrame DEF PathsInv
<1>3. CASE Stop("order") /\ UNCHANGED overtaken
  BY <1>1, <1>2, <1>3 DEF Stop
<1>4. CASE /\ Unused(k) /\ Go("order", [s EXCEPT !.pc = "withdraw", !.fresh = k])
           /\ overtaken' = overtaken \ {k}
  <2> PICK r : r = [s EXCEPT !.pc = "withdraw", !.fresh = k]
    OBVIOUS
  <2>1. r.pc = "withdraw" /\ r.fresh = k
    BY <1>1 DEF RunFields
  <2> QED
    BY <1>2, <1>4, <2>1
<1> QED
  BY <1>3, <1>4 DEF BuildWithdrawal, Draw

LEMMA PostWithdrawPaths ==
    ASSUME NotesInv, PathsInv, ShieldAssumption, PostWithdraw PROVE PathsInv'
<1> PICK s : s = run["order"]
  OBVIOUS
<1>1. /\ s.pc = "withdraw" /\ "order" \in Parts /\ s = [f \in RunFields |-> s[f]]
      /\ ~Landed(s.fresh) /\ Idle.pc = "idle" /\ Idle.fresh = Null
      /\ UNCHANGED <<stores, chain, excused, overtaken, closedTabs>>
  BY DEF PostWithdraw, Parts, NotesInv, NotesShapes, RunShape, Unsent, Untouched, Idle
<1>2. \A tx \in mempool' : tx \in mempool \/ tx.out = s.fresh
  BY DEF PostWithdraw, Submit, Tx
<1>3. ASSUME NEW r, Go("order", r), r.fresh = Null \/ r.fresh = s.fresh,
             r.pc \in {"idle", "build"} \/ r.fresh = s.fresh
      PROVE  PathsInv'
  <2>1. Treads("order", r, {})
    BY <1>1, <1>2, <1>3 DEF Treads, SameRecord, stores
  <2>2. run'["order"] = r /\ ~Landed(s.fresh)'
    BY <1>1, <2>1, PageFrame
  <2>3. ChangePath'
    BY <1>1, <1>3, <2>2 DEF ChangePath, Landed
  <2> QED
    BY <1>1, <2>1, <2>3, PageFrame DEF PathsInv
<1>4. CASE Go("order", [s EXCEPT !.pc = "answer"])
  <2> PICK r : r = [s EXCEPT !.pc = "answer"]
    OBVIOUS
  <2>1. r.fresh = s.fresh
    BY <1>1 DEF RunFields
  <2> QED
    BY <1>3, <1>4, <2>1
<1>5. CASE Go("order", [s EXCEPT !.pc = "build", !.fresh = Null, !.attempt = Rebuilt(@)])
  <2> PICK r : r = [s EXCEPT !.pc = "build", !.fresh = Null, !.attempt = Rebuilt(@)]
    OBVIOUS
  <2>1. r.fresh = Null /\ r.pc = "build"
    BY <1>1 DEF RunFields
  <2> QED
    BY <1>3, <1>5, <2>1
<1>6. CASE Stop("order")
  BY <1>1, <1>3, <1>6 DEF Stop
<1> QED
  BY <1>4, <1>5, <1>6 DEF PostWithdraw

LEMMA HearHashPaths ==
    ASSUME NotesInv, PathsInv, ShieldAssumption, HearHash PROVE PathsInv'
<1> PICK s : s = run["order"]
  OBVIOUS
<1>1. /\ s.pc = "answer" /\ "order" \in Parts /\ s = [f \in RunFields |-> s[f]]
      /\ Idle.pc = "idle" /\ Idle.fresh = Null
      /\ UNCHANGED <<vaultStore, mempool, chain, overtaken, closedTabs>>
  BY DEF HearHash, Parts, NotesInv, NotesShapes, RunShape, Idle
<1> PICK r : r = IF s.note.value > 1 THEN [s EXCEPT !.pc = "change"] ELSE Idle
  OBVIOUS
<1>2. /\ Go("order", r)
      /\ \/ r.pc = "change" /\ r.fresh = s.fresh
         \/ r.pc = "idle" /\ r.fresh = Null
  BY <1>1 DEF HearHash, RunFields
<1>3. \A rec \in poolStore' : \E old \in poolStore : SameRecord(rec, old)
  <2>1. ASSUME NEW old \in poolStore PROVE SameRecord([old EXCEPT !.spent = TRUE], old)
    <3>1. old = [f \in RecFields |-> old[f]]
      BY DEF NotesInv, NotesShapes, RecShape
    <3> QED
      BY <3>1 DEF SameRecord, RecFields
  <2>2. \A old \in poolStore : SameRecord(old, old)
    BY DEF SameRecord
  <2>3. poolStore' = {IF rec.note = s.note.note THEN [rec EXCEPT !.spent = TRUE] ELSE rec :
                        rec \in poolStore}
    BY DEF HearHash, markSpent
  <2> QED
    BY <2>1, <2>2, <2>3
<1>4. Treads("order", r, {})
  BY <1>1, <1>2, <1>3 DEF Treads
<1>5. /\ run'["order"] = r /\ pool' = pool /\ overtaken' = overtaken /\ height' = height
      /\ \A k : Landed(k)' <=> Landed(k)
      /\ \A k : IndexOf(k)' = IndexOf(k)
  BY <1>1, <1>4, PageFrame DEF chain
<1>6. ChangePath'
  BY <1>1, <1>2, <1>5 DEF PathsInv, ChangePath
<1> QED
  BY <1>1, <1>4, <1>6, PageFrame DEF PathsInv

LEMMA HearNothingPaths ==
    ASSUME NotesInv, PathsInv, ShieldAssumption, HearNothing PROVE PathsInv'
<1>1. Idle.pc = "idle" /\ Idle.fresh = Null /\ "order" \in Parts
  BY DEF Idle, Parts
<1>2. Treads("order", Idle, {})
  BY <1>1 DEF HearNothing, Stop, Treads, SameRecord, stores
<1>3. ChangePath'
  BY <1>1, <1>2, PageFrame DEF ChangePath
<1> QED
  BY <1>1, <1>2, <1>3, PageFrame DEF PathsInv

LEMMA RecordChangePaths ==
    ASSUME NotesInv, PathsInv, ShieldAssumption, RecordChange PROVE PathsInv'
<1> PICK s : s = run["order"]
  OBVIOUS
<1>1. /\ s.pc = "change" /\ "order" \in Parts /\ s.fresh \in PoolSecrets /\ s.fresh # Null
      /\ Idle.pc = "idle" /\ Idle.fresh = Null /\ Go("order", Idle)
      /\ UNCHANGED <<vaultStore, mempool, chain, closedTabs>>
  BY DEF RecordChange, Stop, Parts, NotesInv, NotesShapes, RunShape, Drawing, ShieldAssumption,
         Idle
<1> PICK rec : rec = [note |-> s.fresh, index |-> ChangeIndex,
                 left |-> Snapshot(Len(pool), ChangeIndex), depositBlock |-> height,
                 value |-> s.note.value - 1, spent |-> FALSE]
  OBVIOUS
<1>2. \/ /\ poolStore' = poolStore \cup {rec}
         /\ overtaken' = overtaken \cup (IF Landed(s.fresh) THEN {} ELSE {s.fresh})
      \/ poolStore' = poolStore /\ overtaken' = overtaken
  BY <1>1 DEF RecordChange
<1>3. Treads("order", Idle, {rec})
  BY <1>1, <1>2 DEF Treads, SameRecord
<1>4. /\ run'["order"] = Idle /\ \A q \in Parts : q # "order" => run'[q] = run[q]
      /\ \A k : Landed(k)' <=> Landed(k)
      /\ \A x : Reconstructs(x)' <=> Reconstructs(x)
  BY <1>1, <1>3, PageFrame
<1>5. ChangePath'
  BY <1>1, <1>4 DEF ChangePath
<1>6. ASSUME Landed(s.fresh), s.fresh \notin overtaken PROVE Reconstructs(rec)
  <2> PICK n : n = IndexOf(s.fresh)
    OBVIOUS
  <2>1. /\ Len(pool) = n + 1 /\ pool[n + 1].block = height /\ n \in Nat /\ height \in Nat
    BY <1>1, <1>6, IndexIs DEF PathsInv, ChangePath, NotesInv, NotesShapes
  <2>2. ChangeIndex = n
    BY <2>1 DEF ChangeIndex
  <2>3. Snapshot(Len(pool), ChangeIndex) = LeftPath(n)
    BY <2>1, <2>2, SnapshotIs
  <2>4. /\ rec.note = s.fresh /\ rec.index = n /\ rec.left = LeftPath(n)
        /\ rec.depositBlock = height
    BY <2>2, <2>3
  <2>5. rec.depositBlock <= pool[n + 1].block
    BY <2>1, <2>4
  <2> QED
    BY <1>6, <2>4, <2>5 DEF Reconstructs
<1>7. \A q \in Parts : run'[q].fresh # s.fresh
  BY <1>1, <1>4 DEF NotesInv, DrawnOnce
<1>8. CASE /\ poolStore' = poolStore \cup {rec}
           /\ overtaken' = overtaken \cup (IF Landed(s.fresh) THEN {} ELSE {s.fresh})
  <2>1. rec.note = s.fresh /\ overtaken \subseteq overtaken'
    BY <1>8
  <2>2. ~Landed(s.fresh) => s.fresh \in overtaken'
    BY <1>8
  <2>3. RecordPath(rec)'
    BY <1>1, <1>4, <1>6, <1>7, <2>1, <2>2 DEF RecordPath
  <2>4. \A x \in poolStore' : x \in {rec} \/ RecordPath(x)'
    BY <1>1, <1>3, PageFrame
  <2>5. \A x \in poolStore' : RecordPath(x)'
    BY <2>3, <2>4
  <2> QED
    BY <1>1, <1>3, <1>5, <2>5, PageFrame DEF PathsInv
<1>9. CASE poolStore' = poolStore /\ overtaken' = overtaken
  <2>1. Treads("order", Idle, {})
    BY <1>1, <1>9 DEF Treads, SameRecord
  <2> QED
    BY <1>1, <1>5, <2>1, PageFrame DEF PathsInv
<1> QED
  BY <1>2, <1>8, <1>9

\* A block with a leaf: who drew its secret has it where it is placed, and whoever
\* else was reading is overtaken.
LEMMA LeafPaths ==
    ASSUME NotesInv, NotesInv', PathsInv, ShieldAssumption, NEW gone, NEW leaf, Lands(gone, leaf),
           \A tx \in gone \cap mempool : tx.out = leaf.note,
           leaf.block = height', height' = height + 1,
           overtaken' = overtaken \cup (Watching \ {leaf.note}) \cup LandedChange
    PROVE  PathsInv'
<1>1. /\ pool' = Append(pool, leaf) /\ mempool' = mempool \ gone
      /\ run' = run /\ poolStore' = poolStore
      /\ leaf.note # Null => \E tx \in gone \cap mempool : tx.out = leaf.note
  BY DEF Lands, stores
<1>2. /\ Len(pool) \in Nat /\ DOMAIN pool = 1..Len(pool)
      /\ Len(pool') = Len(pool) + 1 /\ DOMAIN pool' = 1..(Len(pool) + 1)
      /\ pool'[Len(pool) + 1] = leaf
      /\ \A i \in DOMAIN pool : i \in DOMAIN pool' /\ pool'[i] = pool[i]
      /\ \A k : Landed(k)' <=> Landed(k) \/ k = leaf.note
  BY <1>1, PoolGrows DEF NotesInv
<1>3. \A i, j \in DOMAIN pool' : pool'[i].note = pool'[j].note => i = j \/ pool'[i].note = Null
  BY DEF NotesInv, DrawnOnce
<1>4. ASSUME NEW k, k # Null, Landed(k)
      PROVE  IndexOf(k)' = IndexOf(k) /\ pool'[IndexOf(k) + 1] = pool[IndexOf(k) + 1]
  <2> PICK i : i = IndexOf(k) + 1
    OBVIOUS
  <2>1. i \in DOMAIN pool /\ pool[i].note = k /\ i - 1 = IndexOf(k)
    BY <1>4, IndexIs
  <2>2. i \in DOMAIN pool' /\ pool'[i] = pool[i]
    BY <1>2, <2>1
  <2>3. (CHOOSE j \in DOMAIN pool' : pool'[j].note = pool'[i].note) = i
    BY <1>3, <1>4, <2>1, <2>2, PlaceIs
  <2> QED
    BY <2>1, <2>2, <2>3 DEF IndexOf
<1>5. leaf.note # Null => /\ IndexOf(leaf.note)' = Len(pool) /\ ~Landed(leaf.note)
  <2> SUFFICES ASSUME leaf.note # Null
               PROVE  IndexOf(leaf.note)' = Len(pool) /\ ~Landed(leaf.note)
    OBVIOUS
  <2> PICK i : i = Len(pool) + 1
    OBVIOUS
  <2>1. i \in DOMAIN pool' /\ pool'[i] = leaf /\ i - 1 = Len(pool)
    BY <1>2
  <2>2. (CHOOSE j \in DOMAIN pool' : pool'[j].note = pool'[i].note) = i
    BY <1>3, <2>1, PlaceIs
  <2>3. ~Landed(leaf.note)
    BY <1>1 DEF NotesInv, DrawnOnce
  <2> QED
    BY <2>1, <2>2, <2>3 DEF IndexOf
<1>6. \A p \in Parts : RunShape(p)
  BY DEF NotesInv, NotesShapes
<1>7. DepositPath'
  <2> PICK r : r = run["wallet"]
    OBVIOUS
  <2>1. r = run'["wallet"] /\ "wallet" \in Parts
    BY <1>1 DEF Parts
  <2> SUFFICES ASSUME r.pc \in {"deposit", "confirm"}, r.fresh \notin overtaken'
               PROVE  Placed(r.fresh, r.index)' /\ (Landed(r.fresh)' => Len(pool') = r.index + 1)
    BY <2>1 DEF DepositPath, Placed, Landed, IndexOf
  <2>2. r.fresh \in Watching /\ r.fresh # Null
    BY <1>6, <2>1 DEF Watching, RunShape, Drawing, ShieldAssumption
  <2>3. r.fresh = leaf.note
    BY <2>2
  <2>4. r.index = Len(pool)
    BY <1>5, <2>2, <2>3 DEF PathsInv, DepositPath, Placed
  <2> QED
    BY <1>2, <1>5, <2>2, <2>3, <2>4 DEF Placed
<1>8. SpendPath'
  <2> PICK r : r = run["earnings"]
    OBVIOUS
  <2>1. r = run'["earnings"] /\ "earnings" \in Parts
    BY <1>1 DEF Parts
  <2>2. r.pc = "adopt" => \A tx \in mempool' : tx.out = r.fresh => tx.kind = "spend"
    BY <1>1 DEF PathsInv, SpendPath
  <2>3. ASSUME r.pc \in {"spend", "adopt"}, r.fresh \notin overtaken'
        PROVE  Placed(r.fresh, r.index)' /\ r.left = LeftPath(r.index)
    <3>0. r.fresh # Null
      BY <1>6, <2>1, <2>3 DEF RunShape, Drawing, ShieldAssumption
    <3>1. ~Landed(r.fresh) => r.fresh \in Watching
      BY <2>1, <2>3 DEF Watching
    <3>2. Placed(r.fresh, r.index) /\ r.left = LeftPath(r.index)
      BY <2>3 DEF PathsInv, SpendPath
    <3>3. CASE Landed(r.fresh)
      BY <1>2, <1>4, <3>0, <3>2, <3>3 DEF Placed
    <3>4. CASE ~Landed(r.fresh)
      <4>1. r.fresh = leaf.note
        BY <2>3, <3>1, <3>4
      <4> QED
        BY <1>2, <1>5, <3>0, <3>2, <3>4, <4>1 DEF Placed
    <3> QED
      BY <3>3, <3>4
  <2> QED
    BY <2>1, <2>2, <2>3 DEF SpendPath, Placed, Landed, IndexOf
<1>9. ChangePath'
  <2> PICK r : r = run["order"]
    OBVIOUS
  <2>1. r = run'["order"] /\ "order" \in Parts
    BY <1>1 DEF Parts
  <2> SUFFICES ASSUME r.pc \in {"answer", "change"}, r.fresh \notin overtaken', Landed(r.fresh)'
               PROVE  Len(pool') = IndexOf(r.fresh)' + 1 /\ pool'[Len(pool')].block = height'
    BY <2>1 DEF ChangePath, Landed, IndexOf
  <2>2. Landed(r.fresh) => r.fresh \in LandedChange
    BY <2>1 DEF LandedChange
  <2>3. ~Landed(r.fresh)
    BY <2>2
  <2>4. r.fresh = leaf.note
    BY <1>2, <2>3
  <2>5. RunShape("order") /\ run["order"] = r
    BY <1>6, <2>1
  <2>6. r.fresh # Null
    BY <2>5 DEF RunShape, Drawing, ShieldAssumption
  <2> QED
    BY <1>2, <1>5, <2>4, <2>6
<1>10. ASSUME NEW rec \in poolStore' PROVE RecordPath(rec)'
  <2> PICK n : n = rec.note
    OBVIOUS
  <2>1. n # Null /\ RecordPath(rec) /\ height \in Nat
    BY <1>1 DEF PathsInv, NotesInv, NotesShapes, RecShape, ShieldAssumption
  <2>2. CASE Landed(n)
    <3>1. Landed(n)'
      BY <1>2, <2>2
    <3>2. ASSUME n \notin overtaken' PROVE Reconstructs(rec)'
      <4>1. Reconstructs(rec)
        BY <2>1, <2>2, <3>2 DEF RecordPath
      <4>2. IndexOf(n)' = IndexOf(n) /\ pool'[IndexOf(n) + 1] = pool[IndexOf(n) + 1]
        BY <1>4, <2>1, <2>2
      <4> QED
        BY <3>1, <4>1, <4>2 DEF Reconstructs
    <3> QED
      BY <3>1, <3>2 DEF RecordPath
  <2>3. CASE ~Landed(n) /\ n = leaf.note
    <3>1. PICK tx \in gone \cap mempool : tx.out = n
      BY <1>1, <2>1, <2>3
    <3>2. Landed(n)' /\ IndexOf(n)' = Len(pool) /\ pool'[Len(pool) + 1].block = height + 1
      BY <1>2, <1>5, <2>1, <2>3
    <3>3. ASSUME n \notin overtaken' PROVE Reconstructs(rec)'
      <4>1. /\ rec.index = Len(pool) /\ rec.left = LeftPath(rec.index)
            /\ rec.depositBlock \in 0..height
        BY <2>1, <2>3, <3>1, <3>3 DEF RecordPath
      <4>2. rec.depositBlock <= height + 1
        BY <2>1, <4>1
      <4> QED
        BY <2>1, <3>2, <4>1, <4>2 DEF Reconstructs
    <3> QED
      BY <3>2, <3>3 DEF RecordPath
  <2>4. CASE ~Landed(n) /\ n # leaf.note
    <3>1. ~Landed(n)'
      BY <1>2, <2>4
    <3>2. \A p \in Parts : run'[p].fresh # n
      BY <1>1, <2>1, <2>4 DEF RecordPath
    <3>3. ASSUME NEW tx \in mempool', tx.out = n PROVE n \in overtaken'
      <4>1. n \in overtaken \/ (tx \in mempool /\ tx.kind = "spend")
        BY <1>1, <2>1, <2>4, <3>3 DEF RecordPath
      <4>2. n \in overtaken \/ n \in Watching
        BY <3>3, <4>1 DEF Watching
      <4> QED
        BY <2>4, <4>2
    <3> QED
      BY <3>1, <3>2, <3>3 DEF RecordPath
  <2> QED
    BY <2>2, <2>3, <2>4
<1> QED
  BY <1>7, <1>8, <1>9, <1>10 DEF PathsInv

\* A block without a leaf, or a transaction that leaves.
Ticks ==
    /\ UNCHANGED <<stores, run, pool>> /\ mempool' \subseteq mempool
    /\ overtaken \subseteq overtaken'
    /\ \/ height' = height
       \/ height' = height + 1 /\ LandedChange \subseteq overtaken'

LEMMA TickPaths ==
    ASSUME NotesInv, PathsInv, ShieldAssumption, Ticks PROVE PathsInv'
<1> USE DEF Ticks
<1>1. /\ \A k : Landed(k)' <=> Landed(k)
      /\ \A k : IndexOf(k)' = IndexOf(k)
      /\ run' = run /\ poolStore' = poolStore /\ pool' = pool
  BY DEF Landed, IndexOf, stores
<1>2. \A rec : Reconstructs(rec)' <=> Reconstructs(rec)
  BY <1>1 DEF Reconstructs
<1>3. \A k, n : Placed(k, n)' <=> Placed(k, n)
  BY <1>1 DEF Placed
<1>4. DepositPath' /\ SpendPath'
  BY <1>1, <1>3 DEF PathsInv, DepositPath, SpendPath
<1>5. ChangePath'
  <2> PICK r : r = run["order"]
    OBVIOUS
  <2>1. r = run'["order"] /\ "order" \in Parts
    BY <1>1 DEF Parts
  <2>2. r.pc \in {"answer", "change"} /\ Landed(r.fresh) => r.fresh \in LandedChange
    BY <2>1 DEF LandedChange
  <2>3. ASSUME r.pc \in {"answer", "change"}, r.fresh \notin overtaken', Landed(r.fresh)
        PROVE  Len(pool) = IndexOf(r.fresh) + 1 /\ pool[Len(pool)].block = height'
    <3>1. height' = height /\ r.fresh \notin overtaken
      BY <2>2, <2>3
    <3> QED
      BY <2>3, <3>1 DEF PathsInv, ChangePath
  <2> QED
    BY <1>1, <2>1, <2>3 DEF ChangePath
<1>6. ASSUME NEW rec \in poolStore' PROVE RecordPath(rec)'
  <2>1. RecordPath(rec) /\ 0..height \subseteq 0..height'
    BY <1>1 DEF PathsInv, NotesInv, NotesShapes
  <2> QED
    BY <1>1, <1>2, <2>1 DEF RecordPath
<1> QED
  BY <1>4, <1>5, <1>6 DEF PathsInv

\* The chain and the tab, action by action.
LEMMA MinePaths ==
    ASSUME NotesInv, NotesInv', PathsInv, ShieldAssumption, NEW tx \in mempool, Mine(tx)
    PROVE  PathsInv'
<1>1. /\ Succeeds(tx) /\ mempool' = mempool \ {tx} /\ height' = height + 1 /\ height' \in Nat
      /\ UNCHANGED <<stores, run, excused, closedTabs>> /\ TxShape(tx) /\ height + 1 \in Nat
  BY DEF Mine, NextBlock, NotesInv, NotesShapes
<1>2. ASSUME tx.kind # "insert", Append1(tx.out, tx.value), vaultLeaves' = vaultLeaves,
             poolSpent \subseteq poolSpent'
      PROVE  PathsInv'
  <2> PICK leaf : leaf = [note |-> tx.out, block |-> height + 1, value |-> tx.value]
    OBVIOUS
  <2>1. /\ leaf \in [note : PoolSecrets \cup {Null}, block : Nat, value : Int]
        /\ leaf.note = tx.out /\ leaf.value = tx.value /\ leaf.note # Null
        /\ leaf.block = height'
    BY <1>1, <1>2 DEF TxShape, ShieldAssumption
  <2>2. Lands({tx}, leaf)
    BY <1>1, <1>2, <2>1 DEF Lands, Append1
  <2>3. overtaken' = overtaken \cup (Watching \ {leaf.note}) \cup LandedChange
    BY <1>2, <2>1 DEF Append1
  <2>4. \A t \in {tx} \cap mempool : t.out = leaf.note
    BY <2>1
  <2> QED
    BY <1>1, <2>1, <2>2, <2>3, <2>4, LeafPaths
<1>3. CASE /\ tx.kind = "insert" /\ UNCHANGED pool
           /\ overtaken' = overtaken \cup LandedChange
  <2>1. Ticks
    BY <1>1, <1>3 DEF Ticks
  <2> QED
    BY <2>1, TickPaths
<1> QED
  BY <1>1, <1>2, <1>3 DEF Succeeds

LEMMA FailPaths ==
    ASSUME NotesInv, PathsInv, ShieldAssumption, NEW tx \in mempool, Fail(tx) PROVE PathsInv'
<1>1. Ticks
  BY DEF Fail, Ticks, chain
<1> QED
  BY <1>1, TickPaths

LEMMA ForeignLeafPaths ==
    ASSUME NotesInv, NotesInv', PathsInv, ShieldAssumption, ForeignLeaf PROVE PathsInv'
<1> PICK leaf : leaf = [note |-> Null, block |-> height + 1, value |-> 0]
  OBVIOUS
<1>1. /\ leaf \in [note : PoolSecrets \cup {Null}, block : Nat, value : Int]
      /\ leaf.note = Null /\ leaf.value = 0 /\ height' \in Nat /\ height' = height + 1
      /\ leaf.block = height'
  BY DEF NotesInv, NotesShapes, ForeignLeaf, NextBlock
<1>2. Lands({}, leaf)
  BY <1>1 DEF Lands, ForeignLeaf, Append1
<1>3. overtaken' = overtaken \cup (Watching \ {leaf.note}) \cup LandedChange
  BY <1>1 DEF ForeignLeaf, Append1
<1> QED
  BY <1>1, <1>2, <1>3, LeafPaths

LEMMA EmptyBlockPaths ==
    ASSUME NotesInv, PathsInv, ShieldAssumption, EmptyBlock PROVE PathsInv'
<1>1. Ticks
  BY DEF EmptyBlock, NextBlock, Ticks
<1> QED
  BY <1>1, TickPaths

LEMMA CloseTabPaths ==
    ASSUME NotesInv, PathsInv, ShieldAssumption, CloseTab PROVE PathsInv'
<1>1. /\ run' = [p \in Parts |-> Idle] /\ UNCHANGED <<stores, mempool, chain, overtaken>>
  BY DEF CloseTab
<1>2. \A p \in Parts : run'[p].pc = "idle" /\ run'[p].fresh = Null
  BY <1>1 DEF Idle
<1>3. /\ \A k : Landed(k)' <=> Landed(k)
      /\ \A rec : Reconstructs(rec)' <=> Reconstructs(rec)
      /\ pool' = pool /\ height' = height /\ poolStore' = poolStore /\ mempool' = mempool
  BY <1>1 DEF Landed, Reconstructs, IndexOf, chain, stores
<1>4. DepositPath' /\ SpendPath' /\ ChangePath'
  BY <1>2 DEF DepositPath, SpendPath, ChangePath, Parts
<1>5. ASSUME NEW rec \in poolStore' PROVE RecordPath(rec)'
  <2>1. RecordPath(rec) /\ rec.note # Null
    BY <1>3 DEF PathsInv, NotesInv, NotesShapes, RecShape, ShieldAssumption
  <2> QED
    BY <1>1, <1>2, <1>3, <2>1 DEF RecordPath
<1> QED
  BY <1>4, <1>5 DEF PathsInv

LEMMA PathsStutter ==
    ASSUME NotesInv, PathsInv, ShieldAssumption, UNCHANGED shieldVars PROVE PathsInv'
<1>1. Ticks
  BY DEF Ticks, shieldVars, chain
<1> QED
  BY <1>1, TickPaths

LEMMA PathsStep ==
    ASSUME NotesInv, NotesInv', PathsInv, ShieldAssumption, [ShieldNext]_shieldVars PROVE PathsInv'
<1>1. CASE Steps
  BY <1>1, InsertNotePaths, SpendAllPaths, StartDepositPaths, FundBurnerPaths DEF Steps
<1>2. CASE Continues
  BY <1>2, PostInsertPaths, PostSpendPaths, AdoptNotePaths, ProveSpendPaths, SubmitDepositPaths,
     ConfirmDepositPaths, BuildWithdrawalPaths, PostWithdrawPaths, HearHashPaths,
     HearNothingPaths, RecordChangePaths DEF Continues
<1>3. CASE World
  BY <1>3, MinePaths, FailPaths, ForeignLeafPaths, EmptyBlockPaths, CloseTabPaths
     DEF World, Revert, Drop
<1> QED
  BY <1>1, <1>2, <1>3, PathsStutter DEF ShieldNext

\* For any depth of the tree and whatever comes in between, a record of a note
\* can be proved against the pool unless the chain moved while the note was read
\* (depositAndSnapshot, batchNotePaths, recordChangeNote).
THEOREM PathsAreRight == ASSUME ShieldAssumption PROVE ShieldSpec => []PathsRight
<1>1. ShieldInit => NotesInv /\ PathsInv
  BY NotesInit, PathsInit
<1>2. NotesInv /\ PathsInv /\ [ShieldNext]_shieldVars => NotesInv' /\ PathsInv'
  BY NotesStep, PathsStep
<1>3. PathsInv => PathsRight
  BY DEF PathsInv, RecordPath, PathsRight
<1> QED
  BY <1>1, <1>2, <1>3, PTL DEF ShieldSpec
=============================================================================
