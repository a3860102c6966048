------------------------- MODULE FareUpgradesProofs -------------------------
(***************************************************************************)
(* That a ruling closes the order its dispute was opened for, through any  *)
(* sequence of re-pointings, and that the migration scripts leave every    *)
(* order its exit, with any number of orders in either book.               *)
(***************************************************************************)
EXTENDS FareUpgrades, TLAPS

Statuses == {"Open", "Assigned", "PickedUp", "Delivered", "Cancelled", "Disputed", "Resolved"}

Dispute == [order : Nat, book : Versions, status : {"Open", "Resolved"}]

UpgradeTypes ==
    /\ page \in Versions /\ current \in Versions
    /\ orders \in [Versions -> Seq(Statuses)]
    /\ disputes \in Seq(Dispute)

\* disputeOfOrder is keyed by the number alone: no number is disputed twice.
OneDisputeEach ==
    \A i, j \in DOMAIN disputes : disputes[i].order = disputes[j].order => i = j

\* A disputed order has an open dispute that was opened for it.
OpenFor(b, o) ==
    \E i \in DOMAIN disputes : disputes[i] = [order |-> o, book |-> b, status |-> "Open"]

DisputedHaveDisputes ==
    \A b \in Versions : \A o \in DOMAIN orders[b] : orders[b][o] = "Disputed" => OpenFor(b, o)

UInv == UpgradeTypes /\ OneDisputeEach /\ DisputedHaveDisputes

RulingStep == \A b \in Versions : \A o \in DOMAIN orders[b] : RulingMatches(b, o)

-----------------------------------------------------------------------------
(* What a write to one order does. *)

LEMMA Written ==
    ASSUME UpgradeTypes, NEW b \in Versions, NEW o, StatusOf(b, o) # "None",
           NEW s \in Statuses, SetStatus(b, o, s)
    PROVE  /\ orders' \in [Versions -> Seq(Statuses)]
           /\ o \in DOMAIN orders[b] /\ orders'[b][o] = s
           /\ \A c \in Versions : DOMAIN orders'[c] = DOMAIN orders[c]
           /\ \A c \in Versions : \A p \in DOMAIN orders[c] :
                 <<c, p>> # <<b, o>> => orders'[c][p] = orders[c][p]
<1>1. o \in DOMAIN orders[b] /\ orders[b] \in Seq(Statuses)
  BY DEF StatusOf, UpgradeTypes
<1>2. orders' = [orders EXCEPT ![b] = [orders[b] EXCEPT ![o] = s]]
  BY DEF SetStatus
<1>3. [orders[b] EXCEPT ![o] = s] \in Seq(Statuses)
  BY <1>1
<1>4. orders'[b] = [orders[b] EXCEPT ![o] = s]
      /\ \A c \in Versions : c # b => orders'[c] = orders[c]
  BY <1>2 DEF UpgradeTypes
<1> QED
  BY <1>1, <1>2, <1>3, <1>4 DEF UpgradeTypes

\* A step that disputes nothing and closes no dispute.
LEMMA WrittenOutside ==
    ASSUME UInv, NEW b \in Versions, NEW o, StatusOf(b, o) \notin {"None", "Disputed"},
           NEW s \in Statuses \ {"Disputed"}, SetStatus(b, o, s), chainSame, UNCHANGED disputes
    PROVE  UInv' /\ RulingStep
<1>1. /\ orders' \in [Versions -> Seq(Statuses)]
      /\ o \in DOMAIN orders[b] /\ orders'[b][o] = s
      /\ \A c \in Versions : DOMAIN orders'[c] = DOMAIN orders[c]
      /\ \A c \in Versions : \A p \in DOMAIN orders[c] :
            <<c, p>> # <<b, o>> => orders'[c][p] = orders[c][p]
  BY Written DEF UInv
<1>2. orders[b][o] # "Disputed"
  BY DEF StatusOf
<1>3. UpgradeTypes'
  BY <1>1 DEF UInv, UpgradeTypes, chainSame
<1>4. OneDisputeEach'
  BY DEF UInv, OneDisputeEach
<1>5. DisputedHaveDisputes'
  BY <1>1 DEF UInv, DisputedHaveDisputes, OpenFor
<1>6. RulingStep
  BY <1>1, <1>2 DEF RulingStep, RulingMatches
<1> QED
  BY <1>3, <1>4, <1>5, <1>6 DEF UInv

-----------------------------------------------------------------------------
(* The two steps of the disputes contract. *)

LEMMA OpenDisputeKeeps ==
    ASSUME UInv, NEW b \in Versions, NEW o \in Numbers, OpenDispute(b, o)
    PROVE  UInv' /\ RulingStep
<1> DEFINE new == [order |-> o, book |-> b, status |-> "Open"]
<1>1. /\ orders' \in [Versions -> Seq(Statuses)]
      /\ o \in DOMAIN orders[b] /\ orders'[b][o] = "Disputed"
      /\ \A c \in Versions : DOMAIN orders'[c] = DOMAIN orders[c]
      /\ \A c \in Versions : \A p \in DOMAIN orders[c] :
            <<c, p>> # <<b, o>> => orders'[c][p] = orders[c][p]
  <2>1. "Disputed" \in Statuses /\ SetStatus(b, o, "Disputed") /\ StatusOf(b, o) # "None"
    BY DEF Statuses, OpenDispute
  <2> QED
    BY <2>1, Written DEF UInv
<1>2. new \in Dispute
  BY DEF Numbers, Dispute
<1>3. disputes \in Seq(Dispute) /\ disputes' = Append(disputes, new)
  BY DEF UInv, UpgradeTypes, OpenDispute
<1>4. /\ disputes' \in Seq(Dispute)
      /\ DOMAIN disputes' = DOMAIN disputes \cup {Len(disputes) + 1}
      /\ disputes'[Len(disputes) + 1] = new
      /\ \A i \in DOMAIN disputes : disputes'[i] = disputes[i] /\ i # Len(disputes) + 1
  BY <1>2, <1>3
<1>5. \A i \in DOMAIN disputes : disputes[i].order # o
  BY DEF OpenDispute, AlreadyDisputed
<1>6. UpgradeTypes'
  BY <1>1, <1>4 DEF UInv, UpgradeTypes, OpenDispute, chainSame
<1>7. OneDisputeEach'
  BY <1>4, <1>5 DEF UInv, OneDisputeEach
<1>8. DisputedHaveDisputes'
  <2> SUFFICES ASSUME NEW c \in Versions, NEW p \in DOMAIN orders[c],
                      orders'[c][p] = "Disputed"
               PROVE  \E i \in DOMAIN disputes' :
                         disputes'[i] = [order |-> p, book |-> c, status |-> "Open"]
    BY <1>1 DEF DisputedHaveDisputes, OpenFor
  <2>1. CASE <<c, p>> = <<b, o>>
    BY <2>1, <1>4
  <2>2. CASE <<c, p>> # <<b, o>>
    <3>1. OpenFor(c, p)
      BY <2>2, <1>1 DEF UInv, DisputedHaveDisputes
    <3> QED
      BY <3>1, <1>4 DEF OpenFor
  <2> QED
    BY <2>1, <2>2
<1>9. RulingStep
  BY <1>1 DEF RulingStep, RulingMatches
<1> QED
  BY <1>6, <1>7, <1>8, <1>9 DEF UInv

\* The dispute ruled on names the number; the order it closes is disputed, so
\* a dispute for it is open, and there is one per number: it is this one.
LEMMA ResolveKeeps ==
    ASSUME UInv, NEW i \in DOMAIN disputes, Resolve(i)
    PROVE  UInv' /\ RulingStep
<1> DEFINE b == disputing.orders
           o == disputes[i].order
<1>1. /\ StatusOf(b, o) = "Disputed" /\ SetStatus(b, o, "Resolved") /\ chainSame
      /\ disputes' = [disputes EXCEPT ![i].status = "Resolved"]
  BY DEF Resolve
<1>2. b \in Versions /\ o \in DOMAIN orders[b] /\ orders[b][o] = "Disputed"
  BY <1>1 DEF StatusOf
<1> HIDE DEF b, o
<1>3. /\ orders' \in [Versions -> Seq(Statuses)]
      /\ orders'[b][o] = "Resolved"
      /\ \A c \in Versions : DOMAIN orders'[c] = DOMAIN orders[c]
      /\ \A c \in Versions : \A p \in DOMAIN orders[c] :
            <<c, p>> # <<b, o>> => orders'[c][p] = orders[c][p]
  <2>1. "Resolved" \in Statuses
    BY DEF Statuses
  <2> QED
    BY <1>1, <1>2, <2>1, Written DEF UInv
<1>4. PICK j \in DOMAIN disputes : disputes[j] = [order |-> o, book |-> b, status |-> "Open"]
  BY <1>2 DEF UInv, DisputedHaveDisputes, OpenFor
<1>5. j = i
  BY <1>4 DEF UInv, OneDisputeEach, o
<1>6. disputes \in Seq(Dispute) /\ disputes[i] = [order |-> o, book |-> b, status |-> "Open"]
  BY <1>4, <1>5 DEF UInv, UpgradeTypes
<1>7. disputes' = [disputes EXCEPT ![i] = [order |-> o, book |-> b, status |-> "Resolved"]]
  <2>1. [disputes[i] EXCEPT !.status = "Resolved"]
           = [order |-> o, book |-> b, status |-> "Resolved"]
    BY <1>6
  <2>2. disputes' = [disputes EXCEPT ![i] = [disputes[i] EXCEPT !.status = "Resolved"]]
    BY <1>1
  <2> QED
    BY <2>1, <2>2
<1>8. [order |-> o, book |-> b, status |-> "Resolved"] \in Dispute
  <2>1. disputes[i] \in Dispute
    BY <1>6
  <2> QED
    BY <2>1, <1>6 DEF Dispute
<1>9. /\ disputes' \in Seq(Dispute) /\ DOMAIN disputes' = DOMAIN disputes
      /\ disputes'[i] = [order |-> o, book |-> b, status |-> "Resolved"]
      /\ \A k \in DOMAIN disputes : k # i => disputes'[k] = disputes[k]
  BY <1>6, <1>7, <1>8
<1>10. UpgradeTypes'
  BY <1>1, <1>3, <1>9 DEF UInv, UpgradeTypes, chainSame
<1>11. OneDisputeEach'
  <2>1. \A k \in DOMAIN disputes : disputes'[k].order = disputes[k].order
    BY <1>6, <1>9
  <2> QED
    BY <2>1, <1>9 DEF UInv, OneDisputeEach
<1>12. DisputedHaveDisputes'
  <2> SUFFICES ASSUME NEW c \in Versions, NEW p \in DOMAIN orders[c],
                      orders'[c][p] = "Disputed"
               PROVE  \E k \in DOMAIN disputes' :
                         disputes'[k] = [order |-> p, book |-> c, status |-> "Open"]
    BY <1>3 DEF DisputedHaveDisputes, OpenFor
  <2>1. <<c, p>> # <<b, o>>
    BY <1>3
  <2>2. PICK k \in DOMAIN disputes : disputes[k] = [order |-> p, book |-> c, status |-> "Open"]
    BY <2>1, <1>2, <1>3 DEF UInv, DisputedHaveDisputes, OpenFor
  <2>3. k # i
    BY <2>1, <2>2, <1>6
  <2> QED
    BY <2>2, <2>3, <1>9
<1>13. RulingStep
  <2> SUFFICES ASSUME NEW c \in Versions, NEW p \in DOMAIN orders[c],
                      orders[c][p] = "Disputed", orders'[c][p] # "Disputed"
               PROVE  \E k \in DOMAIN disputes :
                         /\ disputes[k] = [order |-> p, book |-> c, status |-> "Open"]
                         /\ disputes'[k].status = "Resolved"
    BY DEF RulingStep, RulingMatches
  <2>1. c = b /\ p = o
    BY <1>3
  <2> QED
    BY <2>1, <1>6, <1>9
<1> QED
  BY <1>10, <1>11, <1>12, <1>13 DEF UInv

-----------------------------------------------------------------------------
(* All steps. *)

LEMMA InitUInv == Init => UInv
<1> SUFFICES ASSUME Init PROVE UInv
  OBVIOUS
<1>1. /\ page = "v1" /\ current = "v1" /\ orders = [b \in Versions |-> <<>>] /\ disputes = <<>>
  BY DEF Init
<1>2. \A b \in Versions : DOMAIN orders[b] = {}
  BY <1>1
<1> QED
  BY <1>1, <1>2 DEF UInv, UpgradeTypes, OneDisputeEach, DisputedHaveDisputes, Versions

\* A step that leaves orders and disputes alone.
LEMMA Untouched ==
    ASSUME UInv, UNCHANGED <<orders, disputes>>, page' \in Versions, current' \in Versions
    PROVE  UInv' /\ RulingStep
BY DEF UInv, UpgradeTypes, OneDisputeEach, DisputedHaveDisputes, OpenFor, RulingStep, RulingMatches

LEMMA CreateOrderKeeps == ASSUME UInv, CreateOrder PROVE UInv' /\ RulingStep
<1>1. /\ page \in Versions /\ orders[page] \in Seq(Statuses) /\ "Open" \in Statuses
      /\ orders' = [orders EXCEPT ![page] = Append(orders[page], "Open")]
  BY DEF UInv, UpgradeTypes, CreateOrder, Statuses
<1> DEFINE b == page
           n == Len(orders[b]) + 1
<1>2. /\ orders' \in [Versions -> Seq(Statuses)]
      /\ orders'[b] = Append(orders[b], "Open")
      /\ \A c \in Versions : c # b => orders'[c] = orders[c]
  BY <1>1 DEF UInv, UpgradeTypes
<1>3. /\ DOMAIN orders'[b] = DOMAIN orders[b] \cup {n}
      /\ orders'[b][n] = "Open"
      /\ \A p \in DOMAIN orders[b] : orders'[b][p] = orders[b][p]
  BY <1>1, <1>2
<1>4. UNCHANGED disputes /\ chainSame
  BY DEF CreateOrder
<1>5. UpgradeTypes' /\ OneDisputeEach'
  BY <1>2, <1>4 DEF UInv, UpgradeTypes, OneDisputeEach, chainSame
<1>6. DisputedHaveDisputes'
  <2> SUFFICES ASSUME NEW c \in Versions, NEW p \in DOMAIN orders'[c],
                      orders'[c][p] = "Disputed"
               PROVE  OpenFor(c, p)
    BY <1>4 DEF DisputedHaveDisputes, OpenFor
  <2>1. p \in DOMAIN orders[c] /\ orders[c][p] = "Disputed"
    BY <1>2, <1>3
  <2> QED
    BY <2>1 DEF UInv, DisputedHaveDisputes
<1>7. RulingStep
  <2>1. \A c \in Versions : \A p \in DOMAIN orders[c] : orders'[c][p] = orders[c][p]
    BY <1>2, <1>3
  <2> QED
    BY <2>1 DEF RulingStep, RulingMatches
<1> QED
  BY <1>5, <1>6, <1>7 DEF UInv

LEMMA NextUInv == UInv /\ [Next]_vars => UInv' /\ RulingStep
<1> SUFFICES ASSUME UInv, [Next]_vars PROVE UInv' /\ RulingStep
  OBVIOUS
<1>types. page \in Versions /\ current \in Versions
  BY DEF UInv, UpgradeTypes
<1>1. CASE Preflight
  BY <1>1, <1>types, Untouched DEF Preflight
<1>2. CASE Send
  <2>1. UNCHANGED <<orders, disputes, page>> /\ current' \in {current, "v2"}
    BY <1>2 DEF Send
  <2> QED
    BY <2>1, <1>types, Untouched DEF Versions
<1>3. CASE Abort
  BY <1>3, <1>types, Untouched DEF Abort
<1>4. CASE LoadPage
  BY <1>4, <1>types, Untouched DEF LoadPage
<1>5. CASE CreateOrder
  BY <1>5, CreateOrderKeeps
<1>6. ASSUME NEW b \in Versions, NEW o \in Numbers,
             AcceptBid(b, o) \/ CancelOpen(b, o) \/ (\E strike \in BOOLEAN : LeaveAssigned(b, o, strike))
             \/ ConfirmPickup(b, o) \/ ConfirmDropoff(b, o)
      PROVE  UInv' /\ RulingStep
  <2>1. PICK s \in {"Assigned", "Cancelled", "PickedUp", "Delivered"} :
           /\ StatusOf(b, o) \in {"Open", "Assigned", "PickedUp"}
           /\ SetStatus(b, o, s) /\ chainSame /\ UNCHANGED disputes
    BY <1>6 DEF AcceptBid, CancelOpen, LeaveAssigned, ConfirmPickup, ConfirmDropoff
  <2> QED
    BY <2>1, WrittenOutside DEF Statuses
<1>7. ASSUME NEW b \in Versions, NEW o \in Numbers, OpenDispute(b, o) PROVE UInv' /\ RulingStep
  BY <1>7, OpenDisputeKeeps
<1>8. ASSUME NEW i \in DOMAIN disputes, Resolve(i) PROVE UInv' /\ RulingStep
  BY <1>8, ResolveKeeps
<1>9. CASE UNCHANGED vars
  BY <1>9, <1>types, Untouched DEF vars
<1> QED
  BY <1>1, <1>2, <1>3, <1>4, <1>5, <1>6, <1>7, <1>8, <1>9 DEF Next, Script

\* Through any migration, with any number of orders, a ruling closes the order
\* its dispute was opened for, although the contract keeps only the number and
\* rules in the book it points to at the time (FareDisputes.resolve).
THEOREM RulingsHold == Spec => RulingsMatch
<1>1. UInv /\ [Next]_vars => [\A b \in Versions : \A o \in DOMAIN orders[b] : RulingMatches(b, o)]_vars
  BY NextUInv DEF RulingStep
<1>2. UInv /\ [Next]_vars => UInv'
  BY NextUInv
<1> QED
  BY <1>1, <1>2, InitUInv, PTL DEF Spec, RulingsMatch

-----------------------------------------------------------------------------
(* The exits.  The script is known only by what it has left to send, so the  *)
(* invariant speaks of that: what is in place now, or will be by the time    *)
(* the k-th transaction from here is sent.                                   *)

Chain == {"v1", "v2", "none"}

Tx ==
    [do : {"configure"}, book : Versions, vault : Versions, settlement : Versions]
    \cup [do : {"allow"}, where : {"vault1", "vault2", "drivers", "venues"},
          who : Versions \cup {"disputes"}]
    \cup [do : {"promote"}, name : {"orders", "settlement", "vault"}, freeze : BOOLEAN]
    \cup [do : {"settlement"}, contract : Versions, book : {"v2"}]
    \cup [do : {"disputes"}, book : Versions, vault : Versions]
    \cup [do : {"preflight"}]

Configures(k, b) == sends[k].do = "configure" /\ sends[k].book = b
Promotes(k, n)   == sends[k].do = "promote" /\ sends[k].name = n
Repoints(k, b)   == sends[k].do = "disputes" /\ sends[k].book = b

\* Before its k-th transaction from here the script has authorized who.
Ready(k, where, who) ==
    \/ <<where, who>> \in allowed
    \/ \E j \in DOMAIN sends : j < k /\ sends[j] = Allow(where, who)

\* By then the new book has its pointers to v and s.
ConfiguredBy(k, v, s) ==
    \/ vaultOf["v2"] = v /\ callerOf["v2"] = s
    \/ \E j \in DOMAIN sends : j < k /\ sends[j] = Configure(v, s)

WiredBy(k, v, s) ==
    /\ ConfiguredBy(k, v, s)
    /\ Ready(k, Vault[v], "v2") /\ Ready(k, "drivers", "v2")

SettledBy(k, v, s) ==
    /\ ConfiguredBy(k, v, s)
    /\ \/ settles[s] = "v2"
       \/ \E j \in DOMAIN sends : j < k /\ sends[j] = SettlementTo(s, "v2")

\* All scripts but upgrade-orders wire the new book before they promote it.
WiredFirst == "orders" \notin Scripts

ScriptTypes ==
    /\ sends \in Seq(Tx)
    /\ current \in Versions
    /\ vaultOf \in [Versions -> Chain] /\ callerOf \in [Versions -> Chain]
    /\ settles \in [Versions -> Chain]
    /\ disputing \in [orders : Versions, vault : Versions]

OldBook ==
    /\ vaultOf["v1"] \in Versions
    /\ <<Vault[vaultOf["v1"]], "v1">> \in allowed /\ <<"drivers", "v1">> \in allowed
    /\ \A k \in DOMAIN sends :
          Configures(k, "v1") => Ready(k, Vault[sends[k].vault], "v1")

\* The script gives the new book the vault v and the settlement s.
NewBook(v, s) ==
    /\ \A k \in DOMAIN sends : Configures(k, "v2") => sends[k] = Configure(v, s)
    /\ <<"settlement", s>> \notin frozen
    /\ s = "v1" => \A k \in DOMAIN sends : ~Promotes(k, "settlement")
    /\ WiredFirst => /\ \A k \in DOMAIN sends : Promotes(k, "orders") => WiredBy(k, v, s)
                     /\ current = "v2" => WiredBy(1, v, s)
    /\ current = "v2" \/ (\E k \in DOMAIN sends : Promotes(k, "orders")) =>
          aborted \/ WiredBy(Len(sends) + 1, v, s)
    /\ \A k \in DOMAIN sends : Repoints(k, "v2") => SettledBy(k, v, s)
    /\ disputing.orders = "v2" => SettledBy(1, v, s)

Rulings ==
    /\ <<Vault[disputing.vault], "disputes">> \in allowed
    /\ \A k \in DOMAIN sends :
          /\ sends[k].do = "disputes" => Ready(k, Vault[sends[k].vault], "disputes")
          /\ Repoints(k, "v1") => /\ disputing.orders = "v1"
                                  /\ \A j \in DOMAIN sends : ~Repoints(j, "v2")

ScriptInv ==
    /\ ScriptTypes /\ OldBook /\ Rulings
    /\ \E v \in Versions, s \in Versions : NewBook(v, s)

BookInv ==
    /\ page = "v2" => current = "v2"
    /\ DOMAIN orders["v2"] # {} => current = "v2"
    /\ \A i \in DOMAIN disputes :
          /\ StatusOf(disputes[i].book, disputes[i].order) \in {"Disputed", "Resolved"}
          /\ disputing.orders = "v1" => disputes[i].book = "v1"

LEMMA AllTx ==
    /\ \A v, s \in Versions : Configure(v, s) \in Tx
    /\ \A v \in Versions : Rewire(v) \in Tx
    /\ \A w \in {"vault1", "vault2", "drivers", "venues"}, h \in Versions \cup {"disputes"} :
          Allow(w, h) \in Tx
    /\ \A n \in {"orders", "settlement", "vault"}, f \in BOOLEAN : Promote(n, f) \in Tx
    /\ \A s \in Versions : SettlementTo(s, "v2") \in Tx
    /\ \A b, v \in Versions : DisputesTo(b, v) \in Tx
    /\ [do |-> "preflight"] \in Tx
BY DEF Tx, Configure, Rewire, Allow, Promote, SettlementTo, DisputesTo, Versions

\* The wiring the scripts start from.
Deployed ==
    /\ aborted = FALSE
    /\ current = "v1" /\ page = "v1"
    /\ frozen = {}
    /\ vaultOf = [v1 |-> "v1", v2 |-> "none"]
    /\ callerOf = [v1 |-> "v1", v2 |-> "none"]
    /\ settles = [v1 |-> "v1", v2 |-> "none"]
    /\ disputing = [orders |-> "v1", vault |-> "v1"]
    /\ allowed = {<<"vault1", "v1">>, <<"vault1", "disputes">>,
                  <<"drivers", "v1">>, <<"venues", "v1">>}

LEMMA Vaults == Vault["v1"] = "vault1" /\ Vault["v2"] = "vault2"
BY DEF Vault

LEMMA OldIsReady ==
    ASSUME Deployed
    PROVE  /\ allowed = {<<"vault1", "v1">>, <<"vault1", "disputes">>,
                         <<"drivers", "v1">>, <<"venues", "v1">>}
           /\ vaultOf["v1"] = "v1" /\ current = "v1" /\ frozen = {}
           /\ disputing.orders = "v1" /\ disputing.vault = "v1"
BY DEF Deployed

LEMMA TuplesOf5 ==
    ASSUME NEW a \in Tx, NEW b \in Tx, NEW c \in Tx, NEW d \in Tx, NEW e \in Tx
    PROVE  <<a, b, c, d, e>> \in Seq(Tx)
OBVIOUS

LEMMA TuplesOf7 ==
    ASSUME NEW a \in Tx, NEW b \in Tx, NEW c \in Tx, NEW d \in Tx, NEW e \in Tx,
           NEW f \in Tx, NEW g \in Tx
    PROVE  <<a, b, c, d, e, f, g>> \in Seq(Tx)
OBVIOUS

LEMMA TuplesOf9 ==
    ASSUME NEW a \in Tx, NEW b \in Tx, NEW c \in Tx, NEW d \in Tx, NEW e \in Tx,
           NEW f \in Tx, NEW g \in Tx, NEW h \in Tx, NEW i \in Tx
    PROVE  <<a, b, c, d, e, f, g, h, i>> \in Seq(Tx)
OBVIOUS

LEMMA TuplesOf10 ==
    ASSUME NEW a \in Tx, NEW b \in Tx, NEW c \in Tx, NEW d \in Tx, NEW e \in Tx,
           NEW f \in Tx, NEW g \in Tx, NEW h \in Tx, NEW i \in Tx, NEW j \in Tx
    PROVE  <<a, b, c, d, e, f, g, h, i, j>> \in Seq(Tx)
OBVIOUS

LEMMA RegionOrdersStarts ==
    ASSUME Deployed, "orders" \in Scripts, sends = RegionOrders PROVE ScriptInv
<1>1. /\ sends \in Seq(Tx) /\ DOMAIN sends = 1..7 /\ Len(sends) = 7
      /\ sends[1] = Promote("orders", TRUE)
      /\ sends[2] = Configure("v1", "v1")
      /\ sends[3] = Allow("vault1", "v2")
      /\ sends[4] = Allow("drivers", "v2")
      /\ sends[5] = Allow("venues", "v2")
      /\ sends[6] = SettlementTo("v1", "v2")
      /\ sends[7] = DisputesTo("v2", "v1")
  <2>1. /\ Promote("orders", TRUE) \in Tx
        /\ Configure("v1", "v1") \in Tx
        /\ Allow("vault1", "v2") \in Tx
        /\ Allow("drivers", "v2") \in Tx
        /\ Allow("venues", "v2") \in Tx
        /\ SettlementTo("v1", "v2") \in Tx
        /\ DisputesTo("v2", "v1") \in Tx
    BY AllTx DEF Versions
  <2>2. Len(sends) = 7 /\ DOMAIN sends = 1..7
    BY DEF RegionOrders
  <2>3. sends \in Seq(Tx)
    BY <2>1, TuplesOf7 DEF RegionOrders
  <2> QED
    BY <2>2, <2>3 DEF RegionOrders
<1>2. \A k \in DOMAIN sends : k \in {1, 2, 3, 4, 5, 6, 7}
  BY <1>1
<1>3. /\ sends[1].do = "promote" /\ sends[1].name = "orders"
      /\ sends[2].do = "configure" /\ sends[2].book = "v2"
      /\ sends[3].do = "allow"
      /\ sends[4].do = "allow"
      /\ sends[5].do = "allow"
      /\ sends[6].do = "settlement"
      /\ sends[7].do = "disputes" /\ sends[7].book = "v2" /\ sends[7].vault = "v1"
  <2>1. sends[1].do = "promote" /\ sends[1].name = "orders"
    BY <1>1 DEF Promote
  <2>2. sends[2].do = "configure" /\ sends[2].book = "v2"
    BY <1>1 DEF Configure
  <2>3. sends[3].do = "allow"
    BY <1>1 DEF Allow
  <2>4. sends[4].do = "allow"
    BY <1>1 DEF Allow
  <2>5. sends[5].do = "allow"
    BY <1>1 DEF Allow
  <2>6. sends[6].do = "settlement"
    BY <1>1 DEF SettlementTo
  <2>7. sends[7].do = "disputes" /\ sends[7].book = "v2" /\ sends[7].vault = "v1"
    BY <1>1 DEF DisputesTo
  <2> QED
    BY <2>1, <2>2, <2>3, <2>4, <2>5, <2>6, <2>7
<1>4. ScriptTypes
  BY <1>1 DEF ScriptTypes, Deployed, Versions, Chain
<1>5. OldBook
  BY <1>2, <1>3, Vaults, OldIsReady DEF OldBook, Versions, Configures
<1>6. Rulings
  <2>1. Ready(7, "vault1", "disputes")
    BY <1>1, OldIsReady DEF Ready
  <2> QED
    BY <1>2, <1>3, <2>1, Vaults, OldIsReady DEF Rulings, Repoints
<1>7. NewBook("v1", "v1")
  <2>1. ConfiguredBy(7, "v1", "v1") /\ ConfiguredBy(8, "v1", "v1")
    BY <1>1 DEF ConfiguredBy
  <2>2. Ready(8, "vault1", "v2") /\ Ready(8, "drivers", "v2")
    BY <1>1 DEF Ready
  <2>3. WiredBy(Len(sends) + 1, "v1", "v1")
    BY <1>1, <2>1, <2>2, Vaults DEF WiredBy
  <2>4. SettledBy(7, "v1", "v1")
    BY <1>1, <2>1 DEF SettledBy
  <2> QED
    BY <1>1, <1>2, <1>3, <2>3, <2>4, OldIsReady DEF NewBook, Configures, Promotes, Repoints, WiredFirst
<1> QED
  BY <1>4, <1>5, <1>6, <1>7 DEF ScriptInv, Versions

LEMMA GaslessOrdersStarts ==
    ASSUME Deployed, sends = GaslessOrders PROVE ScriptInv
<1>1. /\ sends \in Seq(Tx) /\ DOMAIN sends = 1..7 /\ Len(sends) = 7
      /\ sends[1] = Configure("v1", "v1")
      /\ sends[2] = Allow("vault1", "v2")
      /\ sends[3] = Allow("drivers", "v2")
      /\ sends[4] = Allow("venues", "v2")
      /\ sends[5] = Promote("orders", TRUE)
      /\ sends[6] = SettlementTo("v1", "v2")
      /\ sends[7] = DisputesTo("v2", "v1")
  <2>1. /\ Configure("v1", "v1") \in Tx
        /\ Allow("vault1", "v2") \in Tx
        /\ Allow("drivers", "v2") \in Tx
        /\ Allow("venues", "v2") \in Tx
        /\ Promote("orders", TRUE) \in Tx
        /\ SettlementTo("v1", "v2") \in Tx
        /\ DisputesTo("v2", "v1") \in Tx
    BY AllTx DEF Versions
  <2>2. Len(sends) = 7 /\ DOMAIN sends = 1..7
    BY DEF GaslessOrders
  <2>3. sends \in Seq(Tx)
    BY <2>1, TuplesOf7 DEF GaslessOrders
  <2> QED
    BY <2>2, <2>3 DEF GaslessOrders
<1>2. \A k \in DOMAIN sends : k \in {1, 2, 3, 4, 5, 6, 7}
  BY <1>1
<1>3. /\ sends[1].do = "configure" /\ sends[1].book = "v2"
      /\ sends[2].do = "allow"
      /\ sends[3].do = "allow"
      /\ sends[4].do = "allow"
      /\ sends[5].do = "promote" /\ sends[5].name = "orders"
      /\ sends[6].do = "settlement"
      /\ sends[7].do = "disputes" /\ sends[7].book = "v2" /\ sends[7].vault = "v1"
  <2>1. sends[1].do = "configure" /\ sends[1].book = "v2"
    BY <1>1 DEF Configure
  <2>2. sends[2].do = "allow"
    BY <1>1 DEF Allow
  <2>3. sends[3].do = "allow"
    BY <1>1 DEF Allow
  <2>4. sends[4].do = "allow"
    BY <1>1 DEF Allow
  <2>5. sends[5].do = "promote" /\ sends[5].name = "orders"
    BY <1>1 DEF Promote
  <2>6. sends[6].do = "settlement"
    BY <1>1 DEF SettlementTo
  <2>7. sends[7].do = "disputes" /\ sends[7].book = "v2" /\ sends[7].vault = "v1"
    BY <1>1 DEF DisputesTo
  <2> QED
    BY <2>1, <2>2, <2>3, <2>4, <2>5, <2>6, <2>7
<1>4. ScriptTypes
  BY <1>1 DEF ScriptTypes, Deployed, Versions, Chain
<1>5. OldBook
  BY <1>2, <1>3, Vaults, OldIsReady DEF OldBook, Versions, Configures
<1>6. Rulings
  <2>1. Ready(7, "vault1", "disputes")
    BY <1>1, OldIsReady DEF Ready
  <2> QED
    BY <1>2, <1>3, <2>1, Vaults, OldIsReady DEF Rulings, Repoints
<1>7. NewBook("v1", "v1")
  <2>1. ConfiguredBy(5, "v1", "v1") /\ ConfiguredBy(7, "v1", "v1") /\ ConfiguredBy(8, "v1", "v1")
    BY <1>1 DEF ConfiguredBy
  <2>2. Ready(5, "vault1", "v2") /\ Ready(5, "drivers", "v2")
    BY <1>1 DEF Ready
  <2>3. Ready(8, "vault1", "v2") /\ Ready(8, "drivers", "v2")
    BY <1>1 DEF Ready
  <2>4. WiredBy(5, "v1", "v1") /\ WiredBy(Len(sends) + 1, "v1", "v1")
    BY <1>1, <2>1, <2>2, <2>3, Vaults DEF WiredBy
  <2>5. SettledBy(7, "v1", "v1")
    BY <1>1, <2>1 DEF SettledBy
  <2> QED
    BY <1>1, <1>2, <1>3, <2>4, <2>5, OldIsReady DEF NewBook, Configures, Promotes, Repoints
<1> QED
  BY <1>4, <1>5, <1>6, <1>7 DEF ScriptInv, Versions

LEMMA ForwarderStarts ==
    ASSUME Deployed, sends = Forwarder PROVE ScriptInv
<1>1. /\ sends \in Seq(Tx) /\ DOMAIN sends = 1..10 /\ Len(sends) = 10
      /\ sends[1] = Configure("v2", "v2")
      /\ sends[2] = SettlementTo("v2", "v2")
      /\ sends[3] = Allow("vault2", "v2")
      /\ sends[4] = Allow("vault2", "disputes")
      /\ sends[5] = Allow("drivers", "v2")
      /\ sends[6] = Allow("venues", "v2")
      /\ sends[7] = Promote("orders", TRUE)
      /\ sends[8] = Promote("settlement", TRUE)
      /\ sends[9] = Promote("vault", FALSE)
      /\ sends[10] = DisputesTo("v2", "v2")
  <2>1. /\ Configure("v2", "v2") \in Tx
        /\ SettlementTo("v2", "v2") \in Tx
        /\ Allow("vault2", "v2") \in Tx
        /\ Allow("vault2", "disputes") \in Tx
        /\ Allow("drivers", "v2") \in Tx
        /\ Allow("venues", "v2") \in Tx
        /\ Promote("orders", TRUE) \in Tx
        /\ Promote("settlement", TRUE) \in Tx
        /\ Promote("vault", FALSE) \in Tx
        /\ DisputesTo("v2", "v2") \in Tx
    BY AllTx DEF Versions
  <2>2. Len(sends) = 10 /\ DOMAIN sends = 1..10
    BY DEF Forwarder
  <2>3. sends \in Seq(Tx)
    BY <2>1, TuplesOf10 DEF Forwarder
  <2> QED
    BY <2>2, <2>3 DEF Forwarder
<1>2. \A k \in DOMAIN sends : k \in {1, 2, 3, 4, 5, 6, 7, 8, 9, 10}
  BY <1>1
<1>3. /\ sends[1].do = "configure" /\ sends[1].book = "v2"
      /\ sends[2].do = "settlement"
      /\ sends[3].do = "allow"
      /\ sends[4].do = "allow"
      /\ sends[5].do = "allow"
      /\ sends[6].do = "allow"
      /\ sends[7].do = "promote" /\ sends[7].name = "orders"
      /\ sends[8].do = "promote" /\ sends[8].name = "settlement"
      /\ sends[9].do = "promote" /\ sends[9].name = "vault"
      /\ sends[10].do = "disputes" /\ sends[10].book = "v2" /\ sends[10].vault = "v2"
  <2>1. sends[1].do = "configure" /\ sends[1].book = "v2"
    BY <1>1 DEF Configure
  <2>2. sends[2].do = "settlement"
    BY <1>1 DEF SettlementTo
  <2>3. sends[3].do = "allow"
    BY <1>1 DEF Allow
  <2>4. sends[4].do = "allow"
    BY <1>1 DEF Allow
  <2>5. sends[5].do = "allow"
    BY <1>1 DEF Allow
  <2>6. sends[6].do = "allow"
    BY <1>1 DEF Allow
  <2>7. sends[7].do = "promote" /\ sends[7].name = "orders"
    BY <1>1 DEF Promote
  <2>8. sends[8].do = "promote" /\ sends[8].name = "settlement"
    BY <1>1 DEF Promote
  <2>9. sends[9].do = "promote" /\ sends[9].name = "vault"
    BY <1>1 DEF Promote
  <2>10. sends[10].do = "disputes" /\ sends[10].book = "v2" /\ sends[10].vault = "v2"
    BY <1>1 DEF DisputesTo
  <2> QED
    BY <2>1, <2>2, <2>3, <2>4, <2>5, <2>6, <2>7, <2>8, <2>9, <2>10
<1>4. ScriptTypes
  BY <1>1 DEF ScriptTypes, Deployed, Versions, Chain
<1>5. OldBook
  BY <1>2, <1>3, Vaults, OldIsReady DEF OldBook, Versions, Configures
<1>6. Rulings
  <2>1. Ready(10, "vault2", "disputes")
    BY <1>1 DEF Ready
  <2> QED
    BY <1>2, <1>3, <2>1, Vaults, OldIsReady DEF Rulings, Repoints
<1>7. NewBook("v2", "v2")
  <2>1. ConfiguredBy(7, "v2", "v2") /\ ConfiguredBy(10, "v2", "v2") /\ ConfiguredBy(11, "v2", "v2")
    BY <1>1 DEF ConfiguredBy
  <2>2. Ready(7, "vault2", "v2") /\ Ready(7, "drivers", "v2")
    BY <1>1 DEF Ready
  <2>3. Ready(11, "vault2", "v2") /\ Ready(11, "drivers", "v2")
    BY <1>1 DEF Ready
  <2>4. WiredBy(7, "v2", "v2") /\ WiredBy(Len(sends) + 1, "v2", "v2")
    BY <1>1, <2>1, <2>2, <2>3, Vaults DEF WiredBy
  <2>5. SettledBy(10, "v2", "v2")
    BY <1>1, <2>1 DEF SettledBy
  <2> QED
    BY <1>1, <1>2, <1>3, <2>4, <2>5, OldIsReady DEF NewBook, Configures, Promotes, Repoints
<1> QED
  BY <1>4, <1>5, <1>6, <1>7 DEF ScriptInv, Versions

LEMMA PrivacyStarts ==
    ASSUME Deployed, sends = Privacy PROVE ScriptInv
<1>1. /\ sends \in Seq(Tx) /\ DOMAIN sends = 1..9 /\ Len(sends) = 9
      /\ sends[1] = Configure("v2", "v1")
      /\ sends[2] = Allow("vault2", "v2")
      /\ sends[3] = Allow("vault2", "disputes")
      /\ sends[4] = Allow("drivers", "v2")
      /\ sends[5] = Allow("venues", "v2")
      /\ sends[6] = Promote("orders", TRUE)
      /\ sends[7] = Promote("vault", FALSE)
      /\ sends[8] = SettlementTo("v1", "v2")
      /\ sends[9] = DisputesTo("v2", "v2")
  <2>1. /\ Configure("v2", "v1") \in Tx
        /\ Allow("vault2", "v2") \in Tx
        /\ Allow("vault2", "disputes") \in Tx
        /\ Allow("drivers", "v2") \in Tx
        /\ Allow("venues", "v2") \in Tx
        /\ Promote("orders", TRUE) \in Tx
        /\ Promote("vault", FALSE) \in Tx
        /\ SettlementTo("v1", "v2") \in Tx
        /\ DisputesTo("v2", "v2") \in Tx
    BY AllTx DEF Versions
  <2>2. Len(sends) = 9 /\ DOMAIN sends = 1..9
    BY DEF Privacy
  <2>3. sends \in Seq(Tx)
    BY <2>1, TuplesOf9 DEF Privacy
  <2> QED
    BY <2>2, <2>3 DEF Privacy
<1>2. \A k \in DOMAIN sends : k \in {1, 2, 3, 4, 5, 6, 7, 8, 9}
  BY <1>1
<1>3. /\ sends[1].do = "configure" /\ sends[1].book = "v2"
      /\ sends[2].do = "allow"
      /\ sends[3].do = "allow"
      /\ sends[4].do = "allow"
      /\ sends[5].do = "allow"
      /\ sends[6].do = "promote" /\ sends[6].name = "orders"
      /\ sends[7].do = "promote" /\ sends[7].name = "vault"
      /\ sends[8].do = "settlement"
      /\ sends[9].do = "disputes" /\ sends[9].book = "v2" /\ sends[9].vault = "v2"
  <2>1. sends[1].do = "configure" /\ sends[1].book = "v2"
    BY <1>1 DEF Configure
  <2>2. sends[2].do = "allow"
    BY <1>1 DEF Allow
  <2>3. sends[3].do = "allow"
    BY <1>1 DEF Allow
  <2>4. sends[4].do = "allow"
    BY <1>1 DEF Allow
  <2>5. sends[5].do = "allow"
    BY <1>1 DEF Allow
  <2>6. sends[6].do = "promote" /\ sends[6].name = "orders"
    BY <1>1 DEF Promote
  <2>7. sends[7].do = "promote" /\ sends[7].name = "vault"
    BY <1>1 DEF Promote
  <2>8. sends[8].do = "settlement"
    BY <1>1 DEF SettlementTo
  <2>9. sends[9].do = "disputes" /\ sends[9].book = "v2" /\ sends[9].vault = "v2"
    BY <1>1 DEF DisputesTo
  <2> QED
    BY <2>1, <2>2, <2>3, <2>4, <2>5, <2>6, <2>7, <2>8, <2>9
<1>4. ScriptTypes
  BY <1>1 DEF ScriptTypes, Deployed, Versions, Chain
<1>5. OldBook
  BY <1>2, <1>3, Vaults, OldIsReady DEF OldBook, Versions, Configures
<1>6. Rulings
  <2>1. Ready(9, "vault2", "disputes")
    BY <1>1 DEF Ready
  <2> QED
    BY <1>2, <1>3, <2>1, Vaults, OldIsReady DEF Rulings, Repoints
<1>7. NewBook("v2", "v1")
  <2>1. ConfiguredBy(6, "v2", "v1") /\ ConfiguredBy(9, "v2", "v1") /\ ConfiguredBy(10, "v2", "v1")
    BY <1>1 DEF ConfiguredBy
  <2>2. Ready(6, "vault2", "v2") /\ Ready(6, "drivers", "v2")
    BY <1>1 DEF Ready
  <2>3. Ready(10, "vault2", "v2") /\ Ready(10, "drivers", "v2")
    BY <1>1 DEF Ready
  <2>4. WiredBy(6, "v2", "v1") /\ WiredBy(Len(sends) + 1, "v2", "v1")
    BY <1>1, <2>1, <2>2, <2>3, Vaults DEF WiredBy
  <2>5. SettledBy(9, "v2", "v1")
    BY <1>1, <2>1 DEF SettledBy
  <2> QED
    BY <1>1, <1>2, <1>3, <2>4, <2>5, OldIsReady DEF NewBook, Configures, Promotes, Repoints
<1> QED
  BY <1>4, <1>5, <1>6, <1>7 DEF ScriptInv, Versions

LEMMA StablecoinStarts ==
    ASSUME Deployed, sends = Stablecoin PROVE ScriptInv
<1>1. /\ sends \in Seq(Tx) /\ DOMAIN sends = 1..9 /\ Len(sends) = 9
      /\ sends[1] = Configure("v2", "v1")
      /\ sends[2] = Allow("vault2", "v2")
      /\ sends[3] = Allow("vault2", "disputes")
      /\ sends[4] = Allow("drivers", "v2")
      /\ sends[5] = Allow("venues", "v2")
      /\ sends[6] = SettlementTo("v1", "v2")
      /\ sends[7] = DisputesTo("v2", "v2")
      /\ sends[8] = Promote("orders", TRUE)
      /\ sends[9] = Promote("vault", FALSE)
  <2>1. /\ Configure("v2", "v1") \in Tx
        /\ Allow("vault2", "v2") \in Tx
        /\ Allow("vault2", "disputes") \in Tx
        /\ Allow("drivers", "v2") \in Tx
        /\ Allow("venues", "v2") \in Tx
        /\ SettlementTo("v1", "v2") \in Tx
        /\ DisputesTo("v2", "v2") \in Tx
        /\ Promote("orders", TRUE) \in Tx
        /\ Promote("vault", FALSE) \in Tx
    BY AllTx DEF Versions
  <2>2. Len(sends) = 9 /\ DOMAIN sends = 1..9
    BY DEF Stablecoin
  <2>3. sends \in Seq(Tx)
    BY <2>1, TuplesOf9 DEF Stablecoin
  <2> QED
    BY <2>2, <2>3 DEF Stablecoin
<1>2. \A k \in DOMAIN sends : k \in {1, 2, 3, 4, 5, 6, 7, 8, 9}
  BY <1>1
<1>3. /\ sends[1].do = "configure" /\ sends[1].book = "v2"
      /\ sends[2].do = "allow"
      /\ sends[3].do = "allow"
      /\ sends[4].do = "allow"
      /\ sends[5].do = "allow"
      /\ sends[6].do = "settlement"
      /\ sends[7].do = "disputes" /\ sends[7].book = "v2" /\ sends[7].vault = "v2"
      /\ sends[8].do = "promote" /\ sends[8].name = "orders"
      /\ sends[9].do = "promote" /\ sends[9].name = "vault"
  <2>1. sends[1].do = "configure" /\ sends[1].book = "v2"
    BY <1>1 DEF Configure
  <2>2. sends[2].do = "allow"
    BY <1>1 DEF Allow
  <2>3. sends[3].do = "allow"
    BY <1>1 DEF Allow
  <2>4. sends[4].do = "allow"
    BY <1>1 DEF Allow
  <2>5. sends[5].do = "allow"
    BY <1>1 DEF Allow
  <2>6. sends[6].do = "settlement"
    BY <1>1 DEF SettlementTo
  <2>7. sends[7].do = "disputes" /\ sends[7].book = "v2" /\ sends[7].vault = "v2"
    BY <1>1 DEF DisputesTo
  <2>8. sends[8].do = "promote" /\ sends[8].name = "orders"
    BY <1>1 DEF Promote
  <2>9. sends[9].do = "promote" /\ sends[9].name = "vault"
    BY <1>1 DEF Promote
  <2> QED
    BY <2>1, <2>2, <2>3, <2>4, <2>5, <2>6, <2>7, <2>8, <2>9
<1>4. ScriptTypes
  BY <1>1 DEF ScriptTypes, Deployed, Versions, Chain
<1>5. OldBook
  BY <1>2, <1>3, Vaults, OldIsReady DEF OldBook, Versions, Configures
<1>6. Rulings
  <2>1. Ready(7, "vault2", "disputes")
    BY <1>1 DEF Ready
  <2> QED
    BY <1>2, <1>3, <2>1, Vaults, OldIsReady DEF Rulings, Repoints
<1>7. NewBook("v2", "v1")
  <2>1. ConfiguredBy(7, "v2", "v1") /\ ConfiguredBy(8, "v2", "v1") /\ ConfiguredBy(10, "v2", "v1")
    BY <1>1 DEF ConfiguredBy
  <2>2. Ready(8, "vault2", "v2") /\ Ready(8, "drivers", "v2")
    BY <1>1 DEF Ready
  <2>3. Ready(10, "vault2", "v2") /\ Ready(10, "drivers", "v2")
    BY <1>1 DEF Ready
  <2>4. WiredBy(8, "v2", "v1") /\ WiredBy(Len(sends) + 1, "v2", "v1")
    BY <1>1, <2>1, <2>2, <2>3, Vaults DEF WiredBy
  <2>5. SettledBy(7, "v2", "v1")
    BY <1>1, <2>1 DEF SettledBy
  <2> QED
    BY <1>1, <1>2, <1>3, <2>4, <2>5, OldIsReady DEF NewBook, Configures, Promotes, Repoints
<1> QED
  BY <1>4, <1>5, <1>6, <1>7 DEF ScriptInv, Versions

LEMMA LegacyPathsStarts ==
    ASSUME Deployed, sends = LegacyPaths PROVE ScriptInv
<1>1. /\ sends \in Seq(Tx) /\ DOMAIN sends = 1..10 /\ Len(sends) = 10
      /\ sends[1] = [do |-> "preflight"]
      /\ sends[2] = Configure("v2", "v1")
      /\ sends[3] = Allow("vault2", "v2")
      /\ sends[4] = Allow("vault2", "disputes")
      /\ sends[5] = Allow("drivers", "v2")
      /\ sends[6] = Allow("venues", "v2")
      /\ sends[7] = Promote("orders", TRUE)
      /\ sends[8] = Promote("vault", FALSE)
      /\ sends[9] = SettlementTo("v1", "v2")
      /\ sends[10] = DisputesTo("v2", "v2")
  <2>1. /\ [do |-> "preflight"] \in Tx
        /\ Configure("v2", "v1") \in Tx
        /\ Allow("vault2", "v2") \in Tx
        /\ Allow("vault2", "disputes") \in Tx
        /\ Allow("drivers", "v2") \in Tx
        /\ Allow("venues", "v2") \in Tx
        /\ Promote("orders", TRUE) \in Tx
        /\ Promote("vault", FALSE) \in Tx
        /\ SettlementTo("v1", "v2") \in Tx
        /\ DisputesTo("v2", "v2") \in Tx
    BY AllTx DEF Versions
  <2>2. Len(sends) = 10 /\ DOMAIN sends = 1..10
    BY DEF LegacyPaths
  <2>3. sends \in Seq(Tx)
    BY <2>1, TuplesOf10 DEF LegacyPaths
  <2> QED
    BY <2>2, <2>3 DEF LegacyPaths
<1>2. \A k \in DOMAIN sends : k \in {1, 2, 3, 4, 5, 6, 7, 8, 9, 10}
  BY <1>1
<1>3. /\ sends[1].do = "preflight"
      /\ sends[2].do = "configure" /\ sends[2].book = "v2"
      /\ sends[3].do = "allow"
      /\ sends[4].do = "allow"
      /\ sends[5].do = "allow"
      /\ sends[6].do = "allow"
      /\ sends[7].do = "promote" /\ sends[7].name = "orders"
      /\ sends[8].do = "promote" /\ sends[8].name = "vault"
      /\ sends[9].do = "settlement"
      /\ sends[10].do = "disputes" /\ sends[10].book = "v2" /\ sends[10].vault = "v2"
  <2>1. sends[1].do = "preflight"
    BY <1>1
  <2>2. sends[2].do = "configure" /\ sends[2].book = "v2"
    BY <1>1 DEF Configure
  <2>3. sends[3].do = "allow"
    BY <1>1 DEF Allow
  <2>4. sends[4].do = "allow"
    BY <1>1 DEF Allow
  <2>5. sends[5].do = "allow"
    BY <1>1 DEF Allow
  <2>6. sends[6].do = "allow"
    BY <1>1 DEF Allow
  <2>7. sends[7].do = "promote" /\ sends[7].name = "orders"
    BY <1>1 DEF Promote
  <2>8. sends[8].do = "promote" /\ sends[8].name = "vault"
    BY <1>1 DEF Promote
  <2>9. sends[9].do = "settlement"
    BY <1>1 DEF SettlementTo
  <2>10. sends[10].do = "disputes" /\ sends[10].book = "v2" /\ sends[10].vault = "v2"
    BY <1>1 DEF DisputesTo
  <2> QED
    BY <2>1, <2>2, <2>3, <2>4, <2>5, <2>6, <2>7, <2>8, <2>9, <2>10
<1>4. ScriptTypes
  BY <1>1 DEF ScriptTypes, Deployed, Versions, Chain
<1>5. OldBook
  BY <1>2, <1>3, Vaults, OldIsReady DEF OldBook, Versions, Configures
<1>6. Rulings
  <2>1. Ready(10, "vault2", "disputes")
    BY <1>1 DEF Ready
  <2> QED
    BY <1>2, <1>3, <2>1, Vaults, OldIsReady DEF Rulings, Repoints
<1>7. NewBook("v2", "v1")
  <2>1. ConfiguredBy(7, "v2", "v1") /\ ConfiguredBy(10, "v2", "v1") /\ ConfiguredBy(11, "v2", "v1")
    BY <1>1 DEF ConfiguredBy
  <2>2. Ready(7, "vault2", "v2") /\ Ready(7, "drivers", "v2")
    BY <1>1 DEF Ready
  <2>3. Ready(11, "vault2", "v2") /\ Ready(11, "drivers", "v2")
    BY <1>1 DEF Ready
  <2>4. WiredBy(7, "v2", "v1") /\ WiredBy(Len(sends) + 1, "v2", "v1")
    BY <1>1, <2>1, <2>2, <2>3, Vaults DEF WiredBy
  <2>5. SettledBy(10, "v2", "v1")
    BY <1>1, <2>1 DEF SettledBy
  <2> QED
    BY <1>1, <1>2, <1>3, <2>4, <2>5, OldIsReady DEF NewBook, Configures, Promotes, Repoints
<1> QED
  BY <1>4, <1>5, <1>6, <1>7 DEF ScriptInv, Versions

LEMMA TokenShieldStarts ==
    ASSUME Deployed, sends = TokenShield PROVE ScriptInv
<1>1. /\ sends \in Seq(Tx) /\ DOMAIN sends = 1..5 /\ Len(sends) = 5
      /\ sends[1] = Allow("vault2", "v1")
      /\ sends[2] = Allow("vault2", "disputes")
      /\ sends[3] = Promote("vault", FALSE)
      /\ sends[4] = Rewire("v2")
      /\ sends[5] = DisputesTo("v1", "v2")
  <2>1. /\ Allow("vault2", "v1") \in Tx
        /\ Allow("vault2", "disputes") \in Tx
        /\ Promote("vault", FALSE) \in Tx
        /\ Rewire("v2") \in Tx
        /\ DisputesTo("v1", "v2") \in Tx
    BY AllTx DEF Versions
  <2>2. Len(sends) = 5 /\ DOMAIN sends = 1..5
    BY DEF TokenShield
  <2>3. sends \in Seq(Tx)
    BY <2>1, TuplesOf5 DEF TokenShield
  <2> QED
    BY <2>2, <2>3 DEF TokenShield
<1>2. \A k \in DOMAIN sends : k \in {1, 2, 3, 4, 5}
  BY <1>1
<1>3. /\ sends[1].do = "allow"
      /\ sends[2].do = "allow"
      /\ sends[3].do = "promote" /\ sends[3].name = "vault"
      /\ sends[4].do = "configure" /\ sends[4].book = "v1" /\ sends[4].vault = "v2"
      /\ sends[5].do = "disputes" /\ sends[5].book = "v1" /\ sends[5].vault = "v2"
  <2>1. sends[1].do = "allow"
    BY <1>1 DEF Allow
  <2>2. sends[2].do = "allow"
    BY <1>1 DEF Allow
  <2>3. sends[3].do = "promote" /\ sends[3].name = "vault"
    BY <1>1 DEF Promote
  <2>4. sends[4].do = "configure" /\ sends[4].book = "v1" /\ sends[4].vault = "v2"
    BY <1>1 DEF Rewire
  <2>5. sends[5].do = "disputes" /\ sends[5].book = "v1" /\ sends[5].vault = "v2"
    BY <1>1 DEF DisputesTo
  <2> QED
    BY <2>1, <2>2, <2>3, <2>4, <2>5
<1>4. ScriptTypes
  BY <1>1 DEF ScriptTypes, Deployed, Versions, Chain
<1>5. OldBook
  <2>1. Ready(4, "vault2", "v1")
    BY <1>1 DEF Ready
  <2> QED
    BY <1>2, <1>3, <2>1, Vaults, OldIsReady DEF OldBook, Versions, Configures
<1>6. Rulings
  <2>1. Ready(5, "vault2", "disputes")
    BY <1>1 DEF Ready
  <2> QED
    BY <1>2, <1>3, <2>1, Vaults, OldIsReady DEF Rulings, Repoints
<1>7. NewBook("v2", "v2")
  BY <1>2, <1>3, OldIsReady DEF NewBook, Configures, Promotes, Repoints
<1> QED
  BY <1>4, <1>5, <1>6, <1>7 DEF ScriptInv, Versions

-----------------------------------------------------------------------------
(* The script's steps: what was the k-th transaction from here is the next   *)
(* one's k-1st.                                                              *)

LEMMA Shift ==
    ASSUME ScriptTypes, sends # <<>>, sends' = Tail(sends)
    PROVE  /\ Len(sends) \in Nat \ {0} /\ 1 \in DOMAIN sends
           /\ sends' \in Seq(Tx) /\ Len(sends') = Len(sends) - 1
           /\ \A k \in DOMAIN sends' :
                 k \in Nat \ {0} /\ k + 1 \in DOMAIN sends /\ sends'[k] = sends[k + 1]
           /\ \A k \in DOMAIN sends : k \in Nat \ {0} /\ (k = 1 \/ k - 1 \in DOMAIN sends')
BY DEF ScriptTypes

\* The next transaction is carried out, and the rest is left.
Mined ==
    /\ sends # <<>> /\ sends' = Tail(sends)
    /\ LET tx == sends[1] IN
          /\ allowed' = IF tx.do = "allow" THEN allowed \cup {<<tx.where, tx.who>>} ELSE allowed
          /\ vaultOf' = IF tx.do = "configure"
                        THEN [vaultOf EXCEPT ![tx.book] = tx.vault] ELSE vaultOf
          /\ callerOf' = IF tx.do = "configure"
                         THEN [callerOf EXCEPT ![tx.book] = tx.settlement] ELSE callerOf
          /\ settles' = IF tx.do = "settlement"
                        THEN [settles EXCEPT ![tx.contract] = tx.book] ELSE settles
          /\ disputing' = IF tx.do = "disputes"
                          THEN [orders |-> tx.book, vault |-> tx.vault] ELSE disputing
          /\ current' = IF tx.do = "promote" /\ tx.name = "orders" THEN "v2" ELSE current
          /\ frozen' \in {frozen, IF tx.do = "promote" THEN frozen \cup {<<tx.name, "v1">>} ELSE frozen}

LEMMA SendMines == ASSUME ScriptTypes, Send PROVE Mined /\ UNCHANGED <<aborted, page, orders, disputes>>
<1>1. sends # <<>> /\ sends' = Tail(sends) /\ Head(sends) = sends[1]
  BY DEF Send, ScriptTypes
<1> DEFINE tx == sends[1]
<1>2. UNCHANGED <<aborted, page, orders, disputes>>
  BY DEF Send
<1>3. \/ /\ tx.do = "promote"
         /\ frozen' = IF tx.freeze THEN frozen \cup {<<tx.name, "v1">>} ELSE frozen
         /\ current' = IF tx.name = "orders" THEN "v2" ELSE current
         /\ UNCHANGED <<vaultOf, callerOf, settles, disputing, allowed>>
      \/ /\ tx.do = "configure"
         /\ vaultOf' = [vaultOf EXCEPT ![tx.book] = tx.vault]
         /\ callerOf' = [callerOf EXCEPT ![tx.book] = tx.settlement]
         /\ UNCHANGED <<frozen, current, settles, disputing, allowed>>
      \/ /\ tx.do = "allow"
         /\ allowed' = allowed \cup {<<tx.where, tx.who>>}
         /\ UNCHANGED <<frozen, current, vaultOf, callerOf, settles, disputing>>
      \/ /\ tx.do = "settlement"
         /\ settles' = [settles EXCEPT ![tx.contract] = tx.book]
         /\ UNCHANGED <<frozen, current, vaultOf, callerOf, disputing, allowed>>
      \/ /\ tx.do = "disputes"
         /\ disputing' = [orders |-> tx.book, vault |-> tx.vault]
         /\ UNCHANGED <<frozen, current, vaultOf, callerOf, settles, allowed>>
  BY <1>1 DEF Send, wires
<1> QED
  BY <1>1, <1>2, <1>3 DEF Mined

LEMMA ReadyKept ==
    ASSUME ScriptTypes, Mined, NEW w, NEW h, NEW k \in Nat \ {0}, Ready(k + 1, w, h)
    PROVE  Ready(k, w, h)'
<1>1. CASE <<w, h>> \in allowed
  BY <1>1 DEF Mined, Ready
<1>2. CASE \E j \in DOMAIN sends : j < k + 1 /\ sends[j] = Allow(w, h)
  <2>1. PICK j \in DOMAIN sends : j < k + 1 /\ sends[j] = Allow(w, h)
    BY <1>2
  <2>2. CASE j = 1
    <3>1. sends[1].do = "allow" /\ sends[1].where = w /\ sends[1].who = h
      BY <2>1, <2>2 DEF Allow
    <3> QED
      BY <3>1 DEF Mined, Ready
  <2>3. CASE j # 1
    <3>1. j - 1 \in DOMAIN sends' /\ sends'[j - 1] = sends[j] /\ j - 1 < k
      BY <2>1, <2>3, Shift DEF Mined
    <3> QED
      BY <2>1, <3>1 DEF Ready, Allow
  <2> QED
    BY <2>2, <2>3
<1> QED
  BY <1>1, <1>2 DEF Ready

\* Whoever is allowed stays so.
LEMMA NoneRevoked == ASSUME Mined PROVE allowed \subseteq allowed'
BY DEF Mined

\* The new book gets one configuration, so that a later one undoes nothing.
LEMMA ConfiguredKept ==
    ASSUME ScriptTypes, Mined, NEW v \in Versions, NEW s \in Versions, NewBook(v, s),
           NEW k \in Nat \ {0}, ConfiguredBy(k + 1, v, s)
    PROVE  ConfiguredBy(k, v, s)'
<1> DEFINE c == Configure(v, s)
<1>1. c.do = "configure" /\ c.book = "v2" /\ c.vault = v /\ c.settlement = s
  BY DEF Configure
<1>2. sends[1].do = "configure" /\ sends[1].book = "v2" => sends[1] = c
  BY Shift DEF Mined, NewBook, Configures
<1> HIDE DEF c
<1>3. CASE vaultOf["v2"] = v /\ callerOf["v2"] = s
  <2>1. vaultOf'["v2"] = v /\ callerOf'["v2"] = s
    BY <1>1, <1>2, <1>3 DEF Mined, ScriptTypes, Versions
  <2> QED
    BY <2>1 DEF ConfiguredBy
<1>4. CASE \E j \in DOMAIN sends : j < k + 1 /\ sends[j] = c
  <2>1. PICK j \in DOMAIN sends : j < k + 1 /\ sends[j] = c
    BY <1>4
  <2>2. CASE j = 1
    <3>1. vaultOf'["v2"] = v /\ callerOf'["v2"] = s
      BY <1>1, <2>1, <2>2 DEF Mined, ScriptTypes, Versions
    <3> QED
      BY <3>1 DEF ConfiguredBy
  <2>3. CASE j # 1
    <3>1. j - 1 \in DOMAIN sends' /\ sends'[j - 1] = sends[j] /\ j - 1 < k
      BY <2>1, <2>3, Shift DEF Mined
    <3> QED
      BY <2>1, <3>1 DEF ConfiguredBy, c, Configure
  <2> QED
    BY <2>2, <2>3
<1> QED
  BY <1>3, <1>4 DEF ConfiguredBy, c

LEMMA WiredKept ==
    ASSUME ScriptTypes, Mined, NEW v \in Versions, NEW s \in Versions, NewBook(v, s),
           NEW k \in Nat \ {0}, WiredBy(k + 1, v, s)
    PROVE  WiredBy(k, v, s)'
BY ReadyKept, ConfiguredKept DEF WiredBy

LEMMA SettledKept ==
    ASSUME ScriptTypes, Mined, NEW v \in Versions, NEW s \in Versions, NewBook(v, s),
           NEW k \in Nat \ {0}, SettledBy(k + 1, v, s)
    PROVE  SettledBy(k, v, s)'
<1>1. ConfiguredBy(k, v, s)'
  BY ConfiguredKept DEF SettledBy
<1>2. sends[1] \in Tx /\ 1 \in DOMAIN sends
  BY Shift DEF Mined, ScriptTypes
<1>3. sends[1].do = "settlement" => sends[1].contract \in Versions /\ sends[1].book = "v2"
  BY <1>2 DEF Tx
<1>4. CASE settles[s] = "v2"
  BY <1>1, <1>3, <1>4 DEF Mined, ScriptTypes, SettledBy
<1>5. CASE \E j \in DOMAIN sends : j < k + 1 /\ sends[j] = SettlementTo(s, "v2")
  <2>1. PICK j \in DOMAIN sends : j < k + 1 /\ sends[j] = SettlementTo(s, "v2")
    BY <1>5
  <2>2. CASE j = 1
    <3>1. sends[1].do = "settlement" /\ sends[1].contract = s /\ sends[1].book = "v2"
      BY <2>1, <2>2 DEF SettlementTo
    <3> QED
      BY <1>1, <3>1 DEF Mined, ScriptTypes, SettledBy
  <2>3. CASE j # 1
    <3>1. j - 1 \in DOMAIN sends' /\ sends'[j - 1] = sends[j] /\ j - 1 < k
      BY <2>1, <2>3, Shift DEF Mined
    <3> QED
      BY <1>1, <2>1, <3>1 DEF SettledBy, SettlementTo
  <2> QED
    BY <2>2, <2>3
<1> QED
  BY <1>4, <1>5 DEF SettledBy

LEMMA NowReady ==
    ASSUME ScriptTypes, NEW w, NEW h, Ready(1, w, h)
    PROVE  <<w, h>> \in allowed /\ Ready(2, w, h)
BY DEF Ready, ScriptTypes

LEMMA NowWired ==
    ASSUME ScriptTypes, NEW v, NEW s
    PROVE  /\ WiredBy(1, v, s) => WiredBy(1 + 1, v, s)
           /\ SettledBy(1, v, s) => SettledBy(1 + 1, v, s)
<1>1. ASSUME NEW w, NEW h, Ready(1, w, h) PROVE Ready(1 + 1, w, h)
  BY <1>1 DEF Ready, ScriptTypes
<1>2. ConfiguredBy(1, v, s) => ConfiguredBy(1 + 1, v, s)
  BY DEF ConfiguredBy, ScriptTypes
<1>3. SettledBy(1, v, s) => SettledBy(1 + 1, v, s)
  BY <1>2 DEF SettledBy, ScriptTypes
<1> QED
  BY <1>1, <1>2, <1>3 DEF WiredBy

LEMMA MinedTypes == ASSUME ScriptTypes, Mined PROVE ScriptTypes'
<1>1. sends[1] \in Tx /\ sends' \in Seq(Tx)
  BY Shift DEF Mined, ScriptTypes
<1>2. /\ sends[1].do = "configure" =>
            sends[1].book \in Versions /\ sends[1].vault \in Versions /\ sends[1].settlement \in Versions
      /\ sends[1].do = "settlement" => sends[1].contract \in Versions /\ sends[1].book \in Versions
      /\ sends[1].do = "disputes" => sends[1].book \in Versions /\ sends[1].vault \in Versions
  BY <1>1 DEF Tx, Versions
<1> QED
  BY <1>1, <1>2 DEF Mined, ScriptTypes, Versions, Chain

LEMMA MinedOldBook == ASSUME ScriptTypes, OldBook, Mined PROVE OldBook'
<1>1. sends[1] \in Tx /\ 1 \in DOMAIN sends
  BY Shift DEF Mined, ScriptTypes
<1>2. allowed \subseteq allowed'
  BY NoneRevoked
<1>3. vaultOf'["v1"] \in Versions /\ <<Vault[vaultOf'["v1"]], "v1">> \in allowed'
  <2>1. CASE Configures(1, "v1")
    <3>1. sends[1].vault \in Versions
      BY <1>1, <2>1 DEF Tx, Configures
    <3>2. <<Vault[sends[1].vault], "v1">> \in allowed
      BY <1>1, <2>1, NowReady DEF OldBook
    <3>3. vaultOf'["v1"] = sends[1].vault
      BY <2>1 DEF Configures, Mined, ScriptTypes, Versions
    <3> QED
      BY <1>2, <3>1, <3>2, <3>3
  <2>2. CASE ~Configures(1, "v1")
    <3>1. vaultOf'["v1"] = vaultOf["v1"]
      BY <2>2 DEF Configures, Mined, ScriptTypes, Versions
    <3> QED
      BY <1>2, <3>1 DEF OldBook
  <2> QED
    BY <2>1, <2>2
<1>4. ASSUME NEW k \in DOMAIN sends', Configures(k, "v1")'
      PROVE  Ready(k, Vault[sends[k].vault], "v1")'
  <2>1. k \in Nat \ {0} /\ k + 1 \in DOMAIN sends /\ sends'[k] = sends[k + 1]
    BY Shift DEF Mined
  <2>2. PICK w : w = Vault[sends[k + 1].vault]
    OBVIOUS
  <2>3. Ready(k + 1, w, "v1")
    BY <1>4, <2>1, <2>2 DEF OldBook, Configures
  <2>4. Ready(k, w, "v1")'
    BY <2>1, <2>3, ReadyKept
  <2> QED
    BY <2>1, <2>2, <2>4
<1> QED
  BY <1>2, <1>3, <1>4 DEF OldBook

LEMMA MinedRulings == ASSUME ScriptTypes, Rulings, Mined PROVE Rulings'
<1>1. sends[1] \in Tx /\ 1 \in DOMAIN sends
  BY Shift DEF Mined, ScriptTypes
<1>2. allowed \subseteq allowed'
  BY NoneRevoked
<1>3. <<Vault[disputing'.vault], "disputes">> \in allowed'
  <2>1. CASE sends[1].do = "disputes"
    <3>1. <<Vault[sends[1].vault], "disputes">> \in allowed
      BY <1>1, <2>1, NowReady DEF Rulings
    <3>2. disputing'.vault = sends[1].vault
      BY <2>1 DEF Mined
    <3> QED
      BY <1>2, <3>1, <3>2
  <2>2. CASE sends[1].do # "disputes"
    BY <1>2, <2>2 DEF Mined, Rulings
  <2> QED
    BY <2>1, <2>2
<1>4. ASSUME NEW k \in DOMAIN sends', sends'[k].do = "disputes"
      PROVE  Ready(k, Vault[sends[k].vault], "disputes")'
  <2>1. k \in Nat \ {0} /\ k + 1 \in DOMAIN sends /\ sends'[k] = sends[k + 1]
    BY Shift DEF Mined
  <2>2. PICK w : w = Vault[sends[k + 1].vault]
    OBVIOUS
  <2>3. Ready(k + 1, w, "disputes")
    BY <1>4, <2>1, <2>2 DEF Rulings
  <2>4. Ready(k, w, "disputes")'
    BY <2>1, <2>3, ReadyKept
  <2> QED
    BY <2>1, <2>2, <2>4
<1>5. ASSUME NEW k \in DOMAIN sends', Repoints(k, "v1")'
      PROVE  disputing'.orders = "v1" /\ \A j \in DOMAIN sends' : ~Repoints(j, "v2")'
  <2>1. k + 1 \in DOMAIN sends /\ Repoints(k + 1, "v1")
    BY <1>5, Shift DEF Mined, Repoints
  <2>2. disputing.orders = "v1" /\ \A j \in DOMAIN sends : ~Repoints(j, "v2")
    BY <2>1 DEF Rulings
  <2>3. \A j \in DOMAIN sends' : ~Repoints(j, "v2")'
    BY <2>2, Shift DEF Mined, Repoints
  <2>4. sends[1].do = "disputes" => sends[1].book = "v1"
    BY <1>1, <2>2 DEF Tx, Repoints, Versions
  <2> QED
    BY <2>2, <2>3, <2>4 DEF Mined
<1> QED
  BY <1>3, <1>4, <1>5 DEF Rulings

LEMMA MinedNewBook ==
    ASSUME ScriptTypes, Mined, UNCHANGED aborted,
           NEW v \in Versions, NEW s \in Versions, NewBook(v, s)
    PROVE  NewBook(v, s)'
<1>1. sends[1] \in Tx /\ 1 \in DOMAIN sends
  BY Shift DEF Mined, ScriptTypes
<1>2. /\ \A k \in DOMAIN sends' :
            k \in Nat \ {0} /\ k + 1 \in DOMAIN sends /\ sends'[k] = sends[k + 1]
      /\ Len(sends') + 1 = Len(sends) /\ Len(sends') \in Nat
  BY Shift DEF Mined
<1>3. \A k \in DOMAIN sends' : Configures(k, "v2")' => sends'[k] = Configure(v, s)
  BY <1>2 DEF NewBook, Configures
<1>4. <<"settlement", s>> \notin frozen'
  BY <1>1 DEF NewBook, Mined, Promotes, Versions
<1>5. s = "v1" => \A k \in DOMAIN sends' : ~Promotes(k, "settlement")'
  BY <1>2 DEF NewBook, Promotes
<1>6. current' = "v2" => current = "v2" \/ Promotes(1, "orders")
  BY DEF Mined, Promotes
<1>7. ASSUME WiredFirst
      PROVE  /\ \A k \in DOMAIN sends' : Promotes(k, "orders")' => WiredBy(k, v, s)'
             /\ current' = "v2" => WiredBy(1, v, s)'
  <2>1. ASSUME NEW k \in DOMAIN sends', Promotes(k, "orders")' PROVE WiredBy(k, v, s)'
    <3>1. Promotes(k + 1, "orders")
      BY <1>2, <2>1 DEF Promotes
    <3> QED
      BY <1>2, <1>7, <3>1, WiredKept DEF NewBook
  <2>2. ASSUME current' = "v2" PROVE WiredBy(1, v, s)'
    <3>1. WiredBy(1, v, s)
      BY <1>1, <1>6, <1>7, <2>2 DEF NewBook
    <3> QED
      BY <3>1, NowWired, WiredKept
  <2> QED
    BY <2>1, <2>2
<1>8. ASSUME current' = "v2" \/ (\E k \in DOMAIN sends' : Promotes(k, "orders")'), ~aborted'
      PROVE  WiredBy(Len(sends) + 1, v, s)'
  <2>1. current = "v2" \/ (\E k \in DOMAIN sends : Promotes(k, "orders"))
    BY <1>1, <1>2, <1>6, <1>8 DEF Promotes
  <2>2. PICK n \in Nat : n = Len(sends)
    BY DEF ScriptTypes
  <2>3. WiredBy(n + 1, v, s)
    BY <1>8, <2>1, <2>2 DEF NewBook
  <2>4. n \in Nat \ {0} /\ n = Len(sends') + 1
    BY <1>2, <2>2
  <2>5. WiredBy(n, v, s)'
    BY <2>3, <2>4, WiredKept
  <2> QED
    BY <2>4, <2>5
<1>9. \A k \in DOMAIN sends' : Repoints(k, "v2")' => SettledBy(k, v, s)'
  <2> SUFFICES ASSUME NEW k \in DOMAIN sends', Repoints(k, "v2")' PROVE SettledBy(k, v, s)'
    OBVIOUS
  <2>1. Repoints(k + 1, "v2")
    BY <1>2 DEF Repoints
  <2> QED
    BY <1>2, <2>1, SettledKept DEF NewBook
<1>10. disputing'.orders = "v2" => SettledBy(1, v, s)'
  <2> SUFFICES ASSUME disputing'.orders = "v2" PROVE SettledBy(1, v, s)'
    OBVIOUS
  <2>1. disputing.orders = "v2" \/ Repoints(1, "v2")
    BY DEF Mined, Repoints
  <2>2. SettledBy(1, v, s)
    BY <1>1, <2>1 DEF NewBook
  <2> QED
    BY <2>2, NowWired, SettledKept
<1> QED
  BY <1>3, <1>4, <1>5, <1>7, <1>8, <1>9, <1>10 DEF NewBook, WiredFirst

\* A script that stops leaves what it has sent.
LEMMA Stopped ==
    ASSUME ScriptInv, sends' = <<>>, aborted' = TRUE, UNCHANGED <<current, frozen, wires>>
    PROVE  ScriptInv'
<1>1. ScriptTypes'
  BY DEF ScriptInv, ScriptTypes, wires
<1>2. DOMAIN sends' = {}
  OBVIOUS
<1>3. OldBook' /\ Rulings'
  BY <1>2 DEF ScriptInv, OldBook, Rulings, wires
<1>4. PICK v \in Versions, s \in Versions : NewBook(v, s)
  BY DEF ScriptInv
<1>5. ASSUME NEW w, NEW h, Ready(1, w, h) PROVE Ready(1, w, h)'
  BY <1>5 DEF Ready, ScriptInv, ScriptTypes, wires
<1>6. ConfiguredBy(1, v, s) => ConfiguredBy(1, v, s)'
  BY DEF ConfiguredBy, ScriptInv, ScriptTypes, wires
<1>7. /\ WiredBy(1, v, s) => WiredBy(1, v, s)'
      /\ SettledBy(1, v, s) => SettledBy(1, v, s)'
  <2>1. WiredBy(1, v, s) => WiredBy(1, v, s)'
    BY <1>5, <1>6 DEF WiredBy
  <2>2. SettledBy(1, v, s) => SettledBy(1, v, s)'
    BY <1>6 DEF SettledBy, ScriptInv, ScriptTypes, wires
  <2> QED
    BY <2>1, <2>2
<1>8. NewBook(v, s)'
  BY <1>2, <1>4, <1>7 DEF NewBook, wires, WiredFirst
<1> QED
  BY <1>1, <1>3, <1>4, <1>8 DEF ScriptInv

LEMMA ScriptStep ==
    ASSUME ScriptInv, Mined, UNCHANGED aborted
    PROVE  ScriptInv'
<1>1. PICK v \in Versions, s \in Versions : NewBook(v, s)
  BY DEF ScriptInv
<1>2. NewBook(v, s)'
  BY <1>1, MinedNewBook DEF ScriptInv
<1> QED
  BY <1>2, MinedTypes, MinedOldBook, MinedRulings DEF ScriptInv

LEMMA PreflightStep == ASSUME ScriptInv, Preflight PROVE ScriptInv'
<1>1. CASE sends' = <<>> /\ aborted' = TRUE
  BY <1>1, Stopped DEF Preflight
<1>2. CASE sends' = Tail(sends) /\ UNCHANGED aborted
  <2>1. sends # <<>> /\ sends[1].do = "preflight"
    BY DEF Preflight, ScriptInv, ScriptTypes
  <2>2. Mined
    BY <1>2, <2>1 DEF Preflight, Mined, wires
  <2> QED
    BY <1>2, <2>2, ScriptStep
<1> QED
  BY <1>1, <1>2 DEF Preflight

\* Nobody but the script changes what is wired to what.
LEMMA SameScript ==
    ASSUME ScriptInv, UNCHANGED <<sends, aborted, current, frozen, wires>>
    PROVE  ScriptInv'
<1>1. UNCHANGED <<sends, aborted, current, frozen, vaultOf, callerOf, settles, disputing, allowed>>
  BY DEF wires
<1>2. PICK v \in Versions, s \in Versions : NewBook(v, s)
  BY DEF ScriptInv
<1>3. NewBook(v, s)'
  BY <1>1, <1>2 DEF NewBook, Configures, Promotes, Repoints, WiredBy, SettledBy, ConfiguredBy,
     Ready, WiredFirst
<1> QED
  BY <1>1, <1>3 DEF ScriptInv, ScriptTypes, OldBook, Rulings, Configures, Repoints, Ready

-----------------------------------------------------------------------------
(* The books' steps.                                                         *)

LEMMA SameBooks ==
    ASSUME BookInv, UNCHANGED <<page, orders, disputes>>, current' \in {current, "v2"},
           disputing'.orders = "v1" => disputing.orders = "v1"
    PROVE  BookInv'
BY DEF BookInv, StatusOf

\* A step outside of the disputes contract touches no disputed order.
LEMMA BookWritten ==
    ASSUME UInv, BookInv, NEW b \in Versions, NEW o, NEW s \in Statuses,
           StatusOf(b, o) \in {"Open", "Assigned", "PickedUp"},
           SetStatus(b, o, s), chainSame, UNCHANGED disputes
    PROVE  BookInv'
<1>1. /\ \A c \in Versions : DOMAIN orders'[c] = DOMAIN orders[c]
      /\ \A c \in Versions : \A p \in DOMAIN orders[c] :
            <<c, p>> # <<b, o>> => orders'[c][p] = orders[c][p]
  BY Written DEF UInv
<1>2. page' = page /\ current' = current /\ disputing' = disputing /\ disputes' = disputes
  BY DEF chainSame, wires
<1>3. ASSUME NEW i \in DOMAIN disputes
      PROVE  StatusOf(disputes[i].book, disputes[i].order)' \in {"Disputed", "Resolved"}
  <2> DEFINE c == disputes[i].book
             p == disputes[i].order
  <2>1. StatusOf(c, p) \in {"Disputed", "Resolved"}
    BY DEF BookInv
  <2> HIDE DEF c, p
  <2>2. c \in Versions /\ p \in DOMAIN orders[c] /\ <<c, p>> # <<b, o>>
    BY <2>1 DEF StatusOf
  <2>3. orders'[c][p] = orders[c][p] /\ p \in DOMAIN orders'[c]
    BY <1>1, <2>2
  <2> QED
    BY <1>2, <2>1, <2>2, <2>3 DEF StatusOf, c, p
<1> QED
  BY <1>1, <1>2, <1>3 DEF BookInv, Versions

LEMMA BookCreate == ASSUME UInv, BookInv, CreateOrder PROVE BookInv'
<1>1. /\ page \in Versions /\ orders[page] \in Seq(Statuses) /\ "Open" \in Statuses
      /\ orders' = [orders EXCEPT ![page] = Append(orders[page], "Open")]
  BY DEF UInv, UpgradeTypes, CreateOrder, Statuses
<1>2. /\ orders'[page] = Append(orders[page], "Open")
      /\ \A c \in Versions : c # page => orders'[c] = orders[c]
  BY <1>1 DEF UInv, UpgradeTypes
<1>3. \A c \in Versions : \A p \in DOMAIN orders[c] :
         p \in DOMAIN orders'[c] /\ orders'[c][p] = orders[c][p]
  BY <1>1, <1>2
<1>4. page' = page /\ current' = current /\ disputing' = disputing /\ disputes' = disputes
  BY DEF CreateOrder, chainSame, wires
<1>5. ASSUME NEW i \in DOMAIN disputes
      PROVE  StatusOf(disputes[i].book, disputes[i].order)' \in {"Disputed", "Resolved"}
  <2> DEFINE c == disputes[i].book
             p == disputes[i].order
  <2>1. StatusOf(c, p) \in {"Disputed", "Resolved"}
    BY DEF BookInv
  <2> HIDE DEF c, p
  <2>2. c \in Versions /\ p \in DOMAIN orders[c]
    BY <2>1 DEF StatusOf
  <2> QED
    BY <1>3, <1>4, <2>1, <2>2 DEF StatusOf, c, p
<1> QED
  BY <1>2, <1>4, <1>5 DEF BookInv, Versions

LEMMA BookDisputed ==
    ASSUME UInv, BookInv, NEW b \in Versions, NEW o \in Numbers, OpenDispute(b, o)
    PROVE  BookInv'
<1> DEFINE new == [order |-> o, book |-> b, status |-> "Open"]
<1>1. /\ o \in DOMAIN orders[b] /\ orders'[b][o] = "Disputed"
      /\ \A c \in Versions : DOMAIN orders'[c] = DOMAIN orders[c]
      /\ \A c \in Versions : \A p \in DOMAIN orders[c] :
            <<c, p>> # <<b, o>> => orders'[c][p] = orders[c][p]
  <2>1. "Disputed" \in Statuses /\ SetStatus(b, o, "Disputed") /\ StatusOf(b, o) # "None"
    BY DEF Statuses, OpenDispute
  <2> QED
    BY <2>1, Written DEF UInv
<1>2. /\ DOMAIN disputes' = DOMAIN disputes \cup {Len(disputes) + 1}
      /\ disputes'[Len(disputes) + 1] = new
      /\ \A i \in DOMAIN disputes : disputes'[i] = disputes[i]
  <2>1. disputes \in Seq(Dispute) /\ disputes' = Append(disputes, new)
    BY DEF UInv, UpgradeTypes, OpenDispute
  <2> QED
    BY <2>1
<1>3. page' = page /\ current' = current /\ disputing' = disputing /\ b = disputing.orders
  BY DEF OpenDispute, chainSame, wires
<1>4. ASSUME NEW i \in DOMAIN disputes'
      PROVE  /\ StatusOf(disputes[i].book, disputes[i].order)' \in {"Disputed", "Resolved"}
             /\ disputing'.orders = "v1" => disputes'[i].book = "v1"
  <2>1. CASE disputes'[i] = new
    BY <1>1, <1>3, <2>1 DEF StatusOf
  <2>2. CASE disputes'[i] # new
    <3> DEFINE c == disputes[i].book
               p == disputes[i].order
    <3>1. i \in DOMAIN disputes /\ disputes'[i] = disputes[i]
      BY <1>2, <2>2
    <3>2. StatusOf(c, p) \in {"Disputed", "Resolved"} /\ (disputing.orders = "v1" => c = "v1")
      BY <3>1 DEF BookInv
    <3> HIDE DEF c, p
    <3>3. c \in Versions /\ p \in DOMAIN orders[c]
      BY <3>2 DEF StatusOf
    <3>4. orders'[c][p] \in {"Disputed", "Resolved"} /\ p \in DOMAIN orders'[c]
      BY <1>1, <3>2, <3>3 DEF StatusOf
    <3> QED
      BY <1>3, <3>1, <3>2, <3>3, <3>4 DEF StatusOf, c, p
  <2> QED
    BY <2>1, <2>2
<1> QED
  BY <1>1, <1>3, <1>4 DEF BookInv, Versions

LEMMA BookResolved ==
    ASSUME UInv, BookInv, NEW i \in DOMAIN disputes, Resolve(i)
    PROVE  BookInv'
<1>1. PICK b, o : /\ b = disputing.orders /\ o = disputes[i].order
                  /\ StatusOf(b, o) = "Disputed" /\ SetStatus(b, o, "Resolved")
  BY DEF Resolve
<1>2. b \in Versions
  BY <1>1 DEF StatusOf
<1>3. /\ orders'[b][o] = "Resolved" 
      /\ \A c \in Versions : DOMAIN orders'[c] = DOMAIN orders[c]
      /\ \A c \in Versions : \A p \in DOMAIN orders[c] :
            <<c, p>> # <<b, o>> => orders'[c][p] = orders[c][p]
  <2>1. "Resolved" \in Statuses
    BY DEF Statuses
  <2> QED
    BY <1>1, <1>2, <2>1, Written DEF UInv
<1>4. page' = page /\ current' = current /\ disputing' = disputing
  BY DEF Resolve, chainSame, wires
<1>5. /\ DOMAIN disputes' = DOMAIN disputes
      /\ \A j \in DOMAIN disputes : disputes'[j].book = disputes[j].book
                                    /\ disputes'[j].order = disputes[j].order
  <2>1. disputes \in Seq(Dispute) /\ disputes' = [disputes EXCEPT ![i].status = "Resolved"]
    BY DEF UInv, UpgradeTypes, Resolve
  <2>2. \A j \in DOMAIN disputes : disputes[j] \in Dispute
    BY <2>1
  <2> QED
    BY <2>1, <2>2 DEF Dispute
<1>6. ASSUME NEW j \in DOMAIN disputes
      PROVE  /\ StatusOf(disputes[j].book, disputes[j].order)' \in {"Disputed", "Resolved"}
             /\ disputing'.orders = "v1" => disputes'[j].book = "v1"
  <2> DEFINE c == disputes[j].book
             p == disputes[j].order
  <2>1. StatusOf(c, p) \in {"Disputed", "Resolved"} /\ (disputing.orders = "v1" => c = "v1")
    BY DEF BookInv
  <2> HIDE DEF c, p
  <2>2. c \in Versions /\ p \in DOMAIN orders[c]
    BY <2>1 DEF StatusOf
  <2>3. orders'[c][p] \in {"Disputed", "Resolved"} /\ p \in DOMAIN orders'[c]
    BY <1>3, <2>1, <2>2 DEF StatusOf
  <2> QED
    BY <1>4, <1>5, <2>1, <2>2, <2>3 DEF StatusOf, c, p
<1> QED
  BY <1>3, <1>4, <1>5, <1>6 DEF BookInv, Versions

WiresInv == ScriptInv /\ BookInv

LEMMA NextWires == UInv /\ WiresInv /\ [Next]_vars => WiresInv'
<1> SUFFICES ASSUME UInv, WiresInv, [Next]_vars PROVE WiresInv'
  OBVIOUS
<1>types. page \in Versions /\ current \in Versions
  BY DEF UInv, UpgradeTypes
<1>1. CASE Send
  <2>1. Mined /\ UNCHANGED <<aborted, page, orders, disputes>>
    BY <1>1, SendMines DEF WiresInv, ScriptInv
  <2>2. current' \in {current, "v2"}
    BY <2>1 DEF Mined
  <2>3. disputing'.orders = "v1" => disputing.orders = "v1"
    <3>1. CASE sends[1].do = "disputes"
      <4>1. 1 \in DOMAIN sends
        BY <2>1, Shift DEF Mined, WiresInv, ScriptInv
      <4> QED
        BY <2>1, <3>1, <4>1 DEF Mined, WiresInv, ScriptInv, Rulings, Repoints
    <3>2. CASE sends[1].do # "disputes"
      BY <2>1, <3>2 DEF Mined
    <3> QED
      BY <3>1, <3>2
  <2> QED
    BY <2>1, <2>2, <2>3, ScriptStep, SameBooks DEF WiresInv
<1>2. CASE Preflight
  BY <1>2, PreflightStep, SameBooks DEF WiresInv, Preflight, wires
<1>3. CASE Abort
  BY <1>3, Stopped, SameBooks DEF WiresInv, Abort, wires
<1>4. CASE LoadPage
  <2>1. BookInv'
    BY <1>4 DEF LoadPage, WiresInv, BookInv, StatusOf, wires
  <2> QED
    BY <1>4, <2>1, SameScript DEF LoadPage, WiresInv
<1>5. CASE CreateOrder
  BY <1>5, SameScript, BookCreate DEF CreateOrder, WiresInv, chainSame
<1>6. ASSUME NEW b \in Versions, NEW o \in Numbers,
             AcceptBid(b, o) \/ CancelOpen(b, o) \/ (\E strike \in BOOLEAN : LeaveAssigned(b, o, strike))
             \/ ConfirmPickup(b, o) \/ ConfirmDropoff(b, o)
      PROVE  WiresInv'
  <2>1. PICK s \in {"Assigned", "Cancelled", "PickedUp", "Delivered"} :
           /\ StatusOf(b, o) \in {"Open", "Assigned", "PickedUp"}
           /\ SetStatus(b, o, s) /\ chainSame /\ UNCHANGED disputes
    BY <1>6 DEF AcceptBid, CancelOpen, LeaveAssigned, ConfirmPickup, ConfirmDropoff
  <2> QED
    BY <2>1, SameScript, BookWritten DEF Statuses, WiresInv, chainSame
<1>7. ASSUME NEW b \in Versions, NEW o \in Numbers, OpenDispute(b, o) PROVE WiresInv'
  BY <1>7, SameScript, BookDisputed DEF OpenDispute, WiresInv, chainSame
<1>8. ASSUME NEW i \in DOMAIN disputes, Resolve(i) PROVE WiresInv'
  BY <1>8, SameScript, BookResolved DEF Resolve, WiresInv, chainSame
<1>9. CASE UNCHANGED vars
  BY <1>9, SameScript, SameBooks DEF vars, WiresInv, wires
<1> QED
  BY <1>1, <1>2, <1>3, <1>4, <1>5, <1>6, <1>7, <1>8, <1>9 DEF Next, Script

LEMMA InitWires == Init => WiresInv
<1> SUFFICES ASSUME Init PROVE WiresInv
  OBVIOUS
<1>1. Deployed
  BY DEF Init, Deployed
<1>2. PICK script \in Scripts : sends = Sends[script]
  BY DEF Init
<1>3. ScriptInv
  <2>1. script \in DOMAIN Sends
    BY <1>2, ScriptsAssumption
  <2>2. \/ script = "orders" /\ sends = RegionOrders
        \/ sends \in {GaslessOrders, ServiceFee, Forwarder, Privacy, LegacyPaths, Stablecoin, TokenShield}
    BY <1>2, <2>1 DEF Sends
  <2> QED
    BY <1>1, <1>2, <2>2, RegionOrdersStarts, GaslessOrdersStarts, ForwarderStarts, PrivacyStarts,
       StablecoinStarts, LegacyPathsStarts, TokenShieldStarts DEF ServiceFee
<1>4. BookInv
  BY DEF Init, BookInv, Versions
<1> QED
  BY <1>3, <1>4 DEF WiresInv

-----------------------------------------------------------------------------
\* The call that ends the order is accepted as things stand, or an upgrade has
\* cut the order off: cancelOpen, cancelAssigned (or abandonOrder), a confirmation
\* or a dispute, a ruling.
ExitRemains(b, o) ==
    /\ StatusOf(b, o) = "Open" => CanCredit(b)
    /\ StatusOf(b, o) = "Assigned" => CanCredit(b) /\ CanRecord("drivers", b)
    /\ StatusOf(b, o) = "PickedUp" =>
          \/ /\ \E s \in Versions : Settling(s, b)
             /\ CanCredit(b) /\ CanRecord("drivers", b)
          \/ disputing.orders = b /\ ~AlreadyDisputed(o)
          \/ CutOff(b, o)
    /\ StatusOf(b, o) = "Disputed" =>
          \/ /\ OpenFor(b, o) /\ disputing.orders = b
             /\ CanCredit(b) /\ <<Vault[disputing.vault], "disputes">> \in allowed
          \/ CutOff(b, o)

ExitsRemain ==
    \A b \in Versions, o \in Numbers :
       b = "v1" \/ WiredFirst \/ (sends = <<>> /\ ~aborted) => ExitRemains(b, o)

LEMMA NewBookIsWired ==
    ASSUME WiresInv, WiredFirst \/ (sends = <<>> /\ ~aborted), DOMAIN orders["v2"] # {}
    PROVE  CanCredit("v2") /\ CanRecord("drivers", "v2")
<1>1. PICK v \in Versions, s \in Versions : NewBook(v, s)
  BY DEF WiresInv, ScriptInv
<1>2. current = "v2"
  BY DEF WiresInv, BookInv
<1>3. WiredBy(1, v, s)
  <2>1. sends = <<>> => Len(sends) + 1 = 1
    OBVIOUS
  <2> QED
    BY <1>1, <1>2, <2>1 DEF NewBook
<1>4. <<Vault[v], "v2">> \in allowed /\ <<"drivers", "v2">> \in allowed
  BY <1>3, NowReady DEF WiredBy, WiresInv, ScriptInv
<1>5. vaultOf["v2"] = v
  BY <1>3 DEF WiredBy, ConfiguredBy, WiresInv, ScriptInv, ScriptTypes
<1> QED
  BY <1>4, <1>5 DEF CanCredit, CanRecord, Versions

LEMMA WiredExits == UInv /\ WiresInv => ExitsRemain
<1> SUFFICES ASSUME UInv, WiresInv, NEW b \in Versions, NEW o \in Numbers,
                    b = "v1" \/ WiredFirst \/ (sends = <<>> /\ ~aborted),
                    StatusOf(b, o) # "None"
             PROVE  ExitRemains(b, o)
  BY DEF ExitsRemain, ExitRemains
<1>1. o \in DOMAIN orders[b] /\ StatusOf(b, o) = orders[b][o]
  BY DEF StatusOf
<1>2. CanCredit(b) /\ CanRecord("drivers", b)
  <2>1. CASE b = "v1"
    BY <2>1 DEF CanCredit, CanRecord, WiresInv, ScriptInv, OldBook, Versions
  <2>2. CASE b # "v1"
    <3>1. b = "v2"
      BY <2>2 DEF Versions
    <3> QED
      BY <1>1, <2>2, <3>1, NewBookIsWired
  <2> QED
    BY <2>1, <2>2
<1>3. ASSUME StatusOf(b, o) = "PickedUp", ~CutOff(b, o), ~\E s \in Versions : Settling(s, b)
      PROVE  disputing.orders = b /\ ~AlreadyDisputed(o)
  <2>1. disputing.orders = b
    BY <1>3 DEF CutOff
  <2>2. b # "v2"
    <3> SUFFICES ASSUME b = "v2" PROVE FALSE
      OBVIOUS
    <3>1. PICK v \in Versions, s \in Versions : NewBook(v, s)
      BY DEF WiresInv, ScriptInv
    <3>2. SettledBy(1, v, s) /\ <<"settlement", s>> \notin frozen
      BY <2>1, <3>1 DEF NewBook
    <3>3. settles[s] = "v2" /\ callerOf["v2"] = s
      BY <3>2 DEF SettledBy, ConfiguredBy, WiresInv, ScriptInv, ScriptTypes
    <3> QED
      BY <1>3, <3>2, <3>3 DEF Settling, IsFrozen
  <2>3. ASSUME NEW i \in DOMAIN disputes, disputes[i].order = o PROVE FALSE
    <3>1. disputes[i].book = b
      BY <2>1, <2>2 DEF WiresInv, BookInv, Versions
    <3>2. StatusOf(b, o) \in {"Disputed", "Resolved"}
      BY <2>3, <3>1 DEF WiresInv, BookInv
    <3> QED
      BY <1>3, <3>2
  <2> QED
    BY <2>1, <2>3 DEF AlreadyDisputed
<1>4. ASSUME StatusOf(b, o) = "Disputed", ~CutOff(b, o)
      PROVE  /\ OpenFor(b, o) /\ disputing.orders = b
             /\ <<Vault[disputing.vault], "disputes">> \in allowed
  BY <1>1, <1>4 DEF CutOff, UInv, DisputedHaveDisputes, WiresInv, ScriptInv, Rulings
<1> QED
  BY <1>2, <1>3, <1>4 DEF ExitRemains

\* Before, between and after the transactions of any migration script, and if
\* it dies between two of them: whatever an order has come to, the call that ends
\* it finds its vault, its authorizations and its callers in place, unless the
\* upgrade cut the order off.  A book that upgrade-orders promotes before it wires
\* it has to wait for the end of the script.  That the call comes is OrdersEnd.
THEOREM MigrationsKeepExits == Spec => []ExitsRemain
<1>1. Spec => []UInv
  BY InitUInv, NextUInv, PTL DEF Spec
<1>2. Spec => []WiresInv
  BY <1>1, InitWires, NextWires, PTL DEF Spec
<1> QED
  BY <1>1, <1>2, WiredExits, PTL
=============================================================================
