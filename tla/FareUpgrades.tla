---------------------------- MODULE FareUpgrades ----------------------------
(***************************************************************************)
(* An upgrade of the order book while orders are in flight: the router     *)
(* that promotes and freezes contracts, the pointers the contracts keep to *)
(* one another, one of the repository's migration scripts sending its      *)
(* transactions one by one, and customers, drivers and the arbiter whose   *)
(* transactions land between them.                                         *)
(*                                                                         *)
(* A contract is written as its version, "v1" for the instance that was    *)
(* live and "v2" for the one the script deploys; a pointer not set yet is  *)
(* "none".  Order numbers start at 1 in each book.                         *)
(***************************************************************************)
EXTENDS Naturals, Sequences

CONSTANTS Scripts,    \* the migrations considered, a subset of DOMAIN Sends
          MaxOrders   \* bound: orders placed in one book

ASSUME MaxOrdersAssumption == MaxOrders \in Nat \ {0}

Versions == {"v1", "v2"}
Vault    == [v1 |-> "vault1", v2 |-> "vault2"]   \* as a registry of who may call
Numbers  == 1 .. MaxOrders

VARIABLES sends,      \* what the script has left to send
          aborted,    \* the script gave up on a transaction
          current,    \* router.currentAddrOf["orders"]
          frozen,     \* <<name, version>> of every frozen contract
          vaultOf,    \* FareOrders.vault, per book
          callerOf,   \* FareOrders.settlement, per book
          settles,    \* FareSettlement.orders, per settlement contract
          disputing,  \* FareDisputes.orders and .vault
          allowed,    \* <<registry, who>>: who may credit a vault or record
          page,       \* the order book the customer's open page talks to
          orders,     \* per book, the status of each order
          disputes    \* FareDisputes.disputes, with the book each was opened in

wires == <<vaultOf, callerOf, settles, disputing, allowed>>
vars  == <<sends, aborted, current, frozen, wires, page, orders, disputes>>

-----------------------------------------------------------------------------
(* The transactions a script sends. *)

Configure(v, s)   == [do |-> "configure", book |-> "v2", vault |-> v, settlement |-> s]
Rewire(v)         == [do |-> "configure", book |-> "v1", vault |-> v, settlement |-> "v1"]
Allow(where, who) == [do |-> "allow", where |-> where, who |-> who]
Promote(name, freeze) == [do |-> "promote", name |-> name, freeze |-> freeze]
SettlementTo(s, b) == [do |-> "settlement", contract |-> s, book |-> b]
DisputesTo(b, v)   == [do |-> "disputes", book |-> b, vault |-> v]

(* The book keeps its vault and its settlement: promoted before the        *)
(* successor is wired (upgrade-orders), or after (gasless, service fee).    *)
RegionOrders ==
    <<Promote("orders", TRUE), Configure("v1", "v1"),
      Allow("vault1", "v2"), Allow("drivers", "v2"), Allow("venues", "v2"),
      SettlementTo("v1", "v2"), DisputesTo("v2", "v1")>>
GaslessOrders ==
    <<Configure("v1", "v1"),
      Allow("vault1", "v2"), Allow("drivers", "v2"), Allow("venues", "v2"),
      Promote("orders", TRUE), SettlementTo("v1", "v2"), DisputesTo("v2", "v1")>>

ServiceFee == GaslessOrders

(* A new vault with the new book. *)
Forwarder ==
    <<Configure("v2", "v2"), SettlementTo("v2", "v2"),
      Allow("vault2", "v2"), Allow("vault2", "disputes"),
      Allow("drivers", "v2"), Allow("venues", "v2"),
      Promote("orders", TRUE), Promote("settlement", TRUE), Promote("vault", FALSE),
      DisputesTo("v2", "v2")>>
Privacy_NoDisputes ==
    <<Configure("v2", "v1"), Allow("vault2", "v2"),
      Allow("drivers", "v2"), Allow("venues", "v2"),
      Promote("orders", TRUE), Promote("vault", FALSE),
      SettlementTo("v1", "v2"), DisputesTo("v2", "v2")>>
Privacy ==
    <<Configure("v2", "v1"), Allow("vault2", "v2"), Allow("vault2", "disputes"),
      Allow("drivers", "v2"), Allow("venues", "v2"),
      Promote("orders", TRUE), Promote("vault", FALSE),
      SettlementTo("v1", "v2"), DisputesTo("v2", "v2")>>
Stablecoin ==
    <<Configure("v2", "v1"), Allow("vault2", "v2"), Allow("vault2", "disputes"),
      Allow("drivers", "v2"), Allow("venues", "v2"),
      SettlementTo("v1", "v2"), DisputesTo("v2", "v2"),
      Promote("orders", TRUE), Promote("vault", FALSE)>>

(* Privacy, after a look at the old book. *)
LegacyPaths ==
    <<[do |-> "preflight"],
      Configure("v2", "v1"), Allow("vault2", "v2"), Allow("vault2", "disputes"),
      Allow("drivers", "v2"), Allow("venues", "v2"),
      Promote("orders", TRUE), Promote("vault", FALSE),
      SettlementTo("v1", "v2"), DisputesTo("v2", "v2")>>

(* The vault alone, under the book that stays. *)
TokenShield ==
    <<Allow("vault2", "v1"), Allow("vault2", "disputes"),
      Promote("vault", FALSE), Rewire("v2"), DisputesTo("v1", "v2")>>

Sends == [orders        |-> RegionOrders, gasless |-> GaslessOrders, serviceFee |-> ServiceFee,
          f6f8          |-> Forwarder,    privacy |-> Privacy,   legacyPaths |-> LegacyPaths,
          c3            |-> Stablecoin,   tokenShield |-> TokenShield]

ASSUME ScriptsAssumption == Scripts \subseteq DOMAIN Sends

-----------------------------------------------------------------------------
(* The live deployment: everything points to version 1. *)

Init == /\ \E script \in Scripts : sends = Sends[script]
        /\ aborted = FALSE
        /\ current = "v1" /\ page = "v1"
        /\ frozen = {}
        /\ vaultOf = [v1 |-> "v1", v2 |-> "none"]
        /\ callerOf = [v1 |-> "v1", v2 |-> "none"]
        /\ settles = [v1 |-> "v1", v2 |-> "none"]
        /\ disputing = [orders |-> "v1", vault |-> "v1"]
        /\ allowed = {<<"vault1", "v1">>, <<"vault1", "disputes">>,
                      <<"drivers", "v1">>, <<"venues", "v1">>}
        /\ orders = [b \in Versions |-> <<>>]
        /\ disputes = <<>>

StatusOf(b, o) == IF b \in Versions /\ o \in DOMAIN orders[b] THEN orders[b][o] ELSE "None"
SetStatus(b, o, s) == orders' = [orders EXCEPT ![b][o] = s]

IsFrozen(name, v) == <<name, v>> \in frozen
(* The pointers are set and the vault takes the book's credits. *)
CanCredit(b)     == vaultOf[b] # "none" /\ <<Vault[vaultOf[b]], b>> \in allowed
CanRecord(at, b) == <<at, b>> \in allowed

-----------------------------------------------------------------------------
(* The script. *)

(* One transaction of the script is mined: a promotion freezes the contract *)
(* it replaces when asked to, every other transaction sets its pointer.     *)
Send ==
    /\ sends # <<>>
    /\ sends' = Tail(sends)
    /\ LET tx == Head(sends) IN
       \/ /\ tx.do = "promote"
          /\ frozen' = IF tx.freeze THEN frozen \cup {<<tx.name, "v1">>} ELSE frozen
          /\ current' = IF tx.name = "orders" THEN "v2" ELSE current
          /\ UNCHANGED wires
       \/ /\ tx.do = "configure"
          /\ vaultOf' = [vaultOf EXCEPT ![tx.book] = tx.vault]
          /\ callerOf' = [callerOf EXCEPT ![tx.book] = tx.settlement]
          /\ UNCHANGED <<frozen, current, settles, disputing, allowed>>
       \/ /\ tx.do = "allow"
          /\ allowed' = allowed \cup {<<tx.where, tx.who>>}
          /\ UNCHANGED <<frozen, current, vaultOf, callerOf, settles, disputing>>
       \/ /\ tx.do = "settlement"
          /\ settles' = [settles EXCEPT ![tx.contract] = tx.book]
          /\ UNCHANGED <<frozen, current, vaultOf, callerOf, disputing, allowed>>
       \/ /\ tx.do = "disputes"
          /\ disputing' = [orders |-> tx.book, vault |-> tx.vault]
          /\ UNCHANGED <<frozen, current, vaultOf, callerOf, settles, allowed>>
    /\ UNCHANGED <<aborted, page, orders, disputes>>

(* upgrade-remove-legacy-paths counts the orders assigned or picked up in   *)
(* the old book, once, before it deploys anything, and throws if it finds   *)
(* any, unless it is told to go on (ALLOW_INFLIGHT); disputed ones it does  *)
(* not count.                                                               *)
Preflight ==
    /\ sends # <<>> /\ Head(sends).do = "preflight"
    /\ \/ sends' = Tail(sends) /\ UNCHANGED aborted
       \/ /\ \E o \in DOMAIN orders["v1"] : orders["v1"][o] \in {"Assigned", "PickedUp"}
          /\ sends' = <<>> /\ aborted' = TRUE
    /\ UNCHANGED <<current, frozen, wires, page, orders, disputes>>

(* waitForNonce runs out of patience: the script throws, whatever it has    *)
(* done stays done.                                                         *)
Abort == /\ sends # <<>>
         /\ sends' = <<>> /\ aborted' = TRUE
         /\ UNCHANGED <<current, frozen, wires, page, orders, disputes>>

(* A page reads the addresses from the router once, when it is loaded. *)
LoadPage == /\ page # current
            /\ page' = current
            /\ UNCHANGED <<sends, aborted, current, frozen, wires, orders, disputes>>

-----------------------------------------------------------------------------
(* The order book, one action per entry point. *)

chainSame == UNCHANGED <<sends, aborted, current, frozen, wires, page>>

(* createOrder: venues is set by the same configure as the vault. *)
CreateOrder == /\ ~IsFrozen("orders", page) /\ vaultOf[page] # "none"
               /\ Len(orders[page]) < MaxOrders
               /\ orders' = [orders EXCEPT ![page] = Append(@, "Open")]
               /\ chainSame /\ UNCHANGED disputes

AcceptBid(b, o) == /\ StatusOf(b, o) = "Open"
                   /\ ~IsFrozen("orders", b)
                   /\ SetStatus(b, o, "Assigned")
                   /\ chainSame /\ UNCHANGED disputes

CancelOpen(b, o) == /\ StatusOf(b, o) = "Open"
                    /\ CanCredit(b)
                    /\ SetStatus(b, o, "Cancelled")
                    /\ chainSame /\ UNCHANGED disputes

(* cancelAssigned before the pickup deadline, or with a strike: later, or   *)
(* by abandonOrder.                                                         *)
LeaveAssigned(b, o, strike) == /\ StatusOf(b, o) = "Assigned"
                               /\ CanCredit(b) /\ (strike => CanRecord("drivers", b))
                               /\ SetStatus(b, o, "Cancelled")
                               /\ chainSame /\ UNCHANGED disputes

-----------------------------------------------------------------------------
(* The contracts that call the book back. *)

(* A settlement contract takes part for a book when each points to the     *)
(* other and it is not frozen itself.                                      *)
Settling(s, b) == settles[s] = b /\ callerOf[b] = s /\ ~IsFrozen("settlement", s)

ConfirmPickup(b, o) ==
    /\ \E s \in Versions : Settling(s, b)
    /\ StatusOf(b, o) = "Assigned"
    /\ CanCredit(b) /\ CanRecord("venues", b)
    /\ SetStatus(b, o, "PickedUp")
    /\ chainSame /\ UNCHANGED disputes

ConfirmDropoff(b, o) ==
    /\ \E s \in Versions : Settling(s, b)
    /\ StatusOf(b, o) = "PickedUp"
    /\ CanCredit(b) /\ CanRecord("drivers", b)
    /\ SetStatus(b, o, "Delivered")
    /\ chainSame /\ UNCHANGED disputes

AlreadyDisputed_Open(o) ==
    \E i \in DOMAIN disputes : disputes[i].order = o /\ disputes[i].status = "Open"
                               /\ disputes[i].book = disputing.orders
AlreadyDisputed(o) == \E i \in DOMAIN disputes : disputes[i].order = o

OpenDispute(b, o) ==
    /\ b = disputing.orders
    /\ StatusOf(b, o) \in {"Assigned", "PickedUp"}
    /\ ~AlreadyDisputed(o)
    /\ SetStatus(b, o, "Disputed")
    /\ disputes' = Append(disputes, [order |-> o, book |-> b, status |-> "Open"])
    /\ chainSame

(* The arbiter rules: the book the contract points to now, the number the   *)
(* dispute was opened for.                                                  *)
Resolve(i) ==
    /\ disputes[i].status = "Open"
    /\ LET b == disputing.orders  o == disputes[i].order
       IN /\ StatusOf(b, o) = "Disputed"
          /\ CanCredit(b) /\ <<Vault[disputing.vault], "disputes">> \in allowed
          /\ SetStatus(b, o, "Resolved")
    /\ disputes' = [disputes EXCEPT ![i].status = "Resolved"]
    /\ chainSame

-----------------------------------------------------------------------------
Over(b, o)   == StatusOf(b, o) \in {"Delivered", "Cancelled", "Resolved"}
Leave(b, o)  == CancelOpen(b, o) \/ LeaveAssigned(b, o, TRUE)
Finish(b, o) == ConfirmDropoff(b, o) \/ OpenDispute(b, o)

Script == Preflight \/ Send

Next == \/ Script \/ Abort \/ LoadPage \/ CreateOrder
        \/ \E b \in Versions, o \in Numbers :
              \/ AcceptBid(b, o) \/ CancelOpen(b, o)
              \/ \E strike \in BOOLEAN : LeaveAssigned(b, o, strike)
              \/ ConfirmPickup(b, o) \/ ConfirmDropoff(b, o) \/ OpenDispute(b, o)
        \/ \E i \in DOMAIN disputes : Resolve(i)

(* The script goes on sending, a customer who is still waiting cancels, a   *)
(* delivery is confirmed or disputed, the arbiter rules: people's own       *)
(* steps, each taken in the end if the contracts keep allowing it.          *)
Fairness == /\ WF_vars(Script)
            /\ \A b \in Versions, o \in Numbers : /\ WF_vars(Leave(b, o))
                                                  /\ WF_vars(Finish(b, o))
            /\ \A i \in 1 .. 2 * MaxOrders : WF_vars(i \in DOMAIN disputes /\ Resolve(i))

Spec == Init /\ [][Next]_vars /\ Fairness

-----------------------------------------------------------------------------
(* Properties *)

(* An upgrade has cut this order off: no settlement contract answers for    *)
(* its book any more, and the disputes contract points elsewhere or has     *)
(* spent its one dispute of the number.                                     *)
CutOff(b, o) ==
    \/ /\ StatusOf(b, o) = "PickedUp"
       /\ ~\E s \in Versions : Settling(s, b)
       /\ disputing.orders # b
    \/ StatusOf(b, o) = "Disputed" /\ disputing.orders # b

(* Through every migration script, an order that was placed ends, in the    *)
(* old book or the new one, unless it was picked up or disputed when its    *)
(* book was cut off, or the script died half-way: no script leaves out or   *)
(* delays for good an authorization or a pointer that a cancellation, a     *)
(* confirmation or a ruling needs, and no exit is frozen                    *)
(* (scripts/upgrade-*.ts, FareUpgradable.whenNotFrozen).                    *)
OrdersEnd == \A b \in Versions, o \in Numbers :
                (StatusOf(b, o) # "None") ~> (Over(b, o) \/ CutOff(b, o) \/ aborted)

(* The dispute that is closed with an order was opened for that very order. *)
RulingMatches(b, o) ==
    orders[b][o] = "Disputed" /\ orders'[b][o] # "Disputed" =>
        \E i \in DOMAIN disputes :
           /\ disputes[i] = [order |-> o, book |-> b, status |-> "Open"]
           /\ disputes'[i].status = "Resolved"

(* A ruling closes the very order its dispute was opened for, although the  *)
(* disputes contract keeps only the number and rules in the book it points  *)
(* to at the time, and numbers begin again in a successor                   *)
(* (FareDisputes.openDispute, resolve, configure).                          *)
RulingsMatch == [][\A b \in Versions : \A o \in DOMAIN orders[b] : RulingMatches(b, o)]_vars
=============================================================================
