# FARE in TLA+

A TLA+ model of FARE, a food-delivery marketplace that runs on smart contracts
(`src/contracts`) with a relay and a replication agent at each venue
(`src/venue-node`) and a web client (`src/web`). This document is the inventory
of the system, the plan of the development, and an account of what is
modelled, model-checked and proved so far. Paths are relative to `src/`.

## 1. The system

A **customer** opens an order against a **venue**, escrowing the order value, a
tip and a flat relay fee. **Drivers** commit sealed bids; the customer reveals
and accepts one and escrows the fare. Courier and venue, then courier and
customer, attest to pickup and dropoff; each confirmation releases part of the
escrow. Releases are credits in a **vault**, withdrawn later, directly, through
a relay, or as shielded notes. Either side may dispute; an **arbiter** splits
what is left. A **relay** pays the gas of users who have none.

### Components

| component (source) | state | operations that change it | hard behaviour | what makes it correct |
|---|---|---|---|---|
| Order book (`contracts/FareOrders.sol`) | orders, sealed bids, fees, accepted tokens, the money in escrow | createOrder\*, increaseTip\*, commitBid, revokeBid, acceptSealedBid\*, cancelOpen, cancelAssigned, abandonOrder, onPickupConfirmed, onDropoffConfirmed, markDisputed, resolveDisputed, setters | any interleaving of three parties and three contracts; fees that change under an order; narrowing casts; deadlines | nothing lost or invented; the escrow is always what the remaining releases need; each party gets what the outcome entitles it to; ends are final; no exit closes |
| Vault (`contracts/FareVault.sol`, `lib/PaseoSafeSender.sol`) | balances per asset, dust queue, nonces, note trees and buffers, spent nullifiers | credit\*, withdraw\*, withdrawFor\*, claimPaseoDust\*, insertShieldNote\*, depositShieldNote\*ZK, setters | authorizations submitted late or twice; roots that age; two assets in one pool; gateway rounding | solvent per asset; one use per authorization and note; client and contract trees agree |
| Driver registry (`contracts/FareDrivers.sol`) | drivers, stakes, unbonding, counters | register, addStake, requestUnstake, withdrawStake, slash, record\*, setters, importRecords | unstaking against orders and disputes in flight; import while both registries are live | stakes backed; eligibility follows stake; records never lost |
| Disputes (`contracts/FareDisputes.sol`) | disputes, bonds | openDispute, resolve, setters | one ruling acts on four contracts; bond changes; re-pointing | agrees with the order book; bonds backed; pending disputes can finish |
| Settlement (`contracts/FareSettlement.sol`), venues (`FareVenues.sol`) | nullifiers, geo and freshness parameters; venues, signers | confirmPickup, confirmDropoffZK; register, setSigner, setPayout, setActive, importVenues | stale attestations, signer rotation | a confirmation needs both parties, recently, for this order; it can be had |
| Ratings (`FareRatings.sol`) | rated orders, aggregates | rate | id reuse across order books | one rating per delivered order |
| Upgrades (`FareGovernanceRouter.sol`, `lib/FareUpgradable.sol`, `scripts/upgrade-*.ts`), pause (`FarePauseRegistry.sol`) | current addresses, frozen and paused flags | register, promote, setContractFrozen, pause, unpause, each contract's configure, and the scripts that call them | two generations live at once | nothing is trapped; state of one generation is not read as the other's |
| Relay (`venue-node/relay.mjs`) | send chain, nonce counter, budget window, in-flight and onboarded maps, message, bid-box and photo stores | one handler per endpoint, fee-recovery tick | handlers interleave at every await; sends fail or answer late | distinct nonces without gaps; budget kept; one subsidy per address |
| Replication agent (`venue-node/agent.mjs`) | log cursor, pinned set, dirty flag | scan, pin, publish manifest | failures between cursor, pin and publication | every venue in range is eventually pinned and published |
| Note client (`web/src/shieldnote.ts`, `shield.ts`, `shieldpool.ts`) | stored vault notes and pool notes, operations in progress | insert, spend, deposit, withdraw to a burner, record change | lost replies, closed tabs, a tree that moves while it is read | a note's secrets outlive its value; a record can be proved |
| Order client (`web/src/orderflow.ts`, `sealedbid.ts`, `wallets.ts`, parts of `App.tsx`) | wallets and drop secrets per order, sealed bids, order rows of the page | place, announce, bid, revoke, list, accept, refresh | half-done acts, overlapping refreshes, a relay that restarts | secrets exist before they are needed; the page catches up; bids are seen |
| Order thread (`web/src/channel.ts`, `functions/api/msg.ts`, the relay's message store) | envelopes per topic; keys, numbers and times per open panel | hello, line, place, profile, poll | a store that reads and writes in two steps, two stores, retries, reopening | lines are not lost or mixed up; news does not go back |
| Disclosure (`web/src/disclosure.ts`, `capsule.ts`, `ops/DisputesConsole.tsx`) | capsules on the thread, the evidence of a dispute | seal, anchor, reveal, rule | two stores that differ and forget, capsules sealed again, raced, dropped or forged; another arbiter | who disclosed is not faulted, but for reasons that can be named |
| Hand-offs (`web/src/handoff.ts`, `geo.ts`, `zk.ts`, parts of `App.tsx`) | codes shown and read, the stored request, acts in progress | sign, submit, request, prove, confirm | devices without a fix, clocks that differ, pages that lag, lost replies | the codes of two phones come to match |
| Menus (`web/src/menu.ts`, `functions/api/menu.ts`) | the menu's address in the venue registry | publish, record | what is recorded is what is served | with the agent: a recorded menu is replicated |

Interactions: settlement and disputes call back into the order book; the order
book asks the registries who is eligible and active, tells the driver registry
how orders ended, and credits the vault; disputes also strike, slash and credit
bonds; the router freezes and the pause registry pauses all of them; the relay
submits for users everything but what the contracts tie to `msg.sender`; the
agent follows the venue registry's events, the note client the vault's; the
clients of an order meet on its thread and in the relay's bid box.

Not part of the running system or out of reach, and left out for good: the
Groth16 verifiers and circuits (a proof is modelled by the relation it proves),
`FareForwarder` (an unmodified library contract: a forwarded call is a call by
its signer), deployment and end-to-end scripts (the migration scripts are
modelled), mocks, HTTP proxies and presentation code.
`PROJECT.json` lists each with its reason, and the hazards line by line.

## 2. The plan

Order of work, most important behaviour first; **bold** is done.

1. **`FareOrders`** (open: every other contract is its environment), abstract
   **`EscrowContract`**, proofs **`FareOrdersProofs`**.
2. **`NoteTree`, `FareVault`**, abstract **`NotePool`**.
3. **`FareDrivers`; `FareDisputes`, which composes `FareOrders`,
   `FareDrivers` and the disputes and implements the open `FareOrders`**;
   proofs **`FareDisputesProofs`**.
4. **`Relay`**: send chain, nonces, budget, coalescing, the handlers that
   spend, fee recovery; every request is answered, under fairness; proofs
   **`RelayProofs`**.
5. **`ShieldClient`**: device storage and the relay's replies over the notes.
6. **`OrderChannel`**: the order's thread through two stores.
7. **`FareUpgrades`**: two generations behind one router, and the eight migration
   scripts, transaction by transaction; proofs **`FareUpgradesProofs`**.
8. **`OrderClient`**: placing, bidding and listing; the bid box.
9. **`MenuReplication`**: registry, agent, pins and manifest.
10. **`Disclosure`**: capsules, evidence and the arbiter's console.
11. The proofs TLC had left: bids and reputation in **`FareOrdersProofs`**,
    **`FareVaultProofs`** (authorizations), unbonding in **`FareDisputesProofs`**.
12. **`Handoff`**: the attestations of `FareSettlement` and the codes that carry
    them from phone to phone.
13. **`SumLemmas`**: what the proofs about money need to know of sums; with it
    solvency of the order book, the vault and the bonds, and the relay's budget;
    **`HandoffProofs`**.
14. **`ClientProofs`**: the safety properties of `OrderClient`, `Disclosure`,
    `OrderChannel` and `ShieldClient`.
15. To come: ratings, `GeoLib` and scoring as pure functions.

## 3. What is modelled

In all modules a transaction is one step: the EVM runs it to completion or
undoes it. A `require` that fails is therefore a guard that does not hold, and
the interleaving is that of transactions. Times are small numbers, only their
order and differences matter. Names are the source's where TLA+ allows.

**`FareOrders`** - one action per external function (the native, ERC-20 and
permit variants of one operation are one action with the asset as parameter).
`orders`, `sealedBid`, `config`, `acceptedToken` are the contract's storage;
`held` is what the contract owns per asset; `payout` and `collected` record
history, per order and role of the payee, because the vault adds an account's
credits up and the properties need them apart. `eligible`, `activeVenues`,
`blocked` and `now` are what the contract reads of others, and change freely.
Narrowing casts keep their width (`U96`). `ResolveDisputed` stands for the whole
ruling, with the strike and the slash that `FareDisputes.resolve` adds. The
locations, drop commitment and delivery window are stored and never branch the
code here.

**`EscrowContract`** - the promise: a pot is opened once, takes deposits while
live, is released in parts never exceeding it, and is closed once and empty.
`FareOrders` implements it with `phase` read off the status, `deposited` the
history of collections and `released` the sum of credits.

**`NoteTree`, `FareVault`** - `NoteTree` has the incremental Merkle tree of the
contract and, independently, the full tree that `web/src/shieldnote.ts` rebuilds;
a hash is the pair it hashes. `FareVault` has all balances, the dust rule of
`PaseoSafeSender`, signed authorizations (records a relay may submit at any
time, any number of times) and the note pool. The circuit is its statement:
some tree had this root at some time, with this leaf; as in the circuit, nothing
names the asset. The vault cannot open a commitment: the bucket a payee pays and the
leaf inserted for it, signed or not, are arguments of their own, and nothing compares
the one with what the other is worth; `underpaid` is the history of assets in which a
leaf is worth more than was paid for it. **`NotePool`** is the promise of shielded
payouts: in once, out once, in the same asset and at the leaf's worth, and out of an
asset never more than was paid in.

**`FareDrivers`** - registration, stakes, unbonding, slashing, bans and the
floors; a component without a next-state relation of its own. **`FareDisputes`**
instantiates it next to `FareOrders` (`Registry`): every step of either is a
step of the composition, `eligible` is the registry's answer, and an order
becomes Disputed or Resolved only through `OpenDispute` and `Resolve`, whose
transaction touches the dispute, the order, the record, the stake and the bond.
The wiring stays fixed here: it is the subject of `FareUpgrades`.

**`Relay`** - here a step is not a transaction but the code of one handler from
one `await` to the next; what it reads of the blockchain is unconstrained, and
consecutive reads are one step. `req` holds, for every request and every run of
`feeRecoveryTick`, the local variables of its handler: where it is (`pc`), the
budget it holds and of which window, the number it sends with. The endpoints are
six kinds, by what they share: `fund` (coalesced, budgeted), `onboard`
(budgeted, once per address), `sponsored` (budgeted only), `unbudgeted` (paid by
a reward, whose test against the cost is left open), and the shielded withdrawal,
which waits for its receipt outside of the chain: `awaited` in sponsor mode
(budgeted), `shield` in fee mode, with a second send. A wait may fail while the
transaction is pending; a shielded withdrawal then goes on as if it had been mined. `chain` is the queue behind
`serialize`: only its head draws a number and sends. A send may be refused, accepted,
or accepted without the relay hearing of it. The node is `pool`, the numbers it
has accepted, and `mined`; it accepts a number once and mines in order.
`strayed` is history: whether a swap went past the counter.

**`FareUpgrades`** - the pointers the contracts keep to one another, in two
versions; `sends` is what the running script has still to send, each a
`configure`, `setAuthorized` or `promote` with its arguments, in the order of the
script (`Sends`); orders are statuses, and their actions say which pointers,
authorizations and freezes the transaction meets on its way (`Settling`,
`CanCredit`, ...). A preflight may be overridden (`ALLOW_INFLIGHT`). A script may give
up after any transaction. The page reads the addresses once per load.

**`ShieldClient`** - three parts of the page, each one operation at a time, with
the code between two waits as a step; the relay's answer is a hash, an error, a
409 or nothing, independently of whether it sent. A transaction is mined, reverts or
is dropped; a wait for it may fail before that, on the device or in the relay, which
then answers as if it were mined, and has no timeout of its own. The pool's tree is modelled by what its paths cover: which leaves each sibling stands
for, in a snapshot (`Snapshot`, after `batchNotePaths`) and in truth (`LeftPath`).
The stores are sets: `spendAll` goes through its notes in any order.
`excused`, `overtaken` and `dropped` are history.

**`OrderChannel`** - envelopes posted to the shared store, read and written in two
steps as `functions/api/msg.ts` does, or to a relay, in one; replacement by
identity, the cap and the age; a store may forget its thread at any time (`Forget`),
which stands for the relay's restart and for the expiry of either store: time does not
measure a store's patience in the model. Per panel an `OrderThread` with its counters
and what it has seen; one action per poll.

**`OrderClient`** - the act of placing an order from stored secrets to the
announcement, in either asset and by either path; a driver's bids with what the
chain, a relay's box and the device each know of them; the page's rows, the
refreshes that overlap, and the list of bids. Customer and driver have each a
relay of their own (`relays`, after `activeRelayUrl`): one of the build, or one learned
from a venue's menu. A driver's bid is boxed at the driver's, and the page polls the one
that was the customer's when the order was first shown as open (`watched`).

**`MenuReplication`** - venues and the registry's log; the agent's loop with its
cursor, the page it is in and the event it considers; pins that fail, answers
that are short, restarts; the manifest. A menu's address is its event's block.

**`Disclosure`** - the thread on two shelves, the shared store, which takes it out and
puts it back, and one relay, with capsules among other envelopes; posts that go on to
the next shelf when one does not answer, reads answered by the first that does, an
empty thread included; each party's page, which seals whenever a chat is opened; the two
reads and the filing of a dispute; envelopes and capsules that others post under a
party's address; forgotten threads, the change of arbiter, and the ruling. The console
keeps no state: what it shows of a party, asked of a shelf, is an operator
(`MayFault`). `since` is the history of what befell the capsules since a party read
them.

**`Handoff`** - one order at the counter and at the door. Three pages with what
each last read of the chain, the codes they show, and the acts they are in (a
proof, a call to the relay, the wait for a transaction); the contract's checks are
`ConfirmsPickup` and `ConfirmsDropoff`, met when the transaction is mined, not
when it is signed. Places lie on a line, and a place at pickup is rounded to a
grid as `snapToGrid` does. A phone's clock may be off; its time stamps are too.
A request for the driver's signature is a commitment under a salt that only this
device stores (`pending`). A code is used when it is read. `signed` is history.

## 4. What is checked

| run | instance | shows |
|---|---|---|
| `orders_lifecycle` | 1 order, 2 drivers, all setters, clock 0..2, pause and freeze | type, `EscrowMatchesStatus`, `Entitlements`, `ExitsOpen`, `AssignedByBid`, `LegalTransitions` |
| `orders_two_assets` | 2 orders, native and a stablecoin | `Conservation`, `Solvency`, `ReputationMatchesOutcomes`; implements `EscrowContract` |
| `vault` | a payee and a relay, 2 notes of either worth for either bucket, 2 assets (one keeps a transfer fee), trees of 4 leaves, root rings of 2, 1 authorization, 1 setting away from the initial one | `Solvency`, `Accounting`, `AuthorizationsSingleUse`, `RootsMatchClients`, `NotesSpendable`; implements `NotePool` |
| `disputes` | 1 order, 2 customers of whom one refuses native transfers, 2 drivers who stake, leave and are banned, 2 bonds, 2 slashes (one above the stake) | `DisputesMatchOrders`, `Backed`, `PendingDisputesFinish`, `OrdersPredateWithdrawal`; implements `FareOrders` |
| `relay` | 2 requests of any kind, 1 recovery tick, 1 address, budget 5 (a funding takes 4, a seed 3, another send 1), one roll of the window | `NumbersFollow`, `BudgetKept`, `FundingsCoalesce`; `RequestsAnswered` under fairness |
| `shield` | 1 vault note, 2 pool notes, a tree of 3 leaves, 3 blocks, 3 proof attempts, 1 closed tab | `SecretsKept`, `PathsRight`; `OperationsEnd` under fairness |
| `channel` | 2 chats (5 envelopes), 2 chats and a profile (4), or a tracked place (5); stores of 2 envelopes, 2 posts at a time, 1 fault, closed panel or forgotten thread | `LinesAccounted`, `NewsOnlyForward`; `LinesShown` under fairness |
| `upgrade` | each of the 8 scripts, 2 orders per book | `RulingsMatch`; `OrdersEnd` under fairness |
| `order_client` | 1 order in either asset, 2 bids, the build's relay and a venue's, 2 overlapping refreshes, 3 bids and refreshes at a time, 1 reload, restart or relay learned | `SecretsHere`; `ViewCatchesUp`, `BidsListed` under fairness |
| `menus` | 2 venues, pages of 2 blocks, 4 events of which the first is before the start, 1 move, 2 faults | `MenusServed` under fairness |
| `disclosure` | 2 arbiters, threads of 4 envelopes, 5 posts, 2 at a time, 1 refusal, forgotten thread, stranger's capsule or change of arbiter | `DisclosureStands` |
| `handoff` | 1 order, 2 signers, 2 pins, 2 sets of radii (one to begin with), 3 sets of fixes, the venue's or the driver's clock ahead, time 0..1, 1 fault or change | `Consent`; `HandoffsComplete` under fairness |

Every property has a mutant in `PROJECT.json`: a one-definition change of the
model, of the kind a coding mistake would make, that its run then refutes.

Properties of the clients, of the agent and of the vault's notes name the ways in which
the code does lose something; each such clause is a behaviour of the code, recorded in a
history variable or read off the state. What the property says is that among the
behaviours the module has, nothing else does. It cannot say more: what the modules leave
out is in section 6. No such clause is idle: each stands for something the run does
reach.

### Where the sources say otherwise

These statements of comments and documents are not what the code does. They were
met while modelling; the first two only by reading (their modules leave the
operation out), the others are behaviours of the models.

- `FareDrivers.sol:92`, "never clobber live local state": the guard looks at
  `registered` only, while hooks and bans act on unregistered accounts.
- `relay.mjs:99`, "one sponsored seed per address": the set is read before several
  awaits and written after the send, so overlapping requests both seed.
- `lib/PaseoSafeSender.sol:19`, "every fraction is recoverable": one send's dust
  is by construction an amount `claimPaseoDust` refuses; it waits for a later
  send to add to it.
- `shieldnote.circom:26-27` and `shieldnote.ts:49-50`, a 1 PAS note cannot be spent as 25
  (`shieldnote-vault.test.ts:215-229` tries a spend at another denomination than the
  leaf's): the commitment does bind a denomination, but `_insertShieldNote` takes the
  commitment and the bucket paid side by side and compares nothing, so that a leaf may be
  worth more than was paid for it, and the difference is the other depositors'
  (`underpaid`).
  `NotesSpendable` is therefore about assets in which all leaves are worth what was
  paid; what holds in any case is that all notes together are paid no more than went in.
- `FareDrivers.sol:164`, "so disputes on in-flight orders can still slash":
  nothing ties the delay to the life of an order, and a driver whose order is
  under dispute can withdraw everything before the ruling. What does hold is
  `OrdersPredateWithdrawal`.
- `relay.mjs:70`, "the pool pays the RELAY, which forwards": the receipt of the
  withdrawal is awaited but a revert is dropped, and the forward goes out.
- `relay.mjs:301`, "concurrent requests don't collide on the relay account's
  nonce": the recovery swap leaves the numbering to the signer and the counter
  does not learn of it; the next request is refused, the one after succeeds
  (`NumbersFollow` has the exact condition, `strayed`).
- `FareUpgradable.sol:11-14` and `docs/ARCHITECTURE.md:30`, nothing trapped behind
  an upgrade: exits stay open, but once settlement and disputes point to the new
  book an order that was picked up, or is disputed, in the old one has no way to
  end (`CutOff`). The look `upgrade-remove-legacy-paths.ts` takes at the old book
  happens once and does not count disputed orders. A dispute is remembered by
  number alone, so the successor's order of the same number cannot be disputed.
- `shieldpool.ts:126-127`, the left path "never change[s] afterwards": the snapshot
  is right only if no leaf came since the index was read (`overtaken`).
  `shield.ts:195`, a change note that could not be recorded is "re-derivable
  later": its secrets were drawn at random and are gone. Likewise an error reply
  makes the client forget a note whose insertion may have been sent
  (`shieldnote.ts:288`), a hash one whose spend may still revert (`:350`).
- `shieldnote.ts:257-258`, a note is "persisted locally first, because the chain holds only
  its commitment": that of the vault is; the pool note it is spent into is stored once the
  receipt, or failing that the block number, has been read (`:352-358`); if neither can
  be, its secrets are gone while the spend is mined or still to be. A deposit whose `wait` fails while it is pending (`shieldpool.ts:125`) ends
  the same way. `relay.mjs:1081` drops the failure of its wait and answers with a hash,
  so that the change of a withdrawal may be recorded before its leaf is there
  (`overtaken`).
- `shield.ts:197-198`, a relay's hash may never be resolved, and so the burner's balance is
  polled instead; the other waits go by the hash, have no timeout, and for a dropped
  transaction do not end (`Stranded`).
- `capsule.ts:83-86`, an anchored digest keeps others from putting a capsule in a
  party's place: it tells the console that the capsule is another one. The thread takes
  an envelope under any address, before the evidence is read and after, and either is
  held against the party (`since`, and the capsules not sealed by it).
- `relay.ts:20-22`, a device takes the relay its build names or a venue's menu teaches it:
  a driver's bids lie where the driver's device points (`App.tsx:2496`, `:2508`), and the
  customer's page asks where its own did (`:2033`). With different relays they are never
  listed (`Elsewhere`).
- `disclosure.ts:44`, "the caller retries on a later poll": its caller
  (`App.tsx:1810`) does not. `docs/PRIVACY-TIERS.md` section 7 and `capsule.ts`
  have the capsule posted with the assignment or the order; it is when a chat is
  opened, and each opening seals a fresh one, so that evidence read earlier no
  longer matches.
- `menu.ts:39-41` and `:174-178` have photos replicated with the menu; the agent
  pins the menu's own address only, and does not read `VenueLocationUpdated`.

- `handoff.ts:71`, without storage "the request still works within this page":
  `confirmDelivery` knows a request only by what was stored, so the driver's answer
  is refused (hence `canStore` in `Possible`).
- `FareSettlement.sol:195`, a grid "far inside pickupRadiusMeters": true of the default of
  150 m; `setGeoParams` allows 25 m, and rounding moves a place by up to 24 m
  (hence `Possible` measures the rounded one).

Three behaviours the models show without a sentence against them: a confirmation
that was refused, reverted or of another order still clears the customer's
request and reports success, and the two begin again (`CustomerAct`); a token order is
never announced on its thread, so nobody can bid on it (`Await` of `OrderClient`);
and an error of the forwarded creation after the relay has sent it leads to a
second order (`Forward`).

### Bounds

One order is enough for the properties of a single order, since the contract
reads no other order; two orders, in two assets, for those about the shared
balance. Amounts are chosen so that basis-point shares round (1009 at 2.5%, 50%,
33.33%), that a zero and a nonzero value, tip and fee occur, and that a split over
100% is tried. A clock of 0..2 reaches before, at and after a pickup deadline of
one unit; 0..1 reaches both sides of an unbonding delay of one. `Supply` is the
fact behind the casts: no asset has 2^96 units. Two notes in a tree of four leaves
and a ring of two roots reach a left and a right leaf and a root that has aged
out. One authorization and one setting changed at a time (`MaxAway`) keep money,
notes and signatures in one instance; that two authorizations of an account do
not disturb each other is `AuthorizationsMoveOnce`, proved for any number.
`Volatile` names what governance changes in an instance; parts not named stay
at their initial value. The symmetry of notes and of drivers is sound: they are
interchangeable in every definition, and those runs check no liveness.

In the relay two requests and a tick are what it takes for a send to be queued
behind, numbered after, or refused because of another; two gifts exceed the
budget, and one roll of the window lets a hold outlive the window it was taken
from. Three leaves give the shielded pool's tree a complete subtree to the left of
a leaf and one that is overtaken while it is read. Two hellos, a line, and two more envelopes, or a
second hello and a second line, are what it takes for a line to grow too old for a
store of two, or to be numbered like another; an older place after a newer one
needs no more than five. One fault is a retry, a panel that begins again or a forgotten
thread. Two orders
per book let a number of the old book return in the new one, with another before
it. Two refreshes are what it takes for the older to end last. Pages of two blocks
over four events, one of them before the start, give a first page, a page in the
middle of which a call fails, and one that is read twice. In `Disclosure` two
capsules each and one more envelope than a thread holds push a capsule out after it was
read; two posts at a time race. In `Handoff` an age of
zero and two times make a code of the earlier time stale, unless its signer's clock
is ahead; pins two apart and radii of 0, 1 and 2 put rounded fixes on both sides.
Four salts are the three that codes and storage can hold at once and a fresh one.

### Fairness and deadlock

- `Relay`: weak fairness of each handler's steps, since a call to the node is
  answered or times out and the event loop runs every continuation, and of `Mine`,
  since blocks are produced; a transaction the node drops after accepting it is
  not modelled. A wait for a receipt has no timeout, so it is obliged to end only once
  the transaction is mined (`Prompt`), though it may fail before. No request is obliged to arrive and no window to end.
- `ShieldClient`: weak fairness of every continuation of a started operation, for
  the same reason, and of a sent transaction being mined, reverted or dropped. The three
  waits for a transaction (`tx.wait`, `waitForTransaction`, the relay's) have no timeout:
  each is obliged to end only once its transaction is mined or reverted (`Settled`), and
  an operation that waits for a dropped one stays where it is, which `OperationsEnd` says.
  Nobody has to start one.
- `OrderChannel`: every post is carried on with, and a panel that stays open has a
  poll answered by the shared store again and again: it polls on a timer.
- `OrderClient`: a refresh starts on a timer (weak); of the refreshes that end, not
  all fail (strong fairness of `EndRefresh(1)`: a failing read removes the refresh,
  so the step is not continuously enabled); the bid box is read on a timer.
- `MenuReplication`: weak fairness of the agent's loop, which sets its timer again
  whatever happens; failures are bounded by `MaxFaults` and never obliged.
- `FareUpgrades`: the script goes on sending unless it aborts; a customer who waits
  cancels, an order picked up is confirmed or disputed, the arbiter rules. These are
  wishes of people, not of code: `OrdersEnd` says that the contracts do not prevent
  what someone keeps trying, so weak fairness of the pair of ways out is the
  weakest assumption that can be of use.
- `Handoff`: pages refresh on a timer, proofs end, the relay answers and the chain
  mines (weak). Of the people it assumes, strongly, that whoever can again and again
  sign, or use a code that is good now, once does; that is what makes the property
  say that the code offers a way, not that anybody takes it. Codes of other orders
  are mistakes and bounded by `MaxFaults`: a customer who kept scanning them would
  clear the request each time. What a driver with a fix far from the door has to do
  (ask for a request, as without one) is left to the driver.
- The order book, vault, disputes and disclosure assume none: nothing obliges a
  customer, a driver or an arbiter to act. In its place `ExitsOpen`,
  `PendingDisputesFinish` and `NotesSpendable` state that every `require` of the call
  which gets value out holds, in every state. The requires of a call are an operator
  of their own (`MayCancelOpen`, `MayConfirmDropoff`, `MayResolve`, `MayRule`,
  `SpendAllowed`, ...), which is also the guard of the action: the rest of such
  an action only says what changes, so the call succeeds whenever its guard holds.

No run that checks liveness has symmetry. Deadlock is not checked, because a system
whose orders have ended at the bound on time and orders, whose requests are all
answered, or whose people want nothing more, really does stop.

## 5. What is proved

TLAPS checks, for all values of the constants that satisfy the assumptions
named in the modules. What they add to the types: no asset has more units than a
uint96 counts (`SupplyAssumption`); the sentinel accounts are not accounts; the
sets a sum ranges over (accounts, customers, drivers, requests) are finite, as
those of a running system are; amounts, fees and units are naturals.

**Order book** (`FareOrdersProofs`)

- `TypeCorrect`: `Spec => []TypeOK`. Not a formality: escrow, tip and fare stay
  within 96 bits only because the casts never lose anything, and a credit is
  never negative.
- `ConservationHolds`, `EscrowHolds`, `EntitlementsHold`: `Conservation`,
  `EscrowMatchesStatus` and `Entitlements`.
- `LifecycleHolds`, `TermsHold`: `LegalTransitions` and `TermsFixed`.
  `OrdersKeepEscrow`: `Spec => EscrowSpec`, that `FareOrders` implements
  `EscrowContract`.
- `AssignmentsAreBids`, `ReputationIsHistory`: `AssignedByBid` and
  `ReputationMatchesOutcomes`, for any number of orders, bids and drivers.
- `EscrowsAreOwned`: `Solvency`, for any number of orders and assets.
  `ExitsAreFunded`: in a live order the amounts that a pickup, a cancellation, a
  confirmed dropoff or a ruling subtracts are within the escrow, and the contract
  owns the escrow. `ExitsStayOpen`: `ExitsOpen`, every `require` of the next exit of every
  live order.

**Disputes and drivers** (`FareDisputesProofs`)

- `DisputesImplementOrders`: `DisputesSpec => Spec`, and by it `DisputesKeepEscrow`:
  the theorems above about money hold of the composition.
- `DisputesAgree`: `DisputesMatchOrders`, for any number of orders, where the
  `disputes` run has one. `WithdrawalsComeAfter`: `OrdersPredateWithdrawal`, for any
  delay, where the run has a delay of one. `BondsAreBacked`: `Backed`, for any
  number of disputes, bonds and slashes. `RulingsAreFunded`: of an open dispute, the
  bond and the escrow are there, the split stays within the escrow and the driver is
  one the registry knows. `RulingsStayPossible`: `PendingDisputesFinish`, every `require`
  of a ruling in the three contracts it passes through, for any number of disputes.

**Vault** (`FareVaultProofs`)

- `AuthorizationsMoveOnce`: `AuthorizationsSingleUse`.
- `VaultIsSolvent`, `CountersExplainLedger`: `Solvency` and `Accounting`; and
  `NothingIsShort`, that no payment out meets a vault that is short of it.
- `RootsAreTheClients`: `RootsMatchClients`, for trees of any depth and rings of any
  length. `NotesAreSpentOnce`: that `FareVault` implements `NotePool`.
- `UnspentNotesArePaid`: `NotesSpendable`, of assets in which no leaf is worth more than was
  paid for it, for any number of notes, rings of any length
  and any ladder of denominations. It assumes that no hash is the field element 0
  (`ZeroIsNoHash`), with which the contract marks a slot of the ring as never written;
  the code rests on the same.

**Venue node** (`RelayProofs`), for any number of requests, ticks and addresses, and
of venues, events, faults and restarts

- `RelayTypesHold`, `NumbersHold`, `FundingsHold`: `RelayTypeOK`, `NumbersFollow` and
  `FundingsCoalesce`. `BudgetHolds`: `BudgetKept`.
- `NoRequestIsStuck`: an unanswered request waits for one that can go on now, be it
  itself, the head of the chain, or the funding it joined: no handler is left out of
  the chain or remains in it, and the receipt it waits for is of a transaction the
  node has and can mine. It is the half of `RequestsAnswered` that is not about time.
- `CaughtUpNodesServe`, of the replication agent: once it has read up to the last
  block, the node holds and offers the menu of every venue near by, but for
  the reasons `Excused` lists. It is the half of `MenusServed` that is not about time.

**Upgrades** (`FareUpgradesProofs`), for any number of orders

- `RulingsHold`: `RulingsMatch`.
- `MigrationsKeepExits`: between any two transactions of any of the eight scripts, and
  if the script dies there, the call that ends an order, whatever it has come to,
  finds its vault, its authorizations and its callers in place, unless the order is
  `CutOff`. One script is an exception: `upgrade-orders.ts` promotes the new book before
  it wires it, and an order placed there meanwhile can be cancelled only when the
  script is through, not if it dies half-way. It is the half of
  `OrdersEnd` that is not about time.

**Hand-offs** (`HandoffProofs`), for any places, radii, clocks and ages

- `HandoffsAreConsented`: `Consent`.
- `DeliveriesFailForReasons`: no page waits for a transaction that is gone; what the
  customer's device sends is provable and about the position the driver signed; and a
  delivery with a code of this order fails only if it is late, the radius has changed
  since it was read, or the order was not waiting for it. It is part of what
  `HandoffsComplete` rests on.

**Web client** (`ClientProofs`), for any number of orders, bids, posts, panels,
reloads and faults, and stores of any length

- `SecretsAreHere`: `SecretsHere` of `OrderClient`.
- `PagesCanCatchUp`, of `OrderClient`: a row the page does not read again is the order's
  last status, so a refresh that begins now reads whatever the page does not show as it
  is; an order that is open on the chain is shown as open or not yet, and what is shown as
  open is polled for, at the relay that was the customer's when it was first shown so;
  and what is listed was committed on the chain. It is the half of
  `ViewCatchesUp` and `BidsListed` that is not about time.
- `DisclosuresStand`: `DisclosureStands` of `Disclosure`.
- `LinesAreAccounted`, `NewsGoForward`: `LinesAccounted` and `NewsOnlyForward` of
  `OrderChannel`.
- `SecretsAreKept`, `PathsAreRight`: `SecretsKept` and `PathsRight` of `ShieldClient`,
  for any number of notes and leaves, and a tree of any depth, where the run has one
  note of the vault and three leaves.

### The arguments

None of the order book's invariants is inductive alone: that a delivery pays out exactly the escrow
needs to know what the escrow is made of, and what it is made of after a dispute
depends on whether the venue was paid. `IInv` therefore strengthens them
together: the type, `SoundAt` for every order (conservation, the composition of
the escrow, and who has been paid so far, by status), and that ids not yet
handed out are untouched. The proof has one lemma per kind of transition
about a single record (`SoundClosed`, `SoundPickedUp`, `SoundDelivered`, ...),
free of actions and variables, and one per action that shows which transition it is.

Part III says once what a transaction may do to an order (`Moves`: it
opens it, deposits, pays in part, contests or ends it) and shows it of every action
(`NextMoves`). Its three theorems then speak of these five moves only. That an
ending empties the pot, and a part payment never overdraws it, is `IInv` after the step.

The two theorems of part IV are about counts. `BidInv`: the deal of an
order is a committed bid under its ceiling, and the counter is the cardinality of
the committed bids; bids are added and never leave the book, revoked ones
included, so a deal stays one. `RepInv`: a driver's record is the cardinality of
the orders delivered, and at least the number of strikes among those that ended
otherwise; every step delivers one order, strikes at one, or spares all records,
and an order that has ended changes no more, so the sets only grow, by one at a time.

**Sums.** The remaining theorems about money are about sums over all accounts,
orders or handlers. `SumFunction` of the community modules is a fold, that is a
recursive function, and the library's induction takes an operator as a parameter,
which the installed provers cannot instantiate. `SumLemmas` does without:
that a nonempty set of naturals has a least element follows from
the library's theorem that `<` is well-founded (`LeastNat`), from it an induction over
the subsets of a finite set, with the collection of those that qualify as a set
(`SetInduction`), and from that, that the fold's recursion has a solution, what
it is, and `SumChange`: changing one value changes the sum by the difference. Every
proof about a sum then says which values an action changes.

`EscrowsAreOwned` needs `IInv` beside `Solvency`: what a closing credits is the whole
escrow. `MoneyInv` of the vault is `Solvency` and `Accounting` with the types of the
money; the fee of a relayed withdrawal moves between two accounts, which may be
the same one, and the dust rule splits an amount without losing any.

The composition's proof has two halves. The refinement needs only `CasesType`
(every dispute ever opened is about an order), so that a ruling is a ruling of
`FareOrders`, and the part of `DisputesAssumption` that lets the eligible drivers
change. The agreement of the two contracts needs `DInv`: the
correspondence itself, order by order and dispute by dispute, and that ids not
yet handed out name no dispute, without which a new dispute might overwrite one.
Each step of the order book either leaves an order outside of any dispute or
leaves its status alone (`OrderStepSameCase`); the two steps that do
move an order in or out move its dispute with it (`OpenDisputeDInv`,
`ResolveDInv`). `IInv` is available throughout, by the refinement.

`OrdersPredateWithdrawal` needs `UnbondInv`: the drivers' types, that who is not
registered has no stake, that `eligible` is the registry's own answer, and that
every order in a driver's hands was assigned before now and before the pending
request for the stake. A step either keeps an assignment or makes it now, to a
driver who is eligible, which nobody with a request pending is.

`Backed` needs `PayInv`: the sums themselves, over the bonds of all disputes and the
stakes of all drivers, and that whoever opened a dispute is a customer or a driver,
whose credit is therefore among those added up. That a ruling against a driver
slashes one that exists is `HandsInv`, that no stake goes below nothing is part
of `UnbondInv`.

`VInv` of the vault: every authorization acted upon carries a nonce its account has
passed, and each nonce is the cardinality of those acted upon of its kind; an
authorization whose nonce is current is therefore not among them.

`RootsMatchClients` compares two recursions, the contract's up one spine and the
client's over all nodes. That each has a solution, and that its equations may be
used, is an induction over the levels (`Climb`, from `LeastNat` as above): a relation
says what a solution up to a level is, and the lemma that one exists for every level
opens the `CHOOSE` behind the definition. That `2^n` is a natural that doubles needs a
detour as well, through the cardinality of a set of subsets. The invariant `TreesInv`
says of each warm tree that its cached hashes are the left siblings that some later
leaf still needs (`Mirrors`): a node the client's tree has filled. An insertion is right
given that (`InsertRoot`), and keeps it (`InsertMirrors`), because the nodes left of
the new leaf do not change (`RowsGrow`). A tree nobody warmed has no leaves.

`NotesAreSpentOnce` adds that what is in the ring is the root of the client's tree after
some insertion, or of the empty one, and that a root tells its leaves (`RootsTell`),
a hash being the pair it hashes and no commitment the empty leaf: whoever proves a
leaf against a known root proves one that was inserted. What is not in `NotePool` is that
the note was paid for in full; that no more goes out than was paid in is (a spend has to find its worth in the buffer).

`UnspentNotesArePaid` needs `SpendInv`, which has two parts. The ring of a tree with n
leaves holds, at slot `k % ROOT_HISTORY`, the root after the k-th insertion, for each of the
last `ROOT_HISTORY` insertions; an insertion overwrites the oldest of them only. And
the buffer of an asset that is not `underpaid` is at least the sum of what the notes
inserted in it are worth whose nullifier is unspent: an insertion adds what was paid to
the one and no more than that to the other, a spend takes the same from both
(`SumGrows` and `SumLess`, for sums over a set of notes that grows). That the vault owns what the buffer promises is `MoneyInv`.

The relay's invariant `RInv` has five parts. `BusyServes`: only the head of the chain
has a number or waits for a receipt inside the chain, so when a job throws nobody
else has drawn a number. `Counted`: for some k the node has accepted exactly the
numbers below k, a number in use is k, or k or below after a swap, and a counter no
send is using likewise; it is what makes the node's answer to `pending`, a `CHOOSE`, equal k
(`PendingCountIs`). `InFlight` ties the addresses in flight to the one handler that
funds each. `Asked` and the types complete it; the types alone are not inductive,
for a number is a natural only because the node has an answer.

`BudgetKept` needs `BudgetInv` besides: a handler holds nothing before it reserves, nor
outside of the budgeted kinds (`Unlent`), and no hold is of a window to come (`Dated`),
so that a window that begins owes nothing. A step then lends, returns to the window
it was taken from, or leaves every hold alone.

`NoRequestIsStuck` needs `LineInv` besides: the chain holds exactly the handlers that
wait for it, each once. That each is there once is what lets a job leave without
another place of its own remaining at the head; a tick enters twice, for the sweep and
the swap, and a shielded withdrawal as well, but never while it is still there. With
`Confirms`, that whoever waits for a receipt has a number in the pool, `Counted` says
that the numbers up to it are there to be mined.

`AgentInv` of the replication agent. A menu in the registry is that of the venue's latest
event (`Announced`), so what the agent last considered of a venue is what counts.
`CursorInv`: within a page the events are taken lowest block first, so those already
considered lie below those left, and the cursor never passes one; a page read again
after an error therefore considers events again, and skips none. `Handled`: what
has been considered is known, and pinned, being pinned, or failed. `ManifestInv`:
what is pinned is in the manifest, or a publication of it is under way or has failed.

`UInv` of the upgrades: the types, that no number is disputed twice, and that every
Disputed order has an open dispute of its own book. A ruling acts on the book the
contract points to now, which need not be the dispute's; but if that book's order of
that number is Disputed, its dispute bears the number, and there is only one.

`WiresInv` for the exits. Which script runs is not in the state, only what it
has left to send; so the invariant speaks of that. `Ready(k, ...)`: an authorization is in
place, or will be before the k-th transaction from here is sent; `ConfiguredBy`, `WiredBy`
and `SettledBy` are the same for pointers. The conditions on a script are then of the
form "whatever the k-th transaction switches to is ready by k" (`OldBook`, `NewBook`,
`Rulings`); sending the head makes k into k - 1, and at k = 1 they are about
the state alone, so that it does not matter where the script stops. Each of the scripts
is shown to start that way (`PrivacyStarts`, ...). `BookInv` adds that the new book has
no orders before the promotion and that no dispute of the new book exists while the
disputes contract still points to the old one, by which an order picked up has not
spent its dispute.

`HInv` of the hand-offs: signatures are past, a page is never ahead of the chain, and
every code of this order, wherever it has got to (shown, read into an act,
sent), is stamped no later, by its signer's clock, than that signer's last signature;
no code for the door exists before the pickup. What the contract requires of the
stamp is then true of the signature.

`ClientProofs` extends the client's modules together, which is why they name their
specifications apart. `OrderInv` adds to `SecretsHere` that an act of placing under way
has its wallet and drop secret on the device, whichever path it ends on, and
the same of every bid.

`PageInv` says of every row, cached or read by a refresh that has not ended, that the
order was in that state once: what it is now is among what that state may become
(`MayBecome`). Nothing comes after a terminal state, so a terminal row stays right
whichever refresh wrote it last; this fails for the state `Disputed`, which is why it
may not count as terminal. That nothing reads as open once it is not was never needed:
the contract has the last word on a bid that is accepted. That what is shown as open is
polled for bids (`WatchInv`) is part of it: each write of the rows
starts and stops polls to match.

`DisclosureInv`: what a party found on the shelf that answered it is what is there now
(`StandsFor`), as long as nothing befell the capsules since it read (`since`) and no more
was posted than a thread holds; then no capsule is on its way either, which a later post
to the other shelf or a write that took the thread out before could bring. That nothing is
cut off before as many were posted is counting: a shelf holds, together with what is still
on its way to it, no more than was posted, and so does what a post took out and will put
back (`SizesInv`). The console, asked of the same shelf, then finds the evidence, and what
it can still fault is a capsule that does not open.

`LinesInv` of the order thread: envelopes have times of their own, wherever they are (in a
store, on their way, or in a read that a write will follow), and the chat envelopes are
the lines. Each step of a store then keeps an envelope, replaces it by one with its
number, or cuts it off as older than all it kept (`StoredMail`); a store that forgets
gives up the lines it held (`ForgetLines`), and as nothing says that the other store has
them, they count as lost. `NewsInv` adds that
the times a panel shows are at most the newest it has taken (`lastTs`), which a
poll only raises, and what it takes is newer than that.

`NotesInv` of the wallet follows a secret from hand to hand: it is drawn once, and is in
one operation, then in one transaction, then in one leaf (`DrawnOnce`); whatever
is not sent has neither transaction nor leaf (`Untouched`); a note of the vault is
stored before its insert is sent, and only once sent can it be on chain (`VaultKept`); and what
the order form draws is the change of the note it spends (`OrderSpends`), so that a
withdrawal that leaves none can be let go of. An operation that breaks off gives its
secret up, whether the transaction is mined or pending then, or nothing can come of it any
more (`GivenUp`). Two frames do the work: a step
of the page may let go of a secret that is recorded, given up, or of nothing with
value (`Keeps`, `PoolFrame`), and a block adds the leaf of a transaction (`Lands`).

`PathsInv` says, for each operation nobody has overtaken, where its leaf is: an operation
that waits has the place the next leaf gets, one whose leaf has landed the place it got
(`Placed`), and a change note's leaf is the last, in the last block. A record may come
before its leaf, for a wait may fail: that of a spend is right if the leaf then comes to
where it says (`RecordPath`); that of a change is not, so it counts as overtaken.
`overtaken` has to
cover exactly the ways in which that stops being so. The rest is arithmetic: the last left
child before a leaf ends the leaf's left sibling, one leaf earlier or later
(`SideNodeIs`), hence `SnapshotIs`.

### Only model-checked

The liveness properties, which are beyond the prover: `RequestsAnswered`, `OperationsEnd`,
`LinesShown`, `OrdersEnd`, `ViewCatchesUp`, `BidsListed`, `MenusServed` and
`HandoffsComplete`. Every invariant and every action property that a run checks has a theorem.
Of most of them the part that is not about time is a theorem: nobody is stuck, and
what is waited for can come (`NoRequestIsStuck`, `MigrationsKeepExits`,
`PagesCanCatchUp`, `CaughtUpNodesServe`, `DeliveriesFailForReasons`). Of `OperationsEnd`
and `LinesShown` it is not.

## 6. What is not modelled

`PROJECT.json` has the reasons part by part. In short:

- **Settlement**: the nullifier (a second lock behind the status, which the model
  has), `setLocationVerifier`, distances on the globe, and what makes a device
  give no fix.
- **Contracts**: ratings, imports of records, `setContractFrozen` outside of a
  script, who may pause, one-time wiring (`setRouter`, `setAuthorized`), metadata,
  and, outside `FareVault`, the dust a push leaves in the queue (it counts as
  sent). Reentrancy is excluded by the guards in the code and by the order of its
  writes; a push to an account that refuses native transfers reverts the
  transaction, and appears where another party's ruling depends on it (`Refusing`
  in `FareDrivers`).
- **Relay**: rate limits of requests, photos, push subscriptions, the price cache,
  and the ledger of gas spent that decides whether a tick tops up (a tick may do
  either).
- **Clients**: order tickets and the kitchen's list, sweeping an order's wallet,
  notifications, the choice of denominations, recovery of an old wallet's notes;
  polls of a panel that overlap (a late answer is as good as none in the model);
  failover between RPC providers. Most of `App.tsx` is rendering, has no protocol
  of its own, and is why the share of mapped lines stays low.
- **Pure functions**: `GeoLib`, and the scorer, whose averages are floating-point.
- **Scripts**: deployment, set-up of keys and end-to-end experiments against a live
  network are tools of the operator; only migrations change a running system.
