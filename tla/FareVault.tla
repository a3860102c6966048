----------------------------- MODULE FareVault ------------------------------
(***************************************************************************)
(* The pull-payment vault of FARE: src/contracts/FareVault.sol with        *)
(* lib/PaseoSafeSender.sol, for the native asset and the ERC-20s, and the  *)
(* note pool of shielded payouts with the statement its proofs prove       *)
(* (circuits/shieldnote.circom).                                           *)
(*                                                                         *)
(* A transaction is one step, a failed `require` a guard that does not     *)
(* hold; balanceOf and tokenBalanceOf are one function of the asset.       *)
(*                                                                         *)
(* Abstractions.  A signature is the record it signs, a note the pair of   *)
(* nullifier and secret its owner drew, and also its nullifier hash; a     *)
(* commitment is the leaf <<note, value>>.  The bucket paid for a leaf is  *)
(* an argument beside it: web/src/shieldnote.ts commits to the bucket it   *)
(* pays, the vault cannot open the leaf and compares nothing.              *)
(***************************************************************************)
EXTENDS NoteTree, Integers, FiniteSets, Functions

CONSTANTS
    MaxTime,              \* bound: block.timestamp runs over 0..MaxTime
    Accounts, Payees,     \* payees and relays; those credited, who sign
    Creditors,            \* protocol contracts
    Native, Tokens,
    Amounts, MaxCredited, \* credits, and the bound on their sum per asset
    TransferFee,          \* what a token keeps of a transfer to the vault
    PASEO_UNIT, PASEO_REJECT_THRESHOLD,
    WithdrawFees,         \* basis points governance chooses
    Notes, Ladders,       \* notes payees draw; denominations governance sets
    MaxSigned,            \* bound: authorizations ever signed
    Deadlines,
    Volatile, MaxAway     \* bounds: what governance changes, and how much at once

Assets == Tokens \cup {Native}
Buckets == UNION Ladders

ASSUME VaultAssumption ==
    /\ Native \notin Tokens /\ Payees \subseteq Accounts /\ IsFiniteSet(Accounts)
    /\ PASEO_UNIT \in Nat /\ PASEO_REJECT_THRESHOLD \in 1..PASEO_UNIT
    /\ TransferFee \in Nat /\ \A v \in Amounts : v \in Nat /\ v >= TransferFee
    /\ WithdrawFees \subseteq Nat /\ Buckets \subseteq Nat

VARIABLES
    now,                \* block.timestamp
    authorized,         \* creditors that may credit
    withdrawFeeBps,
    services,           \* what is set: "verifier", "pool", tokens with an asset id
    shieldPoseidon,     \* is the hasher set?
    shieldBuckets,      \* asset -> denominations
    balanceOf,          \* asset -> account -> units
    owned,              \* asset -> units the vault's address owns
    pendingPaseoDust,   \* account -> native units queued
    totalCredited, totalWithdrawn,
    withdrawNonce, shieldNonce,
    signed, used,       \* authorizations signed; and acted upon (history)
    noteTrees,          \* asset -> NoteTree
    shieldBuffer,       \* asset -> units held against notes
    nullifierSpent,     \* asset -> notes
    leaves,             \* asset -> insertions so far, as the events tell them
    shielded,           \* asset -> units the shielded pool received
    underpaid           \* history: assets with a note worth more than was paid for it

admin == <<authorized, withdrawFeeBps, services, shieldPoseidon, shieldBuckets>>
totals == <<totalCredited, totalWithdrawn>>
money == <<balanceOf, owned, pendingPaseoDust, totals>>
auth == <<withdrawNonce, shieldNonce, signed, used>>
notes == <<noteTrees, shieldBuffer, nullifierSpent, leaves, shielded, underpaid>>
vars == <<now, admin, money, auth, notes>>

Init ==
    /\ now = 0
    /\ authorized = Creditors
    /\ withdrawFeeBps = 0
    /\ services = {"verifier", "pool"} \cup Tokens
    /\ shieldPoseidon = FALSE
    /\ shieldBuckets = [t \in Assets |-> {}]
    /\ balanceOf = [t \in Assets |-> [a \in Accounts |-> 0]]
    /\ owned = [t \in Assets |-> 0]
    /\ pendingPaseoDust = [a \in Accounts |-> 0]
    /\ totalCredited = 0 /\ totalWithdrawn = 0
    /\ withdrawNonce = [a \in Accounts |-> 0]
    /\ shieldNonce = [a \in Accounts |-> 0]
    /\ signed = {} /\ used = {}
    /\ noteTrees = [t \in Assets |-> BlankTree]
    /\ shieldBuffer = [t \in Assets |-> 0]
    /\ nullifierSpent = [t \in Assets |-> {}]
    /\ leaves = [t \in Assets |-> << >>]
    /\ shielded = [t \in Assets |-> 0] /\ underpaid = {}

-----------------------------------------------------------------------------
(* Money in, money out.                                                    *)

\* Mutant: a token credit is taken at its face value.
Received_Face(t, amount) == amount
\* What arrives of a credit: creditToken measures it.
Received(t, amount) == IF t = Native THEN amount ELSE amount - TransferFee

\* credit and creditToken.
Credit(from, to, t, amount) ==
    /\ from \in authorized
    /\ amount > 0
    /\ balanceOf' = [balanceOf EXCEPT ![t][to] = @ + Received(t, amount)]
    /\ IF t = Native
       THEN totalCredited + amount <= MaxCredited /\ totalCredited' = totalCredited + amount
       ELSE owned[t] + shielded[t] + amount <= MaxCredited /\ UNCHANGED totalCredited
    /\ owned' = [owned EXCEPT ![t] =
                    @ + (IF t = Native THEN amount ELSE amount - TransferFee)]
    /\ UNCHANGED <<pendingPaseoDust, totalWithdrawn, now, admin, auth, notes>>

\* The largest amount the chain's gateway accepts.
CleanAmount(amount) ==
    IF amount % PASEO_UNIT < PASEO_REJECT_THRESHOLD THEN amount
    ELSE amount - (amount % PASEO_UNIT)

\* _safeSend for the native asset, safeTransfer for a token.
Send(t, to, amount) ==
    LET sendable == IF t = Native THEN CleanAmount(amount) ELSE amount IN
    /\ owned' = [owned EXCEPT ![t] = @ - sendable]
    /\ pendingPaseoDust' = [pendingPaseoDust EXCEPT ![to] = @ + (amount - sendable)]

\* Mutant: withdrawals in tokens are counted too.
CountWithdrawn_All(t, v) == totalWithdrawn' = totalWithdrawn + v
CountWithdrawn(t, v) ==
    totalWithdrawn' = totalWithdrawn + (IF t = Native THEN v ELSE 0)

\* withdraw, withdrawTo, withdrawToken and withdrawTokenTo.
Withdraw(a, t, recipient) ==
    LET amount == balanceOf[t][a] IN
    /\ amount > 0
    /\ balanceOf' = [balanceOf EXCEPT ![t][a] = 0]
    /\ CountWithdrawn(t, amount)
    /\ Send(t, recipient, amount)
    /\ UNCHANGED <<totalCredited, now, admin, auth, notes>>

\* claimPaseoDust and claimPaseoDustTo.
ClaimPaseoDust(a) ==
    LET sendable == CleanAmount(pendingPaseoDust[a]) IN
    /\ sendable > 0
    /\ pendingPaseoDust' = [pendingPaseoDust EXCEPT ![a] = @ - sendable]
    /\ owned' = [owned EXCEPT ![Native] = @ - sendable]
    /\ UNCHANGED <<balanceOf, totals, now, admin, auth, notes>>

-----------------------------------------------------------------------------
(* Authorizations signed off-chain and submitted by a relay, at any later  *)
(* time and any number of times.                                           *)

WithdrawAuth == [type : {"Withdraw"}, asset : Assets, account : Accounts,
                 recipient : Accounts, nonce : Nat, deadline : Deadlines]

NoteAuth == [type : {"ShieldNote"}, asset : Assets, account : Accounts,
             bucket : Buckets, leaf : Notes \X Buckets, nonce : Nat, deadline : Deadlines]

\* The account's wallet signs for the nonce it has just read.
Sign(au) ==
    /\ Cardinality(signed) < MaxSigned
    /\ signed' = signed \cup {au}
    /\ UNCHANGED <<withdrawNonce, shieldNonce, used, now, admin, money, notes>>

SignWithdraw(a, t, recipient, deadline) ==
    Sign([type |-> "Withdraw", asset |-> t, account |-> a, recipient |-> recipient,
          nonce |-> withdrawNonce[a], deadline |-> deadline])

\* For a rung of the ladder, no more than the balance, as it has just read both.
SignNote(a, t, bucket, leaf, deadline) ==
    /\ bucket \in shieldBuckets[t] /\ bucket <= balanceOf[t][a]
    /\ Sign([type |-> "ShieldNote", asset |-> t, account |-> a, bucket |-> bucket,
             leaf |-> leaf, nonce |-> shieldNonce[a], deadline |-> deadline])

\* Mutant: the signature is checked, and its nonce never used up.
UseNonce_Kept(nonces, au) == nonces
UseNonce(nonces, au) == [nonces EXCEPT ![au.account] = @ + 1]

Fee(amount) == (amount * withdrawFeeBps) \div 10000

\* withdrawFor and withdrawForToken.
WithdrawFor(relay, au) ==
    LET a == au.account  t == au.asset
        amount == balanceOf[t][a]
        fee == Fee(amount)
        left == [balanceOf[t] EXCEPT ![a] = 0]
    IN
    /\ au.type = "Withdraw"
    /\ now <= au.deadline
    /\ au.nonce = withdrawNonce[a]
    /\ amount > 0
    /\ withdrawNonce' = UseNonce(withdrawNonce, au)
    /\ used' = used \cup {au}
    /\ balanceOf' = [balanceOf EXCEPT
                       ![t] = [left EXCEPT ![relay] = left[relay] + fee]]
    /\ CountWithdrawn(t, amount - fee)
    /\ Send(t, au.recipient, amount - fee)
    /\ UNCHANGED <<totalCredited, shieldNonce, signed, now, admin, notes>>

-----------------------------------------------------------------------------
(* The note pool.                                                          *)

\* Mutant: one buffer for all assets.
MoveBuffer_One(t, v) == shieldBuffer' = [shieldBuffer EXCEPT ![Native] = @ + v]
MoveBuffer(t, v) == shieldBuffer' = [shieldBuffer EXCEPT ![t] = @ + v]

\* _insertShieldNote: whatever the leaf is worth, it is the bucket that is paid.
InsertNote(a, t, bucket, leaf) ==
    /\ shieldPoseidon
    /\ bucket \in shieldBuckets[t]
    /\ leaf # Zero
    /\ balanceOf[t][a] >= bucket
    /\ ~TreeFull(noteTrees[t])
    /\ balanceOf' = [balanceOf EXCEPT ![t][a] = @ - bucket]
    /\ MoveBuffer(t, bucket)
    /\ noteTrees' = [noteTrees EXCEPT ![t] = InsertLeaf(@, leaf)]
    /\ leaves' = [leaves EXCEPT ![t] = Append(@, leaf)]
    /\ underpaid' = IF leaf[2] > bucket THEN underpaid \cup {t} ELSE underpaid
    /\ UNCHANGED <<nullifierSpent, shielded, owned, pendingPaseoDust, totals>>

\* insertShieldNote and insertShieldNoteToken.
InsertShieldNote(a, t, bucket, leaf) ==
    /\ InsertNote(a, t, bucket, leaf)
    /\ UNCHANGED <<auth, now, admin>>

\* insertShieldNoteFor and insertShieldNoteTokenFor.
InsertShieldNoteFor(au) ==
    /\ au.type = "ShieldNote"
    /\ now <= au.deadline
    /\ au.nonce = shieldNonce[au.account]
    /\ shieldNonce' = UseNonce(shieldNonce, au)
    /\ used' = used \cup {au}
    /\ InsertNote(au.account, au.asset, au.bucket, au.leaf)
    /\ UNCHANGED <<withdrawNonce, signed, now, admin>>

\* The circuit's statement: the leaf is under this root.
Provable(root, leaf) ==
    \E s \in Assets : \E k \in 1..Len(leaves[s]) :
        /\ leaf \in Range(SubSeq(leaves[s], 1, k))
        /\ root = MerkleRoot(SubSeq(leaves[s], 1, k))

\* Mutant: a root is looked up in every asset's tree.
VerifyAndBurn_AnyTree(t, root, leaf) ==
    /\ {"verifier", "pool"} \subseteq services
    /\ leaf[1] \notin nullifierSpent[t]
    /\ \E s \in Assets : IsKnownNoteRoot(noteTrees[s], root)
    /\ leaf[2] \in shieldBuckets[t]
    /\ Provable(root, leaf)

\* What _verifyAndBurn requires.
VerifyAndBurn(t, root, leaf) ==
    /\ {"verifier", "pool"} \subseteq services
    /\ leaf[1] \notin nullifierSpent[t]
    /\ IsKnownNoteRoot(noteTrees[t], root)
    /\ leaf[2] \in shieldBuckets[t]
    /\ Provable(root, leaf)

\* What a spend requires: of the arguments and, in the subtraction from the
\* buffer and the transfer to the pool, of the money.
SpendAllowed(t, root, leaf) ==
    /\ t # Native => t \in services
    /\ VerifyAndBurn(t, root, leaf)
    /\ leaf[2] <= shieldBuffer[t]
    /\ leaf[2] <= owned[t]

\* depositShieldNoteZK and depositShieldNoteTokenZK, by anyone.
DepositShieldNoteZK(t, root, leaf) ==
    LET bucket == leaf[2] IN
    /\ SpendAllowed(t, root, leaf)
    /\ nullifierSpent' = [nullifierSpent EXCEPT ![t] = @ \cup {leaf[1]}]
    /\ MoveBuffer(t, -bucket)
    /\ owned' = [owned EXCEPT ![t] = @ - bucket]
    /\ shielded' = [shielded EXCEPT ![t] = @ + bucket]
    /\ UNCHANGED <<noteTrees, leaves, underpaid, balanceOf, pendingPaseoDust, totals,
                   auth, now, admin>>

-----------------------------------------------------------------------------
(* Governance.                                                             *)

SetAuthorized ==
    /\ "authorized" \in Volatile
    /\ authorized' \in SUBSET Creditors
    /\ UNCHANGED <<withdrawFeeBps, services, shieldPoseidon, shieldBuckets,
                   now, money, auth, notes>>

SetWithdrawFeeBps(bps) ==
    /\ "fee" \in Volatile
    /\ bps <= 1000
    /\ withdrawFeeBps' = bps
    /\ UNCHANGED <<authorized, services, shieldPoseidon, shieldBuckets,
                   now, money, auth, notes>>

\* setShieldPool, setShieldVerifier and setShieldAssetId: set, or cleared.
SetService(s) ==
    /\ s \in Volatile
    /\ services' \in {services \cup {s}, services \ {s}}
    /\ UNCHANGED <<authorized, withdrawFeeBps, shieldPoseidon, shieldBuckets,
                   now, money, auth, notes>>

\* One-shot: the zeros of every tree derive from the hasher.
SetShieldPoseidon ==
    /\ ~shieldPoseidon
    /\ shieldPoseidon' = TRUE
    /\ noteTrees' = [noteTrees EXCEPT ![Native] = WarmTree(@)]
    /\ UNCHANGED <<authorized, withdrawFeeBps, services, shieldBuckets,
                   shieldBuffer, nullifierSpent, leaves, shielded, underpaid, now, money, auth>>

\* setShieldBuckets and setShieldBucketsToken.
SetShieldBuckets(t, ladder) ==
    /\ ladder # {} /\ 0 \notin ladder
    /\ shieldBuckets[t] = {} \/ "ladders" \in Volatile
    /\ shieldBuckets' = [shieldBuckets EXCEPT ![t] = ladder]
    /\ \/ /\ t = Native
          /\ \A b \in ladder : b % PASEO_UNIT < PASEO_REJECT_THRESHOLD
          /\ UNCHANGED noteTrees
       \/ /\ t \in Tokens
          /\ shieldPoseidon
          /\ noteTrees' = [noteTrees EXCEPT ![t] = WarmTree(@)]
    /\ UNCHANGED <<authorized, withdrawFeeBps, services, shieldPoseidon,
                   shieldBuffer, nullifierSpent, leaves, shielded, underpaid, now, money, auth>>

Tick ==
    /\ now < MaxTime
    /\ now' = now + 1
    /\ UNCHANGED <<admin, money, auth, notes>>

-----------------------------------------------------------------------------
Payee(a, t) ==
    \/ \E to \in Accounts, d \in Deadlines : SignWithdraw(a, t, to, d)
    \/ \E bucket \in Buckets, leaf \in Notes \X Buckets :
          \/ InsertShieldNote(a, t, bucket, leaf)
          \/ \E d \in Deadlines : SignNote(a, t, bucket, leaf, d)

\* A submitted spend: the root of some tree at some time, and a leaf.
Spend(t) ==
    \E s \in Assets : \E k \in 1..Len(leaves[s]), leaf \in Notes \X Buckets :
        DepositShieldNoteZK(t, MerkleRoot(SubSeq(leaves[s], 1, k)), leaf)

\* The settings that are not what they were at first.
Away ==
    {s \in {"authorized", "fee", "services"} :
        \/ s = "authorized" /\ authorized # Creditors
        \/ s = "fee" /\ withdrawFeeBps # 0
        \/ s = "services" /\ services # {"verifier", "pool"} \cup Tokens}

Governance ==
    \/ /\ \/ SetAuthorized
          \/ \E bps \in WithdrawFees : SetWithdrawFeeBps(bps)
          \/ \E s \in {"verifier", "pool"} \cup Tokens : SetService(s)
       /\ Cardinality(Away') <= MaxAway
    \/ SetShieldPoseidon
    \/ \E t \in Assets, ladder \in Ladders : SetShieldBuckets(t, ladder)

Next ==
    \/ \E from \in Creditors, to \in Payees, t \in Assets, v \in Amounts :
          Credit(from, to, t, v)
    \/ \E a \in Accounts : ClaimPaseoDust(a) \/ \E t \in Assets, to \in Accounts : Withdraw(a, t, to)
    \/ \E a \in Payees, t \in Assets : Payee(a, t)
    \/ \E au \in signed : InsertShieldNoteFor(au) \/ \E r \in Accounts : WithdrawFor(r, au)
    \/ \E t \in Assets : Spend(t)
    \/ Governance
    \/ Tick

Spec == Init /\ [][Next]_vars

-----------------------------------------------------------------------------
(* Properties.                                                             *)

\* The vault can pay everyone at once: what it owns of each asset is what it
\* owes to accounts, to unspent notes and, in native currency, to the dust
\* queue; no withdrawal, fee, rounding or spend is paid with another's money.
Solvency ==
    \A t \in Assets :
        owned[t] = SumFunction(balanceOf[t]) + shieldBuffer[t]
                   + (IF t = Native THEN SumFunction(pendingPaseoDust) ELSE 0)

\* The two public counters explain the native ledger: what was credited and
\* not withdrawn is in a balance, or was turned into notes.
Accounting ==
    totalCredited - totalWithdrawn =
        SumFunction(balanceOf[Native]) + shieldBuffer[Native] + shielded[Native]

\* A signed authorization moves money once, whatever is submitted again, out
\* of order, or in the other asset: each account's nonces count the
\* authorizations of its own that were acted upon.
AuthorizationsSingleUse ==
    \A a \in Accounts :
        /\ withdrawNonce[a] = Cardinality({s \in used : s.type = "Withdraw" /\ s.account = a})
        /\ shieldNonce[a] = Cardinality({s \in used : s.type = "ShieldNote" /\ s.account = a})

UnspentNotes(t) == {leaf \in Range(leaves[t]) : leaf[1] \notin nullifierSpent[t]}

\* The tree the contract keeps level by level is the tree its clients rebuild
\* from the events: governance calls in between change nothing in it.
RootsMatchClients ==
    \A t \in Assets :
        /\ noteTrees[t].nextIndex = Len(leaves[t])
        /\ leaves[t] # << >> =>
              noteTrees[t].roots[noteTrees[t].rootIndex] = MerkleRoot(leaves[t])

\* Every unspent note on the ladder can be spent now, while the services are
\* up, with a proof made at any of the last ROOT_HISTORY roots: whatever other
\* notes were spent, in this asset or another, the buffer still holds what it is
\* worth.  That rests on the depositors of the asset: none of them paid a bucket
\* smaller than what he committed to (_insertShieldNote does not check it).
NotesSpendable ==
    \A t \in Assets \ underpaid : \A leaf \in UnspentNotes(t) :
        /\ {"verifier", "pool"} \subseteq services
        /\ t # Native => t \in services
        /\ leaf[2] \in shieldBuckets[t]
        => \A k \in 1..Len(leaves[t]) :
              LET seen == SubSeq(leaves[t], 1, k) IN
              k > Len(leaves[t]) - ROOT_HISTORY /\ leaf \in Range(seen)
                 => SpendAllowed(t, MerkleRoot(seen), leaf)

Pool == INSTANCE NotePool WITH
    inserted <- [t \in Assets |-> Range(leaves[t])],
    spent <- nullifierSpent,
    paidIn <- [t \in Assets |-> shieldBuffer[t] + shielded[t]],
    paidOut <- shielded

\* Shielded payouts keep the promise of a note pool: each note is spent at
\* most once, in the asset it was inserted in and the denomination it commits
\* to, whatever tree a proof was made against; and out of what was paid for
\* notes of that asset, however little its own depositor paid.
NotePoolSpec == Pool!Spec
=============================================================================
