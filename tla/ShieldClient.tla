---------------------------- MODULE ShieldClient ----------------------------
(***************************************************************************)
(* The shielded wallet of the web client: notes of the vault's pool        *)
(* (web/src/shieldnote.ts), notes of the shielded pool they are spent into *)
(* (shield.ts, shieldpool.ts), and the relay's endpoints between client    *)
(* and chain (/shield-note, /shield-note-spend, /shield-withdraw).         *)
(*                                                                         *)
(* Three parts of the page run side by side, each one operation at a time: *)
(* the earnings strip (insert, spend all), the wallet (top up, return) and *)
(* the order form (fund a burner).  A step is the code between two waits.  *)
(* The relay may take a request and fail to say so; the tab may close.     *)
(*                                                                         *)
(* Abstractions.  A note's secrets are one value; a subtree of the pool is *)
(* the interval of leaves it covers; a proof is what it proves.  One asset:*)
(* every selection of notes is within one.  A denomination is worth 2, a   *)
(* burner 1, so that a withdrawal leaves change or leaves none.            *)
(***************************************************************************)
EXTENDS Integers, Sequences, FiniteSets

CONSTANTS
    VaultSecrets,     \* secrets drawn for notes of the vault
    PoolSecrets,      \* secrets drawn for notes of the shielded pool
    DEPTH,            \* levels of the pool's tree (128; what the leaves reach)
    ATTEMPTS,         \* how often fundBurner rebuilds its proof
    MaxLeaves, MaxHeight, MaxClosed,  \* bounds: leaves, blocks, closed tabs
    Null

ASSUME ShieldAssumption ==
    /\ ATTEMPTS \in Nat \ {0}
    /\ MaxLeaves \in Nat /\ MaxHeight \in Nat /\ MaxClosed \in Nat
    /\ DEPTH \in Nat
    /\ Null \notin VaultSecrets \cup PoolSecrets

Parts == {"earnings", "wallet", "order"}

VARIABLES
    vaultStore,   \* fare.shield.notes.zk: the vault notes held
    poolStore,    \* fare.shield.notes: records of pool notes
    run,          \* part -> the operation it is in, with its locals
    mempool,      \* transactions accepted and not mined
    vaultLeaves, vaultSpent,  \* notes in the vault's tree; and spent
    pool,         \* the leaves of the shielded pool, each with its block
    poolSpent,
    height,       \* block number
    excused,      \* history: secrets given up in one of the ways SecretsKept names
    overtaken,    \* history: pool secrets for which the chain moved while it was read,
                  \* or that were recorded before their transaction was mined
    dropped,      \* history: pool secrets whose transaction was dropped while in hand
    closedTabs    \* how many tabs were closed

stores == <<vaultStore, poolStore>>
chain == <<vaultLeaves, vaultSpent, pool, poolSpent, height>>
shieldVars == <<stores, run, mempool, chain, excused, overtaken, dropped, closedTabs>>

Idle == [pc |-> "idle", todo |-> {}, note |-> Null, fresh |-> Null,
         index |-> 0, left |-> << >>, attempt |-> 0]

ShieldInit ==
    /\ vaultStore = {} /\ poolStore = {}
    /\ run = [p \in Parts |-> Idle]
    /\ mempool = {}
    /\ vaultLeaves = {} /\ vaultSpent = {}
    /\ pool = << >> /\ poolSpent = {} /\ height = 0
    /\ excused = {} /\ overtaken = {} /\ dropped = {} /\ closedTabs = 0

-----------------------------------------------------------------------------
(* The pool's tree.                                                        *)

Levels == 0..(DEPTH - 1)

Bit(i, lv) == (i \div 2^lv) % 2 = 1

\* sideNodes[lv] of the pool: the node at that level above the last leaf that
\* was a left child there, as the interval of leaves it stood for.
SideNode(size, lv) ==
    LET lefts == {j \in 0..(size - 1) : ~Bit(j, lv)}
        last == CHOOSE j \in lefts : \A i \in lefts : i <= j
    IN IF lefts = {} THEN << >> ELSE <<(last \div 2^lv) * 2^lv, last>>

\* What a snapshot taken at this size holds for the leaf at `index`.
Snapshot(size, index) == [lv \in {l \in Levels : Bit(index, l)} |-> SideNode(size, lv)]

\* The left siblings of the leaf at `index`: they are complete, and stay.
LeftPath(index) ==
    [lv \in {l \in Levels : Bit(index, l)} |->
        <<(index \div 2^lv - 1) * 2^lv, (index \div 2^lv) * 2^lv - 1>>]

Landed(k) == \E i \in DOMAIN pool : pool[i].note = k
IndexOf(k) == (CHOOSE i \in DOMAIN pool : pool[i].note = k) - 1

\* reconstructPath: the scan from depositBlock meets the commitment, and the
\* path through the snapshot hashes to the pool's root.
Reconstructs(rec) ==
    /\ Landed(rec.note)
    /\ rec.depositBlock <= pool[IndexOf(rec.note) + 1].block
    /\ rec.index = IndexOf(rec.note)
    /\ rec.left = LeftPath(rec.index)

-----------------------------------------------------------------------------
(* Helpers.                                                                *)

\* Secrets nothing refers to: randomness that was thrown away may come again.
Unused(k) ==
    /\ \A p \in Parts : run[p].fresh # k
    /\ \A tx \in mempool : tx.out # k
    /\ \A rec \in poolStore : rec.note # k
    /\ ~Landed(k)

Go(p, r) == run' = [run EXCEPT ![p] = r]
Stop(p) == Go(p, Idle)

Held(v) == v \in vaultStore
rememberShieldNote(v) == vaultStore' = vaultStore \cup {v}
forgetShieldNote(v) == vaultStore' = vaultStore \ {v}

Tx(kind, note, out, value) == [kind |-> kind, note |-> note, out |-> out, value |-> value]

\* How a request ends: the relay sent the transaction or did not, and the
\* client hears a hash, an error, "stale" (409), or nothing (fetch throws).
Outcomes == {o \in [sent : BOOLEAN, reply : {"hash", "error", "stale", "lost"}] :
                /\ o.reply = "hash" => o.sent
                /\ o.reply = "stale" => ~o.sent}

Submit(o, tx) == mempool' = IF o.sent THEN mempool \cup {tx} ELSE mempool

\* The chain has the secret's leaf, or may come to have it.
OnChain(k) == Landed(k) \/ \E tx \in mempool : tx.out = k

\* Drawn anew, a secret has no history.
Draw(k) == overtaken' = overtaken \ {k} /\ dropped' = dropped \ {k}

\* Secrets given up by this step, of notes that are or may come on chain.
Excuse(S) == excused' = excused \cup (S \ {Null})
GiveUp(k) == Excuse(IF OnChain(k) THEN {k} ELSE {})

\* Operations that have read where the pool ends and do not yet have what
\* they need of it: another leaf in between leaves them with a wrong path.
Watching ==
    {run[p].fresh : p \in {q \in Parts : \/ run[q].pc \in {"deposit", "confirm", "spend"}
                                         \/ run[q].pc = "adopt" /\ ~Landed(run[q].fresh)}}
    \cup {tx.out : tx \in {t \in mempool : t.kind = "spend"}}

\* A change note that has landed and is not recorded: for it any block is late.
LandedChange ==
    {run[p].fresh : p \in {q \in Parts : run[q].pc \in {"answer", "change"}
                                         /\ Landed(run[q].fresh)}}

-----------------------------------------------------------------------------
(* The earnings strip: shieldAll and spendAll.                             *)

\* insertShieldNote up to the signature: the note is stored before anything else.
InsertNote(v) ==
    /\ run["earnings"].pc = "idle"
    /\ ~Held(v) /\ v \notin vaultLeaves /\ v \notin excused
    /\ \A tx \in mempool : tx.note # v
    /\ rememberShieldNote(v)
    /\ Go("earnings", [Idle EXCEPT !.pc = "insert", !.note = v])
    /\ UNCHANGED <<poolStore, mempool, chain, excused, overtaken, dropped, closedTabs>>

\* Mutant: the note is forgotten whenever no hash was heard.
Forgotten_Unheard(reply) == reply # "hash"
\* An error reply makes the client forget the note; silence does not.
Forgotten(reply) == reply = "error"

\* POST /shield-note, and what the client makes of the reply.
PostInsert ==
    LET r == run["earnings"] IN
    /\ r.pc = "insert"
    /\ \E o \in Outcomes :
          /\ o.reply # "stale"
          /\ Submit(o, Tx("insert", r.note, Null, 0))
          /\ IF Forgotten(o.reply) THEN forgetShieldNote(r.note) ELSE UNCHANGED vaultStore
          /\ Excuse(IF o.sent /\ o.reply = "error" THEN {r.note} ELSE {})
    /\ Stop("earnings")
    /\ UNCHANGED <<poolStore, chain, overtaken, dropped, closedTabs>>

\* spendAll goes through the notes it sees; which comes first matters to none.
SpendAll ==
    /\ run["earnings"].pc = "idle"
    /\ vaultStore # {}
    /\ Go("earnings", [Idle EXCEPT !.pc = "prove", !.todo = vaultStore])
    /\ UNCHANGED <<stores, mempool, chain, excused, overtaken, dropped, closedTabs>>

\* spendShieldNote up to the POST: a fresh pool note, the proof, and the pool's
\* tree as it is now.  A note the vault's tree does not have, a read or a proof
\* that fails ends the whole loop.
ProveSpend(k) ==
    LET r == run["earnings"] IN
    /\ r.pc = "prove"
    /\ \/ Stop("earnings") /\ UNCHANGED <<overtaken, dropped>>
       \/ /\ Unused(k)
          /\ \E v \in r.todo \cap vaultLeaves :
                Go("earnings", [r EXCEPT !.pc = "spend", !.note = v, !.fresh = k,
                                         !.index = Len(pool),
                                         !.left = Snapshot(Len(pool), Len(pool))])
          /\ Draw(k)
    /\ UNCHANGED <<stores, mempool, chain, excused, closedTabs>>

\* POST /shield-note-spend: answered once the transaction is sent, not mined.
PostSpend ==
    LET r == run["earnings"] IN
    /\ r.pc = "spend"
    /\ \E o \in Outcomes :
          /\ Submit(o, Tx("spend", r.note, r.fresh, 2))
          /\ IF o.reply = "hash"
             THEN /\ forgetShieldNote(r.note)
                  /\ Go("earnings", [r EXCEPT !.pc = "adopt"])
                  /\ Excuse({})
             ELSE /\ UNCHANGED vaultStore
                  /\ Stop("earnings")
                  /\ Excuse(IF o.sent THEN {r.fresh} ELSE {})
    /\ UNCHANGED <<poolStore, chain, overtaken, dropped, closedTabs>>

\* Adopted whatever became of the transaction: the receipt's status is not
\* looked at.  A wait that fails, mined or not, puts the current block in the
\* receipt's place; if that cannot be read either, nothing is adopted, the secrets
\* were nowhere else, and the whole loop ends.
AdoptNote ==
    LET r == run["earnings"]
        Store(block) ==
            /\ poolStore' = poolStore \cup
                 {[note |-> r.fresh, index |-> r.index, left |-> r.left,
                   depositBlock |-> block, value |-> 2, spent |-> FALSE]}
            /\ Go("earnings", IF r.todo = {r.note} THEN Idle
                              ELSE [Idle EXCEPT !.pc = "prove", !.todo = r.todo \ {r.note}])
            /\ UNCHANGED excused
    IN
    /\ r.pc = "adopt"
    /\ \/ Landed(r.fresh) /\ Store(pool[IndexOf(r.fresh) + 1].block) /\ UNCHANGED overtaken
       \/ /\ Store(height)
          /\ overtaken' = overtaken \cup (IF Landed(r.fresh) THEN {r.fresh} ELSE {})
       \/ /\ Stop("earnings")
          /\ GiveUp(r.fresh)
          /\ UNCHANGED <<poolStore, overtaken>>
    /\ UNCHANGED <<vaultStore, mempool, chain, dropped, closedTabs>>

-----------------------------------------------------------------------------
(* The wallet: topUpShielded, one rung at a time.                          *)

\* depositAndSnapshot: where the tree ends, before the deposit.
StartDeposit(k) ==
    /\ run["wallet"].pc = "idle"
    /\ Unused(k)
    /\ Go("wallet", [Idle EXCEPT !.pc = "deposit", !.fresh = k, !.index = Len(pool)])
    /\ Draw(k)
    /\ UNCHANGED <<stores, mempool, chain, excused, closedTabs>>

SubmitDeposit ==
    LET r == run["wallet"] IN
    /\ r.pc = "deposit"
    /\ \E o \in Outcomes :
          /\ o.reply \in {"hash", "lost"}
          /\ Submit(o, Tx("deposit", Null, r.fresh, 2))
          /\ IF o.reply = "hash" THEN Go("wallet", [r EXCEPT !.pc = "confirm"])
             ELSE Stop("wallet")
          /\ Excuse(IF o.sent /\ o.reply = "lost" THEN {r.fresh} ELSE {})
    /\ UNCHANGED <<stores, chain, overtaken, dropped, closedTabs>>

\* The deposit is mined: the side nodes are read, and only now the note is stored.
\* A reverted deposit throws, and so does a wait or a read that fails, whatever
\* has become of the deposit or will.
ConfirmDeposit ==
    LET r == run["wallet"] IN
    /\ r.pc = "confirm"
    /\ \/ /\ Landed(r.fresh)
          /\ poolStore' = poolStore \cup
               {[note |-> r.fresh, index |-> r.index, left |-> Snapshot(Len(pool), r.index),
                 depositBlock |-> pool[IndexOf(r.fresh) + 1].block - 1,
                 value |-> 2, spent |-> FALSE]}
          /\ UNCHANGED excused
       \/ /\ UNCHANGED poolStore
          /\ GiveUp(r.fresh)
    /\ Stop("wallet")
    /\ UNCHANGED <<vaultStore, mempool, chain, overtaken, dropped, closedTabs>>

-----------------------------------------------------------------------------
(* The order form: fundBurner.                                             *)

\* pickSpendable: the smallest unspent record that suffices; a burner needs 1.
pickSpendable ==
    LET unspent == {rec \in poolStore : ~rec.spent}
    IN {rec \in unspent : \A other \in unspent : rec.value <= other.value}

FundBurner ==
    /\ run["order"].pc = "idle"
    /\ \E rec \in pickSpendable :
          Go("order", [Idle EXCEPT !.pc = "build", !.note = rec, !.attempt = 1])
    /\ UNCHANGED <<stores, mempool, chain, excused, overtaken, dropped, closedTabs>>

\* buildWithdrawal, with a change note drawn for each attempt.  A path that does
\* not hash to the root, or a read that fails, throws.
BuildWithdrawal(k) ==
    LET r == run["order"] IN
    /\ r.pc = "build"
    /\ \/ Stop("order") /\ UNCHANGED <<overtaken, dropped>>
       \/ /\ Reconstructs(r.note)
          /\ Unused(k)
          /\ Go("order", [r EXCEPT !.pc = "withdraw", !.fresh = k])
          /\ Draw(k)
    /\ UNCHANGED <<stores, mempool, chain, excused, closedTabs>>

\* Mutant: the attempts are not counted.
Rebuilt_Uncounted(attempt) == attempt
\* for (attempt = 0; attempt < 3; attempt++): rebuilt on 409, which says that
\* the root is no longer in the pool's window.
Rebuilt(attempt) == attempt + 1

\* POST /shield-withdraw, up to the relay's send; on 409 the proof is built again.
PostWithdraw ==
    LET r == run["order"] IN
    /\ r.pc = "withdraw"
    /\ \/ /\ Submit([sent |-> TRUE], Tx("withdraw", r.note.note, r.fresh, r.note.value - 1))
          /\ Go("order", [r EXCEPT !.pc = "answer"])
       \/ /\ \/ /\ r.attempt < ATTEMPTS
                /\ Go("order", [r EXCEPT !.pc = "build", !.fresh = Null,
                                         !.attempt = Rebuilt(@)])
             \/ Stop("order")
          /\ UNCHANGED mempool
    /\ UNCHANGED <<stores, chain, excused, overtaken, dropped, closedTabs>>

markSpent(k) ==
    poolStore' = {IF rec.note = k THEN [rec EXCEPT !.spent = TRUE] ELSE rec : rec \in poolStore}

\* The relay answers when its wait for the transaction has ended, with the hash
\* even if that wait failed: the withdrawal may have reverted or be still to come.
HearHash ==
    LET r == run["order"] IN
    /\ r.pc = "answer"
    /\ markSpent(r.note.note)
    /\ Go("order", IF r.note.value > 1 THEN [r EXCEPT !.pc = "change"] ELSE Idle)
    /\ Excuse(IF r.note.note \notin poolSpent THEN {r.note.note} ELSE {})
    /\ UNCHANGED <<vaultStore, mempool, chain, overtaken, dropped, closedTabs>>

\* An error, of the relay's forward of the money, or no answer: the record stays unspent, the change is given up.
HearNothing ==
    LET r == run["order"] IN
    /\ r.pc = "answer"
    /\ Stop("order")
    /\ GiveUp(r.fresh)
    /\ UNCHANGED <<stores, mempool, chain, overtaken, dropped, closedTabs>>

\* Mutant: the place after the last leaf.
ChangeIndex_Next == Len(pool)
\* "change note is the last leaf"
ChangeIndex == Len(pool) - 1

\* recordChangeNote, from the tree and the block as they are by now, the change
\* in it or not; a read that fails is swallowed, and the change with it.
RecordChange ==
    LET r == run["order"] IN
    /\ r.pc = "change"
    /\ \/ /\ poolStore' = poolStore \cup
               {[note |-> r.fresh, index |-> ChangeIndex,
                 left |-> Snapshot(Len(pool), ChangeIndex), depositBlock |-> height,
                 value |-> r.note.value - 1, spent |-> FALSE]}
          /\ overtaken' = overtaken \cup (IF Landed(r.fresh) THEN {} ELSE {r.fresh})
          /\ UNCHANGED excused
       \/ UNCHANGED <<poolStore, overtaken>> /\ GiveUp(r.fresh)
    /\ Stop("order")
    /\ UNCHANGED <<vaultStore, mempool, chain, dropped, closedTabs>>

-----------------------------------------------------------------------------
(* The chain and the tab.                                                  *)

Append1(note, value) ==
    /\ Len(pool) < MaxLeaves
    /\ pool' = Append(pool, [note |-> note, block |-> height + 1, value |-> value])
    /\ overtaken' = overtaken \cup (Watching \ {note}) \cup LandedChange

NextBlock == height < MaxHeight /\ height' = height + 1

\* FareVault and the pool: what a mined transaction does, if it succeeds.
Succeeds(tx) ==
    \/ /\ tx.kind = "insert"
       /\ vaultLeaves' = vaultLeaves \cup {tx.note}
       /\ overtaken' = overtaken \cup LandedChange
       /\ UNCHANGED <<vaultSpent, pool, poolSpent>>
    \/ /\ tx.kind = "spend" /\ tx.note \in vaultLeaves \ vaultSpent
       /\ vaultSpent' = vaultSpent \cup {tx.note}
       /\ Append1(tx.out, tx.value)
       /\ UNCHANGED <<vaultLeaves, poolSpent>>
    \/ /\ tx.kind = "deposit"
       /\ Append1(tx.out, tx.value)
       /\ UNCHANGED <<vaultLeaves, vaultSpent, poolSpent>>
    \/ /\ tx.kind = "withdraw" /\ tx.note \notin poolSpent
       /\ poolSpent' = poolSpent \cup {tx.note}
       /\ Append1(tx.out, tx.value)
       /\ UNCHANGED <<vaultLeaves, vaultSpent>>

Mine(tx) ==
    /\ Succeeds(tx)
    /\ NextBlock
    /\ mempool' = mempool \ {tx}
    /\ UNCHANGED <<stores, run, excused, dropped, closedTabs>>

\* A vault note whose spend was answered with a hash is forgotten by now: when
\* the transaction fails, nobody holds its secret.
Fail(tx) ==
    /\ mempool' = mempool \ {tx}
    /\ Excuse(IF tx.kind = "spend" /\ ~Held(tx.note) THEN {tx.note} ELSE {})
    /\ UNCHANGED <<stores, run, chain, overtaken, closedTabs>>

\* Its root aged out, its nonce or note is used, a balance moved.
Revert(tx) == Fail(tx) /\ UNCHANGED dropped

\* Never mined: there is no receipt, now or later, and a wait for it only ends
\* if reading the chain fails.
Drop(tx) ==
    Fail(tx) /\ dropped' = dropped \cup (({tx.out} \cap {run[p].fresh : p \in Parts}) \ {Null})

\* Somebody else's leaf, and a block without one.
ForeignLeaf ==
    /\ Append1(Null, 0) /\ NextBlock
    /\ UNCHANGED <<stores, run, mempool, vaultLeaves, vaultSpent, poolSpent,
                   excused, dropped, closedTabs>>
EmptyBlock ==
    /\ NextBlock
    /\ overtaken' = overtaken \cup LandedChange
    /\ UNCHANGED <<stores, run, mempool, vaultLeaves, vaultSpent, pool, poolSpent,
                   excused, dropped, closedTabs>>

\* The tab is closed: what was only in memory is gone.
CloseTab ==
    /\ closedTabs < MaxClosed
    /\ \E p \in Parts : run[p] # Idle
    /\ run' = [p \in Parts |-> Idle]
    /\ Excuse({run[p].fresh : p \in {q \in Parts : OnChain(run[q].fresh)}})
    /\ closedTabs' = closedTabs + 1
    /\ UNCHANGED <<stores, mempool, chain, overtaken, dropped>>

-----------------------------------------------------------------------------
Steps ==
    \/ \E v \in VaultSecrets : InsertNote(v)
    \/ SpendAll
    \/ \E k \in PoolSecrets : StartDeposit(k)
    \/ FundBurner
Continues ==
    \/ PostInsert \/ PostSpend \/ AdoptNote \/ (\E k \in PoolSecrets : ProveSpend(k))
    \/ SubmitDeposit \/ ConfirmDeposit
    \/ (\E k \in PoolSecrets : BuildWithdrawal(k)) \/ PostWithdraw \/ HearHash \/ HearNothing \/ RecordChange
World ==
    \/ \E tx \in mempool : Mine(tx) \/ Revert(tx) \/ Drop(tx)
    \/ ForeignLeaf \/ EmptyBlock \/ CloseTab

ShieldNext == Steps \/ Continues \/ World

\* The transaction an operation waits for has a receipt, or never was.
Settled(p) ==
    run[p].fresh \notin dropped /\ \A tx \in mempool : tx.out # run[p].fresh

\* A started operation goes on: every call is answered or fails, and what was
\* sent is mined, reverts or is dropped.  The three waits for a transaction have no
\* timeout (tx.wait, waitForTransaction, the relay's wait), so they must only end
\* once there is a receipt.  Nobody is obliged to start an operation.
ShieldFairness ==
    /\ WF_shieldVars(PostInsert) /\ WF_shieldVars(PostSpend)
    /\ WF_shieldVars(\E k \in PoolSecrets : ProveSpend(k))
    /\ WF_shieldVars(Settled("earnings") /\ AdoptNote)
    /\ WF_shieldVars(SubmitDeposit) /\ WF_shieldVars(Settled("wallet") /\ ConfirmDeposit)
    /\ WF_shieldVars(\E k \in PoolSecrets : BuildWithdrawal(k)) /\ WF_shieldVars(PostWithdraw)
    /\ WF_shieldVars(Settled("order") /\ (HearHash \/ HearNothing))
    /\ WF_shieldVars(RecordChange)
    /\ \A k \in PoolSecrets :
          WF_shieldVars(\E tx \in mempool : tx.out = k /\ (Mine(tx) \/ Revert(tx) \/ Drop(tx)))

ShieldSpec == ShieldInit /\ [][ShieldNext]_shieldVars /\ ShieldFairness

-----------------------------------------------------------------------------
(* Properties.                                                             *)

LiveVaultNotes == vaultLeaves \ vaultSpent
LivePoolNotes == {pool[i].note : i \in {j \in DOMAIN pool :
                     pool[j].value > 0 /\ pool[j].note \notin poolSpent}}

\* "persisted locally first, because the chain holds only its commitment and
\* the secrets exist nowhere else": whatever the interleaving of operations,
\* answers and blocks, a note with value on chain is in a store of the device
\* as unspent, or in the hands of an operation, or was given up in one of the
\* ways that excused names: an error answered to an insert that was sent, no hash
\* for a spend or withdrawal that was sent, a hash for one that failed or was
\* still to come, a wait or read that failed before the note was stored, with the
\* deposit mined or still pending, a change that could not be read, a closed tab.
SecretsKept ==
    /\ \A v \in LiveVaultNotes :
          \/ Held(v) \/ v \in excused
          \/ \E tx \in mempool : tx.kind = "spend" /\ tx.note = v
    /\ \A k \in LivePoolNotes :
          \/ \E rec \in poolStore : rec.note = k /\ ~rec.spent
          \/ \E p \in Parts : run[p].fresh = k
          \/ k \in excused

\* depositAndSnapshot, batchNotePaths and recordChangeNote read the tree at three
\* different moments: unless another leaf (or, for change, another block) came in
\* between, or the change was recorded before its withdrawal was mined, each leaves
\* a record that can be proved against every later root.
PathsRight ==
    \A rec \in poolStore :
        Landed(rec.note) /\ rec.note \notin overtaken => Reconstructs(rec)

\* An operation waits for the receipt of a transaction that was dropped.
Stranded(p) == run[p].pc \in {"adopt", "confirm", "answer"} /\ run[p].fresh \in dropped

\* Whatever is answered, refused, reverted or overtaken, an operation once started
\* comes to an end and gives its part of the page back, or is left waiting for the
\* receipt of a transaction that was dropped: no wait has a timeout, though
\* fundBurner's own comment has it that a relay's hash may never be resolved.
OperationsEnd == \A p \in Parts : []<>(run[p].pc = "idle" \/ Stranded(p))
=============================================================================
