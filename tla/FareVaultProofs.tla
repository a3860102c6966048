-------------------------- MODULE FareVaultProofs --------------------------
(***************************************************************************)
(* What TLAPS shows of FareVault, for any number of accounts, assets,      *)
(* notes and submissions:                                                  *)
(*   I    an authorization signed once moves money once;                   *)
(*   II   the vault owns what it owes, and its counters explain its ledger;*)
(*   III  its trees have the roots of the trees its clients rebuild;       *)
(*   IV   a note is paid out once, from its own asset: it implements       *)
(*        NotePool;                                                        *)
(*   V    an unspent note can be spent, if none was underpaid.             *)
(***************************************************************************)
EXTENDS FareVault, SumLemmas

Auths == WithdrawAuth \cup NoteAuth

\* The nonces of one kind of authorization, and those of the kind acted upon.
UsedOf(type, a) == {s \in used : s.type = type /\ s.account = a}

\* Inductive: an authorization acted upon carries a nonce already passed, so
\* the one at the present nonce is a new one.
Counts(nonces, type) ==
    /\ nonces \in [Accounts -> Nat]
    /\ \A s \in used : s.type = type => s.nonce < nonces[s.account]
    /\ \A a \in Accounts : nonces[a] = Cardinality(UsedOf(type, a))

VInv ==
    /\ signed \subseteq Auths /\ used \subseteq Auths
    /\ IsFiniteSet(used)
    /\ Counts(withdrawNonce, "Withdraw")
    /\ Counts(shieldNonce, "ShieldNote")

-----------------------------------------------------------------------------
(* What an authorization is.                                               *)

LEMMA AuthFields ==
    ASSUME NEW s \in Auths
    PROVE  /\ s.type \in {"Withdraw", "ShieldNote"} /\ s.account \in Accounts
           /\ s.nonce \in Nat
BY DEF Auths, WithdrawAuth, NoteAuth

LEMMA InitVInv == Init => VInv
<1> SUFFICES ASSUME Init PROVE VInv
  OBVIOUS
<1>1. /\ signed = {} /\ used = {}
      /\ withdrawNonce = [a \in Accounts |-> 0] /\ shieldNonce = [a \in Accounts |-> 0]
  BY DEF Init
<1>2. \A type, a : UsedOf(type, a) = {}
  BY <1>1 DEF UsedOf
<1>3. \A type, a : Cardinality(UsedOf(type, a)) = 0
  BY <1>2, FS_EmptySet
<1>4. IsFiniteSet(used)
  BY <1>1, FS_EmptySet
<1> QED
  BY <1>1, <1>3, <1>4 DEF VInv, Counts

-----------------------------------------------------------------------------
(* Signing adds to what may be submitted; acting adds to what was used.    *)

LEMMA SameUsed ==
    ASSUME VInv, UNCHANGED <<withdrawNonce, shieldNonce, used>>, signed' \subseteq Auths
    PROVE  VInv'
BY DEF VInv, Counts, UsedOf

LEMMA SignKeeps ==
    ASSUME VInv, NEW au \in Auths, Sign(au)
    PROVE  VInv'
<1>1. signed' \subseteq Auths /\ UNCHANGED <<withdrawNonce, shieldNonce, used>>
  BY DEF Sign, VInv
<1> QED
  BY <1>1, SameUsed

\* The kind acted upon: its account's nonce moves past the new authorization.
LEMMA CountsUsed ==
    ASSUME VInv, NEW nonces, NEW next, NEW type, Counts(nonces, type),
           NEW au \in Auths, au.type = type, au.nonce = nonces[au.account],
           next = UseNonce(nonces, au), used' = used \cup {au}
    PROVE  /\ next \in [Accounts -> Nat]
           /\ \A s \in used' : s.type = type => s.nonce < next[s.account]
           /\ \A a \in Accounts : next[a] = Cardinality(UsedOf(type, a)')
<1> DEFINE b == au.account
<1>1. b \in Accounts /\ nonces \in [Accounts -> Nat]
  BY AuthFields DEF Counts
<1>2. /\ next = [nonces EXCEPT ![b] = nonces[b] + 1]
      /\ next \in [Accounts -> Nat]
      /\ next[b] = nonces[b] + 1 /\ \A a \in Accounts \ {b} : next[a] = nonces[a]
  BY <1>1 DEF UseNonce
<1>3. au \notin used
  <2>1. \A s \in used : s.type = type => s.nonce < nonces[s.account]
    BY DEF Counts
  <2> QED
    BY <1>1, <2>1
<1>4. ASSUME NEW s \in used', s.type = type PROVE s.nonce < next[s.account]
  <2>1. s \in Auths
    BY DEF VInv
  <2>2. s.nonce \in Nat /\ s.account \in Accounts
    BY <2>1, AuthFields
  <2>3. s.nonce <= nonces[s.account] /\ (s.account # b => s.nonce < nonces[s.account])
    <3>1. CASE s \in used
      BY <1>1, <1>4, <2>2, <3>1 DEF Counts
    <3>2. CASE s = au
      BY <1>1, <2>2, <3>2
    <3> QED
      BY <3>1, <3>2
  <2> QED
    BY <1>1, <1>2, <2>2, <2>3
<1>5. ASSUME NEW a \in Accounts PROVE next[a] = Cardinality(UsedOf(type, a)')
  <2>1. IsFiniteSet(UsedOf(type, a)) /\ nonces[a] = Cardinality(UsedOf(type, a))
    <3>1. UsedOf(type, a) \in SUBSET used
      BY DEF UsedOf
    <3> QED
      BY <3>1, FS_Subset DEF VInv, Counts
  <2>2. CASE a = b
    <3>1. UsedOf(type, a)' = UsedOf(type, a) \cup {au} /\ au \notin UsedOf(type, a)
      BY <1>3, <2>2 DEF UsedOf
    <3>2. Cardinality(UsedOf(type, a)') = Cardinality(UsedOf(type, a)) + 1
      BY <2>1, <3>1, FS_AddElement
    <3> QED
      BY <1>2, <2>1, <2>2, <3>2
  <2>3. CASE a # b
    <3>1. UsedOf(type, a)' = UsedOf(type, a)
      BY <2>3 DEF UsedOf
    <3> QED
      BY <1>2, <2>1, <2>3, <3>1
  <2> QED
    BY <2>2, <2>3
<1> QED
  BY <1>2, <1>4, <1>5

\* The other kind: nothing of it was acted upon.
LEMMA CountsOther ==
    ASSUME VInv, NEW nonces, NEW type, Counts(nonces, type),
           NEW au \in Auths, au.type # type, used' = used \cup {au}
    PROVE  /\ nonces \in [Accounts -> Nat]
           /\ \A s \in used' : s.type = type => s.nonce < nonces[s.account]
           /\ \A a \in Accounts : nonces[a] = Cardinality(UsedOf(type, a)')
<1>1. \A a : UsedOf(type, a)' = UsedOf(type, a)
  BY DEF UsedOf
<1> QED
  BY <1>1 DEF Counts

LEMMA UsedKept ==
    ASSUME VInv, NEW au \in Auths, used' = used \cup {au}, signed' = signed
    PROVE  signed' \subseteq Auths /\ used' \subseteq Auths /\ IsFiniteSet(used')
BY FS_AddElement DEF VInv

LEMMA WithdrawForKeeps ==
    ASSUME VInv, NEW relay, NEW au \in signed, WithdrawFor(relay, au)
    PROVE  VInv'
<1>1. /\ au \in Auths /\ au.type = "Withdraw" /\ au.nonce = withdrawNonce[au.account]
      /\ withdrawNonce' = UseNonce(withdrawNonce, au)
      /\ used' = used \cup {au}
      /\ shieldNonce' = shieldNonce /\ signed' = signed
  BY DEF WithdrawFor, VInv
<1>2. Counts(withdrawNonce, "Withdraw")'
  <2>1. Counts(withdrawNonce, "Withdraw")
    BY DEF VInv
  <2>2. /\ withdrawNonce' \in [Accounts -> Nat]
        /\ \A s \in used' : s.type = "Withdraw" => s.nonce < withdrawNonce'[s.account]
        /\ \A a \in Accounts : withdrawNonce'[a] = Cardinality(UsedOf("Withdraw", a)')
    BY <1>1, <2>1, CountsUsed
  <2> QED
    BY <2>2 DEF Counts
<1>3. Counts(shieldNonce, "ShieldNote")'
  <2>1. Counts(shieldNonce, "ShieldNote")
    BY DEF VInv
  <2>2. /\ shieldNonce' \in [Accounts -> Nat]
        /\ \A s \in used' : s.type = "ShieldNote" => s.nonce < shieldNonce'[s.account]
        /\ \A a \in Accounts : shieldNonce'[a] = Cardinality(UsedOf("ShieldNote", a)')
    BY <1>1, <2>1, CountsOther
  <2> QED
    BY <2>2 DEF Counts
<1> QED
  BY <1>1, <1>2, <1>3, UsedKept DEF VInv

LEMMA InsertShieldNoteForKeeps ==
    ASSUME VInv, NEW au \in signed, InsertShieldNoteFor(au)
    PROVE  VInv'
<1>1. /\ au \in Auths /\ au.type = "ShieldNote" /\ au.nonce = shieldNonce[au.account]
      /\ shieldNonce' = UseNonce(shieldNonce, au)
      /\ used' = used \cup {au}
      /\ withdrawNonce' = withdrawNonce /\ signed' = signed
  BY DEF InsertShieldNoteFor, VInv
<1>2. Counts(withdrawNonce, "Withdraw")'
  <2>1. Counts(withdrawNonce, "Withdraw")
    BY DEF VInv
  <2>2. /\ withdrawNonce' \in [Accounts -> Nat]
        /\ \A s \in used' : s.type = "Withdraw" => s.nonce < withdrawNonce'[s.account]
        /\ \A a \in Accounts : withdrawNonce'[a] = Cardinality(UsedOf("Withdraw", a)')
    BY <1>1, <2>1, CountsOther
  <2> QED
    BY <2>2 DEF Counts
<1>3. Counts(shieldNonce, "ShieldNote")'
  <2>1. Counts(shieldNonce, "ShieldNote")
    BY DEF VInv
  <2>2. /\ shieldNonce' \in [Accounts -> Nat]
        /\ \A s \in used' : s.type = "ShieldNote" => s.nonce < shieldNonce'[s.account]
        /\ \A a \in Accounts : shieldNonce'[a] = Cardinality(UsedOf("ShieldNote", a)')
    BY <1>1, <2>1, CountsUsed
  <2> QED
    BY <2>2 DEF Counts
<1> QED
  BY <1>1, <1>2, <1>3, UsedKept DEF VInv

\* Every other step leaves what was signed and used alone.
LEMMA PayeeKeeps ==
    ASSUME VInv, NEW a \in Accounts, NEW t \in Assets, Payee(a, t)
    PROVE  VInv'
<1>1. ASSUME NEW bucket, NEW leaf, InsertShieldNote(a, t, bucket, leaf) PROVE UNCHANGED auth
  BY <1>1 DEF InsertShieldNote
<1>2. ASSUME UNCHANGED auth PROVE VInv'
  BY <1>2, SameUsed DEF auth, VInv
<1>3. ASSUME NEW to \in Accounts, NEW d \in Deadlines, SignWithdraw(a, t, to, d) PROVE VInv'
  <2> DEFINE au == [type |-> "Withdraw", asset |-> t, account |-> a, recipient |-> to,
                    nonce |-> withdrawNonce[a], deadline |-> d]
  <2>1. withdrawNonce[a] \in Nat
    BY DEF VInv, Counts
  <2>2. au \in Auths
    BY <2>1 DEF Auths, WithdrawAuth
  <2> QED
    BY <1>3, <2>2, SignKeeps DEF SignWithdraw
<1>4. ASSUME NEW bucket \in Buckets, NEW leaf \in Notes \X Buckets, NEW d \in Deadlines,
             SignNote(a, t, bucket, leaf, d)
      PROVE  VInv'
  <2> DEFINE au == [type |-> "ShieldNote", asset |-> t, account |-> a, bucket |-> bucket,
                    leaf |-> leaf, nonce |-> shieldNonce[a], deadline |-> d]
  <2>1. shieldNonce[a] \in Nat
    BY DEF VInv, Counts
  <2>2. au \in Auths
    BY <2>1 DEF Auths, NoteAuth
  <2> QED
    BY <1>4, <2>2, SignKeeps DEF SignNote
<1> QED
  BY <1>1, <1>2, <1>3, <1>4 DEF Payee

LEMMA RestKeeps ==
    ASSUME \/ \E from \in Creditors, to \in Payees, t \in Assets, v \in Amounts :
                 Credit(from, to, t, v)
           \/ \E a \in Accounts :
                 \/ ClaimPaseoDust(a)
                 \/ \E t \in Assets, to \in Accounts : Withdraw(a, t, to)
           \/ \E t \in Assets : Spend(t)
           \/ Governance \/ Tick \/ UNCHANGED vars
    PROVE  UNCHANGED auth
<1>1. ASSUME NEW from, NEW to, NEW t, NEW v, Credit(from, to, t, v) PROVE UNCHANGED auth
  BY <1>1 DEF Credit
<1>2. ASSUME NEW a, ClaimPaseoDust(a) \/ \E t, to : Withdraw(a, t, to) PROVE UNCHANGED auth
  BY <1>2 DEF ClaimPaseoDust, Withdraw
<1>3. ASSUME NEW t, Spend(t) PROVE UNCHANGED auth
  BY <1>3 DEF Spend, DepositShieldNoteZK
<1>4. ASSUME Governance PROVE UNCHANGED auth
  <2>1. ASSUME NEW bps, SetWithdrawFeeBps(bps) PROVE UNCHANGED auth
    BY <2>1 DEF SetWithdrawFeeBps
  <2>2. ASSUME NEW s, SetService(s) PROVE UNCHANGED auth
    BY <2>2 DEF SetService
  <2>3. ASSUME NEW t, NEW ladder, SetShieldBuckets(t, ladder) PROVE UNCHANGED auth
    BY <2>3 DEF SetShieldBuckets
  <2>4. ASSUME SetAuthorized \/ SetShieldPoseidon PROVE UNCHANGED auth
    BY <2>4 DEF SetAuthorized, SetShieldPoseidon
  <2> QED
    BY <1>4, <2>1, <2>2, <2>3, <2>4 DEF Governance
<1>5. ASSUME Tick \/ UNCHANGED vars PROVE UNCHANGED auth
  BY <1>5 DEF Tick, vars
<1> QED
  BY <1>1, <1>2, <1>3, <1>4, <1>5

LEMMA NextVInv == VInv /\ [Next]_vars => VInv'
<1> SUFFICES ASSUME VInv, [Next]_vars PROVE VInv'
  OBVIOUS
<1>1. ASSUME NEW a \in Payees, NEW t \in Assets, Payee(a, t) PROVE VInv'
  BY <1>1, PayeeKeeps, VaultAssumption
<1>2. ASSUME NEW au \in signed, InsertShieldNoteFor(au) PROVE VInv'
  BY <1>2, InsertShieldNoteForKeeps
<1>3. ASSUME NEW au \in signed, NEW r \in Accounts, WithdrawFor(r, au) PROVE VInv'
  BY <1>3, WithdrawForKeeps
<1>4. ASSUME UNCHANGED auth PROVE VInv'
  BY <1>4, SameUsed DEF auth, VInv
<1> QED
  BY <1>1, <1>2, <1>3, <1>4, RestKeeps DEF Next

\* Whatever is submitted again, out of order or late, in either asset: each
\* account's nonces count the authorizations of its own that moved money, so
\* none has moved it twice.
THEOREM AuthorizationsMoveOnce == Spec => []AuthorizationsSingleUse
<1>1. VInv => AuthorizationsSingleUse
  BY DEF VInv, Counts, UsedOf, AuthorizationsSingleUse
<1> QED
  BY <1>1, InitVInv, NextVInv, PTL DEF Spec

-----------------------------------------------------------------------------
(* II.  The ledger.                                                        *)

\* No balance, dust, buffer or counter is ever negative.
MoneyType ==
    /\ balanceOf \in [Assets -> [Accounts -> Nat]]
    /\ owned \in [Assets -> Int]
    /\ pendingPaseoDust \in [Accounts -> Nat]
    /\ shieldBuffer \in [Assets -> Nat] /\ shielded \in [Assets -> Nat]
    /\ totalCredited \in Int /\ totalWithdrawn \in Int
    /\ withdrawFeeBps \in 0..1000
    /\ shieldBuckets \in [Assets -> SUBSET Nat]

\* Inductive, given that what was signed is an authorization.
MoneyInv == MoneyType /\ Solvency /\ Accounting

\* `next` is `old` with the entry of one asset moved by `v`.
Moved(next, old, t, v) ==
    \A s \in Assets : next[s] = old[s] + (IF s = t THEN v ELSE 0)

LEMMA MovedSame ==
    ASSUME NEW f \in [Assets -> Int], NEW t
    PROVE  Moved(f, f, t, 0)
BY DEF Moved

LEMMA MovedExcept ==
    ASSUME NEW f \in [Assets -> Int], NEW t \in Assets, NEW v \in Int,
           NEW g, g = [f EXCEPT ![t] = f[t] + v]
    PROVE  Moved(g, f, t, v)
BY DEF Moved

\* The effects of one transaction on the ledger of one asset: what it adds to
\* the balances, to the note buffer, to the dust, to what the vault owns and
\* to what the pool received.
Transfers(t, balances, buffer, dust, own, pool) ==
    /\ \A s \in Assets \ {t} : balanceOf'[s] = balanceOf[s]
    /\ SumFunction(balanceOf'[t]) = SumFunction(balanceOf[t]) + balances
    /\ Moved(shieldBuffer', shieldBuffer, t, buffer)
    /\ SumFunction(pendingPaseoDust') = SumFunction(pendingPaseoDust) + dust
    /\ Moved(owned', owned, t, own)
    /\ Moved(shielded', shielded, t, pool)
    /\ t # Native => dust = 0
    /\ own = balances + buffer + dust
    /\ totalCredited' - totalWithdrawn' =
          totalCredited - totalWithdrawn
            + (IF t = Native THEN balances + buffer + pool ELSE 0)

LEMMA SumTypes ==
    ASSUME MoneyType
    PROVE  /\ \A t \in Assets : SumFunction(balanceOf[t]) \in Int
           /\ SumFunction(pendingPaseoDust) \in Int
<1>1. IsFiniteSet(Accounts)
  BY VaultAssumption
<1>2. \A t \in Assets : balanceOf[t] \in [Accounts -> Int]
  BY DEF MoneyType
<1>3. pendingPaseoDust \in [Accounts -> Int]
  BY DEF MoneyType
<1> QED
  BY <1>1, <1>2, <1>3, SumInt

\* A transaction with balanced effects keeps the ledger.
LEMMA LedgerKept ==
    ASSUME MoneyInv, MoneyType', NEW t \in Assets, NEW balances \in Int, NEW buffer \in Int,
           NEW dust \in Int, NEW own \in Int, NEW pool \in Int,
           Transfers(t, balances, buffer, dust, own, pool)
    PROVE  MoneyInv'
<1>1. ASSUME NEW s \in Assets
      PROVE  owned'[s] = SumFunction(balanceOf'[s]) + shieldBuffer'[s]
                         + (IF s = Native THEN SumFunction(pendingPaseoDust') ELSE 0)
  <2> DEFINE x == SumFunction(balanceOf[s])
             d == SumFunction(pendingPaseoDust)
  <2>1. owned[s] = x + shieldBuffer[s] + (IF s = Native THEN d ELSE 0)
    BY DEF MoneyInv, Solvency
  <2>2. /\ owned[s] \in Int /\ shieldBuffer[s] \in Int /\ x \in Int /\ d \in Int
    BY SumTypes DEF MoneyInv, MoneyType
  <2>3. /\ SumFunction(balanceOf'[s]) = x + (IF s = t THEN balances ELSE 0)
        /\ shieldBuffer'[s] = shieldBuffer[s] + (IF s = t THEN buffer ELSE 0)
        /\ owned'[s] = owned[s] + (IF s = t THEN own ELSE 0)
        /\ SumFunction(pendingPaseoDust') = d + dust
        /\ t # Native => dust = 0
        /\ own = balances + buffer + dust
    <3>1. SumFunction(balanceOf'[s]) = x + (IF s = t THEN balances ELSE 0)
      BY <2>2 DEF Transfers
    <3> QED
      BY <3>1 DEF Transfers, Moved
  <2> HIDE DEF x, d
  <2>4. CASE s = t
    BY <2>1, <2>2, <2>3, <2>4
  <2>5. CASE s # t
    BY <2>1, <2>2, <2>3, <2>5
  <2> QED
    BY <2>4, <2>5
<1>2. totalCredited' - totalWithdrawn' =
         SumFunction(balanceOf'[Native]) + shieldBuffer'[Native] + shielded'[Native]
  <2> DEFINE x == SumFunction(balanceOf[Native])
             net == totalCredited - totalWithdrawn
             after == totalCredited' - totalWithdrawn'
  <2>1. Native \in Assets
    BY DEF Assets
  <2>2. net = x + shieldBuffer[Native] + shielded[Native]
    BY DEF MoneyInv, Accounting
  <2>3. /\ shieldBuffer[Native] \in Int /\ shielded[Native] \in Int /\ x \in Int
    BY <2>1, SumTypes DEF MoneyInv, MoneyType
  <2>4. after = net + (IF t = Native THEN balances + buffer + pool ELSE 0)
    BY DEF Transfers
  <2>5. SumFunction(balanceOf'[Native]) = x + (IF Native = t THEN balances ELSE 0)
    BY <2>1, <2>3 DEF Transfers
  <2>6. /\ shieldBuffer'[Native] = shieldBuffer[Native] + (IF Native = t THEN buffer ELSE 0)
        /\ shielded'[Native] = shielded[Native] + (IF Native = t THEN pool ELSE 0)
    BY <2>1 DEF Transfers, Moved
  <2> HIDE DEF x, net, after
  <2>7. after = SumFunction(balanceOf'[Native]) + shieldBuffer'[Native] + shielded'[Native]
    BY <2>2, <2>3, <2>4, <2>5, <2>6
  <2> QED
    BY <2>7 DEF after
<1> QED
  BY <1>1, <1>2 DEF MoneyInv, Solvency, Accounting

\* A transaction that moves no money.
LEMMA LedgerSame ==
    ASSUME MoneyInv, UNCHANGED <<money, shieldBuffer, shielded>>,
           withdrawFeeBps' \in 0..1000, shieldBuckets' \in [Assets -> SUBSET Nat]
    PROVE  MoneyInv'
BY DEF MoneyInv, MoneyType, Solvency, Accounting, money, totals

LEMMA CleanBound ==
    ASSUME NEW amount \in Nat
    PROVE  CleanAmount(amount) \in Nat /\ CleanAmount(amount) <= amount
<1>1. PASEO_UNIT \in Nat /\ PASEO_UNIT > 0
  BY VaultAssumption
<1>2. amount % PASEO_UNIT \in Nat /\ amount % PASEO_UNIT <= amount
  BY <1>1, Z3
<1> QED
  BY <1>2 DEF CleanAmount

\* A balance moves, and the sum of its asset with it.
LEMMA BalanceMoves ==
    ASSUME MoneyType, NEW t \in Assets, NEW a \in Accounts, NEW x \in Nat,
           balanceOf' = [balanceOf EXCEPT ![t][a] = x]
    PROVE  /\ balanceOf' \in [Assets -> [Accounts -> Nat]]
           /\ \A s \in Assets \ {t} : balanceOf'[s] = balanceOf[s]
           /\ SumFunction(balanceOf'[t]) = SumFunction(balanceOf[t]) + (x - balanceOf[t][a])
<1> DEFINE b == balanceOf[t]
<1>1. /\ b \in [Accounts -> Nat] /\ b \in [Accounts -> Int]
      /\ IsFiniteSet(Accounts) /\ x \in Int
  BY VaultAssumption DEF MoneyType
<1>2. /\ balanceOf' \in [Assets -> [Accounts -> Nat]]
      /\ \A s \in Assets \ {t} : balanceOf'[s] = balanceOf[s]
      /\ balanceOf'[t] = [b EXCEPT ![a] = x]
  BY DEF MoneyType
<1>3. balanceOf'[t] \in [Accounts -> Int]
  BY <1>1, <1>2
<1>4. balanceOf'[t][a] = x /\ \A c \in Accounts \ {a} : balanceOf'[t][c] = b[c]
  BY <1>1, <1>2
<1> HIDE DEF b
<1>5. SumFunction(balanceOf'[t]) = SumFunction(b) + (balanceOf'[t][a] - b[a])
  BY <1>1, <1>3, <1>4, SumChange
<1> QED
  BY <1>2, <1>4, <1>5 DEF b

LEMMA DustMoves ==
    ASSUME MoneyType, NEW a \in Accounts, NEW x \in Nat,
           pendingPaseoDust' = [pendingPaseoDust EXCEPT ![a] = x]
    PROVE  /\ pendingPaseoDust' \in [Accounts -> Nat]
           /\ SumFunction(pendingPaseoDust') =
                SumFunction(pendingPaseoDust) + (x - pendingPaseoDust[a])
<1> DEFINE d == pendingPaseoDust
<1>1. /\ d \in [Accounts -> Nat] /\ d \in [Accounts -> Int]
      /\ IsFiniteSet(Accounts) /\ x \in Int
  BY VaultAssumption DEF MoneyType
<1>2. /\ pendingPaseoDust' \in [Accounts -> Nat] /\ pendingPaseoDust' \in [Accounts -> Int]
      /\ pendingPaseoDust'[a] = x
      /\ \A c \in Accounts \ {a} : pendingPaseoDust'[c] = d[c]
  BY <1>1
<1> HIDE DEF d
<1>3. ASSUME NEW g \in [Accounts -> Int], \A c \in Accounts \ {a} : g[c] = d[c]
      PROVE  SumFunction(g) = SumFunction(d) + (g[a] - d[a])
  BY <1>1, <1>3, SumChange
<1> QED
  BY <1>2, <1>3 DEF d

LEMMA CreditLedger ==
    ASSUME MoneyInv, NEW from, NEW to \in Payees, NEW t \in Assets, NEW v \in Amounts,
           Credit(from, to, t, v)
    PROVE  MoneyInv'
<1> DEFINE got == Received(t, v)
           old == balanceOf[t][to]
<1>1. MoneyType /\ to \in Accounts /\ v \in Nat /\ got \in Nat
  BY VaultAssumption DEF MoneyInv, Received
<1>2. t = Native => got = v
  BY DEF Received
<1>3. /\ balanceOf' = [balanceOf EXCEPT ![t][to] = old + got]
      /\ owned' = [owned EXCEPT ![t] = owned[t] + got]
      /\ totalCredited' = totalCredited + (IF t = Native THEN v ELSE 0)
      /\ UNCHANGED <<pendingPaseoDust, totalWithdrawn, withdrawFeeBps, shieldBuckets,
                     shieldBuffer, shielded>>
  BY <1>1 DEF Credit, Received, admin, notes, MoneyType
<1> HIDE DEF got
<1>4. old \in Nat /\ old + got \in Nat
  BY <1>1 DEF MoneyType
<1>5. /\ balanceOf' \in [Assets -> [Accounts -> Nat]]
      /\ \A s \in Assets \ {t} : balanceOf'[s] = balanceOf[s]
      /\ SumFunction(balanceOf'[t]) = SumFunction(balanceOf[t]) + ((old + got) - old)
  <2> DEFINE x == old + got
  <2> HIDE DEF x
  <2> SUFFICES /\ balanceOf' \in [Assets -> [Accounts -> Nat]]
               /\ \A s \in Assets \ {t} : balanceOf'[s] = balanceOf[s]
               /\ SumFunction(balanceOf'[t]) = SumFunction(balanceOf[t]) + (x - old)
    BY DEF x
  <2> QED
    BY <1>1, <1>3, <1>4, BalanceMoves DEF x
<1> HIDE DEF old
<1>6. SumFunction(balanceOf'[t]) = SumFunction(balanceOf[t]) + got
  BY <1>1, <1>4, <1>5
<1>7. MoneyType'
  BY <1>1, <1>3, <1>5 DEF MoneyType
<1>8. Moved(owned', owned, t, got)
  <2>1. owned \in [Assets -> Int] /\ got \in Int
    BY <1>1 DEF MoneyType
  <2> QED
    BY <1>3, <2>1, MovedExcept
<1>9. SumFunction(pendingPaseoDust) \in Int
  BY <1>1, SumTypes
<1>10. Transfers(t, got, 0, 0, got, 0)
  BY <1>1, <1>2, <1>3, <1>5, <1>6, <1>8, <1>9, MovedSame DEF Transfers, MoneyType
<1> QED
  BY <1>1, <1>7, <1>10, LedgerKept

\* Sending leaves what the gateway would not accept in the dust queue.
LEMMA SendMoves ==
    ASSUME MoneyType, NEW t \in Assets, NEW to \in Accounts, NEW amount \in Nat,
           Send(t, to, amount)
    PROVE  \E sent \in Nat :
              /\ sent <= amount /\ (t # Native => sent = amount)
              /\ owned' = [owned EXCEPT ![t] = owned[t] + (-sent)]
              /\ pendingPaseoDust' \in [Accounts -> Nat]
              /\ SumFunction(pendingPaseoDust') =
                    SumFunction(pendingPaseoDust) + (amount - sent)
<1> DEFINE sent == IF t = Native THEN CleanAmount(amount) ELSE amount
           old == pendingPaseoDust[to]
<1>1. sent \in Nat /\ sent <= amount /\ (t # Native => sent = amount)
  BY CleanBound
<1>2. /\ owned' = [owned EXCEPT ![t] = owned[t] - sent]
      /\ pendingPaseoDust' = [pendingPaseoDust EXCEPT ![to] = old + (amount - sent)]
  BY DEF Send
<1>3. owned[t] \in Int /\ old \in Nat
  BY DEF MoneyType
<1> DEFINE x == old + (amount - sent)
<1> HIDE DEF sent
<1>4. x \in Nat /\ x - old = amount - sent /\ owned[t] - sent = owned[t] + (-sent)
  BY <1>1, <1>3
<1>5. /\ pendingPaseoDust' \in [Accounts -> Nat]
      /\ SumFunction(pendingPaseoDust') = SumFunction(pendingPaseoDust) + (x - old)
  <2>1. pendingPaseoDust' = [pendingPaseoDust EXCEPT ![to] = x]
    BY <1>2
  <2> HIDE DEF x
  <2> QED
    BY <1>4, <2>1, DustMoves
<1> QED
  BY <1>1, <1>2, <1>4, <1>5

\* A withdrawal, whoever submits it: `amount` leaves the balance of `a`, of
\* which `fee` stays in the vault as somebody's balance.
LEMMA PayOutLedger ==
    ASSUME MoneyInv, NEW t \in Assets, NEW to \in Accounts,
           NEW amount \in Nat, NEW fee \in Nat, NEW net \in Nat, amount = net + fee,
           balanceOf' \in [Assets -> [Accounts -> Nat]],
           \A s \in Assets \ {t} : balanceOf'[s] = balanceOf[s],
           SumFunction(balanceOf'[t]) = SumFunction(balanceOf[t]) + (fee - amount),
           CountWithdrawn(t, net), Send(t, to, net),
           UNCHANGED <<totalCredited, withdrawFeeBps, shieldBuckets, shieldBuffer, shielded>>
    PROVE  MoneyInv'
<1>1. MoneyType /\ fee - amount = -net
  BY DEF MoneyInv
<1>2. PICK sent \in Nat :
              /\ sent <= net /\ (t # Native => sent = net)
              /\ owned' = [owned EXCEPT ![t] = owned[t] + (-sent)]
              /\ pendingPaseoDust' \in [Accounts -> Nat]
              /\ SumFunction(pendingPaseoDust') = SumFunction(pendingPaseoDust) + (net - sent)
  BY <1>1, SendMoves
<1>3. totalWithdrawn' = totalWithdrawn + (IF t = Native THEN net ELSE 0)
  BY DEF CountWithdrawn
<1>4. SumFunction(balanceOf'[t]) = SumFunction(balanceOf[t]) + (-net)
  BY <1>1
<1>5. MoneyType'
  <2>1. owned' \in [Assets -> Int] /\ totalWithdrawn' \in Int
    BY <1>1, <1>2, <1>3 DEF MoneyType
  <2> QED
    BY <1>1, <1>2, <2>1 DEF MoneyType
<1>6. Moved(owned', owned, t, -sent)
  <2>1. owned \in [Assets -> Int] /\ -sent \in Int
    BY <1>1 DEF MoneyType
  <2> QED
    BY <1>2, <2>1, MovedExcept
<1>7. totalCredited \in Int /\ totalWithdrawn \in Int
  BY <1>1 DEF MoneyType
<1>8. totalCredited' - totalWithdrawn' =
         totalCredited - totalWithdrawn + (IF t = Native THEN -net + 0 + 0 ELSE 0)
  BY <1>1, <1>3, <1>7
<1>9. t # Native => net - sent = 0
  BY <1>1, <1>2
<1>10. -sent = -net + 0 + (net - sent)
  BY <1>1, <1>2
<1>11. Moved(shieldBuffer', shieldBuffer, t, 0) /\ Moved(shielded', shielded, t, 0)
  BY <1>1, MovedSame DEF MoneyType
<1>12. Transfers(t, -net, 0, net - sent, -sent, 0)
  BY <1>2, <1>4, <1>6, <1>8, <1>9, <1>10, <1>11 DEF Transfers
<1>13. -net \in Int /\ net - sent \in Int /\ -sent \in Int
  BY <1>1
<1> QED
  BY <1>5, <1>12, <1>13, LedgerKept

LEMMA WithdrawLedger ==
    ASSUME MoneyInv, NEW a \in Accounts, NEW t \in Assets, NEW to \in Accounts,
           Withdraw(a, t, to)
    PROVE  MoneyInv'
<1> DEFINE amount == balanceOf[t][a]
<1>1. MoneyType /\ amount \in Nat
  BY DEF MoneyInv, MoneyType
<1>2. /\ balanceOf' = [balanceOf EXCEPT ![t][a] = 0]
      /\ CountWithdrawn(t, amount) /\ Send(t, to, amount)
      /\ UNCHANGED <<totalCredited, withdrawFeeBps, shieldBuckets, shieldBuffer, shielded>>
  BY DEF Withdraw, admin, notes
<1>3. /\ balanceOf' \in [Assets -> [Accounts -> Nat]]
      /\ \A s \in Assets \ {t} : balanceOf'[s] = balanceOf[s]
      /\ SumFunction(balanceOf'[t]) = SumFunction(balanceOf[t]) + (0 - amount)
  BY <1>1, <1>2, BalanceMoves
<1> HIDE DEF amount
<1>4. amount = amount + 0 /\ 0 \in Nat
  BY <1>1
<1> QED
  BY <1>1, <1>2, <1>3, <1>4, PayOutLedger

\* A tenth at most goes to the relay.
LEMMA FeeBound ==
    ASSUME NEW x \in Nat, withdrawFeeBps \in 0..1000
    PROVE  Fee(x) \in Nat /\ Fee(x) <= x
<1> DEFINE p == x * withdrawFeeBps
<1>1. p \in Nat /\ p <= x * 10000
  OBVIOUS
<1> HIDE DEF p
<1>2. p \div 10000 \in 0..x
  BY <1>1
<1> QED
  BY <1>2 DEF p, Fee

LEMMA WithdrawForLedger ==
    ASSUME MoneyInv, VInv, NEW relay \in Accounts, NEW au \in signed, WithdrawFor(relay, au)
    PROVE  MoneyInv'
<1> DEFINE a == au.account
           t == au.asset
           b == balanceOf[t]
           amount == b[a]
           fee == Fee(amount)
           left == [b EXCEPT ![a] = 0]
           after == [left EXCEPT ![relay] = left[relay] + fee]
<1>1. a \in Accounts /\ t \in Assets /\ au.recipient \in Accounts
  BY DEF VInv, Auths, WithdrawAuth, NoteAuth, WithdrawFor
<1>2. MoneyType /\ b \in [Accounts -> Nat] /\ amount \in Nat
  BY <1>1 DEF MoneyInv, MoneyType
<1>3. fee \in Nat /\ fee <= amount
  <2> HIDE DEF amount
  <2> QED
    BY <1>2, FeeBound DEF MoneyType
<1>4. /\ balanceOf' = [balanceOf EXCEPT ![t] = after]
      /\ CountWithdrawn(t, amount - fee) /\ Send(t, au.recipient, amount - fee)
      /\ UNCHANGED <<totalCredited, admin, notes>>
  BY DEF WithdrawFor
<1> HIDE DEF fee
<1>5. left \in [Accounts -> Nat] /\ left[a] = 0 /\ \A c \in Accounts \ {a} : left[c] = b[c]
  BY <1>1, <1>2
<1> HIDE DEF left
<1>6. /\ after \in [Accounts -> Nat] /\ after[relay] = left[relay] + fee
      /\ \A c \in Accounts \ {relay} : after[c] = left[c]
  BY <1>3, <1>5
<1>7. IsFiniteSet(Accounts)
  BY VaultAssumption
<1>8. SumFunction(after) = SumFunction(b) + (fee - amount)
  <2>1. b \in [Accounts -> Int] /\ left \in [Accounts -> Int] /\ after \in [Accounts -> Int]
    BY <1>2, <1>5, <1>6
  <2> DEFINE was == b[a]
  <2> HIDE DEF after, b
  <2>2. SumFunction(left) = SumFunction(b) + (left[a] - b[a])
    BY <1>1, <1>5, <1>7, <2>1, SumChange
  <2>3. SumFunction(after) = SumFunction(left) + (after[relay] - left[relay])
    BY <1>6, <1>7, <2>1, SumChange
  <2>4. SumFunction(b) \in Int /\ b[a] \in Int /\ left[relay] \in Int /\ fee \in Int
    BY <1>1, <1>3, <1>7, <2>1, SumInt
  <2> QED
    BY <1>5, <1>6, <2>2, <2>3, <2>4
<1> HIDE DEF after
<1>9. balanceOf' \in [Assets -> [Accounts -> Nat]] /\ balanceOf'[t] = after
      /\ \A s \in Assets \ {t} : balanceOf'[s] = balanceOf[s]
  BY <1>1, <1>2, <1>4, <1>6 DEF MoneyType
<1>10. SumFunction(balanceOf'[t]) = SumFunction(balanceOf[t]) + (fee - amount)
  BY <1>8, <1>9
<1>11. UNCHANGED <<totalCredited, withdrawFeeBps, shieldBuckets, shieldBuffer, shielded>>
  BY <1>4 DEF admin, notes
<1> DEFINE net == amount - fee
<1> HIDE DEF amount, b, t
<1>12. net \in Nat /\ amount = net + fee
  BY <1>2, <1>3
<1> HIDE DEF net
<1>13. CountWithdrawn(t, net) /\ Send(t, au.recipient, net)
  BY <1>4 DEF net
<1> QED
  BY <1>1, <1>2, <1>3, <1>9, <1>10, <1>11, <1>12, <1>13, PayOutLedger

LEMMA ClaimLedger ==
    ASSUME MoneyInv, NEW a \in Accounts, ClaimPaseoDust(a)
    PROVE  MoneyInv'
<1> DEFINE old == pendingPaseoDust[a]
           sent == CleanAmount(old)
           x == old - sent
<1>1. MoneyType /\ old \in Nat /\ Native \in Assets
  BY DEF MoneyInv, MoneyType, Assets
<1>2. sent \in Nat /\ sent <= old
  <2> HIDE DEF old
  <2> QED
    BY <1>1, CleanBound
<1>3. /\ pendingPaseoDust' = [pendingPaseoDust EXCEPT ![a] = x]
      /\ owned' = [owned EXCEPT ![Native] = owned[Native] - sent]
      /\ UNCHANGED <<balanceOf, totalCredited, totalWithdrawn, withdrawFeeBps,
                     shieldBuckets, shieldBuffer, shielded>>
  BY DEF ClaimPaseoDust, admin, notes, totals
<1> HIDE DEF sent
<1>4. x \in Nat /\ x - old = -sent
  <2> HIDE DEF old
  <2> QED
    BY <1>1, <1>2
<1> HIDE DEF x
<1>5. /\ pendingPaseoDust' \in [Accounts -> Nat]
      /\ SumFunction(pendingPaseoDust') = SumFunction(pendingPaseoDust) + (x - old)
  BY <1>1, <1>3, <1>4, DustMoves
<1>6. owned \in [Assets -> Int] /\ -sent \in Int /\ owned[Native] - sent = owned[Native] + (-sent)
  BY <1>1, <1>2 DEF MoneyType
<1>7. Moved(owned', owned, Native, -sent)
  BY <1>1, <1>3, <1>6, MovedExcept
<1>8. MoneyType'
  BY <1>1, <1>3, <1>5, <1>6 DEF MoneyType
<1>9. /\ Moved(shieldBuffer', shieldBuffer, Native, 0)
      /\ Moved(shielded', shielded, Native, 0)
      /\ SumFunction(balanceOf[Native]) \in Int
      /\ totalCredited - totalWithdrawn \in Int
  BY <1>1, <1>3, MovedSame, SumTypes DEF MoneyType
<1>10. Transfers(Native, 0, 0, -sent, -sent, 0)
  BY <1>3, <1>4, <1>5, <1>6, <1>7, <1>9 DEF Transfers
<1> QED
  BY <1>1, <1>6, <1>8, <1>10, LedgerKept

\* A note takes its bucket from a balance to the buffer.
LEMMA InsertLedger ==
    ASSUME MoneyInv, NEW a \in Accounts, NEW t \in Assets, NEW bucket \in Buckets,
           NEW leaf, InsertNote(a, t, bucket, leaf), UNCHANGED admin
    PROVE  MoneyInv'
<1> DEFINE old == balanceOf[t][a]
           x == old - bucket
<1>1. MoneyType /\ old \in Nat /\ bucket \in Nat /\ bucket <= old
  BY VaultAssumption DEF MoneyInv, MoneyType, InsertNote
<1>2. /\ balanceOf' = [balanceOf EXCEPT ![t][a] = x]
      /\ shieldBuffer' = [shieldBuffer EXCEPT ![t] = shieldBuffer[t] + bucket]
      /\ UNCHANGED <<shielded, owned, pendingPaseoDust, totalCredited, totalWithdrawn,
                     withdrawFeeBps, shieldBuckets>>
  BY DEF InsertNote, MoveBuffer, totals, admin
<1>3. x \in Nat /\ x - old = -bucket
  <2> HIDE DEF old
  <2> QED
    BY <1>1
<1> HIDE DEF x
<1>4. /\ balanceOf' \in [Assets -> [Accounts -> Nat]]
      /\ \A s \in Assets \ {t} : balanceOf'[s] = balanceOf[s]
      /\ SumFunction(balanceOf'[t]) = SumFunction(balanceOf[t]) + (x - old)
  BY <1>1, <1>2, <1>3, BalanceMoves
<1>5. /\ shieldBuffer \in [Assets -> Int] /\ shielded \in [Assets -> Int]
      /\ owned \in [Assets -> Int] /\ bucket \in Int
  BY <1>1 DEF MoneyType
<1>6. /\ Moved(shieldBuffer', shieldBuffer, t, bucket)
      /\ Moved(shielded', shielded, t, 0) /\ Moved(owned', owned, t, 0)
  <2>1. Moved(shieldBuffer', shieldBuffer, t, bucket)
    BY <1>2, <1>5, MovedExcept
  <2>2. Moved(shielded', shielded, t, 0) /\ Moved(owned', owned, t, 0)
    BY <1>2, <1>5, MovedSame
  <2> QED
    BY <2>1, <2>2
<1>7. MoneyType'
  BY <1>1, <1>2, <1>4 DEF MoneyType
<1>8. SumFunction(pendingPaseoDust) \in Int /\ totalCredited - totalWithdrawn \in Int
  BY <1>1, SumTypes DEF MoneyType
<1>9. 0 = -bucket + bucket + 0
  BY <1>1
<1>10. Transfers(t, -bucket, bucket, 0, 0, 0)
  BY <1>2, <1>3, <1>4, <1>6, <1>8, <1>9 DEF Transfers
<1>11. -bucket \in Int
  BY <1>1
<1> QED
  BY <1>5, <1>7, <1>10, <1>11, LedgerKept

\* A spend takes a bucket from the buffer to the pool.
LEMMA DepositLedger ==
    ASSUME MoneyInv, NEW t \in Assets, NEW root, NEW leaf \in Notes \X Buckets,
           DepositShieldNoteZK(t, root, leaf)
    PROVE  MoneyInv'
<1> DEFINE bucket == leaf[2]
<1>1. MoneyType /\ bucket \in Nat /\ bucket <= shieldBuffer[t]
  BY VaultAssumption DEF MoneyInv, DepositShieldNoteZK, SpendAllowed
<1>2. /\ shieldBuffer' = [shieldBuffer EXCEPT ![t] = shieldBuffer[t] + (-bucket)]
      /\ owned' = [owned EXCEPT ![t] = owned[t] - bucket]
      /\ shielded' = [shielded EXCEPT ![t] = shielded[t] + bucket]
      /\ UNCHANGED <<balanceOf, pendingPaseoDust, totalCredited, totalWithdrawn,
                     withdrawFeeBps, shieldBuckets>>
  BY DEF DepositShieldNoteZK, MoveBuffer, totals, admin
<1> HIDE DEF bucket
<1>3. /\ shieldBuffer \in [Assets -> Int] /\ shielded \in [Assets -> Int]
      /\ owned \in [Assets -> Int] /\ bucket \in Int /\ -bucket \in Int
      /\ owned[t] - bucket = owned[t] + (-bucket)
      /\ shieldBuffer[t] + (-bucket) \in Nat /\ shielded[t] + bucket \in Nat
  BY <1>1 DEF MoneyType
<1>4. Moved(shieldBuffer', shieldBuffer, t, -bucket)
  BY <1>2, <1>3, MovedExcept
<1>5. Moved(shielded', shielded, t, bucket)
  BY <1>2, <1>3, MovedExcept
<1>6. Moved(owned', owned, t, -bucket)
  BY <1>2, <1>3, MovedExcept
<1>7. MoneyType'
  BY <1>1, <1>2, <1>3 DEF MoneyType
<1>8. /\ SumFunction(pendingPaseoDust) \in Int /\ totalCredited - totalWithdrawn \in Int
      /\ SumFunction(balanceOf[t]) \in Int
  BY <1>1, SumTypes DEF MoneyType
<1>9. Transfers(t, 0, -bucket, 0, -bucket, bucket)
  BY <1>2, <1>3, <1>4, <1>5, <1>6, <1>8 DEF Transfers
<1> QED
  BY <1>3, <1>7, <1>9, LedgerKept

\* Signing, governance and time move no money.
LEMMA RestLedger ==
    ASSUME MoneyInv,
           \/ \E a \in Payees, t \in Assets, to \in Accounts, d \in Deadlines :
                 SignWithdraw(a, t, to, d)
           \/ \E a \in Payees, t \in Assets, bucket \in Buckets, leaf \in Notes \X Buckets,
                 d \in Deadlines : SignNote(a, t, bucket, leaf, d)
           \/ Governance \/ Tick \/ UNCHANGED vars
    PROVE  MoneyInv'
<1> DEFINE Still == UNCHANGED <<money, shieldBuffer, shielded>>
           SameFee == withdrawFeeBps' = withdrawFeeBps
           SameLadders == shieldBuckets' = shieldBuckets
<1>1. withdrawFeeBps \in 0..1000 /\ shieldBuckets \in [Assets -> SUBSET Nat]
  BY DEF MoneyInv, MoneyType
<1>2. ASSUME Still, SameFee, SameLadders PROVE MoneyInv'
  BY <1>1, <1>2, LedgerSame
<1>3. ASSUME NEW au, Sign(au) PROVE MoneyInv'
  <2>1. Still /\ SameFee /\ SameLadders
    BY <1>3 DEF Sign, admin, notes
  <2> HIDE DEF Still, SameFee, SameLadders
  <2> QED
    BY <1>2, <2>1
<1>4. ASSUME NEW bps \in WithdrawFees, SetWithdrawFeeBps(bps) PROVE MoneyInv'
  <2>1. Still /\ SameLadders /\ withdrawFeeBps' \in 0..1000
    BY <1>4, VaultAssumption DEF SetWithdrawFeeBps, notes
  <2> QED
    BY <1>1, <2>1, LedgerSame
<1>5. ASSUME NEW t \in Assets, NEW ladder \in Ladders, SetShieldBuckets(t, ladder)
      PROVE  MoneyInv'
  <2>1. ladder \in SUBSET Nat
    BY VaultAssumption DEF Buckets
  <2>2. Still /\ SameFee /\ shieldBuckets' = [shieldBuckets EXCEPT ![t] = ladder]
    BY <1>5 DEF SetShieldBuckets
  <2>3. shieldBuckets' \in [Assets -> SUBSET Nat]
    BY <1>1, <2>1, <2>2
  <2> QED
    BY <1>1, <2>2, <2>3, LedgerSame
<1>6. ASSUME \/ SetAuthorized \/ SetShieldPoseidon \/ \E s : SetService(s)
             \/ Tick \/ UNCHANGED vars
      PROVE  MoneyInv'
  <2>1. Still /\ SameFee /\ SameLadders
    BY <1>6 DEF SetAuthorized, SetShieldPoseidon, SetService, Tick, vars, admin, notes
  <2> HIDE DEF Still, SameFee, SameLadders
  <2> QED
    BY <1>2, <2>1
<1>7. ASSUME Governance PROVE MoneyInv'
  BY <1>4, <1>5, <1>6, <1>7 DEF Governance
<1> QED
  BY <1>3, <1>6, <1>7 DEF SignWithdraw, SignNote

LEMMA NextMoneyInv == MoneyInv /\ VInv /\ [Next]_vars => MoneyInv'
<1> SUFFICES ASSUME MoneyInv, VInv, [Next]_vars PROVE MoneyInv'
  OBVIOUS
<1>0. Payees \subseteq Accounts
  BY VaultAssumption
<1>1. ASSUME NEW a \in Payees, NEW t \in Assets, Payee(a, t) PROVE MoneyInv'
  <2>1. ASSUME NEW bucket \in Buckets, NEW leaf \in Notes \X Buckets,
               InsertShieldNote(a, t, bucket, leaf)
        PROVE  MoneyInv'
    BY <1>0, <2>1, InsertLedger DEF InsertShieldNote, admin
  <2> QED
    BY <1>1, <2>1, RestLedger DEF Payee
<1>2. ASSUME NEW au \in signed, InsertShieldNoteFor(au) PROVE MoneyInv'
  <2>1. au.account \in Accounts /\ au.asset \in Assets /\ au.bucket \in Buckets
    BY <1>2 DEF VInv, Auths, WithdrawAuth, NoteAuth, InsertShieldNoteFor
  <2>2. InsertNote(au.account, au.asset, au.bucket, au.leaf) /\ UNCHANGED admin
    BY <1>2 DEF InsertShieldNoteFor
  <2> QED
    BY <2>1, <2>2, InsertLedger
<1>3. ASSUME NEW t \in Assets, Spend(t) PROVE MoneyInv'
  BY <1>3, DepositLedger DEF Spend
<1>4. ASSUME NEW au \in signed, NEW r \in Accounts, WithdrawFor(r, au) PROVE MoneyInv'
  BY <1>4, WithdrawForLedger
<1>5. ASSUME NEW a \in Accounts,
             ClaimPaseoDust(a) \/ \E t \in Assets, to \in Accounts : Withdraw(a, t, to)
      PROVE  MoneyInv'
  BY <1>5, ClaimLedger, WithdrawLedger
<1>6. ASSUME \E from \in Creditors, to \in Payees, t \in Assets, v \in Amounts :
                Credit(from, to, t, v)
      PROVE  MoneyInv'
  BY <1>6, CreditLedger
<1>7. ASSUME Governance \/ Tick \/ UNCHANGED vars PROVE MoneyInv'
  BY <1>7, RestLedger
<1> QED
  BY <1>1, <1>2, <1>3, <1>4, <1>5, <1>6, <1>7 DEF Next

LEMMA InitMoneyInv == Init => MoneyInv
<1> SUFFICES ASSUME Init PROVE MoneyInv
  OBVIOUS
<1> DEFINE none == [a \in Accounts |-> 0]
<1>1. /\ \A t \in Assets : balanceOf[t] = none /\ owned[t] = 0 /\ shieldBuffer[t] = 0
                           /\ shielded[t] = 0
      /\ pendingPaseoDust = none /\ totalCredited = 0 /\ totalWithdrawn = 0
  BY DEF Init
<1>2. MoneyType
  BY DEF Init, MoneyType
<1>3. none \in [Accounts -> Int] /\ \A a \in Accounts : none[a] = 0
  OBVIOUS
<1> HIDE DEF none
<1>4. SumFunction(none) = 0
  BY <1>3, VaultAssumption, SumZero
<1>5. Native \in Assets
  BY DEF Assets
<1>6. \A t \in Assets : SumFunction(balanceOf[t]) = 0
  BY <1>1, <1>4
<1>7. SumFunction(pendingPaseoDust) = 0
  BY <1>1, <1>4
<1> QED
  BY <1>1, <1>2, <1>5, <1>6, <1>7 DEF MoneyInv, Solvency, Accounting

LEMMA MoneyAlways == Spec => []MoneyInv
BY InitVInv, NextVInv, InitMoneyInv, NextMoneyInv, PTL DEF Spec

\* The vault can pay everyone at once: of each asset it owns exactly what it
\* owes to accounts, to unspent notes and to the dust queue, whatever a token
\* keeps of a transfer, whatever the gateway refuses and whatever relays take.
THEOREM VaultIsSolvent == Spec => []Solvency
<1>1. MoneyInv => Solvency
  BY DEF MoneyInv
<1> QED
  BY <1>1, MoneyAlways, PTL

\* What the two public counters say was credited and not withdrawn is, to the
\* unit, in a balance, in the note buffer or in the pool.
THEOREM CountersExplainLedger == Spec => []Accounting
<1>1. MoneyInv => Accounting
  BY DEF MoneyInv
<1> QED
  BY <1>1, MoneyAlways, PTL

\* What one account may withdraw, or claim, is there with all that is held
\* against notes.
Covered ==
    \A t \in Assets : \A a \in Accounts :
        /\ balanceOf[t][a] + shieldBuffer[t] <= owned[t]
        /\ t = Native => pendingPaseoDust[a] + shieldBuffer[t] <= owned[t]

\* No withdrawal, claim or spend ever meets a vault that is short: the
\* transfers of the code, which check no balance of the vault's own, and the
\* one of a spend, which does, all find the units they send.
THEOREM NothingIsShort == Spec => []Covered
<1>1. MoneyInv => Covered
  <2> SUFFICES ASSUME MoneyInv, NEW t \in Assets, NEW a \in Accounts
               PROVE  /\ balanceOf[t][a] + shieldBuffer[t] <= owned[t]
                      /\ t = Native => pendingPaseoDust[a] + shieldBuffer[t] <= owned[t]
    BY DEF Covered
  <2> DEFINE b == SumFunction(balanceOf[t])
             d == SumFunction(pendingPaseoDust)
  <2>1. /\ balanceOf[t] \in [Accounts -> Nat] /\ pendingPaseoDust \in [Accounts -> Nat]
        /\ shieldBuffer[t] \in Nat /\ IsFiniteSet(Accounts)
    BY VaultAssumption DEF MoneyInv, MoneyType
  <2>2. b \in Nat /\ balanceOf[t][a] <= b
    BY <2>1, SumBounds
  <2>3. d \in Nat /\ pendingPaseoDust[a] <= d
    BY <2>1, SumBounds
  <2>4. owned[t] = b + shieldBuffer[t] + (IF t = Native THEN d ELSE 0)
    BY DEF MoneyInv, Solvency
  <2>5. balanceOf[t][a] \in Nat /\ pendingPaseoDust[a] \in Nat
    BY <2>1
  <2> HIDE DEF b, d
  <2> QED
    BY <2>1, <2>2, <2>3, <2>4, <2>5
<1> QED
  BY <1>1, MoneyAlways, PTL

-----------------------------------------------------------------------------
(* III.  The tree kept level by level is the tree of the clients.          *)

LEMMA PowStep ==
    ASSUME NEW n \in Nat
    PROVE  2^(n + 1) = 2^n + 2^n
<1> DEFINE A == SUBSET (1..n)
           B == {s \cup {n + 1} : s \in A}
           f == [s \in A |-> s \cup {n + 1}]
<1>1. SUBSET (1..(n + 1)) = A \cup B
  <2>1. ASSUME NEW s \in SUBSET (1..(n + 1)) PROVE s \in A \cup B
    <3>1. CASE n + 1 \notin s
      BY <3>1
    <3>2. CASE n + 1 \in s
      <4>1. s \ {n + 1} \in A /\ s = (s \ {n + 1}) \cup {n + 1}
        BY <3>2
      <4> QED
        BY <4>1
    <3> QED
      BY <3>1, <3>2
  <2>2. ASSUME NEW s \in A PROVE s \in SUBSET (1..(n + 1)) /\ s \cup {n + 1} \in SUBSET (1..(n + 1))
    <3>1. n + 1 \in 1..(n + 1) /\ 1..n \subseteq 1..(n + 1)
      OBVIOUS
    <3> QED
      BY <3>1
  <2>3. \A r \in A \cup B : r \in SUBSET (1..(n + 1))
    BY <2>2
  <2> QED
    BY <2>1, <2>3
<1>2. A \cap B = {}
  <2>1. \A s \in A : n + 1 \notin s
    OBVIOUS
  <2> QED
    BY <2>1
<1>3. IsFiniteSet(A) /\ Cardinality(A) = 2^n /\ 2^n \in Nat
  BY PowNat
<1>4. f \in Bijection(A, B)
  <2>1. \A s, r \in A : f[s] = f[r] => s = r
    <3> SUFFICES ASSUME NEW s \in A, NEW r \in A, s \cup {n + 1} = r \cup {n + 1} PROVE s = r
      OBVIOUS
    <3>1. n + 1 \notin s /\ n + 1 \notin r
      OBVIOUS
    <3> QED
      BY <3>1
  <2>2. f \in [A -> B]
    OBVIOUS
  <2>3. \A b \in B : \E s \in A : f[s] = b
    OBVIOUS
  <2>4. DOMAIN f = A
    OBVIOUS
  <2> HIDE DEF A, B, f
  <2> QED
    BY <2>1, <2>2, <2>3, <2>4 DEF Bijection, Injection, Surjection, IsInjective
<1>5. IsFiniteSet(B) /\ Cardinality(B) = 2^n
  <2> HIDE DEF f, A, B
  <2>1. ExistsBijection(A, B)
    BY <1>4 DEF ExistsBijection
  <2> QED
    BY <1>3, <2>1, FS_Bijection
<1>6. Cardinality(A \cup B) = Cardinality(A) + Cardinality(B)
  <2> HIDE DEF A, B
  <2>1. Cardinality(A \cup B) = Cardinality(A) + Cardinality(B) - Cardinality(A \cap B)
    BY <1>3, <1>5, FS_Union
  <2>2. Cardinality(A \cap B) = 0
    BY <1>2, FS_EmptySet
  <2> QED
    BY <2>1, <2>2, <1>3, <1>5
<1>7. n + 1 \in Nat
  OBVIOUS
<1>8. Cardinality(SUBSET (1..(n + 1))) = 2^(n + 1)
  BY <1>7, PowNat
<1> QED
  BY <1>1, <1>3, <1>5, <1>6, <1>8

-----------------------------------------------------------------------------
(* The recursive functions of the tree are what their equations say.       *)

IsZeros(f, n) ==
    f = [i \in 0..n |-> IF i = 0 THEN Zero ELSE Hash(f[i - 1], f[i - 1])]

LEMMA ZerosExist == \E f : IsZeros(f, NOTE_DEPTH)
<1> DEFINE C == {n \in 0..NOTE_DEPTH : \E f : IsZeros(f, n)}
<1>1. NOTE_DEPTH \in Nat
  BY TreeAssumption
<1>2. 0 \in C
  <2> DEFINE f == [i \in 0..0 |-> Zero]
  <2>1. IsZeros(f, 0)
    BY DEF IsZeros
  <2> QED
    BY <1>1, <2>1
<1>3. ASSUME NEW n \in 0..NOTE_DEPTH, n # NOTE_DEPTH, n \in C PROVE n + 1 \in C
  <2>1. PICK f : IsZeros(f, n)
    BY <1>3
  <2> DEFINE g == [i \in 0..(n + 1) |-> IF i = n + 1 THEN Hash(f[n], f[n]) ELSE f[i]]
  <2>2. \A i \in 0..n : g[i] = f[i] /\ f[i] = IF i = 0 THEN Zero ELSE Hash(f[i - 1], f[i - 1])
    BY <2>1 DEF IsZeros
  <2>3. ASSUME NEW i \in 0..(n + 1)
        PROVE  g[i] = IF i = 0 THEN Zero ELSE Hash(g[i - 1], g[i - 1])
    <3>1. CASE i = n + 1
      BY <3>1, <2>2
    <3>2. CASE i = 0
      <4>1. 0 \in 0..n
        BY <1>1
      <4> HIDE DEF g
      <4> QED
        BY <4>1, <3>2, <2>2
    <3>3. CASE i \in 1..n
      <4>1. i \in 0..n /\ i - 1 \in 0..n /\ i # 0
        BY <3>3
      <4> HIDE DEF g
      <4> QED
        BY <4>1, <2>2
    <3> QED
      BY <3>1, <3>2, <3>3
  <2>4. g = [i \in 0..(n + 1) |-> g[i]]
    OBVIOUS
  <2> HIDE DEF g
  <2>5. \E h : IsZeros(h, n + 1)
    BY <2>3, <2>4 DEF IsZeros
  <2>6. n + 1 \in 0..NOTE_DEPTH
    BY <1>1, <1>3
  <2> QED
    BY <2>5, <2>6
<1>4. NOTE_DEPTH \in C
  <2> HIDE DEF C
  <2> QED
    BY <1>1, <1>2, <1>3, Climb
<1> QED
  BY <1>4

LEMMA ZerosValues ==
    /\ noteZeros[0] = Zero
    /\ \A i \in Levels : noteZeros[i + 1] = Hash(noteZeros[i], noteZeros[i])
<1>1. IsZeros(noteZeros, NOTE_DEPTH)
  <2>1. noteZeros = CHOOSE f : IsZeros(f, NOTE_DEPTH)
    BY DEF noteZeros, IsZeros
  <2> QED
    BY <2>1, ZerosExist
<1>2. NOTE_DEPTH \in Nat
  BY TreeAssumption
<1>3. \A i \in 0..NOTE_DEPTH :
         noteZeros[i] = IF i = 0 THEN Zero ELSE Hash(noteZeros[i - 1], noteZeros[i - 1])
  BY <1>1 DEF IsZeros
<1>4. 0 \in 0..NOTE_DEPTH
  BY <1>2
<1>5. \A i \in Levels : i + 1 \in 0..NOTE_DEPTH /\ i + 1 # 0 /\ (i + 1) - 1 = i
  BY <1>2 DEF Levels
<1> QED
  BY <1>3, <1>4, <1>5

IsAbove(f, n, index) ==
    f = [i \in 0..n |-> IF i = 0 THEN index ELSE f[i - 1] \div 2]

LEMMA AboveExists ==
    ASSUME NEW index
    PROVE  \E f : IsAbove(f, NOTE_DEPTH, index)
<1> DEFINE C == {n \in 0..NOTE_DEPTH : \E f : IsAbove(f, n, index)}
<1>1. NOTE_DEPTH \in Nat
  BY TreeAssumption
<1>2. 0 \in C
  <2> DEFINE f == [i \in 0..0 |-> index]
  <2>1. IsAbove(f, 0, index)
    BY DEF IsAbove
  <2> QED
    BY <1>1, <2>1
<1>3. ASSUME NEW n \in 0..NOTE_DEPTH, n # NOTE_DEPTH, n \in C PROVE n + 1 \in C
  <2>1. PICK f : IsAbove(f, n, index)
    BY <1>3
  <2> DEFINE g == [i \in 0..(n + 1) |-> IF i = n + 1 THEN f[n] \div 2 ELSE f[i]]
  <2>2. \A i \in 0..n : g[i] = f[i] /\ f[i] = IF i = 0 THEN index ELSE f[i - 1] \div 2
    BY <2>1 DEF IsAbove
  <2>3. ASSUME NEW i \in 0..(n + 1)
        PROVE  g[i] = IF i = 0 THEN index ELSE g[i - 1] \div 2
    <3>1. CASE i = n + 1
      BY <3>1, <2>2
    <3>2. CASE i = 0
      <4>1. 0 \in 0..n
        BY <1>1
      <4> HIDE DEF g
      <4> QED
        BY <4>1, <3>2, <2>2
    <3>3. CASE i \in 1..n
      <4>1. i \in 0..n /\ i - 1 \in 0..n /\ i # 0
        BY <3>3
      <4> HIDE DEF g
      <4> QED
        BY <4>1, <2>2
    <3> QED
      BY <3>1, <3>2, <3>3
  <2>4. g = [i \in 0..(n + 1) |-> g[i]]
    OBVIOUS
  <2> HIDE DEF g
  <2>5. \E h : IsAbove(h, n + 1, index)
    BY <2>3, <2>4 DEF IsAbove
  <2>6. n + 1 \in 0..NOTE_DEPTH
    BY <1>1, <1>3
  <2> QED
    BY <2>5, <2>6
<1>4. NOTE_DEPTH \in C
  <2> HIDE DEF C
  <2> QED
    BY <1>1, <1>2, <1>3, Climb
<1> QED
  BY <1>4

LEMMA AboveValues ==
    ASSUME NEW index \in Nat
    PROVE  /\ Above(index)[0] = index
           /\ \A i \in Levels : Above(index)[i + 1] = Above(index)[i] \div 2
           /\ \A i \in 0..NOTE_DEPTH : Above(index)[i] \in Nat
<1>1. IsAbove(Above(index), NOTE_DEPTH, index)
  <2>1. Above(index) = CHOOSE f : IsAbove(f, NOTE_DEPTH, index)
    BY DEF Above, IsAbove
  <2> QED
    BY <2>1, AboveExists
<1>2. NOTE_DEPTH \in Nat
  BY TreeAssumption
<1>3. \A i \in 0..NOTE_DEPTH :
         Above(index)[i] = IF i = 0 THEN index ELSE Above(index)[i - 1] \div 2
  BY <1>1 DEF IsAbove
<1>4. 0 \in 0..NOTE_DEPTH
  BY <1>2
<1>5. \A i \in Levels : i + 1 \in 0..NOTE_DEPTH /\ i + 1 # 0 /\ (i + 1) - 1 = i
  BY <1>2 DEF Levels
<1>6. /\ Above(index)[0] = index
      /\ \A i \in Levels : Above(index)[i + 1] = Above(index)[i] \div 2
  BY <1>3, <1>4, <1>5
<1> DEFINE C == {i \in 0..NOTE_DEPTH : Above(index)[i] \in Nat}
<1>7. 0 \in C
  BY <1>4, <1>6
<1>8. ASSUME NEW i \in 0..NOTE_DEPTH, i # NOTE_DEPTH, i \in C PROVE i + 1 \in C
  <2>1. i \in Levels /\ i + 1 \in 0..NOTE_DEPTH
    BY <1>2, <1>8 DEF Levels
  <2>2. Above(index)[i + 1] = Above(index)[i] \div 2 /\ Above(index)[i] \in Nat
    BY <2>1, <1>6, <1>8
  <2>3. PICK d \in Nat : d = Above(index)[i]
    BY <2>2
  <2>4. d \div 2 \in Nat
    OBVIOUS
  <2> QED
    BY <2>1, <2>2, <2>3, <2>4
<1>9. 0..NOTE_DEPTH \subseteq C
  <2> HIDE DEF C
  <2> QED
    BY <1>2, <1>7, <1>8, Climb
<1> QED
  BY <1>6, <1>9

IsSpine(f, n, tree, leaf) ==
    f = [i \in 0..n |-> IF i = 0 THEN leaf
         ELSE IF IsLeft(tree.nextIndex, i - 1)
              THEN Hash(f[i - 1], noteZeros[i - 1])
              ELSE Hash(tree.filledSubtrees[i - 1], f[i - 1])]

LEMMA SpineExists ==
    ASSUME NEW tree, NEW leaf
    PROVE  \E f : IsSpine(f, NOTE_DEPTH, tree, leaf)
<1> DEFINE C == {n \in 0..NOTE_DEPTH : \E f : IsSpine(f, n, tree, leaf)}
<1>1. NOTE_DEPTH \in Nat
  BY TreeAssumption
<1>2. 0 \in C
  <2> DEFINE f == [i \in 0..0 |-> leaf]
  <2>1. IsSpine(f, 0, tree, leaf)
    BY DEF IsSpine
  <2> QED
    BY <1>1, <2>1
<1>3. ASSUME NEW n \in 0..NOTE_DEPTH, n # NOTE_DEPTH, n \in C PROVE n + 1 \in C
  <2>1. PICK f : IsSpine(f, n, tree, leaf)
    BY <1>3
  <2> DEFINE g == [i \in 0..(n + 1) |-> IF i = n + 1 THEN IF IsLeft(tree.nextIndex, n) THEN Hash(f[n], noteZeros[n])
                ELSE Hash(tree.filledSubtrees[n], f[n]) ELSE f[i]]
  <2>2. \A i \in 0..n : g[i] = f[i] /\ f[i] = IF i = 0 THEN leaf
         ELSE IF IsLeft(tree.nextIndex, i - 1)
              THEN Hash(f[i - 1], noteZeros[i - 1])
              ELSE Hash(tree.filledSubtrees[i - 1], f[i - 1])
    <3>1. \A i \in 0..n : g[i] = f[i]
      OBVIOUS
    <3> HIDE DEF g
    <3>2. \A i \in 0..n : f[i] =
             IF i = 0 THEN leaf
             ELSE IF IsLeft(tree.nextIndex, i - 1)
                  THEN Hash(f[i - 1], noteZeros[i - 1])
                  ELSE Hash(tree.filledSubtrees[i - 1], f[i - 1])
      BY <2>1 DEF IsSpine
    <3> QED
      BY <3>1, <3>2
  <2>3. ASSUME NEW i \in 0..(n + 1)
        PROVE  g[i] = IF i = 0 THEN leaf
         ELSE IF IsLeft(tree.nextIndex, i - 1)
              THEN Hash(g[i - 1], noteZeros[i - 1])
              ELSE Hash(tree.filledSubtrees[i - 1], g[i - 1])
    <3>1. CASE i = n + 1
      BY <3>1, <2>2
    <3>2. CASE i = 0
      <4>1. 0 \in 0..n
        BY <1>1
      <4> HIDE DEF g
      <4> QED
        BY <4>1, <3>2, <2>2
    <3>3. CASE i \in 1..n
      <4>1. i \in 0..n /\ i - 1 \in 0..n /\ i # 0
        BY <3>3
      <4> HIDE DEF g
      <4> QED
        BY <4>1, <2>2
    <3> QED
      BY <3>1, <3>2, <3>3
  <2>4. g = [i \in 0..(n + 1) |-> g[i]]
    OBVIOUS
  <2> HIDE DEF g
  <2>5. \E h : IsSpine(h, n + 1, tree, leaf)
    BY <2>3, <2>4 DEF IsSpine
  <2>6. n + 1 \in 0..NOTE_DEPTH
    BY <1>1, <1>3
  <2> QED
    BY <2>5, <2>6
<1>4. NOTE_DEPTH \in C
  <2> HIDE DEF C
  <2> QED
    BY <1>1, <1>2, <1>3, Climb
<1> QED
  BY <1>4

LEMMA SpineValues ==
    ASSUME NEW tree, NEW leaf
    PROVE  /\ Spine(tree, leaf)[0] = leaf
           /\ \A i \in Levels :
                 Spine(tree, leaf)[i + 1] =
                    IF IsLeft(tree.nextIndex, i)
                    THEN Hash(Spine(tree, leaf)[i], noteZeros[i])
                    ELSE Hash(tree.filledSubtrees[i], Spine(tree, leaf)[i])
<1> DEFINE s == Spine(tree, leaf)
<1>1. IsSpine(s, NOTE_DEPTH, tree, leaf)
  <2>1. s = CHOOSE f : IsSpine(f, NOTE_DEPTH, tree, leaf)
    BY DEF Spine, IsSpine
  <2> QED
    BY <2>1, SpineExists
<1>2. NOTE_DEPTH \in Nat
  BY TreeAssumption
<1> HIDE DEF s
<1>3. \A i \in 0..NOTE_DEPTH :
         s[i] = IF i = 0 THEN leaf
                ELSE IF IsLeft(tree.nextIndex, i - 1)
                     THEN Hash(s[i - 1], noteZeros[i - 1])
                     ELSE Hash(tree.filledSubtrees[i - 1], s[i - 1])
  BY <1>1 DEF IsSpine
<1>4. 0 \in 0..NOTE_DEPTH
  BY <1>2
<1>5. \A i \in Levels : i + 1 \in 0..NOTE_DEPTH /\ i + 1 # 0 /\ (i + 1) - 1 = i
  BY <1>2 DEF Levels
<1>6. /\ s[0] = leaf
      /\ \A i \in Levels :
            s[i + 1] = IF IsLeft(tree.nextIndex, i) THEN Hash(s[i], noteZeros[i])
                       ELSE Hash(tree.filledSubtrees[i], s[i])
  BY <1>3, <1>4, <1>5
<1> QED
  BY <1>6 DEF s

-----------------------------------------------------------------------------
(* The full tree of the clients: the hash of its children, at every node.  *)

NodeAt(below, ls, level, index) ==
    IF index * 2^level >= Len(ls) THEN noteZeros[level]
    ELSE IF level = 0 THEN ls[index + 1]
    ELSE Hash(below[2 * index], below[2 * index + 1])

Row(below, ls, level) == [index \in Nat |-> NodeAt(below, ls, level, index)]

AreRows(f, n, ls) == f = [level \in 0..n |-> Row(f[level - 1], ls, level)]

LEMMA RowsExist ==
    ASSUME NEW ls
    PROVE  \E f : AreRows(f, NOTE_DEPTH, ls)
<1> DEFINE C == {n \in 0..NOTE_DEPTH : \E f : AreRows(f, n, ls)}
<1>1. NOTE_DEPTH \in Nat
  BY TreeAssumption
<1>0. \A a, b : Row(a, ls, 0) = Row(b, ls, 0)
  BY DEF Row, NodeAt
<1>2. 0 \in C
  <2> DEFINE f == [level \in 0..0 |-> Row({}, ls, 0)]
  <2>1. f = [level \in 0..0 |-> Row(f[level - 1], ls, level)]
    BY <1>0
  <2>2. AreRows(f, 0, ls)
    BY <2>1 DEF AreRows
  <2> QED
    BY <1>1, <2>2
<1>3. ASSUME NEW n \in 0..NOTE_DEPTH, n # NOTE_DEPTH, n \in C PROVE n + 1 \in C
  <2>1. PICK f : AreRows(f, n, ls)
    BY <1>3
  <2> DEFINE g == [level \in 0..(n + 1) |->
                     IF level = n + 1 THEN Row(f[n], ls, n + 1) ELSE f[level]]
  <2>2. \A level \in 0..n : g[level] = f[level]
    OBVIOUS
  <2>3. \A level \in 0..n : f[level] = Row(f[level - 1], ls, level)
    <3> HIDE DEF g
    <3> QED
      BY <2>1 DEF AreRows
  <2>4. g[n + 1] = Row(f[n], ls, n + 1)
    OBVIOUS
  <2>5. g = [level \in 0..(n + 1) |-> g[level]]
    OBVIOUS
  <2> HIDE DEF g
  <2>6. ASSUME NEW level \in 0..(n + 1) PROVE g[level] = Row(g[level - 1], ls, level)
    <3>1. CASE level = n + 1
      <4>1. n \in 0..n /\ (n + 1) - 1 = n
        BY <1>1
      <4> QED
        BY <3>1, <4>1, <2>2, <2>4
    <3>2. CASE level = 0
      <4>1. 0 \in 0..n
        BY <1>1
      <4> QED
        BY <3>2, <4>1, <2>2, <2>3, <1>0
    <3>3. CASE level \in 1..n
      <4>1. level \in 0..n /\ level - 1 \in 0..n
        BY <3>3
      <4> QED
        BY <4>1, <2>2, <2>3
    <3> QED
      BY <3>1, <3>2, <3>3
  <2>7. \E h : AreRows(h, n + 1, ls)
    BY <2>5, <2>6 DEF AreRows
  <2>8. n + 1 \in 0..NOTE_DEPTH
    BY <1>1, <1>3
  <2> QED
    BY <2>7, <2>8
<1>4. NOTE_DEPTH \in C
  <2> HIDE DEF C
  <2> QED
    BY <1>1, <1>2, <1>3, Climb
<1> QED
  BY <1>4

\* The client's nodes, whose root is MerkleRoot.
Nodes(ls) == CHOOSE f : AreRows(f, NOTE_DEPTH, ls)

LEMMA RootIsNode ==
    ASSUME NEW ls
    PROVE  MerkleRoot(ls) = Nodes(ls)[NOTE_DEPTH][0]
BY DEF MerkleRoot, Nodes, AreRows, Row, NodeAt

LEMMA NodeValues ==
    ASSUME NEW ls, NEW level \in 0..NOTE_DEPTH, NEW index \in Nat
    PROVE  Nodes(ls)[level][index] = NodeAt(Nodes(ls)[level - 1], ls, level, index)
<1> DEFINE f == Nodes(ls)
<1>1. AreRows(f, NOTE_DEPTH, ls)
  BY RowsExist DEF Nodes
<1> HIDE DEF f
<1>2. f[level] = Row(f[level - 1], ls, level)
  BY <1>1 DEF AreRows
<1>3. f[level][index] = NodeAt(f[level - 1], ls, level, index)
  BY <1>2 DEF Row
<1> QED
  BY <1>3 DEF f

\* A node is the hash of its children, and an empty one is too.
LEMMA NodeAbove ==
    ASSUME NEW ls, Len(ls) \in Nat, NEW i \in Levels, NEW j \in Nat
    PROVE  Nodes(ls)[i + 1][j] = Hash(Nodes(ls)[i][2 * j], Nodes(ls)[i][2 * j + 1])
<1> DEFINE f == Nodes(ls)
           p == 2^i
           n == Len(ls)
<1>1. NOTE_DEPTH \in Nat /\ i \in Nat /\ i \in 0..NOTE_DEPTH /\ i + 1 \in 0..NOTE_DEPTH
      /\ i + 1 # 0 /\ (i + 1) - 1 = i /\ 2 * j \in Nat /\ 2 * j + 1 \in Nat
  BY TreeAssumption DEF Levels
<1>2. p \in Nat /\ 2^(i + 1) = p + p
  BY <1>1, PowNat, PowStep
<1>3. f[i + 1][j] = NodeAt(f[i], ls, i + 1, j)
  BY <1>1, NodeValues
<1>4. CASE j * (p + p) >= n
  <2>1. (2 * j) * p >= n /\ (2 * j + 1) * p >= n
    <3> HIDE DEF p, n
    <3>1. n \in Nat
      BY DEF n
    <3>2. (2 * j) * p = j * (p + p) /\ (2 * j + 1) * p = j * (p + p) + p
      BY <1>2
    <3>3. j * (p + p) \in Nat
      BY <1>2
    <3> QED
      BY <1>2, <1>4, <3>1, <3>2, <3>3
  <2>2. f[i][2 * j] = noteZeros[i] /\ f[i][2 * j + 1] = noteZeros[i]
    BY <1>1, <2>1, NodeValues DEF NodeAt
  <2>3. f[i + 1][j] = noteZeros[i + 1]
    BY <1>2, <1>3, <1>4 DEF NodeAt
  <2> QED
    BY <2>2, <2>3, ZerosValues
<1>5. CASE ~(j * (p + p) >= n)
  BY <1>1, <1>2, <1>3, <1>5 DEF NodeAt
<1> QED
  BY <1>4, <1>5

\* At the bottom are the leaves.
LEMMA NodeBottom ==
    ASSUME NEW ls, Len(ls) \in Nat, NEW j \in Nat
    PROVE  Nodes(ls)[0][j] = IF j < Len(ls) THEN ls[j + 1] ELSE Zero
<1>1. 0 \in 0..NOTE_DEPTH /\ 2^0 = 1 /\ j * 1 = j
  BY TreeAssumption
<1>2. Nodes(ls)[0][j] = NodeAt(Nodes(ls)[0 - 1], ls, 0, j)
  BY <1>1, NodeValues
<1>3. NodeAt(Nodes(ls)[0 - 1], ls, 0, j) =
        IF j >= Len(ls) THEN noteZeros[0] ELSE ls[j + 1]
  BY <1>1 DEF NodeAt
<1> QED
  BY <1>2, <1>3, ZerosValues

LEMMA HashTells ==
    ASSUME NEW x, NEW y, NEW u, NEW v, Hash(x, y) = Hash(u, v)
    PROVE  x = u /\ y = v
BY DEF Hash

\* Different leaves, different roots.
LEMMA RootsTell ==
    ASSUME NEW a, NEW b, Len(a) \in Nat, Len(b) \in Nat,
           Len(a) <= 2^NOTE_DEPTH, Len(b) <= 2^NOTE_DEPTH,
           MerkleRoot(a) = MerkleRoot(b)
    PROVE  \A j \in Nat : Nodes(a)[0][j] = Nodes(b)[0][j]
<1> DEFINE D == NOTE_DEPTH
           f == Nodes(a)
           g == Nodes(b)
           Same(i) == \A j \in Nat : f[i][j] = g[i][j]
           C == {k \in 0..D : Same(D - k)}
<1>1. D \in Nat /\ 2^D \in Nat
  BY TreeAssumption, PowNat
<1>2. Same(D)
  <2>1. f[D][0] = g[D][0]
    BY RootIsNode
  <2>2. ASSUME NEW j \in Nat, j # 0 PROVE f[D][j] = g[D][j]
    <3>1. j * 2^D >= 2^D
      <4> DEFINE p == 2^D
      <4>1. p \in Nat
        BY <1>1
      <4> HIDE DEF p
      <4>2. j * p = (j - 1) * p + p /\ (j - 1) * p \in Nat
        BY <4>1, <2>2
      <4>3. j * p >= p
        BY <4>1, <4>2
      <4> QED
        BY <4>3 DEF p
    <3>2. j * 2^D \in Nat
      BY <1>1
    <3>3. j * 2^D >= Len(a) /\ j * 2^D >= Len(b)
      BY <1>1, <3>1, <3>2
    <3>4. f[D][j] = NodeAt(f[D - 1], a, D, j) /\ g[D][j] = NodeAt(g[D - 1], b, D, j)
      BY <1>1, NodeValues
    <3> QED
      BY <3>3, <3>4 DEF NodeAt
  <2> QED
    BY <2>1, <2>2
<1>3. ASSUME NEW i \in Levels, Same(i + 1) PROVE Same(i)
  <2>1. ASSUME NEW k \in Nat
        PROVE  f[i][2 * k] = g[i][2 * k] /\ f[i][2 * k + 1] = g[i][2 * k + 1]
    <3>1. f[i + 1][k] = g[i + 1][k]
      BY <1>3
    <3>2. /\ f[i + 1][k] = Hash(f[i][2 * k], f[i][2 * k + 1])
          /\ g[i + 1][k] = Hash(g[i][2 * k], g[i][2 * k + 1])
      BY NodeAbove
    <3> HIDE DEF f, g
    <3>3. Hash(f[i][2 * k], f[i][2 * k + 1]) = Hash(g[i][2 * k], g[i][2 * k + 1])
      BY <3>1, <3>2
    <3> QED
      BY <3>3, HashTells
  <2>2. \A j \in Nat : \E k \in Nat : j = 2 * k \/ j = 2 * k + 1
    <3> SUFFICES ASSUME NEW j \in Nat PROVE \E k \in Nat : j = 2 * k \/ j = 2 * k + 1
      OBVIOUS
    <3>1. j \div 2 \in Nat /\ (j = 2 * (j \div 2) \/ j = 2 * (j \div 2) + 1)
      OBVIOUS
    <3> QED
      BY <3>1
  <2> QED
    BY <2>1, <2>2
<1> HIDE DEF Same
<1>4. 0 \in C
  BY <1>1, <1>2
<1>5. ASSUME NEW k \in 0..D, k # D, k \in C PROVE k + 1 \in C
  <2>1. D - (k + 1) \in Levels /\ (D - (k + 1)) + 1 = D - k /\ k + 1 \in 0..D
    BY <1>1, <1>5 DEF Levels
  <2>2. Same(D - (k + 1))
    BY <1>3, <1>5, <2>1
  <2> QED
    BY <2>1, <2>2
<1>6. D \in C
  <2> HIDE DEF C, D
  <2>1. 0..D \subseteq C
    BY <1>1, <1>4, <1>5, Climb
  <2> QED
    BY <1>1, <2>1
<1>7. D - D = 0
  BY <1>1
<1> QED
  BY <1>6, <1>7 DEF Same

-----------------------------------------------------------------------------
(* The tree kept level by level is the full one.                           *)

LEMMA AboveNext ==
    ASSUME NEW n \in Nat
    PROVE  \A i \in 0..NOTE_DEPTH :
              \/ Above(n + 1)[i] = Above(n)[i]
              \/ Above(n + 1)[i] = Above(n)[i] + 1
<1> DEFINE x == Above(n)
           y == Above(n + 1)
           C == {i \in 0..NOTE_DEPTH : y[i] = x[i] \/ y[i] = x[i] + 1}
<1>1. NOTE_DEPTH \in Nat /\ n + 1 \in Nat
  BY TreeAssumption
<1>2. /\ x[0] = n /\ y[0] = n + 1
      /\ \A i \in Levels : x[i + 1] = x[i] \div 2 /\ y[i + 1] = y[i] \div 2
      /\ \A i \in 0..NOTE_DEPTH : x[i] \in Nat /\ y[i] \in Nat
  BY <1>1, AboveValues
<1> HIDE DEF x, y
<1>3. 0 \in C
  BY <1>1, <1>2
<1>4. ASSUME NEW i \in 0..NOTE_DEPTH, i # NOTE_DEPTH, i \in C PROVE i + 1 \in C
  <2>1. i \in Levels /\ i + 1 \in 0..NOTE_DEPTH
    BY <1>1, <1>4 DEF Levels
  <2>2. PICK u \in Nat, v \in Nat : u = x[i] /\ v = y[i]
    BY <1>2
  <2>3. v = u \/ v = u + 1
    BY <1>4, <2>2
  <2>4. v \div 2 = u \div 2 \/ v \div 2 = (u \div 2) + 1
    BY <2>3
  <2>5. x[i + 1] = u \div 2 /\ y[i + 1] = v \div 2
    BY <1>2, <2>1, <2>2
  <2> QED
    BY <2>1, <2>4, <2>5
<1>5. 0..NOTE_DEPTH \subseteq C
  <2> HIDE DEF C
  <2> QED
    BY <1>1, <1>3, <1>4, Climb
<1> QED
  BY <1>5 DEF x, y

\* The root is above every leaf there is room for.
LEMMA AboveTop ==
    ASSUME NEW n \in Nat, n < 2^NOTE_DEPTH
    PROVE  Above(n)[NOTE_DEPTH] = 0
<1> DEFINE D == NOTE_DEPTH
           x == Above(n)
           C == {i \in 0..D : x[i] < 2^(D - i)}
<1>1. D \in Nat
  BY TreeAssumption
<1>2. /\ x[0] = n
      /\ \A i \in Levels : x[i + 1] = x[i] \div 2
      /\ \A i \in 0..D : x[i] \in Nat
  BY AboveValues
<1> HIDE DEF x
<1>3. 0 \in C
  <2>1. D - 0 = D
    BY <1>1
  <2> QED
    BY <1>1, <1>2, <2>1
<1>4. ASSUME NEW i \in 0..D, i # D, i \in C PROVE i + 1 \in C
  <2>1. i \in Levels /\ i + 1 \in 0..D /\ D - (i + 1) \in Nat /\ D - i = (D - (i + 1)) + 1
    BY <1>1, <1>4 DEF Levels
  <2>2. PICK p \in Nat : p = 2^(D - (i + 1))
    BY <2>1, PowNat
  <2>3. 2^(D - i) = p + p
    BY <2>1, <2>2, PowStep
  <2>4. PICK u \in Nat : u = x[i]
    BY <1>2
  <2>5. u < p + p
    BY <1>4, <2>3, <2>4
  <2>6. u \div 2 < p
    BY <2>5
  <2>7. x[i + 1] = u \div 2
    BY <1>2, <2>1, <2>4
  <2> QED
    BY <2>1, <2>2, <2>6, <2>7
<1>5. D \in C
  <2> HIDE DEF C, D
  <2> QED
    BY <1>1, <1>3, <1>4, Climb
<1>6. x[D] < 2^0
  <2>1. D - D = 0
    BY <1>1
  <2> QED
    BY <1>5, <2>1
<1>7. 2^0 = 1 /\ x[D] \in Nat
  BY <1>1, <1>2
<1>8. x[D] = 0
  BY <1>6, <1>7
<1> QED
  BY <1>8 DEF x

\* What the contract keeps of its leaves: how many, and the left siblings
\* that leaves to come will need.
Mirrors(tree, ls) ==
    /\ tree.nextIndex = Len(ls)
    /\ \A i \in Levels : ~IsLeft(Len(ls), i) =>
          tree.filledSubtrees[i] = Nodes(ls)[i][Above(Len(ls))[i] - 1]

\* A new leaf changes, at each level, the node above it.
LEMMA RowsGrow ==
    ASSUME NEW V, NEW ls \in Seq(V), NEW leaf \in V, NEW tree, Mirrors(tree, ls),
           NEW i \in 0..NOTE_DEPTH
    PROVE  LET n == Len(ls)
               old == Nodes(ls)
               new == Nodes(Append(ls, leaf))
           IN /\ \A j \in Nat : j < Above(n)[i] => new[i][j] = old[i][j]
              /\ new[i][Above(n)[i]] = Spine(tree, leaf)[i]
              /\ \A j \in Nat : j > Above(n)[i] => new[i][j] = noteZeros[i]
<1> DEFINE n == Len(ls)
           more == Append(ls, leaf)
           old == Nodes(ls)
           new == Nodes(more)
           a == Above(n)
           s == Spine(tree, leaf)
           Grown(k) == /\ \A j \in Nat : j < a[k] => new[k][j] = old[k][j]
                       /\ new[k][a[k]] = s[k]
                       /\ \A j \in Nat : j > a[k] => new[k][j] = noteZeros[k]
           C == {k \in 0..NOTE_DEPTH : Grown(k)}
<1>1. NOTE_DEPTH \in Nat /\ n \in Nat /\ Len(more) \in Nat
  BY TreeAssumption
<1>2. /\ a[0] = n
      /\ \A k \in Levels : a[k + 1] = a[k] \div 2
      /\ \A k \in 0..NOTE_DEPTH : a[k] \in Nat
  BY <1>1, AboveValues
<1>3. Grown(0)
  <2>1. Len(more) = n + 1 /\ more[n + 1] = leaf /\ \A j \in Nat : j < n => more[j + 1] = ls[j + 1]
    OBVIOUS
  <2>2. \A j \in Nat : new[0][j] = IF j < n + 1 THEN more[j + 1] ELSE Zero
    <3> HIDE DEF more
    <3> QED
      BY <1>1, <2>1, NodeBottom
  <2>3. \A j \in Nat : old[0][j] = IF j < n THEN ls[j + 1] ELSE Zero
    BY <1>1, NodeBottom
  <2>4. s[0] = leaf
    BY SpineValues
  <2> HIDE DEF old, new, a, s, n, more
  <2> QED
    BY <1>1, <1>2, <2>1, <2>2, <2>3, <2>4, ZerosValues
<1>4. ASSUME NEW k \in Levels, Grown(k) PROVE Grown(k + 1)
  <2>0. k \in 0..NOTE_DEPTH
    BY <1>1 DEF Levels
  <2>1. \A j \in Nat : /\ new[k + 1][j] = Hash(new[k][2 * j], new[k][2 * j + 1])
                       /\ old[k + 1][j] = Hash(old[k][2 * j], old[k][2 * j + 1])
    <3> HIDE DEF more
    <3> QED
      BY <1>1, NodeAbove
  <2>2. PICK d \in Nat : d = a[k]
    BY <1>2, <2>0
  <2>3. d \div 2 \in Nat /\ a[k + 1] = d \div 2
    BY <1>2, <2>2
  <2>4. s[k + 1] = IF d % 2 = 0 THEN Hash(s[k], noteZeros[k])
                   ELSE Hash(tree.filledSubtrees[k], s[k])
    <3>1. s[k + 1] = IF IsLeft(tree.nextIndex, k) THEN Hash(s[k], noteZeros[k])
                     ELSE Hash(tree.filledSubtrees[k], s[k])
      BY SpineValues
    <3>2. IsLeft(tree.nextIndex, k) <=> d % 2 = 0
      BY <2>2 DEF IsLeft, Mirrors
    <3> HIDE DEF s
    <3>3. CASE d % 2 = 0
      BY <3>1, <3>2, <3>3
    <3>4. CASE d % 2 # 0
      BY <3>1, <3>2, <3>4
    <3> QED
      BY <3>3, <3>4
  <2>5. d % 2 # 0 => tree.filledSubtrees[k] = old[k][d - 1]
    BY <2>2 DEF Mirrors, IsLeft
  <2>6. /\ \A j \in Nat : j < d => new[k][j] = old[k][j]
        /\ new[k][d] = s[k]
        /\ \A j \in Nat : j > d => new[k][j] = noteZeros[k]
    BY <1>4, <2>2
  <2> HIDE DEF old, new, a, s, n, more
  <2>7. ASSUME NEW j \in Nat, j < d \div 2 PROVE new[k + 1][j] = old[k + 1][j]
    <3>1. 2 * j \in Nat /\ 2 * j + 1 \in Nat /\ 2 * j < d /\ 2 * j + 1 < d
      BY <2>7
    <3> QED
      BY <2>1, <2>6, <3>1
  <2>8. ASSUME NEW j \in Nat, j > d \div 2 PROVE new[k + 1][j] = noteZeros[k + 1]
    <3>1. 2 * j \in Nat /\ 2 * j + 1 \in Nat /\ 2 * j > d /\ 2 * j + 1 > d
      BY <2>8
    <3> QED
      BY <2>1, <2>6, <3>1, ZerosValues
  <2>9. new[k + 1][d \div 2] = s[k + 1]
    <3> DEFINE h == d \div 2
    <3>1. new[k + 1][h] = Hash(new[k][2 * h], new[k][2 * h + 1])
      BY <2>1, <2>3
    <3>2. CASE d % 2 = 0
      <4>1. 2 * h = d /\ 2 * h + 1 > d /\ 2 * h + 1 \in Nat
        BY <3>2
      <4>2. new[k][2 * h] = s[k] /\ new[k][2 * h + 1] = noteZeros[k]
        BY <2>6, <4>1
      <4> QED
        BY <2>4, <3>1, <3>2, <4>2
    <3>3. CASE d % 2 # 0
      <4>1. 2 * h + 1 = d /\ 2 * h = d - 1 /\ d - 1 \in Nat /\ d - 1 < d
        BY <3>3
      <4>2. new[k][2 * h + 1] = s[k] /\ new[k][2 * h] = old[k][d - 1]
        BY <2>6, <4>1
      <4> QED
        BY <2>4, <2>5, <3>1, <3>3, <4>2
    <3> QED
      BY <3>2, <3>3
  <2> QED
    BY <2>3, <2>7, <2>8, <2>9
<1> HIDE DEF Grown
<1>5. 0 \in C
  BY <1>1, <1>3
<1>6. ASSUME NEW k \in 0..NOTE_DEPTH, k # NOTE_DEPTH, k \in C PROVE k + 1 \in C
  <2>1. k \in Levels /\ k + 1 \in 0..NOTE_DEPTH
    BY <1>1, <1>6 DEF Levels
  <2> QED
    BY <1>4, <1>6, <2>1
<1>7. 0..NOTE_DEPTH \subseteq C
  <2> HIDE DEF C
  <2> QED
    BY <1>1, <1>5, <1>6, Climb
<1>8. Grown(i)
  BY <1>7
<1> QED
  BY <1>8 DEF Grown

\* So the pushed root is the client's.
LEMMA InsertRoot ==
    ASSUME NEW V, NEW ls \in Seq(V), NEW leaf \in V, NEW tree, Mirrors(tree, ls),
           ~TreeFull(tree)
    PROVE  Spine(tree, leaf)[NOTE_DEPTH] = MerkleRoot(Append(ls, leaf))
<1>1. NOTE_DEPTH \in 0..NOTE_DEPTH /\ Len(ls) \in Nat /\ 2^NOTE_DEPTH \in Nat
  <2>1. NOTE_DEPTH \in Nat /\ Len(ls) \in Nat
    BY TreeAssumption
  <2>2. 2^NOTE_DEPTH \in Nat
    BY <2>1, PowNat
  <2> QED
    BY <2>1, <2>2
<1>2. Above(Len(ls))[NOTE_DEPTH] = 0
  BY <1>1, AboveTop DEF Mirrors, TreeFull
<1>3. Nodes(Append(ls, leaf))[NOTE_DEPTH][0] = Spine(tree, leaf)[NOTE_DEPTH]
  BY <1>1, <1>2, RowsGrow
<1> QED
  BY <1>3, RootIsNode

LEMMA InsertMirrors ==
    ASSUME NEW V, NEW ls \in Seq(V), NEW leaf \in V, NEW tree, Mirrors(tree, ls),
           NEW after, after.nextIndex = tree.nextIndex + 1,
           \A i \in Levels : after.filledSubtrees[i] =
              IF IsLeft(tree.nextIndex, i) THEN Spine(tree, leaf)[i] ELSE tree.filledSubtrees[i]
    PROVE  Mirrors(after, Append(ls, leaf))
<1> DEFINE n == Len(ls)
           new == Nodes(Append(ls, leaf))
<1>1. n \in Nat /\ Len(Append(ls, leaf)) = n + 1 /\ NOTE_DEPTH \in Nat
  BY TreeAssumption
<1>2. ASSUME NEW i \in Levels, ~IsLeft(n + 1, i)
      PROVE  after.filledSubtrees[i] = new[i][Above(n + 1)[i] - 1]
  <2>1. i \in 0..NOTE_DEPTH
    BY <1>1 DEF Levels
  <2>2. PICK d \in Nat : d = Above(n)[i]
    BY <1>1, <2>1, AboveValues
  <2>3. PICK e \in Nat : e = Above(n + 1)[i]
    BY <1>1, <2>1, AboveValues
  <2>4. (e = d \/ e = d + 1) /\ e % 2 # 0
    BY <1>1, <1>2, <2>1, <2>2, <2>3, AboveNext DEF IsLeft
  <2>5. IsLeft(n, i) = (d % 2 = 0)
    BY <2>2 DEF IsLeft
  <2>6. /\ \A j \in Nat : j < d => new[i][j] = Nodes(ls)[i][j]
        /\ new[i][d] = Spine(tree, leaf)[i]
    BY <2>1, <2>2, RowsGrow
  <2>7. tree.nextIndex = n /\ (d % 2 # 0 => tree.filledSubtrees[i] = Nodes(ls)[i][d - 1])
    BY <2>2, <2>5 DEF Mirrors
  <2> HIDE DEF n, new
  <2>8. CASE e = d + 1
    <3>1. d % 2 = 0 /\ e - 1 = d
      BY <2>4, <2>8
    <3> QED
      BY <2>3, <2>5, <2>6, <2>7, <3>1
  <2>9. CASE e = d
    <3>1. d % 2 # 0 /\ d - 1 \in Nat /\ d - 1 < d
      BY <2>4, <2>9
    <3> QED
      BY <2>3, <2>5, <2>6, <2>7, <2>9, <3>1
  <2> QED
    BY <2>4, <2>8, <2>9
<1> HIDE DEF new
<1>3. after.nextIndex = n + 1
  BY DEF Mirrors
<1> QED
  BY <1>1, <1>2, <1>3 DEF Mirrors, new

-----------------------------------------------------------------------------
(* What a tree and its leaves have to do with each other.                  *)

IsTree(tree) ==
    /\ tree = [roots |-> tree.roots, filledSubtrees |-> tree.filledSubtrees,
               rootIndex |-> tree.rootIndex, nextIndex |-> tree.nextIndex,
               warmed |-> tree.warmed]
    /\ tree.roots = [s \in Slots |-> tree.roots[s]]
    /\ tree.filledSubtrees = [i \in Levels |-> tree.filledSubtrees[i]]
    /\ tree.rootIndex \in Slots /\ tree.warmed \in BOOLEAN

\* Sequences of nonzero leaves that a tree has room for.
Fits(ls) ==
    /\ Len(ls) <= 2^NOTE_DEPTH
    /\ \A k \in 1..Len(ls) : ls[k] # Zero

\* Each root still in the ring was the client's after some insertion.
RingTrue(tree, ls) ==
    \A s \in Slots : \/ tree.roots[s] = Zero
                     \/ \E k \in 0..Len(ls) :
                           tree.roots[s] = MerkleRoot(SubSeq(ls, 1, k))

TreeOf(tree, ls) ==
    /\ IsTree(tree)
    /\ Mirrors(tree, ls) /\ Fits(ls) /\ RingTrue(tree, ls)
    /\ ls # << >> => tree.roots[tree.rootIndex] = MerkleRoot(ls)
    /\ ~tree.warmed => ls = << >>

LEMMA EmptyRoot == MerkleRoot(<< >>) = emptyNoteRoot
<1>1. NOTE_DEPTH \in Nat /\ NOTE_DEPTH \in 0..NOTE_DEPTH /\ 0 \in Nat
  BY TreeAssumption
<1>2. 2^NOTE_DEPTH \in Nat
  BY <1>1, PowNat
<1>3. 0 * 2^NOTE_DEPTH >= Len(<< >>)
  BY <1>2
<1>4. Nodes(<< >>)[NOTE_DEPTH][0] = NodeAt(Nodes(<< >>)[NOTE_DEPTH - 1], << >>, NOTE_DEPTH, 0)
  BY <1>1, NodeValues
<1> QED
  BY <1>3, <1>4, RootIsNode DEF NodeAt, emptyNoteRoot

\* Before the first leaf everything above it is a left child.
LEMMA NothingMirrored ==
    ASSUME NEW tree, tree.nextIndex = 0
    PROVE  Mirrors(tree, << >>)
<1>1. NOTE_DEPTH \in Nat /\ Len(<< >>) = 0
  BY TreeAssumption
<1> DEFINE x == Above(0)
           C == {i \in 0..NOTE_DEPTH : x[i] = 0}
<1>2. x[0] = 0 /\ \A i \in Levels : x[i + 1] = x[i] \div 2
  BY AboveValues
<1> HIDE DEF x
<1>3. 0 \in C
  BY <1>1, <1>2
<1>4. ASSUME NEW i \in 0..NOTE_DEPTH, i # NOTE_DEPTH, i \in C PROVE i + 1 \in C
  <2>1. i \in Levels /\ i + 1 \in 0..NOTE_DEPTH /\ x[i] = 0
    BY <1>1, <1>4 DEF Levels
  <2>2. x[i + 1] = 0
    BY <1>2, <2>1
  <2> QED
    BY <2>1, <2>2
<1>5. 0..NOTE_DEPTH \subseteq C
  <2> HIDE DEF C
  <2> QED
    BY <1>1, <1>3, <1>4, Climb
<1>6. \A i \in Levels : IsLeft(0, i)
  <2>1. \A i \in Levels : x[i] = 0
    BY <1>1, <1>5 DEF Levels
  <2> QED
    BY <2>1 DEF IsLeft, x
<1> QED
  BY <1>1, <1>6 DEF Mirrors

LEMMA BlankTreeOf == TreeOf(BlankTree, << >>)
<1>1. 0 \in Slots
  BY TreeAssumption DEF Slots
<1>2. /\ BlankTree.roots = [s \in Slots |-> Zero] /\ BlankTree.filledSubtrees = [i \in Levels |-> Zero]
      /\ BlankTree.rootIndex = 0 /\ BlankTree.nextIndex = 0 /\ BlankTree.warmed = FALSE
  BY DEF BlankTree
<1>3. IsTree(BlankTree)
  BY <1>1 DEF IsTree, BlankTree
<1>4. Fits(<< >>)
  <2>1. 2^NOTE_DEPTH \in Nat /\ Len(<< >>) = 0
    <3>1. NOTE_DEPTH \in Nat
      BY TreeAssumption
    <3>2. 2^NOTE_DEPTH \in Nat
      BY <3>1, PowNat
    <3> QED
      BY <3>2
  <2> QED
    BY <2>1 DEF Fits
<1>5. RingTrue(BlankTree, << >>)
  BY <1>2 DEF RingTrue
<1>6. Mirrors(BlankTree, << >>)
  BY <1>2, NothingMirrored
<1> QED
  BY <1>3, <1>4, <1>5, <1>6 DEF TreeOf

LEMMA WarmTreeOf ==
    ASSUME NEW tree, NEW ls, TreeOf(tree, ls)
    PROVE  TreeOf(WarmTree(tree), ls) /\ WarmTree(tree).warmed
<1>1. CASE tree.warmed
  BY <1>1 DEF WarmTree
<1>2. CASE ~tree.warmed
  <2> DEFINE w == WarmTree(tree)
  <2>1. ls = << >> /\ IsTree(tree) /\ tree.nextIndex = 0
    BY <1>2 DEF TreeOf, Mirrors
  <2>2. 0 \in Slots
    BY TreeAssumption DEF Slots
  <2>3. w = [tree EXCEPT !.filledSubtrees = [i \in Levels |-> noteZeros[i]],
                         !.roots[0] = emptyNoteRoot, !.warmed = TRUE]
    BY <1>2 DEF WarmTree
  <2> HIDE DEF w
  <2>4. /\ w = [roots |-> w.roots, filledSubtrees |-> w.filledSubtrees,
                rootIndex |-> w.rootIndex, nextIndex |-> w.nextIndex, warmed |-> w.warmed]
        /\ w.roots = [tree.roots EXCEPT ![0] = emptyNoteRoot]
        /\ w.filledSubtrees = [i \in Levels |-> noteZeros[i]]
        /\ w.rootIndex = tree.rootIndex /\ w.nextIndex = 0 /\ w.warmed = TRUE
    BY <2>1, <2>3 DEF IsTree
  <2>5. \A s \in Slots : w.roots[s] = IF s = 0 THEN emptyNoteRoot ELSE tree.roots[s]
    BY <2>1, <2>4 DEF IsTree
  <2>6. w.roots = [s \in Slots |-> w.roots[s]]
    BY <2>1, <2>4 DEF IsTree
  <2>7. IsTree(w)
    BY <2>1, <2>4, <2>6 DEF IsTree
  <2>8. RingTrue(w, ls)
    <3>1. SubSeq(<< >>, 1, 0) = << >> /\ Len(<< >>) = 0
      OBVIOUS
    <3>2. RingTrue(tree, ls)
      BY DEF TreeOf
    <3>3. emptyNoteRoot = MerkleRoot(SubSeq(ls, 1, 0))
      BY <2>1, <3>1, EmptyRoot
    <3>4. 0 \in 0..Len(ls)
      BY <2>1, <3>1
    <3> QED
      BY <2>5, <3>2, <3>3, <3>4 DEF RingTrue
  <2>9. Mirrors(w, ls)
    BY <2>1, <2>4, NothingMirrored
  <2>10. TreeOf(w, ls) /\ w.warmed
    BY <2>1, <2>4, <2>7, <2>8, <2>9 DEF TreeOf
  <2> QED
    BY <2>10 DEF w
<1> QED
  BY <1>1, <1>2

LEMMA InsertTreeOf ==
    ASSUME NEW V, NEW ls \in Seq(V), NEW leaf \in V, leaf # Zero,
           NEW tree, TreeOf(tree, ls), ~TreeFull(tree), tree.warmed
    PROVE  TreeOf(InsertLeaf(tree, leaf), Append(ls, leaf)) /\ InsertLeaf(tree, leaf).warmed
<1> DEFINE w == InsertLeaf(tree, leaf)
           more == Append(ls, leaf)
           spine == Spine(tree, leaf)
           slot == (tree.rootIndex + 1) % ROOT_HISTORY
<1>1. IsTree(tree) /\ Mirrors(tree, ls) /\ tree.nextIndex = Len(ls) /\ Len(ls) \in Nat
  BY DEF TreeOf, Mirrors
<1>2. slot \in Slots
  BY <1>1, TreeAssumption DEF IsTree, Slots
<1>3. w = [tree EXCEPT
             !.filledSubtrees = [i \in Levels |->
                 IF IsLeft(tree.nextIndex, i) THEN spine[i] ELSE tree.filledSubtrees[i]],
             !.rootIndex = slot, !.roots[slot] = spine[NOTE_DEPTH],
             !.nextIndex = tree.nextIndex + 1]
  BY DEF InsertLeaf
<1>4. spine[NOTE_DEPTH] = MerkleRoot(more)
  BY <1>1, InsertRoot
<1> HIDE DEF w, spine, slot
<1>5. /\ w = [roots |-> w.roots, filledSubtrees |-> w.filledSubtrees,
              rootIndex |-> w.rootIndex, nextIndex |-> w.nextIndex, warmed |-> w.warmed]
      /\ w.roots = [tree.roots EXCEPT ![slot] = spine[NOTE_DEPTH]]
      /\ w.filledSubtrees = [i \in Levels |->
             IF IsLeft(tree.nextIndex, i) THEN spine[i] ELSE tree.filledSubtrees[i]]
      /\ w.rootIndex = slot /\ w.nextIndex = tree.nextIndex + 1 /\ w.warmed = tree.warmed
  BY <1>1, <1>3 DEF IsTree
<1>6. /\ w.roots = [s \in Slots |-> w.roots[s]]
      /\ \A s \in Slots : w.roots[s] = IF s = slot THEN spine[NOTE_DEPTH] ELSE tree.roots[s]
  BY <1>1, <1>2, <1>5 DEF IsTree
<1>7. IsTree(w)
  BY <1>1, <1>2, <1>5, <1>6 DEF IsTree
<1>8. Mirrors(w, more)
  <2>1. \A i \in Levels : w.filledSubtrees[i] =
           IF IsLeft(tree.nextIndex, i) THEN Spine(tree, leaf)[i] ELSE tree.filledSubtrees[i]
    BY <1>5 DEF spine
  <2> QED
    BY <1>1, <1>5, <2>1, InsertMirrors
<1>9. Fits(more)
  <2>1. 2^NOTE_DEPTH \in Nat
    BY TreeAssumption, PowNat
  <2>2. /\ Len(more) = Len(ls) + 1
        /\ \A k \in 1..Len(more) : more[k] = IF k = Len(ls) + 1 THEN leaf ELSE ls[k]
    OBVIOUS
  <2>3. Len(ls) < 2^NOTE_DEPTH
    BY <1>1, <2>1 DEF TreeFull
  <2>4. \A k \in 1..Len(ls) : ls[k] # Zero
    BY DEF TreeOf, Fits
  <2> HIDE DEF more
  <2> QED
    BY <1>1, <2>1, <2>2, <2>3, <2>4 DEF Fits
<1>10. RingTrue(w, more)
  <2>1. Len(more) = Len(ls) + 1 /\ SubSeq(more, 1, Len(ls) + 1) = more
    OBVIOUS
  <2>2. ASSUME NEW k \in 0..Len(ls) PROVE SubSeq(more, 1, k) = SubSeq(ls, 1, k)
    OBVIOUS
  <2>3. RingTrue(tree, ls)
    BY DEF TreeOf
  <2> HIDE DEF more
  <2> SUFFICES ASSUME NEW s \in Slots, w.roots[s] # Zero
               PROVE  \E k \in 0..Len(more) : w.roots[s] = MerkleRoot(SubSeq(more, 1, k))
    BY DEF RingTrue
  <2>4. CASE s = slot
    <3>1. Len(ls) + 1 \in 0..Len(more)
      BY <1>1, <2>1
    <3>2. w.roots[s] = MerkleRoot(SubSeq(more, 1, Len(ls) + 1))
      BY <1>4, <1>6, <2>1, <2>4
    <3> QED
      BY <3>1, <3>2
  <2>5. CASE s # slot
    <3>1. PICK k \in 0..Len(ls) : tree.roots[s] = MerkleRoot(SubSeq(ls, 1, k))
      BY <1>6, <2>3, <2>5 DEF RingTrue
    <3>2. k \in 0..Len(more) /\ SubSeq(more, 1, k) = SubSeq(ls, 1, k)
      BY <1>1, <2>1, <2>2
    <3>3. w.roots[s] = MerkleRoot(SubSeq(more, 1, k))
      BY <1>6, <2>5, <3>1, <3>2
    <3> QED
      BY <3>2, <3>3
  <2> QED
    BY <2>4, <2>5
<1>11. w.roots[w.rootIndex] = MerkleRoot(more)
  BY <1>2, <1>4, <1>5, <1>6
<1>12. TreeOf(w, more) /\ w.warmed
  BY <1>5, <1>7, <1>8, <1>9, <1>10, <1>11 DEF TreeOf
<1> QED
  BY <1>12 DEF w

\* A root the tree knows was made of its own leaves.
LEMMA KnownRoot ==
    ASSUME NEW V, NEW ls \in Seq(V), NEW tree, TreeOf(tree, ls),
           NEW others \in Seq(V), others # << >>, Fits(others),
           IsKnownNoteRoot(tree, MerkleRoot(others))
    PROVE  Range(others) \subseteq Range(ls)
<1> DEFINE root == MerkleRoot(others)
<1>1. PICK k \in 0..Len(ls) : root = MerkleRoot(SubSeq(ls, 1, k))
  <2>1. CASE tree.nextIndex = 0
    <3>1. SubSeq(ls, 1, 0) = << >>
      OBVIOUS
    <3>2. root = MerkleRoot(SubSeq(ls, 1, 0))
      BY <2>1, <3>1, EmptyRoot DEF IsKnownNoteRoot
    <3>3. 0 \in 0..Len(ls)
      OBVIOUS
    <3> QED
      BY <3>2, <3>3
  <2>2. CASE tree.nextIndex # 0
    BY <2>2 DEF IsKnownNoteRoot, TreeOf, RingTrue
  <2> QED
    BY <2>1, <2>2
<1> DEFINE first == SubSeq(ls, 1, k)
<1>2. first \in Seq(V) /\ Len(first) = k /\ \A i \in 1..k : first[i] = ls[i]
  OBVIOUS
<1>3. 2^NOTE_DEPTH \in Nat
  BY TreeAssumption, PowNat
<1>4. /\ Len(first) <= 2^NOTE_DEPTH /\ Len(others) <= 2^NOTE_DEPTH
      /\ Len(first) \in Nat /\ Len(others) \in Nat
  BY <1>2, <1>3 DEF TreeOf, Fits
<1>5. \A j \in Nat : Nodes(others)[0][j] = Nodes(first)[0][j]
  <2> HIDE DEF first
  <2>1. MerkleRoot(others) = MerkleRoot(first)
    BY <1>1 DEF first
  <2> QED
    BY <1>4, <2>1, RootsTell
<1>6. ASSUME NEW i \in 1..Len(others) PROVE others[i] \in Range(ls)
  <2>1. i - 1 \in Nat /\ i - 1 < Len(others) /\ (i - 1) + 1 = i
    OBVIOUS
  <2>2. Nodes(others)[0][i - 1] = others[i]
    BY <1>4, <2>1, NodeBottom
  <2>3. others[i] # Zero
    BY DEF Fits
  <2>4. others[i] = IF i - 1 < Len(first) THEN first[i] ELSE Zero
    <3> HIDE DEF first
    <3> QED
      BY <1>4, <1>5, <2>1, <2>2, NodeBottom
  <2>5. i - 1 < k /\ others[i] = first[i]
    BY <1>2, <2>3, <2>4
  <2>6. i \in 1..k /\ i \in 1..Len(ls)
    BY <2>1, <2>5
  <2>7. others[i] = ls[i]
    BY <1>2, <2>5, <2>6
  <2> QED
    BY <2>6, <2>7 DEF Range
<1>7. DOMAIN others = 1..Len(others)
  OBVIOUS
<1> QED
  BY <1>6, <1>7 DEF Range

-----------------------------------------------------------------------------
(* In every tree of the vault.                                             *)

NoteLeaves == Notes \X Buckets

\* Inductive, given that what was signed is an authorization.  A tree is warm
\* before anything can be inserted in it.
TreesInv ==
    /\ leaves \in [Assets -> Seq(NoteLeaves)]
    /\ noteTrees = [t \in Assets |-> noteTrees[t]]
    /\ shieldBuckets = [t \in Assets |-> shieldBuckets[t]]
    /\ \A t \in Assets : TreeOf(noteTrees[t], leaves[t])
    /\ shieldPoseidon => noteTrees[Native].warmed
    /\ \A t \in Tokens : shieldBuckets[t] # {} => noteTrees[t].warmed

LEMMA TreesSame ==
    ASSUME TreesInv, UNCHANGED <<noteTrees, leaves, shieldPoseidon, shieldBuckets>>
    PROVE  TreesInv'
<1>1. \A t \in Assets : TreeOf(noteTrees[t], leaves[t])'
  BY DEF TreesInv, TreeOf, IsTree, Mirrors, RingTrue
<1> QED
  BY <1>1 DEF TreesInv

\* One tree becomes another of the same or more leaves.
LEMMA TreesChange ==
    ASSUME TreesInv, NEW t \in Assets, NEW tree, NEW seq \in Seq(NoteLeaves),
           TreeOf(tree, seq), tree.warmed,
           noteTrees' = [noteTrees EXCEPT ![t] = tree],
           leaves' = [leaves EXCEPT ![t] = seq],
           shieldBuckets' = [s \in Assets |-> shieldBuckets'[s]],
           \A s \in Tokens \ {t} : shieldBuckets'[s] = shieldBuckets[s],
           t # Native => shieldPoseidon' = shieldPoseidon
    PROVE  TreesInv'
<1>1. \A s \in Assets : noteTrees'[s] = IF s = t THEN tree ELSE noteTrees[s]
  BY DEF TreesInv
<1>2. \A s \in Assets : leaves'[s] = IF s = t THEN seq ELSE leaves[s]
  BY DEF TreesInv
<1>3. leaves' \in [Assets -> Seq(NoteLeaves)] /\ noteTrees' = [s \in Assets |-> noteTrees'[s]]
  BY DEF TreesInv
<1>4. ASSUME NEW s \in Assets PROVE TreeOf(noteTrees[s], leaves[s])'
  <2>1. PICK u, q : u = noteTrees'[s] /\ q = leaves'[s]
    OBVIOUS
  <2>2. TreeOf(u, q)
    <3>1. CASE s = t
      BY <1>1, <1>2, <2>1, <3>1
    <3>2. CASE s # t
      <4>1. u = noteTrees[s] /\ q = leaves[s]
        BY <1>1, <1>2, <2>1, <3>2
      <4> QED
        BY <4>1 DEF TreesInv
    <3> QED
      BY <3>1, <3>2
  <2> QED
    BY <2>1, <2>2 DEF TreeOf, IsTree, Mirrors, RingTrue
<1>5. shieldPoseidon' => noteTrees'[Native].warmed
  BY <1>1 DEF TreesInv, Assets
<1>6. \A s \in Tokens : shieldBuckets'[s] # {} => noteTrees'[s].warmed
  BY <1>1 DEF TreesInv, Assets
<1> QED
  BY <1>3, <1>4, <1>5, <1>6 DEF TreesInv

LEMMA InsertNoteTrees ==
    ASSUME TreesInv, NEW a, NEW t \in Assets, NEW bucket, NEW leaf \in NoteLeaves,
           InsertNote(a, t, bucket, leaf), UNCHANGED admin
    PROVE  TreesInv'
<1>1. /\ shieldPoseidon /\ bucket \in shieldBuckets[t] /\ leaf # Zero
      /\ ~TreeFull(noteTrees[t])
      /\ noteTrees' = [noteTrees EXCEPT ![t] = InsertLeaf(noteTrees[t], leaf)]
      /\ leaves' = [leaves EXCEPT ![t] = Append(leaves[t], leaf)]
  BY DEF InsertNote
<1>2. noteTrees[t].warmed
  BY <1>1 DEF TreesInv, Assets
<1>3. leaves[t] \in Seq(NoteLeaves) /\ Append(leaves[t], leaf) \in Seq(NoteLeaves)
  BY DEF TreesInv
<1>4. /\ TreeOf(InsertLeaf(noteTrees[t], leaf), Append(leaves[t], leaf))
      /\ InsertLeaf(noteTrees[t], leaf).warmed
  BY <1>1, <1>2, <1>3, InsertTreeOf DEF TreesInv
<1>5. shieldBuckets' = shieldBuckets /\ shieldPoseidon' = shieldPoseidon
  BY DEF admin
<1>6. shieldBuckets' = [s \in Assets |-> shieldBuckets'[s]]
  BY <1>5 DEF TreesInv
<1> QED
  BY <1>1, <1>3, <1>4, <1>5, <1>6, TreesChange

LEMMA WarmTrees ==
    ASSUME TreesInv, NEW t \in Assets,
           noteTrees' = [noteTrees EXCEPT ![t] = WarmTree(noteTrees[t])],
           leaves' = leaves,
           shieldBuckets' = [s \in Assets |-> shieldBuckets'[s]],
           \A s \in Tokens \ {t} : shieldBuckets'[s] = shieldBuckets[s],
           t # Native => shieldPoseidon' = shieldPoseidon
    PROVE  TreesInv'
<1>1. TreeOf(WarmTree(noteTrees[t]), leaves[t]) /\ WarmTree(noteTrees[t]).warmed
  BY WarmTreeOf DEF TreesInv
<1>2. leaves[t] \in Seq(NoteLeaves) /\ leaves' = [leaves EXCEPT ![t] = leaves[t]]
  BY DEF TreesInv
<1> QED
  BY <1>1, <1>2, TreesChange

LEMMA GovernanceTrees ==
    ASSUME TreesInv, Governance
    PROVE  TreesInv'
<1>1. ASSUME NEW bps, SetWithdrawFeeBps(bps) PROVE TreesInv'
  BY <1>1, TreesSame DEF SetWithdrawFeeBps, notes
<1>2. ASSUME NEW s, SetService(s) PROVE TreesInv'
  BY <1>2, TreesSame DEF SetService, notes
<1>3. ASSUME SetAuthorized PROVE TreesInv'
  BY <1>3, TreesSame DEF SetAuthorized, notes
<1>4. ASSUME SetShieldPoseidon PROVE TreesInv'
  <2>1. noteTrees' = [noteTrees EXCEPT ![Native] = WarmTree(noteTrees[Native])]
        /\ shieldBuckets' = shieldBuckets /\ leaves' = leaves
    BY <1>4 DEF SetShieldPoseidon
  <2>2. Native \in Assets /\ shieldBuckets' = [s \in Assets |-> shieldBuckets'[s]]
    BY <2>1 DEF Assets, TreesInv
  <2> QED
    BY <2>1, <2>2, WarmTrees
<1>5. ASSUME NEW t \in Assets, NEW ladder, SetShieldBuckets(t, ladder) PROVE TreesInv'
  <2>1. /\ shieldBuckets' = [shieldBuckets EXCEPT ![t] = ladder]
        /\ leaves' = leaves /\ shieldPoseidon' = shieldPoseidon
        /\ \/ t = Native /\ noteTrees' = noteTrees
           \/ t \in Tokens /\ noteTrees' = [noteTrees EXCEPT ![t] = WarmTree(noteTrees[t])]
    BY <1>5 DEF SetShieldBuckets
  <2>2. /\ shieldBuckets' = [s \in Assets |-> shieldBuckets'[s]]
        /\ \A s \in Tokens \ {t} : shieldBuckets'[s] = shieldBuckets[s]
    BY <2>1 DEF TreesInv, Assets
  <2>3. CASE t = Native /\ noteTrees' = noteTrees
    <3>1. \A s \in Tokens : shieldBuckets'[s] = shieldBuckets[s]
      BY <2>2, <2>3, VaultAssumption
    <3>2. \A s \in Assets : TreeOf(noteTrees[s], leaves[s])'
      BY <2>1, <2>3 DEF TreesInv, TreeOf, IsTree, Mirrors, RingTrue
    <3> QED
      BY <2>1, <2>2, <2>3, <3>1, <3>2 DEF TreesInv
  <2>4. CASE t \in Tokens /\ noteTrees' = [noteTrees EXCEPT ![t] = WarmTree(noteTrees[t])]
    BY <2>1, <2>2, <2>4, WarmTrees
  <2> QED
    BY <2>1, <2>3, <2>4
<1> QED
  BY <1>1, <1>2, <1>3, <1>4, <1>5 DEF Governance

\* A note that is paid for, by whom or under whose signature it may be.
LEMMA InsertIsTyped ==
    ASSUME VInv, NEW au \in signed, InsertShieldNoteFor(au)
    PROVE  /\ au.asset \in Assets /\ au.bucket \in Buckets /\ au.leaf \in NoteLeaves
           /\ InsertNote(au.account, au.asset, au.bucket, au.leaf) /\ UNCHANGED admin
<1>1. au \in NoteAuth
  BY DEF InsertShieldNoteFor, VInv, Auths, WithdrawAuth
<1> QED
  BY <1>1 DEF InsertShieldNoteFor, NoteAuth, NoteLeaves

\* Every step inserts a note, spends one, is governance, or touches no tree.
LEMMA NoteSteps ==
    ASSUME VInv, [Next]_vars
    PROVE  \/ \E a : \E t \in Assets, bucket \in Buckets, leaf \in NoteLeaves :
                 InsertNote(a, t, bucket, leaf) /\ UNCHANGED admin
           \/ \E t \in Assets : Spend(t)
           \/ Governance
           \/ UNCHANGED <<notes, admin>>
<1>1. ASSUME NEW from, NEW to, NEW t, NEW v, Credit(from, to, t, v) PROVE UNCHANGED <<notes, admin>>
  BY <1>1 DEF Credit
<1>2. ASSUME NEW a, ClaimPaseoDust(a) \/ \E t, to : Withdraw(a, t, to)
      PROVE  UNCHANGED <<notes, admin>>
  BY <1>2 DEF ClaimPaseoDust, Withdraw
<1>3. ASSUME NEW au, NEW r, WithdrawFor(r, au) PROVE UNCHANGED <<notes, admin>>
  BY <1>3 DEF WithdrawFor
<1>4. ASSUME Tick \/ UNCHANGED vars PROVE UNCHANGED <<notes, admin>>
  BY <1>4 DEF Tick, vars
<1>5. ASSUME NEW a, NEW t \in Assets, Payee(a, t)
      PROVE  \/ UNCHANGED <<notes, admin>>
             \/ \E bucket \in Buckets, leaf \in NoteLeaves :
                   InsertNote(a, t, bucket, leaf) /\ UNCHANGED admin
  BY <1>5 DEF Payee, SignWithdraw, SignNote, Sign, InsertShieldNote, NoteLeaves
<1> QED
  BY <1>1, <1>2, <1>3, <1>4, <1>5, InsertIsTyped DEF Next

LEMMA NextTreesInv == VInv /\ TreesInv /\ [Next]_vars => TreesInv'
<1> SUFFICES ASSUME VInv, TreesInv, [Next]_vars PROVE TreesInv'
  OBVIOUS
<1>1. ASSUME NEW t, Spend(t) PROVE TreesInv'
  <2>1. UNCHANGED <<noteTrees, leaves, shieldPoseidon, shieldBuckets>>
    BY <1>1 DEF Spend, DepositShieldNoteZK, admin
  <2> QED
    BY <2>1, TreesSame
<1>2. ASSUME UNCHANGED <<notes, admin>> PROVE TreesInv'
  BY <1>2, TreesSame DEF notes, admin
<1> QED
  BY <1>1, <1>2, NoteSteps, InsertNoteTrees, GovernanceTrees

LEMMA InitTreesInv == Init => TreesInv
<1> SUFFICES ASSUME Init PROVE TreesInv
  OBVIOUS
<1>1. /\ noteTrees = [t \in Assets |-> BlankTree] /\ leaves = [t \in Assets |-> << >>]
      /\ shieldPoseidon = FALSE /\ shieldBuckets = [t \in Assets |-> {}]
  BY DEF Init
<1>2. \A t \in Assets : TreeOf(noteTrees[t], leaves[t])
  BY <1>1, BlankTreeOf
<1>3. << >> \in Seq(NoteLeaves)
  OBVIOUS
<1> QED
  BY <1>1, <1>2, <1>3 DEF TreesInv, Assets

LEMMA TreesAlways == Spec => [](VInv /\ TreesInv)
BY InitVInv, NextVInv, InitTreesInv, NextTreesInv, PTL DEF Spec

\* For any depth and any number of insertions, warmings and changes of ladder
\* in any order, the tree the contract keeps level by level has the root of the
\* full tree its clients rebuild from the events.
THEOREM RootsAreTheClients == Spec => []RootsMatchClients
<1>1. TreesInv => RootsMatchClients
  BY DEF TreesInv, TreeOf, Mirrors, RootsMatchClients
<1> QED
  BY <1>1, TreesAlways, PTL

-----------------------------------------------------------------------------
(* IV.  The promise of shielded payouts.                                   *)

\* What a spend proves to be under a root of the tree is in the tree, for a
\* root tells which leaves it was made of.
LEMMA SpentWasInserted ==
    ASSUME TreesInv, NEW t \in Assets, NEW root, NEW leaf, VerifyAndBurn(t, root, leaf)
    PROVE  leaf \in Range(leaves[t])
<1>0. PICK s \in Assets : \E i \in 1..Len(leaves[s]) :
         /\ leaf \in Range(SubSeq(leaves[s], 1, i))
         /\ root = MerkleRoot(SubSeq(leaves[s], 1, i))
  BY DEF VerifyAndBurn, Provable
<1>1. PICK k \in 1..Len(leaves[s]) :
         /\ leaf \in Range(SubSeq(leaves[s], 1, k))
         /\ root = MerkleRoot(SubSeq(leaves[s], 1, k))
  BY <1>0
<1>2. PICK q \in Seq(NoteLeaves) : q = leaves[s]
  BY DEF TreesInv
<1> DEFINE seen == SubSeq(q, 1, k)
<1>3. k \in 1..Len(q) /\ Len(q) \in Nat
  BY <1>1, <1>2
<1>4. /\ seen \in Seq(NoteLeaves) /\ seen # << >> /\ Len(seen) = k
      /\ \A i \in 1..k : seen[i] = q[i]
  BY <1>3
<1>5. 2^NOTE_DEPTH \in Nat
  BY TreeAssumption, PowNat
<1>6. Fits(q)
  BY <1>2 DEF TreesInv, TreeOf
<1>7. Fits(seen)
  <2> HIDE DEF seen
  <2> QED
    BY <1>3, <1>4, <1>5, <1>6 DEF Fits
<1>8. IsKnownNoteRoot(noteTrees[t], MerkleRoot(seen))
  BY <1>1, <1>2 DEF VerifyAndBurn
<1>9. leaves[t] \in Seq(NoteLeaves) /\ TreeOf(noteTrees[t], leaves[t])
  BY DEF TreesInv
<1>10. Range(seen) \subseteq Range(leaves[t])
  <2> HIDE DEF seen
  <2> QED
    BY <1>4, <1>7, <1>8, <1>9, KnownRoot
<1> QED
  BY <1>1, <1>2, <1>10

LEMMA InsertIsInsert ==
    ASSUME TreesInv, MoneyInv, NEW a, NEW t \in Assets, NEW bucket \in Buckets,
           NEW leaf \in NoteLeaves, InsertNote(a, t, bucket, leaf)
    PROVE  Pool!Next
<1>1. PICK n \in Notes, b \in Buckets : leaf = <<n, b>>
  BY DEF NoteLeaves
<1>2. leaves' = [leaves EXCEPT ![t] = Append(leaves[t], leaf)]
      /\ UNCHANGED <<nullifierSpent, shielded>>
  BY DEF InsertNote
<1>3. leaves \in [Assets -> Seq(NoteLeaves)]
  BY DEF TreesInv
<1>4. Range(Append(leaves[t], leaf)) = Range(leaves[t]) \cup {leaf}
  <2>1. PICK q \in Seq(NoteLeaves) : q = leaves[t]
    BY <1>3
  <2>2. /\ DOMAIN Append(q, leaf) = 1..(Len(q) + 1) /\ DOMAIN q = 1..Len(q) /\ Len(q) \in Nat
        /\ \A i \in 1..Len(q) : Append(q, leaf)[i] = q[i]
        /\ Append(q, leaf)[Len(q) + 1] = leaf
    OBVIOUS
  <2> DEFINE r == Append(q, leaf)
  <2> HIDE DEF r
  <2>3. Range(r) = Range(q) \cup {leaf}
    <3>1. ASSUME NEW i \in DOMAIN r PROVE r[i] \in Range(q) \cup {leaf}
      BY <2>2 DEF Range, r
    <3>2. ASSUME NEW i \in DOMAIN q PROVE q[i] \in Range(r)
      BY <2>2 DEF Range, r
    <3>3. leaf \in Range(r)
      BY <2>2 DEF Range, r
    <3> QED
      BY <3>1, <3>2, <3>3 DEF Range
  <2> QED
    BY <2>1, <2>3 DEF r
<1>5. \A s \in Assets : Range(leaves'[s]) = IF s = t THEN Range(leaves[t]) \cup {leaf}
                                            ELSE Range(leaves[s])
  BY <1>2, <1>3, <1>4
<1> DEFINE ins == [s \in Assets |-> Range(leaves[s])]
<1>6. ins' = [ins EXCEPT ![t] = ins[t] \cup {<<n, b>>}]
  BY <1>1, <1>5
<1> DEFINE paid == [s \in Assets |-> shieldBuffer[s] + shielded[s]]
<1>7. paid' = [paid EXCEPT ![t] = paid[t] + bucket]
  <2>1. shieldBuffer' = [shieldBuffer EXCEPT ![t] = shieldBuffer[t] + bucket]
    BY DEF InsertNote, MoveBuffer
  <2>2. shieldBuffer \in [Assets -> Nat] /\ shielded \in [Assets -> Nat] /\ bucket \in Nat
    BY VaultAssumption DEF MoneyInv, MoneyType
  <2>3. paid[t] \in Nat /\ paid[t] = shieldBuffer[t] + shielded[t]
    BY <2>2
  <2>4. \A s \in Assets : paid'[s] = IF s = t THEN paid[t] + bucket ELSE paid[s]
    BY <1>2, <2>1, <2>2
  <2> QED
    BY <2>4
<1>8. Pool!Insert(t, n, b, bucket)
  BY <1>2, <1>6, <1>7 DEF Pool!Insert
<1> QED
  BY <1>8 DEF Pool!Next

LEMMA SpendIsSpend ==
    ASSUME TreesInv, MoneyInv, NEW t \in Assets, Spend(t)
    PROVE  Pool!Next
<1>0. PICK root, leaf : leaf \in NoteLeaves /\ DepositShieldNoteZK(t, root, leaf)
  BY DEF Spend, NoteLeaves
<1>1. PICK n \in Notes, b \in Buckets : leaf = <<n, b>>
  BY <1>0 DEF NoteLeaves
<1>2. /\ VerifyAndBurn(t, root, <<n, b>>)
      /\ nullifierSpent' = [nullifierSpent EXCEPT ![t] = nullifierSpent[t] \cup {n}]
      /\ shielded' = [shielded EXCEPT ![t] = shielded[t] + b]
      /\ leaves' = leaves
  BY <1>0, <1>1 DEF DepositShieldNoteZK, SpendAllowed
<1>3. <<n, b>> \in Range(leaves[t]) /\ n \notin nullifierSpent[t]
  BY <1>2, SpentWasInserted DEF VerifyAndBurn
<1> DEFINE paid == [s \in Assets |-> shieldBuffer[s] + shielded[s]]
<1>4. /\ shieldBuffer \in [Assets -> Nat] /\ shielded \in [Assets -> Nat] /\ b \in Nat
      /\ b <= shieldBuffer[t] /\ shieldBuffer' = [shieldBuffer EXCEPT ![t] = shieldBuffer[t] + (-b)]
  BY <1>0, <1>1, VaultAssumption
     DEF MoneyInv, MoneyType, DepositShieldNoteZK, SpendAllowed, MoveBuffer
<1>5. shielded[t] + b <= paid[t]
  BY <1>4
<1>6. paid' = paid
  BY <1>2, <1>4
<1>7. Pool!Spend(t, n, b)
  BY <1>2, <1>3, <1>5, <1>6 DEF Pool!Spend
<1> QED
  BY <1>7 DEF Pool!Next

LEMMA QuietPool ==
    ASSUME UNCHANGED <<leaves, nullifierSpent, shieldBuffer, shielded>>
    PROVE  UNCHANGED Pool!pool
BY DEF Pool!pool

LEMMA GovernancePool ==
    ASSUME Governance
    PROVE  UNCHANGED <<leaves, nullifierSpent, shieldBuffer, shielded>>
BY DEF Governance, SetAuthorized, SetWithdrawFeeBps, SetService, SetShieldPoseidon,
       SetShieldBuckets, notes

LEMMA PoolNext == VInv /\ TreesInv /\ MoneyInv /\ [Next]_vars => [Pool!Next]_(Pool!pool)
<1> SUFFICES ASSUME VInv, TreesInv, MoneyInv, [Next]_vars PROVE Pool!Next \/ UNCHANGED Pool!pool
  OBVIOUS
<1>1. ASSUME UNCHANGED <<notes, admin>> PROVE UNCHANGED Pool!pool
  BY <1>1, QuietPool DEF notes
<1> QED
  BY <1>1, NoteSteps, InsertIsInsert, SpendIsSpend, GovernancePool, QuietPool

LEMMA PoolInit == Init => Pool!Init
<1> SUFFICES ASSUME Init PROVE Pool!Init
  OBVIOUS
<1>1. Range(<< >>) = {}
  BY DEF Range
<1>2. [t \in Assets |-> shieldBuffer[t] + shielded[t]] = [t \in Assets |-> 0]
  BY DEF Init
<1> QED
  BY <1>1, <1>2 DEF Init, Pool!Init

\* Shielded payouts keep the promise of NotePool, for any depth of the tree and
\* size of the ring, any number of assets, notes and denominations, whatever
\* tree and root a spend was proved against, and whatever bucket was paid for
\* each of the notes.
THEOREM NotesAreSpentOnce == Spec => NotePoolSpec
BY PoolInit, PoolNext, TreesAlways, MoneyAlways, PTL DEF Spec, NotePoolSpec, Pool!Spec

-----------------------------------------------------------------------------
(* V.  An unspent note can be spent.                                       *)

LEMMA ModIs ==
    ASSUME NEW R \in Nat, R > 0, NEW n \in Nat
    PROVE  /\ n % R \in 0..(R - 1) /\ n \div R \in Nat
           /\ n = (n \div R) * R + (n % R)
OBVIOUS

\* Less than a whole round apart, two numbers have different places in it.
LEMMA ModApart ==
    ASSUME NEW R \in Nat, R > 0, NEW k \in Nat, NEW n \in Nat, k < n, n < k + R
    PROVE  k % R # n % R
<1> DEFINE p == k \div R  q == n \div R  r == k % R
<1> SUFFICES ASSUME n % R = r PROVE FALSE
  OBVIOUS
<1>1. /\ p \in Nat /\ q \in Nat /\ r \in Nat
      /\ k = p * R + r /\ n = q * R + r
  BY ModIs
<1> HIDE DEF p, q, r
<1>2. CASE q <= p
  <2>1. q * R <= p * R
    BY <1>1, <1>2
  <2> QED
    BY <1>1, <2>1
<1>3. CASE p + 1 <= q
  <2>1. (p + 1) * R <= q * R /\ (p + 1) * R = p * R + R
    BY <1>1, <1>3
  <2> QED
    BY <1>1, <2>1
<1> QED
  BY <1>1, <1>2, <1>3

\* The next place in the round.
LEMMA ModNext ==
    ASSUME NEW R \in Nat, R > 0, NEW n \in Nat
    PROVE  ((n % R) + 1) % R = (n + 1) % R
<1> DEFINE q == n \div R  r == n % R
<1>1. q \in Nat /\ r \in 0..(R - 1) /\ n = q * R + r
  BY ModIs
<1> HIDE DEF q, r
<1> DEFINE s == (r + 1) % R  u == (r + 1) \div R
           t == (n + 1) % R  v == (n + 1) \div R
<1>2. s \in 0..(R - 1) /\ u \in Nat /\ r + 1 = u * R + s
  BY <1>1, ModIs
<1>3. t \in 0..(R - 1) /\ v \in Nat /\ n + 1 = v * R + t
  BY <1>1, ModIs
<1> HIDE DEF s, u, t, v
<1>4. PICK w \in Nat : w = q + u
  BY <1>1, <1>2
<1>5. w * R = q * R + u * R
  BY <1>1, <1>2, <1>4
<1>6. w * R + s = v * R + t
  BY <1>1, <1>2, <1>3, <1>5
<1>7. CASE w <= v - 1
  <2>1. (w + 1) * R <= v * R /\ (w + 1) * R = w * R + R
    BY <1>3, <1>4, <1>7
  <2> QED
    BY <1>2, <1>3, <1>4, <1>6, <2>1
<1>8. CASE v <= w - 1
  <2>1. (v + 1) * R <= w * R /\ (v + 1) * R = v * R + R
    BY <1>3, <1>4, <1>8
  <2> QED
    BY <1>2, <1>3, <1>4, <1>6, <2>1
<1>9. CASE v = w
  BY <1>2, <1>3, <1>4, <1>6, <1>9 DEF s, t
<1> QED
  BY <1>3, <1>4, <1>7, <1>8, <1>9

\* The ring has the last ROOT_HISTORY roots, each in the slot of its number.
RingHolds(tree, ls) ==
    /\ tree.rootIndex = Len(ls) % ROOT_HISTORY
    /\ \A k \in 1..Len(ls) :
          k > Len(ls) - ROOT_HISTORY
             => tree.roots[k % ROOT_HISTORY] = MerkleRoot(SubSeq(ls, 1, k))

\* What each insertion is still worth.
Worth(ls, spent) ==
    [i \in 1..Len(ls) |-> IF ls[i][1] \in spent THEN 0 ELSE ls[i][2]]

\* Inductive, given TreesInv and MoneyInv: the buffer of an asset in which no
\* note was underpaid holds the worth of all insertions whose nullifier is
\* unspent, though two of them have the same.
SpendInv ==
    /\ nullifierSpent = [t \in Assets |-> nullifierSpent[t]]
    /\ \A t \in Assets : RingHolds(noteTrees[t], leaves[t])
    /\ \A t \in Assets \ underpaid :
          SumFunction(Worth(leaves[t], nullifierSpent[t])) <= shieldBuffer[t]

LEMMA RingBlank == RingHolds(BlankTree, << >>)
<1>1. ROOT_HISTORY \in Nat /\ ROOT_HISTORY > 0
  BY TreeAssumption
<1>2. 0 % ROOT_HISTORY = 0
  BY <1>1
<1>3. Len(<< >>) = 0 /\ BlankTree.rootIndex = 0
  BY DEF BlankTree
<1> QED
  BY <1>2, <1>3 DEF RingHolds

LEMMA RingWarm ==
    ASSUME NEW tree, NEW ls, TreeOf(tree, ls), RingHolds(tree, ls)
    PROVE  RingHolds(WarmTree(tree), ls)
<1>1. CASE tree.warmed
  BY <1>1 DEF WarmTree
<1>2. CASE ~tree.warmed
  <2>1. ls = << >> /\ Len(<< >>) = 0 /\ IsTree(tree)
    BY <1>2 DEF TreeOf
  <2>2. WarmTree(tree).rootIndex = tree.rootIndex
    BY <1>2, <2>1 DEF WarmTree, IsTree
  <2> QED
    BY <2>1, <2>2 DEF RingHolds
<1> QED
  BY <1>1, <1>2

LEMMA RingInsert ==
    ASSUME NEW V, NEW ls \in Seq(V), NEW leaf \in V,
           NEW tree, TreeOf(tree, ls), ~TreeFull(tree), RingHolds(tree, ls)
    PROVE  RingHolds(InsertLeaf(tree, leaf), Append(ls, leaf))
<1> DEFINE w == InsertLeaf(tree, leaf)
           more == Append(ls, leaf)
           R == ROOT_HISTORY
           n == Len(ls)
           slot == (tree.rootIndex + 1) % R
<1>1. IsTree(tree) /\ Mirrors(tree, ls) /\ n \in Nat /\ R \in Nat /\ R > 0
  BY TreeAssumption DEF TreeOf
<1>2. slot = (n + 1) % R
  BY <1>1, ModNext DEF RingHolds
<1>3. slot \in Slots
  BY <1>1, <1>2, ModIs DEF Slots
<1>4. Spine(tree, leaf)[NOTE_DEPTH] = MerkleRoot(more)
  BY <1>1, InsertRoot
<1>5. /\ w.rootIndex = slot
      /\ w.roots = [tree.roots EXCEPT ![slot] = Spine(tree, leaf)[NOTE_DEPTH]]
  BY <1>1 DEF IsTree, InsertLeaf
<1> HIDE DEF w, slot
<1>6. \A s \in Slots : w.roots[s] = IF s = slot THEN MerkleRoot(more) ELSE tree.roots[s]
  BY <1>1, <1>4, <1>5 DEF IsTree
<1>7. Len(more) = n + 1 /\ SubSeq(more, 1, n + 1) = more
  OBVIOUS
<1>8. ASSUME NEW k \in 1..n PROVE SubSeq(more, 1, k) = SubSeq(ls, 1, k)
  OBVIOUS
<1>9. ASSUME NEW k \in 1..(n + 1), k > (n + 1) - R
      PROVE  w.roots[k % R] = MerkleRoot(SubSeq(more, 1, k))
  <2>1. CASE k = n + 1
    BY <1>2, <1>3, <1>6, <1>7, <2>1
  <2>2. CASE k # n + 1
    <3>1. k \in 1..n /\ k \in Nat /\ n + 1 \in Nat /\ k < n + 1 /\ n + 1 < k + R /\ k > n - R
      BY <1>1, <1>9, <2>2
    <3>2. k % R # slot
      BY <1>1, <1>2, <3>1, ModApart
    <3>3. k % R \in Slots
      BY <1>1, <3>1, ModIs DEF Slots
    <3>4. tree.roots[k % R] = MerkleRoot(SubSeq(ls, 1, k))
      BY <3>1 DEF RingHolds
    <3> QED
      BY <1>6, <1>8, <3>1, <3>2, <3>3, <3>4
  <2> QED
    BY <2>1, <2>2
<1> HIDE DEF more
<1>10. RingHolds(w, more)
  BY <1>2, <1>5, <1>7, <1>9 DEF RingHolds
<1> QED
  BY <1>10 DEF w, more

LEMMA WorthType ==
    ASSUME NEW ls \in Seq(NoteLeaves), NEW spent
    PROVE  /\ Worth(ls, spent) \in [1..Len(ls) -> Nat]
           /\ Worth(ls, spent) \in [1..Len(ls) -> Int]
           /\ IsFiniteSet(1..Len(ls)) /\ Len(ls) \in Nat
           /\ SumFunction(Worth(ls, spent)) \in Nat
<1>1. Len(ls) \in Nat /\ 1 \in Int /\ Len(ls) \in Int
  OBVIOUS
<1>2. IsFiniteSet(1..Len(ls))
  BY <1>1, FS_Interval
<1>3. ASSUME NEW i \in 1..Len(ls) PROVE ls[i][2] \in Nat
  <2>1. ls[i] \in NoteLeaves
    OBVIOUS
  <2> QED
    BY <2>1, VaultAssumption DEF NoteLeaves
<1>4. Worth(ls, spent) \in [1..Len(ls) -> Nat]
  BY <1>3 DEF Worth
<1>5. Worth(ls, spent) \in [1..Len(ls) -> Int]
  BY <1>4
<1>6. SumFunction(Worth(ls, spent)) \in Nat
  BY <1>2, <1>4, SumBounds
<1> QED
  BY <1>1, <1>2, <1>4, <1>5, <1>6

\* An insertion adds its bucket, or nothing if its nullifier is spent already.
LEMMA WorthInserted ==
    ASSUME NEW ls \in Seq(NoteLeaves), NEW leaf \in NoteLeaves, NEW spent
    PROVE  SumFunction(Worth(Append(ls, leaf), spent))
              <= SumFunction(Worth(ls, spent)) + leaf[2]
<1> DEFINE more == Append(ls, leaf)
           f == Worth(ls, spent)
           g == Worth(more, spent)
           n == Len(ls)
<1>1. more \in Seq(NoteLeaves) /\ Len(more) = n + 1 /\ n \in Nat
      /\ more[n + 1] = leaf /\ \A i \in 1..n : more[i] = ls[i]
  OBVIOUS
<1> HIDE DEF more
<1>2. g \in [1..(n + 1) -> Int] /\ f \in [1..n -> Int] /\ IsFiniteSet(1..n)
      /\ SumFunction(f) \in Nat
  BY <1>1, WorthType
<1>3. 1..(n + 1) = (1..n) \cup {n + 1} /\ n + 1 \notin 1..n
  BY <1>1
<1>4. \A i \in 1..n : g[i] = f[i]
  BY <1>1 DEF Worth
<1>5. leaf[2] \in Nat
  BY VaultAssumption DEF NoteLeaves
<1>6. n + 1 \in 1..(n + 1) /\ g[n + 1] = IF leaf[1] \in spent THEN 0 ELSE leaf[2]
  BY <1>1 DEF Worth
<1>7. g[n + 1] \in Int /\ g[n + 1] <= leaf[2]
  BY <1>5, <1>6
<1> HIDE DEF f, g, n
<1>8. SumFunction(g) = SumFunction(f) + g[n + 1]
  <2> PICK D, x, E : D = 1..n /\ x = n + 1 /\ E = 1..(n + 1)
    OBVIOUS
  <2>1. Widened(D, f, x, E, g)
    BY <1>2, <1>3, <1>4 DEF Widened
  <2>2. SumFunction(g) = SumFunction(f) + g[x]
    BY <2>1, SumGrows
  <2> QED
    BY <2>2
<1>9. SumFunction(g) <= SumFunction(f) + leaf[2]
  BY <1>2, <1>5, <1>7, <1>8
<1> QED
  BY <1>9 DEF f, g, more

\* A spend takes at least its bucket: the note it spends was worth it.
LEMMA WorthSpent ==
    ASSUME NEW ls \in Seq(NoteLeaves), NEW leaf \in Range(ls), NEW spent, leaf[1] \notin spent
    PROVE  SumFunction(Worth(ls, spent \cup {leaf[1]})) + leaf[2]
              <= SumFunction(Worth(ls, spent))
<1> DEFINE after == spent \cup {leaf[1]}
           f == Worth(ls, after)
           g == Worth(ls, spent)
           D == 1..Len(ls)
<1>1. f \in [D -> Int] /\ g \in [D -> Int] /\ g \in [D -> Nat] /\ IsFiniteSet(D)
  BY WorthType
<1>2. DOMAIN ls = D
  OBVIOUS
<1>3. PICK i \in D : ls[i] = leaf
  BY <1>2 DEF Range
<1>4. leaf \in NoteLeaves
  BY <1>3
<1>5. leaf[2] \in Int
  <2>1. Buckets \subseteq Nat
    BY VaultAssumption
  <2> HIDE DEF f, g, D, after
  <2>2. PICK x \in Notes, b \in Buckets : leaf = <<x, b>>
    BY <1>4 DEF NoteLeaves
  <2>3. leaf[2] = b
    BY <2>2
  <2>4. b \in Int
    BY <2>1
  <2> QED
    BY <2>3, <2>4
<1>6. f[i] = 0 /\ g[i] = leaf[2]
  BY <1>3 DEF Worth
<1>7. \A j \in D : f[j] = 0 \/ f[j] = g[j]
  BY DEF Worth
<1> HIDE DEF f, g, D
<1>8. \A j \in D : f[j] <= g[j]
  BY <1>1, <1>7
<1>9. f[i] + leaf[2] <= g[i]
  BY <1>5, <1>6
<1>10. SumFunction(f) + leaf[2] <= SumFunction(g)
  BY <1>1, <1>5, <1>8, <1>9, SumDrops
<1> QED
  BY <1>10 DEF f, g

\* What one asset's pool is, to tell when it has not changed.
PoolOf(t) == <<noteTrees[t], leaves[t], nullifierSpent[t], shieldBuffer[t]>>

Paying(tree, ls, spent, buffer, full) ==
    RingHolds(tree, ls) /\ (full => SumFunction(Worth(ls, spent)) <= buffer)

LEMMA PayChange ==
    ASSUME SpendInv, nullifierSpent' = [t \in Assets |-> nullifierSpent'[t]], NEW t,
           \A s \in Assets \ {t} : PoolOf(s)' = PoolOf(s), underpaid \subseteq underpaid',
           t \in Assets =>
              Paying(noteTrees'[t], leaves'[t], nullifierSpent'[t], shieldBuffer'[t],
                     t \notin underpaid')
    PROVE  SpendInv'
<1>1. ASSUME NEW s \in Assets
      PROVE  Paying(noteTrees'[s], leaves'[s], nullifierSpent'[s], shieldBuffer'[s],
                    s \notin underpaid')
  <2>1. CASE s # t
    <3>1. /\ noteTrees'[s] = noteTrees[s] /\ leaves'[s] = leaves[s]
          /\ nullifierSpent'[s] = nullifierSpent[s] /\ shieldBuffer'[s] = shieldBuffer[s]
      BY <2>1 DEF PoolOf
    <3>2. Paying(noteTrees[s], leaves[s], nullifierSpent[s], shieldBuffer[s], s \notin underpaid')
      BY DEF SpendInv, Paying
    <3> QED
      BY <3>1, <3>2
  <2>2. CASE s = t
    BY <2>2
  <2> QED
    BY <2>1, <2>2
<1>2. \A s \in Assets : RingHolds(noteTrees[s], leaves[s])'
  BY <1>1 DEF Paying, RingHolds
<1>3. \A s \in Assets \ underpaid' :
         (SumFunction(Worth(leaves[s], nullifierSpent[s])) <= shieldBuffer[s])'
  BY <1>1 DEF Paying
<1> QED
  BY <1>2, <1>3 DEF SpendInv

LEMMA InsertPays ==
    ASSUME SpendInv, TreesInv, MoneyInv, NEW a, NEW t \in Assets, NEW bucket \in Buckets,
           NEW leaf \in NoteLeaves, InsertNote(a, t, bucket, leaf)
    PROVE  SpendInv'
<1>1. /\ ~TreeFull(noteTrees[t])
      /\ noteTrees' = [noteTrees EXCEPT ![t] = InsertLeaf(noteTrees[t], leaf)]
      /\ leaves' = [leaves EXCEPT ![t] = Append(leaves[t], leaf)]
      /\ shieldBuffer' = [shieldBuffer EXCEPT ![t] = shieldBuffer[t] + bucket]
      /\ nullifierSpent' = nullifierSpent
      /\ underpaid \subseteq underpaid' /\ (leaf[2] > bucket => t \in underpaid')
  BY DEF InsertNote, MoveBuffer
<1>2. /\ noteTrees = [s \in Assets |-> noteTrees[s]] /\ leaves \in [Assets -> Seq(NoteLeaves)]
      /\ shieldBuffer \in [Assets -> Nat] /\ TreeOf(noteTrees[t], leaves[t])
  BY DEF TreesInv, MoneyInv, MoneyType
<1>3. \A s \in Assets \ {t} : PoolOf(s)' = PoolOf(s)
  BY <1>1, <1>2 DEF PoolOf
<1>4. PICK tree, ls, spent, buffer : /\ tree = noteTrees[t] /\ ls = leaves[t]
                                     /\ spent = nullifierSpent[t] /\ buffer = shieldBuffer[t]
  OBVIOUS
<1>5. /\ noteTrees'[t] = InsertLeaf(tree, leaf) /\ leaves'[t] = Append(ls, leaf)
      /\ nullifierSpent'[t] = spent /\ shieldBuffer'[t] = buffer + bucket
  BY <1>1, <1>2, <1>4
<1>6. ls \in Seq(NoteLeaves) /\ TreeOf(tree, ls) /\ ~TreeFull(tree) /\ RingHolds(tree, ls)
      /\ buffer \in Nat /\ (t \notin underpaid' => SumFunction(Worth(ls, spent)) <= buffer)
  BY <1>1, <1>2, <1>4 DEF SpendInv
<1>7. RingHolds(InsertLeaf(tree, leaf), Append(ls, leaf))
  BY <1>6, RingInsert
<1>8. ASSUME t \notin underpaid'
      PROVE  SumFunction(Worth(Append(ls, leaf), spent)) <= buffer + bucket
  <2>1. SumFunction(Worth(Append(ls, leaf), spent)) <= SumFunction(Worth(ls, spent)) + leaf[2]
    BY <1>6, WorthInserted
  <2>2. Append(ls, leaf) \in Seq(NoteLeaves)
    BY <1>6
  <2>3. /\ SumFunction(Worth(ls, spent)) \in Nat
        /\ SumFunction(Worth(Append(ls, leaf), spent)) \in Nat
    BY <1>6, <2>2, WorthType
  <2>4. leaf[2] \in Nat /\ bucket \in Nat
    BY VaultAssumption DEF NoteLeaves
  <2>5. leaf[2] <= bucket
    BY <1>1, <1>8, <2>4
  <2> QED
    BY <1>6, <1>8, <2>1, <2>3, <2>4, <2>5
<1>9. Paying(noteTrees'[t], leaves'[t], nullifierSpent'[t], shieldBuffer'[t], t \notin underpaid')
  BY <1>5, <1>7, <1>8 DEF Paying
<1>10. nullifierSpent' = [s \in Assets |-> nullifierSpent'[s]]
  BY <1>1 DEF SpendInv
<1> QED
  BY <1>1, <1>3, <1>9, <1>10, PayChange

LEMMA SpendPays ==
    ASSUME SpendInv, TreesInv, MoneyInv, NEW t \in Assets, Spend(t)
    PROVE  SpendInv'
<1>1. PICK root, leaf : leaf \in NoteLeaves /\ DepositShieldNoteZK(t, root, leaf)
  BY DEF Spend, NoteLeaves
<1>2. /\ VerifyAndBurn(t, root, leaf)
      /\ nullifierSpent' = [nullifierSpent EXCEPT ![t] = nullifierSpent[t] \cup {leaf[1]}]
      /\ shieldBuffer' = [shieldBuffer EXCEPT ![t] = shieldBuffer[t] + (-leaf[2])]
      /\ noteTrees' = noteTrees /\ leaves' = leaves /\ underpaid' = underpaid
  BY <1>1 DEF DepositShieldNoteZK, SpendAllowed, MoveBuffer
<1>3. leaf \in Range(leaves[t]) /\ leaf[1] \notin nullifierSpent[t]
  BY <1>2, SpentWasInserted DEF VerifyAndBurn
<1>4. /\ leaves \in [Assets -> Seq(NoteLeaves)] /\ shieldBuffer \in [Assets -> Nat]
      /\ nullifierSpent = [s \in Assets |-> nullifierSpent[s]]
  BY DEF TreesInv, MoneyInv, MoneyType, SpendInv
<1>5. \A s \in Assets \ {t} : PoolOf(s)' = PoolOf(s)
  BY <1>2, <1>4 DEF PoolOf
<1>6. PICK ls, spent, buffer : /\ ls = leaves[t] /\ spent = nullifierSpent[t]
                               /\ buffer = shieldBuffer[t]
  OBVIOUS
<1>7. /\ noteTrees'[t] = noteTrees[t] /\ leaves'[t] = ls
      /\ nullifierSpent'[t] = spent \cup {leaf[1]} /\ shieldBuffer'[t] = buffer + (-leaf[2])
  BY <1>2, <1>4, <1>6
<1>8. /\ ls \in Seq(NoteLeaves) /\ buffer \in Nat /\ leaf \in Range(ls) /\ leaf[1] \notin spent
      /\ RingHolds(noteTrees[t], ls)
      /\ (t \notin underpaid => SumFunction(Worth(ls, spent)) <= buffer)
  BY <1>3, <1>4, <1>6 DEF SpendInv
<1>9. ASSUME t \notin underpaid
      PROVE  SumFunction(Worth(ls, spent \cup {leaf[1]})) <= buffer + (-leaf[2])
  <2>1. SumFunction(Worth(ls, spent \cup {leaf[1]})) + leaf[2] <= SumFunction(Worth(ls, spent))
    BY <1>8, WorthSpent
  <2>2. /\ SumFunction(Worth(ls, spent)) \in Nat
        /\ SumFunction(Worth(ls, spent \cup {leaf[1]})) \in Nat
    BY <1>8, WorthType
  <2>3. leaf[2] \in Nat
    BY <1>1, VaultAssumption DEF NoteLeaves
  <2> QED
    BY <1>8, <1>9, <2>1, <2>2, <2>3
<1>10. Paying(noteTrees'[t], leaves'[t], nullifierSpent'[t], shieldBuffer'[t], t \notin underpaid')
  BY <1>2, <1>7, <1>8, <1>9 DEF Paying
<1>11. nullifierSpent' = [s \in Assets |-> nullifierSpent'[s]]
  BY <1>2, <1>4
<1> QED
  BY <1>2, <1>5, <1>10, <1>11, PayChange

LEMMA WarmPays ==
    ASSUME SpendInv, TreesInv, NEW t \in Assets,
           noteTrees' = [noteTrees EXCEPT ![t] = WarmTree(noteTrees[t])],
           UNCHANGED <<leaves, nullifierSpent, shieldBuffer, underpaid>>
    PROVE  SpendInv'
<1>1. noteTrees = [s \in Assets |-> noteTrees[s]]
  BY DEF TreesInv
<1>2. \A s \in Assets \ {t} : PoolOf(s)' = PoolOf(s)
  BY <1>1 DEF PoolOf
<1>3. RingHolds(WarmTree(noteTrees[t]), leaves[t])
  BY RingWarm DEF SpendInv, TreesInv
<1>4. noteTrees'[t] = WarmTree(noteTrees[t])
  BY <1>1
<1>5. Paying(noteTrees'[t], leaves'[t], nullifierSpent'[t], shieldBuffer'[t], t \notin underpaid')
  BY <1>3, <1>4 DEF Paying, SpendInv
<1> QED
  BY <1>2, <1>5, PayChange DEF SpendInv

LEMMA SamePays ==
    ASSUME SpendInv, UNCHANGED <<noteTrees, leaves, nullifierSpent, shieldBuffer, underpaid>>
    PROVE  SpendInv'
<1>1. \A s \in Assets : PoolOf(s)' = PoolOf(s)
  BY DEF PoolOf
<1>2. Native \in Assets
  BY DEF Assets
<1>3. Paying(noteTrees'[Native], leaves'[Native], nullifierSpent'[Native], shieldBuffer'[Native],
             Native \notin underpaid')
  BY <1>2 DEF SpendInv, Paying
<1> QED
  BY <1>1, <1>3, PayChange DEF SpendInv

LEMMA NextSpendInv == VInv /\ TreesInv /\ MoneyInv /\ SpendInv /\ [Next]_vars => SpendInv'
<1> SUFFICES ASSUME VInv, TreesInv, MoneyInv, SpendInv, [Next]_vars PROVE SpendInv'
  OBVIOUS
<1>1. ASSUME UNCHANGED <<notes, admin>> PROVE SpendInv'
  BY <1>1, SamePays DEF notes
<1>2. ASSUME Governance PROVE SpendInv'
  <2>1. CASE SetShieldPoseidon
    BY <2>1, WarmPays DEF SetShieldPoseidon, Assets
  <2>2. ASSUME NEW t \in Assets, NEW ladder, SetShieldBuckets(t, ladder) PROVE SpendInv'
    BY <2>2, WarmPays, SamePays DEF SetShieldBuckets
  <2>3. CASE SetAuthorized \/ (\E bps : SetWithdrawFeeBps(bps)) \/ (\E s : SetService(s))
    BY <2>3, SamePays DEF SetAuthorized, SetWithdrawFeeBps, SetService, notes
  <2> QED
    BY <1>2, <2>1, <2>2, <2>3 DEF Governance
<1> QED
  BY <1>1, <1>2, NoteSteps, InsertPays, SpendPays

LEMMA InitSpendInv == Init => SpendInv
<1> SUFFICES ASSUME Init PROVE SpendInv
  OBVIOUS
<1>1. \A t \in Assets : /\ noteTrees[t] = BlankTree /\ leaves[t] = << >>
                        /\ nullifierSpent[t] = {} /\ shieldBuffer[t] = 0
  BY DEF Init
<1>2. SumFunction(Worth(<< >>, {})) = 0
  <2>1. << >> \in Seq(NoteLeaves) /\ 1..Len(<< >>) = {}
    OBVIOUS
  <2>2. Worth(<< >>, {}) \in [1..Len(<< >>) -> Int] /\ IsFiniteSet(1..Len(<< >>))
    BY <2>1, WorthType
  <2>3. \A i \in 1..Len(<< >>) : Worth(<< >>, {})[i] = 0
    BY <2>1
  <2> QED
    BY <2>2, <2>3, SumZero
<1>3. nullifierSpent = [t \in Assets |-> nullifierSpent[t]]
  BY DEF Init
<1>4. ASSUME NEW t \in Assets
      PROVE  SumFunction(Worth(leaves[t], nullifierSpent[t])) <= shieldBuffer[t]
  <2>1. Worth(leaves[t], nullifierSpent[t]) = Worth(<< >>, {})
    BY <1>1
  <2>2. SumFunction(Worth(leaves[t], nullifierSpent[t])) = 0 /\ shieldBuffer[t] = 0
    BY <1>1, <1>2, <2>1
  <2> QED
    BY <2>2
<1>5. \A t \in Assets : RingHolds(noteTrees[t], leaves[t])
  BY <1>1, RingBlank
<1> QED
  BY <1>3, <1>4, <1>5 DEF SpendInv

\* The root of a tree with leaves is a hash.
LEMMA RootIsHash ==
    ASSUME NEW ls, Len(ls) \in Nat, Len(ls) > 0
    PROVE  \E x, y : MerkleRoot(ls) = Hash(x, y)
<1>1. NOTE_DEPTH \in 0..NOTE_DEPTH /\ NOTE_DEPTH # 0 /\ 0 \in Nat /\ 2^NOTE_DEPTH \in Nat
  <2>1. NOTE_DEPTH \in Nat /\ NOTE_DEPTH # 0
    BY TreeAssumption
  <2>2. 2^NOTE_DEPTH \in Nat
    BY <2>1, PowNat
  <2> QED
    BY <2>1, <2>2
<1>2. Nodes(ls)[NOTE_DEPTH][0] = NodeAt(Nodes(ls)[NOTE_DEPTH - 1], ls, NOTE_DEPTH, 0)
  BY <1>1, NodeValues
<1>3. ~(0 * 2^NOTE_DEPTH >= Len(ls))
  BY <1>1
<1> QED
  BY <1>1, <1>2, <1>3, RootIsNode DEF NodeAt

\* Poseidon of nothing is the field element 0, which the vault takes for "no root".
ZeroIsNoHash == \A x, y : Hash(x, y) # Zero

LEMMA SpendIsAllowed ==
    ASSUME ZeroIsNoHash, TreesInv, MoneyInv, SpendInv, NEW t \in Assets \ underpaid,
           NEW leaf \in UnspentNotes(t),
           {"verifier", "pool"} \subseteq services, t # Native => t \in services,
           leaf[2] \in shieldBuckets[t],
           NEW k \in 1..Len(leaves[t]), k > Len(leaves[t]) - ROOT_HISTORY,
           leaf \in Range(SubSeq(leaves[t], 1, k))
    PROVE  SpendAllowed(t, MerkleRoot(SubSeq(leaves[t], 1, k)), leaf)
<1>1. PICK ls : ls = leaves[t]
  OBVIOUS
<1> DEFINE seen == SubSeq(ls, 1, k)
           root == MerkleRoot(seen)
<1>2. ls \in Seq(NoteLeaves) /\ Len(ls) \in Nat /\ k \in 1..Len(ls) /\ Len(seen) = k
  BY <1>1 DEF TreesInv
<1>3. root # Zero
  <2>1. Len(seen) \in Nat /\ Len(seen) > 0
    BY <1>2
  <2> HIDE DEF seen
  <2> QED
    BY <2>1, RootIsHash DEF ZeroIsNoHash
<1>4. k % ROOT_HISTORY \in Slots /\ noteTrees[t].roots[k % ROOT_HISTORY] = root
  <2>1. k \in Nat /\ ROOT_HISTORY \in Nat /\ ROOT_HISTORY > 0
    BY <1>2, TreeAssumption
  <2>2. k % ROOT_HISTORY \in Slots
    BY <2>1, ModIs DEF Slots
  <2>3. RingHolds(noteTrees[t], ls)
    BY <1>1 DEF SpendInv
  <2> QED
    BY <1>1, <1>2, <2>2, <2>3 DEF RingHolds
<1>5. noteTrees[t].nextIndex # 0
  BY <1>1, <1>2 DEF TreesInv, TreeOf, Mirrors
<1>6. IsKnownNoteRoot(noteTrees[t], root)
  BY <1>3, <1>4, <1>5 DEF IsKnownNoteRoot
<1>7. leaf \in Range(ls) /\ leaf[1] \notin nullifierSpent[t]
  BY <1>1 DEF UnspentNotes
<1>8. leaf[2] <= shieldBuffer[t]
  <2> DEFINE f == Worth(ls, nullifierSpent[t])
  <2>1. DOMAIN ls = 1..Len(ls)
    BY <1>2
  <2>2. PICK i \in 1..Len(ls) : ls[i] = leaf
    BY <1>7, <2>1 DEF Range
  <2>3. f \in [1..Len(ls) -> Nat] /\ IsFiniteSet(1..Len(ls))
    BY <1>2, WorthType
  <2>4. f[i] = leaf[2]
    BY <1>7, <2>2 DEF Worth
  <2>5. SumFunction(f) <= shieldBuffer[t]
    BY <1>1 DEF SpendInv
  <2>6. shieldBuffer[t] \in Nat
    BY DEF MoneyInv, MoneyType
  <2> HIDE DEF f
  <2>7. SumFunction(f) \in Nat /\ f[i] <= SumFunction(f) /\ f[i] \in Nat
    BY <2>3, SumBounds
  <2> QED
    BY <2>4, <2>5, <2>6, <2>7
<1>9. leaf[2] <= owned[t]
  <2> DEFINE b == SumFunction(balanceOf[t])
             d == SumFunction(pendingPaseoDust)
  <2>1. /\ balanceOf[t] \in [Accounts -> Nat] /\ pendingPaseoDust \in [Accounts -> Nat]
        /\ shieldBuffer[t] \in Nat /\ IsFiniteSet(Accounts)
    BY VaultAssumption DEF MoneyInv, MoneyType
  <2>2. b \in Nat /\ d \in Nat
    BY <2>1, SumBounds
  <2>3. owned[t] = b + shieldBuffer[t] + (IF t = Native THEN d ELSE 0)
    BY DEF MoneyInv, Solvency
  <2>4. leaf[2] \in Nat
    BY DEF MoneyInv, MoneyType
  <2> HIDE DEF b, d
  <2> QED
    BY <1>8, <2>1, <2>2, <2>3, <2>4
<1>10. Provable(root, leaf)
  BY <1>1 DEF Provable
<1>11. VerifyAndBurn(t, root, leaf)
  BY <1>6, <1>7, <1>10 DEF VerifyAndBurn
<1>12. SpendAllowed(t, root, leaf)
  BY <1>8, <1>9, <1>11 DEF SpendAllowed
<1> QED
  BY <1>1, <1>12

\* As long as the services are up and its denomination is on the ladder, every
\* unspent note of an asset whose depositors paid what they committed to can be
\* spent with a proof made at any of the last ROOT_HISTORY roots, for any ring,
\* ladder, number of assets and notes, whatever was spent or repeated in between,
\* and underpaid in another asset: no require of the spend fails for it.
THEOREM UnspentNotesArePaid ==
    ASSUME ZeroIsNoHash
    PROVE  Spec => []NotesSpendable
<1>1. TreesInv /\ MoneyInv /\ SpendInv => NotesSpendable
  BY SpendIsAllowed DEF NotesSpendable
<1>2. Spec => [](VInv /\ TreesInv /\ MoneyInv /\ SpendInv)
  BY InitVInv, NextVInv, InitTreesInv, NextTreesInv, InitMoneyInv, NextMoneyInv,
     InitSpendInv, NextSpendInv, PTL DEF Spec
<1> QED
  BY <1>1, <1>2, PTL
=============================================================================
