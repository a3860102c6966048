------------------------------- MODULE Relay -------------------------------
(***************************************************************************)
(* The venue relay, src/venue-node/relay.mjs: one process that pays the    *)
(* gas of many users from one account.                                     *)
(*                                                                         *)
(* Its handlers interleave at every await.  What they share: the chain of  *)
(* sends and the counter that numbers them, the subsidy budget, and the    *)
(* tables of addresses being funded and already onboarded.  An action runs *)
(* from one await to the next; consecutive reads of the blockchain are one *)
(* step, since nothing constrains what they answer.                        *)
(***************************************************************************)
EXTENDS Naturals, Sequences, FiniteSets, Functions

CONSTANTS
    Requests,     \* requests that may arrive
    Ticks,        \* runs of feeRecoveryTick that may start
    Addresses,    \* whom /fund and /onboard are asked for
    Costs,        \* what a call may be estimated to cost
    FUND_AMOUNT, ONBOARD_SEED, GAS_BUDGET,
    PROFIT_GUARD,
    MaxWindows,   \* bound on how often the budget window elapses
    Null

ASSUME RelayAssumption ==
    /\ Requests \cap Ticks = {}
    /\ IsFiniteSet(Requests) /\ IsFiniteSet(Ticks)
    /\ Costs \subseteq Nat
    /\ FUND_AMOUNT \in Nat /\ ONBOARD_SEED \in Nat /\ GAS_BUDGET \in Nat
    /\ PROFIT_GUARD \in BOOLEAN
    /\ MaxWindows \in Nat
    /\ Null \notin Nat

VARIABLES
    req,          \* request -> where its handler is
    fundInFlight, \* addresses with a funding under way
    onboarded,    \* addresses seeded by this process
    budget,       \* what the current window has spent, and which window it is
    elapsed,      \* the current window is over, but nobody looked yet
    chain,        \* jobs passed to serialize and not yet settled
    nextNonce,    \* Null: to be read again
    strayed,      \* history: a send since then was not numbered by nextNonce
    pool,         \* numbers of the transactions the node accepted
    mined         \* transactions in blocks: the numbers below this

Handlers == Requests \cup Ticks

vars == <<req, fundInFlight, onboarded, budget, elapsed, chain, nextNonce, strayed,
          pool, mined>>
desk == <<fundInFlight, onboarded>>
purse == <<budget, elapsed>>
node == <<pool, mined>>
sends == <<chain, nextNonce, strayed, node>>

(***************************************************************************)
(* sponsored: /forward, /commit-bid, /shield-note, /shield-note-spend,     *)
(*   confirmPickup                                                         *)
(* awaited: /shield-withdraw in sponsor mode, which waits for the receipt  *)
(* unbudgeted: confirmDropoffZK and /withdraw, whose reward must cover the *)
(*   cost, and /revoke-bid                                                 *)
(* shield: /shield-withdraw in fee mode, two sends                         *)
(* recovery: a tick, which sweeps and swaps                                *)
(***************************************************************************)
Kinds == {"fund", "onboard", "sponsored", "awaited", "unbudgeted", "shield"}
Budgeted == {"fund", "onboard", "sponsored", "awaited"}

Pcs == {"idle", "joined", "reading", "queued", "numbered", "confirming", "answered"}

Request == [kind : Kinds \cup {"recovery", Null}, address : Addresses \cup {Null}, pc : Pcs,
            stage : 1..2, hold : Nat, window : Nat, nonce : Nat \cup {Null}]

NoRequest == [kind |-> Null, address |-> Null, pc |-> "idle", stage |-> 1, hold |-> 0,
              window |-> 0, nonce |-> Null]

Init ==
    /\ req = [r \in Handlers |-> NoRequest]
    /\ fundInFlight = {} /\ onboarded = {}
    /\ budget = [spent |-> 0, start |-> 0] /\ elapsed = FALSE
    /\ chain = <<>> /\ nextNonce = Null /\ strayed = FALSE
    /\ pool = {} /\ mined = 0

-----------------------------------------------------------------------------
(* Answering.                                                              *)

\* The handler of r ends in state q.  Whoever joined r's funding is answered
\* with it, and the address is free for another.
Finish(r, q) ==
    LET ends(s) == q.kind = "fund" /\ req[s].pc = "joined" /\ req[s].address = q.address
    IN /\ req' = [s \in Handlers |->
                    IF s = r THEN [q EXCEPT !.pc = "answered"]
                    ELSE IF ends(s) THEN [req[s] EXCEPT !.pc = "answered"] ELSE req[s]]
       /\ fundInFlight' = IF q.kind = "fund" THEN fundInFlight \ {q.address}
                                             ELSE fundInFlight

Go(r, q) == req' = [req EXCEPT ![r] = q] /\ UNCHANGED fundInFlight

-----------------------------------------------------------------------------
(* Arrival, and the decision whether to pay.                               *)

\* Mutant: every funding request does its own work.
Joins_Never(a) == FALSE
Joins(a) == a \in fundInFlight

Arrive(r, kind, a) ==
    /\ req[r].pc = "idle"
    /\ (kind \in {"fund", "onboard"}) = (a # Null)
    /\ LET q(pc) == [NoRequest EXCEPT !.kind = kind, !.address = a, !.pc = pc] IN
       CASE kind = "fund" ->
              /\ req' = [req EXCEPT ![r] = q(IF Joins(a) THEN "joined" ELSE "reading")]
              /\ fundInFlight' = fundInFlight \cup {a}
         [] kind = "onboard" /\ a \in onboarded -> Go(r, q("answered"))
         [] OTHER -> Go(r, q("reading"))
    /\ UNCHANGED <<onboarded, purse, sends>>

StartTick(r) ==
    /\ req[r].pc = "idle"
    /\ Go(r, [NoRequest EXCEPT !.kind = "recovery", !.pc = "reading"])
    /\ UNCHANGED <<onboarded, purse, sends>>

\* What was read says no, or could not be read: answered without a send.
GiveUp(r) ==
    /\ req[r].pc = "reading"
    /\ Finish(r, req[r])
    /\ UNCHANGED <<onboarded, purse, sends>>

Gift(kind) == CASE kind = "fund" -> FUND_AMOUNT
                [] kind = "onboard" -> ONBOARD_SEED
                [] OTHER -> 0

\* windowSpent: whoever looks first after the window is over opens the next.
Window == IF elapsed THEN [spent |-> 0, start |-> budget.start + 1] ELSE budget

WithinBudget(wei) == Window.spent + wei <= GAS_BUDGET

\* reserveBudget, and the job handed to serialize, between two awaits.
Reserve(r) ==
    /\ req[r].pc = "reading" /\ req[r].kind \in Budgeted
    /\ \E cost \in Costs :
          LET wei == cost + Gift(req[r].kind) IN
          IF PROFIT_GUARD /\ ~WithinBudget(wei)
            THEN /\ Finish(r, req[r])
                 /\ budget' = Window
                 /\ UNCHANGED chain
            ELSE /\ Go(r, [req[r] EXCEPT !.pc = "queued", !.hold = wei,
                                         !.window = Window.start])
                 /\ budget' = [Window EXCEPT !.spent = @ + wei]
                 /\ chain' = Append(chain, r)
    /\ elapsed' = FALSE
    /\ UNCHANGED <<onboarded, nextNonce, strayed, node>>

\* The reward covers the cost, or none is asked for.  A tick that finds nothing
\* to sweep goes on to the swap.
Queue(r) ==
    /\ req[r].pc = "reading" /\ req[r].kind \notin Budgeted
    /\ \E stage \in IF req[r].kind = "recovery" THEN req[r].stage..2 ELSE {1} :
          Go(r, [req[r] EXCEPT !.pc = "queued", !.stage = stage])
    /\ chain' = Append(chain, r)
    /\ UNCHANGED <<onboarded, purse, nextNonce, strayed, node>>

-----------------------------------------------------------------------------
(* The chain of sends.                                                     *)

Serving(r) == chain # <<>> /\ Head(chain) = r

Swapping(r) == req[r].kind = "recovery" /\ req[r].stage = 2

\* Mutant: what is submitted but not mined is not counted.
PendingCount_Latest == mined
\* getTransactionCount(relay, "pending"): the first number that is free.
PendingCount ==
    CHOOSE n \in {0} \cup {m + 1 : m \in pool} :
        n \notin pool /\ \A m \in 0..n : m \in pool \/ m = n

\* allocNonce; executeRecoverySwap leaves the numbering to the signer.
Number(r) ==
    /\ Serving(r) /\ req[r].pc = "queued"
    /\ LET n == IF nextNonce = Null \/ Swapping(r) THEN PendingCount ELSE nextNonce IN
       /\ Go(r, [req[r] EXCEPT !.pc = "numbered", !.nonce = n])
       /\ nextNonce' = IF Swapping(r) THEN nextNonce ELSE n + 1
    /\ UNCHANGED <<onboarded, purse, chain, strayed, node>>

Accepted(r) ==
    /\ Serving(r) /\ req[r].pc = "numbered"
    /\ req[r].nonce \notin pool
    /\ pool' = pool \cup {req[r].nonce}
    /\ UNCHANGED mined

AwaitsReceipt(q) == q.kind \in {"recovery", "awaited"} \/ (q.kind = "shield" /\ q.stage = 1)

\* The node has the transaction and the handler knows.  A recovery job waits
\* for its receipt inside the chain; a shielded withdrawal waits outside.
Accept(r) ==
    /\ Accepted(r)
    /\ strayed' = (strayed \/ (Swapping(r) /\ nextNonce # Null))
    /\ chain' = IF req[r].kind = "recovery" THEN chain ELSE Tail(chain)
    /\ IF AwaitsReceipt(req[r])
         THEN Go(r, [req[r] EXCEPT !.pc = "confirming"])
         ELSE Finish(r, req[r])
    /\ onboarded' = IF req[r].kind = "onboard" THEN onboarded \cup {req[r].address}
                                               ELSE onboarded
    /\ UNCHANGED <<purse, nextNonce>>

\* Mutant: what a window lends is returned to whichever window is open.
Released_Any(q) == IF budget.spent < q.hold THEN 0 ELSE budget.spent - q.hold
Released(q) ==
    IF budget.start # q.window THEN budget.spent
    ELSE IF budget.spent < q.hold THEN 0 ELSE budget.spent - q.hold

\* Mutant: a failed send keeps its number.
Resynced_Kept == nextNonce
Resynced == Null

\* The job throws: the chain goes on, the counter is dropped, the hold is
\* released, and the handler or the tick ends with the error.
Throw(r, q) ==
    /\ chain' = Tail(chain)
    /\ nextNonce' = Resynced
    /\ strayed' = FALSE
    /\ budget' = [budget EXCEPT !.spent = Released(q)]
    /\ Finish(r, [q EXCEPT !.hold = 0])
    /\ UNCHANGED <<onboarded, elapsed>>

\* The node refuses the transaction, or it never got there, or the number
\* could not be read.
Refuse(r) ==
    /\ Serving(r)
    /\ \/ req[r].pc = "numbered"
       \/ req[r].pc = "queued" /\ (nextNonce = Null \/ Swapping(r))
    /\ Throw(r, req[r])
    /\ UNCHANGED node

\* The node has the transaction, but its answer is lost.
AcceptUnheard(r) == Accepted(r) /\ Throw(r, req[r])

-----------------------------------------------------------------------------
(* Receipts.                                                               *)

Mined(r) == req[r].pc = "confirming" /\ req[r].nonce < mined

\* The sweep is done and the tick reads on, or the swap is done.
Recovered(r) ==
    /\ Mined(r) /\ req[r].kind = "recovery"
    /\ chain' = Tail(chain)
    /\ IF Swapping(r) THEN Finish(r, req[r])
                      ELSE Go(r, [req[r] EXCEPT !.pc = "reading", !.stage = 2])
    /\ UNCHANGED <<onboarded, purse, nextNonce, strayed, node>>

\* wait() throws: the transaction reverted, or the wait failed while the
\* transaction is pending.
RecoveryFails(r) ==
    /\ req[r].pc = "confirming" /\ req[r].kind = "recovery"
    /\ Throw(r, req[r])
    /\ UNCHANGED node

\* The wait of a shielded withdrawal is over, however it ended: what it throws is
\* caught and dropped.  The forward to the burner is queued ...
ForwardShielded(r) ==
    /\ req[r].pc = "confirming" /\ req[r].kind = "shield"
    /\ Go(r, [req[r] EXCEPT !.pc = "queued", !.stage = 2])
    /\ chain' = Append(chain, r)
    /\ UNCHANGED <<onboarded, purse, nextNonce, strayed, node>>

\* ... or, where the pool paid the burner, the request is answered.
AnswerShielded(r) ==
    /\ req[r].pc = "confirming" /\ req[r].kind = "awaited"
    /\ Finish(r, req[r])
    /\ UNCHANGED <<onboarded, purse, sends>>

\* A block with the next transaction in line.
Mine ==
    /\ mined \in pool
    /\ mined' = mined + 1
    /\ UNCHANGED <<req, desk, purse, chain, nextNonce, strayed, pool>>

\* The day is over.
Elapse ==
    /\ ~elapsed /\ budget.start < MaxWindows
    /\ elapsed' = TRUE
    /\ UNCHANGED <<req, desk, budget, sends>>

Handler(r) ==
    \/ GiveUp(r) \/ Reserve(r) \/ Queue(r)
    \/ Number(r) \/ Accept(r) \/ AcceptUnheard(r) \/ Refuse(r)
    \/ Recovered(r) \/ RecoveryFails(r) \/ ForwardShielded(r) \/ AnswerShielded(r)

Next ==
    \/ \E r \in Requests, kind \in Kinds, a \in Addresses \cup {Null} : Arrive(r, kind, a)
    \/ \E r \in Ticks : StartTick(r)
    \/ \E r \in Handlers : Handler(r)
    \/ Mine
    \/ Elapse

\* Reads and sends are answered or time out, and blocks are produced.  A wait has
\* no timeout: it is sure to end once the transaction is mined.
Prompt(r) == Handler(r) /\ (req[r].pc = "confirming" => Mined(r))

Fairness == /\ \A r \in Handlers : WF_vars(Prompt(r))
            /\ WF_vars(Mine)

Spec == Init /\ [][Next]_vars /\ Fairness

-----------------------------------------------------------------------------
(* Properties.                                                             *)

RelayTypeOK ==
    /\ req \in [Handlers -> Request]
    /\ fundInFlight \subseteq Addresses /\ onboarded \subseteq Addresses
    /\ budget \in [spent : Nat, start : Nat] /\ elapsed \in BOOLEAN
    /\ chain \in Seq(Handlers)
    /\ nextNonce \in Nat \cup {Null} /\ strayed \in BOOLEAN
    /\ pool \subseteq Nat /\ mined \in Nat

\* "a send that never landed must not leave a gap" (allocNonce): whatever
\* failed or was not heard of, the accepted numbers have no gap, so every
\* transaction can be mined; and a send takes the next number, unless a
\* recovery swap went out since the counter was read.
NumbersFollow ==
    /\ \A n \in pool : \A m \in 0..n : m \in pool
    /\ \A r \in Handlers : req[r].pc = "numbered" =>
          /\ \A m \in 0..req[r].nonce : m \in pool \/ m = req[r].nonce
          /\ ~strayed => req[r].nonce \notin pool

\* The window's account is exact, however sends fail and windows roll in
\* between, and what one window lends never exceeds the budget.  A send whose
\* answer was lost is given back: the account follows what the relay knows.
BudgetKept ==
    LET lent(w) == SumFunction([r \in Handlers |->
                      IF req[r].window = w THEN req[r].hold ELSE 0])
    IN /\ budget.spent = lent(budget.start)
       /\ PROFIT_GUARD => \A w \in 0..MaxWindows : lent(w) <= GAS_BUDGET

Working(r) == req[r].pc \notin {"idle", "joined", "answered"}

\* Concurrent /fund calls of one address share one send ("Coalesces
\* concurrent /fund calls"), and a joined call has someone to wait for.
FundingsCoalesce ==
    LET funding(r, a) == req[r].kind = "fund" /\ req[r].address = a /\ Working(r)
    IN /\ \A a \in Addresses : \A r, s \in Handlers :
             funding(r, a) /\ funding(s, a) => r = s
       /\ \A s \in Handlers : req[s].pc = "joined" =>
             \E r \in Handlers : funding(r, req[s].address)

\* Every request that arrives is answered, though all sends queue behind one
\* another and a recovery job holds the queue until it is mined.
RequestsAnswered ==
    \A r \in Handlers : Working(r) \/ req[r].pc = "joined" ~> req[r].pc = "answered"
=============================================================================
