---------------------------- MODULE RelayProofs ----------------------------
(* What a venue node guarantees, for any number of requests and of venues:   *)
(* the relay's bookkeeping, and after it the replication agent that runs     *)
(* beside the relay and shares no state with it.                             *)
EXTENDS Relay, MenuReplication, SumLemmas

\* Only the head of the chain has a number or waits for a receipt in the chain.
Busy(r) ==
    \/ req[r].pc = "numbered"
    \/ req[r].kind = "recovery" /\ req[r].pc = "confirming"

BusyServes == \A r \in Handlers : Busy(r) => Serving(r)

\* A request for a gift names who gets it.
Asked ==
    \A r \in Handlers : req[r].pc # "idle" /\ req[r].kind \in {"fund", "onboard"} =>
        req[r].address \in Addresses

\* The node has k transactions.  A number in use is the next one or, after a
\* swap, one already taken; a counter no send is using, likewise.
UpTo(k) == {m \in Nat : m < k}

Numbered(r) == req[r].pc = "numbered"

CountedTo(k) ==
    /\ pool = UpTo(k)
    /\ \A r \in Handlers : Numbered(r) =>
          /\ req[r].nonce \in Nat /\ req[r].nonce <= k
          /\ ~strayed => req[r].nonce = k
          /\ ~Swapping(r) => nextNonce = req[r].nonce + 1
    /\ nextNonce # Null /\ (\A r \in Handlers : Numbered(r) => Swapping(r)) =>
          /\ nextNonce <= k
          /\ ~strayed => nextNonce = k

Counted == \E k \in Nat : CountedTo(k)

\* An address is in flight exactly while one handler is funding it.
Funds(r, a) == req[r].kind = "fund" /\ req[r].address = a /\ Working(r)

InFlight ==
    /\ \A r \in Handlers : req[r].kind = "fund" /\ Working(r) => req[r].address \in fundInFlight
    /\ \A a \in fundInFlight : \E r \in Handlers : Funds(r, a)
    /\ \A r, s \in Handlers : \A a : Funds(r, a) /\ Funds(s, a) => r = s
    /\ \A r \in Handlers : req[r].pc = "joined" => req[r].address \in fundInFlight

RInv == RelayTypeOK /\ Asked /\ BusyServes /\ Counted /\ InFlight

-----------------------------------------------------------------------------
(* Facts about the helpers. *)

\* With the numbers below k in its pool the node answers k.
LEMMA PendingCountIs ==
    ASSUME NEW k \in Nat, pool = UpTo(k)
    PROVE  PendingCount = k
<1> DEFINE P(n) == n \notin pool /\ \A m \in 0..n : m \in pool \/ m = n
           S == {0} \cup {m + 1 : m \in pool}
<1>1. k \in S
  <2>1. CASE k = 0
    BY <2>1
  <2>2. CASE k # 0
    <3>1. k - 1 \in pool /\ (k - 1) + 1 = k
      BY <2>2 DEF UpTo
    <3> QED
      BY <3>1
  <2> QED
    BY <2>1, <2>2
<1>2. P(k)
  BY DEF UpTo
<1>3. ASSUME NEW n \in S, P(n) PROVE n = k
  <2>1. n \in Nat
    BY DEF UpTo
  <2>2. n >= k
    BY <2>1, <1>3 DEF UpTo
  <2> QED
    BY <2>1, <2>2, <1>3 DEF UpTo
<1>4. PendingCount = CHOOSE n \in S : P(n)
  BY DEF PendingCount
<1> HIDE DEF P, S
<1> QED
  BY <1>1, <1>2, <1>3, <1>4

\* Going on touches the handler's own record only.
LEMMA GoEffect ==
    ASSUME req \in [Handlers -> Request], NEW r \in Handlers, NEW q, Go(r, q)
    PROVE  /\ req'[r] = q
           /\ \A s \in Handlers \ {r} : req'[s] = req[s]
           /\ q \in Request => req' \in [Handlers -> Request]
           /\ fundInFlight' = fundInFlight
BY DEF Go

\* Ending touches, besides, those who joined.
LEMMA FinishEffect ==
    ASSUME req \in [Handlers -> Request], NEW r \in Handlers, NEW q \in Request, Finish(r, q)
    PROVE  /\ req'[r] = [q EXCEPT !.pc = "answered"]
           /\ \A s \in Handlers \ {r} :
                 IF /\ q.kind = "fund" /\ req[s].pc = "joined"
                    /\ req[s].address = q.address
                   THEN req'[s] = [req[s] EXCEPT !.pc = "answered"]
                   ELSE req'[s] = req[s]
           /\ req' \in [Handlers -> Request]
           /\ fundInFlight' = IF q.kind = "fund" THEN fundInFlight \ {q.address}
                                                 ELSE fundInFlight
<1>1. \A s \in Handlers : [req[s] EXCEPT !.pc = "answered"] \in Request
  BY DEF Request, Pcs
<1>2. [q EXCEPT !.pc = "answered"] \in Request
  BY DEF Request, Pcs
<1> QED
  BY <1>1, <1>2 DEF Finish

\* What the handlers write into their records.
LEMMA NoRequestType ==
    ASSUME NEW kind \in Kinds \cup {"recovery"}, NEW a \in Addresses \cup {Null}, NEW pc \in Pcs
    PROVE  /\ NoRequest \in Request
           /\ [NoRequest EXCEPT !.kind = kind, !.address = a, !.pc = pc] \in Request
           /\ [NoRequest EXCEPT !.kind = kind, !.pc = pc] \in Request
<1> DEFINE K == Kinds \cup {"recovery", Null}
           A == Addresses \cup {Null}
           N == Nat \cup {Null}
           S == 1..2
<1>1. /\ kind \in K /\ Null \in K /\ a \in A /\ Null \in A /\ Null \in N
      /\ 1 \in S /\ "idle" \in Pcs /\ 0 \in Nat
  BY DEF Pcs
<1>2. Request = [kind : K, address : A, pc : Pcs, stage : S, hold : Nat, window : Nat,
                 nonce : N]
  BY DEF Request
<1>3. NoRequest = [kind |-> Null, address |-> Null, pc |-> "idle", stage |-> 1, hold |-> 0,
                   window |-> 0, nonce |-> Null]
  BY DEF NoRequest
<1> HIDE DEF K, A, N, S
<1> QED
  BY <1>1, <1>2, <1>3

LEMMA ProgressType ==
    ASSUME NEW q \in Request, NEW p \in Pcs, NEW stage \in 1..2
    PROVE  /\ [q EXCEPT !.pc = p] \in Request
           /\ [q EXCEPT !.pc = p, !.stage = stage] \in Request
<1> DEFINE K == Kinds \cup {"recovery", Null}
           A == Addresses \cup {Null}
           N == Nat \cup {Null}
           S == 1..2
<1>1. stage \in S
  OBVIOUS
<1>2. Request = [kind : K, address : A, pc : Pcs, stage : S, hold : Nat, window : Nat,
                 nonce : N]
  BY DEF Request
<1>3. SUFFICES /\ [q EXCEPT !.pc = p] \in Request
               /\ [q EXCEPT !.pc = p, !.stage = stage] \in Request
  OBVIOUS
<1> HIDE DEF K, A, N, S
<1> QED
  BY <1>1, <1>2

\* Nothing has happened yet.
LEMMA Start == Init => RInv
<1> SUFFICES ASSUME Init PROVE RInv
  OBVIOUS
<1> USE DEF Init
<1>1. RelayTypeOK
  <2>1. NoRequest \in Request
    BY NoRequestType DEF Kinds, Pcs
  <2>2. budget \in [spent : Nat, start : Nat] /\ chain \in Seq(Handlers)
    OBVIOUS
  <2>3. elapsed \in BOOLEAN /\ strayed \in BOOLEAN
    OBVIOUS
  <2>4. req \in [Handlers -> Request]
    BY <2>1
  <2>5. fundInFlight \subseteq Addresses /\ onboarded \subseteq Addresses
    OBVIOUS
  <2>6. nextNonce \in Nat \cup {Null} /\ pool \subseteq Nat /\ mined \in Nat
    OBVIOUS
  <2> QED
    BY <2>2, <2>3, <2>4, <2>5, <2>6 DEF RelayTypeOK
<1>2. \A r \in Handlers : req[r].pc = "idle"
  BY DEF NoRequest
<1>3. Asked /\ BusyServes /\ InFlight
  BY <1>2 DEF Asked, BusyServes, Busy, InFlight, Funds, Working
<1>4. CountedTo(0)
  BY <1>2 DEF CountedTo, UpTo, Numbered
<1> QED
  BY <1>1, <1>3, <1>4 DEF RInv, Counted

-----------------------------------------------------------------------------
(* Types. *)

\* A handler that goes on or ends leaves the records well formed.
LEMMA AnswerType ==
    ASSUME RelayTypeOK, NEW r \in Handlers, NEW q \in Request, Go(r, q) \/ Finish(r, q)
    PROVE  req' \in [Handlers -> Request] /\ fundInFlight' \subseteq Addresses
<1>1. CASE Go(r, q)
  BY <1>1, GoEffect DEF RelayTypeOK
<1>2. CASE Finish(r, q)
  BY <1>2, FinishEffect DEF RelayTypeOK
<1> QED
  BY <1>1, <1>2

\* Releasing never takes the account below zero.
LEMMA ReleasedNat ==
    ASSUME RelayTypeOK, NEW q \in Request
    PROVE  Released(q) \in Nat
BY DEF RelayTypeOK, Released, Request

\* A job leaves the chain.
LEMMA TailType ==
    ASSUME RelayTypeOK, chain # <<>>
    PROVE  Tail(chain) \in Seq(Handlers)
BY DEF RelayTypeOK

\* A job throws.
LEMMA ThrowTypes ==
    ASSUME RelayTypeOK, NEW r \in Handlers, NEW q \in Request, chain # <<>>, Throw(r, q)
    PROVE  /\ req' \in [Handlers -> Request]
           /\ fundInFlight' \subseteq Addresses /\ onboarded' \subseteq Addresses
           /\ budget' \in [spent : Nat, start : Nat] /\ elapsed' \in BOOLEAN
           /\ chain' \in Seq(Handlers)
           /\ nextNonce' \in Nat \cup {Null} /\ strayed' \in BOOLEAN
<1>1. [q EXCEPT !.hold = 0] \in Request
  BY DEF Request
<1>2. Finish(r, [q EXCEPT !.hold = 0])
  BY DEF Throw
<1>3. req' \in [Handlers -> Request] /\ fundInFlight' \subseteq Addresses
  BY <1>1, <1>2, FinishEffect DEF RelayTypeOK
<1>4. chain' \in Seq(Handlers)
  BY TailType DEF Throw
<1>5. budget' \in [spent : Nat, start : Nat]
  BY ReleasedNat DEF Throw, RelayTypeOK
<1> QED
  BY <1>3, <1>4, <1>5 DEF Throw, Resynced, RelayTypeOK

\* Every action keeps the types.  Numbering needs Counted, for the node must have
\* an answer; leaving the chain needs BusyServes, for there must be a head.
LEMMA TypeStep ==
    ASSUME RInv, [Next]_vars
    PROVE  RelayTypeOK'
<1> USE RelayAssumption
<1>1. RelayTypeOK /\ Asked /\ Counted /\ BusyServes
  BY DEF RInv
<1>2. req \in [Handlers -> Request] /\ chain \in Seq(Handlers)
  BY <1>1 DEF RelayTypeOK
<1>3. Requests \subseteq Handlers /\ Ticks \subseteq Handlers
  BY DEF Handlers
<1>4. ASSUME NEW r \in Handlers PROVE req[r] \in Request
  BY <1>2
<1>arrive. ASSUME NEW r \in Requests, NEW kind \in Kinds, NEW a \in Addresses \cup {Null},
                  Arrive(r, kind, a)
           PROVE  RelayTypeOK'
  <2> DEFINE q(pc) == [NoRequest EXCEPT !.kind = kind, !.address = a, !.pc = pc]
  <2>1. \A pc \in Pcs : q(pc) \in Request
    BY NoRequestType
  <2>2. "joined" \in Pcs /\ "reading" \in Pcs /\ "answered" \in Pcs
    BY DEF Pcs
  <2>3. req' \in [Handlers -> Request] /\ fundInFlight' \subseteq Addresses
    <3>1. CASE kind = "fund"
      <4>1. /\ req' = [req EXCEPT ![r] = q(IF Joins(a) THEN "joined" ELSE "reading")]
            /\ fundInFlight' = fundInFlight \cup {a}
            /\ a \in Addresses
        BY <3>1, <1>arrive DEF Arrive
      <4> HIDE DEF q
      <4> QED
        BY <4>1, <2>1, <2>2, <1>1, <1>2 DEF RelayTypeOK
    <3>2. CASE kind # "fund"
      <4>1. \E pc \in Pcs : Go(r, q(pc))
        BY <3>2, <1>arrive, <2>2 DEF Arrive
      <4> HIDE DEF q
      <4> QED
        BY <4>1, <2>1, GoEffect, <1>1, <1>2, <1>3 DEF RelayTypeOK
    <3> QED
      BY <3>1, <3>2
  <2>4. UNCHANGED <<onboarded, purse, sends>>
    BY <1>arrive DEF Arrive
  <2> QED
    BY <2>3, <2>4, <1>1 DEF RelayTypeOK, purse, sends, node
<1>tick. ASSUME NEW r \in Ticks, StartTick(r) PROVE RelayTypeOK'
  <2>1. [NoRequest EXCEPT !.kind = "recovery", !.pc = "reading"] \in Request
    BY NoRequestType DEF Pcs
  <2> QED
    BY <2>1, <1>tick, <1>1, <1>2, <1>3, GoEffect DEF StartTick, RelayTypeOK, purse, sends, node
<1>giveUp. ASSUME NEW r \in Handlers, GiveUp(r) PROVE RelayTypeOK'
  <2>1. req' \in [Handlers -> Request] /\ fundInFlight' \subseteq Addresses
    BY <1>giveUp, <1>1, <1>4, AnswerType DEF GiveUp
  <2> QED
    BY <2>1, <1>giveUp, <1>1 DEF GiveUp, RelayTypeOK, purse, sends, node
<1>reserve. ASSUME NEW r \in Handlers, Reserve(r) PROVE RelayTypeOK'
  <2>1. PICK cost \in Costs :
          LET wei == cost + Gift(req[r].kind) IN
          IF PROFIT_GUARD /\ ~WithinBudget(wei)
            THEN /\ Finish(r, req[r])
                 /\ budget' = Window
                 /\ UNCHANGED chain
            ELSE /\ Go(r, [req[r] EXCEPT !.pc = "queued", !.hold = wei,
                                         !.window = Window.start])
                 /\ budget' = [Window EXCEPT !.spent = @ + wei]
                 /\ chain' = Append(chain, r)
    BY <1>reserve DEF Reserve
  <2>2. Window \in [spent : Nat, start : Nat]
    BY <1>1 DEF Window, RelayTypeOK
  <2>3. cost + Gift(req[r].kind) \in Nat
    BY DEF Gift
  <2>4. [req[r] EXCEPT !.pc = "queued", !.hold = cost + Gift(req[r].kind),
                       !.window = Window.start] \in Request
    BY <1>4, <2>2, <2>3 DEF Request, Pcs
  <2>5. /\ req' \in [Handlers -> Request] /\ fundInFlight' \subseteq Addresses
        /\ budget' \in [spent : Nat, start : Nat] /\ chain' \in Seq(Handlers)
    <3> DEFINE wei == cost + Gift(req[r].kind)
               q == [req[r] EXCEPT !.pc = "queued", !.hold = wei, !.window = Window.start]
    <3>1. CASE PROFIT_GUARD /\ ~WithinBudget(wei)
      <4>1. Finish(r, req[r]) /\ budget' = Window /\ chain' = chain
        BY <3>1, <2>1
      <4>2. req' \in [Handlers -> Request] /\ fundInFlight' \subseteq Addresses
        BY <4>1, <1>1, <1>4, AnswerType
      <4> QED
        BY <4>1, <4>2, <2>2, <1>2
    <3>2. CASE ~(PROFIT_GUARD /\ ~WithinBudget(wei))
      <4>1. Go(r, q) /\ budget' = [Window EXCEPT !.spent = @ + wei] /\ chain' = Append(chain, r)
        BY <3>2, <2>1
      <4>2. wei \in Nat /\ q \in Request
        BY <2>3, <2>4
      <4> HIDE DEF wei, q
      <4>3. req' \in [Handlers -> Request] /\ fundInFlight' = fundInFlight
        BY <4>1, <4>2, <1>2, GoEffect
      <4>4. budget' \in [spent : Nat, start : Nat]
        BY <4>1, <4>2, <2>2
      <4> QED
        BY <4>1, <4>3, <4>4, <1>1, <1>2 DEF RelayTypeOK
    <3> QED
      BY <3>1, <3>2
  <2>6. elapsed' = FALSE /\ UNCHANGED <<onboarded, nextNonce, strayed, node>>
    BY <1>reserve DEF Reserve
  <2> QED
    BY <2>5, <2>6, <1>1 DEF RelayTypeOK, node
<1>queue. ASSUME NEW r \in Handlers, Queue(r) PROVE RelayTypeOK'
  <2>1. PICK stage \in 1..2 : Go(r, [req[r] EXCEPT !.pc = "queued", !.stage = stage])
    <3>1. req[r].stage \in 1..2
      BY <1>4 DEF Request
    <3>2. IF req[r].kind = "recovery" THEN req[r].stage..2 \subseteq 1..2 ELSE {1} \subseteq 1..2
      BY <3>1
    <3> QED
      BY <3>2, <1>queue DEF Queue
  <2>2. [req[r] EXCEPT !.pc = "queued", !.stage = stage] \in Request
    BY <1>4, ProgressType DEF Pcs
  <2>3. req' \in [Handlers -> Request] /\ fundInFlight' = fundInFlight
    BY <2>1, <2>2, <1>2, GoEffect
  <2> QED
    BY <2>3, <1>queue, <1>1, <1>2 DEF Queue, RelayTypeOK, purse, node
<1>number. ASSUME NEW r \in Handlers, Number(r) PROVE RelayTypeOK'
  <2> DEFINE n == IF nextNonce = Null \/ Swapping(r) THEN PendingCount ELSE nextNonce
  <2>1. n \in Nat
    BY <1>1, PendingCountIs DEF Counted, CountedTo, RelayTypeOK
  <2>2. /\ Go(r, [req[r] EXCEPT !.pc = "numbered", !.nonce = n])
        /\ nextNonce' = IF Swapping(r) THEN nextNonce ELSE n + 1
        /\ UNCHANGED <<onboarded, purse, chain, strayed, node>>
    BY <1>number DEF Number
  <2> HIDE DEF n
  <2>3. [req[r] EXCEPT !.pc = "numbered", !.nonce = n] \in Request
    BY <2>1, <1>4 DEF Request, Pcs
  <2>4. req' \in [Handlers -> Request] /\ fundInFlight' = fundInFlight
    BY <2>2, <2>3, <1>2, GoEffect
  <2> QED
    BY <2>1, <2>2, <2>4, <1>1 DEF RelayTypeOK, purse, node
<1>typed. ASSUME NEW r \in Handlers PROVE req[r] \in Request
  BY <1>4 DEF Request
<1>pool. ASSUME NEW r \in Handlers, Accepted(r)
         PROVE  pool' \subseteq Nat /\ mined' = mined /\ chain # <<>>
  BY <1>pool, <1>1 DEF Accepted, Serving, Counted, CountedTo, Numbered, RelayTypeOK
<1>accept. ASSUME NEW r \in Handlers, Accept(r) PROVE RelayTypeOK'
  <2>1. [req[r] EXCEPT !.pc = "confirming"] \in Request
    <3>1. "confirming" \in Pcs /\ 1 \in 1..2
      BY DEF Pcs
    <3> QED
      BY <3>1, <1>typed, ProgressType
  <2>2. \/ Go(r, [req[r] EXCEPT !.pc = "confirming"])
        \/ Finish(r, req[r])
    BY <1>accept DEF Accept
  <2>3. req' \in [Handlers -> Request] /\ fundInFlight' \subseteq Addresses
    BY <2>1, <2>2, <1>typed, <1>1, AnswerType
  <2>4. pool' \subseteq Nat /\ mined' = mined /\ chain # <<>>
    BY <1>accept, <1>pool DEF Accept
  <2>5. chain' \in Seq(Handlers)
    BY <2>4, <1>accept, <1>1, TailType DEF Accept, RelayTypeOK
  <2>6. onboarded' \subseteq Addresses
    <3>1. req[r].pc # "idle"
      BY <1>accept DEF Accept, Accepted
    <3> QED
      BY <3>1, <1>accept, <1>1 DEF Accept, Asked, RelayTypeOK
  <2>7. strayed' \in BOOLEAN
    BY <1>accept, <1>1 DEF Accept, RelayTypeOK
  <2>8. UNCHANGED <<purse, nextNonce>>
    BY <1>accept DEF Accept
  <2> QED
    BY <2>3, <2>4, <2>5, <2>6, <2>7, <2>8, <1>1 DEF RelayTypeOK, purse
<1>unheard. ASSUME NEW r \in Handlers, AcceptUnheard(r) PROVE RelayTypeOK'
  <2>1. Accepted(r) /\ Throw(r, req[r])
    BY <1>unheard DEF AcceptUnheard
  <2> QED
    BY <2>1, <1>pool, <1>typed, <1>1, ThrowTypes DEF RelayTypeOK
<1>refuse. ASSUME NEW r \in Handlers, Refuse(r) PROVE RelayTypeOK'
  <2>1. Throw(r, req[r]) /\ chain # <<>> /\ UNCHANGED node
    BY <1>refuse DEF Refuse, Serving
  <2> QED
    BY <2>1, <1>1, <1>4, ThrowTypes DEF RelayTypeOK, node
<1>holding. ASSUME NEW r \in Handlers, req[r].pc = "confirming", req[r].kind = "recovery"
           PROVE  chain # <<>>
  BY <1>holding, <1>1 DEF BusyServes, Busy, Serving
<1>recovered. ASSUME NEW r \in Handlers, Recovered(r) PROVE RelayTypeOK'
  <2>1. [req[r] EXCEPT !.pc = "reading", !.stage = 2] \in Request
    <3>1. "reading" \in Pcs /\ 2 \in 1..2
      BY DEF Pcs
    <3> QED
      BY <3>1, <1>4, ProgressType
  <2>2. \/ Go(r, [req[r] EXCEPT !.pc = "reading", !.stage = 2])
        \/ Finish(r, req[r])
    BY <1>recovered DEF Recovered
  <2>3. req' \in [Handlers -> Request] /\ fundInFlight' \subseteq Addresses
    BY <2>1, <2>2, <1>4, <1>1, AnswerType
  <2>4. chain' \in Seq(Handlers)
    BY <1>recovered, <1>holding, <1>1, TailType DEF Recovered, Mined
  <2> QED
    BY <2>3, <2>4, <1>recovered, <1>1 DEF Recovered, RelayTypeOK, purse, node
<1>reverted. ASSUME NEW r \in Handlers, RecoveryFails(r) PROVE RelayTypeOK'
  <2>1. Throw(r, req[r]) /\ chain # <<>> /\ UNCHANGED node
    BY <1>reverted, <1>holding DEF RecoveryFails
  <2> QED
    BY <2>1, <1>1, <1>4, ThrowTypes DEF RelayTypeOK, node
<1>forward. ASSUME NEW r \in Handlers, ForwardShielded(r) PROVE RelayTypeOK'
  <2>1. Go(r, [req[r] EXCEPT !.pc = "queued", !.stage = 2])
    BY <1>forward DEF ForwardShielded
  <2>2. [req[r] EXCEPT !.pc = "queued", !.stage = 2] \in Request
    <3>1. "queued" \in Pcs /\ 2 \in 1..2
      BY DEF Pcs
    <3> QED
      BY <3>1, <1>4, ProgressType
  <2>3. req' \in [Handlers -> Request] /\ fundInFlight' = fundInFlight
    BY <2>1, <2>2, <1>2, GoEffect
  <2> QED
    BY <2>3, <1>forward, <1>1, <1>2 DEF ForwardShielded, RelayTypeOK, purse, node
<1>answer. ASSUME NEW r \in Handlers, AnswerShielded(r) PROVE RelayTypeOK'
  <2>1. req' \in [Handlers -> Request] /\ fundInFlight' \subseteq Addresses
    BY <1>answer, <1>1, <1>4, AnswerType DEF AnswerShielded
  <2> QED
    BY <2>1, <1>answer, <1>1 DEF AnswerShielded, RelayTypeOK, purse, sends, node
<1>mine. CASE Mine
  BY <1>mine, <1>1 DEF Mine, RelayTypeOK, desk, purse
<1>elapse. CASE Elapse
  BY <1>elapse, <1>1 DEF Elapse, RelayTypeOK, desk, sends, node
<1>stutter. CASE UNCHANGED vars
  BY <1>stutter, <1>1 DEF vars, RelayTypeOK
<1> QED
  BY <1>arrive, <1>tick, <1>giveUp, <1>reserve, <1>queue, <1>number, <1>accept, <1>unheard,
     <1>refuse, <1>recovered, <1>reverted, <1>forward, <1>answer, <1>mine, <1>elapse, <1>stutter
     DEF Next, Handler

-----------------------------------------------------------------------------
(* Who is answered, who goes on. *)

Active == {"reading", "queued", "numbered", "confirming"}

\* What a step of r's handler does to the requests: r goes on, or r ends and
\* with it those who joined its funding.
Proceeds(r) ==
    /\ Working(r)
    /\ req'[r].kind = req[r].kind /\ req'[r].address = req[r].address
    /\ \/ /\ req'[r].pc \in Active
          /\ \A s \in Handlers \ {r} : req'[s] = req[s]
          /\ fundInFlight' = fundInFlight
       \/ /\ req'[r].pc = "answered"
          /\ \A s \in Handlers \ {r} :
                IF /\ req[r].kind = "fund" /\ req[s].pc = "joined"
                   /\ req[s].address = req[r].address
                  THEN req'[s] = [req[s] EXCEPT !.pc = "answered"]
                  ELSE req'[s] = req[s]
          /\ fundInFlight' = IF req[r].kind = "fund" THEN fundInFlight \ {req[r].address}
                                                     ELSE fundInFlight

\* The two ways to proceed.
LEMMA GoProceeds ==
    ASSUME RelayTypeOK, NEW r \in Handlers, Working(r), NEW q, Go(r, q),
           q.kind = req[r].kind, q.address = req[r].address, q.pc \in Active
    PROVE  Proceeds(r)
BY GoEffect DEF RelayTypeOK, Proceeds

LEMMA FinishProceeds ==
    ASSUME RelayTypeOK, NEW r \in Handlers, Working(r), NEW q \in Request, Finish(r, q),
           q.kind = req[r].kind, q.address = req[r].address
    PROVE  Proceeds(r)
<1>1. req \in [Handlers -> Request]
  BY DEF RelayTypeOK
<1>2. /\ req'[r] = [q EXCEPT !.pc = "answered"]
      /\ \A s \in Handlers \ {r} :
            IF q.kind = "fund" /\ req[s].pc = "joined" /\ req[s].address = q.address
              THEN req'[s] = [req[s] EXCEPT !.pc = "answered"]
              ELSE req'[s] = req[s]
      /\ fundInFlight' = IF q.kind = "fund" THEN fundInFlight \ {q.address}
                                            ELSE fundInFlight
  BY <1>1, FinishEffect
<1>3. [q EXCEPT !.pc = "answered"].kind = q.kind
      /\ [q EXCEPT !.pc = "answered"].address = q.address
      /\ [q EXCEPT !.pc = "answered"].pc = "answered"
  BY DEF Request
<1> QED
  BY <1>2, <1>3 DEF Proceeds

\* Every step of a handler proceeds in one of the two ways.
LEMMA HandlerProceeds ==
    ASSUME RelayTypeOK, NEW r \in Handlers, Handler(r)
    PROVE  Proceeds(r)
<1>0. req[r] \in Request
  BY DEF RelayTypeOK
<1>1. req[r] \in Request
  BY <1>0 DEF Request
<1>2. ASSUME NEW q \in Request, q.kind = req[r].kind, q.address = req[r].address,
             Throw(r, q), Working(r)
      PROVE  Proceeds(r)
  <2>1. /\ [q EXCEPT !.hold = 0] \in Request
        /\ [q EXCEPT !.hold = 0].kind = q.kind
        /\ [q EXCEPT !.hold = 0].address = q.address
    BY DEF Request
  <2>2. Finish(r, [q EXCEPT !.hold = 0])
    BY <1>2 DEF Throw
  <2> QED
    BY <2>1, <2>2, <1>2, FinishProceeds
<1>giveUp. CASE GiveUp(r)
  BY <1>giveUp, <1>0, FinishProceeds DEF GiveUp, Working
<1>reserve. CASE Reserve(r)
  <2>1. Working(r)
    BY <1>reserve DEF Reserve, Working
  <2>2. PICK cost \in Costs :
           \/ Finish(r, req[r])
           \/ Go(r, [req[r] EXCEPT !.pc = "queued", !.hold = cost + Gift(req[r].kind),
                                   !.window = Window.start])
    BY <1>reserve DEF Reserve
  <2> DEFINE q == [req[r] EXCEPT !.pc = "queued", !.hold = cost + Gift(req[r].kind),
                                 !.window = Window.start]
  <2>3. q.kind = req[r].kind /\ q.address = req[r].address /\ q.pc \in Active
    BY <1>0 DEF Request, Active
  <2>4. CASE Finish(r, req[r])
    BY <2>1, <2>4, <1>0, FinishProceeds
  <2>5. CASE Go(r, q)
    BY <2>1, <2>3, <2>5, GoProceeds
  <2> QED
    BY <2>2, <2>4, <2>5
<1>queue. CASE Queue(r)
  <2>1. PICK stage : Go(r, [req[r] EXCEPT !.pc = "queued", !.stage = stage])
    BY <1>queue DEF Queue
  <2> DEFINE q == [req[r] EXCEPT !.pc = "queued", !.stage = stage]
  <2>2. q.kind = req[r].kind /\ q.address = req[r].address /\ q.pc \in Active
    BY <1>0 DEF Request, Active
  <2>3. Working(r)
    BY <1>queue DEF Queue, Working
  <2> QED
    BY <2>1, <2>2, <2>3, GoProceeds
<1>number. CASE Number(r)
  <2>1. PICK n : Go(r, [req[r] EXCEPT !.pc = "numbered", !.nonce = n])
    BY <1>number DEF Number
  <2> DEFINE q == [req[r] EXCEPT !.pc = "numbered", !.nonce = n]
  <2>2. q.kind = req[r].kind /\ q.address = req[r].address /\ q.pc \in Active
    BY <1>0 DEF Request, Active
  <2>3. Working(r)
    BY <1>number DEF Number, Working
  <2> QED
    BY <2>1, <2>2, <2>3, GoProceeds
<1>accept. CASE Accept(r)
  <2> DEFINE q == [req[r] EXCEPT !.pc = "confirming"]
  <2>1. Working(r)
    BY <1>accept DEF Accept, Accepted, Working
  <2>2. q.kind = req[r].kind /\ q.address = req[r].address /\ q.pc \in Active
    BY <1>1 DEF Request, Active
  <2>3. CASE Go(r, q)
    BY <2>1, <2>2, <2>3, GoProceeds
  <2>4. CASE Finish(r, req[r])
    BY <2>1, <2>4, <1>1, FinishProceeds
  <2> QED
    BY <2>3, <2>4, <1>accept DEF Accept
<1>unheard. CASE AcceptUnheard(r)
  BY <1>unheard, <1>1, <1>2 DEF AcceptUnheard, Accepted, Working
<1>refuse. CASE Refuse(r)
  BY <1>refuse, <1>0, <1>2 DEF Refuse, Working
<1>recovered. CASE Recovered(r)
  <2> DEFINE q == [req[r] EXCEPT !.pc = "reading", !.stage = 2]
  <2>1. Working(r)
    BY <1>recovered DEF Recovered, Mined, Working
  <2>2. q.kind = req[r].kind /\ q.address = req[r].address /\ q.pc \in Active
    BY <1>0 DEF Request, Active
  <2>3. CASE Go(r, q)
    BY <2>1, <2>2, <2>3, GoProceeds
  <2>4. CASE Finish(r, req[r])
    BY <2>1, <2>4, <1>0, FinishProceeds
  <2> QED
    BY <2>3, <2>4, <1>recovered DEF Recovered
<1>reverted. CASE RecoveryFails(r)
  BY <1>reverted, <1>0, <1>2 DEF RecoveryFails, Working
<1>answer. CASE AnswerShielded(r)
  BY <1>answer, <1>0, FinishProceeds DEF AnswerShielded, Working
<1>forward. CASE ForwardShielded(r)
  <2>1. Go(r, [req[r] EXCEPT !.pc = "queued", !.stage = 2])
    BY <1>forward DEF ForwardShielded
  <2> DEFINE q == [req[r] EXCEPT !.pc = "queued", !.stage = 2]
  <2>2. q.kind = req[r].kind /\ q.address = req[r].address /\ q.pc \in Active
    BY <1>0 DEF Request, Active
  <2>3. Working(r)
    BY <1>forward DEF ForwardShielded, Working
  <2> QED
    BY <2>1, <2>2, <2>3, GoProceeds
<1> QED
  BY <1>giveUp, <1>reserve, <1>queue, <1>number, <1>accept, <1>unheard,
     <1>refuse, <1>recovered, <1>reverted, <1>forward, <1>answer DEF Handler

\* Arrivals, ticks and the rest of the world.
LEMMA ArriveEffect ==
    ASSUME RelayTypeOK, NEW r \in Requests, NEW kind \in Kinds,
           NEW a \in Addresses \cup {Null}, Arrive(r, kind, a)
    PROVE  /\ r \in Handlers /\ req[r].pc = "idle"
           /\ req'[r].kind = kind /\ req'[r].address = a
           /\ kind \in {"fund", "onboard"} => a \in Addresses
           /\ \A s \in Handlers \ {r} : req'[s] = req[s]
           /\ IF kind = "fund"
                THEN /\ req'[r].pc = IF a \in fundInFlight THEN "joined" ELSE "reading"
                     /\ fundInFlight' = fundInFlight \cup {a}
                ELSE /\ req'[r].pc \in {"reading", "answered"}
                     /\ fundInFlight' = fundInFlight
<1> DEFINE q(pc) == [NoRequest EXCEPT !.kind = kind, !.address = a, !.pc = pc]
<1>1. \A pc : q(pc).kind = kind /\ q(pc).address = a /\ q(pc).pc = pc
  BY DEF NoRequest
<1>2. r \in Handlers /\ req[r].pc = "idle"
      /\ (kind \in {"fund", "onboard"} => a \in Addresses)
  BY DEF Arrive, Handlers
<1>3. CASE kind = "fund"
  <2>1. /\ req' = [req EXCEPT ![r] = q(IF a \in fundInFlight THEN "joined" ELSE "reading")]
        /\ fundInFlight' = fundInFlight \cup {a}
    BY <1>3 DEF Arrive, Joins
  <2> HIDE DEF q
  <2> QED
    BY <2>1, <1>1, <1>2, <1>3 DEF RelayTypeOK
<1>4. CASE kind # "fund"
  <2>1. Go(r, q("reading")) \/ Go(r, q("answered"))
    BY <1>4 DEF Arrive
  <2> HIDE DEF q
  <2>2. CASE Go(r, q("reading"))
    BY <2>2, <1>1, <1>2, <1>4, GoEffect DEF RelayTypeOK
  <2>3. CASE Go(r, q("answered"))
    BY <2>3, <1>1, <1>2, <1>4, GoEffect DEF RelayTypeOK
  <2> QED
    BY <2>1, <2>2, <2>3
<1> QED
  BY <1>3, <1>4

LEMMA TickEffect ==
    ASSUME RelayTypeOK, NEW r \in Ticks, StartTick(r)
    PROVE  /\ r \in Handlers /\ req[r].pc = "idle"
           /\ req'[r].kind = "recovery" /\ req'[r].pc = "reading"
           /\ \A s \in Handlers \ {r} : req'[s] = req[s]
           /\ fundInFlight' = fundInFlight
<1> DEFINE q == [NoRequest EXCEPT !.kind = "recovery", !.pc = "reading"]
<1>1. q.kind = "recovery" /\ q.pc = "reading"
  BY DEF NoRequest
<1>2. Go(r, q) /\ r \in Handlers /\ req[r].pc = "idle"
  BY DEF StartTick, Handlers
<1> HIDE DEF q
<1> QED
  BY <1>1, <1>2, GoEffect DEF RelayTypeOK

LEMMA WorldEffect ==
    ASSUME Mine \/ Elapse \/ UNCHANGED vars
    PROVE  UNCHANGED <<req, fundInFlight, chain, nextNonce, strayed>>
BY DEF Mine, Elapse, vars, desk, purse, sends, node

\* No step changes what was asked for.
LEMMA AskedStep ==
    ASSUME RelayTypeOK, Asked, [Next]_vars
    PROVE  Asked'
<1>1. ASSUME NEW r \in Requests, NEW kind \in Kinds, NEW a \in Addresses \cup {Null},
             Arrive(r, kind, a)
      PROVE  Asked'
  BY <1>1, ArriveEffect DEF Asked
<1>2. ASSUME NEW r \in Ticks, StartTick(r) PROVE Asked'
  BY <1>2, TickEffect DEF Asked
<1>3. ASSUME NEW r \in Handlers, Handler(r) PROVE Asked'
  <2>1. Proceeds(r)
    BY <1>3, HandlerProceeds
  <2>2. \A s \in Handlers \ {r} :
          \/ req'[s] = req[s]
          \/ req[s].pc = "joined" /\ req'[s] = [req[s] EXCEPT !.pc = "answered"]
    BY <2>1 DEF Proceeds
  <2>3. \A s \in Handlers \ {r} :
          req'[s].kind = req[s].kind /\ req'[s].address = req[s].address
    BY <2>2 DEF RelayTypeOK, Request
  <2>4. \A s \in Handlers \ {r} : req[s].pc = "idle" => req'[s].pc = "idle"
    BY <2>2
  <2> QED
    BY <2>1, <2>3, <2>4 DEF Asked, Proceeds, Working
<1>4. CASE Mine \/ Elapse \/ UNCHANGED vars
  BY <1>4, WorldEffect DEF Asked
<1> QED
  BY <1>1, <1>2, <1>3, <1>4 DEF Next

\* An arrival funds an address nobody funds, or joins; an end frees the address
\* and whoever joined.
LEMMA InFlightStep ==
    ASSUME RelayTypeOK, InFlight, [Next]_vars
    PROVE  InFlight'
<1>0. \A r \in Handlers : Working(r) => req[r].pc \in Active
  BY DEF RelayTypeOK, Request, Pcs, Working, Active
<1>1. ASSUME NEW r \in Requests, NEW kind \in Kinds, NEW a \in Addresses \cup {Null},
             Arrive(r, kind, a)
      PROVE  InFlight'
  <2>1. /\ r \in Handlers /\ ~Working(r) /\ req[r].pc = "idle"
        /\ req'[r].kind = kind /\ req'[r].address = a
        /\ \A s \in Handlers \ {r} : req'[s] = req[s]
        /\ IF kind = "fund"
             THEN /\ req'[r].pc = IF a \in fundInFlight THEN "joined" ELSE "reading"
                  /\ fundInFlight' = fundInFlight \cup {a}
             ELSE /\ req'[r].pc \in {"reading", "answered"}
                  /\ fundInFlight' = fundInFlight
    BY <1>1, ArriveEffect DEF Working
  <2>2. \A s \in Handlers \ {r} : \A b : Funds(s, b)' <=> Funds(s, b)
    BY <2>1 DEF Funds, Working
  <2>3. \A b : Funds(r, b)' <=> (kind = "fund" /\ b = a /\ a \notin fundInFlight)
    BY <2>1 DEF Funds, Working
  <2>4. \A b : ~Funds(r, b)
    BY <2>1 DEF Funds
  <2>5. \A s \in Handlers : \A b : Funds(s, b) => b \in fundInFlight
    BY DEF InFlight, Funds
  <2>6. \A s \in Handlers : \A b : Funds(s, b)' => b \in fundInFlight'
    BY <2>1, <2>2, <2>3, <2>5
  <2>7. \A b \in fundInFlight' : \E s \in Handlers : Funds(s, b)'
    <3> SUFFICES ASSUME NEW b \in fundInFlight' PROVE \E s \in Handlers : Funds(s, b)'
      OBVIOUS
    <3>1. CASE b \in fundInFlight
      <4>1. PICK s \in Handlers : Funds(s, b)
        BY <3>1 DEF InFlight
      <4> QED
        BY <4>1, <2>2, <2>4
    <3>2. CASE b \notin fundInFlight
      BY <3>2, <2>1, <2>3
    <3> QED
      BY <3>1, <3>2
  <2>8. \A s, t \in Handlers : \A b : Funds(s, b)' /\ Funds(t, b)' => s = t
    BY <2>2, <2>3, <2>5 DEF InFlight
  <2>9. \A s \in Handlers : req'[s].pc = "joined" => req'[s].address \in fundInFlight'
    BY <2>1 DEF InFlight
  <2> QED
    BY <2>6, <2>7, <2>8, <2>9 DEF InFlight, Funds
<1>2. ASSUME NEW r \in Ticks, StartTick(r) PROVE InFlight'
  <2>1. /\ r \in Handlers /\ req[r].pc = "idle"
        /\ req'[r].kind = "recovery" /\ req'[r].pc = "reading"
        /\ \A s \in Handlers \ {r} : req'[s] = req[s]
        /\ fundInFlight' = fundInFlight
    BY <1>2, TickEffect
  <2>2. \A s \in Handlers : \A b : Funds(s, b)' <=> Funds(s, b)
    BY <2>1 DEF Funds, Working
  <2>3. \A s \in Handlers : req'[s].kind = "fund" /\ Working(s)' => req'[s] = req[s]
    BY <2>1 DEF Working
  <2>4. \A s \in Handlers : req'[s].pc = "joined" => req'[s] = req[s]
    BY <2>1
  <2> QED
    BY <2>1, <2>2, <2>3, <2>4 DEF InFlight, Working
<1>3. ASSUME NEW r \in Handlers, Handler(r) PROVE InFlight'
  <2>1. Proceeds(r)
    BY <1>3, HandlerProceeds
  <2>2. CASE /\ req'[r].pc \in Active
             /\ \A s \in Handlers \ {r} : req'[s] = req[s]
             /\ fundInFlight' = fundInFlight
    <3>1. \A s \in Handlers : Working(s)' <=> Working(s)
      BY <2>1, <2>2 DEF Proceeds, Working, Active
    <3>2. \A s \in Handlers : req'[s].kind = req[s].kind /\ req'[s].address = req[s].address
      BY <2>1, <2>2 DEF Proceeds
    <3>3. \A s \in Handlers : \A b : Funds(s, b)' <=> Funds(s, b)
      BY <3>1, <3>2 DEF Funds
    <3>4. \A s \in Handlers : req'[s].pc = "joined" => req[s].pc = "joined"
      BY <2>2 DEF Active
    <3> QED
      BY <2>2, <3>1, <3>2, <3>3, <3>4 DEF InFlight
  <2>3. CASE /\ req'[r].pc = "answered"
             /\ \A s \in Handlers \ {r} :
                   IF /\ req[r].kind = "fund" /\ req[s].pc = "joined"
                      /\ req[s].address = req[r].address
                     THEN req'[s] = [req[s] EXCEPT !.pc = "answered"]
                     ELSE req'[s] = req[s]
             /\ fundInFlight' = IF req[r].kind = "fund" THEN fundInFlight \ {req[r].address}
                                                        ELSE fundInFlight
    <3>1. \A s \in Handlers : req'[s].kind = req[s].kind /\ req'[s].address = req[s].address
      BY <2>1, <2>3 DEF Proceeds, RelayTypeOK, Request
    <3>2. \A s \in Handlers \ {r} : Working(s)' <=> Working(s)
      BY <2>3 DEF Working, RelayTypeOK, Request
    <3>3. ~Working(r)' /\ Working(r)
      BY <2>1, <2>3 DEF Working, Proceeds
    <3>4. \A s \in Handlers : \A b : Funds(s, b)' <=> (s # r /\ Funds(s, b))
      BY <3>1, <3>2, <3>3 DEF Funds
    <3>5. \A s \in Handlers : req'[s].pc = "joined" =>
             /\ s # r /\ req[s].pc = "joined"
             /\ ~(req[r].kind = "fund" /\ req[s].address = req[r].address)
      BY <2>3 DEF RelayTypeOK, Request
    <3>6. \A s \in Handlers : \A b : Funds(s, b)' => b \in fundInFlight'
      BY <2>3, <3>3, <3>4 DEF InFlight, Funds
    <3>7. \A b \in fundInFlight' : \E s \in Handlers : Funds(s, b)'
      BY <2>3, <3>4 DEF InFlight, Funds
    <3>8. \A s, t \in Handlers : \A b : Funds(s, b)' /\ Funds(t, b)' => s = t
      BY <3>4 DEF InFlight
    <3>9. \A s \in Handlers : req'[s].pc = "joined" => req'[s].address \in fundInFlight'
      BY <2>3, <3>1, <3>5 DEF InFlight
    <3> QED
      BY <3>6, <3>7, <3>8, <3>9 DEF InFlight, Funds
  <2> QED
    BY <2>1, <2>2, <2>3 DEF Proceeds
<1>4. CASE Mine \/ Elapse \/ UNCHANGED vars
  BY <1>4, WorldEffect DEF InFlight, Funds, Working
<1> QED
  BY <1>1, <1>2, <1>3, <1>4 DEF Next

-----------------------------------------------------------------------------
(* The chain of sends has one job at work. *)

\* No step of r's handler makes another handler busy.
LEMMA OthersBusy ==
    ASSUME RelayTypeOK, NEW r \in Handlers, Proceeds(r), NEW s \in Handlers \ {r}
    PROVE  /\ Busy(s)' => Busy(s) /\ req'[s] = req[s]
           /\ Numbered(s)' <=> Numbered(s)
<1>1. \/ req'[s] = req[s]
      \/ req[s].pc = "joined" /\ req'[s] = [req[s] EXCEPT !.pc = "answered"]
  BY DEF Proceeds
<1>2. CASE req'[s] = req[s]
  BY <1>2 DEF Busy, Numbered
<1>3. CASE req[s].pc = "joined" /\ req'[s] = [req[s] EXCEPT !.pc = "answered"]
  BY <1>3 DEF Busy, Numbered, RelayTypeOK, Request
<1> QED
  BY <1>1, <1>2, <1>3

\* A job may join the queue, the job at its head may go on, or it may leave.
LEMMA BusyBehind ==
    ASSUME RelayTypeOK, BusyServes, NEW r \in Handlers, Proceeds(r), ~Busy(r)',
           chain' = chain \/ chain' = Append(chain, r)
    PROVE  BusyServes'
<1> SUFFICES ASSUME NEW s \in Handlers, Busy(s)' PROVE Serving(s)'
  BY DEF BusyServes
<1>1. s # r /\ Busy(s)
  BY OthersBusy
<1>2. chain # <<>> /\ Head(chain) = s /\ chain \in Seq(Handlers)
  BY <1>1 DEF BusyServes, Serving, RelayTypeOK
<1>3. chain' # <<>> /\ Head(chain') = s
  BY <1>2
<1> QED
  BY <1>3 DEF Serving

LEMMA BusyAtHead ==
    ASSUME RelayTypeOK, BusyServes, NEW r \in Handlers, Proceeds(r), Serving(r),
           chain' = chain \/ ~Busy(r)'
    PROVE  BusyServes'
<1> SUFFICES ASSUME NEW s \in Handlers, Busy(s)' PROVE Serving(s)'
  BY DEF BusyServes
<1>1. ASSUME s # r PROVE FALSE
  <2>1. Busy(s)
    BY <1>1, OthersBusy
  <2> QED
    BY <1>1, <2>1 DEF BusyServes, Serving
<1> QED
  BY <1>1 DEF Serving

\* What the actions do to r.
LEMMA ThrowEnds ==
    ASSUME NEW r \in Handlers, NEW q \in Request, RelayTypeOK, Throw(r, q)
    PROVE  ~Busy(r)' /\ ~Numbered(r)'
<1>1. [q EXCEPT !.hold = 0] \in Request /\ Finish(r, [q EXCEPT !.hold = 0])
  BY DEF Throw, Request
<1>2. req'[r] = [[q EXCEPT !.hold = 0] EXCEPT !.pc = "answered"]
  BY <1>1, FinishEffect DEF RelayTypeOK
<1>3. req'[r].pc = "answered"
  BY <1>1, <1>2 DEF Request
<1> QED
  BY <1>3 DEF Busy, Numbered

LEMMA ServingFacts ==
    ASSUME RelayTypeOK, BusyServes, NEW r \in Handlers,
           \/ Number(r) \/ Accept(r) \/ AcceptUnheard(r) \/ Refuse(r)
           \/ Recovered(r) \/ RecoveryFails(r)
    PROVE  Serving(r)
BY DEF Number, Accept, AcceptUnheard, Refuse, Recovered, RecoveryFails, Accepted, Mined,
       BusyServes, Busy

\* Steps after which r neither has a number nor holds the chain.
LEMMA Unbusied ==
    ASSUME RelayTypeOK, NEW r \in Handlers,
           \/ GiveUp(r) \/ Reserve(r) \/ Queue(r) \/ Recovered(r)
           \/ ForwardShielded(r) \/ AnswerShielded(r)
    PROVE  ~Busy(r)' /\ ~Numbered(r)'
<1>0. req \in [Handlers -> Request] /\ req[r] \in Request
  BY DEF RelayTypeOK
<1> SUFFICES req'[r].pc \in {"answered", "queued", "reading"}
  BY DEF Busy, Numbered
<1>1. ASSUME Finish(r, req[r]) PROVE req'[r].pc = "answered"
  <2>1. req'[r] = [req[r] EXCEPT !.pc = "answered"]
    BY <1>0, <1>1, FinishEffect
  <2> QED
    BY <1>0, <2>1 DEF Request
<1>2. ASSUME NEW q, Go(r, q) PROVE req'[r] = q
  BY <1>0, <1>2, GoEffect
<1>giveUp. CASE GiveUp(r)
  BY <1>1, <1>giveUp DEF GiveUp
<1>reserve. CASE Reserve(r)
  <2>1. PICK cost \in Costs :
           \/ Finish(r, req[r])
           \/ Go(r, [req[r] EXCEPT !.pc = "queued", !.hold = cost + Gift(req[r].kind),
                                   !.window = Window.start])
    BY <1>reserve DEF Reserve
  <2>2. [req[r] EXCEPT !.pc = "queued", !.hold = cost + Gift(req[r].kind),
                       !.window = Window.start].pc = "queued"
    BY <1>0 DEF Request
  <2> QED
    BY <1>1, <1>2, <2>1, <2>2
<1>queue. CASE Queue(r)
  <2>1. PICK stage : Go(r, [req[r] EXCEPT !.pc = "queued", !.stage = stage])
    BY <1>queue DEF Queue
  <2>2. [req[r] EXCEPT !.pc = "queued", !.stage = stage].pc = "queued"
    BY <1>0 DEF Request
  <2> QED
    BY <1>2, <2>1, <2>2
<1>recovered. CASE Recovered(r)
  <2>1. [req[r] EXCEPT !.pc = "reading", !.stage = 2].pc = "reading"
    BY <1>0 DEF Request
  <2>2. Finish(r, req[r]) \/ Go(r, [req[r] EXCEPT !.pc = "reading", !.stage = 2])
    BY <1>recovered DEF Recovered
  <2> QED
    BY <1>1, <1>2, <2>1, <2>2
<1>forward. CASE ForwardShielded(r)
  <2>1. Go(r, [req[r] EXCEPT !.pc = "queued", !.stage = 2])
    BY <1>forward DEF ForwardShielded
  <2>2. [req[r] EXCEPT !.pc = "queued", !.stage = 2].pc = "queued"
    BY <1>0 DEF Request
  <2> QED
    BY <1>2, <2>1, <2>2
<1>answer. CASE AnswerShielded(r)
  BY <1>1, <1>answer DEF AnswerShielded
<1> QED
  BY <1>giveUp, <1>reserve, <1>queue, <1>recovered, <1>forward, <1>answer

\* An accepted send ends r's turn, except in a recovery job.
LEMMA AcceptEffect ==
    ASSUME RelayTypeOK, NEW r \in Handlers, Accept(r)
    PROVE  /\ ~Numbered(r)'
           /\ chain' = chain \/ ~Busy(r)'
<1>0. req \in [Handlers -> Request] /\ req[r] \in Request
  BY DEF RelayTypeOK
<1>1. req[r] \in Request
  BY <1>0 DEF Request
<1>2. CASE Go(r, [req[r] EXCEPT !.pc = "confirming"])
  <2>1. req'[r] = [req[r] EXCEPT !.pc = "confirming"]
    BY <1>0, <1>2, GoEffect
  <2>2. req'[r].pc = "confirming" /\ req'[r].kind = req[r].kind
    BY <1>1, <2>1 DEF Request
  <2>3. req[r].kind = "recovery" => chain' = chain
    BY DEF Accept
  <2> QED
    BY <2>2, <2>3 DEF Numbered, Busy
<1>3. CASE Finish(r, req[r])
  <2>1. req'[r] = [req[r] EXCEPT !.pc = "answered"]
    BY <1>0, <1>1, <1>3, FinishEffect
  <2>2. req'[r].pc = "answered"
    BY <1>1, <2>1 DEF Request
  <2> QED
    BY <2>2 DEF Numbered, Busy
<1> QED
  BY <1>2, <1>3 DEF Accept

\* Whoever is busy stays at the head until done.
LEMMA BusyServesStep ==
    ASSUME RelayTypeOK, BusyServes, [Next]_vars
    PROVE  BusyServes'
<1>1. ASSUME NEW r \in Requests, NEW kind \in Kinds, NEW a \in Addresses \cup {Null},
             Arrive(r, kind, a)
      PROVE  BusyServes'
  <2>1. ~Busy(r)' /\ r \in Handlers /\ \A s \in Handlers \ {r} : req'[s] = req[s]
    BY <1>1, ArriveEffect DEF Busy
  <2>2. chain' = chain
    BY <1>1 DEF Arrive, sends
  <2> QED
    BY <2>1, <2>2 DEF BusyServes, Busy, Serving
<1>2. ASSUME NEW r \in Ticks, StartTick(r) PROVE BusyServes'
  <2>1. ~Busy(r)' /\ r \in Handlers /\ \A s \in Handlers \ {r} : req'[s] = req[s]
    BY <1>2, TickEffect DEF Busy
  <2>2. chain' = chain
    BY <1>2 DEF StartTick, sends
  <2> QED
    BY <2>1, <2>2 DEF BusyServes, Busy, Serving
<1>3. ASSUME NEW r \in Handlers, Handler(r) PROVE BusyServes'
  <2>0. Proceeds(r) /\ req[r] \in Request
    BY <1>3, HandlerProceeds DEF RelayTypeOK
  <2>1. CASE GiveUp(r) \/ Reserve(r) \/ Queue(r) \/ ForwardShielded(r) \/ AnswerShielded(r)
    <3>1. chain' = chain \/ chain' = Append(chain, r)
      BY <2>1 DEF GiveUp, Reserve, Queue, ForwardShielded, AnswerShielded, sends
    <3>2. ~Busy(r)'
      BY <2>1, Unbusied
    <3> QED
      BY <2>0, <3>1, <3>2, BusyBehind
  <2>2. CASE Number(r)
    BY <2>2, <2>0, ServingFacts, BusyAtHead DEF Number
  <2>3. CASE Accept(r)
    BY <2>3, <2>0, ServingFacts, AcceptEffect, BusyAtHead
  <2>4. CASE Recovered(r)
    BY <2>4, <2>0, ServingFacts, Unbusied, BusyAtHead
  <2>5. CASE AcceptUnheard(r) \/ Refuse(r) \/ RecoveryFails(r)
    <3>1. \E q \in Request : Throw(r, q)
      BY <2>5, <2>0 DEF AcceptUnheard, Refuse, RecoveryFails
    <3>2. ~Busy(r)' /\ Serving(r)
      BY <3>1, <2>5, ThrowEnds, ServingFacts
    <3> QED
      BY <3>2, <2>0, BusyAtHead
  <2> QED
    BY <1>3, <2>1, <2>2, <2>3, <2>4, <2>5 DEF Handler
<1>4. CASE Mine \/ Elapse \/ UNCHANGED vars
  BY <1>4, WorldEffect DEF BusyServes, Busy, Serving
<1> QED
  BY <1>1, <1>2, <1>3, <1>4 DEF Next

-----------------------------------------------------------------------------
(* Numbers. *)

\* Nobody's number changes, nor what it is compared with.
LEMMA CountedKept ==
    ASSUME NEW k \in Nat, CountedTo(k),
           \A s \in Handlers : Numbered(s)' <=> Numbered(s),
           \A s \in Handlers : Numbered(s)' => req'[s] = req[s],
           UNCHANGED <<nextNonce, strayed, pool>>
    PROVE  CountedTo(k)'
BY DEF CountedTo, Swapping, UpTo

\* After a throw there is no number and no counter.
LEMMA CountedAfresh ==
    ASSUME NEW k \in Nat, pool' = UpTo(k), nextNonce' = Null,
           \A s \in Handlers : ~Numbered(s)'
    PROVE  CountedTo(k)'
BY DEF CountedTo, UpTo

\* While r is at work no other handler has a number.
LEMMA OneNumbered ==
    ASSUME RelayTypeOK, BusyServes, NEW r \in Handlers, Serving(r), Proceeds(r)
    PROVE  \A s \in Handlers \ {r} : ~Numbered(s) /\ ~Numbered(s)'
<1>1. \A s \in Handlers \ {r} : ~Numbered(s)
  BY DEF BusyServes, Busy, Numbered, Serving
<1> QED
  BY <1>1, OthersBusy

\* What the node accepts is the next transaction.
LEMMA AcceptedNext ==
    ASSUME NEW k \in Nat, CountedTo(k), NEW r \in Handlers, Accepted(r)
    PROVE  /\ req[r].nonce = k
           /\ pool' = UpTo(k + 1)
           /\ ~Swapping(r) => nextNonce = k + 1
<1>1. req[r].nonce \in Nat /\ req[r].nonce <= k /\ req[r].nonce \notin UpTo(k)
      /\ pool = UpTo(k) /\ pool' = pool \cup {req[r].nonce}
      /\ (~Swapping(r) => nextNonce = req[r].nonce + 1)
  BY DEF Accepted, CountedTo, Numbered
<1>2. req[r].nonce = k
  BY <1>1 DEF UpTo
<1>3. UpTo(k) \cup {k} = UpTo(k + 1)
  BY DEF UpTo
<1> QED
  BY <1>1, <1>2, <1>3

\* Drawing a number, from the counter or from the node.
LEMMA NumberCounted ==
    ASSUME RelayTypeOK, NEW k \in Nat, CountedTo(k), NEW r \in Handlers, Number(r),
           \A s \in Handlers \ {r} : ~Numbered(s) /\ ~Numbered(s)'
    PROVE  CountedTo(k)'
<1> DEFINE n == IF nextNonce = Null \/ Swapping(r) THEN PendingCount ELSE nextNonce
           q == [req[r] EXCEPT !.pc = "numbered", !.nonce = n]
<1>1. /\ Go(r, q)
      /\ nextNonce' = IF Swapping(r) THEN nextNonce ELSE n + 1
      /\ strayed' = strayed /\ pool' = pool
      /\ req[r].pc = "queued"
  BY DEF Number, node
<1>2. req[r] \in Request /\ req \in [Handlers -> Request]
  BY DEF RelayTypeOK
<1>3. q.nonce = n /\ q.kind = req[r].kind /\ q.stage = req[r].stage
  BY <1>2 DEF Request
<1>4. req'[r] = q
  BY <1>1, <1>2, GoEffect
<1>5. Swapping(r)' <=> Swapping(r)
  BY <1>3, <1>4 DEF Swapping
<1>6. PendingCount = k
  BY PendingCountIs DEF CountedTo
<1>7. \A s \in Handlers : ~Numbered(s)
  BY <1>1 DEF Numbered
<1>8. nextNonce # Null => nextNonce \in Nat /\ nextNonce <= k /\ (~strayed => nextNonce = k)
  BY <1>7 DEF CountedTo, RelayTypeOK
<1>9. n \in Nat /\ n <= k /\ (~strayed => n = k)
  BY <1>6, <1>8
<1>10. req'[r].nonce = n
  BY <1>3, <1>4
<1> HIDE DEF n, q
<1>11. pool' = UpTo(k)
  BY <1>1 DEF CountedTo
<1>12. ASSUME NEW s \in Handlers, Numbered(s)'
       PROVE  /\ req'[s].nonce \in Nat /\ req'[s].nonce <= k
              /\ ~strayed' => req'[s].nonce = k
              /\ ~Swapping(s)' => nextNonce' = req'[s].nonce + 1
  <2>1. s = r
    BY <1>12
  <2> QED
    BY <2>1, <1>1, <1>5, <1>9, <1>10
<1>13. ASSUME nextNonce' # Null, \A s \in Handlers : Numbered(s)' => Swapping(s)'
       PROVE  nextNonce' <= k /\ (~strayed' => nextNonce' = k)
  <2>1. Numbered(r)'
    <3>1. q.pc = "numbered"
      BY <1>2 DEF Request, q
    <3> QED
      BY <3>1, <1>4 DEF Numbered
  <2>2. Swapping(r)
    BY <2>1, <1>13, <1>5
  <2> QED
    BY <2>2, <1>13, <1>1, <1>8
<1> QED
  BY <1>11, <1>12, <1>13 DEF CountedTo, UpTo

\* The node has one more, and a counter that knows of it agrees; a swap is what
\* the counter does not know of.
LEMMA AcceptCounted ==
    ASSUME RelayTypeOK, NEW k \in Nat, CountedTo(k), NEW r \in Handlers, Accept(r),
           \A s \in Handlers \ {r} : ~Numbered(s) /\ ~Numbered(s)'
    PROVE  CountedTo(k + 1)'
<1>1. Accepted(r) /\ nextNonce' = nextNonce
      /\ strayed' = (strayed \/ (Swapping(r) /\ nextNonce # Null))
  BY DEF Accept
<1>2. pool' = UpTo(k + 1) /\ (~Swapping(r) => nextNonce = k + 1)
  BY <1>1, AcceptedNext
<1>3. \A s \in Handlers : ~Numbered(s)'
  BY AcceptEffect
<1>4. ASSUME nextNonce' # Null PROVE nextNonce' <= k + 1 /\ (~strayed' => nextNonce' = k + 1)
  <2>1. CASE ~Swapping(r)
    BY <2>1, <1>1, <1>2
  <2>2. CASE Swapping(r)
    <3>1. \A s \in Handlers : Numbered(s) => Swapping(s)
      BY <2>2
    <3>2. nextNonce <= k /\ nextNonce \in Nat
      BY <3>1, <1>1, <1>4 DEF CountedTo, RelayTypeOK
    <3>3. strayed'
      BY <2>2, <1>1, <1>4
    <3> QED
      BY <3>2, <3>3, <1>1
  <2> QED
    BY <2>1, <2>2
<1> QED
  BY <1>2, <1>3, <1>4 DEF CountedTo, UpTo

\* Every action keeps the numbers in line.
LEMMA CountedStep ==
    ASSUME RelayTypeOK, BusyServes, Counted, [Next]_vars
    PROVE  Counted'
<1>0. PICK k \in Nat : CountedTo(k)
  BY DEF Counted
<1> SUFFICES \E n \in Nat : CountedTo(n)'
  BY DEF Counted
<1>1. ASSUME NEW r \in Requests, NEW kind \in Kinds, NEW a \in Addresses \cup {Null},
             Arrive(r, kind, a)
      PROVE  CountedTo(k)'
  <2>1. /\ r \in Handlers /\ ~Numbered(r) /\ ~Numbered(r)'
        /\ \A s \in Handlers \ {r} : req'[s] = req[s]
    BY <1>1, ArriveEffect DEF Numbered
  <2>2. UNCHANGED <<nextNonce, strayed, pool>>
    BY <1>1 DEF Arrive, sends, node
  <2> QED
    BY <2>1, <2>2, <1>0, CountedKept DEF Numbered
<1>2. ASSUME NEW r \in Ticks, StartTick(r) PROVE CountedTo(k)'
  <2>1. /\ r \in Handlers /\ ~Numbered(r) /\ ~Numbered(r)'
        /\ \A s \in Handlers \ {r} : req'[s] = req[s]
    BY <1>2, TickEffect DEF Numbered
  <2>2. UNCHANGED <<nextNonce, strayed, pool>>
    BY <1>2 DEF StartTick, sends, node
  <2> QED
    BY <2>1, <2>2, <1>0, CountedKept DEF Numbered
<1>3. ASSUME NEW r \in Handlers, Handler(r) PROVE \E n \in Nat : CountedTo(n)'
  <2>0. Proceeds(r) /\ req[r] \in Request
    BY <1>3, HandlerProceeds DEF RelayTypeOK
  <2>1. CASE \/ GiveUp(r) \/ Reserve(r) \/ Queue(r) \/ Recovered(r)
             \/ ForwardShielded(r) \/ AnswerShielded(r)
    <3>1. UNCHANGED <<nextNonce, strayed, pool>> /\ ~Numbered(r)
      BY <2>1 DEF GiveUp, Reserve, Queue, Recovered, ForwardShielded, AnswerShielded, Mined,
                  sends, node, Numbered
    <3>2. ~Numbered(r)'
      BY <2>1, Unbusied
    <3>3. \A s \in Handlers \ {r} : Numbered(s)' <=> Numbered(s)
      BY <2>0, OthersBusy
    <3>4. \A s \in Handlers \ {r} : Numbered(s)' => req'[s] = req[s]
      BY <2>0, OthersBusy DEF Busy, Numbered
    <3> QED
      BY <3>1, <3>2, <3>3, <3>4, <1>0, CountedKept
  <2>2. CASE Number(r)
    BY <2>2, <2>0, <1>0, ServingFacts, OneNumbered, NumberCounted
  <2>3. CASE Accept(r)
    <3>1. CountedTo(k + 1)'
      BY <2>3, <2>0, <1>0, ServingFacts, OneNumbered, AcceptCounted
    <3> QED
      BY <3>1
  <2>4. CASE AcceptUnheard(r) \/ Refuse(r) \/ RecoveryFails(r)
    <3>1. PICK q \in Request : Throw(r, q)
      BY <2>4, <2>0 DEF AcceptUnheard, Refuse, RecoveryFails
    <3>2. nextNonce' = Null
      BY <3>1 DEF Throw, Resynced
    <3>3. \A s \in Handlers : ~Numbered(s)'
      BY <3>1, <2>4, <2>0, ThrowEnds, ServingFacts, OneNumbered
    <3>4. CASE AcceptUnheard(r)
      <4>1. pool' = UpTo(k + 1)
        BY <3>4, <1>0, AcceptedNext DEF AcceptUnheard
      <4> QED
        BY <4>1, <3>2, <3>3, CountedAfresh
    <3>5. CASE Refuse(r) \/ RecoveryFails(r)
      <4>1. pool' = UpTo(k)
        BY <3>5, <1>0 DEF Refuse, RecoveryFails, node, CountedTo
      <4> QED
        BY <4>1, <3>2, <3>3, CountedAfresh
    <3> QED
      BY <2>4, <3>4, <3>5
  <2> QED
    BY <1>3, <2>1, <2>2, <2>3, <2>4 DEF Handler
<1>4. ASSUME Mine \/ Elapse \/ UNCHANGED vars PROVE CountedTo(k)'
  <2>1. UNCHANGED <<nextNonce, strayed, pool, req>>
    BY <1>4, WorldEffect DEF Mine, Elapse, vars, sends, node
  <2> QED
    BY <2>1, <1>0, CountedKept DEF Numbered
<1> QED
  BY <1>1, <1>2, <1>3, <1>4 DEF Next

-----------------------------------------------------------------------------
(* The theorems. *)

\* The invariant is inductive.
LEMMA Invariant == Spec => []RInv
<1>1. RInv /\ [Next]_vars => RInv'
  BY TypeStep, AskedStep, BusyServesStep, CountedStep, InFlightStep DEF RInv
<1> QED
  BY <1>1, Start, PTL DEF Spec

\* The relay's tables stay well formed whatever fails and however handlers
\* interleave: the budget never goes below zero, and the node is always asked
\* for a number that exists (reserveBudget, allocNonce).
THEOREM RelayTypesHold == Spec => []RelayTypeOK
<1>1. RInv => RelayTypeOK
  BY DEF RInv
<1> QED
  BY <1>1, Invariant, PTL

\* "a send that never landed must not leave a gap" (allocNonce), for any number
\* of requests, addresses and ticks, and any budget.
THEOREM NumbersHold == Spec => []NumbersFollow
<1>1. ASSUME RInv PROVE NumbersFollow
  <2>1. PICK k \in Nat : CountedTo(k)
    BY <1>1 DEF RInv, Counted
  <2> QED
    BY <2>1 DEF CountedTo, NumbersFollow, Numbered, UpTo
<1> QED
  BY <1>1, Invariant, PTL

\* Concurrent /fund calls of one address share one send, for any number of
\* calls and addresses.
THEOREM FundingsHold == Spec => []FundingsCoalesce
<1>1. ASSUME RInv PROVE FundingsCoalesce
  BY <1>1 DEF RInv, InFlight, FundingsCoalesce, Funds
<1> QED
  BY <1>1, Invariant, PTL

-----------------------------------------------------------------------------
(* The subsidy budget.  What a window has lent is a sum over the handlers, *)
(* which a step changes at one handler.                                    *)

HoldFor(q, w) == IF q.window = w THEN q.hold ELSE 0

LentIn(handlers, w) == [r \in Handlers |-> HoldFor(handlers[r], w)]

Lent(handlers, w) == SumFunction(LentIn(handlers, w))

LEMMA FiniteHandlers == IsFiniteSet(Handlers)
BY RelayAssumption, FS_Union DEF Handlers

LEMMA HoldForNat ==
    ASSUME NEW q \in Request, NEW w
    PROVE  HoldFor(q, w) \in Nat
<1> DEFINE h == q.hold
<1>1. h \in Nat
  BY DEF Request
<1>2. HoldFor(q, w) \in {h, 0}
  BY DEF HoldFor
<1> HIDE DEF h
<1> QED
  BY <1>1, <1>2

LEMMA LentInType ==
    ASSUME NEW f \in [Handlers -> Request], NEW w
    PROVE  LentIn(f, w) \in [Handlers -> Nat] /\ LentIn(f, w) \in [Handlers -> Int]
<1>1. \A r \in Handlers : HoldFor(f[r], w) \in Nat
  BY HoldForNat
<1> QED
  BY <1>1 DEF LentIn

\* A window has lent at least what any one handler holds of it.
LEMMA LentBounds ==
    ASSUME NEW f \in [Handlers -> Request], NEW w
    PROVE  /\ Lent(f, w) \in Nat
           /\ \A r \in Handlers : HoldFor(f[r], w) <= Lent(f, w)
<1> DEFINE F == LentIn(f, w)
<1>1. F \in [Handlers -> Nat] /\ \A r \in Handlers : F[r] = HoldFor(f[r], w)
  BY LentInType DEF LentIn
<1> HIDE DEF F
<1>2. SumFunction(F) \in Nat /\ \A r \in Handlers : F[r] <= SumFunction(F)
  BY <1>1, FiniteHandlers, SumBounds
<1> QED
  BY <1>1, <1>2 DEF Lent, F

\* Only handler r holds more or less.
LEMMA LentChange ==
    ASSUME NEW f \in [Handlers -> Request], NEW g \in [Handlers -> Request],
           NEW r \in Handlers, NEW w,
           \A s \in Handlers \ {r} : HoldFor(g[s], w) = HoldFor(f[s], w)
    PROVE  Lent(g, w) = Lent(f, w) + (HoldFor(g[r], w) - HoldFor(f[r], w))
<1> DEFINE F == LentIn(f, w)
           G == LentIn(g, w)
<1>1. /\ F \in [Handlers -> Int] /\ \A s \in Handlers : F[s] = HoldFor(f[s], w)
      /\ G \in [Handlers -> Int] /\ \A s \in Handlers : G[s] = HoldFor(g[s], w)
  BY LentInType DEF LentIn
<1> HIDE DEF F, G
<1>2. \A s \in Handlers \ {r} : G[s] = F[s]
  BY <1>1
<1>3. SumFunction(G) = SumFunction(F) + (G[r] - F[r])
  BY <1>1, <1>2, FiniteHandlers, SumChange
<1> QED
  BY <1>1, <1>3 DEF Lent, F, G

\* Nobody holds more or less.
LEMMA LentSame ==
    ASSUME NEW f, NEW g, NEW w, \A s \in Handlers : HoldFor(g[s], w) = HoldFor(f[s], w)
    PROVE  Lent(g, w) = Lent(f, w)
<1>1. LentIn(g, w) = LentIn(f, w)
  BY DEF LentIn
<1> QED
  BY <1>1 DEF Lent

\* Nobody holds anything of the window.
LEMMA LentNothing ==
    ASSUME NEW f \in [Handlers -> Request], NEW w, \A s \in Handlers : HoldFor(f[s], w) = 0
    PROVE  Lent(f, w) = 0
<1> DEFINE F == LentIn(f, w)
<1>1. F \in [Handlers -> Int] /\ \A r \in Handlers : F[r] = 0
  BY LentInType DEF LentIn
<1> HIDE DEF F
<1>2. SumFunction(F) = 0
  BY <1>1, FiniteHandlers, SumZero
<1> QED
  BY <1>2 DEF Lent, F

-----------------------------------------------------------------------------
\* Who has not asked, or asks at no one's expense, holds nothing; no hold is
\* of a window still to come; the account is what the window has lent.
Unlent ==
    \A r \in Handlers :
        req[r].pc \in {"idle", "reading"} \/ req[r].kind \notin Budgeted => req[r].hold = 0

Dated(b) == \A r \in Handlers : req[r].window <= b.start

Accounted(b) ==
    /\ b.spent = Lent(req, b.start)
    /\ PROFIT_GUARD => \A w \in Nat : Lent(req, w) <= GAS_BUDGET

BudgetInv == Unlent /\ Dated(budget) /\ Accounted(budget)

LEMMA BudgetInvImplies == BudgetInv => BudgetKept
<1>1. \A w : Lent(req, w) = SumFunction([r \in Handlers |->
                      IF req[r].window = w THEN req[r].hold ELSE 0])
  BY DEF Lent, LentIn, HoldFor
<1> QED
  BY <1>1 DEF BudgetInv, Accounted, BudgetKept

LEMMA StartBudget == Init => BudgetInv
<1> SUFFICES ASSUME Init PROVE BudgetInv
  OBVIOUS
<1>1. req \in [Handlers -> Request] /\ budget.start = 0 /\ budget.spent = 0
  BY Start DEF RInv, RelayTypeOK, Init
<1>2. \A r \in Handlers : req[r].hold = 0 /\ req[r].window = 0
  BY DEF Init, NoRequest
<1>3. \A w : \A r \in Handlers : HoldFor(req[r], w) = 0
  BY <1>2 DEF HoldFor
<1>4. \A w : Lent(req, w) = 0
  BY <1>1, <1>3, LentNothing
<1>5. GAS_BUDGET \in Nat
  BY RelayAssumption
<1>6. Accounted(budget)
  BY <1>1, <1>4, <1>5 DEF Accounted
<1> QED
  BY <1>1, <1>2, <1>6 DEF BudgetInv, Unlent, Dated

\* Whoever looks at the window finds its account exact: nothing was lent yet
\* of one just opened.
LEMMA WindowAccounted ==
    ASSUME RelayTypeOK, BudgetInv
    PROVE  /\ Window \in [spent : Nat, start : Nat]
           /\ Dated(Window) /\ Accounted(Window)
<1>1. budget \in [spent : Nat, start : Nat] /\ req \in [Handlers -> Request]
  BY DEF RelayTypeOK
<1>2. \A r \in Handlers : req[r].window \in Nat
  BY <1>1 DEF Request
<1>3. CASE ~elapsed
  BY <1>1, <1>3 DEF Window, BudgetInv
<1>4. CASE elapsed
  <2> DEFINE n == budget.start + 1
  <2>1. n \in Nat /\ n > budget.start
    BY <1>1
  <2>2. Window = [spent |-> 0, start |-> n]
    BY <1>4 DEF Window
  <2>3. Window.spent = 0 /\ Window.start = n
    BY <2>2
  <2>4. \A r \in Handlers : req[r].window # n /\ req[r].window <= n
    BY <1>1, <1>2, <2>1 DEF BudgetInv, Dated
  <2> HIDE DEF n
  <2>5. \A r \in Handlers : HoldFor(req[r], n) = 0
    BY <2>4 DEF HoldFor
  <2>6. Lent(req, n) = 0
    BY <1>1, <2>5, LentNothing
  <2> QED
    BY <2>1, <2>2, <2>3, <2>4, <2>6 DEF Dated, Accounted, BudgetInv
<1> QED
  BY <1>3, <1>4

\* A step that leaves the hold of s alone, and one that begins with s.
Begins(pc) == pc \in {"idle", "reading"}

SameHold(s) ==
    /\ req'[s].hold = req[s].hold /\ req'[s].window = req[s].window
    /\ req'[s].kind = req[s].kind
    /\ Begins(req'[s].pc) => Begins(req[s].pc) \/ req[s].kind = "recovery"

Blank(s) == req[s].pc = "idle" /\ req'[s].hold = 0 /\ req'[s].window = 0

LEMMA SameUnlent ==
    ASSUME Unlent, NEW s \in Handlers, SameHold(s)
    PROVE  Begins(req'[s].pc) \/ req'[s].kind \notin Budgeted => req'[s].hold = 0
<1>1. "recovery" \notin Budgeted
  BY DEF Budgeted
<1> QED
  BY <1>1 DEF Unlent, SameHold, Begins

\* Nobody is lent anything and nothing is returned.
LEMMA QuietStep ==
    ASSUME RelayTypeOK, BudgetInv, budget' \in [spent : Nat, start : Nat],
           budget' = budget \/ budget' = Window,
           \A s \in Handlers : SameHold(s) \/ Blank(s)
    PROVE  BudgetInv'
<1>1. /\ budget' \in [spent : Nat, start : Nat]
      /\ Dated(budget') /\ Accounted(budget')
  BY WindowAccounted DEF BudgetInv
<1>2. ASSUME NEW s \in Handlers, Blank(s) PROVE req[s].hold = 0
  BY <1>2 DEF Blank, BudgetInv, Unlent
<1>3. \A s \in Handlers, w \in Nat : HoldFor(req'[s], w) = HoldFor(req[s], w)
  BY <1>2 DEF HoldFor, SameHold, Blank
<1>4. ASSUME NEW w \in Nat PROVE Lent(req', w) = Lent(req, w)
  BY <1>3, LentSame
<1>5. budget'.start \in Nat
  BY <1>1
<1>6. \A r \in Handlers : req'[r].window <= budget'.start
  BY <1>1, <1>5 DEF Dated, SameHold, Blank
<1>7. /\ budget'.spent = Lent(req', budget'.start)
      /\ PROFIT_GUARD => \A w \in Nat : Lent(req', w) <= GAS_BUDGET
  BY <1>1, <1>4, <1>5 DEF Accounted
<1>8. Unlent'
  BY SameUnlent DEF BudgetInv, Unlent, Begins, Blank
<1> QED
  BY <1>6, <1>7, <1>8 DEF BudgetInv, Dated, Accounted

\* reserveBudget: the handler holds what the window lends.
LEMMA LendStep ==
    ASSUME RelayTypeOK, RelayTypeOK', BudgetInv, NEW r \in Handlers, NEW wei \in Nat,
           Begins(req[r].pc), \A s \in Handlers \ {r} : SameHold(s),
           req'[r].hold = wei, req'[r].window = Window.start,
           req'[r].pc = "queued", req'[r].kind \in Budgeted,
           budget'.start = Window.start, budget'.spent = Window.spent + wei,
           PROFIT_GUARD => WithinBudget(wei)
    PROVE  BudgetInv'
<1> DEFINE n == Window.start
<1>1. req \in [Handlers -> Request] /\ req' \in [Handlers -> Request]
  BY DEF RelayTypeOK
<1>2. /\ Window \in [spent : Nat, start : Nat]
      /\ Dated(Window) /\ Accounted(Window)
  BY WindowAccounted
<1>3. n \in Nat /\ Window.spent \in Nat
  BY <1>2
<1>4. \A w \in Nat : HoldFor(req[r], w) = 0
  BY DEF BudgetInv, Unlent, Begins, HoldFor
<1>5. \A w \in Nat : HoldFor(req'[r], w) = IF w = n THEN wei ELSE 0
  BY DEF HoldFor
<1> HIDE DEF n
<1>6. ASSUME NEW w \in Nat
      PROVE  Lent(req', w) = Lent(req, w) + (IF w = n THEN wei ELSE 0)
  <2>1. \A s \in Handlers \ {r} : HoldFor(req'[s], w) = HoldFor(req[s], w)
    BY DEF SameHold, HoldFor
  <2>2. Lent(req', w) = Lent(req, w) + (HoldFor(req'[r], w) - HoldFor(req[r], w))
    BY <1>1, <2>1, LentChange
  <2>3. Lent(req, w) \in Nat
    BY <1>1, LentBounds
  <2> QED
    BY <1>4, <1>5, <2>2, <2>3
<1>7. \A w \in Nat : Lent(req, w) \in Nat
  BY <1>1, LentBounds
<1>8. Lent(req', n) = Window.spent + wei
  BY <1>2, <1>3, <1>6 DEF Accounted, n
<1>9. ASSUME PROFIT_GUARD, NEW w \in Nat PROVE Lent(req', w) <= GAS_BUDGET
  <2>1. CASE w = n
    BY <1>8, <1>9, <2>1 DEF WithinBudget
  <2>2. CASE w # n
    BY <1>2, <1>6, <1>7, <1>9, <2>2 DEF Accounted
  <2> QED
    BY <2>1, <2>2
<1>10. \A s \in Handlers : req'[s].window <= budget'.start
  <2>1. \A s \in Handlers \ {r} : req'[s].window <= Window.start
    BY <1>2 DEF Dated, SameHold
  <2> QED
    BY <1>3, <2>1 DEF n
<1>11. Unlent'
  <2>1. ~Begins(req'[r].pc)
    BY DEF Begins
  <2> QED
    BY <2>1, SameUnlent DEF BudgetInv, Unlent, Begins
<1> QED
  BY <1>8, <1>9, <1>10, <1>11 DEF BudgetInv, Dated, Accounted, n

\* A job that throws returns what its window lent, if that window is open.
LEMMA ReturnStep ==
    ASSUME RelayTypeOK, RelayTypeOK', BudgetInv, NEW r \in Handlers,
           \A s \in Handlers \ {r} : SameHold(s),
           req'[r].hold = 0, req'[r].window = req[r].window,
           budget'.start = budget.start, budget'.spent = Released(req[r])
    PROVE  BudgetInv'
<1> DEFINE n == budget.start
           h == req[r].hold
<1>1. req \in [Handlers -> Request] /\ req' \in [Handlers -> Request]
  BY DEF RelayTypeOK
<1>2. n \in Nat /\ budget.spent \in Nat /\ h \in Nat
  BY <1>1 DEF RelayTypeOK, Request
<1>3. \A w \in Nat : HoldFor(req'[r], w) = 0 /\ HoldFor(req[r], w) \in Nat
  BY <1>1, HoldForNat DEF HoldFor
<1>4. ASSUME NEW w \in Nat
      PROVE  /\ Lent(req', w) = Lent(req, w) - HoldFor(req[r], w)
             /\ Lent(req, w) \in Nat /\ HoldFor(req[r], w) <= Lent(req, w)
  <2>1. \A s \in Handlers \ {r} : HoldFor(req'[s], w) = HoldFor(req[s], w)
    BY DEF SameHold, HoldFor
  <2>2. Lent(req', w) = Lent(req, w) + (HoldFor(req'[r], w) - HoldFor(req[r], w))
    BY <1>1, <2>1, LentChange
  <2>3. Lent(req, w) \in Nat /\ HoldFor(req[r], w) <= Lent(req, w)
    BY <1>1, LentBounds
  <2> QED
    BY <1>3, <2>2, <2>3
<1>5. HoldFor(req[r], n) = IF req[r].window = n THEN h ELSE 0
  BY DEF HoldFor
<1>6. budget.spent = Lent(req, n)
  BY DEF BudgetInv, Accounted
<1>7. Released(req[r]) = IF n # req[r].window THEN budget.spent
                         ELSE IF budget.spent < h THEN 0 ELSE budget.spent - h
  BY DEF Released
<1>8. PROFIT_GUARD => \A w \in Nat : Lent(req, w) <= GAS_BUDGET
  BY DEF BudgetInv, Accounted
<1>9. GAS_BUDGET \in Nat
  BY RelayAssumption
<1> HIDE DEF n, h
<1>10. Released(req[r]) = Lent(req', n)
  BY <1>2, <1>4, <1>5, <1>6, <1>7
<1>11. PROFIT_GUARD => \A w \in Nat : Lent(req', w) <= GAS_BUDGET
  BY <1>3, <1>4, <1>8, <1>9
<1>12. Dated(budget)'
  BY DEF BudgetInv, Dated, SameHold
<1>13. Unlent'
  BY SameUnlent DEF BudgetInv, Unlent, Begins
<1> QED
  BY <1>10, <1>11, <1>12, <1>13 DEF BudgetInv, Accounted, n

\* Ending a handler, and going on, as far as holds are concerned.
LEMMA FinishHolds ==
    ASSUME RelayTypeOK, NEW r \in Handlers, NEW q \in Request, Finish(r, q)
    PROVE  /\ \A s \in Handlers \ {r} : SameHold(s)
           /\ req'[r].hold = q.hold /\ req'[r].window = q.window
           /\ req'[r].kind = q.kind /\ req'[r].pc = "answered"
<1>1. req \in [Handlers -> Request]
  BY DEF RelayTypeOK
<1>2. /\ req'[r] = [q EXCEPT !.pc = "answered"]
      /\ \A s \in Handlers \ {r} :
            req'[s] = [req[s] EXCEPT !.pc = "answered"] \/ req'[s] = req[s]
  BY <1>1, FinishEffect
<1>3. ASSUME NEW p \in Request
      PROVE  LET e == [p EXCEPT !.pc = "answered"] IN
             e.hold = p.hold /\ e.window = p.window /\ e.kind = p.kind /\ e.pc = "answered"
  BY DEF Request
<1>4. ASSUME NEW s \in Handlers \ {r} PROVE SameHold(s)
  <2>1. CASE req'[s] = req[s]
    BY <2>1 DEF SameHold
  <2>2. CASE req'[s] = [req[s] EXCEPT !.pc = "answered"]
    BY <1>1, <1>3, <2>2 DEF SameHold, Begins
  <2> QED
    BY <1>2, <2>1, <2>2
<1> QED
  BY <1>2, <1>3, <1>4

LEMMA FinishSame ==
    ASSUME RelayTypeOK, NEW r \in Handlers, Finish(r, req[r])
    PROVE  \A s \in Handlers : SameHold(s)
<1>1. req[r] \in Request
  BY DEF RelayTypeOK
<1>2. /\ \A s \in Handlers \ {r} : SameHold(s)
      /\ req'[r].hold = req[r].hold /\ req'[r].window = req[r].window
      /\ req'[r].kind = req[r].kind /\ req'[r].pc = "answered"
  BY <1>1, FinishHolds
<1> QED
  BY <1>2 DEF SameHold, Begins

LEMMA GoSame ==
    ASSUME RelayTypeOK, NEW r \in Handlers, NEW q, Go(r, q),
           q.hold = req[r].hold, q.window = req[r].window, q.kind = req[r].kind,
           Begins(q.pc) => req[r].kind = "recovery"
    PROVE  \A s \in Handlers : SameHold(s)
<1>1. req'[r] = q /\ \A s \in Handlers \ {r} : req'[s] = req[s]
  BY GoEffect DEF RelayTypeOK
<1> QED
  BY <1>1 DEF SameHold

\* The fields of a record as the handlers write it.
LEMMA WrittenFields ==
    ASSUME NEW q \in Request, NEW pc, NEW stage, NEW n
    PROVE  /\ LET e == [q EXCEPT !.pc = pc] IN
              e.hold = q.hold /\ e.window = q.window /\ e.kind = q.kind /\ e.pc = pc
           /\ LET e == [q EXCEPT !.pc = pc, !.stage = stage] IN
              e.hold = q.hold /\ e.window = q.window /\ e.kind = q.kind /\ e.pc = pc
           /\ LET e == [q EXCEPT !.pc = pc, !.nonce = n] IN
              e.hold = q.hold /\ e.window = q.window /\ e.kind = q.kind /\ e.pc = pc
BY DEF Request

LEMMA ThrowBudget ==
    ASSUME RelayTypeOK, RelayTypeOK', BudgetInv, NEW r \in Handlers, Throw(r, req[r])
    PROVE  BudgetInv'
<1> DEFINE q == [req[r] EXCEPT !.hold = 0]
<1>1. q \in Request /\ q.hold = 0 /\ q.window = req[r].window
  BY DEF RelayTypeOK, Request
<1>2. Finish(r, q) /\ budget' = [budget EXCEPT !.spent = Released(req[r])]
  BY DEF Throw
<1>3. budget'.start = budget.start /\ budget'.spent = Released(req[r])
  BY <1>2 DEF RelayTypeOK
<1> HIDE DEF q
<1>4. /\ \A s \in Handlers \ {r} : SameHold(s)
      /\ req'[r].hold = 0 /\ req'[r].window = req[r].window
  BY <1>1, <1>2, FinishHolds
<1> QED
  BY <1>3, <1>4, ReturnStep

LEMMA ReserveBudget ==
    ASSUME RelayTypeOK, RelayTypeOK', BudgetInv, NEW r \in Handlers, Reserve(r)
    PROVE  BudgetInv'
<1>1. PICK cost \in Costs :
          LET wei == cost + Gift(req[r].kind) IN
          IF PROFIT_GUARD /\ ~WithinBudget(wei)
            THEN Finish(r, req[r]) /\ budget' = Window
            ELSE /\ Go(r, [req[r] EXCEPT !.pc = "queued", !.hold = wei,
                                         !.window = Window.start])
                 /\ budget' = [Window EXCEPT !.spent = @ + wei]
  BY DEF Reserve
<1> DEFINE wei == cost + Gift(req[r].kind)
           q == [req[r] EXCEPT !.pc = "queued", !.hold = wei, !.window = Window.start]
<1>2. wei \in Nat
  BY RelayAssumption DEF Gift
<1>3. req[r] \in Request /\ req[r].pc = "reading" /\ req[r].kind \in Budgeted
  BY DEF RelayTypeOK, Reserve
<1>4. Window \in [spent : Nat, start : Nat]
  BY WindowAccounted
<1> HIDE DEF wei
<1>5. CASE PROFIT_GUARD /\ ~WithinBudget(wei)
  <2>1. Finish(r, req[r]) /\ budget' = Window
    BY <1>1, <1>5 DEF wei
  <2> QED
    BY <1>4, <2>1, FinishSame, QuietStep
<1>6. CASE ~(PROFIT_GUARD /\ ~WithinBudget(wei))
  <2>1. Go(r, q) /\ budget' = [Window EXCEPT !.spent = @ + wei]
    BY <1>1, <1>6 DEF wei
  <2>2. budget'.start = Window.start /\ budget'.spent = Window.spent + wei
    BY <1>4, <2>1
  <2>3. /\ q.hold = wei /\ q.window = Window.start /\ q.pc = "queued"
        /\ q.kind = req[r].kind
    BY <1>3 DEF Request
  <2> HIDE DEF q
  <2>4. req'[r] = q /\ \A s \in Handlers \ {r} : req'[s] = req[s]
    BY <2>1, GoEffect DEF RelayTypeOK
  <2>5. \A s \in Handlers \ {r} : SameHold(s)
    BY <2>4 DEF SameHold
  <2> QED
    BY <1>2, <1>3, <1>6, <2>2, <2>3, <2>4, <2>5, LendStep DEF Begins
<1> QED
  BY <1>5, <1>6

\* Every other step of a handler neither lends nor returns.
LEMMA HandlerBudget ==
    ASSUME RelayTypeOK, RelayTypeOK', BudgetInv, NEW r \in Handlers, Handler(r)
    PROVE  BudgetInv'
<1>0. req[r] \in Request /\ budget \in [spent : Nat, start : Nat]
  BY DEF RelayTypeOK
<1>quiet. ASSUME budget' = budget, \A s \in Handlers : SameHold(s) PROVE BudgetInv'
  BY <1>0, <1>quiet, QuietStep
<1>giveUp. CASE GiveUp(r)
  BY <1>giveUp, <1>quiet, FinishSame DEF GiveUp, purse
<1>reserve. CASE Reserve(r)
  BY <1>reserve, ReserveBudget
<1>queue. CASE Queue(r)
  <2>1. PICK stage : Go(r, [req[r] EXCEPT !.pc = "queued", !.stage = stage])
    BY <1>queue DEF Queue
  <2> DEFINE q == [req[r] EXCEPT !.pc = "queued", !.stage = stage]
  <2>2. q.hold = req[r].hold /\ q.window = req[r].window /\ q.kind = req[r].kind
        /\ ~Begins(q.pc)
    BY <1>0, WrittenFields DEF Begins
  <2> HIDE DEF q
  <2>3. \A s \in Handlers : SameHold(s)
    BY <2>1, <2>2, GoSame DEF q
  <2> QED
    BY <1>queue, <1>quiet, <2>3 DEF Queue, purse
<1>number. CASE Number(r)
  <2>1. PICK n : Go(r, [req[r] EXCEPT !.pc = "numbered", !.nonce = n])
    BY <1>number DEF Number
  <2> DEFINE q == [req[r] EXCEPT !.pc = "numbered", !.nonce = n]
  <2>2. q.hold = req[r].hold /\ q.window = req[r].window /\ q.kind = req[r].kind
        /\ ~Begins(q.pc)
    BY <1>0, WrittenFields DEF Begins
  <2> HIDE DEF q
  <2>3. \A s \in Handlers : SameHold(s)
    BY <2>1, <2>2, GoSame DEF q
  <2> QED
    BY <1>number, <1>quiet, <2>3 DEF Number, purse
<1>accept. CASE Accept(r)
  <2> DEFINE q == [req[r] EXCEPT !.pc = "confirming"]
  <2>1. q.hold = req[r].hold /\ q.window = req[r].window /\ q.kind = req[r].kind
        /\ ~Begins(q.pc)
    BY <1>0, WrittenFields DEF Begins
  <2>2. Go(r, q) \/ Finish(r, req[r])
    BY <1>accept DEF Accept
  <2> HIDE DEF q
  <2>3. \A s \in Handlers : SameHold(s)
    BY <2>1, <2>2, GoSame, FinishSame
  <2> QED
    BY <1>accept, <1>quiet, <2>3 DEF Accept, purse
<1>throw. CASE AcceptUnheard(r) \/ Refuse(r) \/ RecoveryFails(r)
  BY <1>throw, ThrowBudget DEF AcceptUnheard, Refuse, RecoveryFails
<1>recovered. CASE Recovered(r)
  <2> DEFINE q == [req[r] EXCEPT !.pc = "reading", !.stage = 2]
  <2>1. /\ q.hold = req[r].hold /\ q.window = req[r].window /\ q.kind = req[r].kind
        /\ req[r].kind = "recovery"
    BY <1>0, <1>recovered, WrittenFields DEF Recovered
  <2>2. Go(r, q) \/ Finish(r, req[r])
    BY <1>recovered DEF Recovered
  <2> HIDE DEF q
  <2>3. \A s \in Handlers : SameHold(s)
    BY <2>1, <2>2, GoSame, FinishSame
  <2> QED
    BY <1>recovered, <1>quiet, <2>3 DEF Recovered, purse
<1>forward. CASE ForwardShielded(r)
  <2> DEFINE q == [req[r] EXCEPT !.pc = "queued", !.stage = 2]
  <2>1. q.hold = req[r].hold /\ q.window = req[r].window /\ q.kind = req[r].kind
        /\ ~Begins(q.pc)
    BY <1>0, WrittenFields DEF Begins
  <2>2. Go(r, q)
    BY <1>forward DEF ForwardShielded
  <2> HIDE DEF q
  <2>3. \A s \in Handlers : SameHold(s)
    BY <2>1, <2>2, GoSame
  <2> QED
    BY <1>forward, <1>quiet, <2>3 DEF ForwardShielded, purse
<1>answer. CASE AnswerShielded(r)
  BY <1>answer, <1>quiet, FinishSame DEF AnswerShielded, purse
<1> QED
  BY <1>giveUp, <1>reserve, <1>queue, <1>number, <1>accept, <1>throw,
     <1>recovered, <1>forward, <1>answer DEF Handler

\* An arrival starts with nothing on hold.
LEMMA ArrivalHolds ==
    ASSUME RelayTypeOK,
           \/ \E r \in Requests, kind \in Kinds, a \in Addresses \cup {Null} : Arrive(r, kind, a)
           \/ \E r \in Ticks : StartTick(r)
    PROVE  UNCHANGED budget /\ \A s \in Handlers : SameHold(s) \/ Blank(s)
<1>0. ASSUME NEW s \in Handlers, req'[s] = req[s] PROVE SameHold(s)
  BY <1>0 DEF SameHold
<1>1. ASSUME NEW r \in Requests, NEW kind \in Kinds, NEW a \in Addresses \cup {Null},
             Arrive(r, kind, a)
      PROVE  UNCHANGED budget /\ \A s \in Handlers : SameHold(s) \/ Blank(s)
  <2> DEFINE q(pc) == [NoRequest EXCEPT !.kind = kind, !.address = a, !.pc = pc]
  <2>1. \A pc : q(pc).hold = 0 /\ q(pc).window = 0
    BY DEF NoRequest
  <2>2. r \in Handlers /\ req[r].pc = "idle" /\ UNCHANGED budget
    BY <1>1 DEF Arrive, Handlers, purse
  <2>3. req \in [Handlers -> Request]
    BY DEF RelayTypeOK
  <2>4. \E pc : req' = [req EXCEPT ![r] = q(pc)]
    <3>1. CASE kind = "fund"
      BY <1>1, <3>1 DEF Arrive
    <3>2. CASE kind # "fund"
      BY <1>1, <3>2 DEF Arrive, Go
    <3> QED
      BY <3>1, <3>2
  <2> HIDE DEF q
  <2>5. Blank(r) /\ \A s \in Handlers \ {r} : req'[s] = req[s]
    BY <2>1, <2>2, <2>3, <2>4 DEF Blank
  <2> QED
    BY <1>0, <2>2, <2>5
<1>2. ASSUME NEW r \in Ticks, StartTick(r)
      PROVE  UNCHANGED budget /\ \A s \in Handlers : SameHold(s) \/ Blank(s)
  <2> DEFINE q == [NoRequest EXCEPT !.kind = "recovery", !.pc = "reading"]
  <2>1. q.hold = 0 /\ q.window = 0
    BY DEF NoRequest
  <2>2. r \in Handlers /\ req[r].pc = "idle" /\ Go(r, q) /\ UNCHANGED budget
    BY <1>2 DEF StartTick, Handlers, purse
  <2> HIDE DEF q
  <2>3. req'[r] = q /\ \A s \in Handlers \ {r} : req'[s] = req[s]
    BY <2>2, GoEffect DEF RelayTypeOK
  <2> QED
    BY <1>0, <2>1, <2>2, <2>3 DEF Blank
<1> QED
  BY <1>1, <1>2

LEMMA NextBudget ==
    ASSUME RelayTypeOK, RelayTypeOK', BudgetInv, [Next]_vars
    PROVE  BudgetInv'
<1>1. ASSUME NEW r \in Handlers, Handler(r) PROVE BudgetInv'
  BY <1>1, HandlerBudget
<1>2. budget \in [spent : Nat, start : Nat]
  BY DEF RelayTypeOK
<1>3. CASE \/ \E r \in Requests, kind \in Kinds, a \in Addresses \cup {Null} : Arrive(r, kind, a)
           \/ \E r \in Ticks : StartTick(r)
  BY <1>2, <1>3, ArrivalHolds, QuietStep
<1>4. CASE Mine \/ Elapse \/ UNCHANGED vars
  <2>1. UNCHANGED budget /\ \A s \in Handlers : SameHold(s)
    BY <1>4 DEF Mine, Elapse, vars, purse, SameHold
  <2> QED
    BY <1>2, <2>1, QuietStep
<1> QED
  BY <1>1, <1>3, <1>4 DEF Next

\* The subsidy account follows what is under way and what was sent, and no
\* window lends more than the budget: for any number of requests, any costs
\* and any gifts, however sends fail and windows roll over in between.
THEOREM BudgetHolds == Spec => []BudgetKept
<1>1. RInv => RelayTypeOK
  BY DEF RInv
<1>2. Spec => []RelayTypeOK
  BY <1>1, Invariant, PTL
<1>3. RelayTypeOK /\ RelayTypeOK' /\ BudgetInv /\ [Next]_vars => BudgetInv'
  BY NextBudget
<1>4. Spec => []BudgetInv
  BY <1>2, <1>3, StartBudget, PTL DEF Spec
<1> QED
  BY <1>4, BudgetInvImplies, PTL

-----------------------------------------------------------------------------
(* Nobody is stuck: the half of RequestsAnswered that is not about time.   *)

\* A handler that is in the chain of sends.
Waits(r) == req[r].pc = "queued" \/ Busy(r)

\* Who waits for the chain is in it, once, and nobody else is.
LineInv ==
    /\ \A i, j \in 1..Len(chain) : chain[i] = chain[j] => i = j
    /\ \A i \in 1..Len(chain) : Waits(chain[i])
    /\ \A r \in Handlers : Waits(r) => \E i \in 1..Len(chain) : chain[i] = r

\* Who waits for a receipt has a transaction, and does something with the receipt.
Confirmed(r) ==
    req[r].pc = "confirming" =>
        req[r].kind \in {"recovery", "shield", "awaited"} /\ req[r].nonce \in pool

Confirms == \A r \in Handlers : Confirmed(r)

LEMMA LineStays ==
    ASSUME LineInv, chain' = chain, \A s \in Handlers : Waits(s)' <=> Waits(s),
           chain \in Seq(Handlers)
    PROVE  LineInv'
<1>1. \A i \in 1..Len(chain) : chain[i] \in Handlers
  OBVIOUS
<1> QED
  BY <1>1 DEF LineInv

LEMMA LineGrows ==
    ASSUME LineInv, chain \in Seq(Handlers), NEW r \in Handlers, ~Waits(r), Waits(r)',
           chain' = Append(chain, r), \A s \in Handlers \ {r} : Waits(s)' <=> Waits(s)
    PROVE  LineInv'
<1>1. /\ Len(chain) \in Nat /\ Len(chain') = Len(chain) + 1
      /\ chain'[Len(chain) + 1] = r
      /\ \A i \in 1..Len(chain) : chain'[i] = chain[i] /\ chain[i] \in Handlers
  OBVIOUS
<1>2. \A i \in 1..Len(chain) : chain[i] # r /\ Waits(chain[i])
  BY DEF LineInv
<1>3. ASSUME NEW i \in 1..Len(chain'), NEW j \in 1..Len(chain'), chain'[i] = chain'[j]
      PROVE  i = j
  <2>1. i \in 1..Len(chain) \/ i = Len(chain) + 1
    BY <1>1
  <2>2. j \in 1..Len(chain) \/ j = Len(chain) + 1
    BY <1>1
  <2> QED
    BY <1>1, <1>2, <1>3, <2>1, <2>2 DEF LineInv
<1>4. ASSUME NEW i \in 1..Len(chain') PROVE Waits(chain[i])'
  <2>1. CASE i \in 1..Len(chain)
    <3>1. PICK s \in Handlers \ {r} : chain'[i] = s /\ Waits(s)
      BY <2>1, <1>1, <1>2
    <3>2. Waits(s)'
      BY <3>1
    <3> QED
      BY <3>1, <3>2 DEF Waits, Busy
  <2>2. CASE i = Len(chain) + 1
    <3>1. chain'[i] = r
      BY <2>2, <1>1
    <3> QED
      BY <3>1 DEF Waits, Busy
  <2> QED
    BY <1>1, <2>1, <2>2
<1>5. ASSUME NEW s \in Handlers, Waits(s)'
      PROVE  \E i \in 1..Len(chain') : chain'[i] = s
  <2>1. CASE s = r
    BY <2>1, <1>1
  <2>2. CASE s # r
    <3>1. PICK i \in 1..Len(chain) : chain[i] = s
      BY <2>2, <1>5 DEF LineInv
    <3> QED
      BY <3>1, <1>1
  <2> QED
    BY <2>1, <2>2
<1> QED
  BY <1>3, <1>4, <1>5 DEF LineInv

LEMMA LineShrinks ==
    ASSUME LineInv, chain \in Seq(Handlers), NEW r \in Handlers, Serving(r), ~Waits(r)',
           chain' = Tail(chain), \A s \in Handlers \ {r} : Waits(s)' <=> Waits(s)
    PROVE  LineInv'
<1>1. /\ Len(chain) \in Nat /\ Len(chain) >= 1 /\ Len(chain') = Len(chain) - 1
      /\ chain[1] = r
      /\ \A i \in 1..Len(chain') :
            chain'[i] = chain[i + 1] /\ i + 1 \in 1..Len(chain) /\ chain[i + 1] \in Handlers
  BY DEF Serving
<1>2. \A i \in 1..Len(chain') : chain[i + 1] # r
  BY <1>1 DEF LineInv
<1>3. ASSUME NEW i \in 1..Len(chain'), NEW j \in 1..Len(chain'), chain'[i] = chain'[j]
      PROVE  i = j
  <2>1. chain[i + 1] = chain[j + 1] /\ i + 1 \in 1..Len(chain) /\ j + 1 \in 1..Len(chain)
    BY <1>1, <1>3
  <2>2. i + 1 = j + 1
    BY <2>1 DEF LineInv
  <2> QED
    BY <2>2
<1>4. ASSUME NEW i \in 1..Len(chain') PROVE Waits(chain[i])'
  <2>1. PICK s \in Handlers \ {r} : chain'[i] = s /\ chain[i + 1] = s
    BY <1>1, <1>2
  <2>2. Waits(s)
    BY <2>1, <1>1 DEF LineInv
  <2>3. Waits(s)'
    BY <2>2
  <2> QED
    BY <2>1, <2>3 DEF Waits, Busy
<1>5. ASSUME NEW s \in Handlers, Waits(s)'
      PROVE  \E i \in 1..Len(chain') : chain'[i] = s
  <2>1. s # r
    BY <1>5
  <2>2. PICK i \in 1..Len(chain) : chain[i] = s
    BY <2>1, <1>5 DEF LineInv
  <2>3. i - 1 \in 1..Len(chain') /\ (i - 1) + 1 = i
    BY <2>1, <2>2, <1>1
  <2> QED
    BY <2>2, <2>3, <1>1
<1> QED
  BY <1>3, <1>4, <1>5 DEF LineInv

\* A step of r's handler brings nobody else into the chain or out of it, and lets
\* nobody else wait for a receipt.
LEMMA OthersWait ==
    ASSUME RelayTypeOK, NEW r \in Handlers, Proceeds(r), NEW s \in Handlers \ {r}
    PROVE  /\ Waits(s)' <=> Waits(s)
           /\ req'[s].pc = "confirming" => req'[s] = req[s]
<1>1. \/ req'[s] = req[s]
      \/ req[s].pc = "joined" /\ req'[s] = [req[s] EXCEPT !.pc = "answered"]
  BY DEF Proceeds
<1>2. CASE req'[s] = req[s]
  BY <1>2 DEF Waits, Busy
<1>3. CASE req[s].pc = "joined" /\ req'[s] = [req[s] EXCEPT !.pc = "answered"]
  BY <1>3 DEF Waits, Busy, RelayTypeOK, Request
<1> QED
  BY <1>1, <1>2, <1>3

\* What a step of r's handler does to the chain and to what r waits for.
Lines(r) ==
    \/ chain' = chain /\ (Waits(r)' <=> Waits(r))
    \/ chain' = Append(chain, r) /\ ~Waits(r) /\ Waits(r)'
    \/ chain' = Tail(chain) /\ Serving(r) /\ ~Waits(r)'

LEMMA ThrowLine ==
    ASSUME RelayTypeOK, NEW r \in Handlers, NEW q \in Request, Throw(r, q), Serving(r)
    PROVE  Lines(r) /\ req'[r].pc = "answered"
<1>1. [q EXCEPT !.hold = 0] \in Request /\ Finish(r, [q EXCEPT !.hold = 0])
  BY DEF Throw, Request
<1>2. req'[r] = [[q EXCEPT !.hold = 0] EXCEPT !.pc = "answered"]
  BY <1>1, FinishEffect DEF RelayTypeOK
<1>3. req'[r].pc = "answered"
  BY <1>1, <1>2 DEF Request
<1> QED
  BY <1>3 DEF Lines, Waits, Busy, Throw

LEMMA HandlerLine ==
    ASSUME RelayTypeOK, BusyServes, NEW r \in Handlers, Handler(r), Confirmed(r)
    PROVE  Lines(r) /\ Confirmed(r)'
<1>0. req \in [Handlers -> Request] /\ req[r] \in Request
  BY DEF RelayTypeOK
<1>1. ASSUME Finish(r, req[r]) PROVE req'[r].pc = "answered"
  <2>1. req'[r] = [req[r] EXCEPT !.pc = "answered"]
    BY <1>0, <1>1, FinishEffect
  <2> QED
    BY <1>0, <2>1 DEF Request
<1>2. ASSUME NEW q, Go(r, q) PROVE req'[r] = q
  BY <1>0, <1>2, GoEffect
<1>3. ASSUME req'[r].pc \in {"answered", "reading"}
      PROVE  ~Waits(r)' /\ Confirmed(r)'
  BY <1>3 DEF Waits, Busy, Confirmed
<1>4. ASSUME req'[r].pc \in {"queued", "numbered"}
      PROVE  Waits(r)' /\ Confirmed(r)'
  BY <1>4 DEF Waits, Busy, Confirmed
<1>giveUp. CASE GiveUp(r)
  <2>1. chain' = chain /\ Finish(r, req[r]) /\ ~Waits(r)
    BY <1>giveUp DEF GiveUp, sends, Waits, Busy
  <2> QED
    BY <2>1, <1>1, <1>3 DEF Lines
<1>reserve. CASE Reserve(r)
  <2>0. ~Waits(r)
    BY <1>reserve DEF Reserve, Waits, Busy
  <2>1. PICK cost \in Costs :
           \/ Finish(r, req[r]) /\ chain' = chain
           \/ /\ Go(r, [req[r] EXCEPT !.pc = "queued", !.hold = cost + Gift(req[r].kind),
                                      !.window = Window.start])
              /\ chain' = Append(chain, r)
    BY <1>reserve DEF Reserve
  <2>2. [req[r] EXCEPT !.pc = "queued", !.hold = cost + Gift(req[r].kind),
                       !.window = Window.start].pc = "queued"
    BY <1>0 DEF Request
  <2>3. CASE Finish(r, req[r]) /\ chain' = chain
    BY <2>0, <2>3, <1>1, <1>3 DEF Lines
  <2>4. CASE req'[r].pc = "queued" /\ chain' = Append(chain, r)
    BY <2>0, <2>4, <1>4 DEF Lines
  <2> QED
    BY <2>1, <2>2, <2>3, <2>4, <1>2
<1>queue. CASE Queue(r)
  <2>1. PICK stage : Go(r, [req[r] EXCEPT !.pc = "queued", !.stage = stage])
    BY <1>queue DEF Queue
  <2>2. [req[r] EXCEPT !.pc = "queued", !.stage = stage].pc = "queued"
    BY <1>0 DEF Request
  <2>3. ~Waits(r) /\ chain' = Append(chain, r)
    BY <1>queue DEF Queue, Waits, Busy
  <2> QED
    BY <2>1, <2>2, <2>3, <1>2, <1>4 DEF Lines
<1>number. CASE Number(r)
  <2>1. PICK n : Go(r, [req[r] EXCEPT !.pc = "numbered", !.nonce = n])
    BY <1>number DEF Number
  <2>2. [req[r] EXCEPT !.pc = "numbered", !.nonce = n].pc = "numbered"
    BY <1>0 DEF Request
  <2>3. Waits(r) /\ chain' = chain
    BY <1>number DEF Number, Waits
  <2> QED
    BY <2>1, <2>2, <2>3, <1>2, <1>4 DEF Lines
<1>accept. CASE Accept(r)
  <2>1. /\ Serving(r) /\ Waits(r) /\ req[r].nonce \in pool'
        /\ chain' = IF req[r].kind = "recovery" THEN chain ELSE Tail(chain)
        /\ IF AwaitsReceipt(req[r])
             THEN Go(r, [req[r] EXCEPT !.pc = "confirming"])
             ELSE Finish(r, req[r])
    BY <1>accept DEF Accept, Accepted, Waits, Busy
  <2>2. CASE /\ req[r].kind \in {"recovery", "shield", "awaited"}
             /\ Go(r, [req[r] EXCEPT !.pc = "confirming"])
    <3>1. req'[r] = [req[r] EXCEPT !.pc = "confirming"]
      BY <2>2, <1>2
    <3>2. req'[r].pc = "confirming" /\ req'[r].kind = req[r].kind /\ req'[r].nonce = req[r].nonce
      BY <3>1, <1>0 DEF Request
    <3> QED
      BY <2>1, <2>2, <3>2 DEF Lines, Waits, Busy, Confirmed
  <2>3. CASE req[r].kind # "recovery" /\ Finish(r, req[r])
    BY <2>1, <2>3, <1>1, <1>3 DEF Lines
  <2> QED
    BY <2>1, <2>2, <2>3 DEF AwaitsReceipt
<1>throw. CASE AcceptUnheard(r) \/ Refuse(r) \/ RecoveryFails(r)
  <2>1. Throw(r, req[r]) /\ Serving(r)
    BY <1>throw, ServingFacts DEF AcceptUnheard, Refuse, RecoveryFails
  <2>2. Lines(r) /\ req'[r].pc = "answered"
    BY <2>1, <1>0, ThrowLine
  <2> QED
    BY <2>2, <1>3
<1>recovered. CASE Recovered(r)
  <2>1. [req[r] EXCEPT !.pc = "reading", !.stage = 2].pc = "reading"
    BY <1>0 DEF Request
  <2>2. Finish(r, req[r]) \/ Go(r, [req[r] EXCEPT !.pc = "reading", !.stage = 2])
    BY <1>recovered DEF Recovered
  <2>3. chain' = Tail(chain) /\ Serving(r)
    BY <1>recovered, ServingFacts DEF Recovered
  <2>4. req'[r].pc \in {"answered", "reading"}
    BY <1>1, <1>2, <2>1, <2>2
  <2> QED
    BY <2>3, <2>4, <1>3 DEF Lines
<1>forward. CASE ForwardShielded(r)
  <2>1. Go(r, [req[r] EXCEPT !.pc = "queued", !.stage = 2])
    BY <1>forward DEF ForwardShielded
  <2>2. [req[r] EXCEPT !.pc = "queued", !.stage = 2].pc = "queued"
    BY <1>0 DEF Request
  <2>3. ~Waits(r) /\ chain' = Append(chain, r)
    BY <1>forward DEF ForwardShielded, Waits, Busy
  <2> QED
    BY <2>1, <2>2, <2>3, <1>2, <1>4 DEF Lines
<1>answer. CASE AnswerShielded(r)
  <2>1. chain' = chain /\ Finish(r, req[r]) /\ ~Waits(r)
    BY <1>answer DEF AnswerShielded, sends, Waits, Busy
  <2> QED
    BY <2>1, <1>1, <1>3 DEF Lines
<1> QED
  BY <1>giveUp, <1>reserve, <1>queue, <1>number, <1>accept, <1>throw, <1>recovered,
     <1>forward, <1>answer DEF Handler

\* No transaction leaves the pool.
LEMMA PoolGrows == [Next]_vars => pool \subseteq pool'
<1>1. ASSUME NEW r \in Handlers, Handler(r) PROVE pool \subseteq pool'
  BY <1>1 DEF Handler, GiveUp, Reserve, Queue, Number, Accept, AcceptUnheard, Refuse, Recovered,
              RecoveryFails, ForwardShielded, AnswerShielded, Accepted, sends, node
<1>2. ASSUME Next, ~\E r \in Handlers : Handler(r) PROVE pool \subseteq pool'
  BY <1>2 DEF Next, Arrive, StartTick, Mine, Elapse, sends, node
<1>3. CASE UNCHANGED vars
  BY <1>3 DEF vars
<1> QED
  BY <1>1, <1>2, <1>3

LEMMA LineStep ==
    ASSUME RelayTypeOK, BusyServes, LineInv, Confirms, [Next]_vars
    PROVE  LineInv' /\ Confirms'
<1>0. chain \in Seq(Handlers) /\ pool \subseteq pool'
  BY PoolGrows DEF RelayTypeOK
<1>1. ASSUME NEW r \in Handlers, ~Waits(r), ~Waits(r)', req'[r].pc # "confirming",
             \A s \in Handlers \ {r} : req'[s] = req[s], chain' = chain
      PROVE  LineInv' /\ Confirms'
  <2>1. \A s \in Handlers : Waits(s)' <=> Waits(s)
    BY <1>1 DEF Waits, Busy
  <2>2. Confirms'
    BY <1>0, <1>1 DEF Confirms, Confirmed
  <2> QED
    BY <2>1, <2>2, <1>0, <1>1, LineStays
<1>2. ASSUME NEW r \in Requests, NEW kind \in Kinds, NEW a \in Addresses \cup {Null},
             Arrive(r, kind, a)
      PROVE  LineInv' /\ Confirms'
  <2>1. /\ r \in Handlers /\ req[r].pc = "idle" /\ req'[r].pc \in {"joined", "reading", "answered"}
        /\ \A s \in Handlers \ {r} : req'[s] = req[s]
    BY <1>2, ArriveEffect
  <2>2. chain' = chain
    BY <1>2 DEF Arrive, sends
  <2> QED
    BY <2>1, <2>2, <1>1 DEF Waits, Busy
<1>3. ASSUME NEW r \in Ticks, StartTick(r) PROVE LineInv' /\ Confirms'
  <2>1. /\ r \in Handlers /\ req[r].pc = "idle" /\ req'[r].pc = "reading"
        /\ \A s \in Handlers \ {r} : req'[s] = req[s]
    BY <1>3, TickEffect
  <2>2. chain' = chain
    BY <1>3 DEF StartTick, sends
  <2> QED
    BY <2>1, <2>2, <1>1 DEF Waits, Busy
<1>4. ASSUME NEW r \in Handlers, Handler(r) PROVE LineInv' /\ Confirms'
  <2>1. Proceeds(r) /\ Lines(r) /\ Confirmed(r)'
    BY <1>4, HandlerProceeds, HandlerLine DEF Confirms
  <2>2. \A s \in Handlers \ {r} : Waits(s)' <=> Waits(s)
    BY <2>1, OthersWait
  <2>3. Confirms'
    <3>1. \A s \in Handlers \ {r} : req'[s].pc = "confirming" => req'[s] = req[s]
      BY <2>1, OthersWait
    <3> QED
      BY <3>1, <2>1, <1>0 DEF Confirms, Confirmed
  <2>4. CASE chain' = chain /\ (Waits(r)' <=> Waits(r))
    <3>1. \A s \in Handlers : Waits(s)' <=> Waits(s)
      BY <2>2, <2>4
    <3> QED
      BY <3>1, <2>3, <2>4, <1>0, LineStays
  <2>5. CASE chain' = Append(chain, r) /\ ~Waits(r) /\ Waits(r)'
    BY <2>2, <2>3, <2>5, <1>0, LineGrows
  <2>6. CASE chain' = Tail(chain) /\ Serving(r) /\ ~Waits(r)'
    BY <2>2, <2>3, <2>6, <1>0, LineShrinks
  <2> QED
    BY <2>1, <2>3, <2>4, <2>5, <2>6 DEF Lines
<1>5. CASE Mine \/ Elapse \/ UNCHANGED vars
  <2>1. req' = req /\ chain' = chain
    BY <1>5, WorldEffect
  <2> QED
    BY <2>1, <1>0, LineStays DEF Waits, Busy, Confirms, Confirmed
<1> QED
  BY <1>2, <1>3, <1>4, <1>5 DEF Next

\* A step of r's handler can be taken: what was read may be answered, the head of
\* the chain may be sent or fail, and a receipt is there.
Moves(r) ==
    \/ req[r].pc = "reading"
    \/ Serving(r) /\ req[r].pc \in {"queued", "numbered"}
    \/ Mined(r) /\ req[r].kind \in {"recovery", "shield", "awaited"}

\* Or the next block brings nearer the receipt it waits for.
Advances(r) == Moves(r) \/ (req[r].pc = "confirming" /\ mined \in pool)

\* Nobody waits in vain: not for the chain, whose head advances; not for a receipt,
\* since what lies between the last block and the transaction is in the pool;
\* and not for a funding, which someone works on.
NobodyStuck ==
    \A r \in Handlers :
        /\ req[r].pc \in {"reading", "confirming"} => Advances(r)
        /\ req[r].pc \in {"queued", "numbered"} => chain # <<>> /\ Advances(Head(chain))
        /\ req[r].pc = "joined" => \E s \in Handlers : Funds(s, req[r].address)

\* However sends fail, throw or go unheard, and however handlers interleave, every
\* unanswered request waits for one that can go on: no handler is left out of the
\* chain, or stays in it after it has ended ("serialize"), and no receipt waits
\* for a number that was never sent; for any number of requests and ticks.
THEOREM NoRequestIsStuck == Spec => []NobodyStuck
<1>1. Init => LineInv /\ Confirms
  BY DEF Init, LineInv, Confirms, Confirmed, Waits, Busy, NoRequest
<1>2. RInv /\ LineInv /\ Confirms /\ [Next]_vars => (LineInv /\ Confirms)'
  BY LineStep DEF RInv
<1>3. ASSUME RInv, LineInv, Confirms PROVE NobodyStuck
  <2> SUFFICES ASSUME NEW r \in Handlers
               PROVE  /\ req[r].pc \in {"reading", "confirming"} => Advances(r)
                      /\ req[r].pc \in {"queued", "numbered"} =>
                            chain # <<>> /\ Advances(Head(chain))
                      /\ req[r].pc = "joined" => \E s \in Handlers : Funds(s, req[r].address)
    BY DEF NobodyStuck
  <2>1. chain \in Seq(Handlers) /\ mined \in Nat
    BY <1>3 DEF RInv, RelayTypeOK
  <2>2. ASSUME NEW s \in Handlers, req[s].pc = "confirming" PROVE Advances(s)
    <3>1. PICK k \in Nat : pool = UpTo(k)
      BY <1>3 DEF RInv, Counted, CountedTo
    <3>2. req[s].kind \in {"recovery", "shield", "awaited"} /\ req[s].nonce \in pool
      BY <2>2, <1>3 DEF Confirms, Confirmed
    <3>3. req[s].nonce < mined \/ mined \in pool
      BY <3>1, <3>2, <2>1 DEF UpTo
    <3> QED
      BY <2>2, <3>2, <3>3 DEF Advances, Moves, Mined
  <2>3. ASSUME req[r].pc \in {"queued", "numbered"}
        PROVE  chain # <<>> /\ Advances(Head(chain))
    <3>1. PICK i \in 1..Len(chain) : chain[i] = r
      BY <2>3, <1>3 DEF LineInv, Waits, Busy
    <3>2. chain # <<>> /\ Head(chain) = chain[1] /\ 1 \in 1..Len(chain) /\ chain[1] \in Handlers
      BY <3>1, <2>1
    <3>3. PICK h \in Handlers : h = Head(chain) /\ Waits(h)
      BY <3>2, <1>3 DEF LineInv
    <3>4. Serving(h)
      BY <3>2, <3>3 DEF Serving
    <3>5. CASE req[h].pc \in {"queued", "numbered"}
      BY <3>2, <3>3, <3>4, <3>5 DEF Advances, Moves
    <3>6. CASE req[h].pc = "confirming"
      BY <3>2, <3>3, <3>6, <2>2
    <3> QED
      BY <3>3, <3>5, <3>6 DEF Waits, Busy
  <2>4. req[r].pc = "joined" => \E s \in Handlers : Funds(s, req[r].address)
    BY <1>3 DEF RInv, InFlight
  <2> QED
    BY <2>2, <2>3, <2>4 DEF Advances, Moves
<1>4. Spec => [](LineInv /\ Confirms)
  BY <1>1, <1>2, Invariant, PTL DEF Spec
<1> QED
  BY <1>3, <1>4, Invariant, PTL

-----------------------------------------------------------------------------
(* The replication agent.                                                  *)

Event == [venue : Venues, sort : {"VenueRegistered", "VenueMetadataUpdated"},
          near : BOOLEAN, menu : Nat]

\* A menu in the registry is the one of the venue's latest event.
Announced(v) ==
    LET b == venues[v].menu IN
    b # Local =>
        /\ b \in DOMAIN log /\ log[b].venue = v /\ log[b].menu = b
        /\ \A c \in DOMAIN log : log[c].venue = v => c <= b

RegistryInv ==
    /\ log \in Seq(Event)
    /\ venues \in [Venues -> [near : BOOLEAN, menu : Nat]]
    /\ \A v \in Venues : Announced(v)

ScanState == [at : {"idle", "page", "pin", "publish"}, events : SUBSET Nat, to : Nat,
              head : Nat, menu : Nat, global : BOOLEAN]

\* The blocks whose event the agent has read since it started and looked at,
\* or has found to be of no venue.
Considered(b) ==
    /\ START_BLOCK <= b /\ b \notin missed
    /\ b <= lastBlock \/ (b <= scan.to /\ b \notin scan.events)

\* The events of a page are looked at from the lowest block on, none is skipped
\* and none looked at lies behind the cursor.
CursorInv ==
    /\ scan \in ScanState
    /\ lastBlock \in Nat
    /\ lastBlock = START_BLOCK - 1 \/ (START_BLOCK <= lastBlock /\ lastBlock <= Len(log))
    /\ scan.at = "idle" => scan.to = 0 /\ scan.events = {}
    /\ scan.at # "idle" => /\ lastBlock <= scan.to
                           /\ scan.to <= scan.head /\ scan.head <= Len(log)
    /\ \A b \in scan.events : lastBlock < b /\ b <= scan.to
    /\ \A b \in Nat : lastBlock < b /\ Considered(b) => \A c \in scan.events : b < c

\* The agent knows the menu of each venue it has come to, and has pinned it, or
\* is about to, or failed to.
Handled(v) ==
    LET b == venues[v].menu IN
    b # Local /\ Considered(b) =>
        /\ v \in DOMAIN known /\ known[v].menu = b
        /\ known[v].near => \/ b \in pinned \cup failed
                            \/ scan.at = "pin" /\ scan.menu = b

ManifestInv ==
    /\ pinned \subseteq kept /\ manifest \subseteq kept
    /\ outdated \/ scan.at = "publish" \/ pinned \subseteq manifest

KnownInv == \A v \in DOMAIN known : known[v].near \in BOOLEAN

AgentInv ==
    /\ RegistryInv /\ CursorInv /\ KnownInv /\ ManifestInv
    /\ \A v \in Venues : Handled(v)

LEMMA MinIs ==
    ASSUME NEW S, S \subseteq Nat, S # {}
    PROVE  Min(S) \in S /\ \A c \in S : Min(S) <= c
BY LeastNat DEF Min

LEMMA AgentInit == MenusInit => AgentInv
<1> SUFFICES ASSUME MenusInit PROVE AgentInv
  OBVIOUS
<1> USE ReplicationAssumption
<1>1. RegistryInv
  BY DEF MenusInit, RegistryInv, NoVenue, Local, Announced, Event
<1>2. Len(log) = 0 /\ lastBlock = START_BLOCK - 1 /\ scan = Idle /\ missed = {}
  BY DEF MenusInit
<1>3. CursorInv
  BY <1>2 DEF CursorInv, ScanState, Idle, Local, Considered
<1>4. ManifestInv
  BY DEF MenusInit, ManifestInv
<1>5. \A v \in Venues : Handled(v)
  BY DEF MenusInit, Handled, NoVenue
<1> QED
  BY <1>1, <1>3, <1>4, <1>5 DEF AgentInv, KnownInv, MenusInit

-----------------------------------------------------------------------------
(* The registry's steps.                                                   *)

LEMMA EmitStep ==
    ASSUME AgentInv, NEW v \in Venues, NEW sort \in {"VenueRegistered", "VenueMetadataUpdated"},
           NEW near \in BOOLEAN, NEW menu \in Published, Emit(v, sort, near, menu)
    PROVE  AgentInv'
<1> USE ReplicationAssumption
<1> DEFINE e == [venue |-> v, sort |-> sort, near |-> near, menu |-> menu]
           n == Len(log) + 1
<1>1. /\ log \in Seq(Event) /\ n \in Nat \ {0} /\ menu \in {n, Local} /\ menu \in Nat
      /\ DOMAIN log = 1..Len(log) /\ Len(log) \in Nat
  BY DEF AgentInv, RegistryInv, Published, Local
<1>2. /\ log' = Append(log, e) /\ venues' = [venues EXCEPT ![v] = [near |-> near, menu |-> menu]]
      /\ UNCHANGED <<known, pinned, lastBlock, scan, kept, manifest, missed, failed, outdated>>
  BY DEF Emit, memory, store, history
<1>3. e \in Event
  BY <1>1 DEF Event
<1>4. /\ log' \in Seq(Event) /\ Len(log') = n
      /\ DOMAIN log' = 1..n /\ log'[n] = e
      /\ \A b \in DOMAIN log : b \in 1..n /\ b < n /\ log'[b] = log[b]
  <2> HIDE DEF e
  <2> QED BY <1>1, <1>2, <1>3
<1>5. venues' \in [Venues -> [near : BOOLEAN, menu : Nat]]
  BY <1>1, <1>2 DEF AgentInv, RegistryInv
<1>6. ASSUME NEW w \in Venues PROVE Announced(w)'
  <2>1. CASE w = v
    <3>1. venues'[w].menu = menu
      BY <1>2, <2>1 DEF AgentInv, RegistryInv
    <3>2. CASE menu = n
      BY <1>1, <1>4, <2>1, <3>1, <3>2 DEF Announced
    <3> QED
      BY <1>1, <3>1, <3>2 DEF Announced
  <2>2. CASE w # v
    <3>1. venues'[w] = venues[w] /\ Announced(w)
      BY <1>2, <2>2 DEF AgentInv, RegistryInv
    <3>2. \A c \in 1..n : log'[c].venue = w => c \in DOMAIN log
      BY <1>1, <1>4, <2>2
    <3> QED
      BY <1>1, <1>4, <3>1, <3>2 DEF Announced
  <2> QED
    BY <2>1, <2>2
<1>7. RegistryInv'
  BY <1>4, <1>5, <1>6 DEF RegistryInv
<1>8. \A b : Considered(b)' = Considered(b)
  BY <1>2 DEF Considered
<1>9. CursorInv'
  <2>1. CursorInv /\ Len(log) <= Len(log')
    BY <1>1, <1>4 DEF AgentInv
  <2>2. \A b \in Nat : lastBlock' < b /\ Considered(b)' => \A c \in scan'.events : b < c
    BY <1>2, <1>8, <2>1 DEF CursorInv
  <2>3. \A x \in Nat : x <= Len(log) => x <= Len(log')
    BY <1>1, <1>4
  <2>4. scan'.at # "idle" => scan'.head <= Len(log')
    BY <1>2, <2>1, <2>3 DEF CursorInv, ScanState
  <2> QED
    BY <1>2, <2>1, <2>2, <2>3, <2>4 DEF CursorInv
<1>10. ManifestInv'
  BY <1>2 DEF AgentInv, ManifestInv
<1>11. ASSUME NEW w \in Venues PROVE Handled(w)'
  <2>1. CASE w = v
    <3>1. venues'[w].menu = menu
      BY <1>2, <2>1 DEF AgentInv, RegistryInv
    <3>2. ~Considered(n)
      BY <1>1 DEF AgentInv, CursorInv, Considered, ScanState
    <3> QED
      BY <1>1, <1>8, <3>1, <3>2 DEF Handled
  <2>2. CASE w # v
    <3>1. venues'[w] = venues[w] /\ Handled(w)
      BY <1>2, <2>2 DEF AgentInv, RegistryInv
    <3> QED
      BY <1>2, <1>8, <3>1 DEF Handled
  <2> QED
    BY <2>1, <2>2
<1> QED
  BY <1>2, <1>7, <1>9, <1>10, <1>11 DEF AgentInv, KnownInv

LEMMA LocationStep ==
    ASSUME AgentInv, NEW v \in Venues, SetLocation(v)
    PROVE  AgentInv'
<1>1. /\ venues' = [venues EXCEPT ![v].near = ~@]
      /\ UNCHANGED <<log, known, pinned, lastBlock, scan, kept, manifest, missed, failed, outdated>>
  BY DEF SetLocation, memory, store, history
<1>2. /\ venues' \in [Venues -> [near : BOOLEAN, menu : Nat]]
      /\ \A w \in Venues : venues'[w].menu = venues[w].menu
  BY <1>1 DEF AgentInv, RegistryInv
<1>3. \A w \in Venues : Announced(w)' = Announced(w)
  BY <1>1, <1>2 DEF Announced
<1>4. \A w \in Venues : Handled(w)' = Handled(w)
  BY <1>1, <1>2 DEF Handled, Considered
<1>5. CursorInv' /\ ManifestInv'
  BY <1>1 DEF AgentInv, CursorInv, ManifestInv, Considered
<1> QED
  BY <1>1, <1>2, <1>3, <1>4, <1>5 DEF AgentInv, RegistryInv, KnownInv
-----------------------------------------------------------------------------
(* The agent's steps.                                                      *)

LEMMA SameRegistry ==
    ASSUME RegistryInv, UNCHANGED registry
    PROVE  RegistryInv'
<1>1. \A v \in Venues : Announced(v)' = Announced(v)
  BY DEF registry, Announced
<1> QED
  BY <1>1 DEF registry, RegistryInv

LEMMA StartScanStep ==
    ASSUME AgentInv, StartScan
    PROVE  AgentInv'
<1> USE ReplicationAssumption
<1>1. /\ scan' = [Idle EXCEPT !.at = "page", !.to = lastBlock, !.head = Len(log)]
      /\ UNCHANGED <<registry, known, pinned, lastBlock, kept, manifest, missed, failed, outdated>>
      /\ lastBlock < Len(log) /\ scan.at = "idle" /\ scan.to = 0 /\ scan.events = {}
  BY DEF AgentInv, CursorInv, StartScan, store, history
<1>2. scan \in ScanState /\ Len(log) \in Nat /\ lastBlock \in Nat /\ log' = log
  BY <1>1 DEF AgentInv, CursorInv, RegistryInv, registry
<1>3. /\ scan' \in ScanState /\ scan'.at = "page" /\ scan'.to = lastBlock
      /\ scan'.head = Len(log) /\ scan'.events = {}
  BY <1>1, <1>2 DEF ScanState, Idle, Local
<1>4. \A b \in Nat : Considered(b)' => b <= lastBlock /\ Considered(b)
  BY <1>1, <1>2, <1>3 DEF Considered
<1>5. RegistryInv'
  BY <1>1, SameRegistry DEF AgentInv
<1>6. CursorInv'
  BY <1>1, <1>2, <1>3, <1>4 DEF AgentInv, CursorInv
<1>7. ManifestInv'
  BY <1>1, <1>3 DEF AgentInv, ManifestInv
<1>8. ASSUME NEW v \in Venues PROVE Handled(v)'
  <2>1. venues'[v] = venues[v] /\ venues[v].menu \in Nat /\ Handled(v)
    BY <1>1 DEF registry, AgentInv, RegistryInv
  <2> QED
    BY <1>1, <1>4, <2>1 DEF Handled
<1> QED
  BY <1>1, <1>5, <1>6, <1>7, <1>8 DEF AgentInv, KnownInv

LEMMA ReadPageStep ==
    ASSUME AgentInv, ReadPage
    PROVE  AgentInv'
<1> USE ReplicationAssumption
<1>1. PICK to, left :
         /\ to \in Nat /\ lastBlock < to /\ to <= scan.head
         /\ left \subseteq lastBlock + 1 .. to
         /\ scan' = [scan EXCEPT !.to = to, !.events = (lastBlock + 1 .. to) \ left]
         /\ missed' = missed \cup left
  <2> DEFINE blocks(to) == lastBlock + 1 .. to
             last == IF lastBlock + LOG_RANGE < scan.head THEN lastBlock + LOG_RANGE ELSE scan.head
  <2>1. last \in Nat /\ lastBlock < last /\ last <= scan.head
    BY DEF ReadPage, AgentInv, CursorInv, ScanState
  <2>2. PICK left \in SUBSET (lastBlock + 1 .. last) :
           /\ scan' = [scan EXCEPT !.to = last, !.events = (lastBlock + 1 .. last) \ left]
           /\ missed' = missed \cup left
    BY DEF ReadPage
  <2> HIDE DEF last
  <2> QED
    BY <2>1, <2>2
<1>2. /\ scan.at = "page" /\ scan.events = {} /\ scan.to = lastBlock
      /\ UNCHANGED <<registry, known, pinned, lastBlock, kept, manifest, failed, outdated>>
  BY DEF ReadPage, store
<1>3. /\ scan \in ScanState /\ lastBlock \in Nat /\ log' = log
      /\ scan.head <= Len(log) /\ scan.head \in Nat /\ Len(log) \in Nat
  BY <1>2 DEF AgentInv, CursorInv, RegistryInv, ScanState, registry
<1>4. /\ scan' \in ScanState /\ scan'.at = "page" /\ scan'.to = to /\ scan'.head = scan.head
      /\ scan'.events = (lastBlock + 1 .. to) \ left /\ scan'.menu = scan.menu
  <2> DEFINE read == (lastBlock + 1 .. to) \ left
  <2>1. read \in SUBSET Nat
    BY <1>1, <1>3
  <2>2. scan' = [scan EXCEPT !.to = to, !.events = read]
    BY <1>1
  <2> HIDE DEF read
  <2>3. /\ scan' \in ScanState /\ scan'.at = "page" /\ scan'.to = to /\ scan'.head = scan.head
        /\ scan'.events = read /\ scan'.menu = scan.menu
    BY <1>1, <1>2, <1>3, <2>1, <2>2 DEF ScanState
  <2> QED
    BY <2>3 DEF read
<1>5. \A b \in Nat : Considered(b)' => b <= lastBlock /\ Considered(b)
  <2> SUFFICES ASSUME NEW b \in Nat, Considered(b)' PROVE b <= lastBlock /\ Considered(b)
    OBVIOUS
  <2>1. b \notin missed /\ b \notin left /\ START_BLOCK <= b
    BY <1>1 DEF Considered
  <2>2. b <= lastBlock
    BY <1>1, <1>2, <1>3, <1>4, <2>1 DEF Considered
  <2> QED
    BY <2>1, <2>2 DEF Considered
<1>6. RegistryInv'
  BY <1>2, SameRegistry DEF AgentInv
<1>7. CursorInv'
  <2>1. \A b \in scan'.events : lastBlock' < b /\ b <= scan'.to
    BY <1>1, <1>2, <1>3, <1>4
  <2>2. \A b \in Nat : lastBlock' < b /\ Considered(b)' => \A c \in scan'.events : b < c
    BY <1>2, <1>3, <1>5
  <2>3. lastBlock' <= scan'.to /\ scan'.to <= scan'.head
    BY <1>1, <1>2, <1>3, <1>4
  <2> QED
    BY <1>2, <1>3, <1>4, <2>1, <2>2, <2>3 DEF AgentInv, CursorInv
<1>8. ManifestInv'
  BY <1>2, <1>4 DEF AgentInv, ManifestInv
<1>9. ASSUME NEW v \in Venues PROVE Handled(v)'
  <2>1. venues'[v] = venues[v] /\ venues[v].menu \in Nat /\ Handled(v)
    BY <1>2 DEF registry, AgentInv, RegistryInv
  <2> QED
    BY <1>2, <1>4, <1>5, <2>1 DEF Handled
<1> QED
  BY <1>2, <1>6, <1>7, <1>8, <1>9 DEF AgentInv, KnownInv

\* A scan that breaks off, and the next one starts at the cursor.
LEMMA ScanErrorStep ==
    ASSUME AgentInv, ScanError
    PROVE  AgentInv'
<1> USE ReplicationAssumption
<1>1. /\ scan' = Idle /\ scan.at = "page"
      /\ UNCHANGED <<registry, known, pinned, lastBlock, kept, manifest, missed, failed, outdated>>
  BY DEF ScanError, AfterError, store, history
<1>2. /\ scan' \in ScanState /\ scan'.at = "idle" /\ scan'.to = 0 /\ scan'.events = {}
      /\ lastBlock \in Nat /\ log' = log
  BY <1>1 DEF AgentInv, CursorInv, ScanState, Idle, Local, registry
<1>3. \A b \in Nat : Considered(b)' => b <= lastBlock /\ Considered(b)
  BY <1>1, <1>2 DEF Considered
<1>4. RegistryInv' /\ ManifestInv'
  BY <1>1, <1>2, SameRegistry DEF AgentInv, ManifestInv
<1>5. CursorInv'
  BY <1>1, <1>2, <1>3 DEF AgentInv, CursorInv
<1>6. ASSUME NEW v \in Venues PROVE Handled(v)'
  <2>1. venues'[v] = venues[v] /\ venues[v].menu \in Nat /\ Handled(v)
    BY <1>1 DEF registry, AgentInv, RegistryInv
  <2> QED
    BY <1>1, <1>3, <2>1 DEF Handled
<1> QED
  BY <1>1, <1>4, <1>5, <1>6 DEF AgentInv, KnownInv
LEMMA ConsiderStep ==
    ASSUME AgentInv, Consider
    PROVE  AgentInv'
<1> USE ReplicationAssumption
<1> DEFINE c == Min(scan.events)
           e == log[c]
           near == NearOf(e)
           wanted == Wanted(e, near)
<1>1. /\ known' = [v \in DOMAIN known \cup {e.venue} |->
                      IF v = e.venue THEN [near |-> near, menu |-> e.menu] ELSE known[v]]
      /\ wanted => scan' = [scan EXCEPT !.events = @ \ {c}, !.at = "pin",
                                        !.menu = e.menu, !.global = ~near]
      /\ ~wanted => scan' = [scan EXCEPT !.events = @ \ {c}]
  BY DEF Consider
<1>2. /\ scan.at = "page" /\ scan.events # {}
      /\ UNCHANGED <<registry, pinned, lastBlock, kept, manifest, missed, failed, outdated>>
  BY DEF Consider, store, history
<1>3. /\ scan \in ScanState /\ lastBlock \in Nat /\ log' = log /\ Len(log) \in Nat
      /\ log \in Seq(Event) /\ DOMAIN log = 1..Len(log)
  BY <1>2 DEF AgentInv, CursorInv, RegistryInv, registry
<1>4. /\ c \in scan.events /\ c \in Nat /\ \A b \in scan.events : c <= b
      /\ lastBlock < c /\ c <= scan.to
  BY <1>1, <1>2, <1>3, MinIs DEF AgentInv, CursorInv, ScanState
<1>5. c \in DOMAIN log /\ e \in Event
  BY <1>2, <1>3, <1>4 DEF AgentInv, CursorInv, ScanState
<1>6. near \in BOOLEAN
  BY <1>5 DEF NearOf, Event, AgentInv, KnownInv, RegistryInv
<1> HIDE DEF near, wanted
<1>7. scan' \in ScanState
  <2> DEFINE rest == scan.events \ {c}
  <2>1. rest \in SUBSET Nat /\ e.menu \in Nat /\ (~near) \in BOOLEAN
    BY <1>3, <1>5 DEF ScanState, Event
  <2>2. /\ wanted => scan' = [scan EXCEPT !.events = rest, !.at = "pin",
                                          !.menu = e.menu, !.global = ~near]
        /\ ~wanted => scan' = [scan EXCEPT !.events = rest]
    BY <1>1
  <2> HIDE DEF rest, e
  <2> QED
    BY <1>3, <2>1, <2>2 DEF ScanState
<1>8. /\ scan'.at \in {"page", "pin"} /\ scan'.to = scan.to /\ scan'.head = scan.head
      /\ scan'.events = scan.events \ {c}
      /\ wanted => scan'.at = "pin" /\ scan'.menu = e.menu
  BY <1>1, <1>2, <1>3 DEF ScanState
<1>9. \A b \in Nat : Considered(b)' => Considered(b) \/ b = c
  BY <1>2, <1>8 DEF Considered
<1>10. RegistryInv' /\ ManifestInv'
  BY <1>2, <1>8, SameRegistry DEF AgentInv, ManifestInv
<1>11. CursorInv'
  <2>1. ASSUME NEW b \in Nat, lastBlock < b, Considered(b)', NEW d \in scan.events, d # c
        PROVE  b < d
    <3>1. d \in Nat /\ c < d
      BY <1>3, <1>4, <2>1 DEF ScanState
    <3>2. CASE Considered(b)
      BY <2>1, <3>2 DEF AgentInv, CursorInv
    <3> QED
      BY <1>9, <2>1, <3>1, <3>2
  <2> QED
    BY <1>2, <1>3, <1>7, <1>8, <2>1 DEF AgentInv, CursorInv
<1>12. ASSUME NEW v \in Venues, NEW b, b = venues[v].menu, b # Local, Considered(b)'
       PROVE  /\ v \in DOMAIN known' /\ known'[v].menu = b
              /\ known'[v].near => \/ b \in pinned \cup failed
                                   \/ scan'.at = "pin" /\ scan'.menu = b
  <2>1. b \in DOMAIN log /\ log[b].venue = v /\ log[b].menu = b /\ b \in Nat
        /\ \A d \in DOMAIN log : log[d].venue = v => d <= b
    BY <1>12 DEF AgentInv, RegistryInv, Announced
  <2>2. CASE e.venue = v
    <3>1. b = c
      <4>1. c <= b
        BY <1>1, <1>5, <2>1, <2>2
      <4>2. ~(c < b)
        <5>1. Considered(b) \/ b = c
          BY <1>9, <1>12, <2>1
        <5>2. Considered(b) => b \notin scan.events /\ b < c
          BY <1>4, <2>1, <4>1 DEF AgentInv, CursorInv, Considered
        <5> QED
          BY <1>4, <2>1, <5>1, <5>2
      <4> QED
        BY <1>4, <2>1, <4>1, <4>2
    <3>2. known'[v] = [near |-> near, menu |-> b] /\ v \in DOMAIN known' /\ e.menu = b
      BY <1>1, <2>1, <2>2, <3>1
    <3>3. near => wanted \/ b \in pinned
      BY <1>12, <3>2 DEF Wanted, wanted
    <3> QED
      BY <1>8, <3>2, <3>3
  <2>3. CASE e.venue # v
    <3>1. b # c
      BY <1>1, <2>1, <2>3
    <3>2. Considered(b)
      BY <1>9, <1>12, <2>1, <3>1
    <3>3. /\ v \in DOMAIN known /\ known[v].menu = b
          /\ known[v].near => b \in pinned \cup failed
      BY <1>2, <1>12, <3>2 DEF AgentInv, Handled
    <3> QED
      BY <1>1, <2>3, <3>3
  <2> QED
    BY <2>2, <2>3
<1>13. \A v \in Venues : Handled(v)'
  BY <1>2, <1>12 DEF Handled, registry
<1>14. KnownInv'
  BY <1>1, <1>6 DEF AgentInv, KnownInv
<1> QED
  BY <1>10, <1>11, <1>13, <1>14 DEF AgentInv
\* A pin or a manifest under way: the cursor and the page stay.
LEMMA SamePage ==
    ASSUME AgentInv, scan.at # "idle", NEW at \in {"page", "pin", "publish"},
           scan' = [scan EXCEPT !.at = at],
           UNCHANGED <<registry, known, lastBlock, missed>>
    PROVE  /\ RegistryInv' /\ CursorInv' /\ KnownInv'
           /\ scan'.at = at /\ scan'.menu = scan.menu
           /\ \A b : Considered(b)' = Considered(b)
<1>1. /\ scan \in ScanState /\ log' = log
  BY DEF AgentInv, CursorInv, registry
<1>2. /\ scan' \in ScanState /\ scan'.at = at /\ scan'.to = scan.to /\ scan'.head = scan.head
      /\ scan'.events = scan.events /\ scan'.menu = scan.menu
  BY <1>1 DEF ScanState
<1>3. \A b : Considered(b)' = Considered(b)
  BY <1>2 DEF Considered
<1>4. CursorInv'
  BY <1>1, <1>2, <1>3 DEF AgentInv, CursorInv
<1>5. RegistryInv' /\ KnownInv'
  BY SameRegistry DEF AgentInv, KnownInv
<1> QED
  BY <1>2, <1>3, <1>4, <1>5

LEMMA PinAddStep ==
    ASSUME AgentInv, PinAdd
    PROVE  AgentInv'
<1>1. /\ scan.at = "pin" /\ scan' = [scan EXCEPT !.at = "publish"]
      /\ kept' = kept \cup {scan.menu} /\ pinned' = pinned \cup {scan.menu}
      /\ failed' = failed \ {scan.menu}
      /\ UNCHANGED <<registry, known, lastBlock, manifest, missed, outdated>>
  BY DEF PinAdd
<1>2. /\ RegistryInv' /\ CursorInv' /\ KnownInv' /\ scan'.at = "publish"
      /\ \A b : Considered(b)' = Considered(b)
  BY <1>1, SamePage
<1>3. ManifestInv'
  BY <1>1, <1>2 DEF AgentInv, ManifestInv
<1>4. \A v \in Venues : Handled(v)'
  BY <1>1, <1>2 DEF AgentInv, Handled, registry
<1> QED
  BY <1>2, <1>3, <1>4 DEF AgentInv

LEMMA PinFailsStep ==
    ASSUME AgentInv, PinFails
    PROVE  AgentInv'
<1>1. /\ scan.at = "pin" /\ scan' = [scan EXCEPT !.at = "page"]
      /\ kept \subseteq kept' /\ failed' = failed \cup {scan.menu}
      /\ UNCHANGED <<registry, known, pinned, lastBlock, manifest, missed, outdated>>
  BY DEF PinFails
<1>2. /\ RegistryInv' /\ CursorInv' /\ KnownInv' /\ scan'.at = "page"
      /\ \A b : Considered(b)' = Considered(b)
  BY <1>1, SamePage
<1>3. ManifestInv'
  BY <1>1, <1>2 DEF AgentInv, ManifestInv
<1>4. \A v \in Venues : Handled(v)'
  BY <1>1, <1>2 DEF AgentInv, Handled, registry
<1> QED
  BY <1>2, <1>3, <1>4 DEF AgentInv

LEMMA PublishStep ==
    ASSUME AgentInv, PublishManifest
    PROVE  AgentInv'
<1>1. /\ scan.at = "publish" /\ scan' = [scan EXCEPT !.at = "page"]
      /\ (manifest' = pinned /\ outdated' = FALSE) \/ (manifest' = manifest /\ outdated' = TRUE)
      /\ UNCHANGED <<registry, known, pinned, lastBlock, kept, missed, failed>>
  BY DEF PublishManifest
<1>2. /\ RegistryInv' /\ CursorInv' /\ KnownInv' /\ scan'.at = "page"
      /\ \A b : Considered(b)' = Considered(b)
  BY <1>1, SamePage
<1>3. ManifestInv'
  BY <1>1, <1>2 DEF AgentInv, ManifestInv
<1>4. \A v \in Venues : Handled(v)'
  BY <1>1, <1>2 DEF AgentInv, Handled, registry
<1> QED
  BY <1>2, <1>3, <1>4 DEF AgentInv

LEMMA EndPageStep ==
    ASSUME AgentInv, EndPage
    PROVE  AgentInv'
<1> USE ReplicationAssumption
<1>1. /\ scan.at = "page" /\ scan.events = {} /\ lastBlock < scan.to
      /\ lastBlock' = scan.to /\ scan' \in {scan, Idle}
      /\ UNCHANGED <<registry, known, pinned, kept, manifest, missed, failed, outdated>>
  BY DEF EndPage, store, history
<1>2. /\ scan \in ScanState /\ lastBlock \in Nat /\ log' = log /\ Len(log) \in Nat
      /\ START_BLOCK <= scan.to /\ scan.to <= Len(log) /\ scan.to \in Nat
  BY <1>1 DEF AgentInv, CursorInv, RegistryInv, registry, ScanState
<1>3. /\ scan' \in ScanState /\ scan'.at \in {"idle", "page"} /\ scan'.events = {}
      /\ scan'.to <= scan.to /\ scan'.to \in Nat
      /\ scan'.at = "idle" => scan'.to = 0
      /\ scan'.at # "idle" => scan' = scan
  <2>1. CASE scan' = scan
    BY <1>1, <1>2, <2>1
  <2>2. CASE scan' = Idle
    BY <1>2, <2>2 DEF Idle, ScanState, Local
  <2> QED
    BY <1>1, <2>1, <2>2
<1>4. \A b \in Nat : Considered(b)' => Considered(b)
  BY <1>1, <1>2, <1>3 DEF Considered
<1>5. RegistryInv' /\ ManifestInv' /\ KnownInv'
  BY <1>1, <1>3, SameRegistry DEF AgentInv, ManifestInv, KnownInv
<1>6. CursorInv'
  BY <1>1, <1>2, <1>3 DEF AgentInv, CursorInv
<1>7. ASSUME NEW v \in Venues PROVE Handled(v)'
  <2>1. venues'[v] = venues[v] /\ venues[v].menu \in Nat /\ Handled(v)
    BY <1>1 DEF registry, AgentInv, RegistryInv
  <2> QED
    BY <1>1, <1>4, <2>1 DEF Handled
<1> QED
  BY <1>5, <1>6, <1>7 DEF AgentInv

LEMMA RestartStep ==
    ASSUME AgentInv, Restart
    PROVE  AgentInv'
<1> USE ReplicationAssumption
<1>1. /\ known' = <<>> /\ pinned' = {} /\ missed' = {}
      /\ lastBlock' = START_BLOCK - 1 /\ scan' = Idle
      /\ UNCHANGED <<registry, kept, manifest, outdated>>
  BY DEF Restart, store
<1>2. /\ scan' \in ScanState /\ scan'.at = "idle" /\ scan'.to = 0 /\ scan'.events = {}
      /\ lastBlock' \in Nat /\ log' = log
  BY <1>1 DEF Idle, ScanState, Local, registry
<1>3. \A b \in Nat : ~Considered(b)'
  BY <1>1, <1>2 DEF Considered
<1>4. RegistryInv' /\ ManifestInv' /\ KnownInv'
  BY <1>1, SameRegistry DEF AgentInv, ManifestInv, KnownInv
<1>5. CursorInv'
  BY <1>1, <1>2, <1>3 DEF CursorInv
<1>6. ASSUME NEW v \in Venues PROVE Handled(v)'
  <2>1. venues'[v].menu \in Nat
    BY <1>4 DEF RegistryInv
  <2> QED
    BY <1>3, <2>1 DEF Handled
<1> QED
  BY <1>4, <1>5, <1>6 DEF AgentInv

LEMMA AgentNext == AgentInv /\ [MenusNext]_menuVars => AgentInv'
<1> SUFFICES ASSUME AgentInv, [MenusNext]_menuVars PROVE AgentInv'
  OBVIOUS
<1>1. ASSUME NEW v \in Venues, RegisterVenue(v) \/ SetMetadata(v) PROVE AgentInv'
  <2>1. PICK sort \in {"VenueRegistered", "VenueMetadataUpdated"},
             near \in BOOLEAN, menu \in Published : Emit(v, sort, near, menu)
    <3>1. venues[v].near \in BOOLEAN
      BY DEF AgentInv, RegistryInv
    <3> QED
      BY <1>1, <3>1 DEF RegisterVenue, SetMetadata
  <2> QED
    BY <2>1, EmitStep
<1>2. CASE UNCHANGED menuVars
  BY <1>2 DEF menuVars, registry, memory, store, history, AgentInv, RegistryInv, CursorInv,
     KnownInv, ManifestInv, Handled, Considered, Announced
<1> QED
  BY <1>1, <1>2, LocationStep, StartScanStep, ReadPageStep, ScanErrorStep, ConsiderStep,
     PinAddStep, PinFailsStep, PublishStep, EndPageStep, RestartStep
     DEF MenusNext, Agent

\* The agent has read all there is to read.
CaughtUp == scan.at = "idle" /\ Len(log) <= lastBlock

ServesWhenCaughtUp ==
    CaughtUp => \A v \in Venues :
                   venues[v].near /\ ~Excused(v) => venues[v].menu \in kept \cap manifest

\* However pages were split, read twice or in part, pins failed and the agent
\* was started again: once it has read up to the last block, the node holds and
\* offers the current menu of every venue of its region but for the reasons
\* named (scanTo, consider, publishManifest).  That it gets there is MenusServed.
THEOREM CaughtUpNodesServe == MenusSpec => []ServesWhenCaughtUp
<1>1. AgentInv => ServesWhenCaughtUp
  <2> SUFFICES ASSUME AgentInv, CaughtUp, NEW v \in Venues, venues[v].near, ~Excused(v)
               PROVE  venues[v].menu \in kept \cap manifest
    BY DEF ServesWhenCaughtUp
  <2> USE ReplicationAssumption
  <2> DEFINE b == venues[v].menu
  <2>1. b \notin missed /\ b \notin failed /\ ~(b < START_BLOCK) /\ ~outdated
    BY DEF Excused
  <2>2. b \in Nat /\ b # Local
    BY <2>1 DEF AgentInv, RegistryInv, Local
  <2>3. b \in DOMAIN log /\ DOMAIN log = 1..Len(log)
    BY <2>2 DEF AgentInv, RegistryInv, Announced
  <2>4. Considered(b)
    BY <2>1, <2>2, <2>3 DEF AgentInv, CursorInv, RegistryInv, CaughtUp, Considered
  <2>5. v \in DOMAIN known /\ (known[v].near => b \in pinned \cup failed)
    BY <2>2, <2>4 DEF AgentInv, Handled, CaughtUp
  <2>6. known[v].near
    BY <2>5 DEF Excused
  <2> QED
    BY <2>1, <2>5, <2>6 DEF AgentInv, ManifestInv, CaughtUp
<1> QED
  BY <1>1, AgentInit, AgentNext, PTL DEF MenusSpec

=============================================================================
