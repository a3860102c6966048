----------------------------- MODULE Disclosure -----------------------------
(***************************************************************************)
(* Disclosure capsules of one order: each party's page seals the key of    *)
(* the order's thread to the arbiter when its chat is opened, and leaves   *)
(* it on the thread (disclosure.ts); who opens a dispute records which     *)
(* capsules it finds there (App.tsx, DisputeControl); and the arbiter's    *)
(* console reads them, compares, opens, and rules against a party whose    *)
(* capsule is missing or does not open (ops/DisputesConsole.tsx).          *)
(*                                                                         *)
(* A thread lies on two shelves: the shared store (functions/api/msg.ts),  *)
(* which takes a thread out and puts it back, and a venue's relay.  Who    *)
(* posts goes on to the next when one does not answer, who reads takes the *)
(* first that answers, both forget, and both take an envelope from anyone  *)
(* under any address.                                                      *)
(*                                                                         *)
(* Abstractions.  Of the envelopes that are no capsules only their number  *)
(* matters, and none replaces another.  A full thread is sorted by the     *)
(* senders' clocks, which may say anything: any envelope may be cut.  A    *)
(* page may be long out of date: it offers what it last offered.  Of the   *)
(* relays there is one.  Whether a party is faulted is a display: the      *)
(* ruling is the arbiter's.                                                *)
(***************************************************************************)
EXTENDS Naturals, FiniteSets

CONSTANTS Parties,
          Arbiters,     \* keys the disputes contract may name
          Configured,   \* the one the pages are built with
          MSG_THREAD_MAX, \* envelopes kept of a thread
          MaxSent, MaxMailing, \* bounds: envelopes posted, and at a time
          MaxFailures,  \* bound: posts and reads not answered, threads forgotten,
                        \* arbiters replaced and envelopes of strangers, together
          Nobody, Unread

ASSUME DisclosureAssumption ==
    /\ Configured \in Arbiters /\ Nobody \notin Arbiters \cup Parties
    /\ MSG_THREAD_MAX \in Nat \ {0}
    /\ MaxSent \in Nat /\ MaxMailing \in Nat /\ MaxFailures \in Nat

Shelves == {"kv", "relay"}

VARIABLES
    arbiter,    \* FareDisputes.arbiter
    first,      \* the shelf that is asked first: the shared one, if configured
    topics,     \* shelf -> the order's thread: capsules, and how many others
    mailing,    \* posts under way: the envelope, the shelf, what was taken out
    postCount,  \* how many were posted: each is numbered
    sealed,     \* party -> how many capsules were sealed under its address
    announced,  \* parties whose key is on the thread
    escrow,     \* party -> where its escrowCapsule is
    filing,     \* party -> the evidence it is about to file
    dispute,    \* FareDisputes.disputes of the order, the evidence as capsules
    failures,
    since       \* history: party -> what befell capsules since it read the evidence

contract       == <<arbiter, dispute>>
mailbox        == <<first, topics, mailing, postCount, sealed, announced>>
partyPages     == <<escrow, filing>>
disclosureVars == <<contract, mailbox, partyPages, failures, since>>

Empty     == [capsules |-> {}, others |-> 0]
NotFiling == [begun |-> FALSE, evidence |-> {}, shelf |-> "none"]
NoDispute == [status |-> "None", opener |-> Nobody, evidence |-> {}, shelf |-> "none"]

DisclosureInit ==
    /\ arbiter = Configured
    /\ first \in Shelves /\ topics = [s \in Shelves |-> Empty]
    /\ mailing = {} /\ postCount = 0 /\ announced = {}
    /\ sealed = [w \in Parties |-> 0]
    /\ escrow = [w \in Parties |-> "idle"]
    /\ filing = [w \in Parties |-> NotFiling]
    /\ dispute = NoDispute
    /\ failures = 0 /\ since = [w \in Parties |-> {}]

-----------------------------------------------------------------------------
(* The thread.                                                             *)

IsCapsule(env) == env.kind = "capsule"
Size(mail) == Cardinality(mail.capsules) + mail.others

\* A capsule replaces the last that its sender's address numbered alike.
Replaces(env, e) == e.from = env.from /\ e.seq = env.seq

Added(mail, env) ==
    IF IsCapsule(env)
    THEN [mail EXCEPT !.capsules = {e \in @ : ~Replaces(env, e)} \cup {env}]
    ELSE [mail EXCEPT !.others = @ + 1]

\* What a shelf may keep: all, if they are not too many.
Kept(mail, env) ==
    LET all == Added(mail, env)
    IN IF Size(all) <= MSG_THREAD_MAX THEN {all}
       ELSE {k \in [capsules : SUBSET all.capsules, others : 0..all.others] :
                Size(k) = MSG_THREAD_MAX}

Fails == failures < MaxFailures /\ failures' = failures + 1

\* Something that may change the capsules, for who has read them.
Befalls(what) ==
    since' = [w \in Parties |->
                 IF filing[w].begun \/ dispute.opener = w THEN since[w] \cup {what} ELSE since[w]]

\* post: nobody looks whether a shelf took it.
SendEnvelope(env) ==
    /\ postCount < MaxSent /\ postCount' = postCount + 1
    /\ Cardinality(mailing) < MaxMailing
    /\ mailing' = mailing \cup {[env |-> env, at |-> first, view |-> Unread]}
    /\ UNCHANGED <<first, topics>>

SendChatter(w) ==
    /\ SendEnvelope([kind |-> "other", id |-> postCount + 1])
    /\ announced' = announced \cup {w}
    /\ UNCHANGED sealed

\* Each is sealed with a new key, hence a new envelope.
PostCapsule(w, seq, to) ==
    /\ sealed' = [sealed EXCEPT ![w] = @ + 1]
    /\ SendEnvelope([kind |-> "capsule", from |-> w, seq |-> seq, to |-> to, id |-> sealed'[w]])
    /\ UNCHANGED announced

mailSame == UNCHANGED <<contract, first, postCount, sealed, announced, partyPages>>

AtRelay(q) == [env |-> q.env, at |-> "relay", view |-> Unread]

\* The shared store takes the thread out ...
TakeOut(q) ==
    /\ q.at = "kv" /\ q.view = Unread
    /\ mailing' = (mailing \ {q}) \cup {[q EXCEPT !.view = topics["kv"]]}
    /\ UNCHANGED <<topics, failures, since>> /\ mailSame

\* ... and puts it back, whatever has become of it since: capsules that came are
\* lost, others are back.  The answer may not be heard.
PutBack(q) ==
    /\ q.at = "kv" /\ q.view # Unread
    /\ \E kept \in Kept(q.view, q.env) : topics' = [topics EXCEPT !["kv"] = kept]
    /\ \/ mailing' = mailing \ {q} /\ UNCHANGED failures
       \/ /\ mailing' = (mailing \ {q}) \cup {AtRelay(q)}
          /\ Fails
    /\ IF q.view.capsules = topics["kv"].capsules THEN UNCHANGED since ELSE Befalls("raced")
    /\ mailSame

RelayTakes(q) ==
    /\ q.at = "relay"
    /\ \E kept \in Kept(topics["relay"], q.env) : topics' = [topics EXCEPT !["relay"] = kept]
    /\ mailing' = mailing \ {q}
    /\ UNCHANGED <<failures, since>> /\ mailSame

\* Refused or not reached: the next, or nowhere.
TurnedAway(q) ==
    /\ q.view = Unread /\ Fails
    /\ mailing' = (mailing \ {q})
                  \cup (IF q.at = "kv" THEN {AtRelay(q)} ELSE {})
    /\ UNCHANGED <<topics, since>> /\ mailSame

\* A thread whose day is over, or whose relay is started again.
ForgetTopic(s) ==
    /\ topics[s] # Empty /\ Fails
    /\ topics' = [topics EXCEPT ![s] = Empty]
    /\ Befalls("forgotten")
    /\ UNCHANGED mailing /\ mailSame

\* Whoever knows the order may post under any address: the endpoints check none.
StrangePost ==
    /\ Fails
    /\ \E w \in Parties, seq \in {0, 1} : PostCapsule(w, seq, Nobody)
    /\ Befalls("forged")
    /\ UNCHANGED <<contract, partyPages>>

\* fetchThread: the first shelf that answers, or none.
Fetch(s) ==
    \/ s = first /\ UNCHANGED failures
    \/ s # first /\ Fails
Found(s) == IF s = "none" THEN {} ELSE topics[s].capsules

-----------------------------------------------------------------------------
(* A party's page.                                                         *)

\* Its lines and places; whatever is sent, the party's key was announced before.
Talk(w) ==
    /\ SendChatter(w)
    /\ UNCHANGED <<contract, partyPages, failures, since>>

\* The chat is opened: announced, and a capsule begun, without waiting.
OpenChat(w) ==
    /\ escrow[w] = "idle"
    /\ escrow' = [escrow EXCEPT ![w] = "begun"]
    /\ SendChatter(w)
    /\ UNCHANGED <<contract, filing, failures, since>>

\* verifiedArbiterKey: only the key of the arbiter the contract names.
VerifyArbiter(w) ==
    /\ escrow[w] = "begun"
    /\ escrow' = [escrow EXCEPT ![w] = IF Configured = arbiter THEN "verified" ELSE "idle"]
    /\ UNCHANGED <<contract, mailbox, filing, failures, since>>

\* peerPubKey, sendCapsule.  Where the peer's hello is not found there is no
\* capsule, and nothing tries again before the chat is opened another time.
SendCapsule(w) ==
    /\ escrow[w] = "verified"
    /\ escrow' = [escrow EXCEPT ![w] = "idle"]
    /\ \/ announced \ {w} # {} /\ PostCapsule(w, 0, Configured) /\ Befalls("posted")
       \/ UNCHANGED <<mailbox, since>>
    /\ UNCHANGED <<contract, filing, failures>>

-----------------------------------------------------------------------------
(* The dispute.                                                            *)

\* Mutant: only the opener's own capsule is recorded.
Bundle_Mine(w, s) == {e \in Found(s) : e.from = w}
Bundle(w, s) == Found(s)

\* Capsules on their way.
Coming == {IF q.env.to = Nobody THEN "forged" ELSE "posted" :
              q \in {r \in mailing : IsCapsule(r.env)}}

\* openWithAnchor, until the transaction: without a capsule, or a shelf that
\* answers, the evidence names none.  In a dispute it would be for nothing.
ReadBundle(w) ==
    /\ dispute.status = "None" /\ ~filing[w].begun
    /\ \E s \in Shelves \cup {"none"} :
          /\ Fetch(s)
          /\ filing' = [filing EXCEPT ![w] =
                           [begun |-> TRUE, evidence |-> Bundle(w, s), shelf |-> s]]
    /\ since' = [since EXCEPT ![w] = Coming]
    /\ UNCHANGED <<contract, mailbox, escrow>>

\* openDispute: the first of the two; the other's reverts.
OpenDispute(w) ==
    /\ filing[w].begun
    /\ filing' = [filing EXCEPT ![w] = NotFiling]
    /\ dispute' = IF dispute.status = "None"
                  THEN [status |-> "Open", opener |-> w, evidence |-> filing[w].evidence,
                        shelf |-> filing[w].shelf]
                  ELSE dispute
    /\ UNCHANGED <<arbiter, mailbox, escrow, failures, since>>

\* FareDisputes.setArbiter.
SetArbiter ==
    /\ arbiter' \in Arbiters \ {arbiter} /\ Fails
    /\ UNCHANGED <<dispute, mailbox, partyPages, since>>

DisclosureNext ==
    \/ \E q \in mailing : TakeOut(q) \/ PutBack(q) \/ RelayTakes(q) \/ TurnedAway(q)
    \/ \E w \in Parties :
          \/ Talk(w) \/ OpenChat(w) \/ VerifyArbiter(w) \/ SendCapsule(w)
          \/ ReadBundle(w) \/ OpenDispute(w)
    \/ \E s \in Shelves : ForgetTopic(s)
    \/ StrangePost \/ SetArbiter

DisclosureSpec == DisclosureInit /\ [][DisclosureNext]_disclosureVars

-----------------------------------------------------------------------------
(* Properties.                                                             *)

\* reveal, and the panel, when shelf s answers (or none does): evidenceMatches, and
\* whether the arbiter's key opens a party's capsule, of several the one that is
\* first by its clock.  A thread that is gone and shelves that do not answer look
\* alike: nobody disclosed.  The console changes nothing.
Anchored(s) == Found(s) # {} /\ dispute.evidence = Found(s)
MayFault(w, s) ==
    \/ ~Anchored(s)
    \/ \A e \in Found(s) : e.from # w
    \/ \E e \in Found(s) : e.from = w /\ e.to # arbiter

\* Fail closed strikes who did not disclose.  A party whose capsule the evidence
\* names is not faulted by the console, when the shelf answers it that answered the
\* opener, unless since the opener asked it a capsule was posted or on its way, the
\* party's or a stranger's; the shared store, between taking the thread out and
\* putting it back, lost capsules or restored them; a shelf forgot the thread; or
\* unless more envelopes were posted in all than a thread keeps, or a capsule under
\* that party's address is not sealed to the arbiter there is (escrowCapsule,
\* openWithAnchor, reveal).
DisclosureStands ==
    dispute.status = "Open" =>
        \A e \in dispute.evidence : MayFault(e.from, dispute.shelf) =>
            \/ since[dispute.opener] # {}
            \/ postCount > MSG_THREAD_MAX
            \/ \E f \in dispute.evidence : f.from = e.from /\ f.to # arbiter
=============================================================================
