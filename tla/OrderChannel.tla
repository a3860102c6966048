---------------------------- MODULE OrderChannel ----------------------------
(***************************************************************************)
(* The thread of one order between its customer and its driver             *)
(* (web/src/channel.ts), the panels of the page that hold it (ChatPanel,   *)
(* TrackPanel and TrackPublisher of App.tsx), and the two stores it goes   *)
(* through: the shared one (functions/api/msg.ts), whose POST reads and    *)
(* writes a whole thread in two steps, and a venue's relay, whose POST is  *)
(* one step.  Both are tried in order, for a post and for a poll, and      *)
(* neither keeps a thread for good.                                        *)
(*                                                                         *)
(* A panel's OrderThread lives from the panel's opening to its closing;    *)
(* the lines and the place shown belong to the panel and stay.             *)
(*                                                                         *)
(* Abstractions.  Sealing and opening are what they let the peer read: an  *)
(* envelope of the peer opens once his key is known.  Time is a count of   *)
(* envelopes, one clock for both sides.  A delivery photo travels as a     *)
(* location does; capsules and tickets are posted and never replaced.  The *)
(* polls of a panel do not overlap: an answer that takes longer than the   *)
(* four seconds between two polls is handled as if it had not come.        *)
(***************************************************************************)
EXTENDS Integers, Sequences, FiniteSets, SequencesExt

CONSTANTS
    Uses,        \* how two people may use a thread: the panels, as
                 \* <<side, sort>>, they open; the sides that have a profile and
                 \* announce its commitment; bound: the envelopes they post
    Registered,  \* sides whose commitment is in a registry: the driver
    THREAD_MAX,  \* envelopes a store keeps of a thread
    MaxPosts, MaxFaults,  \* bounds: posts at a time, and panels closed, posts the
                          \* shared store did not answer and threads forgotten, together
    NotRead

Sides == {"customer", "driver"}
Stores == {"kv", "relay"}
Panels == UNION {u.panels : u \in Uses}

ASSUME ChannelAssumption ==
    /\ \A u \in Uses : /\ u.panels \subseteq Sides \X {"chat", "track"}
                      /\ u.committed \subseteq Sides /\ u.envelopes \in Nat
    /\ Registered \subseteq Sides
    /\ THREAD_MAX \in Nat \ {0}
    /\ MaxPosts \in Nat /\ MaxFaults \in Nat

VARIABLES
    use,       \* the use this thread is put to
    threads,   \* store -> the envelopes it holds of the order's topic
    posts,     \* posts under way: the envelope, the store it is at, what that read
    thread,    \* panel -> its OrderThread, or Closed
    shown,     \* panel -> what it shows
    closedPanels,  \* panels that were closed once
    time,      \* the newest timestamp
    faults,    \* how many posts the shared store did not answer, threads a store forgot
    lines,     \* history: chat lines posted
    lost       \* history: lines a race, a refusal or a forgetful store took

history == <<lines, lost>>
channelVars == <<use, threads, posts, thread, shown, closedPanels, time, faults, history>>

Peer(w) == IF w = "customer" THEN "driver" ELSE "customer"

OrderThread == [open |-> TRUE, peerPub |-> FALSE, peerCommit |-> FALSE, seq |-> 0,
                seen |-> {}, lastTs |-> 0]
Closed == [OrderThread EXCEPT !.open = FALSE]

ChannelInit ==
    /\ use \in Uses
    /\ threads = [s \in Stores |-> {}]
    /\ posts = {}
    /\ thread = [p \in Panels |-> Closed]
    /\ shown = [p \in Panels |-> [msgs |-> << >>, place |-> 0, peerProfile |-> 0]]
    /\ closedPanels = {} /\ time = 0 /\ faults = 0 /\ lines = {} /\ lost = {}

-----------------------------------------------------------------------------
(* Posting.                                                                *)

Envelope(from, seq, kind, commit) ==
    [from |-> from, seq |-> seq, kind |-> kind, ts |-> time + 1, commit |-> commit]

\* post: its result is looked at by nobody.
Post(env) ==
    /\ time < use.envelopes /\ Cardinality(posts) < MaxPosts
    /\ posts' = posts \cup {[env |-> env, at |-> "kv", view |-> NotRead]}
    /\ time' = time + 1
    /\ lines' = IF env.kind = "chat" THEN lines \cup {env} ELSE lines
    /\ UNCHANGED <<use, threads, faults, lost>>

\* The hello is announced with number -1, whatever it carries.
Hello(w, commit) == Post(Envelope(w, -1, "hello", commit))

\* A panel opens: a new OrderThread, which announces itself; the chat with
\* the commitment to the profile, if there is one.
Open(p) ==
    /\ p \in use.panels /\ ~thread[p].open
    /\ thread' = [thread EXCEPT ![p] = OrderThread]
    /\ Hello(p[1], p[2] = "chat" /\ p[1] \in use.committed)
    /\ UNCHANGED <<use, shown, closedPanels>>

\* Hidden or unmounted.
Close(p) ==
    /\ thread[p].open
    /\ p \notin closedPanels /\ Cardinality(closedPanels) + faults < MaxFaults
    /\ thread' = [thread EXCEPT ![p] = Closed]
    /\ closedPanels' = closedPanels \cup {p}
    /\ UNCHANGED <<use, threads, posts, shown, time, faults, history>>

\* send, sendLoc, sendProfile: without the peer's key, only a hello goes out.
Send(p) ==
    /\ thread[p].open /\ p[2] = "chat"
    /\ IF thread[p].peerPub
       THEN /\ Post(Envelope(p[1], thread[p].seq, "chat", FALSE))
            /\ thread' = [thread EXCEPT ![p].seq = @ + 1]
       ELSE Hello(p[1], FALSE) /\ UNCHANGED thread
    /\ UNCHANGED <<use, shown, closedPanels>>

SendLatest(p, kind) ==
    /\ thread[p].open
    /\ IF thread[p].peerPub THEN Post(Envelope(p[1], 0, kind, FALSE)) ELSE Hello(p[1], FALSE)
    /\ UNCHANGED <<use, thread, shown, closedPanels>>

SendProfile(p) == p[2] = "chat" /\ p[1] \in use.committed /\ SendLatest(p, "profile")
SendLoc(p) == p = <<"driver", "track">> /\ SendLatest(p, "loc")

-----------------------------------------------------------------------------
(* The stores.                                                             *)

\* Mutant: the kind is no part of an envelope's identity.
SameMessage_AnyKind(a, b) == a.from = b.from /\ a.seq = b.seq
\* "(from, seq) is the message identity - a retry replaces": with the kind.
SameMessage(a, b) == a.from = b.from /\ a.seq = b.seq /\ a.kind = b.kind

\* Replaced or appended, sorted by time, cut to the newest.
Stored(mail, env) ==
    LET all == {e \in mail : ~SameMessage(e, env)} \cup {env}
    IN {e \in all : Cardinality({f \in all : f.ts > e.ts}) < THREAD_MAX}

Fault == Cardinality(closedPanels) + faults < MaxFaults /\ faults' = faults + 1

\* The shared store takes the thread out ...
ReadThread(q) ==
    /\ q.at = "kv" /\ q.view = NotRead
    /\ posts' = (posts \ {q}) \cup {[q EXCEPT !.view = threads["kv"]]}
    /\ UNCHANGED <<use, threads, thread, shown, closedPanels, time, faults, history>>

\* ... and puts it back, over what others put there meanwhile.  If the answer
\* is not heard, the client goes on to the relay.
WriteThread(q) ==
    /\ q.at = "kv" /\ q.view # NotRead
    /\ threads' = [threads EXCEPT !["kv"] = Stored(q.view, q.env)]
    /\ \/ posts' = posts \ {q} /\ UNCHANGED faults
       \/ /\ posts' = (posts \ {q}) \cup {[q EXCEPT !.at = "relay", !.view = NotRead]}
          /\ Fault
    /\ lost' = lost \cup (lines \cap (threads["kv"] \ q.view))
    /\ UNCHANGED <<use, thread, shown, closedPanels, time, lines>>

\* POST /msg of a venue's relay.
RelayThread(q) ==
    /\ q.at = "relay"
    /\ threads' = [threads EXCEPT !["relay"] = Stored(@, q.env)]
    /\ posts' = posts \ {q}
    /\ UNCHANGED <<use, thread, shown, closedPanels, time, faults, history>>

\* Not configured, limited, not reachable: the next store, or nowhere.
Refused(q) ==
    /\ q.view = NotRead
    /\ \/ /\ q.at = "kv" /\ Fault
          /\ posts' = (posts \ {q}) \cup {[q EXCEPT !.at = "relay"]}
          /\ UNCHANGED lost
       \/ /\ q.at = "relay" /\ UNCHANGED faults
          /\ posts' = posts \ {q}
          /\ lost' = lost \cup (lines \cap {q.env})
    /\ UNCHANGED <<use, threads, thread, shown, closedPanels, time, lines>>

\* threadOf, TTL_SECONDS: a thread whose time is over is gone, and the next
\* visitor finds a new one; a relay that is started again has none.
Forget(s) ==
    /\ threads[s] # {} /\ Fault
    /\ threads' = [threads EXCEPT ![s] = {}]
    /\ lost' = lost \cup (lines \cap threads[s])
    /\ UNCHANGED <<use, posts, thread, shown, closedPanels, time, lines>>

-----------------------------------------------------------------------------
(* Polling.                                                                *)

\* What a panel wants the newest of.
Latest(p) == CASE p[2] = "chat" -> "profile"
               [] p = <<"customer", "track">> -> "loc"
               [] OTHER -> "none"

Earlier(e, f) == e.ts < f.ts
Newest(mail) == CHOOSE e \in mail : \A f \in mail : e.ts >= f.ts

\* Pass 1: the peer's key and his commitment, from any hello of his.
Adopted(t, mail, peer) ==
    LET hellos == {e \in mail : e.kind = "hello" /\ e.from = peer}
    IN [t EXCEPT !.peerPub = @ \/ hellos # {},
                 !.peerCommit = @ \/ \E e \in hellos : e.commit]

\* Mutant: lines that cannot be opened yet count as seen.
Seen_Unopened(t, unread) == t.seen \cup {e.seq : e \in unread}
\* Pass 2: "can't open yet - retry next poll".  Of two lines numbered alike in
\* one answer there is none: the stores replace.
Seen(t, unread) == IF t.peerPub THEN t.seen \cup {e.seq : e \in unread} ELSE t.seen

\* Mutant: the newest envelope of an answer is taken, whatever was taken before.
IsNews_Always(t, mail) == mail # {}
\* Passes 3 to 5: newest.ts > this.lastLocTs, lastPhotoTs, lastProfileTs.
IsNews(t, mail) == mail # {} /\ Newest(mail).ts > t.lastTs

\* poll, with the first store that answers (none, and nothing is read).  A
\* track panel throws the lines away.  A profile that comes before the
\* commitment is not shown, and lastTs is past it.
Poll(p, s) ==
    LET peer == Peer(p[1])
        theirs(kind) == {e \in threads[s] : e.kind = kind /\ e.from = peer}
        t == Adopted(thread[p], threads[s], peer)
        unread == {e \in theirs("chat") : e.seq \notin t.seen}
        lineup == SetToSortSeq(IF t.peerPub /\ p[2] = "chat" THEN unread ELSE {}, Earlier)
        latest == theirs(Latest(p))
        news == t.peerPub /\ IsNews(t, latest)
        known == peer \in Registered \/ t.peerCommit
    IN
    /\ thread[p].open
    /\ thread' = [thread EXCEPT ![p] =
          [t EXCEPT !.seen = Seen(t, unread), !.lastTs = IF news THEN Newest(latest).ts ELSE @]]
    /\ shown' = [shown EXCEPT
          ![p].msgs = @ \o [i \in DOMAIN lineup |-> lineup[i].ts],
          ![p].place = IF news /\ Latest(p) = "loc" THEN Newest(latest).ts ELSE @,
          ![p].peerProfile = IF news /\ Latest(p) = "profile" /\ known
                             THEN Newest(latest).ts ELSE @]
    /\ UNCHANGED <<use, threads, posts, closedPanels, time, faults, history>>

-----------------------------------------------------------------------------
ChannelNext ==
    \/ \E p \in Panels :
          \/ Open(p) \/ Close(p) \/ Send(p) \/ SendProfile(p) \/ SendLoc(p)
          \/ \E s \in Stores : Poll(p, s)
    \/ \E q \in posts : ReadThread(q) \/ WriteThread(q) \/ RelayThread(q) \/ Refused(q)
    \/ \E s \in Stores : Forget(s)

\* Every post is answered or given up, every envelope opened; and a panel that
\* stays open has a poll answered by the shared store again and again.
ChannelFairness ==
    /\ WF_channelVars(\E q \in posts : ReadThread(q) \/ WriteThread(q) \/ RelayThread(q) \/ Refused(q))
    /\ \A p \in Panels : WF_channelVars(Poll(p, "kv"))

ChannelSpec == ChannelInit /\ [][ChannelNext]_channelVars /\ ChannelFairness

-----------------------------------------------------------------------------
(* Properties.                                                             *)

NumberedAlike(l) == \E m \in lines : m # l /\ m.from = l.from /\ m.seq = l.seq

\* What was posted is not mixed up on its way through two stores, retries,
\* replacing and cutting: a chat line is under way or in a store, unless a race
\* in the shared store, a refusal by both or a store that forgot its thread took
\* it, its sender numbered another line alike (he began again from 0 with the
\* panel), or it is too old to be kept.
LinesAccounted ==
    \A l \in lines :
        \/ \E s \in Stores : l \in threads[s]
        \/ \E q \in posts : q.env = l
        \/ l \in lost
        \/ NumberedAlike(l)
        \/ time - l.ts >= THREAD_MAX

\* Older answers may come after newer ones, and an older place may replace a
\* newer one in a store: the place and the profile shown never go back in time,
\* unless the panel was opened again.
NewsOnlyForward ==
    [][\A p \in Panels :
          p \notin closedPanels' =>
              /\ shown'[p].place >= shown[p].place
              /\ shown'[p].peerProfile >= shown[p].peerProfile]_channelVars

\* The lines of the peer that a chat can read: with his hello beside them.
Readable(p) ==
    {l \in lines \cap threads["kv"] :
        /\ thread[p].open /\ l.from = Peer(p[1])
        /\ \E e \in threads["kv"] : e.kind = "hello" /\ e.from = l.from}

\* A line that stays in the shared store, with its sender's hello beside it, is
\* shown by a chat that stays open, unless another line has its number.
LinesShown ==
    \A p \in {q \in Panels : q[2] = "chat"} :
        []<>(\A l \in Readable(p) :
                NumberedAlike(l) \/ \E i \in DOMAIN shown[p].msgs : shown[p].msgs[i] = l.ts)
=============================================================================
