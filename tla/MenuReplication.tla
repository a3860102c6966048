-------------------------- MODULE MenuReplication --------------------------
(***************************************************************************)
(* How a venue's menu comes to be held by the venue nodes: the venue       *)
(* publishes a menu and records its address in the registry (FareVenues);  *)
(* the replication agent of a node (venue-node/agent.mjs) reads the        *)
(* registry's events page by page, pins the menus of its home region and a *)
(* few others in its IPFS node, and publishes a manifest of what it holds. *)
(*                                                                         *)
(* Every event has a block of its own, its place in log.  A menu carries   *)
(* the time it was published at, so that its address is new each time: it  *)
(* is written as the block of the event that announces it.                 *)
(***************************************************************************)
EXTENDS Naturals, Sequences, FiniteSetsExt

CONSTANTS Venues,
          LOG_RANGE,      \* blocks read at once
          GLOBAL_SAMPLE,  \* menus pinned of venues elsewhere
          START_BLOCK,    \* the first block read
          MaxBlocks,      \* bound: events in the registry
          MaxMoves,       \* bound: changes of a venue's place
          MaxFaults       \* bound: failed or incomplete answers, and restarts

ASSUME ReplicationAssumption ==
    /\ LOG_RANGE \in Nat \ {0} /\ START_BLOCK \in Nat \ {0}
    /\ GLOBAL_SAMPLE \in Nat /\ MaxBlocks \in Nat /\ MaxMoves \in Nat /\ MaxFaults \in Nat

VARIABLES
    venues,      \* FareVenues.venues, by number: in the home region? the menu
    log,         \* the registry's events
    moves,
    known,       \* what the agent knows of each venue
    pinned,      \* what it has pinned since it started
    globalPins,
    lastBlock,
    scan,        \* the scan under way and what it waits for
    kept,        \* what the node's IPFS store holds
    manifest,    \* what the last manifest published claims to serve
    faults,
    missed,      \* history: events left out of an answer since the start
    failed,      \* history: menus whose last pin failed
    outdated     \* history: the last manifest was not published

registry == <<venues, log, moves>>
memory   == <<known, pinned, globalPins, lastBlock, scan>>
store    == <<kept, manifest>>
history  == <<missed, failed, outdated>>
menuVars     == <<registry, memory, store, faults, history>>

Local   == 0                            \* a menu kept on the venue's device only
NoVenue == [near |-> FALSE, menu |-> Local]
Idle    == [at |-> "idle", events |-> {}, to |-> 0, head |-> 0, menu |-> Local, global |-> FALSE]

Registered == {v \in Venues : \E b \in DOMAIN log : log[b].venue = v}

MenusInit ==
    /\ venues = [v \in Venues |-> NoVenue] /\ log = <<>> /\ moves = 0
    /\ known = <<>> /\ pinned = {} /\ globalPins = 0
    /\ lastBlock = START_BLOCK - 1 /\ scan = Idle
    /\ kept = {} /\ manifest = {} /\ faults = 0
    /\ missed = {} /\ failed = {} /\ outdated = FALSE

-----------------------------------------------------------------------------
(* The registry.                                                           *)

\* publishMenu: the address of the shared menu, or of one on this device when
\* /api/menu does not answer with one.
Published == {Len(log) + 1, Local}

Emit(v, sort, near, menu) ==
    /\ Len(log) < MaxBlocks
    /\ log' = Append(log, [venue |-> v, sort |-> sort, near |-> near, menu |-> menu])
    /\ venues' = [venues EXCEPT ![v] = [near |-> near, menu |-> menu]]
    /\ UNCHANGED <<moves, memory, store, faults, history>>

\* registerVenue (with or without a menu), importVenues of a successor registry.
RegisterVenue(v) ==
    /\ v \notin Registered
    /\ \E near \in BOOLEAN, menu \in Published : Emit(v, "VenueRegistered", near, menu)

\* Publish in the page, then setMetadata: a transaction that fails leaves the
\* old menu, whatever the page says.
SetMetadata(v) ==
    /\ v \in Registered
    /\ \E menu \in Published : Emit(v, "VenueMetadataUpdated", venues[v].near, menu)

\* setLocation has an event of its own, which the agent does not read.
SetLocation(v) ==
    /\ v \in Registered /\ moves < MaxMoves
    /\ venues' = [venues EXCEPT ![v].near = ~@]
    /\ moves' = moves + 1
    /\ UNCHANGED <<log, memory, store, faults, history>>

-----------------------------------------------------------------------------
(* The agent's scan.                                                       *)

Fault == faults < MaxFaults /\ faults' = faults + 1

\* loop: a new head.
StartScan ==
    /\ scan.at = "idle" /\ lastBlock < Len(log)
    /\ scan' = [Idle EXCEPT !.at = "page", !.to = lastBlock, !.head = Len(log)]
    /\ UNCHANGED <<registry, known, pinned, globalPins, lastBlock, store, faults, history>>

\* The next page: the blocks in it with an event of either sort, which are
\* then taken lowest first.  An endpoint of the pool that is behind answers
\* without the newest ("getLogs misses events").
ReadPage ==
    /\ scan.at = "page" /\ scan.events = {} /\ scan.to = lastBlock /\ lastBlock < scan.head
    /\ LET to == IF lastBlock + LOG_RANGE < scan.head THEN lastBlock + LOG_RANGE ELSE scan.head
           blocks == lastBlock + 1 .. to
       IN \E left \in SUBSET blocks :
             /\ IF left = {} THEN UNCHANGED faults ELSE Fault
             /\ scan' = [scan EXCEPT !.to = to, !.events = blocks \ left]
             /\ missed' = missed \cup left
    /\ UNCHANGED <<registry, known, pinned, globalPins, lastBlock, store, failed, outdated>>

\* Mutant: a page that cannot be read to its end is skipped.
AfterError_Skip == scan.to
\* The cursor stays: the page is read again, from its beginning.
AfterError == lastBlock

\* A read of the chain that throws: of a page, or of the coordinates of a venue
\* that an update names and the agent has not heard of.
ScanError ==
    /\ scan.at = "page" /\ Fault
    /\ \/ scan.to = lastBlock
       \/ /\ scan.events # {}
          /\ LET e == log[Min(scan.events)]
             IN e.sort = "VenueMetadataUpdated" /\ e.venue \notin DOMAIN known
    /\ lastBlock' = AfterError
    /\ scan' = Idle
    /\ UNCHANGED <<registry, known, pinned, globalPins, store, history>>

\* Where the agent takes the venue to be: as registered, as heard before, or
\* as the registry has it now.
NearOf(e) ==
    IF e.sort = "VenueRegistered" THEN e.near
    ELSE IF e.venue \in DOMAIN known THEN known[e.venue].near
    ELSE venues[e.venue].near

Wanted(e, near) ==
    LET held == e.venue \in DOMAIN known /\ known[e.venue].menu = e.menu
    IN /\ e.menu # Local
       /\ ~(held /\ e.menu \in pinned)
       /\ near \/ (globalPins < GLOBAL_SAMPLE /\ e.menu \notin pinned)

\* consider: the venue is noted before the pin.
Consider ==
    /\ scan.at = "page" /\ scan.events # {}
    /\ LET e == log[Min(scan.events)]
           near == NearOf(e)
       IN /\ known' = [v \in DOMAIN known \cup {e.venue} |->
                          IF v = e.venue THEN [near |-> near, menu |-> e.menu] ELSE known[v]]
          /\ scan' = IF Wanted(e, near)
                     THEN [scan EXCEPT !.events = @ \ {Min(@)}, !.at = "pin",
                                       !.menu = e.menu, !.global = ~near]
                     ELSE [scan EXCEPT !.events = @ \ {Min(@)}]
    /\ UNCHANGED <<registry, pinned, globalPins, lastBlock, store, faults, history>>

PinAdd ==
    /\ scan.at = "pin"
    /\ kept' = kept \cup {scan.menu} /\ pinned' = pinned \cup {scan.menu}
    /\ failed' = failed \ {scan.menu}
    /\ globalPins' = IF scan.global THEN globalPins + 1 ELSE globalPins
    /\ scan' = [scan EXCEPT !.at = "publish"]
    /\ UNCHANGED <<registry, known, lastBlock, manifest, faults, missed, outdated>>

\* Nobody has the menu, or the agent does not wait for the store's answer.
PinFails ==
    /\ scan.at = "pin" /\ Fault
    /\ kept' \in {kept, kept \cup {scan.menu}}
    /\ failed' = failed \cup {scan.menu}
    /\ scan' = [scan EXCEPT !.at = "page"]
    /\ UNCHANGED <<registry, known, pinned, globalPins, lastBlock, manifest, missed, outdated>>

\* publishManifest; nothing else calls it, so that it never finds itself running.
PublishManifest ==
    /\ scan.at = "publish"
    /\ \/ manifest' = pinned /\ outdated' = FALSE /\ UNCHANGED faults
       \/ Fault /\ outdated' = TRUE /\ UNCHANGED manifest
    /\ scan' = [scan EXCEPT !.at = "page"]
    /\ UNCHANGED <<registry, known, pinned, globalPins, lastBlock, kept, missed, failed>>

EndPage ==
    /\ scan.at = "page" /\ scan.events = {} /\ lastBlock < scan.to
    /\ lastBlock' = scan.to
    /\ scan' = IF scan.to < scan.head THEN scan ELSE Idle
    /\ UNCHANGED <<registry, known, pinned, globalPins, store, faults, history>>

\* The agent keeps nothing but what the IPFS store holds.
Restart ==
    /\ Fault
    /\ known' = <<>> /\ pinned' = {} /\ globalPins' = 0
    /\ lastBlock' = START_BLOCK - 1 /\ scan' = Idle
    /\ missed' = {} /\ failed' = {}
    /\ UNCHANGED <<registry, store, outdated>>

Agent == StartScan \/ ReadPage \/ Consider \/ PinAdd \/ PublishManifest \/ EndPage

MenusNext ==
    \/ \E v \in Venues : RegisterVenue(v) \/ SetMetadata(v) \/ SetLocation(v)
    \/ Agent \/ ScanError \/ PinFails \/ Restart

\* The loop sets its timer again whatever happens, and every call has a time
\* limit.
MenusSpec == MenusInit /\ [][MenusNext]_menuVars /\ WF_menuVars(Agent)

-----------------------------------------------------------------------------
(* Properties.                                                             *)

\* Why the agent may not hold the menu of a venue near by: the event was left
\* out of an answer or lies before the first block; the pin failed, which
\* nothing repeats; the manifest was not published and no pin came after; or the
\* venue moved, which the agent does not hear of.
Excused(v) ==
    \/ venues[v].menu \in missed \cup failed
    \/ venues[v].menu < START_BLOCK
    \/ outdated
    \/ v \in DOMAIN known /\ known[v].near # venues[v].near

\* "Re-pins on menu change": through pages read twice, missed answers, failures
\* and restarts, the current menu of every venue in the home region ends in the
\* node's store and in its manifest, unless one of those reasons holds (scanTo,
\* consider, publishManifest).
MenusServed ==
    \A v \in Venues :
        <>[](venues[v].near /\ ~Excused(v) => venues[v].menu \in kept \cap manifest)
=============================================================================
