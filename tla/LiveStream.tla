----------------------------- MODULE LiveStream -----------------------------
(***************************************************************************)
(* The browser's end of the event stream of one agent                      *)
(* (internal/server/static/modules/agent-stream.mjs, page-lifecycle.mjs):  *)
(* a snapshot of the rows, a cursor into the events after it, and a socket *)
(* that is opened again at the cursor, or after a new snapshot, whenever   *)
(* it is lost. Every await is a point where another callback may run. The  *)
(* hub is represented by what EventHub promises of it: a socket carries    *)
(* the events after its cursor, in order, and then perhaps a resync frame. *)
(*                                                                         *)
(* A page that connects again forgets what its earlier connection was      *)
(* still waiting for.                                                      *)
(***************************************************************************)
EXTENDS Integers, Sequences

CONSTANTS
    ReplayDepth,    \* events the hub can replay
    MaxEvents,      \* bound: events of one session
    MaxFeeds,       \* bound: sessions of the stream
    MaxFlips,       \* bound: times the browser goes offline or online
    MaxFailures     \* bound: failed requests, sockets and handlers, and visits left

ASSUME LiveStreamAssumption ==
    {ReplayDepth, MaxEvents, MaxFeeds, MaxFlips, MaxFailures} \subseteq Nat

VARIABLES
    feed,       \* the stream: session and latest sequence
    page,       \* the controller's variables and what the page shows
    network,    \* online; flips, the online and offline events not handled yet
    failures    \* history: failures so far

streamVars == <<feed, page, network, failures>>

NoSocket == [at |-> "none", connected |-> FALSE]
NoRecovery == [at |-> "none", mark |-> [session |-> 0, sequence |-> 0], rows |-> {}]
NoAnswer == [at |-> "none", mark |-> NoRecovery.mark]

\* disconnect: nothing is wanted, open or awaited; handling is the event in the
\* hands of the socket's handler, late those of handlers of replaced sockets.
Stopped == [on |-> FALSE, cursor |-> NoRecovery.mark, timer |-> "none", socket |-> NoSocket,
            recovery |-> NoRecovery, resume |-> NoAnswer, handling |-> {}, late |-> {},
            pending |-> FALSE, shown |-> {}]

StreamInit ==
    /\ feed = [session |-> 1, sequence |-> 0]
    /\ page = Stopped
    /\ network = [online |-> TRUE, flips |-> <<>>, count |-> 0]
    /\ failures = 0

\* The events published so far: their effect is in the rows.
Published == {e \in (1..feed.session) \X (1..MaxEvents) :
                 e[1] = feed.session => e[2] <= feed.sequence}

-----------------------------------------------------------------------------
(* The controller's functions, on the value p of page *)

closeCurrentSocket(p) ==
    [p EXCEPT !.socket = NoSocket, !.late = @ \cup p.handling, !.handling = {}]

pauseForOffline(p) == [closeCurrentSocket(p) EXCEPT !.timer = "none"]

scheduleReconnect(p, operation) ==
    IF p.timer # "none" THEN p
    ELSE IF ~network.online THEN pauseForOffline(p)
    ELSE [p EXCEPT !.timer = operation]

recoverFromSnapshot(p) ==
    IF ~network.online THEN pauseForOffline(p)
    ELSE IF p.recovery.at # "none" THEN p
    ELSE [pauseForOffline(p) EXCEPT !.recovery.at = "ask"]

requestSnapshot(p) == recoverFromSnapshot(closeCurrentSocket(p))

\* openSocket, unless the constructor throws.
Opened(p) ==
    IF ~network.online THEN pauseForOffline(p)
    ELSE [pauseForOffline(p) EXCEPT !.socket.at = "opening"]

Fails == failures < MaxFailures /\ failures' = failures + 1

\* openSocket when the constructor throws.
Broken(p) == scheduleReconnect(pauseForOffline(p), "open")

\* openSocket, with what the caller makes of a page whose constructor threw.
openSocket(p, thrown) ==
    \/ page' = Opened(p) /\ UNCHANGED failures
    \/ network.online /\ Fails /\ page' = thrown

Usable == page.socket.at \in {"opening", "live", "resync"}

-----------------------------------------------------------------------------
(* The user and the browser *)

\* connect, also on a page that is connected already.
Connect ==
    /\ failures < MaxFailures \/ ~page.on
    /\ failures' = IF page.on THEN failures + 1 ELSE failures
    /\ page' = recoverFromSnapshot([Stopped EXCEPT !.on = TRUE, !.shown = page.shown, !.pending = page.pending])
    /\ UNCHANGED <<feed, network>>

Disconnect ==
    /\ page.on /\ Fails
    /\ page' = [Stopped EXCEPT !.pending = page.pending]
    /\ UNCHANGED <<feed, network>>

Flip ==
    /\ network.count < MaxFlips
    /\ network' = [online |-> ~network.online, count |-> network.count + 1,
                   flips |-> Append(network.flips, ~network.online)]
    /\ UNCHANGED <<feed, page, failures>>

\* handleOffline pauses the stream; handleOnline schedules a resume.
HandleFlip ==
    /\ network.flips # <<>>
    /\ network' = [network EXCEPT !.flips = Tail(@)]
    /\ page' = IF Head(network.flips) THEN [page EXCEPT !.pending = network.online]
               ELSE [IF page.on THEN pauseForOffline(page) ELSE page EXCEPT !.pending = FALSE]
    /\ UNCHANGED <<feed, failures>>

Resumed(p) ==
    IF ~p.on THEN p
    ELSE IF ~network.online THEN pauseForOffline(p)
    ELSE IF p.recovery.at # "none" \/ p.resume.at # "none" THEN p
    ELSE [p EXCEPT !.timer = "none", !.resume.at = "ask"]

\* runPending, after the browser came online or the page became visible; a
\* started turn calls resume too.
RunPending ==
    /\ page.pending \/ page.on
    /\ page' = IF network.online THEN Resumed([page EXCEPT !.pending = FALSE])
               ELSE [page EXCEPT !.pending = FALSE]
    /\ UNCHANGED <<feed, network, failures>>

TimerFires ==
    /\ page.timer # "none"
    /\ LET p == [page EXCEPT !.timer = "none"] IN
          \/ page.timer = "snapshot" /\ page' = recoverFromSnapshot(p) /\ UNCHANGED failures
          \/ page.timer = "open" /\ openSocket(p, Broken(p))
    /\ UNCHANGED <<feed, network>>

-----------------------------------------------------------------------------
(* The two requests *)

\* A slip: liveSnapshot reads the rows before the watermark.
ReadRowsFirst ==
    /\ \/ /\ page.recovery.at = "ask"
          /\ page' = [page EXCEPT !.recovery.at = "rows", !.recovery.rows = Published]
       \/ /\ page.recovery.at = "rows"
          /\ page' = [page EXCEPT !.recovery.at = "answer", !.recovery.mark = feed]
    /\ UNCHANGED <<feed, network, failures>>

\* liveSnapshot: first the hub's watermark, then the rows.
LiveSnapshot ==
    /\ \/ /\ page.recovery.at = "ask"
          /\ page' = [page EXCEPT !.recovery.at = "rows", !.recovery.mark = feed]
       \/ /\ page.recovery.at = "rows"
          /\ page' = [page EXCEPT !.recovery.at = "answer", !.recovery.rows = Published]
    /\ UNCHANGED <<feed, network, failures>>

SnapshotArrives ==
    /\ page.recovery.at = "answer"
    /\ page' = IF network.online THEN [page EXCEPT !.recovery.at = "apply"]
               ELSE [pauseForOffline(page) EXCEPT !.recovery = NoRecovery]
    /\ UNCHANGED <<feed, network, failures>>

\* onSnapshot has awaited its notifications: the page shows the rows.
ApplySnapshot ==
    /\ page.recovery.at = "apply"
    /\ LET p == [page EXCEPT !.recovery = NoRecovery, !.cursor = page.recovery.mark,
                             !.shown = page.recovery.rows]
       IN openSocket(p, Broken(p))
    /\ UNCHANGED <<feed, network>>

RecoveryFails ==
    /\ page.recovery.at # "none" /\ Fails
    /\ page' = scheduleReconnect([page EXCEPT !.recovery = NoRecovery], "snapshot")
    /\ UNCHANGED <<feed, network>>

StreamState ==
    /\ page.resume.at = "ask"
    /\ page' = [page EXCEPT !.resume = [at |-> "answer", mark |-> feed]]
    /\ UNCHANGED <<feed, network, failures>>

\* changed also compares the execution generation, so it may be true of equal
\* marks.
ResumeAnswered ==
    LET p == [page EXCEPT !.resume = NoAnswer]
        mark == page.resume.mark
    IN
    /\ page.resume.at = "answer"
    /\ IF ~network.online THEN page' = pauseForOffline(p) /\ UNCHANGED failures
       ELSE IF mark.session # page.cursor.session THEN page' = recoverFromSnapshot(p) /\ UNCHANGED failures
       ELSE \/ openSocket(p, recoverFromSnapshot([Broken(p) EXCEPT !.timer = "none"]))
            \/ mark = page.cursor /\ Usable /\ page' = p /\ UNCHANGED failures
    /\ UNCHANGED <<feed, network>>

ResumeFails ==
    /\ page.resume.at # "none" /\ Fails
    /\ page' = recoverFromSnapshot([page EXCEPT !.resume = NoAnswer])
    /\ UNCHANGED <<feed, network>>

-----------------------------------------------------------------------------
(* The hub and the socket *)

HubPublish ==
    /\ feed.sequence < MaxEvents
    /\ feed' = [feed EXCEPT !.sequence = @ + 1]
    /\ UNCHANGED <<page, network, failures>>

\* A restart, an eviction or a wrap; the socket's end is told or broken off.
NewStream ==
    /\ feed.session < MaxFeeds
    /\ feed' = [session |-> feed.session + 1, sequence |-> 0]
    /\ \E end \in {"lost", "resync"} :
          page' = IF page.socket.at \in {"opening", "live"} THEN [page EXCEPT !.socket.at = end] ELSE page
    /\ UNCHANGED <<network, failures>>

SocketGoes(from, to) ==
    /\ page.socket.at \in from
    /\ page' = [page EXCEPT !.socket.at = to]
    /\ UNCHANGED <<feed, network>>

\* SubscribeProtocol refuses what it cannot replay; a live subscriber may be
\* overrun, a connection may break.
Replayable == page.cursor.session = feed.session /\ page.cursor.sequence \in feed.sequence - ReplayDepth .. feed.sequence

AgentWS ==
    \/ Replayable /\ SocketGoes({"opening"}, "live") /\ UNCHANGED failures
    \/ ~Replayable /\ SocketGoes({"opening"}, "resync") /\ UNCHANGED failures
    \/ SocketGoes({"live"}, "resync") /\ Fails
    \/ SocketGoes({"opening", "live", "resync"}, "lost") /\ Fails

ConnectedFrame ==
    /\ page.socket.at = "live" /\ ~page.socket.connected
    /\ page' = [page EXCEPT !.socket.connected = TRUE]
    /\ UNCHANGED <<feed, network, failures>>

ResyncFrame ==
    /\ page.socket.at = "resync" /\ page.handling = {}
    /\ page' = requestSnapshot(page)
    /\ UNCHANGED <<feed, network, failures>>

\* processMessage up to its await, and after it.
EventFrame ==
    /\ page.socket.connected /\ page.handling = {}
    /\ page.cursor.session = feed.session /\ page.cursor.sequence < feed.sequence
    /\ page' = [page EXCEPT !.handling = {<<page.cursor.session, page.cursor.sequence + 1>>}]
    /\ UNCHANGED <<feed, network, failures>>

EventHandled ==
    /\ \/ \E e \in page.handling :
             page' = [page EXCEPT !.shown = @ \cup {e}, !.handling = {}, !.cursor.sequence = e[2]]
       \/ \E e \in page.late : page' = [page EXCEPT !.shown = @ \cup {e}, !.late = @ \ {e}]
    /\ UNCHANGED <<feed, network, failures>>

\* A handler that throws asks for a snapshot, whichever socket is open by now.
EventFails ==
    /\ \/ page.handling # {} /\ page' = requestSnapshot([page EXCEPT !.handling = {}])
       \/ \E e \in page.late : page' = requestSnapshot([page EXCEPT !.late = @ \ {e}])
    /\ Fails
    /\ UNCHANGED <<feed, network>>

SocketClosed ==
    /\ page.socket.at = "lost"
    /\ page' = scheduleReconnect(closeCurrentSocket(page),
                   IF page.socket.connected THEN "open" ELSE "snapshot")
    /\ UNCHANGED <<feed, network, failures>>

StreamNext ==
    \/ Connect \/ Disconnect \/ Flip \/ HandleFlip \/ RunPending \/ TimerFires
    \/ LiveSnapshot \/ SnapshotArrives \/ ApplySnapshot \/ RecoveryFails
    \/ StreamState \/ ResumeAnswered \/ ResumeFails
    \/ HubPublish \/ NewStream \/ AgentWS
    \/ ConnectedFrame \/ ResyncFrame \/ EventFrame \/ EventHandled \/ EventFails \/ SocketClosed

StreamSpec == StreamInit /\ [][StreamNext]_streamVars

-----------------------------------------------------------------------------
\* Something will bring the page up to date: a socket, a timer, a request, or
\* the browser's word that it is online.
WillBeTold ==
    \/ page.socket # NoSocket \/ page.timer # "none"
    \/ page.recovery.at # "none" \/ page.resume.at # "none"
    \/ page.pending
    \/ ~network.online \/ TRUE \in {network.flips[i] : i \in DOMAIN network.flips}

\* The page shows every event up to its cursor, whatever was read, awaited or
\* reconnected in between, so none is skipped; and a connected page is never
\* stranded.
StreamCaughtUp ==
    /\ \A n \in 1..page.cursor.sequence : <<page.cursor.session, n>> \in page.shown
    /\ page.on => WillBeTold
=============================================================================
