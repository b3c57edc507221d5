------------------------------- MODULE Tunnel -------------------------------
(***************************************************************************)
(* The manager of one cloudflared process                                  *)
(* (internal/server/temporary_tunnel.go) under concurrent HTTP handlers.   *)
(* StartTunnel checks that no process runs, resolves its settings with the *)
(* lock released, then starts one and waits for its URL, its end, a timer  *)
(* or the request's context. StopTunnel and a timed-out start interrupt    *)
(* the process and wait for the one report of its end, which goes to a     *)
(* single taker.                                                           *)
(***************************************************************************)
EXTENDS Integers, FiniteSets

CONSTANTS
    Handlers,    \* HTTP handlers in flight at once
    Tunnels,     \* bound: cloudflared processes ever started
    Addresses    \* addresses the fronted listener may have

ASSUME TunnelAssumption == Addresses # {} /\ {"idle", "none"} \cap (Tunnels \cup Addresses) = {}

VARIABLES
    manager,    \* fields of TemporaryTunnelManager: process, status, available, started
    tunnel,     \* process -> [state, stop, url, done, asked]
    handler,    \* handler -> [pc, tunnel, address]
    listener,   \* where the fronted service listens now
    crossed     \* history: a start came into another one or into a revalidation, or a
                \* stop into a start that had not launched its process yet

tunnelVars == <<manager, tunnel, handler, listener, crossed>>

\* stop: stopRequested; url, done: the channels hold a value; asked: interrupted.
Unmade == [state |-> "unmade", stop |-> FALSE, url |-> FALSE, done |-> FALSE, asked |-> FALSE]
Resting == [pc |-> "idle", tunnel |-> "none", address |-> "none"]

TunnelBegins(address) ==
    /\ manager = [process |-> "none", status |-> "unavailable", available |-> FALSE, started |-> "none"]
    /\ tunnel = [p \in Tunnels |-> Unmade]
    /\ handler = [h \in Handlers |-> Resting]
    /\ listener = address
    /\ crossed = FALSE

TunnelInit == \E a \in Addresses : TunnelBegins(a)

Launching == {"resolve", "make", "launch"}
Starting == Launching \cup {"wait", "timeout", "gone"}
Closing == {"move", "closed", "failed"}    \* a revalidation that has begun to stop

At(h, pc) == handler[h].pc = pc
To(h, pc) == handler' = [handler EXCEPT ![h].pc = pc]
Leave(h) == handler' = [handler EXCEPT ![h] = Resting]

\* Handlers at rest are alike, so any one of them stands for the new one.
Called(h) == At(h, "idle") /\ h = CHOOSE g \in Handlers : At(g, "idle")

Crosses(pcs) == crossed' = (crossed \/ \E h \in Handlers : handler[h].pc \in pcs)

\* setErrorLocked: whatever process is held is let go.
ErrorState == [manager EXCEPT !.process = "none", !.status = "error"]

IdleStatus == IF manager.available THEN "idle" ELSE "unavailable"

\* Interrupt, or Kill when that fails; neither reaches a process not launched.
Interrupted(p) == [tunnel EXCEPT ![p].asked = @ \/ tunnel[p].state = "live"]

ListenerMoves ==
    /\ \E a \in Addresses \ {listener} : listener' = a
    /\ UNCHANGED <<manager, tunnel, handler, crossed>>

-----------------------------------------------------------------------------
(* Installing *)

InstallBegins(h) ==
    /\ Called(h)
    /\ manager.process = "none" /\ manager.status # "installing" /\ ~manager.available
    /\ manager' = [manager EXCEPT !.status = "installing"]
    /\ To(h, "install")
    /\ UNCHANGED <<tunnel, listener, crossed>>

InstallEnds(h) ==
    /\ At(h, "install")
    /\ \/ manager' = [manager EXCEPT !.available = TRUE, !.status = "idle"]
       \/ manager' = [manager EXCEPT !.status = "error"]
    /\ Leave(h)
    /\ UNCHANGED <<tunnel, listener, crossed>>

-----------------------------------------------------------------------------
(* StartTunnel *)

StartTunnel(h) ==
    /\ Called(h)
    /\ manager.process = "none" /\ manager.available
    /\ handler' = [handler EXCEPT ![h] = [pc |-> "resolve", tunnel |-> "none", address |-> listener]]
    /\ Crosses(Starting \cup Closing)
    /\ UNCHANGED <<manager, tunnel, listener>>

\* The named tunnel is unusable, or no process can be made.
StartFails(h) ==
    /\ At(h, "resolve") \/ At(h, "make")
    /\ manager' = ErrorState
    /\ Leave(h)
    /\ UNCHANGED <<tunnel, listener, crossed>>

MarkStarting(h) ==
    /\ At(h, "resolve")
    /\ manager' = [manager EXCEPT !.status = "starting", !.started = handler[h].address]
    /\ To(h, "make")
    /\ UNCHANGED <<tunnel, listener, crossed>>

Publish(h) ==
    /\ At(h, "make")
    /\ \E p \in Tunnels :
          /\ tunnel[p] = Unmade
          /\ p = CHOOSE q \in Tunnels : tunnel[q] = Unmade
          /\ tunnel' = [tunnel EXCEPT ![p].state = "made"]
          /\ manager' = [manager EXCEPT !.process = p]
          /\ handler' = [handler EXCEPT ![h].pc = "launch", ![h].tunnel = p]
    /\ UNCHANGED <<listener, crossed>>

\* process.Start fails: nobody waits for the process, no end is ever reported.
LaunchFails(h) ==
    LET p == handler[h].tunnel IN
    /\ At(h, "launch")
    /\ tunnel' = [tunnel EXCEPT ![p].state = "reaped"]
    /\ manager' = IF manager.process = p THEN ErrorState ELSE manager
    /\ Leave(h)
    /\ UNCHANGED <<listener, crossed>>

Launch(h) ==
    /\ At(h, "launch")
    /\ tunnel' = [tunnel EXCEPT ![handler[h].tunnel].state = "live"]
    /\ To(h, "wait")
    /\ UNCHANGED <<manager, listener, crossed>>

StartSucceeds(h) ==
    LET p == handler[h].tunnel IN
    /\ At(h, "wait") /\ tunnel[p].url
    /\ tunnel' = [tunnel EXCEPT ![p].url = FALSE]
    /\ manager' = IF manager.process = p THEN [manager EXCEPT !.status = "running"] ELSE manager
    /\ Leave(h)
    /\ UNCHANGED <<listener, crossed>>

TakeEnd(h) ==
    LET p == handler[h].tunnel IN
    /\ \E pc \in {"wait", "gone", "stop", "move"} : At(h, pc)
    /\ tunnel[p].done
    /\ tunnel' = [tunnel EXCEPT ![p].done = FALSE]
    /\ IF At(h, "move") THEN handler' = [handler EXCEPT ![h] = [Resting EXCEPT !.pc = "closed"]] ELSE Leave(h)
    /\ UNCHANGED <<manager, listener, crossed>>

\* The start gives up: on its timer it waits under the request's context, on a
\* canceled request it waits without one.
GiveUp(h) ==
    /\ At(h, "wait")
    /\ To(h, "timeout") \/ To(h, "gone")
    /\ tunnel' = Interrupted(handler[h].tunnel)
    /\ UNCHANGED <<manager, listener, crossed>>

\* A request that is canceled kills the process, and goes with its end or without.
EndOrKill(p) ==
    \/ tunnel[p].done /\ tunnel' = [tunnel EXCEPT ![p].done = FALSE]
    \/ tunnel' = Interrupted(p)

\* After a timeout failStart lets go of whatever process is held by now.
TimedOut(h) ==
    /\ At(h, "timeout")
    /\ EndOrKill(handler[h].tunnel)
    /\ manager' = ErrorState
    /\ Leave(h)
    /\ UNCHANGED <<listener, crossed>>

-----------------------------------------------------------------------------
(* StopTunnel and RevalidateAddress *)

\* The address a running process forwards to is compared, and the lock released
\* before the stop: the process may be over by then, or another one may run.
RevalidateAddress(h) ==
    /\ Called(h) /\ manager.process # "none"
    /\ manager.started \notin {"none", listener}
    /\ To(h, "moved")
    /\ UNCHANGED <<manager, tunnel, listener, crossed>>

StopIdle(h) ==
    /\ \/ Called(h) /\ UNCHANGED handler
       \/ At(h, "moved") /\ To(h, "closed")
    /\ manager.process = "none" /\ manager.status # "installing"
    /\ manager' = [manager EXCEPT !.status = IdleStatus, !.started = "none"]
    /\ Crosses(Launching)
    /\ UNCHANGED <<tunnel, listener>>

StopTunnel(h) ==
    LET p == manager.process IN
    /\ Called(h) \/ At(h, "moved")
    /\ p # "none"
    /\ tunnel' = [Interrupted(p) EXCEPT ![p].stop = TRUE]
    /\ manager' = [manager EXCEPT !.status = "stopping"]
    /\ handler' = [handler EXCEPT ![h].pc = IF At(h, "moved") THEN "move" ELSE "stop", ![h].tunnel = p]
    /\ Crosses(Launching)
    /\ UNCHANGED listener

StopCanceled(h) ==
    /\ \/ At(h, "stop") /\ Leave(h)
       \/ At(h, "move") /\ To(h, "failed")
    /\ EndOrKill(handler[h].tunnel)
    /\ UNCHANGED <<manager, listener, crossed>>

\* The revalidation takes the lock again to say why there is no tunnel.
Revalidated(h) ==
    /\ \/ At(h, "closed") /\ manager' = [manager EXCEPT !.status = "error", !.started = "none"]
       \/ At(h, "failed") /\ manager' = ErrorState
    /\ Leave(h)
    /\ UNCHANGED <<tunnel, listener, crossed>>

-----------------------------------------------------------------------------
(* The process *)

PrintURL(p) ==
    /\ tunnel[p].state = "live" /\ ~tunnel[p].url
    /\ tunnel' = [tunnel EXCEPT ![p].url = TRUE]
    /\ UNCHANGED <<manager, handler, listener, crossed>>

Exit(p) ==
    /\ tunnel[p].state = "live"
    /\ tunnel' = [tunnel EXCEPT ![p].state = "exited"]
    /\ UNCHANGED <<manager, handler, listener, crossed>>

\* A slip: the end of any process empties the manager.
ReapAny(p) ==
    /\ tunnel[p].state = "exited"
    /\ tunnel' = [tunnel EXCEPT ![p].state = "reaped", ![p].done = TRUE]
    /\ manager' = [manager EXCEPT !.process = "none", !.started = "none",
                       !.status = IF tunnel[p].stop THEN IdleStatus ELSE "error"]
    /\ UNCHANGED <<handler, listener, crossed>>

\* waitTemporaryTunnel: the manager is emptied of this process only.
Reap(p) ==
    /\ tunnel[p].state = "exited"
    /\ tunnel' = [tunnel EXCEPT ![p].state = "reaped", ![p].done = TRUE]
    /\ manager' = IF manager.process # p THEN manager
                  ELSE [manager EXCEPT !.process = "none", !.started = "none",
                            !.status = IF tunnel[p].stop THEN IdleStatus ELSE "error"]
    /\ UNCHANGED <<handler, listener, crossed>>

TunnelNext ==
    \/ ListenerMoves
    \/ \E h \in Handlers :
          \/ InstallBegins(h) \/ InstallEnds(h)
          \/ StartTunnel(h) \/ StartFails(h) \/ MarkStarting(h) \/ Publish(h)
          \/ LaunchFails(h) \/ Launch(h) \/ StartSucceeds(h) \/ GiveUp(h) \/ TimedOut(h)
          \/ TakeEnd(h) \/ RevalidateAddress(h) \/ StopIdle(h) \/ StopTunnel(h) \/ StopCanceled(h) \/ Revalidated(h)
    \/ \E p \in Tunnels : PrintURL(p) \/ Exit(p) \/ Reap(p)

TunnelSpec == TunnelInit /\ [][TunnelNext]_tunnelVars

-----------------------------------------------------------------------------
\* Unless calls crossed, a running cloudflared is in the manager's hands or was
\* interrupted by the start or the stop that let go of it: there is one public
\* tunnel, and a Stop reaches it. The manager holds no process that is over, and
\* its status tells whether it holds one.
TunnelInHand == crossed \/
    /\ \A p \in Tunnels :
          /\ tunnel[p].state = "live" => manager.process = p \/ tunnel[p].asked
          /\ tunnel[p].state = "made" => \/ manager.process = p
                                         \/ \E h \in Handlers : handler[h].pc = "launch" /\ handler[h].tunnel = p
          /\ manager.process = p => tunnel[p].state \in {"made", "live", "exited"}
    /\ manager.status \in {"running", "stopping"} => manager.process # "none"
    /\ manager.process # "none" => manager.status \in {"starting", "running", "stopping"}
    /\ manager.status = "installing" => ~manager.available /\ manager.process = "none"
=============================================================================
