------------------------------ MODULE Gateway ------------------------------
(***************************************************************************)
(* The listener of the private API gateway (internal/gateway/manager.go)    *)
(* and the handler that changes its settings                                *)
(* (patchGatewayRuntimeConfig of internal/server/gateway_runtime_admin.go). *)
(* Start, Reconfigure and Close exclude one another by opMu; each takes the *)
(* manager's mu several times, and between two of them the serve goroutine  *)
(* of a listener may find that it died. lastErr, which only reports, is     *)
(* left out.                                                                *)
(***************************************************************************)
EXTENDS Integers, FiniteSets

CONSTANTS
    Servers,     \* bound: managedServers at once; one whose goroutine is over is made anew
    Hosts,
    Ports,
    Services     \* what a setting may change without another address

ASSUME GatewayAssumption == "none" \notin Servers

VARIABLES
    gateway,     \* fields of Manager: started, closed, active, cfg
    server,      \* managedServer -> [state, stopping, shut, serves]
    op,          \* the call that holds opMu: [pc, call, next, old, hand]
    patch,       \* the HTTP handler under configMutationMu: [pc, next]
    saved,       \* the Gateway part of Server.cfg, and of the file
    lapses       \* history: why the manager may differ from what was saved

gatewayVars == <<gateway, server, op, patch, saved, lapses>>

Settings == [enabled : BOOLEAN, host : Hosts, port : Ports, service : Services]

\* state: unmade, bound, handed to a serve goroutine that has not begun,
\* serving and ending (Serve has returned).
NoServer == [state |-> "unmade", stopping |-> FALSE, shut |-> FALSE, serves |-> "none"]
NoOp(cfg) == [pc |-> "idle", call |-> "none", next |-> cfg, old |-> "none", hand |-> "none"]

Bound == {s \in Servers : server[s].state \in {"bound", "handed", "serving"}}

SameAddress(first, second) == first.host = second.host /\ first.port = second.port

GatewayBegins(cfg) ==
    /\ gateway = [started |-> FALSE, closed |-> FALSE, active |-> "none", cfg |-> cfg]
    /\ server = [s \in Servers |-> NoServer]
    /\ op = [NoOp(cfg) EXCEPT !.pc = "start"]
    /\ patch = [pc |-> "idle", next |-> cfg]
    /\ saved = cfg
    /\ lapses = {}

GatewayInit == \E cfg \in Settings : GatewayBegins(cfg)

OpAt(pc) == op.pc = pc
OpTo(pc) == op' = [op EXCEPT !.pc = pc]

\* The call returns, and the patch goes on with its outcome.
Return(ok) ==
    /\ op' = NoOp(saved)
    /\ patch' = CASE op.call = "apply" -> IF ok THEN [patch EXCEPT !.pc = "save"] ELSE [pc |-> "rollback", next |-> saved]
                  [] op.call = "rollback" -> [pc |-> "idle", next |-> saved]
                  [] OTHER -> patch

\* What a call that succeeded or failed leaves to be explained.
Lapsed(ok) ==
    lapses' = IF ok THEN {} ELSE IF op.call = "rollback" THEN lapses \cup {"unrestored"} ELSE lapses

-----------------------------------------------------------------------------
(* Listeners *)

\* prepareManagedServer: the address must be free, and may be taken by others.
Bind(s, cfg) ==
    /\ server[s] = NoServer /\ s # op.old
    /\ s = CHOOSE t \in Servers : server[t] = NoServer /\ t # op.old
    /\ \A t \in Bound : ~SameAddress(server[t].serves, cfg)
    /\ server' = [server EXCEPT ![s] = [NoServer EXCEPT !.state = "bound", !.serves = cfg]]

\* activateLocked, with the listener that another one replaces.
Activated(s, replaced) ==
    [t \in Servers |-> CASE t = s -> [server[t] EXCEPT !.state = "handed"]
                         [] t = replaced /\ server[t] # NoServer -> [server[t] EXCEPT !.stopping = TRUE]
                         [] OTHER -> server[t]]

\* detachActiveLocked
Detached ==
    [t \in Servers |-> IF t = gateway.active THEN [server[t] EXCEPT !.stopping = TRUE] ELSE server[t]]

\* server.Shutdown closes the listener if Serve has taken it, and makes Serve
\* refuse it otherwise.
ShutDown(s) ==
    [t \in Servers |-> IF t # s \/ server[t] = NoServer THEN server[t]
                       ELSE [server[t] EXCEPT !.shut = TRUE, !.state = IF @ = "serving" THEN "ending" ELSE @]]

ServeBegins(s) ==
    /\ server[s].state = "handed"
    /\ server' = [server EXCEPT ![s].state = IF server[s].shut THEN "ending" ELSE "serving"]
    /\ UNCHANGED <<gateway, op, patch, saved, lapses>>

ListenerDies(s) ==
    /\ server[s].state = "serving"
    /\ server' = [server EXCEPT ![s].state = "ending"]
    /\ UNCHANGED <<gateway, op, patch, saved, lapses>>

\* A slip: whatever listener is active is let go.
ServeEndsAny(s) ==
    /\ server[s].state = "ending"
    /\ server' = [server EXCEPT ![s] = NoServer]
    /\ gateway' = [gateway EXCEPT !.active = "none"]
    /\ lapses' = IF gateway.active = s THEN lapses \cup {"died"} ELSE lapses
    /\ UNCHANGED <<op, patch, saved>>

\* serve, once Serve has returned.
ServeEnds(s) ==
    /\ server[s].state = "ending"
    /\ server' = [server EXCEPT ![s] = NoServer]
    /\ IF gateway.active = s /\ ~server[s].stopping
       THEN gateway' = [gateway EXCEPT !.active = "none"] /\ lapses' = lapses \cup {"died"}
       ELSE UNCHANGED <<gateway, lapses>>
    /\ UNCHANGED <<op, patch, saved>>

-----------------------------------------------------------------------------
(* Start and Close *)

\* A start that fails is taken back, and ends the runtime: the supervisor closes
\* only what started, and the HTTP service, which comes after the gateway, never
\* begins. So no patch finds a manager that is not started.
GatewayStart ==
    /\ OpAt("start")
    /\ \/ /\ ~gateway.cfg.enabled
          /\ op' = NoOp(saved)
          /\ gateway' = [gateway EXCEPT !.started = TRUE]
          /\ UNCHANGED server
       \/ /\ gateway.cfg.enabled
          /\ \E s \in Servers : Bind(s, gateway.cfg) /\ op' = [op EXCEPT !.pc = "activate", !.hand = s]
          /\ gateway' = [gateway EXCEPT !.started = TRUE]
       \/ /\ gateway.cfg.enabled
          /\ op' = NoOp(saved)
          /\ UNCHANGED <<gateway, server>>
    /\ UNCHANGED <<patch, saved, lapses>>

GatewayClose ==
    /\ OpAt("idle") /\ gateway.started /\ ~gateway.closed
    /\ gateway' = [gateway EXCEPT !.closed = TRUE, !.active = "none"]
    /\ server' = Detached
    /\ op' = [op EXCEPT !.pc = "shutdown", !.call = "close", !.hand = gateway.active]
    /\ UNCHANGED <<patch, saved, lapses>>

-----------------------------------------------------------------------------
(* Reconfigure *)

Reconfigure(call, cfg) ==
    /\ OpAt("idle") /\ ~gateway.closed /\ patch.pc = call
    /\ LET old == gateway.active IN
       op' = [pc |-> CASE ~cfg.enabled -> "detach"
                       [] cfg.enabled /\ old = "none" -> "bind"
                       [] OTHER -> IF SameAddress(server[old].serves, cfg) THEN "swap"
                                   ELSE IF server[old].serves.port = cfg.port THEN "detach" ELSE "bind",
              call |-> call, next |-> cfg, old |-> old, hand |-> "none"]
    /\ UNCHANGED <<gateway, server, patch, saved, lapses>>

ReconfigureRefused ==
    /\ OpAt("idle") /\ gateway.closed
    /\ \/ patch.pc = "apply" /\ patch' = [pc |-> "rollback", next |-> saved]
       \/ patch.pc = "rollback" /\ patch' = [pc |-> "idle", next |-> saved]
    /\ UNCHANGED <<gateway, server, op, saved, lapses>>

\* The handler of the listener that was read, if it is still the active one;
\* newService may fail before.
SwapService ==
    /\ OpAt("swap")
    /\ \/ /\ gateway.active = op.old
          /\ server' = [server EXCEPT ![op.old].serves = op.next]
          /\ gateway' = [gateway EXCEPT !.cfg = op.next]
          /\ Lapsed(TRUE)
          /\ Return(TRUE)
       \/ /\ gateway.active # op.old
          /\ lapses' = lapses \cup {"missed"}
          /\ Return(TRUE)
          /\ UNCHANGED <<server, gateway>>
       \/ /\ Lapsed(FALSE)
          /\ Return(FALSE)
          /\ UNCHANGED <<server, gateway>>
    /\ UNCHANGED saved

Detach ==
    /\ OpAt("detach")
    /\ gateway' = [gateway EXCEPT !.active = "none"]
    /\ server' = Detached
    /\ op' = [op EXCEPT !.pc = "shutdown", !.hand = gateway.active]
    /\ UNCHANGED <<patch, saved, lapses>>

BindNext ==
    /\ OpAt("bind")
    /\ \E s \in Servers : Bind(s, op.next) /\ op' = [op EXCEPT !.pc = "activate", !.hand = s]
    /\ UNCHANGED <<gateway, patch, saved, lapses>>

BindFails ==
    /\ OpAt("bind")
    /\ Lapsed(FALSE)
    /\ Return(FALSE)
    /\ UNCHANGED <<gateway, server, saved>>

\* The replaced listener, if there is one, is shut down after the new one is in.
Activate ==
    /\ OpAt("activate")
    /\ server' = Activated(op.hand, op.old)
    /\ gateway' = [gateway EXCEPT !.active = op.hand, !.cfg = op.next]
    /\ Lapsed(TRUE)
    /\ IF op.old = "none" THEN Return(TRUE)
       ELSE op' = [op EXCEPT !.pc = "retire", !.hand = op.old] /\ UNCHANGED patch
    /\ UNCHANGED saved

Retire ==
    /\ OpAt("retire")
    /\ server' = ShutDown(op.hand)
    /\ Return(TRUE)
    /\ UNCHANGED <<gateway, saved, lapses>>

\* Shutdown waits for the requests in flight as long as its context lasts.
Shutdown ==
    /\ OpAt("shutdown")
    /\ server' = ShutDown(op.hand)
    /\ \/ /\ op.call # "close" /\ op.next.enabled
          /\ OpTo("rebind")
          /\ UNCHANGED <<gateway, patch, lapses>>
       \/ /\ op.call # "close" /\ ~op.next.enabled
          /\ gateway' = [gateway EXCEPT !.cfg = op.next]
          /\ Lapsed(TRUE)
          /\ Return(TRUE)
       \/ /\ op.call = "close"
          /\ Return(TRUE)
          /\ UNCHANGED <<gateway, lapses>>
       \/ /\ op.call # "close" /\ op.hand # "none"
          /\ Lapsed(FALSE)
          /\ Return(FALSE)
          /\ UNCHANGED gateway
    /\ UNCHANGED saved

\* The replacement of a listener that had to be released first.
Rebind ==
    /\ OpAt("rebind")
    /\ \/ \E s \in Servers :
            /\ Bind(s, op.next)
            /\ op' = [op EXCEPT !.pc = "activate", !.hand = s, !.old = "none"]
       \/ OpTo("restore") /\ UNCHANGED server
    /\ UNCHANGED <<gateway, patch, saved, lapses>>

\* The former settings are bound again: the call fails either way.
Restore ==
    /\ OpAt("restore")
    /\ \/ \E s \in Servers :
            /\ Bind(s, gateway.cfg)
            /\ op' = [op EXCEPT !.pc = "reinstate", !.hand = s]
            /\ UNCHANGED <<patch, lapses>>
       \/ Lapsed(FALSE) /\ Return(FALSE) /\ UNCHANGED server
    /\ UNCHANGED <<gateway, saved>>

Reinstate ==
    /\ OpAt("reinstate")
    /\ server' = Activated(op.hand, "none")
    /\ gateway' = [gateway EXCEPT !.active = op.hand]
    /\ Lapsed(FALSE)
    /\ Return(FALSE)
    /\ UNCHANGED saved

-----------------------------------------------------------------------------
(* patchGatewayRuntimeConfig *)

Patch ==
    /\ patch.pc = "idle" /\ gateway.started /\ ~gateway.closed
    /\ \E cfg \in Settings : patch' = [pc |-> "apply", next |-> cfg]
    /\ UNCHANGED <<gateway, server, op, saved, lapses>>

\* A slip: settings that could not be written stay in force.
SaveFailsOnly ==
    /\ patch.pc = "save"
    /\ \/ saved' = patch.next /\ patch' = [patch EXCEPT !.pc = "idle"]
       \/ patch' = [pc |-> "idle", next |-> saved] /\ UNCHANGED saved
    /\ UNCHANGED <<gateway, server, op, lapses>>

Save ==
    /\ patch.pc = "save"
    /\ \/ saved' = patch.next /\ patch' = [patch EXCEPT !.pc = "idle"]
       \/ patch' = [pc |-> "rollback", next |-> saved] /\ UNCHANGED saved
    /\ UNCHANGED <<gateway, server, op, lapses>>

GatewayNext ==
    \/ \E s \in Servers : ServeBegins(s) \/ ListenerDies(s) \/ ServeEnds(s)
    \/ GatewayStart \/ GatewayClose
    \/ Reconfigure("apply", patch.next) \/ Reconfigure("rollback", saved) \/ ReconfigureRefused
    \/ SwapService \/ Detach \/ BindNext \/ BindFails \/ Activate \/ Retire \/ Shutdown
    \/ Rebind \/ Restore \/ Reinstate
    \/ Patch \/ Save

GatewaySpec == GatewayInit /\ [][GatewayNext]_gatewayVars

-----------------------------------------------------------------------------
\* Every listener that accepts is the active one, is in the hands of the call
\* that runs, or was shut down before it was served and closes when it is. What
\* the manager reports as running serves the settings the manager reports.
ListenerInHand ==
    /\ \A s \in Bound :
          \/ gateway.active = s
          \/ ~OpAt("idle") /\ s \in {op.hand, op.old}
          \/ server[s].shut /\ server[s].state = "handed"
    /\ gateway.active # "none" =>
          /\ ~server[gateway.active].shut \/ ~OpAt("idle")
          /\ server[gateway.active].state \in {"handed", "serving", "ending"}
          /\ server[gateway.active].serves = gateway.cfg

\* Between two patches the manager follows the settings that were saved, unless
\* a rollback failed or a swap found its listener dead; and an enabled gateway
\* listens, unless its listener died as well.
SettingsKept ==
    patch.pc = "idle" /\ OpAt("idle") /\ gateway.started /\ ~gateway.closed =>
        /\ lapses \cap {"missed", "unrestored"} = {} => gateway.cfg = saved
        /\ lapses = {} => (gateway.active # "none" <=> saved.enabled)
=============================================================================
