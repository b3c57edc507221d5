---------------------------- MODULE ComponentsMC ----------------------------
(***************************************************************************)
(* An instance of seven components for TLC, one of them at a time: part     *)
(* names the one that runs, and the others rest in a first state without    *)
(* model values. The tunnel stops once calls have crossed, as its property  *)
(* says nothing then; the gateway is given settings that differ from the    *)
(* first of them in one field.                                              *)
(***************************************************************************)
EXTENDS MessageQueue, ToolLedger, McpPool, Plans, Tunnel, Approvals, Gateway, TLC

VARIABLE part

FirstSettings == CHOOSE cfg \in Settings : cfg.enabled
TriedSettings == {cfg \in Settings : Cardinality({f \in DOMAIN cfg : cfg[f] # FirstSettings[f]}) <= 1}

ComponentsInit ==
    /\ part \in {"queue", "ledger", "pool", "plans", "tunnel", "approvals", "gateway"}
    /\ QueueInit /\ LedgerInit /\ ApprovalsInit
    /\ IF part = "pool" THEN PoolInit ELSE PoolBegins("off")
    /\ IF part = "plans" THEN PlansInit ELSE PlansBegin("none")
    /\ IF part = "tunnel" THEN TunnelInit ELSE TunnelBegins("none")
    /\ IF part = "gateway" THEN GatewayInit /\ saved \in TriedSettings ELSE GatewayBegins(FirstSettings)

ComponentsNext ==
    /\ UNCHANGED part
    /\ \/ part = "queue"  /\ QueueNext
       \/ part # "queue"  /\ UNCHANGED queueVars
    /\ \/ part = "ledger" /\ LedgerNext
       \/ part # "ledger" /\ UNCHANGED ledgerVars
    /\ \/ part = "pool"   /\ PoolNext
       \/ part # "pool"   /\ UNCHANGED poolVars
    /\ \/ part = "plans"  /\ PlansNext
       \/ part # "plans"  /\ UNCHANGED plansVars
    /\ \/ part = "tunnel" /\ ~crossed /\ TunnelNext
       \/ part # "tunnel" /\ UNCHANGED tunnelVars
    /\ \/ part = "approvals" /\ ApprovalsNext
       \/ part # "approvals" /\ UNCHANGED approvalVars
    /\ \/ part = "gateway" /\ GatewayNext /\ patch'.next \in TriedSettings
       \/ part # "gateway" /\ UNCHANGED gatewayVars

ComponentsSpec ==
    ComponentsInit /\ [][ComponentsNext]_<<part, queueVars, ledgerVars, poolVars, plansVars, tunnelVars, approvalVars,
                                         gatewayVars>>

ComponentsSymmetry == Permutations(Slots) \cup Permutations(Files)
=============================================================================
