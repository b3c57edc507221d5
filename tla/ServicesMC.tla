----------------------------- MODULE ServicesMC -----------------------------
(***************************************************************************)
(* An instance of both ends of the event streams, of the schedules, of the  *)
(* deliveries, of the remote tasks and of the limits of the gateway for     *)
(* TLC, one at a time: part names the one that runs.                        *)
(* All but the hub may rest for good; a hub that cannot move is a deadlock. *)
(***************************************************************************)
EXTENDS EventHub, LiveStream, Schedules, RemoteTasks, Deliveries, GatewayLimits, TLC

VARIABLE part

ServicesInit ==
    /\ part \in {"hub", "page", "schedules", "remote", "deliveries", "limits"}
    /\ Init /\ StreamInit /\ RemoteInit /\ DeliveriesInit /\ LimitsInit
    /\ IF part = "schedules" THEN SchedulesInit ELSE SchedulesBegin({1})

ServicesNext ==
    /\ UNCHANGED part
    /\ \/ part = "hub" /\ Next
       \/ part # "hub" /\ UNCHANGED vars
    /\ \/ part = "page" /\ StreamNext
       \/ UNCHANGED streamVars
    /\ \/ part = "schedules" /\ SchedulesNext
       \/ UNCHANGED scheduleVars
    /\ \/ part = "remote" /\ RemoteNext
       \/ UNCHANGED remoteVars
    /\ \/ part = "deliveries" /\ DeliveriesNext
       \/ UNCHANGED deliveryVars
    /\ \/ part = "limits" /\ LimitsNext
       \/ UNCHANGED limitVars

ServicesSpec ==
    /\ ServicesInit
    /\ [][ServicesNext]_<<part, vars, streamVars, scheduleVars, remoteVars, deliveryVars, limitVars>>

ServicesSymmetry == Permutations(Agents)
=============================================================================
