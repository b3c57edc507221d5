----------------------------- MODULE RemoteTasks -----------------------------
(***************************************************************************)
(* The ledger of tasks that a paired device executes for this host           *)
(* (internal/server/execution_transport.go and execution_control.go,        *)
(* internal/db/execution_transport.go and learned_features.go). The device  *)
(* asks for work, which leases a task to its pairing, executes it and       *)
(* reports with the revision it was told; requests are repeated and answers *)
(* get lost. The host sweeps leases whose deadline passed, cancels a lease  *)
(* whose task it cannot hand out, and its owner may disable the device or   *)
(* pair it anew at any moment. A lease is never given to anybody else: no   *)
(* task runs twice, and none runs on the host instead.                      *)
(***************************************************************************)
EXTENDS Integers, Sequences

CONSTANTS
    MaxJobs,          \* bound: tasks, numbered as their keys are first used
    MaxPairings,      \* bound: pairings of the device, one after the other
    Services,         \* handlers of requests of the device
    MaxSwitches,      \* bound: times the device is enabled or disabled
    MaxRequests       \* bound: claims and reports the device makes

ASSUME RemoteAssumption ==
    {MaxJobs, MaxPairings, MaxSwitches, MaxRequests} \subseteq Nat

VARIABLES
    job,          \* the ledger: task -> its row; overdue once its deadline passed
    device,       \* its row; fresh while its last heartbeat is recent
    pairing,      \* the pairing whose requests are authorized
    service,      \* handler -> the request it serves and what it has read
    creator,      \* the task a handler has found allowed and is about to insert
    told,         \* what the device knows: task -> revisions it was answered
    handed,       \* history: task -> pairings its payload went out to, a sequence
    settled,      \* history: task -> its first final status, and the pairing it is of
    switches, requests

remoteVars ==
    <<job, device, pairing, service, creator, told, handed, settled, switches, requests>>

Jobs == 1 .. MaxJobs
Live == {"ready", "online"}
Leased == {"leased", "running"}
Settled == {"succeeded", "failed", "cancelled", "expired"}

Unlisted == [status |-> "none", owner |-> 0, revision |-> 0, overdue |-> FALSE]
Unserved == [at |-> "idle", by |-> 0, job |-> 0, revision |-> 0, as |-> "none", stale |-> {}]
Unsettled == [as |-> "none", by |-> 0]

RemoteInit ==
    /\ job = [j \in Jobs |-> Unlisted]
    /\ device = [enabled |-> FALSE, status |-> "disabled", fresh |-> FALSE]
    /\ pairing = 1
    /\ service = [s \in Services |-> Unserved]
    /\ creator = 0
    /\ told = [j \in Jobs |-> {}]
    /\ handed = [j \in Jobs |-> <<>>]
    /\ settled = [j \in Jobs |-> Unsettled]
    /\ switches = 0 /\ requests = 0

Doing(s) == service[s].at
Proceed(s, at) == service' = [service EXCEPT ![s].at = at]
Conclude(s) == service' = [service EXCEPT ![s] = Unserved]

-----------------------------------------------------------------------------
(* The ledger *)

validRemoteTransition(from, to) ==
    \/ from = "leased"  /\ to \in {"running", "cancelled", "expired"}
    \/ from = "running" /\ to \in {"succeeded", "failed", "cancelled", "expired"}
    \/ from = "queued"  /\ to \in {"cancelled", "expired"}

CanMove(j, revision, to) ==
    job[j].revision = revision /\ validRemoteTransition(job[j].status, to)

\* A slip: an expired lease goes back to the queue.
MovedBack(row, to) ==
    [row EXCEPT !.status = IF to = "expired" THEN "queued" ELSE to, !.revision = @ + 1,
                !.owner = IF to \in Settled THEN 0 ELSE @,
                !.overdue = @ /\ to \notin Settled]

Moved(row, to) ==
    [row EXCEPT !.status = to, !.revision = @ + 1,
                !.owner = IF to \in Settled THEN 0 ELSE @,
                !.overdue = @ /\ to \notin Settled]

TransitionRemoteExecutionTask(s, j, revision, to) ==
    IF CanMove(j, revision, to)
    THEN /\ job' = [job EXCEPT ![j] = Moved(@, to)]
         /\ settled' = [settled EXCEPT ![j] =
                IF @ = Unsettled /\ to \in Settled THEN [as |-> to, by |-> service[s].by] ELSE @]
    ELSE UNCHANGED <<job, settled>>

\* The device is looked at, and the row inserted in a second statement; a key
\* that is known returns the row it has.
CheckAllowed(j) ==
    /\ creator = 0 /\ \A i \in 1 .. (j - 1) : job[i].status # "none"
    /\ device.enabled /\ device.status \in Live
    /\ creator' = j
    /\ UNCHANGED <<job, device, pairing, service, told, handed, settled, switches, requests>>

InsertTask ==
    /\ creator # 0 /\ creator' = 0
    /\ job' = [job EXCEPT ![creator] =
            IF @.status = "none" THEN [@ EXCEPT !.status = "queued", !.revision = 1] ELSE @]
    /\ UNCHANGED <<device, pairing, service, told, handed, settled, switches, requests>>

-----------------------------------------------------------------------------
(* The device's row *)

SetExecutionDeviceEnabled(on) ==
    /\ switches < MaxSwitches /\ switches' = switches + 1
    /\ device' = [enabled |-> on, status |-> IF on THEN "unknown" ELSE "disabled", fresh |-> TRUE]
    /\ UNCHANGED <<job, pairing, service, creator, told, handed, settled, requests>>

\* MarkStaleExecutionDevicesOffline.
Swept == IF device.status \in Live /\ ~device.fresh THEN [device EXCEPT !.status = "offline"] ELSE device

RecordExecutionDeviceHeartbeat(status) ==
    device' = [device EXCEPT !.status = status, !.fresh = TRUE]

MayBeat == device.enabled

\* (The fourth status it may report, degraded, is offline here: no task comes.)
Heartbeat ==
    /\ device.enabled
    /\ \E status \in Live \cup {"offline"} : RecordExecutionDeviceHeartbeat(status)
    /\ UNCHANGED <<job, pairing, service, creator, told, handed, settled, switches, requests>>

\* A request of the device: devices that stopped reporting are swept, and a
\* disabled one is refused.
Request(s, record) ==
    /\ Doing(s) = "idle" /\ requests < MaxRequests /\ requests' = requests + 1
    /\ device' = Swept
    /\ service' = [service EXCEPT ![s] = IF device.enabled THEN record ELSE @]

-----------------------------------------------------------------------------
(* A claim *)

BeginClaim(s) ==
    /\ Request(s, [Unserved EXCEPT !.at = "scan", !.by = pairing])
    /\ UNCHANGED <<job, pairing, creator, told, handed, settled, switches>>

\* ExpireRemoteExecutionLeases lists the leases past their deadline, and then
\* expires one after the other, unless it changed since.
ScanLeases(s) ==
    /\ Doing(s) = "scan"
    /\ service' = [service EXCEPT ![s].at = "expire",
            ![s].stale = {<<j, job[j].revision>> : j \in {k \in Jobs : job[k].overdue}}]
    /\ UNCHANGED <<job, device, pairing, creator, told, handed, settled, switches, requests>>

ExpireLease(s) ==
    /\ Doing(s) = "expire"
    /\ \E e \in service[s].stale :
          /\ TransitionRemoteExecutionTask(s, e[1], e[2], "expired")
          /\ service' = [service EXCEPT ![s].stale = @ \ {e}]
    /\ UNCHANGED <<device, pairing, creator, told, handed, switches, requests>>

Queued == {j \in Jobs : job[j].status = "queued"}

ClaimRemoteExecutionTask(s) ==
    /\ Doing(s) = "expire" /\ service[s].stale = {}
    /\ \/ /\ Queued = {} /\ Conclude(s) /\ UNCHANGED job
       \/ \E j \in Queued :
             /\ \A k \in Queued : j <= k
             /\ job' = [job EXCEPT ![j] = [status |-> "leased", owner |-> service[s].by,
                                           revision |-> @.revision + 1, overdue |-> FALSE]]
             /\ service' = [service EXCEPT ![s].at = "read", ![s].job = j]
    /\ UNCHANGED <<device, pairing, creator, told, handed, settled, switches, requests>>

\* The row is read again, and with it a lease that was swept meanwhile; when it
\* cannot be read, the lease is left to run out. Then the grant is looked up and
\* the delivery audited, each of which may fail.
ReadLease(s) ==
    /\ Doing(s) = "read"
    /\ \/ \E at \in {"hand", "release"} :
             /\ at = "hand" => job[service[s].job].owner # 0
             /\ service' = [service EXCEPT ![s].at = at, ![s].revision = job[service[s].job].revision]
       \/ Conclude(s)
    /\ UNCHANGED <<job, device, pairing, creator, told, handed, settled, switches, requests>>

\* The device is busy from here on, if it is still enabled: then the task goes
\* out, in an answer that may get lost.
HandOut(s) ==
    /\ Doing(s) = "hand"
    /\ LET j == service[s].job IN
       IF MayBeat
       THEN /\ RecordExecutionDeviceHeartbeat("online")
            /\ handed' = [handed EXCEPT ![j] = Append(@, service[s].by)]
            /\ \/ told' = [told EXCEPT ![j] = @ \cup {service[s].revision}]
               \/ UNCHANGED told
            /\ Conclude(s)
       ELSE Proceed(s, "release") /\ UNCHANGED <<device, handed, told>>
    /\ UNCHANGED <<job, pairing, creator, settled, switches, requests>>

releasePeerExecutionLease(s) ==
    /\ Doing(s) = "release" /\ Conclude(s)
    /\ TransitionRemoteExecutionTask(s, service[s].job, service[s].revision, "cancelled")
    /\ UNCHANGED <<device, pairing, creator, told, handed, switches, requests>>

-----------------------------------------------------------------------------
(* A report *)

BeginReport(s) ==
    /\ \E j \in Jobs : \E r \in told[j] : \E as \in {"running", "succeeded", "failed"} :
          Request(s, [Unserved EXCEPT !.at = "check", !.by = pairing, !.job = j,
                                      !.revision = r, !.as = as])
    /\ UNCHANGED <<job, pairing, creator, told, handed, settled, switches>>

HoldsTask(s) == job[service[s].job].owner = service[s].by

\* Then it is audited, which may fail.
CheckHolder(s) ==
    /\ Doing(s) = "check"
    /\ \/ HoldsTask(s) /\ Proceed(s, "beat")
       \/ Conclude(s)
    /\ UNCHANGED <<job, device, pairing, creator, told, handed, settled, switches, requests>>

BeatByReport(s) ==
    /\ Doing(s) = "beat"
    /\ IF MayBeat
       THEN /\ RecordExecutionDeviceHeartbeat(IF service[s].as = "running" THEN "online" ELSE "ready")
            /\ Proceed(s, "apply")
       ELSE Conclude(s) /\ UNCHANGED device
    /\ UNCHANGED <<job, pairing, creator, told, handed, settled, switches, requests>>

ApplyReport(s) ==
    /\ Doing(s) = "apply" /\ Conclude(s)
    /\ LET j == service[s].job  r == service[s].revision IN
       /\ TransitionRemoteExecutionTask(s, j, r, service[s].as)
       /\ \/ CanMove(j, r, service[s].as) /\ told' = [told EXCEPT ![j] = @ \cup {r + 1}]
          \/ UNCHANGED told
    /\ UNCHANGED <<device, pairing, creator, handed, switches, requests>>

-----------------------------------------------------------------------------
(* Time, and the owner *)

Pass ==
    /\ \/ /\ device.fresh /\ device' = [device EXCEPT !.fresh = FALSE] /\ UNCHANGED job
       \/ /\ \E j \in Jobs :
                /\ job[j].status \in Leased /\ ~job[j].overdue
                /\ job' = [job EXCEPT ![j].overdue = TRUE]
          /\ UNCHANGED device
    /\ UNCHANGED <<pairing, service, creator, told, handed, settled, switches, requests>>

\* The older pairing is revoked first; a request it has begun goes on.
PairAgain ==
    /\ pairing < MaxPairings /\ pairing' = pairing + 1
    /\ UNCHANGED <<job, device, service, creator, told, handed, settled, switches, requests>>

RemoteNext ==
    \/ \E j \in Jobs : CheckAllowed(j)
    \/ InsertTask
    \/ \E on \in BOOLEAN : SetExecutionDeviceEnabled(on)
    \/ Heartbeat
    \/ \E s \in Services :
          \/ BeginClaim(s) \/ ScanLeases(s) \/ ExpireLease(s) \/ ClaimRemoteExecutionTask(s)
          \/ ReadLease(s) \/ HandOut(s) \/ releasePeerExecutionLease(s)
          \/ BeginReport(s) \/ CheckHolder(s) \/ BeatByReport(s) \/ ApplyReport(s)
    \/ Pass
    \/ PairAgain

RemoteSpec == RemoteInit /\ [][RemoteNext]_remoteVars

-----------------------------------------------------------------------------
(* Whatever is lost, swept, released, disabled or paired anew in between:   *)
(* a task goes out once; what the ledger says of its end is final, is what  *)
(* the pairing it went out to has reported, and is never that it was        *)
(* cancelled when it did go out; and a disabled device does not look alive. *)
HandedOnce ==
    /\ \A j \in Jobs :
          /\ Len(handed[j]) <= 1
          /\ settled[j] # Unsettled => job[j].status = settled[j].as
          /\ job[j].status = "running" => handed[j] = <<job[j].owner>>
          /\ settled[j].as \in {"succeeded", "failed"} => handed[j] = <<settled[j].by>>
          /\ settled[j].as = "cancelled" => handed[j] = <<>>
    /\ ~device.enabled <=> device.status = "disabled"

\* Documented, and not what the code does: a task is accepted for a device
\* only while its last heartbeat is recent.
AllowedWhileFresh ==
    [][creator' # creator /\ creator' # 0 => device.fresh]_remoteVars
=============================================================================
