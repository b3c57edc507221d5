------------------------------ MODULE Schedules ------------------------------
(***************************************************************************)
(* One schedule (internal/automation/manager.go, internal/server/           *)
(* automation.go, internal/db/automation_p2p3.go). The loop of the worker   *)
(* claims it when it is due, a manual trigger at any time; both take its    *)
(* lease, start or record a run under a dispatch id made of the lease, and  *)
(* write the next time. The lease is the only thing that keeps them apart:  *)
(* it can run out while its holder still works, its holder can die with it, *)
(* and a person edits, disables or deletes the row without asking for it.   *)
(***************************************************************************)
EXTENDS Integers, Sequences

CONSTANTS
    Triggers,             \* handlers of manual triggers
    Periods,              \* the expressions: a time is due at each multiple
    LeaseTime,            \* how long a lease lasts
    Horizon,              \* bound: the last moment
    MaxClaims,            \* bound: leases taken
    MaxRevisions,         \* bound: edits begun
    MaxMisses             \* bound: failed writes and restarts

ASSUME SchedulesAssumption ==
    /\ Periods \subseteq Nat \ {0} /\ Periods # {}
    /\ {LeaseTime, Horizon, MaxClaims, MaxRevisions, MaxMisses} \subseteq Nat

VARIABLES
    now,
    schedule,     \* the row; lease is the number of the claim, until its deadline
    dispatch,     \* loop or trigger -> where it stands, with what it read
    revision,     \* the handler of an edit; fresh while updated_at is as it read it
    leases,       \* history: lease -> the time it was taken for, the run under it
    lapsed,       \* history: leases that ran out, that a person dropped, or that a
                  \* trigger took for its own as its own had run out
    ignored,      \* history: the lease under which the expression was changed last,
                  \* until another next time is written; 0 if none
    revisions, misses

scheduleVars ==
    <<now, schedule, dispatch, revision, leases, lapsed, ignored, revisions, misses>>

Dispatchers == {"loop"} \cup Triggers

\* Expression.Next: the first moment after t.
NextTime(period, t) == (t \div period + 1) * period

Unclaimed == [at |-> "idle", lease |-> 0, period |-> 1, next |-> 0]
NoRevision == [at |-> "idle", fresh |-> FALSE, period |-> 1, enabled |-> FALSE, next |-> 0]

\* CreateSchedule of an enabled schedule.
SchedulesBegin(periods) ==
    /\ now = 0
    /\ \E p \in periods :
          schedule = [present |-> TRUE, enabled |-> TRUE, period |-> p, next |-> NextTime(p, 0),
                      lease |-> 0, until |-> 0]
    /\ dispatch = [d \in Dispatchers |-> Unclaimed]
    /\ revision = NoRevision
    /\ leases = <<>> /\ lapsed = {} /\ ignored = 0
    /\ revisions = 0 /\ misses = 0

SchedulesInit == SchedulesBegin(Periods)

Due == schedule.next # 0 /\ schedule.next <= now

\* Every write of the row moves updated_at.
Writes(row) == schedule' = row /\ revision' = [revision EXCEPT !.fresh = FALSE]

Missing == misses < MaxMisses /\ misses' = misses + 1

-----------------------------------------------------------------------------
(* Those who dispatch *)

RunOut == schedule.lease # 0 /\ schedule.until <= now

LeaseFree == schedule.lease = 0 \/ RunOut

Claim(d, at) ==
    LET n == Len(leases) + 1 IN
    /\ dispatch[d].at = "idle" /\ schedule.present /\ LeaseFree /\ n <= MaxClaims
    /\ Writes([schedule EXCEPT !.lease = n, !.until = now + LeaseTime])
    /\ leases' = Append(leases, [for |-> IF Due THEN schedule.next ELSE 0, run |-> "none"])
    /\ lapsed' = IF RunOut THEN lapsed \cup {schedule.lease} ELSE lapsed
    /\ dispatch' = [dispatch EXCEPT ![d] = [Unclaimed EXCEPT !.at = at, !.lease = n,
                                                        !.period = schedule.period]]
    /\ UNCHANGED <<now, ignored, revisions, misses>>

ClaimDueSchedules == schedule.enabled /\ Due /\ Claim("loop", "plan")

\* The row is claimed though it is disabled, and read in a second statement.
ClaimScheduleNow(d) == Claim(d, "read")

\* Without a lease there is no dispatch id: nothing is dispatched.
ReadClaimed(d) ==
    /\ dispatch[d].at = "read"
    /\ dispatch' = [dispatch EXCEPT ![d] =
            IF schedule.present /\ schedule.lease # 0
            THEN [@ EXCEPT !.at = "plan", !.lease = schedule.lease, !.period = schedule.period]
            ELSE Unclaimed]
    /\ lapsed' = IF schedule.lease = dispatch[d].lease THEN lapsed ELSE lapsed \cup {schedule.lease}
    /\ UNCHANGED <<now, schedule, revision, leases, ignored, revisions, misses>>

\* The statement fails: the lease stays where it is until it runs out.
LoseClaim(d) ==
    /\ dispatch[d].at = "read" /\ Missing
    /\ dispatch' = [dispatch EXCEPT ![d] = Unclaimed]
    /\ UNCHANGED <<now, schedule, revision, leases, lapsed, ignored, revisions>>

\* processSchedule: the next time, as of now; an expression may have none left.
PlanNext(d) ==
    /\ dispatch[d].at = "plan"
    /\ \/ dispatch' = [dispatch EXCEPT ![d].at = "submit",
                                       ![d].next = NextTime(dispatch[d].period, now), ![d].period = 1]
       \/ dispatch' = [dispatch EXCEPT ![d].at = "settle", ![d].next = 0, ![d].period = 1]
    /\ UNCHANGED <<now, schedule, revision, leases, lapsed, ignored, revisions, misses>>

RunUnder(lease, run) ==
    leases' = [leases EXCEPT ![lease].run = IF @ = "none" THEN run ELSE @]

\* A run is started, or the one of the same dispatch is found; or the agent is
\* gone or busy, or the submission fails, with its run inserted or not.
SubmitScheduleDispatch(d) ==
    /\ dispatch[d].at = "submit"
    /\ \/ RunUnder(dispatch[d].lease, "started") /\ dispatch' = [dispatch EXCEPT ![d].at = "record"]
       \/ UNCHANGED leases /\ dispatch' = [dispatch EXCEPT ![d].at = "settle"]
       \/ /\ RunUnder(dispatch[d].lease, "failed")
          /\ dispatch' = [dispatch EXCEPT ![d].at = "settle"]
    /\ UNCHANGED <<now, schedule, revision, lapsed, ignored, revisions, misses>>

\* The run that says why there was none, unless the dispatch has one.
terminalScheduleRun(d) ==
    /\ dispatch[d].at = "settle"
    /\ \/ /\ RunUnder(dispatch[d].lease, "failed")
          /\ dispatch' = [dispatch EXCEPT ![d].at = "record"]
          /\ UNCHANGED misses
       \/ /\ Missing /\ UNCHANGED leases
          /\ dispatch' = [dispatch EXCEPT ![d].at = "release"]
    /\ UNCHANGED <<now, schedule, revision, lapsed, ignored, revisions>>

\* A slip: the outcome is recorded whoever holds the lease by now.
HoldsAnyLease(d) == schedule.present

HoldsLease(d) == schedule.present /\ schedule.lease = dispatch[d].lease

\* What remains of an edit after a next time is written under the lease n.
Under(n, changed) == IF n # 0 /\ (changed \/ ignored = n) THEN n ELSE 0

Depart(d) == dispatch' = [dispatch EXCEPT ![d] = Unclaimed]

RecordScheduleRun(d) ==
    /\ dispatch[d].at = "record" /\ Depart(d)
    /\ \/ /\ HoldsLease(d) /\ Writes([schedule EXCEPT !.next = dispatch[d].next, !.lease = 0, !.until = 0])
          /\ ignored' = Under(dispatch[d].lease, FALSE)
          /\ UNCHANGED misses
       \/ ~HoldsLease(d) /\ UNCHANGED <<schedule, revision, ignored, misses>>
       \/ Missing /\ UNCHANGED <<schedule, revision, ignored>>
    /\ UNCHANGED <<now, leases, lapsed, revisions>>

ReleaseScheduleLease(d) ==
    /\ dispatch[d].at = "release" /\ Depart(d)
    /\ \/ HoldsLease(d) /\ Writes([schedule EXCEPT !.lease = 0, !.until = 0]) /\ UNCHANGED misses
       \/ ~HoldsLease(d) /\ UNCHANGED <<schedule, revision, misses>>
       \/ Missing /\ UNCHANGED <<schedule, revision>>
    /\ UNCHANGED <<now, leases, lapsed, ignored, revisions>>

\* The process ends and the next one begins: initializeSchedules gives an
\* enabled row without a next time one, if there is one.
Restart ==
    /\ Missing
    /\ dispatch' = [d \in Dispatchers |-> Unclaimed]
    /\ revision' = NoRevision
    /\ \/ UNCHANGED schedule
       \/ /\ schedule.present /\ schedule.enabled /\ schedule.next = 0
          /\ schedule' = [schedule EXCEPT !.next = NextTime(schedule.period, now)]
    /\ UNCHANGED <<now, leases, lapsed, ignored, revisions>>

-----------------------------------------------------------------------------
(* The person who owns it, and time *)

\* GetSchedule, the changed fields, and the next time as of now.
BeginRevision ==
    /\ revision.at = "idle" /\ schedule.present /\ revisions < MaxRevisions
    /\ revisions' = revisions + 1
    /\ \E p \in Periods, on \in BOOLEAN :
          revision' = [at |-> "write", fresh |-> TRUE, period |-> p, enabled |-> on,
                       next |-> IF on THEN NextTime(p, now) ELSE 0]
    /\ UNCHANGED <<now, schedule, dispatch, leases, lapsed, ignored, misses>>

Dropped == IF schedule.lease = 0 THEN lapsed ELSE lapsed \cup {schedule.lease}

\* The lease is written back as it was read, and dropped with the next time
\* when the schedule is disabled.
UpdateSchedule ==
    /\ revision.at = "write" /\ revision.fresh
    /\ LET row == [schedule EXCEPT !.period = revision.period, !.enabled = revision.enabled,
                                   !.next = revision.next] IN
       IF revision.enabled
       THEN /\ schedule' = row /\ UNCHANGED lapsed
            /\ ignored' = Under(schedule.lease, revision.period # schedule.period)
       ELSE /\ schedule' = [row EXCEPT !.lease = 0, !.until = 0]
            /\ lapsed' = Dropped /\ ignored' = 0
    /\ revision' = NoRevision
    /\ UNCHANGED <<now, dispatch, leases, revisions, misses>>

DeleteSchedule ==
    /\ revision.at = "write" /\ revision.fresh
    /\ schedule' = [schedule EXCEPT !.present = FALSE, !.enabled = FALSE, !.next = 0,
                                    !.lease = 0, !.until = 0]
    /\ lapsed' = Dropped
    /\ revision' = NoRevision
    /\ UNCHANGED <<now, dispatch, leases, ignored, revisions, misses>>

\* The row was written since it was read.
RefuseRevision ==
    /\ revision.at = "write" /\ ~revision.fresh
    /\ revision' = NoRevision
    /\ UNCHANGED <<now, schedule, dispatch, leases, lapsed, ignored, revisions, misses>>

PassTime ==
    /\ now < Horizon /\ now' = now + 1
    /\ UNCHANGED <<schedule, dispatch, revision, leases, lapsed, ignored, revisions, misses>>

-----------------------------------------------------------------------------
SchedulesNext ==
    \/ ClaimDueSchedules
    \/ \E d \in Triggers : ClaimScheduleNow(d) \/ ReadClaimed(d) \/ LoseClaim(d)
    \/ \E d \in Dispatchers :
          \/ PlanNext(d) \/ SubmitScheduleDispatch(d) \/ terminalScheduleRun(d)
          \/ RecordScheduleRun(d) \/ ReleaseScheduleLease(d)
    \/ Restart
    \/ BeginRevision \/ UpdateSchedule \/ DeleteSchedule \/ RefuseRevision \/ PassTime

SchedulesSpec == SchedulesInit /\ [][SchedulesNext]_scheduleVars

-----------------------------------------------------------------------------
(* A time of the schedule is run once, whoever claims it: a second run of   *)
(* it, or a second dispatcher at work, means that the lease of the first    *)
(* ran out (its holder slow, dead, or unable to write) or was dropped by    *)
(* disabling the schedule. And the next time is one of the expression the   *)
(* row has now, unless that was changed while a dispatcher held the lease:  *)
(* RecordScheduleRun then writes the next time of the expression it read    *)
(* before (manager.go:703).                                                 *)
RunOnce ==
    /\ \A i, j \in DOMAIN leases :
          (/\ i < j /\ leases[i].for = leases[j].for /\ leases[i].for # 0
           /\ leases[i].run = "started" /\ leases[j].run = "started") => i \in lapsed
    /\ \A d, e \in Dispatchers :
          (/\ dispatch[d].at \notin {"idle", "read"} /\ dispatch[e].at \notin {"idle", "read"}
           /\ dispatch[d].lease < dispatch[e].lease) => dispatch[d].lease \in lapsed
    /\ schedule.enabled /\ ignored = 0 => schedule.next % schedule.period = 0
=============================================================================
