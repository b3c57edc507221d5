-------------------------- MODULE RemoteTasksProofs --------------------------
(***************************************************************************)
(* HandedOnce holds for every number of tasks, pairings, handlers and       *)
(* requests. It says what went out and what was settled; that nothing else  *)
(* can go out rests on who is about to hand a task out (Holding, Sole), that *)
(* a report comes only of a task that went out (Serving), and that only a   *)
(* lease has an owner (Row).                                                *)
(***************************************************************************)
EXTENDS RemoteTasks, TLAPS

Statuses == {"none", "queued", "leased", "running"} \cup Settled
Reports == {"running", "succeeded", "failed"}
Steps == {"idle", "scan", "expire", "read", "hand", "release", "check", "beat", "apply"}

RowTypes == [status : Statuses, owner : Nat, revision : Nat, overdue : BOOLEAN]
DeviceTypes == [enabled : BOOLEAN, status : Live \cup {"unknown", "offline", "disabled"}, fresh : BOOLEAN]
EndTypes == [as : Settled \cup {"none"}, by : Nat]
ServiceTypes == [at : Steps, by : Nat, job : Nat, revision : Nat, as : Reports \cup {"none"},
                 stale : SUBSET (Jobs \X Nat)]

\* Types of what the invariant speaks of.
RemoteTypes ==
    /\ job \in [Jobs -> RowTypes]
    /\ device \in DeviceTypes
    /\ pairing \in Nat \ {0}
    /\ service \in [Services -> ServiceTypes]
    /\ creator \in Jobs \cup {0}
    /\ told \in [Jobs -> SUBSET Nat]
    /\ handed \in [Jobs -> Seq(Nat)]
    /\ settled \in [Jobs -> EndTypes]

\* A row, what went out of it and what is known of its end agree.
Row(j) ==
    /\ job[j].owner # 0 <=> job[j].status \in Leased
    /\ IF job[j].status \in Settled THEN settled[j].as = job[j].status ELSE settled[j] = Unsettled
    /\ job[j].status \in {"none", "queued"} => handed[j] = <<>>
    /\ job[j].status = "leased" => handed[j] \in {<<>>, <<job[j].owner>>}
    /\ job[j].status = "running" => handed[j] = <<job[j].owner>>
    /\ job[j].status \in {"succeeded", "failed"} => handed[j] = <<settled[j].by>>
    /\ job[j].status = "cancelled" => handed[j] = <<>>
    /\ Len(handed[j]) <= 1
    /\ told[j] # {} => handed[j] # <<>>

\* A handler that has leased a task and not handed it out.
Holding(s) == Doing(s) \in {"read", "hand", "release"}

\* What a handler relies on while it is at work.
Serving(s) ==
    /\ Doing(s) # "idle" => service[s].by # 0
    /\ Holding(s) =>
          /\ service[s].job \in Jobs /\ handed[service[s].job] = <<>>
          /\ job[service[s].job].status \in {"leased", "expired"}
          /\ job[service[s].job].owner \in {0, service[s].by}
    /\ Doing(s) \in {"check", "beat", "apply"} =>
          service[s].job \in Jobs /\ handed[service[s].job] # <<>> /\ service[s].as \in Reports
    /\ Doing(s) \in {"beat", "apply"} => job[service[s].job].owner \in {0, service[s].by}

\* A leased task is in the hands of one handler.
Sole == \A s, t \in Services : Holding(s) /\ Holding(t) /\ service[s].job = service[t].job => s = t

Line == ~device.enabled <=> device.status = "disabled"

RemoteInv ==
    /\ RemoteTypes
    /\ \A j \in Jobs : Row(j)
    /\ \A s \in Services : Serving(s)
    /\ Sole
    /\ Line

\* Tasks are numbered from one: 0 names none.
LEMMA JobsAreNumbers == Jobs \subseteq Nat \ {0}
BY RemoteAssumption DEF Jobs

\* Before anything happens nothing is listed, handed out or in anybody's hands.
LEMMA InitHolds == RemoteInit => RemoteInv
<1> SUFFICES ASSUME RemoteInit PROVE RemoteInv
  OBVIOUS
<1>1. Unlisted \in RowTypes /\ Unsettled \in EndTypes /\ Unserved \in ServiceTypes
  BY DEF Unlisted, RowTypes, Unsettled, EndTypes, Unserved, ServiceTypes, Statuses, Steps
<1>2. RemoteTypes
  <2>1. job \in [Jobs -> RowTypes] /\ settled \in [Jobs -> EndTypes] /\ service \in [Services -> ServiceTypes]
    BY <1>1 DEF RemoteInit
  <2>2. handed \in [Jobs -> Seq(Nat)]
    BY DEF RemoteInit
  <2> QED
    BY <2>1, <2>2 DEF RemoteInit, RemoteTypes, DeviceTypes
<1>3. ASSUME NEW j \in Jobs PROVE Row(j)
  BY DEF RemoteInit, Row, Unlisted, Leased, Settled
<1>4. \A s \in Services : Doing(s) = "idle"
  BY DEF RemoteInit, Doing, Unserved
<1>5. (\A s \in Services : Serving(s)) /\ Sole
  BY <1>4 DEF Serving, Sole, Holding
<1>6. Line
  BY DEF RemoteInit, Line
<1> QED
  BY <1>2, <1>3, <1>5, <1>6 DEF RemoteInv

\* One transition of one row. A cancellation is of a task that is not out; a
\* report is of one that is, and of the pairing that owns it or did.
LEMMA TransitionKeepsRows ==
    ASSUME RemoteInv, NEW s \in Services, NEW j \in Jobs, NEW r \in Nat,
           NEW to \in Reports \cup {"cancelled", "expired"},
           TransitionRemoteExecutionTask(s, j, r, to),
           to = "cancelled" => handed[j] = <<>>,
           to \in Reports => handed[j] # <<>> /\ job[j].owner \in {0, service[s].by},
           UNCHANGED handed, \A i \in Jobs : told'[i] # {} => handed[i] # <<>>
    PROVE  /\ job' \in [Jobs -> RowTypes] /\ settled' \in [Jobs -> EndTypes]
           /\ \A i \in Jobs : Row(i)'
           /\ \A i \in Jobs :
                 /\ job'[i].owner \in {0, job[i].owner}
                 /\ job'[i].status = job[i].status \/ (i = j /\ job'[i].status = to)
<1> USE DEF RemoteInv
<1>1. CASE ~CanMove(j, r, to)
  <2>1. UNCHANGED <<job, settled>>
    BY <1>1 DEF TransitionRemoteExecutionTask
  <2> QED
    BY <2>1 DEF RemoteTypes, Row
<1>2. CASE CanMove(j, r, to)
  <2>1. job[j] \in RowTypes /\ settled[j] \in EndTypes /\ service[s].by \in Nat
    BY DEF RemoteTypes, ServiceTypes
  <2>2. Moved(job[j], to) \in RowTypes
    <3> DEFINE owner == IF to \in Settled THEN 0 ELSE job[j].owner
               overdue == job[j].overdue /\ to \notin Settled
    <3>1. to \in Statuses /\ owner \in Nat /\ job[j].revision + 1 \in Nat
      BY <2>1 DEF RowTypes, Statuses, Reports, Settled
    <3>2. overdue \in BOOLEAN
      OBVIOUS
    <3>3. Moved(job[j], to) = [job[j] EXCEPT !.status = to, !.revision = @ + 1, !.owner = owner, !.overdue = overdue]
      BY DEF Moved
    <3> HIDE DEF owner, overdue
    <3> QED
      BY <2>1, <3>1, <3>2, <3>3 DEF RowTypes
  <2>3. job' = [job EXCEPT ![j] = Moved(job[j], to)]
    BY <1>2 DEF TransitionRemoteExecutionTask
  <2>4. job'[j] = Moved(job[j], to) /\ \A i \in Jobs \ {j} : job'[i] = job[i]
    BY <2>3 DEF RemoteTypes
  <2>5. job[j].status \notin Settled /\ settled[j] = Unsettled
    BY <1>2 DEF CanMove, validRemoteTransition, Row, Settled
  <2>6. settled' = [settled EXCEPT ![j] = IF to \in Settled THEN [as |-> to, by |-> service[s].by] ELSE Unsettled]
    BY <1>2, <2>5 DEF TransitionRemoteExecutionTask
  <2>7. (to \in Settled => settled'[j] = [as |-> to, by |-> service[s].by])
        /\ (to \notin Settled => settled'[j] = Unsettled) /\ \A i \in Jobs \ {j} : settled'[i] = settled[i]
    BY <2>6 DEF RemoteTypes
  <2>8. settled' \in [Jobs -> EndTypes]
    BY <2>1, <2>5, <2>6 DEF RemoteTypes, EndTypes
  <2>9. job'[j].status = to /\ job'[j].owner = IF to \in Settled THEN 0 ELSE job[j].owner
    BY <2>1, <2>4 DEF Moved, RowTypes
  <2>10. ASSUME NEW i \in Jobs \ {j} PROVE Row(i)'
    BY <2>4, <2>7 DEF Row
  <2>11. job[j].status \in {"queued", "leased", "running"}
    BY <1>2 DEF CanMove, validRemoteTransition
  <2>12. CASE to = "cancelled" \/ to = "expired"
    <3>1. Row(j)'
      BY <2>7, <2>9, <2>12 DEF Row, Settled, Leased
    <3> QED
      BY <2>2, <2>3, <2>4, <2>8, <2>9, <2>10, <2>12, <3>1 DEF RemoteTypes, Settled
  <2>13. CASE to \in Reports
    <3>1. job[j].status \in Leased /\ job[j].owner = service[s].by /\ handed[j] = <<job[j].owner>>
      BY <1>2, <2>13 DEF CanMove, validRemoteTransition, Row, Leased, Reports
    <3>2. Row(j)'
      BY <2>7, <2>9, <2>13, <3>1 DEF Row, Settled, Leased, Reports
    <3> QED
      BY <2>2, <2>3, <2>4, <2>8, <2>9, <2>10, <2>13, <3>2 DEF RemoteTypes
  <2> QED
    BY <2>12, <2>13
<1> QED
  BY <1>1, <1>2

\* A handler relies on nothing that a transition of another one takes away.
LEMMA TransitionKeepsOthers ==
    ASSUME RemoteInv, NEW t \in Services, service'[t] = service[t], UNCHANGED handed,
           NEW j \in Jobs, NEW to \in Reports \cup {"cancelled", "expired"},
           Holding(t) /\ service[t].job = j => to = "expired",
           \A i \in Jobs :
                 /\ job'[i].owner \in {0, job[i].owner}
                 /\ job'[i].status = job[i].status \/ (i = j /\ job'[i].status = to)
    PROVE  Serving(t)'
BY DEF RemoteInv, Serving, Holding, Doing

\* What moves neither rows nor what is known of them, and changes one handler
\* only, keeps what the others rely on.
LEMMA OneServes ==
    ASSUME RemoteInv, NEW s \in Services, UNCHANGED <<job, handed, told, settled, creator, pairing>>,
           device' \in DeviceTypes,
           Line', NEW e \in ServiceTypes, service' = [service EXCEPT ![s] = e], Serving(s)',
           Holding(s)' => Holding(s) /\ e.job = service[s].job
    PROVE  RemoteInv'
<1> USE DEF RemoteInv
<1>1. service'[s] = e /\ \A t \in Services \ {s} : service'[t] = service[t]
  BY DEF RemoteTypes
<1>2. RemoteTypes'
  BY DEF RemoteTypes
<1>3. \A j \in Jobs : Row(j)'
  BY DEF Row
<1>4. ASSUME NEW t \in Services \ {s} PROVE Serving(t)'
  BY <1>1 DEF Serving, Holding, Doing
<1>5. Sole'
  BY <1>1 DEF Sole, Holding, Doing
<1> QED
  BY <1>2, <1>3, <1>4, <1>5

\* What moves neither rows nor handlers.
LEMMA NoneServes ==
    ASSUME RemoteInv, UNCHANGED <<service, handed, told, settled>>,
           job' \in [Jobs -> RowTypes], \A j \in Jobs : job'[j].status = job[j].status /\ job'[j].owner = job[j].owner,
           device' \in DeviceTypes, Line', creator' \in Jobs \cup {0}, pairing' \in Nat \ {0}
    PROVE  RemoteInv'
<1> USE DEF RemoteInv
<1>1. RemoteTypes' /\ \A j \in Jobs : Row(j)'
  BY DEF RemoteTypes, Row
<1>2. ASSUME NEW t \in Services PROVE Serving(t)'
  BY DEF Serving, Holding, Doing
<1>3. Sole'
  BY DEF Sole, Holding, Doing
<1> QED
  BY <1>1, <1>2, <1>3

\* Taking silent devices offline keeps the row of the device in its types.
LEMMA SweepKeeps == ASSUME RemoteInv, device' = Swept PROVE device' \in DeviceTypes /\ Line'
BY DEF RemoteInv, RemoteTypes, DeviceTypes, Line, Swept, Live

\* A heartbeat is accepted of an enabled device only and does not disable it.
LEMMA BeatKeeps ==
    ASSUME RemoteInv, device.enabled, NEW status \in Live \cup {"offline"}, RecordExecutionDeviceHeartbeat(status)
    PROVE  device' \in DeviceTypes /\ Line'
BY DEF RemoteInv, RemoteTypes, DeviceTypes, Line, RecordExecutionDeviceHeartbeat, Live

-----------------------------------------------------------------------------
(* The device, its owner and the creation of tasks *)

LEMMA OwnersKeep ==
    ASSUME RemoteInv,
           \/ \E j \in Jobs : CheckAllowed(j)
           \/ \E on \in BOOLEAN : SetExecutionDeviceEnabled(on)
           \/ Heartbeat \/ Pass \/ PairAgain
    PROVE  RemoteInv'
<1> USE DEF RemoteInv
<1>1. CASE \E j \in Jobs : CheckAllowed(j)
  BY <1>1, NoneServes DEF CheckAllowed, RemoteTypes, Line
<1>2. ASSUME NEW on \in BOOLEAN, SetExecutionDeviceEnabled(on) PROVE RemoteInv'
  <2>1. device' \in DeviceTypes /\ Line'
    BY <1>2 DEF SetExecutionDeviceEnabled, DeviceTypes, Line
  <2> QED
    BY <1>2, <2>1, NoneServes DEF SetExecutionDeviceEnabled, RemoteTypes
<1>3. CASE Heartbeat
  BY <1>3, BeatKeeps, NoneServes DEF Heartbeat, RemoteTypes
<1>4. CASE Pass
  <2>1. CASE device' = [device EXCEPT !.fresh = FALSE] /\ UNCHANGED job
    <3>1. device' \in DeviceTypes /\ Line'
      BY <2>1 DEF RemoteTypes, DeviceTypes, Line
    <3> QED
      BY <1>4, <2>1, <3>1, NoneServes DEF Pass, RemoteTypes
  <2>2. ASSUME NEW j \in Jobs, job' = [job EXCEPT ![j].overdue = TRUE], UNCHANGED device PROVE RemoteInv'
    <3>1. job' \in [Jobs -> RowTypes] /\ \A i \in Jobs : job'[i].status = job[i].status /\ job'[i].owner = job[i].owner
      BY <2>2 DEF RemoteTypes, RowTypes
    <3> QED
      BY <1>4, <2>2, <3>1, NoneServes DEF Pass, RemoteTypes, Line
  <2> QED
    BY <1>4, <2>1, <2>2 DEF Pass
<1>5. CASE PairAgain
  BY <1>5, NoneServes DEF PairAgain, RemoteTypes, Line
<1> QED
  BY <1>1, <1>2, <1>3, <1>4, <1>5

\* A row that is inserted is nobody's.
LEMMA InsertKeeps == ASSUME RemoteInv, InsertTask PROVE RemoteInv'
<1> USE DEF RemoteInv
<1> DEFINE listed == IF job[creator].status = "none" THEN [job[creator] EXCEPT !.status = "queued", !.revision = 1] ELSE job[creator]
<1>1. creator \in Jobs /\ job[creator] \in RowTypes
  BY DEF InsertTask, RemoteTypes
<1>2. listed \in RowTypes
  BY <1>1 DEF RowTypes, Statuses
<1>3. job' = [job EXCEPT ![creator] = listed]
  BY DEF InsertTask
<1>4. job'[creator] = listed /\ \A i \in Jobs \ {creator} : job'[i] = job[i]
  BY <1>1, <1>3 DEF RemoteTypes
<1>5. CASE job[creator].status # "none"
  <2>1. job' \in [Jobs -> RowTypes] /\ \A i \in Jobs : job'[i].status = job[i].status /\ job'[i].owner = job[i].owner
    BY <1>1, <1>2, <1>3, <1>4, <1>5 DEF RemoteTypes
  <2> QED
    BY <2>1, NoneServes DEF InsertTask, RemoteTypes, Line
<1>6. CASE job[creator].status = "none"
  <2>1. job'[creator].status = "queued" /\ job'[creator].owner = job[creator].owner
    BY <1>1, <1>4, <1>6 DEF RowTypes
  <2>2. RemoteTypes'
    BY <1>2, <1>3, JobsAreNumbers DEF InsertTask, RemoteTypes
  <2>3. ASSUME NEW i \in Jobs, i = creator PROVE Row(i)'
    BY <1>6, <2>1, <2>3 DEF InsertTask, Row, Leased, Settled
  <2>4. ASSUME NEW i \in Jobs \ {creator} PROVE Row(i)'
    BY <1>4 DEF InsertTask, Row
  <2>5. ASSUME NEW t \in Services PROVE Serving(t)'
    <3>1. Serving(t) /\ Row(creator)
      BY <1>1
    <3>2. Doing(t) \notin {"idle", "scan", "expire"} => service[t].job \in Jobs \ {creator}
      BY <1>6, <3>1 DEF RemoteTypes, ServiceTypes, Serving, Holding, Doing, Row, Steps
    <3> QED
      BY <1>4, <3>1, <3>2 DEF InsertTask, Serving, Holding, Doing
  <2>6. Sole' /\ Line'
    BY DEF InsertTask, Sole, Line, Holding, Doing
  <2> QED
    BY <2>2, <2>3, <2>4, <2>5, <2>6
<1> QED
  BY <1>5, <1>6

-----------------------------------------------------------------------------
(* Handlers at work *)

\* The record of a handler, at work or not, is in its types.
LEMMA HandlerTyped ==
    ASSUME RemoteInv, NEW s \in Services
    PROVE  /\ service[s] \in ServiceTypes /\ Unserved \in ServiceTypes
           /\ \A e : service' = [service EXCEPT ![s] = e] => service'[s] = e
BY DEF RemoteInv, RemoteTypes, ServiceTypes, Unserved, Steps

\* A request that is taken up leases nothing yet.
LEMMA RequestsKeep ==
    ASSUME RemoteInv, NEW s \in Services, BeginClaim(s) \/ BeginReport(s)
    PROVE  RemoteInv'
<1> USE DEF RemoteInv
<1>1. ASSUME NEW e \in ServiceTypes, Request(s, e), UNCHANGED <<job, handed, told, settled, creator, pairing>>,
             e.by # 0, e.at \in {"scan", "check"},
             e.at = "check" => e.job \in Jobs /\ handed[e.job] # <<>> /\ e.as \in Reports
      PROVE  RemoteInv'
  <2> DEFINE f == IF device.enabled THEN e ELSE service[s]
  <2>1. f \in ServiceTypes /\ service' = [service EXCEPT ![s] = f] /\ service'[s] = f
    BY <1>1, HandlerTyped DEF Request
  <2>2. Serving(s)' /\ ~Holding(s)'
    BY <1>1, <2>1 DEF Request, Serving, Holding, Doing
  <2>3. device' \in DeviceTypes /\ Line'
    BY <1>1, SweepKeeps DEF Request
  <2> QED
    BY <1>1, <2>1, <2>2, <2>3, OneServes
<1>2. CASE BeginClaim(s)
  <2> DEFINE e == [Unserved EXCEPT !.at = "scan", !.by = pairing]
  <2>1. e \in ServiceTypes /\ e.by # 0 /\ e.at = "scan"
    BY DEF Unserved, ServiceTypes, Steps, RemoteTypes
  <2> QED
    BY <1>1, <1>2, <2>1 DEF BeginClaim
<1>3. CASE BeginReport(s)
  <2>1. PICK j \in Jobs : \E r \in told[j] : \E as \in Reports :
            Request(s, [Unserved EXCEPT !.at = "check", !.by = pairing, !.job = j, !.revision = r, !.as = as])
    BY <1>3 DEF BeginReport, Reports
  <2>2. PICK r \in told[j], as \in Reports :
            Request(s, [Unserved EXCEPT !.at = "check", !.by = pairing, !.job = j, !.revision = r, !.as = as])
    BY <2>1
  <2> DEFINE e == [Unserved EXCEPT !.at = "check", !.by = pairing, !.job = j, !.revision = r, !.as = as]
  <2>4. r \in Nat /\ j \in Nat /\ pairing \in Nat \ {0}
    BY JobsAreNumbers DEF RemoteTypes
  <2>5. e \in ServiceTypes
    BY <2>4, HandlerTyped DEF ServiceTypes, Steps
  <2>6. e.by # 0 /\ e.at = "check" /\ e.job = j /\ e.as \in Reports
    BY <2>4 DEF Unserved
  <2>7. handed[j] # <<>>
    BY DEF Row
  <2> HIDE DEF e
  <2> QED
    BY <1>1, <1>3, <2>2, <2>5, <2>6, <2>7 DEF BeginReport, e
<1> QED
  BY <1>2, <1>3

\* A handler that looks, and changes nothing but its own step.
LEMMA LooksKeep ==
    ASSUME RemoteInv, NEW s \in Services, ScanLeases(s) \/ ReadLease(s) \/ CheckHolder(s) \/ BeatByReport(s)
    PROVE  RemoteInv'
<1> USE DEF RemoteInv
<1>1. service[s] \in ServiceTypes /\ Unserved \in ServiceTypes /\ Serving(s)
  BY HandlerTyped
<1>2. device \in DeviceTypes /\ Line
  BY DEF RemoteTypes
<1>3. CASE ScanLeases(s)
  <2> DEFINE found == {<<j, job[j].revision>> : j \in {k \in Jobs : job[k].overdue}}
             e == [service[s] EXCEPT !.at = "expire", !.stale = found]
  <2>1. found \in SUBSET (Jobs \X Nat)
    BY DEF RemoteTypes, RowTypes
  <2>2. service' = [service EXCEPT ![s] = e]
    BY <1>3 DEF ScanLeases, RemoteTypes
  <2> HIDE DEF found
  <2>3. e \in ServiceTypes /\ service'[s] = e
    BY <1>1, <2>1, <2>2, HandlerTyped DEF ServiceTypes, Steps
  <2>4. e.at = "expire" /\ e.by = service[s].by
    BY <1>1 DEF ServiceTypes
  <2> HIDE DEF e
  <2>5. Serving(s)' /\ ~Holding(s)'
    BY <1>1, <1>3, <2>3, <2>4 DEF ScanLeases, Serving, Holding, Doing
  <2> QED
    BY <1>2, <1>3, <2>2, <2>3, <2>5, OneServes DEF ScanLeases, Line
<1>4. ASSUME ReadLease(s), NEW at \in {"hand", "release"},
             at = "hand" => job[service[s].job].owner # 0,
             service' = [service EXCEPT ![s].at = at, ![s].revision = job[service[s].job].revision]
      PROVE  RemoteInv'
  <2> DEFINE e == [service[s] EXCEPT !.at = at, !.revision = job[service[s].job].revision]
  <2>1. service' = [service EXCEPT ![s] = e]
    BY <1>4 DEF RemoteTypes
  <2>2. Holding(s) /\ service[s].job \in Jobs /\ service[s].by # 0
    BY <1>1, <1>4 DEF ReadLease, Serving, Holding, Doing
  <2>3. e \in ServiceTypes /\ service'[s] = e
    BY <1>1, <2>1, <2>2, HandlerTyped DEF ServiceTypes, Steps, RemoteTypes, RowTypes
  <2>4. e.at = at /\ e.by = service[s].by /\ e.job = service[s].job
    BY <1>1 DEF ServiceTypes
  <2> HIDE DEF e
  <2>5. Serving(s)'
    BY <1>1, <1>4, <2>2, <2>3, <2>4 DEF ReadLease, Serving, Holding, Doing
  <2> QED
    BY <1>2, <1>4, <2>1, <2>2, <2>3, <2>4, <2>5, OneServes DEF ReadLease, Line
<1>5. ASSUME NEW at \in {"beat", "apply"}, service' = [service EXCEPT ![s].at = at], Doing(s) \in {"check", "beat"},
             UNCHANGED <<job, handed, told, settled, creator, pairing>>, device' \in DeviceTypes, Line',
             job[service[s].job].owner \in {0, service[s].by}
      PROVE  RemoteInv'
  <2> DEFINE e == [service[s] EXCEPT !.at = at]
  <2>1. service' = [service EXCEPT ![s] = e]
    BY <1>5 DEF RemoteTypes
  <2>2. e \in ServiceTypes /\ service'[s] = e
    BY <1>1, <2>1, HandlerTyped DEF ServiceTypes, Steps
  <2>3. e.at = at /\ e.by = service[s].by /\ e.job = service[s].job /\ e.as = service[s].as
    BY <1>1 DEF ServiceTypes
  <2> HIDE DEF e
  <2>4. Serving(s)' /\ ~Holding(s)'
    BY <1>1, <1>5, <2>2, <2>3 DEF Serving, Holding, Doing
  <2> QED
    BY <1>5, <2>1, <2>2, <2>4, OneServes
<1>6. ASSUME Conclude(s), UNCHANGED <<job, handed, told, settled, creator, pairing, device>> PROVE RemoteInv'
  <2>1. service'[s] = Unserved
    BY <1>6, HandlerTyped DEF Conclude
  <2>2. Serving(s)' /\ ~Holding(s)'
    BY <2>1 DEF Serving, Holding, Doing, Unserved
  <2> QED
    BY <1>1, <1>2, <1>6, <2>2, OneServes DEF Conclude, Line
<1>7. CASE CheckHolder(s)
  <2>1. CASE HoldsTask(s) /\ Proceed(s, "beat")
    BY <1>2, <1>5, <1>7, <2>1 DEF CheckHolder, HoldsTask, Proceed, Line
  <2>2. CASE Conclude(s)
    BY <1>6, <1>7, <2>2 DEF CheckHolder
  <2> QED
    BY <1>7, <2>1, <2>2 DEF CheckHolder
<1>8. CASE BeatByReport(s)
  <2>1. job[service[s].job].owner \in {0, service[s].by}
    BY <1>1, <1>8 DEF BeatByReport, Serving
  <2>2. CASE MayBeat
    <3>1. device' \in DeviceTypes /\ Line'
      BY <1>8, <2>2, BeatKeeps DEF BeatByReport, MayBeat, Live
    <3> QED
      BY <1>5, <1>8, <2>1, <2>2, <3>1 DEF BeatByReport, Proceed
  <2>3. CASE ~MayBeat
    BY <1>6, <1>8, <2>3 DEF BeatByReport
  <2> QED
    BY <2>2, <2>3
<1>9. CASE ReadLease(s)
  <2>1. CASE Conclude(s)
    BY <1>6, <1>9, <2>1 DEF ReadLease
  <2>2. CASE ~Conclude(s)
    BY <1>4, <1>9, <2>2 DEF ReadLease
  <2> QED
    BY <2>1, <2>2
<1> QED
  BY <1>3, <1>7, <1>8, <1>9

\* A lease is swept from whoever holds it; what it leased may still go out.
LEMMA ExpireKeeps == ASSUME RemoteInv, NEW s \in Services, ExpireLease(s) PROVE RemoteInv'
<1> USE DEF RemoteInv
<1>1. service[s] \in ServiceTypes /\ Serving(s)
  BY HandlerTyped
<1>2. PICK d \in service[s].stale :
         /\ TransitionRemoteExecutionTask(s, d[1], d[2], "expired")
         /\ service' = [service EXCEPT ![s].stale = service[s].stale \ {d}]
  BY DEF ExpireLease
<1>3. d[1] \in Jobs /\ d[2] \in Nat
  BY <1>1 DEF ServiceTypes
<1> DEFINE e == [service[s] EXCEPT !.stale = service[s].stale \ {d}]
<1>4. service' = [service EXCEPT ![s] = e]
  BY <1>2 DEF RemoteTypes
<1>5. e \in ServiceTypes /\ service'[s] = e
  BY <1>1, <1>4, HandlerTyped DEF ServiceTypes
<1>6. e.at = "expire" /\ e.by = service[s].by
  BY <1>1 DEF ServiceTypes, ExpireLease, Doing
<1> HIDE DEF e
<1>7. /\ job' \in [Jobs -> RowTypes] /\ settled' \in [Jobs -> EndTypes]
      /\ \A i \in Jobs : Row(i)'
      /\ \A i \in Jobs :
            /\ job'[i].owner \in {0, job[i].owner}
            /\ job'[i].status = job[i].status \/ (i = d[1] /\ job'[i].status = "expired")
  BY <1>2, <1>3, TransitionKeepsRows DEF ExpireLease, Row, Reports
<1>8. Serving(s)' /\ ~Holding(s)'
  BY <1>1, <1>5, <1>6 DEF ExpireLease, Serving, Holding, Doing
<1>9. \A t \in Services \ {s} : service'[t] = service[t]
  BY <1>4 DEF RemoteTypes
<1>10. ASSUME NEW t \in Services \ {s} PROVE Serving(t)'
  <2>1. service'[t] = service[t] /\ UNCHANGED handed
    BY <1>9 DEF ExpireLease
  <2> DEFINE to == "expired"
  <2>2. to \in Reports \cup {"cancelled", "expired"} /\ to = "expired"
    OBVIOUS
  <2>3. \A i \in Jobs :
            /\ job'[i].owner \in {0, job[i].owner}
            /\ job'[i].status = job[i].status \/ (i = d[1] /\ job'[i].status = to)
    BY <1>7
  <2> HIDE DEF to
  <2> QED
    BY <1>3, <2>1, <2>2, <2>3, TransitionKeepsOthers
<1>11. RemoteTypes'
  BY <1>4, <1>5, <1>7 DEF ExpireLease, RemoteTypes
<1>12. Sole' /\ Line'
  BY <1>8, <1>9 DEF ExpireLease, Sole, Line, Holding, Doing
<1> QED
  BY <1>7, <1>8, <1>10, <1>11, <1>12

\* Nobody had a task that was queued.
LEMMA ClaimKeeps == ASSUME RemoteInv, NEW s \in Services, ClaimRemoteExecutionTask(s) PROVE RemoteInv'
<1> USE DEF RemoteInv
<1>1. service[s] \in ServiceTypes /\ Unserved \in ServiceTypes /\ Serving(s)
  BY HandlerTyped
<1>2. CASE Conclude(s) /\ UNCHANGED job
  <2>1. service'[s] = Unserved
    BY <1>2, HandlerTyped DEF Conclude
  <2>2. Serving(s)' /\ ~Holding(s)'
    BY <2>1 DEF Serving, Holding, Doing, Unserved
  <2>3. device \in DeviceTypes
    BY DEF RemoteTypes
  <2> QED
    BY <1>1, <1>2, <2>2, <2>3, OneServes DEF ClaimRemoteExecutionTask, Conclude, Line
<1>3. ASSUME NEW j \in Queued,
             job' = [job EXCEPT ![j] = [status |-> "leased", owner |-> service[s].by,
                                        revision |-> job[j].revision + 1, overdue |-> FALSE]],
             service' = [service EXCEPT ![s].at = "read", ![s].job = j]
      PROVE  RemoteInv'
  <2> DEFINE leased == [status |-> "leased", owner |-> service[s].by, revision |-> job[j].revision + 1, overdue |-> FALSE]
             e == [service[s] EXCEPT !.at = "read", !.job = j]
  <2>1. j \in Jobs /\ j \in Nat /\ job[j].status = "queued" /\ job[j] \in RowTypes /\ Row(j)
    BY JobsAreNumbers DEF Queued, RemoteTypes
  <2>2. service[s].by # 0 /\ service[s].by \in Nat
    BY <1>1 DEF ClaimRemoteExecutionTask, Serving, ServiceTypes
  <2>3. leased \in RowTypes
    BY <2>1, <2>2 DEF RowTypes, Statuses
  <2>4. job'[j] = leased /\ \A i \in Jobs \ {j} : job'[i] = job[i]
    BY <1>3, <2>1 DEF RemoteTypes
  <2>5. service' = [service EXCEPT ![s] = e]
    BY <1>3 DEF RemoteTypes
  <2>6. e \in ServiceTypes /\ service'[s] = e /\ \A t \in Services \ {s} : service'[t] = service[t]
    BY <1>1, <2>1, <2>5, HandlerTyped DEF ServiceTypes, Steps, RemoteTypes
  <2>7. e.at = "read" /\ e.by = service[s].by /\ e.job = j
    BY <1>1 DEF ServiceTypes
  <2>8. leased.status = "leased" /\ leased.owner = service[s].by
    OBVIOUS
  <2> HIDE DEF e
  <2>9. RemoteTypes'
    <3>1. job' = [job EXCEPT ![j] = leased]
      BY <1>3
    <3> HIDE DEF leased
    <3> QED
      BY <2>3, <2>5, <2>6, <3>1 DEF ClaimRemoteExecutionTask, RemoteTypes
  <2> HIDE DEF leased
  <2>10. ASSUME NEW i \in Jobs PROVE Row(i)'
    BY <2>1, <2>2, <2>4, <2>8 DEF ClaimRemoteExecutionTask, Row, Leased, Settled
  <2>11. ASSUME NEW t \in Services, Doing(t) \notin {"idle", "scan", "expire"} PROVE service[t].job \in Jobs \ {j}
    <3>1. Serving(t) /\ service[t] \in ServiceTypes
      BY HandlerTyped
    <3> QED
      BY <2>1, <2>11, <3>1 DEF ServiceTypes, Serving, Holding, Doing, Row, Steps
  <2>12. Serving(s)'
    BY <2>1, <2>2, <2>4, <2>6, <2>7, <2>8 DEF ClaimRemoteExecutionTask, Serving, Holding, Doing, Row
  <2>13. ASSUME NEW t \in Services \ {s} PROVE Serving(t)'
    BY <2>4, <2>6, <2>11 DEF ClaimRemoteExecutionTask, Serving, Holding, Doing
  <2>14. Sole'
    BY <2>6, <2>7, <2>11 DEF Sole, Holding, Doing
  <2>15. Line'
    BY DEF ClaimRemoteExecutionTask, Line
  <2> QED
    BY <2>9, <2>10, <2>12, <2>13, <2>14, <2>15
<1> QED
  BY <1>2, <1>3 DEF ClaimRemoteExecutionTask

\* The only handler that holds a task hands it out or keeps it back.
LEMMA HandOutKeeps == ASSUME RemoteInv, NEW s \in Services, HandOut(s) PROVE RemoteInv'
<1> USE DEF RemoteInv
<1> DEFINE j == service[s].job
<1>1. service[s] \in ServiceTypes /\ Unserved \in ServiceTypes /\ Serving(s) /\ Holding(s)
  BY HandlerTyped DEF HandOut, Holding
<1>2. /\ j \in Jobs /\ handed[j] = <<>> /\ service[s].by \in Nat /\ service[s].revision \in Nat
      /\ job[j].status \in {"leased", "expired"} /\ job[j].owner \in {0, service[s].by}
  BY <1>1 DEF Serving, ServiceTypes
<1>3. CASE ~MayBeat
  <2> DEFINE e == [service[s] EXCEPT !.at = "release"]
  <2>1. service' = [service EXCEPT ![s] = e]
    BY <1>3 DEF HandOut, Proceed, RemoteTypes
  <2>2. e \in ServiceTypes /\ service'[s] = e
    BY <1>1, <2>1, HandlerTyped DEF ServiceTypes, Steps
  <2>3. e.at = "release" /\ e.by = service[s].by /\ e.job = j
    BY <1>1 DEF ServiceTypes
  <2> HIDE DEF e
  <2>4. Serving(s)'
    BY <1>1, <1>3, <2>2, <2>3 DEF HandOut, Serving, Holding, Doing
  <2>5. device \in DeviceTypes
    BY DEF RemoteTypes
  <2> QED
    BY <1>1, <1>3, <2>1, <2>2, <2>3, <2>4, <2>5, OneServes DEF HandOut, Line
<1>4. CASE MayBeat
  <2>1. device' \in DeviceTypes /\ Line'
    BY <1>4, BeatKeeps DEF HandOut, MayBeat, Live
  <2>2. handed' = [handed EXCEPT ![j] = Append(handed[j], service[s].by)]
    BY <1>4 DEF HandOut
  <2>3. handed'[j] = <<service[s].by>> /\ \A i \in Jobs \ {j} : handed'[i] = handed[i]
    BY <1>2, <2>2 DEF RemoteTypes
  <2>4. handed' \in [Jobs -> Seq(Nat)]
    BY <1>2, <2>2 DEF RemoteTypes
  <2>5. \/ told' = [told EXCEPT ![j] = told[j] \cup {service[s].revision}]
        \/ told' = told
    BY <1>4 DEF HandOut
  <2>6. told' \in [Jobs -> SUBSET Nat] /\ \A i \in Jobs \ {j} : told'[i] = told[i]
    BY <1>2, <2>5 DEF RemoteTypes
  <2>7. service' = [service EXCEPT ![s] = Unserved]
    BY <1>4 DEF HandOut, Conclude
  <2>8. service'[s] = Unserved /\ \A t \in Services \ {s} : service'[t] = service[t]
    BY <2>7 DEF RemoteTypes
  <2>9. <<service[s].by>> # <<>> /\ Len(<<service[s].by>>) = 1
    OBVIOUS
  <2>10. ASSUME NEW i \in Jobs PROVE Row(i)'
    <3>1. CASE i = j
      <4>1. Row(i) /\ job'[i] = job[i] /\ settled'[i] = settled[i]
        BY DEF HandOut
      <4>2. handed'[i] = <<service[s].by>> /\ job[i].status \in {"leased", "expired"} /\ job[i].owner \in {0, service[s].by}
        BY <1>2, <2>3, <3>1
      <4> QED
        BY <2>9, <4>1, <4>2 DEF Row, Leased, Settled
    <3>2. CASE i # j
      BY <2>3, <2>6, <3>2 DEF HandOut, Row
    <3> QED
      BY <3>1, <3>2
  <2>11. Serving(s)'
    BY <2>8 DEF Serving, Holding, Doing, Unserved
  <2>12. ASSUME NEW t \in Services \ {s} PROVE Serving(t)'
    <3>1. Serving(t) /\ (Holding(t) => service[t].job # j)
      BY <1>1 DEF Sole
    <3> QED
      BY <2>3, <2>8, <2>9, <3>1 DEF HandOut, Serving, Holding, Doing
  <2>13. Sole'
    BY <2>8 DEF Sole, Holding, Doing, Unserved
  <2>14. RemoteTypes'
    BY <1>1, <2>1, <2>4, <2>6, <2>7 DEF HandOut, RemoteTypes
  <2> QED
    BY <2>1, <2>10, <2>11, <2>12, <2>13, <2>14
<1> QED
  BY <1>3, <1>4

\* A release cancels a task that is not out; a report moves one that is, for
\* the pairing that owned it when it was looked at.
LEMMA EndsKeep == ASSUME RemoteInv, NEW s \in Services, releasePeerExecutionLease(s) \/ ApplyReport(s) PROVE RemoteInv'
<1> USE DEF RemoteInv
<1> DEFINE j == service[s].job
           r == service[s].revision
<1>1. service[s] \in ServiceTypes /\ Unserved \in ServiceTypes /\ Serving(s) /\ r \in Nat
  BY HandlerTyped DEF ServiceTypes
<1>2. ASSUME NEW to \in Reports \cup {"cancelled", "expired"}, j \in Jobs, Conclude(s),
             TransitionRemoteExecutionTask(s, j, r, to),
             to = "cancelled" => handed[j] = <<>>,
             to \in Reports => handed[j] # <<>> /\ job[j].owner \in {0, service[s].by},
             told' \in [Jobs -> SUBSET Nat], \A i \in Jobs : told'[i] # {} => handed[i] # <<>>,
             \A t \in Services \ {s} : Holding(t) => service[t].job # j,
             UNCHANGED <<handed, device, pairing, creator>>
      PROVE  RemoteInv'
  <2>1. /\ job' \in [Jobs -> RowTypes] /\ settled' \in [Jobs -> EndTypes]
        /\ \A i \in Jobs : Row(i)'
        /\ \A i \in Jobs :
              /\ job'[i].owner \in {0, job[i].owner}
              /\ job'[i].status = job[i].status \/ (i = j /\ job'[i].status = to)
    BY <1>1, <1>2, TransitionKeepsRows
  <2>2. service'[s] = Unserved /\ \A t \in Services \ {s} : service'[t] = service[t]
    BY <1>2 DEF Conclude, RemoteTypes
  <2>3. Serving(s)'
    BY <2>2 DEF Serving, Holding, Doing, Unserved
  <2>4. ASSUME NEW t \in Services \ {s} PROVE Serving(t)'
    BY <1>2, <2>1, <2>2, TransitionKeepsOthers
  <2>5. Sole' /\ Line'
    BY <1>2, <2>2 DEF Sole, Line, Holding, Doing, Unserved
  <2>6. RemoteTypes'
    BY <1>1, <1>2, <2>1 DEF Conclude, RemoteTypes
  <2> QED
    BY <2>1, <2>3, <2>4, <2>5, <2>6
<1>3. CASE releasePeerExecutionLease(s)
  <2>1. Holding(s) /\ j \in Jobs /\ handed[j] = <<>>
    BY <1>1, <1>3 DEF releasePeerExecutionLease, Serving, Holding
  <2>2. \A t \in Services \ {s} : Holding(t) => service[t].job # j
    BY <2>1 DEF Sole
  <2>3. told' \in [Jobs -> SUBSET Nat] /\ \A i \in Jobs : told'[i] # {} => handed[i] # <<>>
    BY <1>3 DEF releasePeerExecutionLease, RemoteTypes, Row
  <2> QED
    BY <1>2, <1>3, <2>1, <2>2, <2>3 DEF releasePeerExecutionLease, Reports
<1>4. CASE ApplyReport(s)
  <2>1. j \in Jobs /\ handed[j] # <<>> /\ service[s].as \in Reports /\ job[j].owner \in {0, service[s].by}
    BY <1>1, <1>4 DEF ApplyReport, Serving
  <2>2. \A t \in Services \ {s} : Holding(t) => service[t].job # j
    BY <2>1 DEF Serving
  <2>3. told' \in [Jobs -> SUBSET Nat] /\ \A i \in Jobs : told'[i] # {} => handed[i] # <<>>
    <3>1. CASE told' = [told EXCEPT ![j] = told[j] \cup {r + 1}]
      BY <1>1, <2>1, <3>1 DEF RemoteTypes, Row
    <3>2. CASE UNCHANGED told
      BY <3>2 DEF RemoteTypes, Row
    <3> QED
      BY <1>4, <3>1, <3>2 DEF ApplyReport
  <2>4. service[s].as \notin {"cancelled", "expired"}
    BY <2>1 DEF Reports
  <2> QED
    BY <1>2, <1>4, <2>1, <2>2, <2>3, <2>4 DEF ApplyReport
<1> QED
  BY <1>3, <1>4

-----------------------------------------------------------------------------
(* Together *)

\* Every step, and every stutter, keeps the invariant.
LEMMA StepsKeep == RemoteInv /\ [RemoteNext]_remoteVars => RemoteInv'
<1> SUFFICES ASSUME RemoteInv, [RemoteNext]_remoteVars PROVE RemoteInv'
  OBVIOUS
<1>1. ASSUME NEW s \in Services,
             \/ BeginClaim(s) \/ ScanLeases(s) \/ ExpireLease(s) \/ ClaimRemoteExecutionTask(s)
             \/ ReadLease(s) \/ HandOut(s) \/ releasePeerExecutionLease(s)
             \/ BeginReport(s) \/ CheckHolder(s) \/ BeatByReport(s) \/ ApplyReport(s)
      PROVE  RemoteInv'
  BY <1>1, RequestsKeep, LooksKeep, ExpireKeeps, ClaimKeeps, HandOutKeeps, EndsKeep
<1>2. CASE UNCHANGED remoteVars
  BY <1>2, NoneServes DEF remoteVars, RemoteInv, RemoteTypes, Line
<1> QED
  BY <1>1, <1>2, OwnersKeep, InsertKeeps DEF RemoteNext

\* What went out once and ended once is what the rows of the invariant say.
LEMMA InvImplies == RemoteInv => HandedOnce
<1> SUFFICES ASSUME RemoteInv PROVE HandedOnce
  OBVIOUS
<1>1. ASSUME NEW j \in Jobs
      PROVE  /\ Len(handed[j]) <= 1
             /\ settled[j] # Unsettled => job[j].status = settled[j].as
             /\ job[j].status = "running" => handed[j] = <<job[j].owner>>
             /\ settled[j].as \in {"succeeded", "failed"} => handed[j] = <<settled[j].by>>
             /\ settled[j].as = "cancelled" => handed[j] = <<>>
  <2>1. Row(j)
    BY DEF RemoteInv
  <2> QED
    BY <2>1 DEF Row, Settled, Unsettled
<1> QED
  BY <1>1 DEF HandedOnce, RemoteInv, Line

\* Whatever the number of tasks, pairings, requests and handlers, and whatever
\* is lost, swept, released, switched off or paired anew in between
\* (internal/db/execution_transport.go, internal/server/execution_transport.go):
\* a task goes out once, and its end is final and what its pairing reported.
THEOREM HandedOnceHolds == RemoteSpec => []HandedOnce
<1>1. RemoteInit => RemoteInv
  BY InitHolds
<1>2. RemoteInv /\ [RemoteNext]_remoteVars => RemoteInv'
  BY StepsKeep
<1>3. RemoteInv => HandedOnce
  BY InvImplies
<1> QED
  BY <1>1, <1>2, <1>3, PTL DEF RemoteSpec
=============================================================================
